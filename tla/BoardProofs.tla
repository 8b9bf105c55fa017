------------------------------ MODULE BoardProofs ------------------------------
(* Theorems about Board, for every habitat: dependencies have no circle, the  *)
(* stored status agrees with the Tasks, and work begins in order.  The import *)
(* of a manifest over a habitat and the activation of Missions by a Release   *)
(* are instances over variables of their own.                                 *)
EXTENDS Board, Integers, Sequences, FiniteSetTheorems, TLAPS

CONSTANTS
  Requests, Contents, Imported, MaxChanges, MaxStops, MaxLapses, \* of ImportPublication
  Findings, Releases, Gates, Workers, Order, Link, Met, Deadlined, Caps,
  MaxFaults, MaxRevisions                                        \* of ReleaseActivation

VARIABLES
  row, coord, attempts, habitat, import, changes, stops, lapses,
  finding, mission, epoch, proj, work, faults, edits

Import == INSTANCE ImportPublication WITH call <- import
Release == INSTANCE ReleaseActivation WITH MaxEdits <- MaxRevisions

(***************************************************************************)
(* The board                                                               *)
(***************************************************************************)
(* Fewer edges make no circle.                                                *)
LEMMA FewerEdges ==
    ASSUME NEW E, NEW F, NEW S, Acyclic(E, S), F \subseteq E
    PROVE  Acyclic(F, S)
  BY Zenon DEF Acyclic

(* Nor do edges from a node that nothing depends on.                          *)
LEMMA EdgesFromNewNode ==
    ASSUME NEW E, NEW S, Acyclic(E, S), NEW t, NEW D, t \notin D,
           \A x \in S : <<x, t>> \notin E
    PROVE  Acyclic(E \cup ({t} \X D), S)
<1>1. SUFFICES ASSUME NEW X \in SUBSET S, X # {}
               PROVE  \E x \in X : \A y \in X : <<x, y>> \notin E \cup ({t} \X D)
  BY Zenon DEF Acyclic
<1>2. CASE X = {t}
  BY <1>1, <1>2
<1>3. CASE X # {t}
  <2>1. X \ {t} \in SUBSET S /\ X \ {t} # {}
    BY <1>1, <1>3
  <2>2. PICK x \in X \ {t} : \A y \in X \ {t} : <<x, y>> \notin E
    BY <2>1 DEF Acyclic
  <2>3. \A y \in X : <<x, y>> \notin E
    BY <2>2
  <2>4. \A y \in X : <<x, y>> \notin {t} \X D
    BY <2>2
  <2>5. QED
    BY <2>2, <2>3, <2>4
<1>4. QED
  BY <1>2, <1>3

LEMMA ReachHolds ==
    ASSUME NEW E, NEW S, NEW x \in S
    PROVE  x \in Reach(E, S, x) /\ Closed(E, S, Reach(E, S, x))
  BY Zenon DEF Reach, Closed

(* Nor does an edge whose end does not reach its beginning: the check of the  *)
(* code, which walks from the end, is enough.                                 *)
LEMMA CheckedEdge ==
    ASSUME NEW E, NEW S, Acyclic(E, S), NEW from \in S, NEW to \in S,
           ~WouldCreateCycle(E, S, from, to)
    PROVE  Acyclic(E \cup {<<from, to>>}, S)
<1>1. SUFFICES ASSUME NEW X \in SUBSET S, X # {}
               PROVE  \E x \in X : \A y \in X : <<x, y>> \notin E \cup {<<from, to>>}
  BY Zenon DEF Acyclic
<1> DEFINE R == Reach(E, S, to)
<1>2. to \in R /\ Closed(E, S, R) /\ from \notin R
  BY ReachHolds, Zenon DEF WouldCreateCycle
<1> HIDE DEF R
<1>3. CASE X \cap R = {}
  <2>1. PICK x \in X : \A y \in X : <<x, y>> \notin E
    BY <1>1, Zenon DEF Acyclic
  <2>2. \A y \in X : y # to
    BY <1>2, <1>3
  <2>3. QED
    BY <2>1, <2>2
<1>4. CASE X \cap R # {}
  <2>1. PICK x \in X \cap R : \A y \in X \cap R : <<x, y>> \notin E
    <3>1. X \cap R \in SUBSET S
      BY <1>1
    <3>2. QED
      BY <1>4, <3>1, Zenon DEF Acyclic
  <2>2. x # from
    BY <1>2
  <2>3. \A y \in X : <<x, y>> \in E => y \in R
    BY <1>1, <1>2, Zenon DEF Closed
  <2>4. QED
    BY <2>1, <2>2, <2>3
<1>5. QED
  BY <1>3, <1>4
-----------------------------------------------------------------------------
(* Every step of a Task is a commit: of a Task that exists, to a status in    *)
(* which it exists, never back from a finished one, and from pending only     *)
(* when the Task can be claimed.                                              *)
Commits(t, s) ==
  /\ Commit(t, s) /\ status[t] # "absent" /\ s \in TaskStatuses \ {"absent"}
  /\ status[t] \in Finished => s \in Finished
  /\ status[t] = "pending" => CheckClaimability(t)

LEMMA TaskStepCommits ==
    ASSUME NEW t \in Tasks, TaskStep(t)
    PROVE  \E s \in TaskStatuses : Commits(t, s)
<1>1. CASE Claim(t)
  BY <1>1 DEF Claim, Commits, TaskStatuses, Finished
<1>2. ASSUME NEW s \in TaskStatuses, Advance(t, s) PROVE Commits(t, s)
  BY <1>2 DEF Advance, Onward, Commits, Finished
<1>3. ASSUME NEW s \in TaskStatuses, Setback(t, s) PROVE Commits(t, s)
  BY <1>3 DEF Setback, Setbacks, Commits, Finished
<1>4. ASSUME NEW s \in TaskStatuses, Resume(t, s) PROVE Commits(t, s)
  BY <1>4 DEF Resume, Resumptions, Commits, Finished
<1>5. QED
  BY <1>1, <1>2, <1>3, <1>4, Zenon DEF TaskStep

LEMMA StatusType == ASSUME NEW m PROVE DeriveMissionStatus(m) \in MissionStatuses
  BY DEF DeriveMissionStatus, MissionStatuses, ActiveMissions

LEMMA ColumnType ==
    ASSUME NEW s
    PROVE  ResolveTargetColumn(s) \in {NoColumn} \cup 1..Columns
<1>1. Columns \in Nat \ {0} /\ Terminal \in BOOLEAN
  BY BoardAssumption
<1>2. s \in {"not_started", "in_progress", "review", "done"} \/
      s \notin {"not_started", "in_progress", "review", "done"}
  OBVIOUS
<1>3. QED
  BY <1>1, <1>2 DEF ResolveTargetColumn, NonTerminal, NoColumn
-----------------------------------------------------------------------------
LEMMA InitType == ASSUME Init PROVE TypeOK
<1>1. /\ status = [t \in Tasks |-> IF t \in Unpublished THEN "absent" ELSE "pending"]
      /\ stored = [m \in Missions |-> "not_started"] /\ column = [m \in Missions |-> 1]
      /\ deps \in SUBSET (Exist \X Exist) /\ mdeps \in SUBSET (Missions \X Missions)
      /\ archived = {} /\ owed = {} /\ astray = {} /\ byHand = {} /\ rewired = FALSE
  BY Zenon DEF Init
<1>2. status \in [Tasks -> TaskStatuses]
  BY <1>1 DEF TaskStatuses
<1>3. Alive = Missions
  BY <1>1 DEF Alive
<1>4. column \in [Missions -> 1..Columns]
  BY <1>1, BoardAssumption
<1>5. stored \in [Missions -> MissionStatuses \cup {"deleted"}]
  BY <1>1 DEF MissionStatuses, ActiveMissions
<1>6. QED
  BY <1>1, <1>2, <1>3, <1>4, <1>5 DEF TypeOK

LEMMA CommitType ==
    ASSUME TypeOK, NEW t \in Tasks, NEW s \in TaskStatuses, Commits(t, s)
    PROVE  TypeOK'
<1>1. MissionOf \in [Tasks -> Missions]
  BY BoardAssumption
<1>2. /\ status' = [status EXCEPT ![t] = s]
      /\ owed' = owed \cup {MissionOf[t]}
      /\ UNCHANGED <<deps, mdeps, stored, column, archived, astray, byHand, rewired>>
      /\ status[t] # "absent" /\ s # "absent"
  BY DEF Commits, Commit
<1>3. Exist' = Exist /\ Alive' = Alive
  BY <1>2 DEF TypeOK, Exist, Alive
<1>4. status' \in [Tasks -> TaskStatuses] /\ owed' \subseteq Missions
  BY <1>1, <1>2 DEF TypeOK
<1>5. QED
  BY <1>2, <1>3, <1>4 DEF TypeOK

LEMMA RecalculateType ==
    ASSUME TypeOK, NEW m \in Missions, Recalculate(m)
    PROVE  TypeOK'
<1>1. UNCHANGED <<status, deps, mdeps, archived, rewired>> /\ owed' = owed \ {m}
  BY DEF Recalculate
<1>2. CASE stored[m] = "deleted"
  BY <1>1, <1>2 DEF Recalculate, TypeOK, Exist, Alive
<1>3. CASE stored[m] # "deleted"
  <2> DEFINE s == DeriveMissionStatus(m)
             c == ResolveTargetColumn(s)
  <2>1. s \in MissionStatuses /\ c \in {NoColumn} \cup 1..Columns
    BY StatusType, ColumnType
  <2>2. /\ stored' = [stored EXCEPT ![m] = s]
        /\ column' = [column EXCEPT ![m] = IF c = NoColumn THEN @ ELSE c]
        /\ astray' = astray \ {m} /\ byHand' = byHand \ {m}
    BY <1>3, Zenon DEF Recalculate
  <2> HIDE DEF s, c
  <2>3. s # "deleted"
    BY <2>1 DEF MissionStatuses, ActiveMissions
  <2>4. Alive' = Alive /\ Exist' = Exist
    BY <1>1, <1>3, <2>2, <2>3 DEF TypeOK, Alive, Exist
  <2>5. stored' \in [Missions -> MissionStatuses \cup {"deleted"}]
    BY <2>1, <2>2 DEF TypeOK
  <2>6. column' \in [Missions -> 1..Columns]
    BY <2>1, <2>2 DEF TypeOK
  <2>7. QED
    BY <1>1, <2>2, <2>4, <2>5, <2>6 DEF TypeOK
<1>4. QED
  BY <1>2, <1>3

LEMMA TypeStep == ASSUME TypeOK, [Next]_vars PROVE TypeOK'
<1>1. MissionOf \in [Tasks -> Missions]
  BY BoardAssumption
<1>2. ASSUME NEW t \in Tasks, TaskStep(t) PROVE TypeOK'
  BY <1>2, TaskStepCommits, CommitType
<1>3. ASSUME NEW m \in Missions, Recalculate(m) PROVE TypeOK'
  BY <1>3, RecalculateType
<1>4. CASE Crash
  BY <1>4 DEF Crash, board, TypeOK, Exist, Alive
<1>5. ASSUME NEW t \in Tasks, NEW D \in SUBSET Exist, Publish(t, D) PROVE TypeOK'
  <2>1. /\ status' = [status EXCEPT ![t] = "pending"]
        /\ deps' = deps \cup ({t} \X D) /\ astray' = astray \cup {MissionOf[t]}
        /\ UNCHANGED <<mdeps, stored, column, archived, owed, byHand, rewired>>
    BY <1>5 DEF Publish
  <2>2. Exist' = Exist \cup {t} /\ Alive' = Alive
    BY <2>1 DEF TypeOK, Exist, Alive
  <2>3. status' \in [Tasks -> TaskStatuses]
    BY <2>1 DEF TypeOK, TaskStatuses
  <2>4. QED
    BY <1>1, <2>1, <2>2, <2>3 DEF TypeOK
<1>6. ASSUME NEW t \in Tasks, AssignReserved(t) PROVE TypeOK'
  <2>1. /\ status' = [status EXCEPT ![t] = "claimed"] /\ status[t] = "pending"
        /\ astray' = astray \cup {MissionOf[t]}
        /\ UNCHANGED <<deps, mdeps, stored, column, archived, owed, byHand, rewired>>
    BY <1>6 DEF AssignReserved
  <2>2. Exist' = Exist /\ Alive' = Alive
    BY <2>1 DEF TypeOK, Exist, Alive
  <2>3. status' \in [Tasks -> TaskStatuses]
    BY <2>1 DEF TypeOK, TaskStatuses
  <2>4. QED
    BY <1>1, <2>1, <2>2, <2>3 DEF TypeOK
<1>7. ASSUME NEW t \in Tasks, DeleteTask(t) PROVE TypeOK'
  <2>1. /\ status' = [status EXCEPT ![t] = "absent"] /\ \A x \in Tasks : <<x, t>> \notin deps
        /\ deps' = {e \in deps : e[1] # t} /\ astray' = astray \cup {MissionOf[t]}
        /\ UNCHANGED <<mdeps, stored, column, archived, owed, byHand, rewired>>
    BY <1>7 DEF DeleteTask
  <2>2. Exist' = Exist \ {t} /\ Alive' = Alive
    BY <2>1 DEF TypeOK, Exist, Alive
  <2>3. status' \in [Tasks -> TaskStatuses]
    BY <2>1 DEF TypeOK, TaskStatuses
  <2>4. deps' \subseteq Exist' \X Exist'
    BY <2>1, <2>2 DEF TypeOK, Exist
  <2>5. QED
    BY <1>1, <2>1, <2>2, <2>3, <2>4 DEF TypeOK
<1>8. ASSUME NEW x \in Tasks, NEW y \in Tasks, AddTaskDependency(x, y) \/ RemoveTaskDependency(x, y)
      PROVE  TypeOK'
  BY <1>8 DEF AddTaskDependency, RemoveTaskDependency, TypeOK, Exist, Alive
<1>9. ASSUME NEW m \in Missions, NEW n \in Missions,
             AddMissionDependency(m, n) \/ RemoveMissionDependency(m, n)
      PROVE  TypeOK'
  BY <1>9 DEF AddMissionDependency, RemoveMissionDependency, TypeOK, Exist, Alive
<1>10. ASSUME NEW m \in Missions, NEW D \in SUBSET Missions, NEW blocks \in BOOLEAN,
              EditEdges(m, D, blocks)
       PROVE  TypeOK'
  BY <1>10 DEF EditEdges, TypeOK, Exist, Alive
<1>11. ASSUME NEW m \in Missions, NEW s \in MissionStatuses, EditStatus(m, s) PROVE TypeOK'
  <2>1. /\ stored' = [stored EXCEPT ![m] = s] /\ m \in Alive
        /\ astray' = astray \cup {m} /\ byHand' = byHand \cup {m}
        /\ UNCHANGED <<status, deps, mdeps, column, archived, owed, rewired>>
    BY <1>11 DEF EditStatus
  <2>2. s # "deleted"
    BY DEF MissionStatuses, ActiveMissions
  <2>3. Exist' = Exist /\ Alive' = Alive
    BY <2>1, <2>2 DEF TypeOK, Exist, Alive
  <2>4. QED
    BY <2>1, <2>3 DEF TypeOK
<1>12. ASSUME NEW m \in Missions, NEW c \in 1..Columns, MoveMissionToColumn(m, c) PROVE TypeOK'
  <2>1. /\ column' = [column EXCEPT ![m] = c] /\ astray' = astray \cup {m}
        /\ UNCHANGED <<status, deps, mdeps, stored, archived, owed, byHand, rewired>>
    BY <1>12 DEF MoveMissionToColumn
  <2>2. Exist' = Exist /\ Alive' = Alive
    BY <2>1 DEF Exist, Alive
  <2>3. QED
    BY <2>1, <2>2 DEF TypeOK
<1>13. ASSUME NEW m \in Missions, Archive(m) PROVE TypeOK'
  BY <1>13 DEF Archive, TypeOK, Exist, Alive
<1>14. ASSUME NEW m \in Missions, DeleteMission(m) PROVE TypeOK'
  <2>1. /\ stored' = [stored EXCEPT ![m] = "deleted"]
        /\ status' = [t \in Tasks |-> IF MissionOf[t] = m THEN "absent" ELSE status[t]]
        /\ deps' = {e \in deps : MissionOf[e[1]] # m /\ MissionOf[e[2]] # m}
        /\ mdeps' = {e \in mdeps : e[1] # m} /\ \A n \in Missions : <<n, m>> \notin mdeps
        /\ astray' = astray \ {m} /\ byHand' = byHand \ {m} /\ archived' = archived \ {m}
        /\ UNCHANGED <<column, owed, rewired>>
    BY <1>14, Zenon DEF DeleteMission
  <2>2. /\ Exist' = {t \in Exist : MissionOf[t] # m} /\ Alive' = Alive \ {m}
    BY <2>1 DEF TypeOK, Exist, Alive
  <2>3. status' \in [Tasks -> TaskStatuses]
    BY <2>1 DEF TypeOK, TaskStatuses
  <2>4. deps' \subseteq Exist' \X Exist' /\ mdeps' \subseteq Alive' \X Alive'
    BY <2>1, <2>2 DEF TypeOK, Alive
  <2>5. QED
    BY <2>1, <2>2, <2>3, <2>4 DEF TypeOK
<1>15. CASE UNCHANGED vars
  BY <1>15 DEF vars, board, TypeOK, Exist, Alive
<1>16. QED
  BY <1>2, <1>3, <1>4, <1>5, <1>6, <1>7, <1>8, <1>9, <1>10, <1>11, <1>12, <1>13, <1>14, <1>15, Zenon
  DEF Next, TaskCommand, MissionCommand
-----------------------------------------------------------------------------
Ordered == TasksAreOrdered /\ MissionsAreOrdered

LEMMA OrderedStep == ASSUME TypeOK, Ordered, [Next]_vars PROVE Ordered'
<1>1. ASSUME UNCHANGED <<deps, mdeps, rewired>> PROVE Ordered'
  BY <1>1 DEF Ordered, TasksAreOrdered, MissionsAreOrdered, Acyclic
<1>2. ASSUME deps' \subseteq deps, mdeps' \subseteq mdeps, rewired' = rewired PROVE Ordered'
  BY <1>2, FewerEdges, Zenon DEF Ordered, TasksAreOrdered, MissionsAreOrdered
<1>3. ASSUME NEW t \in Tasks, TaskStep(t) PROVE Ordered'
  BY <1>1, <1>3, TaskStepCommits DEF Commits, Commit
<1>4. ASSUME NEW t \in Tasks, NEW D \in SUBSET Exist, Publish(t, D) PROVE Ordered'
  <2>1. t \notin Exist /\ deps' = deps \cup ({t} \X D) /\ UNCHANGED <<mdeps, rewired>>
    BY <1>4 DEF Publish, Exist
  <2>2. t \notin D /\ \A x \in Tasks : <<x, t>> \notin deps
    BY <2>1 DEF TypeOK
  <2>3. Acyclic(deps \cup ({t} \X D), Tasks)
    BY <2>2, EdgesFromNewNode, Zenon DEF Ordered, TasksAreOrdered
  <2>4. QED
    BY <2>1, <2>3, Zenon DEF Ordered, TasksAreOrdered, MissionsAreOrdered
<1>5. ASSUME NEW x \in Tasks, NEW y \in Tasks, AddTaskDependency(x, y) PROVE Ordered'
  <2>1. /\ ~WouldCreateCycle(deps, Tasks, x, y) /\ deps' = deps \cup {<<x, y>>}
        /\ UNCHANGED <<mdeps, rewired>>
    BY <1>5, Zenon DEF AddTaskDependency
  <2>2. QED
    BY <2>1, CheckedEdge, Zenon DEF Ordered, TasksAreOrdered, MissionsAreOrdered
<1>6. ASSUME NEW m \in Missions, NEW n \in Missions, AddMissionDependency(m, n) PROVE Ordered'
  <2>1. /\ ~WouldCreateCycle(mdeps, Missions, m, n) /\ mdeps' = mdeps \cup {<<m, n>>}
        /\ UNCHANGED <<deps, rewired>>
    BY <1>6, Zenon DEF AddMissionDependency
  <2>2. QED
    BY <2>1, CheckedEdge, Zenon DEF Ordered, TasksAreOrdered, MissionsAreOrdered
<1>7. ASSUME NEW m \in Missions, NEW D \in SUBSET Missions, NEW blocks \in BOOLEAN,
             EditEdges(m, D, blocks)
      PROVE  Ordered'
  BY <1>7, Zenon DEF EditEdges, Ordered, TasksAreOrdered, MissionsAreOrdered
<1>8. ASSUME NEW t \in Tasks, AssignReserved(t) \/ DeleteTask(t) PROVE Ordered'
  BY <1>2, <1>8 DEF AssignReserved, DeleteTask
<1>9. ASSUME NEW x \in Tasks, NEW y \in Tasks, RemoveTaskDependency(x, y) PROVE Ordered'
  BY <1>2, <1>9 DEF RemoveTaskDependency
<1>10. ASSUME NEW m \in Missions, NEW n \in Missions, RemoveMissionDependency(m, n)
       PROVE  Ordered'
  BY <1>2, <1>10 DEF RemoveMissionDependency
<1>11. ASSUME NEW m \in Missions, Recalculate(m) \/ Archive(m) \/ DeleteMission(m)
       PROVE  Ordered'
  BY <1>2, <1>11 DEF Recalculate, Archive, DeleteMission
<1>12. ASSUME NEW m \in Missions, NEW s, EditStatus(m, s) \/ MoveMissionToColumn(m, s)
       PROVE  Ordered'
  BY <1>1, <1>12 DEF EditStatus, MoveMissionToColumn
<1>13. CASE Crash \/ UNCHANGED vars
  BY <1>1, <1>13 DEF Crash, vars, board
<1>14. QED
  BY <1>3, <1>4, <1>5, <1>6, <1>7, <1>8, <1>9, <1>10, <1>11, <1>12, <1>13, Zenon
  DEF Next, TaskCommand, MissionCommand
-----------------------------------------------------------------------------
(* The derivation is of the Tasks of the Mission and of nothing else.         *)
LEMMA DerivedFromItsTasks ==
    ASSUME TypeOK, NEW m,
           \A t \in Tasks : MissionOf[t] = m => status'[t] = status[t]
    PROVE  TasksOf(m)' = TasksOf(m) /\ DeriveMissionStatus(m)' = DeriveMissionStatus(m)
<1>1. TasksOf(m)' = TasksOf(m)
  BY DEF TasksOf, Exist
<1>2. {status[t] : t \in TasksOf(m)}' = {status[t] : t \in TasksOf(m)}
  BY <1>1 DEF TasksOf, Exist
<1>3. QED
  BY <1>1, <1>2, Zenon DEF DeriveMissionStatus

LEMMA DoneMeansFinished ==
    ASSUME NEW m, DeriveMissionStatus(m) = "done"
    PROVE  \A t \in TasksOf(m) : status[t] \in Finished
  BY DEF DeriveMissionStatus

Agrees == StatusAgrees /\ DoneIsFinished

(* A Mission keeps its agreement when its Tasks, status and column stay, or   *)
(* when it is owed a recalculation or went astray and is not called done.     *)
Kept(m) ==
  /\ \A t \in Tasks : MissionOf[t] = m => status'[t] = status[t]
  /\ stored'[m] = stored[m] /\ column'[m] = column[m]
  /\ m \notin owed' \cup astray' => m \notin owed \cup astray
  /\ m \notin byHand' => m \notin byHand
Excused(m) ==
  /\ stored'[m] = "deleted" \/ m \in owed' \cup astray'
  /\ m \in byHand' \/ (stored'[m] = "done" => \A t \in TasksOf(m)' : status'[t] \in Finished)

LEMMA KeptOrExcused ==
    ASSUME TypeOK, Agrees, \A m \in Missions : Kept(m) \/ Excused(m)
    PROVE  Agrees'
<1>1. ASSUME NEW m \in Missions, m \in Alive', m \notin owed' \cup astray'
      PROVE  /\ stored'[m] = DeriveMissionStatus(m)'
             /\ ResolveTargetColumn(stored'[m]) \in {NoColumn, column'[m]}
  <2>1. Kept(m) /\ ~Excused(m)
    BY <1>1 DEF Excused, Alive
  <2>2. m \in Alive \ (owed \cup astray)
    BY <1>1, <2>1 DEF Kept, Alive
  <2>3. DeriveMissionStatus(m)' = DeriveMissionStatus(m)
    BY <2>1, DerivedFromItsTasks DEF Kept
  <2>4. QED
    BY <2>1, <2>2, <2>3 DEF Kept, Agrees, StatusAgrees
<1>2. ASSUME NEW m \in Missions, m \notin byHand', stored'[m] = "done", NEW t \in TasksOf(m)'
      PROVE  status'[t] \in Finished
  <2>1. CASE Excused(m)
    BY <1>2, <2>1 DEF Excused
  <2>2. CASE Kept(m)
    <3>1. TasksOf(m)' = TasksOf(m) /\ status'[t] = status[t]
      BY <1>2, <2>2, DerivedFromItsTasks DEF Kept, TasksOf, Exist
    <3>2. QED
      BY <1>2, <2>2, <3>1 DEF Kept, Agrees, DoneIsFinished
  <2>3. QED
    BY <2>1, <2>2
<1>3. StatusAgrees'
  BY <1>1 DEF StatusAgrees, Alive, ResolveTargetColumn, NonTerminal, NoColumn
<1>4. DoneIsFinished'
  BY <1>2, Zenon DEF DoneIsFinished
<1>5. QED
  BY <1>3, <1>4 DEF Agrees

LEMMA AgreesStep == ASSUME TypeOK, TypeOK', Agrees, [Next]_vars PROVE Agrees'
<1>0. MissionOf \in [Tasks -> Missions]
  BY BoardAssumption
<1>1. ASSUME NEW t \in Tasks, TaskStep(t) PROVE Agrees'
  <2>1. PICK s \in TaskStatuses : Commits(t, s)
    BY <1>1, TaskStepCommits
  <2>2. /\ status' = [status EXCEPT ![t] = s] /\ owed' = owed \cup {MissionOf[t]}
        /\ UNCHANGED <<stored, column, astray, byHand>> /\ status[t] # "absent"
        /\ status[t] \in Finished => s \in Finished
    BY <2>1 DEF Commits, Commit
  <2>3. ASSUME NEW m \in Missions, m # MissionOf[t] PROVE Kept(m)
    BY <2>2, <2>3 DEF Kept, TypeOK
  <2>4. Excused(MissionOf[t])
    <3>1. ASSUME MissionOf[t] \notin byHand, stored[MissionOf[t]] = "done",
                 NEW x \in TasksOf(MissionOf[t])'
          PROVE  status'[x] \in Finished
      <4>1. x \in TasksOf(MissionOf[t])
        BY <2>2, <3>1 DEF TasksOf, Exist, TypeOK
      <4>2. status[x] \in Finished
        BY <1>0, <3>1, <4>1 DEF Agrees, DoneIsFinished
      <4>3. QED
        BY <2>2, <4>1, <4>2 DEF TypeOK, TasksOf, Exist
    <3>2. QED
      BY <2>2, <3>1 DEF Excused
  <2>5. QED
    BY <2>3, <2>4, KeptOrExcused
<1>2. ASSUME NEW m \in Missions, Recalculate(m) PROVE Agrees'
  <2> DEFINE s == DeriveMissionStatus(m)
  <2>1. status' = status /\ owed' = owed \ {m}
    BY <1>2 DEF Recalculate
  <2>2. CASE stored[m] = "deleted"
    <3>1. UNCHANGED <<stored, column, astray, byHand>>
      BY <1>2, <2>2 DEF Recalculate
    <3>2. Excused(m) /\ \A n \in Missions \ {m} : Kept(n)
      BY <2>1, <2>2, <3>1 DEF Kept, Excused
    <3>3. QED
      BY <3>2, KeptOrExcused
  <2>3. CASE stored[m] # "deleted"
    <3>1. /\ stored' = [stored EXCEPT ![m] = s]
          /\ column' = [column EXCEPT
               ![m] = IF ResolveTargetColumn(s) = NoColumn THEN @ ELSE ResolveTargetColumn(s)]
          /\ astray' = astray \ {m} /\ byHand' = byHand \ {m}
      BY <2>3, <1>2, Zenon DEF Recalculate
    <3>2. DeriveMissionStatus(m)' = s /\ TasksOf(m)' = TasksOf(m)
      BY <2>1, DerivedFromItsTasks
    <3>3. s = "done" => \A t \in TasksOf(m) : status[t] \in Finished
      BY DoneMeansFinished
    <3> HIDE DEF s
    <3>4. stored'[m] = s /\ column'[m] \in {column[m], ResolveTargetColumn(s)}
          /\ ResolveTargetColumn(s) \in {NoColumn, column'[m]}
      BY <3>1 DEF TypeOK
    <3>5. \A n \in Missions \ {m} :
            /\ stored'[n] = stored[n] /\ column'[n] = column[n]
            /\ DeriveMissionStatus(n)' = DeriveMissionStatus(n) /\ TasksOf(n)' = TasksOf(n)
      BY <2>1, <3>1, DerivedFromItsTasks DEF TypeOK
    <3>6. StatusAgrees'
      <4>1. ASSUME NEW n \in Missions, n \in Alive', n \notin owed' \cup astray'
            PROVE  /\ stored'[n] = DeriveMissionStatus(n)'
                   /\ ResolveTargetColumn(stored'[n]) \in {NoColumn, column'[n]}
        <5>1. CASE n = m
          BY <3>2, <3>4, <5>1
        <5>2. CASE n # m
          BY <2>1, <3>1, <3>5, <4>1, <5>2 DEF Agrees, StatusAgrees, Alive
        <5>3. QED
          BY <5>1, <5>2
      <4>2. QED
        BY <4>1 DEF StatusAgrees, Alive, ResolveTargetColumn, NonTerminal, NoColumn
    <3>7. DoneIsFinished'
      <4>1. ASSUME NEW n \in Missions \ byHand', stored'[n] = "done", NEW t \in TasksOf(n)'
            PROVE  status'[t] \in Finished
        <5>1. CASE n = m
          BY <2>1, <3>2, <3>3, <3>4, <4>1, <5>1
        <5>2. CASE n # m
          BY <2>1, <3>1, <3>5, <4>1, <5>2 DEF Agrees, DoneIsFinished
        <5>3. QED
          BY <5>1, <5>2
      <4>2. QED
        BY <4>1, Zenon DEF DoneIsFinished
    <3>8. QED
      BY <3>6, <3>7 DEF Agrees
  <2>4. QED
    BY <2>2, <2>3
<1>3. CASE Crash
  <2>1. UNCHANGED <<status, stored, column, byHand>> /\ owed' = {} /\ astray' = astray \cup owed
    BY <1>3 DEF Crash, board
  <2>2. \A m \in Missions : Kept(m)
    BY <2>1 DEF Kept
  <2>3. QED
    BY <2>2, KeptOrExcused
<1>4. ASSUME NEW t \in Tasks, NEW D, Publish(t, D) PROVE Agrees'
  <2>1. /\ status' = [status EXCEPT ![t] = "pending"] /\ astray' = astray \cup {MissionOf[t]}
        /\ stored[MissionOf[t]] # "done" /\ UNCHANGED <<stored, column, owed, byHand>>
    BY <1>4 DEF Publish, Accepting, ActiveMissions
  <2>2. \A m \in Missions \ {MissionOf[t]} : Kept(m)
    BY <2>1 DEF Kept, TypeOK
  <2>3. Excused(MissionOf[t])
    BY <2>1 DEF Excused
  <2>4. QED
    BY <2>2, <2>3, KeptOrExcused
<1>5. ASSUME NEW t \in Tasks, AssignReserved(t) PROVE Agrees'
  <2>1. /\ status' = [status EXCEPT ![t] = "claimed"] /\ status[t] = "pending"
        /\ astray' = astray \cup {MissionOf[t]} /\ UNCHANGED <<stored, column, owed, byHand>>
    BY <1>5 DEF AssignReserved
  <2>2. \A m \in Missions \ {MissionOf[t]} : Kept(m)
    BY <2>1 DEF Kept, TypeOK
  <2>3. t \in TasksOf(MissionOf[t]) /\ status[t] \notin Finished
    BY <2>1 DEF TasksOf, Exist, Finished
  <2>4. Excused(MissionOf[t])
    BY <1>0, <2>1, <2>3 DEF Excused, Agrees, DoneIsFinished
  <2>5. QED
    BY <2>2, <2>4, KeptOrExcused
<1>6. ASSUME NEW t \in Tasks, DeleteTask(t) PROVE Agrees'
  <2>1. /\ status' = [status EXCEPT ![t] = "absent"]
        /\ astray' = astray \cup {MissionOf[t]} /\ UNCHANGED <<stored, column, owed, byHand>>
    BY <1>6 DEF DeleteTask
  <2>2. \A m \in Missions \ {MissionOf[t]} : Kept(m)
    BY <2>1 DEF Kept, TypeOK
  <2>3. \A x \in TasksOf(MissionOf[t])' : x \in TasksOf(MissionOf[t]) /\ status'[x] = status[x]
    BY <2>1 DEF TasksOf, Exist, TypeOK
  <2>4. Excused(MissionOf[t])
    BY <1>0, <2>1, <2>3 DEF Excused, Agrees, DoneIsFinished
  <2>5. QED
    BY <2>2, <2>4, KeptOrExcused
<1>7. ASSUME UNCHANGED <<status, stored, column, owed, astray, byHand>> PROVE Agrees'
  <2>1. \A m \in Missions : Kept(m)
    BY <1>7 DEF Kept
  <2>2. QED
    BY <2>1, KeptOrExcused
<1>8. ASSUME NEW x \in Tasks, NEW y, AddTaskDependency(x, y) \/ RemoveTaskDependency(x, y)
      PROVE  Agrees'
  BY <1>7, <1>8, Zenon DEF AddTaskDependency, RemoveTaskDependency
<1>9. ASSUME NEW m \in Missions, NEW n,
             AddMissionDependency(m, n) \/ RemoveMissionDependency(m, n) \/ Archive(m)
      PROVE  Agrees'
  BY <1>7, <1>9, Zenon DEF AddMissionDependency, RemoveMissionDependency, Archive
<1>10. ASSUME NEW m \in Missions, NEW D, NEW blocks, EditEdges(m, D, blocks) PROVE Agrees'
  BY <1>7, <1>10, Zenon DEF EditEdges
<1>11. CASE UNCHANGED vars
  BY <1>7, <1>11 DEF vars, board
<1>12. ASSUME NEW m \in Missions, NEW s, EditStatus(m, s) PROVE Agrees'
  <2>1. /\ stored' = [stored EXCEPT ![m] = s]
        /\ astray' = astray \cup {m} /\ byHand' = byHand \cup {m}
        /\ UNCHANGED <<status, column, owed>>
    BY <1>12 DEF EditStatus
  <2>2. Excused(m) /\ \A n \in Missions \ {m} : Kept(n)
    BY <2>1 DEF Kept, Excused, TypeOK
  <2>3. QED
    BY <2>2, KeptOrExcused
<1>13. ASSUME NEW m \in Missions, NEW c, MoveMissionToColumn(m, c) PROVE Agrees'
  <2>1. /\ column' = [column EXCEPT ![m] = c] /\ astray' = astray \cup {m}
        /\ UNCHANGED <<status, stored, owed, byHand>>
    BY <1>13 DEF MoveMissionToColumn
  <2>2. Excused(m) /\ \A n \in Missions \ {m} : Kept(n)
    <3>1. \A n \in Missions \ {m} : Kept(n)
      BY <2>1 DEF Kept, TypeOK
    <3>2. TasksOf(m)' = TasksOf(m)
      BY <2>1 DEF TasksOf, Exist
    <3>3. Excused(m)
      BY <2>1, <3>2 DEF Excused, Agrees, DoneIsFinished
    <3>4. QED
      BY <3>1, <3>3
  <2>3. QED
    BY <2>2, KeptOrExcused
<1>14. ASSUME NEW m \in Missions, DeleteMission(m) PROVE Agrees'
  <2>1. /\ stored' = [stored EXCEPT ![m] = "deleted"]
        /\ status' = [t \in Tasks |-> IF MissionOf[t] = m THEN "absent" ELSE status[t]]
        /\ astray' = astray \ {m} /\ byHand' = byHand \ {m}
        /\ UNCHANGED <<column, owed>>
    BY <1>14, Zenon DEF DeleteMission
  <2>2. Excused(m) /\ \A n \in Missions \ {m} : Kept(n)
    BY <2>1 DEF Kept, Excused, TypeOK
  <2>3. QED
    BY <2>2, KeptOrExcused
<1>15. QED
  BY <1>1, <1>2, <1>3, <1>4, <1>5, <1>6, <1>8, <1>9, <1>10, <1>11, <1>12, <1>13, <1>14, Zenon
  DEF Next, TaskCommand, MissionCommand
-----------------------------------------------------------------------------
LEMMA InitAgrees == ASSUME Init PROVE Ordered /\ Agrees
<1>1. /\ status = [t \in Tasks |-> IF t \in Unpublished THEN "absent" ELSE "pending"]
      /\ stored = [m \in Missions |-> "not_started"] /\ column = [m \in Missions |-> 1]
      /\ Acyclic(deps, Tasks) /\ Acyclic(mdeps, Missions)
  BY Zenon DEF Init
<1>2. ASSUME NEW m \in Missions PROVE DeriveMissionStatus(m) = "not_started"
  <2>1. {status[t] : t \in TasksOf(m)} \subseteq {"pending"}
    BY <1>1 DEF TasksOf, Exist
  <2>2. CASE {status[t] : t \in TasksOf(m)} = {}
    BY <2>2 DEF DeriveMissionStatus
  <2>3. CASE {status[t] : t \in TasksOf(m)} = {"pending"}
    BY <2>3 DEF DeriveMissionStatus, Finished
  <2>4. QED
    BY <2>1, <2>2, <2>3
<1>3. ResolveTargetColumn("not_started") = 1
  BY DEF ResolveTargetColumn
<1>4. QED
  BY <1>1, <1>2, <1>3
  DEF Ordered, Agrees, TasksAreOrdered, MissionsAreOrdered, StatusAgrees, DoneIsFinished, Alive

IInv == TypeOK /\ Ordered /\ Agrees

LEMMA Inductive == Spec => []IInv
<1>1. Init => IInv
  BY InitType, InitAgrees DEF IInv
<1>2. IInv /\ [Next]_vars => IInv'
  BY TypeStep, OrderedStep, AgreesStep DEF IInv
<1>3. QED
  BY <1>1, <1>2, PTL DEF Spec

(* Whatever is wired, published, edited, moved and deleted, dependencies have *)
(* no circle, and the stored status and column of a Mission are the ones its  *)
(* Tasks ask for, unless their recalculation is to come or was lost.          *)
THEOREM BoardTheorem == Spec => [](TypeOK /\ BoardAgrees)
<1>1. IInv => TypeOK /\ BoardAgrees
  BY DEF IInv, Ordered, Agrees, BoardAgrees
<1>2. QED
  BY <1>1, Inductive, PTL

(* Work begins in the order of both dependency graphs: the status a claim     *)
(* reads may lag behind the Tasks, but is never ahead of them.                *)
THEOREM OrderTheorem == Spec => OrderIsKept
<1> DEFINE Keeps ==
      \A t \in Tasks : Begun(t) =>
        /\ \A y \in Tasks : <<t, y>> \in deps => status[y] \in Finished
        /\ \A y \in Exist : <<MissionOf[t], MissionOf[y]>> \in mdeps =>
             status[y] \in Finished \/ MissionOf[y] \in byHand
<1>1. ASSUME IInv, Next PROVE Keeps
  <2>1. SUFFICES ASSUME NEW t \in Tasks, status[t] = "pending", status'[t] = "claimed"
                 PROVE  CheckClaimability(t)
    <3>1. ASSUME NEW t \in Tasks, CheckClaimability(t), NEW y \in Exist,
                 <<MissionOf[t], MissionOf[y]>> \in mdeps
          PROVE  status[y] \in Finished \/ MissionOf[y] \in byHand
      <4>1. MissionOf[y] \in Missions /\ y \in TasksOf(MissionOf[y])
        BY <3>1, BoardAssumption DEF Exist, TasksOf
      <4>2. stored[MissionOf[y]] = "done"
        BY <3>1, <4>1 DEF CheckClaimability, AreAllMissionDependenciesMet
      <4>3. QED
        BY <1>1, <4>1, <4>2 DEF IInv, Agrees, DoneIsFinished
    <3>2. QED
      BY <3>1, Zenon DEF Begun, CheckClaimability, AreAllDependenciesMet
  <2>2. ASSUME NEW x \in Tasks, TaskStep(x) PROVE CheckClaimability(t)
    <3>1. PICK s \in TaskStatuses : Commits(x, s)
      BY <2>2, TaskStepCommits
    <3>2. status' = [status EXCEPT ![x] = s] /\ (status[x] = "pending" => CheckClaimability(x))
      BY <3>1, Zenon DEF Commits, Commit
    <3>3. x = t
      BY <1>1, <2>1, <3>2 DEF IInv, TypeOK
    <3>4. QED
      BY <2>1, <3>2, <3>3
  <2>3. ASSUME NEW x \in Tasks, AssignReserved(x) PROVE CheckClaimability(t)
    <3>1. status' = [status EXCEPT ![x] = "claimed"] /\ CheckClaimability(x)
      BY <2>3, Zenon DEF AssignReserved
    <3>2. QED
      BY <1>1, <2>1, <3>1 DEF IInv, TypeOK
  <2>4. ASSUME NEW x \in Tasks, NEW s, s # "claimed", status' = [status EXCEPT ![x] = s] PROVE FALSE
    BY <1>1, <2>1, <2>4 DEF IInv, TypeOK
  <2>5. ASSUME NEW x \in Tasks, NEW D, Publish(x, D) \/ DeleteTask(x) PROVE FALSE
    BY <2>4, <2>5 DEF Publish, DeleteTask
  <2>6. status' # status
    BY <2>1
  <2>7. ASSUME NEW m \in Missions, DeleteMission(m) PROVE FALSE
    <3>1. status' = [x \in Tasks |-> IF MissionOf[x] = m THEN "absent" ELSE status[x]]
      BY <2>7, Zenon DEF DeleteMission
    <3>2. QED
      BY <2>1, <3>1
  <2>8. ASSUME NEW m \in Missions, NEW x, NEW y, Recalculate(m) \/ Archive(m)
               \/ AddMissionDependency(m, x) \/ RemoveMissionDependency(m, x)
               \/ EditEdges(m, x, y) \/ EditStatus(m, x) \/ MoveMissionToColumn(m, x)
        PROVE  FALSE
    BY <2>6, <2>8, Zenon
    DEF Recalculate, Archive, AddMissionDependency, RemoveMissionDependency,
        EditEdges, EditStatus, MoveMissionToColumn
  <2>9. ASSUME Crash PROVE FALSE
    BY <2>6, <2>9 DEF Crash, board
  <2>10. ASSUME NEW x, NEW y, AddTaskDependency(x, y) \/ RemoveTaskDependency(x, y) PROVE FALSE
    BY <2>6, <2>10, Zenon DEF AddTaskDependency, RemoveTaskDependency
  <2>11. QED
    BY <1>1, <2>2, <2>3, <2>5, <2>7, <2>8, <2>9, <2>10, Zenon DEF Next, TaskCommand, MissionCommand
<1>2. IInv /\ [Next]_vars => [Keeps]_vars
  BY <1>1
<1>3. QED
  BY <1>2, Inductive, PTL DEF Spec, OrderIsKept

(***************************************************************************)
(* The import                                                              *)
(***************************************************************************)

ImportRows ==
  [state : {"none", "reserved", "publishing", "published", "rejected"},
   mode : {"new", "replacement"}, content : Contents \cup {"none"},
   owner : Requests \cup {"none"}, expired : BOOLEAN]
ImportCalls ==
  [at : {"idle", "preflight", "attempts", "govern", "commit"}, content : Contents \cup {"none"},
   stamp : Nat]
Applications == Seq([content : Contents, fresh : BOOLEAN])

ImportType ==
  /\ row \in ImportRows
  /\ attempts \in [Imported -> {"none", "pending", "published"}]
  /\ habitat \in [stamp : Nat, applied : Applications]
  /\ import \in [Requests -> ImportCalls]

(* A request that is under way brings the content that reserved the id.      *)
SameContent ==
  /\ row.state # "none" => row.content \in Contents
  /\ \A r \in Requests : import[r].at # "idle" =>
       row.state # "none" /\ import[r].content = row.content

ImportInv == ImportType /\ SameContent /\ Import!ImportAgrees

LEMMA ImportInit == Import!Init => ImportInv
<1> SUFFICES ASSUME Import!Init PROVE ImportInv
  OBVIOUS
<1>1. ImportType
  <2>1. row \in ImportRows
    BY DEF Import!Init, ImportRows, Import!None
  <2>2. /\ attempts \in [Imported -> {"none", "pending", "published"}]
        /\ import \in [Requests -> ImportCalls]
    BY DEF Import!Init, ImportCalls, Import!None, Import!Idle
  <2>3. << >> \in Applications
    BY DEF Applications
  <2>4. habitat \in [stamp : Nat, applied : Applications]
    BY <2>3 DEF Import!Init
  <2>5. QED BY <2>1, <2>2, <2>4 DEF ImportType
<1>2. SameContent
  BY DEF Import!Init, SameContent, Import!None, Import!Idle
<1>3. Import!ImportAgrees
  BY DEF Import!Init, Import!ImportAgrees, Import!None, Import!Idle
<1>4. QED BY <1>1, <1>2, <1>3 DEF ImportInv

USE DEF Import!None, Import!Idle

LEMMA ImportRequest ==
  ASSUME NEW r \in Requests, NEW content \in Contents, ImportInv, Import!Request(r, content)
  PROVE  ImportInv'
<1>1. ImportType'
  BY DEF Import!Request, Import!Resumable, Import!bounds, ImportInv, ImportType, ImportRows,
         ImportCalls
<1>2. SameContent'
  BY ZenonT(40) DEF Import!Request, Import!Resumable, Import!bounds, ImportInv, ImportType, ImportRows,
         ImportCalls, SameContent
<1>3. Import!ImportAgrees'
  <2>1. CASE row.state = "none" /\ row' = [row EXCEPT !.state = "reserved", !.content = content]
             /\ coord' = "pending"
    <3>1. /\ row'.state = "reserved" /\ row'.owner = row.owner /\ row'.mode = row.mode
          /\ habitat' = habitat /\ attempts' = attempts
      BY <2>1 DEF Import!Request, ImportInv, ImportType, ImportRows
    <3>2. habitat.applied = << >> /\ row.owner = "none"
      BY <2>1 DEF ImportInv, Import!ImportAgrees, ImportType, ImportRows
    <3>3. Len(habitat'.applied) = 0 /\ DOMAIN habitat'.applied = {}
      BY <3>1, <3>2
    <3>4. \A i \in Imported : attempts'[i] # "published"
      BY <2>1, <3>1 DEF ImportInv, Import!ImportAgrees
    <3>5. QED BY <2>1, <3>1, <3>2, <3>3, <3>4 DEF Import!ImportAgrees
  <2>2. CASE UNCHANGED <<row, coord>>
    BY <2>2 DEF Import!Request, ImportInv, Import!ImportAgrees
  <2>3. QED BY <2>1, <2>2 DEF Import!Request
<1>4. QED BY <1>1, <1>2, <1>3 DEF ImportInv

LEMMA ImportWork ==
  ASSUME NEW r \in Requests, "none" \notin Requests, ImportInv,
         \/ Import!Preflight(r) \/ Import!Refuse(r) \/ Import!Govern(r) \/ Import!Crash(r)
         \/ \E i \in Imported : Import!ReserveAttempt(r, i)
  PROVE  ImportInv'
<1>1. CASE Import!Preflight(r)
  <2>1. ImportType'
    <3>1. /\ import' = [import EXCEPT ![r].at = "attempts", ![r].stamp = habitat.stamp]
          /\ UNCHANGED <<row, attempts, habitat>>
      BY <1>1 DEF Import!Preflight, Import!imported
    <3>2. import \in [Requests -> ImportCalls] /\ habitat.stamp \in Nat
      BY DEF ImportInv, ImportType
    <3>3. import' \in [Requests -> ImportCalls]
      BY <3>1, <3>2 DEF ImportCalls
    <3>4. QED BY <3>1, <3>3 DEF ImportInv, ImportType
  <2>2. SameContent'
    BY <1>1 DEF Import!Preflight, Import!imported, Import!bounds, ImportInv, ImportType,
                ImportRows, ImportCalls, SameContent
  <2>3. Import!ImportAgrees'
    BY <1>1 DEF Import!Preflight, Import!imported, Import!bounds, ImportInv, ImportType,
                ImportRows, ImportCalls, SameContent, Import!ImportAgrees
  <2>4. QED BY <2>1, <2>2, <2>3 DEF ImportInv
<1>2. CASE Import!Refuse(r)
  <2>1. ImportType'
    BY <1>2 DEF Import!Refuse, Import!Answers, Import!bounds, ImportInv, ImportType, ImportRows,
                ImportCalls
  <2>2. SameContent'
    BY <1>2 DEF Import!Refuse, Import!Answers, Import!bounds, ImportInv, ImportType, ImportRows,
                ImportCalls, SameContent
  <2>3. Import!ImportAgrees'
    BY <1>2 DEF Import!Refuse, Import!Answers, Import!bounds, ImportInv, ImportType, ImportRows,
                ImportCalls, SameContent, Import!ImportAgrees
  <2>4. QED BY <2>1, <2>2, <2>3 DEF ImportInv
<1>3. CASE Import!Govern(r)
  <2>1. ImportType'
    BY <1>3 DEF Import!Govern, Import!Goes, Import!imported, Import!bounds, ImportInv, ImportType,
                ImportRows, ImportCalls
  <2>2. SameContent'
    BY <1>3 DEF Import!Govern, Import!Goes, Import!imported, Import!bounds, ImportInv, ImportType,
                ImportRows, ImportCalls, SameContent
  <2>3. Import!ImportAgrees'
    BY <1>3 DEF Import!Govern, Import!Goes, Import!imported, Import!bounds, ImportInv, ImportType,
                ImportRows, ImportCalls, SameContent, Import!ImportAgrees
  <2>4. QED BY <2>1, <2>2, <2>3 DEF ImportInv
<1>4. CASE Import!Crash(r)
  <2>1. ImportType'
    BY <1>4 DEF Import!Crash, Import!Answers, Import!imported, ImportInv, ImportType, ImportRows,
                ImportCalls
  <2>2. SameContent'
    BY <1>4 DEF Import!Crash, Import!Answers, Import!imported, ImportInv, ImportType, ImportRows,
                ImportCalls, SameContent
  <2>3. Import!ImportAgrees'
    BY <1>4 DEF Import!Crash, Import!Answers, Import!imported, ImportInv, ImportType, ImportRows,
                ImportCalls, SameContent, Import!ImportAgrees
  <2>4. QED BY <2>1, <2>2, <2>3 DEF ImportInv
<1>5. ASSUME NEW i \in Imported, Import!ReserveAttempt(r, i) PROVE ImportInv'
  <2>1. ImportType'
    BY <1>5 DEF Import!ReserveAttempt, Import!bounds, ImportInv, ImportType, ImportRows, ImportCalls
  <2>2. SameContent'
    BY <1>5 DEF Import!ReserveAttempt, Import!bounds, ImportInv, ImportType, ImportRows,
                ImportCalls, SameContent
  <2>3. Import!ImportAgrees'
    BY <1>5 DEF Import!ReserveAttempt, Import!bounds, ImportInv, ImportType, ImportRows,
                ImportCalls, SameContent, Import!ImportAgrees
  <2>4. QED BY <2>1, <2>2, <2>3 DEF ImportInv
<1>6. QED BY <1>1, <1>2, <1>3, <1>4, <1>5

(* The lease goes to one request, and a veto is fenced by it.                *)
LEMMA ImportLease ==
  ASSUME NEW r \in Requests, "none" \notin Requests, ImportInv,
         Import!Acquire(r) \/ Import!Veto(r)
  PROVE  ImportInv'
<1>1. CASE Import!Acquire(r)
  <2>1. CASE Import!Leasable
    <3> DEFINE taken == [row EXCEPT !.state = "publishing", !.owner = r, !.expired = FALSE]
    <3>1. /\ row' = taken /\ import' = [import EXCEPT ![r].at = "govern"]
          /\ UNCHANGED <<coord, attempts, habitat>>
      BY <1>1, <2>1 DEF Import!Acquire, Import!Goes
    <3>2. /\ taken \in ImportRows /\ taken.state = "publishing" /\ taken.owner = r
          /\ taken.content = row.content /\ taken.mode = row.mode
      BY DEF ImportInv, ImportType, ImportRows
    <3> HIDE DEF taken
    <3>3. row.state \in {"reserved", "publishing"}
      BY <2>1 DEF Import!Leasable
    <3>4. ImportType'
      BY <3>1, <3>2 DEF ImportInv, ImportType, ImportCalls
    <3>5. SameContent'
      BY <1>1, <3>1, <3>2, <3>3 DEF Import!Acquire, ImportInv, ImportType, ImportCalls, SameContent
    <3>6. Import!ImportAgrees'
      BY <3>1, <3>2, <3>3 DEF ImportInv, Import!ImportAgrees
    <3>7. QED BY <3>4, <3>5, <3>6 DEF ImportInv
  <2>2. CASE ~Import!Leasable
    <3>1. ImportType'
      BY <1>1, <2>2 DEF Import!Acquire, Import!Answers, Import!bounds, ImportInv, ImportType,
                        ImportRows, ImportCalls
    <3>2. SameContent'
      BY <1>1, <2>2 DEF Import!Acquire, Import!Answers, Import!bounds, ImportInv, ImportType,
                        ImportRows, ImportCalls, SameContent
    <3>3. Import!ImportAgrees'
      BY <1>1, <2>2 DEF Import!Acquire, Import!Answers, Import!bounds, ImportInv, ImportType,
                        ImportRows, ImportCalls, SameContent, Import!ImportAgrees
    <3>4. QED BY <3>1, <3>2, <3>3 DEF ImportInv
  <2>3. QED BY <2>1, <2>2
<1>2. CASE Import!Veto(r)
  <2>1. CASE Import!Owns(r)
    <3> DEFINE ended == [row EXCEPT !.state = "rejected", !.owner = "none", !.expired = FALSE]
    <3>1. /\ row' = ended /\ coord' = "vetoed" /\ UNCHANGED <<attempts, habitat>>
          /\ import' = [import EXCEPT ![r] = [at |-> "idle", content |-> "none", stamp |-> 0]]
      BY <1>2, <2>1 DEF Import!Veto, Import!Answers, Import!Ends
    <3>2. /\ ended \in ImportRows /\ ended.state = "rejected" /\ ended.owner = "none"
          /\ ended.content = row.content /\ ended.mode = row.mode
      BY DEF ImportInv, ImportType, ImportRows
    <3> HIDE DEF ended
    <3>3. row.state = "publishing"
      BY <2>1 DEF Import!Owns
    <3>4. ImportType'
      BY <3>1, <3>2 DEF ImportInv, ImportType, ImportCalls
    <3>5. SameContent'
      BY <3>1, <3>2, <3>3 DEF ImportInv, ImportType, ImportCalls, SameContent
    <3>6. Import!ImportAgrees'
      BY <3>1, <3>2, <3>3 DEF ImportInv, Import!ImportAgrees
    <3>7. QED BY <3>4, <3>5, <3>6 DEF ImportInv
  <2>2. CASE ~Import!Owns(r)
    <3>1. ImportType'
      BY <1>2, <2>2 DEF Import!Veto, Import!Answers, Import!bounds, ImportInv, ImportType,
                        ImportRows, ImportCalls
    <3>2. SameContent'
      BY <1>2, <2>2 DEF Import!Veto, Import!Answers, Import!bounds, ImportInv, ImportType,
                        ImportRows, ImportCalls, SameContent
    <3>3. Import!ImportAgrees'
      BY <1>2, <2>2 DEF Import!Veto, Import!Answers, Import!bounds, ImportInv, ImportType,
                        ImportRows, ImportCalls, SameContent, Import!ImportAgrees
    <3>4. QED BY <3>1, <3>2, <3>3 DEF ImportInv
  <2>3. QED BY <2>1, <2>2
<1>3. QED BY <1>1, <1>2

(* What the owner of the lease applies is the first thing to be applied.     *)
LEMMA ImportCommit ==
  ASSUME NEW r \in Requests, "none" \notin Requests, ImportInv, Import!Commit(r)
  PROVE  ImportInv'
<1>1. CASE ~(Import!Unchanged(r) /\ Import!Owns(r))
  <2>1. ImportType'
    BY <1>1 DEF Import!Commit, Import!Answers, Import!imported, Import!bounds, ImportInv,
                ImportType, ImportRows, ImportCalls
  <2>2. SameContent'
    BY <1>1 DEF Import!Commit, Import!Answers, Import!imported, Import!bounds, ImportInv,
                ImportType, ImportRows, ImportCalls, SameContent
  <2>3. Import!ImportAgrees'
    BY <1>1 DEF Import!Commit, Import!Answers, Import!imported, Import!bounds, ImportInv,
                ImportType, ImportRows, ImportCalls, SameContent, Import!ImportAgrees
  <2>4. QED BY <2>1, <2>2, <2>3 DEF ImportInv
<1>2. CASE Import!Unchanged(r) /\ Import!Owns(r)
  <2> DEFINE entry == [content |-> import[r].content, fresh |-> import[r].stamp = habitat.stamp]
  <2>1. /\ row' = [row EXCEPT !.state = "published", !.owner = "none", !.expired = FALSE]
        /\ coord' = "created" /\ attempts' = [i \in Imported |-> "published"]
        /\ habitat' = [stamp |-> habitat.stamp + 1, applied |-> Append(habitat.applied, entry)]
        /\ import' = [import EXCEPT ![r] = [at |-> "idle", content |-> "none", stamp |-> 0]]
    BY <1>2 DEF Import!Commit, Import!Answers, Import!Ends
  <2>2. entry \in [content : Contents, fresh : BOOLEAN] /\ entry.content = row.content
    BY <1>2 DEF Import!Commit, Import!Owns, ImportInv, ImportType, SameContent
  <2>3. row.mode = "replacement" => entry.fresh
    BY <1>2 DEF Import!Unchanged
  <2>4. habitat.applied = << >>
    BY <1>2 DEF Import!Owns, ImportInv, Import!ImportAgrees
  <2> HIDE DEF entry
  <2>5. habitat'.applied = <<entry>> /\ habitat'.stamp \in Nat
    BY <2>1, <2>4 DEF ImportInv, ImportType
  <2>6. ImportType'
    <3>1. row' \in ImportRows
      BY <2>1 DEF ImportInv, ImportType, ImportRows
    <3>2. attempts' \in [Imported -> {"none", "pending", "published"}]
      BY <2>1
    <3>3. import' \in [Requests -> ImportCalls]
      BY <2>1 DEF ImportInv, ImportType, ImportCalls
    <3>4. <<entry>> \in Applications
      BY <2>2 DEF Applications
    <3>5. habitat' \in [stamp : Nat, applied : Applications]
      BY <2>1, <2>5, <3>4
    <3>6. QED BY <3>1, <3>2, <3>3, <3>5 DEF ImportType
  <2>7. SameContent'
    BY <1>2, <2>1 DEF Import!Owns, ImportInv, ImportType, SameContent
  <2>8. Import!ImportAgrees'
    BY <2>1, <2>2, <2>3, <2>5, SMTT(30) DEF ImportInv, ImportType, Import!ImportAgrees
  <2>9. QED BY <2>6, <2>7, <2>8 DEF ImportInv
<1>3. QED BY <1>1, <1>2

(* Edits of the habitat, and leases that run out.                            *)
LEMMA ImportWorld ==
  ASSUME ImportInv, Import!EditHabitat \/ Import!Lapse
  PROVE  ImportInv'
<1>1. CASE Import!EditHabitat
  <2>1. ImportType'
    BY <1>1 DEF Import!EditHabitat, ImportInv, ImportType, ImportRows, ImportCalls
  <2>2. SameContent'
    BY <1>1 DEF Import!EditHabitat, ImportInv, ImportType, ImportRows, ImportCalls, SameContent
  <2>3. Import!ImportAgrees'
    BY <1>1 DEF Import!EditHabitat, ImportInv, ImportType, ImportRows, ImportCalls, SameContent,
                Import!ImportAgrees
  <2>4. QED BY <2>1, <2>2, <2>3 DEF ImportInv
<1>2. CASE Import!Lapse
  <2>1. ImportType'
    BY <1>2 DEF Import!Lapse, ImportInv, ImportType, ImportRows, ImportCalls
  <2>2. SameContent'
    BY <1>2 DEF Import!Lapse, ImportInv, ImportType, ImportRows, ImportCalls, SameContent
  <2>3. Import!ImportAgrees'
    BY <1>2 DEF Import!Lapse, ImportInv, ImportType, ImportRows, ImportCalls, SameContent,
                Import!ImportAgrees
  <2>4. QED BY <2>1, <2>2, <2>3 DEF ImportInv
<1>3. QED BY <1>1, <1>2

(* However many requests bring manifests under one id, die and carry on, the *)
(* import is published exactly when the manifest that reserved the id was    *)
(* applied, once, to the habitat its preflight had seen, and everything that *)
(* tells of it agrees.                                                       *)
THEOREM ImportTheorem ==
  ASSUME "none" \notin Requests
  PROVE  Import!Spec => []Import!ImportAgrees
<1>1. ASSUME ImportInv, [Import!Next]_(Import!vars) PROVE ImportInv'
  <2>1. CASE Import!Next
    BY <1>1, <2>1, ImportRequest, ImportWork, ImportLease, ImportCommit, ImportWorld, Zenon
    DEF Import!Next, Import!Step
  <2>2. CASE UNCHANGED Import!vars
    BY <1>1, <2>2 DEF Import!vars, Import!imported, Import!bounds, ImportInv, ImportType,
                      SameContent,
                      Import!ImportAgrees
  <2>3. QED BY <1>1, <2>1, <2>2
<1>2. ImportInv => Import!ImportAgrees
  BY DEF ImportInv
<1>3. QED BY ImportInit, <1>1, <1>2, PTL DEF Import!Spec

(***************************************************************************)
(* The activation of what a Release may                                    *)
(***************************************************************************)
(* What the theorem assumes of the constants: the Missions are in a list, a   *)
(* Finding is linked to one of them or to none, a cap is a number or absent,  *)
(* and no Mission, gate or Release is called as what stands for none.         *)
ReleaseHypotheses ==
  /\ IsFiniteSet(Findings) /\ Order \in Seq(Release!Missions)
  /\ Link \in [Findings -> Release!Missions \cup {Release!NoMission}]
  /\ Met \in [Releases -> SUBSET Gates]
  /\ Deadlined \in [Releases -> SUBSET Release!Missions]
  /\ Caps \subseteq Nat \cup {Release!NoCap}
  /\ Release!NoMission \notin Release!Missions /\ Release!NoGate \notin Gates
  /\ Release!NoRelease \notin Releases

Dispositions ==
  {"pending", "activated", "deferred_changed", "deferred_oversized", "deferred_budget"}
FindingRows ==
  [status : {"open", "triaged", "in_progress", "ended"},
   mission : Release!Missions \cup {Release!NoMission},
   release : Releases \cup {Release!NoRelease}, plain : BOOLEAN]
MissionRows ==
  [state : {"absent", "not_started", "in_progress", "done", "failed"},
   gate : Gates \cup {Release!NoGate}]
Groups ==
  [members : SUBSET Findings, gate : Gates \cup {Release!NoGate}, disposition : Dispositions]
GroupMaps == UNION {[S -> Groups] : S \in SUBSET Release!Missions}
Epochs == [made : BOOLEAN, done : BOOLEAN, cap : Nat \cup {Release!NoCap}, groups : GroupMaps]
Told == [count : Int, missed : Int]
Detections ==
  [release : Releases \cup {Release!NoRelease}, at : 0..4, left : SUBSET Release!Missions,
   count : Int, missed : Int, loaded : BOOLEAN]

ReleaseTypes ==
  /\ finding \in [Findings -> FindingRows] /\ mission \in [Release!Missions -> MissionRows]
  /\ epoch \in [Releases -> Epochs] /\ proj \in [Releases -> [1..4 -> Told]]
  /\ work \in [Workers -> Detections]

(* A Finding that is open has no Mission, one that waits has no Release, and  *)
(* none is linked to a Mission that does not exist.                           *)
Linked ==
  \A f \in Findings :
    /\ finding[f].status = "open" => finding[f].mission = Release!NoMission
    /\ finding[f].status \in {"open", "triaged"} => finding[f].release = Release!NoRelease
    /\ finding[f].mission # Release!NoMission => mission[finding[f].mission].state # "absent"

(* An epoch froze groups that have members, and closes when each of them has  *)
(* a disposition.                                                             *)
EpochFits(r) ==
  /\ ~epoch[r].made => epoch[r] = Release!Absent
  /\ \A m \in Release!Frozen(r) : epoch[r].groups[m].members # {}
  /\ epoch[r].done => \A m \in Release!Frozen(r) : epoch[r].groups[m].disposition # "pending"

(* A detection works on groups of an epoch that was recorded, and what it     *)
(* counted when it closed the epoch is what the epoch activated for good.     *)
DetectionFits(w) ==
  LET r == work[w].release
  IN r # Release!NoRelease =>
       /\ epoch[r].made /\ work[w].left \subseteq Release!Frozen(r)
       /\ work[w].at > 0 =>
            /\ epoch[r].done
            /\ work[w].count = Cardinality(Release!Activated(epoch[r]))
            /\ \A j \in 1..4 : j < work[w].at => proj[r][j] # Release!Pending
       /\ work[w].at > 1 => work[w].missed = proj[r][1].missed

(* What was produced is in order and tells what the epoch and the deadline    *)
(* notice say.                                                                *)
ProjectionFits(r, k) ==
  proj[r][k] # Release!Pending =>
    /\ epoch[r].done
    /\ \A j \in 1..4 : j =< k => proj[r][j] # Release!Pending
    /\ k > 1 => /\ proj[r][k].count = Cardinality(Release!Activated(epoch[r]))
                /\ k # 2 => proj[r][k].missed = proj[r][1].missed

Taken(e) == UNION {e.groups[m].members : m \in Release!Activated(e)}
AttributionFits(r) == Release!Attributed(r) = Taken(epoch[r])
CapFits(r) ==
  epoch[r].cap # Release!NoCap => Cardinality(Release!Attributed(r)) =< epoch[r].cap

ReleaseInv ==
  /\ ReleaseTypes /\ Linked /\ Release!GroupsAreWhole
  /\ \A r \in Releases :
       /\ EpochFits(r) /\ AttributionFits(r) /\ CapFits(r)
       /\ \A k \in 1..4 : ProjectionFits(r, k)
  /\ \A w \in Workers : DetectionFits(w)

LEMMA SizeIs == \A S : Release!Cardinality(S) = Cardinality(S)
  BY Zenon DEF Release!Cardinality, Cardinality

LEMMA FourKinds ==
    /\ Len(Release!Kinds) = 4 /\ 1..Len(Release!Kinds) = 1..4
    /\ Release!Kinds[1] = "deadline" /\ Release!Kinds[2] = "notify"
    /\ Release!Kinds[3] = "pulse" /\ Release!Kinds[4] = "shipped"
  BY DEF Release!Kinds

LEMMA FiniteMissions ==
    ASSUME ReleaseHypotheses PROVE IsFiniteSet(Release!Missions)
<1>1. Order \in [1..Len(Order) -> Release!Missions] /\ Len(Order) \in Nat
  BY DEF ReleaseHypotheses
<1>2. Order \in Surjection(1..Len(Order), Release!Missions)
  BY <1>1 DEF Surjection, Release!Missions
<1>3. IsFiniteSet(1..Len(Order))
  BY <1>1, FS_Interval
<1>4. QED BY <1>2, <1>3, FS_Surjection

LEMMA ReleaseInvAgrees ==
    ASSUME ReleaseHypotheses, ReleaseInv PROVE Release!ReleaseAgrees
<1>1. Release!TypeOK
  <2>1. /\ finding \in [Findings -> [status : {"open", "triaged", "in_progress"} \cup Release!Ended,
                               mission : Release!Missions \cup {Release!NoMission},
                               release : Releases \cup {Release!NoRelease}, plain : BOOLEAN]]
        /\ mission \in [Release!Missions ->
             [state : {"absent", "not_started", "in_progress"} \cup Release!Over,
              gate : Gates \cup {Release!NoGate}]]
    <3>1. {"open", "triaged", "in_progress"} \cup Release!Ended = {"open", "triaged", "in_progress", "ended"}
      BY DEF Release!Ended
    <3>2. {"absent", "not_started", "in_progress"} \cup Release!Over
            = {"absent", "not_started", "in_progress", "done", "failed"}
      BY DEF Release!Over
    <3>3. QED BY <3>1, <3>2 DEF ReleaseInv, ReleaseTypes, FindingRows, MissionRows
  <2>2. ASSUME NEW r \in Releases, NEW m \in Release!Frozen(r)
        PROVE  epoch[r].groups[m].disposition \in Dispositions
    <3>1. epoch[r].groups \in GroupMaps
      BY DEF ReleaseInv, ReleaseTypes, Epochs
    <3>2. PICK S \in SUBSET Release!Missions : epoch[r].groups \in [S -> Groups]
      BY <3>1 DEF GroupMaps
    <3>3. epoch[r].groups[m] \in Groups
      BY <3>2, <2>2 DEF Release!Frozen
    <3>4. QED BY <3>3 DEF Groups
  <2>3. ASSUME NEW w \in Workers
        PROVE  work[w].at \in 0..Len(Release!Kinds) /\ work[w].left \subseteq Release!Missions
    BY FourKinds DEF ReleaseInv, ReleaseTypes, Detections
  <2>4. QED BY <2>1, <2>2, <2>3 DEF Release!TypeOK, Dispositions
<1>2. Release!CapHolds
  BY SizeIs, Zenon DEF Release!CapHolds, ReleaseInv, CapFits
<1>3. Release!AttributionAgrees
  BY DEF Release!AttributionAgrees, ReleaseInv, AttributionFits, Taken
<1>4. ASSUME NEW r \in Releases, NEW k \in 1..4, proj[r][k] # Release!Pending
      PROVE  /\ epoch[r].done /\ \A j \in 1..k : proj[r][j] # Release!Pending
             /\ k \in 2..4 => /\ proj[r][k].count = Cardinality(Release!Activated(epoch[r]))
                              /\ Release!Kinds[k] # "notify" => proj[r][k].missed = proj[r][1].missed
  <2>1. ProjectionFits(r, k)
    BY DEF ReleaseInv
  <2>2. \A j \in 1..k : j \in 1..4 /\ j =< k
    OBVIOUS
  <2>3. QED BY <2>1, <2>2, <1>4, FourKinds DEF ProjectionFits
<1>5. Release!ProjectionsInOrder
  BY <1>4, FourKinds DEF Release!ProjectionsInOrder
<1>6. Release!ProjectionsAgree
  <2>1. \A k \in 2..Len(Release!Kinds) : k \in 1..4 /\ k \in 2..4
    BY FourKinds
  <2>2. QED BY <1>4, <2>1, SizeIs, Zenon DEF Release!ProjectionsAgree
<1>7. QED BY <1>1, <1>2, <1>3, <1>5, <1>6 DEF Release!ReleaseAgrees, ReleaseInv

LEMMA ReleaseStart ==
    ASSUME ReleaseHypotheses, Release!Init PROVE ReleaseInv
<1>1. ReleaseTypes
  <2>1. finding \in [Findings -> FindingRows]
    BY DEF Release!Init, ReleaseHypotheses, FindingRows
  <2>2. mission \in [Release!Missions -> MissionRows]
    BY DEF Release!Init, MissionRows
  <2>3. Release!Absent \in Epochs
    <3>1. [x \in {} |-> x] \in [{} -> Groups] /\ {} \in SUBSET Release!Missions
      OBVIOUS
    <3>2. << >> = [x \in {} |-> x]
      OBVIOUS
    <3>3. << >> \in GroupMaps
      BY <3>1, <3>2 DEF GroupMaps
    <3>4. QED BY <3>3 DEF Release!Absent, Epochs, Release!NoCap
  <2>4. epoch \in [Releases -> Epochs]
    BY <2>3 DEF Release!Init
  <2>5. proj \in [Releases -> [1..4 -> Told]]
    BY FourKinds DEF Release!Init, Release!Pending, Told
  <2>6. work \in [Workers -> Detections]
    BY DEF Release!Init, Release!Idle, Detections
  <2>7. QED BY <2>1, <2>2, <2>4, <2>5, <2>6 DEF ReleaseTypes
<1>2. \A f \in Findings :
        /\ finding[f].status = IF Link[f] = Release!NoMission THEN "open" ELSE "triaged"
        /\ finding[f].mission = Link[f] /\ finding[f].release = Release!NoRelease
  BY DEF Release!Init
<1>3. Linked
  <2>1. ASSUME NEW f \in Findings, Link[f] # Release!NoMission
        PROVE  mission[Link[f]].state # "absent"
    BY <2>1 DEF Release!Init, ReleaseHypotheses
  <2>2. QED BY <1>2, <2>1 DEF Linked
<1>4. Release!GroupsAreWhole
  BY <1>2 DEF Release!GroupsAreWhole, Release!Live
<1>5. ASSUME NEW r \in Releases
      PROVE  /\ EpochFits(r) /\ AttributionFits(r) /\ CapFits(r)
             /\ \A k \in 1..4 : ProjectionFits(r, k)
  <2>1. /\ epoch[r] = Release!Absent /\ Release!Absent.cap = Release!NoCap
        /\ Release!Absent.groups = << >> /\ ~Release!Absent.done
    BY DEF Release!Init, Release!Absent
  <2>2. Release!Attributed(r) = {}
    BY <1>2 DEF Release!Attributed, ReleaseHypotheses
  <2>3. Release!Frozen(r) = {} /\ Release!Activated(epoch[r]) = {}
    BY <2>1 DEF Release!Frozen, Release!Activated
  <2>4. EpochFits(r)
    BY <2>1, <2>3 DEF EpochFits
  <2>5. AttributionFits(r) /\ CapFits(r)
    BY <2>1, <2>2, <2>3 DEF AttributionFits, CapFits, Taken
  <2>6. \A k \in 1..4 : proj[r][k] = Release!Pending
    BY FourKinds DEF Release!Init
  <2>7. QED BY <2>4, <2>5, <2>6 DEF ProjectionFits
<1>6. \A w \in Workers : DetectionFits(w)
  BY DEF Release!Init, Release!Idle, DetectionFits
<1>7. QED BY <1>1, <1>3, <1>4, <1>5, <1>6 DEF ReleaseInv

(* Steps that leave the epochs alone keep the invariant when they attribute   *)
(* no Finding.                                                                *)
LEMMA EpochsRest ==
    ASSUME ReleaseInv, UNCHANGED <<epoch, proj, work>>, ReleaseTypes', Linked',
           Release!GroupsAreWhole',
           \A r \in Releases : Release!Attributed(r)' = Release!Attributed(r)
    PROVE  ReleaseInv'
<1>1. ASSUME NEW r \in Releases
      PROVE  /\ EpochFits(r)' /\ AttributionFits(r)' /\ CapFits(r)'
             /\ \A k \in 1..4 : ProjectionFits(r, k)'
  <2>1. Release!Frozen(r)' = Release!Frozen(r)
    BY DEF Release!Frozen
  <2>2. Release!Activated(epoch[r])' = Release!Activated(epoch[r])
    BY Zenon DEF Release!Activated
  <2>3. EpochFits(r)'
    BY <2>1, Zenon DEF EpochFits, ReleaseInv
  <2>4. AttributionFits(r)' /\ CapFits(r)'
    <3>1. AttributionFits(r) /\ CapFits(r) /\ epoch' = epoch
      BY Zenon DEF ReleaseInv
    <3>2. Release!Attributed(r)' = Release!Attributed(r)
      BY Zenon
    <3>3. CapFits(r)'
      BY <3>1, <3>2, Zenon DEF CapFits
    <3>4. AttributionFits(r)'
      BY <3>1, <3>2, <2>2, Zenon DEF AttributionFits
    <3>5. QED BY <3>3, <3>4
  <2>5. \A k \in 1..4 : ProjectionFits(r, k)'
    BY <2>2, Zenon DEF ProjectionFits, ReleaseInv
  <2>6. QED BY <2>3, <2>4, <2>5
<1>2. ASSUME NEW w \in Workers PROVE DetectionFits(w)'
  BY Zenon DEF DetectionFits, ReleaseInv, Release!Frozen, Release!Activated
<1>3. QED BY <1>1, <1>2, Zenon DEF ReleaseInv

(* Where no Finding and no Mission changes, what relates them stays.          *)
LEMMA FindingsRest ==
    ASSUME finding' = finding, mission' = mission, Linked, Release!GroupsAreWhole
    PROVE  Linked' /\ Release!GroupsAreWhole'
<1>1. \A m : Release!Live(m)' = Release!Live(m)
  BY Zenon DEF Release!Live
<1>2. Linked'
  BY Zenon DEF Linked
<1>3. Release!GroupsAreWhole'
  BY <1>1, Zenon DEF Release!GroupsAreWhole
<1>4. QED BY <1>2, <1>3

(* A group is taken as a whole.                                               *)
LEMMA TakenWhole ==
    ASSUME ReleaseHypotheses, ReleaseInv, NEW m \in Release!Missions,
           NEW r \in Releases \cup {Release!NoRelease},
           \A f \in Release!Live(m) : finding[f].status = "triaged",
           finding' = Release!InProgress(m, r),
           mission' \in [Release!Missions -> MissionRows],
           \A x \in Release!Missions : mission'[x].state = mission[x].state
    PROVE  /\ finding' \in [Findings -> FindingRows] /\ Linked' /\ Release!GroupsAreWhole'
           /\ \A q \in Releases :
                Release!Attributed(q)' = IF q = r THEN Release!Attributed(q) \cup Release!Live(m)
                                                  ELSE Release!Attributed(q)
<1>t. /\ finding \in [Findings -> FindingRows] /\ Linked /\ Release!GroupsAreWhole
  BY DEF ReleaseInv, ReleaseTypes
<1>1. \A f \in Findings : finding[f] \in FindingRows
  BY <1>t
<1>2. \A f \in Findings :
        finding'[f] = IF f \in Release!Live(m)
                      THEN [finding[f] EXCEPT !.status = "in_progress", !.release = r]
                      ELSE finding[f]
  BY DEF Release!InProgress
<1>3. \A f \in Release!Live(m) :
        /\ f \in Findings /\ finding[f].mission = m /\ finding[f].release = Release!NoRelease
        /\ finding'[f].status = "in_progress" /\ finding'[f].release = r
        /\ finding'[f].mission = m /\ finding'[f] \in FindingRows
  <2>1. TAKE f \in Release!Live(m)
  <2>2. f \in Findings /\ finding[f].mission = m /\ finding[f].status = "triaged"
    BY DEF Release!Live
  <2>3. finding[f].release = Release!NoRelease
    BY <2>2, <1>t DEF Linked
  <2>4. finding[f] \in FindingRows
    BY <2>2, <1>1
  <2>5. finding'[f] = [finding[f] EXCEPT !.status = "in_progress", !.release = r]
    BY <2>2, <1>2
  <2>6. /\ finding'[f].status = "in_progress" /\ finding'[f].release = r
        /\ finding'[f].mission = finding[f].mission /\ finding'[f] \in FindingRows
    BY <2>4, <2>5 DEF FindingRows
  <2>7. QED BY <2>2, <2>3, <2>6
<1>4. \A f \in Findings : f \notin Release!Live(m) => finding'[f] = finding[f]
  BY <1>2
<1>5. finding' \in [Findings -> FindingRows]
  BY <1>1, <1>3, <1>4 DEF Release!InProgress
<1>6. Linked'
  <2>1. ASSUME NEW f \in Findings
        PROVE  /\ finding'[f].status = "open" => finding'[f].mission = Release!NoMission
               /\ finding'[f].status \in {"open", "triaged"} => finding'[f].release = Release!NoRelease
               /\ finding'[f].mission # Release!NoMission => mission'[finding'[f].mission].state # "absent"
    <3>1. finding'[f].mission = finding[f].mission
      BY <1>3, <1>4
    <3>2. finding[f].mission # Release!NoMission =>
            mission'[finding[f].mission].state = mission[finding[f].mission].state
      BY <1>1 DEF FindingRows
    <3>3. CASE f \in Release!Live(m)
      BY <3>1, <3>2, <3>3, <1>3, <1>t DEF Linked
    <3>4. CASE f \notin Release!Live(m)
      BY <3>1, <3>2, <3>4, <1>4, <1>t DEF Linked
    <3>5. QED BY <3>3, <3>4
  <2>2. QED BY <2>1, Zenon DEF Linked
<1>7. Release!GroupsAreWhole'
  <2>1. ASSUME NEW x \in Release!Missions, NEW f \in Release!Live(x)', NEW g \in Release!Live(x)'
        PROVE  finding'[f].status = finding'[g].status
    <3>1. /\ f \in Findings /\ finding'[f].mission = x /\ finding'[f].status # "ended"
          /\ g \in Findings /\ finding'[g].mission = x /\ finding'[g].status # "ended"
      BY DEF Release!Live, Release!Ended
    <3>2. \A h \in Findings : finding'[h].mission = x /\ finding'[h].status # "ended" => h \in Release!Live(x)
      BY <1>3, <1>4 DEF Release!Live, Release!Ended
    <3>3. f \in Release!Live(x) /\ g \in Release!Live(x)
      BY <3>1, <3>2
    <3>4. CASE x = m
      BY <3>3, <3>4, <1>3
    <3>5. CASE x # m
      <4>1. f \notin Release!Live(m) /\ g \notin Release!Live(m)
        BY <3>3, <3>5 DEF Release!Live
      <4>2. finding[f].status = finding[g].status
        BY <3>3, <1>t DEF Release!GroupsAreWhole
      <4>3. QED BY <4>1, <4>2, <3>1, <1>4
    <3>6. QED BY <3>4, <3>5
  <2>2. QED BY <2>1, Zenon DEF Release!GroupsAreWhole
<1>8. ASSUME NEW q \in Releases
      PROVE  Release!Attributed(q)' = IF q = r THEN Release!Attributed(q) \cup Release!Live(m)
                                               ELSE Release!Attributed(q)
  <2>1. Release!Attributed(q)' = {f \in Findings : finding'[f].release = q}
    BY DEF Release!Attributed
  <2>2. Release!Attributed(q) = {f \in Findings : finding[f].release = q}
    BY DEF Release!Attributed
  <2>3. q # Release!NoRelease
    BY DEF ReleaseHypotheses
  <2>4. QED BY <2>1, <2>2, <2>3, <1>3, <1>4
<1>9. QED BY <1>5, <1>6, <1>7, <1>8

(* One Finding changes that was attributed to no Release and is not now.      *)
LEMMA OneFinding ==
    ASSUME ReleaseHypotheses, ReleaseInv, NEW f \in Findings, NEW new \in FindingRows,
           finding' = [finding EXCEPT ![f] = new],
           new.status = "open" => new.mission = Release!NoMission,
           new.status \in {"open", "triaged"} => new.release = Release!NoRelease,
           new.release = finding[f].release,
           mission' \in [Release!Missions -> MissionRows],
           \A x \in Release!Missions : mission[x].state # "absent" => mission'[x].state # "absent",
           new.mission # Release!NoMission => mission'[new.mission].state # "absent",
           UNCHANGED <<epoch, proj, work>>,
           \A x \in Release!Missions : \A g \in Release!Live(x) :
             f # g /\ new.mission = x /\ new.status # "ended" => finding[g].status = new.status
    PROVE  ReleaseInv'
<1>t. /\ finding \in [Findings -> FindingRows] /\ Linked /\ Release!GroupsAreWhole /\ ReleaseTypes
  BY DEF ReleaseInv, ReleaseTypes
<1>1. finding' \in [Findings -> FindingRows] /\ \A g \in Findings : finding'[g] = IF g = f THEN new ELSE finding[g]
  BY <1>t
<1>2. ReleaseTypes'
  BY <1>1, <1>t DEF ReleaseTypes
<1>3. Linked'
  <2>1. ASSUME NEW g \in Findings
        PROVE  /\ finding'[g].status = "open" => finding'[g].mission = Release!NoMission
               /\ finding'[g].status \in {"open", "triaged"} => finding'[g].release = Release!NoRelease
               /\ finding'[g].mission # Release!NoMission => mission'[finding'[g].mission].state # "absent"
    <3>1. CASE g = f
      BY <1>1, <3>1
    <3>2. CASE g # f
      <4>1. finding[g].mission \in Release!Missions \cup {Release!NoMission}
        BY <1>t DEF FindingRows
      <4>2. finding'[g] = finding[g]
        BY <1>1, <3>2
      <4>3. QED BY <4>1, <4>2, <1>t DEF Linked
    <3>3. QED BY <3>1, <3>2
  <2>2. QED BY <2>1, Zenon DEF Linked
<1>4. Release!GroupsAreWhole'
  <2>1. ASSUME NEW x \in Release!Missions, NEW g \in Release!Live(x)', NEW h \in Release!Live(x)'
        PROVE  finding'[g].status = finding'[h].status
    <3>1. /\ g \in Findings /\ finding'[g].mission = x /\ finding'[g].status # "ended"
          /\ h \in Findings /\ finding'[h].mission = x /\ finding'[h].status # "ended"
      BY DEF Release!Live, Release!Ended
    <3>2. \A y \in Findings : y # f /\ finding'[y].mission = x /\ finding'[y].status # "ended"
            => finding'[y] = finding[y] /\ y \in Release!Live(x)
      BY <1>1 DEF Release!Live, Release!Ended
    <3>3. CASE g = f /\ h = f
      BY <3>3
    <3>4. CASE g = f /\ h # f
      BY <3>1, <3>2, <3>4, <1>1
    <3>5. CASE g # f /\ h = f
      BY <3>1, <3>2, <3>5, <1>1
    <3>6. CASE g # f /\ h # f
      <4>1. finding[g].status = finding[h].status
        BY <3>1, <3>2, <3>6, <1>t DEF Release!GroupsAreWhole
      <4>2. QED BY <4>1, <3>1, <3>2, <3>6
    <3>7. QED BY <3>3, <3>4, <3>5, <3>6
  <2>2. QED BY <2>1, Zenon DEF Release!GroupsAreWhole
<1>5. ASSUME NEW q \in Releases PROVE Release!Attributed(q)' = Release!Attributed(q)
  BY <1>1 DEF Release!Attributed
<1>6. QED BY <1>2, <1>3, <1>4, <1>5, EpochsRest

LEMMA RouteStep ==
    ASSUME ReleaseHypotheses, ReleaseInv, NEW f \in Findings, NEW m \in Release!Missions,
           NEW gate \in Gates \cup {Release!NoGate}, Release!RouteToWork(f, m, gate)
    PROVE  ReleaseInv'
<1> DEFINE new == [status |-> IF gate = Release!NoGate THEN "in_progress" ELSE "triaged", mission |-> m,
                   release |-> Release!NoRelease, plain |-> FALSE]
<1>t. /\ finding \in [Findings -> FindingRows] /\ mission \in [Release!Missions -> MissionRows] /\ Linked
  BY DEF ReleaseInv, ReleaseTypes
<1>1. /\ Release!Routable(f) /\ mission[m].state = "absent"
      /\ mission' = [mission EXCEPT ![m] = [state |-> "not_started", gate |-> gate]]
      /\ finding' = [finding EXCEPT ![f] = new] /\ UNCHANGED <<epoch, proj, work>>
  BY Zenon DEF Release!RouteToWork
<1>2. /\ new \in FindingRows /\ new.release = Release!NoRelease /\ new.mission = m
      /\ new.status \in {"in_progress", "triaged"}
  BY DEF FindingRows
<1>3. finding[f].release = Release!NoRelease
  BY <1>1, <1>t DEF Release!Routable, Linked
<1>4. /\ mission' \in [Release!Missions -> MissionRows] /\ mission'[m].state = "not_started"
      /\ \A x \in Release!Missions : mission[x].state # "absent" => mission'[x].state # "absent"
  BY <1>1, <1>t DEF MissionRows
<1>5. Release!Live(m) = {}
  <2>1. m # Release!NoMission /\ mission[m].state = "absent"
    BY <1>1 DEF ReleaseHypotheses
  <2>2. \A x \in Findings : finding[x].mission # m
    BY <2>1, <1>t, Zenon DEF Linked
  <2>3. QED BY <2>2, Zenon DEF Release!Live
<1> HIDE DEF new
<1>6. ASSUME NEW x \in Release!Missions, NEW g \in Release!Live(x), new.mission = x
      PROVE  FALSE
  BY <1>2, <1>5, <1>6
<1>7. /\ finding' = [finding EXCEPT ![f] = new] /\ UNCHANGED <<epoch, proj, work>>
      /\ new.status # "open" /\ new.release = finding[f].release
      /\ mission'[new.mission].state # "absent"
  BY <1>1, <1>2, <1>3, <1>4
<1>8. QED BY <1>2, <1>4, <1>6, <1>7, OneFinding, Zenon

LEMMA RoutePlainStep ==
    ASSUME ReleaseHypotheses, ReleaseInv, NEW f \in Findings, Release!RouteWithoutWork(f)
    PROVE  ReleaseInv'
<1> DEFINE new == [finding[f] EXCEPT !.status = "triaged", !.plain = TRUE]
<1>t. /\ finding \in [Findings -> FindingRows] /\ mission \in [Release!Missions -> MissionRows] /\ Linked
      /\ finding[f] \in FindingRows
  BY DEF ReleaseInv, ReleaseTypes
<1>1. /\ finding[f].status = "open" /\ finding' = [finding EXCEPT ![f] = new]
      /\ UNCHANGED <<mission, epoch, proj, work>>
  BY DEF Release!RouteWithoutWork
<1>2. /\ new \in FindingRows /\ new.release = Release!NoRelease /\ new.mission = Release!NoMission
      /\ new.status = "triaged" /\ finding[f].release = Release!NoRelease
  BY <1>1, <1>t DEF FindingRows, Linked
<1> HIDE DEF new
<1>3. \A x \in Release!Missions : \A g \in Release!Live(x) :
        f # g /\ new.mission = x /\ new.status # "ended" => finding[g].status = new.status
  BY <1>2 DEF ReleaseHypotheses
<1>4. /\ new.status = "open" => new.mission = Release!NoMission
      /\ new.status \in {"open", "triaged"} => new.release = Release!NoRelease
      /\ new.release = finding[f].release
      /\ new.mission # Release!NoMission => mission'[new.mission].state # "absent"
      /\ \A x \in Release!Missions : mission[x].state # "absent" => mission'[x].state # "absent"
      /\ mission' \in [Release!Missions -> MissionRows] /\ new \in FindingRows
  BY <1>1, <1>2, <1>t
<1>6. QED BY <1>1, <1>3, <1>4, OneFinding, Zenon

LEMMA EndStep ==
    ASSUME ReleaseHypotheses, ReleaseInv, NEW f \in Findings, Release!End(f)
    PROVE  ReleaseInv'
<1> DEFINE new == [finding[f] EXCEPT !.status = "ended"]
<1>t. /\ finding \in [Findings -> FindingRows] /\ mission \in [Release!Missions -> MissionRows] /\ Linked
      /\ finding[f] \in FindingRows
  BY DEF ReleaseInv, ReleaseTypes
<1>1. /\ finding' = [finding EXCEPT ![f] = new] /\ UNCHANGED <<mission, epoch, proj, work>>
  BY DEF Release!End
<1>2. /\ new \in FindingRows /\ new.release = finding[f].release /\ new.status = "ended"
      /\ new.mission = finding[f].mission
  BY <1>t DEF FindingRows
<1>3. new.mission # Release!NoMission => mission'[new.mission].state # "absent"
  BY <1>1, <1>2, <1>t DEF Linked
<1> HIDE DEF new
<1>6. QED BY <1>1, <1>t, <1>2, <1>3, OneFinding

LEMMA ByHandStep ==
    ASSUME ReleaseHypotheses, ReleaseInv, NEW f \in Findings, Release!ActivateByHand(f)
    PROVE  ReleaseInv'
<1> DEFINE m == finding[f].mission
<1>t. /\ finding \in [Findings -> FindingRows] /\ mission \in [Release!Missions -> MissionRows] /\ ReleaseTypes
  BY DEF ReleaseInv, ReleaseTypes
<1>1. /\ Release!Activatable(m) /\ finding' = Release!InProgress(m, Release!NoRelease)
      /\ mission' = [mission EXCEPT ![m].gate = Release!NoGate] /\ UNCHANGED <<epoch, proj, work>>
  BY Zenon DEF Release!ActivateByHand
<1>2. m \in Release!Missions /\ \A g \in Release!Live(m) : finding[g].status = "triaged"
  BY <1>1, <1>t DEF Release!Activatable, FindingRows
<1>3. /\ mission' \in [Release!Missions -> MissionRows]
      /\ \A x \in Release!Missions : mission'[x].state = mission[x].state
  BY <1>1, <1>2, <1>t DEF MissionRows
<1> HIDE DEF m
<1>4. /\ finding' \in [Findings -> FindingRows] /\ Linked' /\ Release!GroupsAreWhole'
      /\ \A q \in Releases : q # Release!NoRelease => Release!Attributed(q)' = Release!Attributed(q)
  BY <1>1, <1>2, <1>3, TakenWhole
<1>5. ReleaseTypes'
  BY <1>1, <1>3, <1>4, <1>t DEF ReleaseTypes
<1>6. \A q \in Releases : Release!Attributed(q)' = Release!Attributed(q)
  BY <1>4 DEF ReleaseHypotheses
<1>7. QED BY <1>1, <1>4, <1>5, <1>6, EpochsRest

LEMMA EditStep ==
    ASSUME ReleaseHypotheses, ReleaseInv, NEW m \in Release!Missions, Release!Edit(m)
    PROVE  ReleaseInv'
<1>t. /\ finding \in [Findings -> FindingRows] /\ mission \in [Release!Missions -> MissionRows] /\ ReleaseTypes
      /\ Linked /\ Release!GroupsAreWhole
  BY DEF ReleaseInv, ReleaseTypes
<1>1. /\ UNCHANGED <<finding, epoch, proj, work>>
      /\ \/ \E gate \in Gates \cup {Release!NoGate} : mission' = [mission EXCEPT ![m].gate = gate]
         \/ mission' = [mission EXCEPT ![m].state = "in_progress"]
         \/ \E state \in {"done", "failed"} : mission' = [mission EXCEPT ![m].state = state]
  BY Zenon DEF Release!Edit, Release!Over
<1>2. /\ mission' \in [Release!Missions -> MissionRows]
      /\ \A x \in Release!Missions : mission[x].state # "absent" => mission'[x].state # "absent"
  <2>1. CASE \E gate \in Gates \cup {Release!NoGate} : mission' = [mission EXCEPT ![m].gate = gate]
    BY <2>1, <1>t DEF MissionRows
  <2>2. CASE mission' = [mission EXCEPT ![m].state = "in_progress"]
    BY <2>2, <1>t DEF MissionRows
  <2>3. CASE \E state \in {"done", "failed"} : mission' = [mission EXCEPT ![m].state = state]
    BY <2>3, <1>t DEF MissionRows
  <2>4. QED BY <1>1, <2>1, <2>2, <2>3
<1>3. ReleaseTypes'
  BY <1>1, <1>2, <1>t DEF ReleaseTypes
<1>4. Linked'
  <2>1. \A f \in Findings : finding[f].mission \in Release!Missions \cup {Release!NoMission}
    BY <1>t DEF FindingRows
  <2>2. QED BY <2>1, <1>1, <1>2, <1>t DEF Linked
<1>5. Release!GroupsAreWhole'
  <2>1. finding' = finding /\ Release!GroupsAreWhole
    BY <1>1, <1>t
  <2>2. \A x : Release!Live(x)' = Release!Live(x)
    BY <2>1, Zenon DEF Release!Live
  <2>3. QED BY <2>1, <2>2, Zenon DEF Release!GroupsAreWhole
<1>6. \A q \in Releases : Release!Attributed(q)' = Release!Attributed(q)
  BY <1>1, Zenon DEF Release!Attributed
<1>7. QED BY <1>1, <1>3, <1>4, <1>5, <1>6, EpochsRest

(***************************************************************************)
(* The detection of a Release                                              *)
(***************************************************************************)
(* What the steps of a detection need to know of the rows they read.          *)
LEMMA GroupsOf ==
    ASSUME ReleaseInv, NEW r \in Releases
    PROVE  /\ epoch[r] \in Epochs /\ Release!Frozen(r) \in SUBSET Release!Missions
           /\ epoch[r].groups \in [Release!Frozen(r) -> Groups]
           /\ Release!Activated(epoch[r]) \in SUBSET Release!Frozen(r)
           /\ EpochFits(r) /\ AttributionFits(r) /\ CapFits(r)
           /\ \A k \in 1..4 : ProjectionFits(r, k) /\ proj[r][k] \in Told
<1>1. epoch[r] \in Epochs /\ \A k \in 1..4 : proj[r][k] \in Told
  BY DEF ReleaseInv, ReleaseTypes
<1>2. PICK S \in SUBSET Release!Missions : epoch[r].groups \in [S -> Groups]
  BY <1>1 DEF Epochs, GroupMaps
<1>3. Release!Frozen(r) = S
  BY <1>2 DEF Release!Frozen
<1>4. Release!Activated(epoch[r]) \in SUBSET Release!Frozen(r)
  BY DEF Release!Activated, Release!Frozen
<1>5. QED BY <1>1, <1>2, <1>3, <1>4, Zenon DEF ReleaseInv

(* A step of a detection keeps the invariant when it keeps that of the rows   *)
(* of one Release and of one detection of it, and what the others know.       *)
LEMMA OneRelease ==
    ASSUME ReleaseHypotheses, ReleaseInv, NEW r \in Releases, NEW v \in Workers,
           finding' \in [Findings -> FindingRows], Linked', Release!GroupsAreWhole',
           UNCHANGED mission,
           NEW entry \in Epochs, epoch' = [epoch EXCEPT ![r] = entry],
           NEW told \in [1..4 -> Told], proj' = [proj EXCEPT ![r] = told],
           NEW now \in Detections, work' = [work EXCEPT ![v] = now],
           \A q \in Releases : q # r => Release!Attributed(q)' = Release!Attributed(q),
           EpochFits(r)', AttributionFits(r)', CapFits(r)',
           \A k \in 1..4 : ProjectionFits(r, k)',
           DetectionFits(v)',
           \A w \in Workers : w # v /\ work[w].release = r => DetectionFits(w)'
    PROVE  ReleaseInv'
<1>t. /\ ReleaseTypes /\ epoch \in [Releases -> Epochs] /\ proj \in [Releases -> [1..4 -> Told]]
      /\ work \in [Workers -> Detections]
  BY DEF ReleaseInv, ReleaseTypes
<1>1. /\ epoch' \in [Releases -> Epochs] /\ proj' \in [Releases -> [1..4 -> Told]]
      /\ work' \in [Workers -> Detections]
  BY <1>t
<1>2. ReleaseTypes'
  BY <1>1, <1>t DEF ReleaseTypes
<1>3. ASSUME NEW q \in Releases, q # r
      PROVE  /\ EpochFits(q)' /\ AttributionFits(q)' /\ CapFits(q)'
             /\ \A k \in 1..4 : ProjectionFits(q, k)'
  <2>1. epoch'[q] = epoch[q] /\ proj'[q] = proj[q] /\ Release!Attributed(q)' = Release!Attributed(q)
    BY <1>3, <1>t
  <2>2. /\ EpochFits(q) /\ AttributionFits(q) /\ CapFits(q)
        /\ \A k \in 1..4 : ProjectionFits(q, k)
    BY Zenon DEF ReleaseInv
  <2>3. EpochFits(q)'
    BY <2>1, <2>2, Zenon DEF EpochFits, Release!Frozen
  <2>4. AttributionFits(q)'
    BY <2>1, <2>2, Zenon DEF AttributionFits
  <2>5. CapFits(q)'
    BY <2>1, <2>2, Zenon DEF CapFits
  <2>6. ASSUME NEW k \in 1..4 PROVE ProjectionFits(q, k)'
    <3>1. proj'[q] = proj[q] /\ epoch'[q] = epoch[q] /\ ProjectionFits(q, k)
      BY <2>1, <2>2
    <3>2. QED BY <3>1, Zenon DEF ProjectionFits
  <2>7. QED BY <2>3, <2>4, <2>5, <2>6
<1>4. ASSUME NEW w \in Workers PROVE DetectionFits(w)'
  <2>1. CASE w = v
    BY <2>1, Zenon
  <2>2. CASE w # v /\ work[w].release = r
    BY <2>2, Zenon
  <2>3. CASE w # v /\ work[w].release # r
    <3>1. work'[w] = work[w] /\ work[w].release \in Releases \cup {Release!NoRelease}
      BY <2>3, <1>t DEF Detections
    <3>2. CASE work[w].release = Release!NoRelease
      BY <3>1, <3>2, Zenon DEF DetectionFits
    <3>3. CASE work[w].release \in Releases
      <4> DEFINE q == work[w].release
      <4>1. epoch'[q] = epoch[q] /\ proj'[q] = proj[q]
        BY <3>3, <2>3, <1>t
      <4>2. DetectionFits(w)
        BY Zenon DEF ReleaseInv
      <4>3. Release!Frozen(q)' = Release!Frozen(q)
        BY <3>1, <4>1 DEF Release!Frozen
      <4>4. Release!Activated(epoch[q])' = Release!Activated(epoch[q])
        BY <3>1, <4>1 DEF Release!Activated
      <4>5. QED BY <3>1, <4>1, <4>2, <4>3, <4>4 DEF DetectionFits
    <3>4. QED BY <3>1, <3>2, <3>3
  <2>4. QED BY <2>1, <2>2, <2>3
<1>5. QED BY <1>2, <1>3, <1>4, Zenon DEF ReleaseInv

LEMMA AbandonStep ==
    ASSUME ReleaseInv, NEW w \in Workers, Release!Abandon(w)
    PROVE  ReleaseInv'
<1>1. work' = [work EXCEPT ![w] = Release!Idle] /\ UNCHANGED <<finding, mission, epoch, proj>>
  BY Zenon DEF Release!Abandon
<1>2. work \in [Workers -> Detections] /\ ReleaseTypes
  BY DEF ReleaseInv, ReleaseTypes
<1>3. Release!Idle \in Detections /\ Release!Idle.release = Release!NoRelease
  BY DEF Release!Idle, Detections
<1>4. ReleaseTypes'
  BY <1>1, <1>2, <1>3 DEF ReleaseTypes
<1>5. ASSUME NEW v \in Workers PROVE DetectionFits(v)'
  <2>1. CASE v = w
    BY <2>1, <1>1, <1>2, <1>3 DEF DetectionFits
  <2>2. CASE v # w
    <3>1. work'[v] = work[v]
      BY <2>2, <1>1, <1>2
    <3>2. DetectionFits(v)
      BY Zenon DEF ReleaseInv
    <3>3. QED BY <3>1, <3>2, <1>1, Zenon DEF DetectionFits, Release!Frozen, Release!Activated
  <2>3. QED BY <2>1, <2>2
<1>6. Linked' /\ Release!GroupsAreWhole'
  BY <1>1, Zenon DEF ReleaseInv, Linked, Release!GroupsAreWhole, Release!Live
<1>7. ASSUME NEW q \in Releases
      PROVE  /\ EpochFits(q)' /\ AttributionFits(q)' /\ CapFits(q)'
             /\ \A k \in 1..4 : ProjectionFits(q, k)'
  <2>1. epoch' = epoch /\ proj' = proj /\ finding' = finding
    BY <1>1, Zenon
  <2>2. /\ EpochFits(q) /\ AttributionFits(q) /\ CapFits(q)
        /\ \A k \in 1..4 : ProjectionFits(q, k)
    BY Zenon DEF ReleaseInv
  <2>3. EpochFits(q)'
    BY <2>1, <2>2, Zenon DEF EpochFits, Release!Frozen
  <2>4. AttributionFits(q)'
    BY <2>1, <2>2, Zenon DEF AttributionFits, Release!Attributed
  <2>5. CapFits(q)'
    BY <2>1, <2>2, Zenon DEF CapFits, Release!Attributed
  <2>6. \A k \in 1..4 : ProjectionFits(q, k)'
    BY <2>1, <2>2, Zenon DEF ProjectionFits, Release!Activated
  <2>7. QED BY <2>3, <2>4, <2>5, <2>6
<1>8. QED BY <1>4, <1>5, <1>6, <1>7, Zenon DEF ReleaseInv

LEMMA FreshFits ==
    ASSUME ReleaseHypotheses, ReleaseInv, NEW r \in Releases, NEW cap \in Caps,
           NEW promote \in BOOLEAN
    PROVE  LET e == Release!FreshEpoch(r, cap, promote)
           IN /\ e \in Epochs /\ e.made /\ ~e.done /\ Release!Activated(e) = {} /\ Taken(e) = {}
              /\ \A m \in DOMAIN e.groups : e.groups[m].members # {}
<1> DEFINE e == Release!FreshEpoch(r, cap, promote)
           S == IF promote THEN Release!Eligible(r) ELSE {}
<1>1. S \in SUBSET Release!Missions /\ \A m \in S : Release!Live(m) # {} /\ mission[m].gate \in Gates
  BY DEF Release!Eligible, ReleaseHypotheses
<1>2. /\ e.made = TRUE /\ e.done = FALSE /\ e.cap = cap
      /\ e.groups = [m \in S |-> [members |-> Release!Live(m), gate |-> mission[m].gate,
                                  disposition |-> "pending"]]
  BY DEF Release!FreshEpoch
<1>3. \A m \in S : [members |-> Release!Live(m), gate |-> mission[m].gate, disposition |-> "pending"]
                   \in Groups
  BY <1>1 DEF Groups, Dispositions, Release!Live
<1>4. e.groups \in [S -> Groups]
  BY <1>2, <1>3
<1>5. e.groups \in GroupMaps
  BY <1>1, <1>4 DEF GroupMaps
<1>6. cap \in Nat \cup {Release!NoCap}
  BY DEF ReleaseHypotheses
<1>7. e \in Epochs
  BY <1>2, <1>5, <1>6 DEF Epochs, Release!FreshEpoch
<1>8. DOMAIN e.groups = S /\ \A m \in S : e.groups[m].members = Release!Live(m) /\ e.groups[m].disposition = "pending"
  BY <1>2
<1> HIDE DEF e, S
<1>9. Release!Activated(e) = {}
  BY <1>8 DEF Release!Activated
<1>10. Taken(e) = {}
  BY <1>9 DEF Taken
<1>11. QED BY <1>1, <1>2, <1>7, <1>8, <1>9, <1>10 DEF e

Arrived(r, seen, left) ==
  [Release!Idle EXCEPT !.release = r, !.loaded = seen, !.left = left]

LEMMA ArrivedIs ==
    ASSUME NEW r \in Releases, NEW seen \in BOOLEAN, NEW left \in SUBSET Release!Missions
    PROVE  /\ Arrived(r, seen, left) \in Detections /\ Arrived(r, seen, left).release = r
           /\ Arrived(r, seen, left).at = 0 /\ Arrived(r, seen, left).left = left
<1>1. Release!Idle \in Detections /\ Release!Idle.at = 0
  BY DEF Release!Idle, Detections
<1>2. QED BY <1>1 DEF Detections, Arrived

LEMMA DetectStep ==
    ASSUME ReleaseHypotheses, ReleaseInv, NEW w \in Workers, NEW r \in Releases,
           Release!Detect(w, r)
    PROVE  ReleaseInv'
<1> DEFINE now == [Release!Idle EXCEPT !.release = r, !.loaded = epoch[r].made,
                     !.left = IF epoch'[r].done THEN {} ELSE DOMAIN epoch'[r].groups]
<1>t. /\ ReleaseTypes /\ epoch \in [Releases -> Epochs] /\ proj \in [Releases -> [1..4 -> Told]]
      /\ work \in [Workers -> Detections] /\ finding \in [Findings -> FindingRows]
      /\ Linked /\ Release!GroupsAreWhole
  BY DEF ReleaseInv, ReleaseTypes
<1>1. /\ work' = [work EXCEPT ![w] = now] /\ UNCHANGED <<finding, mission, proj>>
      /\ IF epoch[r].made THEN UNCHANGED epoch
         ELSE \E cap \in Caps, promote \in BOOLEAN :
                epoch' = [epoch EXCEPT ![r] = Release!FreshEpoch(r, cap, promote)]
  BY DEF Release!Detect
<1>2. /\ epoch[r] \in Epochs /\ EpochFits(r) /\ AttributionFits(r) /\ CapFits(r)
      /\ \A k \in 1..4 : ProjectionFits(r, k)
  BY GroupsOf
<1> DEFINE entry == epoch'[r]
<1>3. /\ entry \in Epochs /\ entry.made /\ epoch' = [epoch EXCEPT ![r] = entry]
      /\ \A m \in DOMAIN entry.groups : entry.groups[m].members # {}
      /\ entry.done => \A m \in DOMAIN entry.groups : entry.groups[m].disposition # "pending"
      /\ Taken(entry) = Taken(epoch[r]) /\ epoch[r].done = entry.done
      /\ entry.cap = epoch[r].cap \/ Taken(entry) = {}
      /\ epoch[r].done => Release!Activated(entry) = Release!Activated(epoch[r])
  <2>1. CASE epoch[r].made
    <3>1. epoch' = epoch
      BY <1>1, <2>1
    <3>2. QED BY <3>1, <2>1, <1>2, <1>t DEF EpochFits, Release!Frozen
  <2>2. CASE ~epoch[r].made
    <3>1. epoch[r] = Release!Absent
      BY <1>2, <2>2 DEF EpochFits
    <3>2. epoch[r].done = FALSE /\ epoch[r].groups = << >>
      BY <3>1 DEF Release!Absent
    <3>3. Taken(epoch[r]) = {}
      BY <3>2 DEF Taken, Release!Activated
    <3>4. PICK cap \in Caps, promote \in BOOLEAN :
            epoch' = [epoch EXCEPT ![r] = Release!FreshEpoch(r, cap, promote)]
      BY <1>1, <2>2
    <3> DEFINE e == Release!FreshEpoch(r, cap, promote)
    <3>5. entry = e
      BY <3>4, <1>t
    <3>6. /\ e \in Epochs /\ e.made /\ ~e.done /\ Release!Activated(e) = {} /\ Taken(e) = {}
          /\ \A m \in DOMAIN e.groups : e.groups[m].members # {}
      BY FreshFits
    <3> HIDE DEF e
    <3>7. e.done = FALSE
      BY <3>6 DEF Epochs
    <3>8. epoch' = [epoch EXCEPT ![r] = entry]
      BY <3>4, <3>5 DEF e
    <3>9. QED BY <3>2, <3>3, <3>5, <3>6, <3>7, <3>8
  <2>3. QED BY <2>1, <2>2
<1>4. now \in Detections /\ now.release = r /\ now.at = 0 /\ now.left \subseteq DOMAIN entry.groups
  <2>1. DOMAIN entry.groups \in SUBSET Release!Missions
    BY <1>3 DEF Epochs, GroupMaps
  <2>2. epoch[r].made \in BOOLEAN
    BY <1>2 DEF Epochs
  <2> DEFINE left == IF epoch'[r].done THEN {} ELSE DOMAIN epoch'[r].groups
             seen == epoch[r].made
  <2>3. left \in SUBSET Release!Missions /\ left \subseteq DOMAIN entry.groups
    BY <2>1
  <2>4. now = Arrived(r, seen, left)
    BY Zenon DEF Arrived
  <2> HIDE DEF left, now, entry, seen
  <2>5. seen \in BOOLEAN
    BY <2>2 DEF seen
  <2>6. QED BY <2>3, <2>4, <2>5, ArrivedIs
<1> HIDE DEF now, entry
<1>5. epoch'[r] = entry
  BY DEF entry
<1>6. \A q \in Releases : Release!Attributed(q)' = Release!Attributed(q)
  BY <1>1, Zenon DEF Release!Attributed
<1>7. EpochFits(r)'
  BY <1>3, <1>5 DEF EpochFits, Release!Frozen
<1>8. AttributionFits(r)'
  BY <1>2, <1>3, <1>5, <1>6 DEF AttributionFits
<1>9. CapFits(r)'
  <2>1. CASE entry.cap = epoch[r].cap
    BY <2>1, <1>2, <1>5, <1>6 DEF CapFits
  <2>2. CASE Taken(entry) = {}
    <3>1. Release!Attributed(r)' = {}
      BY <2>2, <1>5, <1>8 DEF AttributionFits
    <3>2. Cardinality(Release!Attributed(r)') = 0
      BY <3>1, FS_EmptySet
    <3>3. entry.cap \in Nat \cup {Release!NoCap}
      BY <1>3 DEF Epochs
    <3>4. QED BY <3>2, <3>3, <1>5 DEF CapFits
  <2>3. QED BY <1>3, <2>1, <2>2
<1>10. ASSUME NEW k \in 1..4 PROVE ProjectionFits(r, k)'
  <2>1. proj' = proj /\ ProjectionFits(r, k)
    BY <1>1, <1>2
  <2>2. Release!Activated(epoch[r])' = Release!Activated(entry)
    BY <1>5 DEF Release!Activated
  <2>3. QED BY <2>1, <2>2, <1>3, <1>5 DEF ProjectionFits
<1>11. DetectionFits(w)'
  <2>1. work'[w] = now
    BY <1>1, <1>t
  <2>2. Release!Frozen(r)' = DOMAIN entry.groups
    BY <1>5 DEF Release!Frozen
  <2>3. QED BY <2>1, <2>2, <1>3, <1>4, <1>5 DEF DetectionFits
<1>12. ASSUME NEW v \in Workers, v # w, work[v].release = r PROVE DetectionFits(v)'
  <2>1. work'[v] = work[v]
    BY <1>12, <1>1, <1>t
  <2>2. DetectionFits(v) /\ r # Release!NoRelease
    BY DEF ReleaseInv, ReleaseHypotheses
  <2>3. epoch' = epoch
    <3>1. epoch[r].made
      BY <2>2, <1>12 DEF DetectionFits
    <3>2. QED BY <3>1, <1>1
  <2>4. proj' = proj
    BY <1>1
  <2>5. QED BY <2>1, <2>2, <2>3, <2>4, Zenon DEF DetectionFits, Release!Frozen, Release!Activated
<1>13. Linked' /\ Release!GroupsAreWhole' /\ finding' \in [Findings -> FindingRows]
  BY <1>1, <1>t, FindingsRest, Zenon
<1>14. proj[r] \in [1..4 -> Told] /\ proj' = [proj EXCEPT ![r] = proj[r]]
  BY <1>1, <1>t
<1>15. QED
  BY <1>1, <1>3, <1>4, <1>6, <1>7, <1>8, <1>9, <1>10, <1>11, <1>12, <1>13, <1>14, OneRelease, Zenon

(* What a verdict under the lock says of the group.                           *)
LEMMA VerdictMeans ==
    ASSUME NEW r, NEW m
    PROVE  /\ Release!Verdict(r, m) \in {"activate"} \cup (Dispositions \ {"pending"})
           /\ Release!Verdict(r, m) = "activate" =>
                /\ Release!Live(m) = epoch[r].groups[m].members
                /\ \A f \in Release!Live(m) : finding[f].status = "triaged"
                /\ \/ epoch[r].cap = Release!NoCap
                   \/ Cardinality(Release!Attributed(r)) + Cardinality(epoch[r].groups[m].members)
                        =< epoch[r].cap
           /\ Release!Verdict(r, m) = "activated" =>
                /\ Release!Live(m) = epoch[r].groups[m].members
                /\ Release!Live(m) \subseteq Release!Attributed(r)
<1> DEFINE fits == \/ epoch[r].cap = Release!NoCap
                   \/ Cardinality(Release!Attributed(r)) + Cardinality(epoch[r].groups[m].members)
                        =< epoch[r].cap
           large == Cardinality(epoch[r].groups[m].members) > epoch[r].cap
           gone == mission[m].state \in Release!Over \/ Release!Live(m) # epoch[r].groups[m].members
           begun == \A f \in Release!Live(m) : finding[f].status = "in_progress"
           other == ~Release!Activatable(m) \/ mission[m].gate # epoch[r].groups[m].gate
<1>1. Release!Verdict(r, m) =
        IF gone THEN "deferred_changed"
        ELSE IF begun THEN IF Release!StartedHere(r, m) THEN "activated" ELSE "deferred_changed"
        ELSE IF other THEN "deferred_changed"
        ELSE IF fits THEN "activate"
        ELSE IF large THEN "deferred_oversized" ELSE "deferred_budget"
  BY SizeIs, Zenon DEF Release!Verdict
<1>2. ~other => \A f \in Release!Live(m) : finding[f].status = "triaged"
  BY Zenon DEF Release!Activatable
<1>3. Release!StartedHere(r, m) => Release!Live(m) \subseteq Release!Attributed(r)
  BY Zenon DEF Release!StartedHere
<1>4. ~gone => Release!Live(m) = epoch[r].groups[m].members
  BY Zenon
<1>5. Release!Verdict(r, m) = "activate" => ~gone /\ ~other /\ fits
  <2> HIDE DEF gone, begun, other, fits, large
  <2>1. QED BY <1>1
<1>6. Release!Verdict(r, m) = "activated" => ~gone /\ Release!StartedHere(r, m)
  <2> HIDE DEF gone, begun, other, fits, large
  <2>1. QED BY <1>1
<1>7. Release!Verdict(r, m) \in {"activate"} \cup (Dispositions \ {"pending"})
  <2> HIDE DEF gone, begun, other, fits, large
  <2>1. QED BY <1>1 DEF Dispositions
<1>8. QED BY <1>2, <1>3, <1>4, <1>5, <1>6, <1>7, Zenon

Put(r, m, d) == [epoch[r] EXCEPT !.groups[m].disposition = d]

LEMMA PutIs ==
    ASSUME ReleaseInv, NEW r \in Releases, NEW m \in Release!Frozen(r),
           epoch[r].groups[m].disposition = "pending", NEW d \in Dispositions
    PROVE  /\ Put(r, m, d) \in Epochs /\ Put(r, m, d).made = epoch[r].made
           /\ Put(r, m, d).done = epoch[r].done /\ Put(r, m, d).cap = epoch[r].cap
           /\ DOMAIN Put(r, m, d).groups = Release!Frozen(r)
           /\ \A x \in Release!Frozen(r) :
                Put(r, m, d).groups[x].members = epoch[r].groups[x].members
           /\ Taken(Put(r, m, d)) =
                IF d = "activated" THEN Taken(epoch[r]) \cup epoch[r].groups[m].members
                                   ELSE Taken(epoch[r])
<1> DEFINE S == Release!Frozen(r)
           g == epoch[r].groups
           h == Put(r, m, d).groups
<1>1. epoch[r] \in Epochs /\ g \in [S -> Groups] /\ S \in SUBSET Release!Missions /\ m \in S
  BY GroupsOf
<1>2. h = [g EXCEPT ![m].disposition = d]
  BY <1>1 DEF Put, Epochs
<1>3. /\ h \in [S -> Groups] /\ \A x \in S : h[x].members = g[x].members
      /\ \A x \in S : h[x].disposition = IF x = m THEN d ELSE g[x].disposition
  <2> HIDE DEF h, g, S
  <2>1. \A x \in S : h[x] = IF x = m THEN [g[m] EXCEPT !.disposition = d] ELSE g[x]
    BY <1>1, <1>2
  <2>2. /\ [g[m] EXCEPT !.disposition = d] \in Groups
        /\ [g[m] EXCEPT !.disposition = d].members = g[m].members
        /\ [g[m] EXCEPT !.disposition = d].disposition = d
    BY <1>1 DEF Groups
  <2>3. h \in [S -> Groups]
    BY <1>1, <1>2, <2>1, <2>2
  <2>4. QED BY <2>1, <2>2, <2>3
<1>4. h \in GroupMaps
  BY <1>1, <1>3 DEF GroupMaps
<1>5. /\ Put(r, m, d) \in Epochs /\ Put(r, m, d).made = epoch[r].made
      /\ Put(r, m, d).done = epoch[r].done /\ Put(r, m, d).cap = epoch[r].cap
  <2>1. [epoch[r] EXCEPT !.groups = h] = Put(r, m, d)
    BY <1>1, <1>2 DEF Put, Epochs
  <2> HIDE DEF h
  <2>2. QED BY <1>1, <1>4, <2>1 DEF Epochs
<1>6. Release!Activated(epoch[r]) = {x \in S : g[x].disposition = "activated"}
  BY <1>1 DEF Release!Activated
<1>7. Release!Activated(Put(r, m, d)) = {x \in S : h[x].disposition = "activated"}
  BY <1>3 DEF Release!Activated
<1>8. g[m].disposition = "pending"
  OBVIOUS
<1> HIDE DEF S, g, h
<1>9. Release!Activated(Put(r, m, d)) =
        IF d = "activated" THEN Release!Activated(epoch[r]) \cup {m} ELSE Release!Activated(epoch[r])
  BY <1>1, <1>3, <1>6, <1>7, <1>8
<1>10. Taken(epoch[r]) = UNION {g[x].members : x \in Release!Activated(epoch[r])}
  BY DEF Taken, g
<1>11. Taken(Put(r, m, d)) = UNION {h[x].members : x \in Release!Activated(Put(r, m, d))}
  BY DEF Taken, h
<1>12. Release!Activated(epoch[r]) \subseteq S
  BY <1>6
<1>13. Taken(Put(r, m, d)) = IF d = "activated" THEN Taken(epoch[r]) \cup g[m].members ELSE Taken(epoch[r])
  BY <1>1, <1>3, <1>9, <1>10, <1>11, <1>12
<1>14. QED BY <1>3, <1>5, <1>13 DEF S, g, h

(* A detection that has visited a group goes on to the next.                  *)
LEMMA VisitedIs ==
    ASSUME ReleaseInv, NEW w \in Workers, NEW m, work' = [work EXCEPT ![w].left = @ \ {m}]
    PROVE  /\ work'[w] \in Detections /\ work' = [work EXCEPT ![w] = work'[w]]
           /\ work'[w].left \subseteq work[w].left /\ work'[w].at = work[w].at
           /\ work'[w].release = work[w].release /\ work'[w].count = work[w].count
           /\ work'[w].missed = work[w].missed
<1>1. work \in [Workers -> Detections]
  BY DEF ReleaseInv, ReleaseTypes
<1>2. work'[w] = [work[w] EXCEPT !.left = @ \ {m}]
  BY <1>1
<1>3. work[w] \in Detections
  BY <1>1
<1>4. /\ work'[w] \in Detections /\ work'[w].left \subseteq work[w].left /\ work'[w].at = work[w].at
      /\ work'[w].release = work[w].release /\ work'[w].count = work[w].count
      /\ work'[w].missed = work[w].missed
  BY <1>2, <1>3 DEF Detections
<1>5. work' = [work EXCEPT ![w] = work'[w]]
  BY <1>1
<1>6. QED BY <1>4, <1>5

LEMMA ReconcileStep ==
    ASSUME ReleaseHypotheses, ReleaseInv, NEW w \in Workers, Release!Reconcile(w)
    PROVE  ReleaseInv'
<1>t. /\ epoch \in [Releases -> Epochs] /\ proj \in [Releases -> [1..4 -> Told]]
      /\ work \in [Workers -> Detections] /\ finding \in [Findings -> FindingRows]
      /\ mission \in [Release!Missions -> MissionRows]
      /\ Linked /\ Release!GroupsAreWhole
  BY DEF ReleaseInv, ReleaseTypes
<1>0. PICK m \in work[w].left :
        /\ work[w].release # Release!NoRelease /\ work[w].at = 0
        /\ work' = [work EXCEPT ![w].left = @ \ {m}] /\ UNCHANGED <<mission, proj>>
        /\ IF epoch[work[w].release].groups[m].disposition # "pending" THEN UNCHANGED <<finding, epoch>>
           ELSE /\ epoch' = [epoch EXCEPT ![work[w].release] =
                     Release!Disposed(work[w].release, m, Release!Verdict(work[w].release, m))]
                /\ finding' = IF Release!Verdict(work[w].release, m) = "activate"
                              THEN Release!InProgress(m, work[w].release) ELSE finding
  BY Zenon DEF Release!Reconcile
<1>r. PICK r \in Releases : r = work[w].release
  BY <1>0, <1>t DEF Detections
<1>1. /\ r # Release!NoRelease /\ work[w].at = 0
      /\ work' = [work EXCEPT ![w].left = @ \ {m}] /\ UNCHANGED <<mission, proj>>
      /\ IF epoch[r].groups[m].disposition # "pending" THEN UNCHANGED <<finding, epoch>>
         ELSE /\ epoch' = [epoch EXCEPT ![r] = Release!Disposed(r, m, Release!Verdict(r, m))]
              /\ finding' = IF Release!Verdict(r, m) = "activate"
                            THEN Release!InProgress(m, r) ELSE finding
  BY <1>0, <1>r, Zenon
<1>2. work[w].left \subseteq Release!Frozen(r) /\ m \in Release!Frozen(r)
  <2>1. DetectionFits(w)
    BY DEF ReleaseInv
  <2>2. QED BY <2>1, <1>0, <1>1, <1>r DEF DetectionFits
<1>3. /\ work'[w] \in Detections /\ work' = [work EXCEPT ![w] = work'[w]]
      /\ work'[w].left \subseteq work[w].left /\ work'[w].at = 0 /\ work'[w].release = r
  BY <1>1, <1>r, VisitedIs
<1>4. /\ epoch[r] \in Epochs /\ EpochFits(r) /\ AttributionFits(r) /\ CapFits(r)
      /\ Release!Frozen(r) \in SUBSET Release!Missions
      /\ epoch[r].groups \in [Release!Frozen(r) -> Groups]
      /\ \A k \in 1..4 : ProjectionFits(r, k)
  BY <1>2, GroupsOf
<1>5. epoch[r].made
  BY <1>1, <1>r DEF ReleaseInv, DetectionFits
<1>p. proj[r] \in [1..4 -> Told] /\ proj' = [proj EXCEPT ![r] = proj[r]]
  BY <1>1, <1>2, <1>t
<1>6. CASE epoch[r].groups[m].disposition # "pending"
  <2>1. epoch' = epoch /\ finding' = finding /\ mission' = mission /\ proj' = proj
    BY <1>1, <1>6
  <2>2. /\ EpochFits(r)' /\ AttributionFits(r)' /\ CapFits(r)'
        /\ \A k \in 1..4 : ProjectionFits(r, k)'
    BY <1>2, <2>1, <1>4, Zenon DEF EpochFits, AttributionFits, CapFits, ProjectionFits, Release!Frozen,
       Release!Attributed, Release!Activated
  <2>3. DetectionFits(w)'
    <3>1. Release!Frozen(r)' = Release!Frozen(r)
      BY <2>1 DEF Release!Frozen
    <3>2. QED BY <1>2, <1>3, <1>5, <2>1, <3>1 DEF DetectionFits
  <2>4. ASSUME NEW v \in Workers, v # w PROVE DetectionFits(v)'
    <3>1. work'[v] = work[v] /\ DetectionFits(v)
      BY <1>3, <1>t, <2>4 DEF ReleaseInv
    <3>2. QED BY <3>1, <2>1, Zenon DEF DetectionFits, Release!Frozen, Release!Activated
  <2>5. Linked' /\ Release!GroupsAreWhole' /\ finding' \in [Findings -> FindingRows]
    BY <2>1, <1>t, FindingsRest, Zenon
  <2>6. \A q \in Releases : Release!Attributed(q)' = Release!Attributed(q)
    BY <2>1, Zenon DEF Release!Attributed
  <2>7. epoch' = [epoch EXCEPT ![r] = epoch[r]]
    BY <2>1, <1>t
  <2>8. QED BY <1>2, <1>3, <1>4, <1>p, <2>1, <2>2, <2>3, <2>4, <2>5, <2>6, <2>7, OneRelease, Zenon
<1>7. CASE epoch[r].groups[m].disposition = "pending"
  <2> DEFINE v == Release!Verdict(r, m)
             d == IF v = "activate" THEN "activated" ELSE v
  <2>1. /\ v \in {"activate"} \cup (Dispositions \ {"pending"})
        /\ v = "activate" =>
             /\ Release!Live(m) = epoch[r].groups[m].members
             /\ \A f \in Release!Live(m) : finding[f].status = "triaged"
             /\ \/ epoch[r].cap = Release!NoCap
                \/ Cardinality(Release!Attributed(r)) + Cardinality(epoch[r].groups[m].members)
                     =< epoch[r].cap
        /\ v = "activated" =>
             /\ Release!Live(m) = epoch[r].groups[m].members
             /\ Release!Live(m) \subseteq Release!Attributed(r)
    BY VerdictMeans, Zenon
  <2>2. /\ epoch' = [epoch EXCEPT ![r] = Put(r, m, d)]
        /\ finding' = IF v = "activate" THEN Release!InProgress(m, r) ELSE finding
    BY <1>1, <1>7, Zenon DEF Release!Disposed, Put
  <2> HIDE DEF v
  <2>3. d \in Dispositions /\ d # "pending" /\ (d = "activated" <=> v \in {"activate", "activated"})
    BY <2>1 DEF Dispositions
  <2> HIDE DEF d
  <2> DEFINE entry == Put(r, m, d)
  <2>4. /\ entry \in Epochs /\ entry.made = epoch[r].made
        /\ entry.done = epoch[r].done /\ entry.cap = epoch[r].cap
        /\ DOMAIN entry.groups = Release!Frozen(r)
        /\ \A x \in Release!Frozen(r) : entry.groups[x].members = epoch[r].groups[x].members
        /\ Taken(entry) = IF d = "activated" THEN Taken(epoch[r]) \cup epoch[r].groups[m].members
                                           ELSE Taken(epoch[r])
    BY <1>2, <1>7, <2>3, PutIs
  <2> HIDE DEF entry
  <2>5. epoch'[r] = entry /\ epoch' = [epoch EXCEPT ![r] = entry]
    BY <2>2, <1>2, <1>t DEF entry
  <2>6. ~epoch[r].done
    BY <1>2, <1>4, <1>7 DEF EpochFits
  <2>7. /\ finding' \in [Findings -> FindingRows] /\ Linked' /\ Release!GroupsAreWhole'
        /\ \A q \in Releases : q # r => Release!Attributed(q)' = Release!Attributed(q)
        /\ Release!Attributed(r)' = IF v = "activate" THEN Release!Attributed(r) \cup Release!Live(m)
                                                     ELSE Release!Attributed(r)
    <3>1. CASE v = "activate"
      <4>1. m \in Release!Missions /\ r \in Releases \cup {Release!NoRelease}
        BY <1>2, <1>4
      <4>2. /\ finding' = Release!InProgress(m, r) /\ mission' = mission
            /\ mission' \in [Release!Missions -> MissionRows]
            /\ \A f \in Release!Live(m) : finding[f].status = "triaged"
        BY <1>1, <1>t, <2>1, <2>2, <3>1
      <4>3. /\ finding' \in [Findings -> FindingRows] /\ Linked' /\ Release!GroupsAreWhole'
            /\ \A q \in Releases :
                 Release!Attributed(q)' = IF q = r THEN Release!Attributed(q) \cup Release!Live(m)
                                                   ELSE Release!Attributed(q)
        BY <4>1, <4>2, TakenWhole
      <4>4. QED BY <1>2, <3>1, <4>3
    <3>2. CASE v # "activate"
      <4>1. finding' = finding /\ mission' = mission
        BY <1>1, <2>2, <3>2
      <4>2. /\ Linked' /\ Release!GroupsAreWhole' /\ finding' \in [Findings -> FindingRows]
        BY <4>1, <1>t, FindingsRest, Zenon
      <4>3. \A q : Release!Attributed(q)' = Release!Attributed(q)
        BY <4>1, Zenon DEF Release!Attributed
      <4>4. QED BY <3>2, <4>2, <4>3
    <3>3. QED BY <3>1, <3>2
  <2>8. EpochFits(r)'
    <3>1. Release!Frozen(r)' = Release!Frozen(r)
      BY <2>4, <2>5 DEF Release!Frozen
    <3>2. QED BY <1>4, <1>5, <2>4, <2>5, <2>6, <3>1 DEF EpochFits
  <2>9. AttributionFits(r)'
    <3>1. Release!Attributed(r) = Taken(epoch[r])
      BY <1>4 DEF AttributionFits
    <3>2. Release!Attributed(r)' = Taken(entry)
      <4>1. CASE v = "activate"
        BY <4>1, <3>1, <2>1, <2>3, <2>4, <2>7
      <4>2. CASE v = "activated"
        BY <4>2, <3>1, <2>1, <2>3, <2>4, <2>7
      <4>3. CASE v \notin {"activate", "activated"}
        BY <4>3, <3>1, <2>3, <2>4, <2>7
      <4>4. QED BY <4>1, <4>2, <4>3
    <3>3. QED BY <3>2, <2>5 DEF AttributionFits
  <2>10. CapFits(r)'
    <3>1. CASE v = "activate"
      <4>1. IsFiniteSet(Release!Attributed(r)) /\ IsFiniteSet(epoch[r].groups[m].members)
        <5>1. Release!Attributed(r) \in SUBSET Findings
          BY DEF Release!Attributed
        <5>2. epoch[r].groups[m].members \in SUBSET Findings
          BY <1>2, <1>4 DEF Groups
        <5>3. QED BY <5>1, <5>2, FS_Subset DEF ReleaseHypotheses
      <4> DEFINE A == Release!Attributed(r)
                 B == epoch[r].groups[m].members
      <4>2. Cardinality(A \cup B) = Cardinality(A) + Cardinality(B) - Cardinality(A \cap B)
        BY <4>1, FS_Union
      <4>3. IsFiniteSet(A \cap B)
        BY <4>1, FS_Subset, A \cap B \in SUBSET A
      <4>4. Cardinality(A) \in Nat /\ Cardinality(B) \in Nat /\ Cardinality(A \cap B) \in Nat
        BY <4>1, <4>3, FS_CardinalityType
      <4>5. Release!Attributed(r)' = A \cup B /\ epoch'[r].cap = epoch[r].cap
        BY <2>1, <2>4, <2>5, <2>7, <3>1
      <4>6. epoch[r].cap = Release!NoCap \/ Cardinality(A) + Cardinality(B) =< epoch[r].cap
        BY <2>1, <3>1
      <4>7. epoch[r].cap \in Nat \cup {Release!NoCap}
        BY <1>4 DEF Epochs
      <4>8. epoch[r].cap # Release!NoCap => Cardinality(A \cup B) =< epoch[r].cap
        <5> HIDE DEF A, B
        <5>1. CASE epoch[r].cap = Release!NoCap
          BY <5>1
        <5>2. CASE epoch[r].cap \in Nat
          BY <5>2, <4>2, <4>4, <4>6
        <5>3. QED BY <5>1, <5>2, <4>7
      <4> HIDE DEF A, B
      <4>9. QED BY <4>5, <4>8, Zenon DEF CapFits
    <3>2. CASE v # "activate"
      BY <1>4, <2>4, <2>5, <2>7, <3>2 DEF CapFits
    <3>3. QED BY <3>1, <3>2
  <2>11. \A k \in 1..4 : ProjectionFits(r, k)'
    <3>1. ASSUME NEW k \in 1..4 PROVE proj'[r][k] = Release!Pending
      BY <1>1, <1>4, <2>6 DEF ProjectionFits
    <3>2. QED BY <3>1 DEF ProjectionFits
  <2>12. Release!Frozen(r)' = Release!Frozen(r)
    BY <2>4, <2>5 DEF Release!Frozen
  <2>13. DetectionFits(w)'
    <3>0. epoch'[r].made
      BY <1>5, <2>4, <2>5
    <3>a. work'[w].left \subseteq Release!Frozen(r)'
      BY <1>2, <1>3, <2>12
    <3>1. epoch'[r].made /\ work'[w].left \subseteq Release!Frozen(r)' /\ ~(work'[w].at > 0)
          /\ ~(work'[w].at > 1) /\ work'[w].release = r
      BY <1>3, <3>0, <3>a
    <3>2. QED BY <3>1 DEF DetectionFits
  <2>14. ASSUME NEW x \in Workers, x # w, work[x].release = r PROVE DetectionFits(x)'
    <3>1. work'[x] = work[x] /\ DetectionFits(x) /\ work[x] \in Detections /\ r # Release!NoRelease
      BY <1>1, <1>3, <1>t, <2>14 DEF ReleaseInv
    <3>2. /\ work[x].left \subseteq Release!Frozen(r) /\ ~(work[x].at > 0)
      BY <3>1, <2>6, <2>14 DEF DetectionFits
    <3>3. work[x].at = 0
      BY <3>1, <3>2 DEF Detections
    <3>a. epoch'[r].made
      BY <1>5, <2>4, <2>5
    <3>4. epoch'[r].made /\ work'[x].left \subseteq Release!Frozen(r)' /\ ~(work'[x].at > 0)
          /\ ~(work'[x].at > 1) /\ work'[x].release = r
      BY <3>1, <3>2, <3>3, <3>a, <2>12, <2>14
    <3>5. QED BY <3>4 DEF DetectionFits
  <2>15. QED
    BY <1>r, <1>1, <1>2, <1>3, <1>p, <2>4, <2>5, <2>7, <2>8, <2>9, <2>10, <2>11, <2>13, <2>14, OneRelease, Zenon
<1>8. QED BY <1>6, <1>7

(* Counts are numbers.                                                        *)
LEMMA CountsAreNumbers ==
    ASSUME ReleaseHypotheses, NEW S \in SUBSET Release!Missions
    PROVE  Cardinality(S) \in Nat
  BY FiniteMissions, FS_Subset, FS_CardinalityType

Counted(d, n) == [d EXCEPT !.at = 1, !.count = n]

LEMMA CountedIs ==
    ASSUME NEW d \in Detections, NEW n \in Int
    PROVE  /\ Counted(d, n) \in Detections /\ Counted(d, n).release = d.release
           /\ Counted(d, n).left = d.left /\ Counted(d, n).at = 1 /\ Counted(d, n).count = n
<1>1. Counted(d, n).release = d.release /\ Counted(d, n).left = d.left
  BY DEF Counted, Detections
<1>2. Counted(d, n).at = 1 /\ Counted(d, n).count = n
  BY DEF Counted, Detections
<1>3. 1 \in 0..4
  OBVIOUS
<1>4. Counted(d, n) \in Detections
  BY <1>3 DEF Counted, Detections
<1>5. QED BY <1>1, <1>2, <1>4

LEMMA FinalizeStep ==
    ASSUME ReleaseHypotheses, ReleaseInv, NEW w \in Workers, Release!Finalize(w)
    PROVE  ReleaseInv'
<1>t. /\ epoch \in [Releases -> Epochs] /\ proj \in [Releases -> [1..4 -> Told]]
      /\ work \in [Workers -> Detections] /\ finding \in [Findings -> FindingRows]
      /\ Linked /\ Release!GroupsAreWhole
  BY DEF ReleaseInv, ReleaseTypes
<1>0. /\ work[w].release # Release!NoRelease /\ work[w].at = 0
      /\ \A m \in Release!Frozen(work[w].release) :
           epoch[work[w].release].groups[m].disposition # "pending"
      /\ epoch' = [epoch EXCEPT ![work[w].release].done = TRUE]
      /\ work' = [work EXCEPT ![w].at = 1,
            ![w].count = Cardinality(Release!Activated(epoch'[work[w].release]))]
      /\ UNCHANGED <<finding, mission, proj>>
  BY SizeIs, Zenon DEF Release!Finalize
<1>r. PICK r \in Releases : r = work[w].release
  BY <1>0, <1>t DEF Detections
<1> DEFINE entry == [epoch[r] EXCEPT !.done = TRUE]
           n == Cardinality(Release!Activated(epoch'[r]))
           now == Counted(work[w], n)
<1>1. /\ r # Release!NoRelease /\ \A m \in Release!Frozen(r) : epoch[r].groups[m].disposition # "pending"
      /\ epoch' = [epoch EXCEPT ![r] = entry] /\ work' = [work EXCEPT ![w] = now]
      /\ finding' = finding /\ mission' = mission /\ proj' = proj
  <2>1. r # Release!NoRelease /\ \A m \in Release!Frozen(r) : epoch[r].groups[m].disposition # "pending"
    BY <1>0, <1>r, Zenon
  <2>2. epoch' = [epoch EXCEPT ![r].done = TRUE]
    BY <1>0, <1>r, Zenon
  <2>3. work' = [work EXCEPT ![w].at = 1, ![w].count = n]
    BY <1>0, <1>r, Zenon
  <2>4. work' = [work EXCEPT ![w] = now]
    <3> HIDE DEF n
    <3>1. QED BY <2>3 DEF Counted
  <2>5. QED BY <1>0, <2>1, <2>2, <2>4
<1>2. /\ epoch[r] \in Epochs /\ EpochFits(r) /\ AttributionFits(r) /\ CapFits(r)
      /\ Release!Frozen(r) \in SUBSET Release!Missions
      /\ Release!Activated(epoch[r]) \in SUBSET Release!Frozen(r)
      /\ \A k \in 1..4 : ProjectionFits(r, k)
  BY <1>r, GroupsOf
<1>3. DetectionFits(w) /\ work[w] \in Detections
  BY <1>t DEF ReleaseInv
<1>4. /\ epoch[r].made /\ work[w].left \subseteq Release!Frozen(r)
  BY <1>1, <1>3, <1>r DEF DetectionFits
<1>5. /\ entry \in Epochs /\ entry.made = epoch[r].made /\ entry.done /\ entry.cap = epoch[r].cap
      /\ entry.groups = epoch[r].groups
  BY <1>2 DEF Epochs
<1>6. epoch'[r] = entry
  BY <1>1, <1>t
<1> HIDE DEF entry
<1>7. /\ Release!Activated(epoch'[r]) = Release!Activated(epoch[r])
      /\ Taken(entry) = Taken(epoch[r]) /\ Release!Frozen(r)' = Release!Frozen(r)
  <2>1. Release!Activated(entry) = Release!Activated(epoch[r])
    BY <1>5 DEF Release!Activated
  <2>2. QED BY <1>5, <1>6, <2>1 DEF Taken, Release!Frozen
<1>8. n = Cardinality(Release!Activated(epoch[r])) /\ n \in Nat
  <2>1. Release!Activated(epoch[r]) \in SUBSET Release!Missions
    BY <1>2
  <2>2. QED BY <1>7, <2>1, CountsAreNumbers
<1> HIDE DEF n
<1>9. /\ now \in Detections /\ now.release = r /\ now.left = work[w].left /\ now.at = 1 /\ now.count = n
  <2>1. work[w] \in Detections /\ n \in Int
    BY <1>3, <1>8
  <2>2. QED BY <2>1, <1>r, CountedIs
<1> HIDE DEF now
<1>10. Linked' /\ Release!GroupsAreWhole' /\ finding' \in [Findings -> FindingRows]
  BY <1>1, <1>t, FindingsRest, Zenon
<1>11. \A q \in Releases : Release!Attributed(q)' = Release!Attributed(q)
  BY <1>1, Zenon DEF Release!Attributed
<1>12. EpochFits(r)'
  BY <1>1, <1>2, <1>4, <1>5, <1>6, <1>7 DEF EpochFits
<1>13. AttributionFits(r)'
  BY <1>2, <1>6, <1>7, <1>11 DEF AttributionFits
<1>14. CapFits(r)'
  BY <1>2, <1>5, <1>6, <1>11 DEF CapFits
<1>15. ASSUME NEW k \in 1..4 PROVE ProjectionFits(r, k)'
  <2>1. ProjectionFits(r, k) /\ proj'[r] = proj[r] /\ epoch'[r].done
    BY <1>1, <1>2, <1>5, <1>6
  <2>2. QED BY <2>1, <1>7 DEF ProjectionFits
<1>16. DetectionFits(w)'
  <2>1. work'[w] = now
    BY <1>1, <1>t
  <2>2. epoch'[r].made /\ epoch'[r].done
    BY <1>4, <1>5, <1>6
  <2>3. \A j \in 1..4 : ~(j < 1)
    OBVIOUS
  <2>4. work'[w].release = r /\ work'[w].left \subseteq Release!Frozen(r)' /\ work'[w].at = 1
        /\ work'[w].count = Cardinality(Release!Activated(epoch'[r]))
    BY <1>4, <1>7, <1>8, <1>9, <2>1
  <2>5. QED BY <2>2, <2>3, <2>4 DEF DetectionFits
<1>17. ASSUME NEW x \in Workers, x # w, work[x].release = r PROVE DetectionFits(x)'
  <2>1. work'[x] = work[x] /\ DetectionFits(x)
    BY <1>1, <1>t, <1>17 DEF ReleaseInv
  <2>2. epoch'[r].made /\ epoch'[r].done
    BY <1>4, <1>5, <1>6
  <2>3. QED BY <1>1, <1>7, <1>17, <2>1, <2>2 DEF DetectionFits
<1>18. proj[r] \in [1..4 -> Told] /\ proj' = [proj EXCEPT ![r] = proj[r]]
  BY <1>1, <1>r, <1>t
<1>19. QED
  BY <1>r, <1>1, <1>5, <1>9, <1>10, <1>11, <1>12, <1>13, <1>14, <1>15, <1>16, <1>17, <1>18,
     OneRelease, Zenon

(* What a projection produces is told from nothing.                           *)
LEMMA ProductIs ==
    ASSUME ReleaseHypotheses, ReleaseInv, NEW w \in Workers, work[w].release \in Releases,
           work[w].at \in 1..4
    PROVE  LET k == work[w].at
               p == Release!Product(w, k)
               r == work[w].release
           IN /\ p \in Told /\ p # Release!Pending
              /\ k > 1 => /\ p.count = Cardinality(Release!Activated(epoch[r]))
                          /\ k # 2 => p.missed = proj[r][1].missed
<1> DEFINE k == work[w].at
           p == Release!Product(w, k)
           r == work[w].release
<1>1. DetectionFits(w) /\ work[w] \in Detections /\ r # Release!NoRelease
  BY DEF ReleaseInv, ReleaseTypes, ReleaseHypotheses
<1>2. /\ work[w].count = Cardinality(Release!Activated(epoch[r]))
      /\ k > 1 => work[w].missed = proj[r][1].missed
  BY <1>1 DEF DetectionFits
<1>3. work[w].missed \in Int
  BY <1>1 DEF Detections
<1>4. work[w].count \in Nat
  <2>1. Release!Activated(epoch[r]) \in SUBSET Release!Missions
    BY GroupsOf
  <2>2. QED BY <1>2, <2>1, CountsAreNumbers
<1>5. CASE k = 1
  <2>1. p = [count |-> -1, missed |-> Release!Missed(r)]
    BY <1>5, FourKinds DEF Release!Product
  <2>2. Release!Missed(r) \in Nat
    <3>1. {m \in Deadlined[r] : mission[m].state \notin {"absent", "done"}} \in SUBSET Release!Missions
      BY DEF ReleaseHypotheses
    <3>2. QED BY <3>1, SizeIs, CountsAreNumbers DEF Release!Missed
  <2>3. p \in Told /\ p.missed # -1
    BY <2>1, <2>2 DEF Told
  <2>4. QED BY <1>5, <2>3 DEF Release!Pending
<1>6. CASE k # 1
  <2>1. k \in {2, 3, 4}
    BY <1>6
  <2>2. Release!Kinds[k] # "deadline" /\ (Release!Kinds[k] = "notify" <=> k = 2)
    BY <2>1, FourKinds
  <2>3. p = [count |-> work[w].count, missed |-> IF k = 2 THEN -1 ELSE work[w].missed]
    BY <2>2, Zenon DEF Release!Product
  <2>4. p \in Told /\ p.count = work[w].count /\ p.count # -1 /\ (k # 2 => p.missed = work[w].missed)
    BY <2>3, <1>3, <1>4 DEF Told
  <2>5. QED BY <1>2, <2>1, <2>4 DEF Release!Pending
<1>7. QED BY <1>5, <1>6

(* A detection after a projection.                                            *)
Further(d, k, missed) ==
  IF k = 4 THEN Release!Idle ELSE [d EXCEPT !.at = k + 1, !.missed = missed]

LEMMA FurtherIs ==
    ASSUME NEW d \in Detections, NEW k \in 1..4, NEW missed \in Int
    PROVE  /\ Further(d, k, missed) \in Detections
           /\ k = 4 => Further(d, k, missed).release = Release!NoRelease
           /\ k # 4 => /\ Further(d, k, missed).release = d.release
                       /\ Further(d, k, missed).left = d.left
                       /\ Further(d, k, missed).at = k + 1
                       /\ Further(d, k, missed).count = d.count
                       /\ Further(d, k, missed).missed = missed
<1>1. CASE k = 4
  <2>1. Release!Idle \in Detections /\ Release!Idle.release = Release!NoRelease
    BY DEF Release!Idle, Detections
  <2>2. QED BY <1>1, <2>1 DEF Further
<1>2. CASE k # 4
  <2>1. k + 1 \in 0..4 /\ Further(d, k, missed) = [d EXCEPT !.at = k + 1, !.missed = missed]
    BY <1>2 DEF Further
  <2> DEFINE n == k + 1
             e == [d EXCEPT !.at = n, !.missed = missed]
  <2> HIDE DEF n
  <2>2. n \in 0..4
    BY <2>1 DEF n
  <2>3. /\ e.release = d.release /\ e.left = d.left /\ e.count = d.count
    BY DEF Detections
  <2>4. e.at = n /\ e.missed = missed
    BY DEF Detections
  <2>5. e \in Detections
    BY <2>2 DEF Detections
  <2>6. Further(d, k, missed) = e
    BY <2>1 DEF n
  <2> HIDE DEF e
  <2>7. QED BY <1>2, <2>3, <2>4, <2>5, <2>6 DEF n
<1>3. QED BY <1>1, <1>2

LEMMA ProjectStep ==
    ASSUME ReleaseHypotheses, ReleaseInv, NEW w \in Workers, Release!Project(w)
    PROVE  ReleaseInv'
<1>t. /\ epoch \in [Releases -> Epochs] /\ proj \in [Releases -> [1..4 -> Told]]
      /\ work \in [Workers -> Detections] /\ finding \in [Findings -> FindingRows]
      /\ Linked /\ Release!GroupsAreWhole /\ work[w] \in Detections /\ DetectionFits(w)
  BY DEF ReleaseInv, ReleaseTypes
<1> DEFINE Made(r, k) == IF proj[r][k] = Release!Pending THEN Release!Product(w, k) ELSE proj[r][k]
<1>0. /\ work[w].release # Release!NoRelease /\ work[w].at > 0
      /\ proj' = [proj EXCEPT ![work[w].release][work[w].at] = Made(work[w].release, work[w].at)]
      /\ work' = [work EXCEPT ![w] =
           IF work[w].at = 4 THEN Release!Idle
           ELSE [work[w] EXCEPT !.at = work[w].at + 1,
                   !.missed = IF Release!Kinds[work[w].at] = "deadline"
                              THEN Made(work[w].release, work[w].at).missed ELSE work[w].missed]]
      /\ UNCHANGED <<finding, mission, epoch>>
  BY FourKinds, Zenon DEF Release!Project
<1>r. PICK r \in Releases, k \in 1..4 : r = work[w].release /\ k = work[w].at
  BY <1>0, <1>t DEF Detections
<1> DEFINE made == Made(r, k)
           missed == IF k = 1 THEN made.missed ELSE work[w].missed
           told == [proj[r] EXCEPT ![k] = made]
           now == Further(work[w], k, missed)
<1>1. /\ r # Release!NoRelease /\ proj' = [proj EXCEPT ![r] = told]
      /\ finding' = finding /\ mission' = mission /\ epoch' = epoch
  <2>1. proj' = [proj EXCEPT ![r][k] = made]
    BY <1>0, <1>r, Zenon
  <2> HIDE DEF made
  <2>2. QED BY <1>0, <1>r, <2>1
<1>2. work' = [work EXCEPT ![w] = now]
  <2>1. Release!Kinds[k] = "deadline" <=> k = 1
    BY FourKinds
  <2>2. work' = [work EXCEPT ![w] =
           IF k = 4 THEN Release!Idle
           ELSE [work[w] EXCEPT !.at = k + 1,
                   !.missed = IF Release!Kinds[k] = "deadline" THEN made.missed ELSE work[w].missed]]
    BY <1>0, <1>r, Zenon
  <2> HIDE DEF made
  <2>3. QED BY <2>1, <2>2 DEF Further
<1>3. /\ epoch[r].made /\ work[w].left \subseteq Release!Frozen(r) /\ epoch[r].done
      /\ work[w].count = Cardinality(Release!Activated(epoch[r]))
      /\ \A j \in 1..4 : j < k => proj[r][j] # Release!Pending
      /\ k > 1 => work[w].missed = proj[r][1].missed
  <2>1. k > 0
    OBVIOUS
  <2>2. QED BY <1>1, <1>t, <1>r, <2>1 DEF DetectionFits
<1>4. /\ epoch[r] \in Epochs /\ EpochFits(r) /\ AttributionFits(r) /\ CapFits(r)
      /\ \A j \in 1..4 : ProjectionFits(r, j) /\ proj[r][j] \in Told
  BY <1>r, GroupsOf
<1>5. /\ made \in Told /\ made # Release!Pending
      /\ k > 1 => /\ made.count = Cardinality(Release!Activated(epoch[r]))
                  /\ k # 2 => made.missed = proj[r][1].missed
  <2> DEFINE p == Release!Product(w, k)
  <2>1. /\ p \in Told /\ p # Release!Pending
        /\ k > 1 => /\ p.count = Cardinality(Release!Activated(epoch[r]))
                    /\ k # 2 => p.missed = proj[r][1].missed
    BY <1>r, ProductIs, Zenon
  <2> HIDE DEF p
  <2>2. CASE proj[r][k] = Release!Pending
    <3>1. made = p
      BY <2>2 DEF p
    <3>2. QED BY <2>1, <3>1
  <2>3. CASE proj[r][k] # Release!Pending
    BY <2>3, <1>4 DEF ProjectionFits
  <2>4. QED BY <2>2, <2>3
<1> HIDE DEF made, Made
<1>6. told \in [1..4 -> Told] /\ \A j \in 1..4 : told[j] = IF j = k THEN made ELSE proj[r][j]
  BY <1>4, <1>5, <1>r, <1>t
<1>7. proj'[r] = told
  BY <1>1, <1>t
<1>8. \A j \in 1..4 : proj[r][j] # Release!Pending /\ (j # k) => told[j] = proj[r][j]
  BY <1>6
<1>9. \A j \in 1..4 : j =< k => told[j] # Release!Pending
  <2>1. ASSUME NEW j \in 1..4, j =< k PROVE told[j] # Release!Pending
    <3>1. CASE j = k
      BY <3>1, <1>5, <1>6
    <3>2. CASE j < k
      BY <3>2, <1>3, <1>6
    <3>3. QED BY <2>1, <3>1, <3>2
  <2>2. QED BY <2>1
<1>10. k # 1 \/ proj[r][1] # Release!Pending => told[1].missed = proj[r][1].missed
  BY <1>6 DEF Made, made
<1>11. /\ now \in Detections
       /\ k = 4 => now.release = Release!NoRelease
       /\ k # 4 => /\ now.release = r /\ now.left = work[w].left /\ now.at = k + 1
                   /\ now.count = work[w].count /\ now.missed = missed
  <2>1. missed \in Int /\ work[w] \in Detections
    BY <1>5, <1>t DEF Told, Detections
  <2> HIDE DEF missed
  <2>2. QED BY <2>1, <1>r, FurtherIs
<1> HIDE DEF now
<1>12. missed = told[1].missed
  <2>1. CASE k = 1
    BY <2>1, <1>6
  <2>2. CASE k # 1
    BY <2>2, <1>3, <1>10
  <2>3. QED BY <2>1, <2>2
<1> HIDE DEF missed, told
<1>13. Linked' /\ Release!GroupsAreWhole' /\ finding' \in [Findings -> FindingRows]
  BY <1>1, <1>t, FindingsRest, Zenon
<1>14. \A q \in Releases : Release!Attributed(q)' = Release!Attributed(q)
  BY <1>1, Zenon DEF Release!Attributed
<1>15. EpochFits(r)' /\ AttributionFits(r)' /\ CapFits(r)'
  BY <1>1, <1>4, Zenon DEF EpochFits, AttributionFits, CapFits, Release!Frozen, Release!Attributed
<1>16. ASSUME NEW j \in 1..4 PROVE ProjectionFits(r, j)'
  <2>1. CASE j = k
    <3>1. told[j] = made /\ epoch'[r].done /\ \A i \in 1..4 : i =< j => told[i] # Release!Pending
      BY <2>1, <1>1, <1>3, <1>6, <1>9
    <3>2. k > 1 => made.count = Cardinality(Release!Activated(epoch'[r]))
      BY <1>1, <1>5
    <3>3. k > 1 /\ k # 2 => made.missed = told[1].missed
      BY <1>5, <1>10
    <3>4. QED BY <2>1, <3>1, <3>2, <3>3, <1>7 DEF ProjectionFits
  <2>2. CASE j # k
    <3>1. ProjectionFits(r, j) /\ told[j] = proj[r][j]
      BY <2>2, <1>4, <1>6
    <3>2. told[j] # Release!Pending => \A i \in 1..4 : i =< j => told[i] # Release!Pending
      BY <3>1, <1>5, <1>6 DEF ProjectionFits
    <3>3. told[j] # Release!Pending => told[1].missed = proj[r][1].missed
      <4>1. told[j] # Release!Pending => proj[r][1] # Release!Pending
        BY <3>1 DEF ProjectionFits
      <4>2. QED BY <4>1, <1>10
    <3>4. QED BY <3>1, <3>2, <3>3, <1>1, <1>7 DEF ProjectionFits
  <2>3. QED BY <2>1, <2>2
<1>17. DetectionFits(w)'
  <2>1. work'[w] = now
    BY <1>2, <1>t
  <2>2. CASE k = 4
    BY <2>1, <2>2, <1>11 DEF DetectionFits
  <2>3. CASE k # 4
    <3>1. work'[w].release = r /\ work'[w].left \subseteq Release!Frozen(r) /\ work'[w].at = k + 1
          /\ work'[w].count = Cardinality(Release!Activated(epoch[r]))
          /\ work'[w].missed = told[1].missed
      BY <2>1, <2>3, <1>3, <1>11, <1>12
    <3>2. \A j \in 1..4 : j < k + 1 => told[j] # Release!Pending
      BY <1>9
    <3>3. Release!Frozen(r)' = Release!Frozen(r)
      BY <1>1 DEF Release!Frozen
    <3>4. QED BY <3>1, <3>2, <3>3, <1>1, <1>3, <1>7 DEF DetectionFits
  <2>4. QED BY <2>2, <2>3
<1>18. ASSUME NEW x \in Workers, x # w, work[x].release = r PROVE DetectionFits(x)'
  <2>1. work'[x] = work[x] /\ DetectionFits(x) /\ work[x] \in Detections
    BY <1>2, <1>t, <1>18 DEF ReleaseInv
  <2>2. Release!Frozen(r)' = Release!Frozen(r)
    BY <1>1 DEF Release!Frozen
  <2>3. work[x].at > 0 => \A j \in 1..4 : j < work[x].at => told[j] # Release!Pending
    BY <2>1, <1>1, <1>5, <1>6, <1>18 DEF DetectionFits
  <2>4. work[x].at > 1 => work[x].missed = told[1].missed
    <3>1. work[x].at > 1 => proj[r][1] # Release!Pending /\ work[x].missed = proj[r][1].missed
      <4>1. 1 \in 1..4 /\ work[x].at \in 0..4
        BY <2>1 DEF Detections
      <4>2. QED BY <2>1, <4>1, <1>1, <1>18 DEF DetectionFits
    <3>2. QED BY <3>1, <1>10
  <2>5. QED BY <2>1, <2>2, <2>3, <2>4, <1>1, <1>7, <1>18 DEF DetectionFits
<1>19. epoch' = [epoch EXCEPT ![r] = epoch[r]]
  BY <1>1, <1>r, <1>t
<1>20. QED
  BY <1>r, <1>1, <1>2, <1>4, <1>6, <1>11, <1>13, <1>14, <1>15, <1>16, <1>17, <1>18, <1>19,
     OneRelease, Zenon

LEMMA ReleaseStep ==
    ASSUME ReleaseHypotheses, ReleaseInv, [Release!Next]_(Release!vars)
    PROVE  ReleaseInv'
<1>1. CASE UNCHANGED Release!vars
  <2>1. finding' = finding /\ mission' = mission /\ epoch' = epoch /\ proj' = proj /\ work' = work
    BY <1>1 DEF Release!vars
  <2>2. ReleaseTypes' /\ Linked' /\ Release!GroupsAreWhole'
    <3>1. ReleaseTypes /\ Linked /\ Release!GroupsAreWhole
      BY Zenon DEF ReleaseInv
    <3>2. ReleaseTypes'
      BY <2>1, <3>1, Zenon DEF ReleaseTypes
    <3>3. QED BY <2>1, <3>1, <3>2, FindingsRest, Zenon
  <2>3. \A q \in Releases : Release!Attributed(q)' = Release!Attributed(q)
    BY <2>1, Zenon DEF Release!Attributed
  <2>4. QED BY <2>1, <2>2, <2>3, EpochsRest
<1>2. CASE Release!Next
  <2>1. CASE \E f \in Findings : \E m \in Release!Missions, gate \in Gates \cup {Release!NoGate} :
               Release!RouteToWork(f, m, gate)
    BY <2>1, RouteStep
  <2>2. CASE \E f \in Findings : Release!RouteWithoutWork(f)
    BY <2>2, RoutePlainStep
  <2>3. CASE \E f \in Findings : Release!ActivateByHand(f)
    BY <2>3, ByHandStep
  <2>4. CASE \E f \in Findings : Release!End(f)
    BY <2>4, EndStep
  <2>5. CASE \E m \in Release!Missions : Release!Edit(m)
    BY <2>5, EditStep
  <2>6. CASE \E w \in Workers, r \in Releases : Release!Detect(w, r)
    BY <2>6, DetectStep
  <2>7. CASE \E w \in Workers : Release!Reconcile(w)
    BY <2>7, ReconcileStep
  <2>8. CASE \E w \in Workers : Release!Finalize(w)
    BY <2>8, FinalizeStep
  <2>9. CASE \E w \in Workers : Release!Project(w)
    BY <2>9, ProjectStep
  <2>10. CASE \E w \in Workers : Release!Abandon(w)
    BY <2>10, AbandonStep
  <2>11. QED
    BY <1>2, <2>1, <2>2, <2>3, <2>4, <2>5, <2>6, <2>7, <2>8, <2>9, <2>10, Zenon
    DEF Release!Next, Release!Step
<1>3. QED BY <1>1, <1>2

(* However many detections of a Release run at once and fail, it activates    *)
(* whole groups and no more Findings than the cap it froze; its epoch and the *)
(* Findings attributed to it agree; and its projections come in order and     *)
(* tell what the epoch activated and the deadline notice counted.             *)
THEOREM ReleaseTheorem == ASSUME ReleaseHypotheses PROVE Release!Spec => []Release!ReleaseAgrees
<1>1. ReleaseInv /\ [Release!Next]_(Release!vars) => ReleaseInv'
  BY ReleaseStep
<1>2. ReleaseInv => Release!ReleaseAgrees
  BY ReleaseInvAgrees
<1>3. QED BY ReleaseStart, <1>1, <1>2, PTL DEF Release!Spec
=============================================================================
