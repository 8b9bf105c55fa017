--------------------------------- MODULE Board --------------------------------
(* The board of a habitat: Tasks that depend on Tasks, Missions that depend   *)
(* on Missions, the status a Mission stores of its Tasks and the column it    *)
(* stands in.  A Task's transition is committed first and its Mission         *)
(* recalculated afterwards, in the same request or by a timer of 100 ms; a    *)
(* process that ends in between forgets it.  Claims read the stored status.   *)
EXTENDS Naturals, FiniteSets

CONSTANTS
  Tasks, Missions,
  MissionOf,          \* the Mission of each Task
  Unpublished,        \* the Tasks that do not exist yet
  Columns,            \* how many columns the habitat has
  Terminal,           \* whether the last of them is terminal
  Debounce,           \* ORCY_TRANSITION_RECALC_DEBOUNCE
  Commands,           \* what people do here
  MaxEdits, MaxSetbacks, MaxCrashes

ASSUME BoardAssumption ==
  /\ MissionOf \in [Tasks -> Missions] /\ Unpublished \subseteq Tasks
  /\ Columns \in Nat \ {0} /\ Terminal \in BOOLEAN /\ Debounce \in BOOLEAN
  /\ MaxEdits \in Nat /\ MaxSetbacks \in Nat /\ MaxCrashes \in Nat

VARIABLES
  status,             \* of each Task
  deps, mdeps,        \* <<x, y>>: x depends on y
  stored, column,     \* of each Mission
  archived,
  owed,               \* the Missions whose recalculation is under way or timed
  astray,             \* history: changed and not recalculated, with no one to do it
  byHand,             \* history: the status was set by hand and not recalculated
  rewired,            \* history: edges of Missions were edited unchecked
  spent

board == <<status, deps, mdeps, stored, column, archived>>
vars == <<board, owed, astray, byHand, rewired, spent>>

Finished == {"approved", "done"}
TaskStatuses ==
  {"absent", "pending", "claimed", "in_progress", "submitted", "rejected", "failed"} \cup Finished
ActiveMissions == {"not_started", "in_progress", "review"}
MissionStatuses == ActiveMissions \cup {"done", "failed"}

Exist == {t \in Tasks : status[t] # "absent"}
Alive == {m \in Missions : stored[m] # "deleted"}
TasksOf(m) == {t \in Exist : MissionOf[t] = m}
-----------------------------------------------------------------------------
(* No set of nodes in which every node depends on another of them.            *)
Acyclic(E, S) == \A X \in SUBSET S \ {{}} : \E x \in X : \A y \in X : <<x, y>> \notin E

Closed(E, S, X) == \A x \in X, y \in S : <<x, y>> \in E => y \in X
Reach(E, S, x) == {y \in S : \A X \in SUBSET S : x \in X /\ Closed(E, S, X) => y \in X}

WouldCreateCycle(E, S, from, to) == from \in Reach(E, S, to)

DeriveMissionStatus(m) ==
  LET S == {status[t] : t \in TasksOf(m)}
  IN  IF S = {} THEN "not_started"
      ELSE IF S \subseteq Finished /\ "done" \in S THEN "done"
      ELSE IF S \subseteq Finished \cup {"submitted"} THEN "review"
      ELSE IF "failed" \in S /\ S \cap {"claimed", "in_progress", "submitted"} = {} THEN "failed"
      ELSE IF S # {"pending"} THEN "in_progress"
      ELSE "not_started"

NoColumn == 0
NonTerminal == IF Terminal THEN Columns - 1 ELSE Columns
ResolveTargetColumn(s) ==
  CASE s = "not_started" -> 1
    [] s = "in_progress" -> IF NonTerminal < 2 THEN NoColumn ELSE 2
    [] s = "review" -> IF NonTerminal < 3 THEN NoColumn ELSE NonTerminal
    [] s = "done" -> Columns
    [] OTHER -> NoColumn

AreAllDependenciesMet(t) == \A y \in Tasks : <<t, y>> \in deps => status[y] \in Finished

(* Mutant: a prerequisite in review is good enough.                           *)
ReviewedIsGoodEnough(t) ==
  \A m \in Missions : <<MissionOf[t], m>> \in mdeps => stored[m] \in {"done", "review"}

AreAllMissionDependenciesMet(t) ==
  \A m \in Missions : <<MissionOf[t], m>> \in mdeps => stored[m] = "done"

CheckClaimability(t) == AreAllDependenciesMet(t) /\ AreAllMissionDependenciesMet(t)
-----------------------------------------------------------------------------
(* Graphs that grew edge by edge over Tasks nobody has worked on.             *)
Init ==
  /\ status = [t \in Tasks |-> IF t \in Unpublished THEN "absent" ELSE "pending"]
  /\ deps \in SUBSET (Exist \X Exist) /\ Acyclic(deps, Tasks)
  /\ mdeps \in SUBSET (Missions \X Missions) /\ Acyclic(mdeps, Missions)
  /\ stored = [m \in Missions |-> "not_started"]
  /\ column = [m \in Missions |-> 1]
  /\ archived = {} /\ owed = {} /\ astray = {} /\ byHand = {} /\ rewired = FALSE
  /\ spent = [edits |-> 0, setbacks |-> 0, crashes |-> 0]

(* Without the timer, a transition and its recalculation are one turn.        *)
Turn == Debounce \/ owed = {}
Command(c) ==
  /\ Turn /\ c \in Commands /\ spent.edits < MaxEdits
  /\ spent' = [spent EXCEPT !.edits = @ + 1]

(* Mutant: the entry of completion in the effect table recalculates nothing.  *)
CommitSilently(t, s) ==
  /\ Turn
  /\ status' = [status EXCEPT ![t] = s]
  /\ owed' = IF s = "done" THEN owed ELSE owed \cup {MissionOf[t]}
  /\ UNCHANGED <<deps, mdeps, stored, column, archived, astray, byHand, rewired>>

(* The commit of a transition whose emission recalculates the Mission.        *)
Commit(t, s) ==
  /\ Turn
  /\ status' = [status EXCEPT ![t] = s]
  /\ owed' = owed \cup {MissionOf[t]}
  /\ UNCHANGED <<deps, mdeps, stored, column, archived, astray, byHand, rewired>>

Claim(t) ==
  /\ status[t] = "pending" /\ CheckClaimability(t)
  /\ Commit(t, "claimed") /\ UNCHANGED spent

(* Start, submit, approve and complete; completion asks for the dependencies. *)
Onward == {<<"claimed", "in_progress">>, <<"in_progress", "submitted">>,
           <<"submitted", "approved">>, <<"submitted", "done">>, <<"approved", "done">>}
Advance(t, s) ==
  /\ <<status[t], s>> \in Onward
  /\ s = "done" => AreAllDependenciesMet(t)
  /\ Commit(t, s) /\ UNCHANGED spent

(* Release, the claim of a delegated Task, failure and rejection, ...         *)
Setbacks == {<<"claimed", "pending">>, <<"in_progress", "pending">>, <<"in_progress", "claimed">>,
             <<"in_progress", "failed">>, <<"submitted", "rejected">>}
Setback(t, s) ==
  /\ <<status[t], s>> \in Setbacks /\ spent.setbacks < MaxSetbacks
  /\ Commit(t, s)
  /\ spent' = [spent EXCEPT !.setbacks = @ + 1]

(* ... and rework and retry, which nobody owes.                               *)
Resumptions == {<<"rejected", "in_progress">>, <<"rejected", "pending">>, <<"failed", "pending">>}
Resume(t, s) == <<status[t], s>> \in Resumptions /\ Commit(t, s) /\ UNCHANGED spent

(* The status engine: the status from the Tasks, then the column.             *)
Recalculate(m) ==
  /\ m \in owed
  /\ owed' = owed \ {m}
  /\ IF stored[m] = "deleted" THEN UNCHANGED <<stored, column, astray, byHand>>
     ELSE LET s == DeriveMissionStatus(m) IN
          /\ stored' = [stored EXCEPT ![m] = s]
          /\ column' = [column EXCEPT
               ![m] = IF ResolveTargetColumn(s) = NoColumn THEN @ ELSE ResolveTargetColumn(s)]
          /\ astray' = astray \ {m} /\ byHand' = byHand \ {m}
  /\ UNCHANGED <<status, deps, mdeps, archived, rewired, spent>>

(* The process ends between a commit and what follows it.                     *)
Crash ==
  /\ owed # {} /\ spent.crashes < MaxCrashes
  /\ spent' = [spent EXCEPT !.crashes = @ + 1]
  /\ owed' = {} /\ astray' = astray \cup owed
  /\ UNCHANGED <<board, byHand, rewired>>
-----------------------------------------------------------------------------
(* Mutant: any Mission that is not archived takes a Task.                     *)
AcceptingAll(m) == m \in Alive \ archived

Accepting(m) == m \in Alive \ archived /\ stored[m] \in ActiveMissions

(* A Task is published into an active Mission with its dependencies; the      *)
(* marker this leaves for a projection worker is read by no one.              *)
Publish(t, D) ==
  /\ Command("publish") /\ status[t] = "absent" /\ Accepting(MissionOf[t])
  /\ status' = [status EXCEPT ![t] = "pending"]
  /\ deps' = deps \cup ({t} \X D)
  /\ astray' = astray \cup {MissionOf[t]}
  /\ UNCHANGED <<mdeps, stored, column, archived, owed, byHand, rewired>>

(* The coordinator claims a reserved Task for its agent and emits nothing.    *)
AssignReserved(t) ==
  /\ Command("assign") /\ status[t] = "pending" /\ CheckClaimability(t)
  /\ status' = [status EXCEPT ![t] = "claimed"]
  /\ astray' = astray \cup {MissionOf[t]}
  /\ UNCHANGED <<deps, mdeps, stored, column, archived, owed, byHand, rewired>>

(* The row is gone when the transition is emitted: it names no Mission.       *)
DeleteTask(t) ==
  /\ Command("delete") /\ t \in Exist /\ MissionOf[t] \notin archived
  /\ \A x \in Tasks : <<x, t>> \notin deps
  /\ status' = [status EXCEPT ![t] = "absent"]
  /\ deps' = {e \in deps : e[1] # t}
  /\ astray' = astray \cup {MissionOf[t]}
  /\ UNCHANGED <<mdeps, stored, column, archived, owed, byHand, rewired>>

AddTaskDependency(x, y) ==
  /\ Command("wire") /\ {x, y} \subseteq Exist
  /\ x # y /\ ~WouldCreateCycle(deps, Tasks, x, y) /\ <<x, y>> \notin deps
  /\ deps' = deps \cup {<<x, y>>}
  /\ UNCHANGED <<status, mdeps, stored, column, archived, owed, astray, byHand, rewired>>

RemoveTaskDependency(x, y) ==
  /\ Command("wire") /\ <<x, y>> \in deps
  /\ deps' = deps \ {<<x, y>>}
  /\ UNCHANGED <<status, mdeps, stored, column, archived, owed, astray, byHand, rewired>>

AddMissionDependency(m, n) ==
  /\ Command("wire") /\ {m, n} \subseteq Alive
  /\ m # n /\ ~WouldCreateCycle(mdeps, Missions, m, n) /\ <<m, n>> \notin mdeps
  /\ mdeps' = mdeps \cup {<<m, n>>}
  /\ UNCHANGED <<status, deps, stored, column, archived, owed, astray, byHand, rewired>>

RemoveMissionDependency(m, n) ==
  /\ Command("wire") /\ <<m, n>> \in mdeps
  /\ mdeps' = mdeps \ {<<m, n>>}
  /\ UNCHANGED <<status, deps, stored, column, archived, owed, astray, byHand, rewired>>

(* PATCH replaces the edges of a Mission, in either direction, unchecked, ... *)
EditEdges(m, D, blocks) ==
  /\ Command("edit") /\ m \in Alive \ archived /\ D \subseteq Alive
  /\ mdeps' = IF blocks THEN {e \in mdeps : e[2] # m} \cup (D \X {m})
                        ELSE {e \in mdeps : e[1] # m} \cup ({m} \X D)
  /\ rewired' = TRUE
  /\ UNCHANGED <<status, deps, stored, column, archived, owed, astray, byHand>>

(* ... and its status.                                                        *)
EditStatus(m, s) ==
  /\ Command("status") /\ m \in Alive \ archived
  /\ stored' = [stored EXCEPT ![m] = s]
  /\ astray' = astray \cup {m} /\ byHand' = byHand \cup {m}
  /\ UNCHANGED <<status, deps, mdeps, column, archived, owed, rewired>>

MoveMissionToColumn(m, c) ==
  /\ Command("move") /\ m \in Alive
  /\ column' = [column EXCEPT ![m] = c]
  /\ astray' = astray \cup {m}
  /\ UNCHANGED <<status, deps, mdeps, stored, archived, owed, byHand, rewired>>

Archive(m) ==
  /\ Command("archive")
  /\ IF m \in archived THEN archived' = archived \ {m}
                       ELSE stored[m] = "done" /\ archived' = archived \cup {m}
  /\ UNCHANGED <<status, deps, mdeps, stored, column, owed, astray, byHand, rewired>>

(* A Mission goes with its Tasks and every edge of theirs.                    *)
DeleteMission(m) ==
  /\ Command("delete") /\ m \in Alive /\ \A n \in Missions : <<n, m>> \notin mdeps
  /\ stored' = [stored EXCEPT ![m] = "deleted"]
  /\ status' = [t \in Tasks |-> IF MissionOf[t] = m THEN "absent" ELSE status[t]]
  /\ deps' = {e \in deps : MissionOf[e[1]] # m /\ MissionOf[e[2]] # m}
  /\ mdeps' = {e \in mdeps : e[1] # m}
  /\ astray' = astray \ {m} /\ byHand' = byHand \ {m} /\ archived' = archived \ {m}
  /\ UNCHANGED <<column, owed, rewired>>
-----------------------------------------------------------------------------
TaskStep(t) ==
  \/ Claim(t) \/ \E s \in TaskStatuses : Advance(t, s) \/ Setback(t, s) \/ Resume(t, s)
TaskCommand(t) ==
  \/ \E D \in SUBSET Exist : Publish(t, D)
  \/ AssignReserved(t) \/ DeleteTask(t)
  \/ \E y \in Tasks : AddTaskDependency(t, y) \/ RemoveTaskDependency(t, y)
MissionCommand(m) ==
  \/ \E n \in Missions : AddMissionDependency(m, n) \/ RemoveMissionDependency(m, n)
  \/ \E D \in SUBSET Missions, blocks \in BOOLEAN : EditEdges(m, D, blocks)
  \/ \E s \in MissionStatuses : EditStatus(m, s)
  \/ \E c \in 1..Columns : MoveMissionToColumn(m, c)
  \/ Archive(m) \/ DeleteMission(m)

Next ==
  \/ \E t \in Tasks : TaskStep(t) \/ TaskCommand(t)
  \/ \E m \in Missions : Recalculate(m) \/ MissionCommand(m)
  \/ Crash

(* Agents take what they can claim and carry it on, and a recalculation that  *)
(* is under way or timed happens.                                             *)
Progress ==
  \/ \E t \in Tasks : Claim(t) \/ \E s \in TaskStatuses : Advance(t, s)
  \/ \E m \in Missions : Recalculate(m)

Spec == Init /\ [][Next]_vars /\ WF_vars(Progress)
-----------------------------------------------------------------------------
TypeOK ==
  /\ status \in [Tasks -> TaskStatuses]
  /\ deps \subseteq Exist \X Exist /\ mdeps \subseteq Alive \X Alive
  /\ stored \in [Missions -> MissionStatuses \cup {"deleted"}]
  /\ column \in [Missions -> 1..Columns]
  /\ archived \subseteq Alive /\ owed \subseteq Missions
  /\ byHand \subseteq astray /\ astray \subseteq Missions /\ rewired \in BOOLEAN

(* No Task waits for itself, whatever was wired, published and deleted.       *)
TasksAreOrdered == Acyclic(deps, Tasks)

(* Nor does a Mission, until somebody edits its edges in the form.            *)
MissionsAreOrdered == rewired \/ Acyclic(mdeps, Missions)

(* The stored status is the derived one and the column the one it asks for,   *)
(* unless the recalculation is to come or was lost.                           *)
StatusAgrees ==
  \A m \in Alive \ (owed \cup astray) :
    /\ stored[m] = DeriveMissionStatus(m)
    /\ ResolveTargetColumn(stored[m]) \in {NoColumn, column[m]}

(* A Mission that is called done, and not by hand, has only finished Tasks,   *)
(* though the status lags behind: this is what those who claim rely on.       *)
DoneIsFinished ==
  \A m \in Missions \ byHand :
    stored[m] = "done" => \A t \in TasksOf(m) : status[t] \in Finished

BoardAgrees == TasksAreOrdered /\ MissionsAreOrdered /\ StatusAgrees /\ DoneIsFinished

(* A Task is begun only when the Tasks it depends on are finished, and those  *)
(* of every Mission that comes first, unless one was called done by hand.     *)
Begun(t) == status[t] = "pending" /\ status'[t] = "claimed"
OrderIsKept ==
  [][\A t \in Tasks : Begun(t) =>
       /\ \A y \in Tasks : <<t, y>> \in deps => status[y] \in Finished
       /\ \A y \in Exist : <<MissionOf[t], MissionOf[y]>> \in mdeps =>
            status[y] \in Finished \/ MissionOf[y] \in byHand]_vars

(* What a Task waits for, Missions included.  It waits for good behind a      *)
(* failure, a circle through Tasks and Missions, a Mission without Tasks, or  *)
(* one whose recalculation was lost.                                          *)
Waits == deps \cup {e \in Tasks \X Tasks : <<MissionOf[e[1]], MissionOf[e[2]]>> \in mdeps}
Stuck(t) ==
  LET R == Reach(Waits, Exist, t)
  IN  \/ \E x \in R : status[x] \in {"failed", "rejected"}
      \/ ~Acyclic(Waits, R)
      \/ \E x \in R, m \in Missions :
           <<MissionOf[x], m>> \in mdeps /\ (TasksOf(m) = {} \/ m \in astray)

(* Every Task that exists is done in the end or is stuck behind one of these. *)
TasksFinish == \A t \in Tasks : []<>(status[t] \in {"absent", "done"} \/ Stuck(t))
=============================================================================
