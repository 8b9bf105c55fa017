------------------------- MODULE EffectReceiptsProofs -------------------------
(***************************************************************************)
(* Theorems about EffectReceipts, for every number of detectors, attempts  *)
(* and requeues: the receipts, their targets and their runs agree, and the *)
(* outbox implements the ledger of OutboxLedger.  A second part proves     *)
(* what WorkflowRecovery makes of the failures.                            *)
(***************************************************************************)
EXTENDS EffectReceipts, Sequences, WellFoundedInduction, TLAPS

(* A deployment follows consumers that the code knows, the detector        *)
(* dispatch among them, and tries each unit at least once.                 *)
Deployment ==
    /\ Consumers \subseteq FailureConsumers \cup IntentConsumers
    /\ "detector_dispatch" \in Consumers
    /\ EventKinds \subseteq {"failed", "released"}
    /\ Cap \in Nat \ {0} /\ MaxRequeues \in Nat /\ Null \notin Nat
    /\ SingleProcess \in BOOLEAN

-----------------------------------------------------------------------------
(* The strengthening                                                       *)

(* The aggregate is never worked on itself: no deliverer reserves it, so   *)
(* no late one can acknowledge it or fail it.                              *)
ParentIsDerived ==
    /\ row[Parent].lease = Null
    /\ \A j \in flight : j.unit # Parent

(* Before the signals of a detector are out, nothing is done with its      *)
(* intents, and afterwards its run keeps their marker.                     *)
IntentsFollow ==
    \A d \in Detectors :
        /\ signals[d] = 1 => run[d].marker
        /\ signals[d] = 0 => \A u \in Intents : u[2] = d => row[u].state = "unborn"

EffectsInv ==
    /\ TypeOK /\ ParentSumsUpTargets /\ OutputIsAcknowledged /\ SpentRowIsLeased
    /\ ParentIsDerived /\ IntentsFollow

(* Who may deliver a unit.                                                 *)
Closes(u) ==
    u \in Targets \cup {Parent, Ladder} \/ \E j \in flight : Ack(j) /\ j.unit = u

(* What a row may turn into: the edges of the ledger, with their owners.   *)
Edge(u) ==
    \/ row'[u].state = row[u].state
    \/ row[u].state = "pending" /\ row'[u].state = "dead_letter"
    \/ row[u].state = "pending" /\ row'[u].state = "delivered" /\ Closes(u)
    \/ /\ row[u].state = "dead_letter" /\ row'[u].state = "pending"
       /\ u[1] \in Requeueable \/ u \in Targets
    \/ u = Parent /\ row[u].state = "dead_letter" /\ row'[u].state = "delivered"
    \/ u \in Intents /\ row[u].state = "unborn" /\ row'[u].state = "pending"

(* Signals are put out once, in the step that delivers their target.       *)
PutsOut ==
    \/ signals' = signals
    \/ \E d \in Detectors :
        /\ signals[d] = 0 /\ signals' = [signals EXCEPT ![d] = 1]
        /\ row[TargetOf(d)].state = "pending" /\ row'[TargetOf(d)].state = "delivered"

(* What every step keeps.                                                  *)
SoundStep == EffectsInv' /\ (\A u \in Units : Edge(u)) /\ PutsOut

-----------------------------------------------------------------------------
(* The three kinds of units share nothing.                                 *)
LEMMA UnitsAre ==
    ASSUME Deployment
    PROVE  /\ Parent \in Receipts /\ Receipts \subseteq Units /\ Targets \subseteq Units
           /\ Intents \subseteq Units
           /\ \A u \in Units : u = <<u[1], u[2]>>
           /\ Receipts \cap Targets = {} /\ Receipts \cap Intents = {} /\ Targets \cap Intents = {}
           /\ \A d \in Detectors : TargetOf(d) \in Targets
           /\ \A u \in Targets : u[2] \in Detectors /\ u = TargetOf(u[2])
           /\ \A u \in Intents : u[2] \in Detectors
           /\ \A d, e \in Detectors : TargetOf(d) = TargetOf(e) => d = e
<1>1. TargetConsumer \notin Consumers
  BY DEF Deployment, TargetConsumer, FailureConsumers, IntentConsumers
<1>2. "detector_dispatch" \in Consumers \ IntentConsumers
  BY DEF Deployment, IntentConsumers
<1>3. Parent \in Receipts
  BY <1>2 DEF Parent, Receipts
<1>4. Receipts \cap Targets = {} /\ Receipts \cap Intents = {} /\ Targets \cap Intents = {}
  BY <1>1 DEF Receipts, Targets, Intents
<1>5. /\ \A d \in Detectors : TargetOf(d) \in Targets
      /\ \A u \in Targets : u[2] \in Detectors /\ u = TargetOf(u[2])
      /\ \A u \in Intents : u[2] \in Detectors
      /\ \A d, e \in Detectors : TargetOf(d) = TargetOf(e) => d = e
  BY DEF Targets, TargetOf, Intents
<1>6. \A u \in Units : u = <<u[1], u[2]>>
  BY DEF Units, Receipts, Targets, Intents
<1>7. QED
  BY <1>3, <1>4, <1>5, <1>6 DEF Units

(* The aggregate is derived from its targets, and nothing else moves.      *)
SumsUp(rows) ==
    Targets # {} =>
        /\ rows[Parent].state = "pending" =>
              "dead_letter" \notin ChildStates(rows) /\ ChildStates(rows) # {"delivered"}
        /\ rows[Parent].state = "delivered" => ChildStates(rows) = {"delivered"}

LEMMA DerivedIs ==
    ASSUME Deployment, NEW rows \in [Units -> Rows],
           rows[Parent].state = "delivered" => (Targets # {} => ChildStates(rows) = {"delivered"})
    PROVE  /\ Derived(rows) \in [Units -> Rows]
           /\ SumsUp(Derived(rows))
           /\ \A u \in Units \ {Parent} : Derived(rows)[u] = rows[u]
           /\ Derived(rows)[Parent].lease = rows[Parent].lease
           /\ Derived(rows)[Parent].attempts = rows[Parent].attempts
           /\ rows[Parent].state # "pending" => Derived(rows)[Parent] = rows[Parent]
           /\ Derived(rows)[Parent].state \in {rows[Parent].state, "delivered", "dead_letter"}
<1>1. /\ Parent \in Units /\ Parent \notin Targets /\ Targets \subseteq Units
      /\ rows[Parent] \in Rows
  BY UnitsAre
<1>2. ASSUME NEW state \in States
      PROVE  /\ [rows EXCEPT ![Parent].state = state] \in [Units -> Rows]
             /\ [rows EXCEPT ![Parent].state = state][Parent].state = state
             /\ [rows EXCEPT ![Parent].state = state][Parent].lease = rows[Parent].lease
             /\ [rows EXCEPT ![Parent].state = state][Parent].attempts = rows[Parent].attempts
             /\ \A u \in Units \ {Parent} : [rows EXCEPT ![Parent].state = state][u] = rows[u]
  BY <1>1 DEF Rows
<1>3. ASSUME NEW state \in States
      PROVE  ChildStates([rows EXCEPT ![Parent].state = state]) = ChildStates(rows)
  BY <1>1, <1>2 DEF ChildStates
<1>4. "dead_letter" \in States /\ "delivered" \in States
  BY DEF States
<1>5. CASE Targets = {} \/ rows[Parent].state # "pending"
  <2>1. Derived(rows) = rows
    BY <1>5 DEF Derived
  <2>2. SumsUp(rows)
    <3>1. CASE Targets = {}
      BY <3>1 DEF SumsUp
    <3>2. CASE rows[Parent].state # "pending"
      BY <3>2 DEF SumsUp
    <3>3. QED
      BY <1>5, <3>1, <3>2
  <2>3. QED
    BY <1>1, <2>1, <2>2 DEF Rows
<1>6. CASE Targets # {} /\ rows[Parent].state = "pending" /\ "dead_letter" \in ChildStates(rows)
  <2>1. Derived(rows) = [rows EXCEPT ![Parent].state = "dead_letter"]
    BY <1>6 DEF Derived
  <2>2. QED
    BY <1>2, <1>4, <1>6, <2>1 DEF SumsUp
<1>7. CASE /\ Targets # {} /\ rows[Parent].state = "pending" /\ "dead_letter" \notin ChildStates(rows)
           /\ ChildStates(rows) = {"delivered"}
  <2>1. Derived(rows) = [rows EXCEPT ![Parent].state = "delivered"]
    BY <1>7 DEF Derived
  <2>2. ChildStates(Derived(rows)) = {"delivered"} /\ Derived(rows)[Parent].state = "delivered"
    BY <1>2, <1>3, <1>4, <1>7, <2>1
  <2>3. SumsUp(Derived(rows))
    BY <2>2 DEF SumsUp
  <2>4. QED
    BY <1>2, <1>4, <1>7, <2>1, <2>3
<1>8. CASE /\ Targets # {} /\ rows[Parent].state = "pending" /\ "dead_letter" \notin ChildStates(rows)
           /\ ChildStates(rows) # {"delivered"}
  <2>1. Derived(rows) = rows
    BY <1>8 DEF Derived
  <2>2. QED
    BY <1>8, <2>1 DEF SumsUp
<1>9. QED
  BY <1>5, <1>6, <1>7, <1>8

-----------------------------------------------------------------------------
(* One unit moves, and the aggregate with it.                              *)
Spent(r) == r.state = "pending" /\ ~(r.attempts < Cap) => r.lease # Null

Follows(r, s) ==
    /\ s.lease = r.lease /\ s.attempts = r.attempts
    /\ s.state = r.state \/ (r.state = "pending" /\ s.state \in {"delivered", "dead_letter"})

MovesIn(old, new, u, r) ==
    /\ new \in [Units -> Rows]
    /\ new[u] = r
    /\ \A v \in Units \ {u, Parent} : new[v] = old[v]
    /\ Follows(old[Parent], new[Parent])
    /\ SumsUp(new)

(* Closing a pending unit closes the aggregate when it has to.             *)
LEMMA SettledIs ==
    ASSUME Deployment, NEW rows \in [Units -> Rows], SumsUp(rows),
           NEW u \in Units \ {Parent}, NEW r \in Rows, rows[u].state = "pending",
           r.state \in {"delivered", "dead_letter"}
    PROVE  MovesIn(rows, Settled([rows EXCEPT ![u] = r], u), u, r)
<1> DEFINE new == [rows EXCEPT ![u] = r]
<1>1. /\ Parent \in Units /\ Parent \notin Targets /\ Targets \subseteq Units
  BY UnitsAre
<1>2. /\ new \in [Units -> Rows] /\ new[u] = r /\ new[Parent] = rows[Parent]
      /\ \A v \in Units \ {u, Parent} : new[v] = rows[v]
  BY <1>1
<1>3. CASE u \notin Targets
  <2>1. Settled(new, u) = new
    BY <1>3 DEF Settled
  <2>2. ChildStates(new) = ChildStates(rows)
    BY <1>1, <1>2, <1>3 DEF ChildStates
  <2>3. SumsUp(new)
    BY <1>2, <2>2 DEF SumsUp
  <2>4. QED
    BY <1>2, <2>1, <2>3 DEF MovesIn, Follows
<1>4. CASE u \in Targets
  <2>1. Settled(new, u) = Derived(new)
    BY <1>4 DEF Settled
  <2>2. rows[Parent].state # "delivered"
    BY <1>4 DEF SumsUp, ChildStates
  <2>3. /\ Derived(new) \in [Units -> Rows]
        /\ SumsUp(Derived(new))
        /\ \A v \in Units \ {Parent} : Derived(new)[v] = new[v]
        /\ Derived(new)[Parent].lease = new[Parent].lease
        /\ Derived(new)[Parent].attempts = new[Parent].attempts
        /\ new[Parent].state # "pending" => Derived(new)[Parent] = new[Parent]
        /\ Derived(new)[Parent].state \in {new[Parent].state, "delivered", "dead_letter"}
    <3> HIDE DEF new
    <3>1. new[Parent].state = "delivered" => (Targets # {} => ChildStates(new) = {"delivered"})
      BY <1>2, <2>2
    <3>2. QED
      BY <1>2, <3>1, DerivedIs
  <2>4. Follows(rows[Parent], Derived(new)[Parent])
    BY <1>2, <2>3 DEF Follows
  <2>5. QED
    BY <1>2, <2>1, <2>3, <2>4 DEF MovesIn
<1>5. QED
  BY <1>3, <1>4

(* A change that closes nothing leaves the aggregate alone.                *)
LEMMA TouchedIs ==
    ASSUME Deployment, NEW rows \in [Units -> Rows], SumsUp(rows),
           NEW u \in Units \ {Parent}, NEW r \in Rows, rows[u].state = r.state
    PROVE  MovesIn(rows, [rows EXCEPT ![u] = r], u, r)
<1> DEFINE new == [rows EXCEPT ![u] = r]
<1>1. /\ Parent \in Units /\ Targets \subseteq Units
  BY UnitsAre
<1>2. /\ new \in [Units -> Rows] /\ new[u] = r /\ new[Parent] = rows[Parent]
      /\ \A v \in Units \ {u, Parent} : new[v] = rows[v]
  BY <1>1
<1>3. \A t \in Targets : new[t].state = rows[t].state
  BY <1>1, <1>2
<1>4. ChildStates(new) = ChildStates(rows)
  BY <1>3 DEF ChildStates
<1>5. SumsUp(new)
  BY <1>2, <1>4 DEF SumsUp
<1>6. QED
  BY <1>2, <1>5 DEF MovesIn, Follows

-----------------------------------------------------------------------------
(* What a step that puts out nothing leaves well typed and unspoilt.       *)
Aside ==
    /\ minted' \in [Units -> Nat] /\ flight' \in SUBSET Jobs /\ run' \in [Detectors -> Runs]
    /\ owns' \in BOOLEAN /\ gate' \in {"open", "us", "other"} /\ captured' \in BOOLEAN
    /\ armed' \in Nat /\ requeues' \in Nat
    /\ \A j \in flight' : j.unit # Parent
    /\ \A d \in Detectors : signals[d] = 1 => run'[d] = run[d]
    /\ signals' = signals

LEMMA MoveKeeps ==
    ASSUME Deployment, EffectsInv, Aside, NEW u \in Units \ {Parent}, NEW r \in Rows,
           MovesIn(row, row', u, r), Spent(r),
           \/ r.state = row[u].state
           \/ row[u].state = "pending" /\ r.state = "dead_letter"
           \/ row[u].state = "pending" /\ r.state = "delivered" /\ Closes(u)
           \/ row[u].state = "dead_letter" /\ r.state = "pending"
                /\ (u[1] \in Requeueable \/ u \in Targets)
    PROVE  SoundStep
<1>1. /\ Parent \in Units /\ Parent \notin Targets /\ Parent \notin Intents
      /\ Targets \subseteq Units /\ Intents \subseteq Units
      /\ \A d \in Detectors : TargetOf(d) \in Targets
  BY UnitsAre
<1>2. /\ row' \in [Units -> Rows] /\ row'[u] = r
      /\ \A v \in Units \ {u, Parent} : row'[v] = row[v]
      /\ Follows(row[Parent], row'[Parent]) /\ SumsUp(row')
  BY DEF MovesIn
<1>3. \A v \in Units : Edge(v)
  <2>1. Edge(u)
    BY <1>2 DEF Edge
  <2>2. Edge(Parent)
    BY <1>1, <1>2 DEF Edge, Follows, Closes
  <2>3. ASSUME NEW v \in Units \ {u, Parent} PROVE Edge(v)
    BY <1>2 DEF Edge
  <2>4. QED
    BY <2>1, <2>2, <2>3
<1>4. /\ \A v \in Units \ {Parent} : row[v].state \in {"delivered", "unborn"} =>
                                       row'[v].state = row[v].state
  BY <1>2
<1>5. TypeOK'
  BY <1>2 DEF EffectsInv, TypeOK, Aside
<1>6. ParentSumsUpTargets'
  BY <1>2 DEF ParentSumsUpTargets, SumsUp, ChildStates
<1>7. SpentRowIsLeased'
  <2>1. ASSUME NEW v \in Units PROVE Spent(row'[v])
    <3>1. Spent(row[v])
      BY DEF EffectsInv, SpentRowIsLeased, Spent
    <3>2. CASE v = u
      BY <1>2, <3>2
    <3>3. CASE v = Parent
      BY <1>2, <3>1, <3>3 DEF Spent, Follows
    <3>4. CASE v \in Units \ {u, Parent}
      BY <1>2, <3>1, <3>4
    <3>5. QED
      BY <3>2, <3>3, <3>4
  <2>2. QED
    BY <2>1 DEF SpentRowIsLeased, Spent
<1>8. OutputIsAcknowledged'
  <2>1. ASSUME NEW d \in Detectors
        PROVE  /\ signals'[d] \in {0, 1}
               /\ signals'[d] = 1 => row'[TargetOf(d)].state = "delivered" /\ run'[d].status = "succeeded"
    <3>1. TargetOf(d) \in Units \ {Parent}
      BY <1>1
    <3>2. /\ signals[d] \in {0, 1}
          /\ signals[d] = 1 => row[TargetOf(d)].state = "delivered" /\ run[d].status = "succeeded"
      BY DEF EffectsInv, OutputIsAcknowledged
    <3>3. signals'[d] = signals[d] /\ (signals[d] = 1 => run'[d] = run[d])
      BY DEF Aside
    <3>4. QED
      BY <1>4, <3>1, <3>2, <3>3
  <2>2. QED
    BY <2>1 DEF OutputIsAcknowledged, TargetOf
<1>9. ParentIsDerived'
  BY <1>2 DEF EffectsInv, ParentIsDerived, Follows, Aside, Parent
<1>10. IntentsFollow'
  <2>1. ASSUME NEW d \in Detectors
        PROVE  /\ signals'[d] = 1 => run'[d].marker
               /\ signals'[d] = 0 => \A i \in Intents : i[2] = d => row'[i].state = "unborn"
    <3>1. /\ signals[d] = 1 => run[d].marker
          /\ signals[d] = 0 => \A i \in Intents : i[2] = d => row[i].state = "unborn"
      BY DEF EffectsInv, IntentsFollow
    <3>2. signals'[d] = signals[d] /\ (signals[d] = 1 => run'[d] = run[d])
      BY DEF Aside
    <3>3. \A i \in Intents : i \in Units \ {Parent}
      BY <1>1
    <3>4. QED
      BY <1>4, <3>1, <3>2, <3>3
  <2>2. QED
    BY <2>1 DEF IntentsFollow, Intents
<1>11. PutsOut
  BY DEF PutsOut, Aside
<1>12. QED
  BY <1>3, <1>5, <1>6, <1>7, <1>8, <1>9, <1>10, <1>11 DEF SoundStep, EffectsInv

(* A step that leaves every row alone.                                     *)
LEMMA QuietKeeps ==
    ASSUME Deployment, EffectsInv, Aside, row' = row
    PROVE  SoundStep
<1>1. TypeOK'
  BY DEF EffectsInv, TypeOK, Aside
<1>2. ParentSumsUpTargets' /\ SpentRowIsLeased'
  BY DEF EffectsInv, ParentSumsUpTargets, SpentRowIsLeased, ChildStates
<1>3. OutputIsAcknowledged'
  BY DEF EffectsInv, OutputIsAcknowledged, Aside
<1>4. ParentIsDerived'
  BY DEF EffectsInv, ParentIsDerived, Aside
<1>5. IntentsFollow'
  BY DEF EffectsInv, IntentsFollow, Aside
<1>6. (\A u \in Units : Edge(u)) /\ PutsOut
  BY DEF Edge, PutsOut, Aside
<1>7. QED
  BY <1>1, <1>2, <1>3, <1>4, <1>5, <1>6 DEF SoundStep, EffectsInv

-----------------------------------------------------------------------------
(* The steps                                                               *)

LEMMA Typed ==
    ASSUME EffectsInv
    PROVE  /\ row \in [Units -> Rows] /\ minted \in [Units -> Nat] /\ flight \in SUBSET Jobs
           /\ run \in [Detectors -> Runs] /\ owns \in BOOLEAN /\ gate \in {"open", "us", "other"}
           /\ captured \in BOOLEAN /\ armed \in Nat /\ signals \in [Detectors -> Nat]
           /\ requeues \in Nat /\ SumsUp(row)
BY DEF EffectsInv, TypeOK, ParentSumsUpTargets, SumsUp

LEMMA JobsGoOn ==
    ASSUME EffectsInv, NEW j \in flight, NEW phase \in Phases, Becomes(j, phase) \/ Ends(j)
    PROVE  flight' \in SUBSET Jobs /\ \A k \in flight' : k.unit # Parent
<1>1. j \in Jobs /\ flight \in SUBSET Jobs /\ \A k \in flight : k.unit # Parent
  BY Typed DEF EffectsInv, ParentIsDerived
<1>2. [j EXCEPT !.phase = phase] \in Jobs /\ [j EXCEPT !.phase = phase].unit = j.unit
  BY <1>1 DEF Jobs
<1>3. QED
  BY <1>1, <1>2 DEF Becomes, Ends

(* The unit of a job, and the row that its fence protects.                 *)
LEMMA JobsUnit ==
    ASSUME Deployment, EffectsInv, NEW j \in flight
    PROVE  /\ j.unit \in Units \ {Parent} /\ j.fence \in Nat /\ j.phase \in Phases
           /\ row[j.unit] \in Rows
           /\ Holds(j) => row[j.unit].state = "pending" /\ row[j.unit].lease # Null
<1>1. j \in Jobs /\ j.unit # Parent
  BY Typed DEF EffectsInv, ParentIsDerived
<1>2. j.unit \in Units /\ j.fence \in Nat /\ j.phase \in Phases
  BY <1>1 DEF Jobs
<1>3. QED
  BY <1>1, <1>2, Typed DEF Holds, Deployment

LEMMA PhasesAre == \A p \in {"start", "handler", "ack", "fail"} : p \in Phases
BY DEF Phases

(* Work that touches neither rows nor runs.                                *)
LEMMA ConsumerStep ==
    ASSUME Deployment, EffectsInv, NEW j \in flight, NEW outcome \in {"ack", "fail"},
           DeliverGates(j, outcome) \/ DeliverContext(j, outcome) \/ DeliverPlain(j, outcome)
    PROVE  SoundStep
<1>1. /\ flight' \in SUBSET Jobs
      /\ \A k \in flight' : k.unit # Parent
  BY JobsGoOn, PhasesAre DEF DeliverGates, DeliverContext, DeliverPlain
<1>2. /\ row' = row /\ minted' = minted /\ run' = run /\ signals' = signals
      /\ owns' = owns /\ armed' = armed /\ requeues' = requeues
  BY DEF DeliverGates, DeliverContext, DeliverPlain, detectorVars, taskVars
<1>3. gate' \in {"open", "us", "other"} /\ captured' \in BOOLEAN
  BY Typed DEF DeliverGates, DeliverContext, DeliverPlain, taskVars
<1>4. Aside
  BY <1>1, <1>2, <1>3, Typed DEF Aside
<1>5. QED
  BY <1>2, <1>4, QuietKeeps

(* Runs change while they run, and a run with signals has succeeded.       *)
Spares(new) ==
    new \in [Detectors -> Runs] /\ \A e \in Detectors : signals[e] = 1 => new[e] = run[e]

LEMMA RunsGoOn ==
    ASSUME EffectsInv, NEW d \in Detectors, NEW status \in RunStates,
           run[d].status # "succeeded" \/ ~run[d].marker
    PROVE  /\ Spares([run EXCEPT ![d].status = status])
           /\ \A token \in Nat \cup {Null} : Spares(RunIs(d, status, token))
<1>1. run \in [Detectors -> Runs]
  BY Typed
<1>2. signals[d] # 1
  BY DEF EffectsInv, OutputIsAcknowledged, IntentsFollow
<1>3. Spares([run EXCEPT ![d].status = status])
  <2> DEFINE new == [run EXCEPT ![d].status = status]
  <2>1. new \in [Detectors -> Runs] /\ \A e \in Detectors \ {d} : new[e] = run[e]
    BY <1>1 DEF Runs
  <2>2. QED
    BY <1>2, <2>1 DEF Spares
<1>4. ASSUME NEW token \in Nat \cup {Null} PROVE Spares(RunIs(d, status, token))
  <2> DEFINE new == RunIs(d, status, token)
  <2>1. new \in [Detectors -> Runs] /\ \A e \in Detectors \ {d} : new[e] = run[e]
    BY <1>1 DEF Runs, RunIs
  <2>2. QED
    BY <1>2, <2>1 DEF Spares
<1>5. QED
  BY <1>3, <1>4

LEMMA RunStatesAre ==
    \A s \in {"none", "running", "succeeded", "failed", "rate_limited", "skipped", "lost"} :
        s \in RunStates
BY DEF RunStates

LEMMA DetectorStep ==
    ASSUME Deployment, EffectsInv, NEW j \in flight, NEW d \in Detectors,
           \/ SkipDetector(j, d) \/ SettleRun(j, d) \/ StartRun(j, d)
           \/ \E status \in {"failed", "rate_limited", "skipped"} : AbandonRun(j, d, status)
    PROVE  SoundStep
<1>1. /\ flight' \in SUBSET Jobs
      /\ \A k \in flight' : k.unit # Parent
  BY JobsGoOn, PhasesAre DEF SkipDetector, SettleRun, StartRun, AbandonRun
<1>2. /\ row' = row /\ minted' = minted /\ signals' = signals /\ owns' = owns /\ gate' = gate
      /\ captured' = captured /\ armed' = armed /\ requeues' = requeues
  BY DEF SkipDetector, SettleRun, StartRun, AbandonRun, taskVars
<1>3. run[d].token \in Nat \cup {Null} /\ run \in [Detectors -> Runs] /\ j.fence \in Nat
  BY Typed, JobsUnit DEF Runs
<1>4. Spares(run')
  <2>1. CASE SkipDetector(j, d)
    <3>1. CASE run[d].status = "none"
      <4>1. run' = RunIs(d, "skipped", j.fence)
        BY <2>1, <3>1 DEF SkipDetector
      <4>2. "skipped" \in RunStates /\ j.fence \in Nat \cup {Null}
        BY <1>3, RunStatesAre
      <4>3. Spares(RunIs(d, "skipped", j.fence))
        BY <3>1, <4>2, RunsGoOn
      <4>4. QED
        BY <4>1, <4>3
    <3>2. CASE run[d].status = "running"
      <4>1. run' = RunIs(d, "skipped", run[d].token)
        BY <2>1, <3>2 DEF SkipDetector
      <4>2. "skipped" \in RunStates /\ run[d].token \in Nat \cup {Null}
        BY <1>3, RunStatesAre
      <4>3. Spares(RunIs(d, "skipped", run[d].token))
        BY <3>2, <4>2, RunsGoOn
      <4>4. QED
        BY <4>1, <4>3
    <3>3. CASE run[d].status # "none" /\ run[d].status # "running"
      <4>1. run' = run
        BY <2>1, <3>3 DEF SkipDetector
      <4>2. QED
        BY <1>3, <4>1 DEF Spares
    <3>4. QED
      BY <3>1, <3>2, <3>3
  <2>2. CASE SettleRun(j, d)
    <3>1. CASE run[d].marker /\ run[d].status = "running"
      <4>1. run' = RunIs(d, "failed", run[d].token)
        BY <2>2, <3>1 DEF SettleRun
      <4>2. "failed" \in RunStates /\ run[d].token \in Nat \cup {Null}
        BY <1>3, RunStatesAre
      <4>3. Spares(RunIs(d, "failed", run[d].token))
        BY <3>1, <4>2, RunsGoOn
      <4>4. QED
        BY <4>1, <4>3
    <3>2. CASE ~(run[d].marker /\ run[d].status = "running")
      <4>1. run' = run
        BY <2>2, <3>2 DEF SettleRun
      <4>2. QED
        BY <1>3, <4>1 DEF Spares
    <3>3. QED
      BY <3>1, <3>2
  <2>3. CASE StartRun(j, d)
    <3>1. run' = RunIs(d, "running", j.fence) /\ ~run[d].marker
      BY <2>3 DEF StartRun, Redrivable
    <3>2. "running" \in RunStates /\ j.fence \in Nat \cup {Null}
      BY <1>3, RunStatesAre
    <3>3. Spares(RunIs(d, "running", j.fence))
      BY <3>1, <3>2, RunsGoOn
    <3>4. QED
      BY <3>1, <3>3
  <2>4. ASSUME NEW status \in {"failed", "rate_limited", "skipped"}, AbandonRun(j, d, status)
        PROVE  Spares(run')
    <3>1. CASE run[d].status = "running" /\ run[d].token = j.fence
      <4>1. run' = [run EXCEPT ![d].status = status]
        BY <2>4, <3>1 DEF AbandonRun, FinishRun
      <4>2. status \in RunStates
        BY RunStatesAre
      <4>3. QED
        BY <3>1, <4>1, <4>2, RunsGoOn
    <3>2. CASE ~(run[d].status = "running" /\ run[d].token = j.fence)
      <4>1. run' = run
        BY <2>4, <3>2 DEF AbandonRun, FinishRun
      <4>2. QED
        BY <1>3, <4>1 DEF Spares
    <3>3. QED
      BY <3>1, <3>2
  <2>5. QED
    BY <2>1, <2>2, <2>3, <2>4
<1>5. Aside
  BY <1>1, <1>2, <1>4, Typed DEF Aside, Spares
<1>6. QED
  BY <1>2, <1>5, QuietKeeps

LEMMA SurroundingsStep ==
    ASSUME Deployment, EffectsInv,
           Supersede \/ SatisfyElsewhere \/ Crash \/ \E d \in Detectors : MarkRunLost(d)
    PROVE  SoundStep
<1>1. flight' \subseteq flight
  BY DEF Supersede, SatisfyElsewhere, Crash, MarkRunLost
<1>2. flight' \in SUBSET Jobs /\ \A k \in flight' : k.unit # Parent
  BY <1>1, Typed DEF EffectsInv, ParentIsDerived
<1>3. /\ row' = row /\ minted' = minted /\ signals' = signals
      /\ owns' \in BOOLEAN /\ gate' \in {"open", "us", "other"}
      /\ captured' = captured /\ armed' = armed /\ requeues' = requeues
  BY Typed DEF Supersede, SatisfyElsewhere, Crash, MarkRunLost, taskVars, detectorVars
<1>4. Spares(run')
  <2>1. CASE run' = run
    BY <2>1, Typed DEF Spares
  <2>2. ASSUME NEW d \in Detectors, MarkRunLost(d)
        PROVE  Spares(run')
    <3>1. run' = [run EXCEPT ![d].status = "lost"] /\ run[d].status = "running"
      BY <2>2 DEF MarkRunLost
    <3>2. QED
      BY <3>1, RunsGoOn, RunStatesAre
  <2>3. QED
    BY <2>1, <2>2 DEF Supersede, SatisfyElsewhere, Crash, detectorVars
<1>5. Aside
  BY <1>2, <1>3, <1>4, Typed DEF Aside, Spares
<1>6. QED
  BY <1>3, <1>5, QuietKeeps

-----------------------------------------------------------------------------
(* What the guarded writes make of a row.                                  *)
Closed(rows, u, state) == [rows EXCEPT ![u].state = state, ![u].lease = Null, ![u].live = FALSE]
Freed(rows, u) == [rows EXCEPT ![u].lease = Null, ![u].live = FALSE]
Parked(rows, u) == [rows EXCEPT ![u].state = "dead_letter"]
Lapsed(rows, u) == [rows EXCEPT ![u].live = FALSE]

Edited(rows, new, u, state, lease) ==
    /\ new = [rows EXCEPT ![u] = new[u]]
    /\ new[u] \in Rows
    /\ new[u].state = state /\ new[u].lease = lease /\ new[u].attempts = rows[u].attempts

LEMMA StatesAre == \A s \in {"unborn", "pending", "delivered", "dead_letter"} : s \in States
BY DEF States

LEMMA RowEdits ==
    ASSUME NEW r \in Rows, NEW state \in States
    PROVE  /\ [r EXCEPT !.state = state] \in Rows
           /\ [r EXCEPT !.lease = Null] \in Rows
           /\ [r EXCEPT !.live = FALSE] \in Rows
BY DEF Rows

LEMMA EditsAre ==
    ASSUME NEW rows \in [Units -> Rows], NEW u \in Units
    PROVE  /\ \A state \in States : Edited(rows, Closed(rows, u, state), u, state, Null)
           /\ Edited(rows, Freed(rows, u), u, rows[u].state, Null)
           /\ Edited(rows, Parked(rows, u), u, "dead_letter", rows[u].lease)
           /\ Edited(rows, Lapsed(rows, u), u, rows[u].state, rows[u].lease)
<1>1. rows[u] \in Rows
  OBVIOUS
<1>2. ASSUME NEW state \in States PROVE Edited(rows, Closed(rows, u, state), u, state, Null)
  <2> DEFINE r1 == [rows[u] EXCEPT !.state = state]
             r2 == [r1 EXCEPT !.lease = Null]
             r3 == [r2 EXCEPT !.live = FALSE]
  <2>1. r1 \in Rows /\ r1.state = state /\ r1.attempts = rows[u].attempts
    BY <1>1, RowEdits DEF Rows
  <2> HIDE DEF r1
  <2>2. r2 \in Rows /\ r2.state = state /\ r2.attempts = rows[u].attempts /\ r2.lease = Null
    BY <2>1, RowEdits DEF Rows
  <2> HIDE DEF r2
  <2>3. /\ r3 \in Rows /\ r3.state = state /\ r3.attempts = rows[u].attempts /\ r3.lease = Null
    BY <2>2, RowEdits DEF Rows
  <2>4. Closed(rows, u, state) = [rows EXCEPT ![u] = r3]
    BY DEF Closed, r1, r2
  <2> HIDE DEF r3
  <2>5. QED
    BY <2>3, <2>4 DEF Edited
<1>3. Edited(rows, Freed(rows, u), u, rows[u].state, Null)
  <2> DEFINE r1 == [rows[u] EXCEPT !.lease = Null]
             r2 == [r1 EXCEPT !.live = FALSE]
  <2>1. r1 \in Rows /\ r1.state = rows[u].state /\ r1.attempts = rows[u].attempts /\ r1.lease = Null
    BY <1>1, RowEdits, StatesAre DEF Rows
  <2> HIDE DEF r1
  <2>2. r2 \in Rows /\ r2.state = rows[u].state /\ r2.attempts = rows[u].attempts /\ r2.lease = Null
    BY <2>1, RowEdits, StatesAre DEF Rows
  <2>3. Freed(rows, u) = [rows EXCEPT ![u] = r2]
    BY DEF Freed, r1
  <2> HIDE DEF r2
  <2>4. QED
    BY <2>2, <2>3 DEF Edited
<1>4. Edited(rows, Parked(rows, u), u, "dead_letter", rows[u].lease)
  <2> DEFINE r1 == [rows[u] EXCEPT !.state = "dead_letter"]
  <2>1. /\ r1 \in Rows /\ r1.state = "dead_letter" /\ r1.attempts = rows[u].attempts
        /\ r1.lease = rows[u].lease
    BY <1>1, RowEdits, StatesAre DEF Rows
  <2>2. Parked(rows, u) = [rows EXCEPT ![u] = r1]
    BY DEF Parked
  <2> HIDE DEF r1
  <2>3. QED
    BY <2>1, <2>2 DEF Edited
<1>5. Edited(rows, Lapsed(rows, u), u, rows[u].state, rows[u].lease)
  <2> DEFINE r1 == [rows[u] EXCEPT !.live = FALSE]
  <2>1. /\ r1 \in Rows /\ r1.state = rows[u].state /\ r1.attempts = rows[u].attempts
        /\ r1.lease = rows[u].lease
    BY <1>1, RowEdits, StatesAre DEF Rows
  <2>2. Lapsed(rows, u) = [rows EXCEPT ![u] = r1]
    BY DEF Lapsed
  <2> HIDE DEF r1
  <2>3. QED
    BY <2>1, <2>2 DEF Edited
<1>6. QED
  BY <1>2, <1>3, <1>4, <1>5

(* An acknowledgement closes its unit.                                     *)
LEMMA AckedIs ==
    ASSUME Deployment, NEW rows \in [Units -> Rows], SumsUp(rows),
           NEW u \in Units \ {Parent}, rows[u].state = "pending"
    PROVE  \E r \in Rows : /\ r.state = "delivered"
                           /\ MovesIn(rows, Acked(rows, u), u, r)
<1> DEFINE r == Closed(rows, u, "delivered")[u]
<1>1. Edited(rows, Closed(rows, u, "delivered"), u, "delivered", Null)
  BY EditsAre, StatesAre
<1>2. r \in Rows /\ r.state = "delivered" /\ Acked(rows, u) = Settled([rows EXCEPT ![u] = r], u)
  BY <1>1 DEF Edited, Acked, Closed
<1>3. MovesIn(rows, Settled([rows EXCEPT ![u] = r], u), u, r)
  <2> HIDE DEF r
  <2>1. QED
    BY <1>2, SettledIs
<1>4. QED
  BY <1>2, <1>3

(* A failure frees its unit for the next attempt, or parks it.             *)
LEMMA FailedIs ==
    ASSUME Deployment, EffectsInv, NEW u \in Units \ {Parent}, row[u].state = "pending"
    PROVE  \E r \in Rows : /\ r.state \in {"pending", "dead_letter"} /\ Spent(r)
                           /\ MovesIn(row, Failed(row, u), u, r)
<1>1. row \in [Units -> Rows] /\ SumsUp(row)
  BY Typed
<1>2. CASE WithinCap(u)
  <2> DEFINE r == Freed(row, u)[u]
  <2>1. Edited(row, Freed(row, u), u, "pending", Null)
    BY <1>1, EditsAre
  <2>2. /\ r \in Rows /\ r.state = "pending" /\ r.attempts = row[u].attempts
        /\ Failed(row, u) = [row EXCEPT ![u] = r]
    BY <1>2, <2>1 DEF Edited, Failed, Freed
  <2>3. Spent(r)
    BY <1>2, <2>2 DEF Spent, WithinCap
  <2> HIDE DEF r
  <2>4. MovesIn(row, [row EXCEPT ![u] = r], u, r)
    BY <1>1, <2>2, TouchedIs
  <2>5. QED
    BY <2>2, <2>3, <2>4
<1>3. CASE ~WithinCap(u)
  <2> DEFINE r == Closed(row, u, "dead_letter")[u]
  <2>1. Edited(row, Closed(row, u, "dead_letter"), u, "dead_letter", Null)
    BY <1>1, EditsAre, StatesAre
  <2>2. /\ r \in Rows /\ r.state = "dead_letter"
        /\ Failed(row, u) = Settled([row EXCEPT ![u] = r], u)
    BY <1>3, <2>1 DEF Edited, Failed, Closed
  <2>3. Spent(r)
    BY <2>2 DEF Spent
  <2> HIDE DEF r
  <2>4. MovesIn(row, Settled([row EXCEPT ![u] = r], u), u, r)
    BY <1>1, <2>2, SettledIs
  <2>5. QED
    BY <2>2, <2>3, <2>4
<1>4. QED
  BY <1>2, <1>3

-----------------------------------------------------------------------------
(* Acknowledgements and failures.                                          *)
LEMMA AnswerStep ==
    ASSUME Deployment, EffectsInv, NEW j \in flight, Ack(j) \/ Fail(j) \/ DeliverLadder(j)
    PROVE  SoundStep
<1>1. /\ flight' \in SUBSET Jobs
      /\ \A k \in flight' : k.unit # Parent
  BY JobsGoOn, PhasesAre DEF Ack, Fail, DeliverLadder
<1>2. /\ minted' = minted /\ signals' = signals /\ owns' = owns /\ gate' = gate
      /\ captured' = captured /\ armed' \in Nat /\ requeues' = requeues
  BY Typed DEF Ack, Fail, DeliverLadder, detectorVars, taskVars
<1>3. Spares(run')
  <2>1. CASE run' = run
    BY <2>1, Typed DEF Spares
  <2>2. CASE Fail(j)
    <3>1. run' = [d \in Detectors |->
                 IF j.unit = TargetOf(d) /\ Holds(j) /\ ~WithinCap(j.unit) /\ run[d].status = "running"
                 THEN [run[d] EXCEPT !.status = "failed"] ELSE run[d]]
      BY <2>2 DEF Fail
    <3>2. ASSUME NEW d \in Detectors
          PROVE  run'[d] \in Runs /\ (signals[d] = 1 => run'[d] = run[d])
      <4>1. run[d] \in Runs /\ (signals[d] = 1 => run[d].status = "succeeded")
        BY Typed DEF EffectsInv, OutputIsAcknowledged
      <4>2. [run[d] EXCEPT !.status = "failed"] \in Runs
        BY <4>1, RunStatesAre DEF Runs
      <4>3. QED
        BY <3>1, <4>1, <4>2
    <3>3. QED
      BY <3>1, <3>2 DEF Spares
  <2>3. QED
    BY <2>1, <2>2 DEF Ack, DeliverLadder, detectorVars
<1>4. Aside
  BY <1>1, <1>2, <1>3, Typed DEF Aside, Spares
<1>5. j.unit \in Units \ {Parent} /\ row \in [Units -> Rows] /\ SumsUp(row)
  BY JobsUnit, Typed
<1>6. CASE row' = row
  BY <1>4, <1>6, QuietKeeps
<1>7. CASE (Ack(j) \/ j.unit = Ladder) /\ Holds(j) /\ row' = Acked(row, j.unit)
  <2>1. row[j.unit].state = "pending"
    BY <1>7 DEF Holds
  <2>2. PICK r \in Rows : r.state = "delivered" /\ MovesIn(row, row', j.unit, r)
    BY <1>5, <1>7, <2>1, AckedIs
  <2>3. Spent(r)
    BY <2>2 DEF Spent
  <2>4. Closes(j.unit)
    BY <1>7 DEF Closes
  <2>5. QED
    BY <1>4, <1>5, <2>1, <2>2, <2>3, <2>4, MoveKeeps
<1>8. CASE Holds(j) /\ row' = Failed(row, j.unit)
  <2>1. row[j.unit].state = "pending"
    BY <1>8 DEF Holds
  <2>2. PICK r \in Rows : /\ r.state \in {"pending", "dead_letter"} /\ Spent(r)
                          /\ MovesIn(row, row', j.unit, r)
    BY <1>5, <1>8, <2>1, FailedIs
  <2>3. QED
    BY <1>4, <1>5, <2>1, <2>2, MoveKeeps
<1>9. QED
  BY <1>6, <1>7, <1>8 DEF Ack, Fail, DeliverLadder, At

(* Reservations, lapsing leases and the sweep.                             *)
LEMMA PassStep ==
    ASSUME Deployment, EffectsInv, NEW u \in Units,
           Reserve(u) \/ LeaseExpires(u) \/ Sweep(u)
    PROVE  SoundStep
<1>1. row \in [Units -> Rows] /\ SumsUp(row) /\ row[Parent].lease = Null
  BY Typed DEF EffectsInv, ParentIsDerived
<1>2. u \in Units \ {Parent}
  BY <1>1 DEF Reserve, LeaseExpires, Sweep, Eligible, Exhausted
<1>3. run' = run /\ signals' = signals /\ owns' = owns /\ gate' = gate
      /\ captured' = captured /\ armed' = armed /\ requeues' = requeues
  BY DEF Reserve, LeaseExpires, Sweep, detectorVars, taskVars
<1>4. row[u] \in Rows /\ row[u].attempts \in Nat /\ row[u].lease \in Nat \cup {Null}
      /\ row[u].state \in States /\ row[u].live \in BOOLEAN /\ Spent(row[u])
  BY <1>1, <1>2 DEF Rows, EffectsInv, SpentRowIsLeased, Spent
<1>5. CASE Reserve(u)
  <2>1. minted[u] + 1 \in Nat /\ minted' \in [Units -> Nat]
    BY <1>2, <1>5, Typed DEF Reserve
  <2>2. /\ [unit |-> u, fence |-> minted[u] + 1, phase |-> "start"] \in Jobs
        /\ [unit |-> u, fence |-> minted[u] + 1, phase |-> "start"].unit = u
    BY <1>2, <2>1, PhasesAre DEF Jobs
  <2>3. flight' = flight \cup {[unit |-> u, fence |-> minted[u] + 1, phase |-> "start"]}
    BY <1>5 DEF Reserve
  <2>4. flight' \in SUBSET Jobs /\ \A k \in flight' : k.unit # Parent
    BY <1>2, <2>2, <2>3, Typed DEF EffectsInv, ParentIsDerived
  <2>5. Aside
    BY <1>3, <2>1, <2>4, Typed DEF Aside
  <2> DEFINE r1 == [row[u] EXCEPT !.attempts = row[u].attempts + 1]
             r2 == [r1 EXCEPT !.lease = minted[u] + 1]
             r == [r2 EXCEPT !.live = TRUE]
  <2>6. r \in Rows /\ r.state = row[u].state /\ r.lease = minted[u] + 1
    <3>1. r1 \in Rows /\ r1.state = row[u].state
      BY <1>4 DEF Rows
    <3> HIDE DEF r1
    <3>2. r2 \in Rows /\ r2.state = row[u].state /\ r2.lease = minted[u] + 1
      BY <2>1, <3>1 DEF Rows
    <3> HIDE DEF r2
    <3>3. QED
      BY <3>2 DEF Rows
  <2>7. row' = [row EXCEPT ![u].attempts = @ + 1, ![u].lease = minted[u] + 1, ![u].live = TRUE]
    BY <1>5 DEF Reserve
  <2>8. row' = [row EXCEPT ![u] = r]
    BY <1>1, <1>2, <2>7
  <2>9. Spent(r)
    BY <2>1, <2>6 DEF Spent, Deployment
  <2>10. MovesIn(row, [row EXCEPT ![u] = r], u, r)
    <3> HIDE DEF r
    <3>1. QED
      BY <1>1, <1>2, <2>6, TouchedIs
  <2> HIDE DEF r
  <2>11. QED
    BY <1>2, <2>5, <2>6, <2>8, <2>9, <2>10, MoveKeeps
<1>6. CASE LeaseExpires(u)
  <2> DEFINE r == Lapsed(row, u)[u]
  <2>1. Edited(row, Lapsed(row, u), u, row[u].state, row[u].lease)
    BY <1>1, EditsAre
  <2>2. /\ row' = [row EXCEPT ![u] = r] /\ r \in Rows /\ r.state = row[u].state
        /\ r.lease = row[u].lease /\ r.attempts = row[u].attempts
    BY <1>6, <2>1 DEF LeaseExpires, Lapsed, Edited
  <2>3. Spent(r)
    BY <1>4, <2>2 DEF Spent
  <2>4. minted' = minted /\ flight' = flight
    BY <1>6 DEF LeaseExpires
  <2>5. Aside
    BY <1>3, <2>4, Typed DEF Aside, EffectsInv, ParentIsDerived
  <2> HIDE DEF r
  <2>6. MovesIn(row, row', u, r)
    BY <1>1, <1>2, <2>2, TouchedIs
  <2>7. QED
    BY <1>2, <2>2, <2>3, <2>5, <2>6, MoveKeeps
<1>7. CASE Sweep(u)
  <2> DEFINE r == Parked(row, u)[u]
  <2>1. Edited(row, Parked(row, u), u, "dead_letter", row[u].lease)
    BY <1>1, EditsAre
  <2>2. r \in Rows /\ r.state = "dead_letter" /\ row' = Settled([row EXCEPT ![u] = r], u)
    BY <1>7, <2>1 DEF Sweep, Parked, Edited
  <2>3. Spent(r) /\ row[u].state = "pending"
    BY <1>7, <2>2 DEF Spent, Sweep
  <2>4. minted' = minted /\ flight' = flight
    BY <1>7 DEF Sweep
  <2>5. Aside
    BY <1>3, <2>4, Typed DEF Aside, EffectsInv, ParentIsDerived
  <2> HIDE DEF r
  <2>6. MovesIn(row, row', u, r)
    BY <1>1, <1>2, <2>2, <2>3, SettledIs
  <2>7. QED
    BY <1>2, <2>2, <2>3, <2>5, <2>6, MoveKeeps
<1>8. QED
  BY <1>5, <1>6, <1>7

-----------------------------------------------------------------------------
(* A committed output opens its intents and closes its target.             *)
LEMMA ComposeStep ==
    ASSUME Deployment, EffectsInv, NEW j \in flight, NEW d \in Detectors, NEW some \in BOOLEAN,
           Compose(j, d, some)
    PROVE  SoundStep
<1> DEFINE T == TargetOf(d)
           base == [u \in Units |-> IF some /\ u \in Intents /\ u[2] = d
                                    THEN Fresh("pending") ELSE row[u]]
<1>1. /\ T \in Targets /\ T \in Units \ {Parent} /\ T \notin Intents /\ Parent \notin Intents
      /\ Parent \in Units /\ Targets \subseteq Units /\ Intents \subseteq Units
      /\ Targets \cap Intents = {}
      /\ \A e \in Detectors : TargetOf(e) \in Targets /\ (TargetOf(e) = T => e = d)
  BY UnitsAre
<1>2. row \in [Units -> Rows] /\ SumsUp(row)
  BY Typed
<1>3. /\ j.unit = T /\ row[T].state = "pending" /\ row' = Acked(base, T)
      /\ run' = [run EXCEPT ![d].status = "succeeded", ![d].marker = TRUE]
      /\ signals' = [signals EXCEPT ![d] = signals[d] + 1] /\ Ends(j)
      /\ minted' = minted /\ owns' = owns /\ gate' = gate /\ captured' = captured
      /\ armed' = armed /\ requeues' = requeues
  BY DEF Compose, At, BothFencesHold, Holds, taskVars
<1>4. signals[d] = 0 /\ \A i \in Intents : i[2] = d => row[i].state = "unborn"
  BY <1>3 DEF EffectsInv, OutputIsAcknowledged, IntentsFollow
<1>5. signals \in [Detectors -> Nat] /\ signals' = [signals EXCEPT ![d] = 1]
  BY <1>3, <1>4, Typed
<1>6. Fresh("pending") \in Rows /\ Fresh("pending").state = "pending" /\ Spent(Fresh("pending"))
  <2>1. Fresh("pending") \in Rows
    BY StatesAre DEF Fresh, Rows
  <2>2. Fresh("pending").state = "pending" /\ Fresh("pending").attempts < Cap
    BY DEF Fresh, Deployment
  <2>3. QED
    BY <2>1, <2>2 DEF Spent
<1>7. /\ base \in [Units -> Rows] /\ base[Parent] = row[Parent]
      /\ \A t \in Targets : base[t] = row[t]
      /\ \A u \in Units : base[u] = row[u] \/ (/\ u \in Intents /\ u[2] = d
                                               /\ base[u] = Fresh("pending"))
  BY <1>1, <1>2, <1>6
<1> HIDE DEF base
<1>8. SumsUp(base)
  <2>1. ChildStates(base) = ChildStates(row)
    BY <1>7 DEF ChildStates
  <2>2. QED
    BY <1>2, <1>7, <2>1 DEF SumsUp
<1>9. PICK r \in Rows : r.state = "delivered" /\ MovesIn(base, row', T, r)
  BY <1>1, <1>3, <1>7, <1>8, AckedIs
<1>10. /\ row' \in [Units -> Rows] /\ row'[T] = r
       /\ \A v \in Units \ {T, Parent} : row'[v] = base[v]
       /\ Follows(row[Parent], row'[Parent]) /\ SumsUp(row')
  BY <1>7, <1>9 DEF MovesIn
<1>11. run' \in [Detectors -> Runs] /\ run'[d].status = "succeeded" /\ run'[d].marker
       /\ \A e \in Detectors \ {d} : run'[e] = run[e]
  <2>1. run \in [Detectors -> Runs] /\ run[d] \in Runs
    BY Typed
  <2> DEFINE r1 == [run[d] EXCEPT !.status = "succeeded"]
             r2 == [r1 EXCEPT !.marker = TRUE]
  <2>2. r1 \in Runs /\ r1.status = "succeeded"
    BY <2>1, RunStatesAre DEF Runs
  <2> HIDE DEF r1
  <2>3. r2 \in Runs /\ r2.status = "succeeded" /\ r2.marker
    BY <2>2 DEF Runs
  <2>4. run' = [run EXCEPT ![d] = r2]
    BY <1>3, <2>1 DEF r1
  <2> HIDE DEF r2
  <2>5. QED
    BY <2>1, <2>3, <2>4
<1>12. flight' \in SUBSET Jobs /\ \A k \in flight' : k.unit # Parent
  BY <1>3, JobsGoOn, PhasesAre
<1>13. TypeOK'
  <2>1. signals' \in [Detectors -> Nat]
    BY <1>5
  <2>2. QED
    BY <1>3, <1>10, <1>11, <1>12, <2>1, Typed DEF TypeOK
<1>14. ParentSumsUpTargets'
  BY <1>10 DEF ParentSumsUpTargets, SumsUp, ChildStates
<1>15. SpentRowIsLeased'
  <2>1. ASSUME NEW v \in Units PROVE Spent(row'[v])
    <3>1. Spent(row[v])
      BY DEF EffectsInv, SpentRowIsLeased, Spent
    <3>2. CASE v = T
      BY <1>9, <1>10, <3>2 DEF Spent
    <3>3. CASE v = Parent
      BY <1>10, <3>1, <3>3 DEF Spent, Follows
    <3>4. CASE v \in Units \ {T, Parent}
      BY <1>6, <1>7, <1>10, <3>1, <3>4
    <3>5. QED
      BY <3>2, <3>3, <3>4
  <2>2. QED
    BY <2>1 DEF SpentRowIsLeased, Spent
<1>16. OutputIsAcknowledged'
  <2>1. ASSUME NEW e \in Detectors
        PROVE  /\ signals'[e] \in {0, 1}
               /\ signals'[e] = 1 => row'[TargetOf(e)].state = "delivered" /\ run'[e].status = "succeeded"
    <3>1. CASE e = d
      BY <1>5, <1>9, <1>10, <1>11, <3>1
    <3>2. CASE e # d
      <4>1. TargetOf(e) \in Units \ {T, Parent} /\ TargetOf(e) \notin Intents
        BY <1>1, <3>2, UnitsAre
      <4>2. row'[TargetOf(e)] = row[TargetOf(e)] /\ run'[e] = run[e] /\ signals'[e] = signals[e]
        BY <1>5, <1>7, <1>10, <1>11, <3>2, <4>1
      <4>3. QED
        BY <4>2 DEF EffectsInv, OutputIsAcknowledged
    <3>3. QED
      BY <3>1, <3>2
  <2>2. QED
    BY <2>1 DEF OutputIsAcknowledged, TargetOf
<1>17. ParentIsDerived'
  BY <1>10, <1>12 DEF EffectsInv, ParentIsDerived, Follows, Parent
<1>18. IntentsFollow'
  <2>1. ASSUME NEW e \in Detectors
        PROVE  /\ signals'[e] = 1 => run'[e].marker
               /\ signals'[e] = 0 => \A i \in Intents : i[2] = e => row'[i].state = "unborn"
    <3>1. CASE e = d
      BY <1>5, <1>11, <3>1
    <3>2. CASE e # d
      <4>1. run'[e] = run[e] /\ signals'[e] = signals[e]
        BY <1>5, <1>11, <3>2
      <4>2. \A i \in Intents : i[2] = e => row'[i] = row[i]
        BY <1>1, <1>7, <1>10, <3>2
      <4>3. QED
        BY <4>1, <4>2 DEF EffectsInv, IntentsFollow
    <3>3. QED
      BY <3>1, <3>2
  <2>2. QED
    BY <2>1 DEF IntentsFollow, Intents
<1>19. ASSUME NEW v \in Units PROVE Edge(v)
  <2>1. CASE v = T
    BY <1>1, <1>3, <1>9, <1>10, <2>1 DEF Edge, Closes
  <2>2. CASE v = Parent
    BY <1>10, <2>2 DEF Edge, Follows, Closes
  <2>3. CASE v \in Units \ {T, Parent}
    BY <1>4, <1>6, <1>7, <1>10, <2>3 DEF Edge
  <2>4. QED
    BY <2>1, <2>2, <2>3
<1>20. PutsOut
  BY <1>3, <1>4, <1>5, <1>9, <1>10 DEF PutsOut
<1>21. QED
  BY <1>13, <1>14, <1>15, <1>16, <1>17, <1>18, <1>19, <1>20 DEF SoundStep, EffectsInv

(* An operator requeues one dead unit, or the aggregate with its dead      *)
(* members.                                                                *)
LEMMA RequeueStep ==
    ASSUME Deployment, EffectsInv, NEW u \in Units, AdminRequeue(u)
    PROVE  SoundStep
<1> DEFINE reset == [v \in Units |-> IF Resets(u, v) THEN Fresh("pending") ELSE row[v]]
<1>1. /\ Parent \in Units /\ Parent \notin Targets /\ Parent \notin Intents
      /\ Targets \subseteq Units /\ Intents \subseteq Units /\ Targets \cap Intents = {}
      /\ \A d \in Detectors : TargetOf(d) \in Targets
  BY UnitsAre
<1>2. row \in [Units -> Rows] /\ SumsUp(row)
  BY Typed
<1>3. /\ row[u].state = "dead_letter" /\ u[1] \in Requeueable
      /\ row' = IF u = Parent THEN Derived(reset) ELSE reset
      /\ minted' = minted /\ flight' = flight /\ run' = run /\ signals' = signals /\ owns' = owns
      /\ gate' = gate /\ captured' = captured /\ armed' = armed /\ requeues' = requeues + 1
  BY DEF AdminRequeue, detectorVars, taskVars
<1>4. /\ Fresh("pending") \in Rows /\ Fresh("pending").state = "pending" /\ Spent(Fresh("pending"))
      /\ Fresh("pending").lease = Null
  <2>1. Fresh("pending") \in Rows
    BY StatesAre DEF Fresh, Rows
  <2>2. /\ Fresh("pending").state = "pending" /\ Fresh("pending").attempts < Cap
        /\ Fresh("pending").lease = Null
    BY DEF Fresh, Deployment
  <2>3. QED
    BY <2>1, <2>2 DEF Spent
<1>5. Aside
  <2>1. requeues' \in Nat
    BY <1>3, Typed
  <2>2. QED
    BY <1>3, <2>1, Typed DEF Aside, EffectsInv, ParentIsDerived
<1>6. CASE u # Parent
  <2>1. row' = [row EXCEPT ![u] = Fresh("pending")]
    BY <1>2, <1>3, <1>6 DEF Resets
  <2>2. /\ row' \in [Units -> Rows] /\ row'[u] = Fresh("pending")
        /\ \A v \in Units \ {u} : row'[v] = row[v]
    BY <1>2, <1>4, <2>1
  <2>3. SumsUp(row')
    <3>1. CASE u \in Targets
      <4>1. "dead_letter" \in ChildStates(row)
        BY <1>3, <3>1 DEF ChildStates
      <4>2. row[Parent].state # "pending" /\ row[Parent].state # "delivered"
        BY <1>2, <3>1, <4>1 DEF SumsUp
      <4>3. QED
        BY <1>1, <1>6, <2>2, <4>2 DEF SumsUp
    <3>2. CASE u \notin Targets
      <4>1. \A t \in Targets : row'[t] = row[t]
        BY <1>1, <2>2, <3>2
      <4>2. ChildStates(row') = ChildStates(row)
        BY <4>1 DEF ChildStates
      <4>3. QED
        BY <1>1, <1>2, <1>6, <2>2, <4>2 DEF SumsUp
    <3>3. QED
      BY <3>1, <3>2
  <2>4. MovesIn(row, row', u, Fresh("pending"))
    BY <1>1, <1>6, <2>2, <2>3 DEF MovesIn, Follows
  <2>5. QED
    BY <1>3, <1>4, <1>5, <1>6, <2>4, MoveKeeps
<1>7. CASE u = Parent
  <2>1. /\ reset \in [Units -> Rows] /\ reset[Parent] = Fresh("pending")
        /\ \A v \in Units : \/ reset[v] = row[v]
                            \/ /\ v = Parent \/ (v \in Targets /\ row[v].state = "dead_letter")
                               /\ reset[v] = Fresh("pending")
    <3>1. ASSUME NEW v \in Units
          PROVE  reset[v] = IF Resets(u, v) THEN Fresh("pending") ELSE row[v]
      OBVIOUS
    <3>2. ASSUME NEW v \in Units
          PROVE  /\ reset[v] \in Rows
                 /\ \/ reset[v] = row[v]
                    \/ /\ v = Parent \/ (v \in Targets /\ row[v].state = "dead_letter")
                       /\ reset[v] = Fresh("pending")
      BY <1>2, <1>4, <1>7, <3>1 DEF Resets
    <3>3. reset[Parent] = Fresh("pending")
      BY <1>1, <1>7, <3>1 DEF Resets
    <3>4. QED
      BY <3>2, <3>3
  <2>2. row' = Derived(reset)
    BY <1>3, <1>7
  <2> HIDE DEF reset
  <2>3. /\ row' \in [Units -> Rows] /\ SumsUp(row')
        /\ \A v \in Units \ {Parent} : row'[v] = reset[v]
        /\ row'[Parent].lease = Null /\ row'[Parent].attempts = Fresh("pending").attempts
        /\ row'[Parent].state \in {"pending", "delivered", "dead_letter"}
    <3>1. reset[Parent].state = "delivered" => (Targets # {} => ChildStates(reset) = {"delivered"})
      BY <1>4, <2>1
    <3>2. /\ Derived(reset) \in [Units -> Rows]
          /\ SumsUp(Derived(reset))
          /\ \A v \in Units \ {Parent} : Derived(reset)[v] = reset[v]
          /\ Derived(reset)[Parent].lease = reset[Parent].lease
          /\ Derived(reset)[Parent].attempts = reset[Parent].attempts
          /\ Derived(reset)[Parent].state \in {reset[Parent].state, "delivered", "dead_letter"}
      BY <2>1, <3>1, DerivedIs
    <3>3. QED
      BY <1>4, <2>1, <2>2, <3>2
  <2>4. TypeOK'
    BY <1>5, <2>3, Typed DEF TypeOK, Aside
  <2>5. ParentSumsUpTargets'
    BY <2>3 DEF ParentSumsUpTargets, SumsUp, ChildStates
  <2>6. SpentRowIsLeased'
    <3>1. ASSUME NEW v \in Units PROVE Spent(row'[v])
      <4>1. Spent(row[v])
        BY DEF EffectsInv, SpentRowIsLeased, Spent
      <4>2. CASE v = Parent
        BY <2>3, <4>2 DEF Spent, Fresh, Deployment
      <4>3. CASE v # Parent
        BY <1>4, <2>1, <2>3, <4>1, <4>3
      <4>4. QED
        BY <4>2, <4>3
    <3>2. QED
      BY <3>1 DEF SpentRowIsLeased, Spent
  <2>7. /\ \A v \in Units \ {Parent} : row[v].state \in {"delivered", "unborn"} =>
                                         row'[v] = row[v]
        /\ \A i \in Intents : row'[i] = row[i]
    BY <1>1, <2>1, <2>3
  <2>8. OutputIsAcknowledged'
    <3>1. ASSUME NEW d \in Detectors
          PROVE  /\ signals'[d] \in {0, 1}
                 /\ signals'[d] = 1 => row'[TargetOf(d)].state = "delivered" /\ run'[d].status = "succeeded"
      <4>1. TargetOf(d) \in Units \ {Parent}
        BY <1>1
      <4>2. /\ signals[d] \in {0, 1}
            /\ signals[d] = 1 => row[TargetOf(d)].state = "delivered" /\ run[d].status = "succeeded"
        BY DEF EffectsInv, OutputIsAcknowledged
      <4>3. QED
        BY <1>3, <2>7, <4>1, <4>2
    <3>2. QED
      BY <3>1 DEF OutputIsAcknowledged, TargetOf
  <2>9. ParentIsDerived'
    BY <1>5, <2>3 DEF ParentIsDerived, Aside, Parent
  <2>10. IntentsFollow'
    <3>1. ASSUME NEW d \in Detectors
          PROVE  /\ signals'[d] = 1 => run'[d].marker
                 /\ signals'[d] = 0 => \A i \in Intents : i[2] = d => row'[i].state = "unborn"
      BY <1>3, <2>7 DEF EffectsInv, IntentsFollow
    <3>2. QED
      BY <3>1 DEF IntentsFollow, Intents
  <2>11. ASSUME NEW v \in Units PROVE Edge(v)
    <3>1. CASE v = Parent
      BY <1>3, <1>7, <2>3, <3>1 DEF Edge
    <3>2. CASE v # Parent
      BY <1>3, <1>4, <2>1, <2>3, <3>2 DEF Edge
    <3>3. QED
      BY <3>1, <3>2
  <2>12. PutsOut
    BY <1>3 DEF PutsOut
  <2>13. QED
    BY <2>4, <2>5, <2>6, <2>8, <2>9, <2>10, <2>11, <2>12 DEF SoundStep, EffectsInv
<1>8. QED
  BY <1>6, <1>7

-----------------------------------------------------------------------------
LEMMA EveryStep ==
    ASSUME Deployment, EffectsInv, [Next]_vars
    PROVE  SoundStep
<1>1. CASE UNCHANGED vars
  <2>1. /\ row' = row /\ minted' = minted /\ flight' = flight /\ run' = run /\ signals' = signals
        /\ owns' = owns /\ gate' = gate /\ captured' = captured /\ armed' = armed
        /\ requeues' = requeues
    BY <1>1 DEF vars
  <2>2. Aside
    BY <2>1, Typed DEF Aside, EffectsInv, ParentIsDerived
  <2>3. QED
    BY <2>1, <2>2, QuietKeeps
<1>2. ASSUME NEW u \in Units, Pass(u) \/ TimePasses(u) PROVE SoundStep
  BY <1>2, PassStep DEF Pass, TimePasses
<1>3. ASSUME NEW u \in Units, AdminRequeue(u) PROVE SoundStep
  BY <1>3, RequeueStep
<1>4. ASSUME NEW j \in flight, Work(j) PROVE SoundStep
  <2>1. CASE Ack(j) \/ Fail(j) \/ DeliverLadder(j)
    BY <2>1, AnswerStep
  <2>2. ASSUME NEW outcome \in {"ack", "fail"},
               DeliverGates(j, outcome) \/ DeliverContext(j, outcome) \/ DeliverPlain(j, outcome)
        PROVE  SoundStep
    BY <2>2, ConsumerStep
  <2>3. ASSUME NEW d \in Detectors,
               \/ SkipDetector(j, d) \/ SettleRun(j, d) \/ StartRun(j, d)
               \/ \E status \in {"failed", "rate_limited", "skipped"} : AbandonRun(j, d, status)
        PROVE  SoundStep
    BY <2>3, DetectorStep
  <2>4. ASSUME NEW d \in Detectors, NEW some \in BOOLEAN, Compose(j, d, some)
        PROVE  SoundStep
    BY <2>4, ComposeStep
  <2>5. QED
    BY <1>4, <2>1, <2>2, <2>3, <2>4 DEF Work
<1>5. CASE Supersede \/ SatisfyElsewhere \/ Crash \/ \E d \in Detectors : MarkRunLost(d)
  BY <1>5, SurroundingsStep
<1>6. QED
  BY <1>1, <1>2, <1>3, <1>4, <1>5 DEF Next

LEMMA EffectsStart ==
    ASSUME Deployment, Init
    PROVE  EffectsInv
<1>1. PICK kind \in EventKinds : row = [u \in Units |-> BornRow(kind, u)]
  BY DEF Init
<1>2. /\ Parent \in Receipts /\ Parent \in Units /\ Targets \subseteq Units /\ Intents \subseteq Units
      /\ Receipts \cap Targets = {} /\ Receipts \cap Intents = {} /\ Targets \cap Intents = {}
      /\ \A d \in Detectors : TargetOf(d) \in Targets
  BY UnitsAre
<1>3. \A state \in States : /\ Fresh(state) \in Rows /\ Fresh(state).state = state
                            /\ Fresh(state).lease = Null /\ Fresh(state).attempts = 0
  BY DEF Fresh, Rows
<1>4. ASSUME NEW u \in Units
      PROVE  /\ row[u] \in Rows /\ row[u].lease = Null /\ row[u].attempts = 0
             /\ u \in Intents => row[u].state = "unborn"
             /\ u \in Targets => row[u].state \in {"pending", "unborn"}
             /\ row[u].state \in {"pending", "unborn", "delivered"}
             /\ row[u].state = "delivered" => u = Parent /\ Detectors = {}
  <2>1. row[u] = BornRow(kind, u)
    BY <1>1
  <2>2. QED
    BY <1>2, <1>3, <2>1, StatesAre DEF BornRow
<1>5. Targets = {} <=> Detectors = {}
  BY UnitsAre DEF Targets
<1>6. row[Parent].state = "pending" => \A t \in Targets : row[t].state = "pending"
  <2>1. CASE kind = "failed"
    <3>1. ASSUME NEW t \in Targets PROVE row[t] = Fresh("pending")
      <4>1. row[t] = BornRow(kind, t) /\ t # Parent
        BY <1>1, <1>2, <3>1
      <4>2. QED
        BY <2>1, <4>1 DEF BornRow
    <3>2. QED
      BY <3>1, <1>3, StatesAre
  <2>2. CASE kind # "failed"
    <3>1. Parent[1] \notin Required(kind)
      BY <2>2 DEF Required, ReleaseConsumers, Parent
    <3>2. row[Parent] = Fresh("unborn")
      BY <1>1, <1>2, <2>2, <3>1 DEF BornRow
    <3>3. QED
      BY <3>2, <1>3, StatesAre
  <2>3. QED
    BY <2>1, <2>2
<1>7. TypeOK
  <2>1. row \in [Units -> Rows]
    BY <1>1, <1>4
  <2>2. run \in [Detectors -> Runs]
    <3>1. [status |-> "none", token |-> Null, marker |-> FALSE] \in Runs
      BY RunStatesAre DEF Runs
    <3>2. QED
      BY <3>1 DEF Init
  <2>3. /\ minted \in [Units -> Nat] /\ flight \in SUBSET Jobs /\ owns \in BOOLEAN
        /\ gate \in {"open", "us", "other"} /\ captured \in BOOLEAN
        /\ armed \in Nat /\ signals \in [Detectors -> Nat] /\ requeues \in Nat
    BY DEF Init
  <2>4. QED
    BY <2>1, <2>2, <2>3 DEF TypeOK
<1>8. ParentSumsUpTargets
  BY <1>2, <1>4, <1>5, <1>6 DEF ParentSumsUpTargets, ChildStates
<1>9. OutputIsAcknowledged /\ IntentsFollow
  BY <1>2, <1>4 DEF Init, OutputIsAcknowledged, IntentsFollow
<1>10. SpentRowIsLeased
  BY <1>4 DEF SpentRowIsLeased, Deployment
<1>11. ParentIsDerived
  BY <1>2, <1>4 DEF Init, ParentIsDerived
<1>12. QED
  BY <1>7, <1>8, <1>9, <1>10, <1>11 DEF EffectsInv

-----------------------------------------------------------------------------
(* The stamp of a gate and the context that answers it, in one process     *)

(* In one process a unit that was reserved and not yet worked on is the    *)
(* only one, under its own lease: a gate is stamped only while the gates   *)
(* receipt still waits, so that whoever captures the context later sees    *)
(* every stamp that there will be.                                         *)
StampsBeforeContexts ==
    SingleProcess =>
        /\ \A j, k \in flight : j.phase = "start" /\ k.phase = "start" => j = k
        /\ \A j \in flight : j.phase = "start" => Holds(j)
        /\ \A j \in flight : j.unit = Context => SiblingTerminal(Gates)
        /\ \A j \in flight : j.unit = Context /\ j.phase = "ack" /\ gate = "us" => captured
        /\ Context \in Units /\ row[Context].state = "delivered" =>
              SiblingTerminal(Gates) /\ (gate = "us" => captured)

(* Where operators do not requeue the gates receipt in one process.  The   *)
(* code lets them: a gate stamped after such a requeue finds its context   *)
(* delivered, and is not captured.                                         *)
GatesStayParked == SingleProcess => "workflow_gates" \notin Requeueable

LEMMA SiblingsAre ==
    ASSUME Deployment
    PROVE  /\ Gates # Parent /\ Context # Parent /\ Gates # Context /\ Ladder # Context /\ Ladder # Gates
           /\ Gates \notin Targets /\ Context \notin Targets
           /\ Gates \notin Intents /\ Context \notin Intents
           /\ \A d \in Detectors : TargetOf(d) # Gates /\ TargetOf(d) # Context
           /\ Context \notin PlainUnits /\ Gates[1] = "workflow_gates"
<1>1. /\ Gates # Parent /\ Context # Parent /\ Gates # Context /\ Ladder # Context /\ Ladder # Gates
  BY DEF Gates, Context, Ladder, Parent
<1>2. Gates \notin Targets /\ Context \notin Targets
  BY DEF Gates, Context, Targets, TargetConsumer
<1>3. Gates \notin Intents /\ Context \notin Intents
  BY DEF Gates, Context, Intents, IntentConsumers
<1>4. \A d \in Detectors : TargetOf(d) # Gates /\ TargetOf(d) # Context
  BY DEF TargetOf, Gates, Context, TargetConsumer
<1>5. Context \notin PlainUnits /\ Gates[1] = "workflow_gates"
  BY DEF PlainUnits, Context, Gates, IntentConsumers
<1>6. QED
  BY <1>1, <1>2, <1>3, <1>4, <1>5

(* No step works on a reserved unit but the next one of its deliverer.     *)
LEMMA WorkBegins ==
    ASSUME flight \in SUBSET Jobs, NEW j \in flight, Work(j)
    PROVE  /\ \A k \in flight' : k \in flight \ {j} \/ (k.phase # "start" /\ k.unit = j.unit)
           /\ minted' = minted
<1>1. ASSUME NEW phase \in {"handler", "ack", "fail"}, Becomes(j, phase) \/ Ends(j)
      PROVE  \A k \in flight' : k \in flight \ {j} \/ (k.phase # "start" /\ k.unit = j.unit)
  <2>1. ASSUME NEW k \in flight', k \notin flight \ {j}
        PROVE  k.phase # "start" /\ k.unit = j.unit
    <3>1. k = [j EXCEPT !.phase = phase] /\ j \in Jobs
      BY <1>1, <2>1 DEF Becomes, Ends
    <3>2. [j EXCEPT !.phase = phase].phase = phase /\ [j EXCEPT !.phase = phase].unit = j.unit
      BY <3>1 DEF Jobs
    <3>3. QED
      BY <3>1, <3>2
  <2>2. QED
    BY <2>1
<1>2. QED
  BY <1>1
  DEF Work, Ack, Fail, DeliverLadder, DeliverGates, DeliverContext, DeliverPlain, SkipDetector,
      SettleRun, StartRun, Compose, AbandonRun

LEMMA StampStep ==
    ASSUME Deployment, GatesStayParked, EffectsInv, StampsBeforeContexts, [Next]_vars
    PROVE  StampsBeforeContexts'
<1> SUFFICES ASSUME SingleProcess
             PROVE  /\ \A j, k \in flight' : j.phase = "start" /\ k.phase = "start" => j = k
                    /\ \A j \in flight' : j.phase = "start" => Holds(j)'
                    /\ \A j \in flight' : j.unit = Context => SiblingTerminal(Gates)'
                    /\ \A j \in flight' :
                         j.unit = Context /\ j.phase = "ack" /\ gate' = "us" => captured'
                    /\ Context \in Units /\ row'[Context].state = "delivered" =>
                         SiblingTerminal(Gates)' /\ (gate' = "us" => captured')
  BY DEF StampsBeforeContexts, Context, Units, Receipts, Targets, Intents
<1>1. /\ \A j, k \in flight : j.phase = "start" /\ k.phase = "start" => j = k
      /\ \A j \in flight : j.phase = "start" => Holds(j)
      /\ \A j \in flight : j.unit = Context => SiblingTerminal(Gates)
      /\ \A j \in flight : j.unit = Context /\ j.phase = "ack" /\ gate = "us" => captured
      /\ Context \in Units /\ row[Context].state = "delivered" =>
              SiblingTerminal(Gates) /\ (gate = "us" => captured)
  BY DEF StampsBeforeContexts
<1>2. SoundStep /\ flight \in SUBSET Jobs /\ row \in [Units -> Rows]
  BY EveryStep, Typed
<1>3. SiblingTerminal(Gates) => SiblingTerminal(Gates)'
  <2> SUFFICES ASSUME Gates \in Units, row[Gates].state \in {"delivered", "dead_letter"}
               PROVE  row'[Gates].state \in {"delivered", "dead_letter"}
    BY DEF SiblingTerminal, Terminal, Gates, Units, Receipts, Targets, Intents
  <2>1. Edge(Gates)
    BY <1>2 DEF SoundStep
  <2>2. Gates \notin Targets /\ Gates \notin Intents /\ Gates # Parent /\ Gates[1] \notin Requeueable
    BY SiblingsAre DEF GatesStayParked
  <2>3. QED
    BY <2>1, <2>2 DEF Edge
<1>4. ASSUME Context \in Units, row'[Context].state = "delivered", row[Context].state # "delivered"
      PROVE  \E j \in flight : Ack(j) /\ j.unit = Context
  <2>1. Edge(Context)
    BY <1>2, <1>4 DEF SoundStep
  <2>2. Context \notin Targets \cup {Parent, Ladder}
    BY SiblingsAre
  <2>3. Context \notin Intents
    BY SiblingsAre
  <2>4. Closes(Context)
    BY <1>4, <2>1, <2>2, <2>3 DEF Edge
  <2>5. QED
    BY <2>2, <2>4 DEF Closes
<1>5. (gate' = gate \/ gate' = "other") \/ ~SiblingTerminal(Gates)
  <2>1. ASSUME NEW j \in flight, NEW outcome \in {"ack", "fail"}, DeliverGates(j, outcome)
        PROVE  ~SiblingTerminal(Gates)
    <3>1. j.unit = Gates /\ j.phase = "start"
      BY <2>1 DEF DeliverGates, At
    <3>2. row[Gates].state = "pending"
      BY <1>1, <3>1 DEF Holds
    <3>3. QED
      BY <3>2 DEF SiblingTerminal, Terminal
  <2>2. ASSUME NEW j \in flight, Work(j) PROVE gate' = gate \/ ~SiblingTerminal(Gates)
    BY <2>1, <2>2
    DEF Work, Ack, Fail, DeliverLadder, DeliverContext, DeliverPlain, SkipDetector,
        SettleRun, StartRun, Compose, AbandonRun, taskVars
  <2>3. QED
    BY <2>2
    DEF Next, vars, Pass, TimePasses, Reserve, Sweep, LeaseExpires, AdminRequeue, MarkRunLost,
        Supersede, SatisfyElsewhere, Crash, taskVars
<1>6. captured => captured'
  <2>1. ASSUME NEW j \in flight, Work(j) PROVE captured => captured'
    BY <2>1
    DEF Work, Ack, Fail, DeliverLadder, DeliverGates, DeliverContext, DeliverPlain, SkipDetector,
        SettleRun, StartRun, Compose, AbandonRun, taskVars
  <2>2. QED
    BY <2>1
    DEF Next, vars, Pass, TimePasses, Reserve, Sweep, LeaseExpires, AdminRequeue, MarkRunLost,
        Supersede, SatisfyElsewhere, Crash, taskVars
<1>7. \/ \E u \in Units : Undisturbed /\ Reserve(u)
      \/ Undisturbed /\ flight' = flight
      \/ flight' = {}
      \/ flight' = flight /\ row' = row
      \/ \E j \in flight : (Undisturbed \/ j.phase = "start") /\ Work(j)
  BY DEF Next, vars, Pass, TimePasses, Sweep, LeaseExpires, AdminRequeue, MarkRunLost,
         Supersede, SatisfyElsewhere, Crash
<1>8. Undisturbed <=> \A j \in flight : j.phase # "start"
  BY DEF Undisturbed
<1>9. \/ \A j \in flight' : j.phase # "start"
      \/ flight' = flight /\ row' = row
      \/ \E u \in Units : Undisturbed /\ Reserve(u)
  <2>1. ASSUME NEW j \in flight, Undisturbed \/ j.phase = "start", Work(j)
        PROVE  \A k \in flight' : k.phase # "start"
    <3>1. \A k \in flight \ {j} : k.phase # "start"
      BY <1>1, <1>8, <2>1
    <3>2. \A k \in flight' : k \in flight \ {j} \/ k.phase # "start"
      BY <1>2, <2>1, WorkBegins
    <3>3. QED
      BY <3>1, <3>2
  <2>2. QED
    BY <1>7, <1>8, <2>1
<1>10. ASSUME NEW u \in Units, Undisturbed, Reserve(u)
       PROVE  /\ \A j, k \in flight' : j.phase = "start" /\ k.phase = "start" => j = k
              /\ \A j \in flight' : j.phase = "start" => Holds(j)'
              /\ \A j \in flight' : j \in flight \/ (j.unit = u /\ j.phase = "start")
              /\ u = Context => SiblingTerminal(Gates)
  <2> DEFINE new == [unit |-> u, fence |-> minted[u] + 1, phase |-> "start"]
  <2>1. flight' = flight \cup {new} /\ \A j \in flight : j.phase # "start"
    BY <1>8, <1>10 DEF Reserve
  <2>2. new.unit = u /\ new.phase = "start" /\ new.fence = minted[u] + 1
    OBVIOUS
  <2>3. row'[u].lease = minted[u] + 1 /\ row'[u].state = "pending"
    <3>1. row' = [row EXCEPT ![u].attempts = @ + 1, ![u].lease = minted[u] + 1, ![u].live = TRUE]
      BY <1>10 DEF Reserve
    <3>2. row[u] \in Rows /\ row[u].state = "pending"
      BY <1>2, <1>10 DEF Reserve
    <3>3. row'[u] = [[[row[u] EXCEPT !.attempts = @ + 1] EXCEPT !.lease = minted[u] + 1]
                       EXCEPT !.live = TRUE]
      BY <1>2, <3>1
    <3>4. QED
      BY <3>2, <3>3 DEF Rows
  <2> HIDE DEF new
  <2>4. \A j \in flight' : j.phase = "start" => j = new
    BY <2>1
  <2>5. u = Context => SiblingTerminal(Gates)
    BY <1>10 DEF Reserve, Eligible
  <2>6. ASSUME NEW j \in flight', j.phase = "start" PROVE Holds(j)'
    <3>1. j = new
      BY <2>4, <2>6
    <3>2. QED
      BY <2>2, <2>3, <3>1 DEF Holds
  <2>7. QED
    BY <2>1, <2>2, <2>4, <2>5, <2>6
<1>11. \A j, k \in flight' : j.phase = "start" /\ k.phase = "start" => j = k
  BY <1>1, <1>9, <1>10
<1>12. \A j \in flight' : j.phase = "start" => Holds(j)'
  BY <1>1, <1>9, <1>10 DEF Holds
<1>13. ASSUME NEW j \in flight', j.unit = Context PROVE SiblingTerminal(Gates)
  <2>1. CASE \E u \in Units : Undisturbed /\ Reserve(u)
    BY <1>1, <1>10, <1>13, <2>1
  <2>2. ASSUME NEW k \in flight, Work(k) PROVE SiblingTerminal(Gates)
    BY <1>1, <1>2, <1>13, <2>2, WorkBegins
  <2>3. QED
    BY <1>1, <1>7, <1>13, <2>1, <2>2
<1>14. ASSUME NEW j \in flight', j.unit = Context, j.phase = "ack", gate' = "us" PROVE captured'
  <2>1. SiblingTerminal(Gates) /\ gate = "us"
    BY <1>5, <1>13, <1>14
  <2>2. CASE j \in flight
    BY <1>1, <1>6, <1>14, <2>1, <2>2
  <2>3. CASE j \notin flight
    <3>1. PICK k \in flight : Work(k)
      <4>1. CASE \E u \in Units : Undisturbed /\ Reserve(u)
        BY <1>10, <1>14, <2>3, <4>1
      <4>2. QED
        BY <1>7, <2>3, <4>1
    <3>2. k.unit = Context /\ flight' # flight \ {k} /\ ~Ends(k)
      BY <1>2, <1>14, <2>3, <3>1, WorkBegins DEF Ends
    <3>3. ~Becomes(k, "handler") /\ ~Becomes(k, "fail")
      <4>1. ASSUME NEW phase \in {"handler", "fail"}, Becomes(k, phase) PROVE FALSE
        <5>1. j = [k EXCEPT !.phase = phase] /\ k \in Jobs
          BY <1>2, <2>3, <4>1 DEF Becomes
        <5>2. [k EXCEPT !.phase = phase].phase = phase
          BY <5>1 DEF Jobs
        <5>3. QED
          BY <1>14, <5>1, <5>2
      <4>2. QED
        BY <4>1
    <3>4. DeliverContext(k, "ack")
      <4>1. /\ ~Ack(k) /\ ~Fail(k) /\ ~DeliverLadder(k)
            /\ ~\E outcome \in {"ack", "fail"} : DeliverGates(k, outcome) \/ DeliverPlain(k, outcome)
        BY <3>2, SiblingsAre DEF Ack, Fail, DeliverLadder, DeliverGates, DeliverPlain, At
      <4>2. ASSUME NEW d \in Detectors
            PROVE  /\ ~SkipDetector(k, d) /\ ~SettleRun(k, d) /\ ~StartRun(k, d)
                   /\ ~\E some \in BOOLEAN : Compose(k, d, some)
                   /\ ~\E status \in {"failed", "rate_limited", "skipped"} : AbandonRun(k, d, status)
        BY <3>2, SiblingsAre DEF SkipDetector, SettleRun, StartRun, Compose, AbandonRun, At
      <4>3. \E outcome \in {"ack", "fail"} : DeliverContext(k, outcome)
        BY <3>1, <4>1, <4>2 DEF Work
      <4>4. ~DeliverContext(k, "fail")
        BY <3>3 DEF DeliverContext
      <4>5. QED
        BY <4>3, <4>4
    <3>5. QED
      BY <2>1, <3>4 DEF DeliverContext
  <2>4. QED
    BY <2>2, <2>3
<1>15. ASSUME Context \in Units, row'[Context].state = "delivered"
       PROVE  SiblingTerminal(Gates) /\ (gate' = "us" => captured')
  <2>1. CASE row[Context].state = "delivered"
    BY <1>1, <1>5, <1>6, <1>15, <2>1
  <2>2. CASE row[Context].state # "delivered"
    <3>1. PICK j \in flight : Ack(j) /\ j.unit = Context
      BY <1>4, <1>15, <2>2
    <3>2. j.phase = "ack"
      BY <3>1 DEF Ack
    <3>3. SiblingTerminal(Gates) /\ (gate = "us" => captured)
      BY <1>1, <3>1, <3>2
    <3>4. QED
      BY <1>5, <1>6, <3>3
  <2>3. QED
    BY <2>1, <2>2
<1>16. QED
  BY <1>3, <1>11, <1>12, <1>13, <1>14, <1>15

-----------------------------------------------------------------------------
(* Whatever deliverers, lapsed leases, crashes, requeues and late handlers *)
(* do, the detector receipt sums up its targets, no detector's signals are *)
(* put out twice or without their delivery, and no waiting row is out of   *)
(* everyone's reach.                                                       *)
THEOREM ReceiptsTheorem ==
    ASSUME Deployment
    PROVE  Spec => [](TypeOK /\ ParentSumsUpTargets /\ OutputIsAcknowledged /\ SpentRowIsLeased)
<1>1. Init => EffectsInv
  BY EffectsStart
<1>2. EffectsInv /\ [Next]_vars => EffectsInv'
  BY EveryStep DEF SoundStep
<1>3. EffectsInv => TypeOK /\ ParentSumsUpTargets /\ OutputIsAcknowledged /\ SpentRowIsLeased
  BY DEF EffectsInv
<1>4. QED
  BY <1>1, <1>2, <1>3, PTL DEF Spec

(* In one process whose operators leave the gates receipt parked, a failure *)
(* context whose receipt is delivered has every stamp of the event.         *)
THEOREM StampsTheorem ==
    ASSUME Deployment, GatesStayParked
    PROVE  Spec => []ReceiptsAgree
<1>1. Init => EffectsInv /\ StampsBeforeContexts
  <2>1. ASSUME Init, Context \in Units PROVE row[Context].state # "delivered"
    <3>1. PICK kind \in EventKinds : row = [u \in Units |-> BornRow(kind, u)]
      BY <2>1 DEF Init
    <3>2. row[Context] = BornRow(kind, Context) /\ Context # Parent
      BY <2>1, <3>1, SiblingsAre
    <3>3. QED
      BY <3>2 DEF BornRow, Fresh
  <2>2. Init => flight = {}
    BY DEF Init
  <2>3. QED
    BY <2>1, <2>2, EffectsStart DEF StampsBeforeContexts
<1>2. EffectsInv /\ StampsBeforeContexts /\ [Next]_vars => (EffectsInv /\ StampsBeforeContexts)'
  BY EveryStep, StampStep DEF SoundStep
<1>3. EffectsInv /\ StampsBeforeContexts => ReceiptsAgree
  BY DEF EffectsInv, StampsBeforeContexts, ReceiptsAgree, StampIsCaptured
<1>4. QED
  BY <1>1, <1>2, <1>3, PTL DEF Spec

-----------------------------------------------------------------------------
(* The ledger that the outbox implements                                   *)
Ledger == INSTANCE OutboxLedger WITH
    Items <- Units, Members <- Targets, Family <- Parent,
    outcome <- [i \in Units |-> Outcome(i)],
    output <- [t \in Targets |-> signals[t[2]]]

(* Done is for good, signals are put out once in the step that closes      *)
(* their target, and the aggregate is done only when every target is.      *)
ImplementsLedger == Ledger!Spec

LEMMA OutcomeOf ==
    ASSUME TypeOK, NEW u \in Units
    PROVE  /\ row[u].state = "pending" <=> Outcome(u) = "open"
           /\ row[u].state = "delivered" <=> Outcome(u) = "done"
           /\ row[u].state = "dead_letter" <=> Outcome(u) = "parked"
           /\ row[u].state = "unborn" <=> Outcome(u) = "unborn"
           /\ Outcome(u) \in {"unborn", "open", "done", "parked"}
<1>1. row[u].state \in {"unborn", "pending", "delivered", "dead_letter"}
  BY DEF TypeOK, Rows, States
<1>2. CASE row[u].state = "unborn"
  BY <1>2 DEF Outcome
<1>3. CASE row[u].state = "pending"
  BY <1>3 DEF Outcome
<1>4. CASE row[u].state = "delivered"
  BY <1>4 DEF Outcome
<1>5. CASE row[u].state = "dead_letter"
  BY <1>5 DEF Outcome
<1>6. QED
  BY <1>1, <1>2, <1>3, <1>4, <1>5

LEMMA LedgerStarts ==
    ASSUME Deployment, Init
    PROVE  Ledger!Init
<1>1. EffectsInv /\ TypeOK
  BY EffectsStart DEF EffectsInv
<1>2. PICK kind \in EventKinds : row = [u \in Units |-> BornRow(kind, u)]
  BY DEF Init
<1>3. ASSUME NEW u \in Units
      PROVE  /\ row[u].state # "dead_letter"
             /\ row[u].state = "delivered" => u = Parent /\ Detectors = {}
  <2>1. row[u] = BornRow(kind, u)
    BY <1>2
  <2>2. QED
    BY <2>1 DEF BornRow, Fresh
<1>4. Detectors = {} => Targets = {}
  BY DEF Targets
<1>5. \A u \in Units : /\ Outcome(u) \in {"unborn", "open", "done", "parked"} \ {"parked"}
                       /\ Outcome(u) = "done" => u = Parent /\ Targets = {}
  BY <1>1, <1>3, <1>4, OutcomeOf
<1>6. [t \in Targets |-> signals[t[2]]] = [t \in Targets |-> 0]
  <2>1. \A t \in Targets : signals[t[2]] = 0
    BY UnitsAre DEF Init
  <2>2. QED
    BY <2>1
<1>7. QED
  BY <1>5, <1>6 DEF Ledger!Init, Ledger!Outcomes

(* Every step of the outbox is one of the ledger, or leaves it alone.      *)
LEMMA LedgerMoves ==
    ASSUME Deployment, EffectsInv, [Next]_vars
    PROVE  [Ledger!Next]_(Ledger!vars)
<1> DEFINE out == [i \in Units |-> Outcome(i)]
           put == [t \in Targets |-> signals[t[2]]]
<1>1. SoundStep /\ TypeOK /\ TypeOK'
  BY EveryStep DEF SoundStep, EffectsInv
<1>2. ASSUME NEW u \in Units
      PROVE  /\ row'[u].state = "pending" <=> Outcome(u)' = "open"
             /\ row'[u].state = "delivered" <=> Outcome(u)' = "done"
             /\ row'[u].state = "dead_letter" <=> Outcome(u)' = "parked"
             /\ row'[u].state = "unborn" <=> Outcome(u)' = "unborn"
             /\ Outcome(u)' \in {"unborn", "open", "done", "parked"}
  <2>1. row'[u].state \in {"unborn", "pending", "delivered", "dead_letter"}
    BY <1>1 DEF TypeOK, Rows, States, Units, Receipts, Targets, Intents
  <2>2. CASE row'[u].state = "unborn"
    BY <2>2 DEF Outcome
  <2>3. CASE row'[u].state = "pending"
    BY <2>3 DEF Outcome
  <2>4. CASE row'[u].state = "delivered"
    BY <2>4 DEF Outcome
  <2>5. CASE row'[u].state = "dead_letter"
    BY <2>5 DEF Outcome
  <2>6. QED
    BY <2>1, <2>2, <2>3, <2>4, <2>5
<1>3. ASSUME NEW u \in Units, Outcome(u)' # Outcome(u)
      PROVE  <<Outcome(u), Outcome(u)'>> \in
               {<<"unborn", "open">>, <<"open", "done">>, <<"open", "parked">>, <<"parked", "open">>}
                 \cup (IF u = Parent THEN {<<"parked", "done">>} ELSE {})
  <2>1. Edge(u)
    BY <1>1 DEF SoundStep
  <2>2. row'[u].state # row[u].state
    <3>1. SUFFICES ASSUME row'[u].state = row[u].state PROVE FALSE
      OBVIOUS
    <3>2. QED
      BY <1>1, <1>2, <1>3, <3>1, OutcomeOf
  <2>3. CASE row[u].state = "pending" /\ row'[u].state \in {"delivered", "dead_letter"}
    BY <1>1, <1>2, <2>3, OutcomeOf
  <2>4. CASE row[u].state = "dead_letter" /\ row'[u].state = "pending"
    BY <1>1, <1>2, <2>4, OutcomeOf
  <2>5. CASE u = Parent /\ row[u].state = "dead_letter" /\ row'[u].state = "delivered"
    BY <1>1, <1>2, <2>5, OutcomeOf
  <2>6. CASE row[u].state = "unborn" /\ row'[u].state = "pending"
    BY <1>1, <1>2, <2>6, OutcomeOf
  <2>7. QED
    BY <2>1, <2>2, <2>3, <2>4, <2>5, <2>6 DEF Edge
<1>4. Outcome(Parent)' = "done" => \A t \in Targets : Outcome(t)' = "done"
  <2> SUFFICES ASSUME Outcome(Parent)' = "done", NEW t \in Targets PROVE Outcome(t)' = "done"
    OBVIOUS
  <2>1. Parent \in Units /\ t \in Units
    BY UnitsAre
  <2>2. row'[Parent].state = "delivered"
    BY <1>2, <2>1
  <2>3. {row'[s].state : s \in Targets} = {"delivered"}
    BY <1>1, <2>2 DEF SoundStep, EffectsInv, ParentSumsUpTargets, ChildStates, Targets, Parent
  <2>4. row'[t].state = "delivered"
    BY <2>3
  <2>5. QED
    BY <1>2, <2>1, <2>4
<1>5. out' = [i \in Units |-> Outcome(i)'] /\ put' = [t \in Targets |-> signals'[t[2]]]
  BY DEF Units, Receipts, Targets, Intents
<1>6. /\ out' \in [Units -> {"unborn", "open", "done", "parked"}]
      /\ \A i \in Units : out'[i] = Outcome(i)' /\ out[i] = Outcome(i)
  BY <1>2, <1>5
<1>7. /\ Parent \in Units /\ Targets \subseteq Units
      /\ \A d \in Detectors : TargetOf(d) \in Targets
      /\ \A t \in Targets : t[2] \in Detectors /\ t = TargetOf(t[2])
  BY UnitsAre
<1>8. \/ put' = put
      \/ \E t \in Targets : /\ out[t] = "open" /\ out'[t] = "done"
                            /\ put[t] = 0 /\ put' = [put EXCEPT ![t] = 1]
  <2>1. CASE signals' = signals
    BY <1>5, <2>1
  <2>2. ASSUME NEW d \in Detectors, signals[d] = 0, signals' = [signals EXCEPT ![d] = 1],
               row[TargetOf(d)].state = "pending", row'[TargetOf(d)].state = "delivered"
        PROVE  \E t \in Targets : /\ out[t] = "open" /\ out'[t] = "done"
                                  /\ put[t] = 0 /\ put' = [put EXCEPT ![t] = 1]
    <3> DEFINE t == TargetOf(d)
    <3>1. t \in Targets /\ t \in Units /\ t[2] = d
      BY <1>7 DEF TargetOf
    <3>2. out[t] = "open" /\ out'[t] = "done" /\ put[t] = 0
      BY <1>1, <1>2, <1>6, <2>2, <3>1, OutcomeOf
    <3>3. put' = [put EXCEPT ![t] = 1]
      <4>1. \A s \in Targets : signals'[s[2]] = IF s = t THEN 1 ELSE signals[s[2]]
        BY <1>1, <1>7, <2>2, <3>1 DEF TypeOK
      <4>2. QED
        BY <1>5, <3>1, <4>1
    <3>4. QED
      BY <3>1, <3>2, <3>3
  <2>3. QED
    BY <1>1, <2>1, <2>2 DEF SoundStep, PutsOut
<1>9. \A i \in Units : out'[i] # out[i] =>
         <<out[i], out'[i]>> \in
           {<<"unborn", "open">>, <<"open", "done">>, <<"open", "parked">>, <<"parked", "open">>}
             \cup (IF i = Parent THEN {<<"parked", "done">>} ELSE {})
  BY <1>3, <1>6
<1>10. out'[Parent] = "done" => \A t \in Targets : out'[t] = "done"
  BY <1>4, <1>6, <1>7
<1>11. Ledger!Move
  BY <1>6, <1>9, <1>10 DEF Ledger!Move, Ledger!Outcomes, Ledger!Edges, Ledger!MembersDone
<1>12. Ledger!PutOut
  BY <1>8 DEF Ledger!PutOut
<1>13. QED
  BY <1>11, <1>12 DEF Ledger!Next

(* The outbox keeps what the ledger promises, for every set of detectors.  *)
THEOREM LedgerTheorem ==
    ASSUME Deployment
    PROVE  Spec => ImplementsLedger
<1>1. Init => EffectsInv /\ Ledger!Init
  BY EffectsStart, LedgerStarts
<1>2. EffectsInv /\ [Next]_vars => EffectsInv'
  BY EveryStep DEF SoundStep
<1>3. EffectsInv /\ [Next]_vars => [Ledger!Next]_(Ledger!vars)
  BY LedgerMoves
<1>4. QED
  BY <1>1, <1>2, <1>3, PTL DEF Spec, ImplementsLedger, Ledger!Spec

(***************************************************************************)
(* The recovery of a workflow, for any number of gates, failures and       *)
(* recoveries deep.  The gates of WorkflowRecovery are called door here.   *)
(***************************************************************************)
CONSTANTS Original, Roots, Paths, Handlers, Faults, MAX_RECOVERY_DEPTH, MaxEvents
VARIABLES
  task, door, handoff, attempt, contexts, success, active, handler, receipts, job, events

Recovery == INSTANCE WorkflowRecovery WITH gate <- door

RecoveryGates == Recovery!Gates
RecoveryTasks == Recovery!RecoveryTasks
Tasks == Recovery!Tasks

(* What the theorem assumes of the constants: bounds are numbers, and the   *)
(* first task is told from its recoveries and all of them from none.        *)
RecoveryHypotheses ==
    /\ MAX_RECOVERY_DEPTH \in Nat /\ MaxEvents \in Nat
    /\ Original \notin RecoveryGates /\ Null \notin Tasks

GateRows == [born : BOOLEAN, by : 0 .. MaxEvents, linked : BOOLEAN]
ContextRows == [task : Tasks, recovery : RecoveryTasks \cup {Null}, resolved : BOOLEAN]
ReceiptRows == [task : Tasks, event : 1 .. MaxEvents, gates : BOOLEAN]
JobRows == [stage : {"idle", "capture", "await", "pass"}, task : Tasks \cup {Null}, rows : SUBSET RecoveryGates]
TaskStates == {"absent", "live", "failed", "approved", "done"}

RecoveryTypes ==
    /\ task \in [Tasks -> TaskStates] /\ door \in [RecoveryGates -> GateRows]
    /\ handoff \in [RecoveryGates -> Recovery!Handoffs] /\ attempt \in [RecoveryGates -> Recovery!Attempts]
    /\ contexts \in Seq(ContextRows) /\ success \in BOOLEAN /\ active \in BOOLEAN
    /\ handler \in Handlers \cup {Null} /\ receipts \in SUBSET ReceiptRows
    /\ job \in JobRows /\ events \in 0 .. MaxEvents
    /\ job.stage = "capture" => job.task \in Tasks

LEMMA GatesAre ==
    ASSUME RecoveryHypotheses
    PROVE  /\ \A g \in RecoveryGates : Recovery!Upstream(g) \in Tasks
           /\ \A g \in RecoveryTasks :
                /\ g \in RecoveryGates /\ g \in Tasks /\ g # Original /\ g # Null
                /\ Recovery!Deeper(g) \in RecoveryGates /\ Recovery!Deeper(g) # g
           /\ Original \in Tasks
<1> USE DEF RecoveryHypotheses, RecoveryGates, RecoveryTasks, Tasks
<1>1. Original \in Tasks /\ RecoveryTasks \subseteq RecoveryGates /\ RecoveryTasks \subseteq Tasks
    BY DEF Recovery!Tasks, Recovery!RecoveryTasks
<1>2. ASSUME NEW g \in RecoveryGates PROVE Recovery!Upstream(g) \in Tasks
    <2>1. CASE Recovery!Depth(g) = 0
        BY <1>1, <2>1 DEF Recovery!Upstream
    <2>2. CASE Recovery!Depth(g) # 0
        <3>1. g[1] \in Roots /\ g[2] \in 1 .. MAX_RECOVERY_DEPTH
            BY <2>2 DEF Recovery!Gates, Recovery!Depth
        <3>2. <<g[1], g[2] - 1>> \in Recovery!RecoveryTasks
            BY <3>1 DEF Recovery!Gates, Recovery!RecoveryTasks, Recovery!Depth
        <3>3. QED BY <2>2, <3>2 DEF Recovery!Upstream, Recovery!Tasks
    <2>3. QED BY <2>1, <2>2
<1>3. ASSUME NEW g \in RecoveryTasks
      PROVE  Recovery!Deeper(g) \in RecoveryGates /\ Recovery!Deeper(g) # g
    <2>1. g[1] \in Roots /\ g[2] \in 0 .. MAX_RECOVERY_DEPTH /\ g[2] < MAX_RECOVERY_DEPTH
          /\ g = <<g[1], g[2]>>
        BY DEF Recovery!RecoveryTasks, Recovery!Gates, Recovery!Depth
    <2>2. QED BY <2>1 DEF Recovery!Deeper, Recovery!Gates
<1>4. QED BY <1>1, <1>2, <1>3

(* A set of indices has a last one.                                         *)
LEMMA LastOf ==
    ASSUME NEW n \in Nat, NEW S, S \subseteq 1 .. n, S # {}
    PROVE  \E i \in S : \A k \in S : k =< i
<1> DEFINE T == {n - i : i \in S}
<1>1. T \subseteq Nat /\ T # {}
    <2>1. \A i \in S : i \in Nat /\ i =< n /\ n - i \in Nat
        OBVIOUS
    <2>2. PICK i \in S : TRUE
        OBVIOUS
    <2>3. n - i \in T
        OBVIOUS
    <2>4. QED BY <2>1, <2>3
<1>2. PICK x \in T : \A y \in T : ~(<<y, x>> \in OpToRel(<, Nat))
    BY <1>1, NatLessThanWellFounded, WFMin
<1>3. PICK i \in S : x = n - i
    OBVIOUS
<1>4. ASSUME NEW k \in S PROVE k =< i
    <2>1. n - k \in T /\ n - k \in Nat /\ x \in Nat
        BY <1>1
    <2>2. ~(<<n - k, x>> \in OpToRel(<, Nat))
        BY <1>2, <2>1
    <2>3. ~(n - k < x)
        BY <2>1, <2>2 DEF OpToRel
    <2>4. QED BY <1>3, <2>3
<1>5. QED BY <1>4

LEMMA ContextIs ==
    ASSUME contexts \in Seq(ContextRows), NEW t
    PROVE  /\ Recovery!ContextOf(t) \in Nat
           /\ Recovery!Unresolved(t) = {} => Recovery!ContextOf(t) = 0
           /\ Recovery!Unresolved(t) # {} => Recovery!ContextOf(t) \in Recovery!Unresolved(t)
           /\ Recovery!Unresolved(t) \subseteq DOMAIN contexts
<1>1. Recovery!Unresolved(t) \subseteq 1 .. Len(contexts) /\ Len(contexts) \in Nat
      /\ DOMAIN contexts = 1 .. Len(contexts)
    BY DEF Recovery!Unresolved
<1>2. CASE Recovery!Unresolved(t) = {}
    BY <1>1, <1>2 DEF Recovery!ContextOf
<1>3. CASE Recovery!Unresolved(t) # {}
    <2>1. \E i \in Recovery!Unresolved(t) : \A k \in Recovery!Unresolved(t) : k =< i
        BY <1>1, <1>3, LastOf
    <2>2. Recovery!ContextOf(t) \in Recovery!Unresolved(t)
        BY <1>3, <2>1 DEF Recovery!ContextOf
    <2>3. QED BY <1>1, <1>3, <2>2
<1>4. QED BY <1>2, <1>3

(***************************************************************************)
(* What the steps do to the rows                                           *)
(***************************************************************************)
Fired(e, ev) == [e EXCEPT !.by = ev]
LEMMA FiredIs ==
    ASSUME NEW e \in GateRows, NEW ev \in 0 .. MaxEvents
    PROVE  /\ Fired(e, ev) \in GateRows /\ Fired(e, ev).by = ev
           /\ Fired(e, ev).linked = e.linked
<1>1. Fired(e, ev) \in GateRows /\ Fired(e, ev).by = ev
    BY DEF GateRows, Fired
<1>2. Fired(e, ev).linked = e.linked
    BY DEF GateRows, Fired
<1>3. QED BY <1>1, <1>2

Bound(e) == [e EXCEPT !.linked = TRUE]
LEMMA BoundIs ==
    ASSUME NEW e \in GateRows
    PROVE  Bound(e) \in GateRows /\ Bound(e).by = e.by /\ Bound(e).linked = TRUE
<1>1. Bound(e) \in GateRows /\ Bound(e).by = e.by
    BY DEF GateRows, Bound
<1>2. Bound(e).linked = TRUE
    BY DEF GateRows, Bound
<1>3. QED BY <1>1, <1>2

Born(e) == [e EXCEPT !.born = TRUE]
LEMMA BornIs ==
    ASSUME NEW e \in GateRows
    PROVE  Born(e) \in GateRows /\ Born(e).by = e.by /\ Born(e).linked = e.linked
<1>1. Born(e) \in GateRows /\ Born(e).by = e.by
    BY DEF GateRows, Born
<1>2. Born(e).linked = e.linked
    BY DEF GateRows, Born
<1>3. QED BY <1>1, <1>2

LEMMA SatisfyIs ==
    ASSUME RecoveryTypes, NEW S \in SUBSET RecoveryGates, NEW ev \in 1 .. MaxEvents, Recovery!Satisfy(S, ev)
    PROVE  /\ door' \in [RecoveryGates -> GateRows] /\ handoff' \in [RecoveryGates -> Recovery!Handoffs]
           /\ \A g \in RecoveryGates :
                /\ door'[g].linked = door[g].linked
                /\ door'[g].by = IF g \in S THEN ev ELSE door[g].by
                /\ \/ handoff'[g] = handoff[g]
                   \/ g \in S /\ g \in RecoveryTasks /\ handoff'[g].status = "expected"
<1>1. door' = [g \in RecoveryGates |-> IF g \in S THEN Fired(door[g], ev) ELSE door[g]]
    BY DEF Recovery!Satisfy, RecoveryGates, Fired
<1>2. \A g \in RecoveryGates : door[g] \in GateRows
    BY DEF RecoveryTypes
<1>3. ev \in 0 .. MaxEvents
    OBVIOUS
<1>4. \A g \in RecoveryGates : /\ door'[g] \in GateRows /\ door'[g].linked = door[g].linked
                       /\ door'[g].by = IF g \in S THEN ev ELSE door[g].by
    BY <1>1, <1>2, <1>3, FiredIs
<1>5. handoff' = [g \in RecoveryGates |->
                    IF g \in S /\ Recovery!Expects(g)
                    THEN [status |-> "expected", frozen |-> handler] ELSE handoff[g]]
    BY DEF Recovery!Satisfy, RecoveryGates
<1>6. [status |-> "expected", frozen |-> handler] \in Recovery!Handoffs
    BY DEF RecoveryTypes, Recovery!Handoffs
<1>7. handoff' \in [RecoveryGates -> Recovery!Handoffs]
    BY <1>5, <1>6 DEF RecoveryTypes
<1>8. ASSUME NEW g \in RecoveryGates
      PROVE  \/ handoff'[g] = handoff[g]
             \/ g \in S /\ g \in RecoveryTasks /\ handoff'[g].status = "expected"
    BY <1>5 DEF Recovery!Expects, RecoveryTasks, Recovery!RecoveryTasks, RecoveryGates
<1>9. QED BY <1>1, <1>4, <1>7, <1>8

LEMMA IdleIs ==
    /\ Recovery!Idle \in JobRows /\ Recovery!Idle.stage = "idle"
    /\ Recovery!Idle.task = Null /\ Recovery!Idle.rows = {}
<1>1. /\ Recovery!Idle.stage = "idle" /\ Recovery!Idle.task = Null /\ Recovery!Idle.rows = {}
    BY DEF Recovery!Idle
<1>2. Recovery!Idle \in JobRows
    BY DEF Recovery!Idle, JobRows
<1>3. QED BY <1>1, <1>2

LEMMA StartIs ==
    ASSUME job' = Recovery!StartPass
    PROVE  job' \in JobRows /\ job'.stage = "pass" /\ job'.rows = Recovery!Expected'
<1>1. PICK d \in JobRows : d = Recovery!Idle
    BY IdleIs
<1>2. job' = [d EXCEPT !.stage = "pass", !.rows = Recovery!Expected']
    BY <1>1 DEF Recovery!StartPass
<1>3. Recovery!Expected' \in SUBSET RecoveryGates
    BY DEF Recovery!Expected, RecoveryGates
<1>4. QED BY <1>2, <1>3 DEF JobRows

JobLeft(j, g) == [j EXCEPT !.rows = @ \ {g}]

LEMMA RowDoneIs ==
    ASSUME job \in JobRows, NEW g, job.stage = "pass", Recovery!RowDone(g)
    PROVE  job' \in JobRows /\ job'.stage # "capture" /\ job'.rows \subseteq job.rows
<1>1. CASE job.rows = {g}
    <2>1. job' = Recovery!Idle
        BY <1>1 DEF Recovery!RowDone
    <2>2. QED BY <2>1, IdleIs
<1>2. CASE job.rows # {g}
    <2>1. job' = JobLeft(job, g)
        BY <1>2 DEF Recovery!RowDone, JobLeft
    <2>2. QED BY <2>1 DEF JobRows, JobLeft
<1>3. QED BY <1>1, <1>2

LEMMA SettleIs ==
    ASSUME RecoveryTypes, NEW g \in RecoveryGates,
           NEW status \in {"none", "expected", "consumed", "blocked"}, Recovery!Settle(g, status)
    PROVE  /\ handoff' \in [RecoveryGates -> Recovery!Handoffs] /\ handoff'[g].status = status
           /\ handoff'[g].frozen = handoff[g].frozen
           /\ \A k \in RecoveryGates : k # g => handoff'[k] = handoff[k]
<1>1. handoff \in [RecoveryGates -> Recovery!Handoffs]
    BY DEF RecoveryTypes
<1>2. handoff' = [handoff EXCEPT ![g].status = status]
    BY DEF Recovery!Settle
<1>3. QED BY <1>1, <1>2 DEF Recovery!Handoffs

(* An attempt is reserved under what was frozen with the handoff.           *)
Restated(e, state) == [e EXCEPT !.state = state]

LEMMA ReservedIs ==
    ASSUME RecoveryHypotheses, RecoveryTypes, NEW g \in RecoveryTasks
    PROVE  /\ Recovery!Reserved(g) \in Recovery!Attempts
           /\ attempt[g].state = "pending" => Recovery!Reserved(g) = attempt[g]
           /\ attempt[g].state = "none" =>
                /\ Recovery!Reserved(g).state = "pending"
                /\ Recovery!Reserved(g).frozen = handoff[g].frozen
                /\ Recovery!Reserved(g).context = Recovery!ContextOf(Recovery!Upstream(g))
<1>1. g \in RecoveryGates
    BY GatesAre
<1>2. attempt[g] \in Recovery!Attempts /\ handoff[g] \in Recovery!Handoffs
    BY <1>1 DEF RecoveryTypes
<1>3. Recovery!ContextOf(Recovery!Upstream(g)) \in Nat
    BY ContextIs DEF RecoveryTypes
<1>4. handoff[g].frozen \in Handlers \cup {Null}
    BY <1>2 DEF Recovery!Handoffs
<1>5. CASE attempt[g].state = "none"
    <2>1. Recovery!Reserved(g) =
            [state |-> "pending", frozen |-> handoff[g].frozen,
             context |-> Recovery!ContextOf(Recovery!Upstream(g))]
        BY <1>5, Zenon DEF Recovery!Reserved, Recovery!FrozenHandler
    <2>2. QED BY <1>3, <1>4, <1>5, <2>1 DEF Recovery!Attempts
<1>6. CASE attempt[g].state # "none"
    <2>1. Recovery!Reserved(g) = attempt[g]
        BY <1>6 DEF Recovery!Reserved
    <2>2. QED BY <1>2, <1>6, <2>1
<1>7. QED BY <1>5, <1>6

LEMMA RestatedIs ==
    ASSUME NEW e \in Recovery!Attempts, NEW state \in {"pending", "published", "created", "refused"}
    PROVE  /\ Restated(e, state) \in Recovery!Attempts /\ Restated(e, state).state = state
           /\ Restated(e, state).frozen = e.frozen /\ Restated(e, state).context = e.context
BY DEF Restated, Recovery!Attempts

LEMMA AttemptIs ==
    ASSUME RecoveryTypes, NEW g \in RecoveryGates, NEW e \in Recovery!Attempts,
           attempt' = [attempt EXCEPT ![g] = e]
    PROVE  /\ attempt' \in [RecoveryGates -> Recovery!Attempts] /\ attempt'[g] = e
           /\ \A k \in RecoveryGates : k # g => attempt'[k] = attempt[k]
BY DEF RecoveryTypes

LEMMA CapturedIs ==
    ASSUME contexts \in Seq(ContextRows), NEW t \in Tasks, contexts' = Recovery!Captured(t)
    PROVE  /\ contexts' \in Seq(ContextRows) /\ DOMAIN contexts' = DOMAIN contexts \cup {Len(contexts) + 1}
           /\ Len(contexts) + 1 \notin DOMAIN contexts
           /\ \A i \in DOMAIN contexts : contexts'[i] = contexts[i]
           /\ contexts'[Len(contexts) + 1].task = t /\ contexts'[Len(contexts) + 1].recovery = Null
           /\ contexts'[Len(contexts) + 1].resolved = FALSE
<1>1. PICK e \in ContextRows : e = [task |-> t, recovery |-> Null, resolved |-> FALSE]
    BY DEF ContextRows
<1>2. contexts' = Append(contexts, e)
    BY <1>1 DEF Recovery!Captured
<1>3. /\ contexts' \in Seq(ContextRows) /\ DOMAIN contexts' = DOMAIN contexts \cup {Len(contexts) + 1}
      /\ Len(contexts) + 1 \notin DOMAIN contexts
      /\ \A i \in DOMAIN contexts : contexts'[i] = contexts[i]
      /\ contexts'[Len(contexts) + 1] = e
    BY <1>2
<1>4. e.task = t /\ e.recovery = Null
    BY <1>1
<1>5. e.resolved = FALSE
    BY <1>1
<1>6. QED BY <1>3, <1>4, <1>5

Claimed(e, g) == [e EXCEPT !.recovery = g]
ClosedContext(e) == [e EXCEPT !.resolved = TRUE]

LEMMA ContextRowIs ==
    ASSUME NEW e \in ContextRows
    PROVE  /\ \A g \in RecoveryTasks :
                /\ Claimed(e, g) \in ContextRows /\ Claimed(e, g).task = e.task
                /\ Claimed(e, g).recovery = g /\ Claimed(e, g).resolved = e.resolved
           /\ ClosedContext(e) \in ContextRows /\ ClosedContext(e).task = e.task
           /\ ClosedContext(e).recovery = e.recovery /\ ClosedContext(e).resolved = TRUE
<1>1. ASSUME NEW g \in RecoveryTasks
      PROVE  /\ Claimed(e, g) \in ContextRows /\ Claimed(e, g).task = e.task
             /\ Claimed(e, g).recovery = g /\ Claimed(e, g).resolved = e.resolved
    <2>1. Claimed(e, g) \in ContextRows /\ Claimed(e, g).task = e.task /\ Claimed(e, g).recovery = g
        BY DEF Claimed, ContextRows
    <2>2. Claimed(e, g).resolved = e.resolved
        BY DEF Claimed, ContextRows
    <2>3. QED BY <2>1, <2>2
<1>2. ClosedContext(e) \in ContextRows /\ ClosedContext(e).task = e.task /\ ClosedContext(e).recovery = e.recovery
    BY DEF ClosedContext, ContextRows
<1>3. ClosedContext(e).resolved = TRUE
    BY DEF ClosedContext, ContextRows
<1>4. QED BY <1>1, <1>2, <1>3

(* A publication writes the context it found, if it found one.              *)
Links(g, i) == contexts' = IF i = 0 THEN contexts ELSE [contexts EXCEPT ![i].recovery = g]

OnlyLinks(g, i) ==
    /\ contexts' \in Seq(ContextRows) /\ DOMAIN contexts' = DOMAIN contexts
    /\ \A k \in DOMAIN contexts :
          /\ contexts'[k].task = contexts[k].task /\ contexts'[k].resolved = contexts[k].resolved
          /\ contexts'[k].recovery = IF k = i THEN g ELSE contexts[k].recovery

LEMMA LinkIs ==
    ASSUME RecoveryTypes, NEW g \in RecoveryTasks, NEW i, Links(g, i)
    PROVE  OnlyLinks(g, i)
<1>1. contexts \in Seq(ContextRows) /\ contexts \in [DOMAIN contexts -> ContextRows]
      /\ \A k \in DOMAIN contexts : contexts[k] \in ContextRows /\ k # 0
    BY DEF RecoveryTypes
<1>2. CASE i \notin DOMAIN contexts
    <2>1. contexts' = contexts
        BY <1>1, <1>2 DEF Links
    <2>2. QED BY <1>1, <1>2, <2>1 DEF OnlyLinks
<1>3. CASE i \in DOMAIN contexts
    <2>1. contexts' = [contexts EXCEPT ![i] = Claimed(contexts[i], g)]
        BY <1>1, <1>3 DEF Claimed, Links
    <2>2. Claimed(contexts[i], g) \in ContextRows
        BY <1>1, <1>3, ContextRowIs
    <2>3. contexts' \in Seq(ContextRows) /\ DOMAIN contexts' = DOMAIN contexts
        BY <1>1, <1>3, <2>1, <2>2
    <2>4. ASSUME NEW k \in DOMAIN contexts
          PROVE  /\ contexts'[k].task = contexts[k].task /\ contexts'[k].resolved = contexts[k].resolved
                 /\ contexts'[k].recovery = IF k = i THEN g ELSE contexts[k].recovery
        <3>1. contexts'[k] = IF k = i THEN Claimed(contexts[k], g) ELSE contexts[k]
            BY <1>1, <2>1
        <3>2. CASE k = i
            <4>1. contexts'[k] = Claimed(contexts[k], g) /\ contexts[k] \in ContextRows
                BY <1>1, <3>1, <3>2
            <4>2. /\ Claimed(contexts[k], g).task = contexts[k].task
                  /\ Claimed(contexts[k], g).resolved = contexts[k].resolved
                  /\ Claimed(contexts[k], g).recovery = g
                BY <4>1, ContextRowIs, Zenon
            <4>3. QED BY <3>2, <4>1, <4>2
        <3>3. CASE k # i
            BY <3>1, <3>3, Zenon
        <3>4. QED BY <3>2, <3>3
    <2>5. QED BY <2>3, <2>4, Zenon DEF OnlyLinks
<1>4. QED BY <1>2, <1>3

(* A redemption resolves some contexts and touches nothing else of them.    *)
LEMMA ResolvedAre ==
    ASSUME RecoveryTypes, NEW R,
           contexts' = [i \in DOMAIN contexts |->
                          IF i \in R THEN [contexts[i] EXCEPT !.resolved = TRUE] ELSE contexts[i]]
    PROVE  /\ contexts' \in Seq(ContextRows) /\ DOMAIN contexts' = DOMAIN contexts
           /\ \A k \in DOMAIN contexts :
                /\ contexts'[k].task = contexts[k].task /\ contexts'[k].recovery = contexts[k].recovery
                /\ k \in R => contexts'[k].resolved = TRUE
                /\ k \notin R => contexts'[k].resolved = contexts[k].resolved
<1>1. contexts \in Seq(ContextRows) /\ \A k \in DOMAIN contexts : contexts[k] \in ContextRows
    BY DEF RecoveryTypes
<1>2. contexts' = [i \in DOMAIN contexts |-> IF i \in R THEN ClosedContext(contexts[i]) ELSE contexts[i]]
    BY DEF ClosedContext
<1>3. \A k \in DOMAIN contexts : contexts'[k] = IF k \in R THEN ClosedContext(contexts[k]) ELSE contexts[k]
    BY <1>2
<1>4. \A k \in DOMAIN contexts : contexts'[k] \in ContextRows
    BY <1>1, <1>3, ContextRowIs, Zenon
<1>5. DOMAIN contexts' = DOMAIN contexts /\ contexts' \in Seq(ContextRows)
    <2>1. DOMAIN contexts = 1 .. Len(contexts) /\ Len(contexts) \in Nat
        BY <1>1
    <2>2. contexts' = [i \in 1 .. Len(contexts) |-> contexts'[i]]
        BY <1>2, <2>1
    <2>3. QED BY <1>4, <2>1, <2>2
<1>6. ASSUME NEW k \in DOMAIN contexts
      PROVE  /\ contexts'[k].task = contexts[k].task /\ contexts'[k].recovery = contexts[k].recovery
             /\ k \in R => contexts'[k].resolved = TRUE
             /\ k \notin R => contexts'[k].resolved = contexts[k].resolved
    <2>1. CASE k \in R
        <3>1. contexts'[k] = ClosedContext(contexts[k])
            BY <1>3, <2>1, Zenon
        <3>2. /\ ClosedContext(contexts[k]).task = contexts[k].task
              /\ ClosedContext(contexts[k]).recovery = contexts[k].recovery
              /\ ClosedContext(contexts[k]).resolved = TRUE
            BY <1>1, ContextRowIs, Zenon
        <3>3. QED BY <2>1, <3>1, <3>2, Zenon
    <2>2. CASE k \notin R
        BY <1>3, <2>2, Zenon
    <2>3. QED BY <2>1, <2>2
<1>7. QED BY <1>5, <1>6, Zenon

(***************************************************************************)
(* What the actions do                                                     *)
(***************************************************************************)
(* Steps that only decide what the process does next.                       *)
JobOnly ==
    /\ UNCHANGED <<task, door, handoff, attempt, contexts, success, active, handler, receipts, events>>
    /\ job' \in JobRows /\ job'.stage # "capture"
    /\ job'.rows = {} \/ job'.rows \subseteq job.rows \/ job'.rows = Recovery!Expected

LEMMA JobSteps ==
    ASSUME RecoveryTypes,
           Recovery!AwaitedPass \/ Recovery!EmptyPass \/ Recovery!CrashAndBoot \/ Recovery!PassOnDemand
    PROVE  JobOnly
<1>1. UNCHANGED <<task, door, handoff, attempt, contexts, success, active, handler, receipts, events>>
    BY DEF Recovery!AwaitedPass, Recovery!EmptyPass, Recovery!CrashAndBoot, Recovery!PassOnDemand,
           Recovery!recoveryVars, Recovery!settings
<1>2. CASE Recovery!EmptyPass
    <2>1. job' = Recovery!Idle
        BY <1>2 DEF Recovery!EmptyPass
    <2>2. QED BY <1>1, <2>1, IdleIs DEF JobOnly
<1>3. CASE Recovery!AwaitedPass \/ Recovery!CrashAndBoot \/ Recovery!PassOnDemand
    <2>1. job' = Recovery!StartPass
        BY <1>3, Zenon DEF Recovery!AwaitedPass, Recovery!CrashAndBoot, Recovery!PassOnDemand
    <2>2. Recovery!Expected' = Recovery!Expected
        BY <1>1 DEF Recovery!Expected
    <2>3. job' \in JobRows /\ job'.stage = "pass" /\ job'.rows = Recovery!Expected'
        BY <2>1, StartIs
    <2>4. QED BY <1>1, <2>2, <2>3 DEF JobOnly
<1>4. QED BY <1>2, <1>3

LEMMA RejectIs ==
    ASSUME RecoveryHypotheses, RecoveryTypes, NEW t \in Tasks, Recovery!Reject(t)
    PROVE  /\ UNCHANGED <<task, attempt, contexts, success, active, handler, receipts>>
           /\ events' \in 1 .. MaxEvents /\ job' \in JobRows
           /\ \E S \in SUBSET Recovery!Open(t) :
                /\ Recovery!Satisfy(S, events')
                /\ \/ job'.stage = "idle" /\ job'.rows = {}
                   \/ S # {} /\ job'.stage = "capture" /\ job'.task = t /\ job'.rows = {}
<1>1. PICK S \in SUBSET Recovery!Open(t) :
        /\ Recovery!Satisfy(S, events + 1)
        /\ job' = IF S = {} THEN Recovery!Idle
                  ELSE [Recovery!Idle EXCEPT !.stage = "capture", !.task = t]
    BY DEF Recovery!Reject
<1>2. UNCHANGED <<task, attempt, contexts, success, active, handler, receipts>> /\ events' = events + 1
      /\ events < MaxEvents
    BY DEF Recovery!Reject, Recovery!settings
<1>3. events' \in 1 .. MaxEvents
    BY <1>2 DEF RecoveryTypes, RecoveryHypotheses
<1>4. CASE S = {}
    BY <1>1, <1>2, <1>3, <1>4, IdleIs
<1>5. CASE S # {}
    <2>1. PICK d \in JobRows : d = Recovery!Idle
        BY IdleIs
    <2>2. job' = [d EXCEPT !.stage = "capture", !.task = t] /\ d.rows = {}
        BY <1>1, <1>5, <2>1, IdleIs
    <2>3. job' \in JobRows /\ job'.stage = "capture" /\ job'.task = t /\ job'.rows = {}
        BY <2>2 DEF JobRows
    <2>4. QED BY <1>1, <1>2, <1>3, <1>5, <2>3
<1>6. QED BY <1>4, <1>5

LEMMA DeliverIs ==
    ASSUME RecoveryHypotheses, RecoveryTypes, NEW r \in receipts, Recovery!DeliverGates(r)
    PROVE  /\ UNCHANGED <<task, attempt, contexts, success, active, handler, events>>
           /\ receipts' \in SUBSET ReceiptRows /\ job' \in JobRows /\ job'.stage # "capture"
           /\ \E S \in SUBSET RecoveryGates : Recovery!Satisfy(S, r.event)
           /\ r.event \in 1 .. MaxEvents
<1>1. PICK S \in SUBSET Recovery!Open(r.task), settled \in BOOLEAN, noticed \in BOOLEAN :
        /\ Recovery!Satisfy(S, r.event)
        /\ receipts' = IF settled THEN (receipts \ {r}) \cup {[r EXCEPT !.gates = TRUE]} ELSE receipts
        /\ job' = IF S # {} /\ noticed THEN [Recovery!Idle EXCEPT !.stage = "await"] ELSE Recovery!Idle
    BY DEF Recovery!DeliverGates
<1>2. UNCHANGED <<task, attempt, contexts, success, active, handler, events>>
    BY DEF Recovery!DeliverGates, Recovery!settings
<1>3. r \in ReceiptRows /\ receipts \in SUBSET ReceiptRows
    BY DEF RecoveryTypes
<1>4. [r EXCEPT !.gates = TRUE] \in ReceiptRows
    BY <1>3 DEF ReceiptRows
<1>5. receipts' \in SUBSET ReceiptRows
    BY <1>1, <1>3, <1>4
<1>6. job' \in JobRows /\ job'.stage # "capture"
    <2>1. PICK d \in JobRows : d = Recovery!Idle
        BY IdleIs
    <2>2. [d EXCEPT !.stage = "await"] \in JobRows /\ [d EXCEPT !.stage = "await"].stage = "await"
        BY DEF JobRows
    <2>3. d.stage = "idle"
        BY <2>1, IdleIs
    <2>4. job' = d \/ job' = [d EXCEPT !.stage = "await"]
        BY <1>1, <2>1
    <2>5. QED BY <2>2, <2>3, <2>4
<1>7. S \in SUBSET RecoveryGates
    BY DEF Recovery!Open, RecoveryGates
<1>8. r.event \in 1 .. MaxEvents
    BY <1>3 DEF ReceiptRows
<1>9. QED BY <1>1, <1>2, <1>5, <1>6, <1>7, <1>8

LEMMA PublishActs ==
    ASSUME NEW g \in RecoveryTasks, Recovery!Publish(g)
    PROVE  /\ UNCHANGED <<handoff, success, active, handler, receipts, events>>
           /\ attempt[g].state \in {"none", "pending"} /\ job.stage = "pass" /\ Recovery!RowDone(g)
           /\ attempt' = [attempt EXCEPT ![g] = [Recovery!Reserved(g) EXCEPT !.state = "published"]]
           /\ task' = [task EXCEPT ![g] = "live"] /\ ~door[g].linked
           /\ door' = [door EXCEPT ![g].linked = TRUE, ![Recovery!Deeper(g)].born = TRUE]
BY DEF Recovery!Publish, Recovery!Publishable, Recovery!AtRow, Recovery!settings

LEMMA PublishedAttempt ==
    ASSUME RecoveryHypotheses, RecoveryTypes, NEW g \in RecoveryTasks, Recovery!Publish(g)
    PROVE  /\ attempt' \in [RecoveryGates -> Recovery!Attempts] /\ attempt'[g].state = "published"
           /\ \A k \in RecoveryGates : k # g => attempt'[k] = attempt[k]
<1>1. g \in RecoveryGates
    BY GatesAre
<1>2. attempt' = [attempt EXCEPT ![g] = Restated(Recovery!Reserved(g), "published")]
    BY PublishActs DEF Restated
<1>3. /\ Restated(Recovery!Reserved(g), "published") \in Recovery!Attempts
      /\ Restated(Recovery!Reserved(g), "published").state = "published"
    BY ReservedIs, RestatedIs
<1>4. QED BY <1>1, <1>2, <1>3, AttemptIs

LEMMA PublishedTask ==
    ASSUME RecoveryHypotheses, RecoveryTypes, NEW g \in RecoveryTasks, Recovery!Publish(g)
    PROVE  /\ task' \in [Tasks -> TaskStates] /\ task'[g] = "live"
           /\ \A k \in Tasks : k # g => task'[k] = task[k]
<1>1. task \in [Tasks -> TaskStates] /\ "live" \in TaskStates /\ g \in Tasks
    BY GatesAre DEF RecoveryTypes, TaskStates
<1>2. task' = [task EXCEPT ![g] = "live"]
    BY PublishActs
<1>3. QED BY <1>1, <1>2

LEMMA PublishedGate ==
    ASSUME RecoveryHypotheses, RecoveryTypes, NEW g \in RecoveryTasks, Recovery!Publish(g)
    PROVE  /\ door' \in [RecoveryGates -> GateRows] /\ door[g].linked = FALSE /\ door'[g].linked = TRUE
           /\ \A k \in RecoveryGates : door'[k].by = door[k].by
           /\ \A k \in RecoveryGates : k # g => door'[k].linked = door[k].linked
<1> DEFINE deep == Recovery!Deeper(g)
<1>1. g \in RecoveryGates /\ deep \in RecoveryGates /\ deep # g
    BY GatesAre
<1>2. door \in [RecoveryGates -> GateRows]
    BY DEF RecoveryTypes
<1>3. ~door[g].linked /\ door' = [door EXCEPT ![g].linked = TRUE, ![deep].born = TRUE]
    BY PublishActs
<1> HIDE DEF deep
<1>4. door' = [door EXCEPT ![g] = Bound(door[g]), ![deep] = Born(door[deep])]
    BY <1>1, <1>2, <1>3 DEF Bound, Born
<1>5. /\ door'[g] = Bound(door[g]) /\ door'[deep] = Born(door[deep])
      /\ \A k \in RecoveryGates : k # g /\ k # deep => door'[k] = door[k]
    BY <1>1, <1>2, <1>4
<1>6. door[g] \in GateRows /\ door[deep] \in GateRows
    BY <1>1, <1>2
<1>7. /\ Bound(door[g]) \in GateRows /\ Bound(door[g]).linked = TRUE
      /\ Bound(door[g]).by = door[g].by
    BY <1>6, BoundIs, Zenon
<1>8. /\ Born(door[deep]) \in GateRows /\ Born(door[deep]).linked = door[deep].linked
      /\ Born(door[deep]).by = door[deep].by
    BY <1>6, BornIs, Zenon
<1>9. door' \in [RecoveryGates -> GateRows]
    BY <1>1, <1>2, <1>4, <1>7, <1>8
<1>10. door[g].linked = FALSE
    <2>1. door[g].linked \in BOOLEAN
        BY <1>6 DEF GateRows
    <2>2. QED BY <1>3, <2>1
<1>11. ASSUME NEW k \in RecoveryGates
       PROVE  door'[k].by = door[k].by /\ (k # g => door'[k].linked = door[k].linked)
    BY <1>5, <1>7, <1>8, Zenon
<1>12. door'[g].linked = TRUE
    BY <1>5, <1>7, Zenon
<1>13. QED BY <1>9, <1>10, <1>11, <1>12, Zenon

LEMMA PublishedContext ==
    ASSUME RecoveryTypes, NEW g \in RecoveryTasks, Recovery!Publish(g)
    PROVE  /\ contexts' \in Seq(ContextRows) /\ DOMAIN contexts' = DOMAIN contexts
           /\ \A k \in DOMAIN contexts :
                /\ contexts'[k].task = contexts[k].task /\ contexts'[k].resolved = contexts[k].resolved
                /\ \/ contexts'[k].recovery = contexts[k].recovery
                   \/ /\ contexts'[k].recovery = g /\ contexts[k].recovery \in {Null, g}
                      /\ contexts[k].task = Recovery!Upstream(g)
<1>1. PICK i : i = Recovery!ContextOf(Recovery!Upstream(g))
    OBVIOUS
<1>2. Links(g, i)
    BY <1>1 DEF Recovery!Publish, Links
<1>3. OnlyLinks(g, i)
    BY <1>2, LinkIs, Zenon
<1>4. i \in DOMAIN contexts => contexts[i].recovery \in {Null, g} /\ contexts[i].task = Recovery!Upstream(g)
    <2>1. contexts \in Seq(ContextRows)
        BY DEF RecoveryTypes
    <2>2. i \in DOMAIN contexts => i # 0
        BY <2>1
    <2>3. i # 0 => contexts[i].recovery \in {Null, g}
        BY <1>1 DEF Recovery!Publish, Recovery!ContextLinks
    <2>4. i # 0 => contexts[i].task = Recovery!Upstream(g)
        BY <1>1, <2>1, ContextIs DEF Recovery!Unresolved
    <2>5. QED BY <2>2, <2>3, <2>4
<1>5. ASSUME NEW k \in DOMAIN contexts
       PROVE  \/ contexts'[k].recovery = contexts[k].recovery
              \/ /\ contexts'[k].recovery = g /\ contexts[k].recovery \in {Null, g}
                 /\ contexts[k].task = Recovery!Upstream(g)
    BY <1>3, <1>4 DEF OnlyLinks
<1>6. QED BY <1>3, <1>5, Zenon DEF OnlyLinks

(* A failure or a retry moves a live or a failed task between the two.      *)
LEMMA TriesAre ==
    ASSUME RecoveryTypes, RecoveryHypotheses, NEW t \in Tasks, Recovery!Fail(t) \/ Recovery!Retry(t)
    PROVE  /\ UNCHANGED <<door, handoff, attempt, contexts, success, active, handler, job>>
           /\ task' \in [Tasks -> TaskStates]
           /\ \A k \in Tasks : \/ task'[k] = task[k]
                               \/ task[k] \in {"live", "failed"} /\ task'[k] \in {"live", "failed"}
           /\ events' \in 0 .. MaxEvents /\ receipts' \in SUBSET ReceiptRows
           /\ "receipt" \notin Paths => receipts' = receipts
<1>1. UNCHANGED <<door, handoff, attempt, contexts, success, active, handler, job>>
    BY Zenon DEF Recovery!Fail, Recovery!Retry, Recovery!recoveryVars, Recovery!settings
<1>2. CASE Recovery!Fail(t)
    <2>1. /\ task[t] = "live" /\ task' = [task EXCEPT ![t] = "failed"] /\ "receipt" \in Paths
          /\ events < MaxEvents /\ events' = events + 1
          /\ receipts' = receipts \cup {[task |-> t, event |-> events + 1, gates |-> FALSE]}
        BY <1>2 DEF Recovery!Fail
    <2>2. /\ task' \in [Tasks -> TaskStates]
          /\ \A k \in Tasks : \/ task'[k] = task[k]
                              \/ task[k] \in {"live", "failed"} /\ task'[k] \in {"live", "failed"}
        BY <2>1 DEF RecoveryTypes, TaskStates
    <2>3. events' \in 0 .. MaxEvents /\ events + 1 \in 1 .. MaxEvents
        BY <2>1 DEF RecoveryTypes, RecoveryHypotheses
    <2>4. [task |-> t, event |-> events + 1, gates |-> FALSE] \in ReceiptRows
        BY <2>3 DEF ReceiptRows
    <2>5. receipts' \in SUBSET ReceiptRows
        BY <2>1, <2>4 DEF RecoveryTypes
    <2>6. QED BY <1>1, <2>1, <2>2, <2>3, <2>5
<1>3. CASE Recovery!Retry(t)
    <2>1. /\ task[t] = "failed" /\ task' = [task EXCEPT ![t] = "live"]
          /\ UNCHANGED <<events, receipts>>
        BY <1>3 DEF Recovery!Retry
    <2>2. QED BY <1>1, <2>1 DEF RecoveryTypes, TaskStates
<1>4. QED BY <1>2, <1>3

(* A context is appended, or a failed write leaves the list alone.          *)
LEMMA CaptureIs ==
    ASSUME RecoveryTypes, Recovery!CaptureContext
    PROVE  /\ UNCHANGED <<task, door, handoff, attempt, success, active, handler, receipts, events>>
           /\ job.stage = "capture" /\ job.task \in Tasks
           /\ contexts' = Recovery!Captured(job.task) \/ contexts' = contexts
           /\ job' \in JobRows /\ job'.stage = "pass" /\ job'.rows = Recovery!Expected
<1>1. /\ UNCHANGED <<task, door, handoff, attempt, success, active, handler, receipts, events>>
      /\ job.stage = "capture" /\ job' = Recovery!StartPass
      /\ contexts' = Recovery!Captured(job.task) \/ contexts' = contexts
    BY Zenon DEF Recovery!CaptureContext, Recovery!settings
<1>2. job.task \in Tasks
    BY <1>1 DEF RecoveryTypes
<1>3. Recovery!Expected' = Recovery!Expected
    BY <1>1 DEF Recovery!Expected
<1>4. job' \in JobRows /\ job'.stage = "pass" /\ job'.rows = Recovery!Expected'
    BY <1>1, StartIs
<1>5. QED BY <1>1, <1>2, <1>3, <1>4

LEMMA ContextReceiptIs ==
    ASSUME RecoveryTypes, NEW r \in receipts, Recovery!DeliverContext(r)
    PROVE  /\ UNCHANGED <<task, door, handoff, attempt, success, active, handler, job, events>>
           /\ receipts' \in SUBSET ReceiptRows /\ r.task \in Tasks
           /\ contexts' = Recovery!Captured(r.task) \/ contexts' = contexts
<1>1. /\ UNCHANGED <<task, door, handoff, attempt, success, active, handler, job, events>>
      /\ receipts' = receipts \ {r}
      /\ contexts' = Recovery!Captured(r.task) \/ contexts' = contexts
    BY Zenon DEF Recovery!DeliverContext, Recovery!settings
<1>2. r \in ReceiptRows /\ receipts \in SUBSET ReceiptRows
    BY DEF RecoveryTypes
<1>3. r.task \in Tasks
    BY <1>2 DEF ReceiptRows
<1>4. QED BY <1>1, <1>2, <1>3

(* A row of the pass that only settles the handoff.                         *)
LEMMA FollowIs ==
    ASSUME RecoveryHypotheses, RecoveryTypes, NEW g \in RecoveryTasks,
           Recovery!FollowAttempt(g) \/ Recovery!RefuseFingerprint(g)
    PROVE  /\ UNCHANGED <<task, door, attempt, contexts, success, active, handler, receipts, events>>
           /\ handoff' \in [RecoveryGates -> Recovery!Handoffs] /\ g \in job.rows
           /\ handoff'[g].frozen = handoff[g].frozen /\ handoff'[g].status # "none"
           /\ handoff'[g].status = "consumed" => attempt[g].state = "created"
           /\ handoff'[g].status = "blocked" =>
                \/ attempt[g].state = "refused"
                \/ attempt[g].state = "pending" /\ ~Recovery!SameFingerprint(g)
           /\ \A k \in RecoveryGates : k # g => handoff'[k] = handoff[k]
           /\ job' \in JobRows /\ job'.stage # "capture" /\ job'.rows \subseteq job.rows
<1>1. g \in RecoveryGates
    BY GatesAre
<1>2. /\ UNCHANGED <<task, door, attempt, contexts, success, active, handler, receipts, events>>
      /\ job.stage = "pass" /\ g \in job.rows /\ Recovery!RowDone(g)
    BY Zenon DEF Recovery!FollowAttempt, Recovery!RefuseFingerprint, Recovery!AtRow, Recovery!settings
<1>3. job' \in JobRows /\ job'.stage # "capture" /\ job'.rows \subseteq job.rows
    BY <1>2, RowDoneIs DEF RecoveryTypes
<1>4. \E status \in {"none", "expected", "consumed", "blocked"} :
        /\ Recovery!Settle(g, status) /\ status # "none"
        /\ status = "consumed" => attempt[g].state = "created"
        /\ status = "blocked" =>
                \/ attempt[g].state = "refused"
                \/ attempt[g].state = "pending" /\ ~Recovery!SameFingerprint(g)
    <2>1. CASE Recovery!FollowAttempt(g)
        <3>1. Recovery!Settle(g, Recovery!Outcome(g))
            BY <2>1 DEF Recovery!FollowAttempt
        <3>2. /\ Recovery!Outcome(g) \in {"expected", "consumed", "blocked"}
              /\ Recovery!Outcome(g) = "consumed" => attempt[g].state = "created"
              /\ Recovery!Outcome(g) = "blocked" => attempt[g].state = "refused"
            BY DEF Recovery!Outcome
        <3>3. QED BY <3>1, <3>2
    <2>2. CASE Recovery!RefuseFingerprint(g)
        BY <2>2 DEF Recovery!RefuseFingerprint
    <2>3. QED BY <2>1, <2>2
<1>5. QED BY <1>1, <1>2, <1>3, <1>4, SettleIs

(* A row of the pass that only moves the attempt, or refuses it.            *)
LEMMA RefuseIs ==
    ASSUME RecoveryHypotheses, RecoveryTypes, NEW g \in RecoveryTasks, Recovery!Refuse(g)
    PROVE  /\ UNCHANGED <<task, door, contexts, success, active, handler, receipts, events>>
           /\ attempt[g].state \in {"none", "pending"} /\ g \in job.rows
           /\ attempt' \in [RecoveryGates -> Recovery!Attempts] /\ attempt'[g].state = "refused"
           /\ \A k \in RecoveryGates : k # g => attempt'[k] = attempt[k]
           /\ handoff' \in [RecoveryGates -> Recovery!Handoffs]
           /\ handoff'[g] = handoff[g] \/ handoff'[g].status = "blocked"
           /\ \A k \in RecoveryGates : k # g => handoff'[k] = handoff[k]
           /\ job' \in JobRows /\ job'.stage # "capture"
           /\ job'.rows \subseteq job.rows \/ job'.rows = Recovery!Expected'
<1>1. g \in RecoveryGates
    BY GatesAre
<1>2. /\ UNCHANGED <<task, door, contexts, success, active, handler, receipts, events>>
      /\ attempt[g].state \in {"none", "pending"} /\ job.stage = "pass" /\ g \in job.rows
      /\ attempt' = [attempt EXCEPT ![g] = [Recovery!Reserved(g) EXCEPT !.state = "refused"]]
    BY DEF Recovery!Refuse, Recovery!Publishable, Recovery!AtRow, Recovery!settings
<1>3. /\ attempt' \in [RecoveryGates -> Recovery!Attempts] /\ attempt'[g].state = "refused"
      /\ \A k \in RecoveryGates : k # g => attempt'[k] = attempt[k]
    <2>1. attempt' = [attempt EXCEPT ![g] = Restated(Recovery!Reserved(g), "refused")]
        BY <1>2 DEF Restated
    <2>2. /\ Restated(Recovery!Reserved(g), "refused") \in Recovery!Attempts
          /\ Restated(Recovery!Reserved(g), "refused").state = "refused"
        BY ReservedIs, RestatedIs
    <2>3. QED BY <1>1, <2>1, <2>2, AttemptIs
<1>4. CASE Recovery!Settle(g, "blocked") /\ Recovery!RowDone(g)
    <2>1. job' \in JobRows /\ job'.stage # "capture" /\ job'.rows \subseteq job.rows
        BY <1>2, <1>4, RowDoneIs DEF RecoveryTypes
    <2>2. QED BY <1>1, <1>2, <1>3, <1>4, <2>1, SettleIs
<1>5. CASE UNCHANGED handoff /\ job' = Recovery!StartPass
    <2>1. job' \in JobRows /\ job'.stage = "pass" /\ job'.rows = Recovery!Expected'
        BY <1>5, StartIs
    <2>2. QED BY <1>1, <1>2, <1>3, <1>5, <2>1 DEF RecoveryTypes
<1>6. (Recovery!Settle(g, "blocked") /\ Recovery!RowDone(g)) \/ (UNCHANGED handoff /\ job' = Recovery!StartPass)
    BY Zenon DEF Recovery!Refuse
<1>7. QED BY <1>4, <1>5, <1>6

LEMMA DeferIs ==
    ASSUME RecoveryHypotheses, RecoveryTypes, NEW g \in RecoveryTasks, Recovery!Defer(g)
    PROVE  /\ UNCHANGED <<task, door, handoff, contexts, success, active, handler, receipts, events>>
           /\ attempt[g].state \in {"none", "pending"} /\ g \in job.rows
           /\ attempt' \in [RecoveryGates -> Recovery!Attempts] /\ attempt'[g].state = "pending"
           /\ \/ attempt'[g] = attempt[g]
              \/ /\ attempt'[g].frozen = handoff[g].frozen
                 /\ attempt'[g].context = Recovery!ContextOf(Recovery!Upstream(g))
           /\ \A k \in RecoveryGates : k # g => attempt'[k] = attempt[k]
           /\ job' \in JobRows /\ job'.stage # "capture" /\ job'.rows \subseteq job.rows
<1>1. g \in RecoveryGates
    BY GatesAre
<1>2. /\ UNCHANGED <<task, door, handoff, contexts, success, active, handler, receipts, events>>
      /\ attempt[g].state \in {"none", "pending"} /\ job.stage = "pass" /\ g \in job.rows
      /\ attempt' = [attempt EXCEPT ![g] = Recovery!Reserved(g)] /\ Recovery!RowDone(g)
    BY DEF Recovery!Defer, Recovery!Publishable, Recovery!AtRow, Recovery!settings
<1>3. job' \in JobRows /\ job'.stage # "capture" /\ job'.rows \subseteq job.rows
    BY <1>2, RowDoneIs DEF RecoveryTypes
<1>4. /\ Recovery!Reserved(g) \in Recovery!Attempts /\ Recovery!Reserved(g).state = "pending"
      /\ \/ Recovery!Reserved(g) = attempt[g]
         \/ /\ Recovery!Reserved(g).frozen = handoff[g].frozen
            /\ Recovery!Reserved(g).context = Recovery!ContextOf(Recovery!Upstream(g))
    BY <1>2, ReservedIs
<1>5. /\ attempt' \in [RecoveryGates -> Recovery!Attempts] /\ attempt'[g] = Recovery!Reserved(g)
      /\ \A k \in RecoveryGates : k # g => attempt'[k] = attempt[k]
    BY <1>1, <1>2, <1>4, AttemptIs
<1>6. QED BY <1>2, <1>3, <1>4, <1>5

LEMMA FinishIs ==
    ASSUME RecoveryHypotheses, RecoveryTypes, NEW g \in RecoveryTasks, Recovery!FinishPublication(g)
    PROVE  /\ UNCHANGED <<task, door, handoff, contexts, success, active, handler, receipts, job, events>>
           /\ attempt[g].state = "published"
           /\ attempt' \in [RecoveryGates -> Recovery!Attempts] /\ attempt'[g].state = "created"
           /\ \A k \in RecoveryGates : k # g => attempt'[k] = attempt[k]
<1>1. g \in RecoveryGates /\ attempt[g] \in Recovery!Attempts
    BY GatesAre DEF RecoveryTypes
<1>2. /\ UNCHANGED <<task, door, handoff, contexts, success, active, handler, receipts, job, events>>
      /\ attempt[g].state = "published" /\ attempt' = [attempt EXCEPT ![g].state = "created"]
    BY DEF Recovery!FinishPublication, Recovery!settings
<1>3. attempt' = [attempt EXCEPT ![g] = Restated(attempt[g], "created")]
    BY <1>1, <1>2 DEF RecoveryTypes, Restated
<1>4. Restated(attempt[g], "created") \in Recovery!Attempts /\ Restated(attempt[g], "created").state = "created"
    BY <1>1, RestatedIs
<1>5. QED BY <1>1, <1>2, <1>3, <1>4, AttemptIs

LEMMA SucceedIs ==
    ASSUME RecoveryHypotheses, RecoveryTypes, NEW t \in Tasks, Recovery!Succeed(t)
    PROVE  /\ UNCHANGED <<door, handoff, attempt, active, handler, receipts, job, events>>
           /\ task' \in [Tasks -> TaskStates] /\ task[t] \in {"live", "approved"}
           /\ task'[t] \in {"approved", "done"} /\ (task[t] = "approved" => task'[t] = "done")
           /\ \A k \in Tasks : k # t => task'[k] = task[k]
           /\ contexts' \in Seq(ContextRows) /\ DOMAIN contexts' = DOMAIN contexts
           /\ \A k \in DOMAIN contexts :
                /\ contexts'[k].task = contexts[k].task /\ contexts'[k].recovery = contexts[k].recovery
                /\ \/ contexts'[k].resolved = contexts[k].resolved
                   \/ /\ contexts[k].recovery = t
                      /\ contexts[k].task = Original => success' \/ ~active
           /\ success' \in BOOLEAN /\ (success => success')
           /\ success' => \/ success
                          \/ t = Original /\ task[t] = "approved"
                          \/ \E k \in DOMAIN contexts : contexts[k].task = Original /\ contexts[k].recovery = t
<1>1. /\ UNCHANGED <<door, handoff, attempt, active, handler, receipts, job, events>>
      /\ task[t] \in {"live", "approved"}
      /\ task' = [task EXCEPT ![t] = IF task[t] = "live" THEN "approved" ELSE "done"]
    BY DEF Recovery!Succeed, Recovery!settings
<1>2. /\ task' \in [Tasks -> TaskStates] /\ task'[t] \in {"approved", "done"}
      /\ (task[t] = "approved" => task'[t] = "done")
      /\ \A k \in Tasks : k # t => task'[k] = task[k]
    BY <1>1 DEF RecoveryTypes, TaskStates
<1>3. PICK written \in BOOLEAN :
        /\ contexts' = [i \in DOMAIN contexts |->
                          IF i \in Recovery!Redeemed(t, written)
                          THEN [contexts[i] EXCEPT !.resolved = TRUE] ELSE contexts[i]]
        /\ success' = \/ success
                      \/ written /\ active /\ t = Original /\ task[t] = "approved"
                      \/ written /\ active /\ \E i \in Recovery!Awaiting(t) : contexts[i].task = Original
    BY DEF Recovery!Succeed
<1>4. PICK R : R = Recovery!Redeemed(t, written)
    OBVIOUS
<1>5. /\ contexts' \in Seq(ContextRows) /\ DOMAIN contexts' = DOMAIN contexts
      /\ \A k \in DOMAIN contexts :
            /\ contexts'[k].task = contexts[k].task /\ contexts'[k].recovery = contexts[k].recovery
            /\ k \in R => contexts'[k].resolved = TRUE
            /\ k \notin R => contexts'[k].resolved = contexts[k].resolved
    BY <1>3, <1>4, ResolvedAre
<1>6. success' \in BOOLEAN /\ (success => success')
    BY <1>3
<1>7. success' => \/ success
                  \/ t = Original /\ task[t] = "approved"
                  \/ \E k \in DOMAIN contexts : contexts[k].task = Original /\ contexts[k].recovery = t
    BY <1>3, Zenon DEF Recovery!Awaiting
<1>8. ASSUME NEW k \in R
      PROVE  contexts[k].recovery = t /\ (contexts[k].task = Original => success' \/ ~active)
    <2>1. /\ k \in Recovery!Awaiting(t)
          /\ written \/ success \/ ~active \/ contexts[k].task # Original
        BY <1>4, Zenon DEF Recovery!Redeemed
    <2>2. contexts[k].recovery = t
        BY <2>1, Zenon DEF Recovery!Awaiting
    <2>3. contexts[k].task = Original /\ written /\ active => success'
        BY <1>3, <2>1, Zenon
    <2>4. QED BY <1>6, <2>1, <2>2, <2>3, Zenon
<1>9. ASSUME NEW k \in DOMAIN contexts
      PROVE  /\ contexts'[k].task = contexts[k].task /\ contexts'[k].recovery = contexts[k].recovery
             /\ \/ contexts'[k].resolved = contexts[k].resolved
                \/ /\ contexts[k].recovery = t
                   /\ contexts[k].task = Original => success' \/ ~active
    BY <1>5, <1>8, Zenon
<1>10. QED BY <1>1, <1>2, <1>5, <1>6, <1>7, <1>9, Zenon

LEMMA SettingsAre ==
    ASSUME RecoveryTypes, Recovery!EditHandler \/ Recovery!Detach
    PROVE  /\ UNCHANGED <<task, door, handoff, attempt, contexts, success, receipts, job, events>>
           /\ handler' \in Handlers \cup {Null} /\ active' \in BOOLEAN /\ (active' => active)
<1>1. UNCHANGED <<task, door, handoff, attempt, contexts, success, receipts, job, events>>
    BY Zenon DEF Recovery!EditHandler, Recovery!Detach, Recovery!recoveryVars
<1>2. handler \in Handlers \cup {Null} /\ active \in BOOLEAN
    BY DEF RecoveryTypes
<1>3. CASE Recovery!EditHandler
    <2>1. handler' \in Handlers \cup {Null} /\ active' = active
        BY <1>3, Zenon DEF Recovery!EditHandler
    <2>2. QED BY <1>1, <1>2, <2>1, Zenon
<1>4. CASE Recovery!Detach
    <2>1. handler' = handler /\ active' = FALSE
        BY <1>4, Zenon DEF Recovery!Detach
    <2>2. QED BY <1>1, <1>2, <2>1
<1>5. QED BY <1>3, <1>4

(***************************************************************************)
(* The invariant                                                           *)
(***************************************************************************)
(* A gate is linked when its recovery task exists, an attempt that reached  *)
(* the task is never for one that does not exist, and a handoff is consumed *)
(* by a created attempt.                                                    *)
Linked ==
    /\ \A g \in RecoveryTasks : door[g].linked = TRUE <=> task[g] # "absent"
    /\ \A g \in RecoveryTasks : attempt[g].state \in {"published", "created"} => task[g] # "absent"
    /\ \A g \in RecoveryGates :
          handoff[g].status = "consumed" => g \in RecoveryTasks /\ attempt[g].state = "created"

Earned == Recovery!SuccessIsEarned
Redeemed == Recovery!RedeemedIsUnblocked

(* On the live path with one gate per task a pending attempt keeps the      *)
(* fingerprint of its handoff: the gate that could capture a newer context  *)
(* has fired already.                                                       *)
Alone == "receipt" \notin Paths /\ Recovery!OneGate
AttemptsFollow ==
    /\ receipts = {}
    /\ \A g \in RecoveryGates : handoff[g].status # "none" => door[g].by # 0
    /\ \A g \in RecoveryTasks : attempt[g].state # "none" => handoff[g].status # "none"
    /\ \A g \in job.rows : handoff[g].status # "none"
FingerprintsHold ==
    \A g \in RecoveryTasks :
        attempt[g].state = "pending" =>
            /\ attempt[g].frozen = handoff[g].frozen
            /\ attempt[g].context = Recovery!ContextOf(Recovery!Upstream(g))
CaptureIsFirst ==
    job.stage = "capture" =>
        \A g \in RecoveryTasks : Recovery!Upstream(g) = job.task => attempt[g].state = "none"
ClaimsAreOwn ==
    \A i \in DOMAIN contexts :
        contexts[i].recovery # Null =>
            /\ contexts[i].task = Recovery!Upstream(contexts[i].recovery)
            /\ attempt[contexts[i].recovery].state \in {"published", "created"}
LiveOrder ==
    AttemptsFollow /\ FingerprintsHold /\ CaptureIsFirst /\ ClaimsAreOwn /\ Recovery!BlockedForCause

RecoveryInv == RecoveryTypes /\ Linked /\ Earned /\ Redeemed /\ (Alone => LiveOrder)

LEMMA UpstreamsDiffer ==
    ASSUME RecoveryHypotheses, Recovery!OneGate, NEW g \in RecoveryGates, NEW k \in RecoveryGates,
           Recovery!Upstream(g) = Recovery!Upstream(k)
    PROVE  g = k
<1>1. /\ g[1] = k[1] /\ g[1] \in Roots /\ g = <<g[1], g[2]>> /\ k = <<k[1], k[2]>>
      /\ g[2] \in 0 .. MAX_RECOVERY_DEPTH /\ k[2] \in 0 .. MAX_RECOVERY_DEPTH
    BY DEF RecoveryGates, Recovery!Gates, Recovery!OneGate
<1>2. \A r \in Roots, d \in 0 .. MAX_RECOVERY_DEPTH : <<r, d>> # Original
    BY DEF RecoveryHypotheses, RecoveryGates, Recovery!Gates
<1>3. g[2] = k[2]
    <2>1. /\ Recovery!Upstream(g) = IF g[2] = 0 THEN Original ELSE <<g[1], g[2] - 1>>
          /\ Recovery!Upstream(k) = IF k[2] = 0 THEN Original ELSE <<k[1], k[2] - 1>>
        BY DEF Recovery!Upstream, Recovery!Depth
    <2>2. MAX_RECOVERY_DEPTH \in Nat
        BY DEF RecoveryHypotheses
    <2>3. /\ g[2] # 0 => g[2] - 1 \in 0 .. MAX_RECOVERY_DEPTH
          /\ k[2] # 0 => k[2] - 1 \in 0 .. MAX_RECOVERY_DEPTH
        BY <1>1, <2>2
    <2>4. /\ g[2] # 0 => <<g[1], g[2] - 1>> # Original
          /\ k[2] # 0 => <<k[1], k[2] - 1>> # Original
        BY <1>1, <1>2, <2>3
    <2>5. CASE g[2] = 0 \/ k[2] = 0
        BY <2>1, <2>4, <2>5
    <2>6. CASE g[2] # 0 /\ k[2] # 0
        <3>1. <<g[1], g[2] - 1>> = <<k[1], k[2] - 1>>
            BY <2>1, <2>6
        <3>2. QED BY <1>1, <3>1
    <2>7. QED BY <2>5, <2>6
<1>4. QED BY <1>1, <1>3

LastIn(S) == IF S = {} THEN 0 ELSE CHOOSE i \in S : \A k \in S : k =< i

(* Which context is pending for a task, when no context of it moved.        *)
LEMMA ContextKept ==
    ASSUME NEW t, DOMAIN contexts' = DOMAIN contexts,
           \A k \in DOMAIN contexts :
              /\ contexts'[k].task = contexts[k].task
              /\ contexts[k].task = t => contexts'[k].resolved = contexts[k].resolved
    PROVE  Recovery!ContextOf(t)' = Recovery!ContextOf(t)
<1>1. Recovery!Unresolved(t)' = Recovery!Unresolved(t)
    <2>1. Recovery!Unresolved(t)' =
            {i \in DOMAIN contexts' : contexts'[i].task = t /\ ~contexts'[i].resolved}
        BY Zenon DEF Recovery!Unresolved
    <2>2. Recovery!Unresolved(t) = {i \in DOMAIN contexts : contexts[i].task = t /\ ~contexts[i].resolved}
        BY Zenon DEF Recovery!Unresolved
    <2>3. QED BY <2>1, <2>2
<1>2. /\ Recovery!ContextOf(t)' = LastIn(Recovery!Unresolved(t)')
      /\ Recovery!ContextOf(t) = LastIn(Recovery!Unresolved(t))
    BY Zenon DEF Recovery!ContextOf, LastIn
<1>3. QED BY <1>1, <1>2, Zenon

LEMMA ContextApart ==
    ASSUME NEW t, NEW u \in Tasks, t # u, contexts \in Seq(ContextRows), contexts' = Recovery!Captured(u)
    PROVE  Recovery!ContextOf(t)' = Recovery!ContextOf(t)
<1>1. /\ DOMAIN contexts' = DOMAIN contexts \cup {Len(contexts) + 1}
      /\ Len(contexts) + 1 \notin DOMAIN contexts
      /\ \A i \in DOMAIN contexts : contexts'[i] = contexts[i]
      /\ contexts'[Len(contexts) + 1].task = u
    BY CapturedIs
<1>2. Recovery!Unresolved(t)' = Recovery!Unresolved(t)
    <2>1. Recovery!Unresolved(t)' =
            {i \in DOMAIN contexts' : contexts'[i].task = t /\ ~contexts'[i].resolved}
        BY Zenon DEF Recovery!Unresolved
    <2>2. Recovery!Unresolved(t) = {i \in DOMAIN contexts : contexts[i].task = t /\ ~contexts[i].resolved}
        BY Zenon DEF Recovery!Unresolved
    <2>3. QED BY <1>1, <2>1, <2>2
<1>3. /\ Recovery!ContextOf(t)' = LastIn(Recovery!Unresolved(t)')
      /\ Recovery!ContextOf(t) = LastIn(Recovery!Unresolved(t))
    BY Zenon DEF Recovery!ContextOf, LastIn
<1>4. QED BY <1>2, <1>3, Zenon

(* A linked context names a recovery task.                                  *)
LEMMA ClaimantsAre ==
    ASSUME RecoveryHypotheses, RecoveryTypes, NEW k \in DOMAIN contexts, contexts[k].recovery # Null
    PROVE  contexts[k].recovery \in RecoveryTasks /\ contexts[k].recovery \in RecoveryGates
<1>1. contexts[k] \in ContextRows /\ RecoveryTasks \subseteq RecoveryGates
    BY GatesAre DEF RecoveryTypes
<1>2. contexts[k].recovery \in RecoveryTasks \cup {Null}
    BY <1>1 DEF ContextRows
<1>3. QED BY <1>1, <1>2

LEMMA EarnedKept ==
    ASSUME Earned, success' => success, task[Original] = "done" => task'[Original] = "done",
           \A k \in DOMAIN contexts :
              /\ k \in DOMAIN contexts' /\ contexts'[k].task = contexts[k].task
              /\ contexts[k].recovery # Null =>
                    /\ contexts'[k].recovery = contexts[k].recovery
                    /\ task[contexts[k].recovery] \in {"approved", "done"} =>
                         task'[contexts[k].recovery] \in {"approved", "done"}
    PROVE  Earned'
<1>1. SUFFICES ASSUME success' PROVE Earned'
    BY Zenon DEF Earned, Recovery!SuccessIsEarned
<1>2. CASE task[Original] = "done"
    BY <1>2, Zenon DEF Earned, Recovery!SuccessIsEarned
<1>3. CASE task[Original] # "done"
    <2>1. PICK i \in DOMAIN contexts :
            /\ contexts[i].task = Original /\ contexts[i].recovery # Null
            /\ task[contexts[i].recovery] \in {"approved", "done"}
        BY <1>1, <1>3, Zenon DEF Earned, Recovery!SuccessIsEarned
    <2>2. /\ i \in DOMAIN contexts' /\ contexts'[i].task = Original /\ contexts'[i].recovery # Null
          /\ task'[contexts'[i].recovery] \in {"approved", "done"}
        BY <2>1, Zenon
    <2>3. QED BY <2>2, Zenon DEF Earned, Recovery!SuccessIsEarned
<1>4. QED BY <1>2, <1>3

LEMMA RedeemedKept ==
    ASSUME Redeemed, success => success', active' => active,
           \A k \in DOMAIN contexts' :
              contexts'[k].resolved =>
                 \/ /\ k \in DOMAIN contexts /\ contexts[k].resolved
                    /\ contexts'[k].task = contexts[k].task
                 \/ contexts'[k].task = Original => success' \/ ~active'
    PROVE  Redeemed'
<1>1. ASSUME NEW k \in DOMAIN contexts', contexts'[k].resolved, contexts'[k].task = Original
      PROVE  success' \/ ~active'
    <2>1. CASE k \in DOMAIN contexts /\ contexts[k].resolved /\ contexts'[k].task = contexts[k].task
        <3>1. success \/ ~active
            BY <1>1, <2>1, Zenon DEF Redeemed, Recovery!RedeemedIsUnblocked
        <3>2. QED BY <3>1, Zenon
    <2>2. QED BY <1>1, <2>1, Zenon
<1>2. QED BY <1>1, Zenon DEF Redeemed, Recovery!RedeemedIsUnblocked

LEMMA FingerprintsKept ==
    ASSUME FingerprintsHold,
           \A g \in RecoveryTasks :
              attempt'[g].state = "pending" =>
                 /\ attempt'[g] = attempt[g] /\ handoff'[g].frozen = handoff[g].frozen
                 /\ Recovery!ContextOf(Recovery!Upstream(g))' = Recovery!ContextOf(Recovery!Upstream(g))
    PROVE  FingerprintsHold'
<1>1. ASSUME NEW g \in RecoveryTasks, attempt'[g].state = "pending"
      PROVE  /\ attempt'[g].frozen = handoff'[g].frozen
             /\ attempt'[g].context = Recovery!ContextOf(Recovery!Upstream(g))'
    BY <1>1, Zenon DEF FingerprintsHold
<1>2. QED BY <1>1, Zenon DEF FingerprintsHold

(* Where contexts and what follows from them stay as they were.             *)
LEMMA ContextsStay ==
    ASSUME UNCHANGED contexts
    PROVE  /\ \A t : Recovery!ContextOf(t)' = Recovery!ContextOf(t)
           /\ Redeemed /\ (success => success') /\ (active' => active) => Redeemed'
           /\ Earned /\ UNCHANGED <<task, success>> => Earned'
<1>1. ASSUME NEW t PROVE Recovery!ContextOf(t)' = Recovery!ContextOf(t)
    BY ContextKept
<1>2. ASSUME Redeemed, success => success', active' => active PROVE Redeemed'
    BY <1>2, Zenon DEF Redeemed, Recovery!RedeemedIsUnblocked
<1>3. ASSUME Earned, UNCHANGED <<task, success>> PROVE Earned'
    BY <1>3, Zenon DEF Earned, Recovery!SuccessIsEarned
<1>4. QED BY <1>1, <1>2, <1>3

LEMMA JobStep ==
    ASSUME RecoveryInv, JobOnly
    PROVE  RecoveryInv'
<1>1. /\ UNCHANGED <<task, door, handoff, attempt, contexts, success, active, handler, receipts, events>>
      /\ job' \in JobRows /\ job'.stage # "capture"
      /\ job'.rows = {} \/ job'.rows \subseteq job.rows \/ job'.rows = Recovery!Expected
    BY DEF JobOnly
<1>2. RecoveryTypes'
    BY <1>1 DEF RecoveryInv, RecoveryTypes
<1>3. Linked' /\ Earned' /\ Redeemed'
    <2>1. Linked'
        BY <1>1, Zenon DEF RecoveryInv, Linked
    <2>2. QED BY <1>1, <2>1, ContextsStay, Zenon DEF RecoveryInv
<1>4. ASSUME Alone PROVE LiveOrder'
    <2>1. AttemptsFollow /\ FingerprintsHold /\ ClaimsAreOwn /\ Recovery!BlockedForCause
        BY <1>4, Zenon DEF RecoveryInv, LiveOrder
    <2>2. \A g \in job'.rows : handoff[g].status # "none"
        BY <1>1, <2>1 DEF AttemptsFollow, Recovery!Expected
    <2>3. AttemptsFollow'
        BY <1>1, <2>1, <2>2, Zenon DEF AttemptsFollow
    <2>4. FingerprintsHold'
        BY <1>1, <2>1, FingerprintsKept, ContextsStay, Zenon
    <2>5. CaptureIsFirst' /\ ClaimsAreOwn' /\ Recovery!BlockedForCause'
        BY <1>1, <2>1, Zenon DEF CaptureIsFirst, ClaimsAreOwn, Recovery!BlockedForCause
    <2>6. QED BY <2>3, <2>4, <2>5, Zenon DEF LiveOrder
<1>5. QED BY <1>2, <1>3, <1>4, Zenon DEF RecoveryInv, Alone

LEMMA RejectStep ==
    ASSUME RecoveryHypotheses, RecoveryInv, NEW t \in Tasks, Recovery!Reject(t)
    PROVE  RecoveryInv'
<1>1. RecoveryTypes /\ Linked /\ Earned /\ Redeemed
    BY DEF RecoveryInv
<1>2. /\ UNCHANGED <<task, attempt, contexts, success, active, handler, receipts>>
      /\ events' \in 1 .. MaxEvents /\ job' \in JobRows
    BY <1>1, RejectIs
<1>3. PICK S \in SUBSET Recovery!Open(t) :
        /\ Recovery!Satisfy(S, events')
        /\ \/ job'.stage = "idle" /\ job'.rows = {}
           \/ S # {} /\ job'.stage = "capture" /\ job'.task = t /\ job'.rows = {}
    BY <1>1, RejectIs
<1>4. \A g \in S : g \in RecoveryGates /\ door[g].by = 0 /\ Recovery!Upstream(g) = t
    BY DEF Recovery!Open, RecoveryGates
<1>5. S \in SUBSET RecoveryGates
    BY <1>4
<1>6. /\ door' \in [RecoveryGates -> GateRows] /\ handoff' \in [RecoveryGates -> Recovery!Handoffs]
      /\ \A g \in RecoveryGates :
            /\ door'[g].linked = door[g].linked
            /\ door'[g].by = IF g \in S THEN events' ELSE door[g].by
            /\ \/ handoff'[g] = handoff[g]
               \/ g \in S /\ g \in RecoveryTasks /\ handoff'[g].status = "expected"
    BY <1>1, <1>2, <1>3, <1>5, SatisfyIs
<1>7. \A g \in RecoveryTasks : g \in RecoveryGates
    BY GatesAre
<1>8. RecoveryTypes'
    <2>1. job'.stage = "capture" => job'.task \in Tasks
        BY <1>3
    <2>2. events' \in 0 .. MaxEvents
        BY <1>2
    <2>3. QED BY <1>1, <1>2, <1>6, <2>1, <2>2, Zenon DEF RecoveryTypes
<1>9. Linked'
    BY <1>1, <1>2, <1>6, <1>7 DEF Linked
<1>10. Earned' /\ Redeemed'
    BY <1>1, <1>2, ContextsStay, Zenon
<1>11. ASSUME Alone PROVE LiveOrder'
    <2>1. AttemptsFollow /\ FingerprintsHold /\ ClaimsAreOwn /\ Recovery!BlockedForCause
        BY <1>11, Zenon DEF RecoveryInv, LiveOrder
    <2>2. \A g \in S : g \in RecoveryTasks => attempt[g].state = "none" /\ attempt'[g].state = "none"
        BY <1>2, <1>4, <2>1, Zenon DEF AttemptsFollow
    <2>3. AttemptsFollow'
        <3>1. \A g \in RecoveryGates : handoff'[g].status # "none" => door'[g].by # 0
            BY <1>2, <1>6, <2>1 DEF AttemptsFollow
        <3>2. \A g \in RecoveryTasks : attempt'[g].state # "none" => handoff'[g].status # "none"
            BY <1>2, <1>6, <1>7, <2>1 DEF AttemptsFollow
        <3>3. job'.rows = {}
            BY <1>3
        <3>4. QED BY <1>2, <2>1, <3>1, <3>2, <3>3 DEF AttemptsFollow
    <2>4. FingerprintsHold'
        <3>1. \A g \in RecoveryTasks : attempt'[g].state = "pending" => handoff'[g] = handoff[g]
            BY <1>6, <1>7, <2>2
        <3>2. QED BY <1>2, <2>1, <3>1, FingerprintsKept, ContextsStay, Zenon
    <2>5. CaptureIsFirst'
        <3>1. SUFFICES ASSUME job'.stage = "capture", NEW g \in RecoveryTasks,
                              Recovery!Upstream(g) = job'.task
                       PROVE  attempt'[g].state = "none"
            BY Zenon DEF CaptureIsFirst
        <3>2. PICK k \in S : TRUE
            BY <1>3, <3>1
        <3>3. Recovery!Upstream(g) = Recovery!Upstream(k)
            BY <1>3, <1>4, <3>1
        <3>4. g = k
            BY <1>4, <1>7, <1>11, <3>3, UpstreamsDiffer DEF Alone
        <3>5. QED BY <2>2, <3>4
    <2>6. ClaimsAreOwn'
        BY <1>2, <2>1, Zenon DEF ClaimsAreOwn
    <2>7. Recovery!BlockedForCause'
        BY <1>2, <1>6, <2>1 DEF Recovery!BlockedForCause, RecoveryGates
    <2>8. QED BY <2>3, <2>4, <2>5, <2>6, <2>7, Zenon DEF LiveOrder
<1>12. QED BY <1>8, <1>9, <1>10, <1>11, Zenon DEF RecoveryInv, Alone

LEMMA DeliverStep ==
    ASSUME RecoveryHypotheses, RecoveryInv, NEW r \in receipts, Recovery!DeliverGates(r)
    PROVE  RecoveryInv'
<1>1. RecoveryTypes /\ Linked /\ Earned /\ Redeemed
    BY DEF RecoveryInv
<1>2. /\ UNCHANGED <<task, attempt, contexts, success, active, handler, events>>
      /\ receipts' \in SUBSET ReceiptRows /\ job' \in JobRows /\ job'.stage # "capture"
      /\ r.event \in 1 .. MaxEvents
    BY <1>1, DeliverIs
<1>3. PICK S \in SUBSET RecoveryGates : Recovery!Satisfy(S, r.event)
    BY <1>1, DeliverIs
<1>4. /\ door' \in [RecoveryGates -> GateRows] /\ handoff' \in [RecoveryGates -> Recovery!Handoffs]
      /\ \A g \in RecoveryGates :
            /\ door'[g].linked = door[g].linked
            /\ \/ handoff'[g] = handoff[g]
               \/ g \in S /\ g \in RecoveryTasks /\ handoff'[g].status = "expected"
    BY <1>1, <1>2, <1>3, SatisfyIs
<1>5. RecoveryTypes'
    BY <1>1, <1>2, <1>4, Zenon DEF RecoveryTypes
<1>6. Linked'
    BY <1>1, <1>2, <1>4, GatesAre DEF Linked
<1>7. Earned' /\ Redeemed'
    BY <1>1, <1>2, ContextsStay, Zenon
<1>8. ~Alone
    BY DEF RecoveryInv, LiveOrder, AttemptsFollow
<1>9. QED BY <1>5, <1>6, <1>7, <1>8, Zenon DEF RecoveryInv, Alone

LEMMA TryStep ==
    ASSUME RecoveryHypotheses, RecoveryInv, NEW t \in Tasks, Recovery!Fail(t) \/ Recovery!Retry(t)
    PROVE  RecoveryInv'
<1>1. RecoveryTypes /\ Linked /\ Earned /\ Redeemed
    BY DEF RecoveryInv
<1>2. /\ UNCHANGED <<door, handoff, attempt, contexts, success, active, handler, job>>
      /\ task' \in [Tasks -> TaskStates]
      /\ events' \in 0 .. MaxEvents /\ receipts' \in SUBSET ReceiptRows
      /\ "receipt" \notin Paths => receipts' = receipts
    BY <1>1, TriesAre
<1>3. \A k \in Tasks : \/ task'[k] = task[k]
                       \/ task[k] \in {"live", "failed"} /\ task'[k] \in {"live", "failed"}
    BY <1>1, TriesAre
<1>4. \A k \in Tasks : /\ task'[k] = "absent" <=> task[k] = "absent"
                       /\ task[k] = "done" => task'[k] = "done"
                       /\ task[k] \in {"approved", "done"} => task'[k] \in {"approved", "done"}
    BY <1>3
<1>5. RecoveryTypes'
    BY <1>1, <1>2, Zenon DEF RecoveryTypes
<1>6. Linked'
    BY <1>1, <1>2, <1>4, GatesAre, Zenon DEF Linked
<1>7. Earned'
    <2>1. \A k \in DOMAIN contexts : contexts[k].recovery # Null => contexts[k].recovery \in Tasks
        <3>1. contexts \in Seq(ContextRows) /\ RecoveryTasks \subseteq Tasks
            BY <1>1, GatesAre DEF RecoveryTypes
        <3>2. \A k \in DOMAIN contexts : contexts[k] \in ContextRows
            BY <3>1
        <3>3. \A k \in DOMAIN contexts : contexts[k].recovery \in RecoveryTasks \cup {Null}
            BY <3>2, Zenon DEF ContextRows
        <3>4. QED BY <3>1, <3>3, Zenon
    <2>2. Original \in Tasks
        BY GatesAre
    <2>3. QED BY <1>1, <1>2, <1>4, <2>1, <2>2, EarnedKept, Zenon
<1>8. Redeemed'
    BY <1>1, <1>2, ContextsStay, Zenon
<1>9. ASSUME Alone PROVE LiveOrder'
    <2>1. LiveOrder /\ receipts' = receipts
        BY <1>2, <1>9, Zenon DEF RecoveryInv, Alone
    <2>2. AttemptsFollow' /\ CaptureIsFirst' /\ ClaimsAreOwn' /\ Recovery!BlockedForCause'
        BY <1>2, <2>1, Zenon
        DEF LiveOrder, AttemptsFollow, CaptureIsFirst, ClaimsAreOwn, Recovery!BlockedForCause
    <2>3. FingerprintsHold'
        BY <1>2, <2>1, FingerprintsKept, ContextsStay, Zenon DEF LiveOrder
    <2>4. QED BY <2>2, <2>3, Zenon DEF LiveOrder
<1>10. QED BY <1>5, <1>6, <1>7, <1>8, <1>9, Zenon DEF RecoveryInv, Alone

(* A captured context is linked to nothing and resolved for nobody.         *)
LEMMA CapturedKeeps ==
    ASSUME RecoveryTypes, Earned, Redeemed, UNCHANGED <<task, success, active>>, NEW t \in Tasks,
           contexts' = Recovery!Captured(t) \/ contexts' = contexts
    PROVE  contexts' \in Seq(ContextRows) /\ Earned' /\ Redeemed'
<1>1. CASE contexts' = contexts
    BY <1>1, ContextsStay, Zenon DEF RecoveryTypes
<1>2. CASE contexts' = Recovery!Captured(t)
    <2>1. /\ contexts' \in Seq(ContextRows) /\ DOMAIN contexts' = DOMAIN contexts \cup {Len(contexts) + 1}
          /\ \A i \in DOMAIN contexts : contexts'[i] = contexts[i]
          /\ contexts'[Len(contexts) + 1].resolved = FALSE
        BY <1>2, CapturedIs DEF RecoveryTypes
    <2>2. Earned'
        BY <2>1, EarnedKept
    <2>3. \A k \in DOMAIN contexts' :
             contexts'[k].resolved => /\ k \in DOMAIN contexts /\ contexts[k].resolved
                                      /\ contexts'[k].task = contexts[k].task
        BY <2>1
    <2>4. Redeemed'
        BY <2>3, RedeemedKept, Zenon
    <2>5. QED BY <2>1, <2>2, <2>4
<1>3. QED BY <1>1, <1>2

LEMMA CaptureStep ==
    ASSUME RecoveryHypotheses, RecoveryInv, Recovery!CaptureContext
    PROVE  RecoveryInv'
<1>1. RecoveryTypes /\ Linked /\ Earned /\ Redeemed
    BY DEF RecoveryInv
<1>2. /\ UNCHANGED <<task, door, handoff, attempt, success, active, handler, receipts, events>>
      /\ job.stage = "capture" /\ job.task \in Tasks
      /\ contexts' = Recovery!Captured(job.task) \/ contexts' = contexts
      /\ job' \in JobRows /\ job'.stage = "pass" /\ job'.rows = Recovery!Expected
    BY <1>1, CaptureIs
<1>3. contexts' \in Seq(ContextRows) /\ Earned' /\ Redeemed'
    BY <1>1, <1>2, CapturedKeeps
<1>4. RecoveryTypes'
    <2>1. job'.stage # "capture"
        BY <1>2
    <2>2. QED BY <1>1, <1>2, <1>3, <2>1, Zenon DEF RecoveryTypes
<1>5. Linked'
    BY <1>1, <1>2, Zenon DEF Linked
<1>6. ASSUME Alone PROVE LiveOrder'
    <2>1. AttemptsFollow /\ FingerprintsHold /\ CaptureIsFirst /\ ClaimsAreOwn /\ Recovery!BlockedForCause
        BY <1>6, Zenon DEF RecoveryInv, LiveOrder
    <2>2. \A g \in job'.rows : handoff[g].status # "none"
        BY <1>2 DEF Recovery!Expected
    <2>3. AttemptsFollow'
        BY <1>2, <2>1, <2>2, Zenon DEF AttemptsFollow
    <2>4. FingerprintsHold'
        <3>1. ASSUME NEW g \in RecoveryTasks, attempt'[g].state = "pending"
              PROVE  Recovery!ContextOf(Recovery!Upstream(g))' = Recovery!ContextOf(Recovery!Upstream(g))
            <4>1. Recovery!Upstream(g) # job.task
                BY <1>2, <2>1, <3>1 DEF CaptureIsFirst
            <4>2. CASE contexts' = contexts
                BY <4>2, ContextsStay
            <4>3. CASE contexts' = Recovery!Captured(job.task)
                <5>1. PICK u \in Tasks : u = job.task
                    BY <1>2
                <5>2. QED BY <1>1, <4>1, <4>3, <5>1, ContextApart DEF RecoveryTypes
            <4>4. QED BY <1>2, <4>2, <4>3
        <3>2. QED BY <1>2, <2>1, <3>1, FingerprintsKept, Zenon
    <2>5. CaptureIsFirst'
        BY <1>2 DEF CaptureIsFirst
    <2>6. ClaimsAreOwn'
        <3>1. CASE contexts' = contexts
            BY <1>2, <2>1, <3>1, Zenon DEF ClaimsAreOwn
        <3>2. CASE contexts' = Recovery!Captured(job.task)
            <4>1. /\ DOMAIN contexts' = DOMAIN contexts \cup {Len(contexts) + 1}
                  /\ \A i \in DOMAIN contexts : contexts'[i] = contexts[i]
                  /\ contexts'[Len(contexts) + 1].recovery = Null
                BY <1>1, <1>2, <3>2, CapturedIs DEF RecoveryTypes
            <4>2. QED BY <1>2, <2>1, <4>1 DEF ClaimsAreOwn
        <3>3. QED BY <1>2, <3>1, <3>2
    <2>7. Recovery!BlockedForCause'
        BY <1>2, <2>1, Zenon DEF Recovery!BlockedForCause
    <2>8. QED BY <2>3, <2>4, <2>5, <2>6, <2>7, Zenon DEF LiveOrder
<1>7. QED BY <1>3, <1>4, <1>5, <1>6, Zenon DEF RecoveryInv, Alone

LEMMA ContextReceiptStep ==
    ASSUME RecoveryHypotheses, RecoveryInv, NEW r \in receipts, Recovery!DeliverContext(r)
    PROVE  RecoveryInv'
<1>1. RecoveryTypes /\ Linked /\ Earned /\ Redeemed
    BY DEF RecoveryInv
<1>2. /\ UNCHANGED <<task, door, handoff, attempt, success, active, handler, job, events>>
      /\ receipts' \in SUBSET ReceiptRows /\ r.task \in Tasks
      /\ contexts' = Recovery!Captured(r.task) \/ contexts' = contexts
    BY <1>1, ContextReceiptIs
<1>3. contexts' \in Seq(ContextRows) /\ Earned' /\ Redeemed'
    BY <1>1, <1>2, CapturedKeeps
<1>4. RecoveryTypes' /\ Linked'
    BY <1>1, <1>2, <1>3, Zenon DEF RecoveryTypes, Linked
<1>5. ~Alone
    BY DEF RecoveryInv, LiveOrder, AttemptsFollow
<1>6. QED BY <1>3, <1>4, <1>5, Zenon DEF RecoveryInv, Alone

LEMMA FollowStep ==
    ASSUME RecoveryHypotheses, RecoveryInv, NEW g \in RecoveryTasks,
           Recovery!FollowAttempt(g) \/ Recovery!RefuseFingerprint(g)
    PROVE  RecoveryInv'
<1>1. RecoveryTypes /\ Linked /\ Earned /\ Redeemed /\ g \in RecoveryGates
    BY GatesAre DEF RecoveryInv
<1>2. /\ UNCHANGED <<task, door, attempt, contexts, success, active, handler, receipts, events>>
      /\ handoff' \in [RecoveryGates -> Recovery!Handoffs] /\ g \in job.rows
      /\ handoff'[g].frozen = handoff[g].frozen /\ handoff'[g].status # "none"
      /\ handoff'[g].status = "consumed" => attempt[g].state = "created"
      /\ handoff'[g].status = "blocked" =>
            \/ attempt[g].state = "refused"
            \/ attempt[g].state = "pending" /\ ~Recovery!SameFingerprint(g)
      /\ \A k \in RecoveryGates : k # g => handoff'[k] = handoff[k]
      /\ job' \in JobRows /\ job'.stage # "capture" /\ job'.rows \subseteq job.rows
    BY <1>1, FollowIs, Zenon
<1>3. RecoveryTypes'
    BY <1>1, <1>2, Zenon DEF RecoveryTypes
<1>4. Linked'
    BY <1>1, <1>2, Zenon DEF Linked
<1>5. Earned' /\ Redeemed'
    BY <1>1, <1>2, ContextsStay, Zenon
<1>6. ASSUME Alone PROVE LiveOrder'
    <2>1. AttemptsFollow /\ FingerprintsHold /\ CaptureIsFirst /\ ClaimsAreOwn /\ Recovery!BlockedForCause
        BY <1>6, Zenon DEF RecoveryInv, LiveOrder
    <2>2. handoff[g].status # "none"
        BY <1>2, <2>1 DEF AttemptsFollow
    <2>3. \A k \in RecoveryGates : handoff'[k].status # "none" <=> handoff[k].status # "none"
        BY <1>2, <2>2, Zenon
    <2>4. AttemptsFollow'
        <3>1. job.rows \in SUBSET RecoveryGates
            BY <1>1 DEF RecoveryTypes, JobRows
        <3>2. \A k \in job'.rows : handoff'[k].status # "none"
            BY <1>2, <2>1, <2>3, <3>1 DEF AttemptsFollow
        <3>3. QED BY <1>2, <2>1, <2>3, <3>2, GatesAre, Zenon DEF AttemptsFollow
    <2>5. FingerprintsHold'
        <3>1. \A k \in RecoveryTasks : handoff'[k].frozen = handoff[k].frozen
            BY <1>2, GatesAre, Zenon
        <3>2. QED BY <1>2, <2>1, <3>1, FingerprintsKept, ContextsStay, Zenon
    <2>6. CaptureIsFirst' /\ ClaimsAreOwn'
        BY <1>2, <2>1, Zenon DEF CaptureIsFirst, ClaimsAreOwn
    <2>7. Recovery!BlockedForCause'
        <3>1. attempt[g].state = "pending" => Recovery!SameFingerprint(g)
            BY <2>1, Zenon DEF FingerprintsHold, Recovery!SameFingerprint, Recovery!FrozenHandler
        <3>2. QED BY <1>2, <2>1, <3>1, Zenon DEF Recovery!BlockedForCause, RecoveryGates
    <2>8. QED BY <2>4, <2>5, <2>6, <2>7, Zenon DEF LiveOrder
<1>7. QED BY <1>3, <1>4, <1>5, <1>6, Zenon DEF RecoveryInv, Alone

LEMMA PublishStep ==
    ASSUME RecoveryHypotheses, RecoveryInv, NEW g \in RecoveryTasks, Recovery!Publish(g),
           g \in job.rows
    PROVE  RecoveryInv'
<1>1. RecoveryTypes /\ Linked /\ Earned /\ Redeemed /\ g \in RecoveryGates /\ g \in Tasks /\ g # Original /\ g # Null
    BY GatesAre DEF RecoveryInv
<1>2. /\ UNCHANGED <<handoff, success, active, handler, receipts, events>>
      /\ attempt[g].state \in {"none", "pending"} /\ door[g].linked = FALSE
      /\ attempt' \in [RecoveryGates -> Recovery!Attempts] /\ attempt'[g].state = "published"
      /\ \A k \in RecoveryGates : k # g => attempt'[k] = attempt[k]
      /\ task' \in [Tasks -> TaskStates] /\ task'[g] = "live"
      /\ \A k \in Tasks : k # g => task'[k] = task[k]
      /\ door' \in [RecoveryGates -> GateRows] /\ door'[g].linked = TRUE
      /\ \A k \in RecoveryGates : door'[k].by = door[k].by /\ (k # g => door'[k].linked = door[k].linked)
      /\ job' \in JobRows /\ job'.stage # "capture" /\ job'.rows \subseteq job.rows
    <2>1. UNCHANGED <<handoff, success, active, handler, receipts, events>>
          /\ attempt[g].state \in {"none", "pending"} /\ job.stage = "pass" /\ Recovery!RowDone(g)
        BY PublishActs
    <2>2. job' \in JobRows /\ job'.stage # "capture" /\ job'.rows \subseteq job.rows
        BY <1>1, <2>1, RowDoneIs DEF RecoveryTypes
    <2>3. /\ attempt' \in [RecoveryGates -> Recovery!Attempts] /\ attempt'[g].state = "published"
          /\ \A k \in RecoveryGates : k # g => attempt'[k] = attempt[k]
        BY <1>1, PublishedAttempt, Zenon
    <2>4. /\ task' \in [Tasks -> TaskStates] /\ task'[g] = "live"
          /\ \A k \in Tasks : k # g => task'[k] = task[k]
        BY <1>1, PublishedTask, Zenon
    <2>5. /\ door' \in [RecoveryGates -> GateRows] /\ door[g].linked = FALSE /\ door'[g].linked = TRUE
          /\ \A k \in RecoveryGates : door'[k].by = door[k].by
          /\ \A k \in RecoveryGates : k # g => door'[k].linked = door[k].linked
        BY <1>1, PublishedGate, Zenon
    <2>6. QED BY <2>1, <2>2, <2>3, <2>4, <2>5, Zenon
<1>3. /\ contexts' \in Seq(ContextRows) /\ DOMAIN contexts' = DOMAIN contexts
      /\ \A k \in DOMAIN contexts :
            /\ contexts'[k].task = contexts[k].task /\ contexts'[k].resolved = contexts[k].resolved
            /\ \/ contexts'[k].recovery = contexts[k].recovery
               \/ /\ contexts'[k].recovery = g /\ contexts[k].recovery \in {Null, g}
                  /\ contexts[k].task = Recovery!Upstream(g)
    BY <1>1, PublishedContext, Zenon
<1>4. task[g] = "absent"
    <2>1. ~(door[g].linked = TRUE)
        BY <1>2
    <2>2. QED BY <1>1, <2>1, Zenon DEF Linked
<1>5. RecoveryTypes'
    BY <1>1, <1>2, <1>3, Zenon DEF RecoveryTypes
<1>6. Linked'
    <2>1. ASSUME NEW k \in RecoveryTasks
          PROVE  /\ door'[k].linked = TRUE <=> task'[k] # "absent"
                 /\ attempt'[k].state \in {"published", "created"} => task'[k] # "absent"
        <3>1. CASE k = g
            BY <1>2, <3>1
        <3>2. CASE k # g
            BY <1>1, <1>2, <3>2, GatesAre, Zenon DEF Linked
        <3>3. QED BY <3>1, <3>2
    <2>2. ASSUME NEW k \in RecoveryGates, handoff'[k].status = "consumed"
          PROVE  k \in RecoveryTasks /\ attempt'[k].state = "created"
        <3>1. k \in RecoveryTasks /\ attempt[k].state = "created"
            BY <1>1, <1>2, <2>2, Zenon DEF Linked
        <3>2. k # g
            BY <1>2, <3>1
        <3>3. QED BY <1>2, <3>1, <3>2, Zenon
    <2>3. QED BY <2>1, <2>2, Zenon DEF Linked
<1>7. Earned'
    <2>1. task'[Original] = task[Original]
        BY <1>1, <1>2, GatesAre, Zenon
    <2>2. ASSUME NEW k \in DOMAIN contexts, contexts[k].recovery # Null
          PROVE  /\ contexts'[k].recovery = contexts[k].recovery
                 /\ task[contexts[k].recovery] \in {"approved", "done"} =>
                      task'[contexts[k].recovery] \in {"approved", "done"}
        <3>1. contexts'[k].recovery = contexts[k].recovery
            BY <1>3, <2>2
        <3>2. contexts[k].recovery \in Tasks
            <4>1. contexts[k] \in ContextRows /\ RecoveryTasks \subseteq Tasks
                BY <1>1, GatesAre DEF RecoveryTypes
            <4>2. contexts[k].recovery \in RecoveryTasks \cup {Null}
                BY <4>1 DEF ContextRows
            <4>3. QED BY <2>2, <4>1, <4>2
        <3>3. CASE contexts[k].recovery = g
            BY <1>4, <3>1, <3>3
        <3>4. CASE contexts[k].recovery # g
            BY <1>2, <3>1, <3>2, <3>4, Zenon
        <3>5. QED BY <3>3, <3>4
    <2>3. QED BY <1>1, <1>2, <1>3, <2>1, <2>2, EarnedKept, Zenon
<1>8. Redeemed'
    BY <1>1, <1>2, <1>3, RedeemedKept, Zenon
<1>9. ASSUME Alone PROVE LiveOrder'
    <2>1. AttemptsFollow /\ FingerprintsHold /\ CaptureIsFirst /\ ClaimsAreOwn /\ Recovery!BlockedForCause
        BY <1>9, Zenon DEF RecoveryInv, LiveOrder
    <2>2. handoff[g].status # "none"
        BY <2>1 DEF AttemptsFollow
    <2>3. AttemptsFollow'
        <3>1. \A k \in job'.rows : handoff'[k].status # "none"
            BY <1>2, <2>1 DEF AttemptsFollow
        <3>2. \A k \in RecoveryGates : handoff'[k].status # "none" => door'[k].by # 0
            BY <1>2, <2>1, Zenon DEF AttemptsFollow
        <3>3. \A k \in RecoveryTasks : attempt'[k].state # "none" => handoff'[k].status # "none"
            BY <1>2, <2>1, <2>2, GatesAre, Zenon DEF AttemptsFollow
        <3>4. QED BY <1>2, <2>1, <3>1, <3>2, <3>3, Zenon DEF AttemptsFollow
    <2>4. FingerprintsHold'
        <3>1. ASSUME NEW k \in RecoveryTasks, attempt'[k].state = "pending"
              PROVE  /\ attempt'[k] = attempt[k] /\ handoff'[k].frozen = handoff[k].frozen
                     /\ Recovery!ContextOf(Recovery!Upstream(k))' = Recovery!ContextOf(Recovery!Upstream(k))
            <4>1. k # g
                BY <1>2, <3>1
            <4>2. Recovery!ContextOf(Recovery!Upstream(k))' = Recovery!ContextOf(Recovery!Upstream(k))
                BY <1>3, ContextKept, Zenon
            <4>3. QED BY <1>2, <4>1, <4>2, GatesAre, Zenon
        <3>2. QED BY <2>1, <3>1, FingerprintsKept, Zenon
    <2>5. CaptureIsFirst'
        BY <1>2, Zenon DEF CaptureIsFirst
    <2>6. ClaimsAreOwn'
        <3>1. SUFFICES ASSUME NEW k \in DOMAIN contexts, contexts'[k].recovery # Null
                       PROVE  /\ contexts'[k].task = Recovery!Upstream(contexts'[k].recovery)
                              /\ attempt'[contexts'[k].recovery].state \in {"published", "created"}
            BY <1>3, Zenon DEF ClaimsAreOwn
        <3>2. CASE contexts'[k].recovery = g /\ contexts[k].task = Recovery!Upstream(g)
            BY <1>2, <1>3, <3>2
        <3>3. CASE contexts'[k].recovery = contexts[k].recovery
            <4>1. /\ contexts'[k].task = Recovery!Upstream(contexts'[k].recovery)
                  /\ attempt[contexts'[k].recovery].state \in {"published", "created"}
                BY <1>3, <2>1, <3>1, <3>3, Zenon DEF ClaimsAreOwn
            <4>2. contexts'[k].recovery \in RecoveryGates
                <5>1. contexts'[k] \in ContextRows /\ RecoveryTasks \subseteq RecoveryGates
                    BY <1>3, GatesAre
                <5>2. contexts'[k].recovery \in RecoveryTasks \cup {Null}
                    BY <5>1 DEF ContextRows
                <5>3. QED BY <3>1, <5>1, <5>2
            <4>3. CASE contexts'[k].recovery = g
                BY <1>2, <4>1, <4>3
            <4>4. CASE contexts'[k].recovery # g
                BY <1>2, <4>1, <4>2, <4>4, Zenon
            <4>5. QED BY <4>3, <4>4
        <3>4. QED BY <1>3, <3>2, <3>3, Zenon
    <2>7. Recovery!BlockedForCause'
        <3>1. ASSUME NEW k \in RecoveryGates, handoff'[k].status = "blocked" PROVE attempt'[k].state = "refused"
            <4>1. attempt[k].state = "refused"
                BY <1>2, <2>1, <3>1, Zenon DEF Recovery!BlockedForCause, RecoveryGates
            <4>2. k # g
                BY <1>2, <4>1
            <4>3. QED BY <1>2, <4>1, <4>2, Zenon
        <3>2. QED BY <3>1, Zenon DEF Recovery!BlockedForCause, RecoveryGates
    <2>8. QED BY <2>3, <2>4, <2>5, <2>6, <2>7, Zenon DEF LiveOrder
<1>10. QED BY <1>5, <1>6, <1>7, <1>8, <1>9, Zenon DEF RecoveryInv, Alone

LEMMA RefuseStep ==
    ASSUME RecoveryHypotheses, RecoveryInv, NEW g \in RecoveryTasks, Recovery!Refuse(g)
    PROVE  RecoveryInv'
<1>1. RecoveryTypes /\ Linked /\ Earned /\ Redeemed /\ g \in RecoveryGates
    BY GatesAre DEF RecoveryInv
<1>2. /\ UNCHANGED <<task, door, contexts, success, active, handler, receipts, events>>
      /\ attempt[g].state \in {"none", "pending"} /\ g \in job.rows
      /\ attempt' \in [RecoveryGates -> Recovery!Attempts] /\ attempt'[g].state = "refused"
      /\ \A k \in RecoveryGates : k # g => attempt'[k] = attempt[k]
      /\ handoff' \in [RecoveryGates -> Recovery!Handoffs]
      /\ handoff'[g] = handoff[g] \/ handoff'[g].status = "blocked"
      /\ \A k \in RecoveryGates : k # g => handoff'[k] = handoff[k]
      /\ job' \in JobRows /\ job'.stage # "capture"
      /\ job'.rows \subseteq job.rows \/ job'.rows = Recovery!Expected'
    BY <1>1, RefuseIs, Zenon
<1>3. RecoveryTypes'
    BY <1>1, <1>2, Zenon DEF RecoveryTypes
<1>4. Linked'
    <2>1. ASSUME NEW k \in RecoveryTasks
          PROVE  /\ door'[k].linked = TRUE <=> task'[k] # "absent"
                 /\ attempt'[k].state \in {"published", "created"} => task'[k] # "absent"
        <3>1. CASE k = g
            BY <1>1, <1>2, <3>1 DEF Linked
        <3>2. CASE k # g
            BY <1>1, <1>2, <3>2, GatesAre, Zenon DEF Linked
        <3>3. QED BY <3>1, <3>2
    <2>2. ASSUME NEW k \in RecoveryGates, handoff'[k].status = "consumed"
          PROVE  k \in RecoveryTasks /\ attempt'[k].state = "created"
        <3>1. handoff'[k] = handoff[k]
            BY <1>2, <2>2
        <3>2. k \in RecoveryTasks /\ attempt[k].state = "created"
            BY <1>1, <2>2, <3>1, Zenon DEF Linked
        <3>3. k # g
            BY <1>2, <3>2
        <3>4. QED BY <1>2, <3>2, <3>3, Zenon
    <2>3. QED BY <2>1, <2>2, Zenon DEF Linked
<1>5. Earned' /\ Redeemed'
    BY <1>1, <1>2, ContextsStay, Zenon
<1>6. ASSUME Alone PROVE LiveOrder'
    <2>1. AttemptsFollow /\ FingerprintsHold /\ CaptureIsFirst /\ ClaimsAreOwn /\ Recovery!BlockedForCause
        BY <1>6, Zenon DEF RecoveryInv, LiveOrder
    <2>2. handoff[g].status # "none" /\ handoff'[g].status # "none"
        BY <1>2, <2>1 DEF AttemptsFollow
    <2>3. AttemptsFollow'
        <3>1. job.rows \in SUBSET RecoveryGates
            BY <1>1 DEF RecoveryTypes, JobRows
        <3>2. \A k \in RecoveryGates : handoff[k].status # "none" <=> handoff'[k].status # "none"
            BY <1>2, <2>2, Zenon
        <3>3. \A k \in job'.rows : handoff'[k].status # "none"
            BY <1>2, <2>1, <3>1, <3>2 DEF AttemptsFollow, Recovery!Expected
        <3>4. \A k \in RecoveryTasks : attempt'[k].state # "none" => handoff'[k].status # "none"
            BY <1>2, <2>1, <2>2, <3>2, GatesAre, Zenon DEF AttemptsFollow
        <3>5. QED BY <1>2, <2>1, <3>2, <3>3, <3>4, Zenon DEF AttemptsFollow
    <2>4. FingerprintsHold'
        <3>1. ASSUME NEW k \in RecoveryTasks, attempt'[k].state = "pending"
              PROVE  attempt'[k] = attempt[k] /\ handoff'[k].frozen = handoff[k].frozen
            <4>1. k # g
                BY <1>2, <3>1
            <4>2. QED BY <1>2, <4>1, GatesAre, Zenon
        <3>2. QED BY <1>2, <2>1, <3>1, FingerprintsKept, ContextsStay, Zenon
    <2>5. CaptureIsFirst'
        BY <1>2, Zenon DEF CaptureIsFirst
    <2>6. ClaimsAreOwn'
        <3>1. SUFFICES ASSUME NEW k \in DOMAIN contexts, contexts[k].recovery # Null
                       PROVE  /\ contexts[k].task = Recovery!Upstream(contexts[k].recovery)
                              /\ attempt'[contexts[k].recovery].state \in {"published", "created"}
            BY <1>2, Zenon DEF ClaimsAreOwn
        <3>2. /\ contexts[k].task = Recovery!Upstream(contexts[k].recovery)
              /\ attempt[contexts[k].recovery].state \in {"published", "created"}
            BY <2>1, <3>1, Zenon DEF ClaimsAreOwn
        <3>3. contexts[k].recovery # g
            BY <1>2, <3>2
        <3>4. contexts[k].recovery \in RecoveryGates
            <4>1. contexts[k] \in ContextRows /\ RecoveryTasks \subseteq RecoveryGates
                BY <1>1, GatesAre DEF RecoveryTypes
            <4>2. contexts[k].recovery \in RecoveryTasks \cup {Null}
                BY <4>1 DEF ContextRows
            <4>3. QED BY <3>1, <4>1, <4>2
        <3>5. QED BY <1>2, <3>2, <3>3, <3>4, Zenon
    <2>7. Recovery!BlockedForCause'
        BY <1>2, <2>1, Zenon DEF Recovery!BlockedForCause, RecoveryGates
    <2>8. QED BY <2>3, <2>4, <2>5, <2>6, <2>7, Zenon DEF LiveOrder
<1>7. QED BY <1>3, <1>4, <1>5, <1>6, Zenon DEF RecoveryInv, Alone

LEMMA DeferStep ==
    ASSUME RecoveryHypotheses, RecoveryInv, NEW g \in RecoveryTasks, Recovery!Defer(g)
    PROVE  RecoveryInv'
<1>1. RecoveryTypes /\ Linked /\ Earned /\ Redeemed /\ g \in RecoveryGates
    BY GatesAre DEF RecoveryInv
<1>2. /\ UNCHANGED <<task, door, handoff, contexts, success, active, handler, receipts, events>>
      /\ attempt[g].state \in {"none", "pending"} /\ g \in job.rows
      /\ attempt' \in [RecoveryGates -> Recovery!Attempts] /\ attempt'[g].state = "pending"
      /\ \/ attempt'[g] = attempt[g]
         \/ /\ attempt'[g].frozen = handoff[g].frozen
            /\ attempt'[g].context = Recovery!ContextOf(Recovery!Upstream(g))
      /\ \A k \in RecoveryGates : k # g => attempt'[k] = attempt[k]
      /\ job' \in JobRows /\ job'.stage # "capture" /\ job'.rows \subseteq job.rows
    BY <1>1, DeferIs, Zenon
<1>3. RecoveryTypes'
    BY <1>1, <1>2, Zenon DEF RecoveryTypes
<1>4. \A k \in RecoveryGates :
         \/ attempt'[k] = attempt[k]
         \/ k = g /\ attempt[k].state \notin {"published", "created", "refused"}
                  /\ attempt'[k].state \notin {"published", "created", "refused"}
    BY <1>2
<1>5. \A k \in RecoveryGates, state \in {"published", "created", "refused"} :
         attempt'[k].state = state <=> attempt[k].state = state
    BY <1>4, Zenon
<1>6. Linked'
    BY <1>1, <1>2, <1>5, GatesAre DEF Linked
<1>7. Earned' /\ Redeemed'
    BY <1>1, <1>2, ContextsStay, Zenon
<1>8. ASSUME Alone PROVE LiveOrder'
    <2>1. AttemptsFollow /\ FingerprintsHold /\ CaptureIsFirst /\ ClaimsAreOwn /\ Recovery!BlockedForCause
        BY <1>8, Zenon DEF RecoveryInv, LiveOrder
    <2>2. handoff[g].status # "none"
        BY <1>2, <2>1 DEF AttemptsFollow
    <2>3. AttemptsFollow'
        <3>1. \A k \in job'.rows : handoff'[k].status # "none"
            BY <1>2, <2>1 DEF AttemptsFollow
        <3>2. \A k \in RecoveryTasks : attempt'[k].state # "none" => handoff'[k].status # "none"
            BY <1>2, <2>1, <2>2, GatesAre, Zenon DEF AttemptsFollow
        <3>3. QED BY <1>2, <2>1, <3>1, <3>2, Zenon DEF AttemptsFollow
    <2>4. FingerprintsHold'
        <3>1. ASSUME NEW k \in RecoveryTasks, attempt'[k].state = "pending"
              PROVE  /\ attempt'[k].frozen = handoff[k].frozen
                     /\ attempt'[k].context = Recovery!ContextOf(Recovery!Upstream(k))
            <4>1. CASE attempt'[k] = attempt[k]
                BY <2>1, <3>1, <4>1, Zenon DEF FingerprintsHold
            <4>2. CASE attempt'[k] # attempt[k]
                BY <1>2, <4>2, GatesAre, Zenon
            <4>3. QED BY <4>1, <4>2
        <3>2. \A t : Recovery!ContextOf(t)' = Recovery!ContextOf(t)
            BY <1>2, ContextsStay, Zenon
        <3>3. QED BY <1>2, <3>1, <3>2, Zenon DEF FingerprintsHold
    <2>5. CaptureIsFirst'
        BY <1>2, Zenon DEF CaptureIsFirst
    <2>6. ClaimsAreOwn'
        <3>1. SUFFICES ASSUME NEW k \in DOMAIN contexts, contexts[k].recovery # Null
                       PROVE  /\ contexts[k].task = Recovery!Upstream(contexts[k].recovery)
                              /\ attempt'[contexts[k].recovery].state \in {"published", "created"}
            BY <1>2, Zenon DEF ClaimsAreOwn
        <3>2. /\ contexts[k].task = Recovery!Upstream(contexts[k].recovery)
              /\ attempt[contexts[k].recovery].state \in {"published", "created"}
            BY <2>1, <3>1, Zenon DEF ClaimsAreOwn
        <3>3. contexts[k].recovery # g
            BY <1>2, <3>2
        <3>4. contexts[k].recovery \in RecoveryGates
            BY <1>1, <3>1, ClaimantsAre
        <3>5. QED BY <1>2, <3>2, <3>3, <3>4, Zenon
    <2>7. Recovery!BlockedForCause'
        BY <1>2, <1>5, <2>1 DEF Recovery!BlockedForCause, RecoveryGates
    <2>8. QED BY <2>3, <2>4, <2>5, <2>6, <2>7, Zenon DEF LiveOrder
<1>9. QED BY <1>3, <1>6, <1>7, <1>8, Zenon DEF RecoveryInv, Alone

LEMMA FinishStep ==
    ASSUME RecoveryHypotheses, RecoveryInv, NEW g \in RecoveryTasks, Recovery!FinishPublication(g)
    PROVE  RecoveryInv'
<1>1. RecoveryTypes /\ Linked /\ Earned /\ Redeemed /\ g \in RecoveryGates
    BY GatesAre DEF RecoveryInv
<1>2. /\ UNCHANGED <<task, door, handoff, contexts, success, active, handler, receipts, job, events>>
      /\ attempt[g].state = "published"
      /\ attempt' \in [RecoveryGates -> Recovery!Attempts] /\ attempt'[g].state = "created"
      /\ \A k \in RecoveryGates : k # g => attempt'[k] = attempt[k]
    BY <1>1, FinishIs, Zenon
<1>3. RecoveryTypes'
    BY <1>1, <1>2, Zenon DEF RecoveryTypes
<1>4. \A k \in RecoveryGates :
         /\ attempt[k].state = "created" => attempt'[k].state = "created"
         /\ attempt[k].state = "refused" => attempt'[k].state = "refused"
         /\ attempt'[k].state \in {"published", "created"} <=> attempt[k].state \in {"published", "created"}
         /\ attempt'[k].state = "none" <=> attempt[k].state = "none"
         /\ attempt'[k].state = "pending" => attempt'[k] = attempt[k]
    <2>1. ASSUME NEW k \in RecoveryGates
          PROVE  \/ attempt'[k] = attempt[k]
                 \/ attempt[k].state = "published" /\ attempt'[k].state = "created"
        BY <1>2
    <2>2. QED BY <2>1
<1>5. Linked'
    BY <1>1, <1>2, <1>4, GatesAre, Zenon DEF Linked
<1>6. Earned' /\ Redeemed'
    BY <1>1, <1>2, ContextsStay, Zenon
<1>7. ASSUME Alone PROVE LiveOrder'
    <2>1. AttemptsFollow /\ FingerprintsHold /\ CaptureIsFirst /\ ClaimsAreOwn /\ Recovery!BlockedForCause
        BY <1>7, Zenon DEF RecoveryInv, LiveOrder
    <2>2. AttemptsFollow' /\ CaptureIsFirst'
        BY <1>2, <1>4, <2>1, GatesAre, Zenon DEF AttemptsFollow, CaptureIsFirst
    <2>3. FingerprintsHold'
        BY <1>2, <1>4, <2>1, FingerprintsKept, ContextsStay, GatesAre, Zenon
    <2>4. ClaimsAreOwn'
        BY <1>1, <1>2, <1>4, <2>1, ClaimantsAre, Zenon DEF ClaimsAreOwn
    <2>5. Recovery!BlockedForCause'
        BY <1>2, <1>4, <2>1, Zenon DEF Recovery!BlockedForCause, RecoveryGates
    <2>6. QED BY <2>2, <2>3, <2>4, <2>5, <2>1, Zenon DEF LiveOrder
<1>8. QED BY <1>3, <1>5, <1>6, <1>7, Zenon DEF RecoveryInv, Alone

LEMMA SucceedStep ==
    ASSUME RecoveryHypotheses, RecoveryInv, NEW t \in Tasks, Recovery!Succeed(t)
    PROVE  RecoveryInv'
<1>1. RecoveryTypes /\ Linked /\ Earned /\ Redeemed /\ Original \in Tasks /\ t # Null
    BY GatesAre DEF RecoveryInv, RecoveryHypotheses
<1>2. /\ UNCHANGED <<door, handoff, attempt, active, handler, receipts, job, events>>
      /\ task' \in [Tasks -> TaskStates] /\ task[t] \in {"live", "approved"}
      /\ task'[t] \in {"approved", "done"} /\ (task[t] = "approved" => task'[t] = "done")
      /\ \A k \in Tasks : k # t => task'[k] = task[k]
      /\ success' \in BOOLEAN /\ (success => success')
      /\ success' => \/ success
                     \/ t = Original /\ task[t] = "approved"
                     \/ \E k \in DOMAIN contexts : contexts[k].task = Original /\ contexts[k].recovery = t
    BY <1>1, SucceedIs, Zenon
<1>3. /\ contexts' \in Seq(ContextRows) /\ DOMAIN contexts' = DOMAIN contexts
      /\ \A k \in DOMAIN contexts :
            /\ contexts'[k].task = contexts[k].task /\ contexts'[k].recovery = contexts[k].recovery
            /\ \/ contexts'[k].resolved = contexts[k].resolved
               \/ /\ contexts[k].recovery = t
                  /\ contexts[k].task = Original => success' \/ ~active
    BY <1>1, SucceedIs, Zenon
<1>4. RecoveryTypes'
    BY <1>1, <1>2, <1>3, Zenon DEF RecoveryTypes
<1>5. \A k \in Tasks : task'[k] # "absent" <=> task[k] # "absent"
    BY <1>2
<1>6. Linked'
    BY <1>1, <1>2, <1>5, GatesAre, Zenon DEF Linked
<1>7. Earned'
    <2>1. CASE success
        <3>1. task[Original] = "done" => task'[Original] = "done"
            BY <1>1, <1>2
        <3>2. ASSUME NEW k \in DOMAIN contexts, contexts[k].recovery # Null,
                     task[contexts[k].recovery] \in {"approved", "done"}
              PROVE  task'[contexts[k].recovery] \in {"approved", "done"}
            <4>1. contexts[k].recovery \in Tasks
                BY <1>1, <3>2, ClaimantsAre, GatesAre
            <4>2. QED BY <1>2, <3>2, <4>1, Zenon
        <3>3. QED BY <1>1, <1>3, <2>1, <3>1, <3>2, EarnedKept, Zenon
    <2>2. CASE t = Original /\ task[t] = "approved"
        BY <1>2, <2>2, Zenon DEF Earned, Recovery!SuccessIsEarned
    <2>3. CASE \E k \in DOMAIN contexts : contexts[k].task = Original /\ contexts[k].recovery = t
        BY <1>1, <1>2, <1>3, <2>3, Zenon DEF Earned, Recovery!SuccessIsEarned
    <2>4. CASE ~success'
        BY <2>4, Zenon DEF Earned, Recovery!SuccessIsEarned
    <2>5. QED BY <1>2, <2>1, <2>2, <2>3, <2>4, Zenon
<1>8. Redeemed'
    <2>1. ASSUME NEW k \in DOMAIN contexts', contexts'[k].resolved
          PROVE  \/ /\ k \in DOMAIN contexts /\ contexts[k].resolved
                    /\ contexts'[k].task = contexts[k].task
                 \/ contexts'[k].task = Original => success' \/ ~active'
        BY <1>2, <1>3, <2>1, Zenon
    <2>2. QED BY <1>1, <1>2, <2>1, RedeemedKept, Zenon
<1>9. ASSUME Alone PROVE LiveOrder'
    <2>1. AttemptsFollow /\ FingerprintsHold /\ CaptureIsFirst /\ ClaimsAreOwn /\ Recovery!BlockedForCause
        BY <1>9, Zenon DEF RecoveryInv, LiveOrder
    <2>2. AttemptsFollow' /\ CaptureIsFirst' /\ Recovery!BlockedForCause'
        BY <1>2, <2>1, Zenon DEF AttemptsFollow, CaptureIsFirst, Recovery!BlockedForCause
    <2>3. ASSUME NEW g \in RecoveryTasks, attempt'[g].state = "pending"
          PROVE  Recovery!ContextOf(Recovery!Upstream(g))' = Recovery!ContextOf(Recovery!Upstream(g))
        <3>1. ASSUME NEW k \in DOMAIN contexts, contexts[k].task = Recovery!Upstream(g)
              PROVE  contexts[k].recovery # t
            <4>1. SUFFICES ASSUME contexts[k].recovery = t PROVE FALSE
                OBVIOUS
            <4>2. Recovery!Upstream(g) = Recovery!Upstream(t) /\ attempt[t].state \in {"published", "created"}
                BY <1>1, <2>1, <3>1, <4>1, Zenon DEF ClaimsAreOwn
            <4>3. t \in RecoveryGates /\ g \in RecoveryGates
                BY <1>1, <4>1, ClaimantsAre, GatesAre
            <4>4. g = t
                BY <1>9, <4>2, <4>3, UpstreamsDiffer DEF Alone
            <4>5. QED BY <1>2, <2>3, <4>2, <4>4
        <3>2. QED BY <1>3, <3>1, ContextKept, Zenon
    <2>4. FingerprintsHold'
        BY <1>2, <2>1, <2>3, FingerprintsKept, Zenon
    <2>5. ClaimsAreOwn'
        BY <1>2, <1>3, <2>1, Zenon DEF ClaimsAreOwn
    <2>6. QED BY <2>2, <2>4, <2>5, Zenon DEF LiveOrder
<1>10. QED BY <1>4, <1>6, <1>7, <1>8, <1>9, Zenon DEF RecoveryInv, Alone

LEMMA SettingsStep ==
    ASSUME RecoveryInv, Recovery!EditHandler \/ Recovery!Detach
    PROVE  RecoveryInv'
<1>1. RecoveryTypes /\ Linked /\ Earned /\ Redeemed
    BY DEF RecoveryInv
<1>2. /\ UNCHANGED <<task, door, handoff, attempt, contexts, success, receipts, job, events>>
      /\ handler' \in Handlers \cup {Null} /\ active' \in BOOLEAN /\ (active' => active)
    BY <1>1, SettingsAre, Zenon
<1>3. RecoveryTypes' /\ Linked'
    BY <1>1, <1>2, Zenon DEF RecoveryTypes, Linked
<1>4. Earned' /\ Redeemed'
    BY <1>1, <1>2, ContextsStay, Zenon
<1>5. ASSUME Alone PROVE LiveOrder'
    <2>1. AttemptsFollow /\ FingerprintsHold /\ CaptureIsFirst /\ ClaimsAreOwn /\ Recovery!BlockedForCause
        BY <1>5, Zenon DEF RecoveryInv, LiveOrder
    <2>2. AttemptsFollow' /\ CaptureIsFirst' /\ ClaimsAreOwn' /\ Recovery!BlockedForCause'
        BY <1>2, <2>1, Zenon
        DEF AttemptsFollow, CaptureIsFirst, ClaimsAreOwn, Recovery!BlockedForCause
    <2>3. FingerprintsHold'
        BY <1>2, <2>1, FingerprintsKept, ContextsStay, Zenon
    <2>4. QED BY <2>2, <2>3, Zenon DEF LiveOrder
<1>6. QED BY <1>3, <1>4, <1>5, Zenon DEF RecoveryInv, Alone

LEMMA RecoveryStarts ==
    ASSUME RecoveryHypotheses, Recovery!Init
    PROVE  RecoveryInv
<1>1. /\ task = [t \in Tasks |-> IF t = Original THEN "live" ELSE "absent"]
      /\ door = [g \in RecoveryGates |-> [born |-> Recovery!Depth(g) = 0, by |-> 0, linked |-> FALSE]]
      /\ handoff = [g \in RecoveryGates |-> [status |-> "none", frozen |-> Null]]
      /\ attempt = [g \in RecoveryGates |-> [state |-> "none", frozen |-> Null, context |-> 0]]
      /\ contexts = <<>> /\ success = FALSE /\ active = TRUE /\ handler \in Handlers \cup {Null}
      /\ receipts = {} /\ job = Recovery!Idle /\ events = 0
    BY Zenon DEF Recovery!Init, Tasks, RecoveryGates
<1>2. job \in JobRows /\ job.stage = "idle" /\ job.rows = {}
    BY <1>1, IdleIs
<1>3. \A g \in RecoveryGates : /\ door[g].linked = FALSE /\ handoff[g].status = "none"
                       /\ attempt[g].state = "none"
    BY <1>1
<1>4. \A g \in RecoveryTasks : g \in RecoveryGates /\ task[g] = "absent"
    BY <1>1, GatesAre
<1>5. RecoveryTypes
    <2>1. task \in [Tasks -> TaskStates] /\ contexts \in Seq(ContextRows)
        BY <1>1 DEF TaskStates
    <2>2. door \in [RecoveryGates -> GateRows]
        <3>1. 0 \in 0 .. MaxEvents
            BY DEF RecoveryHypotheses
        <3>2. \A g \in RecoveryGates : (Recovery!Depth(g) = 0) \in BOOLEAN
            OBVIOUS
        <3>3. QED BY <1>1, <3>1, <3>2 DEF GateRows
    <2>3. handoff \in [RecoveryGates -> Recovery!Handoffs] /\ attempt \in [RecoveryGates -> Recovery!Attempts]
        BY <1>1 DEF Recovery!Handoffs, Recovery!Attempts
    <2>4. events \in 0 .. MaxEvents
        BY <1>1 DEF RecoveryHypotheses
    <2>5. job.stage # "capture" /\ receipts \in SUBSET ReceiptRows
        BY <1>1, <1>2
    <2>6. success \in BOOLEAN /\ active \in BOOLEAN /\ handler \in Handlers \cup {Null}
        BY <1>1
    <2>7. QED BY <1>2, <2>1, <2>2, <2>3, <2>4, <2>5, <2>6, Zenon DEF RecoveryTypes
<1>6. Linked
    BY <1>3, <1>4 DEF Linked
<1>7. Earned /\ Redeemed
    BY <1>1 DEF Earned, Redeemed, Recovery!SuccessIsEarned, Recovery!RedeemedIsUnblocked
<1>8. LiveOrder
    <2>1. AttemptsFollow
        BY <1>1, <1>2, <1>3, <1>4 DEF AttemptsFollow
    <2>2. FingerprintsHold /\ CaptureIsFirst /\ Recovery!BlockedForCause
        BY <1>2, <1>3, <1>4
        DEF FingerprintsHold, CaptureIsFirst, Recovery!BlockedForCause, RecoveryGates
    <2>3. ClaimsAreOwn
        BY <1>1 DEF ClaimsAreOwn
    <2>4. QED BY <2>1, <2>2, <2>3 DEF LiveOrder
<1>9. QED BY <1>5, <1>6, <1>7, <1>8 DEF RecoveryInv

LEMMA RecoverySteps ==
    ASSUME RecoveryHypotheses, RecoveryInv, [Recovery!Next]_(Recovery!vars)
    PROVE  RecoveryInv'
<1>1. CASE UNCHANGED Recovery!vars
    <2>1. UNCHANGED <<task, door, handoff, attempt, contexts, success, active, handler,
                      receipts, job, events>>
        BY <1>1 DEF Recovery!vars
    <2>2. RecoveryTypes' /\ Linked' /\ Earned' /\ Redeemed'
        BY <2>1, ContextsStay, Zenon DEF RecoveryInv, RecoveryTypes, Linked
    <2>3. ASSUME Alone PROVE LiveOrder'
        <3>1. LiveOrder
            BY <2>3, Zenon DEF RecoveryInv
        <3>2. AttemptsFollow' /\ CaptureIsFirst' /\ ClaimsAreOwn' /\ Recovery!BlockedForCause'
            BY <2>1, <3>1, Zenon
            DEF LiveOrder, AttemptsFollow, CaptureIsFirst, ClaimsAreOwn, Recovery!BlockedForCause
        <3>3. FingerprintsHold'
            BY <2>1, <3>1, FingerprintsKept, ContextsStay, Zenon DEF LiveOrder
        <3>4. QED BY <3>2, <3>3, Zenon DEF LiveOrder
    <2>4. QED BY <2>2, <2>3, Zenon DEF RecoveryInv, Alone
<1>2. ASSUME NEW t \in Tasks,
             Recovery!Reject(t) \/ Recovery!Fail(t) \/ Recovery!Retry(t) \/ Recovery!Succeed(t)
      PROVE  RecoveryInv'
    BY <1>2, RejectStep, TryStep, SucceedStep, Zenon
<1>3. ASSUME NEW r \in receipts, Recovery!DeliverGates(r) \/ Recovery!DeliverContext(r)
      PROVE  RecoveryInv'
    BY <1>3, DeliverStep, ContextReceiptStep, Zenon
<1>4. CASE Recovery!CaptureContext
    BY <1>4, CaptureStep
<1>5. CASE Recovery!AwaitedPass \/ Recovery!EmptyPass \/ Recovery!CrashAndBoot \/ Recovery!PassOnDemand
    <2>1. RecoveryTypes
        BY DEF RecoveryInv
    <2>2. JobOnly
        BY <1>5, <2>1, JobSteps
    <2>3. QED BY <2>2, JobStep
<1>6. ASSUME NEW g \in RecoveryTasks, Recovery!PassRow(g) \/ Recovery!FinishPublication(g)
      PROVE  RecoveryInv'
    <2>1. CASE Recovery!Publish(g)
        <3>1. g \in job.rows
            BY <2>1, Zenon DEF Recovery!Publish, Recovery!Publishable, Recovery!AtRow
        <3>2. QED BY <2>1, <3>1, PublishStep
    <2>2. QED BY <1>6, <2>1, FollowStep, RefuseStep, DeferStep, FinishStep, Zenon DEF Recovery!PassRow
<1>7. CASE Recovery!EditHandler \/ Recovery!Detach
    BY <1>7, SettingsStep
<1>8. QED BY <1>1, <1>2, <1>3, <1>4, <1>5, <1>6, <1>7, Zenon DEF Recovery!Next, Tasks, RecoveryTasks

LEMMA RecoveryFollows ==
    ASSUME RecoveryHypotheses, RecoveryInv
    PROVE  Recovery!RecoveryAgrees
<1>1. Recovery!TypeOK
    BY DEF RecoveryInv, RecoveryTypes, Recovery!TypeOK, Tasks, RecoveryGates, RecoveryTasks, TaskStates,
           GateRows, ContextRows, ReceiptRows, JobRows
<1>2. Recovery!SuccessIsEarned /\ Recovery!RedeemedIsUnblocked
    BY Zenon DEF RecoveryInv, Earned, Redeemed
<1>3. ASSUME NEW g \in RecoveryGates, handoff[g].status = "consumed"
      PROVE  door[g].linked /\ task[g] # "absent"
    BY <1>3, Zenon DEF RecoveryInv, Linked
<1>4. Recovery!ConsumedIsRecovered
    BY <1>3, Zenon DEF Recovery!ConsumedIsRecovered, RecoveryGates
<1>5. "receipt" \notin Paths /\ Recovery!OneGate => Recovery!BlockedForCause
    BY Zenon DEF RecoveryInv, Alone, LiveOrder
<1>6. QED BY <1>1, <1>2, <1>4, <1>5, Zenon DEF Recovery!RecoveryAgrees

(* Whatever fails, crashes and is delivered late, a success downstream of   *)
(* the original is earned, a consumed handoff has its linked recovery task, *)
(* a redeemed context has unblocked what waited for it, and where nothing   *)
(* can capture a newer context a recovery is given up only when refused.    *)
THEOREM RecoveryTheorem ==
    ASSUME RecoveryHypotheses
    PROVE  Recovery!Spec => []Recovery!RecoveryAgrees
<1>1. Recovery!Init => RecoveryInv
    BY RecoveryStarts
<1>2. RecoveryInv /\ [Recovery!Next]_(Recovery!vars) => RecoveryInv'
    BY RecoverySteps
<1>3. RecoveryInv => Recovery!RecoveryAgrees
    BY RecoveryFollows
<1>4. QED BY <1>1, <1>2, <1>3, PTL DEF Recovery!Spec
=============================================================================
