----------------------------- MODULE MC_Learning -----------------------------
(* The promotion of Findings, the runs that extract them and the activation   *)
(* of their corrective Missions share no state, so that nothing is gained by  *)
(* interleaving them: a behaviour of this module is one of an instance of one *)
(* of the three, the part it takes, while the variables of the others rest.   *)
EXTENDS FindingPromotion, TLC

CONSTANTS ann, bob, w1, w2, i1, i2, c1, c2, c3, claim, f1, f2, f3, m1, m2, r1, patch

VARIABLES
  part,
  item, attempt, found, work, told, lapses, crashes,
  findings, mission, epoch, proj, detection, failures, changes

extraction == <<item, attempt, found, work, told, lapses, crashes>>
release == <<findings, mission, epoch, proj, detection, failures, changes>>
everything == <<part, vars, extraction, release>>

Two == {ann, bob}
Processes == {w1, w2}
OneInstant == {1}

(* Two people, or one person twice, promote the Finding in one millisecond;   *)
(* one person promotes it from two processes, in one millisecond or in two;   *)
(* and one promotes it again and again, call after call.                     *)
Hurried == INSTANCE FindingPromotion WITH
  Reviewers <- {ann}, Workers <- {w1, w2}, Instants <- {1, 2},
  MaxDecisions <- 1, MaxCalls <- 3, MaxFaults <- 1, MaxEdits <- 1
Again == INSTANCE FindingPromotion WITH
  Reviewers <- {ann}, Workers <- {w1}, Instants <- {1, 2},
  MaxDecisions <- 1, MaxCalls <- 5, MaxFaults <- 4, MaxEdits <- 2

(* Windows that yield one claim: two processes at once, and one process that  *)
(* dies.                                                                      *)
Windows == i1 :> <<c1>> @@ i2 :> <<c2>>
Overlapping == i1 :> <<c1, c2>> @@ i2 :> <<c3>>
OneClaim == c1 :> claim @@ c2 :> claim @@ c3 :> claim
Runs == INSTANCE ExtractionRuns WITH
  Items <- {i1, i2}, Candidates <- {c1, c2, c3}, Workers <- {w1, w2},
  Yields <- Windows, Family <- OneClaim, MaxLapses <- 1, MaxCrashes <- 0
Restarts == INSTANCE ExtractionRuns WITH
  Items <- {i1, i2}, Candidates <- {c1, c2, c3}, Workers <- {w1},
  Yields <- Overlapping, Family <- OneClaim, MaxLapses <- 1, MaxCrashes <- 1

(* Two detections of one Release over Missions of two Findings and of one;    *)
(* and one process that fails, with a Mission that people change.             *)
Paired == f1 :> m1 @@ f2 :> m1 @@ f3 :> m2
Detections == INSTANCE ReleaseActivation WITH
  finding <- findings, work <- detection, faults <- failures, edits <- changes,
  Findings <- {f1, f2, f3}, Releases <- {r1}, Gates <- {patch}, Workers <- {w1, w2},
  Order <- <<m1, m2>>, Link <- Paired, Met <- r1 :> {patch}, Deadlined <- r1 :> {m1},
  Caps <- {1, 2}, MaxFaults <- 0, MaxEdits <- 0
Redeliveries == INSTANCE ReleaseActivation WITH
  finding <- findings, work <- detection, faults <- failures, edits <- changes,
  Findings <- {f1, f2}, Releases <- {r1}, Gates <- {patch}, Workers <- {w1},
  Order <- <<m1, m2>>, Link <- f1 :> m1 @@ f2 :> "none", Met <- r1 :> {patch},
  Deadlined <- r1 :> {m1}, Caps <- {1}, MaxFaults <- 1, MaxEdits <- 1

Start ==
  /\ part \in {"promotion", "hurried", "retried", "runs", "restarts", "detections", "redeliveries"}
  /\ CASE part = "hurried" -> Hurried!Init [] part = "retried" -> Again!Init [] OTHER -> Init
  /\ IF part = "restarts" THEN Restarts!Init ELSE Runs!Init
  /\ IF part = "redeliveries" THEN Redeliveries!Init ELSE Detections!Init

Step ==
  \/ part = "promotion" /\ Next /\ UNCHANGED <<part, extraction, release>>
  \/ part = "hurried" /\ Hurried!Next /\ UNCHANGED <<part, extraction, release>>
  \/ part = "retried" /\ Again!Next /\ UNCHANGED <<part, extraction, release>>
  \/ part = "runs" /\ Runs!Next /\ UNCHANGED <<part, vars, release>>
  \/ part = "restarts" /\ Restarts!Next /\ UNCHANGED <<part, vars, release>>
  \/ part = "detections" /\ Detections!Next /\ UNCHANGED <<part, vars, extraction>>
  \/ part = "redeliveries" /\ Redeliveries!Next /\ UNCHANGED <<part, vars, extraction>>

(* The fairness of ExtractionRuns and ReleaseActivation, of the parts whose   *)
(* liveness is checked.                                                       *)
Behaviour ==
  /\ Start /\ [][Step]_everything
  /\ WF_extraction(part = "restarts" /\ Restarts!Step(w1))
  /\ WF_extraction(part = "restarts" /\ Restarts!Boot(w1))
  /\ \A i \in {i1, i2} : WF_extraction(part = "restarts" /\ Restarts!Lapse(i))
  /\ WF_release(part = "redeliveries" /\ Redeliveries!Step(w1))
  /\ SF_release(part = "redeliveries" /\ Redeliveries!Detect(w1, r1))
-----------------------------------------------------------------------------
(* The Findings of a claim form one line of revisions, the verdicts of items  *)
(* and attempts agree and no completion is announced twice.                   *)
RunsAgree == Runs!RunsAgree

(* Only a running attempt adds to the Findings, a verdict stays, the page a   *)
(* promotion recorded is replaced by nobody but who shares the lease, and     *)
(* calls one after another find the page of the last one.                    *)
DecisionsStand ==
  TargetStays /\ Runs!RunsAreFenced /\ [](part = "retried" => Again!OneOwnPage)

(* A Release keeps its cap, takes whole groups, and its epoch, its Findings   *)
(* and its projections tell the same.                                         *)
ReleaseAgrees ==
  IF part = "redeliveries" THEN Redeliveries!ReleaseAgrees ELSE Detections!ReleaseAgrees

(* An item that was attempted is completed in the end, and a Release that is  *)
(* delivered again and again reconciles.                                      *)
LearningConcludes ==
  /\ part = "restarts" => Restarts!AttemptedItemsComplete
  /\ part = "redeliveries" => Redeliveries!ReleaseReconciles
=============================================================================
