----------------------------- MODULE MC_Effects -----------------------------
(* What follows a failure: the outbox of its receipts, and the recovery of    *)
(* its workflow.  The second is driven by the first in WorkflowRecovery       *)
(* itself, by the receipts it knows, so that nothing is gained by             *)
(* interleaving the two modules: a behaviour of this module is one of an      *)
(* instance of one of them, the part it takes, while the variables of the     *)
(* other rest.                                                                *)
EXTENDS Naturals, FiniteSets, TLC

CONSTANTS d1, d2, e1, Null, u, r1, r2

VARIABLES
  part,
  row, minted, flight, run, owns, stamp, captured, armed, signals, requeues,
  task, gate, handoff, attempt, contexts, success, active, handler, receipts, job, events

outbox == <<row, minted, flight, run, owns, stamp, captured, armed, signals, requeues>>
recovery == <<task, gate, handoff, attempt, contexts, success, active, handler, receipts, job,
              events>>
everything == <<part, outbox, recovery>>

NoDetector == {}
OneDetector == {d1}
TwoDetectors == {d1, d2}
Siblings == {"workflow_gates", "failure_context", "retry_ladder", "detector_dispatch"}
LateSiblings == {"failure_context", "retry_ladder"}
DetectorOnly == {"detector_dispatch"}
DetectorAndIntents == {"detector_dispatch", "pulse_workflow_gates", "pulse_skill_ingest"}
AnyDetector == {"detector_dispatch", "detector"}
FailedOrReleased == {"failed", "released"}
FailedOnly == {"failed"}

(* The ordered siblings in one process, requeued or tried twice; a detector   *)
(* that is driven again in several processes; two detectors under one         *)
(* aggregate; and a detector with its intents until all is settled.  Where    *)
(* nothing reads the gates they are stamped already.                          *)
Barrier == INSTANCE EffectReceipts WITH
  gate <- stamp, Event <- e1, Detectors <- NoDetector, Consumers <- Siblings,
  EventKinds <- FailedOrReleased, Requeueable <- LateSiblings, SingleProcess <- TRUE, Cap <- 1,
  MaxRequeues <- 1
Retried == INSTANCE EffectReceipts WITH
  gate <- stamp, Event <- e1, Detectors <- NoDetector, Consumers <- Siblings,
  EventKinds <- FailedOrReleased, Requeueable <- NoDetector, SingleProcess <- TRUE, Cap <- 2,
  MaxRequeues <- 0
Redrive == INSTANCE EffectReceipts WITH
  gate <- stamp, Event <- e1, Detectors <- OneDetector, Consumers <- DetectorOnly,
  EventKinds <- FailedOnly, Requeueable <- AnyDetector, SingleProcess <- FALSE, Cap <- 2,
  MaxRequeues <- 1
Pair == INSTANCE EffectReceipts WITH
  gate <- stamp, Event <- e1, Detectors <- TwoDetectors, Consumers <- DetectorOnly,
  EventKinds <- FailedOnly, Requeueable <- DetectorOnly, SingleProcess <- TRUE, Cap <- 1,
  MaxRequeues <- 1
Settling == INSTANCE EffectReceipts WITH
  gate <- stamp, Event <- e1, Detectors <- OneDetector, Consumers <- DetectorAndIntents,
  EventKinds <- FailedOnly, Requeueable <- AnyDetector, SingleProcess <- FALSE, Cap <- 2,
  MaxRequeues <- 0

(* Rejections on the live path, two recoveries deep; failures through their   *)
(* receipts; and either, over two gates of one task.                          *)
OneRoot == {r1}
TwoRoots == {r1, r2}
LivePath == {"live"}
ReceiptPath == {"receipt"}
AnyPath == {"live", "receipt"}
OneHandler == {1}
TwoHandlers == {1, 2}
Live == INSTANCE WorkflowRecovery WITH
  Original <- u, Roots <- OneRoot, Paths <- LivePath, Handlers <- TwoHandlers, Faults <- TRUE,
  MAX_RECOVERY_DEPTH <- 2, MaxEvents <- 2
Outboxed == INSTANCE WorkflowRecovery WITH
  Original <- u, Roots <- OneRoot, Paths <- ReceiptPath, Handlers <- OneHandler, Faults <- TRUE,
  MAX_RECOVERY_DEPTH <- 1, MaxEvents <- 2
TwoGates == INSTANCE WorkflowRecovery WITH
  Original <- u, Roots <- TwoRoots, Paths <- AnyPath, Handlers <- OneHandler, Faults <- TRUE,
  MAX_RECOVERY_DEPTH <- 1, MaxEvents <- 1

Begin ==
  /\ part \in {"barrier", "retried", "redrive", "pair", "settling", "live", "outboxed", "gates"}
  /\ CASE part = "barrier" -> Barrier!Init
       [] part = "retried" -> Retried!Init
       [] part = "redrive" -> Redrive!Init
       [] part = "settling" -> Settling!Init
       [] part = "pair" -> Pair!Init
       [] OTHER -> Pair!Init
  /\ part \notin {"barrier", "retried"} => stamp = "other"
  /\ CASE part = "live" -> Live!Init
       [] part = "gates" -> TwoGates!Init
       [] part = "outboxed" -> Outboxed!Init
       [] OTHER -> Outboxed!Init /\ handler = Null

Step ==
  \/ part = "barrier" /\ Barrier!Next /\ UNCHANGED <<part, recovery>>
  \/ part = "retried" /\ Retried!Next /\ UNCHANGED <<part, recovery>>
  \/ part = "redrive" /\ Redrive!Next /\ UNCHANGED <<part, recovery>>
  \/ part = "pair" /\ Pair!Next /\ UNCHANGED <<part, recovery>>
  \/ part = "settling" /\ Settling!Next /\ UNCHANGED <<part, recovery>>
  \/ part = "live" /\ Live!Next /\ UNCHANGED <<part, outbox>>
  \/ part = "outboxed" /\ Outboxed!Next /\ UNCHANGED <<part, outbox>>
  \/ part = "gates" /\ TwoGates!Next /\ UNCHANGED <<part, outbox>>

(* The deliverer is a timer of the server, and time passes: as long as a unit *)
(* can be reserved or swept or a lease run out, one of them happens.  Of      *)
(* consumers, handlers and operators nothing is assumed.                      *)
Behaviour ==
  /\ Begin /\ [][Step]_everything
  /\ WF_outbox(/\ part = "settling"
               /\ \E unit \in DOMAIN row : Settling!Pass(unit) \/ Settling!TimePasses(unit))
-----------------------------------------------------------------------------
(* The receipts, their targets and runs, and what consumers left, agree.      *)
ReceiptsAgree ==
  CASE part = "barrier" -> Barrier!ReceiptsAgree
    [] part = "retried" -> Retried!ReceiptsAgree
    [] part = "redrive" -> Redrive!ReceiptsAgree
    [] part = "settling" -> Settling!ReceiptsAgree
    [] OTHER -> Pair!ReceiptsAgree

(* Every unit is delivered or parked in the end.                              *)
EveryUnitSettles == part = "settling" => Settling!EveryUnitSettles

(* The outbox of two detectors keeps what the ledger promises.  The ledger of *)
(* the other parts is empty and stays so.                                     *)
Ledger == INSTANCE OutboxLedger WITH
  Items <- Pair!Units, Members <- Pair!Targets, Family <- Pair!Parent,
  outcome <- [i \in Pair!Units |-> IF part = "pair" THEN Pair!Outcome(i) ELSE "unborn"],
  output <- [t \in Pair!Targets |-> IF part = "pair" THEN signals[t[2]] ELSE 0]
ImplementsLedger == Ledger!Spec

(* Gates, handoffs, attempts and failure contexts agree.                      *)
RecoveryAgrees ==
  CASE part = "live" -> Live!RecoveryAgrees
    [] part = "gates" -> TwoGates!RecoveryAgrees
    [] OTHER -> Outboxed!RecoveryAgrees
=============================================================================
