--------------------------- MODULE EffectReceipts ---------------------------
(***************************************************************************)
(* The outbox behind one failure or release event: a receipt per required  *)
(* consumer, a target per frozen detector, and the pulse intents that a    *)
(* detector's output adds.  Deliverers reserve a unit under a lease and a  *)
(* fence, do its work and acknowledge it in separate transactions; each    *)
(* transaction is one action, and other deliverers, an operator, the task  *)
(* and crashes come between.                                               *)
(*                                                                         *)
(* Time is abstracted to whether a lease has run out.  Error codes, the    *)
(* attempt history and the audit of requeues are left out.                 *)
(***************************************************************************)
EXTENDS Naturals, FiniteSets

CONSTANTS
    Detectors,      \* frozen detector targets of the event
    Event,          \* the event: subject of its receipts
    Null,
    Consumers,      \* the consumers an instance follows
    EventKinds,     \* a subset of {"failed", "released"}
    Requeueable,    \* consumers an operator may requeue
    SingleProcess,  \* one server process: up to its first await a unit is undisturbed
    Cap,            \* EFFECT_RECEIPT_MAX_ATTEMPTS
    MaxRequeues     \* bound: operator requeues

FailureConsumers ==
    {"workflow_gates", "failure_context", "retry_ladder", "skill_ingestion", "detector_dispatch"}
ReleaseConsumers == {"workflow_gates", "failure_context"}
IntentConsumers == {"pulse_workflow_gates", "pulse_skill_ingest"}
TargetConsumer == "detector"

VARIABLES
    row,        \* effect_receipts and effect_receipt_targets
    minted,     \* fences minted per unit: a fence is the index of its minting
    flight,     \* units being worked on, by any deliverer
    run,        \* plugin_runs: the one run row of each (event, detector)
    owns,       \* does the task's pointer still name this event?
    gate,       \* the frozen on_fail gates: "open", stamped by "us" or by "other"
    captured,   \* is there a failure context of this event?
    armed,      \* retry bundles committed (task write and follow-up event)
    signals,    \* signal batches committed per detector
    requeues    \* operator requeues so far

vars == <<row, minted, flight, run, owns, gate, captured, armed, signals, requeues>>
taskVars == <<owns, gate, captured, armed>>
detectorVars == <<run, signals>>

-----------------------------------------------------------------------------
Receipts == (Consumers \ IntentConsumers) \X {Event}
Targets == {TargetConsumer} \X Detectors
Intents == (Consumers \cap IntentConsumers) \X Detectors
Units == Receipts \cup Targets \cup Intents

Gates == <<"workflow_gates", Event>>
Context == <<"failure_context", Event>>
Ladder == <<"retry_ladder", Event>>
Parent == <<"detector_dispatch", Event>>
TargetOf(d) == <<TargetConsumer, d>>

States == {"unborn", "pending", "delivered", "dead_letter"}
Rows == [state : States, attempts : Nat, lease : Nat \cup {Null}, live : BOOLEAN]

Phases == {"start", "handler", "ack", "fail"}
Jobs == [unit : Units, fence : Nat, phase : Phases]

RunStates == {"none", "running", "succeeded", "failed", "rate_limited", "skipped", "lost"}
Runs == [status : RunStates, token : Nat \cup {Null}, marker : BOOLEAN]

TypeOK ==
    /\ row \in [Units -> Rows]
    /\ minted \in [Units -> Nat]
    /\ flight \in SUBSET Jobs
    /\ run \in [Detectors -> Runs]
    /\ owns \in BOOLEAN
    /\ gate \in {"open", "us", "other"}
    /\ captured \in BOOLEAN
    /\ armed \in Nat
    /\ signals \in [Detectors -> Nat]
    /\ requeues \in Nat

-----------------------------------------------------------------------------
(* The act transaction inserts the receipts with the event.  Without a     *)
(* frozen target the detector receipt is born delivered.                   *)

Fresh(state) == [state |-> state, attempts |-> 0, lease |-> Null, live |-> FALSE]

Required(kind) == IF kind = "failed" THEN FailureConsumers ELSE ReleaseConsumers

BornRow(kind, u) ==
    IF u = Parent /\ kind = "failed" /\ Detectors = {} THEN Fresh("delivered")
    ELSE IF \/ u \in Receipts /\ u[1] \in Required(kind)
            \/ u \in Targets /\ kind = "failed"
         THEN Fresh("pending") ELSE Fresh("unborn")

Init ==
    /\ \E kind \in EventKinds : row = [u \in Units |-> BornRow(kind, u)]
    /\ minted = [u \in Units |-> 0]
    /\ flight = {}
    /\ run = [d \in Detectors |-> [status |-> "none", token |-> Null, marker |-> FALSE]]
    /\ owns = TRUE
    /\ gate \in {"open", "other"}
    /\ captured = FALSE
    /\ armed = 0
    /\ signals = [d \in Detectors |-> 0]
    /\ requeues = 0

-----------------------------------------------------------------------------
(* The rows                                                                *)

Terminal(u) == row[u].state \in {"delivered", "dead_letter"}
SiblingTerminal(u) == u \in Units /\ Terminal(u)

(* receiptEligible: the barrier is read before anything is reserved.       *)
Eligible(u) ==
    /\ u # Parent
    /\ u \in {Context, Ladder} => SiblingTerminal(Gates)
    /\ u = Ladder => SiblingTerminal(Context)

(* Mutant: a lease that is never taken over.                               *)
NeverLeased(u) == row[u].lease = Null
(* Free for the next reservation: never leased, or leased and run out.     *)
LeaseFree(u) == row[u].lease = Null \/ ~row[u].live

(* The fence of every guarded write: still pending, under this lease.      *)
Holds(j) == row[j.unit].state = "pending" /\ row[j.unit].lease = j.fence

ChildStates(rows) == {rows[t].state : t \in Targets}

(* deriveParentState: fenced on the parent's own pending state.            *)
Derived(rows) ==
    IF Targets = {} \/ rows[Parent].state # "pending" THEN rows
    ELSE IF "dead_letter" \in ChildStates(rows) THEN [rows EXCEPT ![Parent].state = "dead_letter"]
    ELSE IF ChildStates(rows) = {"delivered"} THEN [rows EXCEPT ![Parent].state = "delivered"]
    ELSE rows

Settled(rows, u) == IF u \in Targets THEN Derived(rows) ELSE rows

Acked(rows, u) ==
    Settled([rows EXCEPT ![u].state = "delivered", ![u].lease = Null, ![u].live = FALSE], u)

WithinCap(u) == row[u].attempts < Cap

Failed(rows, u) ==
    IF WithinCap(u)
    THEN [rows EXCEPT ![u].lease = Null, ![u].live = FALSE]
    ELSE Settled([rows EXCEPT ![u].state = "dead_letter", ![u].lease = Null,
                              ![u].live = FALSE], u)

Becomes(j, phase) == flight' = (flight \ {j}) \cup {[j EXCEPT !.phase = phase]}
Ends(j) == flight' = flight \ {j}
At(j, units, phase) == j.unit \in units /\ j.phase = phase

-----------------------------------------------------------------------------
(* A deliverer's pass                                                      *)

Reserve(u) ==
    /\ row[u].state = "pending"
    /\ Eligible(u)
    /\ WithinCap(u)
    /\ LeaseFree(u)
    /\ minted' = [minted EXCEPT ![u] = @ + 1]
    /\ row' = [row EXCEPT ![u].attempts = @ + 1, ![u].lease = minted[u] + 1, ![u].live = TRUE]
    /\ flight' = flight \cup {[unit |-> u, fence |-> minted[u] + 1, phase |-> "start"]}
    /\ UNCHANGED <<detectorVars, taskVars, requeues>>

LeaseExpires(u) ==
    /\ row[u].lease # Null
    /\ row[u].live
    /\ row' = [row EXCEPT ![u].live = FALSE]
    /\ UNCHANGED <<minted, flight, detectorVars, taskVars, requeues>>

Exhausted(u) == row[u].lease # Null /\ ~row[u].live

(* sweepExpiredCapRows, for one row: only the row moves, never its run.    *)
Sweep(u) ==
    /\ row[u].state = "pending"
    /\ ~WithinCap(u)
    /\ Exhausted(u)
    /\ row' = Settled([row EXCEPT ![u].state = "dead_letter"], u)
    /\ UNCHANGED <<minted, flight, detectorVars, taskVars, requeues>>

(* The consumer's outcome as the dispatcher records it.                    *)
Ack(j) ==
    /\ j.phase = "ack"
    /\ row' = IF Holds(j) THEN Acked(row, j.unit) ELSE row
    /\ Ends(j)
    /\ UNCHANGED <<minted, detectorVars, taskVars, requeues>>

(* A target's last failure also ends a live run, whoever owns it.          *)
Fail(j) ==
    /\ j.phase = "fail"
    /\ row' = IF Holds(j) THEN Failed(row, j.unit) ELSE row
    /\ run' = [d \in Detectors |->
                 IF j.unit = TargetOf(d) /\ Holds(j) /\ ~WithinCap(j.unit) /\ run[d].status = "running"
                 THEN [run[d] EXCEPT !.status = "failed"] ELSE run[d]]
    /\ Ends(j)
    /\ UNCHANGED <<minted, signals, taskVars, requeues>>

-----------------------------------------------------------------------------
(* The consumers                                                           *)

(* Gates are stamped in a transaction of their own; the acknowledgement    *)
(* waits for the recovery reconciliation.  A write error of a later gate   *)
(* leaves an earlier one stamped.                                          *)
DeliverGates(j, outcome) ==
    /\ At(j, {Gates}, "start")
    /\ \/ ~owns /\ outcome = "ack" /\ UNCHANGED gate
       \/ owns /\ gate' \in {gate, IF gate = "open" THEN "us" ELSE gate}
    /\ Becomes(j, outcome)
    /\ UNCHANGED <<row, minted, detectorVars, owns, captured, armed, requeues>>

(* A context is captured iff a gate carries the stamp of this event; the   *)
(* unique event id makes a second capture a no-op.                         *)
DeliverContext(j, outcome) ==
    /\ At(j, {Context}, "start")
    /\ outcome = "fail" => gate = "us"
    /\ captured' = (captured \/ (gate = "us" /\ outcome = "ack"))
    /\ Becomes(j, outcome)
    /\ UNCHANGED <<row, minted, detectorVars, owns, gate, armed, requeues>>

(* The bundle of task write, follow-up event and acknowledgement.  When    *)
(* the fence is lost the callback returns and its writes are committed.    *)
DeliverLadder(j) ==
    /\ At(j, {Ladder}, "start")
    /\ \/ \* no policy, nothing left to do, or superseded
          UNCHANGED <<row, armed>> /\ Becomes(j, "ack")
       \/ \* rolled back
          UNCHANGED <<row, armed>> /\ Becomes(j, "fail")
       \/ /\ owns
          /\ armed' = armed + 1
          /\ IF Holds(j) THEN row' = Acked(row, Ladder) /\ Ends(j)
                         ELSE row' = row /\ Becomes(j, "fail")
    /\ UNCHANGED <<minted, detectorVars, owns, gate, captured, requeues>>

(* Skill ingestion and the pulse intents: work outside this model.         *)
PlainUnits == {u \in Units : u[1] \in {"skill_ingestion"} \cup IntentConsumers}
DeliverPlain(j, outcome) ==
    /\ At(j, PlainUnits, "start")
    /\ Becomes(j, outcome)
    /\ UNCHANGED <<row, minted, detectorVars, taskVars, requeues>>

-----------------------------------------------------------------------------
(* Detector units                                                          *)

RunIs(d, status, token) == [run EXCEPT ![d].status = status, ![d].token = token]
(* finishRunLeaseFenced                                                    *)
FinishRun(j, d, status) ==
    run' = IF run[d].status = "running" /\ run[d].token = j.fence
           THEN [run EXCEPT ![d].status = status] ELSE run

(* The plugin is gone: an authorized skip, with a run row as its record.   *)
SkipDetector(j, d) ==
    /\ At(j, {TargetOf(d)}, "start")
    /\ run' = CASE run[d].status = "none" -> RunIs(d, "skipped", j.fence)
                [] run[d].status = "running" -> RunIs(d, "skipped", run[d].token)
                [] OTHER -> run
    /\ Becomes(j, "ack")
    /\ UNCHANGED <<row, minted, signals, taskVars, requeues>>

(* A run whose signals are committed or that an operator gave up.          *)
SettleRun(j, d) ==
    /\ At(j, {TargetOf(d)}, "start")
    /\ run[d].marker \/ run[d].status = "lost"
    /\ run' = IF run[d].marker /\ run[d].status = "running"
              THEN RunIs(d, "failed", run[d].token) ELSE run
    /\ Becomes(j, "ack")
    /\ UNCHANGED <<row, minted, signals, taskVars, requeues>>

Redrivable(d) == ~run[d].marker /\ run[d].status # "lost"

(* The run row is inserted, or re-driven under this attempt's token.       *)
StartRun(j, d) ==
    /\ At(j, {TargetOf(d)}, "start")
    /\ Redrivable(d)
    /\ run' = RunIs(d, "running", j.fence)
    /\ Becomes(j, "handler")
    /\ UNCHANGED <<row, minted, signals, taskVars, requeues>>

BothFencesHold(j, d) == Holds(j) /\ run[d].status = "running" /\ run[d].token = j.fence

(* Mutant: an output whose delivery is acknowledged afterwards.            *)
ComposeThenAck(j, d, some) ==
    /\ At(j, {TargetOf(d)}, "handler")
    /\ BothFencesHold(j, d)
    /\ run' = [run EXCEPT ![d].status = "succeeded", ![d].marker = TRUE]
    /\ signals' = [signals EXCEPT ![d] = @ + 1]
    /\ Becomes(j, "ack")
    /\ UNCHANGED <<row, minted, taskVars, requeues>>
(* composeDetectorOutput: marker, signals with their intents, run and      *)
(* target in one transaction.  The acknowledgement that the dispatcher     *)
(* tries afterwards misses its fence.                                      *)
Compose(j, d, some) ==
    /\ At(j, {TargetOf(d)}, "handler")
    /\ BothFencesHold(j, d)
    /\ run' = [run EXCEPT ![d].status = "succeeded", ![d].marker = TRUE]
    /\ signals' = [signals EXCEPT ![d] = @ + 1]
    /\ row' = Acked([u \in Units |-> IF some /\ u \in Intents /\ u[2] = d
                                     THEN Fresh("pending") ELSE row[u]], j.unit)
    /\ Ends(j)
    /\ UNCHANGED <<minted, taskVars, requeues>>

(* The handler failed or timed out, was throttled or quarantined, or its   *)
(* output was refused by the composer.                                     *)
AbandonRun(j, d, status) ==
    /\ At(j, {TargetOf(d)}, "handler")
    /\ FinishRun(j, d, status)
    /\ Becomes(j, "fail")
    /\ UNCHANGED <<row, minted, signals, taskVars, requeues>>

(* An operator gives up on a running run.                                  *)
MarkRunLost(d) ==
    /\ run[d].status = "running"
    /\ run' = [run EXCEPT ![d].status = "lost"]
    /\ UNCHANGED <<row, minted, flight, signals, taskVars, requeues>>

-----------------------------------------------------------------------------
(* The surroundings                                                        *)

(* Mutant: a whole requeue that replays delivered children.                *)
ResetsEveryChild(u, v) == v = u \/ (u = Parent /\ v \in Targets)
(* A whole requeue resets the dead children only, then derives.            *)
Resets(u, v) == v = u \/ (u = Parent /\ v \in Targets /\ row[v].state = "dead_letter")

AdminRequeue(u) ==
    /\ requeues < MaxRequeues
    /\ u[1] \in Requeueable
    /\ row[u].state = "dead_letter"
    /\ LET reset == [v \in Units |-> IF Resets(u, v) THEN Fresh("pending") ELSE row[v]]
       IN  row' = IF u = Parent THEN Derived(reset) ELSE reset
    /\ requeues' = requeues + 1
    /\ UNCHANGED <<minted, flight, detectorVars, taskVars>>

(* The task is claimed, retried or ended: its pointer moves on.            *)
Supersede ==
    /\ owns
    /\ owns' = FALSE
    /\ UNCHANGED <<row, minted, flight, detectorVars, gate, captured, armed, requeues>>

(* A gate is satisfied by another event, or by hand.                       *)
SatisfyElsewhere ==
    /\ gate = "open"
    /\ gate' = "other"
    /\ UNCHANGED <<row, minted, flight, detectorVars, owns, captured, armed, requeues>>

(* The deliverers die with everything they had in hand.                    *)
Crash ==
    /\ flight # {}
    /\ flight' = {}
    /\ UNCHANGED <<row, minted, detectorVars, taskVars, requeues>>

Work(j) ==
    \/ Ack(j)
    \/ Fail(j)
    \/ DeliverLadder(j)
    \/ \E outcome \in {"ack", "fail"} :
        DeliverGates(j, outcome) \/ DeliverContext(j, outcome) \/ DeliverPlain(j, outcome)
    \/ \E d \in Detectors :
        \/ SkipDetector(j, d)
        \/ SettleRun(j, d)
        \/ StartRun(j, d)
        \/ \E some \in BOOLEAN : Compose(j, d, some)
        \/ \E status \in {"failed", "rate_limited", "skipped"} : AbandonRun(j, d, status)

(* From its reservation to its first await a unit runs without a break: in *)
(* one process nothing but a crash can come between.                       *)
Undisturbed == SingleProcess => \A j \in flight : j.phase # "start"

Pass(u) == Undisturbed /\ (Reserve(u) \/ Sweep(u))
TimePasses(u) == Undisturbed /\ LeaseExpires(u)

Next ==
    \/ \E u \in Units : Pass(u) \/ TimePasses(u) \/ (Undisturbed /\ AdminRequeue(u))
    \/ \E j \in flight : (Undisturbed \/ j.phase = "start") /\ Work(j)
    \/ \E d \in Detectors : Undisturbed /\ MarkRunLost(d)
    \/ Undisturbed /\ (Supersede \/ SatisfyElsewhere)
    \/ Crash

Spec == Init /\ [][Next]_vars

-----------------------------------------------------------------------------
(* Properties                                                              *)

(* The detector receipt is the sum of its targets: while it waits none is  *)
(* dead and not all are delivered, and it is delivered only when all are,  *)
(* whatever requeues, sweeps and late deliverers did.                      *)
ParentSumsUpTargets ==
    Targets # {} =>
        /\ row[Parent].state = "pending" =>
              "dead_letter" \notin ChildStates(row) /\ ChildStates(row) # {"delivered"}
        /\ row[Parent].state = "delivered" => ChildStates(row) = {"delivered"}

(* A detector's signals are committed at most once, and only together with *)
(* its run's success and its target's delivery: no retry, requeue or late  *)
(* handler commits a second batch or a batch of an undelivered target.     *)
OutputIsAcknowledged ==
    \A d \in Detectors :
        /\ signals[d] \in {0, 1}
        /\ signals[d] = 1 =>
              row[TargetOf(d)].state = "delivered" /\ run[d].status = "succeeded"

(* A row whose attempts are spent still has a lease, or neither a pass nor *)
(* the sweep would ever touch it again.                                    *)
SpentRowIsLeased ==
    \A u \in Units :
        row[u].state = "pending" /\ ~(row[u].attempts < Cap) => row[u].lease # Null

(* When a failure context is not recorded although its receipt is          *)
(* delivered, no gate carries the stamp of the event.                      *)
StampIsCaptured ==
    Context \in Units /\ row[Context].state = "delivered" /\ gate = "us" => captured

(* The rows, their runs and what the consumers left behind agree; with one   *)
(* server process that includes the context of a stamped gate.               *)
ReceiptsAgree ==
    /\ TypeOK /\ ParentSumsUpTargets /\ OutputIsAcknowledged /\ SpentRowIsLeased
    /\ SingleProcess => StampIsCaptured

(* Every unit that waits is delivered or parked in the end, though its       *)
(* consumer hangs, fails or dies each time.                                  *)
Waiting == {u \in DOMAIN row : row[u].state = "pending"}
EveryUnitSettles == Waiting # {} ~> Waiting = {}

(* A unit of the outbox as the ledger sees it.                               *)
Outcome(u) ==
    CASE row[u].state = "pending" -> "open"
      [] row[u].state = "delivered" -> "done"
      [] row[u].state = "dead_letter" -> "parked"
      [] OTHER -> "unborn"
=============================================================================
