-------------------------- MODULE WorkflowRecovery --------------------------
(***************************************************************************)
(* Recovery of a failed task in a workflow: on_fail gates are satisfied    *)
(* together with a durable handoff, a bounded pass publishes a recovery    *)
(* task per gate under a fixed attempt key, the recovery task is linked to *)
(* the gate and to the failure context, and its success redeems the gates  *)
(* that wait for the failed task.                                          *)
(*                                                                         *)
(* A rejection drives the gates from the transition hook (the live path);  *)
(* a failure drives them from the receipts of its event (the outbox).      *)
(* Everything synchronous in one process is undisturbed but for crashes.   *)
(* Gate g's recovery task is named g: it is the upstream of the gate one   *)
(* deeper.  Titles, capabilities and notifications are left out.           *)
(***************************************************************************)
EXTENDS Naturals, Sequences, FiniteSets

CONSTANTS
    Original,   \* the task of the workflow that fails first
    Roots,      \* its on_fail gates, at depth zero
    Null,
    Paths,      \* ways a task can fail: a subset of {"live", "receipt"}
    Handlers,   \* versions of the workflow's failure handler
    Faults,     \* are there crashes and failing writes?
    MAX_RECOVERY_DEPTH,     \* 2 in the code
    MaxEvents   \* bound: failures and rejections

VARIABLES
    task,       \* status of the original and of each recovery task
    gate,       \* on_fail gates: born, satisfied by, linked
    handoff,    \* task_recovery_handoffs per gate
    attempt,    \* task_creation_attempts under the gate's key
    contexts,   \* failure_contexts in the order of capture
    success,    \* the on_complete gate downstream of the original
    active,     \* is the workflow attached?
    handler,    \* the workflow's failure handler
    receipts,   \* failure events whose receipts are not all delivered
    job,        \* what the process is in the middle of
    events      \* failure and rejection events so far

vars == <<task, gate, handoff, attempt, contexts, success, active, handler,
          receipts, job, events>>
recoveryVars == <<gate, handoff, attempt, contexts>>
settings == <<active, handler>>

-----------------------------------------------------------------------------
Gates == Roots \X (0 .. MAX_RECOVERY_DEPTH)
Depth(g) == g[2]
Deeper(g) == <<g[1], g[2] + 1>>
Upstream(g) == IF Depth(g) = 0 THEN Original ELSE <<g[1], g[2] - 1>>
RecoveryTasks == {g \in Gates : Depth(g) < MAX_RECOVERY_DEPTH}
Tasks == {Original} \cup RecoveryTasks

Handoffs == [status : {"none", "expected", "consumed", "blocked"}, frozen : Handlers \cup {Null}]
Attempts == [state : {"none", "pending", "published", "created", "refused"},
             frozen : Handlers \cup {Null}, context : Nat]
Idle == [stage |-> "idle", task |-> Null, rows |-> {}]

TypeOK ==
    /\ task \in [Tasks -> {"absent", "live", "failed", "approved", "done"}]
    /\ gate \in [Gates -> [born : BOOLEAN, by : 0 .. MaxEvents, linked : BOOLEAN]]
    /\ handoff \in [Gates -> Handoffs]
    /\ attempt \in [Gates -> Attempts]
    /\ contexts \in Seq([task : Tasks, recovery : RecoveryTasks \cup {Null}, resolved : BOOLEAN])
    /\ success \in BOOLEAN
    /\ active \in BOOLEAN
    /\ handler \in Handlers \cup {Null}
    /\ receipts \in SUBSET [task : Tasks, event : 1 .. MaxEvents, gates : BOOLEAN]
    /\ job \in [stage : {"idle", "capture", "await", "pass"}, task : Tasks \cup {Null},
                rows : SUBSET Gates]
    /\ events \in 0 .. MaxEvents

Init ==
    /\ task = [t \in Tasks |-> IF t = Original THEN "live" ELSE "absent"]
    /\ gate = [g \in Gates |-> [born |-> Depth(g) = 0, by |-> 0, linked |-> FALSE]]
    /\ handoff = [g \in Gates |-> [status |-> "none", frozen |-> Null]]
    /\ attempt = [g \in Gates |-> [state |-> "none", frozen |-> Null, context |-> 0]]
    /\ contexts = <<>>
    /\ success = FALSE
    /\ active = TRUE
    /\ handler \in Handlers \cup {Null}
    /\ receipts = {}
    /\ job = Idle
    /\ events = 0

-----------------------------------------------------------------------------
(* Gates                                                                   *)

Open(t) == {g \in Gates : active /\ gate[g].born /\ gate[g].by = 0 /\ Upstream(g) = t}

(* maybeWriteRecoveryHandoff                                               *)
Expects(g) == handler # Null /\ Depth(g) < MAX_RECOVERY_DEPTH

(* advanceGates: one transaction or savepoint for each gate; those whose   *)
(* write failed, or whose condition is false, are not in S.                *)
Satisfy(S, event) ==
    /\ gate' = [g \in Gates |-> IF g \in S THEN [gate[g] EXCEPT !.by = event] ELSE gate[g]]
    /\ handoff' = [g \in Gates |->
                     IF g \in S /\ Expects(g)
                     THEN [status |-> "expected", frozen |-> handler] ELSE handoff[g]]

Expected == {g \in Gates : handoff[g].status = "expected"}
StartPass == [Idle EXCEPT !.stage = "pass", !.rows = Expected']

-----------------------------------------------------------------------------
(* The live path: a rejection.  Its hook advances the gates, captures the  *)
(* context and runs the pass.                                              *)
Reject(t) ==
    /\ "live" \in Paths
    /\ job = Idle
    /\ task[t] = "live"
    /\ events < MaxEvents
    /\ events' = events + 1
    /\ \E S \in SUBSET Open(t) :
        /\ ~Faults => S = Open(t)
        /\ Satisfy(S, events + 1)
        /\ job' = IF S = {} THEN Idle ELSE [Idle EXCEPT !.stage = "capture", !.task = t]
    /\ UNCHANGED <<task, attempt, contexts, success, settings, receipts>>

(* saveFailureContext                                                      *)
Captured(t) == Append(contexts, [task |-> t, recovery |-> Null, resolved |-> FALSE])

(* handleFailureCapture, whose errors are swallowed.                       *)
CaptureContext ==
    /\ job.stage = "capture"
    /\ \/ contexts' = Captured(job.task)
       \/ Faults /\ UNCHANGED contexts
    /\ UNCHANGED <<gate, handoff, attempt, task, success, settings, receipts, events>>
    /\ job' = StartPass

-----------------------------------------------------------------------------
(* The outbox path: a failure and its receipts.                            *)
Fail(t) ==
    /\ "receipt" \in Paths
    /\ job = Idle
    /\ task[t] = "live"
    /\ events < MaxEvents
    /\ events' = events + 1
    /\ task' = [task EXCEPT ![t] = "failed"]
    /\ receipts' = receipts \cup {[task |-> t, event |-> events + 1, gates |-> FALSE]}
    /\ UNCHANGED <<recoveryVars, success, settings, job>>

(* Does the event still own the task's failure pointer?                    *)
OwnsTask(r) ==
    /\ task[r.task] = "failed"
    /\ \A q \in receipts : q.task = r.task => q.event <= r.event

(* The gates receipt: delivered, left for the next attempt or parked.  A   *)
(* failed write hides the gates that advanced after it from the pass.      *)
DeliverGates(r) ==
    /\ job = Idle
    /\ ~r.gates
    /\ \E S \in SUBSET Open(r.task), settled \in BOOLEAN, noticed \in BOOLEAN :
        /\ OwnsTask(r) \/ S = {}
        /\ ~Faults => settled /\ noticed /\ (OwnsTask(r) => S = Open(r.task))
        /\ Satisfy(S, r.event)
        /\ receipts' = IF settled THEN (receipts \ {r}) \cup {[r EXCEPT !.gates = TRUE]}
                       ELSE receipts
        /\ job' = IF S # {} /\ noticed THEN [Idle EXCEPT !.stage = "await"] ELSE Idle
    /\ UNCHANGED <<task, attempt, contexts, success, settings, events>>

(* The pass of the gates receipt starts after an await.                    *)
AwaitedPass ==
    /\ job.stage = "await"
    /\ UNCHANGED <<task, recoveryVars, success, settings, receipts, events>>
    /\ job' = StartPass

(* The context receipt: captured iff a gate carries the event's stamp.     *)
DeliverContext(r) ==
    /\ job = Idle
    /\ r.gates
    /\ contexts' = IF \E g \in Gates : Upstream(g) = r.task /\ gate[g].by = r.event
                   THEN Captured(r.task) ELSE contexts
    /\ receipts' = receipts \ {r}
    /\ UNCHANGED <<task, gate, handoff, attempt, success, settings, job, events>>

Retry(t) ==
    /\ job = Idle
    /\ task[t] = "failed"
    /\ task' = [task EXCEPT ![t] = "live"]
    /\ UNCHANGED <<recoveryVars, success, settings, receipts, job, events>>

-----------------------------------------------------------------------------
(* runRecoveryReconciliationPass, row by row                               *)

Unresolved(t) == {i \in DOMAIN contexts : contexts[i].task = t /\ ~contexts[i].resolved}
(* getFailureContext: the newest one that is not resolved; 0 if none.      *)
ContextOf(t) ==
    IF Unresolved(t) = {} THEN 0
    ELSE CHOOSE i \in Unresolved(t) : \A k \in Unresolved(t) : k <= i

FrozenHandler(g) == handoff[g].frozen

(* reserveAttempt: a replay must carry the fingerprint of the reservation. *)
SameFingerprint(g) ==
    attempt[g].frozen = FrozenHandler(g) /\ attempt[g].context = ContextOf(Upstream(g))
Reserved(g) ==
    IF attempt[g].state = "none"
    THEN [state |-> "pending", frozen |-> FrozenHandler(g), context |-> ContextOf(Upstream(g))]
    ELSE attempt[g]

Settle(g, status) == handoff' = [handoff EXCEPT ![g].status = status]
RowDone(g) == job' = IF job.rows = {g} THEN Idle ELSE [job EXCEPT !.rows = @ \ {g}]
AtRow(g) == job.stage = "pass" /\ g \in job.rows
EmptyPass ==
    /\ job.stage = "pass" /\ job.rows = {}
    /\ job' = Idle
    /\ UNCHANGED <<task, recoveryVars, success, settings, receipts, events>>

(* A terminal attempt settles the handoff; a published one is left to the  *)
(* publication workers.                                                    *)
Outcome(g) ==
    CASE attempt[g].state = "created" -> "consumed"
      [] attempt[g].state = "refused" -> "blocked"
      [] OTHER -> "expected"

FollowAttempt(g) ==
    /\ AtRow(g)
    /\ attempt[g].state \in {"created", "refused", "published"}
    /\ Settle(g, Outcome(g))
    /\ RowDone(g)
    /\ UNCHANGED <<task, gate, attempt, contexts, success, settings, receipts, events>>

RefuseFingerprint(g) ==
    /\ AtRow(g)
    /\ attempt[g].state = "pending"
    /\ ~SameFingerprint(g)
    /\ Settle(g, "blocked")
    /\ RowDone(g)
    /\ UNCHANGED <<task, gate, attempt, contexts, success, settings, receipts, events>>

Publishable(g) ==
    /\ AtRow(g)
    /\ attempt[g].state \in {"none", "pending"}
    /\ attempt[g].state = "pending" => SameFingerprint(g)

(* The linkage participant admits a context that nobody recovers yet.      *)
ContextLinks(g) ==
    LET i == ContextOf(Upstream(g)) IN i # 0 => contexts[i].recovery \in {Null, g}

(* The recovery task, the gate one deeper, the gate's link and the         *)
(* context's link are one transaction.                                     *)
Publish(g) ==
    /\ Publishable(g)
    /\ ContextLinks(g)
    /\ ~gate[g].linked
    /\ attempt' = [attempt EXCEPT ![g] = [Reserved(g) EXCEPT !.state = "published"]]
    /\ task' = [task EXCEPT ![g] = "live"]
    /\ gate' = [gate EXCEPT ![g].linked = TRUE, ![Deeper(g)].born = TRUE]
    /\ LET i == ContextOf(Upstream(g))
       IN  contexts' = IF i = 0 THEN contexts ELSE [contexts EXCEPT ![i].recovery = g]
    /\ RowDone(g)
    /\ UNCHANGED <<handoff, success, settings, receipts, events>>

(* A veto or an invalid proposal ends the attempt and then blocks the      *)
(* handoff; the process may die and boot in between.                       *)
Refuse(g) ==
    /\ Publishable(g)
    /\ attempt' = [attempt EXCEPT ![g] = [Reserved(g) EXCEPT !.state = "refused"]]
    /\ \/ Settle(g, "blocked") /\ RowDone(g)
       \/ Faults /\ UNCHANGED handoff /\ job' = StartPass
    /\ UNCHANGED <<task, gate, contexts, success, settings, receipts, events>>

(* A drifted guard, a stale decision or a throw leaves the attempt pending *)
(* and the handoff expected.                                               *)
Defer(g) ==
    /\ Publishable(g)
    /\ Faults \/ ~ContextLinks(g)
    /\ attempt' = [attempt EXCEPT ![g] = Reserved(g)]
    /\ RowDone(g)
    /\ UNCHANGED <<task, gate, handoff, contexts, success, settings, receipts, events>>

(* The creation dispatcher and the assignment worker finish the attempt.   *)
FinishPublication(g) ==
    /\ job = Idle
    /\ attempt[g].state = "published"
    /\ attempt' = [attempt EXCEPT ![g].state = "created"]
    /\ UNCHANGED <<task, gate, handoff, contexts, success, settings, receipts, job, events>>

(* The process dies; the boot runs a pass.                                 *)
CrashAndBoot ==
    /\ Faults
    /\ UNCHANGED <<task, recoveryVars, success, settings, receipts, events>>
    /\ job' = StartPass
(* An operator, or an orderly restart, runs a pass.                        *)
PassOnDemand ==
    /\ job = Idle
    /\ Expected # {}
    /\ UNCHANGED <<task, recoveryVars, success, settings, receipts, events>>
    /\ job' = StartPass

-----------------------------------------------------------------------------
(* Success and redemption                                                  *)

(* getFailureContextsByRecoveryTask                                        *)
Awaiting(t) == {i \in DOMAIN contexts : contexts[i].recovery = t /\ ~contexts[i].resolved}

(* Mutant: a redemption that resolves before it knows the gates fired.     *)
ResolveEagerly(t, written) == Awaiting(t)
(* redeemOneContext: the gates of the failed task fire, and the context is *)
(* resolved unless a gate could not be written.                            *)
Redeemed(t, written) ==
    {i \in Awaiting(t) : written \/ success \/ ~active \/ contexts[i].task # Original}

Succeed(t) ==
    /\ job = Idle
    /\ task[t] \in {"live", "approved"}
    /\ task' = [task EXCEPT ![t] = IF task[t] = "live" THEN "approved" ELSE "done"]
    /\ \E written \in BOOLEAN :
        /\ ~Faults => written
        /\ contexts' = [i \in DOMAIN contexts |->
                          IF i \in Redeemed(t, written)
                          THEN [contexts[i] EXCEPT !.resolved = TRUE] ELSE contexts[i]]
        /\ success' = \/ success
                      \/ written /\ active /\ t = Original /\ task[t] = "approved"
                      \/ written /\ active /\ \E i \in Awaiting(t) : contexts[i].task = Original
    /\ UNCHANGED <<gate, handoff, attempt, settings, receipts, job, events>>

EditHandler ==
    /\ job = Idle
    /\ handler' \in Handlers \cup {Null}
    /\ UNCHANGED <<task, recoveryVars, success, active, receipts, job, events>>

Detach ==
    /\ job = Idle
    /\ active
    /\ active' = FALSE
    /\ UNCHANGED <<task, recoveryVars, success, handler, receipts, job, events>>

-----------------------------------------------------------------------------
PassRow(g) == FollowAttempt(g) \/ RefuseFingerprint(g) \/ Publish(g) \/ Refuse(g) \/ Defer(g)

Next ==
    \/ \E t \in Tasks : Reject(t) \/ Fail(t) \/ Retry(t) \/ Succeed(t)
    \/ \E r \in receipts : DeliverGates(r) \/ DeliverContext(r)
    \/ CaptureContext \/ AwaitedPass \/ EmptyPass
    \/ \E g \in RecoveryTasks : PassRow(g) \/ FinishPublication(g)
    \/ CrashAndBoot \/ PassOnDemand
    \/ EditHandler \/ Detach

Spec == Init /\ [][Next]_vars

-----------------------------------------------------------------------------
(* Properties                                                              *)

(* A handoff is consumed only when the recovery task exists and is linked. *)
ConsumedIsRecovered ==
    \A g \in Gates :
        handoff[g].status = "consumed" => gate[g].linked /\ task[g] # "absent"

(* A context of the original is closed as redeemed only when what waited   *)
(* for it is unblocked, or the workflow is detached.                       *)
RedeemedIsUnblocked ==
    \A i \in DOMAIN contexts :
        contexts[i].resolved /\ contexts[i].task = Original => success \/ ~active

(* What waits for the original's completion is unblocked only by its own   *)
(* success or by that of a recovery task linked to its failure.            *)
SuccessIsEarned ==
    success =>
        \/ task[Original] = "done"
        \/ \E i \in DOMAIN contexts :
            /\ contexts[i].task = Original
            /\ contexts[i].recovery # Null
            /\ task[contexts[i].recovery] \in {"approved", "done"}

(* A recovery is given up only for a terminal refusal: a pending attempt   *)
(* is resumed under its key, whatever was edited since.                    *)
BlockedForCause ==
    \A g \in Gates : handoff[g].status = "blocked" => attempt[g].state = "refused"

(* Gates, handoffs, attempts and contexts agree: a success is earned and     *)
(* nothing is consumed or redeemed without its cause; where the context      *)
(* follows the gates at once and no task has two gates, nothing is blocked   *)
(* without its cause either.                                                 *)
OneGate == \A r, q \in Roots : r = q
RecoveryAgrees ==
    /\ TypeOK /\ SuccessIsEarned /\ ConsumedIsRecovered /\ RedeemedIsUnblocked
    /\ "receipt" \notin Paths /\ OneGate => BlockedForCause
=============================================================================
