---------------------------- MODULE TaskLifecycle ----------------------------
(***************************************************************************)
(* The life of one task of the Orcy API server: claim, delegation, work,   *)
(* submission, review, rework, release, failure, retry, completion and the *)
(* deletion of its agent, with the review requirement, the transition      *)
(* budget and the retry ladder that ride on them.                          *)
(*                                                                         *)
(* SQLite writers are serialized and every service call up to its commit   *)
(* is synchronous, so one call is one action.  What interleaves is calls:  *)
(* many clients holding tokens of any age, sweeps and timers, the effect   *)
(* deliverer.  Where the code emits its event after the commit, a crash    *)
(* may lose the event and all that follows it in the handler.              *)
(*                                                                         *)
(* Refusals (vetoes, quality gates, missing capabilities, lost CAS) leave  *)
(* the state as it was: they are stuttering, not actions.                  *)
(***************************************************************************)
EXTENDS ReviewRequirement, Sequences

CONSTANTS
    Delegates,          \* agents a task may be delegated to
    ExemptRemotes,      \* remote participants of type remote_human
    PolicyCounts,       \* requiredReviews the matching rule may ask for; 0: no rule
    ResolveCounts,      \* effective counts a human resolution may set
    RosterReviewers,    \* reviewers that a manager may add or remove
    Policies,           \* retry policies that may be in force; Null: none
    Ceiling,            \* transition ceiling of the habitat; 0: opted out
    CrashAfterCommit,   \* may the process die between a commit and its emission?
    RemoteStartExposed, \* is there a route to startTaskByRemoteParticipant?
    MaxEpoch,           \* bound: execution tokens minted
    MaxRound,           \* bound: rework rounds in one generation
    MaxRetryCount,      \* bound: retries executed
    MaxDeletions        \* bound: agents deleted

RetryPolicies ==
    [maxRetries : Nat, escalateToHuman : BOOLEAN, admitsReason : BOOLEAN]

ASSUME ActorsAssumption ==
    /\ Delegates \subseteq Agents
    /\ ExemptRemotes \subseteq Remotes
    /\ RosterReviewers \subseteq Reviewers
ASSUME CountsAssumption ==
    /\ PolicyCounts \subseteq Nat
    /\ ResolveCounts \subseteq Nat
    /\ Policies \subseteq RetryPolicies \cup {Null}
    /\ Ceiling \in Nat
ASSUME SwitchesAssumption == CrashAfterCommit \in BOOLEAN /\ RemoteStartExposed \in BOOLEAN
ASSUME BoundsAssumption ==
    MaxEpoch \in Nat /\ MaxRound \in Nat /\ MaxRetryCount \in Nat /\ MaxDeletions \in Nat

VARIABLES
    task,       \* the row of the tasks table
    req,        \* its row of task_review_requirements
    snapshot,   \* required_count of the latest claim snapshot
    rows,       \* task_reviewers: raw status per reviewer, or "none"
    decisions,  \* task_review_decisions: the latest decision per reviewer
    meter,      \* metered task_events of non-human actors (kept when Ceiling # 0)
    ladder,     \* retry_ladder effect receipts not yet delivered
    deleted,    \* agents whose registry row is gone
    sessions,   \* history: the holder each execution token was minted for
    claims,     \* history: ownership periods begun
    reserved    \* history: metered slots a human recovery still promises

taskVars    == <<task, sessions, claims>>
reviewVars  == <<req, snapshot, rows, decisions>>
effectVars  == <<meter, ladder>>
vars == <<task, req, snapshot, rows, decisions, meter, ladder, deleted,
          sessions, claims, reserved>>

TaskStatuses == {"pending", "claimed", "in_progress", "submitted", "approved",
                 "rejected", "done", "failed"}

(* Tokens and event ids are uuids: a token is the index of its minting in  *)
(* sessions, a failure or release event the epoch that it ended.           *)
Tasks ==
    [status      : TaskStatuses,
     assigned    : Agents \cup {Null},    \* assigned_agent_id
     remote      : Remotes \cup {Null},   \* remote_assigned_participant_id
     delegatedTo : Agents \cup {Null},    \* delegated_to_agent_id
     token       : Nat \cup {Null},       \* execution_token
     lastFailure : Nat \cup {Null},       \* last_failure_event_id
     lastRelease : Nat \cup {Null},       \* last_release_event_id
     retryCount  : Nat,
     nextRetry   : BOOLEAN,               \* next_retry_at is set
     result      : Nat \cup {Null}]       \* the epoch whose worker wrote the result

Receipts == [event : Nat, retryCount : Nat]

TypeOK ==
    /\ task \in Tasks
    /\ req \in Requirements
    /\ snapshot \in Nat
    /\ rows \in [Reviewers -> RowStates]
    /\ decisions \in [Reviewers -> Decisions \cup {Null}]
    /\ meter \in Nat
    /\ ladder \in SUBSET Receipts
    /\ deleted \in SUBSET Agents
    /\ sessions \in Seq(Claimants)
    /\ claims \in Nat
    /\ reserved \in Nat

Live(r) == r \notin deleted
Holding == {"claimed", "in_progress", "submitted", "rejected"}
Releasable == {"claimed", "in_progress"}
Owned == task.assigned # Null \/ task.remote # Null

-----------------------------------------------------------------------------
(* A task is born pending with an uncaptured requirement; an import resets *)
(* one that history made unknown to the same pending row.                  *)

NewTask ==
    [status |-> "pending", assigned |-> Null, remote |-> Null, delegatedTo |-> Null,
     token |-> Null, lastFailure |-> Null, lastRelease |-> Null,
     retryCount |-> 0, nextRetry |-> FALSE, result |-> Null]

Init ==
    /\ task = NewTask
    /\ req \in {Uncaptured, PresetHistorical}
    /\ snapshot = 0
    /\ rows = [r \in Reviewers |-> "none"]
    /\ decisions = [r \in Reviewers |-> Null]
    /\ meter = 0
    /\ ladder = {}
    /\ deleted = {}
    /\ sessions = <<>>
    /\ claims = 0
    /\ reserved = 0

-----------------------------------------------------------------------------
(* Shared pieces of the handlers                                           *)

(* Mutant: an epoch guard that is not checked.                             *)
AnyTokenAdmits(t) == TRUE

(* The epoch-mutation guard: a row without a token admits everyone, a row  *)
(* with one demands it.                                                    *)
EpochAdmits(t) == task.token = Null \/ task.token = t

(* A worker presents a token that was minted for it, however old.          *)
TokensOf(h) == {t \in DOMAIN sessions : sessions[t] = h}

Mint(h) == Len(sessions) < MaxEpoch /\ sessions' = Append(sessions, h)
NewToken == Len(sessions) + 1
ThisEpoch == Len(sessions)

(* guardTransition: the metered transitions so far and n more must fit.    *)
BudgetAdmits(n) == Ceiling = 0 \/ meter + n <= Ceiling

Metered(n) == meter' = IF Ceiling = 0 THEN 0 ELSE meter + n

(* Is the event of a committed transition emitted, or lost in a crash?     *)
Emission == IF CrashAfterCommit THEN BOOLEAN ELSE {TRUE}
EmitMetered(emitted) == Metered(IF emitted THEN 1 ELSE 0)

(* A human recovery promises its replacement a claim, a start and a submit.*)
Spend(from) == reserved' = IF reserved = from THEN from - 1 ELSE 0
Forfeit == reserved' = 0

BeginPeriod(holder, count) ==
    /\ Mint(holder)
    /\ claims' = claims + 1
    /\ req' = CaptureOnClaim(req, count, holder)
    /\ snapshot' = count

Policy(p, count, phase) ==     \* shouldRetry
    /\ p # Null
    /\ count < p.maxRetries
    /\ phase = "rejected" => p.admitsReason

Escalates(p) == p # Null /\ p.escalateToHuman

-----------------------------------------------------------------------------
(* Claims and delegation                                                   *)

ClaimTask(a, count, emitted) ==
    /\ Live(a)
    /\ ~Owned
    /\ task.status = "pending"
    /\ BudgetAdmits(1)
    /\ BeginPeriod(a, count)
    /\ task' = [task EXCEPT !.status = "claimed", !.assigned = a, !.token = NewToken,
                            !.lastFailure = Null, !.lastRelease = Null]
    /\ EmitMetered(emitted)
    /\ Spend(3)
    /\ UNCHANGED <<rows, decisions, ladder, deleted>>

ClaimTaskForRemote(p, count) ==
    /\ ~Owned
    /\ task.status = "pending"
    /\ p \in ExemptRemotes \/ BudgetAdmits(1)
    /\ BeginPeriod(p, count)
    /\ task' = [task EXCEPT !.status = "claimed", !.remote = p, !.token = NewToken,
                            !.lastFailure = Null, !.lastRelease = Null]
    /\ Metered(IF p \in ExemptRemotes THEN 0 ELSE 1)
    /\ Spend(3)
    /\ UNCHANGED <<rows, decisions, ladder, deleted>>

(* The offer: only a column is written; the event is not a metered one.    *)
DelegateTask(a, b) ==
    /\ Live(a) /\ Live(b)
    /\ task.assigned = a /\ a # b
    /\ task.status \in Releasable
    /\ task' = [task EXCEPT !.delegatedTo = b]
    /\ UNCHANGED <<reviewVars, effectVars, deleted, sessions, claims, reserved>>

(* Mutant: a delegated claim that hands the old token over.                *)
DelegatedKeepsToken(b, count, emitted) ==
    /\ task.delegatedTo = b
    /\ task.status \in Releasable
    /\ task' = [task EXCEPT !.status = "claimed", !.assigned = b, !.delegatedTo = Null]
    /\ req' = CaptureOnClaim(req, count, b)
    /\ snapshot' = count
    /\ claims' = claims + 1
    /\ UNCHANGED <<rows, decisions, effectVars, deleted, sessions, reserved>>

ClaimDelegatedTask(b, count, emitted) ==
    /\ Live(b)
    /\ task.delegatedTo = b
    /\ task.status \in Releasable
    /\ BudgetAdmits(1)
    /\ BeginPeriod(b, count)
    /\ task' = [task EXCEPT !.status = "claimed", !.assigned = b, !.delegatedTo = Null,
                            !.token = NewToken,
                            !.lastFailure = Null, !.lastRelease = Null]
    /\ EmitMetered(emitted)
    /\ Forfeit
    /\ UNCHANGED <<rows, decisions, ladder, deleted>>

-----------------------------------------------------------------------------
(* Work: start (first, or rework of a rejection), submit                   *)

(* A claimed row keeps its token; the rework of a rejected one mints the   *)
(* next epoch and opens the next review round.                             *)
StartTask(a, t, emitted) ==
    /\ Live(a)
    /\ task.assigned = a
    /\ EpochAdmits(t)
    /\ BudgetAdmits(1)
    /\ \/ /\ task.status = "claimed"
          /\ task' = [task EXCEPT !.status = "in_progress"]
          /\ UNCHANGED <<req, sessions>>
       \/ /\ task.status = "rejected"
          /\ req.round < MaxRound
          /\ Mint(a)
          /\ task' = [task EXCEPT !.status = "in_progress", !.token = NewToken]
          /\ req' = BumpRound(req)
    /\ EmitMetered(emitted)
    /\ Spend(2)
    /\ UNCHANGED <<snapshot, rows, decisions, ladder, deleted, claims>>

(* Guarded as an agent's transition, but it emits no event to be metered.  *)
StartTaskByRemoteParticipant(p) ==
    /\ RemoteStartExposed
    /\ task.remote = p
    /\ task.status = "claimed"
    /\ BudgetAdmits(1)
    /\ task' = [task EXCEPT !.status = "in_progress"]
    /\ Spend(2)
    /\ UNCHANGED <<reviewVars, effectVars, deleted, sessions, claims>>

(* assignReviewers reads the claim's snapshot: either agents fill the      *)
(* slots that no pending or approved agent row occupies, or fresh humans   *)
(* are picked, in both cases at most as many as there are candidates.  All *)
(* agents of the model share the domain of the task.                       *)
OccupiedSlots ==
    {r \in Agents \ {task.assigned} :
        /\ Live(r)
        /\ rows[r] # "none"
        /\ Projection(req, rows, decisions, r) \in {"pending", "approved"}}

Assignments ==
    LET free(pool) == {r \in pool : rows[r] = "none" /\ Live(r) /\ r # task.assigned}
    IN  {S \in SUBSET free(Agents) : Cardinality(S) + Cardinality(OccupiedSlots) <= snapshot}
        \cup {S \in SUBSET free(Humans) : Cardinality(S) <= snapshot}
        \cup {{}}

AssignReviewers(S) ==
    rows' = [r \in Reviewers |-> IF r \in S THEN "pending" ELSE rows[r]]

SubmitTask(a, t, S, emitted) ==
    /\ Live(a)
    /\ task.assigned = a
    /\ task.status = "in_progress"
    /\ EpochAdmits(t)
    /\ BudgetAdmits(1)
    /\ task' = [task EXCEPT !.status = "submitted", !.result = t]
    /\ S \in IF emitted THEN Assignments ELSE {{}}
    /\ AssignReviewers(S)
    /\ EmitMetered(emitted)
    /\ Spend(1)
    /\ UNCHANGED <<req, snapshot, decisions, ladder, deleted, sessions, claims>>

SubmitTaskForRemote(p, S, emitted) ==
    /\ task.remote = p
    /\ task.status = "in_progress"
    /\ p \in ExemptRemotes \/ BudgetAdmits(1)
    /\ task' = [task EXCEPT !.status = "submitted", !.result = task.token]
    /\ S \in IF emitted THEN Assignments ELSE {{}}
    /\ AssignReviewers(S)
    /\ Metered(IF p \in ExemptRemotes THEN 0 ELSE 1)
    /\ Spend(1)
    /\ UNCHANGED <<req, snapshot, decisions, ladder, deleted, sessions, claims>>

-----------------------------------------------------------------------------
(* Review                                                                  *)

Decision(verdict) ==
    [generation |-> req.generation, round |-> req.round, verdict |-> verdict,
     claim |-> claims]

(* The agent wire admits an agent only on a pending projection.            *)
AgentMayDecide(r) ==
    r \in Agents => /\ Live(r)
                    /\ task.assigned # r
                    /\ rows[r] # "none"
                    /\ Projection(req, rows, decisions, r) = "pending"

TerminalApprove ==
    /\ task' = [task EXCEPT !.status = "approved", !.token = Null,
                            !.lastFailure = Null, !.lastRelease = Null]
    /\ req' = StampApproved(req)

RecordApproval(r) ==
    IF Projection(req, rows, decisions, r) = "approved"
    THEN UNCHANGED <<rows, decisions>>
    ELSE /\ decisions' = [decisions EXCEPT ![r] = Decision("approved")]
         /\ rows' = [rows EXCEPT ![r] = "approved"]

(* approveWithReservation.  With no assignment row at all, a known-zero    *)
(* task is approved by any human reviewer; with rows, the actor's own row  *)
(* is required, and the approval is partial or, with every other slot      *)
(* settled and the quorum met, final.  A veto of the final step commits    *)
(* nothing.  The approved event is not a metered one.                      *)
ApproveTask(r) ==
    /\ task.status = "submitted"
    /\ ~Unresolved(req)
    /\ AgentMayDecide(r)
    /\ \/ /\ Assigned(rows) = {}
          /\ req.state = "known_zero"
          /\ TerminalApprove
          /\ Forfeit
          /\ UNCHANGED <<rows, decisions>>
       \/ /\ rows[r] # "none"
          /\ Projection(req, rows, decisions, r) # "ineligible"
          /\ RecordApproval(r)
          /\ IF WouldBeFinal(req, rows, decisions, r)
             THEN TerminalApprove /\ Forfeit
             ELSE UNCHANGED <<task, req, reserved>>
    /\ UNCHANGED <<snapshot, effectVars, deleted, sessions, claims>>

(* The retry trigger in the emission of a rejection: arm the retry, which  *)
(* emits a metered event that no guard admits, or record that a human's    *)
(* attention is needed, which retires an armed one.                        *)
RetryTrigger(p, spent) ==
    IF Policy(p, task.retryCount, "rejected")
    THEN /\ task' = [task EXCEPT !.status = "rejected", !.lastFailure = Null,
                                 !.lastRelease = Null, !.nextRetry = TRUE]
         /\ Metered(spent + 1)
    ELSE /\ task' = [task EXCEPT !.status = "rejected", !.lastFailure = Null,
                                 !.lastRelease = Null,
                                 !.nextRetry = @ /\ ~Escalates(p)]
         /\ Metered(spent)

(* rejectTask: the decision joins the status write; the token survives as  *)
(* the owner's proof for the rework.  A crash after the commit may lose    *)
(* the event, or only the retry trigger that follows it.                   *)
RejectTask(r, p, emission) ==
    LET spent == IF r \in Agents /\ emission # "lost" THEN 1 ELSE 0
    IN  /\ task.status = "submitted"
        /\ Assigned(rows) # {} => rows[r] # "none"
        /\ AgentMayDecide(r)
        /\ r \in Humans \/ BudgetAdmits(1)
        /\ decisions' = [decisions EXCEPT ![r] = Decision("rejected")]
        /\ IF emission = "full"
           THEN RetryTrigger(p, spent)
           ELSE /\ task' = [task EXCEPT !.status = "rejected", !.lastFailure = Null,
                                        !.lastRelease = Null]
                /\ Metered(spent)
        /\ Forfeit
        /\ UNCHANGED <<req, snapshot, rows, ladder, deleted, sessions, claims>>

(* completeWithReservation.  A submitted task skips review only when it is *)
(* known to need none and nobody is assigned to review it; an approved one *)
(* must still be final under the proof of the current generation, with the *)
(* proven claimant still in its column.                                    *)
ClaimantInPlace ==
    req.claimant # Null => req.claimant \in {task.assigned, task.remote}

CompleteTask(a) ==
    /\ Live(a)
    /\ task.assigned = a
    /\ Final(req, rows, decisions)
    /\ \/ /\ task.status = "submitted"
          /\ Assigned(rows) = {}
          /\ req.state = "known_zero"
       \/ /\ task.status = "approved"
          /\ req.approvedGeneration = req.generation
          /\ ClaimantInPlace
    /\ task' = [task EXCEPT !.status = "done", !.token = Null,
                            !.lastFailure = Null, !.lastRelease = Null]
    /\ Forfeit
    /\ UNCHANGED <<reviewVars, effectVars, deleted, sessions, claims>>

(* A manager edits the roster: a duplicate add changes nothing, an agent   *)
(* row may not name the current assignee, a removal keeps the decisions.   *)
AddReviewer(r) ==
    /\ r \in RosterReviewers
    /\ Live(r)
    /\ rows[r] = "none"
    /\ r # task.assigned
    /\ rows' = [rows EXCEPT ![r] = "pending"]
    /\ UNCHANGED <<task, req, snapshot, decisions, effectVars, deleted, sessions,
                   claims, reserved>>

RemoveReviewer(r) ==
    /\ r \in RosterReviewers
    /\ rows[r] # "none"
    /\ rows' = [rows EXCEPT ![r] = "none"]
    /\ UNCHANGED <<task, req, snapshot, decisions, effectVars, deleted, sessions,
                   claims, reserved>>

(* An authorized human who decided nothing in this generation resolves an  *)
(* unknown requirement or relaxes a positive baseline.                     *)
ResolveRequirement(h, n) ==
    /\ ~DecidedNow(req, decisions, h)
    /\ CanResolve(req, n)
    /\ req' = Resolve(req, n)
    /\ UNCHANGED <<task, snapshot, rows, decisions, effectVars, deleted, sessions,
                   claims, reserved>>

-----------------------------------------------------------------------------
(* Ends of an ownership                                                    *)

(* Mutant: a writer that ends an ownership and forgets its provenance.     *)
OnlyStatus(status) == [task EXCEPT !.status = status]

Cleared(status) ==      \* what releaseTask and its remote twin both write
    [task EXCEPT !.status = status, !.token = Null,
                 !.lastFailure = Null, !.lastRelease = Null]

(* The post-image must have no remote owner: a row with both owners rolls  *)
(* back.                                                                   *)
ReleaseTask(a, t, emitted) ==
    /\ Live(a)
    /\ task.assigned = a
    /\ task.status \in Releasable
    /\ EpochAdmits(t)
    /\ BudgetAdmits(1)
    /\ task.remote = Null
    /\ task' = [Cleared("pending") EXCEPT !.assigned = Null]
    /\ req' = EndOwnership(req, TRUE)
    /\ EmitMetered(emitted)
    /\ Forfeit
    /\ UNCHANGED <<snapshot, rows, decisions, ladder, deleted, sessions, claims>>

ReleaseTaskForRemote(p) ==
    /\ task.remote = p
    /\ task.status \in Releasable
    /\ p \in ExemptRemotes \/ BudgetAdmits(1)
    /\ task.assigned = Null
    /\ task' = [Cleared("pending") EXCEPT !.remote = Null]
    /\ req' = EndOwnership(req, TRUE)
    /\ Metered(IF p \in ExemptRemotes THEN 0 ELSE 1)
    /\ Forfeit
    /\ UNCHANGED <<snapshot, rows, decisions, ladder, deleted, sessions, claims>>

(* releaseTaskWithEffects: one transaction writes the row, the event and   *)
(* the receipts.  The remote column and the failure pointer are left.      *)
ReleaseWithEffects ==
    /\ task.status \in Releasable
    /\ task' = [task EXCEPT !.status = "pending", !.assigned = Null, !.token = Null,
                            !.lastRelease = ThisEpoch]
    /\ req' = EndOwnership(req, task.assigned # Null)

(* The sweeps, the daemon recovery, automation and plugins release for a   *)
(* local assignee, against the token of the row they observed.             *)
SystemRelease ==
    /\ task.assigned # Null
    /\ BudgetAdmits(1)
    /\ ReleaseWithEffects
    /\ Metered(1)
    /\ Forfeit
    /\ UNCHANGED <<snapshot, rows, decisions, ladder, deleted, sessions, claims>>

(* failTaskWithEffects: row, event and receipts in one transaction; the    *)
(* receipt of the retry ladder freezes the retry count of the pre-image.   *)
(* Mutant: a failure whose receipt is not written with it.                 *)
FailWithoutReceipt ==
    /\ task.status = "in_progress"
    /\ task' = [task EXCEPT !.status = "failed", !.assigned = Null, !.token = Null]
    /\ req' = EndOwnership(req, task.assigned # Null)
    /\ UNCHANGED <<effectVars, snapshot, rows, decisions, deleted, sessions, claims, reserved>>

FailWithEffects ==
    /\ task.status = "in_progress"
    /\ BudgetAdmits(1)
    /\ task' = [task EXCEPT !.status = "failed", !.assigned = Null, !.token = Null,
                            !.lastFailure = ThisEpoch]
    /\ req' = EndOwnership(req, task.assigned # Null)
    /\ ladder' = ladder \cup {[event |-> ThisEpoch, retryCount |-> task.retryCount]}
    /\ Metered(1)
    /\ Forfeit
    /\ UNCHANGED <<snapshot, rows, decisions, deleted, sessions, claims>>

FailTask(a, t) ==
    /\ Live(a)
    /\ task.assigned = a
    /\ EpochAdmits(t)
    /\ FailWithEffects

SystemFail == task.assigned # Null /\ FailWithEffects

(* Deleting the agent of a submitted or rejected task is refused; a claimed*)
(* one is released, any other loses its assignee in place, and a proof of  *)
(* approval goes with it.  Offers made to the agent are withdrawn.         *)
DeleteAgent(a, byHuman) ==
    /\ Live(a)
    /\ Cardinality(deleted) < MaxDeletions
    /\ deleted' = deleted \cup {a}
    /\ \/ /\ task.assigned = a
          /\ task.status \in Releasable
          /\ byHuman \/ BudgetAdmits(1)
          /\ task' = [task EXCEPT !.status = "pending", !.assigned = Null, !.token = Null,
                                  !.lastRelease = ThisEpoch,
                                  !.delegatedTo = IF @ = a THEN Null ELSE @]
          /\ req' = EndOwnership(req, TRUE)
          /\ Metered(IF byHuman THEN 0 ELSE 1)
          /\ Forfeit
       \/ /\ task.assigned = a
          /\ task.status \notin Holding
          /\ task' = [task EXCEPT !.assigned = Null, !.token = Null,
                                  !.delegatedTo = IF @ = a THEN Null ELSE @]
          /\ req' = IF req.claimant = a THEN EndOwnership(req, TRUE)
                    ELSE [req EXCEPT !.approvedGeneration = Null]
          /\ UNCHANGED <<meter, reserved>>
       \/ /\ task.assigned # a
          /\ task' = [task EXCEPT !.delegatedTo = IF @ = a THEN Null ELSE @]
          /\ UNCHANGED <<req, meter, reserved>>
    /\ UNCHANGED <<snapshot, rows, decisions, ladder, sessions, claims>>

-----------------------------------------------------------------------------
(* The retry ladder                                                        *)

(* Mutant: a delivery that checks the status and not the failure's event.  *)
LadderIgnoresEvent(receipt, p) ==
    /\ receipt \in ladder
    /\ ladder' = ladder \ {receipt}
    /\ task.status = "failed"
    /\ task' = [task EXCEPT !.nextRetry = Policy(p, receipt.retryCount, "failed")]
    /\ UNCHANGED <<reviewVars, meter, deleted, sessions, claims, reserved>>

(* Delivery of a failure's ladder receipt: the decision is taken on the    *)
(* frozen retry count, the write is fenced on the failure still being the  *)
(* row's latest, and the receipt is acknowledged in the same transaction.  *)
DeliverRetryLadder(receipt, p) ==
    LET armed == Policy(p, receipt.retryCount, "failed")
        current == task.status = "failed" /\ task.lastFailure = receipt.event
    IN  /\ receipt \in ladder
        /\ ladder' = ladder \ {receipt}
        /\ \/ /\ armed /\ current
              /\ task' = [task EXCEPT !.nextRetry = TRUE]
              /\ Metered(1)
           \/ /\ ~armed /\ Escalates(p) /\ current
              /\ task' = [task EXCEPT !.assigned = Null, !.nextRetry = FALSE, !.token = Null]
              /\ UNCHANGED meter
           \/ /\ ~(current /\ (armed \/ Escalates(p)))
              /\ UNCHANGED <<task, meter>>
        /\ UNCHANGED <<reviewVars, deleted, sessions, claims, reserved>>

(* Mutant: a reset that knows only of the local owner.                     *)
RetryKeepsRemote ==
    /\ task.retryCount < MaxRetryCount
    /\ task' = [Cleared("pending") EXCEPT !.assigned = Null, !.nextRetry = FALSE,
                                          !.retryCount = task.retryCount + 1]
    /\ req' = EndOwnership(req, Owned)

(* retryTransitionToPendingWithEffects: the reset ends either owner.       *)
RetryToPending ==
    /\ task.retryCount < MaxRetryCount
    /\ task' = [Cleared("pending") EXCEPT !.assigned = Null, !.remote = Null,
                                          !.nextRetry = FALSE,
                                          !.retryCount = task.retryCount + 1]
    /\ req' = EndOwnership(req, Owned)

(* retryEscalateClearOwnerWithEffects: custody ends, the status stays.     *)
EscalateClearOwner ==
    /\ task' = [Cleared(task.status) EXCEPT !.assigned = Null, !.remote = Null,
                                            !.nextRetry = FALSE]
    /\ req' = EndOwnership(req, Owned)

RetireDueRow == task' = [task EXCEPT !.nextRetry = FALSE] /\ UNCHANGED req

(* One due row of the background pass.  A budget refusal skips the row.    *)
ProcessPendingRetry(p, emitted) ==
    /\ task.nextRetry
    /\ task.status \in {"rejected", "failed"}
    /\ IF p # Null /\ task.retryCount < p.maxRetries
       THEN BudgetAdmits(1) /\ RetryToPending /\ EmitMetered(emitted)
       ELSE /\ IF Escalates(p) /\ task.status = "failed"
               THEN EscalateClearOwner
               ELSE RetireDueRow
            /\ UNCHANGED meter
    /\ Forfeit
    /\ UNCHANGED <<snapshot, rows, decisions, ladder, deleted, sessions, claims>>

(* POST /tasks/:id/retry by an agent, on a failed task only.               *)
ManualRetryByAgent(emitted) ==
    /\ task.status = "failed"
    /\ BudgetAdmits(1)
    /\ RetryToPending
    /\ EmitMetered(emitted)
    /\ Forfeit
    /\ UNCHANGED <<snapshot, rows, decisions, ladder, deleted, sessions, claims>>

(* By a human, also on a rejected one: the reset and the claim, start and  *)
(* submit of the replacement must fit the budget together.                 *)
OneShort == 3           \* mutant: the room of the replacement without the reset

RecoveryHeadroom == 4

ManualRetryByHuman(emitted) ==
    /\ task.status \in {"failed", "rejected"}
    /\ BudgetAdmits(RecoveryHeadroom)
    /\ RetryToPending
    /\ EmitMetered(emitted)
    /\ reserved' = 3
    /\ UNCHANGED <<snapshot, rows, decisions, ladder, deleted, sessions, claims>>

-----------------------------------------------------------------------------
Next ==
    \/ \E a \in Agents, count \in PolicyCounts, emitted \in Emission :
          ClaimTask(a, count, emitted) \/ ClaimDelegatedTask(a, count, emitted)
    \/ \E p \in Remotes, count \in PolicyCounts : ClaimTaskForRemote(p, count)
    \/ \E a \in Agents, b \in Delegates : DelegateTask(a, b)
    \/ \E a \in Agents : \E t \in TokensOf(a), emitted \in Emission :
          \/ StartTask(a, t, emitted)
          \/ ReleaseTask(a, t, emitted)
          \/ \E S \in Assignments : SubmitTask(a, t, S, emitted)
    \/ \E a \in Agents : \E t \in TokensOf(a) : FailTask(a, t)
    \/ \E p \in Remotes :
          \/ StartTaskByRemoteParticipant(p)
          \/ ReleaseTaskForRemote(p)
          \/ \E S \in Assignments, emitted \in Emission : SubmitTaskForRemote(p, S, emitted)
    \/ \E r \in Reviewers :
          \/ ApproveTask(r)
          \/ AddReviewer(r)
          \/ RemoveReviewer(r)
          \/ \E p \in Policies, emission \in IF CrashAfterCommit
                                             THEN {"lost", "event", "full"} ELSE {"full"} :
                RejectTask(r, p, emission)
    \/ \E a \in Agents : CompleteTask(a)
    \/ \E h \in Humans, n \in ResolveCounts : ResolveRequirement(h, n)
    \/ SystemRelease
    \/ SystemFail
    \/ \E a \in Agents, byHuman \in BOOLEAN : DeleteAgent(a, byHuman)
    \/ \E receipt \in ladder, p \in Policies : DeliverRetryLadder(receipt, p)
    \/ \E p \in Policies, emitted \in Emission : ProcessPendingRetry(p, emitted)
    \/ \E emitted \in Emission : ManualRetryByAgent(emitted) \/ ManualRetryByHuman(emitted)

Spec == Init /\ [][Next]_vars

(* The deliverer drains on a timer and after each failure; the due pass    *)
(* runs every thirty seconds.  Clients and people owe the server nothing.  *)
Fairness ==
    /\ WF_vars(\E receipt \in ladder, p \in Policies : DeliverRetryLadder(receipt, p))
    /\ WF_vars(\E p \in Policies, emitted \in Emission : ProcessPendingRetry(p, emitted))

LiveSpec == Spec /\ Fairness

-----------------------------------------------------------------------------
(* A remote worker that never gives up: it starts and submits what it may. *)
RemoteWorkerSpec ==
    /\ Spec
    /\ \A p \in Remotes :
          /\ WF_vars(StartTaskByRemoteParticipant(p))
          /\ WF_vars(\E S \in Assignments, emitted \in Emission :
                       SubmitTaskForRemote(p, S, emitted))

(***************************************************************************)
(* Properties                                                              *)
(***************************************************************************)

CurrentOwner == IF task.assigned # Null THEN task.assigned ELSE task.remote

(* A row carries an execution token exactly while somebody has custody of  *)
(* the task, rejected rows included: every writer that ends an ownership   *)
(* clears the token and every writer that begins one mints it.             *)
TokenIffCustody == task.token # Null <=> task.status \in Holding

(* The token of a row in custody is the newest one ever minted, and its    *)
(* session is that of the row's owner: no older worker of the same agent,  *)
(* and no earlier owner, holds a token the epoch guard would admit.        *)
TokenNamesTheOwner ==
    task.token # Null => /\ task.token = ThisEpoch
                         /\ sessions[task.token] \in {task.assigned, task.remote}

(* The requirement's typed claimant is the owner in the task row, in every *)
(* status: two tables written by some twenty handlers agree on who may not *)
(* review the task.                                                        *)
ClaimantIsOwner == req.claimant = CurrentOwner

(* The token and the claimant of the requirement follow the custody of the *)
(* row through every call, sweep and retry.                                *)
CustodyIsHeld == TokenIffCustody /\ ClaimantIsOwner

(* A task in the pool has no owner and one in custody has one.             *)
OwnedIffHeld ==
    /\ task.status = "pending" => ~Owned
    /\ task.status \in Holding => Owned

(* A task never has a local and a remote owner under one token.            *)
OneOwner == task.assigned = Null \/ task.remote = Null

(* Custody by local agents and by remote participants exclude each other,  *)
(* and both exclude the pool.                                              *)
OwnershipIsExclusive == OneOwner /\ OwnedIffHeld

(* What the claim gate takes for granted: a pending row has no owner, so   *)
(* that an owner in the row means that somebody really claimed it.         *)
PendingIsUnowned == task.status = "pending" => ~Owned

(* The result under review was written by the worker of the current epoch, *)
(* never by one whose period or round is over.                             *)
ResultIsOfThisEpoch == task.status = "submitted" => task.result = task.token

(* A decision that counts in the current generation was taken in the       *)
(* current ownership period, and not in a round that has yet to come.      *)
DecisionsAreOfThisClaim ==
    \A r \in Reviewers :
        DecidedNow(req, decisions, r) =>
            /\ decisions[r].claim = claims
            /\ decisions[r].round <= req.round

(* While a task waits for review no reviewer's rejection of the submitted  *)
(* round stands: a resubmission always reopens the slot of its critic.     *)
ResubmissionReopensSlots ==
    task.status = "submitted" =>
        \A r \in Reviewers :
            DecidedNow(req, decisions, r) /\ decisions[r].verdict = "rejected"
                => decisions[r].round < req.round

(* The effective count is below the baseline only under an override that a *)
(* human recorded in the current generation.                               *)
RelaxationIsOfThisGeneration ==
    /\ req.activeOverride \in {Null, req.generation}
    /\ req.effective # Null /\ req.effective < Baseline(req)
           => req.activeOverride = req.generation

(* A proof of approval is current only while the approved row stands, and  *)
(* a row that may still be completed as approved carries a current proof.  *)
ProofIsOfThisApproval ==
    req.approvedGeneration # Null =>
        /\ task.status \in {"approved", "done"}
        /\ req.approvedGeneration = req.generation

(* The provenance pointers fence late receipts: each names the end of the  *)
(* newest epoch, and only while the row is in the state it was left in.    *)
PointersNameTheLastEnd ==
    /\ task.lastFailure # Null => task.status = "failed" /\ task.lastFailure = ThisEpoch
    /\ task.lastRelease # Null => task.status = "pending" /\ task.lastRelease = ThisEpoch

(* Bookkeeping may overdraw the transition budget by one retry_scheduled,  *)
(* and then the task stands in a state that only a human gets it out of.   *)
MeterIsBounded ==
    Ceiling # 0 =>
        /\ meter <= Ceiling + 1
        /\ meter > Ceiling => task.status \in {"rejected", "failed"}

(* The replacement that a human recovery made room for can still pay for   *)
(* what is left of its claim, start and submit.                            *)
RecoveryIsAffordable == Ceiling # 0 /\ reserved > 0 => meter + reserved <= Ceiling

(* The meter of a task keeps both promises of the transition budget.       *)
BudgetHolds == MeterIsBounded /\ RecoveryIsAffordable

(* The reviewers whose current approval backs the task, told by the        *)
(* ownership period they decided in and not by the projection.             *)
Backers ==
    {r \in Reviewers : /\ rows[r] # "none"
                       /\ r \notin {task.assigned, task.remote}
                       /\ decisions[r] # Null
                       /\ decisions[r].verdict = "approved"
                       /\ decisions[r].claim = claims}

Earned ==
    /\ ~Unresolved(req)
    /\ \A r \in Reviewers : rows[r] # "none" => r \in Backers \cup {task.assigned, task.remote}
    /\ Cardinality(Backers) >= IF req.activeOverride # Null THEN req.effective ELSE Baseline(req)

(* A task becomes approved or done only when every assigned reviewer but   *)
(* its owner approved it in this ownership period, and there are as many   *)
(* of them as the policies seen so far ask for, or as a human allowed.     *)
FinalityIsEarned ==
    [][task'.status \in {"approved", "done"} /\ task'.status # task.status => Earned']_vars

(* No step lowers the baseline: not a claim under a weaker rule, not the   *)
(* end of an ownership, not a relaxation, not the resolution of an unknown.*)
BaselineNeverDrops == [][Baseline(req') >= Baseline(req)]_vars

(* What history made unknown stays unknown until a human resolves it: no   *)
(* step that touches the task makes it known.                              *)
UnknownIsSticky ==
    [][req.state = "legacy_unknown" /\ req'.state # "legacy_unknown" => UNCHANGED task]_vars

(* A ladder receipt that changes the row belongs to the newest epoch, and  *)
(* the retry count frozen in it is still the row's: whatever was retried,  *)
(* claimed or failed in between makes a late receipt inert.                *)
LateReceiptsAreInert ==
    [][\A receipt \in ladder \ ladder' :
          task' # task => /\ receipt.event = ThisEpoch
                          /\ receipt.retryCount = task.retryCount]_vars

(* A failure with retries left is not forgotten, even if the server dies   *)
(* right after recording it: the task leaves the failed state.             *)
FailureIsRetried ==
    \A n \in 0..MaxRetryCount :
        (/\ task.status = "failed" /\ task.retryCount = n /\ n < MaxRetryCount
         /\ \A p \in Policies : Policy(p, n, "failed"))
            ~> task.status # "failed"

(* A due row does not stay due: it is retried, escalated or retired.       *)
DueRowIsActedOn ==
    (task.nextRetry /\ task.status \in {"rejected", "failed"} /\ task.retryCount < MaxRetryCount)
        ~> ~(task.nextRetry /\ task.status \in {"rejected", "failed"})

(* Neither a failure nor a due row is left alone by the sweeps.            *)
FailuresAreRetried == FailureIsRetried /\ DueRowIsActedOn

(* A remote contributor that claimed a task can carry it to submission:    *)
(* as long as it keeps trying, the task does not stay claimed.             *)
RemoteClaimIsWorkable ==
    (task.status = "claimed" /\ task.remote # Null) ~> task.status # "claimed"

(* The abstract view: periods of ownership, and the evidence of each.      *)
StandingApprovals ==
    {r \in Reviewers : DecidedNow(req, decisions, r) /\ decisions[r].verdict = "approved"}

Periods == INSTANCE OwnershipPeriods WITH
    Holders  <- Claimants,
    Judges   <- Reviewers,
    Nobody   <- Null,
    holder   <- CurrentOwner,
    period   <- claims,
    evidence <- StandingApprovals,
    accepted <- task.status \in {"approved", "done"}

(* The task service keeps the promise of OwnershipPeriods: whatever call,  *)
(* sweep or retry ends or moves an ownership, the approvals given to it are*)
(* evidence for nobody else's work.                                        *)
ImplementsPeriods == Periods!Spec

=============================================================================
