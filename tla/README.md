# Orcy in TLA+

Specifications, model checks and proofs for the Orcy API server (`src/packages/api`), the
part of the repository that decides who works on a task, who reviews it, what happens when
work fails, and what is created, delivered and authorized around it. The reference is
always the code; where a document says something else, see
[Disagreements](#disagreements-with-the-documents).

## The system

Orcy is a monorepo. The API server keeps all state in SQLite; the user interface, the
command line, the MCP server, the standalone daemon and remote pods are its clients.
SQLite and the driver are synchronous, and every writer runs in a transaction that is
immediate or a single statement: **a service call up to its commit is one atomic step**.
What interleaves is

- calls: many clients, each with an execution token, a key or a screen of any age;
- timers: the due-row pass of the retries (30 s), the effect deliverer, the dispatch of
  creations, the scheduler and its recovery workers, the inbox drains, the notification
  worker, the staleness and session sweeps, and the recalculation of a mission (100 ms);
- processes: leases and fences in the tables are there because several may share one
  database, and each may die between any two of its transactions;
- the tail of a call: several handlers emit their event *after* the commit, and a crash in
  between loses the event and everything that the emission triggers (the budget meter, the
  assignment of reviewers, the arming of a retry after a rejection, a mission's status).

A call that does several transactions, or awaits something between a read and a write, is
several actions, and everything else may come between them.

### Inventory

| Component | State | Operations | What is hard | What makes it correct |
|---|---|---|---|---|
| Review requirement kernel (`repositories/reviewSafety.ts`, `services/reviewFinalityService.ts`) | one requirement row per task, claim snapshots, decisions, overrides | capture on claim, end of ownership, round bump, proof stamp, human resolution or relaxation, projection, finality | some ten writers must invalidate the same row; unknown history; approval judged before it is recorded | no evidence, relaxation or proof outlives its ownership; the baseline never drops; finality is earned |
| Task lifecycle and custody (`services/tasks/task-lifecycle.ts`, `repositories/taskStateMachine.ts`, `repositories/claimAuthority.ts`, `services/tasks/task-delegation.ts`) | the task row: status, two owner columns, delegate, token, provenance pointers | claim, delegate, claim delegated, start, rework, submit, approve, reject, complete, release, fail | stale workers; offers that outlive their owner; crash after commit | one live token, held by the owner; the review claimant follows the owner |
| Remote lifecycle (`services/tasks/remote-task-lifecycle.ts`) | the same row, remote owner column | claim, (start), submit, release | two owner columns | never two owners |
| Reviewer assignment, transition budget, release and failure with effects, retry ladder, agent registry (`services/reviewAssignmentService.ts`, `services/tasks/transitionBudget.ts`, `services/effects/releaseEffects.ts`, `services/retryService.ts`, `services/agentService.ts`) | `task_reviewers`, a count over `task_events`, `next_retry_at`, `retry_count`, agents | assign, guard, release, fail, arm, deliver, due-row pass, delete an agent | roster edits between approval and completion; events lost in a crash; late receipts; edited policies | bounded overdraft; a human recovery stays affordable; late receipts are inert; failures are retried |
| Effect receipts (`repositories/effectReceipts.ts`, `services/effects/effectDeliverer.ts`) | receipts, detector targets, intents, each with lease, fence and attempts; plugin runs | reserve, work, acknowledge, fail, sweep, requeue | crash while leased; a fence lost under work; a cap on attempts; an aggregate of targets | acknowledged once; signals once; the parent sums up its targets; one live run per detector |
| Workflow recovery (`services/workflow/`, `services/taskRecoveryPublication.ts`) | gates, handoffs, attempts, failure contexts | satisfy, hand off, publish, link, redeem | two paths (live and receipts) to one row; crash between capture and publication | one recovery per gate, linked to the failure it recovers |
| Task publication (`services/taskCreationPublication.ts`, `services/creationDispatchWorker.ts`, `services/taskCreationAssignmentCoordinator.ts`) | creation attempts, dispatch targets, assignment reservations | reserve, publish, dispatch, claim, assign, expire, recover | two workers and a lease; a deadline that races a claim; a task deleted under dispatch | one task per key; observed before it is assigned; decided once |
| Scheduled occurrences (`services/scheduledOccurrencePublication.ts`, `repositories/scheduledOccurrences.ts`) | schedules, occurrences, attempts, repairs | poll, run early, edit, claim, publish, recover, repair | edits under a running pass; a reclaim budget; two passes of one occurrence | one reservation per instant; an outcome never changes |
| Missions and dependencies (`services/missionService.ts`, `services/dependencyService.ts`, `services/tasks/transition-emitter.ts`) | two dependency graphs, the stored status and the column of a mission | publish, wire, edit, move, archive, delete, recalculate | checks of cycles over two graphs; a recalculation lost in a crash | no circle; the stored status is the derived one; work in order |
| Daemon sessions (`repositories/daemonSession.ts`, `services/daemonSessionRecovery.ts`, `packages/daemon`) | sessions bound to epochs, the daemon's memory, its processes | claim, start, report, sweep, restart, stop, rework | daemons that die and leave processes; lost reports; silent agents | a session acts only on its own epoch; nothing stays with a worker that is gone |
| Automation inbox (`services/automationInboxService.ts`) | entries, deliveries with generations, checkpoints, runs, completions | admit, lease, act, settle, hand over, waive, open anew | a lease that runs out under an unsafe action | no unsafe action twice without an operator |
| Notifications (`services/notificationDeliveryWorker.ts`, `repositories/notificationChannelState.ts`) | deliveries, units, attempts, in-flight requests | plan, claim, send, settle, lapse, stop, answer, clear | an answer after the claim is gone; an answer of the recipient under work | one verdict, derived from the units; no unit past its reservations |
| Learning loop (`services/extractionRunLifecycle.ts`, `services/extractionPromotionService.ts`, `services/findingTriageLifecycle.ts`, `services/releaseReconciliationService.ts`) | work items, attempts, findings, promotions, activation epochs, projections | extract, review, promote, detect, activate, project | two processes on one window; a promotion cut short; a release delivered twice | one line of revisions; decisions of what was seen; the cap holds |
| Role governance (`services/localRoleAdministration.ts`, `services/localAuthorization.ts`, `services/governanceCustody.ts`) | ledgers, roles, grants | grant, revoke, revise, delete, restore | custody over every deletion; expected versions | grants are of what is there; accepted screens are true |
| Import (`services/importManifest/importPublication.ts`) | import row, attempts, the habitat's stamp | reserve, preflight, lease, publish, carry on | drift between preflight and publication | one manifest, over what was looked at |
| Remote access (`services/remoteAccessAdminService.ts`, `services/remoteGrantTime.ts`, `middleware/remoteAuth.ts`, `middleware/idempotency.ts`) | invites, pods, participants, credentials, grants, streams; idempotency records | accept, issue, grant, revoke, suspend, stream; register, execute, complete | grace windows; takeover after thirty seconds | authority only fades; a key is executed once unless taken over |
| Wiki, analytics, teams, templates, code evidence; user interface, command line, MCP server, installer | records edited in place; clients | | no protocol of their own | left out |

`PROJECT.json` lists every component with its status and what is left out of it, every
hazard at its line with the properties about it, and the lines each definition models.

## The modules

| Module | What it is |
|---|---|
| `ReviewRequirement` | The review requirement as pure operators on one row: capture, end of ownership, resolution, projection, finality. No variables. |
| `TaskLifecycle` | The state machine of one task: one action per service call, sweep or delivery, over the task row, its requirement, reviewers, decisions, meter and ladder receipts. EXTENDS `ReviewRequirement`. |
| `OwnershipPeriods` | What the service promises: numbered periods with at most one owner, evidence that dies with its period, acceptance that ends both. Implemented by `TaskLifecycle`. |
| `EffectReceipts` | The outbox behind one failure or release: receipts, detector targets, intents, leases, fences, plugin runs and what the consumers write. |
| `OutboxLedger` | What the outbox promises: a unit is open until done or parked, done is for good, a detector puts out its signals once. Implemented by `EffectReceipts`. |
| `WorkflowRecovery` | on_fail gates, handoffs, recovery publications and failure contexts, driven by rejections (live) and by the receipts of a failure. |
| `TaskPublication` | The publication kernel: requests, dispatch workers, the observation gate, assignment reservations. |
| `ScheduledOccurrences` | One schedule, its occurrences, their publication under leases, and repairs. |
| `Board` | Missions and tasks of a habitat: both graphs, derived status, deferred recalculation. |
| `ImportPublication` | The import of a manifest, as a new habitat or over one. |
| `DaemonSessions` | Daemons, sessions, worker processes and the recovery of their tasks. |
| `AutomationInbox` | The durable inbox of one shipped release. |
| `NotificationDelivery` | Units, attempts and verdicts of notifications. |
| `ExtractionRuns`, `FindingPromotion`, `ReleaseActivation` | The learning loop: extraction, review and promotion, activation by a release. |
| `RoleGovernance` | Ledgers, roles and grants under deletions and restores. |
| `RemoteAccess`, `RemoteRequests` | What a remote participant may do, and its idempotency keys. |
| `MC_Task`, `MC_Ladder`, `MC_Effects`, `MC_Creation`, `MC_Workers`, `MC_Learning`, `MC_Governance`, `MC_Board` | Finite instances for TLC. |
| `*Proofs` | Theorems; see [The proofs](#the-proofs). |

### How the state corresponds to the code

What each variable stands for is said where it is declared, and what each action stands for
is in `PROJECT.json` under `map`, with lines. The choices that are not obvious:

**The task.** `task` is a row of `tasks`: `assigned`, `remote`, `delegatedTo`, `token`,
`lastFailure`, `lastRelease`, `retryCount`, `nextRetry` (is `next_retry_at` set), `result`
(which epoch's worker wrote it). `req` and `snapshot` are the row of
`task_review_requirements` and the count of the latest claim snapshot; `rows` and
`decisions` are `task_reviewers` and the latest decision per reviewer; `meter` is
`countMeteredTransitions`, kept when there is a ceiling; `ladder` holds undelivered
`retry_ladder` receipts. `sessions`, `claims` and `reserved` are history: who each token was
minted for, how many ownerships began, what a human recovery still promises. Properties read
them; of the actions, only workers do, to know which tokens they were ever given.

A token is a fresh uuid in the code; here it is the index of its minting. A failure or
release event is named by the epoch it ended. `requirement_version` is left out because a
resolver reads and writes in one step. A refusal in the code (a veto, a failed quality gate,
an unmet dependency, a lost compare-and-set, a denied grant) leaves the row as it was: it is
a stutter and not an action. Guards that only narrow who may call are left out, so the model
allows more callers than the code; the safety results carry over.

- `SubmitTask` contains the reviewer assignment that its emission triggers; the strategies
  are one nondeterministic choice of reviewers within the bounds the code keeps.
- `RejectTask` has three endings, chosen by when the process dies: everything, the event
  without the retry trigger, or the row alone. `Emission` does the same for the other
  handlers that emit after the commit.
- `SystemRelease` and `SystemFail` stand for the staleness sweep, automation, daemon
  recovery and plugins, which differ in when they call and not in what is written.
- `DeleteAgent` has the code's three cases: release, unassign in place, nothing held.
- `Policies` is read again at each decision, so a policy may be edited between any two steps.

**Leases.** Time is abstracted to whether a lease has run out, except where the code compares
instants (`AutomationInbox`, `RemoteAccess`, `ScheduledOccurrences`), which have a clock. A
fence, like a token, is the index of its minting. A worker between two of its transactions is
a record in a variable of its own (`flight`, `worker`, `pass`, `drain`, `sends`, `work`,
`call`): it holds what the code read before it awaited, so that stale reads are possible.

**Crashes** drop those records and what the process kept in memory, and never a row.

**Deletions** of tasks, rules, agents and resources are actions wherever the code must cope
with rows that are gone.

**The board.** A transition commits first and its mission is recalculated afterwards: `owed`
holds what a request or the timer will still do, `astray` and `byHand` remember what was lost
in a crash or set by hand. These histories are read by properties only.

## The runs

A run that checks several components takes one of its `part`s at the start and stays in it:
an INSTANCE of a module with its own bounds, while the variables of the other parts rest.
This is sound because the parts share no state. Where two of them touch in the code (a
receipt and the recovery of its workflow, an occurrence and the publication kernel), they do
so in transactions that both modules have. Every run has `CHECK_DEADLOCK FALSE`: what is
done stays done, and the bounds end the other behaviours.

| Run | Parts and bounds | Shows |
|---|---|---|
| `review` (`MC_Task`) | 2 agents, 2 humans, rules that ask for 0, 1 or 2 reviews, resolutions to 0 or 1, a roster edited while the task is out, 3 tokens, 1 rework per generation | `TypeOK`; evidence, relaxation and unknowns stay in their period; finality is earned; the baseline never drops |
| `custody` (`MC_Task`) | 2 agents delegating to each other, 1 human, 4 tokens, 1 rework, 1 retry, 1 deletion, crashes after commit | one live token names the owner; the claimant is the owner; results, proofs and pointers are current; `OwnershipPeriods` is implemented |
| `ladder` (`MC_Ladder`) | *budget*: ceiling 7, edited policies, delegation, crashes, 4 tokens, 2 retries; *retry*: a policy of two retries, 6 tokens, 3 retries, fair delivery; *remote*: 1 agent, 2 remote participants, one exempt, no delegation, 3 tokens | overdraft of at most one and affordable recovery; late receipts are inert; failures and due rows are acted on; one owner, exactly while in custody |
| `effects` (`MC_Effects`) | *barrier*, *retried*: the ordered receipts of one process, requeued or tried twice; *redrive*: a detector driven again by several processes; *pair*: two detectors under one aggregate; *settling*: a detector with its intents, fair; *live*, *outboxed*, *gates*: recovery on the live path two deep, through receipts, and either over two gates, with crashes | receipts, targets, runs and contexts agree; `OutboxLedger` is implemented; gates, handoffs, attempts and contexts agree; every unit settles |
| `creation` (`MC_Creation`) | *requests*: two requests and two workers on one key; *published*: two keys in a page of two, fair; *cadence*, *passes*, *repairs*: a schedule with two edits, three processes with crashes and denials, three repairs; *templates*, *handlers*: both shapes, fair, with denials without limit | one task per key, observed before assigned; one reservation per instant; no outcome changes; both are decided in the end |
| `workers` (`MC_Workers`) | *deliveries*, *notices*: every set of channels, stops, toggles, an administrator; *sessions*, *crowd*, *recovery*, *embedded*: crashes, lost requests, silence, refused drives; *inbox*, *flow*: two drains through two generations, two rules | one session per epoch; no unsafe action twice; one verdict per delivery; nothing stays with a worker that is gone |
| `board` (`MC_Board`) | *edited*: two tasks in two missions, every command, a timer and a crash; *wired*: three tasks under any dependencies; *fair*: a setback and a crash under fairness; *import*: three requests, two manifests, one id | no circle, status derived, work in order, finishable work is finished; one manifest over what was looked at |
| `learning` (`MC_Learning`) | *promotion*: two people in two processes; *hurried*: one person in two processes, three calls in two milliseconds, a call cut short and an edit of the pages; *retried*: five calls of one person, one after another, four of them cut short, two edits of the pages; *runs*, *restarts*: overlapping windows, lapses, a crash; *detections*, *redeliveries*: two detections of one release, or one again and again | revisions form a line; decisions are of what was seen; a recorded page is replaced only under a shared lease; calls one after another make one page; the cap holds; runs and releases conclude |
| `governance` (`MC_Governance`) | *custody*: deletions and restores under grants; *roster*: two admins; *office*: definitions, revisions, expiry; *access*: one pod, two credentials, a grant with two hours of grace; *keys*: three requests under one key | grants are of what is there; accepted screens are true; authority comes from grants and only fades; a key is executed once unless taken over |
| `dual_owner`, `stranded`, `remote_submit` (`MC_Task`) | as small as the behaviour needs | the first three disagreements below |

Why these bounds are enough: one period, the next and a third suffice for evidence of a
period to be misused in a later one and for that to be mended or missed; a second rework in
one generation adds nothing, because rounds are only compared with each other; two agents
are an owner and a rival, who may also be a reviewer; two humans with a count of two make a
quorum that one reviewer cannot meet. The ceiling of seven lets a first attempt spend enough
for the recovery headroom to be both admitted and refused. For leases, one lapse per actor
and one crash reach every order of reservation, takeover and late return; caps of one and
two attempts show the last attempt and the one before it. Two members are the smallest
family with a partial failure; three tasks the smallest circle that neither graph closes
with one edge. Two generations of a row (epoch, incarnation, successor, repair) are needed
to confuse them, and wherever it fits there is a third.

Each property has a mutant of the mapped code that breaks it; mutants are defined next to
what they mutate and named in `PROJECT.json`.

### Fairness

Assumed is only what timers and processes do; of agents, people, operators and remote
parties nothing is assumed, except where said.

- `ladder`: weak fairness of the delivery of ladder receipts and of the due-row pass
  (`startEffectDeliverer`, `startRetryProcessor`).
- `effects`, `workers`, `creation` (schedules): one weak fairness over a disjunction of due
  timers and process steps: as long as one of them can happen, one of them happens. This is
  weaker than fairness of each.
- `creation` (kernel): weak fairness of the worker, the lease expiry and the deadline; strong
  fairness of `Accept`: an adapter that is called again and again for a task that exists
  accepts some time. It is a premise about the adapters' targets.
- `workers` (inbox): weak fairness of the drain's interval and of the clock.
- `board`: weak fairness of `Progress`: agents carry on with what they may do.
- `learning`: weak fairness of a process's next step, its boot and a lease's end; strong
  fairness of `Detect` in *redeliveries*: nothing retries a release but another delivery,
  and this is the premise.
- `remote_submit` assumes a remote worker that keeps trying: the premise of its question.

A process that crashed is started again, and rows survive it.

## Disagreements with the documents

Three are runs that TLC finds violated:

1. **Two owners** (`dual_owner`). A delegation offer is a column that release, failure and
   retry leave alone. Offer, release, claim by a remote participant, claim by the former
   delegate: the task has a local and a remote owner. `notificationIntentCommand.ts` treats
   such a row as an `ASSIGNMENT_INTEGRITY` violation.
2. **A stranded task** (`stranded`). The release with effects clears the local column only.
   Released in that way, a two-owner row becomes pending with a remote owner, and the claim
   gate, whose comment takes an owner for a sign of a real claim, refuses everybody.
3. **Remote work cannot be submitted** (`remote_submit`). `startTaskByRemoteParticipant` has no
   route, and submission demands `in_progress`. `docs/SECURITY.md` says that remote
   contributors can claim and submit.

The part *remote* of `ladder` is the counterpart of the first two: without delegation the
invariants hold. It opens the start for remote participants, as the repository's tests do, to
reach the states behind it.

Others were met while modelling. The modules contain the behaviour, and the properties are
stated so that they hold of it; paths are under `src/packages/api/src` and `src/docs`.

*Receipts.* The retry transaction commits without its acknowledgement when the fence is lost
(`effectDeliverer.ts:513`; `ARCHITECTURE.md:2164` "a lost fence or an in-tx crash rolls back
everything"). The composer compares the expiry of its lease with the start of the pass
(`:920`; `ARCHITECTURE.md:2167` "unexpired"). A context receipt delivered while the gates
receipt was parked is not reopened when the gates are requeued and stamped (`:381`;
`ARCHITECTURE.md:2166`); this is why `StampsTheorem` has a hypothesis.

*Recovery.* The recovery pass runs before the sibling receipt captures the context, so its
success redeems nothing (`:346`), and the success of a second recovery fires the gates of the
first recovery only (`CAPABILITIES.md:228`, for both). A pending attempt reserved before the
capture is refused at the next pass (`taskRecoveryPublication.ts:671`;
`recoveryCoordinator.ts:130-131`). With two on_fail gates of one task the second linkage
throws at every pass (`taskRecoveryPublication.ts:475`; `recoveryCoordinator.ts:257-258`), and
a later rejection that fires the second gate captures a newer context, after which the pending
attempt of the first is refused on the live path too: `BlockedForCause` is stated for one gate
per task and no receipts.

*Creation.* A page of attempts that cannot move hides every newer one
(`creationDispatchWorker.ts:214` says the contrary); `CreationsSettle` is checked for a page that
takes every attempt of the run, so that it shows what becomes of the attempts that are reached. A resumed pass that rejects leaves
attempts pending (`scheduledOccurrencePublication.ts:1304`). A recurring schedule enabled or
retimed after an early run stops at the consumed instant (`HUMAN-GUIDE.md:46`).

*Workers.* A delivery reached late in a drain gets a short lease
(`automationInboxService.ts:69`). Deleting a rule removes an undelivered completion
(`db/schema/automation.ts:254`). A daemon forgets a session whose report failed, and its row
stays running (`packages/daemon/src/session/manager.ts:28`). An administrator's clearance
leaves the open units of a delivery as they are (`notificationDeliveryWorker.ts:35`).

*Learning.* A failed projection waits for another delivery of the release (`API.md:7489`), and
another delivery is not a no-op but resumes the first (`API.md:7471`). A run that lost its
lease still fails its item (`adr/0044-…:39`). A recovery may count a finding twice
(`ARCHITECTURE.md:1935`). A draft whose tags were edited is not found again
(`releases/v0.38.0.md:35`), a page that people gave the tag is taken for the draft, and of several
the one whose title comes first. The lease of a promotion is the person and the millisecond
(`extractionWikiDestination.ts:153-154`), and a call that finds its own lease in the row goes on
(`:212`): two processes that promote for one person in one millisecond may both make a page, and
the second target replaces the first, contrary to "at most one Habitat Wiki draft" (`:124`). `TargetStays` and
`TargetTheorem` except this case, and the part *hurried* reaches it.

*Board.* Deleting a task recalculates nothing, since the row is gone when the emitter looks
for its mission (`API.md:1428`); the markers `mission_recalculation_markers` are consumed by
nobody, contrary to the comments at `taskPublicationCoordinator.ts:112-116` and
`db/schema/taskPublication.ts:392`; a crash between commit and emission loses a recalculation
and no boot repairs it. `PATCH /missions/:id` sets the status by hand and edits edges of
missions without the cycle check (`ARCHITECTURE.md:1003`). Tasks may depend on tasks of other
missions (`ARCHITECTURE.md:1001`), so that a circle through both graphs is possible though
neither has one. No CHECK constraint prevents self-dependency at the database
(`ARCHITECTURE.md:1004`). The properties bound these, they do not deny them: `StatusAgrees` leaves
out the missions that lost a recalculation, `DoneIsFinished` and `OrderIsKept` those set by hand,
and `WorkIsFinished` the tasks that wait behind one of them or behind a circle of both graphs.

*Governance and remote access.* A restore whose resources go between its preparation and its
publication brings grants back over what is gone (`CAPABILITIES.md:331`); the constant
`RestoreRaces` opens it. A revoked pod or participant can be suspended and then activated
(the endpoints' docs say "Permanently revokes"); a grant that was revoked softly cannot be
revoked at once within its grace. Nothing in production calls `expireActiveGrants`,
`expirePendingInvites`, `expireCredentials`, `deleteExpiredIdempotencyKeys` or
`addGrantTaskSnapshot`. A crash after a command's commit and before its record is completed
lets a retry after thirty seconds execute again, or fail a claim that succeeded. A crash
between the steps of an invite's acceptance leaves it accepted without a pod. When a step after the
acceptance throws, the catch revokes the pod, if it knows it, and the accepted invite
(`remoteInviteService.ts:252-262`), and either of the two may fail: what is left can be a pod, with
or without a participant, under a revoked invite, and the host can activate it
(`AcceptanceFails`; such an invite is called "undone", to tell it from one its host revoked). An import row
that is `reserved` when its process dies stays so.

## The proofs

TLC checks small instances; the theorems hold for every value of the constants that the named
assumptions admit. Each is proved from an inductive invariant, with one lemma per action or
per group of actions that move the state alike.

| Module | Theorems | Inductive invariant and argument |
|---|---|---|
| `TaskLifecycleProofs` | `TypeTheorem`, `RelaxationTheorem`, `BaselineTheorem`, `UnknownTheorem` | Lemmas about every kernel operator, for every row: it returns a row, keeps it *coherent* and does not lower its baseline. `Coherent` says which columns each state fixes; the `CHECK` clauses of the migration that made the table ask the same. `StepMovesRequirement`: whatever the action, the requirement moves by one operator or not at all. |
| `TaskCustodyProofs` | `DecisionsTheorem`, `ProofTheorem`, `ReopensTheorem`; `TokenTheorem`, `ResultTheorem`, `PointersTheorem`, `LateReceiptsTheorem`, `BudgetTheorem`; `ExclusiveTheorem`, `CustodyTheorem`, `PeriodsTheorem`, `FinalityTheorem` | `EvidenceOfThisClaim` bounds the generation of *every* recorded decision by the row's, so that no later generation meets an old decision. Every step drops the proof, stamps it on an approved row, or keeps it where a final row stays final. `Reopened` carries the slots of a rework to the resubmission. `Custody` is inductive as a whole though none of its parts is: the token needs the status, the result needs the token, and the pointers are gone by the time an epoch is minted. `ReceiptsOfPast`: a waiting receipt names an epoch that is over and freezes the row's count as long as that failure stands. `Affordable`: what the meter may still owe in each status. Ownership is proved under `OneKindOfContributor` (nobody delegates, or nobody is remote): the run `dual_owner` shows that it cannot be dropped. `OffersToDelegates` and `Owners` tie both columns to the kinds; `OwnershipMoves` maps each action to a step of `OwnershipPeriods` or a stutter. `FinalityTheorem` counts approvals without generations (`Final => Earned`). |
| `EffectReceiptsProofs` | `ReceiptsTheorem`, `StampsTheorem`, `LedgerTheorem`; `RecoveryTheorem` | `EffectsInv`: rows, leases, jobs in flight, runs and outputs agree, and the parent is what its targets derive (`ParentIsDerived`). `SoundStep` describes every step by the edges units take, from which the refinement of `OutboxLedger` follows. `StampsTheorem` assumes that in one process nobody requeues a parked gates receipt (`GatesStayParked`); the code does not forbid it, and the disagreement above is what then happens. Recovery (`RecoveryInv`): a gate is linked exactly when its recovery task exists and a consumed handoff has a created attempt (`Linked`), so that a publication never revives a task that a success rests on (`EarnedKept`). Where only rejections fail a task and no task has two gates (`Alone`), a capture comes before any attempt that could read it (`CaptureIsFirst`) and a context is resolved only after its own attempt is published (`ClaimsAreOwn`), so that a pending attempt keeps its fingerprint (`FingerprintsHold`) and nothing is blocked for an edit. |
| `TaskPublicationProofs` | `PublicationsTheorem`; `OccurrencesTheorem`, `FinalOccurrenceTheorem` | `PublicationInv`: what each state of an attempt says of its task, targets, reservation and lease; what a worker or a request remembers of a row that may have moved; and the order of keys without repetition. Schedules (`OccurrenceInv`): an instant is unborn or its records fit (`SlotFits`): whoever still owns an occurrence whose budget is spent can only give it up (`Bounded`), the Missions of repairs are the stamps of success and a repair in flight has a claimed number not yet concluded (`Mended`). `RewritesKeeps` is one lemma for every step on the records of one instant, and its `Settles` is what `FinalOccurrenceTheorem` states of a step. |
| `WorkerProofs` | `NotificationsTheorem`; `SessionsTheorem`, `TakenTheorem`; `InboxTheorem` | `NotificationInv`: verdicts follow from units (`Notified`), requests in flight have their attempt (`InFlight`), and the units of a finished delivery are what its status says (`Ready`). Sessions (`SessionInv`): no row and no process knows an epoch later than the one the Task has, a process knows an epoch of its own session only (`EpochIsOfOne`) and an open row carries it (`OpenCarries`); a claim that comes late therefore meets an epoch that is over, and the limit is counted (`CapacityHolds`). Inbox (`InboxInv`): a lease carries the last fence of its entry (`EntriesFit`), evidence accounts for every effect (`BooksFit`), a successor starts from what its terminated predecessors proved (`GensFit`), and a drain acts under its own fence (`DrainsFit`, `Apart`): the drain with the first lease alone starts what is not safe to repeat, each action once, and every later one finds that it was started. Most steps leave evidence alone (`QuietKeeps`); those that write it touch one action (`BookKeeps`, `ActKeeps`). |
| `BoardProofs` | `BoardTheorem`, `OrderTheorem`; `ImportTheorem`; `ReleaseTheorem` | A set without minimal element is a circle: an edge that passes the check of `WouldCreateCycle` keeps the graph without one (`CheckedEdge`), and so do deletions and publications. The stored status agrees unless the mission is owed, astray or set by hand. Import: every request under way brings the content that reserved the id (`SameContent`). Release: a Finding that waits is attributed to no Release (`Linked`), so that an activation takes none from another; a group is disposed of once, while its epoch is open (`EpochFits`), and whoever is past the activation counted what the epoch activated for good (`DetectionFits`), so that every projection tells it (`ProjectionFits`). |
| `LearningProofs` | `FindingTheorem`, `TargetTheorem`, `OnePageTheorem`; `RunsTheorem`, `FenceTheorem` | Promotion: a lease names a person and a millisecond, and `begun` counts the calls that began under it. The row is under a lease some call began with (`RowFits`); while one call alone has that lease, the row has no page but the one this call recorded (`CallFits`), and two calls under way have different leases or share one that is counted twice (`LeasesDiffer`). `TargetTheorem` therefore excepts the shared lease, under which the code does replace the page. Where calls come one after another (`OneCaller`), whoever is about to create a page found none with the tag it was made with (`MadeOnce`): what was cut short is found again by its tag, or by another page that people gave it, and no second page is made. Runs: only the last attempt of an item runs (`AttemptsFollow`), one process is entitled to open the next one, and nothing follows a run that will announce its item (`OneTells`); the newest revision of a claim exists (`Line`), so that the next one extends it. |
| `GovernanceProofs` | `RolesTheorem`, `GivenTheorem`, `LedgersTheorem`; `KeyTheorem`, `AnswersTheorem`; `AccessTheorem`, `FadingTheorem` | Roles: the chain of a resource is read from a map of parents (`Shaped`), which a lost team cuts and a new habitat extends. `Moves` says what any step does: a scope stays, is bumped, goes, is renewed or comes; a role or a grant changes only where the ledger of its scope is bumped, gone or renewed, but for the grants of a deleted agent. Every action is one of these moves (`StepMoves`), and the moves keep `GovernanceInv`. What makes it inductive: roles in use are of their namespace's incarnation (`RolesAreCurrent`), as grants are of their scope's, what is alive lies in what is alive (`Rooted`), what an import restores stays (`Restorable`), and nobody has seen a scope later than it is (`SeenBefore`). Key: `LetIn` counts who was let execute, one and one per takeover; the effects and those about to execute never exceed it (`OnlyTheGranted`), what is completed was done (`TellsWhatWasDone`), and whoever gave the verdict is done (`VerdictIsLast`). Access: a pod stands under an invite that was accepted, even where a failed acceptance undid it afterwards, and never under one its host revoked; stamps are never of the future (`StampsAreOfThePast`), so that deadline and revocation alone say what a grant gives, before and after a sweep rewrites its row (`StampsTell`). |

Assumptions: the named ASSUMEs of the modules (`Null` is neither a number nor an actor, the
kinds of contributors are disjoint, rules ask for natural numbers, sets are finite where they
are counted, bounds are natural numbers) and the hypotheses above, `OneKindOfContributor`,
`Deployment` (an event with consumers that the code knows, a cap of at least one) and
`GatesStayParked`; `ImportTheorem` and the two of the key ask that `Requests` are told from the
words a row holds instead of one (`KeyHypotheses`, which also says that bounds are numbers), and
`RunHypotheses` asks the same of items and candidates, and that a window yields candidates;
`AccessHypotheses`: hours and bounds are numbers, and a credential is told from none.
`SessionHypotheses` says that a limit is a number, `InboxHypotheses` that plans are sequences of
the kinds of actions the code knows, that there is a first generation, and that bounds are numbers;
`ReleaseHypotheses` that a Finding is linked to a listed Mission or none, that a cap is a number or
absent, and that no name is the word for none; `ScheduleHypotheses` that bounds are numbers, that
schedules are of the two kinds and that no worker has the word for none as its name;
`RecoveryHypotheses` that bounds are numbers, that the first task is not named as a recovery and
no task as none. `OnePageTheorem` asks for one caller (`OneCaller`): two calls at a time may both
look for the tag before either makes its page.
`HierarchyAssumption` says which kind of resource lies in which, as the foreign keys do. The
three theorems of governance ask for `~RestoreRaces`, that what an import restores stays until
it is published: otherwise a restored resource may live with a retired ledger, see
[Disagreements](#disagreements-with-the-documents).
TLC evaluates every ASSUME, and the runs are instances of the hypotheses.

`ReceiptsAgree` and `ImplementsLedger` of the run `effects` are the conjunctions of what
`ReceiptsTheorem`, `StampsTheorem` and `LedgerTheorem` state, for the instances of the run;
`HabitatAgrees` of the run `board` is related in the same way to
`BoardTheorem` and `ImportTheorem`, `RunsAgree` to `RunsTheorem`, `ReleaseAgrees` to `ReleaseTheorem`, and `DecisionsStand` to
`TargetTheorem` and `FenceTheorem`. In the run `governance`, `AuthorityAgrees` is what
`RolesTheorem`, `AccessTheorem` and `KeyTheorem` state, and `AuthorityMovesOn` what
`GivenTheorem`, `LedgersTheorem`, `FadingTheorem` and `AnswersTheorem` do. `SessionsAgree`,
`TakenFromTheEnded` and `InboxAgrees` of the run `workers` are what `SessionsTheorem`,
`TakenTheorem` and `InboxTheorem` state, for the instances of the run, and `OccurrencesAgree` and
`OccurrenceIsFinal` of the run `creation` are what `OccurrencesTheorem` and
`FinalOccurrenceTheorem` do. `RecoveryAgrees` of the run `effects` is what `RecoveryTheorem`
states, for the three instances of the run. That no second page is made
while the first has the tag it was made with, a part of `DecisionsStand`, is checked where one caller
runs and is what `OnePageTheorem` states.

Most leaves take a prover well under a second; some that range over whole rows or sets of
overlapping processes are given more time by name (`SMTT(30)`, `ZenonT(40)`), so that the proofs do
not depend on the speed of the machine.

Only model-checked: liveness (`RetriesFollow`, `EveryUnitSettles`, `CreationsSettle`, `NothingIsStranded`,
`LearningConcludes`, `WorkIsFinished`): fairness and ENABLED are out of the prover's reach.

## Not modelled

Beside the components that `PROJECT.json` lists as left out, these details of modelled ones:

- formats, reasons, audit rows and wording everywhere; the backoff of a retry is a flag;
- the content of proposals, templates, conditions, actions and evidence;
- governance: the denial of an agent's own task, the adapters of REST routes, changes of teams
  and of who is a viewer;
- board: the release gate and the gates of workflows (they are with `ReleaseActivation` and
  `WorkflowRecovery`), creation of missions, display order, the version check of an edit, and
  the atomicity of the dependency check across processes;
- import: the order and content of the domain writes and the replay of a finished one;
- remote access: expiry of invites and credentials, several pods, providers, webhooks;
- plugins: enrollment, throttling and quarantine;
- event stream: local streams, replay and presence.

## Plan

1. Done: the modules above, their runs, and proofs of the task, its receipts, its publication,
   the board, the notifications, the sessions of daemons, the automation inbox, the learning
   loop with its promotions and activations, the import, the keys, the schedules, the recovery
   of workflows, and who may do what.
2. Model: backoff as time, the claim-time gates of workflows on the board, several pods.
