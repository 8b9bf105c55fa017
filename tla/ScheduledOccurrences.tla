------------------------ MODULE ScheduledOccurrences ------------------------
(* One schedule of the recurring-task scheduler and the occurrences it       *)
(* reserves: reservation and advance in one transaction, publication under a *)
(* lease, recovery of abandoned occurrences with a reclaim budget, edits of  *)
(* the schedule while work is in flight, and the repair of rejected          *)
(* occurrences.  Processes share the database, so the passes of the          *)
(* scheduler and of the recovery workers interleave between transactions.    *)
EXTENDS Integers, Sequences, FiniteSets, SequencesExt

CONSTANTS
  Workers,        \* recovery workers; every process starts one
  Shape,          \* "template" (inline tasks run the same body) or "handler"
  Kinds,          \* schedule types a user may choose: "once", "recurring"
  MaxSlot,        \* bound: the clock stops at this due instant
  MaxReclaims,    \* the reclaim budget of an occurrence, 3 by default
  MaxRetries,     \* bound: repairs of one occurrence
  MaxEdits,       \* bound: edits of the schedule
  MaxCrashes,     \* bound: crashes of a pass
  MaxDenials      \* bound: passes denied at commit, infinite when negative

VARIABLES
  clock,    \* the present instant
  sched,    \* the schedule row
  occ,      \* the occurrence of each due instant, by the unique index
  att,      \* the per-Task creation attempts of each occurrence
  retry,    \* the coordination attempts of the numbered repairs
  missions, \* which publications made a Mission: 0, or the repair's number
  pass,     \* where a process is in the publication of an occurrence
  repair,   \* the repair in flight, with the schedule it read
  spent     \* how much of each bound is used

vars == <<clock, sched, occ, att, retry, missions, pass, repair, spent>>

Slots == 0 .. MaxSlot
Never == MaxSlot + 2          \* the year 9999 of a consumed one-time schedule
Owners == Workers \cup {"scheduler"}
None == [state |-> "none"]
Idle == [at |-> "idle"]
Terminal == {"published", "rejected"}
Exists(s) == occ[s].state # "none"
Reserved == {s \in DOMAIN occ : Exists(s)}

Schedule == [exists : BOOLEAN, kind : {"once", "recurring"}, enabled : BOOLEAN,
             at : Slots, next : 0 .. Never, runs : Nat, title : {0, 1}]

(* The first instant after t, or the sentinel of a one-time schedule. *)
NextRun(kind, t) == IF kind = "once" THEN Never ELSE t + 1

Later(a, b) == IF a > b THEN a ELSE b

Init ==
  /\ clock = 0
  /\ \E k \in Kinds, a \in Slots :
       sched = [exists |-> TRUE, kind |-> k, enabled |-> TRUE, at |-> a, title |-> 0,
                next |-> IF k = "once" THEN a ELSE NextRun(k, 0), runs |-> 0]
  /\ occ = [s \in Slots |-> None]
  /\ att = [s \in Slots |-> "none"]
  /\ retry = [s \in Slots |-> [n \in 1 .. MaxRetries |-> "none"]]
  /\ missions = [s \in Slots |-> {}]
  /\ pass = [s \in Slots |-> [o \in Owners |-> "idle"]]
  /\ repair = [s \in Slots |-> Idle]
  /\ spent = [edits |-> 0, crashes |-> 0, denials |-> 0]

(***************************************************************************)
(* Reservation                                                             *)
(***************************************************************************)
(* The snapshot an occurrence keeps, with the schedule as it is expected to *)
(* stand once this reservation has advanced it.                             *)
Revision(nxt) ==
  [kind |-> sched.kind, title |-> sched.title, at |-> sched.at, next |-> nxt,
   enabled |-> sched.kind = "recurring", runs |-> sched.runs + 1]

(* Insert the occurrence with its coordination attempt, advance the schedule *)
(* and disable a one-time one, in one immediate transaction; an occurrence   *)
(* that exists already leaves everything as it is.                           *)
Reserve(s, nxt) ==
  /\ sched.exists /\ sched.enabled
  /\ ~Exists(s)
  /\ occ' = [occ EXCEPT ![s] =
       [state |-> "reserved", ordinal |-> sched.runs, snap |-> Revision(nxt),
        owner |-> "none", live |-> FALSE, reclaims |-> 0,
        coord |-> "pending", history |-> <<>>]]
  /\ sched' = [sched EXCEPT !.next = nxt, !.runs = @ + 1,
                            !.enabled = sched.kind = "recurring"]
  /\ pass' = [pass EXCEPT ![s]["scheduler"] = "reserved"]
  /\ UNCHANGED <<clock, att, retry, missions, repair, spent>>

(* The poller: the due schedule's own instant, advanced from now. *)
Poll ==
  /\ sched.next <= clock
  /\ Reserve(sched.next, NextRun(sched.kind, clock))

(* What the maintained history says of a one-time schedule. *)
Consumed == \E s \in Reserved : occ[s].snap.kind = "once"
HistoryUnknown ==
  ~Consumed /\ {occ[s].ordinal : s \in Reserved} # 0 .. (sched.runs - 1)

(* "Run now": consumes the displayed instant early, if it is still the       *)
(* current one, and advances beyond the later of now and that instant.       *)
RunNow ==
  /\ sched.next \in Slots
  /\ sched.kind = "once" => ~Consumed /\ ~HistoryUnknown
  /\ Reserve(sched.next, NextRun(sched.kind, Later(clock, sched.next)))

(***************************************************************************)
(* Edits                                                                   *)
(***************************************************************************)
Edit(new) ==
  /\ sched.exists /\ spent.edits < MaxEdits
  /\ new # sched /\ sched' = new
  /\ spent' = [spent EXCEPT !.edits = @ + 1]
  /\ UNCHANGED <<clock, occ, att, retry, missions, pass, repair>>

(* Titles, labels and templates may always be edited. *)
EditMetadata(t) == Edit([sched EXCEPT !.title = t])

Disable == Edit([sched EXCEPT !.enabled = FALSE])

(* Enabling or retiming needs an unconsumed entitlement and recomputes the   *)
(* due pointer; only a one-time schedule may not take a reserved instant.    *)
Retime(kind, at, enabled) ==
  /\ ~Consumed
  /\ ~(HistoryUnknown /\ "once" \in {sched.kind, kind})
  /\ kind = "once" => ~Exists(at)
  /\ Edit([sched EXCEPT !.kind = kind, !.at = at, !.enabled = enabled,
                        !.next = IF kind = "once" THEN at ELSE NextRun(kind, clock)])

Enable == Retime(sched.kind, sched.at, TRUE)

EditTiming == \E k \in Kinds, a \in Slots : Retime(k, a, sched.enabled)

(* Occurrences outlive their schedule. *)
Delete == Edit([sched EXCEPT !.exists = FALSE])

(***************************************************************************)
(* Publication of a reserved occurrence                                    *)
(***************************************************************************)
(* A user's edit since the snapshot: configuration, enablement, or the due   *)
(* pointer when no later reservation moved it.                               *)
Drifted(snap) ==
  \/ <<sched.kind, sched.title, sched.at>> # <<snap.kind, snap.title, snap.at>>
  \/ sched.enabled # snap.enabled
  \/ sched.runs = snap.runs /\ sched.next # snap.next

(* reserved -> publishing with a lease: the process that reserved it, or a   *)
(* recovery worker that finds the row unowned.                               *)
Claim(s, o) ==
  /\ occ[s].state = "reserved"
  /\ pass[s][o] = IF o = "scheduler" THEN "reserved" ELSE "idle"
  /\ occ' = [occ EXCEPT ![s].state = "publishing", ![s].owner = o, ![s].live = TRUE]
  /\ pass' = [pass EXCEPT ![s][o] = "claimed"]
  /\ UNCHANGED <<clock, sched, att, retry, missions, repair, spent>>

(* Mutant of Fenced: the owner is not compared.                             *)
FencedByState(s, o) == occ[s].state = "publishing"

Fenced(s, o) == occ[s].state = "publishing" /\ occ[s].owner = o

Closed(s, final, coord) ==
  [occ EXCEPT ![s].state = final, ![s].owner = "none", ![s].live = FALSE, ![s].coord = coord]

End(s, o) == pass' = [pass EXCEPT ![s][o] = "idle"]

(* Mutant of TerminalReject: the lease is not compared.                     *)
RejectUnfenced(s, o, closing) ==
  /\ occ' = Closed(s, "rejected", "rejected")
  /\ att' = att
  /\ End(s, o)
  /\ UNCHANGED <<clock, sched, retry, missions, repair, spent>>

(* The terminal rejection: coordination attempt, the given Task attempts and *)
(* the row in one transaction, rolled back when the lease is another's. On a *)
(* row already rejected only the Task attempts change.                       *)
TerminalReject(s, o, closing) ==
  /\ occ' = IF Fenced(s, o) THEN Closed(s, "rejected", "rejected") ELSE occ
  /\ att' = IF closing /\ att[s] = "pending" /\ (Fenced(s, o) \/ occ[s].state = "rejected")
            THEN [att EXCEPT ![s] = "rejected"] ELSE att
  /\ End(s, o)
  /\ UNCHANGED <<clock, sched, retry, missions, repair, spent>>

(* Before any attempt is reserved: the schedule is gone, or its template or  *)
(* handler is not valid.                                                     *)
RejectMissing(s, o) ==
  pass[s][o] = "claimed" /\ ~sched.exists /\ TerminalReject(s, o, FALSE)

RejectInvalid(s, o) ==
  /\ pass[s][o] = "claimed" /\ sched.exists /\ ~Drifted(occ[s].snap)
  /\ TerminalReject(s, o, FALSE)

(* A pass that ends without deciding: the row stays under its lease. *)
Abandon(s, o) ==
  /\ End(s, o)
  /\ UNCHANGED <<clock, sched, occ, att, retry, missions, repair, spent>>

StopOnDrift(s, o) ==
  /\ pass[s][o] = "claimed" /\ sched.exists
  /\ Drifted(occ[s].snap) \/ att[s] \in {"published", "rejected"}
  /\ Abandon(s, o)

(* The per-Task attempts are reserved, each in its own transaction. *)
Prepare(s, o) ==
  /\ Shape = "template"
  /\ pass[s][o] = "claimed" /\ sched.exists /\ ~Drifted(occ[s].snap)
  /\ att[s] \in {"none", "pending"}
  /\ att' = [att EXCEPT ![s] = "pending"]
  /\ pass' = [pass EXCEPT ![s][o] = "prepared"]
  /\ UNCHANGED <<clock, sched, occ, retry, missions, repair, spent>>

(* The aggregate transaction: it reads the schedule again, closes the row    *)
(* under its fence and the coordination attempt with it.                     *)
Publish(s, o) ==
  /\ pass[s][o] = "prepared"
  /\ sched.exists /\ ~Drifted(occ[s].snap)
  /\ Fenced(s, o) /\ att[s] = "pending"
  /\ missions' = [missions EXCEPT ![s] = @ \cup {0}]
  /\ att' = [att EXCEPT ![s] = "published"]
  /\ occ' = Closed(s, "published", "created")
  /\ End(s, o)
  /\ UNCHANGED <<clock, sched, retry, repair, spent>>

RollBack(s, o) ==
  /\ pass[s][o] = "prepared"
  /\ ~sched.exists \/ Drifted(occ[s].snap) \/ ~Fenced(s, o) \/ att[s] # "pending"
  /\ Abandon(s, o)

(* Governance: a veto is terminal, a stale decision is tried again. *)
Veto(s, o) == pass[s][o] = "prepared" /\ TerminalReject(s, o, TRUE)

Deny(s, o) ==
  /\ pass[s][o] = "prepared" /\ spent.denials # MaxDenials
  /\ End(s, o)
  /\ spent' = IF MaxDenials < 0 THEN spent ELSE [spent EXCEPT !.denials = @ + 1]
  /\ UNCHANGED <<clock, sched, occ, att, retry, missions, repair>>

(* The handler runs outside any transaction; its effects must be idempotent. *)
RunHandler(s, o) ==
  /\ Shape = "handler"
  /\ pass[s][o] = "claimed" /\ sched.exists /\ ~Drifted(occ[s].snap)
  /\ IF occ[s].coord = "pending"
       THEN /\ missions' = [missions EXCEPT ![s] = @ \cup {0}]
            /\ pass' = [pass EXCEPT ![s][o] = "ran"]
       ELSE End(s, o) /\ UNCHANGED missions
  /\ UNCHANGED <<clock, sched, occ, att, retry, repair, spent>>

HandlerDone(s, o) ==
  /\ pass[s][o] = "ran"
  /\ occ' = IF Fenced(s, o) THEN Closed(s, "published", "created") ELSE occ
  /\ End(s, o)
  /\ UNCHANGED <<clock, sched, att, retry, missions, repair, spent>>

(***************************************************************************)
(* Recovery of publishing occurrences                                      *)
(***************************************************************************)
Expire(s) ==
  /\ occ[s].state = "publishing" /\ occ[s].live
  /\ occ' = [occ EXCEPT ![s].live = FALSE]
  /\ UNCHANGED <<clock, sched, att, retry, missions, pass, repair, spent>>

(* Mutant of Reclaim: the reclaim is not counted.                           *)
ReclaimUncounted(s, w) ==
  /\ occ[s].state = "publishing" /\ ~occ[s].live /\ pass[s][w] = "idle"
  /\ occ' = [occ EXCEPT ![s].owner = w, ![s].live = TRUE]
  /\ pass' = [pass EXCEPT ![s][w] = "claimed"]
  /\ UNCHANGED <<clock, sched, att, retry, missions, repair, spent>>

(* Take the expired lease over and count it, in one transaction; over budget *)
(* the occurrence is given up instead of resumed.  The counter saturates.    *)
Reclaim(s, w) ==
  /\ occ[s].state = "publishing" /\ ~occ[s].live /\ pass[s][w] = "idle"
  /\ occ' = [occ EXCEPT ![s].owner = w, ![s].live = TRUE,
                        ![s].reclaims = IF @ > MaxReclaims THEN @ ELSE @ + 1]
  /\ pass' = [pass EXCEPT ![s][w] =
                IF occ[s].reclaims >= MaxReclaims THEN "exhausted" ELSE "claimed"]
  /\ UNCHANGED <<clock, sched, att, retry, missions, repair, spent>>

Exhaust(s, w) == pass[s][w] = "exhausted" /\ TerminalReject(s, w, TRUE)

(* A process stops between two of its transactions. *)
Crash(s, o) ==
  /\ pass[s][o] # "idle" /\ spent.crashes < MaxCrashes
  /\ End(s, o)
  /\ spent' = [spent EXCEPT !.crashes = @ + 1]
  /\ UNCHANGED <<clock, sched, occ, att, retry, missions, repair>>

(***************************************************************************)
(* Repair of a rejected occurrence                                         *)
(***************************************************************************)
RetryNumber(s) == Len(occ[s].history) + 1

(* A repair against the latest schedule claims its number by a coordination  *)
(* attempt; a number already claimed answers "in progress" and changes       *)
(* nothing.                                                                  *)
StartRepair(s) ==
  /\ occ[s].state = "rejected" /\ sched.exists
  /\ RetryNumber(s) <= MaxRetries /\ retry[s][RetryNumber(s)] = "none"
  /\ retry' = [retry EXCEPT ![s][RetryNumber(s)] = "pending"]
  /\ repair' = [repair EXCEPT ![s] =
       [at |-> "prepared", n |-> RetryNumber(s),
        snap |-> [kind |-> sched.kind, title |-> sched.title, at |-> sched.at,
                  next |-> sched.next, enabled |-> sched.enabled, runs |-> sched.runs]]]
  /\ UNCHANGED <<clock, sched, occ, att, missions, pass, spent>>

Stamped(s, n, outcome) ==
  [occ EXCEPT ![s].history = Append(@, [n |-> n, outcome |-> outcome])]

Concluded(s, n) == [retry EXCEPT ![s][n] = "done"]

(* Without a schedule the failure is stamped with no coordination at all. *)
RepairMissing(s) ==
  /\ occ[s].state = "rejected" /\ ~sched.exists /\ RetryNumber(s) <= MaxRetries
  /\ occ' = Stamped(s, RetryNumber(s), "failed")
  /\ UNCHANGED <<clock, sched, att, retry, missions, pass, repair, spent>>

(* The Mission, the stamp and the coordination commit together; a schedule   *)
(* without a template (a handler's, an inline one) never gets this far.      *)
RepairCommit(s) ==
  /\ Shape = "template" /\ repair[s] # Idle
  /\ sched.exists /\ ~Drifted(repair[s].snap)
  /\ missions' = [missions EXCEPT ![s] = @ \cup {repair[s].n}]
  /\ occ' = Stamped(s, repair[s].n, "repaired")
  /\ retry' = Concluded(s, repair[s].n)
  /\ repair' = [repair EXCEPT ![s] = Idle]
  /\ UNCHANGED <<clock, sched, att, pass, spent>>

(* Validation, governance, a drift or the schedule's removal: a transaction  *)
(* of its own stamps the failure and closes the attempts.                    *)
RepairFail(s) ==
  /\ repair[s] # Idle
  /\ occ' = Stamped(s, repair[s].n, "failed")
  /\ retry' = Concluded(s, repair[s].n)
  /\ repair' = [repair EXCEPT ![s] = Idle]
  /\ UNCHANGED <<clock, sched, att, missions, pass, spent>>

RepairCrash(s) ==
  /\ repair[s] # Idle /\ spent.crashes < MaxCrashes
  /\ repair' = [repair EXCEPT ![s] = Idle]
  /\ spent' = [spent EXCEPT !.crashes = @ + 1]
  /\ UNCHANGED <<clock, sched, occ, att, retry, missions, pass>>

Tick ==
  /\ clock < MaxSlot /\ clock' = clock + 1
  /\ UNCHANGED <<sched, occ, att, retry, missions, pass, repair, spent>>

(***************************************************************************)
Body(s, o) ==
  \/ RejectMissing(s, o) \/ RejectInvalid(s, o) \/ StopOnDrift(s, o)
  \/ Prepare(s, o) \/ Publish(s, o) \/ RollBack(s, o) \/ Veto(s, o) \/ Deny(s, o)
  \/ RunHandler(s, o) \/ HandlerDone(s, o)

Recover(s, w) == Reclaim(s, w) \/ Exhaust(s, w)

Repairing(s) == StartRepair(s) \/ RepairMissing(s) \/ RepairCommit(s) \/ RepairFail(s) \/ RepairCrash(s)

Editing == (\E t \in {0, 1} : EditMetadata(t)) \/ Disable \/ Enable \/ EditTiming \/ Delete

Next ==
  \/ Tick \/ Poll \/ RunNow \/ Editing
  \/ \E s \in Slots :
       \/ Expire(s) \/ Repairing(s)
       \/ \E o \in Owners : Claim(s, o) \/ Body(s, o) \/ Crash(s, o)
       \/ \E w \in Workers : Recover(s, w)

Spec == Init /\ [][Next]_vars

(***************************************************************************)
(* Properties                                                              *)
(***************************************************************************)
Outcomes == [n : 1 .. MaxRetries, outcome : {"repaired", "failed"}]

TypeOK ==
  /\ clock \in Slots /\ sched \in Schedule
  /\ \A s \in Slots :
       /\ att[s] \in {"none", "pending", "published", "rejected"}
       /\ retry[s] \in [1 .. MaxRetries -> {"none", "pending", "done"}]
       /\ missions[s] \subseteq 0 .. MaxRetries
       /\ pass[s] \in [Owners -> {"idle", "reserved", "claimed", "prepared", "ran", "exhausted"}]
       /\ repair[s] = Idle \/ repair[s].n \in 1 .. MaxRetries
       /\ Exists(s) =>
            /\ occ[s].state \in {"reserved", "publishing"} \cup Terminal
            /\ occ[s].owner \in Owners \cup {"none"}
            /\ (occ[s].owner = "none") = (occ[s].state # "publishing")
            /\ occ[s].coord \in {"pending", "created", "rejected"}
            /\ occ[s].reclaims \in 0 .. MaxReclaims + 1
            /\ occ[s].history \in Seq(Outcomes)

(* Reservation and advance are one step however the schedule was reached:    *)
(* the run count is the number of occurrences and their ordinals leave no    *)
(* gap, so the maintained history never turns unknown and blocks a one-time  *)
(* schedule that has not run.                                                *)
OrdinalsAreContiguous ==
  /\ sched.runs = Cardinality(Reserved)
  /\ {occ[s].ordinal : s \in Reserved} = 0 .. (sched.runs - 1)

(* A one-time schedule is reserved at most once, through polls, early runs,  *)
(* edits to recurring and back, retiming and enabling, whatever became of    *)
(* the occurrence.                                                           *)
OneShotReservedOnce == Cardinality({s \in Reserved : occ[s].snap.kind = "once"}) <= 1

(* A schedule that consumed its one-time entitlement stays disabled.         *)
ConsumedStaysDisabled == Consumed /\ sched.kind = "once" => ~sched.enabled

(* The three records of a publication agree: the original Mission exists     *)
(* exactly when the row is published, with its coordination attempt created  *)
(* and its Task attempts published; a rejected row has a rejected one.       *)
PublicationAgrees ==
  \A s \in Reserved :
    /\ (0 \in missions[s]) = (occ[s].state = "published")
    /\ (occ[s].coord = "created") = (occ[s].state = "published")
    /\ (occ[s].coord = "rejected") = (occ[s].state = "rejected")
    /\ (att[s] = "published") = (occ[s].state = "published")

(* Repairs stamp what they did: the repair Missions are those the history    *)
(* calls repaired, each number once and with its coordination concluded.     *)
RepairsAreStamped ==
  \A s \in Reserved :
    LET repaired == {i \in 1 .. Len(occ[s].history) : occ[s].history[i].outcome = "repaired"}
    IN  /\ missions[s] \ {0} = {occ[s].history[i].n : i \in repaired}
        /\ \A i, j \in repaired : occ[s].history[i].n = occ[s].history[j].n => i = j
        /\ \A i \in repaired : retry[s][occ[s].history[i].n] = "done"

(* The schedule, its occurrences, their publications and repairs agree; a    *)
(* handler has its effect before the row that records it.                    *)
OccurrencesAgree ==
  /\ TypeOK /\ OrdinalsAreContiguous /\ OneShotReservedOnce /\ ConsumedStaysDisabled
  /\ RepairsAreStamped /\ (Shape = "template" => PublicationAgrees)

(* A Mission is published only from the schedule its occurrence was reserved *)
(* from: an edit, a disablement or a removal between the passes, or between  *)
(* the check and the transaction, keeps it from being made.  An occurrence   *)
(* whose reclaim budget is spent is never published after, a terminal one    *)
(* stays as it is, and its repair history is append-only.                    *)
OccurrenceIsFinal ==
  [][\A s \in Reserved :
       /\ 0 \in missions'[s] \ missions[s] =>
            /\ sched.exists /\ sched.title = occ[s].snap.title
            /\ sched.kind = occ[s].snap.kind /\ sched.enabled = occ[s].snap.enabled
       /\ occ[s].reclaims > MaxReclaims => occ'[s].state # "published"
       /\ occ[s].state \in Terminal => occ'[s].state = occ[s].state
       /\ IsPrefix(occ[s].history, occ'[s].history)]_vars

(* Every reserved occurrence is decided: the reclaim budget ends the passes  *)
(* that are denied, that drift or that crash, without limit on denials.      *)
Undecided == {s \in Reserved : occ[s].state \notin Terminal}
OccurrencesSettle == Undecided # {} ~> Undecided = {}
=============================================================================
