------------------------ MODULE NotificationDelivery ------------------------
(* One notification per recipient, pushed over several channels.  At its      *)
(* creation a delivery freezes one unit of work per channel or destination.   *)
(* A worker claims the units under a lease, spends one reservation per        *)
(* attempt, and records each answer if its claim still holds.  Meanwhile      *)
(* leases expire, the worker stops or crashes, destinations lose their        *)
(* authorization, and the recipient answers the notification.                 *)
EXTENDS Integers, FiniteSets

CONSTANTS
  Deliveries,
  Destinations,   \* webhook subscriptions
  Chat,           \* slack, discord, plugin channels
  Menus,          \* the sets of channels a delivery may be created with
  Total,          \* reservations of a unit
  MaxStops,       \* bound: stops and crashes of the worker
  MaxToggles,     \* bound: changes of a destination's authorization
  AdminClears     \* may an administrator clear deliveries

ASSUME NotificationAssumption ==
  /\ Menus \subseteq SUBSET ({"in_app", "webhook"} \cup Chat)
  /\ Total \in Nat \ {0} /\ AdminClears \in BOOLEAN
  /\ {MaxStops, MaxToggles} \subseteq Nat

VARIABLES
  status,    \* of each delivery
  unit,      \* the frozen plan of each delivery: a unit for each of its keys
  attempt,   \* the outcome recorded for each reservation of a unit
  sends,     \* requests in flight: delivery, key and reservation
  allowed,   \* the destinations that are enabled and opted in
  worker,    \* "up", "stopping" or "down"
  faults

vars == <<status, unit, attempt, sends, allowed, worker, faults>>

Keys == {"in_app", "webhook"} \cup Destinations \cup Chat
Answers == {"acknowledged", "snoozed", "muted", "cleared"}
OpenStates == {"available", "claimed", "cooldown"}
Finished == {"sent", "skipped", "exhausted", "cancelled", "satisfied_at_enqueue"}
Plan(d) == DOMAIN unit[d]
Spend(kind) == faults' = [faults EXCEPT ![kind] = @ + 1]

Init ==
  /\ status = [d \in Deliveries |-> "absent"] /\ unit = [d \in Deliveries |-> << >>]
  /\ attempt = [d \in Deliveries |-> [k \in Keys |-> [n \in 1..Total |-> "none"]]]
  /\ sends = {} /\ allowed = Destinations /\ worker = "up"
  /\ faults = [stop |-> 0, toggle |-> 0]

(* The verdict on a delivery: only a pending one is ever given one, when no  *)
(* unit of it is open; one unit that reached the recipient is enough.        *)
Aggregated(s, units) ==
  IF s # "pending" \/ \E k \in DOMAIN units : units[k].state \in OpenStates THEN s
  ELSE IF \/ DOMAIN units = {}
          \/ \E k \in DOMAIN units : units[k].state \in {"sent", "satisfied_at_enqueue"}
       THEN "delivered" ELSE "failed"

Fresh(state) == [state |-> state, used |-> 0, lapsed |-> FALSE]

Frozen(channels) ==
  LET hooks == IF "webhook" \notin channels THEN {}
               ELSE IF allowed = {} THEN {"webhook"} ELSE allowed
  IN [k \in (channels \ {"webhook"}) \cup hooks |->
        CASE k = "in_app"  -> Fresh("satisfied_at_enqueue")
          [] k = "webhook" -> Fresh("skipped")
          [] OTHER         -> Fresh("available")]

(* The delivery, its plan and a verdict that needs no push, in one           *)
(* transaction.                                                              *)
Create(d, channels) ==
  /\ status[d] = "absent"
  /\ unit' = [unit EXCEPT ![d] = Frozen(channels)]
  /\ status' = [status EXCEPT ![d] = Aggregated("pending", Frozen(channels))]
  /\ UNCHANGED <<attempt, sends, allowed, worker, faults>>

(* Mutant of Due: lapsed claims are not due.                                *)
DueFresh(d, k) ==
  /\ worker = "up" /\ status[d] = "pending" /\ k \in Plan(d)
  /\ unit[d][k].state \in {"available", "cooldown"}

(* A backoff is far shorter than the worker's period, so a cooldown is over  *)
(* when the next pass finds it.                                              *)
Due(d, k) ==
  /\ worker = "up" /\ status[d] = "pending" /\ k \in Plan(d)
  /\ \/ unit[d][k].state \in {"available", "cooldown"}
     \/ unit[d][k].state = "claimed" /\ unit[d][k].lapsed

Closed(records) == [n \in 1..Total |-> IF records[n] = "pending" THEN "failed" ELSE records[n]]

(* A unit reaches an outcome, in one transaction with the attempts and the   *)
(* verdict.                                                                  *)
Conclude(d, k, outcome, records) ==
  LET units == [unit[d] EXCEPT ![k] = [@ EXCEPT !.state = outcome, !.lapsed = FALSE]]
  IN /\ unit' = [unit EXCEPT ![d] = units]
     /\ attempt' = [attempt EXCEPT ![d][k] = records]
     /\ status' = [status EXCEPT ![d] = Aggregated(@, units)]

(* The owner of the last reservation is gone.                                *)
Exhaust(d, k) ==
  /\ Due(d, k) /\ unit[d][k].state = "claimed" /\ unit[d][k].used >= Total
  /\ Conclude(d, k, "exhausted", Closed(attempt[d][k]))
  /\ UNCHANGED <<sends, allowed, worker, faults>>

Refuse(d, k) ==
  /\ Due(d, k) /\ k \in Destinations \ allowed
  /\ unit[d][k].state # "claimed" \/ unit[d][k].used < Total
  /\ Conclude(d, k, "skipped",
              IF unit[d][k].state = "claimed" THEN Closed(attempt[d][k]) ELSE attempt[d][k])
  /\ UNCHANGED <<sends, allowed, worker, faults>>

Reserved(d, k) ==
  /\ Due(d, k) /\ k \notin Destinations \ allowed /\ unit[d][k].used < Total
  /\ unit' = [unit EXCEPT ![d][k] = [state |-> "claimed", used |-> @.used + 1, lapsed |-> FALSE]]

(* The fence of a claim is its reservation: no other claim of the unit has   *)
(* the same.                                                                 *)
Claim(d, k) ==
  LET mine == unit[d][k].used + 1
      old == IF unit[d][k].state = "claimed" THEN Closed(attempt[d][k]) ELSE attempt[d][k]
  IN /\ Reserved(d, k)
     /\ attempt' = [attempt EXCEPT ![d][k] = [old EXCEPT ![mine] = "pending"]]
     /\ sends' = sends \cup {<<d, k, mine>>}
     /\ UNCHANGED <<status, allowed, worker, faults>>

(* The claim, the end of the attempts before it and the new attempt are      *)
(* three commits: a crash may fall between them.                             *)
CrashAfterClaim(d, k) ==
  /\ faults.stop < MaxStops /\ Reserved(d, k)
  /\ \/ UNCHANGED attempt
     \/ unit[d][k].state = "claimed" /\ attempt' = [attempt EXCEPT ![d][k] = Closed(@)]
  /\ sends' = {} /\ worker' = "down" /\ Spend("stop")
  /\ UNCHANGED <<status, allowed>>

(* Mutant of Owns: the claim may be a later one.                            *)
OwnsAnyClaim(d, k, n) == unit[d][k].state = "claimed"

Owns(d, k, n) == unit[d][k].state = "claimed" /\ unit[d][k].used = n

(* What a result makes of the unit and of its attempt.                       *)
Outcome(k, n, result) ==
  CASE result = "skipped" -> [unit |-> "skipped", attempt |-> "skipped"]
    [] result = "success" -> [unit |-> "sent", attempt |-> "sent"]
    [] result = "failure" -> IF n >= Total THEN [unit |-> "exhausted", attempt |-> "failed"]
                             ELSE [unit |-> "cooldown", attempt |-> "retry_scheduled"]

(* A send answers, also while the worker stops; a chat channel is skipped    *)
(* when the habitat has no such integration.                                 *)
Settle(d, k, n) ==
  /\ <<d, k, n>> \in sends
  /\ sends' = sends \ {<<d, k, n>>}
  /\ \E result \in {"success", "failure"} \cup (IF k \in Chat THEN {"skipped"} ELSE {}) :
       IF Owns(d, k, n)
       THEN Conclude(d, k, Outcome(k, n, result).unit,
                     [attempt[d][k] EXCEPT ![n] = Outcome(k, n, result).attempt])
       ELSE UNCHANGED <<status, unit, attempt>>
  /\ UNCHANGED <<allowed, worker, faults>>

(* A lease outlives the time a webhook may take; nothing bounds a plugin.    *)
Lapse(d, k) ==
  /\ k \in Plan(d) /\ unit[d][k].state = "claimed" /\ ~unit[d][k].lapsed
  /\ unit' = [unit EXCEPT ![d][k].lapsed = TRUE]
  /\ UNCHANGED <<status, attempt, sends, allowed, worker, faults>>

(* What the recipient does with a delivery; only a cleared one is final.     *)
Answer(d, answer) ==
  /\ status[d] \notin {"absent", "cleared"}
  /\ status' = [status EXCEPT ![d] = answer]
  /\ unit' = [unit EXCEPT ![d] = [k \in Plan(d) |->
       IF @[k].state \in OpenStates THEN [@[k] EXCEPT !.state = "cancelled", !.lapsed = FALSE]
                                    ELSE @[k]]]
  /\ attempt' = [attempt EXCEPT ![d] = [k \in Keys |-> Closed(@[k])]]
  /\ UNCHANGED <<sends, allowed, worker, faults>>

(* An administrator's clearance writes the status of the delivery alone.     *)
AdminClear(d) ==
  /\ AdminClears /\ status[d] \notin {"absent", "cleared"}
  /\ status' = [status EXCEPT ![d] = "cleared"]
  /\ UNCHANGED <<unit, attempt, sends, allowed, worker, faults>>

Toggle(w) ==
  /\ faults.toggle < MaxToggles /\ Spend("toggle")
  /\ allowed' = IF w \in allowed THEN allowed \ {w} ELSE allowed \cup {w}
  /\ UNCHANGED <<status, unit, attempt, sends, worker>>

(* A stopped worker claims nothing more and waits for its sends, up to a     *)
(* bound a plugin may exceed.                                                *)
Stop ==
  /\ worker = "up" /\ faults.stop < MaxStops /\ Spend("stop") /\ worker' = "stopping"
  /\ UNCHANGED <<status, unit, attempt, sends, allowed>>

Exit ==
  /\ worker = "stopping" \/ (worker = "up" /\ faults.stop < MaxStops)
  /\ worker' = "down" /\ sends' = {}
  /\ IF worker = "up" THEN Spend("stop") ELSE UNCHANGED faults
  /\ UNCHANGED <<status, unit, attempt, allowed>>

Start ==
  /\ worker = "down" /\ worker' = "up"
  /\ UNCHANGED <<status, unit, attempt, sends, allowed, faults>>

Pass(d, k) == Exhaust(d, k) \/ Refuse(d, k) \/ Claim(d, k)

Next ==
  \/ \E d \in Deliveries :
       \/ \E channels \in Menus : Create(d, channels)
       \/ \E answer \in Answers : Answer(d, answer)
       \/ AdminClear(d)
       \/ \E k \in Keys :
            \/ Pass(d, k) \/ CrashAfterClaim(d, k) \/ Lapse(d, k)
            \/ \E n \in 1..Total : Settle(d, k, n)
  \/ \E w \in Destinations : Toggle(w)
  \/ Stop \/ Exit \/ Start

Spec == Init /\ [][Next]_vars
-----------------------------------------------------------------------------
(* The variables hold values of the kinds the tables and the worker use.     *)
TypeOK ==
  /\ status \in [Deliveries -> {"absent", "pending", "delivered", "failed"} \cup Answers]
  /\ \A d \in Deliveries : \A k \in Plan(d) :
       /\ k \in Keys
       /\ unit[d][k] \in [state : OpenStates \cup Finished, used : 0..Total, lapsed : BOOLEAN]
  /\ attempt \in [Deliveries -> [Keys -> [1..Total ->
       {"none", "pending", "sent", "failed", "retry_scheduled", "skipped"}]]]
  /\ sends \subseteq Deliveries \X Keys \X (1..Total)
  /\ allowed \subseteq Destinations /\ worker \in {"up", "stopping", "down"}

(* The verdict agrees with the units, whatever order their answers come in:  *)
(* a pending delivery still has work to do, a delivered one reached its      *)
(* recipient or had nothing to push, a failed one did not reach it, and      *)
(* neither is given early.                                                   *)
VerdictAgrees ==
  \A d \in Deliveries :
    LET open == \E k \in Plan(d) : unit[d][k].state \in OpenStates
        reached == \E k \in Plan(d) : unit[d][k].state \in {"sent", "satisfied_at_enqueue"}
    IN /\ status[d] = "pending" => open
       /\ status[d] = "delivered" => ~open /\ (reached \/ Plan(d) = {})
       /\ status[d] = "failed" => ~open /\ ~reached

(* The evidence agrees with the unit: an attempt is pending only while its   *)
(* unit is claimed, a unit is sent exactly when the attempt of its last      *)
(* reservation is, and no earlier one is.                                    *)
EvidenceAgrees ==
  \A d \in Deliveries : \A k \in Plan(d) : \A n \in 1..Total :
    /\ attempt[d][k][n] = "pending" => unit[d][k].state = "claimed"
    /\ attempt[d][k][n] = "sent" <=> (unit[d][k].state = "sent" /\ unit[d][k].used = n)

NotificationsAgree == TypeOK /\ VerdictAgrees /\ EvidenceAgrees

(* Under the worker's fairness and finitely many crashes, every delivery is  *)
(* delivered, failed or answered, and no unit stays open.                    *)
DeliveriesConclude ==
  \A d \in Deliveries :
    status[d] = "pending" ~> (status[d] # "pending"
                              /\ \A k \in Plan(d) : unit[d][k].state \in Finished)
=============================================================================
