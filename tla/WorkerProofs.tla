----------------------------- MODULE WorkerProofs -----------------------------
(* Theorems about the workers in the background, for every value of their     *)
(* constants.  NotificationDelivery: the verdict on a delivery and the        *)
(* evidence of its attempts agree with its units, whoever answers, in         *)
(* whatever order, and wherever the worker dies.  DaemonSessions: rows,       *)
(* epochs and processes agree, and a Task is taken only from a session that   *)
(* is over.  AutomationInbox: the entry, its deliveries, their evidence and   *)
(* their runs agree, however many drains work on them and crash.              *)
EXTENDS NotificationDelivery, Sequences, FiniteSetTheorems, TLAPS

Statuses == {"absent", "pending", "delivered", "failed"} \cup Answers
Units == [state : OpenStates \cup Finished, used : 0..Total, lapsed : BOOLEAN]
Outcomes == {"none", "pending", "sent", "failed", "retry_scheduled", "skipped"}
Records == [1..Total -> Outcomes]
Plans == UNION {[ks -> Units] : ks \in SUBSET Keys}

IsOpen(units) == \E k \in DOMAIN units : units[k].state \in OpenStates
Reached(units) == \E k \in DOMAIN units : units[k].state \in {"sent", "satisfied_at_enqueue"}

VerdictFits(s, units) ==
  /\ s = "pending" => IsOpen(units)
  /\ s = "delivered" => ~IsOpen(units) /\ (Reached(units) \/ DOMAIN units = {})
  /\ s = "failed" => ~IsOpen(units) /\ ~Reached(units)

EvidenceFits(u, records) ==
  \A n \in 1..Total :
    /\ records[n] = "pending" => u.state = "claimed"
    /\ records[n] = "sent" <=> (u.state = "sent" /\ u.used = n)

(* What holds of one delivery, its units and its evidence.                    *)
Fits(s, units, evidence) ==
  /\ s \in Statuses /\ units \in Plans /\ evidence \in [Keys -> Records]
  /\ s = "absent" => /\ DOMAIN units = {}
                     /\ \A k \in Keys, n \in 1..Total : evidence[k][n] = "none"
  /\ VerdictFits(s, units)
  /\ \A k \in DOMAIN units : EvidenceFits(units[k], evidence[k])

(* A request in flight is of a reservation that was spent, and one that still *)
(* owns its unit is the only one whose attempt is pending.  Without this the  *)
(* answer of a late request could leave the attempt of another one pending on *)
(* a unit that is settled.                                                    *)
SendFits(d, k, n) ==
  /\ d \in Deliveries /\ k \in Plan(d) /\ n \in 1..Total /\ n <= unit[d][k].used
  /\ Owns(d, k, n) => \A m \in 1..Total : attempt[d][k][m] = "pending" => m = n

Notified ==
  /\ status \in [Deliveries -> Statuses] /\ unit \in [Deliveries -> Plans]
  /\ attempt \in [Deliveries -> [Keys -> Records]]
  /\ \A d \in Deliveries : Fits(status[d], unit[d], attempt[d])

InFlight ==
  /\ sends \subseteq Deliveries \X Keys \X (1..Total)
  /\ \A d \in Deliveries, k \in Keys, n \in 1..Total : <<d, k, n>> \in sends => SendFits(d, k, n)

Ready == allowed \subseteq Destinations /\ worker \in {"up", "stopping", "down"}

NotificationInv == Notified /\ InFlight /\ Ready
-----------------------------------------------------------------------------
LEMMA PlanIsFunction ==
  ASSUME NEW units \in Plans
  PROVE  /\ units = [k \in DOMAIN units |-> units[k]]
         /\ DOMAIN units \subseteq Keys
         /\ \A k \in DOMAIN units : units[k] \in Units
<1>1. PICK ks \in SUBSET Keys : units \in [ks -> Units]
  BY DEF Plans
<1>2. QED
  BY <1>1

LEMMA PlansAre ==
  ASSUME NEW ks \in SUBSET Keys, NEW units \in [ks -> Units]
  PROVE  units \in Plans
BY DEF Plans

(* The verdict computed from the units fits them.                             *)
LEMMA AggregatedFits ==
  ASSUME NEW s \in Statuses, NEW units, s \in {"delivered", "failed"} => VerdictFits(s, units)
  PROVE  /\ Aggregated(s, units) \in Statuses /\ VerdictFits(Aggregated(s, units), units)
         /\ s # "absent" => Aggregated(s, units) # "absent"
<1>1. CASE s # "pending"
  BY <1>1 DEF Aggregated, VerdictFits
<1>2. CASE s = "pending" /\ IsOpen(units)
  BY <1>2 DEF Aggregated, VerdictFits, IsOpen
<1>3. CASE s = "pending" /\ ~IsOpen(units)
  BY <1>3 DEF Aggregated, VerdictFits, IsOpen, Reached, Statuses
<1>4. QED
  BY <1>1, <1>2, <1>3

LEMMA ClosedFits ==
  ASSUME NEW records \in Records
  PROVE  /\ Closed(records) \in Records
         /\ \A n \in 1..Total :
              /\ Closed(records)[n] # "pending"
              /\ Closed(records)[n] = "sent" <=> records[n] = "sent"
              /\ records[n] = "none" => Closed(records)[n] = "none"
BY DEF Closed, Records, Outcomes
-----------------------------------------------------------------------------
(* What a step does to the rows of one delivery.                              *)
Writes(d, s, units, evidence) ==
  /\ status' = [status EXCEPT ![d] = s]
  /\ unit' = [unit EXCEPT ![d] = units]
  /\ attempt' = [attempt EXCEPT ![d] = evidence]

(* No unit of the delivery is taken from under the requests in flight.        *)
KeepsClaims(d, units, evidence) ==
  \A k \in Plan(d) :
    /\ k \in DOMAIN units /\ unit[d][k].used <= units[k].used
    /\ units[k].state = "claimed" => /\ unit[d][k].state = "claimed" /\ evidence[k] = attempt[d][k]
                                     /\ units[k].used = unit[d][k].used

(* Such a step keeps the invariant if what it writes fits.                    *)
LEMMA WritesNotified ==
  ASSUME Notified, NEW d \in Deliveries, NEW s, NEW units, NEW evidence,
         Writes(d, s, units, evidence), Fits(s, units, evidence)
  PROVE  Notified'
<1>1. s \in Statuses /\ units \in Plans /\ evidence \in [Keys -> Records]
  BY DEF Fits
<1>2. /\ status' \in [Deliveries -> Statuses] /\ unit' \in [Deliveries -> Plans]
      /\ attempt' \in [Deliveries -> [Keys -> Records]]
  BY <1>1, Zenon DEF Writes, Notified
<1>3. ASSUME NEW e \in Deliveries
      PROVE  Fits(status'[e], unit'[e], attempt'[e])
  BY Zenon DEF Writes, Notified
<1>4. QED
  BY <1>2, <1>3, Zenon DEF Notified

LEMMA WritesFit ==
  ASSUME Notified, InFlight, NEW d \in Deliveries, NEW s, NEW units, NEW evidence,
         Writes(d, s, units, evidence), Fits(s, units, evidence), sends' \subseteq sends,
         KeepsClaims(d, units, evidence)
  PROVE  Notified' /\ InFlight'
<1>1. Notified'
  BY WritesNotified, Zenon
<1>2. ASSUME NEW e \in Deliveries, NEW k \in Keys, NEW n \in 1..Total, <<e, k, n>> \in sends'
      PROVE  SendFits(e, k, n)'
  <2>1. SendFits(e, k, n)
    BY <1>2 DEF InFlight
  <2>2. CASE e # d
    <3>1. unit'[e] = unit[e] /\ attempt'[e] = attempt[e]
      BY <2>2 DEF Writes, Notified
    <3>2. QED
      BY <2>1, <3>1 DEF SendFits, Owns, Plan
  <2>3. CASE e = d
    <3>1. unit'[e] = units /\ attempt'[e] = evidence
      BY <2>3 DEF Writes, Notified
    <3>2. k \in Plan(d) /\ n <= unit[d][k].used
      BY <2>1, <2>3 DEF SendFits
    <3>3. unit[d][k].used \in Nat /\ units[k].used \in Nat
      BY <3>2, PlanIsFunction, NotificationAssumption DEF Fits, Notified, Plan, Units, KeepsClaims
    <3>4. n <= units[k].used /\ k \in DOMAIN units
      BY <3>2, <3>3 DEF KeepsClaims
    <3>5. Owns(e, k, n)' => Owns(e, k, n) /\ evidence[k] = attempt[d][k]
      BY <2>3, <3>1, <3>2 DEF Owns, KeepsClaims
    <3>6. QED
      BY <2>1, <2>3, <3>1, <3>4, <3>5 DEF SendFits, Plan
  <2>4. QED
    BY <2>2, <2>3
<1>3. InFlight'
  BY <1>2, Zenon DEF InFlight
<1>4. QED
  BY <1>1, <1>3
-----------------------------------------------------------------------------
LEMMA RowsAre ==
  ASSUME Notified, NEW d \in Deliveries
  PROVE  /\ status[d] \in Statuses /\ unit[d] \in Plans /\ attempt[d] \in [Keys -> Records]
         /\ VerdictFits(status[d], unit[d])
         /\ status[d] = "absent" => /\ Plan(d) = {}
                                   /\ \A k \in Keys, n \in 1..Total : attempt[d][k][n] = "none"
         /\ \A k \in Plan(d) : /\ k \in Keys /\ unit[d][k] \in Units /\ attempt[d][k] \in Records
                              /\ EvidenceFits(unit[d][k], attempt[d][k])
<1>1. Fits(status[d], unit[d], attempt[d])
  BY DEF Notified
<1>2. \A k \in Plan(d) : k \in Keys /\ unit[d][k] \in Units
  BY <1>1, PlanIsFunction DEF Fits, Plan
<1>3. \A k \in Plan(d) : EvidenceFits(unit[d][k], attempt[d][k])
  BY <1>1 DEF Fits, Plan
<1>4. attempt[d] \in [Keys -> Records]
  BY DEF Notified
<1>5. \A k \in Plan(d) : attempt[d][k] \in Records
  BY <1>2, <1>4
<1>6. QED
  BY <1>1, <1>2, <1>3, <1>4, <1>5, Zenon DEF Fits, Plan

(* A unit that is concluded leaves no attempt pending, and the verdict is     *)
(* given with it.                                                             *)
LEMMA ConcludeFits ==
  ASSUME Notified, InFlight, NEW d \in Deliveries, NEW k \in Plan(d), unit[d][k].state \in OpenStates,
         NEW outcome \in Finished \cup {"cooldown"}, NEW records \in Records,
         \A n \in 1..Total : /\ records[n] # "pending"
                             /\ records[n] = "sent" <=> (outcome = "sent" /\ unit[d][k].used = n),
         Conclude(d, k, outcome, records), sends' \subseteq sends
  PROVE  Notified' /\ InFlight'
<1> DEFINE u == [unit[d][k] EXCEPT !.state = outcome, !.lapsed = FALSE]
           units == [unit[d] EXCEPT ![k] = u]
           s == Aggregated(status[d], units)
           evidence == [attempt[d] EXCEPT ![k] = records]
<1>1. /\ k \in Keys /\ unit[d][k] \in Units /\ status[d] \in Statuses
      /\ unit[d] \in Plans /\ attempt[d] \in [Keys -> Records] /\ VerdictFits(status[d], unit[d])
  BY RowsAre
<1>2. u \in Units /\ u.state = outcome /\ u.used = unit[d][k].used
  BY <1>1 DEF Units, OpenStates
<1> HIDE DEF u
<1>3. PICK ks \in SUBSET Keys : unit[d] \in [ks -> Units]
  BY <1>1 DEF Plans
<1>4. k \in ks
  BY <1>3 DEF Plan
<1>5. units \in [ks -> Units] /\ DOMAIN units = Plan(d)
  BY <1>2, <1>3, <1>4 DEF Plan
<1>6. units[k] = u /\ \A j \in Plan(d) : j # k => units[j] = unit[d][j]
  BY <1>3, <1>4 DEF Plan
<1>7. units \in Plans
  BY <1>5, PlansAre
<1>8. evidence \in [Keys -> Records] /\ evidence[k] = records
      /\ \A j \in Plan(d) : j # k => evidence[j] = attempt[d][j]
  BY <1>1, RowsAre
<1> HIDE DEF units, evidence
<1>9. status[d] \notin {"absent", "delivered", "failed"}
  <2>1. IsOpen(unit[d])
    BY DEF IsOpen, Plan
  <2>2. QED
    BY <1>1, <2>1, RowsAre DEF VerdictFits
<1>10. s \in Statuses /\ s # "absent" /\ VerdictFits(s, units)
  BY <1>1, <1>9, AggregatedFits
<1> HIDE DEF s
<1>11. \A j \in DOMAIN units : EvidenceFits(units[j], evidence[j])
  <2>1. EvidenceFits(u, records)
    BY <1>2 DEF EvidenceFits
  <2>2. QED
    BY <1>5, <1>6, <1>8, <2>1, RowsAre, Zenon
<1>12. Fits(s, units, evidence)
  BY <1>7, <1>8, <1>10, <1>11, Zenon DEF Fits
<1>13. Writes(d, s, units, evidence)
  <2>1. /\ unit' = [unit EXCEPT ![d] = units] /\ attempt' = [attempt EXCEPT ![d][k] = records]
        /\ status' = [status EXCEPT ![d] = Aggregated(@, units)]
    BY Zenon DEF Conclude, units, u
  <2>2. attempt' = [attempt EXCEPT ![d] = evidence]
    BY <2>1 DEF evidence
  <2>3. status' = [status EXCEPT ![d] = s]
    BY <2>1 DEF s
  <2>4. QED
    BY <2>1, <2>2, <2>3 DEF Writes
<1>14. KeepsClaims(d, units, evidence)
  <2>1. u.state # "claimed"
    BY <1>2 DEF Finished
  <2>2. \A j \in Plan(d) : unit[d][j].used \in Nat
    BY RowsAre, NotificationAssumption DEF Units
  <2>3. QED
    BY <1>2, <1>5, <1>6, <1>8, <2>1, <2>2 DEF KeepsClaims
<1>15. QED
  BY <1>12, <1>13, <1>14, WritesFit, Zenon
-----------------------------------------------------------------------------
LEMMA RowsRest ==
  ASSUME Notified, InFlight, UNCHANGED <<status, unit, attempt>>, sends' \subseteq sends
  PROVE  Notified' /\ InFlight'
<1>1. Notified'
  BY Zenon DEF Notified
<1>2. ASSUME NEW d \in Deliveries, NEW k \in Keys, NEW n \in 1..Total, <<d, k, n>> \in sends'
      PROVE  SendFits(d, k, n)'
  BY <1>2 DEF InFlight, SendFits, Owns, Plan
<1>3. QED
  BY <1>1, <1>2, Zenon DEF InFlight

LEMMA CreateFits ==
  ASSUME Notified, InFlight, Ready, NEW d \in Deliveries, NEW channels \in Menus, Create(d, channels)
  PROVE  Notified' /\ InFlight'
<1> DEFINE units == Frozen(channels)
           s == Aggregated("pending", units)
<1>1. PICK ks \in SUBSET Keys : units = [k \in ks |->
        CASE k = "in_app"  -> Fresh("satisfied_at_enqueue")
          [] k = "webhook" -> Fresh("skipped")
          [] OTHER         -> Fresh("available")]
  <2>1. (channels \ {"webhook"}) \cup (IF "webhook" \notin channels THEN {}
               ELSE IF allowed = {} THEN {"webhook"} ELSE allowed) \in SUBSET Keys
    BY NotificationAssumption DEF Keys, Ready
  <2>2. QED
    BY <2>1, Zenon DEF Frozen
<1> HIDE DEF units
<1>2. \A k \in ks : /\ units[k] \in Units
                    /\ units[k].state \notin {"claimed", "sent"}
  BY <1>1, NotificationAssumption DEF Fresh, Units, OpenStates, Finished
<1>3. units \in [ks -> Units] /\ DOMAIN units = ks
  BY <1>1, <1>2
<1>4. units \in Plans
  BY <1>3, PlansAre
<1>5. s \in Statuses /\ VerdictFits(s, units) /\ s # "absent"
  BY AggregatedFits DEF Statuses
<1> HIDE DEF s
<1>6. /\ status[d] = "absent" /\ Plan(d) = {} /\ attempt[d] \in [Keys -> Records]
      /\ \A k \in Keys, n \in 1..Total : attempt[d][k][n] = "none"
  BY RowsAre DEF Create
<1>7. \A k \in DOMAIN units : EvidenceFits(units[k], attempt[d][k])
  BY <1>2, <1>3, <1>6 DEF EvidenceFits
<1>8. Fits(s, units, attempt[d])
  BY <1>4, <1>5, <1>6, <1>7, Zenon DEF Fits
<1>9. Writes(d, s, units, attempt[d]) /\ sends' \subseteq sends
  BY DEF Create, Writes, s, units, Notified
<1>10. KeepsClaims(d, units, attempt[d])
  BY <1>6 DEF KeepsClaims
<1>11. QED
  BY <1>8, <1>9, <1>10, WritesFit, Zenon

LEMMA ExhaustFits ==
  ASSUME Notified, InFlight, NEW d \in Deliveries, NEW k \in Keys, Exhaust(d, k)
  PROVE  Notified' /\ InFlight'
<1>1. /\ k \in Plan(d) /\ unit[d][k].state = "claimed" /\ sends' \subseteq sends
      /\ Conclude(d, k, "exhausted", Closed(attempt[d][k]))
  BY DEF Exhaust, Due
<1>2. attempt[d][k] \in Records /\ EvidenceFits(unit[d][k], attempt[d][k])
  BY <1>1, RowsAre
<1>3. \A n \in 1..Total : /\ Closed(attempt[d][k])[n] # "pending"
                          /\ Closed(attempt[d][k])[n] # "sent"
  BY <1>1, <1>2, ClosedFits DEF EvidenceFits
<1>4. Closed(attempt[d][k]) \in Records
  BY <1>2, ClosedFits
<1>5. "exhausted" \in Finished \cup {"cooldown"} /\ unit[d][k].state \in OpenStates
  BY <1>1 DEF Finished, OpenStates
<1>6. QED
  BY <1>1, <1>3, <1>4, <1>5, ConcludeFits

LEMMA RefuseFits ==
  ASSUME Notified, InFlight, NEW d \in Deliveries, NEW k \in Keys, Refuse(d, k)
  PROVE  Notified' /\ InFlight'
<1> DEFINE records == IF unit[d][k].state = "claimed" THEN Closed(attempt[d][k]) ELSE attempt[d][k]
<1>1. /\ k \in Plan(d) /\ unit[d][k].state \in OpenStates /\ sends' \subseteq sends
      /\ Conclude(d, k, "skipped", records)
  BY DEF Refuse, Due, OpenStates
<1>2. attempt[d][k] \in Records /\ EvidenceFits(unit[d][k], attempt[d][k])
  BY <1>1, RowsAre
<1>3. records \in Records
  BY <1>2, ClosedFits
<1>4. \A n \in 1..Total : records[n] # "pending" /\ records[n] # "sent"
  BY <1>1, <1>2, ClosedFits DEF EvidenceFits, OpenStates
<1> HIDE DEF records
<1>5. "skipped" \in Finished \cup {"cooldown"}
  BY DEF Finished
<1>6. QED
  BY <1>1, <1>3, <1>4, <1>5, ConcludeFits

LEMMA SettleFits ==
  ASSUME Notified, InFlight, NEW d \in Deliveries, NEW k \in Keys, NEW n \in 1..Total, Settle(d, k, n)
  PROVE  Notified' /\ InFlight'
<1>1. SendFits(d, k, n) /\ sends' \subseteq sends
  BY DEF Settle, InFlight
<1>2. CASE UNCHANGED <<status, unit, attempt>>
  BY <1>1, <1>2, RowsRest
<1>3. ASSUME Owns(d, k, n), NEW result \in {"success", "failure", "skipped"},
             Conclude(d, k, Outcome(k, n, result).unit,
                      [attempt[d][k] EXCEPT ![n] = Outcome(k, n, result).attempt])
      PROVE  Notified' /\ InFlight'
  <2> DEFINE outcome == Outcome(k, n, result).unit
             records == [attempt[d][k] EXCEPT ![n] = Outcome(k, n, result).attempt]
  <2>1. /\ k \in Plan(d) /\ unit[d][k].state = "claimed" /\ unit[d][k].used = n
        /\ \A m \in 1..Total : attempt[d][k][m] = "pending" => m = n
    BY <1>1, <1>3 DEF SendFits, Owns
  <2>2. attempt[d][k] \in Records /\ EvidenceFits(unit[d][k], attempt[d][k])
    BY <2>1, RowsAre
  <2>3. /\ outcome \in Finished \cup {"cooldown"}
        /\ Outcome(k, n, result).attempt \in Outcomes \ {"pending"}
        /\ Outcome(k, n, result).attempt = "sent" <=> outcome = "sent"
    BY <1>3 DEF Outcome, Finished, Outcomes
  <2>4. records \in Records
    BY <2>2, <2>3 DEF Records
  <2>5. \A m \in 1..Total : /\ records[m] # "pending"
                            /\ records[m] = "sent" <=> (outcome = "sent" /\ unit[d][k].used = m)
    BY <2>1, <2>2, <2>3 DEF EvidenceFits, Records
  <2>6. Conclude(d, k, outcome, records)
    BY <1>3
  <2>7. unit[d][k].state \in OpenStates
    BY <2>1 DEF OpenStates
  <2> HIDE DEF outcome, records
  <2>8. QED
    BY <1>1, <2>1, <2>3, <2>4, <2>5, <2>6, <2>7, ConcludeFits
<1>4. QED
  BY <1>2, <1>3, Zenon DEF Settle

LEMMA LapseFits ==
  ASSUME Notified, InFlight, NEW d \in Deliveries, NEW k \in Keys, Lapse(d, k)
  PROVE  Notified' /\ InFlight'
<1> DEFINE u == [unit[d][k] EXCEPT !.lapsed = TRUE]
           units == [unit[d] EXCEPT ![k] = u]
<1>1. /\ k \in Plan(d) /\ unit[d][k] \in Units /\ unit[d] \in Plans /\ sends' \subseteq sends
      /\ EvidenceFits(unit[d][k], attempt[d][k])
  BY RowsAre DEF Lapse
<1>2. u \in Units /\ u.state = unit[d][k].state /\ u.used = unit[d][k].used
  BY <1>1 DEF Units
<1> HIDE DEF u
<1>3. PICK ks \in SUBSET Keys : unit[d] \in [ks -> Units]
  BY <1>1 DEF Plans
<1>4. k \in ks /\ units \in [ks -> Units] /\ DOMAIN units = Plan(d)
  BY <1>1, <1>2, <1>3 DEF Plan
<1>5. \A j \in Plan(d) : units[j].state = unit[d][j].state /\ units[j].used = unit[d][j].used
  BY <1>2, <1>3, <1>4 DEF Plan
<1>6. units \in Plans
  BY <1>4, PlansAre
<1>7. Writes(d, status[d], units, attempt[d])
  <2>1. unit' = [unit EXCEPT ![d] = units]
    BY Zenon DEF Lapse, units, u
  <2>2. QED
    BY <2>1 DEF Writes, Lapse, Notified
<1> HIDE DEF units
<1>8. VerdictFits(status[d], units)
  <2>1. VerdictFits(status[d], unit[d])
    BY RowsAre
  <2>2. IsOpen(units) <=> IsOpen(unit[d])
    BY <1>4, <1>5 DEF IsOpen, Plan
  <2>3. Reached(units) <=> Reached(unit[d])
    BY <1>4, <1>5 DEF Reached, Plan
  <2>4. QED
    BY <1>4, <2>1, <2>2, <2>3 DEF VerdictFits, Plan
<1>9. \A j \in DOMAIN units : EvidenceFits(units[j], attempt[d][j])
  BY <1>4, <1>5, RowsAre DEF EvidenceFits
<1>10. Fits(status[d], units, attempt[d])
  BY <1>1, <1>4, <1>6, <1>8, <1>9, RowsAre, Zenon DEF Fits
<1>11. KeepsClaims(d, units, attempt[d])
  <2>1. \A j \in Plan(d) : unit[d][j].used \in Nat
    BY RowsAre, NotificationAssumption DEF Units
  <2>2. QED
    BY <1>4, <1>5, <2>1 DEF KeepsClaims
<1>12. QED
  BY <1>1, <1>7, <1>10, <1>11, WritesFit, Zenon

LEMMA AnswerFits ==
  ASSUME Notified, InFlight, NEW d \in Deliveries, NEW answer \in Answers, Answer(d, answer)
  PROVE  Notified' /\ InFlight'
<1> DEFINE units == [k \in Plan(d) |->
             IF unit[d][k].state \in OpenStates
             THEN [unit[d][k] EXCEPT !.state = "cancelled", !.lapsed = FALSE] ELSE unit[d][k]]
           evidence == [k \in Keys |-> Closed(attempt[d][k])]
<1>1. /\ unit[d] \in Plans /\ attempt[d] \in [Keys -> Records] /\ Plan(d) \in SUBSET Keys
      /\ sends' \subseteq sends
  BY RowsAre DEF Answer
<1>2. ASSUME NEW k \in Plan(d)
      PROVE  /\ units[k] \in Units /\ units[k].used = unit[d][k].used
             /\ units[k].state \notin OpenStates
             /\ units[k].state = "sent" <=> unit[d][k].state = "sent"
  <2>1. unit[d][k] \in Units
    BY RowsAre
  <2>2. QED
    BY <2>1 DEF Units, OpenStates, Finished
<1>3. units \in [Plan(d) -> Units] /\ DOMAIN units = Plan(d)
  BY <1>2
<1>4. units \in Plans
  BY <1>1, <1>3, PlansAre
<1>5. Writes(d, answer, units, evidence)
  BY Zenon DEF Answer, Writes
<1> HIDE DEF units
<1>6. evidence \in [Keys -> Records]
  BY <1>1, ClosedFits
<1>7. \A k \in Plan(d) : EvidenceFits(units[k], evidence[k])
  <2>1. TAKE k \in Plan(d)
  <2>2. /\ k \in Keys /\ attempt[d][k] \in Records /\ EvidenceFits(unit[d][k], attempt[d][k])
        /\ evidence[k] = Closed(attempt[d][k])
    BY RowsAre
  <2>3. QED
    BY <1>2, <2>2, ClosedFits DEF EvidenceFits
<1> HIDE DEF evidence
<1>8. answer \in Statuses /\ answer # "absent" /\ VerdictFits(answer, units)
  BY DEF Answers, Statuses, VerdictFits
<1>9. Fits(answer, units, evidence)
  BY <1>3, <1>4, <1>6, <1>7, <1>8, Zenon DEF Fits
<1>10. KeepsClaims(d, units, evidence)
  <2>1. \A k \in Plan(d) : unit[d][k].used \in Nat
    BY RowsAre, NotificationAssumption DEF Units
  <2>2. QED
    BY <1>2, <1>3, <2>1 DEF KeepsClaims, OpenStates
<1>11. QED
  BY <1>1, <1>5, <1>9, <1>10, WritesFit, Zenon

LEMMA AdminClearFits ==
  ASSUME Notified, InFlight, NEW d \in Deliveries, AdminClear(d)
  PROVE  Notified' /\ InFlight'
<1>1. Fits(status[d], unit[d], attempt[d])
  BY DEF Notified
<1>2. Fits("cleared", unit[d], attempt[d])
  BY <1>1, Zenon DEF Fits, VerdictFits, Statuses, Answers
<1>3. Writes(d, "cleared", unit[d], attempt[d]) /\ sends' \subseteq sends
  BY DEF AdminClear, Writes, Notified
<1>4. KeepsClaims(d, unit[d], attempt[d])
  <2>1. \A k \in Plan(d) : unit[d][k].used \in Nat
    BY RowsAre, NotificationAssumption DEF Units
  <2>2. QED
    BY <2>1 DEF KeepsClaims, Plan
<1>5. QED
  BY <1>2, <1>3, <1>4, WritesFit, Zenon
-----------------------------------------------------------------------------
(* The unit is claimed under its next reservation, and nothing else changes.  *)
Reclaims(d, k, records) ==
  /\ k \in Plan(d) /\ unit[d][k].used + 1 \in 1..Total
  /\ DOMAIN unit'[d] = Plan(d) /\ attempt'[d][k] = records
  /\ unit'[d][k].state = "claimed" /\ unit'[d][k].used = unit[d][k].used + 1
  /\ \A e \in Deliveries, j \in Keys : (e # d \/ j # k) =>
       /\ j \in Plan(e) => j \in DOMAIN unit'[e] /\ unit'[e][j] = unit[e][j]
       /\ attempt'[e][j] = attempt[e][j]

LEMMA ReservedFits ==
  ASSUME Notified, NEW d \in Deliveries, NEW k \in Keys, Reserved(d, k), NEW records \in Records,
         \A n \in 1..Total : records[n] # "sent",
         status' = status, attempt' = [attempt EXCEPT ![d][k] = records]
  PROVE  Notified' /\ Reclaims(d, k, records)
<1> DEFINE u == [state |-> "claimed", used |-> unit[d][k].used + 1, lapsed |-> FALSE]
           units == [unit[d] EXCEPT ![k] = u]
           evidence == [attempt[d] EXCEPT ![k] = records]
<1>1. /\ k \in Plan(d) /\ status[d] = "pending" /\ unit[d][k].used < Total
      /\ unit[d][k] \in Units /\ unit[d] \in Plans /\ attempt[d] \in [Keys -> Records]
  BY RowsAre DEF Reserved, Due
<1>2. unit[d][k].used + 1 \in 1..Total /\ u \in Units
  BY <1>1, NotificationAssumption DEF Units, OpenStates
<1>3. u.state = "claimed" /\ u.used = unit[d][k].used + 1
  OBVIOUS
<1>4. unit' = [unit EXCEPT ![d] = units]
  BY Zenon DEF Reserved
<1>5. attempt' = [attempt EXCEPT ![d] = evidence]
  OBVIOUS
<1> HIDE DEF u
<1>6. PICK ks \in SUBSET Keys : unit[d] \in [ks -> Units]
  BY <1>1 DEF Plans
<1>7. k \in ks /\ units \in [ks -> Units] /\ DOMAIN units = Plan(d)
  BY <1>1, <1>2, <1>6 DEF Plan
<1>8. units[k] = u /\ \A j \in Plan(d) : j # k => units[j] = unit[d][j]
  BY <1>6, <1>7 DEF Plan
<1>9. units \in Plans
  BY <1>7, PlansAre
<1>10. evidence \in [Keys -> Records] /\ evidence[k] = records
       /\ \A j \in Keys : j # k => evidence[j] = attempt[d][j]
  BY <1>1
<1> HIDE DEF units, evidence
<1>11. \A j \in DOMAIN units : EvidenceFits(units[j], evidence[j])
  <2>1. EvidenceFits(u, records)
    BY <1>3 DEF EvidenceFits
  <2>2. \A j \in Plan(d) : j \in Keys /\ EvidenceFits(unit[d][j], attempt[d][j])
    BY RowsAre
  <2>3. QED
    BY <1>7, <1>8, <1>10, <2>1, <2>2, Zenon
<1>12. VerdictFits("pending", units)
  BY <1>1, <1>3, <1>7, <1>8 DEF VerdictFits, IsOpen, OpenStates
<1>13. Fits("pending", units, evidence)
  BY <1>9, <1>10, <1>11, <1>12, Zenon DEF Fits, Statuses
<1>14. Writes(d, "pending", units, evidence)
  BY <1>1, <1>4, <1>5 DEF Writes, Notified
<1>15. Notified'
  BY <1>13, <1>14, WritesNotified
<1>16. /\ unit'[d] = units /\ attempt'[d] = evidence
       /\ \A e \in Deliveries \ {d} : unit'[e] = unit[e] /\ attempt'[e] = attempt[e]
  BY <1>14 DEF Writes, Notified
<1>17. QED
  BY <1>1, <1>2, <1>3, <1>7, <1>8, <1>10, <1>15, <1>16 DEF Plan, Reclaims

(* What a claimed unit or one that waits shows: nothing was sent.             *)
LEMMA DueIsUnsent ==
  ASSUME Notified, NEW d \in Deliveries, NEW k \in Keys, Due(d, k)
  PROVE  /\ attempt[d][k] \in Records
         /\ \A n \in 1..Total : /\ attempt[d][k][n] # "sent"
                                /\ attempt[d][k][n] = "pending" => unit[d][k].state = "claimed"
<1>1. /\ k \in Plan(d) /\ unit[d][k].state # "sent" /\ attempt[d][k] \in Records
      /\ EvidenceFits(unit[d][k], attempt[d][k])
  BY RowsAre DEF Due
<1>2. QED
  BY <1>1 DEF EvidenceFits

LEMMA ClaimFits ==
  ASSUME Notified, InFlight, NEW d \in Deliveries, NEW k \in Keys, Claim(d, k)
  PROVE  Notified' /\ InFlight'
<1> DEFINE mine == unit[d][k].used + 1
           old == IF unit[d][k].state = "claimed" THEN Closed(attempt[d][k]) ELSE attempt[d][k]
           records == [old EXCEPT ![mine] = "pending"]
<1>1. /\ Reserved(d, k) /\ Due(d, k) /\ status' = status
      /\ attempt' = [attempt EXCEPT ![d][k] = records] /\ sends' = sends \cup {<<d, k, mine>>}
  BY DEF Claim, Reserved
<1>2. /\ old \in Records
      /\ \A n \in 1..Total : old[n] # "sent" /\ old[n] # "pending"
  BY <1>1, DueIsUnsent, ClosedFits
<1>3. mine \in 1..Total
  <2>1. unit[d][k] \in Units /\ unit[d][k].used < Total
    BY <1>1, RowsAre DEF Reserved, Due
  <2>2. QED
    BY <2>1, NotificationAssumption DEF Units
<1> HIDE DEF old
<1>4. records \in Records /\ records[mine] = "pending"
      /\ \A n \in 1..Total : records[n] # "sent" /\ (n # mine => records[n] # "pending")
  BY <1>2, <1>3 DEF Records, Outcomes
<1> HIDE DEF records
<1>5. Notified' /\ Reclaims(d, k, records)
  BY <1>1, <1>4, ReservedFits, Zenon
<1>6. sends' \subseteq Deliveries \X Keys \X (1..Total)
  BY <1>1, <1>3 DEF InFlight
<1>7. ASSUME NEW e \in Deliveries, NEW j \in Keys, NEW n \in 1..Total, <<e, j, n>> \in sends'
      PROVE  SendFits(e, j, n)'
  <2>1. CASE e = d /\ j = k
    <3>1. n <= mine
      <4>1. CASE <<e, j, n>> \in sends
        <5>1. n <= unit[d][k].used /\ unit[d][k].used \in Nat
          BY <1>5, <2>1, <4>1, RowsAre, NotificationAssumption DEF InFlight, SendFits, Units, Reclaims
        <5>2. QED
          BY <5>1
      <4>2. CASE n = mine
        BY <1>3, <4>2
      <4>3. QED
        BY <1>1, <1>7, <4>1, <4>2
    <3>2. QED
      BY <1>4, <1>5, <2>1, <3>1 DEF SendFits, Owns, Plan, Reclaims
  <2>2. CASE e # d \/ j # k
    <3>1. SendFits(e, j, n)
      BY <1>1, <1>7, <2>2 DEF InFlight
    <3>2. QED
      BY <1>5, <2>2, <3>1 DEF SendFits, Owns, Plan, Reclaims
  <2>3. QED
    BY <2>1, <2>2
<1>8. QED
  BY <1>5, <1>6, <1>7, Zenon DEF InFlight

LEMMA CrashAfterClaimFits ==
  ASSUME Notified, InFlight, NEW d \in Deliveries, NEW k \in Keys, CrashAfterClaim(d, k)
  PROVE  Notified' /\ InFlight'
<1>1. Reserved(d, k) /\ Due(d, k) /\ status' = status /\ sends' = {}
  BY DEF CrashAfterClaim, Reserved
<1>2. CASE UNCHANGED attempt
  <2>1. attempt' = [attempt EXCEPT ![d][k] = attempt[d][k]]
    BY <1>2 DEF Notified
  <2>2. attempt[d][k] \in Records /\ \A n \in 1..Total : attempt[d][k][n] # "sent"
    BY <1>1, DueIsUnsent
  <2>3. Notified'
    BY <1>1, <2>1, <2>2, ReservedFits, Zenon
  <2>4. QED
    BY <1>1, <2>3 DEF InFlight
<1>3. CASE attempt' = [attempt EXCEPT ![d][k] = Closed(attempt[d][k])]
  <2>1. /\ Closed(attempt[d][k]) \in Records
        /\ \A n \in 1..Total : Closed(attempt[d][k])[n] # "sent"
    BY <1>1, DueIsUnsent, ClosedFits
  <2>2. Notified'
    BY <1>1, <1>3, <2>1, ReservedFits, Zenon
  <2>3. QED
    BY <1>1, <2>2 DEF InFlight
<1>4. QED
  BY <1>2, <1>3, Zenon DEF CrashAfterClaim
-----------------------------------------------------------------------------
LEMMA NotificationStep ==
  ASSUME NotificationInv, [Next]_vars
  PROVE  NotificationInv'
<1> USE DEF NotificationInv
<1>1. ASSUME NEW d \in Deliveries, NEW channels \in Menus, Create(d, channels)
      PROVE  NotificationInv'
  BY <1>1, CreateFits DEF Create, Ready
<1>2. ASSUME NEW d \in Deliveries, NEW answer \in Answers, Answer(d, answer)
      PROVE  NotificationInv'
  BY <1>2, AnswerFits DEF Answer, Ready
<1>3. ASSUME NEW d \in Deliveries, AdminClear(d)
      PROVE  NotificationInv'
  BY <1>3, AdminClearFits DEF AdminClear, Ready
<1>4. ASSUME NEW d \in Deliveries, NEW k \in Keys, Exhaust(d, k)
      PROVE  NotificationInv'
  BY <1>4, ExhaustFits DEF Exhaust, Ready
<1>5. ASSUME NEW d \in Deliveries, NEW k \in Keys, Refuse(d, k)
      PROVE  NotificationInv'
  BY <1>5, RefuseFits DEF Refuse, Ready
<1>6. ASSUME NEW d \in Deliveries, NEW k \in Keys, Claim(d, k)
      PROVE  NotificationInv'
  BY <1>6, ClaimFits DEF Claim, Ready
<1>7. ASSUME NEW d \in Deliveries, NEW k \in Keys, CrashAfterClaim(d, k)
      PROVE  NotificationInv'
  BY <1>7, CrashAfterClaimFits DEF CrashAfterClaim, Ready
<1>8. ASSUME NEW d \in Deliveries, NEW k \in Keys, Lapse(d, k)
      PROVE  NotificationInv'
  BY <1>8, LapseFits DEF Lapse, Ready
<1>9. ASSUME NEW d \in Deliveries, NEW k \in Keys, NEW n \in 1..Total, Settle(d, k, n)
      PROVE  NotificationInv'
  BY <1>9, SettleFits DEF Settle, Ready
<1>10. ASSUME NEW w \in Destinations, Toggle(w)
       PROVE  NotificationInv'
  BY <1>10, RowsRest DEF Toggle, Ready
<1>11. CASE Stop \/ Exit \/ Start \/ UNCHANGED vars
  <2>1. UNCHANGED <<status, unit, attempt>> /\ sends' \subseteq sends /\ Ready'
    BY <1>11 DEF Stop, Exit, Start, vars, Ready
  <2>2. QED
    BY <2>1, RowsRest
<1>12. QED
  BY <1>1, <1>2, <1>3, <1>4, <1>5, <1>6, <1>7, <1>8, <1>9, <1>10, <1>11, Zenon DEF Next, Pass

LEMMA NotificationStart == Init => NotificationInv
<1> SUFFICES ASSUME Init PROVE NotificationInv
  OBVIOUS
<1>1. << >> \in Plans
  <2>1. << >> \in [{} -> Units]
    OBVIOUS
  <2>2. {} \in SUBSET Keys
    OBVIOUS
  <2>3. QED
    BY <2>1, <2>2, PlansAre
<1>2. ASSUME NEW d \in Deliveries
      PROVE  Fits(status[d], unit[d], attempt[d])
  <2>1. status[d] = "absent" /\ unit[d] = << >>
    BY DEF Init
  <2>2. attempt[d] \in [Keys -> Records] /\ \A k \in Keys, n \in 1..Total : attempt[d][k][n] = "none"
    BY DEF Init, Records, Outcomes
  <2>3. QED
    BY <1>1, <2>1, <2>2 DEF Fits, VerdictFits, Statuses
<1>3. Notified
  <2>1. /\ status \in [Deliveries -> Statuses] /\ unit \in [Deliveries -> Plans]
        /\ attempt \in [Deliveries -> [Keys -> Records]]
    BY <1>1 DEF Init, Statuses, Records, Outcomes
  <2>2. QED
    BY <1>2, <2>1 DEF Notified
<1>4. InFlight /\ Ready
  BY DEF Init, InFlight, Ready
<1>5. QED
  BY <1>3, <1>4 DEF NotificationInv

(* The rows of every delivery, its units, their attempts and the verdict      *)
(* agree in every reachable state: no pending delivery without work to do, no *)
(* verdict while a unit is open, none that contradicts what was pushed, and   *)
(* no attempt left pending on a unit that nobody claims.                      *)
THEOREM NotificationsTheorem == Spec => []NotificationsAgree
<1>1. Spec => []NotificationInv
  BY NotificationStart, NotificationStep, PTL DEF Spec
<1>2. NotificationInv => NotificationsAgree
  <2> SUFFICES ASSUME NotificationInv PROVE NotificationsAgree
    OBVIOUS
  <2>1. ASSUME NEW d \in Deliveries
        PROVE  /\ status[d] \in Statuses /\ VerdictFits(status[d], unit[d])
               /\ \A k \in Plan(d) : /\ k \in Keys /\ unit[d][k] \in Units
                                    /\ EvidenceFits(unit[d][k], attempt[d][k])
    BY RowsAre DEF NotificationInv
  <2>2. TypeOK
    BY <2>1 DEF NotificationInv, Notified, InFlight, Ready, TypeOK, Statuses, Units, Records, Outcomes
  <2>3. VerdictAgrees
    BY <2>1 DEF VerdictAgrees, VerdictFits, IsOpen, Reached, Plan
  <2>4. EvidenceAgrees
    BY <2>1 DEF EvidenceAgrees, EvidenceFits
  <2>5. QED
    BY <2>2, <2>3, <2>4 DEF NotificationsAgree
<1>3. QED
  BY <1>1, <1>2, PTL

CONSTANTS
  Tasks, Daemons, Agents, Host, Embedded, Limit, MaxClaims, MaxEpochs, MaxCrashes, Naming, MaxLost,
  MaxSilent, MaxRefused

VARIABLES
  task, epoch, sess, up, offer, local, pid, post, beat, pointer, mishaps

Sessions == INSTANCE DaemonSessions WITH worker <- pid, faults <- mishaps

(***************************************************************************)
(* Daemon sessions                                                         *)
(***************************************************************************)
(* The limit of a daemon is a number.                                        *)
SessionHypotheses == Limit \in Nat

TaskRows ==
  [status : {"pending", "claimed", "in_progress", "submitted", "rejected", "failed", "done"},
   token : Nat, owner : Agents \cup {"none"}]
SessionStatuses == {"starting", "running", "released", "completed", "failed"}
SessionRows == [agent : Agents, task : Tasks, token : Nat, status : SessionStatuses, placed : BOOLEAN]
Ids == DOMAIN sess

(* A Task has an epoch when it is held or waits for its review.              *)
TasksTyped ==
  /\ epoch \in Nat /\ task \in [Tasks -> TaskRows]
  /\ \A t \in Tasks : /\ task[t].token <= epoch
                      /\ task[t].status \in {"pending", "failed"} <=> task[t].token = 0
RowsTyped ==
  /\ sess \in Seq(SessionRows) /\ \A s \in Ids : sess[s].token >= 1 /\ sess[s].token <= epoch
PidsTyped == pid \in [Ids -> Nat] /\ \A s \in Ids : pid[s] <= epoch
MemoryTyped ==
  /\ local \subseteq Ids /\ offer \subseteq Ids /\ local \cap offer = {}
  /\ \A p \in post : p.s \in Ids /\ p.status \in SessionStatuses \ {"starting"}

(* The epoch a process works under is that of its own session, and of no     *)
(* other one for the same Task.                                              *)
EpochIsOfOne ==
  \A r, s \in Ids : pid[s] # 0 /\ sess[r].task = sess[s].task /\ sess[r].token = pid[s] => r = s
OpenCarries == \A s \in Ids : Sessions!Open(s) /\ pid[s] # 0 => sess[s].token = pid[s]

SessionInv ==
  /\ TasksTyped /\ RowsTyped /\ PidsTyped /\ MemoryTyped
  /\ Sessions!OneSessionPerEpoch /\ EpochIsOfOne /\ OpenCarries /\ Sessions!CapacityHolds

LEMMA CountIs == \A S : Sessions!Cardinality(S) = Cardinality(S)
  BY Zenon DEF Sessions!Cardinality, Cardinality

(***************************************************************************)
(* Steps that mint no epoch                                                *)
(***************************************************************************)
SessionsRest ==
  /\ sess' \in Seq(SessionRows) /\ DOMAIN sess' = DOMAIN sess
  /\ \A s \in Ids :
       /\ sess'[s].agent = sess[s].agent /\ sess'[s].task = sess[s].task /\ sess'[s].token = sess[s].token
       /\ ~Sessions!Open(s) => sess'[s].status = sess[s].status

PidsRest ==
  /\ pid' \in [Ids -> Nat] /\ \A s \in Ids : pid'[s] = pid[s] \/ pid'[s] = 0 \/ pid'[s] = sess[s].token

(* Why a Task that was held is not any more.                                 *)
Excused(t) ==
  \/ \E s \in DOMAIN sess' : /\ sess'[s].status \notin {"starting", "running"}
                             /\ sess'[s].task = t /\ sess'[s].token = task[t].token
  \/ pointer[task[t].owner] = t

TasksRest ==
  /\ task' \in [Tasks -> TaskRows]
  /\ \A t \in Tasks :
       /\ task'[t].token = task[t].token \/ task'[t].token = 0
       /\ task'[t].status \in {"pending", "failed"} <=> task'[t].token = 0
       /\ Sessions!Held(t) /\ task'[t].token = 0 => Excused(t)

Rests == epoch' = epoch /\ SessionsRest /\ PidsRest /\ TasksRest /\ MemoryTyped'

LEMMA IdsAre == SessionInv => Ids = 1 .. Len(sess) /\ Len(sess) \in Nat /\ IsFiniteSet(Ids)
<1> SUFFICES ASSUME SessionInv PROVE Ids = 1 .. Len(sess) /\ Len(sess) \in Nat /\ IsFiniteSet(Ids)
  OBVIOUS
<1>1. Ids = 1 .. Len(sess) /\ Len(sess) \in Nat
  BY DEF SessionInv, RowsTyped, Ids
<1>2. QED BY <1>1, FS_Interval

LEMMA RowIs == SessionInv => sess \in Seq(SessionRows) /\ \A s \in Ids : sess[s] \in SessionRows
<1> SUFFICES ASSUME SessionInv, NEW s \in Ids PROVE sess \in Seq(SessionRows) /\ sess[s] \in SessionRows
  BY DEF SessionInv, RowsTyped
<1>1. sess \in Seq(SessionRows)
  BY DEF SessionInv, RowsTyped
<1>2. QED BY <1>1, IdsAre

(* Where no session is opened the capacity holds.                            *)
LEMMA CapacityShrinks ==
  ASSUME SessionHypotheses, SessionInv, Ids' = Ids,
         \A s \in Ids : sess'[s].agent = sess[s].agent /\ (Sessions!Open(s)' => Sessions!Open(s))
  PROVE  Sessions!CapacityHolds'
<1>1. \A d : Sessions!OpenRows(d)' \subseteq Sessions!OpenRows(d)
  BY DEF Sessions!OpenRows, Sessions!Sids, Ids
<1>2. \A d : IsFiniteSet(Sessions!OpenRows(d)) /\ Sessions!OpenRows(d) \subseteq Ids
  <2>1. \A d : Sessions!OpenRows(d) \subseteq Ids
    BY DEF Sessions!OpenRows, Sessions!Sids, Ids
  <2>2. QED BY <2>1, IdsAre, FS_Subset
<1>3. ASSUME NEW d \in Daemons \ Embedded
      PROVE  /\ Cardinality(Sessions!OpenRows(d)') <= Limit
             /\ \A r, s \in Sessions!OpenRows(d)' : sess'[r].agent = sess'[s].agent => r = s
  <2>1. /\ Cardinality(Sessions!OpenRows(d)) <= Limit
        /\ \A r, s \in Sessions!OpenRows(d) : sess[r].agent = sess[s].agent => r = s
    BY CountIs, Zenon DEF SessionInv, Sessions!CapacityHolds
  <2>2. Cardinality(Sessions!OpenRows(d)') <= Cardinality(Sessions!OpenRows(d))
    BY <1>1, <1>2, FS_Subset
  <2>3. Cardinality(Sessions!OpenRows(d)') \in Nat /\ Cardinality(Sessions!OpenRows(d)) \in Nat
    BY <1>1, <1>2, FS_Subset, FS_CardinalityType
  <2>4. QED BY <1>1, <1>2, <2>1, <2>2, <2>3 DEF SessionHypotheses
<1>4. QED BY <1>3, CountIs, Zenon DEF Sessions!CapacityHolds

LEMMA RestsKeeps ==
  ASSUME SessionHypotheses, SessionInv, Rests
  PROVE  SessionInv'
<1>1. /\ epoch' = epoch /\ epoch \in Nat /\ Ids' = Ids
      /\ \A s \in Ids : /\ sess[s] \in SessionRows /\ sess'[s] \in SessionRows
                        /\ sess'[s].agent = sess[s].agent /\ sess'[s].task = sess[s].task
                        /\ sess'[s].token = sess[s].token /\ sess[s].token >= 1 /\ sess[s].token <= epoch
                        /\ Sessions!Open(s)' => Sessions!Open(s)
                        /\ pid[s] \in Nat /\ pid[s] <= epoch
                        /\ pid'[s] = pid[s] \/ pid'[s] = 0 \/ pid'[s] = sess[s].token
  BY DEF SessionInv, Rests, SessionsRest, PidsRest, RowsTyped, PidsTyped, TasksTyped, Ids, Sessions!Open
<1>2. TasksTyped'
  <2>1. ASSUME NEW t \in Tasks PROVE task'[t].token <= epoch'
    BY <1>1 DEF SessionInv, Rests, TasksRest, TasksTyped
  <2>2. QED BY <1>1, <2>1 DEF TasksTyped, Rests, TasksRest
<1>3. RowsTyped'
  BY <1>1 DEF RowsTyped, Rests, SessionsRest
<1>4. PidsTyped'
  <2>1. ASSUME NEW s \in Ids PROVE pid'[s] <= epoch
    BY <1>1 DEF SessionRows
  <2>2. QED BY <1>1, <2>1 DEF PidsTyped, Rests, PidsRest
<1>5. Sessions!OneSessionPerEpoch'
  BY <1>1 DEF SessionInv, Sessions!OneSessionPerEpoch, Sessions!Sids, Ids
<1>6. EpochIsOfOne'
  <2>1. ASSUME NEW r \in Ids, NEW s \in Ids, pid'[s] # 0, sess[r].task = sess[s].task, sess[r].token = pid'[s]
        PROVE  r = s
    <3>1. CASE pid'[s] = pid[s]
      BY <2>1, <3>1 DEF SessionInv, EpochIsOfOne
    <3>2. CASE pid'[s] = sess[s].token
      BY <2>1, <3>2 DEF SessionInv, Sessions!OneSessionPerEpoch, Sessions!Sids, Ids
    <3>3. QED BY <1>1, <2>1, <3>1, <3>2
  <2>2. QED BY <1>1, <2>1 DEF EpochIsOfOne
<1>7. OpenCarries'
  <2>1. ASSUME NEW s \in Ids, Sessions!Open(s)', pid'[s] # 0 PROVE sess'[s].token = pid'[s]
    BY <1>1, <2>1 DEF SessionInv, OpenCarries
  <2>2. QED BY <1>1, <2>1 DEF OpenCarries
<1>8. Sessions!CapacityHolds'
  BY <1>1, CapacityShrinks
<1>9. MemoryTyped'
  BY DEF Rests
<1>10. QED BY <1>2, <1>3, <1>4, <1>5, <1>6, <1>7, <1>8, <1>9 DEF SessionInv

(***************************************************************************)
(* The parts of a step                                                     *)
(***************************************************************************)
LEMMA RowsUnchanged == SessionInv /\ sess' = sess => SessionsRest
BY DEF SessionInv, RowsTyped, SessionsRest, Ids

LEMMA PidsUnchanged == SessionInv /\ pid' = pid => PidsRest
BY DEF SessionInv, PidsTyped, PidsRest

LEMMA TasksUnchanged == SessionInv /\ task' = task => TasksRest
<1> SUFFICES ASSUME SessionInv, task' = task PROVE TasksRest
  OBVIOUS
<1>1. ASSUME NEW t \in Tasks, Sessions!Held(t) PROVE task[t].token # 0
  BY <1>1 DEF SessionInv, TasksTyped, Sessions!Held
<1>2. QED BY <1>1 DEF SessionInv, TasksTyped, TasksRest

LEMMA MemoryUnchanged ==
  ASSUME SessionInv, DOMAIN sess' = DOMAIN sess, UNCHANGED <<offer, local, post>>
  PROVE  MemoryTyped'
BY DEF SessionInv, MemoryTyped, Ids

(* The Task of somebody who holds it moves on under the same epoch.          *)
LEMMA TaskAdvances ==
  ASSUME SessionInv, NEW t \in Tasks, NEW row,
         task' = [task EXCEPT ![t] = row], row \in TaskRows,
         row.token = task[t].token, row.token # 0, row.status \notin {"pending", "failed"}
  PROVE  TasksRest
<1>1. ASSUME NEW x \in Tasks, Sessions!Held(x) PROVE task[x].token # 0
  BY <1>1 DEF SessionInv, TasksTyped, Sessions!Held
<1>2. /\ task \in [Tasks -> TaskRows] /\ task' \in [Tasks -> TaskRows]
      /\ \A x \in Tasks : IF x = t THEN task'[x] = row ELSE task'[x] = task[x]
  BY DEF SessionInv, TasksTyped
<1>3. \A x \in Tasks : task[x].status \in {"pending", "failed"} <=> task[x].token = 0
  BY DEF SessionInv, TasksTyped
<1>4. QED BY <1>1, <1>2, <1>3 DEF TasksRest

LEMMA FreedIs ==
  ASSUME NEW t, NEW how \in {"pending", "failed"}
  PROVE  /\ Sessions!Freed(t, how) \in TaskRows /\ Sessions!Freed(t, how).token = 0
         /\ Sessions!Freed(t, how).status \in {"pending", "failed"}
BY DEF Sessions!Freed, Sessions!NoTask, TaskRows

(* The recovery of a Task goes by an ended session of its epoch.             *)
LEMMA DriveRests ==
  ASSUME SessionInv, NEW S, S \subseteq Ids, NEW rows, SessionsRest, Sessions!Drive(S, rows)
  PROVE  TasksRest
<1>1. sess' = rows
  BY DEF Sessions!Drive
<1>2. CASE task' = task
  BY <1>2, TasksUnchanged
<1>3. CASE task' = Sessions!Driven(S, rows)
  <2>1. /\ task \in [Tasks -> TaskRows]
        /\ \A x \in Tasks : task[x].status \in {"pending", "failed"} <=> task[x].token = 0
    BY DEF SessionInv, TasksTyped
  <2> DEFINE Over(t) == {s \in S : rows[s].status \notin {"starting", "running"} /\ Sessions!Matches(rows[s], t)}
  <2>2. ASSUME NEW t \in Tasks
        PROVE  \/ task'[t] = task[t] /\ (Over(t) = {} \/ ~Sessions!Held(t))
               \/ /\ Over(t) # {}
                  /\ \E how \in {"pending", "failed"} : task'[t] = Sessions!Freed(t, how)
    BY <1>3 DEF Sessions!Driven
  <2>3. ASSUME NEW t \in Tasks, Over(t) # {} PROVE Excused(t)
    <3>1. PICK s \in S : rows[s].status \notin {"starting", "running"} /\ Sessions!Matches(rows[s], t)
      BY <2>3
    <3>2. s \in DOMAIN sess'
      BY DEF SessionsRest, Ids
    <3>3. QED BY <1>1, <3>1, <3>2 DEF Excused, Sessions!Matches
  <2> HIDE DEF Over
  <2>4. ASSUME NEW t \in Tasks
        PROVE  /\ task'[t] \in TaskRows /\ (task'[t].token = task[t].token \/ task'[t].token = 0)
               /\ task'[t].status \in {"pending", "failed"} <=> task'[t].token = 0
               /\ Sessions!Held(t) /\ task'[t].token = 0 => Excused(t)
    <3>1. CASE task'[t] = task[t] /\ (Over(t) = {} \/ ~Sessions!Held(t))
      <4>1. Sessions!Held(t) => task[t].token # 0
        BY <2>1 DEF Sessions!Held
      <4>2. QED BY <2>1, <3>1, <4>1
    <3>2. CASE Over(t) # {} /\ \E how \in {"pending", "failed"} : task'[t] = Sessions!Freed(t, how)
      BY <2>3, <3>2, FreedIs
    <3>3. QED BY <2>2, <3>1, <3>2
  <2>5. task' = [t \in Tasks |-> task'[t]]
    BY <1>3 DEF Sessions!Driven
  <2>6. task' \in [Tasks -> TaskRows]
    BY <2>4, <2>5
  <2>7. QED BY <2>4, <2>6 DEF TasksRest
<1>4. QED BY <1>2, <1>3 DEF Sessions!Drive

LEMMA WrittenRests ==
  ASSUME SessionInv, NEW S, NEW how \in {"released", "completed", "failed"},
         sess' = Sessions!Written(S, how)
  PROVE  SessionsRest
<1>1. sess \in Seq(SessionRows) /\ Ids = 1 .. Len(sess) /\ Len(sess) \in Nat
  BY IdsAre DEF SessionInv, RowsTyped
<1>2. sess' = [s \in 1 .. Len(sess) |-> sess'[s]]
  BY <1>1 DEF Sessions!Written, Sessions!Sids, Ids
<1>3. ASSUME NEW s \in Ids
      PROVE  /\ sess'[s] \in SessionRows /\ sess'[s].agent = sess[s].agent
             /\ sess'[s].task = sess[s].task /\ sess'[s].token = sess[s].token
             /\ ~Sessions!Open(s) => sess'[s].status = sess[s].status
  <2>1. sess[s] \in SessionRows
    BY <1>1
  <2>2. CASE sess'[s] = sess[s]
    BY <2>1, <2>2
  <2>3. CASE Sessions!Open(s) /\ sess'[s] = [sess[s] EXCEPT !.status = how]
    BY <2>1, <2>3 DEF SessionRows, SessionStatuses
  <2>4. QED BY <2>2, <2>3 DEF Sessions!Written, Sessions!Sids, Ids
<1>4. sess' \in Seq(SessionRows) /\ DOMAIN sess' = DOMAIN sess
  BY <1>1, <1>2, <1>3 DEF Ids
<1>5. QED BY <1>3, <1>4 DEF SessionsRest

(***************************************************************************)
(* The actions that mint no epoch                                          *)
(***************************************************************************)
LEMMA SweepTaskRests ==
  ASSUME SessionInv, NEW t \in Tasks, Sessions!SweepTask(t)
  PROVE  Rests
<1>1. PICK s \in Ids : Sessions!Drive({s}, sess)
  BY Zenon DEF Sessions!SweepTask, Sessions!Sids, Ids
<1>2. sess' = sess /\ UNCHANGED <<epoch, pid, offer, local, post>>
  BY <1>1 DEF Sessions!SweepTask, Sessions!Drive, Sessions!process
<1>3. SessionsRest /\ PidsRest /\ MemoryTyped'
  BY <1>2, RowsUnchanged, PidsUnchanged, MemoryUnchanged
<1>4. TasksRest
  BY <1>1, <1>2, <1>3, DriveRests
<1>5. QED BY <1>2, <1>3, <1>4 DEF Rests

LEMMA SweepGhostRests ==
  ASSUME SessionInv, NEW s \in Ids, Sessions!SweepGhost(s)
  PROVE  Rests
<1> DEFINE rows == Sessions!Written({s}, "failed")
<1>1. /\ Sessions!Drive({s}, rows) /\ sess' = rows /\ UNCHANGED <<epoch, pid, offer, local, post>>
  BY DEF Sessions!SweepGhost, Sessions!Drive, Sessions!process
<1>2. SessionsRest
  BY <1>1, WrittenRests
<1> HIDE DEF rows
<1>3. TasksRest
  BY <1>1, <1>2, DriveRests
<1>4. PidsRest /\ MemoryTyped'
  BY <1>1, <1>2, PidsUnchanged, MemoryUnchanged DEF SessionsRest
<1>5. QED BY <1>1, <1>2, <1>3, <1>4 DEF Rests

LEMMA SweepAgentRests ==
  ASSUME SessionInv, NEW a \in Agents, Sessions!SweepAgent(a)
  PROVE  Rests
<1> DEFINE t == pointer[a]
<1>1. UNCHANGED <<epoch, sess, pid, offer, local, post>>
  BY DEF Sessions!SweepAgent, Sessions!process
<1>2. SessionsRest /\ PidsRest /\ MemoryTyped'
  BY <1>1, RowsUnchanged, PidsUnchanged, MemoryUnchanged
<1>3. CASE task' = task
  BY <1>1, <1>2, <1>3, TasksUnchanged DEF Rests
<1>4. CASE Sessions!Held(t) /\ task[t].owner = a /\ task' = [task EXCEPT ![t] = Sessions!Freed(t, "pending")]
  <2>1. /\ task \in [Tasks -> TaskRows]
        /\ \A x \in Tasks : task[x].status \in {"pending", "failed"} <=> task[x].token = 0
    BY DEF SessionInv, TasksTyped
  <2> DEFINE row == Sessions!Freed(t, "pending")
  <2>2. row \in TaskRows /\ row.token = 0 /\ row.status \in {"pending", "failed"}
    BY FreedIs
  <2>3. task[t].owner = a => Excused(t)
    BY DEF Excused
  <2> HIDE DEF row, t
  <2>4. /\ task' \in [Tasks -> TaskRows]
        /\ \A x \in Tasks : IF x = t THEN task'[x] = row ELSE task'[x] = task[x]
    BY <1>4, <2>1, <2>2 DEF row
  <2>5. ASSUME NEW x \in Tasks, Sessions!Held(x) PROVE task[x].token # 0
    BY <2>1, <2>5 DEF Sessions!Held
  <2>6. TasksRest
    BY <1>4, <2>1, <2>2, <2>3, <2>4, <2>5 DEF TasksRest
  <2>7. QED BY <1>1, <1>2, <2>6 DEF Rests
<1>5. QED BY <1>3, <1>4 DEF Sessions!SweepAgent

(* Steps of the daemon that write neither a row nor a Task.                  *)
LEMMA DaemonRests ==
  ASSUME SessionInv, UNCHANGED <<epoch, sess, task>>, PidsRest, MemoryTyped'
  PROVE  Rests
BY RowsUnchanged, TasksUnchanged DEF Rests

LEMMA LoseAnswerRests ==
  ASSUME SessionInv, NEW s \in Ids, Sessions!LoseAnswer(s)
  PROVE  Rests
<1>1. UNCHANGED <<epoch, sess, task, pid, local, post>> /\ offer' = offer \ {s}
  BY DEF Sessions!LoseAnswer
<1>2. MemoryTyped'
  BY <1>1 DEF SessionInv, MemoryTyped, Ids
<1>3. QED BY <1>1, <1>2, PidsUnchanged, DaemonRests

LEMMA OnePid ==
  ASSUME SessionInv, NEW s \in Ids, NEW n \in {0, sess[s].token}, pid' = [pid EXCEPT ![s] = n]
  PROVE  PidsRest
<1>1. sess[s].token \in Nat /\ pid \in [Ids -> Nat]
  BY RowIs DEF SessionInv, PidsTyped, SessionRows
<1>2. n \in Nat
  BY <1>1
<1>3. \A x \in Ids : pid'[x] = IF x = s THEN n ELSE pid[x]
  BY <1>1
<1>4. pid' \in [Ids -> Nat]
  BY <1>1, <1>2
<1>5. QED BY <1>3, <1>4 DEF PidsRest

LEMMA StartSessionRests ==
  ASSUME SessionInv, NEW s \in Ids, Sessions!StartSession(s)
  PROVE  Rests
<1>1. /\ UNCHANGED <<epoch, sess, task>> /\ offer' = offer \ {s} /\ s \in offer
      /\ \/ /\ local' = local \cup {s} /\ pid' = [pid EXCEPT ![s] = sess[s].token]
            /\ post' = post \cup {[s |-> s, status |-> "running"]}
         \/ /\ post' = post \cup {[s |-> s, status |-> "failed"]} /\ local' = local /\ pid' = pid
  BY DEF Sessions!StartSession, Sessions!Report
<1>2. PidsRest
  BY <1>1, OnePid, PidsUnchanged
<1>3. MemoryTyped'
  BY <1>1 DEF SessionInv, MemoryTyped, Ids, SessionStatuses
<1>4. QED BY <1>1, <1>2, <1>3, DaemonRests

LEMMA EndSessionRests ==
  ASSUME SessionInv, NEW s \in Ids, NEW how \in {"completed", "failed"}, Sessions!EndSession(s, how)
  PROVE  Rests
<1>1. /\ UNCHANGED <<epoch, sess, task, offer>> /\ local' = local \ {s}
      /\ pid' = pid \/ pid' = [pid EXCEPT ![s] = 0]
      /\ post' = post \cup {[s |-> s, status |-> how]}
  BY DEF Sessions!EndSession, Sessions!Report
<1>2. PidsRest
  BY <1>1, OnePid, PidsUnchanged
<1>3. MemoryTyped'
  BY <1>1 DEF SessionInv, MemoryTyped, Ids, SessionStatuses
<1>4. QED BY <1>1, <1>2, <1>3, DaemonRests

LEMMA VanishRests ==
  ASSUME SessionInv, NEW s \in Ids, Sessions!Vanish(s)
  PROVE  Rests
<1>1. UNCHANGED <<epoch, sess, task, offer, local, post>> /\ pid' = [pid EXCEPT ![s] = 0]
  BY DEF Sessions!Vanish
<1>2. QED BY <1>1, OnePid, MemoryUnchanged, DaemonRests

LEMMA DeliverRests ==
  ASSUME SessionInv, NEW p \in post, Sessions!Deliver(p)
  PROVE  Rests
<1>1. /\ UNCHANGED <<epoch, pid, offer, local>> /\ post' = post \ {p}
      /\ p.s \in Ids /\ p.status \in SessionStatuses \ {"starting"}
  BY DEF Sessions!Deliver, Sessions!process, SessionInv, MemoryTyped
<1>2. sess \in Seq(SessionRows) /\ Ids = 1 .. Len(sess) /\ sess[p.s] \in SessionRows
  BY <1>1, IdsAre DEF SessionInv, RowsTyped
<1>3. CASE p.status = "running"
  <2>1. /\ task' = task
        /\ sess' = IF Sessions!Open(p.s) THEN [sess EXCEPT ![p.s].status = "running", ![p.s].placed = TRUE]
                   ELSE [sess EXCEPT ![p.s].placed = TRUE]
    BY <1>3 DEF Sessions!Deliver
  <2> DEFINE row == IF Sessions!Open(p.s) THEN [sess[p.s] EXCEPT !.status = "running", !.placed = TRUE]
                    ELSE [sess[p.s] EXCEPT !.placed = TRUE]
  <2>2. /\ row \in SessionRows /\ row.agent = sess[p.s].agent /\ row.task = sess[p.s].task
        /\ row.token = sess[p.s].token /\ (~Sessions!Open(p.s) => row.status = sess[p.s].status)
    BY <1>2 DEF SessionRows, SessionStatuses
  <2>3. sess' = [sess EXCEPT ![p.s] = row]
    BY <1>1, <1>2, <2>1 DEF Ids
  <2> HIDE DEF row
  <2>4. /\ sess' \in Seq(SessionRows) /\ DOMAIN sess' = DOMAIN sess
        /\ \A s \in Ids : sess'[s] = IF s = p.s THEN row ELSE sess[s]
    BY <1>1, <1>2, <2>2, <2>3 DEF Ids
  <2>5. SessionsRest
    BY <2>2, <2>4 DEF SessionsRest
  <2>6. TasksRest /\ PidsRest
    BY <1>1, <2>1, TasksUnchanged, PidsUnchanged
  <2>7. MemoryTyped'
    BY <1>1, <2>4 DEF SessionInv, MemoryTyped, Ids
  <2>8. QED BY <1>1, <2>5, <2>6, <2>7 DEF Rests
<1>4. CASE p.status # "running"
  <2> DEFINE rows == Sessions!Written({p.s}, p.status)
  <2>1. Sessions!Drive({p.s}, rows) /\ sess' = rows
    BY <1>4 DEF Sessions!Deliver, Sessions!Drive
  <2>2. p.status \in {"released", "completed", "failed"}
    BY <1>1, <1>4 DEF SessionStatuses
  <2>3. SessionsRest
    BY <2>1, <2>2, WrittenRests
  <2> HIDE DEF rows
  <2>4. TasksRest /\ PidsRest
    BY <1>1, <2>1, <2>3, DriveRests, PidsUnchanged
  <2>5. MemoryTyped'
    BY <1>1, <2>3 DEF SessionInv, MemoryTyped, Ids, SessionsRest
  <2>6. QED BY <1>1, <2>3, <2>4, <2>5 DEF Rests
<1>5. QED BY <1>3, <1>4

LEMMA LoseRests ==
  ASSUME SessionInv, NEW p \in post, Sessions!Lose(p)
  PROVE  Rests
<1>1. UNCHANGED <<epoch, sess, task, offer>> /\ p.s \in Ids
  BY DEF Sessions!Lose, SessionInv, MemoryTyped
<1>2. \/ /\ post' = (post \ {p}) \cup {[s |-> p.s, status |-> "failed"]}
         /\ local' = local \ {p.s} /\ pid' = [pid EXCEPT ![p.s] = 0]
      \/ post' = post \ {p} /\ local' = local /\ pid' = pid
  BY DEF Sessions!Lose
<1>3. PidsRest
  BY <1>1, <1>2, OnePid, PidsUnchanged
<1>4. MemoryTyped'
  BY <1>1, <1>2 DEF SessionInv, MemoryTyped, Ids, SessionStatuses
<1>5. QED BY <1>1, <1>3, <1>4, DaemonRests

LEMMA DaemonsRest ==
  ASSUME SessionInv, NEW d \in Daemons,
         \/ Sessions!Heartbeat(d) \/ Sessions!Silence(d) \/ Sessions!Ready(d)
         \/ Sessions!Crash(d) \/ Sessions!Stop(d) \/ Sessions!Restart(d)
  PROVE  Rests
<1>1. UNCHANGED <<epoch, sess, task>>
  BY Zenon DEF Sessions!Heartbeat, Sessions!Silence, Sessions!Ready, Sessions!Crash, Sessions!Stop,
               Sessions!Restart
<1>2. \/ pid' = pid
      \/ pid' = [s \in Ids |-> IF s \in Sessions!Mine(local, d) THEN 0 ELSE pid[s]]
  BY Zenon DEF Sessions!Heartbeat, Sessions!Silence, Sessions!Ready, Sessions!Crash, Sessions!Stop,
               Sessions!Restart, Sessions!process, Sessions!Sids, Ids
<1>3. PidsRest
  BY <1>2, PidsUnchanged DEF SessionInv, PidsTyped, PidsRest
<1>4. /\ offer' = offer \/ offer' = offer \ Sessions!Mine(offer, d)
      /\ local' = local \/ local' = local \ Sessions!Mine(local, d)
      /\ \/ post' = post
         \/ post' = post \cup {[s |-> s, status |-> "released"] : s \in Sessions!Mine(local, d)}
         \/ post' = post \cup {[s |-> s, status |-> IF sess[s].placed THEN "failed" ELSE "released"] :
                                 s \in Sessions!OpenRows(d)}
  BY Zenon DEF Sessions!Heartbeat, Sessions!Silence, Sessions!Ready, Sessions!Crash, Sessions!Stop,
               Sessions!Restart, Sessions!process
<1>5. Sessions!Mine(local, d) \subseteq Ids /\ Sessions!OpenRows(d) \subseteq Ids
  BY DEF SessionInv, MemoryTyped, Sessions!Mine, Sessions!OpenRows, Sessions!Sids, Ids
<1>6. ASSUME NEW p \in post' PROVE p.s \in Ids /\ p.status \in SessionStatuses \ {"starting"}
  BY <1>4, <1>5 DEF SessionInv, MemoryTyped, SessionStatuses
<1>7. MemoryTyped'
  BY <1>1, <1>4, <1>6 DEF SessionInv, MemoryTyped, Ids
<1>8. QED BY <1>1, <1>3, <1>7, DaemonRests

LEMMA StartEmbeddedRests ==
  ASSUME SessionInv, NEW d \in Daemons, Sessions!StartEmbedded(d)
  PROVE  Rests
<1> DEFINE S == Sessions!OpenRows(d)   rows == Sessions!Written(S, "failed")
<1>1. Sessions!Drive(S, rows) /\ sess' = rows /\ UNCHANGED <<epoch, pid, offer, local, post>>
  BY DEF Sessions!StartEmbedded, Sessions!Drive
<1>2. S \subseteq Ids
  BY DEF Sessions!OpenRows, Sessions!Sids, Ids
<1> HIDE DEF S
<1>3. SessionsRest
  BY <1>1, WrittenRests
<1> HIDE DEF rows
<1>4. TasksRest
  BY <1>1, <1>2, <1>3, DriveRests
<1>5. PidsRest /\ MemoryTyped'
  BY <1>1, <1>3, PidsUnchanged, MemoryUnchanged DEF SessionsRest
<1>6. QED BY <1>1, <1>3, <1>4, <1>5 DEF Rests

(* What a worker, a reviewer or a retry does to a Task.                      *)
LEMMA TaskRests ==
  ASSUME SessionInv, UNCHANGED <<epoch, sess, pid, offer, local, post>>, TasksRest
  PROVE  Rests
BY RowsUnchanged, PidsUnchanged, MemoryUnchanged DEF Rests

LEMMA StatusRests ==
  ASSUME SessionInv, NEW t \in Tasks,
         NEW how \in {"claimed", "in_progress", "submitted", "rejected", "done"},
         task[t].status \notin {"pending", "failed"}, task' = [task EXCEPT ![t].status = how]
  PROVE  TasksRest
<1>1. task[t] \in TaskRows /\ task[t].token # 0 /\ task \in [Tasks -> TaskRows]
  BY DEF SessionInv, TasksTyped
<1> DEFINE row == [task[t] EXCEPT !.status = how]
<1>2. row \in TaskRows /\ row.token = task[t].token /\ row.status \notin {"pending", "failed"}
  BY <1>1 DEF TaskRows
<1>3. task' = [task EXCEPT ![t] = row]
  BY <1>1
<1> HIDE DEF row
<1>4. QED BY <1>1, <1>2, <1>3, TaskAdvances

LEMMA WorkerRests ==
  ASSUME SessionInv, NEW s \in Ids, Sessions!Start(s) \/ Sessions!Submit(s) \/ Sessions!NameTask(s)
  PROVE  Rests
<1>1. UNCHANGED <<epoch, sess, pid, offer, local, post>>
  BY Zenon DEF Sessions!Start, Sessions!Submit, Sessions!NameTask, Sessions!process
<1>2. sess[s].task \in Tasks
  BY RowIs DEF SessionRows
<1>3. CASE Sessions!Start(s)
  BY <1>1, <1>2, <1>3, StatusRests, TaskRests DEF Sessions!Start
<1>4. CASE Sessions!Submit(s)
  BY <1>1, <1>2, <1>4, StatusRests, TaskRests DEF Sessions!Submit
<1>5. CASE Sessions!NameTask(s)
  BY <1>1, <1>5, TasksUnchanged, TaskRests DEF Sessions!NameTask
<1>6. QED BY <1>3, <1>4, <1>5

LEMMA ReviewRests ==
  ASSUME SessionInv, NEW t \in Tasks, Sessions!Review(t)
  PROVE  Rests
<1>1. UNCHANGED <<epoch, sess, pid, offer, local, post>>
  BY DEF Sessions!Review, Sessions!process
<1>2. PICK verdict \in {"rejected", "done"} : task' = [task EXCEPT ![t].status = verdict]
  BY DEF Sessions!Review
<1>3. TasksRest
  BY <1>2, StatusRests DEF Sessions!Review
<1>4. QED BY <1>1, <1>3, TaskRests

LEMMA RetryRests ==
  ASSUME SessionInv, NEW t \in Tasks, Sessions!Retry(t)
  PROVE  Rests
<1>1. UNCHANGED <<epoch, sess, pid, offer, local, post>>
  BY DEF Sessions!Retry, Sessions!process
<1>2. /\ task[t].status = "failed" /\ task' = [task EXCEPT ![t].status = "pending"]
      /\ task \in [Tasks -> TaskRows] /\ \A x \in Tasks : task[x].status \in {"pending", "failed"} <=> task[x].token = 0
  BY DEF Sessions!Retry, SessionInv, TasksTyped
<1> DEFINE row == [task[t] EXCEPT !.status = "pending"]
<1>3. row \in TaskRows /\ row.token = task[t].token /\ row.token = 0 /\ row.status = "pending"
  BY <1>2 DEF TaskRows
<1>4. task' = [task EXCEPT ![t] = row]
  BY <1>2
<1> HIDE DEF row
<1>5. /\ task' \in [Tasks -> TaskRows]
      /\ \A x \in Tasks : IF x = t THEN task'[x] = row ELSE task'[x] = task[x]
  BY <1>2, <1>3, <1>4
<1>6. ~Sessions!Held(t) /\ \A x \in Tasks : Sessions!Held(x) => task[x].token # 0
  BY <1>2 DEF Sessions!Held
<1>7. TasksRest
  BY <1>2, <1>3, <1>5, <1>6 DEF TasksRest
<1>8. QED BY <1>1, <1>7, TaskRests

(***************************************************************************)
(* The two actions that mint an epoch                                      *)
(***************************************************************************)
(* Held Tasks have an epoch, so a step that gives one takes none away.       *)
LEMMA HeldHasToken == SessionInv => \A t \in Tasks : Sessions!Held(t) => task[t].token # 0
BY DEF SessionInv, TasksTyped, Sessions!Held

(* A Task goes over to the epoch that is minted.                             *)
LEMMA MintedTasks ==
  ASSUME SessionInv, NEW t \in Tasks, NEW row, epoch' = epoch + 1, task' = [task EXCEPT ![t] = row],
         row \in TaskRows, row.token = epoch + 1, row.status \notin {"pending", "failed"}
  PROVE  TasksTyped' /\ \A x \in Tasks : Sessions!Held(x) => task'[x].token # 0
<1>1. /\ epoch \in Nat /\ task \in [Tasks -> TaskRows]
      /\ \A x \in Tasks : /\ task[x].token <= epoch /\ task[x].token \in Nat
                          /\ task[x].status \in {"pending", "failed"} <=> task[x].token = 0
  BY DEF SessionInv, TasksTyped, TaskRows
<1>2. /\ task' \in [Tasks -> TaskRows]
      /\ \A x \in Tasks : IF x = t THEN task'[x] = row ELSE task'[x] = task[x]
  BY <1>1
<1>3. ASSUME NEW x \in Tasks
      PROVE  /\ task'[x].token <= epoch'
             /\ task'[x].status \in {"pending", "failed"} <=> task'[x].token = 0
             /\ Sessions!Held(x) => task'[x].token # 0
  <2>1. CASE x = t
    BY <1>1, <1>2, <2>1
  <2>2. CASE x # t
    BY <1>1, <1>2, <2>2, HeldHasToken
  <2>3. QED BY <2>1, <2>2
<1>4. QED BY <1>1, <1>2, <1>3 DEF TasksTyped

ClaimedRow(a, t) ==
  [agent |-> a, task |-> t, token |-> epoch + 1, status |-> "starting", placed |-> FALSE]

LEMMA ClaimAdds ==
  ASSUME SessionInv, NEW a \in Agents, NEW t \in Tasks, Sessions!Claim(a, t)
  PROVE  /\ Ids' = Ids \cup {Len(sess) + 1} /\ Len(sess) + 1 \notin Ids
         /\ \A s \in Ids : sess'[s] = sess[s] /\ pid'[s] = pid[s]
         /\ sess'[Len(sess) + 1].agent = a /\ sess'[Len(sess) + 1].token = epoch + 1
         /\ pid'[Len(sess) + 1] = 0
         /\ sess' \in Seq(SessionRows) /\ pid' \in [Ids' -> Nat]
<1> DEFINE row == ClaimedRow(a, t)   n == Len(sess)
<1>1. sess' = Append(sess, row) /\ pid' = Append(pid, 0)
  BY DEF Sessions!Claim, ClaimedRow
<1>2. epoch \in Nat /\ sess \in Seq(SessionRows) /\ Ids = 1 .. n /\ n \in Nat /\ pid \in [Ids -> Nat]
  BY RowIs, IdsAre DEF SessionInv, TasksTyped, PidsTyped
<1>3. row \in SessionRows /\ row.agent = a /\ row.token = epoch + 1
  BY <1>2 DEF ClaimedRow, SessionRows, SessionStatuses
<1>4. pid \in Seq(Nat) /\ Len(pid) = n
  BY <1>2
<1> HIDE DEF row, n
<1>5. /\ sess' \in Seq(SessionRows) /\ Len(sess') = n + 1 /\ sess'[n + 1] = row
      /\ \A s \in 1 .. n : sess'[s] = sess[s]
  BY <1>1, <1>2, <1>3 DEF n
<1>6. /\ pid' \in Seq(Nat) /\ Len(pid') = n + 1 /\ pid'[n + 1] = 0
      /\ \A s \in 1 .. n : pid'[s] = pid[s]
  BY <1>1, <1>2, <1>4
<1>7. Ids' = 1 .. (n + 1) /\ pid' \in [1 .. (n + 1) -> Nat]
  BY <1>5, <1>6 DEF Ids
<1>8. 1 .. (n + 1) = (1 .. n) \cup {n + 1} /\ n + 1 \notin 1 .. n
  BY <1>2
<1>9. QED BY <1>2, <1>3, <1>5, <1>6, <1>7, <1>8 DEF n

LEMMA ClaimCapacity ==
  ASSUME SessionHypotheses, SessionInv, NEW a \in Agents, NEW t \in Tasks, Sessions!Claim(a, t)
  PROVE  Sessions!CapacityHolds'
<1> DEFINE n == Len(sess) + 1
<1>1. /\ Ids' = Ids \cup {n} /\ n \notin Ids /\ \A s \in Ids : sess'[s] = sess[s]
      /\ sess'[n].agent = a
  BY ClaimAdds, Zenon
<1> HIDE DEF n
<1>2. \A d : Sessions!OpenRows(d) \subseteq Ids /\ IsFiniteSet(Sessions!OpenRows(d))
  <2>1. \A d : Sessions!OpenRows(d) \subseteq Ids
    BY DEF Sessions!OpenRows, Sessions!Sids, Ids
  <2>2. QED BY <2>1, IdsAre, FS_Subset
<1>3. ASSUME NEW d \in Daemons \ Embedded
      PROVE  /\ Cardinality(Sessions!OpenRows(d)') <= Limit
             /\ \A r, s \in Sessions!OpenRows(d)' : sess'[r].agent = sess'[s].agent => r = s
  <2> DEFINE old == Sessions!OpenRows(d)   new == Sessions!OpenRows(d)'
  <2>1. /\ Cardinality(old) <= Limit /\ Cardinality(old) \in Nat
        /\ \A r, s \in old : sess[r].agent = sess[s].agent => r = s
    BY <1>2, CountIs, FS_CardinalityType, Zenon DEF SessionInv, Sessions!CapacityHolds
  <2>2. CASE Host[a] # d
    <3>1. new = old
      BY <1>1, <2>2 DEF Sessions!OpenRows, Sessions!Open, Sessions!Sids, Ids
    <3>2. QED BY <1>1, <1>2, <2>1, <3>1
  <2>3. CASE Host[a] = d
    <3>1. Cardinality(old) < Limit /\ \A s \in old : sess[s].agent # a
      BY <2>3, CountIs DEF Sessions!Claim, Sessions!Admits
    <3>2. new \subseteq old \cup {n} /\ n \notin old
      BY <1>1, <1>2 DEF Sessions!OpenRows, Sessions!Open, Sessions!Sids, Ids
    <3>3. Cardinality(old \cup {n}) = Cardinality(old) + 1 /\ IsFiniteSet(old \cup {n})
      BY <1>2, <3>2, FS_AddElement
    <3>4. Cardinality(new) <= Cardinality(old \cup {n}) /\ Cardinality(new) \in Nat
      BY <3>2, <3>3, FS_Subset, FS_CardinalityType
    <3>5. Cardinality(new) <= Limit
      BY <2>1, <3>1, <3>3, <3>4 DEF SessionHypotheses
    <3>6. \A r, s \in new : sess'[r].agent = sess'[s].agent => r = s
      BY <1>1, <1>2, <2>1, <3>1, <3>2
    <3>7. QED BY <3>5, <3>6
  <2>4. QED BY <2>2, <2>3
<1>4. QED BY <1>3, CountIs, Zenon DEF Sessions!CapacityHolds

LEMMA ClaimKeeps ==
  ASSUME SessionHypotheses, SessionInv, NEW a \in Agents, NEW t \in Tasks, Sessions!Claim(a, t)
  PROVE  /\ SessionInv' /\ \A x \in Tasks : Sessions!Held(x) => task'[x].token # 0
         /\ \A s \in Ids : sess'[s] = sess[s]
<1> DEFINE n == Len(sess) + 1
<1>1. /\ Ids' = Ids \cup {n} /\ n \notin Ids
      /\ \A s \in Ids : sess'[s] = sess[s] /\ pid'[s] = pid[s]
      /\ sess'[n].token = epoch + 1 /\ pid'[n] = 0
      /\ sess' \in Seq(SessionRows) /\ pid' \in [Ids' -> Nat]
  BY ClaimAdds, Zenon
<1> HIDE DEF n
<1>2. /\ epoch \in Nat /\ epoch' = epoch + 1
      /\ \A s \in Ids : /\ sess[s].token \in Nat /\ sess[s].token >= 1 /\ sess[s].token <= epoch
                        /\ pid[s] \in Nat /\ pid[s] <= epoch
  BY RowIs DEF SessionInv, TasksTyped, RowsTyped, PidsTyped, Sessions!Claim, SessionRows
<1>3. TasksTyped' /\ \A x \in Tasks : Sessions!Held(x) => task'[x].token # 0
  <2> DEFINE row == [status |-> "claimed", token |-> epoch + 1, owner |-> a]
  <2>1. row \in TaskRows /\ row.token = epoch + 1 /\ row.status \notin {"pending", "failed"}
    BY <1>2 DEF TaskRows
  <2>2. task' = [task EXCEPT ![t] = row]
    BY DEF Sessions!Claim
  <2> HIDE DEF row
  <2>3. QED BY <1>2, <2>1, <2>2, MintedTasks
<1>4. RowsTyped'
  <2>1. ASSUME NEW s \in Ids' PROVE sess'[s].token >= 1 /\ sess'[s].token <= epoch'
    BY <1>1, <1>2
  <2>2. QED BY <1>1, <2>1 DEF RowsTyped
<1>5. PidsTyped'
  <2>1. ASSUME NEW s \in Ids' PROVE pid'[s] <= epoch'
    BY <1>1, <1>2
  <2>2. QED BY <1>1, <2>1 DEF PidsTyped
<1>6. MemoryTyped'
  <2>1. offer' = offer \cup {n} /\ local' = local /\ post' = post
    <3>1. sess \in Seq(SessionRows) /\ sess' = Append(sess, ClaimedRow(a, t))
      BY RowIs DEF Sessions!Claim, ClaimedRow
    <3>2. Len(sess') = n
      BY <3>1 DEF n
    <3>3. QED BY <3>2 DEF Sessions!Claim
  <2>2. QED BY <1>1, <2>1 DEF SessionInv, MemoryTyped
<1>7. Sessions!OneSessionPerEpoch'
  <2>1. ASSUME NEW r \in Ids', NEW s \in Ids', r # s, sess'[r].task = sess'[s].task
        PROVE  sess'[r].token # sess'[s].token
    <3>1. CASE r \in Ids /\ s \in Ids
      BY <1>1, <2>1, <3>1 DEF SessionInv, Sessions!OneSessionPerEpoch, Sessions!Sids, Ids
    <3>2. CASE r = n \/ s = n
      BY <1>1, <1>2, <2>1, <3>2
    <3>3. QED BY <1>1, <3>1, <3>2
  <2>2. QED BY <2>1, Zenon DEF Sessions!OneSessionPerEpoch, Sessions!Sids, Ids
<1>8. EpochIsOfOne'
  <2>1. ASSUME NEW r \in Ids', NEW s \in Ids', pid'[s] # 0, sess'[r].task = sess'[s].task,
               sess'[r].token = pid'[s]
        PROVE  r = s
    <3>1. CASE r \in Ids
      BY <1>1, <2>1, <3>1 DEF SessionInv, EpochIsOfOne
    <3>2. CASE r = n
      BY <1>1, <1>2, <2>1, <3>2
    <3>3. QED BY <1>1, <3>1, <3>2
  <2>2. QED BY <2>1, Zenon DEF EpochIsOfOne
<1>9. OpenCarries'
  <2>1. ASSUME NEW s \in Ids', Sessions!Open(s)', pid'[s] # 0 PROVE sess'[s].token = pid'[s]
    BY <1>1, <2>1 DEF SessionInv, OpenCarries, Sessions!Open
  <2>2. QED BY <2>1, Zenon DEF OpenCarries
<1>10. Sessions!CapacityHolds'
  BY ClaimCapacity
<1>11. QED BY <1>1, <1>3, <1>4, <1>5, <1>6, <1>7, <1>8, <1>9, <1>10, Zenon DEF SessionInv

(* The session of the worker, and no other one, goes over to the new epoch,  *)
(* unless it is over or ends now.                                            *)
LEMMA ReworkMoves ==
  ASSUME SessionInv, NEW s \in Ids, Sessions!Rework(s)
  PROVE  /\ DOMAIN sess' = DOMAIN sess /\ sess' \in Seq(SessionRows)
         /\ \A x \in Ids : x # s => sess'[x] = sess[x]
         /\ sess'[s].agent = sess[s].agent /\ sess'[s].task = sess[s].task
         /\ \/ ~Sessions!Open(s) /\ sess'[s] = sess[s]
            \/ Sessions!Open(s) /\ sess'[s].status = "failed" /\ sess'[s].token = sess[s].token
            \/ Sessions!Open(s) /\ sess'[s].token = epoch + 1
<1> DEFINE t == sess[s].task
<1>1. sess' = Sessions!Continued(t) /\ pid[s] # 0 /\ pid[s] = task[t].token
  BY DEF Sessions!Rework, Sessions!Works
<1>2. epoch \in Nat /\ sess \in Seq(SessionRows) /\ \A x \in Ids : sess[x] \in SessionRows
  BY RowIs DEF SessionInv, TasksTyped
<1>3. Ids = 1 .. Len(sess) /\ Len(sess) \in Nat
  BY IdsAre
<1>4. sess' = [x \in Ids |-> sess'[x]]
  BY <1>1 DEF Sessions!Continued, Sessions!Sids, Ids
<1>5. ASSUME NEW x \in Ids
      PROVE  \/ sess'[x] = sess[x] /\ ~(Sessions!Open(x) /\ Sessions!Matches(sess[x], t))
             \/ /\ Sessions!Open(x) /\ Sessions!Matches(sess[x], t)
                /\ \/ sess'[x] = [sess[x] EXCEPT !.status = "failed"]
                   \/ sess'[x] = [sess[x] EXCEPT !.token = epoch + 1]
  BY <1>1 DEF Sessions!Continued, Sessions!Sids, Ids
<1>6. \A x \in Ids : Sessions!Matches(sess[x], t) => x = s
  BY <1>1 DEF SessionInv, EpochIsOfOne, Sessions!Matches
<1>7. Sessions!Open(s) => Sessions!Matches(sess[s], t)
  BY <1>1 DEF SessionInv, OpenCarries, Sessions!Matches
<1> HIDE DEF t
<1>8. ASSUME NEW x \in Ids, NEW e, e = epoch + 1,
             \/ sess'[x] = sess[x]
             \/ sess'[x] = [sess[x] EXCEPT !.status = "failed"]
             \/ sess'[x] = [sess[x] EXCEPT !.token = e]
      PROVE  sess'[x] \in SessionRows
  <2>1. e \in Nat /\ sess[x] \in SessionRows
    BY <1>2, <1>8
  <2>2. QED BY <1>8, <2>1 DEF SessionRows, SessionStatuses
<1>9. \A x \in Ids : sess'[x] \in SessionRows
  BY <1>5, <1>8
<1>10. DOMAIN sess' = DOMAIN sess /\ sess' \in Seq(SessionRows)
  BY <1>3, <1>4, <1>9 DEF Ids
<1>11. ASSUME NEW e, e = epoch + 1
       PROVE  /\ sess'[s].agent = sess[s].agent /\ sess'[s].task = sess[s].task
              /\ \/ ~Sessions!Open(s) /\ sess'[s] = sess[s]
                 \/ Sessions!Open(s) /\ sess'[s].status = "failed" /\ sess'[s].token = sess[s].token
                 \/ Sessions!Open(s) /\ sess'[s].token = e
  <2>1. sess[s] \in SessionRows
    BY <1>2
  <2>2. \/ sess'[s] = sess[s] /\ ~Sessions!Open(s)
        \/ Sessions!Open(s) /\ sess'[s] = [sess[s] EXCEPT !.status = "failed"]
        \/ Sessions!Open(s) /\ sess'[s] = [sess[s] EXCEPT !.token = e]
    BY <1>5, <1>7, <1>11
  <2>3. QED BY <2>1, <2>2 DEF SessionRows
<1>12. \A x \in Ids : x # s => sess'[x] = sess[x]
  BY <1>5, <1>6
<1>13. QED BY <1>10, <1>11, <1>12

LEMMA ReworkKeeps ==
  ASSUME SessionHypotheses, SessionInv, NEW s \in Ids, Sessions!Rework(s)
  PROVE  /\ SessionInv' /\ \A x \in Tasks : Sessions!Held(x) => task'[x].token # 0
         /\ \A x \in Ids : ~Sessions!Open(x) => sess'[x] = sess[x]
<1> DEFINE t == sess[s].task
<1>1. /\ Ids' = Ids /\ sess' \in Seq(SessionRows)
      /\ \A x \in Ids : x # s => sess'[x] = sess[x]
      /\ sess'[s].agent = sess[s].agent /\ sess'[s].task = sess[s].task
      /\ \/ ~Sessions!Open(s) /\ sess'[s] = sess[s]
         \/ Sessions!Open(s) /\ sess'[s].status = "failed" /\ sess'[s].token = sess[s].token
         \/ Sessions!Open(s) /\ sess'[s].token = epoch + 1
  BY ReworkMoves DEF Ids
<1>2. /\ epoch \in Nat /\ epoch' = epoch + 1 /\ UNCHANGED <<offer, local, post>>
      /\ \A x \in Ids : /\ sess[x].token \in Nat /\ sess[x].token >= 1 /\ sess[x].token <= epoch
                        /\ sess[x].task \in Tasks /\ pid[x] \in Nat /\ pid[x] <= epoch
  BY RowIs DEF SessionInv, TasksTyped, RowsTyped, PidsTyped, Sessions!Rework, SessionRows
<1>3. /\ pid' \in [Ids -> Nat] /\ pid'[s] = epoch + 1 /\ \A x \in Ids : x # s => pid'[x] = pid[x]
  <2>1. pid \in [Ids -> Nat] /\ pid' = [pid EXCEPT ![s] = epoch + 1]
    BY DEF SessionInv, PidsTyped, Sessions!Rework
  <2>2. QED BY <1>2, <2>1
<1>4. TasksTyped' /\ \A x \in Tasks : Sessions!Held(x) => task'[x].token # 0
  <2>1. ASSUME NEW e, e = epoch + 1
        PROVE  \E row : /\ task' = [task EXCEPT ![t] = row] /\ row \in TaskRows
                        /\ row.token = e /\ row.status \notin {"pending", "failed"}
    <3>1. /\ task' = [task EXCEPT ![t].status = "in_progress", ![t].token = e]
          /\ task[t] \in TaskRows /\ task \in [Tasks -> TaskRows] /\ e \in Nat
      BY <1>2, <2>1 DEF Sessions!Rework, SessionInv, TasksTyped
    <3> DEFINE row == [task[t] EXCEPT !.status = "in_progress", !.token = e]
    <3>2. row \in TaskRows /\ row.token = e /\ row.status \notin {"pending", "failed"}
      BY <3>1 DEF TaskRows
    <3>3. task' = [task EXCEPT ![t] = row]
      BY <3>1
    <3> HIDE DEF row
    <3>4. QED BY <3>2, <3>3
  <2>2. PICK row : /\ task' = [task EXCEPT ![t] = row] /\ row \in TaskRows
                   /\ row.token = epoch + 1 /\ row.status \notin {"pending", "failed"}
    BY <2>1
  <2>3. QED BY <1>2, <2>2, MintedTasks
<1>5. RowsTyped'
  <2>1. ASSUME NEW x \in Ids PROVE sess'[x].token >= 1 /\ sess'[x].token <= epoch'
    BY <1>1, <1>2
  <2>2. QED BY <1>1, <2>1 DEF RowsTyped
<1>6. PidsTyped'
  <2>1. ASSUME NEW x \in Ids PROVE pid'[x] <= epoch'
    BY <1>2, <1>3
  <2>2. QED BY <1>1, <1>3, <2>1 DEF PidsTyped
<1>7. MemoryTyped'
  BY <1>1, <1>2, Zenon DEF SessionInv, MemoryTyped
<1>8. Sessions!OneSessionPerEpoch'
  <2>1. ASSUME NEW r \in Ids, NEW x \in Ids, r # x, sess'[r].task = sess'[x].task
        PROVE  sess'[r].token # sess'[x].token
    <3>1. sess[r].task = sess[x].task /\ sess[r].token # sess[x].token
      BY <1>1, <2>1 DEF SessionInv, Sessions!OneSessionPerEpoch, Sessions!Sids, Ids
    <3>2. /\ sess[r].token \in Nat /\ sess[r].token <= epoch
          /\ sess[x].token \in Nat /\ sess[x].token <= epoch /\ epoch \in Nat
      BY <1>2
    <3>3. CASE r # s /\ x # s
      BY <1>1, <3>1, <3>3
    <3>4. CASE r = s
      <4>1. sess'[x] = sess[x] /\ (sess'[s].token = sess[s].token \/ sess'[s].token = epoch + 1)
        BY <1>1, <2>1, <3>4
      <4>2. QED BY <3>1, <3>2, <3>4, <4>1
    <3>5. CASE x = s
      <4>1. sess'[r] = sess[r] /\ (sess'[s].token = sess[s].token \/ sess'[s].token = epoch + 1)
        BY <1>1, <2>1, <3>5
      <4>2. QED BY <3>1, <3>2, <3>5, <4>1
    <3>6. QED BY <3>3, <3>4, <3>5
  <2>2. QED BY <1>1, <2>1, Zenon DEF Sessions!OneSessionPerEpoch, Sessions!Sids, Ids
<1>9. EpochIsOfOne'
  <2>1. ASSUME NEW r \in Ids, NEW x \in Ids, pid'[x] # 0, sess'[r].task = sess'[x].task,
               sess'[r].token = pid'[x]
        PROVE  r = x
    <3>1. sess[r].task = sess[x].task
      BY <1>1, <2>1
    <3>2. CASE x = s
      BY <1>1, <1>2, <1>3, <2>1, <3>2
    <3>3. CASE x # s
      <4>1. pid'[x] = pid[x] /\ sess[r].token = sess'[r].token
        <5>1. pid'[x] = pid[x] /\ sess'[r].token # epoch + 1
          BY <1>2, <1>3, <2>1, <3>3
        <5>2. \/ sess'[r] = sess[r]
              \/ sess'[r].token = sess[r].token
              \/ sess'[r].token = epoch + 1
          BY <1>1
        <5>3. QED BY <5>1, <5>2
      <4>2. sess[r].token = pid[x] /\ pid[x] # 0
        BY <2>1, <4>1
      <4>3. EpochIsOfOne
        BY Zenon DEF SessionInv
      <4>4. QED BY <3>1, <4>2, <4>3, Zenon DEF EpochIsOfOne
    <3>4. QED BY <3>2, <3>3
  <2>2. QED BY <1>1, <2>1, Zenon DEF EpochIsOfOne
<1>10. OpenCarries'
  <2>1. ASSUME NEW x \in Ids, Sessions!Open(x)', pid'[x] # 0 PROVE sess'[x].token = pid'[x]
    <3>1. CASE x = s
      BY <1>1, <1>3, <2>1, <3>1 DEF Sessions!Open
    <3>2. CASE x # s
      BY <1>1, <1>3, <2>1, <3>2 DEF SessionInv, OpenCarries, Sessions!Open
    <3>3. QED BY <3>1, <3>2
  <2>2. QED BY <1>1, <2>1, Zenon DEF OpenCarries
<1>11. Sessions!CapacityHolds'
  <2>1. /\ Ids' = Ids
        /\ \A x \in Ids : /\ sess'[x].agent = sess[x].agent
                          /\ Sessions!Open(x)' => Sessions!Open(x)
    BY <1>1 DEF Sessions!Open
  <2>2. QED BY <2>1, CapacityShrinks
<1>12. \A x \in Ids : ~Sessions!Open(x) => sess'[x] = sess[x]
  BY <1>1
<1>13. QED
  BY <1>4, <1>5, <1>6, <1>7, <1>8, <1>9, <1>10, <1>11, <1>12, Zenon DEF SessionInv

(***************************************************************************)
(* The theorems                                                            *)
(***************************************************************************)
(* What a step takes from the holder of a Task, and what it does to a        *)
(* session that is over.                                                     *)
Taken ==
  /\ \A t \in Tasks : Sessions!Held(t) /\ task'[t].token = 0 => Excused(t)
  /\ \A s \in Ids : ~Sessions!Open(s) =>
       sess'[s].status = sess[s].status /\ sess'[s].token = sess[s].token

LEMMA RestsTakes == ASSUME Rests PROVE Taken
BY DEF Rests, TasksRest, SessionsRest, Taken

LEMMA SessionsStart == SessionHypotheses /\ Sessions!Init => SessionInv
<1> SUFFICES ASSUME SessionHypotheses, Sessions!Init PROVE SessionInv
  OBVIOUS
<1>1. /\ epoch = 0 /\ sess = << >> /\ pid = << >> /\ offer = {} /\ local = {} /\ post = {}
      /\ task = [t \in Tasks |-> [status |-> "pending", token |-> 0, owner |-> "none"]]
  BY DEF Sessions!Init, Sessions!NoTask
<1>2. Ids = {} /\ sess \in Seq(SessionRows) /\ pid \in [Ids -> Nat]
  BY <1>1 DEF Ids
<1>3. TasksTyped
  <2> DEFINE row == [status |-> "pending", token |-> 0, owner |-> "none"]
  <2>1. row \in TaskRows /\ row.token = 0 /\ row.status = "pending"
    BY DEF TaskRows
  <2> HIDE DEF row
  <2>2. task = [t \in Tasks |-> row]
    BY <1>1 DEF row
  <2>3. QED BY <1>1, <2>1, <2>2 DEF TasksTyped
<1>4. RowsTyped /\ PidsTyped /\ MemoryTyped
  BY <1>1, <1>2 DEF RowsTyped, PidsTyped, MemoryTyped
<1>5. Sessions!OneSessionPerEpoch /\ EpochIsOfOne /\ OpenCarries
  BY <1>2 DEF Sessions!OneSessionPerEpoch, EpochIsOfOne, OpenCarries, Sessions!Sids, Ids
<1>6. Sessions!CapacityHolds
  <2>1. \A d : Sessions!OpenRows(d) = {}
    BY <1>2 DEF Sessions!OpenRows, Sessions!Sids, Ids
  <2>2. QED BY <2>1, CountIs, FS_EmptySet DEF Sessions!CapacityHolds, SessionHypotheses
<1>7. QED BY <1>3, <1>4, <1>5, <1>6 DEF SessionInv

LEMMA SessionsStep ==
  ASSUME SessionHypotheses, SessionInv, [Sessions!Next]_(Sessions!vars)
  PROVE  SessionInv' /\ Taken
<1>1. CASE Rests
  BY <1>1, RestsKeeps, RestsTakes
<1>2. CASE UNCHANGED Sessions!vars
  <2>1. /\ UNCHANGED <<epoch, sess, task, pid>> /\ MemoryTyped'
    BY <1>2, MemoryUnchanged DEF Sessions!vars
  <2>2. Rests
    BY <2>1, PidsUnchanged, DaemonRests
  <2>3. QED BY <2>2, RestsKeeps, RestsTakes
<1>3. ASSUME NEW a \in Agents, NEW t \in Tasks, Sessions!Claim(a, t) PROVE SessionInv' /\ Taken
  BY <1>3, ClaimKeeps, Zenon DEF Taken
<1>4. ASSUME NEW s \in Ids, Sessions!Rework(s) PROVE SessionInv' /\ Taken
  BY <1>4, ReworkKeeps, Zenon DEF Taken
<1>5. CASE \E t \in Tasks : \/ Sessions!SweepTask(t) \/ Sessions!Review(t) \/ Sessions!Retry(t)
                          \/ \E a \in Agents : Sessions!Claim(a, t)
  BY <1>1, <1>3, <1>5, SweepTaskRests, ReviewRests, RetryRests, Zenon
<1>6. CASE \E a \in Agents : Sessions!SweepAgent(a)
  BY <1>1, <1>6, SweepAgentRests, Zenon
<1>7. CASE \E d \in Daemons :
        \/ Sessions!Heartbeat(d) \/ Sessions!Silence(d) \/ Sessions!Crash(d) \/ Sessions!Stop(d)
        \/ Sessions!Restart(d) \/ Sessions!Ready(d) \/ Sessions!StartEmbedded(d)
  BY <1>1, <1>7, DaemonsRest, StartEmbeddedRests, Zenon
<1>8. CASE \E s \in Ids :
        \/ Sessions!SweepGhost(s) \/ Sessions!LoseAnswer(s) \/ Sessions!StartSession(s)
        \/ Sessions!Vanish(s) \/ Sessions!Start(s) \/ Sessions!Rework(s) \/ Sessions!Submit(s)
        \/ Sessions!NameTask(s) \/ \E how \in {"completed", "failed"} : Sessions!EndSession(s, how)
  BY <1>1, <1>4, <1>8, SweepGhostRests, LoseAnswerRests, StartSessionRests, VanishRests, WorkerRests,
     EndSessionRests, Zenon
<1>9. CASE \E p \in post : Sessions!Deliver(p) \/ Sessions!Lose(p)
  BY <1>1, <1>9, DeliverRests, LoseRests, Zenon
<1>10. QED
  BY <1>2, <1>5, <1>6, <1>7, <1>8, <1>9, Zenon DEF Sessions!Next, Sessions!Sids, Sessions!Ends, Ids

LEMMA SessionInvAgrees == SessionInv => Sessions!SessionsAgree
<1> SUFFICES ASSUME SessionInv PROVE Sessions!SessionsAgree
  OBVIOUS
<1>1. ASSUME NEW t \in Tasks
      PROVE  /\ task[t].status \in {"pending", "claimed", "in_progress", "submitted",
                                   "rejected", "failed", "done"}
             /\ task[t].token \in 0 .. epoch /\ task[t].owner \in Agents \cup {"none"}
             /\ task[t].status \in {"pending", "failed"} <=> task[t].token = 0
  <2>1. /\ task[t] \in TaskRows /\ task[t].token <= epoch /\ epoch \in Nat
        /\ task[t].status \in {"pending", "failed"} <=> task[t].token = 0
    BY DEF SessionInv, TasksTyped
  <2>2. QED BY <2>1 DEF TaskRows
<1>2. ASSUME NEW s \in Ids
      PROVE  /\ sess[s].status \in {"starting", "running", "released", "completed", "failed"}
             /\ pid[s] \in 0 .. epoch
  BY RowIs DEF SessionInv, PidsTyped, TasksTyped, SessionRows, SessionStatuses
<1>3. Sessions!TypeOK
  BY <1>1, <1>2 DEF Sessions!TypeOK, Sessions!NoTask, Sessions!Sids, Sessions!Ends, Ids, SessionInv, MemoryTyped
<1>4. Sessions!SessionFollowsWorker
  BY DEF Sessions!SessionFollowsWorker, Sessions!Works, Sessions!Sids, Ids, SessionInv, OpenCarries
<1>5. QED BY <1>3, <1>4 DEF SessionInv, Sessions!SessionsAgree

(* The rows of the sessions, the epochs of the Tasks and the processes of    *)
(* the daemons agree: an epoch of a Task has one session through every       *)
(* continuation, a session that is open carries the epoch its process works  *)
(* under, and a standalone daemon stays within its limit.                    *)
THEOREM SessionsTheorem ==
  ASSUME SessionHypotheses
  PROVE  Sessions!Spec => []Sessions!SessionsAgree
<1>1. ASSUME SessionInv, [Sessions!Next]_(Sessions!vars) PROVE SessionInv'
  BY <1>1, SessionsStep
<1>2. QED BY SessionsStart, <1>1, SessionInvAgrees, PTL DEF Sessions!Spec

(* A held Task is taken from its owner only when the session of its epoch is *)
(* over or the owner, silent, named that very Task; and the first end that   *)
(* is recorded of a session stays, whatever report comes later.              *)
THEOREM TakenTheorem ==
  ASSUME SessionHypotheses
  PROVE  Sessions!Spec => Sessions!TakenFromTheEnded
<1>1. ASSUME SessionInv, [Sessions!Next]_(Sessions!vars) PROVE SessionInv'
  BY <1>1, SessionsStep
<1>2. ASSUME SessionInv, [Sessions!Next]_(Sessions!vars)
      PROVE  [/\ \A t \in Tasks : Sessions!Held(t) /\ task'[t].token = 0 =>
                   \/ \E s \in DOMAIN sess' :
                        /\ sess'[s].status \notin {"starting", "running"}
                        /\ sess'[s].task = t /\ sess'[s].token = task[t].token
                   \/ pointer[task[t].owner] = t
              /\ \A s \in Sessions!Sids : ~Sessions!Open(s) =>
                   sess'[s].status = sess[s].status /\ sess'[s].token = sess[s].token]_(Sessions!vars)
  BY <1>2, SessionsStep, Zenon DEF Taken, Excused, Sessions!Sids, Ids
<1>3. QED BY SessionsStart, <1>1, <1>2, PTL DEF Sessions!Spec, Sessions!TakenFromTheEnded

CONSTANTS Rules, ActionLists, Drains, MaxGen, TTL, MaxClock, MaxLeases, MaxDeaths

VARIABLES clock, inbox, frozen, alive, entry, marks, effects, runs, outbox, drain, deaths

Inbox == INSTANCE AutomationInbox WITH
  plan <- frozen, live <- alive, row <- entry, check <- marks, fired <- effects, run <- runs,
  crashes <- deaths, MaxCrashes <- MaxDeaths, Plans <- ActionLists

(***************************************************************************)
(* The automation inbox                                                    *)
(***************************************************************************)
(* An action is a release, may be repeated, or may not.                      *)
InboxHypotheses ==
  /\ ActionLists \subseteq Seq({"safe", "unsafe", "release"})
  /\ MaxGen \in Nat \ {0} /\ {TTL, MaxClock, MaxLeases} \subseteq Nat

Gens == 1 .. MaxGen
Marks == {"none", "pending", "proved", "failed"}
Recorded == {"proved", "failed"}
Books(V) == UNION {[ks -> V] : ks \in SUBSET Nat}
EntryRows ==
  [state : {"none", "pending", "leased", "attention", "terminal", "waived"}, fence : Nat,
   leases : Nat, until : 0 .. MaxClock,
   end : {"none", "attention", "terminal", "skipped", "failed", "executed", "superseded"}]
IsClosed(e) == e.state \in {"none", "terminal", "waived"}

(* A delivery that is leased carries the fence of its last lease; one that   *)
(* waits has never been leased.                                              *)
EntryFits(e) ==
  /\ e \in EntryRows /\ e.leases <= MaxLeases
  /\ e.state = "leased" <=> e.fence # 0
  /\ e.state = "leased" => e.fence = e.leases
  /\ e.state \in {"none", "pending"} => e.leases = 0 /\ e.end = "none"
  /\ e.end = "executed" => e.state = "terminal"
EntriesFit == entry \in [Rules -> [Gens -> EntryRows]] /\ \A d \in Rules, g \in Gens : EntryFits(entry[d][g])

(* The evidence of a delivery, and what has had its effect.                  *)
BookFits(p, e, c, f) ==
  /\ DOMAIN c = DOMAIN p /\ DOMAIN f = DOMAIN p
  /\ e.leases = 0 => \A i \in DOMAIN p : f[i] = 0
  /\ e.state = "none" => \A i \in DOMAIN p : c[i] = "none"
  /\ \A i \in DOMAIN p : p[i] # "safe" => f[i] <= 1
  /\ \A i \in DOMAIN p : p[i] = "release" /\ f[i] > 0 => c[i] = "proved"
  /\ e.end = "executed" => \A i \in DOMAIN p : c[i] \in Recorded
BooksFit ==
  /\ marks \in [Rules -> [Gens -> Books(Marks)]] /\ effects \in [Rules -> [Gens -> Books(Nat)]]
  /\ \A d \in Rules, g \in Gens : BookFits(frozen[d], entry[d][g], marks[d][g], effects[d][g])
ReleasesHappened ==
  \A d \in Rules, g \in Gens : \A i \in DOMAIN frozen[d] :
    frozen[d][i] = "release" /\ marks[d][g][i] = "proved" => \E h \in Gens : effects[d][h][i] > 0

(* A successor starts from what its predecessors, which are over, proved.    *)
Succeeds(d, h, g) ==
  entry[d][g].state # "none" =>
    /\ entry[d][h].state = "terminal"
    /\ \A i \in DOMAIN frozen[d] :
         marks[d][h][i] = "proved" => marks[d][g][i] = "proved" /\ effects[d][g][i] = 0
GensFit == \A d \in Rules, h, g \in Gens : h < g => Succeeds(d, h, g)

RunStates == {"none", "running", "ended"}
TellStates == {"none", "pending", "delivered"}
RunFits(e, r, o) ==
  /\ r \in RunStates /\ o \in TellStates
  /\ r = "ended" => o # "none" /\ e.state = "terminal"
RunsFit ==
  /\ runs \in [Rules -> [Gens -> RunStates]]
  /\ outbox \in [Rules -> [Gens -> TellStates]]
  /\ \A d \in Rules, g \in Gens : RunFits(entry[d][g], runs[d][g], outbox[d][g])

InboxFits ==
  /\ inbox \in {"none", "pending", "terminal"}
  /\ inbox = "none" => \A d \in Rules, g \in Gens : entry[d][g].state = "none"
  /\ inbox = "terminal" => \A d \in Rules, g \in Gens : IsClosed(entry[d][g])
  /\ inbox = "pending" => \E d \in Rules, g \in Gens : ~IsClosed(entry[d][g])

Waiting == [at : {"next"}, now : 0 .. MaxClock, left : SUBSET (Rules \X Gens)]
Guarding ==
  [at : {"guards"}, now : 0 .. MaxClock, left : SUBSET (Rules \X Gens), d : Rules, g : Gens,
   fence : Nat, resumed : BOOLEAN]
Acting ==
  [at : {"act", "fired"}, now : 0 .. MaxClock, left : SUBSET (Rules \X Gens), d : Rules, g : Gens,
   fence : Nat, i : Nat, seen : SUBSET Nat, reserved : BOOLEAN]
Shapes == {Inbox!Idle} \cup Waiting \cup Guarding \cup Acting

Busy(s) == s.at \in {"act", "fired"}
On(s) == s.at = "guards" \/ Busy(s)
Ahead(s, j) == s.at = "guards" \/ (s.at = "act" /\ s.i <= j) \/ (s.at = "fired" /\ s.i < j)

(* The first lease alone may start what is not safe to repeat, each action   *)
(* once; a later one finds all of that proved.                               *)
LeaseFits(s, e) == s.fence >= 1 /\ s.fence <= e.leases
FirstFits(s, p, f) ==
  s.fence = 1 => \A j \in DOMAIN p : p[j] # "safe" /\ Ahead(s, j) => f[j] = 0
LaterFits(s, p, c) ==
  s.fence > 1 => \A j \in DOMAIN p : p[j] # "safe" => c[j] = "proved" /\ (Busy(s) => j \in s.seen)

(* The actions behind a drain, and those it need not run, are recorded.      *)
PlaceFits(s, p, c) ==
  Busy(s) =>
    /\ s.seen \subseteq DOMAIN p /\ s.i >= 1
    /\ \A j \in DOMAIN p : j < s.i \/ j \in s.seen => c[j] \in Recorded
    /\ s.at = "fired" => s.i \in DOMAIN p /\ s.i \notin s.seen /\ p[s.i] # "release"
CarriedFits(s, p, c) ==
  Busy(s) => \A h \in Gens : h < s.g => \A j \in DOMAIN p : c[h][j] = "proved" => j \in s.seen

DrainFits(s, rows, c, f) ==
  On(s) =>
    /\ LeaseFits(s, rows[s.d][s.g]) /\ FirstFits(s, frozen[s.d], f[s.d][s.g])
    /\ LaterFits(s, frozen[s.d], c[s.d][s.g]) /\ PlaceFits(s, frozen[s.d], c[s.d][s.g])
    /\ CarriedFits(s, frozen[s.d], c[s.d])
Apart(s, t) == On(s) /\ On(t) /\ s.d = t.d /\ s.g = t.g => s.fence # t.fence
DrainsFit ==
  /\ drain \in [Drains -> Shapes]
  /\ \A w \in Drains : DrainFits(drain[w], entry, marks, effects)
  /\ \A v, w \in Drains : v # w => Apart(drain[v], drain[w])

PlansTyped ==
  /\ clock \in 0 .. MaxClock /\ alive \in [Rules -> BOOLEAN]
  /\ frozen \in [Rules -> Seq({"safe", "unsafe", "release"})]

InboxInv ==
  /\ PlansTyped /\ EntriesFit /\ BooksFit /\ ReleasesHappened /\ GensFit /\ RunsFit /\ InboxFits
  /\ DrainsFit

(***************************************************************************)
(* Steps that leave the evidence alone                                     *)
(***************************************************************************)
EntryMoves(e, new) ==
  /\ EntryFits(new) /\ e.leases <= new.leases /\ (new.state = "none" <=> e.state = "none")
  /\ e.state = "terminal" => new.state = "terminal"
EntriesMove ==
  /\ entry' \in [Rules -> [Gens -> EntryRows]]
  /\ \A d \in Rules, g \in Gens :
       /\ EntryMoves(entry[d][g], entry'[d][g])
       /\ entry'[d][g].end = "executed" =>
            entry[d][g].end = "executed" \/ \A i \in DOMAIN frozen[d] : marks[d][g][i] \in Recorded

(* A drain leaves, or comes to a place that fits, while the others wait.     *)
DrainMoves(v) ==
  \/ drain'[v] = drain[v] \/ ~On(drain'[v])
  \/ /\ DrainFits(drain'[v], entry', marks, effects)
     /\ \A u \in Drains : u # v => drain'[u] = drain[u] /\ Apart(drain[u], drain'[v])
DrainsMove == drain' \in [Drains -> Shapes] /\ \A v \in Drains : DrainMoves(v)

LEMMA EntryIs == EntriesFit => \A d \in Rules, g \in Gens : EntryFits(entry[d][g]) /\ entry[d][g].leases \in Nat
BY DEF EntriesFit, EntryFits, EntryRows

LEMMA EntryWillBe ==
  EntriesMove => \A d \in Rules, g \in Gens :
                   /\ EntryFits(entry'[d][g]) /\ entry'[d][g].leases \in Nat
                   /\ EntryMoves(entry[d][g], entry'[d][g])
BY DEF EntriesMove, EntryMoves, EntryFits, EntryRows

LEMMA QuietKeeps ==
  ASSUME InboxInv, PlansTyped', UNCHANGED <<frozen, marks, effects>>, EntriesMove, RunsFit', InboxFits',
         DrainsMove
  PROVE  InboxInv'
<1>1. EntriesFit'
  BY DEF EntriesFit, EntriesMove, EntryMoves
<1>2. BooksFit'
  <2>1. ASSUME NEW d \in Rules, NEW g \in Gens
        PROVE  BookFits(frozen[d], entry'[d][g], marks[d][g], effects[d][g])
    <3>1. BookFits(frozen[d], entry[d][g], marks[d][g], effects[d][g])
      BY Zenon DEF InboxInv, BooksFit
    <3>2. /\ entry[d][g].leases \in Nat /\ entry'[d][g].leases \in Nat
          /\ entry[d][g].leases <= entry'[d][g].leases
          /\ entry'[d][g].state = "none" => entry[d][g].state = "none"
          /\ entry'[d][g].end = "executed" =>
               entry[d][g].end = "executed" \/ \A i \in DOMAIN frozen[d] : marks[d][g][i] \in Recorded
      BY EntryIs, EntryWillBe DEF InboxInv, EntriesMove, EntryMoves
    <3>3. QED BY <3>1, <3>2 DEF BookFits
  <2>2. QED BY <2>1, Zenon DEF InboxInv, BooksFit
<1>3. ReleasesHappened'
  BY Zenon DEF InboxInv, ReleasesHappened
<1>4. GensFit'
  <2>1. \A d \in Rules, g \in Gens :
          /\ entry'[d][g].state = "none" <=> entry[d][g].state = "none"
          /\ entry[d][g].state = "terminal" => entry'[d][g].state = "terminal"
    BY DEF EntriesMove, EntryMoves
  <2>2. ASSUME NEW d \in Rules, NEW h \in Gens, NEW g \in Gens, h < g PROVE Succeeds(d, h, g)'
    <3>1. Succeeds(d, h, g)
      BY <2>2 DEF InboxInv, GensFit
    <3>2. QED BY <2>1, <3>1 DEF Succeeds
  <2>3. QED BY <2>2, Zenon DEF GensFit, Gens
<1>5. DrainsFit'
  <2>1. ASSUME NEW w \in Drains PROVE DrainFits(drain'[w], entry', marks, effects)
    <3>1. CASE drain'[w] = drain[w] /\ On(drain[w])
      <4> DEFINE s == drain[w]
      <4>1. DrainFits(s, entry, marks, effects) /\ s \in Shapes
        BY Zenon DEF InboxInv, DrainsFit
      <4>2. s.d \in Rules /\ s.g \in Gens /\ s.fence \in Nat
        BY <3>1, <4>1 DEF Shapes, On, Busy, Inbox!Idle, Waiting, Guarding, Acting
      <4>3. /\ entry[s.d][s.g].leases \in Nat /\ entry'[s.d][s.g].leases \in Nat
            /\ entry[s.d][s.g].leases <= entry'[s.d][s.g].leases
        BY <4>2, EntryIs, EntryWillBe DEF InboxInv, EntryMoves
      <4> HIDE DEF s
      <4>4. LeaseFits(s, entry[s.d][s.g]) => LeaseFits(s, entry'[s.d][s.g])
        BY <4>2, <4>3 DEF LeaseFits
      <4>5. DrainFits(s, entry', marks, effects)
        BY <4>1, <4>4, Zenon DEF DrainFits
      <4>6. QED BY <3>1, <4>5 DEF s
    <3>2. CASE ~On(drain'[w])
      BY <3>2, Zenon DEF DrainFits
    <3>3. QED BY <3>1, <3>2, Zenon DEF DrainsMove, DrainMoves
  <2>2. ASSUME NEW v \in Drains, NEW w \in Drains, v # w PROVE Apart(drain'[v], drain'[w])
    <3>1. Apart(drain[v], drain[w]) /\ \A s, t : Apart(s, t) <=> Apart(t, s)
      BY <2>2 DEF InboxInv, DrainsFit, Apart
    <3>2. DrainMoves(v) /\ DrainMoves(w)
      BY DEF DrainsMove
    <3>3. CASE ~On(drain'[v]) \/ ~On(drain'[w])
      BY <3>3 DEF Apart
    <3>4. CASE drain'[v] = drain[v] /\ drain'[w] = drain[w]
      BY <3>1, <3>4
    <3>5. QED BY <2>2, <3>1, <3>2, <3>3, <3>4, Zenon DEF DrainMoves
  <2>3. \A w \in Drains : DrainFits(drain[w], entry, marks, effects)'
    BY <2>1 DEF DrainFits
  <2>4. QED BY <2>2, <2>3, Zenon DEF DrainsFit, DrainsMove
<1>6. QED BY <1>1, <1>2, <1>3, <1>4, <1>5, Zenon DEF InboxInv

(***************************************************************************)
(* The parts of a quiet step                                               *)
(***************************************************************************)
LEMMA EntriesRest == ASSUME EntriesFit, entry' = entry PROVE EntriesMove
<1>1. ASSUME NEW d \in Rules, NEW g \in Gens PROVE EntryMoves(entry[d][g], entry'[d][g])
  BY EntryIs DEF EntryMoves
<1>2. QED BY <1>1 DEF EntriesFit, EntriesMove

LEMMA RunsRest == ASSUME RunsFit, UNCHANGED <<entry, runs, outbox>> PROVE RunsFit'
BY DEF RunsFit, RunFits

LEMMA InboxRests == ASSUME InboxFits, UNCHANGED <<entry, inbox>> PROVE InboxFits'
BY DEF InboxFits, IsClosed

LEMMA DrainsRest == ASSUME DrainsFit, drain' = drain PROVE DrainsMove
BY DEF DrainsFit, DrainsMove, DrainMoves

LEMMA DrainPut ==
  ASSUME DrainsFit, NEW w \in Drains, NEW s \in Shapes, drain' = [drain EXCEPT ![w] = s]
  PROVE  /\ drain' \in [Drains -> Shapes] /\ drain'[w] = s
         /\ \A v \in Drains : v # w => drain'[v] = drain[v]
BY DEF DrainsFit

LEMMA DrainLeaves ==
  ASSUME DrainsFit, NEW w \in Drains, NEW s \in Shapes, drain' = [drain EXCEPT ![w] = s], ~On(s)
  PROVE  DrainsMove
BY DrainPut, Zenon DEF DrainsMove, DrainMoves

LEMMA DrainTurns ==
  ASSUME DrainsFit, NEW w \in Drains, NEW s \in Shapes, drain' = [drain EXCEPT ![w] = s],
         DrainFits(s, entry', marks, effects), \A u \in Drains : u # w => Apart(drain[u], s)
  PROVE  DrainsMove
<1>1. /\ drain' \in [Drains -> Shapes] /\ drain'[w] = s
      /\ \A v \in Drains : v # w => drain'[v] = drain[v]
  BY DrainPut
<1>2. ASSUME NEW v \in Drains PROVE DrainMoves(v)
  <2>1. CASE v = w
    BY <1>1, <2>1, Zenon DEF DrainMoves
  <2>2. CASE v # w
    BY <1>1, <2>2, Zenon DEF DrainMoves
  <2>3. QED BY <2>1, <2>2
<1>3. QED BY <1>1, <1>2 DEF DrainsMove

(* One delivery of a table is written.                                       *)
LEMMA PutAt ==
  ASSUME NEW V, NEW F \in [Rules -> [Gens -> V]], NEW d \in Rules, NEW g \in Gens, NEW v \in V
  PROVE  /\ [F EXCEPT ![d][g] = v] \in [Rules -> [Gens -> V]]
         /\ [F EXCEPT ![d][g] = v][d][g] = v
         /\ \A x \in Rules, h \in Gens : x # d \/ h # g => [F EXCEPT ![d][g] = v][x][h] = F[x][h]
OBVIOUS

LEMMA EntryMoved ==
  ASSUME EntriesFit, NEW d \in Rules, NEW g \in Gens, NEW new, EntryMoves(entry[d][g], new),
         new.end = "executed" => \A i \in DOMAIN frozen[d] : marks[d][g][i] \in Recorded,
         entry' = [entry EXCEPT ![d][g] = new]
  PROVE  /\ EntriesMove /\ entry'[d][g] = new
         /\ \A x \in Rules, h \in Gens : x # d \/ h # g => entry'[x][h] = entry[x][h]
<1>1. new \in EntryRows /\ entry \in [Rules -> [Gens -> EntryRows]]
  BY DEF EntriesFit, EntryMoves, EntryFits
<1>2. /\ entry' \in [Rules -> [Gens -> EntryRows]] /\ entry'[d][g] = new
      /\ \A x \in Rules, h \in Gens : x # d \/ h # g => entry'[x][h] = entry[x][h]
  BY <1>1, PutAt
<1>3. ASSUME NEW x \in Rules, NEW h \in Gens
      PROVE  /\ EntryMoves(entry[x][h], entry'[x][h])
             /\ entry'[x][h].end = "executed" =>
                  entry[x][h].end = "executed" \/ \A i \in DOMAIN frozen[x] : marks[x][h][i] \in Recorded
  <2>1. CASE x = d /\ h = g
    BY <1>2, <2>1
  <2>2. CASE x # d \/ h # g
    <3>1. entry'[x][h] = entry[x][h]
      BY <1>2, <2>2
    <3>2. EntryMoves(entry[x][h], entry[x][h])
      BY EntryIs DEF EntryMoves
    <3>3. QED BY <3>1, <3>2, Zenon
  <2>3. QED BY <2>1, <2>2
<1>4. QED BY <1>2, <1>3, Zenon DEF EntriesMove

(* A delivery that is open before and after leaves the inbox as it is.       *)
LEMMA InboxStaysOpen ==
  ASSUME InboxFits, NEW d \in Rules, NEW g \in Gens, ~IsClosed(entry[d][g]), ~IsClosed(entry'[d][g]),
         inbox' = inbox
  PROVE  InboxFits'
<1>1. inbox = "pending"
  BY DEF InboxFits, IsClosed
<1>2. QED BY <1>1 DEF InboxFits

(* One that closes closes the inbox with the last of them.                   *)
LEMMA InboxCloses ==
  ASSUME InboxFits, NEW d \in Rules, NEW g \in Gens, ~IsClosed(entry[d][g]),
         inbox' = Inbox!Closed(entry')
  PROVE  InboxFits'
<1>1. inbox = "pending"
  BY DEF InboxFits, IsClosed
<1>2. inbox' = IF \A x \in Rules, h \in Gens : IsClosed(entry'[x][h]) THEN "terminal" ELSE "pending"
  BY <1>1 DEF Inbox!Closed, Inbox!Done, Inbox!Gens, Gens, IsClosed
<1>3. QED BY <1>2 DEF InboxFits

(* A delivery that is over, and one that is leased.                          *)
Over(old, how, verdict) == [old EXCEPT !.state = how, !.fence = 0, !.end = verdict]
Leased(old, now) ==
  [old EXCEPT !.state = "leased", !.leases = old.leases + 1, !.fence = old.leases + 1,
              !.until = Inbox!Before(now, TTL)]

LEMMA AttendIs ==
  ASSUME EntriesFit, NEW d \in Rules, NEW g \in Gens, NEW how
  PROVE  Inbox!Attend(d, g, how) = [entry EXCEPT ![d][g] = Over(entry[d][g], how, how)]
<1>1. entry \in [Rules -> [Gens -> EntryRows]]
  BY DEF EntriesFit
<1>2. QED BY <1>1 DEF Inbox!Attend, Over

LEMMA AttendedIs ==
  ASSUME EntriesFit, NEW d \in Rules, NEW g \in Gens, NEW how, NEW verdict
  PROVE  [Inbox!Attend(d, g, how) EXCEPT ![d][g].end = verdict] =
           [entry EXCEPT ![d][g] = Over(entry[d][g], how, verdict)]
<1> DEFINE old == entry[d][g]   over == Over(old, how, how)
<1>1. entry \in [Rules -> [Gens -> EntryRows]] /\ Inbox!Attend(d, g, how) = [entry EXCEPT ![d][g] = over]
  BY AttendIs DEF EntriesFit
<1>2. old \in EntryRows /\ [over EXCEPT !.end = verdict] = Over(old, how, verdict)
  BY <1>1 DEF EntryRows, Over
<1> HIDE DEF over, old
<1>3. [[entry EXCEPT ![d][g] = over] EXCEPT ![d][g].end = verdict] = [entry EXCEPT ![d][g] = [over EXCEPT !.end = verdict]]
  BY <1>1
<1>4. QED BY <1>1, <1>2, <1>3 DEF old

(* The end of a delivery that was leased.                                    *)
LEMMA EndMoves ==
  ASSUME NEW old \in EntryRows, EntryFits(old), old.state = "leased",
         NEW how \in {"attention", "terminal"},
         NEW verdict \in {"attention", "terminal", "skipped", "failed", "executed"},
         verdict = "executed" => how = "terminal"
  PROVE  /\ EntryMoves(old, Over(old, how, verdict)) /\ ~IsClosed(old)
         /\ Over(old, how, verdict).state = how /\ Over(old, how, verdict).end = verdict
<1> DEFINE new == Over(old, how, verdict)
<1>1. old.leases <= MaxLeases
  BY DEF EntryFits
<1>2. /\ new \in EntryRows /\ new.state = how /\ new.end = verdict /\ new.fence = 0
      /\ new.leases = old.leases /\ old.leases \in Nat
  BY DEF EntryRows, Over
<1> HIDE DEF new
<1>3. EntryFits(new)
  BY <1>1, <1>2 DEF EntryFits
<1>4. EntryMoves(old, new) /\ ~IsClosed(old)
  BY <1>2, <1>3 DEF EntryMoves, IsClosed
<1>5. QED BY <1>2, <1>4 DEF new

(***************************************************************************)
(* Quiet actions                                                           *)
(***************************************************************************)
LEMMA TickKeeps == ASSUME InboxHypotheses, InboxInv, Inbox!Tick PROVE InboxInv'
<1>1. /\ UNCHANGED <<alive, frozen, marks, effects, entry, runs, outbox, inbox, drain>>
      /\ clock < MaxClock /\ clock' = clock + 1
  BY DEF Inbox!Tick, Inbox!work
<1>2. PlansTyped'
  BY <1>1 DEF InboxInv, PlansTyped, InboxHypotheses
<1>3. QED BY <1>1, <1>2, QuietKeeps, EntriesRest, RunsRest, InboxRests, DrainsRest DEF InboxInv

LEMMA PlansRest == ASSUME PlansTyped, UNCHANGED <<clock, alive, frozen>> PROVE PlansTyped'
BY DEF PlansTyped

LEMMA DeleteKeeps == ASSUME InboxInv, NEW d \in Rules, Inbox!DeleteRule(d) PROVE InboxInv'
<1>1. /\ UNCHANGED <<clock, frozen, marks, effects, entry, inbox, drain>>
      /\ alive' = [alive EXCEPT ![d] = FALSE]
      /\ runs' = [runs EXCEPT ![d] = [g \in Gens |-> "none"]]
      /\ outbox' = [outbox EXCEPT ![d] = [g \in Gens |-> "none"]]
  BY DEF Inbox!DeleteRule, Inbox!work, Inbox!Gens, Gens
<1>2. RunsFit'
  BY <1>1 DEF InboxInv, RunsFit, RunFits, RunStates, TellStates
<1>3. PlansTyped'
  BY <1>1 DEF InboxInv, PlansTyped
<1>4. QED BY <1>1, <1>2, <1>3, QuietKeeps, EntriesRest, InboxRests, DrainsRest DEF InboxInv

LEMMA WaiveKeeps == ASSUME InboxInv, NEW d \in Rules, NEW g \in Gens, Inbox!Waive(d, g) PROVE InboxInv'
<1>1. /\ UNCHANGED <<clock, alive, frozen, marks, effects, runs, outbox, drain>>
      /\ entry[d][g].state = "attention" /\ inbox' = Inbox!Closed(entry')
      /\ entry' = [entry EXCEPT ![d][g].state = "waived"]
  BY DEF Inbox!Waive, Inbox!work
<1> DEFINE new == [entry[d][g] EXCEPT !.state = "waived"]
<1>2. entry \in [Rules -> [Gens -> EntryRows]] /\ EntryFits(entry[d][g])
  BY EntryIs DEF InboxInv, EntriesFit
<1>3. EntryMoves(entry[d][g], new) /\ new.end # "executed" /\ ~IsClosed(entry[d][g])
  BY <1>1, <1>2 DEF EntryMoves, EntryFits, EntryRows, IsClosed
<1>4. entry' = [entry EXCEPT ![d][g] = new]
  BY <1>1, <1>2
<1> HIDE DEF new
<1>5. /\ EntriesMove /\ entry'[d][g] = new
      /\ \A x \in Rules, h \in Gens : x # d \/ h # g => entry'[x][h] = entry[x][h]
  BY <1>3, <1>4, EntryMoved DEF InboxInv
<1>6. RunsFit'
  BY <1>1, <1>5 DEF InboxInv, RunsFit, RunFits
<1>7. InboxFits'
  BY <1>1, <1>3, InboxCloses DEF InboxInv
<1>8. QED BY <1>1, <1>5, <1>6, <1>7, QuietKeeps, PlansRest, DrainsRest DEF InboxInv

(***************************************************************************)
(* Quiet actions of a drain                                                *)
(***************************************************************************)
LEMMA ShapeIs ==
  ASSUME NEW s \in Shapes
  PROVE  /\ Busy(s) => s \in Acting
         /\ s.at = "guards" => s \in Guarding
         /\ s.at = "next" => s \in Waiting
         /\ On(s) => /\ s.d \in Rules /\ s.g \in Gens /\ s.fence \in Nat
                     /\ s.now \in 0 .. MaxClock /\ s.left \in SUBSET (Rules \X Gens)
BY DEF Shapes, Inbox!Idle, Waiting, Guarding, Acting, Busy, On

LEMMA IdleIs == Inbox!Idle \in Shapes /\ ~On(Inbox!Idle) /\ \A s \in Waiting : s \in Shapes /\ ~On(s)
BY DEF Shapes, Inbox!Idle, Waiting, Busy, On

LEMMA LeaveMoves ==
  ASSUME DrainsFit, NEW w \in Drains, On(drain[w]), Inbox!Leave(w)
  PROVE  DrainsMove
<1> DEFINE s == [at |-> "next", now |-> drain[w].now, left |-> drain[w].left]
<1>1. drain' = [drain EXCEPT ![w] = s]
  BY DEF Inbox!Leave
<1>2. drain[w] \in Shapes
  BY DEF DrainsFit
<1>3. s \in Waiting
  BY <1>2, ShapeIs DEF Waiting
<1> HIDE DEF s
<1>4. QED BY <1>1, <1>3, IdleIs, DrainLeaves

LEMMA CrashKeeps == ASSUME InboxInv, NEW w \in Drains, Inbox!Crash(w) PROVE InboxInv'
<1>1. /\ UNCHANGED <<clock, alive, frozen, marks, effects, entry, runs, outbox, inbox>>
      /\ drain' = [drain EXCEPT ![w] = Inbox!Idle]
  BY DEF Inbox!Crash, Inbox!work, Inbox!settled
<1>2. DrainsMove
  BY <1>1, IdleIs, DrainLeaves DEF InboxInv
<1>3. QED BY <1>1, <1>2, QuietKeeps, EntriesRest, RunsRest, InboxRests, PlansRest DEF InboxInv

LEMMA StartDrainKeeps == ASSUME InboxInv, NEW w \in Drains, Inbox!StartDrain(w) PROVE InboxInv'
<1> DEFINE s == [at |-> "next", now |-> clock, left |-> Inbox!Drainable(clock)]
<1>1. /\ UNCHANGED <<clock, alive, frozen, marks, effects, entry, runs, outbox, inbox>>
      /\ drain' = [drain EXCEPT ![w] = s]
  BY DEF Inbox!StartDrain, Inbox!work, Inbox!settled
<1>2. s \in Waiting
  BY DEF InboxInv, PlansTyped, Waiting, Inbox!Drainable, Inbox!Gens, Gens
<1> HIDE DEF s
<1>3. DrainsMove
  BY <1>1, <1>2, IdleIs, DrainLeaves DEF InboxInv
<1>4. QED BY <1>1, <1>3, QuietKeeps, EntriesRest, RunsRest, InboxRests, PlansRest DEF InboxInv

LEMMA FlushKeeps == ASSUME InboxInv, NEW w \in Drains, Inbox!Flush(w) PROVE InboxInv'
<1>1. /\ UNCHANGED <<clock, alive, frozen, marks, effects, entry, runs, inbox>>
      /\ drain' = [drain EXCEPT ![w] = Inbox!Idle]
      /\ outbox' = [d \in Rules |-> [g \in Gens |->
                      IF outbox[d][g] = "pending" THEN "delivered" ELSE outbox[d][g]]]
  BY DEF Inbox!Flush, Inbox!work, Inbox!Gens, Gens
<1>2. DrainsMove
  BY <1>1, IdleIs, DrainLeaves DEF InboxInv
<1>3. RunsFit'
  BY <1>1 DEF InboxInv, RunsFit, RunFits, RunStates, TellStates
<1>4. QED BY <1>1, <1>2, <1>3, QuietKeeps, EntriesRest, InboxRests, PlansRest DEF InboxInv

LEMMA DrainIs ==
  ASSUME InboxInv, NEW w \in Drains, On(drain[w])
  PROVE  /\ drain[w] \in Shapes /\ DrainFits(drain[w], entry, marks, effects)
         /\ drain[w].d \in Rules /\ drain[w].g \in Gens /\ drain[w].fence \in Nat
         /\ \A u \in Drains : u # w => Apart(drain[u], drain[w])
BY ShapeIs DEF InboxInv, DrainsFit

LEMMA SkipKeeps == ASSUME InboxInv, NEW w \in Drains, Inbox!Skip(w) PROVE InboxInv'
<1> DEFINE s == drain[w]   new == [s EXCEPT !.i = s.i + 1]
<1>1. /\ UNCHANGED <<clock, alive, frozen, marks, effects, entry, runs, outbox, inbox>>
      /\ drain' = [drain EXCEPT ![w].i = @ + 1] /\ s.at = "act" /\ s.i \in s.seen
  BY DEF Inbox!Skip, Inbox!work, Inbox!settled
<1>2. drain' = [drain EXCEPT ![w] = new]
  BY <1>1 DEF InboxInv, DrainsFit
<1>3. /\ s \in Shapes /\ DrainFits(s, entry, marks, effects) /\ On(s)
      /\ \A u \in Drains : u # w => Apart(drain[u], s)
  BY <1>1, DrainIs DEF On, Busy
<1> HIDE DEF s
<1>4. s \in Acting
  BY <1>1, <1>3, ShapeIs DEF Busy
<1>5. /\ new \in Acting /\ new.at = "act" /\ new.i = s.i + 1 /\ new.seen = s.seen
      /\ new.d = s.d /\ new.g = s.g /\ new.fence = s.fence /\ s.i \in Nat
      /\ s.seen \subseteq Nat
  BY <1>1, <1>4 DEF Acting
<1> HIDE DEF new
<1>6. FirstFits(s, frozen[s.d], effects[s.d][s.g]) => FirstFits(new, frozen[s.d], effects[s.d][s.g])
  <2>1. DOMAIN frozen[s.d] \subseteq Nat
    BY <1>4 DEF InboxInv, PlansTyped, Acting
  <2>2. QED BY <1>1, <1>5, <2>1 DEF FirstFits, Ahead
<1>7. PlaceFits(s, frozen[s.d], marks[s.d][s.g]) => PlaceFits(new, frozen[s.d], marks[s.d][s.g])
  <2>1. DOMAIN frozen[s.d] \subseteq Nat
    BY <1>4 DEF InboxInv, PlansTyped, Acting
  <2>2. \A j \in Nat : j < s.i + 1 => j < s.i \/ j = s.i
    BY <1>5
  <2>3. QED BY <1>1, <1>5, <2>1, <2>2 DEF PlaceFits, Busy
<1>8. DrainFits(new, entry, marks, effects)
  <2>1. LaterFits(s, frozen[s.d], marks[s.d][s.g]) => LaterFits(new, frozen[s.d], marks[s.d][s.g])
    BY <1>1, <1>5 DEF LaterFits, Busy
  <2>2. CarriedFits(s, frozen[s.d], marks[s.d]) => CarriedFits(new, frozen[s.d], marks[s.d])
    BY <1>1, <1>5 DEF CarriedFits, Busy
  <2>3. LeaseFits(s, entry[s.d][s.g]) => LeaseFits(new, entry[s.d][s.g])
    BY <1>5 DEF LeaseFits
  <2>4. QED BY <1>3, <1>5, <1>6, <1>7, <2>1, <2>2, <2>3 DEF DrainFits
<1>9. DrainsMove
  <2>1. new \in Shapes /\ \A u \in Drains : u # w => Apart(drain[u], new)
    BY <1>3, <1>5 DEF Shapes, Apart
  <2>2. DrainFits(new, entry', marks, effects)
    BY <1>1, <1>8
  <2>3. QED BY <1>2, <2>1, <2>2, DrainTurns DEF InboxInv
<1>10. QED BY <1>1, <1>9, QuietKeeps, EntriesRest, RunsRest, InboxRests, PlansRest DEF InboxInv

(* A run is reserved or a delivery ends, with its run and its completion.    *)
LEMMA RunsFollow ==
  ASSUME RunsFit, NEW d \in Rules, NEW g \in Gens,
         NEW r \in RunStates, NEW o \in TellStates,
         (runs' = runs /\ r = runs[d][g]) \/ runs' = [runs EXCEPT ![d][g] = r],
         (outbox' = outbox /\ o = outbox[d][g]) \/ outbox' = [outbox EXCEPT ![d][g] = o],
         RunFits(entry'[d][g], r, o),
         \A x \in Rules, h \in Gens : x # d \/ h # g => entry'[x][h] = entry[x][h]
  PROVE  RunsFit'
<1>1. /\ runs \in [Rules -> [Gens -> RunStates]]
      /\ outbox \in [Rules -> [Gens -> TellStates]]
  BY DEF RunsFit
<1>2. /\ runs' \in [Rules -> [Gens -> RunStates]] /\ runs'[d][g] = r
      /\ \A x \in Rules, h \in Gens : x # d \/ h # g => runs'[x][h] = runs[x][h]
  <2>1. CASE runs' = runs /\ r = runs[d][g]
    BY <1>1, <2>1
  <2>2. CASE runs' = [runs EXCEPT ![d][g] = r]
    BY <1>1, <2>2
  <2>3. QED BY <2>1, <2>2
<1>3. /\ outbox' \in [Rules -> [Gens -> TellStates]] /\ outbox'[d][g] = o
      /\ \A x \in Rules, h \in Gens : x # d \/ h # g => outbox'[x][h] = outbox[x][h]
  <2>1. CASE outbox' = outbox /\ o = outbox[d][g]
    BY <1>1, <2>1
  <2>2. CASE outbox' = [outbox EXCEPT ![d][g] = o]
    BY <1>1, <2>2
  <2>3. QED BY <2>1, <2>2
<1>4. ASSUME NEW x \in Rules, NEW h \in Gens PROVE RunFits(entry'[x][h], runs'[x][h], outbox'[x][h])
  <2>1. CASE x = d /\ h = g
    BY <1>2, <1>3, <2>1
  <2>2. CASE x # d \/ h # g
    <3>1. /\ entry'[x][h] = entry[x][h] /\ runs'[x][h] = runs[x][h] /\ outbox'[x][h] = outbox[x][h]
          /\ RunFits(entry[x][h], runs[x][h], outbox[x][h])
      BY <1>2, <1>3, <2>2 DEF RunsFit
    <3>2. QED BY <3>1
  <2>3. QED BY <2>1, <2>2
<1>5. QED BY <1>2, <1>3, <1>4, Zenon DEF RunsFit

LEMMA RunReserves ==
  ASSUME RunsFit, NEW d \in Rules, NEW g \in Gens, UNCHANGED <<entry, outbox>>,
         runs' = IF alive[d] /\ runs[d][g] = "none" THEN [runs EXCEPT ![d][g] = "running"] ELSE runs
  PROVE  RunsFit'
<1>1. CASE runs' = runs
  BY <1>1, RunsRest
<1>2. CASE runs' = [runs EXCEPT ![d][g] = "running"]
  <2>1. outbox[d][g] \in TellStates
    BY DEF RunsFit
  <2>2. RunFits(entry'[d][g], "running", outbox[d][g]) /\ "running" \in RunStates
    BY <2>1 DEF RunFits, RunStates
  <2>3. QED BY <1>2, <2>1, <2>2, RunsFollow
<1>3. QED BY <1>1, <1>2

LEMMA ActingIs ==
  ASSUME NEW now \in 0 .. MaxClock, NEW left \in SUBSET (Rules \X Gens), NEW d \in Rules, NEW g \in Gens,
         NEW fence \in Nat, NEW seen \in SUBSET Nat, NEW reserved \in BOOLEAN
  PROVE  [at |-> "act", now |-> now, left |-> left, d |-> d, g |-> g, fence |-> fence, i |-> 1,
          seen |-> seen, reserved |-> reserved] \in Acting
BY DEF Acting

LEMMA BeginKeeps == ASSUME InboxInv, NEW w \in Drains, Inbox!Begin(w) PROVE InboxInv'
<1> DEFINE s == drain[w]   d == s.d   g == s.g
           new == [at |-> "act", now |-> s.now, left |-> s.left, d |-> d, g |-> g, fence |-> s.fence,
                   i |-> 1, seen |-> Inbox!Proved(d, g), reserved |-> alive[d]]
<1>1. /\ UNCHANGED <<clock, alive, frozen, marks, effects, entry, outbox, inbox>>
      /\ s.at = "guards" /\ drain' = [drain EXCEPT ![w] = new]
      /\ runs' = IF alive[d] /\ runs[d][g] = "none" THEN [runs EXCEPT ![d][g] = "running"] ELSE runs
  BY DEF Inbox!Begin, Inbox!work
<1>2. /\ s \in Shapes /\ DrainFits(s, entry, marks, effects) /\ On(s) /\ d \in Rules /\ g \in Gens
      /\ s.fence \in Nat /\ \A u \in Drains : u # w => Apart(drain[u], s)
  BY <1>1, DrainIs DEF On, Busy
<1>3. RunsFit'
  BY <1>1, <1>2, RunReserves DEF InboxInv
<1>4. s.now \in 0 .. MaxClock /\ s.left \in SUBSET (Rules \X Gens)
  BY <1>2, ShapeIs
<1>5. /\ frozen[d] \in Seq({"safe", "unsafe", "release"}) /\ DOMAIN frozen[d] \subseteq Nat \ {0}
      /\ BookFits(frozen[d], entry[d][g], marks[d][g], effects[d][g])
  BY <1>2 DEF InboxInv, PlansTyped, BooksFit
<1>6. LET mine == Inbox!Proved(d, g)
      IN /\ mine \subseteq DOMAIN frozen[d]
         /\ \A j \in DOMAIN frozen[d] : j \in mine <=> marks[d][g][j] = "proved"
  BY DEF Inbox!Proved, Inbox!Steps
<1>7. ASSUME NEW h \in Gens, h < g, NEW j \in DOMAIN frozen[d], marks[d][h][j] = "proved"
      PROVE  marks[d][g][j] = "proved"
  <2>1. LeaseFits(s, entry[d][g]) /\ EntryFits(entry[d][g]) /\ entry[d][g].leases \in Nat
    BY <1>2, EntryIs DEF DrainFits, InboxInv
  <2>2. entry[d][g].state # "none"
    BY <1>2, <2>1 DEF LeaseFits, EntryFits
  <2>3. Succeeds(d, h, g)
    BY <1>2, <1>7 DEF InboxInv, GensFit
  <2>4. QED BY <1>7, <2>2, <2>3, Zenon DEF Succeeds
<1> DEFINE mine == Inbox!Proved(d, g)
<1>8. /\ new \in Acting /\ new.at = "act" /\ new.i = 1 /\ new.seen = mine
      /\ new.d = d /\ new.g = g /\ new.fence = s.fence
  <2>1. alive[d] \in BOOLEAN /\ mine \in SUBSET Nat
    BY <1>2, <1>5, <1>6 DEF InboxInv, PlansTyped
  <2>2. QED BY <1>2, <1>4, <2>1, ActingIs
<1> HIDE DEF new, mine
<1>9. DrainFits(new, entry, marks, effects)
  <2>1. /\ LeaseFits(s, entry[d][g]) /\ FirstFits(s, frozen[d], effects[d][g])
        /\ LaterFits(s, frozen[d], marks[d][g])
    BY <1>2, Zenon DEF DrainFits
  <2>2. LeaseFits(new, entry[d][g])
    BY <1>8, <2>1 DEF LeaseFits
  <2>3. FirstFits(new, frozen[d], effects[d][g])
    <3>1. s.at = "guards"
      BY <1>1
    <3>2. \A j : Ahead(s, j)
      BY <3>1, Zenon DEF Ahead
    <3>3. QED BY <1>8, <2>1, <3>2 DEF FirstFits
  <2>4. LaterFits(new, frozen[d], marks[d][g])
    <3>1. \A j \in DOMAIN frozen[d] : marks[d][g][j] = "proved" => j \in mine
      BY <1>6 DEF mine
    <3>2. QED BY <1>8, <2>1, <3>1 DEF LaterFits
  <2>5. PlaceFits(new, frozen[d], marks[d][g])
    <3>1. \A j \in DOMAIN frozen[d] : ~(j < 1)
      BY <1>5
    <3>2. QED BY <1>6, <1>8, <3>1 DEF PlaceFits, Recorded, mine
  <2>6. CarriedFits(new, frozen[d], marks[d])
    BY <1>6, <1>7, <1>8 DEF CarriedFits, mine
  <2>7. QED BY <1>8, <2>2, <2>3, <2>4, <2>5, <2>6, Zenon DEF DrainFits
<1>10. DrainsMove
  <2>1. new \in Shapes /\ \A u \in Drains : u # w => Apart(drain[u], new)
    BY <1>2, <1>8 DEF Shapes, Apart
  <2>2. DrainFits(new, entry', marks, effects)
    BY <1>1, <1>9
  <2>3. drain' = [drain EXCEPT ![w] = new]
    BY <1>1 DEF new, mine
  <2>4. QED BY <2>1, <2>2, <2>3, DrainTurns DEF InboxInv
<1>11. QED BY <1>1, <1>3, <1>10, QuietKeeps, EntriesRest, InboxRests, PlansRest DEF InboxInv

(* The lease of a delivery that waits, or whose lease ran out.               *)
LEMMA LeaseMoves ==
  ASSUME InboxHypotheses, NEW old \in EntryRows, EntryFits(old), old.state \in {"pending", "leased"},
         old.leases < MaxLeases, NEW now \in 0 .. MaxClock
  PROVE  /\ EntryMoves(old, Leased(old, now)) /\ Leased(old, now).state = "leased"
         /\ Leased(old, now).leases = old.leases + 1 /\ Leased(old, now).end # "executed"
<1> DEFINE n == old.leases + 1   until == Inbox!Before(now, TTL)   new == Leased(old, now)
<1>1. old.leases \in Nat /\ n \in Nat /\ n # 0 /\ old.leases <= n /\ n <= MaxLeases
  BY DEF EntryRows, InboxHypotheses
<1>2. until \in 0 .. MaxClock
  BY DEF Inbox!Before, InboxHypotheses
<1>3. new = [old EXCEPT !.state = "leased", !.leases = n, !.fence = n, !.until = until]
  BY DEF Leased
<1> HIDE DEF n, until, new
<1>4. /\ new \in EntryRows /\ new.state = "leased" /\ new.leases = n /\ new.fence = n /\ new.end = old.end
  BY <1>1, <1>2, <1>3 DEF EntryRows
<1>5. old.end # "executed"
  BY DEF EntryFits
<1>6. EntryFits(new) /\ EntryMoves(old, new)
  BY <1>1, <1>4, <1>5 DEF EntryFits, EntryMoves
<1>7. QED BY <1>4, <1>5, <1>6 DEF n, new

LEMMA LeaseIs ==
  ASSUME EntriesFit, NEW d \in Rules, NEW g \in Gens, NEW now
  PROVE  Inbox!Lease(d, g, now) = [entry EXCEPT ![d][g] = Leased(entry[d][g], now)]
<1>1. entry \in [Rules -> [Gens -> EntryRows]]
  BY DEF EntriesFit
<1>2. QED BY <1>1, ZenonT(40) DEF Inbox!Lease, Leased

LEMMA VisitLeases ==
  ASSUME InboxHypotheses, InboxInv, NEW w \in Drains, NEW d \in Rules, NEW g \in Gens,
         drain[w].at = "next", entry[d][g].leases < MaxLeases,
         UNCHANGED <<clock, alive, frozen, marks, effects, runs, outbox, inbox>>,
         entry[d][g].state \in {"pending", "leased"},
         entry[d][g].state = "leased" => Inbox!Resumable(d, g),
         entry' = Inbox!Lease(d, g, drain[w].now), NEW resumed \in BOOLEAN, Inbox!Turn(w, d, g, resumed)
  PROVE  InboxInv'
<1> DEFINE s == drain[w]   old == entry[d][g]   e == Leased(old, s.now)
           n == old.leases + 1
           new == [at |-> "guards", now |-> s.now, left |-> s.left \ {<<d, g>>}, d |-> d, g |-> g,
                   fence |-> n, resumed |-> resumed]
<1>1. /\ s \in Shapes /\ entry \in [Rules -> [Gens -> EntryRows]] /\ EntryFits(old)
      /\ old.leases \in Nat /\ n \in Nat /\ n >= 1
  BY EntryIs DEF InboxInv, DrainsFit, EntriesFit
<1>2. s.now \in 0 .. MaxClock /\ s.left \in SUBSET (Rules \X Gens)
  BY <1>1, ShapeIs DEF Waiting
<1>3. entry' = [entry EXCEPT ![d][g] = e]
  <2>1. EntriesFit
    BY DEF InboxInv
  <2>2. QED BY <2>1, LeaseIs
<1>4. old \in EntryRows
  BY <1>1
<1>5. EntryMoves(old, e) /\ e.state = "leased" /\ e.leases = n /\ e.end # "executed"
  BY <1>1, <1>2, <1>4, LeaseMoves
<1> HIDE DEF e
<1>6. /\ EntriesMove /\ entry'[d][g] = e
      /\ \A x \in Rules, h \in Gens : x # d \/ h # g => entry'[x][h] = entry[x][h]
  BY <1>3, <1>5, EntryMoved DEF InboxInv
<1>7. RunsFit'
  <2>1. RunFits(entry[d][g], runs[d][g], outbox[d][g]) /\ runs[d][g] \in RunStates /\ outbox[d][g] \in TellStates
    BY DEF InboxInv, RunsFit
  <2>2. RunFits(e, runs[d][g], outbox[d][g])
    BY <2>1 DEF RunFits
  <2>3. QED BY <1>6, <2>1, <2>2, RunsFollow DEF InboxInv
<1>8. InboxFits'
  BY <1>5, <1>6, InboxStaysOpen DEF InboxInv, IsClosed
<1>9. drain' = [drain EXCEPT ![w] = new]
  BY DEF Inbox!Turn
<1>10. /\ new \in Shapes /\ new.at = "guards" /\ new.d = d /\ new.g = g /\ new.fence = n
  BY <1>1, <1>2 DEF Shapes, Guarding
<1> HIDE DEF new
<1>11. /\ BookFits(frozen[d], old, marks[d][g], effects[d][g])
       /\ DOMAIN frozen[d] \subseteq Nat
  BY DEF InboxInv, BooksFit, PlansTyped
<1>12. DrainFits(new, entry', marks, effects)
  <2>1. LeaseFits(new, entry'[d][g])
    BY <1>1, <1>5, <1>6, <1>10 DEF LeaseFits
  <2>2. FirstFits(new, frozen[d], effects[d][g])
    BY <1>1, <1>10, <1>11 DEF FirstFits, BookFits
  <2>3. LaterFits(new, frozen[d], marks[d][g])
    <3>1. CASE old.state = "pending"
      BY <1>1, <1>10, <3>1 DEF LaterFits, EntryFits
    <3>2. CASE old.state = "leased"
      BY <1>10, <3>2 DEF LaterFits, Busy, Inbox!Resumable, Inbox!Proved, Inbox!Steps
    <3>3. QED BY <3>1, <3>2
  <2>4. PlaceFits(new, frozen[d], marks[d][g]) /\ CarriedFits(new, frozen[d], marks[d])
    BY <1>10 DEF PlaceFits, CarriedFits, Busy
  <2>5. QED BY <1>10, <2>1, <2>2, <2>3, <2>4, Zenon DEF DrainFits
<1>13. ASSUME NEW u \in Drains, u # w PROVE Apart(drain[u], new)
  <2>1. CASE On(drain[u]) /\ drain[u].d = d /\ drain[u].g = g
    <3>1. LeaseFits(drain[u], old) /\ drain[u].fence \in Nat
      BY <2>1, DrainIs DEF DrainFits
    <3>2. QED BY <1>1, <1>10, <3>1 DEF Apart, LeaseFits
  <2>2. CASE ~(On(drain[u]) /\ drain[u].d = d /\ drain[u].g = g)
    BY <1>10, <2>2 DEF Apart
  <2>3. QED BY <2>1, <2>2
<1>14. DrainsMove
  BY <1>9, <1>10, <1>12, <1>13, DrainTurns DEF InboxInv
<1>15. QED BY <1>6, <1>7, <1>8, <1>14, QuietKeeps, PlansRest DEF InboxInv

LEMMA PassMoves ==
  ASSUME DrainsFit, NEW w \in Drains, NEW d \in Rules, NEW g \in Gens, drain[w].at = "next",
         Inbox!Pass(w, d, g)
  PROVE  DrainsMove
<1> DEFINE s == drain[w]   new == [s EXCEPT !.left = s.left \ {<<d, g>>}]
<1>1. drain' = [drain EXCEPT ![w] = new]
  BY DEF Inbox!Pass, DrainsFit
<1>2. s \in Waiting
  BY ShapeIs DEF DrainsFit
<1>3. new \in Waiting
  BY <1>2 DEF Waiting
<1> HIDE DEF new
<1>4. QED BY <1>1, <1>3, IdleIs, DrainLeaves

LEMMA VisitKeeps ==
  ASSUME InboxHypotheses, InboxInv, NEW w \in Drains, NEW d \in Rules, NEW g \in Gens, Inbox!Visit(w, d, g)
  PROVE  InboxInv'
<1>1. /\ UNCHANGED <<clock, alive, frozen, marks, effects, runs, outbox, inbox>>
      /\ drain[w].at = "next" /\ entry[d][g].leases < MaxLeases
  BY DEF Inbox!Visit, Inbox!work, Inbox!settled
<1>2. CASE /\ entry[d][g].state = "pending" /\ entry' = Inbox!Lease(d, g, drain[w].now)
           /\ Inbox!Turn(w, d, g, FALSE)
  BY <1>1, <1>2, VisitLeases
<1>3. CASE /\ Inbox!Stale(d, g, drain[w].now) /\ Inbox!Resumable(d, g)
           /\ entry' = Inbox!Lease(d, g, drain[w].now) /\ Inbox!Turn(w, d, g, TRUE)
  BY <1>1, <1>3, VisitLeases DEF Inbox!Stale
<1>4. CASE /\ Inbox!Stale(d, g, drain[w].now) /\ entry' = Inbox!Attend(d, g, "attention")
           /\ Inbox!Pass(w, d, g)
  <2> DEFINE new == Over(entry[d][g], "attention", "attention")
  <2>1. entry[d][g] \in EntryRows /\ EntryFits(entry[d][g]) /\ entry[d][g].state = "leased"
    BY <1>4, EntryIs DEF InboxInv, EntryFits, Inbox!Stale
  <2>2. entry' = [entry EXCEPT ![d][g] = new]
    <3>1. EntriesFit
      BY DEF InboxInv
    <3>2. Inbox!Attend(d, g, "attention") = [entry EXCEPT ![d][g] = new]
      BY <3>1, AttendIs
    <3>3. QED BY <1>4, <3>2
  <2>3. EntryMoves(entry[d][g], new) /\ new.state = "attention" /\ new.end = "attention"
    BY <2>1, EndMoves
  <2> HIDE DEF new
  <2>4. /\ EntriesMove /\ entry'[d][g] = new
        /\ \A x \in Rules, h \in Gens : x # d \/ h # g => entry'[x][h] = entry[x][h]
    BY <2>2, <2>3, EntryMoved DEF InboxInv
  <2>5. RunsFit'
    <3>1. RunFits(entry[d][g], runs[d][g], outbox[d][g]) /\ runs[d][g] \in RunStates /\ outbox[d][g] \in TellStates
      BY DEF InboxInv, RunsFit
    <3>2. RunFits(new, runs[d][g], outbox[d][g])
      BY <2>1, <3>1 DEF RunFits
    <3>3. QED BY <1>1, <2>4, <3>1, <3>2, RunsFollow DEF InboxInv
  <2>6. InboxFits'
    BY <1>1, <2>1, <2>3, <2>4, InboxStaysOpen DEF InboxInv, IsClosed
  <2>7. DrainsMove
    BY <1>1, <1>4, PassMoves DEF InboxInv
  <2>8. QED BY <1>1, <2>4, <2>5, <2>6, <2>7, QuietKeeps, PlansRest DEF InboxInv
<1>5. CASE Inbox!Pass(w, d, g) /\ entry' = entry
  <2>1. DrainsMove
    BY <1>1, <1>5, PassMoves DEF InboxInv
  <2>2. QED BY <1>1, <1>5, <2>1, QuietKeeps, EntriesRest, RunsRest, InboxRests, PlansRest DEF InboxInv
<1>6. QED BY <1>2, <1>3, <1>4, <1>5, Zenon DEF Inbox!Visit

(* A drain that holds the fence holds a lease.                               *)
LEMMA FencedIs ==
  ASSUME InboxInv, NEW w \in Drains, On(drain[w]), Inbox!Fenced(w)
  PROVE  LET e == entry[drain[w].d][drain[w].g]
         IN e.state = "leased" /\ e.leases = drain[w].fence /\ e \in EntryRows /\ EntryFits(e)
<1> DEFINE s == drain[w]   e == entry[s.d][s.g]
<1>1. /\ s.d \in Rules /\ s.g \in Gens /\ s.fence \in Nat /\ DrainFits(s, entry, marks, effects)
  BY DrainIs, Zenon
<1>2. LeaseFits(s, e) /\ EntryFits(e) /\ e.leases \in Nat /\ e.fence = s.fence
  BY <1>1, EntryIs DEF DrainFits, InboxInv, Inbox!Fenced
<1> HIDE DEF s, e
<1>3. e.state = "leased" /\ e.leases = s.fence /\ e \in EntryRows
  BY <1>1, <1>2 DEF LeaseFits, EntryFits
<1>4. QED BY <1>2, <1>3 DEF s, e

Ended(d, g, how) == [Inbox!Attend(d, g, "terminal") EXCEPT ![d][g].end = how]

LEMMA EndedMoves ==
  ASSUME EntriesFit, NEW d \in Rules, NEW g \in Gens, entry[d][g].state = "leased",
         NEW how \in {"skipped", "failed", "executed"},
         how = "executed" => \A i \in DOMAIN frozen[d] : marks[d][g][i] \in Recorded,
         entry' = Ended(d, g, how)
  PROVE  /\ EntriesMove /\ entry'[d][g].state = "terminal" /\ ~IsClosed(entry[d][g])
         /\ \A x \in Rules, h \in Gens : x # d \/ h # g => entry'[x][h] = entry[x][h]
<1> DEFINE old == entry[d][g]   new == Over(old, "terminal", how)
<1>1. Ended(d, g, how) = [entry EXCEPT ![d][g] = new]
  BY AttendedIs DEF Ended
<1>2. old.state = "leased" /\ old \in EntryRows /\ EntryFits(old)
  BY EntryIs DEF EntryFits
<1>3. EntryMoves(old, new) /\ ~IsClosed(old) /\ new.state = "terminal" /\ new.end = how
  BY <1>2, EndMoves
<1> HIDE DEF new
<1>4. entry' = [entry EXCEPT ![d][g] = new]
  BY <1>1
<1>5. /\ EntriesMove /\ entry'[d][g] = new
      /\ \A x \in Rules, h \in Gens : x # d \/ h # g => entry'[x][h] = entry[x][h]
  BY <1>3, <1>4, EntryMoved
<1>6. QED BY <1>3, <1>5

LEMMA EndedRuns ==
  ASSUME RunsFit, NEW d \in Rules, NEW g \in Gens, entry[d][g].state = "leased",
         entry'[d][g].state = "terminal",
         \A x \in Rules, h \in Gens : x # d \/ h # g => entry'[x][h] = entry[x][h],
         \/ UNCHANGED <<runs, outbox>>
         \/ /\ runs' = [runs EXCEPT ![d][g] = "ended"]
            /\ outbox' = [outbox EXCEPT ![d][g] = "pending"] \/ (outbox' = outbox /\ outbox[d][g] # "none")
  PROVE  RunsFit'
<1>1. /\ RunFits(entry[d][g], runs[d][g], outbox[d][g])
      /\ runs[d][g] \in RunStates /\ outbox[d][g] \in TellStates
  BY DEF RunsFit
<1>2. CASE UNCHANGED <<runs, outbox>>
  <2>1. RunFits(entry'[d][g], runs[d][g], outbox[d][g])
    BY <1>1 DEF RunFits
  <2>2. QED BY <1>1, <1>2, <2>1, RunsFollow
<1>3. CASE runs' = [runs EXCEPT ![d][g] = "ended"] /\ outbox' = [outbox EXCEPT ![d][g] = "pending"]
  <2>1. RunFits(entry'[d][g], "ended", "pending") /\ "ended" \in RunStates /\ "pending" \in TellStates
    BY DEF RunFits, RunStates, TellStates
  <2>2. QED BY <1>3, <2>1, RunsFollow
<1>4. CASE runs' = [runs EXCEPT ![d][g] = "ended"] /\ outbox' = outbox /\ outbox[d][g] # "none"
  <2>1. RunFits(entry'[d][g], "ended", outbox[d][g]) /\ "ended" \in RunStates
    BY <1>1, <1>4 DEF RunFits, RunStates, TellStates
  <2>2. QED BY <1>1, <1>4, <2>1, RunsFollow
<1>5. QED BY <1>2, <1>3, <1>4

(* The end of a delivery under the fence, with its run and its completion.   *)
LEMMA EndKeeps ==
  ASSUME InboxInv, NEW d \in Rules, NEW g \in Gens, entry[d][g].state = "leased",
         UNCHANGED <<clock, alive, frozen, marks, effects>>,
         NEW how \in {"skipped", "failed", "executed"},
         how = "executed" => \A i \in DOMAIN frozen[d] : marks[d][g][i] \in Recorded,
         entry' = Ended(d, g, how),
         \/ UNCHANGED <<runs, outbox>>
         \/ /\ runs' = [runs EXCEPT ![d][g] = "ended"]
            /\ outbox' = [outbox EXCEPT ![d][g] = "pending"] \/ (outbox' = outbox /\ outbox[d][g] # "none"),
         inbox' = Inbox!Closed(entry'), DrainsMove
  PROVE  InboxInv'
<1>1. /\ EntriesMove /\ entry'[d][g].state = "terminal" /\ ~IsClosed(entry[d][g])
      /\ \A x \in Rules, h \in Gens : x # d \/ h # g => entry'[x][h] = entry[x][h]
  BY EndedMoves DEF InboxInv
<1>2. RunsFit'
  BY <1>1, EndedRuns DEF InboxInv
<1>3. InboxFits'
  BY <1>1, InboxCloses DEF InboxInv
<1>4. QED BY <1>1, <1>2, <1>3, QuietKeeps, PlansRest DEF InboxInv

LEMMA DeclineKeeps ==
  ASSUME InboxInv, NEW w \in Drains, NEW how \in {"skipped", "failed"}, Inbox!Decline(w, how)
  PROVE  InboxInv'
<1> DEFINE d == drain[w].d   g == drain[w].g
<1>1. UNCHANGED <<clock, alive, frozen, marks, effects>> /\ On(drain[w]) /\ Inbox!Leave(w)
  <2>1. drain[w].at = "guards" /\ UNCHANGED <<clock, alive, Inbox!work>> /\ Inbox!Leave(w)
    BY ZenonT(40) DEF Inbox!Decline
  <2>2. QED BY <2>1 DEF Inbox!work, On
<1>2. CASE Inbox!Fenced(w)
  <2>1. /\ entry' = Ended(d, g, how)
        /\ runs' = IF alive[d] THEN [runs EXCEPT ![d][g] = "ended"] ELSE runs
        /\ outbox' = IF alive[d] THEN [outbox EXCEPT ![d][g] = "pending"] ELSE outbox
        /\ inbox' = Inbox!Closed(entry')
    BY <1>2 DEF Inbox!Decline, Ended
  <2>2. \/ UNCHANGED <<runs, outbox>>
        \/ runs' = [runs EXCEPT ![d][g] = "ended"] /\ outbox' = [outbox EXCEPT ![d][g] = "pending"]
    BY <2>1
  <2>3. DrainsMove /\ d \in Rules /\ g \in Gens /\ entry[d][g].state = "leased"
    BY <1>1, <1>2, LeaveMoves, DrainIs, FencedIs DEF InboxInv
  <2>4. QED BY <1>1, <2>1, <2>2, <2>3, EndKeeps
<1>3. CASE ~Inbox!Fenced(w)
  <2>1. /\ UNCHANGED <<entry, outbox, inbox>>
        /\ runs' = IF alive[d] /\ runs[d][g] = "none" THEN [runs EXCEPT ![d][g] = "running"] ELSE runs
    BY <1>3 DEF Inbox!Decline
  <2>2. RunsFit' /\ DrainsMove
    BY <1>1, <2>1, DrainIs, RunReserves, LeaveMoves DEF InboxInv
  <2>3. QED BY <1>1, <2>1, <2>2, QuietKeeps, EntriesRest, InboxRests, PlansRest DEF InboxInv
<1>4. QED BY <1>2, <1>3

LEMMA FinishKeeps == ASSUME InboxInv, NEW w \in Drains, Inbox!Finish(w) PROVE InboxInv'
<1> DEFINE s == drain[w]   d == s.d   g == s.g
<1>1. /\ UNCHANGED <<clock, alive, frozen, marks, effects>> /\ On(s) /\ s.at = "act" /\ Inbox!Leave(w)
      /\ s.i \notin DOMAIN frozen[d] /\ Inbox!Settle(w, d, g, "executed", s.reserved)
  BY DEF Inbox!Finish, Inbox!work, On, Busy, Inbox!Steps
<1>2. CASE Inbox!Fenced(w) /\ (s.reserved => runs[d][g] # "none")
  <2>1. /\ entry' = Ended(d, g, "executed")
        /\ runs' = IF s.reserved THEN [runs EXCEPT ![d][g] = "ended"] ELSE runs
        /\ outbox' = IF s.reserved /\ outbox[d][g] = "none"
                     THEN [outbox EXCEPT ![d][g] = "pending"] ELSE outbox
        /\ inbox' = Inbox!Closed(entry')
    <3>1. /\ entry' = [Inbox!Attend(d, g, "terminal") EXCEPT ![d][g].end = "executed"]
          /\ inbox' = Inbox!Closed([Inbox!Attend(d, g, "terminal") EXCEPT ![d][g].end = "executed"])
          /\ runs' = IF s.reserved THEN [runs EXCEPT ![d][g] = "ended"] ELSE runs
          /\ outbox' = IF s.reserved /\ outbox[d][g] = "none"
                       THEN [outbox EXCEPT ![d][g] = "pending"] ELSE outbox
      BY <1>1, <1>2, Zenon DEF Inbox!Settle
    <3>2. QED BY <3>1, Zenon DEF Ended
  <2>2. \/ UNCHANGED <<runs, outbox>>
        \/ /\ runs' = [runs EXCEPT ![d][g] = "ended"]
           /\ outbox' = [outbox EXCEPT ![d][g] = "pending"] \/ (outbox' = outbox /\ outbox[d][g] # "none")
    BY <2>1
  <2>3. \A i \in DOMAIN frozen[d] : marks[d][g][i] \in Recorded
    <3>1. /\ PlaceFits(s, frozen[d], marks[d][g]) /\ s \in Shapes /\ d \in Rules
      BY <1>1, DrainIs DEF DrainFits
    <3>2. s.i \in Nat /\ s.i >= 1
      BY <1>1, <3>1, ShapeIs DEF PlaceFits, Busy, Acting
    <3>3. \A i \in DOMAIN frozen[d] : i < s.i
      <4>1. frozen[d] \in Seq({"safe", "unsafe", "release"})
        BY <3>1 DEF InboxInv, PlansTyped
      <4>2. DOMAIN frozen[d] = 1 .. Len(frozen[d]) /\ Len(frozen[d]) \in Nat
        BY <4>1
      <4> HIDE DEF s
      <4>3. QED BY <1>1, <3>2, <4>2
    <3>4. QED BY <1>1, <3>1, <3>3 DEF PlaceFits, Busy
  <2>4. DrainsMove /\ d \in Rules /\ g \in Gens /\ entry[d][g].state = "leased"
    BY <1>1, <1>2, LeaveMoves, DrainIs, FencedIs DEF InboxInv
  <2> HIDE DEF d, g
  <2>5. QED BY <1>1, <2>1, <2>2, <2>3, <2>4, EndKeeps
<1>3. CASE ~(Inbox!Fenced(w) /\ (s.reserved => runs[d][g] # "none"))
  <2>1. UNCHANGED <<entry, runs, outbox, inbox>>
    BY <1>1, <1>3, Zenon DEF Inbox!Settle
  <2>2. DrainsMove
    BY <1>1, LeaveMoves DEF InboxInv
  <2>3. QED BY <1>1, <2>1, <2>2, QuietKeeps, EntriesRest, RunsRest, InboxRests, PlansRest DEF InboxInv
<1>4. QED BY <1>2, <1>3
(***************************************************************************)
(* Steps that write the evidence of one action                             *)
(***************************************************************************)
Written(new, old, d, g, i, v) ==
  /\ DOMAIN new[d][g] = DOMAIN old[d][g]
  /\ \A j \in DOMAIN old[d][g] : new[d][g][j] = IF j = i THEN v ELSE old[d][g][j]
  /\ \A x \in Rules, h \in Gens : x # d \/ h # g => new[x][h] = old[x][h]

Put(F, d, g, i, v) == [F EXCEPT ![d][g][i] = v]

LEMMA PutIn ==
  ASSUME NEW V, NEW F \in [Rules -> [Gens -> Books(V)]], NEW d \in Rules, NEW g \in Gens,
         NEW i \in DOMAIN F[d][g], NEW v \in V, NEW G, G = Put(F, d, g, i, v)
  PROVE  G \in [Rules -> [Gens -> Books(V)]] /\ Written(G, F, d, g, i, v)
<1> DEFINE old == F[d][g]   new == [old EXCEPT ![i] = v]
<1>1. old \in Books(V)
  OBVIOUS
<1>2. PICK ks \in SUBSET Nat : old \in [ks -> V]
  BY <1>1 DEF Books
<1>3. /\ new \in [ks -> V] /\ DOMAIN new = DOMAIN old
      /\ \A j \in DOMAIN old : new[j] = IF j = i THEN v ELSE old[j]
  BY <1>2
<1>4. G = [F EXCEPT ![d][g] = new]
  BY DEF Put
<1>5. new \in Books(V)
  BY <1>3 DEF Books
<1> HIDE DEF new, old
<1>6. /\ G \in [Rules -> [Gens -> Books(V)]] /\ G[d][g] = new
      /\ \A x \in Rules, h \in Gens : x # d \/ h # g => G[x][h] = F[x][h]
  BY <1>4, <1>5
<1>7. Written(G, F, d, g, i, v)
  BY <1>3, <1>6, Zenon DEF Written, old
<1>8. QED BY <1>6, <1>7

LEMMA WrittenRest ==
  ASSUME NEW new, NEW old, NEW d \in Rules, NEW g \in Gens, NEW i, NEW v, Written(new, old, d, g, i, v)
  PROVE  \A h \in Gens : h # g => new[d][h] = old[d][h]
BY DEF Written

LEMMA PutNot == ASSUME NEW F, NEW d, NEW g, NEW i PROVE Written(F, F, d, g, i, F[d][g][i])
BY DEF Written

(* What one action may write without disturbing the rest.                    *)
Rightly(w, d, g, i, m, n) ==
  /\ m \in Marks /\ n \in Nat /\ i \in DOMAIN frozen[d]
  /\ n >= effects[d][g][i]
  /\ frozen[d][i] # "safe" => n = effects[d][g][i] \/ drain[w].fence = 1
  /\ frozen[d][i] # "safe" /\ marks[d][g][i] = "proved" => m = "proved" \/ entry[d][g].leases = 1
  /\ marks[d][g][i] \in Recorded => m \in Recorded
  /\ m = "proved" => marks[d][g][i] = "proved" \/ entry[d][g].state # "terminal"
  /\ frozen[d][i] = "release" /\ m = "proved" => n > 0
  /\ \A h \in Gens : h < g => marks[d][h][i] # "proved"
  /\ BookFits(frozen[d], entry[d][g], marks'[d][g], effects'[d][g])

LEMMA BookIs ==
  ASSUME InboxInv, NEW d \in Rules, NEW g \in Gens
  PROVE  /\ BookFits(frozen[d], entry[d][g], marks[d][g], effects[d][g])
         /\ DOMAIN marks[d][g] = DOMAIN frozen[d] /\ DOMAIN effects[d][g] = DOMAIN frozen[d]
         /\ DOMAIN frozen[d] \subseteq Nat \ {0}
         /\ \A i \in DOMAIN frozen[d] : marks[d][g][i] \in Marks /\ effects[d][g][i] \in Nat
<1>1. /\ BookFits(frozen[d], entry[d][g], marks[d][g], effects[d][g])
      /\ frozen[d] \in Seq({"safe", "unsafe", "release"})
      /\ marks[d][g] \in Books(Marks) /\ effects[d][g] \in Books(Nat)
  BY DEF InboxInv, BooksFit, PlansTyped
<1>2. DOMAIN marks[d][g] = DOMAIN frozen[d] /\ DOMAIN effects[d][g] = DOMAIN frozen[d]
  BY <1>1 DEF BookFits
<1>3. \A i \in DOMAIN frozen[d] : marks[d][g][i] \in Marks /\ effects[d][g][i] \in Nat
  BY <1>1, <1>2 DEF Books
<1>4. QED BY <1>1, <1>2, <1>3

LEMMA ApartBoth == \A v, w : Apart(v, w) => Apart(w, v)
  BY DEF Apart

LEMMA BookKeeps ==
  ASSUME InboxInv, NEW w \in Drains, On(drain[w]), NEW d \in Rules, NEW g \in Gens,
         drain[w].d = d, drain[w].g = g,
         UNCHANGED <<clock, alive, frozen, entry, runs, outbox, inbox>>,
         marks' \in [Rules -> [Gens -> Books(Marks)]], effects' \in [Rules -> [Gens -> Books(Nat)]],
         NEW i, NEW m, NEW n, Rightly(w, d, g, i, m, n),
         Written(marks', marks, d, g, i, m), Written(effects', effects, d, g, i, n),
         NEW t \in Shapes, drain' = [drain EXCEPT ![w] = t],
         t.d = d, t.g = g, t.fence = drain[w].fence,
         DrainFits(t, entry', marks', effects')
  PROVE  InboxInv'
<1> DEFINE p == frozen[d]
<1>1. PlansTyped' /\ RunsFit' /\ InboxFits' /\ EntriesFit'
  BY PlansRest, RunsRest, InboxRests DEF InboxInv, EntriesFit
<1>2. /\ DOMAIN marks[d][g] = DOMAIN p /\ DOMAIN effects[d][g] = DOMAIN p
      /\ \A j \in DOMAIN p : /\ marks'[d][g][j] = IF j = i THEN m ELSE marks[d][g][j]
                             /\ effects'[d][g][j] = IF j = i THEN n ELSE effects[d][g][j]
      /\ \A x \in Rules, h \in Gens : x # d \/ h # g => marks'[x][h] = marks[x][h] /\ effects'[x][h] = effects[x][h]
      /\ \A j \in DOMAIN p : effects[d][g][j] \in Nat /\ marks[d][g][j] \in Marks
  BY BookIs DEF Written
<1>3. BooksFit'
  <2>1. ASSUME NEW x \in Rules, NEW h \in Gens PROVE BookFits(frozen[x], entry[x][h], marks'[x][h], effects'[x][h])
    <3>1. CASE x = d /\ h = g
      BY <3>1 DEF Rightly
    <3>2. CASE x # d \/ h # g
      <4>1. marks'[x][h] = marks[x][h] /\ effects'[x][h] = effects[x][h]
        BY <1>2, <3>2
      <4>2. BookFits(frozen[x], entry[x][h], marks[x][h], effects[x][h])
        BY BookIs
      <4>3. QED BY <4>1, <4>2
    <3>3. QED BY <3>1, <3>2
  <2>2. QED BY <2>1, Zenon DEF BooksFit
<1>4. ASSUME NEW x \in Rules, NEW h \in Gens, NEW j \in DOMAIN frozen[x], marks'[x][h][j] = "proved"
      PROVE  \/ marks[x][h][j] = "proved"
             \/ x = d /\ h = g /\ j = i /\ m = "proved" /\ entry[d][g].state # "terminal"
  <2>1. CASE x = d /\ h = g
    BY <1>2, <1>4, <2>1 DEF Rightly
  <2>2. CASE x # d \/ h # g
    BY <1>2, <1>4, <2>2
  <2>3. QED BY <2>1, <2>2
<1>5. ReleasesHappened'
  <2>1. ASSUME NEW x \in Rules, NEW h \in Gens, NEW j \in DOMAIN frozen[x], frozen[x][j] = "release",
               marks'[x][h][j] = "proved"
        PROVE  \E k \in Gens : effects'[x][k][j] > 0
    <3>1. CASE marks[x][h][j] = "proved"
      <4>1. PICK k \in Gens : effects[x][k][j] > 0
        BY <2>1, <3>1 DEF InboxInv, ReleasesHappened
      <4>2. CASE x = d /\ k = g
        BY <1>2, <2>1, <4>1, <4>2 DEF Rightly
      <4>3. CASE x # d \/ k # g
        BY <1>2, <4>1, <4>3
      <4>4. QED BY <4>2, <4>3
    <3>2. CASE x = d /\ h = g /\ j = i /\ m = "proved"
      BY <1>2, <2>1, <3>2 DEF Rightly
    <3>3. QED BY <1>4, <2>1, <3>1, <3>2
  <2>2. QED BY <2>1 DEF ReleasesHappened
<1>6. GensFit'
  <2>1. ASSUME NEW x \in Rules, NEW h \in Gens, NEW k \in Gens, h < k, entry[x][k].state # "none"
        PROVE  /\ entry[x][h].state = "terminal"
               /\ \A j \in DOMAIN frozen[x] :
                    marks'[x][h][j] = "proved" => marks'[x][k][j] = "proved" /\ effects'[x][k][j] = 0
    <3>1. /\ entry[x][h].state = "terminal"
          /\ \A j \in DOMAIN frozen[x] :
               marks[x][h][j] = "proved" => marks[x][k][j] = "proved" /\ effects[x][k][j] = 0
      BY <2>1 DEF InboxInv, GensFit, Succeeds
    <3>2. ASSUME NEW j \in DOMAIN frozen[x], marks'[x][h][j] = "proved"
          PROVE  marks'[x][k][j] = "proved" /\ effects'[x][k][j] = 0
      <4>1. marks[x][h][j] = "proved"
        BY <1>4, <3>1, <3>2
      <4>2. CASE x = d /\ k = g
        <5>1. j # i
          BY <2>1, <4>1, <4>2 DEF Rightly
        <5>2. QED BY <1>2, <3>1, <4>1, <4>2, <5>1
      <4>3. CASE x # d \/ k # g
        BY <1>2, <3>1, <4>1, <4>3
      <4>4. QED BY <4>2, <4>3
    <3>3. QED BY <3>1, <3>2
  <2>2. ASSUME NEW x \in Rules, NEW h \in Gens, NEW k \in Gens, h < k PROVE Succeeds(x, h, k)'
    BY <2>1, <2>2 DEF Succeeds
  <2>3. QED BY <2>2, Zenon DEF GensFit, Gens
<1>7. ASSUME NEW u \in Drains, u # w PROVE DrainFits(drain[u], entry, marks', effects')
  <2> DEFINE s == drain[u]
  <2>1. SUFFICES ASSUME On(s) PROVE DrainFits(s, entry, marks', effects')
    BY DEF DrainFits
  <2>2. /\ s.d \in Rules /\ s.g \in Gens /\ s.fence \in Nat /\ Apart(s, drain[w])
        /\ LeaseFits(s, entry[s.d][s.g]) /\ FirstFits(s, frozen[s.d], effects[s.d][s.g])
        /\ LaterFits(s, frozen[s.d], marks[s.d][s.g]) /\ PlaceFits(s, frozen[s.d], marks[s.d][s.g])
        /\ CarriedFits(s, frozen[s.d], marks[s.d])
    <3>1. /\ s.d \in Rules /\ s.g \in Gens /\ s.fence \in Nat /\ DrainFits(s, entry, marks, effects)
          /\ \A v \in Drains : v # u => Apart(drain[v], s)
      BY <2>1, DrainIs, Zenon
    <3>2. Apart(s, drain[w])
      BY <1>7, <3>1, ApartBoth, ZenonT(40)
    <3>3. QED BY <2>1, <3>1, <3>2, Zenon DEF DrainFits
  <2>3. EntryFits(entry[s.d][s.g]) /\ entry[s.d][s.g].leases \in Nat
    BY <2>2, EntryIs DEF InboxInv
  <2> HIDE DEF s
  <2>4. FirstFits(s, frozen[s.d], effects'[s.d][s.g])
    <3>1. CASE s.d = d /\ s.g = g
      <4>1. s.fence = 1 => drain[w].fence # 1
        BY <2>1, <2>2, <3>1 DEF Apart
      <4>2. s.fence = 1 /\ frozen[d][i] # "safe" => n = effects[d][g][i]
        BY <4>1 DEF Rightly
      <4>3. QED BY <1>2, <2>2, <3>1, <4>2 DEF FirstFits
    <3>2. CASE s.d # d \/ s.g # g
      BY <1>2, <2>2, <3>2
    <3>3. QED BY <3>1, <3>2
  <2>5. LaterFits(s, frozen[s.d], marks'[s.d][s.g])
    <3>1. CASE s.d = d /\ s.g = g
      <4>1. s.fence > 1 => entry[d][g].leases # 1
        BY <2>2, <2>3, <3>1 DEF LeaseFits
      <4>2. s.fence > 1 /\ frozen[d][i] # "safe" => m = "proved"
        BY <2>2, <3>1, <4>1 DEF LaterFits, Rightly
      <4>3. QED BY <1>2, <2>2, <3>1, <4>2, SMTT(30) DEF LaterFits
    <3>2. CASE s.d # d \/ s.g # g
      BY <1>2, <2>2, <3>2
    <3>3. QED BY <3>1, <3>2
  <2>6. PlaceFits(s, frozen[s.d], marks'[s.d][s.g])
    <3>1. CASE s.d = d /\ s.g = g
      BY <1>2, <2>2, <3>1 DEF PlaceFits, Rightly
    <3>2. CASE s.d # d \/ s.g # g
      BY <1>2, <2>2, <3>2
    <3>3. QED BY <3>1, <3>2
  <2>7. CarriedFits(s, frozen[s.d], marks'[s.d])
    <3>1. ASSUME Busy(s), NEW h \in Gens, h < s.g, NEW j \in DOMAIN frozen[s.d], marks'[s.d][h][j] = "proved"
          PROVE  j \in s.seen
      <4>1. entry[s.d][s.g].state # "none"
        BY <2>2, <2>3 DEF LeaseFits, EntryFits
      <4>2. entry[s.d][h].state = "terminal"
        BY <2>2, <3>1, <4>1 DEF InboxInv, GensFit, Succeeds
      <4>3. marks[s.d][h][j] = "proved"
        BY <1>4, <2>2, <3>1, <4>2
      <4>4. QED BY <2>2, <3>1, <4>3, SMTT(30) DEF CarriedFits
    <3>2. QED BY <3>1 DEF CarriedFits
  <2>8. QED BY <2>2, <2>4, <2>5, <2>6, <2>7, Zenon DEF DrainFits
<1>8. DrainsFit'
  <2>1. /\ drain' \in [Drains -> Shapes] /\ drain'[w] = t
        /\ \A v \in Drains : v # w => drain'[v] = drain[v]
    BY DrainPut DEF InboxInv
  <2>2. ASSUME NEW v \in Drains PROVE DrainFits(drain'[v], entry', marks', effects')
    BY <1>7, <2>1
  <2>3. \A v \in Drains : DrainFits(drain[v], entry, marks, effects)'
    BY <2>2 DEF DrainFits
  <2>4. ASSUME NEW u \in Drains, u # w PROVE Apart(drain[u], t)
    <3>1. Apart(drain[u], drain[w])
      BY <2>4, DrainIs, Zenon
    <3>2. t.d = drain[w].d /\ t.g = drain[w].g /\ t.fence = drain[w].fence
      OBVIOUS
    <3>3. QED BY <3>1, <3>2, Zenon DEF Apart
  <2>5. ASSUME NEW u \in Drains, NEW v \in Drains, u # v PROVE Apart(drain'[u], drain'[v])
    <3>1. Apart(drain[u], drain[v])
      BY <2>5, Zenon DEF InboxInv, DrainsFit
    <3>2. CASE u = w
      <4>1. drain'[u] = t /\ drain'[v] = drain[v] /\ Apart(drain[v], t)
        BY <2>1, <2>4, <2>5, <3>2
      <4>2. QED BY <4>1, ApartBoth, Zenon
    <3>3. CASE u # w
      <4>1. drain'[u] = drain[u]
        BY <2>1, <3>3, Zenon
      <4>2. CASE v = w
        BY <2>1, <2>4, <3>3, <4>1, <4>2, Zenon
      <4>3. CASE v # w
        BY <2>1, <3>1, <4>1, <4>3, ZenonT(40)
      <4>4. QED BY <4>2, <4>3
    <3>4. QED BY <3>2, <3>3
  <2>6. QED BY <2>1, <2>3, <2>5, Zenon DEF DrainsFit
<1>9. QED BY <1>1, <1>3, <1>5, <1>6, <1>8, Zenon DEF InboxInv
(* What a drain knows of the action it has come to and need not skip.        *)
LEMMA ActIs ==
  ASSUME InboxInv, NEW w \in Drains, Busy(drain[w]), drain[w].i \in DOMAIN frozen[drain[w].d],
         drain[w].i \notin drain[w].seen
  PROVE  LET s == drain[w]
             e == entry[s.d][s.g]
         IN /\ s \in Acting /\ s.fence >= 1 /\ s.fence <= e.leases /\ e.leases \in Nat /\ e.state # "none"
            /\ frozen[s.d][s.i] # "safe" => s.fence = 1
            /\ frozen[s.d][s.i] # "safe" /\ s.at = "act" => effects[s.d][s.g][s.i] = 0
            /\ \A h \in Gens : h < s.g => marks[s.d][h][s.i] # "proved"
<1> DEFINE s == drain[w]   e == entry[s.d][s.g]
<1>1. /\ s \in Acting /\ s.d \in Rules /\ s.g \in Gens /\ s.fence \in Nat
      /\ LeaseFits(s, e) /\ FirstFits(s, frozen[s.d], effects[s.d][s.g])
      /\ LaterFits(s, frozen[s.d], marks[s.d][s.g]) /\ CarriedFits(s, frozen[s.d], marks[s.d])
  BY DrainIs, ShapeIs, SMTT(30) DEF On, DrainFits
<1>2. EntryFits(e) /\ e.leases \in Nat
  BY <1>1, EntryIs DEF InboxInv
<1>3. s.i \in Nat
  BY <1>1 DEF Acting
<1>4. Busy(s) /\ s.i \in DOMAIN frozen[s.d] /\ s.i \notin s.seen
  OBVIOUS
<1> HIDE DEF s, e
<1>5. s.fence >= 1 /\ s.fence <= e.leases /\ e.state # "none"
  BY <1>1, <1>2 DEF LeaseFits, EntryFits
<1>6. frozen[s.d][s.i] # "safe" => s.fence = 1
  BY <1>1, <1>4, <1>5 DEF LaterFits
<1>7. frozen[s.d][s.i] # "safe" /\ s.at = "act" => effects[s.d][s.g][s.i] = 0
  BY <1>1, <1>3, <1>4, <1>6 DEF FirstFits, Ahead
<1>8. \A h \in Gens : h < s.g => marks[s.d][h][s.i] # "proved"
  BY <1>1, <1>4 DEF CarriedFits
<1>9. QED BY <1>1, <1>2, <1>5, <1>6, <1>7, <1>8 DEF s, e

(* One step along the list of actions.                                       *)
LEMMA AheadIs ==
  ASSUME NEW s, NEW t, NEW i \in Nat, s.i = i, Busy(s),
         \/ s.at = "act" /\ t.at = "fired" /\ t.i = i
         \/ t.at = "act" /\ t.i = i + 1
  PROVE  /\ \A j \in Nat : Ahead(t, j) => j # i /\ Ahead(s, j)
         /\ \A j \in Nat : j < t.i => j < s.i \/ j = i
         /\ s.i >= 1 => t.i >= 1
BY DEF Ahead, Busy

(* What the writing of one action keeps of a delivery's evidence.            *)
Turned(p, new, old, i, v) ==
  DOMAIN new = DOMAIN p /\ \A j \in DOMAIN p : new[j] = IF j = i THEN v ELSE old[j]
Suits(action, old, m, n) ==
  /\ n \in Nat
  /\ action # "safe" => n <= 1
  /\ old \in Recorded => m \in Recorded
  /\ action = "release" => (m = "proved" <=> n > 0)

LEMMA BookTurns ==
  ASSUME NEW p, NEW e, NEW c, NEW f, NEW cc, NEW ff, NEW i \in DOMAIN p, NEW m, NEW n,
         BookFits(p, e, c, f), e.leases # 0, e.state # "none",
         Turned(p, cc, c, i, m), Turned(p, ff, f, i, n), Suits(p[i], c[i], m, n)
  PROVE  BookFits(p, e, cc, ff)
<1>1. DOMAIN cc = DOMAIN p /\ DOMAIN ff = DOMAIN p
  BY DEF Turned
<1>2. ASSUME NEW j \in DOMAIN p
      PROVE  /\ p[j] # "safe" => ff[j] <= 1
             /\ p[j] = "release" /\ ff[j] > 0 => cc[j] = "proved"
             /\ e.end = "executed" => cc[j] \in Recorded
  <2>1. CASE j = i
    <3>1. cc[i] = m /\ ff[i] = n
      BY Zenon DEF Turned
    <3>2. e.end = "executed" => c[i] \in Recorded
      BY Zenon DEF BookFits
    <3>3. QED BY <2>1, <3>1, <3>2 DEF Suits
  <2>2. CASE j # i
    BY <2>2 DEF BookFits, Turned
  <2>3. QED BY <2>1, <2>2
<1>3. QED BY <1>1, <1>2 DEF BookFits

(* An action is started, or its outcome recorded, and the drain moves on.    *)
Works(w, s, d, g, i) ==
  /\ drain[w] = s /\ Busy(s) /\ s.d = d /\ s.g = g /\ s.i = i
  /\ i \in DOMAIN frozen[d] /\ i \notin s.seen
Evidence(s, d, g, i, m, n) ==
  /\ m \in Marks /\ n \in Nat /\ n >= effects[d][g][i]
  /\ frozen[d][i] # "safe" => n <= 1
  /\ frozen[d][i] # "safe" /\ marks[d][g][i] = "proved" => m = "proved" \/ entry[d][g].leases = 1
  /\ marks[d][g][i] \in Recorded => m \in Recorded
  /\ m = "proved" => marks[d][g][i] = "proved" \/ entry[d][g].state # "terminal"
  /\ frozen[d][i] = "release" => (m = "proved" <=> n > 0)
Onward(s, t, m) ==
  /\ t \in Acting /\ t.d = s.d /\ t.g = s.g /\ t.fence = s.fence /\ t.seen = s.seen
  /\ \/ s.at = "act" /\ t.at = "fired" /\ t.i = s.i /\ frozen[s.d][s.i] # "release"
     \/ t.at = "act" /\ t.i = s.i + 1 /\ m \in Recorded

LEMMA ActKeeps ==
  ASSUME InboxInv, NEW w \in Drains, NEW s, NEW d \in Rules, NEW g \in Gens, NEW i \in Nat, Works(w, s, d, g, i),
         UNCHANGED <<clock, alive, frozen, entry, runs, outbox, inbox>>,
         marks' \in [Rules -> [Gens -> Books(Marks)]], effects' \in [Rules -> [Gens -> Books(Nat)]],
         NEW m, NEW n, Evidence(s, d, g, i, m, n),
         Written(marks', marks, d, g, i, m), Written(effects', effects, d, g, i, n),
         NEW t, Onward(s, t, m), drain' = [drain EXCEPT ![w] = t]
  PROVE  InboxInv'
<1> DEFINE p == frozen[d]
<1>1. /\ s \in Acting /\ s.fence >= 1 /\ s.fence <= entry[d][g].leases /\ entry[d][g].leases \in Nat
      /\ entry[d][g].state # "none"
      /\ p[i] # "safe" => s.fence = 1
      /\ \A h \in Gens : h < g => marks[d][h][i] # "proved"
  BY ActIs DEF Works
<1>2. /\ On(s) /\ s.fence \in Nat /\ drain[w] = s /\ Busy(s) /\ s.d = d /\ s.g = g /\ s.i = i
      /\ i \in DOMAIN p /\ i \notin s.seen /\ DrainFits(s, entry, marks, effects)
  BY DrainIs DEF On, Works
<1>3. /\ BookFits(p, entry[d][g], marks[d][g], effects[d][g])
      /\ DOMAIN marks[d][g] = DOMAIN p /\ DOMAIN effects[d][g] = DOMAIN p /\ DOMAIN p \subseteq Nat
      /\ \A j \in DOMAIN p : effects[d][g][j] \in Nat
  BY <1>2, BookIs
<1>4. /\ DOMAIN marks'[d][g] = DOMAIN p /\ DOMAIN effects'[d][g] = DOMAIN p
      /\ \A j \in DOMAIN p : /\ marks'[d][g][j] = IF j = i THEN m ELSE marks[d][g][j]
                             /\ effects'[d][g][j] = IF j = i THEN n ELSE effects[d][g][j]
      /\ \A h \in Gens : h # g => marks'[d][h] = marks[d][h]
  <2>1. /\ DOMAIN marks'[d][g] = DOMAIN marks[d][g] /\ DOMAIN effects'[d][g] = DOMAIN effects[d][g]
        /\ \A j \in DOMAIN marks[d][g] : marks'[d][g][j] = IF j = i THEN m ELSE marks[d][g][j]
        /\ \A j \in DOMAIN effects[d][g] : effects'[d][g][j] = IF j = i THEN n ELSE effects[d][g][j]
    BY Zenon DEF Written
  <2>2. \A h \in Gens : h # g => marks'[d][h] = marks[d][h]
    BY WrittenRest
  <2>3. QED BY <1>3, <2>1, <2>2, Zenon
<1>5. BookFits(p, entry[d][g], marks'[d][g], effects'[d][g])
  <2>1. Turned(p, marks'[d][g], marks[d][g], i, m) /\ Turned(p, effects'[d][g], effects[d][g], i, n)
    BY <1>4, Zenon DEF Turned
  <2>2. entry[d][g].leases # 0
    BY <1>1, <1>2
  <2>3. i \in DOMAIN p /\ Suits(p[i], marks[d][g][i], m, n)
    BY <1>2, Zenon DEF Evidence, Suits
  <2>4. QED BY <1>1, <1>3, <2>1, <2>2, <2>3, BookTurns, Zenon
<1>6. Rightly(w, d, g, i, m, n)
  <2>1. p[i] # "safe" => drain[w].fence = 1
    BY <1>1, <1>2
  <2>2. QED BY <1>1, <1>2, <1>5, <2>1, Zenon DEF Rightly, Evidence
<1>7. /\ \A j \in Nat : Ahead(t, j) => j # i /\ Ahead(s, j)
      /\ \A j \in Nat : j < t.i => j < s.i \/ j = i
      /\ s.i >= 1 => t.i >= 1
  <2>1. s.i = i
    BY <1>2
  <2>2. \/ s.at = "act" /\ t.at = "fired" /\ t.i = i
        \/ t.at = "act" /\ t.i = i + 1
    BY <1>2 DEF Onward
  <2>3. QED BY <1>2, <2>1, <2>2, AheadIs
<1>8. DrainFits(t, entry', marks', effects')
  <2>1. /\ t \in Acting /\ t.d = d /\ t.g = g /\ t.fence = s.fence /\ t.seen = s.seen
        /\ t.at = "fired" => t.i = i /\ p[i] # "release"
        /\ t.at = "act" => m \in Recorded
    BY <1>2 DEF Onward
  <2>2. /\ LeaseFits(s, entry[d][g]) /\ FirstFits(s, p, effects[d][g]) /\ LaterFits(s, p, marks[d][g])
        /\ PlaceFits(s, p, marks[d][g]) /\ CarriedFits(s, p, marks[d])
    BY <1>2 DEF DrainFits
  <2>3. LeaseFits(t, entry'[d][g])
    BY <2>1, <2>2 DEF LeaseFits
  <2>4. FirstFits(t, p, effects'[d][g])
    <3>1. \A j \in DOMAIN p : Ahead(t, j) => j # i /\ Ahead(s, j)
      BY <1>3, <1>7, Zenon
    <3>2. QED BY <1>4, <2>1, <2>2, <3>1 DEF FirstFits
  <2>5. LaterFits(t, p, marks'[d][g])
    BY <1>2, <1>4, <2>1, <2>2 DEF LaterFits
  <2>6. PlaceFits(t, p, marks'[d][g])
    <3>1. \A j \in DOMAIN p : j < t.i => j < s.i \/ j = i
      BY <1>3, <1>7, Zenon
    <3>2. t.i >= 1 /\ t.seen \subseteq DOMAIN p
      BY <1>2, <1>7, <2>1, <2>2 DEF PlaceFits
    <3>3. ASSUME NEW j \in DOMAIN p, j < t.i \/ j \in t.seen PROVE marks'[d][g][j] \in Recorded
      <4>1. CASE j = i
        <5>1. t.at # "fired"
          BY <1>2, <2>1, <3>3, <4>1
        <5>2. m \in Recorded
          BY <2>1, <5>1 DEF Acting
        <5>3. QED BY <1>4, <4>1, <5>2
      <4>2. CASE j # i
        <5>1. marks[d][g][j] \in Recorded
          BY <1>2, <2>1, <2>2, <3>1, <3>3, <4>2 DEF PlaceFits
        <5>2. QED BY <1>4, <4>2, <5>1
      <4>3. QED BY <4>1, <4>2
    <3>4. t.at = "fired" => t.i \in DOMAIN p /\ t.i \notin t.seen /\ p[t.i] # "release"
      BY <1>2, <2>1
    <3>5. QED BY <3>2, <3>3, <3>4, Zenon DEF PlaceFits
  <2>7. CarriedFits(t, p, marks'[d])
    <3>1. \A h \in Gens : h < g => h # g
      BY <1>2 DEF Gens
    <3>2. \A h \in Gens : h < g => marks'[d][h] = marks[d][h]
      BY <1>4, <3>1, Zenon
    <3>3. QED BY <1>2, <2>1, <2>2, <3>2 DEF CarriedFits
  <2>8. QED BY <2>1, <2>3, <2>4, <2>5, <2>6, <2>7, Zenon DEF DrainFits
<1>9. t \in Shapes
  BY DEF Shapes, Onward
<1>10. t.d = d /\ t.g = g /\ t.fence = s.fence
  BY <1>2, Zenon DEF Onward
<1>11. QED BY <1>2, <1>6, <1>8, <1>9, <1>10, BookKeeps
(* A drain at an action it need not skip.                                    *)
LEMMA WorksIs ==
  ASSUME InboxInv, NEW w \in Drains, NEW s, drain[w] = s, Busy(s), s.i \in DOMAIN frozen[s.d],
         s.i \notin s.seen
  PROVE  /\ s.d \in Rules /\ s.g \in Gens /\ s.i \in Nat /\ Works(w, s, s.d, s.g, s.i)
         /\ marks[s.d][s.g][s.i] \in Marks /\ effects[s.d][s.g][s.i] \in Nat
         /\ s.i \in DOMAIN marks[s.d][s.g] /\ s.i \in DOMAIN effects[s.d][s.g]
         /\ marks \in [Rules -> [Gens -> Books(Marks)]] /\ effects \in [Rules -> [Gens -> Books(Nat)]]
<1>1. s \in Acting
  BY ActIs
<1>2. s.d \in Rules /\ s.g \in Gens /\ s.i \in Nat
  BY <1>1 DEF Acting
<1>3. Works(w, s, s.d, s.g, s.i)
  BY DEF Works
<1>4. QED BY <1>2, <1>3, BookIs DEF InboxInv, BooksFit

LEMMA OnwardIs ==
  ASSUME NEW s \in Acting, NEW m
  PROVE  /\ s.at = "act" /\ frozen[s.d][s.i] # "release" => Onward(s, [s EXCEPT !.at = "fired"], m)
         /\ m \in Recorded => Onward(s, [s EXCEPT !.at = "act", !.i = s.i + 1], m)
<1>1. s.i \in Nat /\ s.i + 1 \in Nat
  BY DEF Acting
<1>2. /\ [s EXCEPT !.at = "fired"] \in Acting
      /\ [s EXCEPT !.at = "act", !.i = s.i + 1] \in Acting
  BY <1>1 DEF Acting
<1>3. QED BY <1>2 DEF Onward, Acting

LEMMA FireKeeps == ASSUME InboxInv, NEW w \in Drains, Inbox!Fire(w) PROVE InboxInv'
<1> DEFINE s == drain[w]   d == s.d   g == s.g   i == s.i
           m == IF marks[d][g][i] = "none" THEN "pending" ELSE marks[d][g][i]
           n == effects[d][g][i] + 1
           t == [s EXCEPT !.at = "fired"]
<1>0. s.at = "act" /\ i \in DOMAIN frozen[d] /\ i \notin s.seen /\ frozen[d][i] \in {"safe", "unsafe"}
  <2>1. Inbox!At(w, {"safe", "unsafe"})
    BY Zenon DEF Inbox!Fire
  <2>2. QED BY <2>1 DEF Inbox!At, Inbox!Steps
<1>1. /\ UNCHANGED <<clock, alive, frozen, entry, runs, outbox, inbox>>
      /\ marks' = [marks EXCEPT ![d][g][i] = IF @ = "none" THEN "pending" ELSE @]
      /\ effects' = [effects EXCEPT ![d][g][i] = @ + 1]
      /\ drain' = [drain EXCEPT ![w].at = "fired"]
  BY Zenon DEF Inbox!Fire, Inbox!settled
<1>2. Busy(s)
  BY <1>0, Zenon DEF Busy
<1>3. /\ d \in Rules /\ g \in Gens /\ i \in Nat /\ Works(w, s, d, g, i)
      /\ marks[d][g][i] \in Marks /\ effects[d][g][i] \in Nat
      /\ i \in DOMAIN marks[d][g] /\ i \in DOMAIN effects[d][g]
      /\ marks \in [Rules -> [Gens -> Books(Marks)]] /\ effects \in [Rules -> [Gens -> Books(Nat)]]
  BY <1>0, <1>2, WorksIs, SMTT(30)
<1>4. /\ s \in Acting
      /\ frozen[d][i] # "safe" => effects[d][g][i] = 0
  BY <1>0, <1>2, ActIs, SMTT(30)
<1>5. /\ marks' = Put(marks, d, g, i, m) /\ effects' = Put(effects, d, g, i, n)
      /\ drain' = [drain EXCEPT ![w] = t]
  BY <1>1, <1>3, SMTT(30) DEF InboxInv, DrainsFit, Put
<1>6. m \in Marks /\ n \in Nat
  BY <1>3 DEF Marks
<1>7. Evidence(s, d, g, i, m, n)
  <2>1. /\ m = "proved" => marks[d][g][i] = "proved"
        /\ marks[d][g][i] \in Recorded => m = marks[d][g][i]
        /\ marks[d][g][i] = "proved" => m = "proved"
    <3> HIDE DEF s, d, g, i
    <3>1. QED BY Zenon DEF Recorded
  <2>2. n >= effects[d][g][i] /\ (frozen[d][i] # "safe" => n <= 1)
    <3> HIDE DEF s, d, g, i
    <3>1. QED BY <1>3, <1>4
  <2>3. frozen[d][i] # "release"
    BY <1>0, ZenonT(40)
  <2> HIDE DEF m, n, s, d, g, i
  <2>4. QED BY <1>6, <2>1, <2>2, <2>3 DEF Evidence
<1>8. Onward(s, t, m)
  BY <1>0, <1>4, OnwardIs
<1> HIDE DEF m, n, t
<1>9. marks' \in [Rules -> [Gens -> Books(Marks)]] /\ Written(marks', marks, d, g, i, m)
  <2>1. /\ marks \in [Rules -> [Gens -> Books(Marks)]] /\ d \in Rules /\ g \in Gens
        /\ i \in DOMAIN marks[d][g] /\ marks' = Put(marks, d, g, i, m)
    BY <1>3, <1>5
  <2>2. QED BY <1>6, <2>1, PutIn
<1>10. effects' \in [Rules -> [Gens -> Books(Nat)]] /\ Written(effects', effects, d, g, i, n)
  <2>1. /\ effects \in [Rules -> [Gens -> Books(Nat)]] /\ d \in Rules /\ g \in Gens
        /\ i \in DOMAIN effects[d][g] /\ effects' = Put(effects, d, g, i, n)
    BY <1>3, <1>5
  <2>2. QED BY <1>6, <2>1, PutIn
<1> HIDE DEF s, d, g, i
<1>11. QED BY <1>1, <1>3, <1>5, <1>7, <1>8, <1>9, <1>10, ActKeeps, Zenon

LEMMA RecordKeeps ==
  ASSUME InboxInv, NEW w \in Drains, NEW o \in {"proved", "failed"}, Inbox!Record(w, o)
  PROVE  InboxInv'
<1> DEFINE s == drain[w]   d == s.d   g == s.g   i == s.i
           n == effects[d][g][i]
           t == [s EXCEPT !.at = "act", !.i = s.i + 1]
<1>1. UNCHANGED <<clock, alive, frozen, effects, entry, runs, outbox, inbox>> /\ s.at = "fired"
  BY DEF Inbox!Record, Inbox!settled
<1>2. Busy(s) /\ On(s)
  BY <1>1, SMTT(30) DEF Busy, On
<1>3. CASE Inbox!Fenced(w)
  <2>1. /\ marks' = Put(marks, d, g, i, o)
        /\ drain' = [drain EXCEPT ![w].at = "act", ![w].i = @ + 1]
    BY <1>3 DEF Inbox!Record, Put
  <2>2. i \in DOMAIN frozen[d] /\ i \notin s.seen /\ frozen[d][i] # "release"
    BY <1>1, <1>2, DrainIs DEF DrainFits, PlaceFits
  <2>3. /\ d \in Rules /\ g \in Gens /\ i \in Nat /\ Works(w, s, d, g, i)
        /\ marks[d][g][i] \in Marks /\ effects[d][g][i] \in Nat
        /\ i \in DOMAIN marks[d][g]
        /\ marks \in [Rules -> [Gens -> Books(Marks)]] /\ effects \in [Rules -> [Gens -> Books(Nat)]]
    BY <1>2, <2>2, WorksIs, SMTT(30)
  <2>4. /\ s \in Acting
        /\ frozen[d][i] # "safe" => s.fence = 1
    BY <1>2, <2>2, ActIs
  <2>5. entry[d][g].state = "leased" /\ entry[d][g].leases = s.fence
    BY <1>2, <1>3, FencedIs
  <2>6. drain' = [drain EXCEPT ![w] = t]
    BY <2>1, <2>4 DEF InboxInv, DrainsFit
  <2>7. Evidence(s, d, g, i, o, n)
    <3>1. frozen[d][i] # "safe" => n <= 1
      BY <2>2, <2>3, BookIs, SMTT(30) DEF BookFits
    <3>2. n \in Nat /\ n >= effects[d][g][i]
      BY <2>3
    <3>3. o \in Marks /\ o \in Recorded
      BY DEF Marks, Recorded
    <3>4. entry[d][g].state # "terminal" /\ (frozen[d][i] # "safe" => entry[d][g].leases = 1)
      BY <2>4, <2>5
    <3> HIDE DEF n, s, d, g, i
    <3>5. QED BY <2>2, <3>1, <3>2, <3>3, <3>4 DEF Evidence
  <2>8. Onward(s, t, o)
    BY <2>4, OnwardIs DEF Recorded
  <2> HIDE DEF t
  <2>9. marks' \in [Rules -> [Gens -> Books(Marks)]] /\ Written(marks', marks, d, g, i, o)
    <3>1. o \in Marks
      BY DEF Marks
    <3>2. QED BY <2>1, <2>3, <3>1, PutIn
  <2>10. effects' \in [Rules -> [Gens -> Books(Nat)]] /\ Written(effects', effects, d, g, i, n)
    BY <1>1, <2>3, PutNot
  <2> HIDE DEF n
  <2>11. QED BY <1>1, <2>3, <2>6, <2>7, <2>8, <2>9, <2>10, ActKeeps
<1>4. CASE ~Inbox!Fenced(w)
  <2>1. UNCHANGED marks /\ Inbox!Leave(w)
    BY <1>4 DEF Inbox!Record
  <2>2. DrainsMove
    <3>1. DrainsFit
      BY Zenon DEF InboxInv
    <3>2. QED BY <1>2, <2>1, <3>1, LeaveMoves, Zenon
  <2>3. QED BY <1>1, <2>1, <2>2, QuietKeeps, EntriesRest, RunsRest, InboxRests, PlansRest DEF InboxInv
<1>5. QED BY <1>3, <1>4

LEMMA ReleaseKeeps == ASSUME InboxInv, NEW w \in Drains, Inbox!Release(w) PROVE InboxInv'
<1> DEFINE s == drain[w]   d == s.d   g == s.g   i == s.i
           t == [s EXCEPT !.at = "act", !.i = s.i + 1]
<1>1. /\ UNCHANGED <<clock, alive, frozen, entry, runs, outbox, inbox>>
      /\ s.at = "act" /\ i \in DOMAIN frozen[d] /\ i \notin s.seen /\ frozen[d][i] = "release"
  BY DEF Inbox!Release, Inbox!At, Inbox!Steps, Inbox!settled
<1>2. Busy(s) /\ On(s)
  BY <1>1 DEF Busy, On
<1>3. /\ d \in Rules /\ g \in Gens /\ i \in Nat /\ Works(w, s, d, g, i)
      /\ marks[d][g][i] \in Marks /\ effects[d][g][i] \in Nat
      /\ i \in DOMAIN marks[d][g] /\ i \in DOMAIN effects[d][g]
      /\ marks \in [Rules -> [Gens -> Books(Marks)]] /\ effects \in [Rules -> [Gens -> Books(Nat)]]
  BY <1>1, <1>2, WorksIs
<1>4. s \in Acting /\ s.fence = 1 /\ effects[d][g][i] = 0
  BY <1>1, <1>2, ActIs, SMTT(30)
<1>5. \A m \in Recorded : Onward(s, t, m)
  BY <1>4, OnwardIs DEF Recorded
<1>6. drain' = [drain EXCEPT ![w].i = @ + 1] => drain' = [drain EXCEPT ![w] = t]
  <2>1. t = [s EXCEPT !.i = s.i + 1]
    BY <1>1, <1>4 DEF Acting
  <2>2. QED BY <2>1 DEF InboxInv, DrainsFit
<1> HIDE DEF t
<1>7. ASSUME Inbox!Fenced(w), drain' = [drain EXCEPT ![w] = t], NEW m, NEW n,
             (m = "proved" /\ n = 1) \/ (m = "failed" /\ n = 0), marks' = Put(marks, d, g, i, m),
             (effects' = effects /\ n = 0) \/ effects' = Put(effects, d, g, i, n)
      PROVE  InboxInv'
  <2>1. entry[d][g].state = "leased" /\ entry[d][g].leases = 1
    BY <1>2, <1>4, <1>7, FencedIs
  <2>2. Evidence(s, d, g, i, m, n)
    <3>1. m \in Marks /\ m \in Recorded /\ n \in Nat /\ n >= effects[d][g][i] /\ n <= 1
      BY <1>4, <1>7 DEF Marks, Recorded
    <3>2. m = "proved" <=> n > 0
      BY <1>7
    <3> HIDE DEF s, d, g, i
    <3>3. QED BY <2>1, <3>1, <3>2 DEF Evidence
  <2>3. Onward(s, t, m)
    BY <1>5, <1>7 DEF Recorded
  <2>4. marks' \in [Rules -> [Gens -> Books(Marks)]] /\ Written(marks', marks, d, g, i, m)
    <3>1. m \in Marks
      BY <1>7 DEF Marks
    <3>2. /\ marks \in [Rules -> [Gens -> Books(Marks)]] /\ d \in Rules /\ g \in Gens
          /\ i \in DOMAIN marks[d][g] /\ marks' = Put(marks, d, g, i, m)
      BY <1>3, <1>7
    <3>3. QED BY <3>1, <3>2, PutIn
  <2>5. effects' \in [Rules -> [Gens -> Books(Nat)]] /\ Written(effects', effects, d, g, i, n)
    <3>1. CASE effects' = effects /\ n = effects[d][g][i]
      BY <1>3, <3>1, PutNot
    <3>2. CASE effects' = Put(effects, d, g, i, n)
      <4>1. n \in Nat
        BY <1>7
      <4>2. /\ effects \in [Rules -> [Gens -> Books(Nat)]] /\ d \in Rules /\ g \in Gens
            /\ i \in DOMAIN effects[d][g] /\ effects' = Put(effects, d, g, i, n)
        BY <1>3, <3>2
      <4>3. QED BY <4>1, <4>2, PutIn
    <3>3. QED BY <1>4, <1>7, <3>1, <3>2
  <2>6. QED BY <1>1, <1>3, <1>7, <2>2, <2>3, <2>4, <2>5, ActKeeps
<1>8. CASE /\ Inbox!Fenced(w) /\ drain' = [drain EXCEPT ![w].i = @ + 1]
           /\ effects' = [effects EXCEPT ![d][g][i] = @ + 1]
           /\ marks' = [marks EXCEPT ![d][g][i] = "proved"]
  <2>1. effects' = Put(effects, d, g, i, 1) /\ marks' = Put(marks, d, g, i, "proved")
    BY <1>3, <1>4, <1>8 DEF Put
  <2>2. QED BY <1>6, <1>7, <1>8, <2>1, Zenon
<1>9. CASE /\ Inbox!Fenced(w) /\ drain' = [drain EXCEPT ![w].i = @ + 1] /\ effects' = effects
           /\ marks' = [marks EXCEPT ![d][g][i] = "failed"]
  <2>1. marks' = Put(marks, d, g, i, "failed")
    BY <1>9 DEF Put
  <2>2. QED BY <1>6, <1>7, <1>9, <2>1, Zenon
<1>10. CASE Inbox!Leave(w) /\ UNCHANGED <<marks, effects>>
  <2>1. DrainsMove
    BY <1>2, <1>10, LeaveMoves DEF InboxInv
  <2>2. QED BY <1>1, <1>10, <2>1, QuietKeeps, EntriesRest, RunsRest, InboxRests, PlansRest DEF InboxInv
<1>11. QED BY <1>8, <1>9, <1>10, ZenonT(40) DEF Inbox!Release
(***************************************************************************)
(* Admission and succession                                                *)
(***************************************************************************)
(* A delivery nobody leased has no drain on it.                              *)
LEMMA NoDrainOn ==
  ASSUME InboxInv, NEW w \in Drains, On(drain[w])
  PROVE  LET e == entry[drain[w].d][drain[w].g] IN e.leases # 0 /\ e.state \notin {"none", "pending"}
<1> DEFINE s == drain[w]   e == entry[s.d][s.g]
<1>1. s.d \in Rules /\ s.g \in Gens /\ s.fence \in Nat /\ LeaseFits(s, e)
  BY DrainIs DEF DrainFits
<1>2. EntryFits(e) /\ e.leases \in Nat
  BY <1>1, EntryIs DEF InboxInv
<1> HIDE DEF s, e
<1>3. e.leases # 0 /\ e.state \notin {"none", "pending"}
  BY <1>1, <1>2 DEF LeaseFits, EntryFits
<1>4. QED BY <1>3 DEF s, e

Opened(old) == [old EXCEPT !.state = "pending"]
Superseded(old) == [old EXCEPT !.state = "terminal", !.end = "superseded"]

LEMMA OpenedIs ==
  ASSUME NEW old \in EntryRows, EntryFits(old), old.state = "none"
  PROVE  /\ EntryFits(Opened(old)) /\ Opened(old) \in EntryRows /\ Opened(old).state = "pending"
         /\ Opened(old).leases = 0 /\ Opened(old).end = "none" /\ old.leases = 0
BY DEF EntryFits, EntryRows, Opened

LEMMA AdmitKeeps == ASSUME InboxHypotheses, InboxInv, Inbox!Admit PROVE InboxInv'
<1>1. /\ UNCHANGED <<clock, alive, frozen, marks, effects, runs, outbox, drain>> /\ inbox = "none"
  BY DEF Inbox!Admit, Inbox!work
<1>2. PICK S \in SUBSET {d \in Rules : alive[d]} :
        /\ entry' = [d \in Rules |-> [entry[d] EXCEPT ![1].state = IF d \in S THEN "pending" ELSE "none"]]
        /\ inbox' = IF S = {} THEN "terminal" ELSE "pending"
  BY DEF Inbox!Admit
<1>3. 1 \in Gens
  BY DEF InboxHypotheses, Gens
<1>4. \A d \in Rules, g \in Gens :
        /\ entry[d][g] \in EntryRows /\ EntryFits(entry[d][g]) /\ entry[d][g].state = "none"
        /\ entry[d][g].leases = 0 /\ entry[d][g].end = "none"
  BY <1>1 DEF InboxInv, EntriesFit, EntryFits, InboxFits
<1>5. /\ DOMAIN entry' = Rules
      /\ \A d \in Rules : /\ DOMAIN entry'[d] = Gens
                          /\ \A g \in Gens : entry'[d][g] = IF d \in S /\ g = 1 THEN Opened(entry[d][g])
                                                            ELSE entry[d][g]
  <2>1. entry \in [Rules -> [Gens -> EntryRows]]
    BY DEF InboxInv, EntriesFit
  <2>2. \A d \in Rules : [entry[d][1] EXCEPT !.state = "none"] = entry[d][1]
    BY <1>3, <1>4 DEF EntryRows
  <2>3. ASSUME NEW d \in Rules
        PROVE  /\ DOMAIN entry'[d] = Gens
               /\ \A g \in Gens : entry'[d][g] = IF d \in S /\ g = 1 THEN Opened(entry[d][g])
                                                 ELSE entry[d][g]
    <3>1. entry'[d] = [entry[d] EXCEPT ![1].state = IF d \in S THEN "pending" ELSE "none"]
      BY <1>2
    <3>2. CASE d \in S
      BY <1>3, <2>1, <3>1, <3>2 DEF Opened
    <3>3. CASE d \notin S
      BY <1>3, <2>1, <2>2, <3>1, <3>3
    <3>4. QED BY <3>2, <3>3
  <2>4. QED BY <1>2, <2>3
<1>6. ASSUME NEW d \in Rules, NEW g \in Gens
      PROVE  /\ entry'[d][g] \in EntryRows /\ EntryFits(entry'[d][g])
             /\ entry'[d][g].leases = 0 /\ entry'[d][g].end = "none"
             /\ entry'[d][g].state = IF d \in S /\ g = 1 THEN "pending" ELSE "none"
  <2>1. CASE d \in S /\ g = 1
    BY <1>4, <1>5, <2>1, OpenedIs
  <2>2. CASE ~(d \in S /\ g = 1)
    BY <1>4, <1>5, <2>2
  <2>3. QED BY <2>1, <2>2
<1>7. EntriesFit'
  <2>1. entry' = [d \in Rules |-> entry'[d]] /\ \A d \in Rules : entry'[d] = [g \in Gens |-> entry'[d][g]]
    BY <1>2, <1>5 DEF InboxInv, EntriesFit
  <2>2. entry' \in [Rules -> [Gens -> EntryRows]]
    BY <1>6, <2>1
  <2>3. QED BY <1>6, <2>2 DEF EntriesFit
<1>8. BooksFit'
  <2>1. ASSUME NEW d \in Rules, NEW g \in Gens
        PROVE  BookFits(frozen[d], entry'[d][g], marks[d][g], effects[d][g])
    <3>1. BookFits(frozen[d], entry[d][g], marks[d][g], effects[d][g])
      BY BookIs
    <3>2. QED BY <1>4, <1>6, <3>1 DEF BookFits
  <2>2. QED BY <1>1, <2>1, Zenon DEF InboxInv, BooksFit
<1>9. ReleasesHappened'
  BY <1>1, Zenon DEF InboxInv, ReleasesHappened
<1>10. GensFit'
  <2>1. ASSUME NEW d \in Rules, NEW h \in Gens, NEW g \in Gens, h < g PROVE Succeeds(d, h, g)'
    <3>1. g # 1
      BY <2>1 DEF Gens, InboxHypotheses
    <3>2. QED BY <1>6, <3>1 DEF Succeeds
  <2>2. QED BY <2>1, Zenon DEF GensFit, Gens
<1>11. RunsFit'
  <2>1. ASSUME NEW d \in Rules, NEW g \in Gens PROVE RunFits(entry'[d][g], runs[d][g], outbox[d][g])
    <3>1. RunFits(entry[d][g], runs[d][g], outbox[d][g])
      BY DEF InboxInv, RunsFit
    <3>2. QED BY <1>4, <3>1 DEF RunFits
  <2>2. QED BY <1>1, <2>1, Zenon DEF InboxInv, RunsFit
<1>12. InboxFits'
  <2>1. CASE S = {}
    <3>1. \A d \in Rules, g \in Gens : IsClosed(entry'[d][g])
      BY <1>6, <2>1 DEF IsClosed
    <3>2. inbox' = "terminal"
      BY <1>2, <2>1
    <3>3. QED BY <3>1, <3>2 DEF InboxFits
  <2>2. CASE S # {}
    <3>1. PICK d \in Rules : d \in S
      BY <2>2
    <3>2. ~IsClosed(entry'[d][1])
      BY <1>3, <1>6, <3>1 DEF IsClosed
    <3>3. QED BY <1>2, <1>3, <2>2, <3>2 DEF InboxFits
  <2>3. QED BY <2>1, <2>2
<1>13. DrainsFit'
  <2>1. \A w \in Drains : ~On(drain[w])
    BY <1>4, DrainIs, NoDrainOn
  <2>2. \A w \in Drains : DrainFits(drain[w], entry, marks, effects)'
    BY <1>1, <2>1 DEF DrainFits
  <2>3. \A v, w \in Drains : v # w => Apart(drain[v], drain[w])'
    BY <1>1, <2>1 DEF Apart
  <2>4. (drain \in [Drains -> Shapes])'
    BY <1>1 DEF InboxInv, DrainsFit
  <2>5. QED BY <2>2, <2>3, <2>4, Zenon DEF DrainsFit
<1>14. QED BY <1>1, <1>7, <1>8, <1>9, <1>10, <1>11, <1>12, <1>13, PlansRest DEF InboxInv
(* The successor takes over from the delivery that waited for the operator.  *)
LEMMA SuccessionIs ==
  ASSUME InboxHypotheses, InboxInv, NEW d \in Rules, NEW g \in Gens, Inbox!Successor(d, g)
  PROVE  /\ UNCHANGED <<clock, alive, frozen, effects, inbox, runs, outbox, drain>>
         /\ g + 1 \in Gens /\ entry[d][g].state = "attention" /\ entry[d][g + 1].state = "none"
         /\ entry' \in [Rules -> [Gens -> EntryRows]] /\ marks' \in [Rules -> [Gens -> Books(Marks)]]
         /\ entry'[d][g] = Superseded(entry[d][g])
         /\ entry'[d][g + 1] = Opened(entry[d][g + 1])
         /\ DOMAIN marks'[d][g + 1] = DOMAIN frozen[d]
         /\ \A i \in DOMAIN frozen[d] :
              marks'[d][g + 1][i] = IF marks[d][g][i] = "proved" THEN "proved" ELSE "none"
         /\ \A x \in Rules, h \in Gens : x # d \/ h \notin {g, g + 1} => entry'[x][h] = entry[x][h]
         /\ \A x \in Rules, h \in Gens : x # d \/ h # g + 1 => marks'[x][h] = marks[x][h]
<1> DEFINE k == g + 1
           over == Superseded(entry[d][g])
           new == Opened(entry[d][k])
           book == [i \in DOMAIN frozen[d] |-> IF i \in Inbox!Proved(d, g) THEN "proved" ELSE "none"]
<1>1. /\ UNCHANGED <<clock, alive, frozen, effects, inbox, runs, outbox, drain>>
      /\ entry[d][g].state = "attention" /\ g < MaxGen /\ entry[d][k].state = "none"
      /\ entry' = [entry EXCEPT ![d][g].state = "terminal", ![d][g].end = "superseded",
                                ![d][k].state = "pending"]
      /\ marks' = [marks EXCEPT ![d][k] = book]
  BY DEF Inbox!Successor, Inbox!settled, Inbox!Carried, Inbox!Steps
<1>2. k \in Gens /\ k # g
  BY <1>1 DEF Gens, InboxHypotheses
<1>3. entry \in [Rules -> [Gens -> EntryRows]]
  BY DEF InboxInv, EntriesFit
<1>4. entry' = [[entry EXCEPT ![d][g] = over] EXCEPT ![d][k] = new]
  BY <1>1, <1>2, <1>3 DEF Opened, Superseded
<1>5. over \in EntryRows /\ new \in EntryRows
  <2>1. entry[d][g] \in EntryRows /\ entry[d][k] \in EntryRows
    BY <1>2, <1>3
  <2>2. QED BY <2>1 DEF EntryRows, Opened, Superseded
<1>6. DOMAIN frozen[d] \subseteq Nat /\ marks \in [Rules -> [Gens -> Books(Marks)]]
  BY BookIs DEF InboxInv, BooksFit
<1>7. /\ DOMAIN book = DOMAIN frozen[d]
      /\ \A i \in DOMAIN frozen[d] : book[i] = IF marks[d][g][i] = "proved" THEN "proved" ELSE "none"
      /\ book \in Books(Marks)
  <2>1. book \in [DOMAIN frozen[d] -> Marks]
    BY DEF Marks
  <2>2. book \in Books(Marks)
    BY <1>6, <2>1 DEF Books
  <2>3. QED BY <2>2 DEF Inbox!Proved, Inbox!Steps
<1> HIDE DEF over, new, book
<1>8. /\ entry' \in [Rules -> [Gens -> EntryRows]] /\ entry'[d][g] = over /\ entry'[d][k] = new
      /\ \A x \in Rules, h \in Gens : x # d \/ h \notin {g, k} => entry'[x][h] = entry[x][h]
  BY <1>2, <1>3, <1>4, <1>5
<1>9. /\ marks' \in [Rules -> [Gens -> Books(Marks)]] /\ marks'[d][k] = book
      /\ \A x \in Rules, h \in Gens : x # d \/ h # k => marks'[x][h] = marks[x][h]
  BY <1>1, <1>2, <1>6, <1>7
<1>10. QED BY <1>1, <1>2, <1>7, <1>8, <1>9 DEF over, new
LEMMA SupersededIs ==
  ASSUME NEW old \in EntryRows, EntryFits(old), old.state = "attention"
  PROVE  /\ EntryFits(Superseded(old)) /\ Superseded(old).state = "terminal"
         /\ Superseded(old).end = "superseded" /\ Superseded(old).leases = old.leases /\ old.leases \in Nat
BY DEF EntryFits, EntryRows, Superseded

LEMMA SuccessorIs ==
  ASSUME InboxInv, NEW d \in Rules, NEW h \in Gens, NEW g \in Gens, h < g, entry[d][g].state # "none"
  PROVE  /\ entry[d][h].state = "terminal"
         /\ \A i \in DOMAIN frozen[d] :
              marks[d][h][i] = "proved" => marks[d][g][i] = "proved" /\ effects[d][g][i] = 0
BY DEF InboxInv, GensFit, Succeeds

LEMMA SuccessorKeeps ==
  ASSUME InboxHypotheses, InboxInv, NEW d \in Rules, NEW g \in Gens, Inbox!Successor(d, g)
  PROVE  InboxInv'
<1> DEFINE k == g + 1
<1>1. /\ UNCHANGED <<clock, alive, frozen, effects, inbox, runs, outbox, drain>>
      /\ k \in Gens /\ entry[d][g].state = "attention" /\ entry[d][k].state = "none"
      /\ entry' \in [Rules -> [Gens -> EntryRows]] /\ marks' \in [Rules -> [Gens -> Books(Marks)]]
      /\ entry'[d][g] = Superseded(entry[d][g])
      /\ entry'[d][k] = Opened(entry[d][k])
      /\ DOMAIN marks'[d][k] = DOMAIN frozen[d]
      /\ \A i \in DOMAIN frozen[d] :
           marks'[d][k][i] = IF marks[d][g][i] = "proved" THEN "proved" ELSE "none"
      /\ \A x \in Rules, h \in Gens : x # d \/ h \notin {g, k} => entry'[x][h] = entry[x][h]
      /\ \A x \in Rules, h \in Gens : x # d \/ h # k => marks'[x][h] = marks[x][h]
  BY SuccessionIs
<1>2. \A x \in Rules, h \in Gens : entry[x][h] \in EntryRows /\ EntryFits(entry[x][h])
  BY EntryIs DEF InboxInv, EntriesFit
<1>3. /\ EntryFits(entry'[d][g]) /\ entry'[d][g].state = "terminal" /\ entry'[d][g].end = "superseded"
      /\ entry'[d][g].leases = entry[d][g].leases /\ entry[d][g].leases \in Nat
  BY <1>1, <1>2, SupersededIs
<1>4. /\ EntryFits(entry'[d][k]) /\ entry'[d][k].state = "pending" /\ entry'[d][k].end = "none"
      /\ entry'[d][k].leases = 0 /\ entry[d][k].leases = 0
  BY <1>1, <1>2, OpenedIs
<1>5. g \in Nat /\ MaxGen \in Nat /\ k # g /\ \A h \in Gens : h \in Nat /\ (h < k <=> h <= g)
  BY DEF Gens, InboxHypotheses
<1> HIDE DEF k
<1>6. \A x \in Rules, h \in Gens : (x = d /\ h \in {g, k}) \/ entry'[x][h] = entry[x][h]
  BY <1>1, Zenon
<1>7. EntriesFit'
  <2>1. \A x \in Rules, h \in Gens : EntryFits(entry'[x][h])
    BY <1>2, <1>3, <1>4, <1>6
  <2>2. QED BY <1>1, <2>1 DEF EntriesFit
<1>8. BooksFit'
  <2>1. ASSUME NEW x \in Rules, NEW h \in Gens PROVE BookFits(frozen[x], entry'[x][h], marks'[x][h], effects[x][h])
    <3>1. BookFits(frozen[x], entry[x][h], marks[x][h], effects[x][h])
      BY BookIs
    <3>2. CASE x = d /\ h = g
      <4>1. marks'[d][g] = marks[d][g]
        BY <1>1, <1>5
      <4>2. BookFits(frozen[d], entry'[d][g], marks[d][g], effects[d][g])
        BY <1>1, <1>3, <3>1, <3>2 DEF BookFits
      <4>3. QED BY <3>2, <4>1, <4>2
    <3>3. CASE x = d /\ h = k
      BY <1>1, <1>4, <3>1, <3>3 DEF BookFits
    <3>4. CASE x # d \/ h \notin {g, k}
      BY <1>1, <3>1, <3>4
    <3>5. QED BY <3>2, <3>3, <3>4
  <2>2. effects' \in [Rules -> [Gens -> Books(Nat)]]
    BY <1>1 DEF InboxInv, BooksFit
  <2>3. QED BY <1>1, <2>1, <2>2 DEF BooksFit
<1>9. ReleasesHappened'
  <2>1. ASSUME NEW x \in Rules, NEW h \in Gens, NEW i \in DOMAIN frozen[x], frozen[x][i] = "release",
               marks'[x][h][i] = "proved"
        PROVE  \E y \in Gens : effects[x][y][i] > 0
    <3>1. marks[x][h][i] = "proved" \/ (x = d /\ marks[d][g][i] = "proved")
      BY <1>1, <2>1
    <3>2. QED BY <2>1, <3>1 DEF InboxInv, ReleasesHappened
  <2>2. QED BY <1>1, <2>1 DEF ReleasesHappened
<1>10. \A h \in Gens : h > k => entry[d][h].state = "none"
  BY <1>1 DEF InboxInv, GensFit, Succeeds
<1>11. GensFit'
  <2>1. ASSUME NEW x \in Rules, NEW h \in Gens, NEW y \in Gens, h < y, entry'[x][y].state # "none"
        PROVE  /\ entry'[x][h].state = "terminal"
               /\ \A i \in DOMAIN frozen[x] :
                    marks'[x][h][i] = "proved" => marks'[x][y][i] = "proved" /\ effects[x][y][i] = 0
    <3>1. CASE x # d
      <4>1. /\ entry'[x][h] = entry[x][h] /\ marks'[x][h] = marks[x][h] /\ marks'[x][y] = marks[x][y]
            /\ entry[x][y].state # "none"
        BY <1>1, <2>1, <3>1
      <4>2. QED BY <2>1, <4>1, SuccessorIs
    <3>2. CASE x = d /\ y = k
      <4>1. h # k /\ marks'[d][h] = marks[d][h] /\ h <= g
        BY <1>1, <1>5, <2>1, <3>2
      <4>2. \A i \in DOMAIN frozen[d] : effects[d][k][i] = 0
        BY <1>1, <1>4, BookIs DEF BookFits
      <4>3. CASE h = g
        BY <1>1, <1>3, <3>2, <4>1, <4>2, <4>3
      <4>4. CASE h # g
        <5>1. /\ entry[d][h].state = "terminal"
              /\ \A i \in DOMAIN frozen[d] : marks[d][h][i] = "proved" => marks[d][g][i] = "proved"
          <6>1. h < g
            <7>1. h \in Nat /\ g \in Nat /\ h <= g /\ h # g
              BY <1>5, <4>1, <4>4
            <7>2. QED BY <7>1
          <6>2. entry[d][g].state # "none"
            BY <1>1
          <6>3. QED BY <6>1, <6>2, SuccessorIs
        <5>2. entry'[d][h] = entry[d][h]
          BY <1>1, <4>1, <4>4
        <5>3. QED BY <1>1, <3>2, <4>1, <4>2, <5>1, <5>2
      <4>5. QED BY <4>3, <4>4
    <3>3. CASE x = d /\ y # k /\ y <= g
      <4>1. h # k /\ h # g
        <5>1. h \in Nat /\ y \in Nat /\ g \in Nat /\ h < y /\ y <= g
          BY <1>5, <2>1, <3>3
        <5>2. h # g /\ h # g + 1
          BY <5>1
        <5>3. QED BY <5>2 DEF k
      <4>2. /\ entry'[d][h] = entry[d][h] /\ marks'[d][h] = marks[d][h] /\ marks'[d][y] = marks[d][y]
            /\ entry[d][y].state # "none"
        BY <1>1, <2>1, <3>3, <4>1
      <4>3. QED BY <2>1, <3>3, <4>2, SuccessorIs
    <3>4. CASE x = d /\ y > k
      <4>1. y \notin {g, k}
        BY <1>5, <3>4 DEF k
      <4>2. QED BY <1>1, <1>10, <2>1, <3>4, <4>1
    <3>5. y = k \/ y <= g \/ y > k
      BY <1>5 DEF k
    <3>6. QED BY <3>1, <3>2, <3>3, <3>4, <3>5
  <2>2. ASSUME NEW x \in Rules, NEW h \in Gens, NEW y \in Gens, h < y PROVE Succeeds(x, h, y)'
    BY <1>1, <2>1, <2>2 DEF Succeeds
  <2>3. QED BY <2>2, Zenon DEF GensFit, Gens
<1>12. RunsFit'
  <2>1. ASSUME NEW x \in Rules, NEW h \in Gens PROVE RunFits(entry'[x][h], runs[x][h], outbox[x][h])
    <3>1. RunFits(entry[x][h], runs[x][h], outbox[x][h])
      BY DEF InboxInv, RunsFit
    <3>2. CASE x = d /\ h \in {g, k}
      BY <1>1, <3>1, <3>2 DEF RunFits
    <3>3. QED BY <1>6, <3>1, <3>2
  <2>2. QED BY <1>1, <2>1, Zenon DEF InboxInv, RunsFit
<1>13. InboxFits'
  <2>1. ~IsClosed(entry[d][g]) /\ ~IsClosed(entry'[d][k])
    BY <1>1, <1>4 DEF IsClosed
  <2>2. inbox = "pending"
    BY <2>1 DEF InboxInv, InboxFits, IsClosed
  <2>3. QED BY <1>1, <2>1, <2>2 DEF InboxFits
<1>14. DrainsFit'
  <2>1. ASSUME NEW w \in Drains PROVE DrainFits(drain[w], entry', marks', effects)
    <3> DEFINE s == drain[w]
    <3>1. SUFFICES ASSUME On(s) PROVE DrainFits(s, entry', marks', effects)
      BY DEF DrainFits
    <3>2. /\ s.d \in Rules /\ s.g \in Gens /\ s.fence \in Nat
          /\ LeaseFits(s, entry[s.d][s.g]) /\ FirstFits(s, frozen[s.d], effects[s.d][s.g])
          /\ LaterFits(s, frozen[s.d], marks[s.d][s.g]) /\ PlaceFits(s, frozen[s.d], marks[s.d][s.g])
          /\ CarriedFits(s, frozen[s.d], marks[s.d])
      BY <3>1, DrainIs DEF DrainFits
    <3>3. entry[s.d][s.g].leases # 0 /\ entry[s.d][s.g].state # "none"
      BY <3>1, NoDrainOn
    <3> HIDE DEF s
    <3>4. ~(s.d = d /\ s.g = k) /\ ~(s.d = d /\ s.g > k)
      BY <1>1, <1>10, <3>2, <3>3
    <3>5. entry'[s.d][s.g].leases = entry[s.d][s.g].leases
      BY <1>3, <1>6, <3>2, <3>4
    <3>6. LeaseFits(s, entry'[s.d][s.g])
      BY <3>2, <3>5 DEF LeaseFits
    <3>7. marks'[s.d][s.g] = marks[s.d][s.g]
      BY <1>1, <3>2, <3>4
    <3>8. CarriedFits(s, frozen[s.d], marks'[s.d])
      <4>1. \A h \in Gens : h < s.g => marks'[s.d][h] = marks[s.d][h]
        BY <1>1, <3>2, <3>4 DEF Gens
      <4>2. QED BY <3>2, <4>1 DEF CarriedFits
    <3>9. QED BY <3>2, <3>6, <3>7, <3>8, SMTT(30) DEF DrainFits
  <2>2. \A w \in Drains : DrainFits(drain[w], entry, marks, effects)'
    BY <1>1, <2>1 DEF DrainFits
  <2>3. \A v, w \in Drains : v # w => Apart(drain[v], drain[w])'
    BY <1>1, Zenon DEF InboxInv, DrainsFit, Apart
  <2>4. (drain \in [Drains -> Shapes])'
    BY <1>1 DEF InboxInv, DrainsFit
  <2>5. QED BY <2>2, <2>3, <2>4, Zenon DEF DrainsFit
<1>15. QED BY <1>1, <1>7, <1>8, <1>9, <1>11, <1>12, <1>13, <1>14, PlansRest DEF InboxInv
(***************************************************************************)
(* The theorem                                                             *)
(***************************************************************************)
LEMMA InboxStart == ASSUME InboxHypotheses, Inbox!Init PROVE InboxInv
<1>1. /\ clock = 0 /\ inbox = "none" /\ frozen \in [Rules -> ActionLists]
      /\ alive = [d \in Rules |-> TRUE]
      /\ entry = [d \in Rules |-> [g \in Gens |-> Inbox!None]]
      /\ marks = [d \in Rules |-> [g \in Gens |-> [i \in DOMAIN frozen[d] |-> "none"]]]
      /\ effects = [d \in Rules |-> [g \in Gens |-> [i \in DOMAIN frozen[d] |-> 0]]]
      /\ runs = [d \in Rules |-> [g \in Gens |-> "none"]]
      /\ outbox = [d \in Rules |-> [g \in Gens |-> "none"]]
      /\ drain = [w \in Drains |-> Inbox!Idle]
  BY DEF Inbox!Init, Inbox!Gens, Gens
<1>2. PlansTyped
  BY <1>1 DEF PlansTyped, InboxHypotheses
<1>3. Inbox!None \in EntryRows /\ EntryFits(Inbox!None)
  BY DEF InboxHypotheses, Inbox!None, EntryRows, EntryFits
<1>4. EntriesFit
  BY <1>1, <1>3 DEF EntriesFit
<1>5. \A d \in Rules, g \in Gens :
        /\ entry[d][g].state = "none" /\ entry[d][g].end = "none"
        /\ DOMAIN marks[d][g] = DOMAIN frozen[d] /\ DOMAIN effects[d][g] = DOMAIN frozen[d]
        /\ \A i \in DOMAIN frozen[d] : marks[d][g][i] = "none" /\ effects[d][g][i] = 0
  BY <1>1 DEF Inbox!None
<1>6. BooksFit
  <2>1. \A d \in Rules : DOMAIN frozen[d] \in SUBSET Nat
    BY <1>2 DEF PlansTyped
  <2>2. \A d \in Rules : /\ [i \in DOMAIN frozen[d] |-> "none"] \in Books(Marks)
                         /\ [i \in DOMAIN frozen[d] |-> 0] \in Books(Nat)
    BY <2>1 DEF Books, Marks
  <2>3. marks \in [Rules -> [Gens -> Books(Marks)]] /\ effects \in [Rules -> [Gens -> Books(Nat)]]
    BY <1>1, <2>2
  <2>4. \A d \in Rules, g \in Gens : BookFits(frozen[d], entry[d][g], marks[d][g], effects[d][g])
    BY <1>5 DEF BookFits
  <2>5. QED BY <2>3, <2>4 DEF BooksFit
<1>7. ReleasesHappened /\ GensFit
  BY <1>5 DEF ReleasesHappened, GensFit, Succeeds
<1>8. RunsFit
  BY <1>1 DEF RunsFit, RunFits, RunStates, TellStates
<1>9. InboxFits
  BY <1>1, <1>5 DEF InboxFits
<1>10. DrainsFit
  BY <1>1, IdleIs DEF DrainsFit, DrainFits, Apart
<1>11. QED BY <1>2, <1>4, <1>6, <1>7, <1>8, <1>9, <1>10 DEF InboxInv

LEMMA WorkKeeps ==
  ASSUME InboxHypotheses, InboxInv, NEW w \in Drains, Inbox!Work(w) PROVE InboxInv'
<1>1. CASE Inbox!StartDrain(w)
  BY <1>1, StartDrainKeeps
<1>2. CASE Inbox!Begin(w)
  BY <1>2, BeginKeeps
<1>3. CASE Inbox!Skip(w)
  BY <1>3, SkipKeeps
<1>4. CASE Inbox!Fire(w)
  BY <1>4, FireKeeps
<1>5. CASE Inbox!Release(w)
  BY <1>5, ReleaseKeeps
<1>6. CASE Inbox!Finish(w)
  BY <1>6, FinishKeeps
<1>7. CASE Inbox!Flush(w)
  BY <1>7, FlushKeeps
<1>8. ASSUME NEW d \in Rules, NEW g \in Gens, Inbox!Visit(w, d, g) PROVE InboxInv'
  BY <1>8, VisitKeeps
<1>9. ASSUME NEW how \in {"skipped", "failed"}, Inbox!Decline(w, how) PROVE InboxInv'
  BY <1>9, DeclineKeeps
<1>10. ASSUME NEW o \in {"proved", "failed"}, Inbox!Record(w, o) PROVE InboxInv'
  BY <1>10, RecordKeeps
<1>11. QED BY <1>1, <1>2, <1>3, <1>4, <1>5, <1>6, <1>7, <1>8, <1>9, <1>10, Zenon
           DEF Inbox!Work, Inbox!Gens, Gens

LEMMA InboxStep ==
  ASSUME InboxHypotheses, InboxInv, [Inbox!Next]_(Inbox!vars) PROVE InboxInv'
<1>1. CASE UNCHANGED Inbox!vars
  <2>1. UNCHANGED <<clock, inbox, frozen, alive, entry, marks, effects, runs, outbox, drain>>
    BY <1>1 DEF Inbox!vars
  <2>2. QED BY <2>1, QuietKeeps, EntriesRest, RunsRest, InboxRests, PlansRest, DrainsRest DEF InboxInv
<1>2. CASE Inbox!Admit
  BY <1>2, AdmitKeeps
<1>3. CASE Inbox!Tick
  BY <1>3, TickKeeps
<1>4. ASSUME NEW d \in Rules, Inbox!DeleteRule(d) PROVE InboxInv'
  BY <1>4, DeleteKeeps
<1>5. ASSUME NEW d \in Rules, NEW g \in Gens, Inbox!Waive(d, g) PROVE InboxInv'
  BY <1>5, WaiveKeeps
<1>6. ASSUME NEW d \in Rules, NEW g \in Gens, Inbox!Successor(d, g) PROVE InboxInv'
  BY <1>6, SuccessorKeeps
<1>7. ASSUME NEW w \in Drains, Inbox!Work(w) PROVE InboxInv'
  BY <1>7, WorkKeeps
<1>8. ASSUME NEW w \in Drains, Inbox!Crash(w) PROVE InboxInv'
  BY <1>8, CrashKeeps
<1>9. QED BY <1>1, <1>2, <1>3, <1>4, <1>5, <1>6, <1>7, <1>8, Zenon DEF Inbox!Next, Inbox!Gens, Gens

(* Cardinality as the instance reads it.                                     *)
LEMMA FewIs == \A S : Inbox!Cardinality(S) = Cardinality(S)
BY Zenon DEF Inbox!Cardinality, Cardinality

(* A generation that has had an effect was started, and its predecessors had *)
(* not proved the action.                                                    *)
LEMMA EffectIs ==
  ASSUME InboxInv, NEW d \in Rules, NEW g \in Gens, NEW i \in DOMAIN frozen[d], effects[d][g][i] > 0
  PROVE  \A h \in Gens : h < g => marks[d][h][i] # "proved"
<1>1. BookFits(frozen[d], entry[d][g], marks[d][g], effects[d][g]) /\ effects[d][g][i] \in Nat
  BY BookIs
<1>2. entry[d][g].leases # 0
  BY <1>1 DEF BookFits
<1>3. entry[d][g].state # "none"
  BY <1>2, EntryIs DEF InboxInv, EntryFits
<1>4. effects[d][g][i] # 0
  BY <1>1
<1>5. QED BY <1>3, <1>4, SuccessorIs

LEMMA ReleasedOnce ==
  ASSUME InboxHypotheses, InboxInv, NEW d \in Rules, NEW i \in DOMAIN frozen[d], frozen[d][i] = "release"
  PROVE  /\ Cardinality({g \in Gens : effects[d][g][i] > 0}) <= 1
         /\ (\E g \in Gens : marks[d][g][i] = "proved") <=> (\E g \in Gens : effects[d][g][i] > 0)
<1> DEFINE S == {g \in Gens : effects[d][g][i] > 0}
<1>1. \A g \in Gens : effects[d][g][i] > 0 => marks[d][g][i] = "proved"
  BY BookIs DEF BookFits
<1>2. ASSUME NEW h \in S, NEW g \in S PROVE h = g
  <2>1. ~(h < g)
    BY <1>1, EffectIs
  <2>2. ~(g < h)
    BY <1>1, EffectIs
  <2>3. h \in Int /\ g \in Int
    BY DEF Gens
  <2>4. QED BY <2>1, <2>2, <2>3
<1>3. Cardinality(S) <= 1
  <2>1. CASE S = {}
    BY <2>1, FS_EmptySet
  <2>2. CASE S # {}
    <3>1. PICK g : g \in S
      BY <2>2
    <3>2. S = {g}
      BY <1>2, <3>1
    <3>3. Cardinality({g}) = 1
      BY FS_Singleton
    <3> HIDE DEF S
    <3>4. QED BY <3>2, <3>3
  <2>3. QED BY <2>1, <2>2
<1>4. QED BY <1>1, <1>3 DEF InboxInv, ReleasesHappened

LEMMA InboxInvAgrees == ASSUME InboxHypotheses, InboxInv PROVE Inbox!InboxAgrees
<1>1. Inbox!TypeOK
  <2>1. inbox \in {"none", "pending", "terminal"} /\ clock \in 0 .. MaxClock
    BY DEF InboxInv, InboxFits, PlansTyped
  <2>2. ASSUME NEW d \in Rules, NEW g \in Gens
        PROVE  /\ entry[d][g].state \in {"none", "pending", "leased", "attention", "terminal", "waived"}
               /\ entry[d][g].fence \in 0 .. MaxLeases /\ entry[d][g].until \in 0 .. MaxClock
               /\ (entry[d][g].state = "leased") <=> (entry[d][g].fence # 0)
    <3>1. EntryFits(entry[d][g])
      BY EntryIs DEF InboxInv
    <3>2. QED BY <3>1 DEF EntryFits, EntryRows, InboxHypotheses
  <2>3. ASSUME NEW d \in Rules, NEW g \in Gens
        PROVE  /\ runs[d][g] \in RunStates /\ outbox[d][g] \in TellStates
               /\ \A i \in DOMAIN frozen[d] : marks[d][g][i] \in Marks /\ effects[d][g][i] \in Nat
    BY BookIs DEF InboxInv, RunsFit
  <2>4. QED BY <2>1, <2>2, <2>3 DEF Inbox!TypeOK, Inbox!Gens, Gens, Inbox!Steps, Marks, RunStates, TellStates
<1>2. Inbox!UnsafeFiresOnce
  BY BookIs DEF Inbox!UnsafeFiresOnce, Inbox!Gens, Gens, Inbox!Steps, BookFits
<1>3. Inbox!ReleaseIsProved
  BY ReleasedOnce, FewIs, Zenon DEF Inbox!ReleaseIsProved, Inbox!Gens, Gens, Inbox!Steps
<1>4. Inbox!ProvedIsCarried
  <2>1. ASSUME NEW d \in Rules, NEW g \in Gens, NEW i \in DOMAIN frozen[d], effects[d][g][i] > 0,
               NEW h \in 1 .. (g - 1)
        PROVE  marks[d][h][i] # "proved"
    <3>1. h \in Gens /\ h < g
      BY DEF Gens, InboxHypotheses
    <3>2. QED BY <2>1, <3>1, EffectIs
  <2>2. QED BY <2>1 DEF Inbox!ProvedIsCarried, Inbox!Gens, Gens, Inbox!Steps
<1>5. Inbox!InboxTellsAll
  BY DEF InboxInv, InboxFits, IsClosed, Inbox!InboxTellsAll, Inbox!Gens, Gens
<1>6. Inbox!ExecutedIsComplete
  <2>1. ASSUME NEW d \in Rules, NEW g \in Gens
        PROVE  /\ entry[d][g].end = "executed" => \A i \in DOMAIN frozen[d] : marks[d][g][i] \in Recorded
               /\ runs[d][g] = "ended" => outbox[d][g] # "none" /\ entry[d][g].state = "terminal"
    BY BookIs DEF BookFits, InboxInv, RunsFit, RunFits
  <2>2. QED BY <2>1 DEF Inbox!ExecutedIsComplete, Inbox!Gens, Gens, Inbox!Steps, Recorded
<1>7. QED BY <1>1, <1>2, <1>3, <1>4, <1>5, <1>6 DEF Inbox!InboxAgrees

(* However many drains work on the deliveries of a Release and crash, within *)
(* a generation an action that may not be repeated starts at most once; a    *)
(* release happens at most once over all generations, exactly when a         *)
(* checkpoint proves it; a successor never starts what was proved; the entry *)
(* is terminal exactly when no delivery is open; and what is reported        *)
(* executed has an outcome for every action.                                 *)
THEOREM InboxTheorem == ASSUME InboxHypotheses PROVE Inbox!Spec => []Inbox!InboxAgrees
<1>1. Inbox!Init => InboxInv
  BY InboxStart
<1>2. InboxInv /\ [Inbox!Next]_(Inbox!vars) => InboxInv'
  BY InboxStep
<1>3. InboxInv => Inbox!InboxAgrees
  BY InboxInvAgrees
<1>4. QED BY <1>1, <1>2, <1>3, PTL DEF Inbox!Spec
=============================================================================
