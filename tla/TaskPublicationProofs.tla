------------------------- MODULE TaskPublicationProofs -------------------------
(* Theorems about TaskPublication, for every set of keys, requests, workers   *)
(* and targets: a key has one Task at most, nobody holds it before everybody  *)
(* was told of it, and its reservation ends with its attempt.  Then theorems  *)
(* about the occurrences of a schedule, another publisher of Tasks.           *)
EXTENDS TaskPublication, FiniteSetTheorems, TLAPS

AttemptStates == {"absent", "pending", "observing"} \cup Terminal \cup PostObservation
AttemptRows == [state : AttemptStates, owner : Workers \cup {"none", "ghost"}, live : BOOLEAN]
TaskRows == [born : Nat, state : {"none", "open", "held", "deleted"},
             holder : Others \cup {"requested", "none"}]
TargetRows == [Kinds -> {"none", "pending", "accepted", "attention"}]
ReservationStates == {"none", "active", "consumed", "released", "expired"}
RequestStates == [at : {"idle"}] \cup [at : {"reserved", "prepared", "governed"}, key : Keys]

(* What holds of the rows of one key.  A Task exists from its publication on, *)
(* is held only once its creation is observed, and it is observed only when   *)
(* every target accepted it.                                                  *)
Fits(a, row, t, targets, res) ==
  /\ row \in AttemptRows /\ t \in TaskRows /\ targets \in TargetRows /\ res \in ReservationStates
  /\ t.born = IF row.state \in Published THEN 1 ELSE 0
  /\ t.state = "held" <=> t.holder # "none"
  /\ t.state = "held" => row.state \in PostObservation
  /\ row.state \in PostObservation => \A k \in Kinds : targets[k] = "accepted"
  /\ res = "active" => t.holder \in {"none", "requested"}
  /\ a \in Targeted => /\ res = "active" <=> row.state \in {"observing", "assigning"}
                       /\ res = "consumed" <=> row.state = "created"
                       /\ res \in {"released", "expired"} <=> row.state = "unassigned"

Rows ==
  /\ attempt \in [Keys -> AttemptRows] /\ task \in [Keys -> TaskRows]
  /\ target \in [Keys -> TargetRows] /\ reservation \in [Keys -> ReservationStates]
  /\ \A a \in Keys : Fits(a, attempt[a], task[a], target[a], reservation[a])

(* A worker that is about to bind an assignment and still owns the attempt    *)
(* finds it as it was when it took the lease; one that does not, finds it     *)
(* observed at least.                                                         *)
Binds(w) ==
  LET a == Head(worker[w].queue) IN
  worker[w].at = "bind" /\ a \in Keys =>
    /\ attempt[a].state \in PostObservation
    /\ attempt[a].owner = w => attempt[a].state = "assigning" /\ reservation[a] = "active"

Actors ==
  /\ request \in [Requests -> RequestStates]
  /\ worker = [w \in Workers |-> worker[w]]
  /\ \A w \in Workers : Binds(w)

Ordered ==
  /\ order \in Seq(Keys) /\ IsFiniteSet(Members(order))
  /\ Members(order) = {a \in Keys : attempt[a].state # "absent"}
  /\ Len(order) = Cardinality(Members(order))

PublicationInv == Rows /\ Actors /\ Ordered
-----------------------------------------------------------------------------
(* What a step by v may do to the row of an attempt: it goes forward, and a   *)
(* worker that owns an assignment is not disturbed.                           *)
RowMoves(v, a, row, res) ==
  /\ attempt[a].state \in PostObservation => row.state \in PostObservation
  /\ \A w \in Workers \ {v} :
       row.owner = w /\ attempt[a].state \in PostObservation =>
         /\ attempt[a].owner = w
         /\ attempt[a].state = "assigning" => row.state = "assigning" /\ res = reservation[a]

Undisturbed(v) == \A a \in Keys : RowMoves(v, a, attempt'[a], reservation'[a])

Moves(v) ==
  /\ order' = order /\ Undisturbed(v)
  /\ \A a \in Keys : attempt[a].state = "absent" <=> attempt'[a].state = "absent"

Touches(a, row, t, targets, res) ==
  /\ attempt' = [attempt EXCEPT ![a] = row] /\ task' = [task EXCEPT ![a] = t]
  /\ target' = [target EXCEPT ![a] = targets] /\ reservation' = [reservation EXCEPT ![a] = res]

LEMMA RowsAre ==
  ASSUME Rows, NEW a \in Keys
  PROVE  /\ Fits(a, attempt[a], task[a], target[a], reservation[a])
         /\ attempt[a] \in AttemptRows /\ task[a] \in TaskRows /\ target[a] \in TargetRows
         /\ reservation[a] \in ReservationStates
BY DEF Rows

LEMMA TouchFits ==
  ASSUME Rows, NEW v, NEW a \in Keys, NEW row, NEW t, NEW targets, NEW res,
         Touches(a, row, t, targets, res), Fits(a, row, t, targets, res)
  PROVE  Rows'
<1>1. row \in AttemptRows /\ t \in TaskRows /\ targets \in TargetRows /\ res \in ReservationStates
  BY DEF Fits
<1>2. /\ attempt' \in [Keys -> AttemptRows] /\ task' \in [Keys -> TaskRows]
      /\ target' \in [Keys -> TargetRows] /\ reservation' \in [Keys -> ReservationStates]
  BY <1>1, Zenon DEF Rows, Touches
<1>3. ASSUME NEW b \in Keys
      PROVE  Fits(b, attempt'[b], task'[b], target'[b], reservation'[b])
  BY Zenon DEF Rows, Touches
<1>4. QED
  BY <1>2, <1>3, Zenon DEF Rows

LEMMA TouchMoves ==
  ASSUME Rows, NEW v, NEW a \in Keys, NEW row, NEW t, NEW targets, NEW res,
         Touches(a, row, t, targets, res), RowMoves(v, a, row, res), order' = order,
         attempt[a].state = "absent" <=> row.state = "absent"
  PROVE  Moves(v)
<1>1. ASSUME NEW b \in Keys
      PROVE  RowMoves(v, b, attempt'[b], reservation'[b])
  <2>1. CASE b = a
    <3>1. attempt'[b] = row /\ reservation'[b] = res
      BY <2>1 DEF Touches, Rows
    <3>2. QED
      BY <2>1, <3>1
  <2>2. CASE b # a
    <3>1. attempt'[b] = attempt[b] /\ reservation'[b] = reservation[b]
      BY <2>2 DEF Touches, Rows
    <3>2. QED
      BY <3>1 DEF RowMoves
  <2>3. QED
    BY <2>1, <2>2
<1>2. \A b \in Keys : attempt[b].state = "absent" <=> attempt'[b].state = "absent"
  BY DEF Touches, Rows
<1>3. QED
  BY <1>1, <1>2 DEF Moves, Undisturbed

LEMMA RowsRest ==
  ASSUME Rows, NEW v, UNCHANGED <<attempt, task, target, reservation, order>>
  PROVE  Rows' /\ Moves(v)
<1>1. Rows'
  BY Zenon DEF Rows
<1>2. Moves(v)
  BY DEF Moves, Undisturbed, RowMoves
<1>3. QED
  BY <1>1, <1>2

(* The order and the workers that bind come through every step that moves the *)
(* attempts forward.                                                          *)
LEMMA OrderRests ==
  ASSUME Ordered, NEW v, Moves(v)
  PROVE  Ordered'
<1>1. \A a \in Keys : attempt[a].state = "absent" <=> attempt'[a].state = "absent"
  BY DEF Moves
<1>2. Members(order)' = Members(order) /\ order' = order
  BY DEF Moves, Members
<1>3. {a \in Keys : attempt[a].state # "absent"} = {a \in Keys : attempt'[a].state # "absent"}
  BY <1>1
<1>4. QED
  BY <1>2, <1>3 DEF Ordered

LEMMA BindsRest ==
  ASSUME Actors, NEW v, Undisturbed(v), NEW w \in Workers, w # v, worker'[w] = worker[w]
  PROVE  Binds(w)'
<1>1. Binds(w)
  BY DEF Actors
<1> DEFINE a == Head(worker[w].queue)
<1>2. SUFFICES ASSUME worker[w].at = "bind", a \in Keys
               PROVE  /\ attempt'[a].state \in PostObservation
                      /\ attempt'[a].owner = w => attempt'[a].state = "assigning" /\ reservation'[a] = "active"
  BY DEF Binds
<1>3. /\ attempt[a].state \in PostObservation
      /\ attempt[a].owner = w => attempt[a].state = "assigning" /\ reservation[a] = "active"
  BY <1>1, <1>2 DEF Binds
<1>4. RowMoves(v, a, attempt'[a], reservation'[a])
  BY <1>2 DEF Undisturbed
<1>5. QED
  BY <1>3, <1>4 DEF RowMoves

(* The row of an attempt after a terminal or checkpoint move, and after the   *)
(* release of a lease.                                                        *)
MovedRow(row, to) == IF Forward(row.state, to) THEN [row EXCEPT !.state = to] ELSE row
UnleasedRow(row, w) ==
  IF row.owner = w THEN [row EXCEPT !.owner = "none", !.live = FALSE] ELSE row

LEMMA MovedIs ==
  ASSUME Rows, NEW a \in Keys, NEW to
  PROVE  Moved(a, to) = [attempt EXCEPT ![a] = MovedRow(attempt[a], to)]
BY DEF Moved, MovedRow, Rows

LEMMA UnleasedIs ==
  ASSUME Rows, NEW a \in Keys, NEW row, NEW w
  PROVE  Unleased([attempt EXCEPT ![a] = row], a, w) = [attempt EXCEPT ![a] = UnleasedRow(row, w)]
BY DEF Unleased, UnleasedRow, Rows

LEMMA MovedRowIs ==
  ASSUME NEW row \in AttemptRows, NEW to \in AttemptStates
  PROVE  /\ MovedRow(row, to) \in AttemptRows
         /\ MovedRow(row, to).state = IF Forward(row.state, to) THEN to ELSE row.state
         /\ MovedRow(row, to).owner = row.owner
BY DEF MovedRow, AttemptRows

LEMMA UnleasedRowIs ==
  ASSUME NEW row \in AttemptRows, NEW w
  PROVE  /\ UnleasedRow(row, w) \in AttemptRows /\ UnleasedRow(row, w).state = row.state
         /\ UnleasedRow(row, w).owner = IF row.owner = w THEN "none" ELSE row.owner
BY DEF UnleasedRow, AttemptRows
-----------------------------------------------------------------------------
LEMMA AppendMembers ==
  ASSUME NEW S, NEW s \in Seq(S), NEW x \in S
  PROVE  /\ Append(s, x) \in Seq(S) /\ Len(Append(s, x)) = Len(s) + 1
         /\ Members(Append(s, x)) = Members(s) \cup {x}
<1>1. /\ Append(s, x) \in Seq(S) /\ Len(Append(s, x)) = Len(s) + 1
      /\ DOMAIN Append(s, x) = 1..(Len(s) + 1) /\ DOMAIN s = 1..Len(s) /\ Len(s) \in Nat
      /\ \A i \in 1..Len(s) : Append(s, x)[i] = s[i]
      /\ Append(s, x)[Len(s) + 1] = x
  OBVIOUS
<1> DEFINE t == Append(s, x)
<1> HIDE DEF t
<1>2. Members(t) = Members(s) \cup {x}
  <2>1. \A i \in 1..(Len(s) + 1) : i \in 1..Len(s) \/ i = Len(s) + 1
    BY <1>1
  <2>2. Members(t) \subseteq Members(s) \cup {x}
    BY <1>1, <2>1 DEF Members, t
  <2>3. 1..Len(s) \subseteq 1..(Len(s) + 1) /\ Len(s) + 1 \in 1..(Len(s) + 1)
    BY <1>1
  <2>4. Members(s) \cup {x} \subseteq Members(t)
    BY <1>1, <2>3 DEF Members, t
  <2>5. QED
    BY <2>2, <2>4
<1>3. QED
  BY <1>1, <1>2 DEF t

LEMMA ReserveFits ==
  ASSUME PublicationInv, NEW r \in Requests, NEW a \in Keys, Reserve(r, a)
  PROVE  /\ Rows' /\ Ordered' /\ request' \in [Requests -> RequestStates]
         /\ Undisturbed("none")
<1> USE DEF PublicationInv
<1> DEFINE row == [attempt[a] EXCEPT !.state = "pending"]
<1>1. /\ attempt[a].state \in {"absent", "pending"} /\ attempt[a] \in AttemptRows
      /\ Fits(a, attempt[a], task[a], target[a], reservation[a])
  BY RowsAre DEF Reserve
<1>2. row \in AttemptRows /\ row.state = "pending" /\ row.owner = attempt[a].owner
  BY <1>1 DEF AttemptRows, AttemptStates
<1>3. Touches(a, row, task[a], target[a], reservation[a])
  BY DEF Reserve, Touches, Rows
<1> HIDE DEF row
<1>4. Fits(a, row, task[a], target[a], reservation[a])
  BY <1>1, <1>2 DEF Fits, Published, PostObservation
<1>5. Rows'
  BY <1>3, <1>4, TouchFits
<1>6. \A b \in Keys : b # a => attempt'[b] = attempt[b] /\ reservation'[b] = reservation[b]
  BY <1>3 DEF Touches, Rows
<1>7. attempt'[a] = row
  BY <1>3 DEF Touches, Rows
<1>8. \A b \in Keys : attempt[b].state \in PostObservation =>
         attempt'[b] = attempt[b] /\ reservation'[b] = reservation[b]
  BY <1>1, <1>6 DEF PostObservation
<1>9. request' \in [Requests -> RequestStates]
  <2>1. [at |-> "reserved", key |-> a] \in RequestStates
    BY DEF RequestStates
  <2>2. QED
    BY <2>1 DEF Reserve, Actors
<1>10. ASSUME attempt[a].state = "absent"
       PROVE  Ordered'
  <2>1. order' = Append(order, a) /\ order \in Seq(Keys) /\ a \notin Members(order)
    BY <1>10 DEF Reserve, Ordered
  <2>2. order' \in Seq(Keys) /\ Len(order') = Len(order) + 1 /\ Members(order)' = Members(order) \cup {a}
    BY <2>1, AppendMembers DEF Members
  <2>3. /\ IsFiniteSet(Members(order) \cup {a})
        /\ Cardinality(Members(order) \cup {a}) = Cardinality(Members(order)) + 1
    BY <2>1, FS_AddElement DEF Ordered
  <2>4. Members(order) \cup {a} = {b \in Keys : attempt'[b].state # "absent"}
    BY <1>2, <1>6, <1>7 DEF Ordered
  <2>5. Len(order') = Cardinality(Members(order) \cup {a})
    BY <2>2, <2>3 DEF Ordered
  <2>6. QED
    BY <2>2, <2>3, <2>4, <2>5, Zenon DEF Ordered
<1>11. ASSUME attempt[a].state = "pending"
       PROVE  Ordered'
  <2>1. order' = order
    BY <1>11 DEF Reserve
  <2>2. \A b \in Keys : attempt'[b].state = "absent" <=> attempt[b].state = "absent"
    BY <1>2, <1>6, <1>7, <1>11
  <2>3. Members(order)' = Members(order)
    BY <2>1 DEF Members
  <2>4. {b \in Keys : attempt'[b].state # "absent"} = {b \in Keys : attempt[b].state # "absent"}
    BY <2>2
  <2>5. Ordered
    OBVIOUS
  <2>6. QED
    BY <2>1, <2>3, <2>4, <2>5, Zenon DEF Ordered
<1>12. Undisturbed("none")
  BY <1>8 DEF Undisturbed, RowMoves, PostObservation
<1>13. QED
  BY <1>1, <1>5, <1>9, <1>10, <1>11, <1>12 DEF Reserve

LEMMA KeyOfRequest ==
  ASSUME Actors, NEW r \in Requests, request[r].at # "idle"
  PROVE  request[r].key \in Keys
BY DEF Actors, RequestStates

(* A refused proposal ends the attempt, unless another request of its key has *)
(* published or refused it meanwhile.                                         *)
LEMMA RejectFits ==
  ASSUME Rows, NEW a \in Keys, attempt' = Moved(a, "rejected"),
         UNCHANGED <<task, target, reservation, order>>
  PROVE  Rows' /\ Moves("none")
<1> DEFINE row == MovedRow(attempt[a], "rejected")
<1>1. /\ attempt[a] \in AttemptRows /\ Fits(a, attempt[a], task[a], target[a], reservation[a])
  BY RowsAre
<1>2. /\ row \in AttemptRows /\ row.owner = attempt[a].owner
      /\ row.state = IF attempt[a].state = "pending" THEN "rejected" ELSE attempt[a].state
  BY <1>1, MovedRowIs DEF Forward, AttemptStates, Terminal
<1>3. Touches(a, row, task[a], target[a], reservation[a])
  BY MovedIs DEF Touches, Rows
<1> HIDE DEF row
<1>4. Fits(a, row, task[a], target[a], reservation[a])
  BY <1>1, <1>2 DEF Fits, Published, PostObservation
<1>5. RowMoves("none", a, row, reservation[a])
  BY <1>2 DEF RowMoves, PostObservation
<1>6. attempt[a].state = "absent" <=> row.state = "absent"
  BY <1>2
<1>7. QED
  BY <1>3, <1>4, <1>5, <1>6, TouchFits, TouchMoves, Zenon

LEMMA PublishFits ==
  ASSUME Rows, NEW r \in Requests, NEW a \in Keys, request[r].key = a, Publish(r)
  PROVE  Rows' /\ Moves("none")
<1>1. CASE attempt[a].state # "pending"
  BY <1>1, RowsRest DEF Publish
<1>2. CASE attempt[a].state = "pending"
  <2> DEFINE row == MovedRow(attempt[a], "observing")
             t == [born |-> task[a].born + 1, state |-> "open", holder |-> "none"]
             targets == [k \in Kinds |-> "pending"]
             res == IF a \in Targeted THEN "active" ELSE "none"
  <2>1. /\ attempt[a] \in AttemptRows /\ Fits(a, attempt[a], task[a], target[a], reservation[a])
    BY RowsAre
  <2>2. /\ row \in AttemptRows /\ row.owner = attempt[a].owner /\ row.state = "observing"
    BY <1>2, <2>1, MovedRowIs DEF Forward, AttemptStates
  <2>3. t.born = 1 /\ t \in TaskRows /\ t.state = "open" /\ t.holder = "none"
    BY <1>2, <2>1 DEF Fits, Published, PostObservation, TaskRows
  <2>4. targets \in TargetRows /\ res \in ReservationStates
    BY DEF TargetRows, ReservationStates
  <2>5. res \in {"active", "none"} /\ (a \in Targeted => res = "active")
    OBVIOUS
  <2>6. Touches(a, row, t, targets, res)
    <3>1. /\ attempt' = Moved(a, "observing")
          /\ task' = [task EXCEPT ![a] = [born |-> task[a].born + 1, state |-> "open", holder |-> "none"]]
          /\ target' = [target EXCEPT ![a] = targets]
          /\ reservation' = [reservation EXCEPT ![a] = res]
      BY <1>2 DEF Publish, Rows
    <3>2. QED
      BY <3>1, MovedIs DEF Touches
  <2> HIDE DEF row, t, targets, res
  <2>7. Fits(a, row, t, targets, res)
    BY <2>2, <2>3, <2>4, <2>5 DEF Fits, Published, PostObservation
  <2>8. RowMoves("none", a, row, res) /\ order' = order
    BY <1>2 DEF RowMoves, PostObservation, Publish
  <2>9. QED
    BY <1>2, <2>2, <2>6, <2>7, <2>8, TouchFits, TouchMoves
<1>3. QED
  BY <1>1, <1>2

LEMMA TaskFits ==
  ASSUME Rows, NEW a \in Keys, NEW t \in TaskRows, t.born = task[a].born,
         t.state = "held" <=> t.holder # "none",
         t.state = "held" => attempt[a].state \in PostObservation,
         reservation[a] = "active" => t.holder \in {"none", "requested"},
         task' = [task EXCEPT ![a] = t], UNCHANGED <<attempt, target, reservation, order>>
  PROVE  Rows' /\ Moves("none")
<1>1. Fits(a, attempt[a], task[a], target[a], reservation[a])
  BY RowsAre
<1>2. Fits(a, attempt[a], t, target[a], reservation[a])
  BY <1>1 DEF Fits
<1>3. Touches(a, attempt[a], t, target[a], reservation[a])
  BY DEF Touches, Rows
<1>4. RowMoves("none", a, attempt[a], reservation[a])
  BY DEF RowMoves
<1>5. QED
  BY <1>2, <1>3, <1>4, TouchFits, TouchMoves, Zenon

LEMMA ClaimFits ==
  ASSUME Rows, NEW a \in Keys, NEW who \in Others \cup {"requested"}, Claim(a, who)
  PROVE  Rows' /\ Moves("none")
<1> DEFINE t == [task[a] EXCEPT !.state = "held", !.holder = who]
<1>1. task[a] \in TaskRows
  BY RowsAre
<1>2. t \in TaskRows /\ t.born = task[a].born /\ t.state = "held" /\ t.holder = who
  BY <1>1 DEF TaskRows
<1>3. task' = [task EXCEPT ![a] = t] /\ UNCHANGED <<attempt, target, reservation, order>>
  BY DEF Claim, Rows
<1>4. who # "none" /\ attempt[a].state \in PostObservation
  BY KernelAssumption DEF Claim, Claimable, Observed
<1>5. reservation[a] = "active" => who = "requested"
  BY DEF Claim, Claimable, ReservedForOther
<1> HIDE DEF t
<1>6. QED
  BY <1>2, <1>3, <1>4, <1>5, TaskFits

LEMMA UnclaimOrDeleteFits ==
  ASSUME Rows, NEW a \in Keys, Unclaim(a) \/ Delete(a)
  PROVE  Rows' /\ Moves("none")
<1>1. PICK s \in {"open", "deleted"} : task' = [task EXCEPT ![a].state = s, ![a].holder = "none"]
  BY Zenon DEF Unclaim, Delete
<1> DEFINE t == [task[a] EXCEPT !.state = s, !.holder = "none"]
<1>2. task[a] \in TaskRows
  BY RowsAre
<1>3. t \in TaskRows /\ t.born = task[a].born /\ t.state # "held" /\ t.holder = "none"
  BY <1>2 DEF TaskRows
<1>4. task' = [task EXCEPT ![a] = t]
  BY <1>1 DEF Rows
<1>5. UNCHANGED <<attempt, target, reservation, order>>
  BY DEF Unclaim, Delete
<1> HIDE DEF t
<1>6. QED
  BY <1>3, <1>4, <1>5, TaskFits

LEMMA ExpireFits ==
  ASSUME Rows, NEW a \in Keys, Expire(a)
  PROVE  Rows' /\ Moves("none")
<1> DEFINE row == [attempt[a] EXCEPT !.live = FALSE]
<1>1. /\ attempt[a] \in AttemptRows /\ Fits(a, attempt[a], task[a], target[a], reservation[a])
  BY RowsAre
<1>2. row \in AttemptRows /\ row.state = attempt[a].state /\ row.owner = attempt[a].owner
  BY <1>1 DEF AttemptRows
<1>3. Touches(a, row, task[a], target[a], reservation[a]) /\ order' = order
  BY DEF Expire, Touches, Rows
<1> HIDE DEF row
<1>4. Fits(a, row, task[a], target[a], reservation[a])
  BY <1>1, <1>2 DEF Fits
<1>5. RowMoves("none", a, row, reservation[a])
  BY <1>2 DEF RowMoves
<1>6. QED
  BY <1>2, <1>3, <1>4, <1>5, TouchFits, TouchMoves
-----------------------------------------------------------------------------
LEMMA LeasedFits ==
  ASSUME Rows, NEW a, NEW w \in Workers, attempt' = Leased(a, w),
         UNCHANGED <<task, target, reservation, order>>
  PROVE  Rows' /\ Moves(w)
<1>1. CASE a \notin Keys
  <2>1. attempt' = attempt
    BY <1>1 DEF Leased, Rows
  <2>2. QED
    BY <2>1, RowsRest
<1>2. CASE a \in Keys
  <2> DEFINE row == [attempt[a] EXCEPT !.owner = w, !.live = TRUE]
  <2>1. /\ attempt[a] \in AttemptRows /\ Fits(a, attempt[a], task[a], target[a], reservation[a])
    BY <1>2, RowsAre
  <2>2. row \in AttemptRows /\ row.state = attempt[a].state /\ row.owner = w
    BY <2>1 DEF AttemptRows
  <2>3. Touches(a, row, task[a], target[a], reservation[a])
    <3>1. attempt' = [attempt EXCEPT ![a] = row]
      BY <1>2 DEF Leased, Rows
    <3>2. QED
      BY <1>2, <3>1 DEF Touches, Rows
  <2> HIDE DEF row
  <2>4. Fits(a, row, task[a], target[a], reservation[a])
    BY <2>1, <2>2 DEF Fits
  <2>5. RowMoves(w, a, row, reservation[a])
    BY <2>2 DEF RowMoves
  <2>6. QED
    BY <1>2, <2>2, <2>3, <2>4, <2>5, TouchFits, TouchMoves
<1>3. QED
  BY <1>1, <1>2

(* An answer adds an acceptance and takes none away.                          *)
LEMMA AnswerFits ==
  ASSUME Rows, NEW w \in Workers, NEW outcome \in {"accepted", "attention"}, Answer(w, outcome)
  PROVE  Rows' /\ Moves(w)
<1> DEFINE a == Head(worker[w].queue)
           k == worker[w].kind
<1>1. CASE target' = target
  BY <1>1, RowsRest DEF Answer
<1>2. CASE target' = [target EXCEPT ![a][k] = outcome] /\ target[a][k] # "accepted"
  <2>1. CASE a \notin Keys
    <3>1. target' = target
      BY <1>2, <2>1 DEF Rows
    <3>2. QED
      BY <3>1, RowsRest DEF Answer
  <2>2. CASE a \in Keys
    <3> DEFINE targets == [target[a] EXCEPT ![k] = outcome]
    <3>1. /\ target[a] \in TargetRows /\ Fits(a, attempt[a], task[a], target[a], reservation[a])
      BY <2>2, RowsAre
    <3>2. targets \in TargetRows
      BY <3>1 DEF TargetRows
    <3>3. ASSUME \A j \in Kinds : target[a][j] = "accepted"
          PROVE  \A j \in Kinds : targets[j] = "accepted"
      BY <1>2, <3>1, <3>3, SMTT(30) DEF TargetRows
    <3>4. Touches(a, attempt[a], task[a], targets, reservation[a]) /\ order' = order
      BY <1>2, <2>2 DEF Answer, Touches, Rows
    <3> HIDE DEF targets
    <3>5. Fits(a, attempt[a], task[a], targets, reservation[a])
      BY <3>1, <3>2, <3>3 DEF Fits
    <3>6. RowMoves(w, a, attempt[a], reservation[a])
      BY DEF RowMoves
    <3>7. QED
      BY <2>2, <3>4, <3>5, <3>6, TouchFits, TouchMoves
  <2>3. QED
    BY <2>1, <2>2
<1>3. QED
  BY <1>1, <1>2, Zenon DEF Answer, Answered

(* Only when every target accepted is the creation observed, whoever sees it. *)
LEMMA ObserveFits ==
  ASSUME Rows, NEW w \in Workers, Observe(w)
  PROVE  Rows' /\ Moves(w)
<1> DEFINE a == Head(worker[w].queue)
           open == /\ \A k \in Kinds : target[a][k] = "accepted"
                   /\ attempt[a].state = "observing"
           moved == IF open THEN MovedRow(attempt[a], Gate(a)) ELSE attempt[a]
           row == UnleasedRow(moved, w)
<1>0. /\ attempt' = Unleased(IF open THEN Moved(a, Gate(a)) ELSE attempt, a, w)
      /\ UNCHANGED <<task, target, reservation, order>>
  BY DEF Observe
<1>1. CASE a \notin Keys
  <2>1. Moved(a, Gate(a)) = attempt
    BY <1>1 DEF Moved, Rows
  <2>2. attempt' = Unleased(attempt, a, w)
    BY <1>0, <2>1
  <2>3. attempt' = attempt
    BY <1>1, <2>2, SMTT(30) DEF Unleased, Rows
  <2>4. QED
    BY <1>0, <2>3, RowsRest
<1>2. CASE a \in Keys
  <2>1. /\ attempt[a] \in AttemptRows /\ Fits(a, attempt[a], task[a], target[a], reservation[a])
    BY <1>2, RowsAre
  <2>2. Gate(a) \in {"assigning", "created"} /\ (Gate(a) = "assigning" <=> reservation[a] = "active")
    BY DEF Gate
  <2>3. MovedRow(attempt[a], Gate(a)) \in AttemptRows /\ moved \in AttemptRows
    BY <2>1, <2>2, MovedRowIs, SMTT(30) DEF AttemptStates, PostObservation
  <2>4. /\ moved.owner = attempt[a].owner
        /\ open => moved.state = Gate(a)
        /\ ~open => moved = attempt[a]
    BY <2>1, <2>2, MovedRowIs DEF AttemptStates, PostObservation, Forward
  <2>5. [attempt EXCEPT ![a] = moved] = IF open THEN Moved(a, Gate(a)) ELSE attempt
    BY <1>2, MovedIs DEF Rows
  <2> HIDE DEF moved
  <2>6. /\ row \in AttemptRows /\ row.state = moved.state
        /\ row.owner = IF moved.owner = w THEN "none" ELSE moved.owner
    BY <2>3, UnleasedRowIs
  <2>7. Touches(a, row, task[a], target[a], reservation[a])
    <3>0. attempt' = Unleased([attempt EXCEPT ![a] = moved], a, w)
      BY <1>0, <2>5, Zenon
    <3>1. attempt' = [attempt EXCEPT ![a] = row]
      BY <1>2, <3>0 DEF Unleased, UnleasedRow, Rows
    <3>2. /\ task' = [task EXCEPT ![a] = task[a]] /\ target' = [target EXCEPT ![a] = target[a]]
          /\ reservation' = [reservation EXCEPT ![a] = reservation[a]]
      BY <1>0 DEF Rows
    <3>3. QED
      BY <3>1, <3>2 DEF Touches
  <2> HIDE DEF row
  <2>8. Fits(a, row, task[a], target[a], reservation[a])
    <3>1. CASE open
      BY <2>1, <2>2, <2>4, <2>6, <3>1, SMTT(30) DEF Fits, Published, PostObservation
    <3>2. CASE ~open
      BY <2>1, <2>4, <2>6, <3>2, SMTT(30) DEF Fits
    <3>3. QED
      BY <3>1, <3>2, SMTT(30)
  <2>9. RowMoves(w, a, row, reservation[a])
    BY <2>2, <2>4, <2>6, KernelAssumption DEF RowMoves, PostObservation
  <2>10. attempt[a].state = "absent" <=> row.state = "absent"
    BY <2>2, <2>4, <2>6
  <2>11. QED
    BY <1>0, <1>2, <2>7, <2>8, <2>9, <2>10, TouchFits, TouchMoves
<1>3. QED
  BY <1>1, <1>2

(* The end of an assignment: the reservation and the attempt end together,    *)
(* in the transaction that binds the Task.                                    *)
LEMMA EndedFits ==
  ASSUME Rows, NEW w \in Workers, NEW a \in Keys, attempt[a].owner = w,
         attempt[a].state = "assigning", reservation[a] = "active", order' = order,
         NEW t \in TaskRows, t.born = task[a].born, t.state = "held" <=> t.holder # "none",
         task' = [task EXCEPT ![a] = t], target' = target,
         NEW how, NEW state,
         \/ how = "consumed" /\ state = "created"
         \/ how \in {"released", "expired"} /\ state = "unassigned",
         Ended(a, w, how, state)
  PROVE  Rows' /\ Moves(w)
<1> DEFINE moved == MovedRow(attempt[a], state)
           row == UnleasedRow(moved, w)
<1>1. /\ attempt[a] \in AttemptRows /\ Fits(a, attempt[a], task[a], target[a], reservation[a])
  BY RowsAre
<1>2. state \in {"created", "unassigned"} /\ how \in {"consumed", "released", "expired"}
  OBVIOUS
<1>3. moved \in AttemptRows /\ moved.state = state /\ moved.owner = w
  BY <1>1, <1>2, MovedRowIs DEF AttemptStates, PostObservation, Forward
<1>4. attempt' = Unleased([attempt EXCEPT ![a] = moved], a, w)
  BY MovedIs DEF Ended
<1> HIDE DEF moved
<1>5. row \in AttemptRows /\ row.state = state /\ row.owner = "none"
  BY <1>3, UnleasedRowIs
<1>6. Touches(a, row, t, target[a], how)
  <2>1. attempt' = [attempt EXCEPT ![a] = row]
    BY <1>4 DEF Unleased, UnleasedRow, Rows
  <2>2. reservation' = [reservation EXCEPT ![a] = how]
    BY DEF Ended, Closed, Rows
  <2>3. target' = [target EXCEPT ![a] = target[a]]
    BY DEF Rows
  <2>4. QED
    BY <2>1, <2>2, <2>3 DEF Touches
<1> HIDE DEF row
<1>7. Fits(a, row, t, target[a], how)
  BY <1>1, <1>2, <1>5 DEF Fits, Published, PostObservation, ReservationStates
<1>8. RowMoves(w, a, row, how)
  BY <1>2, <1>5, KernelAssumption DEF RowMoves, PostObservation
<1>9. QED
  BY <1>2, <1>5, <1>6, <1>7, <1>8, TouchFits, TouchMoves

LEMMA BindFits ==
  ASSUME Rows, Actors, NEW w \in Workers, Bind(w)
  PROVE  Rows' /\ Moves(w)
<1> DEFINE a == Head(worker[w].queue)
<1>1. CASE UNCHANGED <<attempt, task, reservation>>
  BY <1>1, RowsRest DEF Bind
<1>2. ASSUME Owns(a, w), Reconcile(a, w) \/ Lapse(a, w) \/ Assign(a, w) \/ Refuse(a, w) \/ Resume(a, w)
      PROVE  Rows' /\ Moves(w)
  <2>0. target' = target /\ order' = order /\ worker[w].at = "bind"
    BY DEF Bind
  <2>1. CASE a \notin Keys
    <3>1. \A to : Moved(a, to) = attempt
      BY <2>1 DEF Moved, Rows
    <3>2. Unleased(attempt, a, w) = attempt
      BY <2>1 DEF Unleased, Rows
    <3>3. \A how : Closed(a, how) => reservation' = reservation
      BY <2>1 DEF Closed, Rows
    <3>4. \A how, state : Ended(a, w, how, state) => attempt' = attempt /\ reservation' = reservation
      BY <3>1, <3>2, <3>3 DEF Ended
    <3>5. Assign(a, w) => task' = task
      BY <2>1, SMTT(30) DEF Assign, Rows
    <3>6. UNCHANGED <<attempt, task, reservation>>
      BY <1>2, <3>2, <3>4, <3>5 DEF Reconcile, Lapse, Assign, Refuse, Resume
    <3>7. QED
      BY <2>0, <3>6, RowsRest
  <2>2. CASE a \in Keys
    <3>1. /\ attempt[a].owner = w /\ attempt[a].state = "assigning" /\ reservation[a] = "active"
      BY <1>2, <2>0, <2>2 DEF Owns, Actors, Binds
    <3>2. /\ task[a] \in TaskRows /\ attempt[a] \in AttemptRows
          /\ Fits(a, attempt[a], task[a], target[a], reservation[a])
      BY <2>2, RowsAre
    <3>3. task[a].state = "held" <=> task[a].holder # "none"
      BY <3>2 DEF Fits
    <3>4. ASSUME task' = task,
                 \/ Ended(a, w, "consumed", "created") \/ Ended(a, w, "expired", "unassigned")
                 \/ Ended(a, w, "released", "unassigned")
          PROVE  Rows' /\ Moves(w)
      <4>1. task' = [task EXCEPT ![a] = task[a]]
        BY <3>4, SMTT(30) DEF Rows
      <4>2. CASE Ended(a, w, "consumed", "created")
        BY <2>0, <2>2, <3>1, <3>2, <3>3, <4>1, <4>2, EndedFits
      <4>3. CASE Ended(a, w, "expired", "unassigned")
        BY <2>0, <2>2, <3>1, <3>2, <3>3, <4>1, <4>3, EndedFits
      <4>4. CASE Ended(a, w, "released", "unassigned")
        BY <2>0, <2>2, <3>1, <3>2, <3>3, <4>1, <4>4, EndedFits
      <4>5. QED
        BY <3>4, <4>2, <4>3, <4>4
    <3>5. CASE Assign(a, w)
      <4> DEFINE t == [task[a] EXCEPT !.state = "held", !.holder = "requested"]
      <4>1. t \in TaskRows /\ t.born = task[a].born /\ t.state = "held" /\ t.holder = "requested"
        BY <3>2 DEF TaskRows
      <4>2. task' = [task EXCEPT ![a] = t] /\ Ended(a, w, "consumed", "created")
        BY <2>2, <3>5 DEF Assign, Rows
      <4> HIDE DEF t
      <4>3. t.state = "held" <=> t.holder # "none"
        BY <4>1
      <4>4. QED
        BY <2>0, <2>2, <3>1, <4>1, <4>2, <4>3, EndedFits
    <3>6. CASE Resume(a, w)
      <4> DEFINE row == UnleasedRow(attempt[a], w)
      <4>1. row \in AttemptRows /\ row.state = "assigning" /\ row.owner = "none"
        BY <3>1, <3>2, UnleasedRowIs
      <4>2. attempt = [attempt EXCEPT ![a] = attempt[a]]
        BY DEF Rows
      <4>3. attempt' = [attempt EXCEPT ![a] = row]
        BY <2>2, <3>6, <4>2, UnleasedIs DEF Resume
      <4>4. Touches(a, row, task[a], target[a], reservation[a])
        <5>1. /\ task' = [task EXCEPT ![a] = task[a]] /\ target' = [target EXCEPT ![a] = target[a]]
              /\ reservation' = [reservation EXCEPT ![a] = reservation[a]]
          BY <2>0, <3>6 DEF Resume, Rows
        <5>2. QED
          BY <4>3, <5>1 DEF Touches
      <4> HIDE DEF row
      <4>5. Fits(a, row, task[a], target[a], reservation[a])
        BY <3>1, <3>2, <4>1 DEF Fits
      <4>6. RowMoves(w, a, row, reservation[a])
        BY <4>1, KernelAssumption DEF RowMoves, PostObservation
      <4>7. QED
        BY <2>0, <2>2, <3>1, <4>1, <4>4, <4>5, <4>6, TouchFits, TouchMoves
    <3>7. QED
      BY <1>2, <3>4, <3>5, <3>6, Zenon DEF Reconcile, Lapse, Refuse
  <2>3. QED
    BY <2>1, <2>2
<1>3. QED
  BY <1>1, <1>2, Zenon DEF Bind

(* A crash leaves the lease behind under a name nobody has any more.          *)
LEMMA CrashFits ==
  ASSUME Rows, NEW w \in Workers, Crash(w)
  PROVE  Rows' /\ Moves(w)
<1>1. ASSUME NEW a \in Keys
      PROVE  /\ attempt'[a] \in AttemptRows /\ attempt'[a].state = attempt[a].state
             /\ attempt'[a].owner = IF attempt[a].owner = w THEN "ghost" ELSE attempt[a].owner
             /\ Fits(a, attempt[a], task[a], target[a], reservation[a])
  <2>1. attempt[a] \in AttemptRows /\ Fits(a, attempt[a], task[a], target[a], reservation[a])
    BY RowsAre
  <2>2. attempt'[a] = IF attempt[a].owner = w THEN [attempt[a] EXCEPT !.owner = "ghost"] ELSE attempt[a]
    BY DEF Crash
  <2>3. QED
    BY <2>1, <2>2 DEF AttemptRows
<1>2. UNCHANGED <<task, target, reservation, order>>
  BY DEF Crash
<1>3. ASSUME NEW a \in Keys
      PROVE  Fits(a, attempt'[a], task[a], target[a], reservation[a])
  BY <1>1 DEF Fits
<1>4. Rows'
  <2>1. attempt' \in [Keys -> AttemptRows]
    BY <1>1 DEF Crash
  <2>2. QED
    BY <1>2, <1>3, <2>1, Zenon DEF Rows
<1>5. Moves(w)
  BY <1>1, <1>2, KernelAssumption DEF Moves, Undisturbed, RowMoves
<1>6. QED
  BY <1>4, <1>5
-----------------------------------------------------------------------------
(* A worker comes to a binding only through the lease of an assignment.       *)
LEMMA ResolveBinds ==
  ASSUME Rows, Actors, NEW w \in Workers, Resolve(w)
  PROVE  Rows' /\ Moves(w) /\ Binds(w)'
<1> DEFINE a == Head(worker[w].queue)
<1>1. CASE worker'[w].at = "bind"
  <2>1. /\ attempt[a].state = "assigning" /\ reservation[a] = "active"
        /\ attempt' = Leased(a, w) /\ worker'[w].queue = worker[w].queue
        /\ UNCHANGED <<task, target, reservation, order>>
    BY <1>1 DEF Resolve, Actors, Swept, Idle
  <2>2. a \in Keys => attempt'[a].state = "assigning"
    BY <2>1 DEF Leased, Rows, AttemptRows
  <2>3. Binds(w)'
    BY <2>1, <2>2 DEF Binds, PostObservation
  <2>4. QED
    BY <2>1, <2>3, LeasedFits
<1>2. CASE worker'[w].at # "bind"
  <2>1. attempt' = Leased(a, w) \/ attempt' = attempt
    BY DEF Resolve
  <2>2. UNCHANGED <<task, target, reservation, order>>
    BY DEF Resolve
  <2>3. Binds(w)'
    BY <1>2 DEF Binds
  <2>4. QED
    BY <2>1, <2>2, <2>3, LeasedFits, RowsRest
<1>3. QED
  BY <1>1, <1>2

(* Every other step of a worker leaves it elsewhere.                          *)
LEMMA ElsewhereBinds ==
  ASSUME Actors, NEW w \in Workers,
         \/ Scan(w) \/ Take(w) \/ (\E k \in Kinds : Call(w, k))
         \/ (\E o \in {"accepted", "attention"} : Answer(w, o)) \/ Observe(w) \/ Bind(w) \/ Crash(w)
  PROVE  Binds(w)'
<1>1. w \in DOMAIN worker
  BY DEF Actors
<1>2. SUFFICES worker'[w].at # "bind"
  BY DEF Binds
<1>3. CASE Scan(w)
  BY <1>1, <1>3 DEF Scan, Idle
<1>4. CASE Take(w)
  BY <1>1, <1>4 DEF Take, Following
<1>5. CASE \E k \in Kinds : Call(w, k)
  BY <1>1, <1>5 DEF Call, Following
<1>6. CASE \E o \in {"accepted", "attention"} : Answer(w, o)
  BY <1>1, <1>6 DEF Answer
<1>7. CASE Observe(w)
  BY <1>1, <1>7 DEF Observe, Following
<1>8. CASE Bind(w)
  BY <1>1, <1>8 DEF Bind, Swept, Idle
<1>9. CASE Crash(w)
  BY <1>1, <1>9 DEF Crash, Idle
<1>10. QED
  BY <1>3, <1>4, <1>5, <1>6, <1>7, <1>8, <1>9

LEMMA WorkFits ==
  ASSUME Rows, Actors, NEW w \in Workers, Work(w) \/ Crash(w)
  PROVE  Rows' /\ Moves(w) /\ Binds(w)'
<1>1. CASE Scan(w)
  <2>1. Rows' /\ Moves(w)
    BY <1>1, RowsRest DEF Scan
  <2>2. QED
    BY <1>1, <2>1, ElsewhereBinds
<1>2. CASE Take(w)
  <2>1. attempt' = Leased(Head(worker[w].queue), w) \/ attempt' = attempt
    BY <1>2 DEF Take
  <2>2. Rows' /\ Moves(w)
    BY <1>2, <2>1, LeasedFits, RowsRest DEF Take
  <2>3. QED
    BY <1>2, <2>2, ElsewhereBinds
<1>3. ASSUME NEW k \in Kinds, Call(w, k)
      PROVE  Rows' /\ Moves(w) /\ Binds(w)'
  <2>1. attempt' = Leased(Head(worker[w].queue), w) \/ attempt' = attempt
    BY <1>3 DEF Call
  <2>2. Rows' /\ Moves(w)
    BY <1>3, <2>1, LeasedFits, RowsRest DEF Call
  <2>3. QED
    BY <1>3, <2>2, ElsewhereBinds
<1>4. ASSUME NEW o \in {"accepted", "attention"}, Answer(w, o)
      PROVE  Rows' /\ Moves(w) /\ Binds(w)'
  BY <1>4, AnswerFits, ElsewhereBinds
<1>5. CASE Observe(w)
  BY <1>5, ObserveFits, ElsewhereBinds
<1>6. CASE Resolve(w)
  BY <1>6, ResolveBinds
<1>7. CASE Bind(w)
  BY <1>7, BindFits, ElsewhereBinds
<1>8. CASE Crash(w)
  BY <1>8, CrashFits, ElsewhereBinds
<1>9. QED
  BY <1>1, <1>2, <1>3, <1>4, <1>5, <1>6, <1>7, <1>8, Zenon DEF Work
-----------------------------------------------------------------------------
(* A step that leaves the workers alone.                                      *)
LEMMA OthersKeep ==
  ASSUME PublicationInv, Rows', Moves("none"), worker' = worker,
         request' \in [Requests -> RequestStates]
  PROVE  PublicationInv'
<1>1. \A w \in Workers : Binds(w)'
  BY BindsRest, KernelAssumption DEF PublicationInv, Moves
<1>2. worker' = [w \in Workers |-> worker'[w]]
  BY DEF PublicationInv, Actors
<1>3. Ordered'
  BY OrderRests DEF PublicationInv
<1>4. QED
  BY <1>1, <1>2, <1>3, Zenon DEF PublicationInv, Actors

LEMMA RequestStep ==
  ASSUME PublicationInv, NEW r \in Requests,
         \/ Prepare(r) \/ Govern(r) \/ Drift(r) \/ Deny(r) \/ Publish(r) \/ Abandon(r)
  PROVE  PublicationInv'
<1> USE DEF PublicationInv
<1>1. /\ request \in [Requests -> RequestStates] /\ worker' = worker
      /\ request[r] # NoRequest
  BY DEF Actors, Prepare, Govern, Drift, Deny, Publish, Abandon, NoRequest
<1>2. request[r].at # "idle" /\ request[r].key \in Keys
  <2>1. request[r].at # "idle"
    <3>1. request[r] \in RequestStates
      BY <1>1
    <3>2. CASE request[r] \in [at : {"idle"}]
      BY <1>1, <3>2 DEF NoRequest
    <3>3. CASE request[r] \in [at : {"reserved", "prepared", "governed"}, key : Keys]
      BY <3>3
    <3>4. QED
      BY <3>1, <3>2, <3>3 DEF RequestStates
  <2>2. QED
    BY <2>1, KeyOfRequest
<1>3. request' \in [Requests -> RequestStates]
  <2>1. NoRequest \in RequestStates
    BY DEF NoRequest, RequestStates
  <2>2. \A at \in {"prepared", "governed"} : [request[r] EXCEPT !.at = at] \in RequestStates
    BY <1>1, <1>2 DEF RequestStates
  <2>3. \/ request' = [request EXCEPT ![r] = NoRequest]
        \/ \E at \in {"prepared", "governed"} : request' = [request EXCEPT ![r] = [request[r] EXCEPT !.at = at]]
    BY <1>1 DEF Prepare, Govern, Drift, Deny, Publish, Abandon, Stops, Reaches
  <2>4. QED
    BY <1>1, <2>1, <2>2, <2>3
<1>4. Rows' /\ Moves("none")
  <2>1. CASE UNCHANGED <<attempt, task, target, reservation, order>>
    BY <2>1, RowsRest
  <2>2. CASE attempt' = Moved(request[r].key, "rejected") /\ UNCHANGED <<task, target, reservation, order>>
    BY <1>2, <2>2, RejectFits
  <2>3. CASE Publish(r)
    BY <1>2, <2>3, PublishFits
  <2>4. QED
    BY <2>1, <2>2, <2>3 DEF Prepare, Govern, Drift, Deny, Abandon
<1>5. QED
  BY <1>1, <1>3, <1>4, OthersKeep

LEMMA PublicationStep ==
  ASSUME PublicationInv, [Next]_vars
  PROVE  PublicationInv'
<1>1. ASSUME NEW r \in Requests, NEW a \in Keys, Reserve(r, a)
      PROVE  PublicationInv'
  <2>1. /\ Rows' /\ Ordered' /\ request' \in [Requests -> RequestStates] /\ Undisturbed("none")
    BY <1>1, ReserveFits
  <2>2. worker' = worker
    BY <1>1 DEF Reserve
  <2>3. \A w \in Workers : Binds(w)'
    BY <2>1, <2>2, BindsRest, KernelAssumption DEF PublicationInv
  <2>4. worker' = [w \in Workers |-> worker'[w]]
    BY <2>2 DEF PublicationInv, Actors
  <2>5. QED
    BY <2>1, <2>3, <2>4, Zenon DEF PublicationInv, Actors
<1>2. ASSUME NEW r \in Requests,
             \/ Prepare(r) \/ Govern(r) \/ Drift(r) \/ Deny(r) \/ Publish(r) \/ Abandon(r)
      PROVE  PublicationInv'
  BY <1>2, RequestStep
<1>3. ASSUME NEW a \in Keys, NEW who \in Others \cup {"requested"}, Claim(a, who)
      PROVE  PublicationInv'
  BY <1>3, ClaimFits, OthersKeep DEF Claim, PublicationInv, Actors
<1>4. ASSUME NEW a \in Keys, Unclaim(a) \/ Delete(a)
      PROVE  PublicationInv'
  BY <1>4, UnclaimOrDeleteFits, OthersKeep DEF Unclaim, Delete, PublicationInv, Actors
<1>5. ASSUME NEW a \in Keys, Expire(a)
      PROVE  PublicationInv'
  BY <1>5, ExpireFits, OthersKeep DEF Expire, PublicationInv, Actors
<1>6. ASSUME NEW a \in Keys, Deadline(a)
      PROVE  PublicationInv'
  BY <1>6, RowsRest, OthersKeep DEF Deadline, PublicationInv, Actors
<1>7. ASSUME NEW w \in Workers, Work(w) \/ Crash(w)
      PROVE  PublicationInv'
  <2>1. Rows' /\ Moves(w) /\ Binds(w)'
    BY <1>7, WorkFits DEF PublicationInv
  <2>2. PICK position : worker' = [worker EXCEPT ![w] = position]
    <3>1. CASE Work(w)
      BY <3>1 DEF Work, Scan, Take, Call, Answer, Observe, Resolve, Bind
    <3>2. CASE Crash(w)
      BY <3>2 DEF Crash
    <3>3. QED
      BY <1>7, <3>1, <3>2, SMTT(30)
  <2>3. worker' = [v \in Workers |-> worker'[v]] /\ \A v \in Workers : v # w => worker'[v] = worker[v]
    BY <2>2 DEF PublicationInv, Actors
  <2>4. \A v \in Workers : Binds(v)'
    BY <2>1, <2>3, BindsRest, SMTT(30) DEF PublicationInv, Moves
  <2>5. request' = request
    BY <1>7 DEF Work, Scan, Take, Call, Answer, Observe, Resolve, Bind, Crash
  <2>6. Ordered'
    BY <2>1, OrderRests DEF PublicationInv
  <2>7. QED
    BY <2>1, <2>3, <2>4, <2>5, <2>6, Zenon DEF PublicationInv, Actors
<1>8. CASE UNCHANGED vars
  BY <1>8, RowsRest, OthersKeep DEF vars, PublicationInv, Actors
<1>9. QED
  BY <1>1, <1>2, <1>3, <1>4, <1>5, <1>6, <1>7, <1>8, Zenon DEF Next

LEMMA PublicationStart == Init => PublicationInv
<1> SUFFICES ASSUME Init PROVE PublicationInv
  OBVIOUS
<1>1. ASSUME NEW a \in Keys
      PROVE  Fits(a, attempt[a], task[a], target[a], reservation[a])
  BY DEF Init, Fits, AttemptRows, AttemptStates, TaskRows, TargetRows, ReservationStates, Published,
         PostObservation
<1>2. Rows
  <2>1. /\ attempt \in [Keys -> AttemptRows] /\ task \in [Keys -> TaskRows]
        /\ target \in [Keys -> TargetRows] /\ reservation \in [Keys -> ReservationStates]
    BY DEF Init, AttemptRows, AttemptStates, TaskRows, TargetRows, ReservationStates
  <2>2. QED
    BY <1>1, <2>1 DEF Rows
<1>3. Actors
  BY DEF Init, Actors, Binds, RequestStates, NoRequest, Idle
<1>4. Ordered
  <2>1. order = << >> /\ Members(order) = {}
    BY DEF Init, Members
  <2>2. {a \in Keys : attempt[a].state # "absent"} = {}
    BY DEF Init
  <2>3. order \in Seq(Keys) /\ Len(order) = 0
    BY <2>1
  <2>4. QED
    BY <2>1, <2>2, <2>3, FS_EmptySet DEF Ordered
<1>5. QED
  BY <1>2, <1>3, <1>4 DEF PublicationInv

(* However many requests carry a key, whatever stops and whichever worker     *)
(* resumes: one Task for a published key and none for another, no holder      *)
(* before every target accepted, no stranger while the reservation stands,    *)
(* and a reservation that ends exactly as its attempt does.                   *)
THEOREM PublicationsTheorem == Spec => []PublicationsAgree
<1>1. Spec => []PublicationInv
  BY PublicationStart, PublicationStep, PTL DEF Spec
<1>2. PublicationInv => PublicationsAgree
  <2> SUFFICES ASSUME PublicationInv PROVE PublicationsAgree
    OBVIOUS
  <2>1. DOMAIN attempt = Keys
    BY DEF PublicationInv, Rows
  <2>2. ASSUME NEW a \in Keys
        PROVE  Fits(a, attempt[a], task[a], target[a], reservation[a])
    BY RowsAre DEF PublicationInv
  <2>3. TypeOK
    BY <2>1, <2>2 DEF TypeOK, PublicationInv, Ordered, Fits, AttemptRows, AttemptStates, TaskRows, TargetRows,
                      ReservationStates
  <2>4. OneTaskPerKey
    BY <2>1, <2>2 DEF OneTaskPerKey, Fits
  <2>5. HeldAfterDelivery
    BY <2>1, <2>2 DEF HeldAfterDelivery, Fits
  <2>6. ReservedForRequested
    BY <2>1, <2>2 DEF ReservedForRequested, Fits
  <2>7. ReservationAgrees
    BY <2>2, KernelAssumption DEF ReservationAgrees, Fits
  <2>8. QED
    BY <2>3, <2>4, <2>5, <2>6, <2>7 DEF PublicationsAgree
<1>3. QED
  BY <1>1, <1>2, PTL
-----------------------------------------------------------------------------
(* The occurrences of one schedule, for every number of instants, recovery    *)
(* workers, edits, crashes and repairs.                                       *)
CONSTANTS
  Recoverers, Shape, CadenceKinds, MaxSlot, MaxReclaims, MaxRetries, MaxEdits, MaxOutages, MaxDenials
VARIABLES clock, sched, occ, att, retry, missions, pass, repair, spent

Schedules == INSTANCE ScheduledOccurrences WITH
  Workers <- Recoverers, Kinds <- CadenceKinds, MaxCrashes <- MaxOutages

(***************************************************************************)
(* The occurrences of a schedule                                           *)
(***************************************************************************)
(* What the theorems assume of the constants: bounds are numbers, schedules   *)
(* are of the kinds the code knows, and no worker is called nobody.           *)
ScheduleHypotheses ==
  /\ MaxSlot \in Nat /\ MaxReclaims \in Nat /\ MaxRetries \in Nat
  /\ CadenceKinds \subseteq {"once", "recurring"} /\ "none" \notin Recoverers

Slots == Schedules!Slots
Owners == Schedules!Owners
Snaps ==
  [kind : {"once", "recurring"}, title : {0, 1}, at : Slots, next : 0 .. Schedules!Never,
   enabled : BOOLEAN, runs : Nat]
Stamps == [n : 1 .. MaxRetries, outcome : {"repaired", "failed"}]
OccurrenceRows ==
  [state : {"reserved", "publishing", "published", "rejected"}, ordinal : Nat, snap : Snaps,
   owner : Owners \cup {"none"}, live : BOOLEAN, reclaims : 0 .. MaxReclaims + 1,
   coord : {"pending", "created", "rejected"}, history : Seq(Stamps)]
RepairRows == [at : {"prepared"}, n : 1 .. MaxRetries, snap : Snaps]
PassStates == {"idle", "reserved", "claimed", "prepared", "ran", "exhausted"}
AttemptKinds == {"none", "pending", "published", "rejected"}
RetryKinds == {"none", "pending", "done"}

ScheduleTypes ==
  /\ clock \in Slots /\ sched \in Schedules!Schedule
  /\ occ = [s \in Slots |-> occ[s]] /\ att \in [Slots -> AttemptKinds]
  /\ retry \in [Slots -> [1 .. MaxRetries -> RetryKinds]]
  /\ missions \in [Slots -> SUBSET (0 .. MaxRetries)]
  /\ pass \in [Slots -> [Owners -> PassStates]]
  /\ repair = [s \in Slots |-> repair[s]]

(* Nothing was done for an instant that has no occurrence.                    *)
Unborn(o, a, m, p, rp) ==
  /\ o = Schedules!None /\ a = "none" /\ m = {} /\ rp = Schedules!Idle
  /\ \A x \in Owners : p[x] = "idle"

Repaired(h) == {i \in 1 .. Len(h) : h[i].outcome = "repaired"}

(* The records of the publication of an occurrence agree.                     *)
Agreed(o, a, m, p) ==
  Shape = "template" =>
    /\ (0 \in m) = (o.state = "published") /\ (o.coord = "created") = (o.state = "published")
    /\ (o.coord = "rejected") = (o.state = "rejected") /\ (a = "published") = (o.state = "published")
    /\ \A x \in Owners : p[x] # "ran"

(* The repairs that made a Mission are those that were stamped so, and one    *)
(* that is under way still has to conclude its number.                        *)
MendedBy(h, y, made, rp) ==
  /\ made = {h[i].n : i \in Repaired(h)}
  /\ \A i, j \in Repaired(h) : h[i].n = h[j].n => i = j
  /\ \A i \in Repaired(h) : y[h[i].n] = "done"
  /\ rp = Schedules!Idle \/ (rp \in RepairRows /\ y[rp.n] = "pending")
Mended(o, y, m, rp) == MendedBy(o.history, y, m \ {0}, rp)

(* Who may still publish an occurrence whose budget is spent: nobody.         *)
Bounded(o, p) ==
  o.reclaims > MaxReclaims =>
    /\ o.state \notin {"reserved", "published"}
    /\ o.state = "publishing" => p[o.owner] \in {"exhausted", "idle"}

Owned(o) == (o.owner = "none") = (o.state # "publishing")

SlotFits(o, a, y, m, p, rp) ==
  \/ Unborn(o, a, m, p, rp)
  \/ /\ o \in OccurrenceRows /\ Owned(o) /\ Agreed(o, a, m, p) /\ Mended(o, y, m, rp)
     /\ Bounded(o, p)

OccurrenceInv ==
  /\ ScheduleTypes
  /\ \A s \in Slots : SlotFits(occ[s], att[s], retry[s], missions[s], pass[s], repair[s])
  /\ Schedules!OrdinalsAreContiguous /\ Schedules!OneShotReservedOnce
  /\ Schedules!ConsumedStaysDisabled

LEMMA NumberIs == \A S : Schedules!Cardinality(S) = Cardinality(S)
  BY Zenon DEF Schedules!Cardinality, Cardinality

LEMMA BornIs ==
    ASSUME OccurrenceInv, NEW s \in Slots
    PROVE  /\ Schedules!Exists(s) =>
                /\ occ[s] \in OccurrenceRows /\ Owned(occ[s])
                /\ Agreed(occ[s], att[s], missions[s], pass[s])
                /\ Mended(occ[s], retry[s], missions[s], repair[s])
                /\ Bounded(occ[s], pass[s])
           /\ ~Schedules!Exists(s) => Unborn(occ[s], att[s], missions[s], pass[s], repair[s])
           /\ Schedules!Exists(s) <=> s \in Schedules!Reserved
<1>1. SlotFits(occ[s], att[s], retry[s], missions[s], pass[s], repair[s])
  BY Zenon DEF OccurrenceInv
<1>2. DOMAIN occ = Slots
  BY Zenon DEF OccurrenceInv, ScheduleTypes
<1>3. CASE Unborn(occ[s], att[s], missions[s], pass[s], repair[s])
  <2>1. ~Schedules!Exists(s)
    BY <1>3 DEF Unborn, Schedules!Exists, Schedules!None
  <2>2. QED BY <1>2, <1>3, <2>1 DEF Schedules!Reserved
<1>4. CASE occ[s] \in OccurrenceRows
  <2>1. Schedules!Exists(s)
    BY <1>4 DEF OccurrenceRows, Schedules!Exists
  <2>2. ~Unborn(occ[s], att[s], missions[s], pass[s], repair[s])
    BY <2>1 DEF Unborn, Schedules!Exists, Schedules!None
  <2>3. QED BY <1>1, <1>2, <2>1, <2>2, Zenon DEF Schedules!Reserved, SlotFits
<1>5. QED BY <1>1, <1>3, <1>4 DEF SlotFits

LEMMA OccurrenceInvAgrees ==
    ASSUME ScheduleHypotheses, OccurrenceInv
    PROVE  Schedules!OccurrencesAgree
<1>1. Schedules!TypeOK
  <2>1. clock \in Slots /\ sched \in Schedules!Schedule
    BY Zenon DEF OccurrenceInv, ScheduleTypes
  <2>2. ASSUME NEW s \in Slots
        PROVE  /\ att[s] \in AttemptKinds /\ retry[s] \in [1 .. MaxRetries -> RetryKinds]
               /\ missions[s] \subseteq 0 .. MaxRetries /\ pass[s] \in [Owners -> PassStates]
    BY DEF OccurrenceInv, ScheduleTypes
  <2>3. ASSUME NEW s \in Slots
        PROVE  repair[s] = Schedules!Idle \/ repair[s].n \in 1 .. MaxRetries
    <3>1. CASE Schedules!Exists(s)
      BY <3>1, BornIs DEF Mended, MendedBy, RepairRows
    <3>2. CASE ~Schedules!Exists(s)
      BY <3>2, BornIs DEF Unborn
    <3>3. QED BY <3>1, <3>2
  <2>4. ASSUME NEW s \in Slots, Schedules!Exists(s)
        PROVE  /\ occ[s].state \in {"reserved", "publishing"} \cup Schedules!Terminal
               /\ occ[s].owner \in Owners \cup {"none"}
               /\ (occ[s].owner = "none") = (occ[s].state # "publishing")
               /\ occ[s].coord \in {"pending", "created", "rejected"}
               /\ occ[s].reclaims \in 0 .. MaxReclaims + 1
               /\ occ[s].history \in Seq(Schedules!Outcomes)
    <3>1. occ[s] \in OccurrenceRows /\ Owned(occ[s])
      BY <2>4, BornIs
    <3>2. Schedules!Outcomes = Stamps
      BY DEF Schedules!Outcomes, Stamps
    <3>3. QED BY <3>1, <3>2 DEF OccurrenceRows, Owned, Schedules!Terminal
  <2>5. QED BY <2>1, <2>2, <2>3, <2>4, Zenon
        DEF Schedules!TypeOK, AttemptKinds, RetryKinds, PassStates, Slots, Owners
<1>2. Schedules!RepairsAreStamped
  <2>1. ASSUME NEW s \in Schedules!Reserved
        PROVE  Mended(occ[s], retry[s], missions[s], repair[s])
    <3>1. s \in Slots
      BY Zenon DEF Schedules!Reserved, OccurrenceInv, ScheduleTypes
    <3>2. QED BY <3>1, BornIs
  <2>2. QED BY <2>1, Zenon DEF Schedules!RepairsAreStamped, Mended, MendedBy, Repaired
<1>3. ASSUME Shape = "template" PROVE Schedules!PublicationAgrees
  <2>1. ASSUME NEW s \in Schedules!Reserved
        PROVE  Agreed(occ[s], att[s], missions[s], pass[s])
    <3>1. s \in Slots
      BY Zenon DEF Schedules!Reserved, OccurrenceInv, ScheduleTypes
    <3>2. QED BY <3>1, BornIs
  <2>2. QED BY <1>3, <2>1, Zenon DEF Schedules!PublicationAgrees, Agreed
<1>4. QED BY <1>1, <1>2, <1>3, Zenon DEF Schedules!OccurrencesAgree, OccurrenceInv

LEMMA SlotsAre ==
    ASSUME ScheduleHypotheses
    PROVE  /\ Slots = 0 .. MaxSlot /\ Schedules!Never = MaxSlot + 2 /\ 0 \in Slots
           /\ \A x \in Slots : x \in Nat /\ x =< MaxSlot
           /\ IsFiniteSet(Slots)
           /\ "scheduler" \in Owners /\ Recoverers \subseteq Owners /\ "none" \notin Owners
<1>1. /\ Slots = 0 .. MaxSlot /\ Schedules!Never = MaxSlot + 2 /\ MaxSlot \in Nat
      /\ Owners = Recoverers \cup {"scheduler"} /\ "none" \notin Recoverers
  BY DEF ScheduleHypotheses, Slots, Owners, Schedules!Slots, Schedules!Owners, Schedules!Never
<1>2. IsFiniteSet(Slots)
  BY <1>1, FS_Interval
<1>3. QED BY <1>1, <1>2

LEMMA OccurrenceStart ==
    ASSUME ScheduleHypotheses, Schedules!Init PROVE OccurrenceInv
<1> USE SlotsAre
<1>1. PICK k \in CadenceKinds, a \in Slots :
        sched = [exists |-> TRUE, kind |-> k, enabled |-> TRUE, at |-> a, title |-> 0,
                 next |-> IF k = "once" THEN a ELSE Schedules!NextRun(k, 0), runs |-> 0]
  BY DEF Schedules!Init, Slots
<1>2. sched \in Schedules!Schedule /\ sched.runs = 0 /\ clock = 0
  <2>1. k \in {"once", "recurring"}
    BY DEF ScheduleHypotheses
  <2>2. (IF k = "once" THEN a ELSE Schedules!NextRun(k, 0)) \in 0 .. Schedules!Never
    <3>1. a \in Nat /\ a =< MaxSlot /\ MaxSlot \in Nat
      BY DEF ScheduleHypotheses
    <3>2. Schedules!NextRun(k, 0) = 1 \/ k = "once"
      BY DEF Schedules!NextRun
    <3>3. QED BY <3>1, <3>2
  <2>3. QED BY <1>1, <2>1, <2>2 DEF Schedules!Schedule, Slots, Schedules!Init
<1>3. ScheduleTypes
  BY <1>2 DEF Schedules!Init, ScheduleTypes, Slots, Owners, AttemptKinds, RetryKinds, PassStates
<1>4. ASSUME NEW s \in Slots
      PROVE  Unborn(occ[s], att[s], missions[s], pass[s], repair[s])
  BY DEF Schedules!Init, Unborn, Slots, Owners
<1>5. Schedules!Reserved = {}
  BY DEF Schedules!Init, Schedules!Reserved, Schedules!Exists, Schedules!None
<1>6. Schedules!OrdinalsAreContiguous
  <2>1. Cardinality({}) = 0
    BY FS_EmptySet
  <2>2. Schedules!Cardinality(Schedules!Reserved) = 0
    BY <1>5, <2>1, NumberIs
  <2>3. {occ[s].ordinal : s \in Schedules!Reserved} = {} /\ 0 .. (sched.runs - 1) = {}
    BY <1>2, <1>5
  <2>4. QED BY <1>2, <2>2, <2>3 DEF Schedules!OrdinalsAreContiguous
<1>7. Schedules!OneShotReservedOnce
  <2>1. {s \in Schedules!Reserved : occ[s].snap.kind = "once"} = {} /\ Cardinality({}) = 0
    BY <1>5, FS_EmptySet
  <2>2. Schedules!Cardinality({s \in Schedules!Reserved : occ[s].snap.kind = "once"}) = 0
    BY <2>1, NumberIs
  <2>3. QED BY <2>2 DEF Schedules!OneShotReservedOnce
<1>8. Schedules!ConsumedStaysDisabled
  BY <1>5 DEF Schedules!ConsumedStaysDisabled, Schedules!Consumed
<1>9. QED BY <1>3, <1>4, <1>6, <1>7, <1>8, Zenon DEF OccurrenceInv, SlotFits

(* What a step may do to an occurrence: make its Mission only from the        *)
(* schedule it was reserved from, publish it only within its budget, leave it *)
(* alone once terminal, and append to its repair history.                     *)
Settles(s, e, m) ==
  /\ 0 \in m \ missions[s] =>
       /\ sched.exists /\ sched.title = occ[s].snap.title
       /\ sched.kind = occ[s].snap.kind /\ sched.enabled = occ[s].snap.enabled
  /\ occ[s].reclaims > MaxReclaims => e.state # "published"
  /\ occ[s].state \in Schedules!Terminal => e.state = occ[s].state
  /\ Schedules!IsPrefix(occ[s].history, e.history)

Final == \A s \in Schedules!Reserved : Settles(s, occ'[s], missions'[s])
Kept == OccurrenceInv' /\ Final

LEMMA PrefixIs ==
    ASSUME NEW h \in Seq(Stamps)
    PROVE  /\ Schedules!IsPrefix(h, h)
           /\ \A st \in Stamps : Schedules!IsPrefix(h, Append(h, st))
<1>1. Schedules!IsPrefix(h, h)
  BY DEF Schedules!IsPrefix
<1>2. ASSUME NEW st \in Stamps PROVE Schedules!IsPrefix(h, Append(h, st))
  <2>1. Len(h) \in Nat /\ Len(Append(h, st)) = Len(h) + 1
    OBVIOUS
  <2>2. SubSeq(h, 1, Len(h)) = SubSeq(Append(h, st), 1, Len(h))
    OBVIOUS
  <2>3. QED BY <2>1, <2>2 DEF Schedules!IsPrefix
<1>3. QED BY <1>1, <1>2

LEMMA SettlesStill ==
    ASSUME OccurrenceInv, NEW s \in Slots, Schedules!Exists(s), NEW e, NEW m,
           e.state = occ[s].state, e.history = occ[s].history, ~(0 \in m \ missions[s])
    PROVE  Settles(s, e, m)
<1>1. occ[s] \in OccurrenceRows /\ Bounded(occ[s], pass[s])
  BY BornIs, Zenon
<1>2. Schedules!IsPrefix(occ[s].history, e.history)
  <2>1. occ[s].history \in Seq(Stamps)
    BY <1>1 DEF OccurrenceRows
  <2>2. QED BY <2>1, PrefixIs, Zenon
<1>3. occ[s].reclaims > MaxReclaims => e.state # "published"
  BY <1>1 DEF Bounded
<1>4. QED BY <1>2, <1>3, Zenon DEF Settles

LEMMA SettlesOpen ==
    ASSUME OccurrenceInv, NEW s \in Slots, Schedules!Exists(s), NEW e, NEW m,
           occ[s].state \notin Schedules!Terminal, e.state # "published",
           e.history = occ[s].history, ~(0 \in m \ missions[s])
    PROVE  Settles(s, e, m)
<1>1. occ[s] \in OccurrenceRows
  BY BornIs, Zenon
<1>2. Schedules!IsPrefix(occ[s].history, e.history)
  <2>1. occ[s].history \in Seq(Stamps)
    BY <1>1 DEF OccurrenceRows
  <2>2. QED BY <2>1, PrefixIs, Zenon
<1>3. QED BY <1>2, Zenon DEF Settles

LEMMA FinalStill ==
    ASSUME OccurrenceInv, \A t \in Schedules!Reserved : occ'[t] = occ[t] /\ missions'[t] = missions[t]
    PROVE  Final
<1>1. ASSUME NEW t \in Schedules!Reserved
      PROVE  Settles(t, occ'[t], missions'[t])
  <2>1. t \in Slots
    BY Zenon DEF Schedules!Reserved, OccurrenceInv, ScheduleTypes
  <2>2. Schedules!Exists(t)
    BY DEF Schedules!Reserved
  <2>3. occ'[t] = occ[t] /\ missions'[t] = missions[t]
    BY Zenon
  <2>4. ~(0 \in missions'[t] \ missions[t])
    BY <2>3
  <2>5. occ'[t].state = occ[t].state /\ occ'[t].history = occ[t].history
    BY <2>3
  <2>6. QED BY <2>1, <2>2, <2>4, <2>5, SettlesStill
<1>2. QED BY <1>1, Zenon DEF Final

Elsewhere(s) ==
  \A t \in Slots : t # s =>
    /\ occ'[t] = occ[t] /\ att'[t] = att[t] /\ retry'[t] = retry[t]
    /\ missions'[t] = missions[t] /\ pass'[t] = pass[t] /\ repair'[t] = repair[t]

(* Steps on one occurrence leave the history of the schedule as it was.       *)
LEMMA OneOccurrence ==
    ASSUME ScheduleHypotheses, OccurrenceInv, NEW s \in Slots, Schedules!Exists(s),
           ScheduleTypes', Elsewhere(s), clock' = clock, sched' = sched,
           occ'[s] \in OccurrenceRows, occ'[s].ordinal = occ[s].ordinal,
           occ'[s].snap = occ[s].snap, Owned(occ'[s]),
           Agreed(occ'[s], att'[s], missions'[s], pass'[s]),
           Mended(occ'[s], retry'[s], missions'[s], repair'[s]), Bounded(occ'[s], pass'[s])
    PROVE  OccurrenceInv'
<1>1. ASSUME NEW t \in Slots
      PROVE  SlotFits(occ'[t], att'[t], retry'[t], missions'[t], pass'[t], repair'[t])
  <2>1. CASE t = s
    BY <2>1, Zenon DEF SlotFits
  <2>2. CASE t # s
    <3>1. SlotFits(occ[t], att[t], retry[t], missions[t], pass[t], repair[t])
      BY Zenon DEF OccurrenceInv
    <3>2. QED BY <2>2, <3>1, Zenon DEF Elsewhere
  <2>3. QED BY <2>1, <2>2
<1>2. DOMAIN occ = Slots /\ DOMAIN occ' = Slots
  BY Zenon DEF OccurrenceInv, ScheduleTypes
<1>3. /\ Schedules!Reserved = {t \in Slots : occ[t].state # "none"}
      /\ Schedules!Reserved' = {t \in Slots : occ'[t].state # "none"}
  BY <1>2 DEF Schedules!Reserved, Schedules!Exists
<1>4. occ[s].state # "none" /\ occ'[s].state # "none"
  BY DEF Schedules!Exists, OccurrenceRows
<1>5. Schedules!Reserved' = Schedules!Reserved
  BY <1>3, <1>4 DEF Elsewhere
<1>6. \A t \in Schedules!Reserved : occ'[t].ordinal = occ[t].ordinal /\ occ'[t].snap = occ[t].snap
  BY <1>3 DEF Elsewhere
<1>7. Schedules!OrdinalsAreContiguous /\ Schedules!OneShotReservedOnce /\ Schedules!ConsumedStaysDisabled
  BY Zenon DEF OccurrenceInv
<1>8. Schedules!OrdinalsAreContiguous'
  <2>1. {occ'[t].ordinal : t \in Schedules!Reserved} = {occ[t].ordinal : t \in Schedules!Reserved}
    BY <1>6
  <2>2. /\ sched.runs = Cardinality(Schedules!Reserved)
        /\ {occ[t].ordinal : t \in Schedules!Reserved} = 0 .. (sched.runs - 1)
    BY <1>7, NumberIs, Zenon DEF Schedules!OrdinalsAreContiguous
  <2>3. /\ sched'.runs = Cardinality(Schedules!Reserved')
        /\ {occ'[t].ordinal : t \in Schedules!Reserved'} = 0 .. (sched'.runs - 1)
    BY <1>5, <2>1, <2>2, Zenon
  <2>4. QED BY <2>3, NumberIs, Zenon DEF Schedules!OrdinalsAreContiguous
<1>9. {t \in Schedules!Reserved' : occ'[t].snap.kind = "once"} = {t \in Schedules!Reserved : occ[t].snap.kind = "once"}
  BY <1>5, <1>6
<1>10. Schedules!OneShotReservedOnce'
  BY <1>7, <1>9, Zenon DEF Schedules!OneShotReservedOnce
<1>11. Schedules!ConsumedStaysDisabled'
  BY <1>5, <1>6, <1>7 DEF Schedules!ConsumedStaysDisabled, Schedules!Consumed
<1>12. QED BY <1>1, <1>8, <1>10, <1>11, Zenon DEF OccurrenceInv

(***************************************************************************)
(* The schedule                                                            *)
(***************************************************************************)
LEMMA ReservedAre ==
    ASSUME ScheduleHypotheses, OccurrenceInv
    PROVE  /\ Schedules!Reserved \in SUBSET Slots /\ IsFiniteSet(Schedules!Reserved)
           /\ sched.runs = Cardinality(Schedules!Reserved) /\ sched.runs \in Nat
           /\ {occ[t].ordinal : t \in Schedules!Reserved} = 0 .. (sched.runs - 1)
<1>1. Schedules!Reserved \in SUBSET Slots
  BY Zenon DEF Schedules!Reserved, OccurrenceInv, ScheduleTypes
<1>2. IsFiniteSet(Schedules!Reserved)
  BY <1>1, SlotsAre, FS_Subset
<1>3. /\ sched.runs = Cardinality(Schedules!Reserved)
      /\ {occ[t].ordinal : t \in Schedules!Reserved} = 0 .. (sched.runs - 1)
  BY NumberIs, Zenon DEF OccurrenceInv, Schedules!OrdinalsAreContiguous
<1>4. QED BY <1>1, <1>2, <1>3, FS_CardinalityType

Advanced(c, nxt, on) == [c EXCEPT !.next = nxt, !.runs = @ + 1, !.enabled = on]

LEMMA AdvancedIs ==
    ASSUME NEW c \in Schedules!Schedule, NEW nxt \in 0 .. Schedules!Never, NEW on \in BOOLEAN
    PROVE  /\ Advanced(c, nxt, on) \in Schedules!Schedule
           /\ Advanced(c, nxt, on).runs = c.runs + 1 /\ Advanced(c, nxt, on).kind = c.kind
           /\ Advanced(c, nxt, on).enabled = on
<1>1. Advanced(c, nxt, on) \in Schedules!Schedule
  <2> DEFINE d == Advanced(c, nxt, on)
             Fields == {"exists", "kind", "enabled", "at", "next", "runs", "title"}
  <2>1. d = [x \in Fields |-> d[x]]
    BY DEF Advanced, Schedules!Schedule
  <2>2. d.exists \in BOOLEAN /\ d.kind \in {"once", "recurring"}
    BY DEF Advanced, Schedules!Schedule
  <2>3. d.enabled \in BOOLEAN
    BY DEF Advanced, Schedules!Schedule
  <2>4. d.at \in Schedules!Slots /\ d.next \in 0 .. Schedules!Never /\ d.runs \in Nat /\ d.title \in {0, 1}
    BY DEF Advanced, Schedules!Schedule
  <2>5. QED BY <2>1, <2>2, <2>3, <2>4 DEF Schedules!Schedule
<1>2. Advanced(c, nxt, on).runs = c.runs + 1 /\ Advanced(c, nxt, on).kind = c.kind
  BY DEF Advanced, Schedules!Schedule
<1>3. Advanced(c, nxt, on).enabled = on
  BY DEF Advanced, Schedules!Schedule
<1>4. QED BY <1>1, <1>2, <1>3

(* An instant is reserved in the step that advances the schedule.             *)
LEMMA ReserveStep ==
    ASSUME ScheduleHypotheses, OccurrenceInv, NEW s \in Slots,
           NEW nxt \in 0 .. Schedules!Never, Schedules!Reserve(s, nxt)
    PROVE  Kept
<1> DEFINE new == [state |-> "reserved", ordinal |-> sched.runs, snap |-> Schedules!Revision(nxt),
                   owner |-> "none", live |-> FALSE, reclaims |-> 0,
                   coord |-> "pending", history |-> <<>>]
<1>1. /\ sched.exists /\ sched.enabled /\ ~Schedules!Exists(s)
      /\ occ' = [occ EXCEPT ![s] = new]
      /\ sched' = [sched EXCEPT !.next = nxt, !.runs = @ + 1, !.enabled = sched.kind = "recurring"]
      /\ pass' = [pass EXCEPT ![s]["scheduler"] = "reserved"]
      /\ UNCHANGED <<clock, att, retry, missions, repair, spent>>
  BY Zenon DEF Schedules!Reserve
<1>2. /\ clock \in Slots /\ sched \in Schedules!Schedule /\ ScheduleTypes
      /\ occ = [t \in Slots |-> occ[t]] /\ pass \in [Slots -> [Owners -> PassStates]]
  BY Zenon DEF OccurrenceInv, ScheduleTypes
<1>3. /\ sched.kind \in {"once", "recurring"} /\ sched.title \in {0, 1} /\ sched.at \in Slots
      /\ sched.runs \in Nat
  BY <1>2 DEF Schedules!Schedule, Slots
<1>4. sched' \in Schedules!Schedule /\ sched'.runs = sched.runs + 1 /\ sched'.kind = sched.kind
      /\ sched'.enabled = (sched.kind = "recurring")
  <2>1. sched' = Advanced(sched, nxt, sched.kind = "recurring")
    BY <1>1 DEF Advanced
  <2>2. (sched.kind = "recurring") \in BOOLEAN
    OBVIOUS
  <2>3. QED BY <1>2, <2>1, <2>2, AdvancedIs, Zenon
<1>5. Schedules!Revision(nxt) \in Snaps /\ Schedules!Revision(nxt).kind = sched.kind
  BY <1>3 DEF Schedules!Revision, Snaps
<1>6. new \in OccurrenceRows
  <2>1. <<>> \in Seq(Stamps) /\ 0 \in 0 .. MaxReclaims + 1
    BY DEF ScheduleHypotheses
  <2> HIDE DEF ScheduleHypotheses
  <2>2. QED BY <1>3, <1>5, <2>1 DEF OccurrenceRows
<1>7. /\ new.state = "reserved" /\ new.ordinal = sched.runs /\ new.snap = Schedules!Revision(nxt)
      /\ new.owner = "none" /\ new.reclaims = 0 /\ new.coord = "pending" /\ new.history = <<>>
  OBVIOUS
<1> HIDE DEF new
<1>8. /\ occ' = [t \in Slots |-> occ'[t]] /\ occ'[s] = new
      /\ \A t \in Slots : t # s => occ'[t] = occ[t]
  BY <1>1, <1>2
<1>9. /\ pass' \in [Slots -> [Owners -> PassStates]] /\ \A t \in Slots : t # s => pass'[t] = pass[t]
      /\ \A x \in Owners : pass'[s][x] = IF x = "scheduler" THEN "reserved" ELSE pass[s][x]
  BY <1>1, <1>2, SlotsAre DEF PassStates
<1>10. ScheduleTypes'
  BY <1>1, <1>2, <1>4, <1>8, <1>9 DEF ScheduleTypes
<1>11. Unborn(occ[s], att[s], missions[s], pass[s], repair[s])
  BY <1>1, BornIs
<1>12. SlotFits(new, att[s], retry[s], missions[s], pass'[s], repair[s])
  <2>1. Owned(new)
    BY <1>7 DEF Owned
  <2>2. Agreed(new, att[s], missions[s], pass'[s])
    <3>1. att[s] = "none" /\ missions[s] = {} /\ \A x \in Owners : pass'[s][x] # "ran"
      BY <1>9, <1>11 DEF Unborn
    <3>2. QED BY <1>7, <3>1 DEF Agreed
  <2>3. Mended(new, retry[s], missions[s], repair[s])
    <3>1. missions[s] = {} /\ repair[s] = Schedules!Idle
      BY <1>11 DEF Unborn
    <3>2. Repaired(new.history) = {}
      BY <1>7 DEF Repaired
    <3>3. QED BY <3>1, <3>2 DEF Mended, MendedBy
  <2>4. Bounded(new, pass'[s])
    BY <1>7 DEF Bounded, ScheduleHypotheses
  <2>5. QED BY <1>6, <2>1, <2>2, <2>3, <2>4, Zenon DEF SlotFits
<1>13. ASSUME NEW t \in Slots
       PROVE  SlotFits(occ'[t], att'[t], retry'[t], missions'[t], pass'[t], repair'[t])
  <2>1. /\ att' = att /\ retry' = retry /\ missions' = missions /\ repair' = repair
    BY <1>1
  <2>2. CASE t = s
    BY <2>1, <2>2, <1>8, <1>12, Zenon
  <2>3. CASE t # s
    <3>1. SlotFits(occ[t], att[t], retry[t], missions[t], pass[t], repair[t])
      BY Zenon DEF OccurrenceInv
    <3>2. occ'[t] = occ[t] /\ pass'[t] = pass[t]
      BY <2>3, <1>8, <1>9, Zenon
    <3>3. QED BY <2>1, <3>1, <3>2, Zenon
  <2>4. QED BY <2>2, <2>3
<1>14. Schedules!Reserved' = Schedules!Reserved \cup {s} /\ s \notin Schedules!Reserved
  <2>1. DOMAIN occ = Slots /\ DOMAIN occ' = Slots
    BY <1>2, <1>8, Zenon
  <2>2. /\ Schedules!Reserved = {t \in Slots : occ[t].state # "none"}
        /\ Schedules!Reserved' = {t \in Slots : occ'[t].state # "none"}
    BY <2>1 DEF Schedules!Reserved, Schedules!Exists
  <2>3. occ[s].state = "none" /\ occ'[s].state = "reserved"
    BY <1>1, <1>7, <1>8 DEF Schedules!Exists
  <2>4. QED BY <2>2, <2>3, <1>8
<1>15. /\ Schedules!Reserved \in SUBSET Slots /\ IsFiniteSet(Schedules!Reserved)
       /\ sched.runs = Cardinality(Schedules!Reserved)
       /\ {occ[t].ordinal : t \in Schedules!Reserved} = 0 .. (sched.runs - 1)
  BY ReservedAre
<1>16. \A t \in Schedules!Reserved : occ'[t] = occ[t]
  BY <1>8, <1>14, <1>15
<1>17. Schedules!OrdinalsAreContiguous'
  <2>1. Cardinality(Schedules!Reserved') = sched.runs + 1
    BY <1>14, <1>15, FS_AddElement
  <2>2. {occ'[t].ordinal : t \in Schedules!Reserved'} = 0 .. sched.runs
    <3>1. {occ'[t].ordinal : t \in Schedules!Reserved'} =
            {occ[t].ordinal : t \in Schedules!Reserved} \cup {sched.runs}
      BY <1>7, <1>8, <1>14, <1>16
    <3>2. (0 .. (sched.runs - 1)) \cup {sched.runs} = 0 .. sched.runs
      BY <1>3
    <3>3. QED BY <3>1, <3>2, <1>15
  <2>3. sched'.runs - 1 = sched.runs
    BY <1>3, <1>4
  <2>4. QED BY <1>4, <2>1, <2>2, <2>3, NumberIs, Zenon DEF Schedules!OrdinalsAreContiguous
<1> DEFINE Singles == {t \in Schedules!Reserved : occ[t].snap.kind = "once"}
<1>18. Cardinality(Singles) =< 1 /\ (sched.kind = "once" => Singles = {})
  <2>1. Cardinality(Singles) =< 1
    BY NumberIs, Zenon DEF OccurrenceInv, Schedules!OneShotReservedOnce
  <2>2. sched.kind = "once" => Singles = {}
    BY <1>1 DEF OccurrenceInv, Schedules!ConsumedStaysDisabled, Schedules!Consumed
  <2>3. QED BY <2>1, <2>2
<1>19. {t \in Schedules!Reserved' : occ'[t].snap.kind = "once"} =
         IF sched.kind = "once" THEN Singles \cup {s} ELSE Singles
  BY <1>5, <1>7, <1>8, <1>14, <1>16
<1>20. Schedules!OneShotReservedOnce'
  <2>1. Cardinality({t \in Schedules!Reserved' : occ'[t].snap.kind = "once"}) =< 1
    <3>1. CASE sched.kind = "once"
      <4>1. {t \in Schedules!Reserved' : occ'[t].snap.kind = "once"} = {s}
        BY <1>18, <1>19, <3>1
      <4>2. Cardinality({s}) = 1
        BY FS_Singleton
      <4>3. QED BY <4>1, <4>2
    <3>2. CASE sched.kind # "once"
      BY <1>18, <1>19, <3>2
    <3>3. QED BY <3>1, <3>2
  <2>2. QED BY <2>1, NumberIs, Zenon DEF Schedules!OneShotReservedOnce
<1>21. Schedules!ConsumedStaysDisabled'
  BY <1>3, <1>4 DEF Schedules!ConsumedStaysDisabled
<1>22. OccurrenceInv'
  BY <1>10, <1>13, <1>17, <1>20, <1>21, Zenon DEF OccurrenceInv
<1>23. Final
  <2>1. missions' = missions
    BY <1>1
  <2>2. QED BY <1>16, <2>1, FinalStill, Zenon
<1>24. QED BY <1>22, <1>23 DEF Kept

LEMMA PollStep ==
    ASSUME ScheduleHypotheses, OccurrenceInv, Schedules!Poll
    PROVE  Kept
<1>1. clock \in Slots /\ sched \in Schedules!Schedule
  BY Zenon DEF OccurrenceInv, ScheduleTypes
<1>2. /\ sched.next =< clock /\ Schedules!Reserve(sched.next, Schedules!NextRun(sched.kind, clock))
  BY DEF Schedules!Poll
<1>3. sched.next \in Slots /\ Schedules!NextRun(sched.kind, clock) \in 0 .. Schedules!Never
  <2>1. sched.next \in 0 .. Schedules!Never /\ MaxSlot \in Nat
    BY <1>1 DEF Schedules!Schedule, ScheduleHypotheses
  <2>2. QED BY <1>1, <1>2, <2>1, SlotsAre DEF Schedules!NextRun
<1>4. QED BY <1>2, <1>3, ReserveStep

LEMMA RunNowStep ==
    ASSUME ScheduleHypotheses, OccurrenceInv, Schedules!RunNow
    PROVE  Kept
<1>1. clock \in Slots
  BY Zenon DEF OccurrenceInv, ScheduleTypes
<1>2. /\ sched.next \in Slots
      /\ Schedules!Reserve(sched.next, Schedules!NextRun(sched.kind, Schedules!Later(clock, sched.next)))
  BY DEF Schedules!RunNow, Slots
<1>3. Schedules!NextRun(sched.kind, Schedules!Later(clock, sched.next)) \in 0 .. Schedules!Never
  <2>1. Schedules!Later(clock, sched.next) \in Slots /\ MaxSlot \in Nat
    BY <1>1, <1>2 DEF Schedules!Later, ScheduleHypotheses
  <2>2. QED BY <2>1, SlotsAre DEF Schedules!NextRun
<1>4. QED BY <1>2, <1>3, ReserveStep

(* Steps that leave the occurrences alone: the clock and the edits.           *)
LEMMA ScheduleOnly ==
    ASSUME ScheduleHypotheses, OccurrenceInv, clock' \in Slots, sched' \in Schedules!Schedule,
           sched'.runs = sched.runs, UNCHANGED <<occ, att, retry, missions, pass, repair>>,
           Schedules!Consumed /\ sched'.kind = "once" => sched'.enabled = FALSE
    PROVE  Kept
<1>1. /\ occ' = occ /\ att' = att /\ retry' = retry /\ missions' = missions /\ pass' = pass
      /\ repair' = repair
  OBVIOUS
<1>2. ScheduleTypes'
  BY <1>1, Zenon DEF OccurrenceInv, ScheduleTypes
<1>3. \A s \in Slots : SlotFits(occ'[s], att'[s], retry'[s], missions'[s], pass'[s], repair'[s])
  BY <1>1, Zenon DEF OccurrenceInv
<1>4. Schedules!Reserved' = Schedules!Reserved
  BY <1>1, Zenon DEF Schedules!Reserved, Schedules!Exists
<1>5. Schedules!OrdinalsAreContiguous'
  BY <1>1, <1>4, NumberIs, Zenon DEF OccurrenceInv, Schedules!OrdinalsAreContiguous
<1>6. Schedules!OneShotReservedOnce'
  BY <1>1, <1>4, NumberIs, Zenon DEF OccurrenceInv, Schedules!OneShotReservedOnce
<1>7. Schedules!ConsumedStaysDisabled'
  <2>1. Schedules!Consumed' = Schedules!Consumed
    BY <1>1, <1>4, Zenon DEF Schedules!Consumed
  <2>2. QED BY <2>1, Zenon DEF Schedules!ConsumedStaysDisabled
<1>8. Final
  BY <1>1, FinalStill, Zenon
<1>9. QED BY <1>2, <1>3, <1>5, <1>6, <1>7, <1>8, Zenon DEF OccurrenceInv, Kept

LEMMA TickOccurrence ==
    ASSUME ScheduleHypotheses, OccurrenceInv, Schedules!Tick
    PROVE  Kept
<1>1. sched \in Schedules!Schedule /\ clock \in Slots
  BY Zenon DEF OccurrenceInv, ScheduleTypes
<1>2. clock' \in Slots
  BY <1>1, SlotsAre DEF Schedules!Tick, ScheduleHypotheses
<1>3. sched' = sched /\ UNCHANGED <<occ, att, retry, missions, pass, repair>>
  BY DEF Schedules!Tick
<1>4. Schedules!Consumed /\ sched.kind = "once" => sched.enabled = FALSE
  <2>1. Schedules!Consumed /\ sched.kind = "once" => ~sched.enabled
    BY Zenon DEF OccurrenceInv, Schedules!ConsumedStaysDisabled
  <2>2. sched.enabled \in BOOLEAN
    BY <1>1 DEF Schedules!Schedule
  <2>3. QED BY <2>1, <2>2, Zenon
<1>5. QED BY <1>1, <1>2, <1>3, <1>4, ScheduleOnly, Zenon

Titled(c, t) == [c EXCEPT !.title = t]
Switched(c) == [c EXCEPT !.enabled = FALSE]
Removed(c) == [c EXCEPT !.exists = FALSE]
Retimed(c, kind, at, on, nxt) ==
  [c EXCEPT !.kind = kind, !.at = at, !.enabled = on, !.next = nxt]

LEMMA TitledIs ==
    ASSUME NEW c \in Schedules!Schedule, NEW t \in {0, 1}
    PROVE  /\ Titled(c, t) \in Schedules!Schedule /\ Titled(c, t).runs = c.runs
           /\ Titled(c, t).kind = c.kind /\ Titled(c, t).enabled = c.enabled
<1>1. Titled(c, t) \in Schedules!Schedule
  BY DEF Titled, Schedules!Schedule
<1>2. Titled(c, t).runs = c.runs /\ Titled(c, t).kind = c.kind
  BY DEF Titled, Schedules!Schedule
<1>3. Titled(c, t).enabled = c.enabled
  BY DEF Titled, Schedules!Schedule
<1>4. QED BY <1>1, <1>2, <1>3

LEMMA SwitchedIs ==
    ASSUME NEW c \in Schedules!Schedule
    PROVE  /\ Switched(c) \in Schedules!Schedule /\ Switched(c).runs = c.runs
           /\ Switched(c).enabled = FALSE
<1>1. Switched(c) \in Schedules!Schedule
  BY DEF Switched, Schedules!Schedule
<1>2. Switched(c).runs = c.runs
  BY DEF Switched, Schedules!Schedule
<1>3. Switched(c).enabled = FALSE
  BY DEF Switched, Schedules!Schedule
<1>4. QED BY <1>1, <1>2, <1>3

LEMMA RemovedIs ==
    ASSUME NEW c \in Schedules!Schedule
    PROVE  /\ Removed(c) \in Schedules!Schedule /\ Removed(c).runs = c.runs
           /\ Removed(c).kind = c.kind /\ Removed(c).enabled = c.enabled
<1>1. Removed(c) \in Schedules!Schedule
  BY DEF Removed, Schedules!Schedule
<1>2. Removed(c).runs = c.runs /\ Removed(c).kind = c.kind
  BY DEF Removed, Schedules!Schedule
<1>3. Removed(c).enabled = c.enabled
  BY DEF Removed, Schedules!Schedule
<1>4. QED BY <1>1, <1>2, <1>3

LEMMA RetimedIs ==
    ASSUME NEW c \in Schedules!Schedule, NEW kind \in {"once", "recurring"}, NEW at \in Schedules!Slots,
           NEW on \in BOOLEAN, NEW nxt \in 0 .. Schedules!Never
    PROVE  /\ Retimed(c, kind, at, on, nxt) \in Schedules!Schedule
           /\ Retimed(c, kind, at, on, nxt).runs = c.runs
<1>1. Retimed(c, kind, at, on, nxt) \in Schedules!Schedule
  <2> DEFINE d == Retimed(c, kind, at, on, nxt)
             Fields == {"exists", "kind", "enabled", "at", "next", "runs", "title"}
  <2>1. d = [x \in Fields |-> d[x]]
    BY DEF Retimed, Schedules!Schedule
  <2>2. d.exists \in BOOLEAN /\ d.kind \in {"once", "recurring"}
    BY DEF Retimed, Schedules!Schedule
  <2>3. d.enabled \in BOOLEAN
    BY DEF Retimed, Schedules!Schedule
  <2>4. d.at \in Schedules!Slots /\ d.next \in 0 .. Schedules!Never /\ d.runs \in Nat /\ d.title \in {0, 1}
    BY DEF Retimed, Schedules!Schedule
  <2>5. QED BY <2>1, <2>2, <2>3, <2>4 DEF Schedules!Schedule
<1>2. Retimed(c, kind, at, on, nxt).runs = c.runs
  BY DEF Retimed, Schedules!Schedule
<1>3. QED BY <1>1, <1>2

(* Enabling and retiming need an unconsumed entitlement.                      *)
LEMMA RetimeStep ==
    ASSUME ScheduleHypotheses, OccurrenceInv, NEW kind \in {"once", "recurring"}, NEW at \in Slots,
           NEW on \in BOOLEAN, Schedules!Retime(kind, at, on)
    PROVE  Kept
<1>1. sched \in Schedules!Schedule /\ clock \in Slots
  BY Zenon DEF OccurrenceInv, ScheduleTypes
<1> DEFINE nxt == IF kind = "once" THEN at ELSE Schedules!NextRun(kind, clock)
<1>2. nxt \in 0 .. Schedules!Never
  <2>1. at \in Nat /\ at =< MaxSlot /\ clock \in Nat /\ clock =< MaxSlot /\ MaxSlot \in Nat
    BY <1>1, SlotsAre DEF ScheduleHypotheses
  <2>2. QED BY <2>1, SlotsAre DEF Schedules!NextRun
<1>3. /\ ~Schedules!Consumed /\ sched' = Retimed(sched, kind, at, on, nxt)
      /\ clock' = clock /\ UNCHANGED <<occ, att, retry, missions, pass, repair>>
  BY DEF Schedules!Retime, Schedules!Edit, Retimed
<1> HIDE DEF nxt
<1>4. at \in Schedules!Slots
  BY DEF Slots
<1>5. sched' \in Schedules!Schedule /\ sched'.runs = sched.runs
  BY <1>1, <1>2, <1>3, <1>4, RetimedIs, ZenonT(40)
<1>6. QED BY <1>1, <1>3, <1>5, ScheduleOnly, Zenon

LEMMA EditStep ==
    ASSUME ScheduleHypotheses, OccurrenceInv, Schedules!Editing
    PROVE  Kept
<1>1. sched \in Schedules!Schedule /\ clock \in Slots
  BY Zenon DEF OccurrenceInv, ScheduleTypes
<1>2. sched.enabled \in BOOLEAN /\ sched.kind \in {"once", "recurring"} /\ sched.at \in Slots
  BY <1>1 DEF Schedules!Schedule, Slots
<1>3. Schedules!Consumed /\ sched.kind = "once" => sched.enabled = FALSE
  <2>1. Schedules!Consumed /\ sched.kind = "once" => ~sched.enabled
    BY Zenon DEF OccurrenceInv, Schedules!ConsumedStaysDisabled
  <2>2. QED BY <1>2, <2>1, Zenon
<1>4. ASSUME NEW t \in {0, 1}, Schedules!EditMetadata(t) PROVE Kept
  <2>1. /\ sched' = Titled(sched, t) /\ clock' = clock
        /\ UNCHANGED <<occ, att, retry, missions, pass, repair>>
    BY <1>4 DEF Schedules!EditMetadata, Schedules!Edit, Titled
  <2>2. QED BY <1>1, <1>3, <2>1, TitledIs, ScheduleOnly, Zenon
<1>5. CASE Schedules!Disable
  <2>1. /\ sched' = Switched(sched) /\ clock' = clock
        /\ UNCHANGED <<occ, att, retry, missions, pass, repair>>
    BY <1>5 DEF Schedules!Disable, Schedules!Edit, Switched
  <2>2. QED BY <1>1, <2>1, SwitchedIs, ScheduleOnly, Zenon
<1>6. CASE Schedules!Delete
  <2>1. /\ sched' = Removed(sched) /\ clock' = clock
        /\ UNCHANGED <<occ, att, retry, missions, pass, repair>>
    BY <1>6 DEF Schedules!Delete, Schedules!Edit, Removed
  <2>2. QED BY <1>1, <1>3, <2>1, RemovedIs, ScheduleOnly, Zenon
<1>7. CASE Schedules!Enable
  BY <1>2, <1>7, RetimeStep, Zenon DEF Schedules!Enable
<1>8. CASE Schedules!EditTiming
  <2>1. PICK k \in CadenceKinds, a \in Slots : Schedules!Retime(k, a, sched.enabled)
    BY <1>8, Zenon DEF Schedules!EditTiming, Slots
  <2>2. k \in {"once", "recurring"}
    BY DEF ScheduleHypotheses
  <2>3. QED BY <1>2, <2>1, <2>2, RetimeStep, Zenon
<1>9. QED BY <1>4, <1>5, <1>6, <1>7, <1>8, Zenon DEF Schedules!Editing

(***************************************************************************)
(* The publication of an occurrence                                        *)
(***************************************************************************)
ClaimedRow(e, o) == [e EXCEPT !.state = "publishing", !.owner = o, !.live = TRUE]
ClosedRow(e, final, coord) ==
  [e EXCEPT !.state = final, !.owner = "none", !.live = FALSE, !.coord = coord]
Lapsed(e) == [e EXCEPT !.live = FALSE]
Retaken(e, w) ==
  [e EXCEPT !.owner = w, !.live = TRUE, !.reclaims = IF @ > MaxReclaims THEN @ ELSE @ + 1]
Noted(e, n, out) == [e EXCEPT !.history = Append(@, [n |-> n, outcome |-> out])]

(* What a step did not touch of a row.                                        *)
SameReservation(d, e) == d.ordinal = e.ordinal /\ d.snap = e.snap

RowFields == {"state", "ordinal", "snap", "owner", "live", "reclaims", "coord", "history"}

LEMMA ClaimedRowIs ==
    ASSUME NEW e \in OccurrenceRows, NEW o \in Owners
    PROVE  /\ ClaimedRow(e, o) \in OccurrenceRows /\ SameReservation(ClaimedRow(e, o), e)
           /\ ClaimedRow(e, o).state = "publishing" /\ ClaimedRow(e, o).owner = o
           /\ ClaimedRow(e, o).reclaims = e.reclaims /\ ClaimedRow(e, o).coord = e.coord
           /\ ClaimedRow(e, o).history = e.history
<1>1. ClaimedRow(e, o) \in OccurrenceRows
  BY DEF ClaimedRow, OccurrenceRows
<1>2. SameReservation(ClaimedRow(e, o), e)
  BY DEF ClaimedRow, OccurrenceRows, SameReservation
<1>3. ClaimedRow(e, o).state = "publishing" /\ ClaimedRow(e, o).owner = o
  BY DEF ClaimedRow, OccurrenceRows
<1>4. /\ ClaimedRow(e, o).reclaims = e.reclaims /\ ClaimedRow(e, o).coord = e.coord
      /\ ClaimedRow(e, o).history = e.history
  BY DEF ClaimedRow, OccurrenceRows
<1>5. QED BY <1>1, <1>2, <1>3, <1>4

LEMMA ClosedRowIs ==
    ASSUME NEW e \in OccurrenceRows, NEW f \in {"published", "rejected"},
           NEW c \in {"pending", "created", "rejected"}
    PROVE  /\ ClosedRow(e, f, c) \in OccurrenceRows /\ SameReservation(ClosedRow(e, f, c), e)
           /\ ClosedRow(e, f, c).state = f /\ ClosedRow(e, f, c).owner = "none"
           /\ ClosedRow(e, f, c).reclaims = e.reclaims /\ ClosedRow(e, f, c).coord = c
           /\ ClosedRow(e, f, c).history = e.history
<1>1. ClosedRow(e, f, c) \in OccurrenceRows
  BY DEF ClosedRow, OccurrenceRows
<1>2. SameReservation(ClosedRow(e, f, c), e)
  BY DEF ClosedRow, OccurrenceRows, SameReservation
<1>3. ClosedRow(e, f, c).state = f /\ ClosedRow(e, f, c).owner = "none"
  BY DEF ClosedRow, OccurrenceRows
<1>4. /\ ClosedRow(e, f, c).reclaims = e.reclaims /\ ClosedRow(e, f, c).coord = c
      /\ ClosedRow(e, f, c).history = e.history
  BY DEF ClosedRow, OccurrenceRows
<1>5. QED BY <1>1, <1>2, <1>3, <1>4

LEMMA LapsedIs ==
    ASSUME NEW e \in OccurrenceRows
    PROVE  /\ Lapsed(e) \in OccurrenceRows /\ SameReservation(Lapsed(e), e)
           /\ Lapsed(e).state = e.state /\ Lapsed(e).owner = e.owner
           /\ Lapsed(e).reclaims = e.reclaims /\ Lapsed(e).coord = e.coord
           /\ Lapsed(e).history = e.history
<1>1. Lapsed(e) \in OccurrenceRows
  BY DEF Lapsed, OccurrenceRows
<1>2. SameReservation(Lapsed(e), e)
  BY DEF Lapsed, OccurrenceRows, SameReservation
<1>3. Lapsed(e).state = e.state /\ Lapsed(e).owner = e.owner
  BY DEF Lapsed, OccurrenceRows
<1>4. /\ Lapsed(e).reclaims = e.reclaims /\ Lapsed(e).coord = e.coord
      /\ Lapsed(e).history = e.history
  BY DEF Lapsed, OccurrenceRows
<1>5. QED BY <1>1, <1>2, <1>3, <1>4

LEMMA RetakenIs ==
    ASSUME ScheduleHypotheses, NEW e \in OccurrenceRows, NEW w \in Owners
    PROVE  /\ Retaken(e, w) \in OccurrenceRows /\ SameReservation(Retaken(e, w), e)
           /\ Retaken(e, w).state = e.state /\ Retaken(e, w).owner = w
           /\ Retaken(e, w).reclaims > MaxReclaims => e.reclaims >= MaxReclaims
           /\ e.reclaims > MaxReclaims => Retaken(e, w).reclaims > MaxReclaims
           /\ Retaken(e, w).coord = e.coord /\ Retaken(e, w).history = e.history
<1> DEFINE d == Retaken(e, w)
<1>1. e.reclaims \in 0 .. MaxReclaims + 1 /\ MaxReclaims \in Nat
  BY DEF OccurrenceRows, ScheduleHypotheses
<1>2. d.reclaims = IF e.reclaims > MaxReclaims THEN e.reclaims ELSE e.reclaims + 1
  BY DEF Retaken, OccurrenceRows
<1>3. /\ d.reclaims \in 0 .. MaxReclaims + 1
      /\ d.reclaims > MaxReclaims => e.reclaims >= MaxReclaims
      /\ e.reclaims > MaxReclaims => d.reclaims > MaxReclaims
  BY <1>1, <1>2
<1>4. d = [x \in RowFields |-> d[x]]
  BY DEF Retaken, OccurrenceRows, RowFields
<1>5. d.state = e.state /\ d.owner = w /\ d.live = TRUE
  BY DEF Retaken, OccurrenceRows
<1>6. d.ordinal = e.ordinal /\ d.snap = e.snap
  BY DEF Retaken, OccurrenceRows
<1>7. d.coord = e.coord /\ d.history = e.history
  BY DEF Retaken, OccurrenceRows
<1> HIDE DEF d
<1>8. d \in OccurrenceRows
  <2>1. /\ e.state \in {"reserved", "publishing", "published", "rejected"} /\ e.ordinal \in Nat
        /\ e.snap \in Snaps /\ e.coord \in {"pending", "created", "rejected"}
        /\ e.history \in Seq(Stamps)
    BY DEF OccurrenceRows
  <2>2. QED BY <1>3, <1>4, <1>5, <1>6, <1>7, <2>1 DEF OccurrenceRows, RowFields
<1>9. QED BY <1>3, <1>5, <1>6, <1>7, <1>8 DEF d, SameReservation

LEMMA NotedIs ==
    ASSUME NEW e \in OccurrenceRows, NEW n \in 1 .. MaxRetries, NEW out \in {"repaired", "failed"}
    PROVE  /\ Noted(e, n, out) \in OccurrenceRows /\ SameReservation(Noted(e, n, out), e)
           /\ Noted(e, n, out).state = e.state /\ Noted(e, n, out).owner = e.owner
           /\ Noted(e, n, out).reclaims = e.reclaims /\ Noted(e, n, out).coord = e.coord
           /\ Noted(e, n, out).history = Append(e.history, [n |-> n, outcome |-> out])
<1>0. [n |-> n, outcome |-> out] \in Stamps
  BY DEF Stamps
<1>1. PICK st \in Stamps : st = [n |-> n, outcome |-> out]
  BY <1>0
<1>2. Noted(e, n, out) = [e EXCEPT !.history = Append(@, st)]
  BY <1>1 DEF Noted
<1>3. [e EXCEPT !.history = Append(@, st)] \in OccurrenceRows
  <2>1. e.history \in Seq(Stamps)
    BY DEF OccurrenceRows
  <2>2. Append(e.history, st) \in Seq(Stamps)
    BY <2>1
  <2>3. QED BY <2>2 DEF OccurrenceRows
<1>4. SameReservation([e EXCEPT !.history = Append(@, st)], e)
  BY DEF OccurrenceRows, SameReservation
<1>5. /\ [e EXCEPT !.history = Append(@, st)].state = e.state
      /\ [e EXCEPT !.history = Append(@, st)].owner = e.owner
      /\ [e EXCEPT !.history = Append(@, st)].reclaims = e.reclaims
      /\ [e EXCEPT !.history = Append(@, st)].coord = e.coord
      /\ [e EXCEPT !.history = Append(@, st)].history = Append(e.history, st)
  BY DEF OccurrenceRows
<1>6. QED BY <1>1, <1>2, <1>3, <1>4, <1>5, Zenon

PassTo(p, o, v) == [p EXCEPT ![o] = v]

LEMMA PassToIs ==
    ASSUME NEW p \in [Owners -> PassStates], NEW o \in Owners, NEW v \in PassStates
    PROVE  /\ PassTo(p, o, v) \in [Owners -> PassStates] /\ PassTo(p, o, v)[o] = v
           /\ \A x \in Owners : x # o => PassTo(p, o, v)[x] = p[x]
BY DEF PassTo

(* A step that rewrites the records of one instant.                           *)
Rewrites(s, o, a, y, m, p, r) ==
  /\ occ' = [occ EXCEPT ![s] = o] /\ att' = [att EXCEPT ![s] = a]
  /\ retry' = [retry EXCEPT ![s] = y] /\ missions' = [missions EXCEPT ![s] = m]
  /\ pass' = [pass EXCEPT ![s] = p] /\ repair' = [repair EXCEPT ![s] = r]
  /\ clock' = clock /\ sched' = sched

(* A schedule that did not drift is the one its occurrence was taken from.    *)
SameSchedule(snap) ==
  sched.title = snap.title /\ sched.kind = snap.kind /\ sched.enabled = snap.enabled

LEMMA UndriftedIs == \A snap : ~Schedules!Drifted(snap) => SameSchedule(snap)
BY DEF Schedules!Drifted, SameSchedule

LEMMA SettlesNoted ==
    ASSUME OccurrenceInv, NEW s \in Slots, Schedules!Exists(s), NEW e, NEW m,
           NEW n \in 1 .. MaxRetries, NEW out \in {"repaired", "failed"},
           e.state = occ[s].state,
           e.history = Append(occ[s].history, [n |-> n, outcome |-> out]), ~(0 \in m \ missions[s])
    PROVE  Settles(s, e, m)
<1>1. occ[s] \in OccurrenceRows /\ Bounded(occ[s], pass[s])
  BY BornIs, Zenon
<1>2. Schedules!IsPrefix(occ[s].history, e.history)
  <2>1. occ[s].history \in Seq(Stamps)
    BY <1>1 DEF OccurrenceRows
  <2>2. [n |-> n, outcome |-> out] \in Stamps
    BY DEF Stamps
  <2>3. QED BY <2>1, <2>2, PrefixIs, Zenon
<1>3. occ[s].reclaims > MaxReclaims => e.state # "published"
  BY <1>1 DEF Bounded
<1>4. QED BY <1>2, <1>3, Zenon DEF Settles

LEMMA SlotIs ==
    ASSUME OccurrenceInv, NEW s \in Slots
    PROVE  /\ att[s] \in AttemptKinds /\ retry[s] \in [1 .. MaxRetries -> RetryKinds]
           /\ missions[s] \in SUBSET (0 .. MaxRetries) /\ pass[s] \in [Owners -> PassStates]
           /\ occ = [occ EXCEPT ![s] = occ[s]] /\ att = [att EXCEPT ![s] = att[s]]
           /\ retry = [retry EXCEPT ![s] = retry[s]] /\ missions = [missions EXCEPT ![s] = missions[s]]
           /\ pass = [pass EXCEPT ![s] = pass[s]] /\ repair = [repair EXCEPT ![s] = repair[s]]
<1>1. ScheduleTypes
  BY Zenon DEF OccurrenceInv
<1>2. occ = [occ EXCEPT ![s] = occ[s]] /\ att = [att EXCEPT ![s] = att[s]]
  BY <1>1 DEF ScheduleTypes
<1>3. retry = [retry EXCEPT ![s] = retry[s]] /\ missions = [missions EXCEPT ![s] = missions[s]]
  BY <1>1 DEF ScheduleTypes
<1>4. pass = [pass EXCEPT ![s] = pass[s]] /\ repair = [repair EXCEPT ![s] = repair[s]]
  BY <1>1 DEF ScheduleTypes
<1>5. QED BY <1>1, <1>2, <1>3, <1>4 DEF ScheduleTypes

LEMMA RewritesKeeps ==
    ASSUME ScheduleHypotheses, OccurrenceInv, NEW s \in Slots, Schedules!Exists(s),
           NEW o \in OccurrenceRows, NEW a \in AttemptKinds,
           NEW y \in [1 .. MaxRetries -> RetryKinds], NEW m \in SUBSET (0 .. MaxRetries),
           NEW p \in [Owners -> PassStates], NEW r,
           Rewrites(s, o, a, y, m, p, r), SameReservation(o, occ[s]), Owned(o),
           Agreed(o, a, m, p), Mended(o, y, m, r), Bounded(o, p), Settles(s, o, m)
    PROVE  Kept
<1>1. ScheduleTypes
  BY Zenon DEF OccurrenceInv
<1>2. /\ occ' = [t \in Slots |-> occ'[t]] /\ occ'[s] = o
      /\ \A t \in Slots : t # s => occ'[t] = occ[t]
  BY <1>1 DEF ScheduleTypes, Rewrites
<1>3. att' \in [Slots -> AttemptKinds] /\ att'[s] = a /\ \A t \in Slots : t # s => att'[t] = att[t]
  BY <1>1 DEF ScheduleTypes, Rewrites
<1>4. /\ retry' \in [Slots -> [1 .. MaxRetries -> RetryKinds]] /\ retry'[s] = y
      /\ \A t \in Slots : t # s => retry'[t] = retry[t]
  BY <1>1 DEF ScheduleTypes, Rewrites
<1>5. /\ missions' \in [Slots -> SUBSET (0 .. MaxRetries)] /\ missions'[s] = m
      /\ \A t \in Slots : t # s => missions'[t] = missions[t]
  BY <1>1 DEF ScheduleTypes, Rewrites
<1>6. /\ pass' \in [Slots -> [Owners -> PassStates]] /\ pass'[s] = p
      /\ \A t \in Slots : t # s => pass'[t] = pass[t]
  BY <1>1 DEF ScheduleTypes, Rewrites
<1>7. /\ repair' = [t \in Slots |-> repair'[t]] /\ repair'[s] = r
      /\ \A t \in Slots : t # s => repair'[t] = repair[t]
  BY <1>1 DEF ScheduleTypes, Rewrites
<1>8. clock' = clock /\ sched' = sched
  BY Zenon DEF Rewrites
<1>9. ScheduleTypes'
  BY <1>1, <1>2, <1>3, <1>4, <1>5, <1>6, <1>7, <1>8, Zenon DEF ScheduleTypes
<1>10. Elsewhere(s)
  BY <1>2, <1>3, <1>4, <1>5, <1>6, <1>7, Zenon DEF Elsewhere
<1>11. o.ordinal = occ[s].ordinal /\ o.snap = occ[s].snap
  BY Zenon DEF SameReservation
<1>12. OccurrenceInv'
  BY <1>2, <1>3, <1>4, <1>5, <1>6, <1>7, <1>8, <1>9, <1>10, <1>11, OneOccurrence, Zenon
<1>13. ASSUME NEW t \in Schedules!Reserved PROVE Settles(t, occ'[t], missions'[t])
  <2>1. t \in Slots /\ Schedules!Exists(t)
    BY Zenon DEF Schedules!Reserved, OccurrenceInv, ScheduleTypes
  <2>2. CASE t = s
    BY <1>2, <1>5, <2>2, Zenon
  <2>3. CASE t # s
    <3>1. occ'[t] = occ[t] /\ missions'[t] = missions[t]
      BY <1>2, <1>5, <2>1, <2>3, Zenon
    <3>2. ~(0 \in missions'[t] \ missions[t])
      BY <3>1
    <3>3. occ'[t].state = occ[t].state /\ occ'[t].history = occ[t].history
      BY <3>1
    <3>4. QED BY <2>1, <3>2, <3>3, SettlesStill
  <2>4. QED BY <2>2, <2>3
<1>14. QED BY <1>12, <1>13, Zenon DEF Final, Kept

LEMMA MendedSame ==
    ASSUME NEW e, NEW o, NEW y, NEW m, NEW n, NEW r, Mended(e, y, m, r),
           o.history = e.history, n \ {0} = m \ {0}
    PROVE  Mended(o, y, n, r)
BY Zenon DEF Mended

LEMMA BoundedIdle ==
    ASSUME NEW e \in OccurrenceRows, NEW p \in [Owners -> PassStates], NEW o \in Owners,
           Bounded(e, p), Owned(e)
    PROVE  Bounded(e, PassTo(p, o, "idle"))
<1>1. PassTo(p, o, "idle")[o] = "idle" /\ \A x \in Owners : x # o => PassTo(p, o, "idle")[x] = p[x]
  BY PassToIs DEF PassStates
<1>2. e.state = "publishing" => e.owner \in Owners
  BY DEF Owned, OccurrenceRows
<1>3. QED BY <1>1, <1>2 DEF Bounded

LEMMA AgreedIdle ==
    ASSUME NEW e, NEW a, NEW m, NEW p \in [Owners -> PassStates], NEW o \in Owners,
           NEW v \in PassStates, v # "ran", Agreed(e, a, m, p)
    PROVE  Agreed(e, a, m, PassTo(p, o, v))
<1>1. PassTo(p, o, v)[o] = v /\ \A x \in Owners : x # o => PassTo(p, o, v)[x] = p[x]
  BY PassToIs
<1>2. QED BY <1>1 DEF Agreed

(* A pass that ends without deciding leaves its occurrence as it was.         *)
LEMMA EndStep ==
    ASSUME ScheduleHypotheses, OccurrenceInv, NEW s \in Slots, NEW o \in Owners,
           pass[s][o] # "idle", Schedules!End(s, o),
           UNCHANGED <<clock, sched, occ, att, retry, missions, repair>>
    PROVE  Kept
<1>1. Schedules!Exists(s)
  BY BornIs DEF Unborn
<1>2. /\ occ[s] \in OccurrenceRows /\ Owned(occ[s]) /\ Agreed(occ[s], att[s], missions[s], pass[s])
      /\ Mended(occ[s], retry[s], missions[s], repair[s]) /\ Bounded(occ[s], pass[s])
  BY <1>1, BornIs, Zenon
<1> DEFINE p == PassTo(pass[s], o, "idle")
<1>3. Rewrites(s, occ[s], att[s], retry[s], missions[s], p, repair[s])
  <2>1. pass' = [pass EXCEPT ![s] = p]
    BY DEF Schedules!End, PassTo
  <2>2. QED BY <2>1, SlotIs, Zenon DEF Rewrites
<1>4. /\ att[s] \in AttemptKinds /\ retry[s] \in [1 .. MaxRetries -> RetryKinds]
      /\ missions[s] \in SUBSET (0 .. MaxRetries) /\ pass[s] \in [Owners -> PassStates]
  BY SlotIs, Zenon
<1>5. "idle" \in PassStates /\ "idle" # "ran"
  BY DEF PassStates
<1>6. p \in [Owners -> PassStates] /\ Agreed(occ[s], att[s], missions[s], p) /\ Bounded(occ[s], p)
  BY <1>2, <1>4, <1>5, PassToIs, AgreedIdle, BoundedIdle, Zenon
<1>7. SameReservation(occ[s], occ[s])
  BY DEF SameReservation
<1> HIDE DEF p
<1>8. Settles(s, occ[s], missions[s])
  BY <1>1, SettlesStill
<1>9. QED BY <1>1, <1>2, <1>3, <1>4, <1>6, <1>7, <1>8, RewritesKeeps, Zenon

LEMMA ClaimStep ==
    ASSUME ScheduleHypotheses, OccurrenceInv, NEW s \in Slots, NEW o \in Owners,
           Schedules!Claim(s, o)
    PROVE  Kept
<1>0. occ[s].state = "reserved"
  BY DEF Schedules!Claim
<1>1. Schedules!Exists(s)
  BY <1>0 DEF Schedules!Exists
<1>2. /\ occ[s] \in OccurrenceRows /\ Owned(occ[s]) /\ Agreed(occ[s], att[s], missions[s], pass[s])
      /\ Mended(occ[s], retry[s], missions[s], repair[s]) /\ Bounded(occ[s], pass[s])
  BY <1>1, BornIs, Zenon
<1> DEFINE p == PassTo(pass[s], o, "claimed")
           e == ClaimedRow(occ[s], o)
<1>3. Rewrites(s, e, att[s], retry[s], missions[s], p, repair[s])
  <2>1. pass' = [pass EXCEPT ![s] = p] /\ occ' = [occ EXCEPT ![s] = e]
    BY DEF Schedules!Claim, PassTo, ClaimedRow
  <2>2. UNCHANGED <<clock, sched, att, retry, missions, repair>>
    BY Zenon DEF Schedules!Claim
  <2>3. QED BY <2>1, <2>2, SlotIs, Zenon DEF Rewrites
<1>4. /\ att[s] \in AttemptKinds /\ retry[s] \in [1 .. MaxRetries -> RetryKinds]
      /\ missions[s] \in SUBSET (0 .. MaxRetries) /\ pass[s] \in [Owners -> PassStates]
  BY SlotIs, Zenon
<1>5. "claimed" \in PassStates /\ "claimed" # "ran"
  BY DEF PassStates
<1>6. /\ e \in OccurrenceRows /\ SameReservation(e, occ[s])
      /\ e.state = "publishing" /\ e.owner = o /\ e.reclaims = occ[s].reclaims
      /\ e.coord = occ[s].coord /\ e.history = occ[s].history
  BY <1>2, ClaimedRowIs, Zenon
<1>7. p \in [Owners -> PassStates] /\ Agreed(occ[s], att[s], missions[s], p)
  BY <1>2, <1>4, <1>5, PassToIs, AgreedIdle, Zenon
<1> HIDE DEF p, e
<1>8. Agreed(e, att[s], missions[s], p)
  BY <1>0, <1>6, <1>7 DEF Agreed
<1>9. Mended(e, retry[s], missions[s], repair[s])
  BY <1>2, <1>6, MendedSame, Zenon
<1>10. Bounded(e, p)
  BY <1>0, <1>2, <1>6 DEF Bounded
<1>11. Owned(e)
  BY <1>6, SlotsAre DEF Owned
<1>12. Settles(s, e, missions[s])
  BY <1>0, <1>1, <1>6, SettlesOpen DEF Schedules!Terminal
<1>13. QED BY <1>1, <1>3, <1>4, <1>6, <1>7, <1>8, <1>9, <1>10, <1>11, <1>12, RewritesKeeps, Zenon

(* The terminal rejection, under the fence or not.                            *)
LEMMA RejectStep ==
    ASSUME ScheduleHypotheses, OccurrenceInv, NEW s \in Slots, NEW o \in Owners,
           NEW closing \in BOOLEAN, pass[s][o] # "idle", Schedules!TerminalReject(s, o, closing)
    PROVE  Kept
<1>1. Schedules!Exists(s)
  BY BornIs DEF Unborn
<1>2. /\ occ[s] \in OccurrenceRows /\ Owned(occ[s]) /\ Agreed(occ[s], att[s], missions[s], pass[s])
      /\ Mended(occ[s], retry[s], missions[s], repair[s]) /\ Bounded(occ[s], pass[s])
  BY <1>1, BornIs, Zenon
<1> DEFINE p == PassTo(pass[s], o, "idle")
           e == IF Schedules!Fenced(s, o) THEN ClosedRow(occ[s], "rejected", "rejected") ELSE occ[s]
           a == IF closing /\ att[s] = "pending" /\ (Schedules!Fenced(s, o) \/ occ[s].state = "rejected")
                THEN "rejected" ELSE att[s]
<1>3. Rewrites(s, e, a, retry[s], missions[s], p, repair[s])
  <2>1. pass' = [pass EXCEPT ![s] = p]
    BY DEF Schedules!End, Schedules!TerminalReject, PassTo
  <2>2. occ' = [occ EXCEPT ![s] = e]
    <3>1. CASE Schedules!Fenced(s, o)
      <4>1. occ' = Schedules!Closed(s, "rejected", "rejected") /\ e = ClosedRow(occ[s], "rejected", "rejected")
        BY <3>1, Zenon DEF Schedules!TerminalReject
      <4>2. QED BY <4>1 DEF Schedules!Closed, ClosedRow
    <3>2. CASE ~Schedules!Fenced(s, o)
      <4>1. occ' = occ /\ e = occ[s]
        BY <3>2, Zenon DEF Schedules!TerminalReject
      <4>2. QED BY <4>1, SlotIs, Zenon
    <3>3. QED BY <3>1, <3>2
  <2>3. att' = [att EXCEPT ![s] = a]
    <3>1. att = [att EXCEPT ![s] = att[s]]
      BY SlotIs, Zenon
    <3>2. QED BY <3>1 DEF Schedules!TerminalReject
  <2>4. UNCHANGED <<clock, sched, retry, missions, repair>>
    BY Zenon DEF Schedules!TerminalReject
  <2>5. QED BY <2>1, <2>2, <2>3, <2>4, SlotIs, Zenon DEF Rewrites
<1>4. /\ att[s] \in AttemptKinds /\ retry[s] \in [1 .. MaxRetries -> RetryKinds]
      /\ missions[s] \in SUBSET (0 .. MaxRetries) /\ pass[s] \in [Owners -> PassStates]
  BY SlotIs, Zenon
<1>5. "idle" \in PassStates /\ "idle" # "ran"
  BY DEF PassStates
<1>6. p \in [Owners -> PassStates] /\ Agreed(occ[s], att[s], missions[s], p) /\ Bounded(occ[s], p)
  BY <1>2, <1>4, <1>5, PassToIs, AgreedIdle, BoundedIdle, Zenon
<1>7. a \in AttemptKinds /\ (a = "published") = (att[s] = "published")
  BY <1>4 DEF AttemptKinds
<1> HIDE DEF p, a
<1>8. CASE Schedules!Fenced(s, o)
  <2>1. e = ClosedRow(occ[s], "rejected", "rejected") /\ occ[s].state = "publishing"
    BY <1>8 DEF Schedules!Fenced
  <2> HIDE DEF e
  <2>2. /\ e \in OccurrenceRows /\ SameReservation(e, occ[s])
        /\ e.state = "rejected" /\ e.owner = "none" /\ e.reclaims = occ[s].reclaims
        /\ e.coord = "rejected" /\ e.history = occ[s].history
    <3>1. "rejected" \in {"published", "rejected"} /\ "rejected" \in {"pending", "created", "rejected"}
      OBVIOUS
    <3>2. QED BY <1>2, <2>1, <3>1, ClosedRowIs, Zenon
  <2>3. Agreed(e, a, missions[s], p)
    BY <1>6, <1>7, <2>1, <2>2 DEF Agreed
  <2>4. Mended(e, retry[s], missions[s], repair[s])
    BY <1>2, <2>2, MendedSame, Zenon
  <2>5. Bounded(e, p) /\ Owned(e)
    BY <2>2 DEF Bounded, Owned
  <2>6. Settles(s, e, missions[s])
    BY <1>1, <2>1, <2>2, SettlesOpen DEF Schedules!Terminal
  <2>7. QED BY <1>1, <1>3, <1>4, <1>6, <1>7, <2>2, <2>3, <2>4, <2>5, <2>6, RewritesKeeps, Zenon
<1>9. CASE ~Schedules!Fenced(s, o)
  <2>1. e = occ[s]
    BY <1>9
  <2> HIDE DEF e
  <2>2. SameReservation(e, occ[s])
    BY <2>1 DEF SameReservation
  <2>3. Agreed(occ[s], a, missions[s], p)
    BY <1>6, <1>7 DEF Agreed
  <2>4. /\ e \in OccurrenceRows /\ Owned(e) /\ Agreed(e, a, missions[s], p)
        /\ Mended(e, retry[s], missions[s], repair[s]) /\ Bounded(e, p)
    BY <1>2, <1>6, <2>1, <2>3, Zenon
  <2>5. Settles(s, e, missions[s])
    BY <1>1, <2>1, SettlesStill
  <2>6. QED BY <1>1, <1>3, <1>4, <1>6, <1>7, <2>2, <2>4, <2>5, RewritesKeeps, Zenon
<1>10. QED BY <1>8, <1>9

LEMMA PrepareStep ==
    ASSUME ScheduleHypotheses, OccurrenceInv, NEW s \in Slots, NEW o \in Owners,
           Schedules!Prepare(s, o)
    PROVE  Kept
<1>0. pass[s][o] = "claimed" /\ att[s] \in {"none", "pending"}
  BY DEF Schedules!Prepare
<1>1. Schedules!Exists(s)
  BY <1>0, BornIs DEF Unborn
<1>2. /\ occ[s] \in OccurrenceRows /\ Owned(occ[s]) /\ Agreed(occ[s], att[s], missions[s], pass[s])
      /\ Mended(occ[s], retry[s], missions[s], repair[s]) /\ Bounded(occ[s], pass[s])
  BY <1>1, BornIs, Zenon
<1>4. /\ att[s] \in AttemptKinds /\ retry[s] \in [1 .. MaxRetries -> RetryKinds]
      /\ missions[s] \in SUBSET (0 .. MaxRetries) /\ pass[s] \in [Owners -> PassStates]
  BY SlotIs, Zenon
<1> DEFINE p == PassTo(pass[s], o, "prepared")
<1>3. Rewrites(s, occ[s], "pending", retry[s], missions[s], p, repair[s])
  <2>1. pass' = [pass EXCEPT ![s] = p] /\ att' = [att EXCEPT ![s] = "pending"]
    BY DEF Schedules!Prepare, PassTo
  <2>2. UNCHANGED <<clock, sched, occ, retry, missions, repair>>
    BY Zenon DEF Schedules!Prepare
  <2>3. QED BY <2>1, <2>2, SlotIs, Zenon DEF Rewrites
<1>5. "prepared" \in PassStates /\ "prepared" # "ran" /\ "pending" \in AttemptKinds
  BY DEF PassStates, AttemptKinds
<1>6. p \in [Owners -> PassStates] /\ Agreed(occ[s], att[s], missions[s], p)
  BY <1>2, <1>4, <1>5, PassToIs, AgreedIdle, Zenon
<1>7. Agreed(occ[s], "pending", missions[s], p)
  BY <1>0, <1>6 DEF Agreed
<1>8. Bounded(occ[s], p)
  <2>1. occ[s].state = "publishing" => occ[s].owner \in Owners
    BY <1>2 DEF Owned, OccurrenceRows
  <2>2. \A x \in Owners : x # o => p[x] = pass[s][x]
    BY <1>4, <1>5, PassToIs
  <2>3. QED BY <1>0, <1>2, <2>1, <2>2 DEF Bounded
<1>9. SameReservation(occ[s], occ[s])
  BY DEF SameReservation
<1> HIDE DEF p
<1>10. Settles(s, occ[s], missions[s])
  BY <1>1, SettlesStill
<1>11. QED BY <1>1, <1>2, <1>3, <1>4, <1>5, <1>6, <1>7, <1>8, <1>9, <1>10, RewritesKeeps, Zenon

(* The transaction that makes the Mission closes the row with it.             *)
LEMMA PublishStep ==
    ASSUME ScheduleHypotheses, OccurrenceInv, NEW s \in Slots, NEW o \in Owners,
           Schedules!Publish(s, o)
    PROVE  Kept
<1>0. /\ pass[s][o] = "prepared" /\ occ[s].state = "publishing" /\ occ[s].owner = o
  BY DEF Schedules!Publish, Schedules!Fenced
<1>1. Schedules!Exists(s)
  BY <1>0 DEF Schedules!Exists
<1>2. /\ occ[s] \in OccurrenceRows /\ Owned(occ[s]) /\ Agreed(occ[s], att[s], missions[s], pass[s])
      /\ Mended(occ[s], retry[s], missions[s], repair[s]) /\ Bounded(occ[s], pass[s])
  BY <1>1, BornIs, Zenon
<1>4. /\ att[s] \in AttemptKinds /\ retry[s] \in [1 .. MaxRetries -> RetryKinds]
      /\ missions[s] \in SUBSET (0 .. MaxRetries) /\ pass[s] \in [Owners -> PassStates]
  BY SlotIs, Zenon
<1> DEFINE p == PassTo(pass[s], o, "idle")
           e == ClosedRow(occ[s], "published", "created")
           m == missions[s] \cup {0}
<1>3. Rewrites(s, e, "published", retry[s], m, p, repair[s])
  <2>1. pass' = [pass EXCEPT ![s] = p]
    BY DEF Schedules!Publish, Schedules!End, PassTo
  <2>2. occ' = [occ EXCEPT ![s] = e]
    BY DEF Schedules!Publish, Schedules!Closed, ClosedRow
  <2>3. att' = [att EXCEPT ![s] = "published"] /\ missions' = [missions EXCEPT ![s] = m]
    BY DEF Schedules!Publish
  <2>4. UNCHANGED <<clock, sched, retry, repair>>
    BY Zenon DEF Schedules!Publish
  <2>5. QED BY <2>1, <2>2, <2>3, <2>4, SlotIs, Zenon DEF Rewrites
<1>5. "idle" \in PassStates /\ "idle" # "ran" /\ "published" \in AttemptKinds
  BY DEF PassStates, AttemptKinds
<1>6. p \in [Owners -> PassStates] /\ Agreed(occ[s], att[s], missions[s], p)
  BY <1>2, <1>4, <1>5, PassToIs, AgreedIdle, Zenon
<1>7. m \in SUBSET (0 .. MaxRetries) /\ 0 \in m /\ m \ {0} = missions[s] \ {0}
  BY <1>4 DEF ScheduleHypotheses
<1>8. /\ e \in OccurrenceRows /\ SameReservation(e, occ[s])
      /\ e.state = "published" /\ e.owner = "none" /\ e.reclaims = occ[s].reclaims
      /\ e.coord = "created" /\ e.history = occ[s].history
  <2>1. "published" \in {"published", "rejected"} /\ "created" \in {"pending", "created", "rejected"}
    OBVIOUS
  <2>2. QED BY <1>2, <2>1, ClosedRowIs, ZenonT(40)
<1> HIDE DEF p, e, m
<1>9. Agreed(e, "published", m, p)
  BY <1>6, <1>7, <1>8 DEF Agreed
<1>10. Mended(e, retry[s], m, repair[s])
  BY <1>2, <1>7, <1>8, MendedSame, Zenon
<1>11. Bounded(e, p) /\ Owned(e)
  BY <1>0, <1>2, <1>8 DEF Bounded, Owned
<1>12. Settles(s, e, m)
  <2>1. sched.exists /\ SameSchedule(occ[s].snap)
    BY UndriftedIs, Zenon DEF Schedules!Publish
  <2>2. ~(occ[s].reclaims > MaxReclaims) /\ occ[s].state \notin Schedules!Terminal
    BY <1>0, <1>2 DEF Bounded, Schedules!Terminal
  <2>3. Schedules!IsPrefix(occ[s].history, e.history)
    <3>1. occ[s].history \in Seq(Stamps)
      BY <1>2 DEF OccurrenceRows
    <3>2. QED BY <1>8, <3>1, PrefixIs, Zenon
  <2>4. QED BY <2>1, <2>2, <2>3, Zenon DEF Settles, SameSchedule
<1>13. QED BY <1>1, <1>3, <1>4, <1>5, <1>6, <1>7, <1>8, <1>9, <1>10, <1>11, <1>12, RewritesKeeps, Zenon

(* A handler has its effect in a step of its own, before the row.             *)
LEMMA HandlerStep ==
    ASSUME ScheduleHypotheses, OccurrenceInv, NEW s \in Slots, NEW o \in Owners,
           Schedules!RunHandler(s, o)
    PROVE  Kept
<1>0. Shape = "handler" /\ pass[s][o] = "claimed"
  BY DEF Schedules!RunHandler
<1>1. Schedules!Exists(s)
  BY <1>0, BornIs DEF Unborn
<1>2. /\ occ[s] \in OccurrenceRows /\ Owned(occ[s]) /\ Agreed(occ[s], att[s], missions[s], pass[s])
      /\ Mended(occ[s], retry[s], missions[s], repair[s]) /\ Bounded(occ[s], pass[s])
  BY <1>1, BornIs, Zenon
<1>4. /\ att[s] \in AttemptKinds /\ retry[s] \in [1 .. MaxRetries -> RetryKinds]
      /\ missions[s] \in SUBSET (0 .. MaxRetries) /\ pass[s] \in [Owners -> PassStates]
  BY SlotIs, Zenon
<1>5. CASE occ[s].coord # "pending"
  <2>1. Schedules!End(s, o) /\ UNCHANGED <<clock, sched, occ, att, retry, missions, repair>>
    BY <1>5 DEF Schedules!RunHandler
  <2>2. pass[s][o] # "idle"
    BY <1>0
  <2>3. QED BY <2>1, <2>2, EndStep
<1>6. CASE occ[s].coord = "pending"
  <2> DEFINE p == PassTo(pass[s], o, "ran")
             m == missions[s] \cup {0}
  <2>1. Rewrites(s, occ[s], att[s], retry[s], m, p, repair[s])
    <3>1. pass' = [pass EXCEPT ![s] = p] /\ missions' = [missions EXCEPT ![s] = m]
      BY <1>6 DEF Schedules!RunHandler, PassTo
    <3>2. UNCHANGED <<clock, sched, occ, att, retry, repair>>
      BY Zenon DEF Schedules!RunHandler
    <3>3. QED BY <3>1, <3>2, SlotIs, Zenon DEF Rewrites
  <2>2. "ran" \in PassStates
    BY DEF PassStates
  <2>3. p \in [Owners -> PassStates] /\ \A x \in Owners : x # o => p[x] = pass[s][x]
    BY <1>4, <2>2, PassToIs, ZenonT(40)
  <2>4. m \in SUBSET (0 .. MaxRetries) /\ m \ {0} = missions[s] \ {0}
    BY <1>4 DEF ScheduleHypotheses
  <2>5. Agreed(occ[s], att[s], m, p)
    BY <1>0 DEF Agreed
  <2>6. Bounded(occ[s], p)
    <3>1. occ[s].state = "publishing" => occ[s].owner \in Owners
      BY <1>2 DEF Owned, OccurrenceRows
    <3>2. QED BY <1>0, <1>2, <2>3, <3>1 DEF Bounded
  <2>7. SameReservation(occ[s], occ[s])
    BY DEF SameReservation
  <2> HIDE DEF p, m
  <2>8. Mended(occ[s], retry[s], m, repair[s])
    BY <1>2, <2>4, MendedSame, Zenon
  <2>9. Settles(s, occ[s], m)
    <3>1. sched.exists /\ SameSchedule(occ[s].snap)
      BY UndriftedIs, Zenon DEF Schedules!RunHandler
    <3>2. Settles(s, occ[s], missions[s])
      BY <1>1, SettlesStill
    <3>3. QED BY <3>1, <3>2, Zenon DEF Settles, SameSchedule
  <2>10. QED BY <1>1, <1>2, <1>4, <2>1, <2>3, <2>4, <2>5, <2>6, <2>7, <2>8, <2>9, RewritesKeeps, Zenon
<1>7. QED BY <1>5, <1>6

LEMMA HandlerDoneStep ==
    ASSUME ScheduleHypotheses, OccurrenceInv, NEW s \in Slots, NEW o \in Owners,
           Schedules!HandlerDone(s, o)
    PROVE  Kept
<1>0. pass[s][o] = "ran"
  BY DEF Schedules!HandlerDone
<1>1. Schedules!Exists(s)
  BY <1>0, BornIs DEF Unborn
<1>2. /\ occ[s] \in OccurrenceRows /\ Owned(occ[s]) /\ Agreed(occ[s], att[s], missions[s], pass[s])
      /\ Mended(occ[s], retry[s], missions[s], repair[s]) /\ Bounded(occ[s], pass[s])
  BY <1>1, BornIs, Zenon
<1>4. /\ att[s] \in AttemptKinds /\ retry[s] \in [1 .. MaxRetries -> RetryKinds]
      /\ missions[s] \in SUBSET (0 .. MaxRetries) /\ pass[s] \in [Owners -> PassStates]
  BY SlotIs, Zenon
<1>3. Shape # "template"
  BY <1>0, <1>2 DEF Agreed
<1>5. CASE ~Schedules!Fenced(s, o)
  <2>1. Schedules!End(s, o) /\ UNCHANGED <<clock, sched, occ, att, retry, missions, repair>>
    BY <1>5 DEF Schedules!HandlerDone
  <2>2. pass[s][o] # "idle"
    BY <1>0
  <2>3. QED BY <2>1, <2>2, EndStep
<1>6. CASE Schedules!Fenced(s, o)
  <2> DEFINE p == PassTo(pass[s], o, "idle")
             e == ClosedRow(occ[s], "published", "created")
  <2>1. Rewrites(s, e, att[s], retry[s], missions[s], p, repair[s])
    <3>1. pass' = [pass EXCEPT ![s] = p]
      BY DEF Schedules!HandlerDone, Schedules!End, PassTo
    <3>2. occ' = [occ EXCEPT ![s] = e]
      BY <1>6 DEF Schedules!HandlerDone, Schedules!Closed, ClosedRow
    <3>3. UNCHANGED <<clock, sched, att, retry, missions, repair>>
      BY Zenon DEF Schedules!HandlerDone
    <3>4. QED BY <3>1, <3>2, <3>3, SlotIs, Zenon DEF Rewrites
  <2>2. "idle" \in PassStates
    BY DEF PassStates
  <2>3. p \in [Owners -> PassStates]
    BY <1>4, <2>2, PassToIs, Zenon
  <2>4. /\ e \in OccurrenceRows /\ SameReservation(e, occ[s])
        /\ e.state = "published" /\ e.owner = "none" /\ e.reclaims = occ[s].reclaims
        /\ e.history = occ[s].history
    <3>1. "published" \in {"published", "rejected"} /\ "created" \in {"pending", "created", "rejected"}
      OBVIOUS
    <3>2. QED BY <1>2, <3>1, ClosedRowIs, ZenonT(40)
  <2> HIDE DEF p, e
  <2>5. Agreed(e, att[s], missions[s], p)
    BY <1>3 DEF Agreed
  <2>6. Mended(e, retry[s], missions[s], repair[s])
    BY <1>2, <2>4, MendedSame, Zenon
  <2>7. Bounded(e, p) /\ Owned(e)
    <3>1. occ[s].state = "publishing" /\ occ[s].owner = o
      BY <1>6 DEF Schedules!Fenced
    <3>2. QED BY <1>0, <1>2, <2>4, <3>1 DEF Bounded, Owned
  <2>8. Settles(s, e, missions[s])
    <3>1. occ[s].state = "publishing" /\ occ[s].owner = o
      BY <1>6 DEF Schedules!Fenced
    <3>2. ~(occ[s].reclaims > MaxReclaims) /\ occ[s].state \notin Schedules!Terminal
      BY <1>0, <1>2, <3>1 DEF Bounded, Schedules!Terminal
    <3>3. Schedules!IsPrefix(occ[s].history, e.history)
      <4>1. occ[s].history \in Seq(Stamps)
        BY <1>2 DEF OccurrenceRows
      <4>2. QED BY <2>4, <4>1, PrefixIs, Zenon
    <3>4. ~(0 \in missions[s] \ missions[s])
      OBVIOUS
    <3>5. QED BY <3>2, <3>3, <3>4, Zenon DEF Settles
  <2>9. QED BY <1>1, <1>4, <2>1, <2>3, <2>4, <2>5, <2>6, <2>7, <2>8, RewritesKeeps, Zenon
<1>7. QED BY <1>5, <1>6

(***************************************************************************)
(* Recovery                                                                *)
(***************************************************************************)
LEMMA ExpireStep ==
    ASSUME ScheduleHypotheses, OccurrenceInv, NEW s \in Slots, Schedules!Expire(s)
    PROVE  Kept
<1>0. occ[s].state = "publishing"
  BY DEF Schedules!Expire
<1>1. Schedules!Exists(s)
  BY <1>0 DEF Schedules!Exists
<1>2. /\ occ[s] \in OccurrenceRows /\ Owned(occ[s]) /\ Agreed(occ[s], att[s], missions[s], pass[s])
      /\ Mended(occ[s], retry[s], missions[s], repair[s]) /\ Bounded(occ[s], pass[s])
  BY <1>1, BornIs, Zenon
<1>4. /\ att[s] \in AttemptKinds /\ retry[s] \in [1 .. MaxRetries -> RetryKinds]
      /\ missions[s] \in SUBSET (0 .. MaxRetries) /\ pass[s] \in [Owners -> PassStates]
  BY SlotIs, Zenon
<1> DEFINE e == Lapsed(occ[s])
<1>3. Rewrites(s, e, att[s], retry[s], missions[s], pass[s], repair[s])
  <2>1. occ' = [occ EXCEPT ![s] = e]
    BY DEF Schedules!Expire, Lapsed
  <2>2. UNCHANGED <<clock, sched, att, retry, missions, pass, repair>>
    BY Zenon DEF Schedules!Expire
  <2>3. QED BY <2>1, <2>2, SlotIs, Zenon DEF Rewrites
<1>5. /\ e \in OccurrenceRows /\ SameReservation(e, occ[s])
      /\ e.state = occ[s].state /\ e.owner = occ[s].owner /\ e.reclaims = occ[s].reclaims
      /\ e.coord = occ[s].coord /\ e.history = occ[s].history
  BY <1>2, LapsedIs, Zenon
<1> HIDE DEF e
<1>6. Agreed(e, att[s], missions[s], pass[s]) /\ Owned(e) /\ Bounded(e, pass[s])
  BY <1>2, <1>5, Zenon DEF Agreed, Owned, Bounded
<1>7. Mended(e, retry[s], missions[s], repair[s])
  BY <1>2, <1>5, MendedSame, Zenon
<1>8. Settles(s, e, missions[s])
  BY <1>1, <1>5, SettlesStill
<1>9. QED BY <1>1, <1>3, <1>4, <1>5, <1>6, <1>7, <1>8, RewritesKeeps, Zenon

(* A lease taken over is counted; over budget the pass can only give up.      *)
LEMMA ReclaimStep ==
    ASSUME ScheduleHypotheses, OccurrenceInv, NEW s \in Slots, NEW w \in Recoverers,
           Schedules!Reclaim(s, w)
    PROVE  Kept
<1>0. occ[s].state = "publishing" /\ w \in Owners
  BY SlotsAre DEF Schedules!Reclaim
<1>1. Schedules!Exists(s)
  BY <1>0 DEF Schedules!Exists
<1>2. /\ occ[s] \in OccurrenceRows /\ Owned(occ[s]) /\ Agreed(occ[s], att[s], missions[s], pass[s])
      /\ Mended(occ[s], retry[s], missions[s], repair[s]) /\ Bounded(occ[s], pass[s])
  BY <1>1, BornIs, Zenon
<1>4. /\ att[s] \in AttemptKinds /\ retry[s] \in [1 .. MaxRetries -> RetryKinds]
      /\ missions[s] \in SUBSET (0 .. MaxRetries) /\ pass[s] \in [Owners -> PassStates]
  BY SlotIs, Zenon
<1> DEFINE v == IF occ[s].reclaims >= MaxReclaims THEN "exhausted" ELSE "claimed"
           p == PassTo(pass[s], w, v)
           e == Retaken(occ[s], w)
<1>3. Rewrites(s, e, att[s], retry[s], missions[s], p, repair[s])
  <2>1. pass' = [pass EXCEPT ![s] = p]
    BY DEF Schedules!Reclaim, PassTo
  <2>2. occ' = [occ EXCEPT ![s] = e]
    BY DEF Schedules!Reclaim, Retaken
  <2>3. UNCHANGED <<clock, sched, att, retry, missions, repair>>
    BY Zenon DEF Schedules!Reclaim
  <2>4. QED BY <2>1, <2>2, <2>3, SlotIs, Zenon DEF Rewrites
<1>5. v \in PassStates /\ v # "ran" /\ (occ[s].reclaims >= MaxReclaims => v = "exhausted")
  BY DEF PassStates
<1> HIDE DEF v
<1>6. p \in [Owners -> PassStates] /\ p[w] = v /\ Agreed(occ[s], att[s], missions[s], p)
  BY <1>0, <1>2, <1>4, <1>5, PassToIs, AgreedIdle, ZenonT(40)
<1>7. /\ e \in OccurrenceRows /\ SameReservation(e, occ[s])
      /\ e.state = occ[s].state /\ e.owner = w /\ e.coord = occ[s].coord
      /\ e.history = occ[s].history
      /\ e.reclaims > MaxReclaims => occ[s].reclaims >= MaxReclaims
  BY <1>0, <1>2, RetakenIs, Zenon
<1> HIDE DEF p, e
<1>8. Agreed(e, att[s], missions[s], p)
  BY <1>6, <1>7, Zenon DEF Agreed
<1>9. Mended(e, retry[s], missions[s], repair[s])
  BY <1>2, <1>7, MendedSame, Zenon
<1>10. Bounded(e, p)
  BY <1>0, <1>5, <1>6, <1>7 DEF Bounded
<1>11. Owned(e)
  BY <1>0, <1>7, SlotsAre DEF Owned
<1>12. Settles(s, e, missions[s])
  BY <1>1, <1>7, SettlesStill
<1>13. QED BY <1>1, <1>3, <1>4, <1>6, <1>7, <1>8, <1>9, <1>10, <1>11, <1>12, RewritesKeeps, Zenon

(***************************************************************************)
(* Repair                                                                  *)
(***************************************************************************)
(* A stamp of failure adds no repair, a stamp of success adds its number.     *)
LEMMA StampIs ==
    ASSUME NEW h \in Seq(Stamps), NEW n \in 1 .. MaxRetries, NEW out \in {"repaired", "failed"}
    PROVE  /\ \A i \in 1 .. Len(h) : Append(h, [n |-> n, outcome |-> out])[i] = h[i]
           /\ Repaired(Append(h, [n |-> n, outcome |-> out])) =
                IF out = "repaired" THEN Repaired(h) \cup {Len(h) + 1} ELSE Repaired(h)
           /\ Append(h, [n |-> n, outcome |-> out])[Len(h) + 1].n = n
           /\ Repaired(h) \subseteq 1 .. Len(h) /\ Len(h) \in Nat
           /\ \A i \in Repaired(h) : h[i].n \in 1 .. MaxRetries
<1>1. PICK st \in Stamps : st = [n |-> n, outcome |-> out]
  BY DEF Stamps
<1>2. st.n = n /\ st.outcome = out
  BY <1>1
<1>3. /\ Len(h) \in Nat /\ Len(Append(h, st)) = Len(h) + 1 /\ Append(h, st)[Len(h) + 1] = st
      /\ \A i \in 1 .. Len(h) : Append(h, st)[i] = h[i]
  OBVIOUS
<1>4. Repaired(Append(h, st)) =
        IF out = "repaired" THEN Repaired(h) \cup {Len(h) + 1} ELSE Repaired(h)
  <2>1. Repaired(Append(h, st)) =
          {i \in 1 .. Len(h) + 1 : Append(h, st)[i].outcome = "repaired"}
    BY <1>3 DEF Repaired
  <2>2. Append(h, st)[Len(h) + 1].outcome = out
    BY <1>2, <1>3
  <2>3. QED BY <1>3, <2>1, <2>2 DEF Repaired
<1>5. Repaired(h) \subseteq 1 .. Len(h)
  BY DEF Repaired
<1>6. ASSUME NEW i \in Repaired(h) PROVE h[i].n \in 1 .. MaxRetries
  <2>1. h[i] \in Stamps
    BY <1>5
  <2>2. QED BY <2>1 DEF Stamps
<1>7. QED BY <1>1, <1>2, <1>3, <1>4, <1>5, <1>6

LEMMA FailedStamp ==
    ASSUME NEW h \in Seq(Stamps), NEW n \in 1 .. MaxRetries, NEW y, NEW z, NEW made, NEW r, NEW q,
           MendedBy(h, y, made, r),
           \A k \in 1 .. MaxRetries : y[k] = "done" => z[k] = "done",
           q = Schedules!Idle \/ (q \in RepairRows /\ z[q.n] = "pending")
    PROVE  MendedBy(Append(h, [n |-> n, outcome |-> "failed"]), z, made, q)
<1>1. PICK g : g = Append(h, [n |-> n, outcome |-> "failed"])
  OBVIOUS
<1>2. /\ Repaired(g) = Repaired(h) /\ \A i \in Repaired(h) : g[i] = h[i]
      /\ \A i \in Repaired(h) : h[i].n \in 1 .. MaxRetries
  BY <1>1, StampIs, ZenonT(40)
<1>3. {g[i].n : i \in Repaired(g)} = {h[i].n : i \in Repaired(h)}
  BY <1>2
<1>4. \A i \in Repaired(g) : z[g[i].n] = "done"
  BY <1>2 DEF MendedBy
<1>5. \A i, j \in Repaired(g) : g[i].n = g[j].n => i = j
  BY <1>2 DEF MendedBy
<1>6. MendedBy(g, z, made, q)
  BY <1>3, <1>4, <1>5, Zenon DEF MendedBy
<1>7. QED BY <1>1, <1>6

LEMMA RepairedStamp ==
    ASSUME NEW h \in Seq(Stamps), NEW n \in 1 .. MaxRetries, NEW y, NEW z, NEW made, NEW r,
           MendedBy(h, y, made, r), y[n] # "done",
           \A k \in 1 .. MaxRetries : y[k] = "done" \/ k = n => z[k] = "done"
    PROVE  MendedBy(Append(h, [n |-> n, outcome |-> "repaired"]), z, made \cup {n}, Schedules!Idle)
<1>1. PICK g : g = Append(h, [n |-> n, outcome |-> "repaired"])
  OBVIOUS
<1>2. /\ Repaired(g) = Repaired(h) \cup {Len(h) + 1} /\ \A i \in Repaired(h) : g[i] = h[i]
      /\ g[Len(h) + 1].n = n /\ \A i \in Repaired(h) : h[i].n \in 1 .. MaxRetries
  BY <1>1, StampIs
<1>3. {g[i].n : i \in Repaired(g)} = {h[i].n : i \in Repaired(h)} \cup {n}
  BY <1>2
<1>4. \A i \in Repaired(g) : z[g[i].n] = "done"
  BY <1>2 DEF MendedBy
<1>5. \A i \in Repaired(h) : h[i].n # n
  BY DEF MendedBy
<1>6. \A i, j \in Repaired(g) : g[i].n = g[j].n => i = j
  BY <1>2, <1>5 DEF MendedBy
<1>7. MendedBy(g, z, made \cup {n}, Schedules!Idle)
  BY <1>3, <1>4, <1>6, Zenon DEF MendedBy
<1>8. QED BY <1>1, <1>7

(* A repair claims a number that no repair concluded.                         *)
LEMMA StartRepairStep ==
    ASSUME ScheduleHypotheses, OccurrenceInv, NEW s \in Slots, Schedules!StartRepair(s)
    PROVE  Kept
<1>0. occ[s].state = "rejected"
  BY DEF Schedules!StartRepair
<1>1. Schedules!Exists(s)
  BY <1>0 DEF Schedules!Exists
<1>2. /\ occ[s] \in OccurrenceRows /\ Owned(occ[s]) /\ Agreed(occ[s], att[s], missions[s], pass[s])
      /\ Mended(occ[s], retry[s], missions[s], repair[s]) /\ Bounded(occ[s], pass[s])
  BY <1>1, BornIs, Zenon
<1>4. /\ att[s] \in AttemptKinds /\ retry[s] \in [1 .. MaxRetries -> RetryKinds]
      /\ missions[s] \in SUBSET (0 .. MaxRetries) /\ pass[s] \in [Owners -> PassStates]
  BY SlotIs, Zenon
<1>3. PICK n : n = Schedules!RetryNumber(s)
  OBVIOUS
<1>5. n \in 1 .. MaxRetries /\ retry[s][n] = "none"
  <2>1. occ[s].history \in Seq(Stamps)
    BY <1>2 DEF OccurrenceRows
  <2>2. n = Len(occ[s].history) + 1 /\ n =< MaxRetries
    BY <1>3 DEF Schedules!StartRepair, Schedules!RetryNumber
  <2>3. Len(occ[s].history) \in Nat
    BY <2>1
  <2>4. QED BY <1>3, <2>2, <2>3 DEF Schedules!StartRepair, ScheduleHypotheses
<1> DEFINE z == [retry[s] EXCEPT ![n] = "pending"]
           snap == [kind |-> sched.kind, title |-> sched.title, at |-> sched.at,
                    next |-> sched.next, enabled |-> sched.enabled, runs |-> sched.runs]
           r == [at |-> "prepared", n |-> n, snap |-> snap]
<1>6. Rewrites(s, occ[s], att[s], z, missions[s], pass[s], r)
  <2>1. retry' = [retry EXCEPT ![s] = z]
    BY <1>3 DEF Schedules!StartRepair
  <2>2. repair' = [repair EXCEPT ![s] = r]
    BY <1>3, Zenon DEF Schedules!StartRepair
  <2>3. UNCHANGED <<clock, sched, occ, att, missions, pass>>
    BY Zenon DEF Schedules!StartRepair
  <2>4. QED BY <2>1, <2>2, <2>3, SlotIs, Zenon DEF Rewrites
<1>7. /\ z \in [1 .. MaxRetries -> RetryKinds] /\ z[n] = "pending"
      /\ \A k \in 1 .. MaxRetries : k # n => z[k] = retry[s][k]
  BY <1>4, <1>5 DEF RetryKinds
<1>8. r \in RepairRows /\ r.n = n
  <2>1. sched \in Schedules!Schedule
    BY Zenon DEF OccurrenceInv, ScheduleTypes
  <2>2. snap \in Snaps
    <3>1. /\ sched.kind \in {"once", "recurring"} /\ sched.title \in {0, 1} /\ sched.at \in Slots
          /\ sched.next \in 0 .. Schedules!Never /\ sched.runs \in Nat
      BY <2>1 DEF Schedules!Schedule, Slots
    <3>2. sched.enabled \in BOOLEAN
      BY <2>1 DEF Schedules!Schedule
    <3>3. QED BY <3>1, <3>2 DEF Snaps
  <2> HIDE DEF snap
  <2>3. QED BY <1>5, <2>2 DEF RepairRows
<1> HIDE DEF z, snap, r
<1>9. Mended(occ[s], z, missions[s], r)
  <2>1. occ[s].history \in Seq(Stamps)
    BY <1>2 DEF OccurrenceRows
  <2>2. \A i \in Repaired(occ[s].history) : occ[s].history[i].n \in 1 .. MaxRetries
    BY <1>5, <2>1, StampIs
  <2>3. \A i \in Repaired(occ[s].history) :
          retry[s][occ[s].history[i].n] = "done"
    BY <1>2, Zenon DEF Mended, MendedBy
  <2>4. \A i \in Repaired(occ[s].history) : z[occ[s].history[i].n] = "done"
    BY <1>5, <1>7, <2>2, <2>3
  <2>5. QED BY <1>2, <1>7, <1>8, <2>4, Zenon DEF Mended, MendedBy
<1>10. SameReservation(occ[s], occ[s])
  BY DEF SameReservation
<1>11. Settles(s, occ[s], missions[s])
  BY <1>1, SettlesStill
<1>12. QED BY <1>1, <1>2, <1>4, <1>6, <1>7, <1>9, <1>10, <1>11, RewritesKeeps, Zenon

LEMMA RepairMissingStep ==
    ASSUME ScheduleHypotheses, OccurrenceInv, NEW s \in Slots, Schedules!RepairMissing(s)
    PROVE  Kept
<1>0. occ[s].state = "rejected"
  BY DEF Schedules!RepairMissing
<1>1. Schedules!Exists(s)
  BY <1>0 DEF Schedules!Exists
<1>2. /\ occ[s] \in OccurrenceRows /\ Owned(occ[s]) /\ Agreed(occ[s], att[s], missions[s], pass[s])
      /\ Mended(occ[s], retry[s], missions[s], repair[s]) /\ Bounded(occ[s], pass[s])
  BY <1>1, BornIs, Zenon
<1>4. /\ att[s] \in AttemptKinds /\ retry[s] \in [1 .. MaxRetries -> RetryKinds]
      /\ missions[s] \in SUBSET (0 .. MaxRetries) /\ pass[s] \in [Owners -> PassStates]
  BY SlotIs, Zenon
<1>3. PICK n : n = Schedules!RetryNumber(s)
  OBVIOUS
<1>5. n \in 1 .. MaxRetries
  <2>1. occ[s].history \in Seq(Stamps)
    BY <1>2 DEF OccurrenceRows
  <2>2. n = Len(occ[s].history) + 1 /\ n =< MaxRetries
    BY <1>3 DEF Schedules!RepairMissing, Schedules!RetryNumber
  <2>3. Len(occ[s].history) \in Nat
    BY <2>1
  <2>4. QED BY <2>2, <2>3 DEF ScheduleHypotheses
<1> DEFINE e == Noted(occ[s], n, "failed")
<1>6. Rewrites(s, e, att[s], retry[s], missions[s], pass[s], repair[s])
  <2>1. occ' = [occ EXCEPT ![s] = e]
    BY <1>3 DEF Schedules!RepairMissing, Schedules!Stamped, Noted
  <2>2. UNCHANGED <<clock, sched, att, retry, missions, pass, repair>>
    BY Zenon DEF Schedules!RepairMissing
  <2>3. QED BY <2>1, <2>2, SlotIs, Zenon DEF Rewrites
<1>7. /\ e \in OccurrenceRows /\ SameReservation(e, occ[s])
      /\ e.state = occ[s].state /\ e.owner = occ[s].owner /\ e.reclaims = occ[s].reclaims
      /\ e.coord = occ[s].coord
      /\ e.history = Append(occ[s].history, [n |-> n, outcome |-> "failed"])
  <2>1. "failed" \in {"repaired", "failed"}
    OBVIOUS
  <2>2. QED BY <1>2, <1>5, <2>1, NotedIs, Zenon
<1> HIDE DEF e
<1>8. Agreed(e, att[s], missions[s], pass[s]) /\ Owned(e) /\ Bounded(e, pass[s])
  BY <1>2, <1>7, Zenon DEF Agreed, Owned, Bounded
<1>9. Mended(e, retry[s], missions[s], repair[s])
  <2>1. occ[s].history \in Seq(Stamps)
    BY <1>2 DEF OccurrenceRows
  <2>2. MendedBy(occ[s].history, retry[s], missions[s] \ {0}, repair[s])
    BY <1>2, Zenon DEF Mended
  <2>3. repair[s] = Schedules!Idle \/ (repair[s] \in RepairRows /\ retry[s][repair[s].n] = "pending")
    BY <2>2, Zenon DEF MendedBy
  <2>4. MendedBy(Append(occ[s].history, [n |-> n, outcome |-> "failed"]), retry[s], missions[s] \ {0}, repair[s])
    BY <1>5, <2>1, <2>2, <2>3, FailedStamp, Zenon
  <2>5. QED BY <1>7, <2>4, Zenon DEF Mended
<1>10. Settles(s, e, missions[s])
  BY <1>1, <1>5, <1>7, SettlesNoted
<1>11. QED BY <1>1, <1>4, <1>6, <1>7, <1>8, <1>9, <1>10, RewritesKeeps, Zenon

(* What a repair in flight keeps: its number is claimed and not concluded.    *)
LEMMA RepairIs ==
    ASSUME OccurrenceInv, NEW s \in Slots, repair[s] # Schedules!Idle
    PROVE  /\ Schedules!Exists(s) /\ repair[s].n \in 1 .. MaxRetries
           /\ retry[s][repair[s].n] = "pending"
<1>1. Schedules!Exists(s)
  BY BornIs DEF Unborn
<1>2. Mended(occ[s], retry[s], missions[s], repair[s])
  BY <1>1, BornIs, Zenon
<1>3. QED BY <1>1, <1>2 DEF Mended, MendedBy, RepairRows

(* A repair that ends stamps its number and concludes its coordination.       *)
LEMMA RepairEnds ==
    ASSUME ScheduleHypotheses, OccurrenceInv, NEW s \in Slots, NEW out \in {"repaired", "failed"},
           NEW n \in 1 .. MaxRetries, n = repair[s].n, repair[s] # Schedules!Idle,
           occ' = Schedules!Stamped(s, n, out), retry' = Schedules!Concluded(s, n),
           repair' = [repair EXCEPT ![s] = Schedules!Idle],
           missions' = IF out = "repaired" THEN [missions EXCEPT ![s] = @ \cup {n}] ELSE missions,
           UNCHANGED <<clock, sched, att, pass>>
    PROVE  Kept
<1>1. Schedules!Exists(s) /\ retry[s][n] = "pending"
  BY RepairIs
<1>2. /\ occ[s] \in OccurrenceRows /\ Owned(occ[s]) /\ Agreed(occ[s], att[s], missions[s], pass[s])
      /\ Mended(occ[s], retry[s], missions[s], repair[s]) /\ Bounded(occ[s], pass[s])
  BY <1>1, BornIs, Zenon
<1>4. /\ att[s] \in AttemptKinds /\ retry[s] \in [1 .. MaxRetries -> RetryKinds]
      /\ missions[s] \in SUBSET (0 .. MaxRetries) /\ pass[s] \in [Owners -> PassStates]
  BY SlotIs, Zenon
<1> DEFINE z == [retry[s] EXCEPT ![n] = "done"]
           e == Noted(occ[s], n, out)
           m == IF out = "repaired" THEN missions[s] \cup {n} ELSE missions[s]
<1>6. Rewrites(s, e, att[s], z, m, pass[s], Schedules!Idle)
  <2>1. occ' = [occ EXCEPT ![s] = e]
    BY DEF Schedules!Stamped, Noted
  <2>2. retry' = [retry EXCEPT ![s] = z]
    BY DEF Schedules!Concluded
  <2>3. missions' = [missions EXCEPT ![s] = m]
    BY SlotIs
  <2>4. QED BY <2>1, <2>2, <2>3, SlotIs, Zenon DEF Rewrites
<1>7. /\ e \in OccurrenceRows /\ SameReservation(e, occ[s])
      /\ e.state = occ[s].state /\ e.owner = occ[s].owner /\ e.reclaims = occ[s].reclaims
      /\ e.coord = occ[s].coord
      /\ e.history = Append(occ[s].history, [n |-> n, outcome |-> out])
  BY <1>2, NotedIs, Zenon
<1>8. /\ z \in [1 .. MaxRetries -> RetryKinds]
      /\ \A k \in 1 .. MaxRetries : retry[s][k] = "done" \/ k = n => z[k] = "done"
  BY <1>4 DEF RetryKinds
<1>9. /\ m \in SUBSET (0 .. MaxRetries) /\ (0 \in m) = (0 \in missions[s])
      /\ m \ {0} = IF out = "repaired" THEN (missions[s] \ {0}) \cup {n} ELSE missions[s] \ {0}
  BY <1>4 DEF ScheduleHypotheses
<1> HIDE DEF z, e, m
<1>10. Agreed(e, att[s], m, pass[s]) /\ Owned(e) /\ Bounded(e, pass[s])
  BY <1>2, <1>7, <1>9, Zenon DEF Agreed, Owned, Bounded
<1>11. Mended(e, z, m, Schedules!Idle)
  <2>1. occ[s].history \in Seq(Stamps)
    BY <1>2 DEF OccurrenceRows
  <2>2. MendedBy(occ[s].history, retry[s], missions[s] \ {0}, repair[s])
    BY <1>2, Zenon DEF Mended
  <2>3. CASE out = "failed"
    <3>1. \A k \in 1 .. MaxRetries : retry[s][k] = "done" => z[k] = "done"
      BY <1>8, Zenon
    <3>2. MendedBy(Append(occ[s].history, [n |-> n, outcome |-> "failed"]), z, missions[s] \ {0}, Schedules!Idle)
      BY <2>1, <2>2, <3>1, FailedStamp, Zenon
    <3>3. m \ {0} = missions[s] \ {0}
      BY <1>9, <2>3
    <3>4. QED BY <1>7, <2>3, <3>2, <3>3, Zenon DEF Mended
  <2>4. CASE out = "repaired"
    <3>1. retry[s][n] # "done"
      BY <1>1
    <3>2. MendedBy(Append(occ[s].history, [n |-> n, outcome |-> "repaired"]), z,
                   (missions[s] \ {0}) \cup {n}, Schedules!Idle)
      BY <1>8, <2>1, <2>2, <3>1, RepairedStamp, Zenon
    <3>3. m \ {0} = (missions[s] \ {0}) \cup {n}
      BY <1>9, <2>4
    <3>4. QED BY <1>7, <2>4, <3>2, <3>3, Zenon DEF Mended
  <2>5. QED BY <2>3, <2>4
<1>12. Settles(s, e, m)
  <2>1. ~(0 \in m \ missions[s])
    BY <1>9
  <2>2. QED BY <1>1, <1>7, <2>1, SettlesNoted
<1>13. QED BY <1>1, <1>4, <1>6, <1>7, <1>8, <1>9, <1>10, <1>11, <1>12, RewritesKeeps, Zenon

LEMMA RepairCommitStep ==
    ASSUME ScheduleHypotheses, OccurrenceInv, NEW s \in Slots, Schedules!RepairCommit(s)
    PROVE  Kept
<1>1. repair[s] # Schedules!Idle
  BY DEF Schedules!RepairCommit
<1>2. PICK n \in 1 .. MaxRetries : n = repair[s].n
  BY <1>1, RepairIs
<1>3. /\ occ' = Schedules!Stamped(s, n, "repaired") /\ retry' = Schedules!Concluded(s, n)
      /\ repair' = [repair EXCEPT ![s] = Schedules!Idle]
      /\ missions' = [missions EXCEPT ![s] = @ \cup {n}]
      /\ UNCHANGED <<clock, sched, att, pass>>
  BY <1>2, Zenon DEF Schedules!RepairCommit
<1>4. QED BY <1>1, <1>2, <1>3, RepairEnds

LEMMA RepairFailStep ==
    ASSUME ScheduleHypotheses, OccurrenceInv, NEW s \in Slots, Schedules!RepairFail(s)
    PROVE  Kept
<1>1. repair[s] # Schedules!Idle
  BY DEF Schedules!RepairFail
<1>2. PICK n \in 1 .. MaxRetries : n = repair[s].n
  BY <1>1, RepairIs
<1>3. /\ occ' = Schedules!Stamped(s, n, "failed") /\ retry' = Schedules!Concluded(s, n)
      /\ repair' = [repair EXCEPT ![s] = Schedules!Idle] /\ missions' = missions
      /\ UNCHANGED <<clock, sched, att, pass>>
  BY <1>2, Zenon DEF Schedules!RepairFail
<1>4. QED BY <1>1, <1>2, <1>3, RepairEnds

LEMMA RepairCrashStep ==
    ASSUME ScheduleHypotheses, OccurrenceInv, NEW s \in Slots, Schedules!RepairCrash(s)
    PROVE  Kept
<1>0. repair[s] # Schedules!Idle
  BY DEF Schedules!RepairCrash
<1>1. Schedules!Exists(s)
  BY <1>0, RepairIs
<1>2. /\ occ[s] \in OccurrenceRows /\ Owned(occ[s]) /\ Agreed(occ[s], att[s], missions[s], pass[s])
      /\ Mended(occ[s], retry[s], missions[s], repair[s]) /\ Bounded(occ[s], pass[s])
  BY <1>1, BornIs, Zenon
<1>4. /\ att[s] \in AttemptKinds /\ retry[s] \in [1 .. MaxRetries -> RetryKinds]
      /\ missions[s] \in SUBSET (0 .. MaxRetries) /\ pass[s] \in [Owners -> PassStates]
  BY SlotIs, Zenon
<1>3. Rewrites(s, occ[s], att[s], retry[s], missions[s], pass[s], Schedules!Idle)
  <2>1. /\ repair' = [repair EXCEPT ![s] = Schedules!Idle]
        /\ UNCHANGED <<clock, sched, occ, att, retry, missions, pass>>
    BY Zenon DEF Schedules!RepairCrash
  <2>2. QED BY <2>1, SlotIs, Zenon DEF Rewrites
<1>5. Mended(occ[s], retry[s], missions[s], Schedules!Idle) /\ SameReservation(occ[s], occ[s])
  BY <1>2, Zenon DEF Mended, MendedBy, SameReservation
<1>6. Settles(s, occ[s], missions[s])
  BY <1>1, SettlesStill
<1>7. QED BY <1>1, <1>2, <1>3, <1>4, <1>5, <1>6, RewritesKeeps, Zenon

(***************************************************************************)
(* The specification                                                       *)
(***************************************************************************)
LEMMA BodyStep ==
    ASSUME ScheduleHypotheses, OccurrenceInv, NEW s \in Slots, NEW o \in Owners, Schedules!Body(s, o)
    PROVE  Kept
<1>1. TRUE \in BOOLEAN /\ FALSE \in BOOLEAN
  OBVIOUS
<1>2. CASE Schedules!RejectMissing(s, o)
  <2>1. pass[s][o] # "idle" /\ Schedules!TerminalReject(s, o, FALSE)
    BY <1>2 DEF Schedules!RejectMissing
  <2>2. QED BY <1>1, <2>1, RejectStep, Zenon
<1>3. CASE Schedules!RejectInvalid(s, o)
  <2>1. pass[s][o] # "idle" /\ Schedules!TerminalReject(s, o, FALSE)
    BY <1>3 DEF Schedules!RejectInvalid
  <2>2. QED BY <1>1, <2>1, RejectStep, Zenon
<1>4. CASE Schedules!StopOnDrift(s, o)
  BY <1>4, EndStep DEF Schedules!StopOnDrift, Schedules!Abandon
<1>5. CASE Schedules!RollBack(s, o)
  BY <1>5, EndStep DEF Schedules!RollBack, Schedules!Abandon
<1>6. CASE Schedules!Veto(s, o)
  <2>1. pass[s][o] # "idle" /\ Schedules!TerminalReject(s, o, TRUE)
    BY <1>6 DEF Schedules!Veto
  <2>2. QED BY <1>1, <2>1, RejectStep, Zenon
<1>7. CASE Schedules!Deny(s, o)
  BY <1>7, EndStep DEF Schedules!Deny
<1>8. QED BY <1>2, <1>3, <1>4, <1>5, <1>6, <1>7, PrepareStep, PublishStep, HandlerStep,
          HandlerDoneStep, Zenon DEF Schedules!Body

LEMMA OccurrencesStep ==
    ASSUME ScheduleHypotheses, OccurrenceInv, [Schedules!Next]_(Schedules!vars)
    PROVE  Kept
<1>1. CASE UNCHANGED Schedules!vars
  <2>1. /\ clock' = clock /\ sched' = sched /\ occ' = occ /\ att' = att /\ retry' = retry
        /\ missions' = missions /\ pass' = pass /\ repair' = repair
    BY <1>1 DEF Schedules!vars
  <2>2. clock \in Slots /\ sched \in Schedules!Schedule
    BY Zenon DEF OccurrenceInv, ScheduleTypes
  <2>3. Schedules!Consumed /\ sched.kind = "once" => sched.enabled = FALSE
    <3>1. Schedules!Consumed /\ sched.kind = "once" => ~sched.enabled
      BY Zenon DEF OccurrenceInv, Schedules!ConsumedStaysDisabled
    <3>2. sched.enabled \in BOOLEAN
      BY <2>2 DEF Schedules!Schedule
    <3>3. QED BY <3>1, <3>2, Zenon
  <2>4. QED BY <2>1, <2>2, <2>3, ScheduleOnly, Zenon
<1>2. CASE Schedules!Tick \/ Schedules!Poll \/ Schedules!RunNow \/ Schedules!Editing
  BY <1>2, TickOccurrence, PollStep, RunNowStep, EditStep, Zenon
<1>3. ASSUME NEW s \in Slots, Schedules!Expire(s) \/ Schedules!Repairing(s) PROVE Kept
  BY <1>3, ExpireStep, StartRepairStep, RepairMissingStep, RepairCommitStep, RepairFailStep,
     RepairCrashStep, Zenon DEF Schedules!Repairing
<1>4. ASSUME NEW s \in Slots, NEW o \in Owners,
             Schedules!Claim(s, o) \/ Schedules!Body(s, o) \/ Schedules!Crash(s, o)
      PROVE  Kept
  <2>1. CASE Schedules!Crash(s, o)
    BY <2>1, EndStep DEF Schedules!Crash
  <2>2. QED BY <1>4, <2>1, ClaimStep, BodyStep, Zenon
<1>5. ASSUME NEW s \in Slots, NEW w \in Recoverers, Schedules!Recover(s, w) PROVE Kept
  <2>1. CASE Schedules!Exhaust(s, w)
    <3>1. w \in Owners /\ pass[s][w] # "idle" /\ Schedules!TerminalReject(s, w, TRUE)
      BY <2>1, SlotsAre DEF Schedules!Exhaust
    <3>2. TRUE \in BOOLEAN
      OBVIOUS
    <3>3. QED BY <3>1, <3>2, RejectStep, Zenon
  <2>2. QED BY <1>5, <2>1, ReclaimStep, Zenon DEF Schedules!Recover
<1>6. QED BY <1>1, <1>2, <1>3, <1>4, <1>5, Zenon DEF Schedules!Next, Slots, Owners

(* For any number of instants, workers, crashes and edits and any reclaim     *)
(* budget, the run count is the number of occurrences reserved, a one-time    *)
(* schedule is reserved once and stays disabled after, the records of a       *)
(* publication agree and the repairs are the Missions the history names.      *)
THEOREM OccurrencesTheorem ==
    ASSUME ScheduleHypotheses
    PROVE  Schedules!Spec => []Schedules!OccurrencesAgree
<1>1. Schedules!Init => OccurrenceInv
  BY OccurrenceStart
<1>2. OccurrenceInv /\ [Schedules!Next]_(Schedules!vars) => OccurrenceInv'
  BY OccurrencesStep DEF Kept
<1>3. OccurrenceInv => Schedules!OccurrencesAgree
  BY OccurrenceInvAgrees
<1>4. QED BY <1>1, <1>2, <1>3, PTL DEF Schedules!Spec

(* However passes, edits, crashes and reclaims interleave, a Mission is made  *)
(* only from the schedule its occurrence was reserved from, nothing is        *)
(* published once the reclaim budget is spent, a terminal occurrence stays as *)
(* it is and its repair history only grows.                                   *)
THEOREM FinalOccurrenceTheorem ==
    ASSUME ScheduleHypotheses
    PROVE  Schedules!Spec => Schedules!OccurrenceIsFinal
<1>1. Schedules!Init => OccurrenceInv
  BY OccurrenceStart
<1>2. OccurrenceInv /\ [Schedules!Next]_(Schedules!vars) => OccurrenceInv' /\ Final
  BY OccurrencesStep DEF Kept
<1> DEFINE A ==
  \A s \in Schedules!Reserved :
       /\ 0 \in missions'[s] \ missions[s] =>
            /\ sched.exists /\ sched.title = occ[s].snap.title
            /\ sched.kind = occ[s].snap.kind /\ sched.enabled = occ[s].snap.enabled
       /\ occ[s].reclaims > MaxReclaims => occ'[s].state # "published"
       /\ occ[s].state \in Schedules!Terminal => occ'[s].state = occ[s].state
       /\ Schedules!IsPrefix(occ[s].history, occ'[s].history)
<1>3. Final => A
  BY DEF Final, Settles
<1>4. OccurrenceInv /\ [Schedules!Next]_(Schedules!vars) => OccurrenceInv' /\ [A]_(Schedules!vars)
  BY <1>2, <1>3
<1> HIDE DEF A
<1>5. Schedules!Spec => [][A]_(Schedules!vars)
  BY <1>1, <1>4, PTL DEF Schedules!Spec
<1>6. QED BY <1>5 DEF A, Schedules!OccurrenceIsFinal
=============================================================================
