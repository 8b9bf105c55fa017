--------------------------- MODULE TaskPublication ---------------------------
(* The creation of a Task through the publication kernel.  A request reserves *)
(* an attempt under its key and publishes in one transaction; the dispatch    *)
(* workers deliver the creation to every target under a lease, which opens    *)
(* the observation gate; a targeted creation then resolves its assignment     *)
(* reservation before the attempt is terminal.  Requests and workers run in   *)
(* several processes over one database, and interleave between transactions.  *)
EXTENDS Integers, Sequences, FiniteSets, SequencesExt

CONSTANTS
  Keys,         \* the attempt keys of one scope
  Targeted,     \* the keys whose creation names an agent
  Requests,     \* publication requests that may be in progress together
  Workers,      \* dispatch workers, one for each process
  TaskKinds,    \* targets whose adapter needs the Task row
  EventKinds,   \* targets whose adapter only needs the envelope
  Others,       \* claimants that are not the requested agent
  Limit,        \* attempts read in one page, 100 by default
  Deletable,    \* the Tasks a user may delete
  MaxCrashes    \* bound: crashes of a worker's process

ASSUME KernelAssumption ==
  /\ Targeted \subseteq Keys /\ Deletable \subseteq Keys
  /\ TaskKinds \cap EventKinds = {}
  /\ Limit \in Nat \ {0} /\ MaxCrashes \in Nat
  /\ "requested" \notin Others /\ "none" \notin Others
  /\ "none" \notin Workers /\ "ghost" \notin Workers

VARIABLES
  attempt,       \* the creation attempt of each key, with its lease
  task,          \* its Task, with the count of rows committed for the key
  target,        \* the dispatch targets of its envelope
  reservation,   \* its assignment reservation
  due,           \* the reservation's deadline has passed
  order,         \* the keys by the time of their reservation
  request,       \* where a request is
  worker,        \* where a worker's pass is
  crashes

vars == <<attempt, task, target, reservation, due, order, request, worker, crashes>>

Kinds == TaskKinds \cup EventKinds
Terminal == {"rejected", "created", "unassigned"}
PostObservation == {"assigning", "created", "unassigned"}
Published == {"observing"} \cup PostObservation
Idle == [at |-> "idle"]
NoRequest == [at |-> "idle"]
Members(s) == {s[i] : i \in DOMAIN s}

Init ==
  /\ attempt = [a \in Keys |-> [state |-> "absent", owner |-> "none", live |-> FALSE]]
  /\ task = [a \in Keys |-> [born |-> 0, state |-> "none", holder |-> "none"]]
  /\ target = [a \in Keys |-> [k \in Kinds |-> "none"]]
  /\ reservation = [a \in Keys |-> "none"]
  /\ due = [a \in Keys |-> FALSE]
  /\ order = <<>>
  /\ request = [r \in Requests |-> NoRequest]
  /\ worker = [w \in Workers |-> Idle]
  /\ crashes = 0

(***************************************************************************)
(* Requests                                                                *)
(***************************************************************************)
(* A key seen before is resumed while its attempt is pending, and answered  *)
(* from the attempt without a write otherwise.                              *)
Reserve(r, a) ==
  /\ request[r] = NoRequest /\ attempt[a].state \in {"absent", "pending"}
  /\ attempt' = [attempt EXCEPT ![a].state = "pending"]
  /\ order' = IF attempt[a].state = "absent" THEN Append(order, a) ELSE order
  /\ request' = [request EXCEPT ![r] = [at |-> "reserved", key |-> a]]
  /\ UNCHANGED <<task, target, reservation, due, worker, crashes>>

(* The checkpoints and the terminal states an attempt may move to; anything *)
(* else leaves it alone.                                                    *)
Forward(from, to) ==
  \/ from = "pending" /\ to \in {"rejected", "observing"}
  \/ from = "observing" /\ to \in {"assigning", "created"}
  \/ from = "assigning" /\ to \in {"created", "unassigned"}

Moved(a, to) ==
  IF Forward(attempt[a].state, to) THEN [attempt EXCEPT ![a].state = to] ELSE attempt

(* A request that stops leaves its key to the next one.                      *)
Stops(r) == request' = [request EXCEPT ![r] = NoRequest]

Reaches(r, at) == request' = [request EXCEPT ![r].at = at]

(* The proposal is checked against the Mission, the Habitat and the sources  *)
(* it names as they are now; the result of the terminal move is not read.    *)
Prepare(r) ==
  /\ request[r].at = "reserved"
  /\ \/ Reaches(r, "prepared") /\ UNCHANGED attempt
     \/ Stops(r) /\ attempt' = Moved(request[r].key, "rejected")
  /\ UNCHANGED <<task, target, reservation, due, order, worker, crashes>>

(* The prospective interceptors allow it, or one vetoes.                     *)
Govern(r) ==
  /\ request[r].at = "prepared"
  /\ \/ Reaches(r, "governed") /\ UNCHANGED attempt
     \/ Stops(r) /\ attempt' = Moved(request[r].key, "rejected")
  /\ UNCHANGED <<task, target, reservation, due, order, worker, crashes>>

(* In the transaction, what the proposal was checked against has changed.    *)
Drift(r) ==
  /\ request[r].at = "governed" /\ Stops(r)
  /\ UNCHANGED <<attempt, task, target, reservation, due, order, worker, crashes>>

(* The recorded decisions do not authorize the commit.                       *)
Deny(r) ==
  /\ request[r].at = "governed" /\ Stops(r)
  /\ UNCHANGED <<attempt, task, target, reservation, due, order, worker, crashes>>

(* The process dies anywhere before the commit.                              *)
Abandon(r) ==
  /\ request[r] # NoRequest /\ Stops(r)
  /\ UNCHANGED <<attempt, task, target, reservation, due, order, worker, crashes>>

(* One transaction: the Task, its event, the envelope with its targets, the  *)
(* reservation of a targeted creation and the checkpoint, which must move or *)
(* everything rolls back.                                                    *)
Publish(r) ==
  LET a == request[r].key IN
  /\ request[r].at = "governed" /\ Stops(r)
  /\ IF attempt[a].state = "pending"
     THEN /\ attempt' = Moved(a, "observing")
          /\ task' = [task EXCEPT ![a] =
               [born |-> @.born + 1, state |-> "open", holder |-> "none"]]
          /\ target' = [target EXCEPT ![a] = [k \in Kinds |-> "pending"]]
          /\ reservation' =
               [reservation EXCEPT ![a] = IF a \in Targeted THEN "active" ELSE "none"]
     ELSE UNCHANGED <<attempt, task, target, reservation>>
  /\ UNCHANGED <<due, order, worker, crashes>>

(***************************************************************************)
(* Claims                                                                  *)
(***************************************************************************)
(* A Task is claimable once its creation is observed.                      *)
Observed(a) == attempt[a].state \in PostObservation

ReservedForOther(a, who) == reservation[a] = "active" /\ who # "requested"

Claimable(a, who) ==
  /\ task[a].state = "open"
  /\ Observed(a)
  /\ ~ReservedForOther(a, who)

Claim(a, who) ==
  /\ Claimable(a, who)
  /\ task' = [task EXCEPT ![a].state = "held", ![a].holder = who]
  /\ UNCHANGED <<attempt, target, reservation, due, order, request, worker, crashes>>

Unclaim(a) ==
  /\ task[a].state = "held"
  /\ task' = [task EXCEPT ![a].state = "open", ![a].holder = "none"]
  /\ UNCHANGED <<attempt, target, reservation, due, order, request, worker, crashes>>

(* The row goes; the envelope, the attempt and the reservation do not.      *)
Delete(a) ==
  /\ a \in Deletable /\ task[a].state \in {"open", "held"}
  /\ task' = [task EXCEPT ![a].state = "deleted", ![a].holder = "none"]
  /\ UNCHANGED <<attempt, target, reservation, due, order, request, worker, crashes>>

Deadline(a) ==
  /\ reservation[a] = "active" /\ ~due[a]
  /\ due' = [due EXCEPT ![a] = TRUE]
  /\ UNCHANGED <<attempt, task, target, reservation, order, request, worker, crashes>>

(***************************************************************************)
(* The lease of an attempt                                                 *)
(***************************************************************************)
(* Mutant of Free: an expired lease is not taken over.                      *)
FreeWhenReleased(a) ==
  /\ attempt[a].state \notin Terminal
  /\ attempt[a].owner = "none"

Free(a) ==
  /\ attempt[a].state \notin Terminal
  /\ attempt[a].owner = "none" \/ ~attempt[a].live

Leased(a, w) == [attempt EXCEPT ![a].owner = w, ![a].live = TRUE]

(* Renewing needs the name only: an expired lease nobody took is renewed.   *)
Owns(a, w) == attempt[a].owner = w

Unleased(f, a, w) ==
  IF f[a].owner = w THEN [f EXCEPT ![a].owner = "none", ![a].live = FALSE] ELSE f

Expire(a) ==
  /\ attempt[a].live
  /\ attempt' = [attempt EXCEPT ![a].live = FALSE]
  /\ UNCHANGED <<task, target, reservation, due, order, request, worker, crashes>>

(***************************************************************************)
(* The dispatch worker                                                     *)
(***************************************************************************)
(* The oldest attempts in a state, one page of them.                        *)
Page(state) ==
  LET all == SelectSeq(order, LAMBDA a : attempt[a].state = state)
  IN SubSeq(all, 1, IF Len(all) < Limit THEN Len(all) ELSE Limit)

(* Read a page of unobserved attempts, always from the oldest; when there   *)
(* is none, or the last page moved none, sweep the assignments.             *)
Scan(w) ==
  LET page == Page("observing")
      sweep == Page("assigning")
      go == worker[w].at \in {"idle", "rescan"} /\ page # <<>>
  IN /\ worker[w].at \in {"idle", "rescan", "swept"}
     /\ worker[w] # Idle \/ page # <<>> \/ sweep # <<>>
     /\ worker' = [worker EXCEPT ![w] =
          IF go THEN [at |-> "take", queue |-> page, moved |-> FALSE]
          ELSE IF sweep # <<>> THEN [at |-> "sweep", queue |-> sweep] ELSE Idle]
     /\ UNCHANGED <<attempt, task, target, reservation, due, order, request, crashes>>

(* What follows the attempt at the head of the page.                        *)
Following(w, moved) ==
  LET m == worker[w].moved \/ moved
      rest == Tail(worker[w].queue)
  IN IF rest # <<>> THEN [at |-> "take", queue |-> rest, moved |-> m]
     ELSE [at |-> IF m THEN "rescan" ELSE "swept"]

Take(w) ==
  LET a == Head(worker[w].queue)
      todo == {k \in Kinds : target[a][k] # "accepted"}
  IN /\ worker[w].at = "take"
     /\ IF Free(a)
        THEN /\ attempt' = Leased(a, w)
             /\ worker' = [worker EXCEPT ![w] =
                  [at |-> "targets", queue |-> @.queue, moved |-> @.moved, todo |-> todo]]
        ELSE /\ worker' = [worker EXCEPT ![w] = Following(w, FALSE)]
             /\ UNCHANGED attempt
     /\ UNCHANGED <<task, target, reservation, due, order, request, crashes>>

(* Renew before each target and call its adapter; a lost lease ends this    *)
(* attempt's turn.                                                          *)
Call(w, k) ==
  LET a == Head(worker[w].queue) IN
  /\ worker[w].at = "targets" /\ k \in worker[w].todo
  /\ IF Owns(a, w)
     THEN /\ attempt' = Leased(a, w)
          /\ worker' = [worker EXCEPT ![w] =
               [at |-> "await", queue |-> @.queue, moved |-> @.moved, todo |-> @.todo \ {k},
                kind |-> k]]
     ELSE /\ worker' = [worker EXCEPT ![w] = Following(w, FALSE)]
          /\ UNCHANGED attempt
  /\ UNCHANGED <<task, target, reservation, due, order, request, crashes>>

(* An accepted target stays accepted, whoever answers later.                *)
Answered(a, k, outcome) ==
  IF target[a][k] = "accepted" THEN target ELSE [target EXCEPT ![a][k] = outcome]

(* The adapter's answer comes back.  The lease is not looked at again.      *)
Answer(w, outcome) ==
  LET a == Head(worker[w].queue)
      k == worker[w].kind
  IN /\ worker[w].at = "await"
     /\ outcome = "accepted" => k \in EventKinds \/ task[a].state # "deleted"
     /\ target' = Answered(a, k, outcome)
     /\ worker' = [worker EXCEPT ![w] =
          [at |-> "targets", queue |-> @.queue, moved |-> @.moved, todo |-> @.todo]]
     /\ UNCHANGED <<attempt, task, reservation, due, order, request, crashes>>

(* Mutant of Gate: a reservation is not waited for.                         *)
GateCreated(a) == "created"

(* The state an observed attempt moves to.                                  *)
Gate(a) == IF reservation[a] = "active" THEN "assigning" ELSE "created"

(* Evaluate the observation checkpoint, then release the lease.             *)
Observe(w) ==
  LET a == Head(worker[w].queue)
      open == /\ \A k \in Kinds : target[a][k] = "accepted"
              /\ attempt[a].state = "observing"
  IN /\ worker[w].at = "targets" /\ worker[w].todo = {}
     /\ attempt' = Unleased(IF open THEN Moved(a, Gate(a)) ELSE attempt, a, w)
     /\ worker' = [worker EXCEPT ![w] = Following(w, open)]
     /\ UNCHANGED <<task, target, reservation, due, order, request, crashes>>

(***************************************************************************)
(* The assignment sweep                                                    *)
(***************************************************************************)
Swept(w) ==
  LET rest == Tail(worker[w].queue)
  IN IF rest = <<>> THEN Idle ELSE [at |-> "sweep", queue |-> rest]

(* Lease the attempt and read its state and its active reservation.         *)
Resolve(w) ==
  LET a == Head(worker[w].queue) IN
  /\ worker[w].at = "sweep"
  /\ IF Free(a) /\ attempt[a].state = "assigning" /\ reservation[a] = "active"
     THEN /\ attempt' = Leased(a, w)
          /\ worker' = [worker EXCEPT ![w] = [at |-> "bind", queue |-> @.queue]]
     ELSE /\ worker' = [worker EXCEPT ![w] = Swept(w)]
          /\ UNCHANGED attempt
  /\ UNCHANGED <<task, target, reservation, due, order, request, crashes>>

(* The reservation leaves the active state once.                            *)
Closed(a, how) ==
  reservation' = [reservation EXCEPT ![a] = IF @ = "active" THEN how ELSE @]

Ended(a, w, how, state) ==
  /\ Closed(a, how)
  /\ attempt' = Unleased(Moved(a, state), a, w)

(* The agent claimed by itself: the reservation is reconciled.              *)
Reconcile(a, w) ==
  /\ task[a].holder = "requested"
  /\ Ended(a, w, "consumed", "created") /\ UNCHANGED task

Lapse(a, w) ==
  /\ task[a].holder # "requested" /\ due[a]
  /\ Ended(a, w, "expired", "unassigned") /\ UNCHANGED task

Assign(a, w) ==
  /\ task[a].holder # "requested" /\ ~due[a] /\ Claimable(a, "requested")
  /\ task' = [task EXCEPT ![a].state = "held", ![a].holder = "requested"]
  /\ Ended(a, w, "consumed", "created")

(* The claim authority refuses for good: the Task is occupied, or the agent *)
(* may not take it.                                                         *)
Refuse(a, w) ==
  /\ task[a].holder # "requested" /\ ~due[a] /\ task[a].state \in {"open", "held"}
  /\ Ended(a, w, "released", "unassigned") /\ UNCHANGED task

(* It refuses for now: the meter is spent, the write failed, or there is no *)
(* Task any more.                                                           *)
Resume(a, w) ==
  /\ task[a].holder # "requested" /\ ~due[a] /\ task[a].state \in {"open", "deleted"}
  /\ attempt' = Unleased(attempt, a, w) /\ UNCHANGED <<task, reservation>>

(* The second renewal, then one transaction with what was read before it.   *)
Bind(w) ==
  LET a == Head(worker[w].queue) IN
  /\ worker[w].at = "bind"
  /\ worker' = [worker EXCEPT ![w] = Swept(w)]
  /\ \/ Owns(a, w) /\ (\/ Reconcile(a, w) \/ Lapse(a, w) \/ Assign(a, w)
                       \/ Refuse(a, w) \/ Resume(a, w))
     \/ ~Owns(a, w) /\ UNCHANGED <<attempt, task, reservation>>
  /\ UNCHANGED <<target, due, order, request, crashes>>

(* A process dies and another starts, which has a name of its own.          *)
Crash(w) ==
  /\ worker[w] # Idle /\ crashes < MaxCrashes
  /\ crashes' = crashes + 1
  /\ worker' = [worker EXCEPT ![w] = Idle]
  /\ attempt' = [a \in Keys |-> IF attempt[a].owner = w
                                THEN [attempt[a] EXCEPT !.owner = "ghost"] ELSE attempt[a]]
  /\ UNCHANGED <<task, target, reservation, due, order, request>>

Work(w) ==
  \/ Scan(w) \/ Take(w) \/ (\E k \in Kinds : Call(w, k))
  \/ (\E o \in {"accepted", "attention"} : Answer(w, o))
  \/ Observe(w) \/ Resolve(w) \/ Bind(w)

Next ==
  \/ \E r \in Requests : \/ \E a \in Keys : Reserve(r, a)
                        \/ Prepare(r) \/ Govern(r) \/ Drift(r) \/ Deny(r) \/ Publish(r) \/ Abandon(r)
  \/ \E a \in Keys : \/ \E who \in Others \cup {"requested"} : Claim(a, who)
                     \/ Unclaim(a) \/ Delete(a) \/ Deadline(a) \/ Expire(a)
  \/ \E w \in Workers : Work(w) \/ Crash(w)

(* An adapter that is called again and again for a Task that exists accepts *)
(* some time.                                                               *)
Accept(a, k) ==
  \E w \in Workers : /\ worker[w].at = "await" /\ Head(worker[w].queue) = a
                     /\ worker[w].kind = k /\ Answer(w, "accepted")

Spec == Init /\ [][Next]_vars

(***************************************************************************)
(* Properties                                                              *)
(***************************************************************************)
(* Every row has the shape its table gives it.                              *)
TypeOK ==
  /\ \A a \in DOMAIN attempt :
       /\ attempt[a].state \in {"absent", "pending", "observing"} \cup Terminal \cup PostObservation
       /\ attempt[a].owner \in Workers \cup {"none", "ghost"}
       /\ attempt[a].live \in BOOLEAN
       /\ task[a].state \in {"none", "open", "held", "deleted"}
       /\ (task[a].state = "held") <=> (task[a].holder # "none")
       /\ reservation[a] \in {"none", "active", "consumed", "released", "expired"}
  /\ \A a \in DOMAIN attempt, k \in Kinds : target[a][k] \in {"none", "pending", "accepted", "attention"}
  /\ Members(order) = {a \in DOMAIN attempt : attempt[a].state # "absent"}
  /\ Len(order) = Cardinality(Members(order))

(* However many requests carry a key, and wherever each of them stops, the   *)
(* key has one Task when its attempt is published and none otherwise.        *)
OneTaskPerKey ==
  \A a \in DOMAIN attempt : task[a].born = IF attempt[a].state \in Published THEN 1 ELSE 0

(* Nobody holds a Task that some target has not been told of.                *)
HeldAfterDelivery ==
  \A a \in DOMAIN attempt : task[a].state = "held" => \A k \in Kinds : target[a][k] = "accepted"

(* While the reservation stands, the agent it names is the only holder.      *)
ReservedForRequested ==
  \A a \in DOMAIN attempt : reservation[a] = "active" => task[a].holder \in {"none", "requested"}

(* The reservation and its attempt end together, and the attempt's outcome   *)
(* says how, whichever worker resolved it and however late.                  *)
ReservationAgrees ==
  \A a \in Targeted :
    /\ reservation[a] = "active" <=> attempt[a].state \in {"observing", "assigning"}
    /\ reservation[a] = "consumed" <=> attempt[a].state = "created"
    /\ reservation[a] \in {"released", "expired"} <=> attempt[a].state = "unassigned"

(* The attempt, the Task, the targets and the reservation of a key agree.    *)
PublicationsAgree ==
  TypeOK /\ OneTaskPerKey /\ HeldAfterDelivery /\ ReservedForRequested /\ ReservationAgrees

(* A published creation is decided, or its Task deleted, whatever happens to *)
(* older ones: stuck attempts do not starve the newer attempts of a page.    *)
Undecided ==
  {a \in DOMAIN attempt : attempt[a].state \in Published \ Terminal /\ task[a].state # "deleted"}
PublishedSettles == \A a \in Keys : a \in Undecided ~> a \notin Undecided
=============================================================================
