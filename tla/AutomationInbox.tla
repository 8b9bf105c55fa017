--------------------------- MODULE AutomationInbox ---------------------------
(* The durable inbox that hands one shipped Release to the automation rules.  *)
(* Admission freezes a delivery for every enabled rule; drains of several     *)
(* processes lease deliveries under a fence, run the actions behind           *)
(* checkpoints and settle each delivery with its run and its completion in    *)
(* one transaction; a lease found expired is resumed or handed to an          *)
(* operator, who waives it or opens a successor generation.                   *)
EXTENDS Integers, Sequences, FiniteSets

CONSTANTS
  Rules,        \* the enabled rules the event matches
  Plans,        \* the action lists a rule may have when it is frozen
  Drains,       \* drains that may run together, one for each process
  MaxGen,       \* bound: generations of a delivery
  TTL,          \* how long a lease lasts
  MaxClock,     \* bound: the clock stops here, and every lease with it
  MaxLeases,    \* bound: leases of one delivery
  MaxCrashes    \* bound: crashes of a drain

VARIABLES
  clock,
  inbox,     \* the inbox entry
  plan,      \* the frozen revision of each rule
  live,      \* the rules that still exist
  row,       \* the deliveries of each rule, by generation
  check,     \* their action checkpoints
  fired,     \* how often each action may have had its effect (history)
  run,       \* the run row of each delivery
  outbox,    \* its completion row
  drain,     \* where a drain is
  crashes

vars == <<clock, inbox, plan, live, row, check, fired, run, outbox, drain, crashes>>
work == <<plan, check, fired>>
settled == <<inbox, run, outbox>>

Gens == 1 .. MaxGen
None == [state |-> "none", fence |-> 0, leases |-> 0, until |-> 0, end |-> "none"]
Idle == [at |-> "idle"]
Done(state) == state \in {"terminal", "waived"}
Steps(d) == DOMAIN plan[d]
Proved(d, g) == {i \in Steps(d) : check[d][g][i] = "proved"}
Before(t, s) == IF t + s < MaxClock THEN t + s ELSE MaxClock

Init ==
  /\ clock = 0 /\ inbox = "none" /\ crashes = 0
  /\ plan \in [Rules -> Plans]
  /\ live = [d \in Rules |-> TRUE]
  /\ row = [d \in Rules |-> [g \in Gens |-> None]]
  /\ check = [d \in Rules |-> [g \in Gens |-> [i \in DOMAIN plan[d] |-> "none"]]]
  /\ fired = [d \in Rules |-> [g \in Gens |-> [i \in DOMAIN plan[d] |-> 0]]]
  /\ run = [d \in Rules |-> [g \in Gens |-> "none"]]
  /\ outbox = [d \in Rules |-> [g \in Gens |-> "none"]]
  /\ drain = [w \in Drains |-> Idle]

(* The entry is terminal when no delivery is left open.                     *)
Closed(rows) ==
  IF \A d \in Rules, g \in Gens : rows[d][g].state = "none" \/ Done(rows[d][g].state)
  THEN "terminal" ELSE inbox

(* One transaction: the entry, and a first delivery for each enabled rule.  *)
Admit ==
  /\ inbox = "none"
  /\ \E S \in SUBSET {d \in Rules : live[d]} :
       LET rows == [d \in Rules |-> [row[d] EXCEPT ![1].state =
                                       IF d \in S THEN "pending" ELSE "none"]]
       IN /\ row' = rows
          /\ inbox' = IF S = {} THEN "terminal" ELSE "pending"
  /\ UNCHANGED <<clock, live, work, run, outbox, drain, crashes>>

(* Deleting a rule takes its runs, and they their completions; the frozen   *)
(* revision stays.                                                          *)
DeleteRule(d) ==
  /\ live[d]
  /\ live' = [live EXCEPT ![d] = FALSE]
  /\ run' = [run EXCEPT ![d] = [g \in Gens |-> "none"]]
  /\ outbox' = [outbox EXCEPT ![d] = [g \in Gens |-> "none"]]
  /\ UNCHANGED <<clock, inbox, work, row, drain, crashes>>

Tick ==
  /\ clock < MaxClock /\ clock' = clock + 1
  /\ UNCHANGED <<inbox, live, work, row, run, outbox, drain, crashes>>

(***************************************************************************)
(* Leases                                                                  *)
(***************************************************************************)
Stale(d, g, now) == row[d][g].state = "leased" /\ row[d][g].until <= now

(* Mutant of Drainable: interrupted deliveries are never listed.            *)
DrainableNew(now) == {x \in Rules \X Gens : row[x[1]][x[2]].state = "pending"}

Drainable(now) ==
  {x \in Rules \X Gens : row[x[1]][x[2]].state = "pending" \/ Stale(x[1], x[2], now)}

(* A drain reads the time and the deliveries to visit once, at its start.   *)
StartDrain(w) ==
  /\ drain[w] = Idle /\ inbox # "none"
  /\ Drainable(clock) # {} \/ \E d \in Rules, g \in Gens : outbox[d][g] = "pending"
  /\ drain' = [drain EXCEPT ![w] = [at |-> "next", now |-> clock, left |-> Drainable(clock)]]
  /\ UNCHANGED <<clock, live, work, settled, row, crashes>>

(* The lease lasts from the time the drain read, not from the present.      *)
Lease(d, g, now) ==
  [row EXCEPT ![d][g].state = "leased", ![d][g].leases = @ + 1, ![d][g].fence = row[d][g].leases + 1,
              ![d][g].until = Before(now, TTL)]

(* Mutant of Fenced: any later lease will do.                               *)
FencedOnce(w) == row[drain[w].d][drain[w].g].leases >= drain[w].fence

Fenced(w) == row[drain[w].d][drain[w].g].fence = drain[w].fence

Turn(w, d, g, resumed) ==
  drain' = [drain EXCEPT ![w] =
    [at |-> "guards", now |-> @.now, left |-> @.left \ {<<d, g>>}, d |-> d, g |-> g,
     fence |-> row[d][g].leases + 1, resumed |-> resumed]]

(* Next delivery of the pass.                                               *)
Leave(w) == drain' = [drain EXCEPT ![w] = [at |-> "next", now |-> @.now, left |-> @.left]]

Pass(w, d, g) ==
  drain' = [drain EXCEPT ![w].left = @ \ {<<d, g>>}]

(* An interrupted delivery may go on by itself when one proved action shows *)
(* that the guards were passed and every other action may be repeated.      *)
Resumable(d, g) ==
  /\ Proved(d, g) # {}
  /\ \A i \in Steps(d) \ Proved(d, g) : plan[d][i] = "safe"

Attend(d, g, how) ==
  [row EXCEPT ![d][g].state = how, ![d][g].fence = 0, ![d][g].end = how]

Visit(w, d, g) ==
  /\ drain[w].at = "next" /\ <<d, g>> \in drain[w].left
  /\ row[d][g].leases < MaxLeases
  /\ \/ /\ row[d][g].state = "pending"
        /\ row' = Lease(d, g, drain[w].now) /\ Turn(w, d, g, FALSE)
     \/ /\ Stale(d, g, drain[w].now) /\ Resumable(d, g)
        /\ row' = Lease(d, g, drain[w].now) /\ Turn(w, d, g, TRUE)
     \/ /\ Stale(d, g, drain[w].now) /\ ~Resumable(d, g)
        /\ row' = Attend(d, g, "attention") /\ Pass(w, d, g)
     \/ /\ row[d][g].state # "pending" /\ ~Stale(d, g, drain[w].now)
        /\ Pass(w, d, g) /\ UNCHANGED row
  /\ UNCHANGED <<clock, live, work, settled, crashes>>

(***************************************************************************)
(* One delivery                                                            *)
(***************************************************************************)
(* The terminal bundle: the delivery, its run, the completion and the entry *)
(* together, or nothing when the fence moved or the run has disappeared.    *)
Settle(w, d, g, how, reserved) ==
  LET rows == Attend(d, g, "terminal")
      ends == [rows EXCEPT ![d][g].end = how]
  IN IF Fenced(w) /\ (reserved => run[d][g] # "none")
     THEN /\ row' = ends
          /\ run' = IF reserved THEN [run EXCEPT ![d][g] = "ended"] ELSE run
          /\ outbox' = IF reserved /\ outbox[d][g] = "none"
                       THEN [outbox EXCEPT ![d][g] = "pending"] ELSE outbox
          /\ inbox' = Closed(ends)
     ELSE UNCHANGED <<row, run, outbox, inbox>>

(* A guard refuses, or the condition is invalid: the run is reserved, if    *)
(* the rule still exists, and settled at once.                              *)
Decline(w, how) ==
  LET d == drain[w].d
      g == drain[w].g
  IN /\ drain[w].at = "guards" /\ (how = "skipped" => ~drain[w].resumed)
     /\ IF Fenced(w)
        THEN /\ row' = [Attend(d, g, "terminal") EXCEPT ![d][g].end = how]
             /\ run' = IF live[d] THEN [run EXCEPT ![d][g] = "ended"] ELSE run
             /\ outbox' = IF live[d] THEN [outbox EXCEPT ![d][g] = "pending"] ELSE outbox
             /\ inbox' = Closed(row')
        ELSE /\ run' = IF live[d] /\ run[d][g] = "none"
                       THEN [run EXCEPT ![d][g] = "running"] ELSE run
             /\ UNCHANGED <<row, outbox, inbox>>
     /\ Leave(w)
     /\ UNCHANGED <<clock, live, work, crashes>>

(* The run is reserved under the delivery's identity, and the checkpoints   *)
(* proved so far are read.                                                  *)
Begin(w) ==
  LET d == drain[w].d
      g == drain[w].g
  IN /\ drain[w].at = "guards"
     /\ run' = IF live[d] /\ run[d][g] = "none" THEN [run EXCEPT ![d][g] = "running"] ELSE run
     /\ drain' = [drain EXCEPT ![w] =
          [at |-> "act", now |-> @.now, left |-> @.left, d |-> d, g |-> g, fence |-> @.fence,
           i |-> 1, seen |-> Proved(d, g), reserved |-> live[d]]]
     /\ UNCHANGED <<clock, live, work, inbox, outbox, row, crashes>>

At(w, type) ==
  /\ drain[w].at = "act" /\ drain[w].i \in Steps(drain[w].d)
  /\ drain[w].i \notin drain[w].seen
  /\ plan[drain[w].d][drain[w].i] \in type

Skip(w) ==
  /\ drain[w].at = "act" /\ drain[w].i \in drain[w].seen
  /\ drain' = [drain EXCEPT ![w].i = @ + 1]
  /\ UNCHANGED <<clock, live, work, settled, row, crashes>>

(* An action with effects outside the database runs between its checkpoint  *)
(* and the record of its outcome.                                           *)
Fire(w) ==
  LET d == drain[w].d
      g == drain[w].g
      i == drain[w].i
  IN /\ At(w, {"safe", "unsafe"})
     /\ check' = [check EXCEPT ![d][g][i] = IF @ = "none" THEN "pending" ELSE @]
     /\ fired' = [fired EXCEPT ![d][g][i] = @ + 1]
     /\ drain' = [drain EXCEPT ![w].at = "fired"]
     /\ UNCHANGED <<clock, live, plan, settled, row, crashes>>

(* The outcome is recorded under the fence; a drain that lost it leaves.    *)
Record(w, outcome) ==
  LET d == drain[w].d
      g == drain[w].g
      i == drain[w].i
  IN /\ drain[w].at = "fired"
     /\ IF Fenced(w)
        THEN /\ check' = [check EXCEPT ![d][g][i] = outcome]
             /\ drain' = [drain EXCEPT ![w].at = "act", ![w].i = @ + 1]
        ELSE UNCHANGED check /\ Leave(w)
     /\ UNCHANGED <<clock, live, plan, fired, settled, row, crashes>>

(* A release commits with its proof, under the fence, or not at all.        *)
Release(w) ==
  LET d == drain[w].d
      g == drain[w].g
      i == drain[w].i
  IN /\ At(w, {"release"})
     /\ \/ /\ Fenced(w)
           /\ fired' = [fired EXCEPT ![d][g][i] = @ + 1]
           /\ check' = [check EXCEPT ![d][g][i] = "proved"]
           /\ drain' = [drain EXCEPT ![w].i = @ + 1]
        \/ /\ Fenced(w)
           /\ check' = [check EXCEPT ![d][g][i] = "failed"]
           /\ drain' = [drain EXCEPT ![w].i = @ + 1] /\ UNCHANGED fired
        \/ ~Fenced(w) /\ Leave(w) /\ UNCHANGED <<check, fired>>
     /\ UNCHANGED <<clock, live, plan, settled, row, crashes>>

Finish(w) ==
  /\ drain[w].at = "act" /\ drain[w].i \notin Steps(drain[w].d)
  /\ Settle(w, drain[w].d, drain[w].g, "executed", drain[w].reserved)
  /\ Leave(w)
  /\ UNCHANGED <<clock, live, work, crashes>>

(* After the last delivery the completions are handed on and marked.        *)
Flush(w) ==
  /\ drain[w].at = "next" /\ drain[w].left = {}
  /\ outbox' = [d \in Rules |-> [g \in Gens |->
                  IF outbox[d][g] = "pending" THEN "delivered" ELSE outbox[d][g]]]
  /\ drain' = [drain EXCEPT ![w] = Idle]
  /\ UNCHANGED <<clock, live, work, inbox, run, row, crashes>>

Crash(w) ==
  /\ drain[w] # Idle /\ crashes < MaxCrashes
  /\ crashes' = crashes + 1
  /\ drain' = [drain EXCEPT ![w] = Idle]
  /\ UNCHANGED <<clock, live, work, settled, row>>

(***************************************************************************)
(* The operator                                                            *)
(***************************************************************************)
Waive(d, g) ==
  /\ row[d][g].state = "attention"
  /\ row' = [row EXCEPT ![d][g].state = "waived"]
  /\ inbox' = Closed(row')
  /\ UNCHANGED <<clock, live, work, run, outbox, drain, crashes>>

(* The proved checkpoints go over to the next generation.                   *)
Carried(d, g) ==
  [check EXCEPT ![d][g + 1] = [i \in Steps(d) |-> IF i \in Proved(d, g) THEN "proved" ELSE "none"]]

Successor(d, g) ==
  /\ row[d][g].state = "attention" /\ g < MaxGen
  /\ row[d][g + 1].state = "none"
  /\ row' = [row EXCEPT ![d][g].state = "terminal", ![d][g].end = "superseded",
                        ![d][g + 1].state = "pending"]
  /\ check' = Carried(d, g)
  /\ UNCHANGED <<clock, live, plan, fired, settled, drain, crashes>>

Work(w) ==
  \/ StartDrain(w) \/ Begin(w) \/ Skip(w) \/ Fire(w) \/ Release(w) \/ Finish(w) \/ Flush(w)
  \/ (\E d \in Rules, g \in Gens : Visit(w, d, g))
  \/ (\E how \in {"skipped", "failed"} : Decline(w, how))
  \/ (\E o \in {"proved", "failed"} : Record(w, o))

Next ==
  \/ Admit \/ Tick
  \/ \E d \in Rules : DeleteRule(d) \/ \E g \in Gens : Waive(d, g) \/ Successor(d, g)
  \/ \E w \in Drains : Work(w) \/ Crash(w)

Spec == Init /\ [][Next]_vars

(***************************************************************************)
(* Properties                                                              *)
(***************************************************************************)
(* Every row has the shape of its table.                                    *)
TypeOK ==
  /\ inbox \in {"none", "pending", "terminal"} /\ clock \in 0 .. MaxClock
  /\ \A d \in Rules, g \in Gens :
       /\ row[d][g].state \in {"none", "pending", "leased", "attention", "terminal", "waived"}
       /\ row[d][g].fence \in 0 .. MaxLeases /\ row[d][g].until \in 0 .. MaxClock
       /\ (row[d][g].state = "leased") <=> (row[d][g].fence # 0)
       /\ run[d][g] \in {"none", "running", "ended"}
       /\ outbox[d][g] \in {"none", "pending", "delivered"}
       /\ \A i \in Steps(d) : /\ check[d][g][i] \in {"none", "pending", "proved", "failed"}
                              /\ fired[d][g][i] \in Nat

(* Within a generation an action that cannot be repeated safely is started  *)
(* once, however many drains worked on the delivery.                        *)
UnsafeFiresOnce ==
  \A d \in Rules, g \in Gens : \A i \in Steps(d) : plan[d][i] # "safe" => fired[d][g][i] <= 1

(* A release of a Task happens once over all generations, and exactly when  *)
(* some checkpoint proves it.                                               *)
ReleaseIsProved ==
  \A d \in Rules : \A i \in Steps(d) : plan[d][i] = "release" =>
    /\ Cardinality({g \in Gens : fired[d][g][i] > 0}) <= 1
    /\ (\E g \in Gens : check[d][g][i] = "proved") <=> (\E g \in Gens : fired[d][g][i] > 0)

(* A successor never starts an action its predecessors proved.              *)
ProvedIsCarried ==
  \A d \in Rules, g \in Gens : \A i \in Steps(d) :
    fired[d][g][i] > 0 => \A h \in 1 .. (g - 1) : check[d][h][i] # "proved"

(* The entry is terminal exactly when no delivery is open: a delivery that  *)
(* waits for an operator keeps it visible.                                  *)
InboxTellsAll ==
  inbox # "none" =>
    (inbox = "terminal" <=> \A d \in Rules, g \in Gens :
                              row[d][g].state \in {"none", "terminal", "waived"})

(* A delivery reported executed has an outcome for every action, and a run  *)
(* that ended has its completion on the way.                                *)
ExecutedIsComplete ==
  \A d \in Rules, g \in Gens :
    /\ row[d][g].end = "executed" => \A i \in Steps(d) : check[d][g][i] \in {"proved", "failed"}
    /\ run[d][g] = "ended" => outbox[d][g] # "none" /\ row[d][g].state = "terminal"

(* The entry, its deliveries, their evidence and their runs agree.          *)
InboxAgrees ==
  TypeOK /\ UnsafeFiresOnce /\ ReleaseIsProved /\ ProvedIsCarried /\ InboxTellsAll /\ ExecutedIsComplete

Rows(states) == {x \in (DOMAIN row) \X Gens : row[x[1]][x[2]].state \in states}
Untold == {x \in (DOMAIN row) \X Gens : outbox[x[1]][x[2]] = "pending"}

(* Every admitted delivery is settled or handed to the operator, and the    *)
(* completion of every run is handed on, unless its rule is deleted first.  *)
InboxFlows == inbox # "none" ~> Rows({"pending", "leased"}) \cup Untold = {}
=============================================================================
