---------------------------- MODULE OutboxLedger ----------------------------
(***************************************************************************)
(* What the effect outbox promises, without leases, attempts or workers.   *)
(* Every unit of delivery is open until it is done or parked for an        *)
(* operator; done is for good; a detector puts out its signals at most     *)
(* once, in the step that does it, and its whole family is done only when  *)
(* every member is.                                                        *)
(***************************************************************************)
EXTENDS Naturals

CONSTANTS
    Items,      \* units of delivery
    Members,    \* the detector targets among them
    Family      \* the aggregate of the members

VARIABLES
    outcome,    \* of each unit
    output      \* how often each member has put out its signals

vars == <<outcome, output>>

Outcomes == {"unborn", "open", "done", "parked"}

(* Only the aggregate may pass from parked to done in one step: a requeue  *)
(* that finds every member done.                                           *)
Edges(i) ==
    {<<"unborn", "open">>, <<"open", "done">>, <<"open", "parked">>, <<"parked", "open">>}
        \cup (IF i = Family THEN {<<"parked", "done">>} ELSE {})

MembersDone == \A m \in Members : outcome[m] = "done"

Init ==
    /\ outcome \in [Items -> Outcomes \ {"parked"}]
    /\ output = [m \in Members |-> 0]
    /\ \A i \in Items : outcome[i] = "done" => i = Family /\ Members = {}

Move ==
    /\ outcome' \in [Items -> Outcomes]
    /\ \A i \in Items : outcome'[i] # outcome[i] => <<outcome[i], outcome'[i]>> \in Edges(i)
    /\ outcome'[Family] = "done" => MembersDone'

(* A member puts out its signals in the step that closes it.               *)
PutOut ==
    \/ output' = output
    \/ \E m \in Members :
        /\ outcome[m] = "open" /\ outcome'[m] = "done"
        /\ output[m] = 0
        /\ output' = [output EXCEPT ![m] = 1]

Next == Move /\ PutOut

Spec == Init /\ [][Next]_vars
=============================================================================
