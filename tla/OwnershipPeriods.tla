-------------------------- MODULE OwnershipPeriods ---------------------------
(***************************************************************************)
(* What the task service promises about custody and review, without tokens,*)
(* generations, rounds or rows: a task is owned by at most one holder at a *)
(* time, in numbered periods; approvals are evidence for the period they   *)
(* were given in and die with it; the holder gives none; and acceptance    *)
(* ends both.  TaskLifecycle implements it.                                *)
(***************************************************************************)
EXTENDS Naturals

CONSTANTS
    Holders,    \* who may own the task
    Judges,     \* who may approve it; some may also be holders
    Nobody      \* no holder: neither a holder nor a judge

VARIABLES
    holder,     \* who owns the task
    period,     \* how many ownerships have begun
    evidence,   \* judges whose approval of this period stands
    accepted    \* the task was approved or completed

vars == <<holder, period, evidence, accepted>>

Init ==
    /\ holder = Nobody
    /\ period = 0
    /\ evidence = {}
    /\ accepted = FALSE

(* Ownership begins from the pool, or passes from one holder to the next.  *)
Begin(h) ==
    /\ ~accepted
    /\ holder' = h
    /\ period' = period + 1
    /\ evidence' = {}
    /\ UNCHANGED accepted

End ==
    /\ holder # Nobody
    /\ holder' = Nobody
    /\ evidence' = {}
    /\ UNCHANGED <<period, accepted>>

(* A judge other than the holder gives or withdraws an approval.           *)
Judge(j) ==
    /\ holder # Nobody
    /\ j # holder
    /\ ~accepted
    /\ evidence' \in {evidence \cup {j}, evidence \ {j}}
    /\ UNCHANGED <<holder, period, accepted>>

(* Acceptance, with the approval that completes the evidence, if any.      *)
Accept ==
    /\ holder # Nobody
    /\ ~accepted
    /\ accepted' = TRUE
    /\ \/ UNCHANGED evidence
       \/ \E j \in Judges \ {holder} : evidence' = evidence \cup {j}
    /\ UNCHANGED <<holder, period>>

Next ==
    \/ \E h \in Holders : Begin(h)
    \/ End
    \/ \E j \in Judges : Judge(j)
    \/ Accept

Spec == Init /\ [][Next]_vars

=============================================================================
