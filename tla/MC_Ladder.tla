------------------------------ MODULE MC_Ladder ------------------------------
(* Three sides of the life of a task that need bounds of their own: a habitat *)
(* with a transition ceiling, a task without one that fails and is retried,   *)
(* and a task that is worked on by remote contributors.  A behaviour is one   *)
(* of an instance of one of the three, the part it takes.                     *)
EXTENDS MC_Task

VARIABLE part

NoActors == {}
OneAgent == {a1}
OneHuman == {h1}
TwoRemotes == {p1, p2}
OneRemote == {p1}
Unruled == {0}
RuledOrNot == {0, 1}

Retry == INSTANCE TaskLifecycle WITH
  Agents <- OneAgent, Delegates <- NoActors, Policies <- StablePolicies, Ceiling <- 0,
  MaxEpoch <- 6, MaxRetryCount <- 3

Remote == INSTANCE TaskLifecycle WITH
  Agents <- OneAgent, Remotes <- TwoRemotes, ExemptRemotes <- OneRemote, Delegates <- NoActors,
  PolicyCounts <- RuledOrNot, Policies <- NoPolicy, Ceiling <- 0, CrashAfterCommit <- FALSE,
  RemoteStartExposed <- TRUE, MaxEpoch <- 3, MaxRetryCount <- 1, MaxDeletions <- 1

Begin ==
  /\ part \in {"budget", "retry", "remote"}
  /\ CASE part = "budget" -> Init [] part = "retry" -> Retry!Init [] OTHER -> Remote!Init

Step ==
  \/ part = "budget" /\ Next /\ UNCHANGED part
  \/ part = "retry" /\ Retry!Next /\ UNCHANGED part
  \/ part = "remote" /\ Remote!Next /\ UNCHANGED part

(* The deliverer and the retry timer of the second part.                      *)
RetriesAreDue ==
  /\ WF_vars(/\ part = "retry"
             /\ \E receipt \in ladder, p \in StablePolicies : Retry!DeliverRetryLadder(receipt, p))
  /\ WF_vars(/\ part = "retry"
             /\ \E p \in StablePolicies, emitted \in Retry!Emission :
                  Retry!ProcessPendingRetry(p, emitted))

Behaviour == Begin /\ [][Step]_<<part, vars>> /\ RetriesAreDue
-----------------------------------------------------------------------------
(* Neither a failure nor a due row is left alone by the sweeps.               *)
RetriesFollow == part = "retry" => Retry!FailuresAreRetried
=============================================================================
