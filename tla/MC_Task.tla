------------------------------- MODULE MC_Task -------------------------------
(* Finite instances of TaskLifecycle.  Each configuration opens one side of *)
(* the system and closes the others.                                        *)
EXTENDS TaskLifecycle

CONSTANTS a1, a2, h1, h2, p1, p2

NoPolicy == {Null}

(* One retry for any reason, two, or one that rejections do not get.       *)
RetryOnce == [maxRetries |-> 1, escalateToHuman |-> TRUE, admitsReason |-> TRUE]
RetryTwice == [maxRetries |-> 2, escalateToHuman |-> FALSE, admitsReason |-> TRUE]
RetryFailures == [maxRetries |-> 1, escalateToHuman |-> TRUE, admitsReason |-> FALSE]
EditedPolicies == {Null, RetryOnce, RetryFailures}
StablePolicies == {RetryTwice}

=============================================================================
