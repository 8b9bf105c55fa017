------------------------- MODULE TaskLifecycleProofs -------------------------
(***************************************************************************)
(* Theorems about TaskLifecycle, for every set of actors, every rule,      *)
(* policy and ceiling.                                                     *)
(***************************************************************************)
EXTENDS TaskLifecycle, SequenceTheorems, TLAPS

(***************************************************************************)
(* What the operators of the review requirement return, for every row:     *)
(* each keeps the row well formed, none lowers its baseline, and only a    *)
(* resolution makes an unknown one known.  The lemmas are pure: they are   *)
(* cited below where the state machine applies the operators.              *)
(***************************************************************************)
(* The columns that each state of the row fixes, and the only cause of an  *)
(* effective count below the baseline.  The CHECK clauses of the migration *)
(* that created the table demand the same of every write.                  *)
Coherent(q) ==
    /\ q.state = "uncaptured" =>
          q.floor = Null /\ q.known = 0 /\ q.effective = Null /\ q.activeOverride = Null
    /\ q.state = "legacy_unknown" =>
          q.floor = Null /\ q.effective = Null /\ q.activeOverride = Null
    /\ q.state = "known_zero" =>
          q.floor = 0 /\ q.known = 0 /\ q.effective = 0 /\ q.activeOverride = Null
    /\ q.state = "required" =>
          /\ q.floor \in Nat /\ q.effective \in Nat
          /\ q.activeOverride \in {Null, q.generation}
          /\ q.effective < Baseline(q) => q.activeOverride = q.generation

-----------------------------------------------------------------------------
(* Types                                                                   *)

LEMMA BirthType == Uncaptured \in Requirements /\ PresetHistorical \in Requirements
BY SMT DEF Uncaptured, PresetHistorical, Requirements, RequirementStates

LEMMA OrZeroType == ASSUME NEW n \in Nat \cup {Null} PROVE OrZero(n) \in Nat
BY DEF OrZero

LEMMA BaselineType == ASSUME NEW q \in Requirements PROVE Baseline(q) \in Nat
BY OrZeroType DEF Requirements, Baseline, Larger

LEMMA LargerType ==
    ASSUME NEW m \in Nat, NEW n \in Nat
    PROVE  Larger(m, n) \in Nat /\ Larger(m, n) >= m /\ Larger(m, n) >= n
BY DEF Larger

LEMMA CapturedPolicyType ==
    ASSUME NEW q \in Requirements, NEW n \in Nat
    PROVE  CapturedPolicy(q, n) \in Requirements
<1>1. /\ OrZero(q.floor) \in Nat /\ q.known \in Nat
      /\ q.state \in RequirementStates
  BY OrZeroType DEF Requirements
<1>2. /\ Larger(OrZero(q.floor), n) \in Nat /\ Larger(q.known, n) \in Nat
      /\ Larger(Larger(OrZero(q.floor), n), q.known) \in Nat
  BY <1>1, LargerType
<1>3. /\ \A x : x \in Nat => x \in Nat \cup {Null}
      /\ (IF n = 0 THEN "known_zero" ELSE "required") \in RequirementStates
      /\ (IF n > 0 THEN "required" ELSE "known_zero") \in RequirementStates
      /\ 0 \in Nat
  BY DEF RequirementStates
<1>4. CASE q.state = "uncaptured"
  <2>1. CapturedPolicy(q, n) =
          [q EXCEPT !.state = IF n = 0 THEN "known_zero" ELSE "required",
                    !.floor = n, !.known = 0, !.effective = n]
    BY <1>4, Zenon DEF CapturedPolicy
  <2>2. QED
    BY <1>3, <2>1, Zenon DEF Requirements
<1>5. CASE q.state = "legacy_unknown"
  BY <1>2, <1>5, SMT DEF CapturedPolicy, Requirements
<1>6. CASE q.state = "known_zero"
  <2>1. CapturedPolicy(q, n) =
          [q EXCEPT !.state = IF n > 0 THEN "required" ELSE "known_zero",
                    !.floor = n, !.effective = n]
    BY <1>6, Zenon DEF CapturedPolicy
  <2>2. QED
    BY <1>3, <2>1, Zenon DEF Requirements
<1>7. CASE q.state = "required"
  <2>1. CapturedPolicy(q, n) =
          [q EXCEPT !.floor = Larger(OrZero(q.floor), n),
                    !.effective = Larger(Larger(OrZero(q.floor), n), q.known)]
    BY <1>7, SMT DEF CapturedPolicy
  <2>2. QED
    BY <1>2, <1>3, <2>1, Zenon DEF Requirements
<1>8. QED
  BY <1>1, <1>4, <1>5, <1>6, <1>7 DEF RequirementStates

LEMMA CaptureType ==
    ASSUME NEW q \in Requirements, NEW n \in Nat, NEW c \in Claimants
    PROVE  CaptureOnClaim(q, n, c) \in Requirements
<1> DEFINE r == CapturedPolicy(q, n)
<1>1. r \in Requirements
  BY CapturedPolicyType
<1>2. q.generation + 1 \in Nat /\ 0 \in Nat
  BY DEF Requirements
<1>3. CaptureOnClaim(q, n, c) =
        [r EXCEPT !.generation = q.generation + 1, !.round = 0, !.claimant = c,
                  !.approvedGeneration = Null, !.activeOverride = Null]
  BY DEF CaptureOnClaim
<1> HIDE DEF r
<1>4. QED
  BY <1>1, <1>2, <1>3, Zenon DEF Requirements

LEMMA EndOwnershipType ==
    ASSUME NEW q \in Requirements, NEW advance \in BOOLEAN
    PROVE  EndOwnership(q, advance) \in Requirements
<1> DEFINE effective == CASE q.state = "required"   -> Baseline(q)
                          [] q.state = "known_zero" -> 0
                          [] OTHER                  -> Null
           generation == IF advance THEN q.generation + 1 ELSE q.generation
<1>1. effective \in Nat \cup {Null} /\ generation \in Nat
  BY BaselineType DEF Requirements
<1>2. EndOwnership(q, advance) =
        [q EXCEPT !.claimant = Null, !.approvedGeneration = Null, !.activeOverride = Null,
                  !.effective = effective, !.generation = generation]
  BY DEF EndOwnership
<1> HIDE DEF effective, generation
<1>3. QED
  BY <1>1, <1>2, Zenon DEF Requirements

LEMMA MarkType ==
    ASSUME NEW q \in Requirements
    PROVE  /\ BumpRound(q) \in Requirements
           /\ StampApproved(q) \in Requirements
           /\ [q EXCEPT !.approvedGeneration = Null] \in Requirements
BY SMT DEF BumpRound, StampApproved, Requirements

LEMMA ResolveType ==
    ASSUME NEW q \in Requirements, NEW n \in Nat
    PROVE  Resolve(q, n) \in Requirements
<1>1. /\ Larger(n, q.known) \in Nat
      /\ q.generation \in Nat
      /\ \A x : x \in Nat => x \in Nat \cup {Null}
      /\ "known_zero" \in RequirementStates /\ "required" \in RequirementStates
  BY LargerType DEF Requirements, RequirementStates
<1>2. QED
  BY <1>1, Zenon DEF Resolve, Requirements

-----------------------------------------------------------------------------
(* Coherence                                                               *)

LEMMA BirthCoherent == Coherent(Uncaptured) /\ Coherent(PresetHistorical)
BY DEF Uncaptured, PresetHistorical, Coherent

(* The columns of a captured row, state by state.                          *)
LEMMA CaptureColumns ==
    ASSUME NEW q \in Requirements, NEW n \in Nat, NEW c \in Claimants, Coherent(q),
           NEW r, r = CaptureOnClaim(q, n, c)
    PROVE  /\ r.generation = q.generation + 1
           /\ r.activeOverride = Null
           /\ q.state = "legacy_unknown" =>
                 /\ r.state = "legacy_unknown" /\ r.floor = Null /\ r.effective = Null
                 /\ r.known = Larger(q.known, n)
           /\ q.state \in {"uncaptured", "known_zero"} =>
                 /\ r.state = IF n = 0 THEN "known_zero" ELSE "required"
                 /\ r.floor = n /\ r.known = 0 /\ r.effective = n
           /\ q.state = "required" =>
                 /\ r.state = "required" /\ r.floor = Larger(q.floor, n)
                 /\ r.known = q.known /\ r.effective = Larger(r.floor, q.known)
<1> DEFINE p == CapturedPolicy(q, n)
<1>1. /\ r.generation = q.generation + 1 /\ r.activeOverride = Null
      /\ r.state = p.state /\ r.floor = p.floor
      /\ r.known = p.known /\ r.effective = p.effective
  <2>1. p \in Requirements
    BY CapturedPolicyType
  <2> HIDE DEF p
  <2>2. r = [p EXCEPT !.generation = q.generation + 1, !.round = 0, !.claimant = c,
                      !.approvedGeneration = Null, !.activeOverride = Null]
    BY DEF CaptureOnClaim, p
  <2>3. QED
    BY <2>1, <2>2, SMT DEF Requirements
<1>2. CASE q.state = "uncaptured"
  <2>1. p = [q EXCEPT !.state = IF n = 0 THEN "known_zero" ELSE "required",
                      !.floor = n, !.known = 0, !.effective = n]
    BY <1>2, Zenon DEF CapturedPolicy
  <2>2. QED
    BY <1>1, <1>2, <2>1, SMT DEF Requirements
<1>3. CASE q.state = "legacy_unknown"
  BY <1>1, <1>3, SMT DEF CapturedPolicy, Requirements, Coherent
<1>4. CASE q.state = "known_zero"
  <2>1. p = [q EXCEPT !.state = IF n > 0 THEN "required" ELSE "known_zero",
                      !.floor = n, !.effective = n]
    BY <1>4, Zenon DEF CapturedPolicy
  <2>2. p.state = IF n = 0 THEN "known_zero" ELSE "required"
    BY <2>1, SMT DEF Requirements
  <2>3. p.floor = n /\ p.known = 0 /\ p.effective = n
    BY <1>4, <2>1, SMT DEF Requirements, Coherent
  <2>4. QED
    BY <1>1, <1>4, <2>2, <2>3
<1>5. CASE q.state = "required"
  <2>1. OrZero(q.floor) = q.floor
    BY <1>5, NullAssumption DEF Coherent, OrZero
  <2>2. p = [q EXCEPT !.floor = Larger(q.floor, n),
                      !.effective = Larger(Larger(q.floor, n), q.known)]
    BY <1>5, <2>1, SMT DEF CapturedPolicy
  <2>3. QED
    BY <1>1, <1>5, <2>2, SMT DEF Requirements
<1>6. QED
  BY <1>1, <1>2, <1>3, <1>4, <1>5 DEF Requirements, RequirementStates

LEMMA CaptureCoherent ==
    ASSUME NEW q \in Requirements, NEW n \in Nat, NEW c \in Claimants, Coherent(q)
    PROVE  Coherent(CaptureOnClaim(q, n, c))
<1> DEFINE r == CaptureOnClaim(q, n, c)
<1>1. q.state \in RequirementStates /\ q.known \in Nat
  BY DEF Requirements
<1> HIDE DEF r
<1>2. CASE q.state \in {"uncaptured", "known_zero"}
  <2>1. /\ r.state = IF n = 0 THEN "known_zero" ELSE "required"
        /\ r.floor = n /\ r.known = 0 /\ r.effective = n /\ r.activeOverride = Null
    BY <1>2, CaptureColumns DEF r
  <2>2. Baseline(r) = n
    BY <2>1, NullAssumption DEF Baseline, Larger, OrZero
  <2>3. Coherent(r)
    BY <2>1, <2>2 DEF Coherent
  <2>4. QED
    BY <2>3 DEF r
<1>3. CASE q.state = "legacy_unknown"
  <2>1. /\ r.state = "legacy_unknown" /\ r.floor = Null /\ r.effective = Null
        /\ r.activeOverride = Null
    BY <1>3, CaptureColumns DEF r
  <2>2. Coherent(r)
    BY <2>1 DEF Coherent
  <2>3. QED
    BY <2>2 DEF r
<1>4. CASE q.state = "required"
  <2>1. /\ r.state = "required" /\ r.floor = Larger(q.floor, n) /\ r.known = q.known
        /\ r.effective = Larger(r.floor, q.known) /\ r.activeOverride = Null
    BY <1>4, CaptureColumns DEF r
  <2>2. q.floor \in Nat
    BY <1>4 DEF Coherent
  <2>3. r.floor \in Nat /\ r.effective \in Nat
    BY <1>1, <2>1, <2>2, SMT DEF Larger
  <2>4. Baseline(r) = r.effective
    BY <2>1, <2>3, NullAssumption DEF Baseline, OrZero
  <2>5. Coherent(r)
    BY <2>1, <2>3, <2>4 DEF Coherent
  <2>6. QED
    BY <2>5 DEF r
<1>5. QED
  BY <1>1, <1>2, <1>3, <1>4 DEF RequirementStates

LEMMA EndOwnershipCoherent ==
    ASSUME NEW q \in Requirements, NEW advance \in BOOLEAN, Coherent(q)
    PROVE  Coherent(EndOwnership(q, advance))
<1> DEFINE r == EndOwnership(q, advance)
<1>1. /\ r.state = q.state /\ r.floor = q.floor /\ r.known = q.known
      /\ r.activeOverride = Null
      /\ r.effective = CASE q.state = "required"   -> Baseline(q)
                         [] q.state = "known_zero" -> 0
                         [] OTHER                  -> Null
  BY SMT DEF EndOwnership, Requirements
<1> HIDE DEF r
<1>2. Baseline(r) = Baseline(q) /\ Baseline(q) \in Nat
  BY <1>1, BaselineType DEF Baseline
<1>3. Coherent(r)
  BY <1>1, <1>2 DEF Coherent
<1>4. QED
  BY <1>3 DEF r

LEMMA MarkCoherent ==
    ASSUME NEW q \in Requirements, Coherent(q)
    PROVE  /\ Coherent(BumpRound(q))
           /\ Coherent(StampApproved(q))
           /\ Coherent([q EXCEPT !.approvedGeneration = Null])
BY SMT DEF BumpRound, StampApproved, Coherent, Requirements, Baseline

LEMMA ResolveCoherent ==
    ASSUME NEW q \in Requirements, NEW n \in Nat, Coherent(q), CanResolve(q, n)
    PROVE  Coherent(Resolve(q, n))
<1> DEFINE r == Resolve(q, n)
<1>1. CASE q.state = "legacy_unknown"
  <2>1. /\ r.state = IF Larger(n, q.known) = 0 THEN "known_zero" ELSE "required"
        /\ r.floor = n /\ r.known = q.known /\ r.effective = Larger(n, q.known)
        /\ r.activeOverride = Null
    BY <1>1, SMT DEF Resolve, Requirements
  <2>2. q.known \in Nat
    BY DEF Requirements
  <2> HIDE DEF r
  <2>3. Baseline(r) = r.effective
    BY <2>1, NullAssumption DEF Baseline, OrZero
  <2>4. Coherent(r)
    BY <2>1, <2>2, <2>3, NullAssumption DEF Coherent, Larger
  <2>5. QED
    BY <2>4 DEF r
<1>2. CASE q.state # "legacy_unknown"
  <2>1. q.state = "required"
    BY <1>2 DEF CanResolve
  <2>2. /\ r.state = "required" /\ r.floor = q.floor /\ r.effective = n
        /\ r.activeOverride = q.generation /\ r.generation = q.generation
    BY <1>2, <2>1, SMT DEF Resolve, Requirements
  <2> HIDE DEF r
  <2>3. Coherent(r)
    BY <2>1, <2>2 DEF Coherent
  <2>4. QED
    BY <2>3 DEF r
<1>3. QED
  BY <1>1, <1>2

-----------------------------------------------------------------------------
(* The baseline                                                            *)

LEMMA CaptureKeepsBaseline ==
    ASSUME NEW q \in Requirements, NEW n \in Nat, NEW c \in Claimants, Coherent(q)
    PROVE  Baseline(CaptureOnClaim(q, n, c)) >= Baseline(q)
<1> DEFINE r == CaptureOnClaim(q, n, c)
<1>1. q.known \in Nat /\ q.state \in RequirementStates
  BY DEF Requirements
<1> HIDE DEF r
<1>2. CASE q.state = "required"
  <2>1. r.floor = Larger(q.floor, n) /\ r.known = q.known
    BY <1>2, CaptureColumns DEF r
  <2>2. q.floor \in Nat
    BY <1>2 DEF Coherent
  <2>3. QED
    BY <1>1, <2>1, <2>2, NullAssumption DEF Baseline, Larger, OrZero, r
<1>3. CASE q.state = "legacy_unknown"
  <2>1. r.floor = Null /\ r.known = Larger(q.known, n) /\ q.floor = Null
    BY <1>3, CaptureColumns DEF r, Coherent
  <2>2. QED
    BY <1>1, <2>1, NullAssumption DEF Baseline, Larger, OrZero, r
<1>4. CASE q.state \in {"uncaptured", "known_zero"}
  <2>1. r.floor = n /\ r.known = 0 /\ q.floor \in {0, Null} /\ q.known = 0
    BY <1>4, CaptureColumns DEF r, Coherent
  <2>2. QED
    BY <2>1, NullAssumption DEF Baseline, Larger, OrZero, r
<1>5. QED
  BY <1>1, <1>2, <1>3, <1>4 DEF RequirementStates

LEMMA EndOwnershipKeepsBaseline ==
    ASSUME NEW q \in Requirements, NEW advance \in BOOLEAN
    PROVE  Baseline(EndOwnership(q, advance)) = Baseline(q)
BY SMT DEF EndOwnership, Requirements, Baseline

LEMMA MarkKeepsBaseline ==
    ASSUME NEW q \in Requirements
    PROVE  /\ Baseline(BumpRound(q)) = Baseline(q)
           /\ Baseline(StampApproved(q)) = Baseline(q)
           /\ Baseline([q EXCEPT !.approvedGeneration = Null]) = Baseline(q)
BY SMT DEF BumpRound, StampApproved, Requirements, Baseline

LEMMA ResolveKeepsBaseline ==
    ASSUME NEW q \in Requirements, NEW n \in Nat, Coherent(q)
    PROVE  Baseline(Resolve(q, n)) >= Baseline(q)
BY NullAssumption, SMT DEF Resolve, Coherent, Requirements, Baseline, Larger, OrZero

-----------------------------------------------------------------------------
(* The unknown                                                             *)

LEMMA UnknownSurvivesCapture ==
    ASSUME NEW q \in Requirements, q.state = "legacy_unknown", NEW n \in Nat, NEW c \in Claimants
    PROVE  CaptureOnClaim(q, n, c).state = "legacy_unknown"
BY SMT DEF CaptureOnClaim, CapturedPolicy, Requirements

LEMMA UnknownSurvives ==
    ASSUME NEW q \in Requirements, q.state = "legacy_unknown"
    PROVE  /\ \A advance \in BOOLEAN : EndOwnership(q, advance).state = "legacy_unknown"
           /\ BumpRound(q).state = "legacy_unknown"
           /\ StampApproved(q).state = "legacy_unknown"
           /\ [q EXCEPT !.approvedGeneration = Null].state = "legacy_unknown"
BY SMT DEF EndOwnership, BumpRound, StampApproved, Requirements

(***************************************************************************)
(* The state machine                                                       *)
(***************************************************************************)

(* The ways in which a step may move the review requirement: whatever the  *)
(* handler, it goes through one operator of the kernel.                    *)
RequirementMoves ==
    \/ UNCHANGED req
    \/ \E n \in Nat, c \in Claimants : req' = CaptureOnClaim(req, n, c)
    \/ \E advance \in BOOLEAN : req' = EndOwnership(req, advance)
    \/ req' \in {BumpRound(req), StampApproved(req), [req EXCEPT !.approvedGeneration = Null]}
    \/ \E n \in Nat : CanResolve(req, n) /\ req' = Resolve(req, n) /\ UNCHANGED task

LEMMA StepMovesRequirement == ASSUME [Next]_vars PROVE RequirementMoves
<1>1. ASSUME NEW a \in Agents, NEW count \in PolicyCounts, NEW emitted \in Emission,
             ClaimTask(a, count, emitted) \/ ClaimDelegatedTask(a, count, emitted)
      PROVE  RequirementMoves
  BY <1>1, CountsAssumption, Zenon
  DEF ClaimTask, ClaimDelegatedTask, BeginPeriod, RequirementMoves, Claimants
<1>2. ASSUME NEW p \in Remotes, NEW count \in PolicyCounts, ClaimTaskForRemote(p, count)
      PROVE  RequirementMoves
  BY <1>2, CountsAssumption, Zenon
  DEF ClaimTaskForRemote, BeginPeriod, RequirementMoves, Claimants
<1>3. ASSUME NEW a \in Agents, NEW b \in Delegates, DelegateTask(a, b)
      PROVE  RequirementMoves
  BY <1>3, Zenon DEF DelegateTask, reviewVars, RequirementMoves
<1>4. ASSUME NEW a \in Agents, NEW t, NEW emitted \in Emission, StartTask(a, t, emitted)
      PROVE  RequirementMoves
  BY <1>4, Zenon DEF StartTask, RequirementMoves
<1>5. ASSUME NEW a \in Agents, NEW t, NEW emitted \in Emission, ReleaseTask(a, t, emitted)
      PROVE  RequirementMoves
  BY <1>5, Zenon DEF ReleaseTask, RequirementMoves
<1>6. ASSUME NEW a \in Agents, NEW t, NEW emitted \in Emission, NEW S,
             SubmitTask(a, t, S, emitted)
      PROVE  RequirementMoves
  BY <1>6, Zenon DEF SubmitTask, RequirementMoves
<1>7. ASSUME NEW a \in Agents, NEW t, FailTask(a, t)
      PROVE  RequirementMoves
  BY <1>7, Zenon DEF FailTask, FailWithEffects, RequirementMoves
<1>8. ASSUME NEW p \in Remotes, StartTaskByRemoteParticipant(p)
      PROVE  RequirementMoves
  BY <1>8, Zenon DEF StartTaskByRemoteParticipant, reviewVars, RequirementMoves
<1>9. ASSUME NEW p \in Remotes, ReleaseTaskForRemote(p)
      PROVE  RequirementMoves
  BY <1>9, Zenon DEF ReleaseTaskForRemote, RequirementMoves
<1>10. ASSUME NEW p \in Remotes, NEW S, NEW emitted \in Emission,
              SubmitTaskForRemote(p, S, emitted)
       PROVE  RequirementMoves
  BY <1>10, Zenon DEF SubmitTaskForRemote, RequirementMoves
<1>11. ASSUME NEW r \in Reviewers, ApproveTask(r)
       PROVE  RequirementMoves
  BY <1>11, Zenon DEF ApproveTask, TerminalApprove, RequirementMoves
<1>12. ASSUME NEW r \in Reviewers, AddReviewer(r) \/ RemoveReviewer(r)
       PROVE  RequirementMoves
  BY <1>12, Zenon DEF AddReviewer, RemoveReviewer, RequirementMoves
<1>13. ASSUME NEW r \in Reviewers, NEW p \in Policies, NEW emission, RejectTask(r, p, emission)
       PROVE  RequirementMoves
  BY <1>13, Zenon DEF RejectTask, RequirementMoves
<1>14. ASSUME NEW a \in Agents, CompleteTask(a)
       PROVE  RequirementMoves
  BY <1>14, Zenon DEF CompleteTask, reviewVars, RequirementMoves
<1>15. ASSUME NEW h \in Humans, NEW n \in ResolveCounts, ResolveRequirement(h, n)
       PROVE  RequirementMoves
  BY <1>15, CountsAssumption, Zenon DEF ResolveRequirement, RequirementMoves
<1>16. ASSUME SystemRelease PROVE RequirementMoves
  BY <1>16, Zenon DEF SystemRelease, ReleaseWithEffects, RequirementMoves
<1>17. ASSUME SystemFail PROVE RequirementMoves
  BY <1>17, Zenon DEF SystemFail, FailWithEffects, RequirementMoves
<1>18. ASSUME NEW a \in Agents, NEW byHuman \in BOOLEAN, DeleteAgent(a, byHuman)
       PROVE  RequirementMoves
  BY <1>18, Zenon DEF DeleteAgent, RequirementMoves
<1>19. ASSUME NEW receipt \in ladder, NEW p \in Policies, DeliverRetryLadder(receipt, p)
       PROVE  RequirementMoves
  BY <1>19, Zenon DEF DeliverRetryLadder, reviewVars, RequirementMoves
<1>20. ASSUME NEW p \in Policies, NEW emitted \in Emission, ProcessPendingRetry(p, emitted)
       PROVE  RequirementMoves
  BY <1>20, Zenon
  DEF ProcessPendingRetry, RetryToPending, EscalateClearOwner, RetireDueRow, Owned,
      RequirementMoves
<1>21. ASSUME NEW emitted \in Emission,
              ManualRetryByAgent(emitted) \/ ManualRetryByHuman(emitted)
       PROVE  RequirementMoves
  BY <1>21, Zenon
  DEF ManualRetryByAgent, ManualRetryByHuman, RetryToPending, Owned, RequirementMoves
<1>22. CASE UNCHANGED vars
  BY <1>22 DEF vars, RequirementMoves
<1>23. QED
  BY <1>1, <1>2, <1>3, <1>4, <1>5, <1>6, <1>7, <1>8, <1>9, <1>10, <1>11, <1>12, <1>13,
     <1>14, <1>15, <1>16, <1>17, <1>18, <1>19, <1>20, <1>21, <1>22, Zenon DEF Next

LEMMA RequirementStep ==
    ASSUME req \in Requirements, RequirementMoves
    PROVE  /\ req' \in Requirements
           /\ Coherent(req) => Coherent(req') /\ Baseline(req') >= Baseline(req)
           /\ req.state = "legacy_unknown" /\ req'.state # "legacy_unknown" => UNCHANGED task
<1>1. Baseline(req) \in Nat
  BY BaselineType
<1>2. CASE UNCHANGED req
  BY <1>1, <1>2
<1>3. ASSUME NEW n \in Nat, NEW c \in Claimants, req' = CaptureOnClaim(req, n, c)
      PROVE  /\ req' \in Requirements
             /\ Coherent(req) => Coherent(req') /\ Baseline(req') >= Baseline(req)
             /\ req.state = "legacy_unknown" => req'.state = "legacy_unknown"
  BY <1>3, CaptureType, CaptureCoherent, CaptureKeepsBaseline, UnknownSurvivesCapture,
     Zenon
<1>4. ASSUME NEW advance \in BOOLEAN, req' = EndOwnership(req, advance)
      PROVE  /\ req' \in Requirements
             /\ Coherent(req) => Coherent(req')
             /\ Baseline(req') = Baseline(req)
             /\ req.state = "legacy_unknown" => req'.state = "legacy_unknown"
  BY <1>4, EndOwnershipType, EndOwnershipCoherent, EndOwnershipKeepsBaseline,
     UnknownSurvives, Zenon
<1>5. CASE req' \in {BumpRound(req), StampApproved(req), [req EXCEPT !.approvedGeneration = Null]}
  <2>1. /\ req' \in Requirements
        /\ Coherent(req) => Coherent(req')
        /\ Baseline(req') = Baseline(req)
    BY <1>5, MarkType, MarkCoherent, MarkKeepsBaseline, Zenon
  <2>2. req.state = "legacy_unknown" => req'.state = "legacy_unknown"
    BY <1>5, UnknownSurvives, Zenon
  <2>3. QED
    BY <1>1, <2>1, <2>2
<1>6. ASSUME NEW n \in Nat, CanResolve(req, n), req' = Resolve(req, n), UNCHANGED task
      PROVE  /\ req' \in Requirements
             /\ Coherent(req) => Coherent(req') /\ Baseline(req') >= Baseline(req)
  BY <1>6, ResolveType, ResolveCoherent, ResolveKeepsBaseline, Zenon
<1>7. QED
  BY <1>1, <1>2, <1>3, <1>4, <1>5, <1>6 DEF RequirementMoves

-----------------------------------------------------------------------------
(* The requirement row on its own: its type and its coherence are inductive*)

RequirementInv == req \in Requirements /\ Coherent(req)

LEMMA RequirementInvariant == Spec => []RequirementInv
<1>1. Init => RequirementInv
  BY BirthType, BirthCoherent DEF Init, RequirementInv
<1>2. RequirementInv /\ [Next]_vars => RequirementInv'
  BY StepMovesRequirement, RequirementStep DEF RequirementInv
<1>3. QED
  BY <1>1, <1>2, PTL DEF Spec

(* The effective count is below the baseline only under an override that a *)
(* human recorded in the current generation.                               *)
THEOREM RelaxationTheorem == Spec => []RelaxationIsOfThisGeneration
<1>1. RequirementInv => RelaxationIsOfThisGeneration
  BY NullAssumption
  DEF RequirementInv, Coherent, RelaxationIsOfThisGeneration, Requirements, RequirementStates,
      Baseline, Larger, OrZero
<1>2. QED
  BY <1>1, RequirementInvariant, PTL

(* No step of any handler lowers the baseline of the review requirement.   *)
THEOREM BaselineTheorem == Spec => BaselineNeverDrops
<1>1. RequirementInv /\ [Next]_vars => [Baseline(req') >= Baseline(req)]_vars
  BY StepMovesRequirement, RequirementStep DEF RequirementInv
<1>2. QED
  BY <1>1, RequirementInvariant, PTL DEF Spec, BaselineNeverDrops

(* Only a step that leaves the task alone makes an unknown requirement     *)
(* known.                                                                  *)
THEOREM UnknownTheorem == Spec => UnknownIsSticky
<1>1. RequirementInv /\ [Next]_vars
        => [req.state = "legacy_unknown" /\ req'.state # "legacy_unknown" => UNCHANGED task]_vars
  BY StepMovesRequirement, RequirementStep DEF RequirementInv
<1>2. QED
  BY <1>1, RequirementInvariant, PTL DEF Spec, UnknownIsSticky

-----------------------------------------------------------------------------
(* Types.  The task row, its requirement and the books kept beside them    *)
(* each keep their type in every step.                                     *)

LEMMA EpochType == ASSUME TypeOK PROVE ThisEpoch \in Nat /\ NewToken \in Nat
BY DEF TypeOK, ThisEpoch, NewToken

LEMMA ClearedType ==
    ASSUME task \in Tasks, NEW status \in TaskStatuses
    PROVE  /\ Cleared(status) \in Tasks
           /\ Cleared(status).retryCount = task.retryCount
BY Zenon DEF Cleared, Tasks

LEMMA TaskType == ASSUME TypeOK, [Next]_vars PROVE task' \in Tasks
<1>1. /\ task \in Tasks /\ ThisEpoch \in Nat /\ NewToken \in Nat
      /\ task.retryCount + 1 \in Nat
  BY EpochType DEF TypeOK, Tasks
<1>2. \A status \in {"pending", "claimed", "in_progress", "submitted", "approved",
                     "rejected", "done", "failed"} : status \in TaskStatuses
  BY DEF TaskStatuses
<1>3. ASSUME NEW a \in Agents, NEW count \in PolicyCounts, NEW emitted \in Emission,
             ClaimTask(a, count, emitted) \/ ClaimDelegatedTask(a, count, emitted)
      PROVE  task' \in Tasks
  BY <1>1, <1>2, <1>3, ZenonT(40) DEF ClaimTask, ClaimDelegatedTask, Tasks
<1>4. ASSUME NEW p \in Remotes, NEW count \in PolicyCounts, ClaimTaskForRemote(p, count)
      PROVE  task' \in Tasks
  BY <1>1, <1>2, <1>4, Zenon DEF ClaimTaskForRemote, Tasks
<1>5. ASSUME NEW a \in Agents, NEW b \in Delegates, DelegateTask(a, b)
      PROVE  task' \in Tasks
  BY <1>1, <1>5, ActorsAssumption, Zenon DEF DelegateTask, Tasks
<1>6. ASSUME NEW a \in Agents, NEW t \in TokensOf(a), NEW emitted \in Emission,
             StartTask(a, t, emitted)
      PROVE  task' \in Tasks
  BY <1>1, <1>2, <1>6, Zenon DEF StartTask, Tasks
<1>7. ASSUME NEW a \in Agents, NEW t \in TokensOf(a), NEW emitted \in Emission,
             NEW S \in Assignments, SubmitTask(a, t, S, emitted)
      PROVE  task' \in Tasks
  <2>1. t \in Nat
    <3>1. DOMAIN sessions = 1..Len(sessions) /\ Len(sessions) \in Nat
      BY LenProperties DEF TypeOK
    <3>2. QED
      BY <3>1 DEF TokensOf
  <2>2. QED
    BY <1>1, <1>2, <1>7, <2>1, Zenon DEF SubmitTask, Tasks
<1>8. ASSUME NEW p \in Remotes, NEW S, NEW emitted, SubmitTaskForRemote(p, S, emitted)
      PROVE  task' \in Tasks
  BY <1>1, <1>2, <1>8, Zenon DEF SubmitTaskForRemote, Tasks
<1>9. ASSUME NEW p \in Remotes, StartTaskByRemoteParticipant(p)
      PROVE  task' \in Tasks
  BY <1>1, <1>2, <1>9, Zenon DEF StartTaskByRemoteParticipant, Tasks
<1>10. ASSUME NEW a, NEW t, NEW emitted, ReleaseTask(a, t, emitted)
       PROVE  task' \in Tasks
  BY <1>1, <1>2, <1>10, ClearedType, ZenonT(40) DEF ReleaseTask, Tasks
<1>11. ASSUME NEW p, ReleaseTaskForRemote(p)
       PROVE  task' \in Tasks
  BY <1>1, <1>2, <1>11, ClearedType, ZenonT(40) DEF ReleaseTaskForRemote, Tasks
<1>12. CASE ReleaseWithEffects
  BY <1>1, <1>2, <1>12, Zenon DEF ReleaseWithEffects, Tasks
<1>13. CASE FailWithEffects
  BY <1>1, <1>2, <1>13, Zenon DEF FailWithEffects, Tasks
<1>14. ASSUME NEW r \in Reviewers, ApproveTask(r)
       PROVE  task' \in Tasks
  BY <1>1, <1>2, <1>14, ZenonT(40) DEF ApproveTask, TerminalApprove, Tasks
<1>15. ASSUME NEW r \in Reviewers, NEW p \in Policies, NEW emission, RejectTask(r, p, emission)
       PROVE  task' \in Tasks
  <2>1. TRUE \in BOOLEAN /\ (task.nextRetry /\ ~Escalates(p)) \in BOOLEAN
    OBVIOUS
  <2>2. \A spent : RetryTrigger(p, spent) => task' \in Tasks
    BY <1>1, <1>2, <2>1, ZenonT(40) DEF RetryTrigger, Tasks
  <2>3. QED
    BY <1>1, <1>2, <1>15, <2>2, ZenonT(40) DEF RejectTask, Tasks
<1>16. ASSUME NEW a, CompleteTask(a)
       PROVE  task' \in Tasks
  BY <1>1, <1>2, <1>16, Zenon DEF CompleteTask, Tasks
<1>17. ASSUME NEW a \in Agents, NEW byHuman \in BOOLEAN, DeleteAgent(a, byHuman)
       PROVE  task' \in Tasks
  BY <1>1, <1>2, <1>17, ZenonT(40) DEF DeleteAgent, Tasks
<1>18. ASSUME NEW receipt \in ladder, NEW p \in Policies, DeliverRetryLadder(receipt, p)
       PROVE  task' \in Tasks
  BY <1>1, <1>18, Zenon DEF DeliverRetryLadder, Tasks
<1>19. RetryToPending => task' \in Tasks
  <2>1. Cleared("pending") \in Tasks
    BY <1>1, <1>2, ClearedType
  <2>2. QED
    BY <1>1, <2>1, Zenon DEF RetryToPending, Tasks
<1>20. EscalateClearOwner => task' \in Tasks
  <2>1. Cleared(task.status) \in Tasks
    BY <1>1, ClearedType, Zenon DEF Tasks
  <2>2. QED
    BY <1>1, <2>1, Zenon DEF EscalateClearOwner, Tasks
<1>21. ASSUME NEW p \in Policies, NEW emitted, ProcessPendingRetry(p, emitted)
       PROVE  task' \in Tasks
  BY <1>1, <1>19, <1>20, <1>21, ZenonT(40) DEF ProcessPendingRetry, RetireDueRow, Tasks
<1>22. ASSUME NEW emitted, ManualRetryByAgent(emitted) \/ ManualRetryByHuman(emitted)
       PROVE  task' \in Tasks
  BY <1>19, <1>22, Zenon DEF ManualRetryByAgent, ManualRetryByHuman
<1>23. ASSUME NEW r \in Reviewers, AddReviewer(r) \/ RemoveReviewer(r)
       PROVE  task' \in Tasks
  BY <1>1, <1>23, Zenon DEF AddReviewer, RemoveReviewer
<1>24. ASSUME NEW h, NEW n, ResolveRequirement(h, n)
       PROVE  task' \in Tasks
  BY <1>1, <1>24, Zenon DEF ResolveRequirement
<1>25. CASE UNCHANGED vars
  BY <1>1, <1>25 DEF vars
<1>26. QED
  BY <1>3, <1>4, <1>5, <1>6, <1>7, <1>8, <1>9, <1>10, <1>11, <1>12, <1>13, <1>14, <1>15,
     <1>16, <1>17, <1>18, <1>21, <1>22, <1>23, <1>24, <1>25, Zenon
  DEF Next, SystemRelease, SystemFail, FailTask

(* All that TypeOK says of the state beside the task and requirement rows. *)
BooksOK ==
    /\ snapshot \in Nat
    /\ rows \in [Reviewers -> RowStates]
    /\ decisions \in [Reviewers -> Decisions \cup {Null}]
    /\ meter \in Nat
    /\ ladder \in SUBSET Receipts
    /\ deleted \in SUBSET Agents
    /\ sessions \in Seq(Claimants)
    /\ claims \in Nat
    /\ reserved \in Nat

LEMMA BooksType == ASSUME TypeOK, [Next]_vars PROVE BooksOK'
<1>1. BooksOK /\ task \in Tasks /\ req \in Requirements /\ 0 \in Nat /\ 1 \in Nat /\ 2 \in Nat
  BY DEF TypeOK, BooksOK
<1>2. \A n \in Nat : Metered(n) => meter' \in Nat
  BY <1>1 DEF Metered, BooksOK
<1>3. \A emitted : EmitMetered(emitted) => meter' \in Nat
  BY <1>1, <1>2, Zenon DEF EmitMetered
<1>4. /\ Spend(1) => reserved' \in Nat
      /\ Spend(2) => reserved' \in Nat
      /\ Spend(3) => reserved' \in Nat
      /\ Forfeit => reserved' \in Nat
  BY DEF Spend, Forfeit
<1>5. \A h \in Claimants, n \in Nat :
         BeginPeriod(h, n) => /\ sessions' \in Seq(Claimants)
                              /\ claims' \in Nat
                              /\ snapshot' \in Nat
  BY <1>1 DEF BeginPeriod, Mint, BooksOK
<1>6. /\ PolicyCounts \subseteq Nat
      /\ Agents \subseteq Claimants
      /\ Remotes \subseteq Claimants
      /\ Agents \subseteq Reviewers
      /\ Humans \subseteq Reviewers
  BY CountsAssumption DEF Claimants, Reviewers
<1>7. \A S : AssignReviewers(S) => rows' \in [Reviewers -> RowStates]
  BY <1>1, Zenon DEF AssignReviewers, BooksOK, RowStates
<1>8. \A verdict \in {"approved", "rejected"} : Decision(verdict) \in Decisions \cup {Null}
  BY <1>1, Zenon DEF Decision, Decisions, BooksOK, Requirements
<1>9. ASSUME NEW a \in Agents, NEW count \in PolicyCounts, NEW emitted \in Emission,
             ClaimTask(a, count, emitted) \/ ClaimDelegatedTask(a, count, emitted)
      PROVE  BooksOK'
  BY <1>1, <1>3, <1>4, <1>5, <1>6, <1>9, Zenon DEF ClaimTask, ClaimDelegatedTask, BooksOK
<1>10. ASSUME NEW p \in Remotes, NEW count \in PolicyCounts, ClaimTaskForRemote(p, count)
       PROVE  BooksOK'
  BY <1>1, <1>2, <1>4, <1>5, <1>6, <1>10, Zenon DEF ClaimTaskForRemote, BooksOK
<1>11. ASSUME NEW a \in Agents, NEW b \in Delegates, DelegateTask(a, b)
       PROVE  BooksOK'
  BY <1>1, <1>11, Zenon DEF DelegateTask, reviewVars, effectVars, BooksOK
<1>12. ASSUME NEW a \in Agents, NEW t \in TokensOf(a), NEW emitted, StartTask(a, t, emitted)
       PROVE  BooksOK'
  <2>1. Mint(a) => sessions' \in Seq(Claimants)
    BY <1>1, <1>6 DEF Mint, BooksOK
  <2>2. QED
    BY <1>1, <1>3, <1>4, <1>12, <2>1, Zenon DEF StartTask, BooksOK
<1>13. ASSUME NEW a \in Agents, NEW t, NEW S, NEW emitted, SubmitTask(a, t, S, emitted)
       PROVE  BooksOK'
  BY <1>1, <1>3, <1>4, <1>7, <1>13, Zenon DEF SubmitTask, BooksOK
<1>14. ASSUME NEW p \in Remotes, NEW S, NEW emitted, SubmitTaskForRemote(p, S, emitted)
       PROVE  BooksOK'
  BY <1>1, <1>2, <1>4, <1>7, <1>14, Zenon DEF SubmitTaskForRemote, BooksOK
<1>15. ASSUME NEW p \in Remotes, StartTaskByRemoteParticipant(p)
       PROVE  BooksOK'
  BY <1>1, <1>4, <1>15, Zenon DEF StartTaskByRemoteParticipant, reviewVars, effectVars, BooksOK
<1>16. ASSUME NEW a, NEW t, NEW emitted, ReleaseTask(a, t, emitted)
       PROVE  BooksOK'
  BY <1>1, <1>3, <1>4, <1>16, Zenon DEF ReleaseTask, BooksOK
<1>17. ASSUME NEW p, ReleaseTaskForRemote(p)
       PROVE  BooksOK'
  BY <1>1, <1>2, <1>4, <1>17, Zenon DEF ReleaseTaskForRemote, BooksOK
<1>18. CASE SystemRelease
  BY <1>1, <1>2, <1>4, <1>18, Zenon DEF SystemRelease, BooksOK
<1>19. CASE FailWithEffects
  <2>1. [event |-> ThisEpoch, retryCount |-> task.retryCount] \in Receipts
    BY <1>1, EpochType, Zenon DEF Receipts, Tasks
  <2>2. ladder' \in SUBSET Receipts
    BY <1>1, <1>19, <2>1 DEF FailWithEffects, BooksOK
  <2>3. QED
    BY <1>1, <1>2, <1>4, <1>19, <2>2, Zenon DEF FailWithEffects, BooksOK
<1>20. ASSUME NEW r \in Reviewers, ApproveTask(r)
       PROVE  BooksOK'
  <2>1. RecordApproval(r) => /\ rows' \in [Reviewers -> RowStates]
                             /\ decisions' \in [Reviewers -> Decisions \cup {Null}]
    <3>1. Decision("approved") \in Decisions \cup {Null} /\ "approved" \in RowStates
      BY <1>8 DEF RowStates
    <3>2. QED
      BY <1>1, <3>1, Zenon DEF RecordApproval, BooksOK
  <2>2. QED
    BY <1>1, <1>4, <1>20, <2>1, Zenon DEF ApproveTask, effectVars, BooksOK
<1>21. ASSUME NEW r \in Reviewers, NEW p \in Policies, NEW emission, RejectTask(r, p, emission)
       PROVE  BooksOK'
  <2>1. \A spent \in {0, 1} : RetryTrigger(p, spent) => meter' \in Nat
    <3>1. \A spent \in {0, 1} : spent \in Nat /\ spent + 1 \in Nat
      OBVIOUS
    <3>2. QED
      BY <1>2, <3>1, Zenon DEF RetryTrigger
  <2>2. decisions' \in [Reviewers -> Decisions \cup {Null}]
    <3>1. Decision("rejected") \in Decisions \cup {Null}
      BY <1>8
    <3>2. QED
      BY <1>1, <1>21, <3>1, Zenon DEF RejectTask, BooksOK
  <2>3. QED
    BY <1>1, <1>2, <1>4, <1>21, <2>1, <2>2, Zenon DEF RejectTask, BooksOK
<1>22. ASSUME NEW a, CompleteTask(a)
       PROVE  BooksOK'
  BY <1>1, <1>4, <1>22, Zenon DEF CompleteTask, reviewVars, effectVars, BooksOK
<1>23. ASSUME NEW r \in Reviewers, AddReviewer(r) \/ RemoveReviewer(r)
       PROVE  BooksOK'
  <2>1. "pending" \in RowStates /\ "none" \in RowStates
    BY DEF RowStates
  <2>2. QED
    BY <1>1, <1>23, <2>1, Zenon DEF AddReviewer, RemoveReviewer, effectVars, BooksOK
<1>24. ASSUME NEW h, NEW n, ResolveRequirement(h, n)
       PROVE  BooksOK'
  BY <1>1, <1>24, Zenon DEF ResolveRequirement, effectVars, BooksOK
<1>25. ASSUME NEW a \in Agents, NEW byHuman \in BOOLEAN, DeleteAgent(a, byHuman)
       PROVE  BooksOK'
  <2>1. deleted' \in SUBSET Agents
    BY <1>1, <1>25 DEF DeleteAgent, BooksOK
  <2>2. QED
    BY <1>1, <1>2, <1>4, <1>25, <2>1, Zenon DEF DeleteAgent, BooksOK
<1>26. ASSUME NEW receipt \in ladder, NEW p \in Policies, DeliverRetryLadder(receipt, p)
       PROVE  BooksOK'
  <2>1. ladder' \in SUBSET Receipts
    BY <1>1, <1>26 DEF DeliverRetryLadder, BooksOK
  <2>2. QED
    BY <1>1, <1>2, <1>26, <2>1, Zenon DEF DeliverRetryLadder, reviewVars, BooksOK
<1>27. ASSUME NEW p \in Policies, NEW emitted, ProcessPendingRetry(p, emitted)
       PROVE  BooksOK'
  BY <1>1, <1>3, <1>4, <1>27, Zenon DEF ProcessPendingRetry, BooksOK
<1>28. ASSUME NEW emitted, ManualRetryByAgent(emitted) \/ ManualRetryByHuman(emitted)
       PROVE  BooksOK'
  <2>1. 3 \in Nat
    OBVIOUS
  <2>2. QED
    BY <1>1, <1>3, <1>4, <1>28, <2>1, Zenon DEF ManualRetryByAgent, ManualRetryByHuman, BooksOK
<1>29. CASE UNCHANGED vars
  BY <1>1, <1>29, Zenon DEF vars, BooksOK
<1>30. QED
  BY <1>9, <1>10, <1>11, <1>12, <1>13, <1>14, <1>15, <1>16, <1>17, <1>18, <1>19, <1>20,
     <1>21, <1>22, <1>23, <1>24, <1>25, <1>26, <1>27, <1>28, <1>29, Zenon
  DEF Next, SystemFail, FailTask

(* Every reachable state is well typed: the columns of the task row and of *)
(* its requirement stay in their domains under every handler, and tokens   *)
(* are only ever minted for actors that can hold a task.                   *)
THEOREM TypeTheorem == Spec => []TypeOK
<1>1. Init => TypeOK
  <2>1. ASSUME Init PROVE req \in Requirements
    BY <2>1, BirthType DEF Init
  <2>2. ASSUME Init PROVE task \in Tasks
    BY <2>2, Zenon DEF Init, NewTask, Tasks, TaskStatuses
  <2>3. QED
    BY <2>1, <2>2 DEF Init, TypeOK, RowStates
<1>2. TypeOK /\ [Next]_vars => TypeOK'
  BY TaskType, BooksType, StepMovesRequirement, RequirementStep, Zenon DEF TypeOK, BooksOK
<1>3. QED
  BY <1>1, <1>2, PTL DEF Spec

=============================================================================
