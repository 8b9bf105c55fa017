------------------------- MODULE TaskCustodyProofs -------------------------
(***************************************************************************)
(* Theorems about review evidence (the decisions of an ownership period    *)
(* and the proof of approval die with it), about custody (tokens, results  *)
(* and provenance pointers) and about who owns a task.                     *)
(***************************************************************************)
EXTENDS TaskLifecycleProofs, FiniteSetTheorems

(***************************************************************************)
(* Review evidence                                                         *)
(***************************************************************************)
(* A decision never belongs to a generation that has yet to come, and one  *)
(* of the current generation was taken in the current ownership.           *)
EvidenceOfThisClaim ==
    \A r \in Reviewers :
        decisions[r] # Null =>
            /\ decisions[r].generation <= req.generation
            /\ decisions[r].generation = req.generation =>
                  decisions[r].claim = claims /\ decisions[r].round <= req.round

(* How a step may move the evidence: an ownership begins with a capture,   *)
(* and a decision is recorded in the generation and the round that stand.  *)
EvidenceMoves ==
    \/ UNCHANGED <<decisions, claims>>
    \/ decisions' = decisions /\ \E n \in Nat, c \in Claimants : req' = CaptureOnClaim(req, n, c)
    \/ /\ claims' = claims
       /\ req' \in {req, StampApproved(req)}
       /\ \E r \in Reviewers, verdict \in {"approved", "rejected"} :
             decisions' = [decisions EXCEPT ![r] = Decision(verdict)]

LEMMA StepMovesEvidence == ASSUME [Next]_vars PROVE EvidenceMoves
<1>1. ASSUME NEW a \in Agents, NEW count \in PolicyCounts, NEW emitted,
             ClaimTask(a, count, emitted) \/ ClaimDelegatedTask(a, count, emitted)
      PROVE  EvidenceMoves
  BY <1>1, CountsAssumption, Zenon
  DEF ClaimTask, ClaimDelegatedTask, BeginPeriod, EvidenceMoves, Claimants
<1>2. ASSUME NEW p \in Remotes, NEW count \in PolicyCounts, ClaimTaskForRemote(p, count)
      PROVE  EvidenceMoves
  BY <1>2, CountsAssumption, Zenon
  DEF ClaimTaskForRemote, BeginPeriod, EvidenceMoves, Claimants
<1>3. ASSUME NEW r \in Reviewers, ApproveTask(r)
      PROVE  EvidenceMoves
  <2>1. claims' = claims /\ req' \in {req, StampApproved(req)}
    BY <1>3, Zenon DEF ApproveTask, TerminalApprove
  <2>2. \/ decisions' = decisions
        \/ decisions' = [decisions EXCEPT ![r] = Decision("approved")]
    BY <1>3, Zenon DEF ApproveTask, RecordApproval
  <2>3. QED
    BY <2>1, <2>2, Zenon DEF EvidenceMoves
<1>4. ASSUME NEW r \in Reviewers, NEW p, NEW emission, RejectTask(r, p, emission)
      PROVE  EvidenceMoves
  BY <1>4, Zenon DEF RejectTask, EvidenceMoves
<1>5. ASSUME NEW a, NEW b, DelegateTask(a, b)
      PROVE  EvidenceMoves
  BY <1>5, Zenon DEF DelegateTask, reviewVars, EvidenceMoves
<1>6. ASSUME NEW a, NEW t, NEW emitted, StartTask(a, t, emitted) \/ ReleaseTask(a, t, emitted)
      PROVE  EvidenceMoves
  BY <1>6, Zenon DEF StartTask, ReleaseTask, EvidenceMoves
<1>7. ASSUME NEW a, NEW t, NEW S, NEW emitted, SubmitTask(a, t, S, emitted)
      PROVE  EvidenceMoves
  BY <1>7, Zenon DEF SubmitTask, EvidenceMoves
<1>8. ASSUME NEW p, StartTaskByRemoteParticipant(p) \/ ReleaseTaskForRemote(p)
      PROVE  EvidenceMoves
  BY <1>8, Zenon DEF StartTaskByRemoteParticipant, ReleaseTaskForRemote, reviewVars, EvidenceMoves
<1>9. ASSUME NEW p, NEW S, NEW emitted, SubmitTaskForRemote(p, S, emitted)
      PROVE  EvidenceMoves
  BY <1>9, Zenon DEF SubmitTaskForRemote, EvidenceMoves
<1>10. ASSUME NEW r, AddReviewer(r) \/ RemoveReviewer(r)
       PROVE  EvidenceMoves
  BY <1>10, Zenon DEF AddReviewer, RemoveReviewer, EvidenceMoves
<1>11. ASSUME NEW a, CompleteTask(a)
       PROVE  EvidenceMoves
  BY <1>11, Zenon DEF CompleteTask, reviewVars, EvidenceMoves
<1>12. ASSUME NEW h, NEW n, ResolveRequirement(h, n)
       PROVE  EvidenceMoves
  BY <1>12, Zenon DEF ResolveRequirement, EvidenceMoves
<1>13. CASE SystemRelease \/ FailWithEffects
  BY <1>13, Zenon DEF SystemRelease, FailWithEffects, EvidenceMoves
<1>14. ASSUME NEW a, NEW byHuman, DeleteAgent(a, byHuman)
       PROVE  EvidenceMoves
  BY <1>14, Zenon DEF DeleteAgent, EvidenceMoves
<1>15. ASSUME NEW receipt \in ladder, NEW p \in Policies, DeliverRetryLadder(receipt, p)
       PROVE  EvidenceMoves
  BY <1>15, Zenon DEF DeliverRetryLadder, reviewVars, EvidenceMoves
<1>16. ASSUME NEW p, NEW emitted, ProcessPendingRetry(p, emitted)
       PROVE  EvidenceMoves
  BY <1>16, Zenon DEF ProcessPendingRetry, EvidenceMoves
<1>17. ASSUME NEW emitted, ManualRetryByAgent(emitted) \/ ManualRetryByHuman(emitted)
       PROVE  EvidenceMoves
  BY <1>17, Zenon DEF ManualRetryByAgent, ManualRetryByHuman, EvidenceMoves
<1>18. CASE UNCHANGED vars
  BY <1>18, Zenon DEF vars, EvidenceMoves
<1>19. QED
  BY <1>1, <1>2, <1>3, <1>4, <1>5, <1>6, <1>7, <1>8, <1>9, <1>10, <1>11, <1>12, <1>13,
     <1>14, <1>15, <1>16, <1>17, <1>18, Zenon
  DEF Next, SystemFail, FailTask

(* No operator of the kernel goes back: a step that keeps the generation   *)
(* keeps or advances the round, and a capture opens a new generation.      *)
LEMMA GenerationStep ==
    ASSUME req \in Requirements, RequirementMoves
    PROVE  /\ req'.generation \in Nat /\ req'.round \in Nat
           /\ \/ req'.generation > req.generation
              \/ req'.generation = req.generation /\ req'.round >= req.round
<1>1. req.generation \in Nat /\ req.round \in Nat /\ req.generation + 1 > req.generation
  BY DEF Requirements
<1>2. ASSUME NEW n \in Nat, NEW c \in Claimants, req' = CaptureOnClaim(req, n, c)
      PROVE  req'.generation = req.generation + 1
  <2> DEFINE q == CapturedPolicy(req, n)
  <2>1. q \in Requirements
    BY CapturedPolicyType
  <2>2. QED
    BY <1>2, <2>1, Zenon DEF CaptureOnClaim, Requirements
<1>3. ASSUME NEW advance \in BOOLEAN, req' = EndOwnership(req, advance)
      PROVE  /\ req'.generation \in {req.generation, req.generation + 1}
             /\ req'.round = req.round
  BY <1>3, Zenon DEF EndOwnership, Requirements
<1>4. CASE req' \in {BumpRound(req), StampApproved(req), [req EXCEPT !.approvedGeneration = Null]}
  BY <1>1, <1>4 DEF BumpRound, StampApproved, Requirements
<1>5. ASSUME NEW n \in Nat, req' = Resolve(req, n)
      PROVE  req'.generation = req.generation /\ req'.round = req.round
  BY <1>5, Zenon DEF Resolve, Requirements
<1>6. req' \in Requirements
  BY RequirementStep
<1>7. req'.generation \in Nat /\ req'.round \in Nat
  BY <1>6 DEF Requirements
<1>8. QED
  BY <1>1, <1>2, <1>3, <1>4, <1>5, <1>7 DEF RequirementMoves

LEMMA EvidenceStep ==
    ASSUME TypeOK, EvidenceOfThisClaim, [Next]_vars
    PROVE  EvidenceOfThisClaim'
<1>1. /\ req \in Requirements
      /\ req.generation \in Nat /\ req.round \in Nat
      /\ decisions \in [Reviewers -> Decisions \cup {Null}]
      /\ claims \in Nat
  BY DEF TypeOK, Requirements
<1>2. RequirementMoves /\ EvidenceMoves
  BY StepMovesRequirement, StepMovesEvidence
<1>3. /\ req'.generation \in Nat /\ req'.round \in Nat
      /\ \/ req'.generation > req.generation
         \/ req'.generation = req.generation /\ req'.round >= req.round
  BY <1>1, <1>2, GenerationStep
<1>4. \A r \in Reviewers :
         decisions[r] # Null => decisions[r].generation \in Nat /\ decisions[r].round \in Nat
  BY <1>1 DEF Decisions
<1>5. CASE UNCHANGED <<decisions, claims>>
  BY <1>1, <1>3, <1>4, <1>5 DEF EvidenceOfThisClaim
<1>6. ASSUME NEW n \in Nat, NEW c \in Claimants,
             decisions' = decisions, req' = CaptureOnClaim(req, n, c)
      PROVE  EvidenceOfThisClaim'
  <2>1. req'.generation = req.generation + 1
    BY <1>1, <1>6, CapturedPolicyType, Zenon DEF CaptureOnClaim, Requirements
  <2>2. QED
    BY <1>1, <1>4, <1>6, <2>1 DEF EvidenceOfThisClaim
<1>7. ASSUME NEW r \in Reviewers, NEW verdict \in {"approved", "rejected"},
             claims' = claims, req' \in {req, StampApproved(req)},
             decisions' = [decisions EXCEPT ![r] = Decision(verdict)]
      PROVE  EvidenceOfThisClaim'
  <2>1. req'.generation = req.generation /\ req'.round = req.round
    BY <1>1, <1>7 DEF StampApproved, Requirements
  <2>2. /\ Decision(verdict).generation = req.generation
        /\ Decision(verdict).round = req.round
        /\ Decision(verdict).claim = claims
    BY DEF Decision
  <2>3. \A s \in Reviewers : decisions'[s] = IF s = r THEN Decision(verdict) ELSE decisions[s]
    BY <1>1, <1>7
  <2>4. QED
    BY <1>1, <1>4, <1>7, <2>1, <2>2, <2>3 DEF EvidenceOfThisClaim
<1>8. QED
  BY <1>2, <1>5, <1>6, <1>7, Zenon DEF EvidenceMoves

(* A decision that counts in the current generation was taken in the       *)
(* current ownership period, and not in a round that has yet to come.      *)
THEOREM DecisionsTheorem == Spec => []DecisionsAreOfThisClaim
<1>1. Init => EvidenceOfThisClaim
  BY DEF Init, EvidenceOfThisClaim
<1>2. TypeOK /\ EvidenceOfThisClaim /\ [Next]_vars => EvidenceOfThisClaim'
  BY EvidenceStep
<1>3. TypeOK /\ EvidenceOfThisClaim => DecisionsAreOfThisClaim
  BY DEF EvidenceOfThisClaim, DecisionsAreOfThisClaim, DecidedNow
<1>4. QED
  BY <1>1, <1>2, <1>3, TypeTheorem, PTL DEF Spec

-----------------------------------------------------------------------------
(* How a step may move the proof of approval: it drops it, stamps it when  *)
(* the task is approved, or leaves it where a final task stays final.      *)
FinalStatuses == {"approved", "done"}

KeepsProof ==
    /\ req'.approvedGeneration = req.approvedGeneration
    /\ req'.generation = req.generation
    /\ task.status \in FinalStatuses => task'.status \in FinalStatuses

ProofMoves ==
    \/ req'.approvedGeneration = Null
    \/ req' = StampApproved(req) /\ task'.status \in FinalStatuses
    \/ KeepsProof

LEMMA StepMovesProof == ASSUME TypeOK, [Next]_vars PROVE ProofMoves
<1>1. task \in Tasks /\ req \in Requirements
  BY DEF TypeOK
<1>2. ASSUME req' = req, task'.status = task.status \/ task.status \notin FinalStatuses
      PROVE  KeepsProof
  BY <1>2 DEF KeepsProof
<1>3. ASSUME NEW n \in Nat, NEW c \in Claimants, req' = CaptureOnClaim(req, n, c)
      PROVE  req'.approvedGeneration = Null
  BY <1>1, <1>3, CapturedPolicyType, Zenon DEF CaptureOnClaim, Requirements
<1>4. ASSUME NEW advance, req' = EndOwnership(req, advance)
      PROVE  req'.approvedGeneration = Null
  BY <1>1, <1>4, Zenon DEF EndOwnership, Requirements
<1>5. ASSUME NEW a \in Agents, NEW count \in PolicyCounts, NEW emitted,
             ClaimTask(a, count, emitted) \/ ClaimDelegatedTask(a, count, emitted)
      PROVE  ProofMoves
  <2>1. count \in Nat /\ a \in Claimants
    BY CountsAssumption DEF Claimants
  <2>2. QED
    BY <1>3, <1>5, <2>1, Zenon DEF ClaimTask, ClaimDelegatedTask, BeginPeriod, ProofMoves
<1>6. ASSUME NEW p \in Remotes, NEW count \in PolicyCounts, ClaimTaskForRemote(p, count)
      PROVE  ProofMoves
  <2>1. count \in Nat /\ p \in Claimants
    BY CountsAssumption DEF Claimants
  <2>2. QED
    BY <1>3, <1>6, <2>1, Zenon DEF ClaimTaskForRemote, BeginPeriod, ProofMoves
<1>7. ASSUME NEW a, NEW b, DelegateTask(a, b)
      PROVE  ProofMoves
  BY <1>1, <1>2, <1>7, Zenon DEF DelegateTask, reviewVars, ProofMoves, Tasks
<1>8. ASSUME NEW a, NEW t, NEW emitted, StartTask(a, t, emitted)
      PROVE  ProofMoves
  <2>1. task.status \notin FinalStatuses
    BY <1>8 DEF StartTask, FinalStatuses
  <2>2. \/ req' = req
        \/ /\ req'.approvedGeneration = req.approvedGeneration
           /\ req'.generation = req.generation
    BY <1>1, <1>8, Zenon DEF StartTask, BumpRound, Requirements
  <2>3. QED
    BY <2>1, <2>2 DEF ProofMoves, KeepsProof
<1>9. ASSUME NEW a, NEW t, NEW S, NEW emitted, SubmitTask(a, t, S, emitted)
      PROVE  ProofMoves
  <2>1. req' = req /\ task.status \notin FinalStatuses
    BY <1>9 DEF SubmitTask, FinalStatuses
  <2>2. QED
    BY <1>2, <2>1 DEF ProofMoves
<1>10. ASSUME NEW p, StartTaskByRemoteParticipant(p)
       PROVE  ProofMoves
  <2>1. req' = req /\ task.status \notin FinalStatuses
    BY <1>10 DEF StartTaskByRemoteParticipant, reviewVars, FinalStatuses
  <2>2. QED
    BY <1>2, <2>1 DEF ProofMoves
<1>11. ASSUME NEW p, NEW S, NEW emitted, SubmitTaskForRemote(p, S, emitted)
       PROVE  ProofMoves
  <2>1. req' = req /\ task.status \notin FinalStatuses
    BY <1>11 DEF SubmitTaskForRemote, FinalStatuses
  <2>2. QED
    BY <1>2, <2>1 DEF ProofMoves
<1>12. ASSUME NEW r, ApproveTask(r)
       PROVE  ProofMoves
  <2>1. ASSUME TerminalApprove
        PROVE  ProofMoves
    BY <1>1, <2>1, Zenon DEF TerminalApprove, ProofMoves, FinalStatuses, Tasks
  <2>2. QED
    BY <1>2, <1>12, <2>1, Zenon DEF ApproveTask, ProofMoves
<1>13. ASSUME NEW r, NEW p, NEW emission, RejectTask(r, p, emission)
       PROVE  ProofMoves
  <2>1. req' = req /\ task.status \notin FinalStatuses
    BY <1>13 DEF RejectTask, FinalStatuses
  <2>2. QED
    BY <1>2, <2>1 DEF ProofMoves
<1>14. ASSUME NEW a, CompleteTask(a)
       PROVE  ProofMoves
  <2>1. task'.status = "done" /\ req' = req
    BY <1>1, <1>14, Zenon DEF CompleteTask, reviewVars, Tasks
  <2>2. QED
    BY <2>1 DEF ProofMoves, KeepsProof, FinalStatuses
<1>15. ASSUME NEW r, AddReviewer(r) \/ RemoveReviewer(r)
       PROVE  ProofMoves
  BY <1>2, <1>15, Zenon DEF AddReviewer, RemoveReviewer, ProofMoves
<1>16. ASSUME NEW h, NEW n, ResolveRequirement(h, n)
       PROVE  ProofMoves
  <2>1. req' = Resolve(req, n) /\ task' = task
    BY <1>16 DEF ResolveRequirement
  <2>2. /\ req'.approvedGeneration = req.approvedGeneration
        /\ req'.generation = req.generation
    BY <1>1, <2>1, Zenon DEF Resolve, Requirements
  <2>3. QED
    BY <2>1, <2>2 DEF ProofMoves, KeepsProof
<1>17. ASSUME NEW a, NEW t, NEW emitted, ReleaseTask(a, t, emitted)
       PROVE  ProofMoves
  BY <1>4, <1>17, Zenon DEF ReleaseTask, ProofMoves
<1>18. ASSUME NEW p, ReleaseTaskForRemote(p)
       PROVE  ProofMoves
  BY <1>4, <1>18, Zenon DEF ReleaseTaskForRemote, ProofMoves
<1>19. CASE SystemRelease \/ FailWithEffects
  BY <1>4, <1>19, Zenon DEF SystemRelease, ReleaseWithEffects, FailWithEffects, ProofMoves
<1>20. ASSUME NEW a, NEW byHuman, DeleteAgent(a, byHuman)
       PROVE  ProofMoves
  <2>1. ASSUME req' = [req EXCEPT !.approvedGeneration = Null]
        PROVE  ProofMoves
    BY <1>1, <2>1, Zenon DEF Requirements, ProofMoves
  <2>2. ASSUME req' = req, NEW offer, task' = [task EXCEPT !.delegatedTo = offer]
        PROVE  ProofMoves
    BY <1>1, <1>2, <2>2, Zenon DEF Tasks, ProofMoves
  <2>3. ASSUME NEW advance, req' = EndOwnership(req, advance)
        PROVE  ProofMoves
    BY <1>4, <2>3 DEF ProofMoves
  <2>4. QED
    BY <1>20, <2>1, <2>2, <2>3, Zenon DEF DeleteAgent
<1>21. ASSUME NEW receipt \in ladder, NEW p \in Policies, DeliverRetryLadder(receipt, p)
       PROVE  ProofMoves
  <2>1. req' = req
    BY <1>21 DEF DeliverRetryLadder, reviewVars
  <2>2. task' = task \/ task.status = "failed"
    BY <1>21, Zenon DEF DeliverRetryLadder
  <2>3. QED
    BY <1>2, <2>1, <2>2 DEF ProofMoves, FinalStatuses
<1>22. ASSUME RetryToPending \/ EscalateClearOwner
       PROVE  ProofMoves
  BY <1>4, <1>22, Zenon DEF RetryToPending, EscalateClearOwner, ProofMoves
<1>23. ASSUME NEW p, NEW emitted, ProcessPendingRetry(p, emitted)
       PROVE  ProofMoves
  <2>1. CASE RetireDueRow
    BY <1>1, <1>2, <2>1, Zenon DEF RetireDueRow, ProofMoves, Tasks
  <2>2. QED
    BY <1>22, <1>23, <2>1, Zenon DEF ProcessPendingRetry
<1>24. ASSUME NEW emitted, ManualRetryByAgent(emitted) \/ ManualRetryByHuman(emitted)
       PROVE  ProofMoves
  BY <1>22, <1>24, Zenon DEF ManualRetryByAgent, ManualRetryByHuman
<1>25. CASE UNCHANGED vars
  BY <1>2, <1>25 DEF vars, ProofMoves
<1>26. QED
  BY <1>5, <1>6, <1>7, <1>8, <1>9, <1>10, <1>11, <1>12, <1>13, <1>14, <1>15, <1>16, <1>17,
     <1>18, <1>19, <1>20, <1>21, <1>23, <1>24, <1>25, Zenon
  DEF Next, SystemFail, FailTask

(* A proof of approval is current only while the approved or completed row *)
(* stands, and always names the current generation.                        *)
THEOREM ProofTheorem == Spec => []ProofIsOfThisApproval
<1>1. Init => ProofIsOfThisApproval
  <2>1. Uncaptured.approvedGeneration = Null /\ PresetHistorical.approvedGeneration = Null
    BY DEF Uncaptured, PresetHistorical
  <2>2. QED
    BY <2>1 DEF Init, ProofIsOfThisApproval
<1>2. TypeOK /\ ProofIsOfThisApproval /\ [Next]_vars => ProofIsOfThisApproval'
  <2>1. SUFFICES ASSUME TypeOK, ProofIsOfThisApproval, ProofMoves
                 PROVE  ProofIsOfThisApproval'
    BY StepMovesProof
  <2>2. CASE req' = StampApproved(req) /\ task'.status \in FinalStatuses
    <3>1. req'.approvedGeneration = req'.generation
      BY <2>1, <2>2, Zenon DEF TypeOK, StampApproved, Requirements
    <3>2. QED
      BY <2>2, <3>1 DEF ProofIsOfThisApproval, FinalStatuses
  <2>3. QED
    BY <2>1, <2>2 DEF ProofMoves, KeepsProof, ProofIsOfThisApproval, FinalStatuses
<1>3. QED
  BY <1>1, <1>2, TypeTheorem, PTL DEF Spec

-----------------------------------------------------------------------------
(* From the claim to the submission no rejection of the current round      *)
(* stands: a claim makes decisions stale, a rework opens the next round.   *)
Reopened ==
    task.status \in {"claimed", "in_progress", "submitted"} =>
        \A r \in Reviewers :
            DecidedNow(req, decisions, r) /\ decisions[r].verdict = "rejected"
                => decisions[r].round < req.round

LEMMA ReopenedStep ==
    ASSUME TypeOK, EvidenceOfThisClaim, Reopened, [Next]_vars
    PROVE  Reopened'
<1> USE DEF DecidedNow
<1>1. /\ task \in Tasks /\ req \in Requirements
      /\ req.generation \in Nat /\ req.round \in Nat
      /\ decisions \in [Reviewers -> Decisions \cup {Null}]
      /\ \A r \in Reviewers :
            decisions[r] # Null => decisions[r].generation \in Nat /\ decisions[r].round \in Nat
  BY DEF TypeOK, Requirements, Decisions
<1>2. ASSUME task'.status \notin {"claimed", "in_progress", "submitted"}
      PROVE  Reopened'
  BY <1>2 DEF Reopened
<1>3. ASSUME decisions' = decisions,
             req'.generation = req.generation, req'.round = req.round,
             task'.status \in {"claimed", "in_progress", "submitted"}
                 => task.status \in {"claimed", "in_progress", "submitted"}
      PROVE  Reopened'
  BY <1>3 DEF Reopened
<1>4. ASSUME NEW n \in Nat, NEW c, req' = CaptureOnClaim(req, n, c), decisions' = decisions
      PROVE  Reopened'
  <2>1. req'.generation = req.generation + 1
    BY <1>1, <1>4, CapturedPolicyType, Zenon DEF CaptureOnClaim, Requirements
  <2>2. \A r \in Reviewers : decisions'[r] # Null => decisions'[r].generation # req'.generation
    BY <1>1, <1>4, <2>1 DEF EvidenceOfThisClaim
  <2>3. QED
    BY <2>2 DEF Reopened
<1>5. ASSUME NEW a \in Agents, NEW count \in PolicyCounts, NEW emitted,
             ClaimTask(a, count, emitted) \/ ClaimDelegatedTask(a, count, emitted)
      PROVE  Reopened'
  BY <1>4, <1>5, CountsAssumption, Zenon DEF ClaimTask, ClaimDelegatedTask, BeginPeriod
<1>6. ASSUME NEW p \in Remotes, NEW count \in PolicyCounts, ClaimTaskForRemote(p, count)
      PROVE  Reopened'
  BY <1>4, <1>6, CountsAssumption, Zenon DEF ClaimTaskForRemote, BeginPeriod
<1>7. ASSUME NEW a, NEW b, DelegateTask(a, b)
      PROVE  Reopened'
  BY <1>1, <1>3, <1>7, Zenon DEF DelegateTask, reviewVars, Tasks
<1>8. ASSUME NEW a, NEW t, NEW emitted, StartTask(a, t, emitted)
      PROVE  Reopened'
  <2>1. decisions' = decisions
    BY <1>8, Zenon DEF StartTask
  <2>2. CASE task.status = "claimed" /\ req' = req
    BY <1>3, <2>1, <2>2
  <2>3. CASE req' = BumpRound(req)
    <3>1. req'.generation = req.generation /\ req'.round = req.round + 1
      BY <1>1, <2>3 DEF BumpRound, Requirements
    <3>2. QED
      BY <1>1, <2>1, <3>1 DEF EvidenceOfThisClaim, Reopened
  <2>4. QED
    BY <1>8, <2>2, <2>3, Zenon DEF StartTask
<1>9. ASSUME NEW p, StartTaskByRemoteParticipant(p)
      PROVE  Reopened'
  BY <1>3, <1>9 DEF StartTaskByRemoteParticipant, reviewVars
<1>10. ASSUME NEW a, NEW t, NEW S, NEW emitted, SubmitTask(a, t, S, emitted)
       PROVE  Reopened'
  BY <1>3, <1>10 DEF SubmitTask
<1>11. ASSUME NEW p, NEW S, NEW emitted, SubmitTaskForRemote(p, S, emitted)
       PROVE  Reopened'
  BY <1>3, <1>11 DEF SubmitTaskForRemote
<1>12. ASSUME NEW r \in Reviewers, ApproveTask(r)
       PROVE  Reopened'
  <2>1. CASE TerminalApprove
    <3>1. task'.status = "approved"
      BY <1>1, <2>1, Zenon DEF TerminalApprove, Tasks
    <3>2. QED
      BY <1>2, <3>1
  <2>2. CASE UNCHANGED <<task, req>>
    <3>1. \/ decisions' = decisions
          \/ decisions' = [decisions EXCEPT ![r] = Decision("approved")]
      BY <1>12, Zenon DEF ApproveTask, RecordApproval
    <3>2. \A s \in Reviewers : decisions'[s] = decisions[s] \/ decisions'[s].verdict = "approved"
      BY <1>1, <3>1 DEF Decision
    <3>3. QED
      BY <1>1, <2>2, <3>2 DEF Reopened
  <2>3. QED
    BY <1>12, <2>1, <2>2, Zenon DEF ApproveTask
<1>13. ASSUME NEW r, NEW p, NEW emission, RejectTask(r, p, emission)
       PROVE  Reopened'
  <2>1. task'.status = "rejected"
    <3>1. ASSUME NEW spent, RetryTrigger(p, spent)
          PROVE  task'.status = "rejected"
      BY <1>1, <3>1, Zenon DEF RetryTrigger, Tasks
    <3>2. QED
      BY <1>1, <1>13, <3>1, Zenon DEF RejectTask, Tasks
  <2>2. QED
    BY <1>2, <2>1
<1>14. ASSUME NEW a, CompleteTask(a)
       PROVE  Reopened'
  <2>1. task'.status = "done"
    BY <1>1, <1>14, Zenon DEF CompleteTask, Tasks
  <2>2. QED
    BY <1>2, <2>1
<1>15. ASSUME NEW r, AddReviewer(r) \/ RemoveReviewer(r)
       PROVE  Reopened'
  BY <1>3, <1>15 DEF AddReviewer, RemoveReviewer
<1>16. ASSUME NEW h, NEW n, ResolveRequirement(h, n)
       PROVE  Reopened'
  <2>1. req' = Resolve(req, n) /\ UNCHANGED <<task, decisions>>
    BY <1>16 DEF ResolveRequirement
  <2>2. req'.generation = req.generation /\ req'.round = req.round
    BY <1>1, <2>1, Zenon DEF Resolve, Requirements
  <2>3. QED
    BY <1>3, <2>1, <2>2
<1>17. ASSUME task'.status \in {"pending", "failed"}
       PROVE  Reopened'
  BY <1>2, <1>17
<1>18. ASSUME NEW a, NEW t, NEW emitted, ReleaseTask(a, t, emitted)
       PROVE  Reopened'
  BY <1>1, <1>17, <1>18, Zenon DEF ReleaseTask, Cleared, Tasks
<1>19. ASSUME NEW p, ReleaseTaskForRemote(p)
       PROVE  Reopened'
  BY <1>1, <1>17, <1>19, Zenon DEF ReleaseTaskForRemote, Cleared, Tasks
<1>20. CASE SystemRelease \/ FailWithEffects
  BY <1>1, <1>17, <1>20, Zenon DEF SystemRelease, ReleaseWithEffects, FailWithEffects, Tasks
<1>21. ASSUME NEW a, NEW byHuman, DeleteAgent(a, byHuman)
       PROVE  Reopened'
  <2>1. \/ task'.status = "pending"
        \/ task'.status = task.status /\ task.status \notin Holding
        \/ task'.status = task.status /\ UNCHANGED <<req, decisions>>
    BY <1>1, <1>21, Zenon DEF DeleteAgent, Tasks
  <2>2. QED
    BY <1>2, <1>3, <2>1 DEF Holding
<1>22. ASSUME NEW receipt \in ladder, NEW p, DeliverRetryLadder(receipt, p)
       PROVE  Reopened'
  BY <1>1, <1>3, <1>22, Zenon DEF DeliverRetryLadder, reviewVars, Tasks
<1>23. ASSUME RetryToPending
       PROVE  Reopened'
  BY <1>1, <1>17, <1>23, Zenon DEF RetryToPending, Cleared, Tasks
<1>24. ASSUME NEW p, NEW emitted, ProcessPendingRetry(p, emitted)
       PROVE  Reopened'
  <2>1. CASE EscalateClearOwner \/ RetireDueRow
    <3>1. task'.status = task.status /\ task.status \in {"rejected", "failed"}
      BY <1>1, <1>24, <2>1, Zenon
      DEF ProcessPendingRetry, EscalateClearOwner, RetireDueRow, Cleared, Tasks
    <3>2. QED
      BY <1>2, <3>1
  <2>2. QED
    BY <1>23, <1>24, <2>1, Zenon DEF ProcessPendingRetry
<1>25. ASSUME NEW emitted, ManualRetryByAgent(emitted) \/ ManualRetryByHuman(emitted)
       PROVE  Reopened'
  BY <1>23, <1>25, Zenon DEF ManualRetryByAgent, ManualRetryByHuman
<1>26. CASE UNCHANGED vars
  BY <1>3, <1>26 DEF vars
<1>27. QED
  BY <1>5, <1>6, <1>7, <1>8, <1>9, <1>10, <1>11, <1>12, <1>13, <1>14, <1>15, <1>16, <1>18,
     <1>19, <1>20, <1>21, <1>22, <1>24, <1>25, <1>26, Zenon
  DEF Next, SystemFail, FailTask

(* A task that waits for review carries no rejection of the submitted      *)
(* round: whoever rejected it is asked again after the rework.             *)
THEOREM ReopensTheorem == Spec => []ResubmissionReopensSlots
<1>1. Init => EvidenceOfThisClaim /\ Reopened
  BY DEF Init, NewTask, EvidenceOfThisClaim, Reopened
<1>2. TypeOK /\ EvidenceOfThisClaim /\ [Next]_vars => EvidenceOfThisClaim'
  BY EvidenceStep
<1>3. TypeOK /\ EvidenceOfThisClaim /\ Reopened /\ [Next]_vars => Reopened'
  BY ReopenedStep
<1>4. Reopened => ResubmissionReopensSlots
  BY DEF Reopened, ResubmissionReopensSlots
<1>5. QED
  BY <1>1, <1>2, <1>3, <1>4, TypeTheorem, PTL DEF Spec

(***************************************************************************)
(* Custody                                                                 *)
(***************************************************************************)
Custody ==
    /\ TokenIffCustody
    /\ TokenNamesTheOwner
    /\ ResultIsOfThisEpoch
    /\ PointersNameTheLastEnd

USE DEF TokenIffCustody, TokenNamesTheOwner, ResultIsOfThisEpoch, PointersNameTheLastEnd,
        Holding, ThisEpoch

LEMMA CustodyStep == ASSUME TypeOK, Custody, [Next]_vars PROVE Custody'
<1>1. /\ task \in Tasks
      /\ Len(sessions) \in Nat
      /\ Null \notin Nat /\ Null \notin Agents /\ Null \notin Remotes
  BY NullAssumption DEF TypeOK
<1>2. ASSUME NEW h \in Claimants, Mint(h)
      PROVE  /\ Len(sessions') = Len(sessions) + 1
             /\ sessions'[Len(sessions) + 1] = h
  BY <1>2 DEF Mint, TypeOK
<1>3. ASSUME NEW a \in Agents, NEW count \in PolicyCounts, NEW emitted \in Emission,
             ClaimTask(a, count, emitted)
      PROVE  Custody'
  <2>1. /\ Len(sessions') = Len(sessions) + 1
        /\ sessions'[Len(sessions) + 1] = a
    BY <1>2, <1>3 DEF ClaimTask, BeginPeriod, Claimants
  <2>2. task' = [task EXCEPT !.status = "claimed", !.assigned = a, !.token = Len(sessions) + 1,
                            !.lastFailure = Null, !.lastRelease = Null]
    BY <1>3 DEF ClaimTask, NewToken
  <2>3. QED
    BY <1>1, <2>1, <2>2, SMT DEF Custody, Tasks
<1>4. ASSUME NEW p \in Remotes, NEW count \in PolicyCounts, ClaimTaskForRemote(p, count)
      PROVE  Custody'
  <2>1. /\ Len(sessions') = Len(sessions) + 1
        /\ sessions'[Len(sessions) + 1] = p
    BY <1>2, <1>4 DEF ClaimTaskForRemote, BeginPeriod, Claimants
  <2>2. task' = [task EXCEPT !.status = "claimed", !.remote = p, !.token = Len(sessions) + 1,
                            !.lastFailure = Null, !.lastRelease = Null]
    BY <1>4 DEF ClaimTaskForRemote, NewToken
  <2>3. QED
    BY <1>1, <2>1, <2>2, SMT DEF Custody, Tasks
<1>5. ASSUME NEW a \in Agents, NEW b \in Delegates, DelegateTask(a, b)
      PROVE  Custody'
  <2>1. task' = [task EXCEPT !.delegatedTo = b] /\ sessions' = sessions
    BY <1>5 DEF DelegateTask
  <2>2. QED
    BY <1>1, <2>1, SMT DEF Custody, Tasks
<1>6. ASSUME NEW b \in Agents, NEW count \in PolicyCounts, NEW emitted \in Emission,
             ClaimDelegatedTask(b, count, emitted)
      PROVE  Custody'
  <2>1. /\ Len(sessions') = Len(sessions) + 1
        /\ sessions'[Len(sessions) + 1] = b
    BY <1>2, <1>6 DEF ClaimDelegatedTask, BeginPeriod, Claimants
  <2>2. task' = [task EXCEPT !.status = "claimed", !.assigned = b, !.delegatedTo = Null,
                            !.token = Len(sessions) + 1,
                            !.lastFailure = Null, !.lastRelease = Null]
    BY <1>6 DEF ClaimDelegatedTask, NewToken
  <2>3. QED
    BY <1>1, <2>1, <2>2, SMT DEF Custody, Tasks
<1>7. ASSUME NEW a \in Agents, NEW t, NEW emitted \in Emission, StartTask(a, t, emitted)
      PROVE  Custody'
  <2>1. CASE /\ task.status = "claimed"
             /\ task' = [task EXCEPT !.status = "in_progress"]
             /\ sessions' = sessions
    BY <1>1, <2>1, SMT DEF Custody, Tasks
  <2>2. CASE /\ task.status = "rejected"
             /\ Mint(a)
             /\ task' = [task EXCEPT !.status = "in_progress", !.token = NewToken]
    <3>1. /\ Len(sessions') = Len(sessions) + 1
          /\ sessions'[Len(sessions) + 1] = a
      BY <1>2, <2>2 DEF Claimants
    <3>2. task' = [task EXCEPT !.status = "in_progress", !.token = Len(sessions) + 1]
      BY <2>2 DEF NewToken
    <3>3. task.assigned = a /\ task.status = "rejected"
      BY <1>7, <2>2 DEF StartTask
    <3>4. QED
      BY <1>1, <3>1, <3>2, <3>3, SMT DEF Custody, Tasks
  <2>3. QED
    BY <1>7, <2>1, <2>2, Zenon DEF StartTask
<1>8. ASSUME NEW p \in Remotes, StartTaskByRemoteParticipant(p)
      PROVE  Custody'
  <2>1. /\ task.status = "claimed"
        /\ task' = [task EXCEPT !.status = "in_progress"]
        /\ sessions' = sessions
    BY <1>8 DEF StartTaskByRemoteParticipant
  <2>2. QED
    BY <1>1, <2>1, SMT DEF Custody, Tasks
<1>9. ASSUME NEW a \in Agents, NEW t \in TokensOf(a), NEW S, NEW emitted \in Emission,
             SubmitTask(a, t, S, emitted)
      PROVE  Custody'
  <2>1. /\ task.status = "in_progress"
        /\ task.token = Null \/ task.token = t
        /\ task' = [task EXCEPT !.status = "submitted", !.result = t]
        /\ sessions' = sessions
    BY <1>9 DEF SubmitTask, EpochAdmits
  <2>2. QED
    BY <1>1, <2>1, SMT DEF Custody, Tasks
<1>10. ASSUME NEW p \in Remotes, NEW S, NEW emitted \in Emission,
              SubmitTaskForRemote(p, S, emitted)
       PROVE  Custody'
  <2>1. /\ task.status = "in_progress"
        /\ task' = [task EXCEPT !.status = "submitted", !.result = task.token]
        /\ sessions' = sessions
    BY <1>10 DEF SubmitTaskForRemote
  <2>2. QED
    BY <1>1, <2>1, SMT DEF Custody, Tasks
<1>11. ASSUME /\ task' = [task EXCEPT !.status = "approved", !.token = Null,
                                      !.lastFailure = Null, !.lastRelease = Null]
              /\ sessions' = sessions
       PROVE  Custody'
  BY <1>1, <1>11, SMT DEF Custody, Tasks
<1>12. ASSUME UNCHANGED <<task, sessions>>
       PROVE  Custody'
  BY <1>12 DEF Custody
<1>13. ASSUME NEW r \in Reviewers, ApproveTask(r)
       PROVE  Custody'
  BY <1>11, <1>12, <1>13, Zenon DEF ApproveTask, TerminalApprove
<1>14. ASSUME NEW r \in Reviewers, NEW p \in Policies, NEW emission, RejectTask(r, p, emission)
       PROVE  Custody'
  <2>1. task.status = "submitted" /\ sessions' = sessions
    BY <1>14 DEF RejectTask
  <2>2. CASE task' = [task EXCEPT !.status = "rejected", !.lastFailure = Null,
                                  !.lastRelease = Null]
    BY <1>1, <2>1, <2>2, SMT DEF Custody, Tasks
  <2>3. ASSUME NEW armed,
               task' = [task EXCEPT !.status = "rejected", !.lastFailure = Null,
                                    !.lastRelease = Null, !.nextRetry = armed]
        PROVE  Custody'
    BY <1>1, <2>1, <2>3, SMT DEF Custody, Tasks
  <2>4. ASSUME NEW spent, RetryTrigger(p, spent)
        PROVE  Custody'
    BY <2>3, <2>4, Zenon DEF RetryTrigger
  <2>5. QED
    BY <1>14, <2>2, <2>4, Zenon DEF RejectTask
<1>15. ASSUME NEW a \in Agents, CompleteTask(a)
       PROVE  Custody'
  <2>1. /\ task' = [task EXCEPT !.status = "done", !.token = Null,
                                !.lastFailure = Null, !.lastRelease = Null]
        /\ sessions' = sessions
    BY <1>15 DEF CompleteTask
  <2>2. QED
    BY <1>1, <2>1, SMT DEF Custody, Tasks
<1>16. ASSUME NEW r \in Reviewers, AddReviewer(r) \/ RemoveReviewer(r)
       PROVE  Custody'
  BY <1>12, <1>16 DEF AddReviewer, RemoveReviewer
<1>17. ASSUME NEW h, NEW n, ResolveRequirement(h, n)
       PROVE  Custody'
  BY <1>12, <1>17 DEF ResolveRequirement
<1>18. ASSUME NEW a \in Agents, NEW t, NEW emitted \in Emission, ReleaseTask(a, t, emitted)
       PROVE  Custody'
  <2>1. task' = [Cleared("pending") EXCEPT !.assigned = Null] /\ sessions' = sessions
    BY <1>18 DEF ReleaseTask
  <2>2. QED
    BY <1>1, <2>1, SMT DEF Cleared, Custody, Tasks
<1>19. ASSUME NEW p \in Remotes, ReleaseTaskForRemote(p)
       PROVE  Custody'
  <2>1. task' = [Cleared("pending") EXCEPT !.remote = Null] /\ sessions' = sessions
    BY <1>19 DEF ReleaseTaskForRemote
  <2>2. QED
    BY <1>1, <2>1, SMT DEF Cleared, Custody, Tasks
<1>20. CASE SystemRelease
  <2>1. /\ task.status \in {"claimed", "in_progress"}
        /\ task' = [task EXCEPT !.status = "pending", !.assigned = Null, !.token = Null,
                                !.lastRelease = Len(sessions)]
        /\ sessions' = sessions
    BY <1>20 DEF SystemRelease, ReleaseWithEffects, Releasable
  <2>2. QED
    BY <1>1, <2>1, SMT DEF Custody, Tasks
<1>21. CASE FailWithEffects
  <2>1. /\ task.status = "in_progress"
        /\ task' = [task EXCEPT !.status = "failed", !.assigned = Null, !.token = Null,
                                !.lastFailure = Len(sessions)]
        /\ sessions' = sessions
    BY <1>21 DEF FailWithEffects
  <2>2. QED
    BY <1>1, <2>1, SMT DEF Custody, Tasks
<1>22. ASSUME NEW a \in Agents, NEW byHuman \in BOOLEAN, DeleteAgent(a, byHuman)
       PROVE  Custody'
  <2>1. sessions' = sessions
    BY <1>22 DEF DeleteAgent
  <2>2. ASSUME NEW offer,
               task.status \in Releasable,
               task' = [task EXCEPT !.status = "pending", !.assigned = Null, !.token = Null,
                                    !.lastRelease = ThisEpoch, !.delegatedTo = offer]
        PROVE  Custody'
    BY <1>1, <2>1, <2>2, SMT DEF Releasable, Custody, Tasks
  <2>3. ASSUME NEW offer,
               task.status \notin {"claimed", "in_progress", "submitted", "rejected"},
               task' = [task EXCEPT !.assigned = Null, !.token = Null, !.delegatedTo = offer]
        PROVE  Custody'
    <3>1. task.token = Null
      BY <2>3 DEF Custody
    <3>2. QED
      BY <1>1, <2>1, <2>3, <3>1, SMT DEF Custody, Tasks
  <2>4. ASSUME NEW offer, task' = [task EXCEPT !.delegatedTo = offer]
        PROVE  Custody'
    BY <1>1, <2>1, <2>4, SMT DEF Custody, Tasks
  <2>5. CASE /\ task.status \in Releasable
             /\ task' = [task EXCEPT !.status = "pending", !.assigned = Null, !.token = Null,
                                     !.lastRelease = ThisEpoch,
                                     !.delegatedTo = IF @ = a THEN Null ELSE @]
    BY <2>2, <2>5, Zenon
  <2>6. CASE /\ task.status \notin Holding
             /\ task' = [task EXCEPT !.assigned = Null, !.token = Null,
                                     !.delegatedTo = IF @ = a THEN Null ELSE @]
    BY <2>3, <2>6, Zenon
  <2>7. CASE task' = [task EXCEPT !.delegatedTo = IF @ = a THEN Null ELSE @]
    BY <2>4, <2>7, Zenon
  <2>8. QED
    BY <1>22, <2>5, <2>6, <2>7, Zenon DEF DeleteAgent
<1>23. ASSUME NEW receipt \in ladder, NEW p \in Policies, DeliverRetryLadder(receipt, p)
       PROVE  Custody'
  <2>1. sessions' = sessions
    BY <1>23 DEF DeliverRetryLadder
  <2>2. CASE task' = [task EXCEPT !.nextRetry = TRUE]
    BY <1>1, <2>1, <2>2, SMT DEF Custody, Tasks
  <2>3. CASE /\ task.status = "failed"
             /\ task' = [task EXCEPT !.assigned = Null, !.nextRetry = FALSE, !.token = Null]
    BY <1>1, <2>1, <2>3, SMT DEF Custody, Tasks
  <2>4. QED
    BY <1>12, <1>23, <2>1, <2>2, <2>3, Zenon DEF DeliverRetryLadder
<1>24. ASSUME RetryToPending, sessions' = sessions
       PROVE  Custody'
  BY <1>1, <1>24, SMT DEF RetryToPending, Cleared, Custody, Tasks
<1>25. ASSUME NEW p \in Policies, NEW emitted, ProcessPendingRetry(p, emitted)
       PROVE  Custody'
  <2>1. sessions' = sessions
    BY <1>25 DEF ProcessPendingRetry
  <2>2. CASE EscalateClearOwner /\ task.status = "failed"
    BY <1>1, <2>1, <2>2, SMT DEF EscalateClearOwner, Cleared, Custody, Tasks
  <2>3. CASE RetireDueRow
    <3>1. task' = [task EXCEPT !.nextRetry = FALSE]
      BY <2>3 DEF RetireDueRow
    <3>2. QED
      BY <1>1, <2>1, <3>1, SMT DEF Custody, Tasks
  <2>4. QED
    BY <1>24, <1>25, <2>1, <2>2, <2>3, Zenon DEF ProcessPendingRetry
<1>26. ASSUME NEW emitted, ManualRetryByAgent(emitted) \/ ManualRetryByHuman(emitted)
       PROVE  Custody'
  BY <1>24, <1>26, Zenon DEF ManualRetryByAgent, ManualRetryByHuman
<1>27. CASE UNCHANGED vars
  BY <1>12, <1>27 DEF vars
<1>28. QED
  BY <1>3, <1>4, <1>5, <1>6, <1>7, <1>8, <1>9, <1>10, <1>13, <1>14, <1>15, <1>16, <1>17,
     <1>18, <1>19, <1>20, <1>21, <1>22, <1>23, <1>25, <1>26, <1>27, Zenon
  DEF Next, SystemFail, FailTask

CustodyInv == TypeOK /\ Custody

LEMMA CustodyInvariant == Spec => []CustodyInv
<1>1. Init => Custody
  BY NullAssumption DEF Init, NewTask, Custody
<1>2. CustodyInv /\ [Next]_vars => Custody'
  BY CustodyStep DEF CustodyInv
<1>3. QED
  BY <1>1, <1>2, TypeTheorem, PTL DEF Spec, CustodyInv


(* A waiting receipt names an epoch that is over, and the count frozen in  *)
(* it is the row's as long as the row still stands in that failure.        *)
ReceiptsOfPast ==
    \A receipt \in ladder :
        /\ receipt.event <= ThisEpoch
        /\ task.token # Null => receipt.event < ThisEpoch
        /\ task.lastFailure = receipt.event => receipt.retryCount = task.retryCount

(* Every step but a failure adds no receipt, opens custody only with a new *)
(* token, and keeps the failure pointer only together with the retry count.*)
ForwardMove ==
    /\ \/ Len(sessions') = Len(sessions) /\ (task'.token # Null => task.token # Null)
       \/ Len(sessions') = Len(sessions) + 1
    /\ \/ task'.lastFailure = Null
       \/ task'.lastFailure = task.lastFailure /\ task'.retryCount = task.retryCount

LEMMA StepMovesForward ==
    ASSUME CustodyInv, [Next]_vars
    PROVE  \/ FailWithEffects
           \/ ForwardMove /\ ladder' = ladder
           \/ ForwardMove /\ \E receipt \in ladder, p \in Policies : DeliverRetryLadder(receipt, p)
<1>1. /\ task \in Tasks
      /\ Len(sessions) \in Nat
  BY DEF CustodyInv, TypeOK
<1>2. ASSUME NEW h \in Claimants, Mint(h)
      PROVE  Len(sessions') = Len(sessions) + 1
  BY <1>2 DEF Mint, CustodyInv, TypeOK
<1>3. ASSUME NEW a \in Agents, NEW count, NEW emitted,
             ClaimTask(a, count, emitted) \/ ClaimDelegatedTask(a, count, emitted)
      PROVE  ForwardMove /\ ladder' = ladder
  <2>1. Len(sessions') = Len(sessions) + 1 /\ ladder' = ladder
    BY <1>2, <1>3 DEF ClaimTask, ClaimDelegatedTask, BeginPeriod, Claimants
  <2>2. task'.lastFailure = Null
    BY <1>1, <1>3, Zenon DEF ClaimTask, ClaimDelegatedTask, Tasks
  <2>3. QED
    BY <2>1, <2>2 DEF ForwardMove
<1>4. ASSUME NEW p \in Remotes, NEW count, ClaimTaskForRemote(p, count)
      PROVE  ForwardMove /\ ladder' = ladder
  <2>1. Len(sessions') = Len(sessions) + 1 /\ ladder' = ladder
    BY <1>2, <1>4 DEF ClaimTaskForRemote, BeginPeriod, Claimants
  <2>2. task'.lastFailure = Null
    BY <1>1, <1>4, Zenon DEF ClaimTaskForRemote, Tasks
  <2>3. QED
    BY <2>1, <2>2 DEF ForwardMove
<1>5. ASSUME sessions' = sessions,
             task'.token # Null => task'.token = task.token,
             task'.lastFailure = task.lastFailure,
             task'.retryCount = task.retryCount
      PROVE  ForwardMove
  BY <1>5 DEF ForwardMove
<1>6. ASSUME sessions' = sessions, task'.token = Null, task'.lastFailure = Null
      PROVE  ForwardMove
  BY <1>6 DEF ForwardMove
<1>7. ASSUME NEW a \in Agents, NEW b \in Delegates, DelegateTask(a, b)
      PROVE  ForwardMove /\ ladder' = ladder
  BY <1>1, <1>5, <1>7, Zenon DEF DelegateTask, effectVars, Tasks
<1>8. ASSUME NEW a \in Agents, NEW t, NEW emitted, StartTask(a, t, emitted)
      PROVE  ForwardMove /\ ladder' = ladder
  <2>1. /\ ladder' = ladder
        /\ task'.lastFailure = task.lastFailure
        /\ task'.retryCount = task.retryCount
    BY <1>1, <1>8, Zenon DEF StartTask, Tasks
  <2>2. sessions' = sessions \/ Mint(a)
    BY <1>8, Zenon DEF StartTask
  <2>3. task.token # Null
    <3>1. task.status \in {"claimed", "rejected"}
      BY <1>8, Zenon DEF StartTask
    <3>2. QED
      BY <3>1 DEF CustodyInv, Custody
  <2>4. QED
    BY <1>2, <2>1, <2>2, <2>3 DEF ForwardMove, Claimants
<1>9. ASSUME NEW p \in Remotes, StartTaskByRemoteParticipant(p)
      PROVE  ForwardMove /\ ladder' = ladder
  BY <1>1, <1>5, <1>9, Zenon DEF StartTaskByRemoteParticipant, effectVars, Tasks
<1>10. ASSUME NEW a \in Agents, NEW t, NEW S, NEW emitted, SubmitTask(a, t, S, emitted)
       PROVE  ForwardMove /\ ladder' = ladder
  BY <1>1, <1>5, <1>10, Zenon DEF SubmitTask, Tasks
<1>11. ASSUME NEW p \in Remotes, NEW S, NEW emitted, SubmitTaskForRemote(p, S, emitted)
       PROVE  ForwardMove /\ ladder' = ladder
  BY <1>1, <1>5, <1>11, Zenon DEF SubmitTaskForRemote, Tasks
<1>12. ASSUME NEW r, ApproveTask(r)
       PROVE  ForwardMove /\ ladder' = ladder
  BY <1>1, <1>5, <1>6, <1>12, Zenon DEF ApproveTask, TerminalApprove, effectVars, Tasks
<1>13. ASSUME NEW r, NEW p, NEW emission, RejectTask(r, p, emission)
       PROVE  ForwardMove /\ ladder' = ladder
  <2>1. sessions' = sessions /\ ladder' = ladder
    BY <1>13, Zenon DEF RejectTask
  <2>2. task'.lastFailure = Null /\ task'.token = task.token
    <3>1. ASSUME NEW spent, RetryTrigger(p, spent)
          PROVE  task'.lastFailure = Null /\ task'.token = task.token
      BY <1>1, <3>1, Zenon DEF RetryTrigger, Tasks
    <3>2. QED
      BY <1>1, <1>13, <3>1, Zenon DEF RejectTask, Tasks
  <2>3. QED
    BY <2>1, <2>2 DEF ForwardMove
<1>14. ASSUME NEW a, CompleteTask(a)
       PROVE  ForwardMove /\ ladder' = ladder
  BY <1>1, <1>6, <1>14, Zenon DEF CompleteTask, effectVars, Tasks
<1>15. ASSUME NEW r, AddReviewer(r) \/ RemoveReviewer(r)
       PROVE  ForwardMove /\ ladder' = ladder
  BY <1>5, <1>15, Zenon DEF AddReviewer, RemoveReviewer, effectVars
<1>16. ASSUME NEW h, NEW n, ResolveRequirement(h, n)
       PROVE  ForwardMove /\ ladder' = ladder
  BY <1>5, <1>16, Zenon DEF ResolveRequirement, effectVars
<1>17. ASSUME NEW a, NEW t, NEW emitted, ReleaseTask(a, t, emitted)
       PROVE  ForwardMove /\ ladder' = ladder
  BY <1>1, <1>6, <1>17, Zenon DEF ReleaseTask, Cleared, Tasks
<1>18. ASSUME NEW p, ReleaseTaskForRemote(p)
       PROVE  ForwardMove /\ ladder' = ladder
  BY <1>1, <1>6, <1>18, Zenon DEF ReleaseTaskForRemote, Cleared, Tasks
<1>19. CASE SystemRelease
  BY <1>1, <1>5, <1>19, Zenon DEF SystemRelease, ReleaseWithEffects, Tasks
<1>20. ASSUME NEW a, NEW byHuman, DeleteAgent(a, byHuman)
       PROVE  ForwardMove /\ ladder' = ladder
  BY <1>1, <1>5, <1>20, Zenon DEF DeleteAgent, Tasks
<1>21. ASSUME NEW receipt \in ladder, NEW p \in Policies, DeliverRetryLadder(receipt, p)
       PROVE  ForwardMove
  BY <1>1, <1>5, <1>21, Zenon DEF DeliverRetryLadder, Tasks
<1>22. ASSUME RetryToPending, sessions' = sessions
       PROVE  ForwardMove
  BY <1>1, <1>6, <1>22, Zenon DEF RetryToPending, Cleared, Tasks
<1>23. ASSUME NEW p, NEW emitted, ProcessPendingRetry(p, emitted)
       PROVE  ForwardMove /\ ladder' = ladder
  <2>1. ASSUME EscalateClearOwner, sessions' = sessions
        PROVE  ForwardMove
    BY <1>1, <1>6, <2>1, Zenon DEF EscalateClearOwner, Cleared, Tasks
  <2>2. QED
    BY <1>1, <1>5, <1>22, <1>23, <2>1, Zenon DEF ProcessPendingRetry, RetireDueRow, Tasks
<1>24. ASSUME NEW emitted, ManualRetryByAgent(emitted) \/ ManualRetryByHuman(emitted)
       PROVE  ForwardMove /\ ladder' = ladder
  BY <1>22, <1>24, Zenon DEF ManualRetryByAgent, ManualRetryByHuman
<1>25. CASE UNCHANGED vars
  BY <1>5, <1>25 DEF vars
<1>26. QED
  BY <1>3, <1>4, <1>7, <1>8, <1>9, <1>10, <1>11, <1>12, <1>13, <1>14, <1>15, <1>16, <1>17,
     <1>18, <1>19, <1>20, <1>21, <1>23, <1>24, <1>25, Zenon
  DEF Next, SystemFail, FailTask

LEMMA ReceiptsStep ==
    ASSUME CustodyInv, ReceiptsOfPast, [Next]_vars
    PROVE  ReceiptsOfPast'
<1>1. /\ task \in Tasks
      /\ ladder \in SUBSET Receipts
      /\ Len(sessions) \in Nat
      /\ Null \notin Nat
  BY NullAssumption DEF CustodyInv, TypeOK
<1>2. ASSUME ForwardMove, ladder' \subseteq ladder
      PROVE  ReceiptsOfPast'
  <2>1. SUFFICES ASSUME NEW receipt \in ladder
                 PROVE  /\ receipt.event <= Len(sessions')
                        /\ task'.token # Null => receipt.event < Len(sessions')
                        /\ task'.lastFailure = receipt.event
                               => receipt.retryCount = task'.retryCount
    BY <1>2 DEF ReceiptsOfPast
  <2>2. receipt.event \in Nat
    BY <1>1 DEF Receipts
  <2>3. /\ receipt.event <= Len(sessions)
        /\ task.token # Null => receipt.event < Len(sessions)
        /\ task.lastFailure = receipt.event => receipt.retryCount = task.retryCount
    BY DEF ReceiptsOfPast
  <2>4. QED
    BY <1>1, <1>2, <2>2, <2>3 DEF ForwardMove
<1>3. CASE FailWithEffects
  <2>1. /\ sessions' = sessions
        /\ task.token # Null
        /\ task'.token = Null
        /\ task'.retryCount = task.retryCount
        /\ task'.lastFailure = Len(sessions)
    BY <1>1, <1>3, SMT DEF FailWithEffects, Tasks, CustodyInv, Custody
  <2>2. \A receipt \in ladder : receipt.event < Len(sessions) /\ receipt.event \in Nat
    BY <1>1, <2>1 DEF ReceiptsOfPast, Receipts
  <2>3. \A receipt \in ladder' : \/ receipt \in ladder
                                 \/ /\ receipt.event = Len(sessions)
                                    /\ receipt.retryCount = task.retryCount
    BY <1>3 DEF FailWithEffects
  <2>4. QED
    BY <1>1, <2>1, <2>2, <2>3 DEF ReceiptsOfPast
<1>4. QED
  BY StepMovesForward, <1>2, <1>3, Zenon DEF DeliverRetryLadder

(* A task in custody carries the newest token ever minted, minted for its  *)
(* owner, and a task that nobody holds carries none.                       *)
THEOREM TokenTheorem == Spec => [](TokenNamesTheOwner /\ TokenIffCustody)
<1>1. CustodyInv => TokenNamesTheOwner /\ TokenIffCustody
  BY DEF CustodyInv, Custody
<1>2. QED
  BY <1>1, CustodyInvariant, PTL

(* The result under review was written under the token of the row: no      *)
(* worker of an ended period or round ever replaces it.                    *)
THEOREM ResultTheorem == Spec => []ResultIsOfThisEpoch
<1>1. CustodyInv => ResultIsOfThisEpoch
  BY DEF CustodyInv, Custody
<1>2. QED
  BY <1>1, CustodyInvariant, PTL

(* The failure and release pointers name the end of the newest epoch, and  *)
(* only while the row stands in the state that end left it in.             *)
THEOREM PointersTheorem == Spec => []PointersNameTheLastEnd
<1>1. CustodyInv => PointersNameTheLastEnd
  BY DEF CustodyInv, Custody
<1>2. QED
  BY <1>1, CustodyInvariant, PTL

(* A ladder receipt moves the row only if it belongs to the newest epoch   *)
(* and the retry count frozen in it is still the row's.                    *)
THEOREM LateReceiptsTheorem == Spec => LateReceiptsAreInert
<1>1. Init => ReceiptsOfPast
  BY DEF Init, ReceiptsOfPast
<1>2. CustodyInv /\ ReceiptsOfPast /\ [Next]_vars => ReceiptsOfPast'
  BY ReceiptsStep
<1>3. CustodyInv /\ ReceiptsOfPast /\ [Next]_vars
        => [\A receipt \in ladder \ ladder' :
              task' # task => /\ receipt.event = ThisEpoch
                              /\ receipt.retryCount = task.retryCount]_vars
  <2>1. SUFFICES ASSUME CustodyInv, ReceiptsOfPast, [Next]_vars,
                        NEW receipt \in ladder \ ladder', task' # task
                 PROVE  receipt.event = Len(sessions) /\ receipt.retryCount = task.retryCount
    BY Zenon DEF ThisEpoch
  <2>2. receipt.event \in Nat /\ Null \notin Nat
    BY <2>1, NullAssumption DEF CustodyInv, TypeOK, Receipts
  <2>3. task.lastFailure = receipt.event
    <3>1. \E p \in Policies, r \in ladder : DeliverRetryLadder(r, p)
      <4>1. ~FailWithEffects
        BY <2>1 DEF FailWithEffects
      <4>2. QED
        BY <2>1, <4>1, StepMovesForward, Zenon
    <3>2. PICK p \in Policies, r \in ladder : DeliverRetryLadder(r, p)
      BY <3>1
    <3>3. r = receipt
      BY <2>1, <3>2, Zenon DEF DeliverRetryLadder
    <3>4. QED
      BY <2>1, <3>2, <3>3, Zenon DEF DeliverRetryLadder
  <2>4. QED
    <3>1. task.lastFailure # Null => task.lastFailure = Len(sessions)
      BY <2>1 DEF CustodyInv, Custody
    <3>2. receipt.retryCount = task.retryCount
      BY <2>1, <2>3 DEF ReceiptsOfPast
    <3>3. QED
      BY <2>2, <2>3, <3>1, <3>2
<1>4. QED
  BY <1>1, <1>2, <1>3, CustodyInvariant, PTL DEF Spec, LateReceiptsAreInert

-----------------------------------------------------------------------------
(* What an affordable meter means for a row: the overdraft happens once per*)
(* failure, because no receipt of a failure that overdrew is still due, and*)
(* a promise to a replacement stands only while the replacement is at work.*)
Affordable ==
    Ceiling # 0 =>
        /\ meter <= Ceiling + 1
        /\ meter > Ceiling => /\ task.status \in {"rejected", "failed"}
                              /\ \A receipt \in ladder : receipt.event # task.lastFailure
        /\ reserved > 0 => /\ task.status \in {"pending", "claimed", "in_progress"}
                           /\ meter + reserved <= Ceiling

LEMMA BudgetStep ==
    ASSUME CustodyInv, ReceiptsOfPast, Affordable, [Next]_vars
    PROVE  Affordable'
<1> USE DEF Metered, EmitMetered, BudgetAdmits, Forfeit
<1>1. /\ task \in Tasks
      /\ meter \in Nat /\ reserved \in Nat /\ Ceiling \in Nat
      /\ ladder \in SUBSET Receipts
      /\ Null \notin Nat
      /\ meter' \in Nat /\ reserved' \in Nat
  BY CountsAssumption, NullAssumption, BooksType DEF CustodyInv, TypeOK, BooksOK
<1>2. ASSUME Ceiling # 0 => meter' <= Ceiling, reserved' = 0
      PROVE  Affordable'
  BY <1>1, <1>2 DEF Affordable
<1>3. ASSUME reserved' \in {reserved - 1, 0},
             task'.status \in {"claimed", "in_progress"},
             Ceiling # 0 => meter' \in {meter, meter + 1} /\ meter' <= Ceiling
      PROVE  Affordable'
  <2>1. PICK m \in Nat, r \in Nat : meter' = m /\ reserved' = r
    BY <1>1
  <2>2. Ceiling # 0 => /\ m <= Ceiling
                       /\ r > 0 => m + r <= Ceiling
    BY <1>1, <1>3, <2>1 DEF Affordable
  <2>3. QED
    BY <1>1, <1>3, <2>1, <2>2 DEF Affordable
<1>4. ASSUME meter' = meter, reserved' \in {reserved, 0},
             task'.status = task.status,
             task'.lastFailure \in {task.lastFailure, Null},
             ladder' \subseteq ladder
      PROVE  Affordable'
  <2>1. \A receipt \in ladder' : receipt \in ladder /\ receipt.event # Null
    BY <1>1, <1>4 DEF Receipts
  <2>2. \/ task'.lastFailure = task.lastFailure
        \/ \A receipt \in ladder' : receipt.event # task'.lastFailure
    BY <1>4, <2>1
  <2>3. CASE reserved' = 0
    BY <1>1, <1>4, <2>1, <2>2, <2>3 DEF Affordable
  <2>4. CASE reserved' = reserved
    BY <1>1, <1>4, <2>1, <2>2, <2>4 DEF Affordable
  <2>5. QED
    BY <1>4, <2>3, <2>4
<1>5. ASSUME NEW a \in Agents, NEW count, NEW emitted, ClaimTask(a, count, emitted)
      PROVE  Affordable'
  <2>1. task.status = "pending" /\ task'.status = "claimed"
    BY <1>1, <1>5, Zenon DEF ClaimTask, Tasks
  <2>2. /\ reserved' \in {reserved - 1, 0}
        /\ Ceiling # 0 => meter' \in {meter, meter + 1} /\ meter' <= Ceiling
    BY <1>1, <1>5, SMT DEF ClaimTask, Spend
  <2>3. QED
    BY <1>3, <2>1, <2>2
<1>6. ASSUME NEW p \in Remotes, NEW count, ClaimTaskForRemote(p, count)
      PROVE  Affordable'
  <2>1. task.status = "pending" /\ task'.status = "claimed"
    BY <1>1, <1>6, Zenon DEF ClaimTaskForRemote, Tasks
  <2>2. /\ p \in ExemptRemotes \/ BudgetAdmits(1)
        /\ reserved' \in {reserved - 1, 0}
        /\ Ceiling # 0 => meter' = meter + (IF p \in ExemptRemotes THEN 0 ELSE 1)
    BY <1>1, <1>6, SMT DEF ClaimTaskForRemote, Spend
  <2>3. Ceiling # 0 => meter' \in {meter, meter + 1} /\ meter' <= Ceiling
    BY <1>1, <2>1, <2>2 DEF Affordable
  <2>4. QED
    BY <1>3, <2>1, <2>2, <2>3
<1>7. ASSUME NEW a, NEW b, DelegateTask(a, b)
      PROVE  Affordable'
  BY <1>1, <1>4, <1>7, Zenon DEF DelegateTask, effectVars, Tasks
<1>8. ASSUME NEW a, NEW count, NEW emitted, ClaimDelegatedTask(a, count, emitted)
      PROVE  Affordable'
  <2>1. reserved' = 0 /\ (Ceiling # 0 => meter' <= Ceiling)
    BY <1>1, <1>8, SMT DEF ClaimDelegatedTask
  <2>2. QED
    BY <1>2, <2>1
<1>9. ASSUME NEW a, NEW t, NEW emitted, StartTask(a, t, emitted)
      PROVE  Affordable'
  <2>1. task'.status = "in_progress"
    BY <1>1, <1>9, Zenon DEF StartTask, Tasks
  <2>2. /\ reserved' \in {reserved - 1, 0}
        /\ Ceiling # 0 => meter' \in {meter, meter + 1} /\ meter' <= Ceiling
    BY <1>1, <1>9, SMT DEF StartTask, Spend
  <2>3. QED
    BY <1>3, <2>1, <2>2
<1>10. ASSUME NEW p, StartTaskByRemoteParticipant(p)
       PROVE  Affordable'
  <2>1. /\ task.status = "claimed" /\ task'.status = "in_progress"
        /\ Spend(2) /\ meter' = meter
    BY <1>1, <1>10, Zenon DEF StartTaskByRemoteParticipant, effectVars, Tasks
  <2>2. Ceiling # 0 => meter' \in {meter, meter + 1} /\ meter' <= Ceiling
    BY <1>1, <2>1 DEF Affordable
  <2>3. QED
    BY <1>1, <1>3, <2>1, <2>2 DEF Spend
<1>11. ASSUME NEW a, NEW t, NEW S, NEW emitted, SubmitTask(a, t, S, emitted)
       PROVE  Affordable'
  <2>1. /\ task.status = "in_progress" /\ BudgetAdmits(1) /\ Spend(1)
        /\ Ceiling # 0 => meter' \in {meter, meter + 1}
    BY <1>1, <1>11, SMT DEF SubmitTask
  <2>2. QED
    BY <1>1, <1>2, <2>1 DEF Spend
<1>12. ASSUME NEW p, NEW S, NEW emitted, SubmitTaskForRemote(p, S, emitted)
       PROVE  Affordable'
  <2>1. /\ task.status = "in_progress" /\ Spend(1)
        /\ p \in ExemptRemotes \/ BudgetAdmits(1)
        /\ Ceiling # 0 => meter' = meter + (IF p \in ExemptRemotes THEN 0 ELSE 1)
    BY <1>12, SMT DEF SubmitTaskForRemote
  <2>2. Ceiling # 0 => meter' <= Ceiling
    BY <1>1, <2>1 DEF Affordable
  <2>3. QED
    BY <1>1, <1>2, <2>1, <2>2 DEF Spend
<1>13. ASSUME task.status \notin {"rejected", "failed"}, meter' = meter, reserved' = 0
       PROVE  Affordable'
  BY <1>1, <1>2, <1>13 DEF Affordable
<1>14. ASSUME NEW r, ApproveTask(r)
       PROVE  Affordable'
  <2>1. task.status = "submitted" /\ meter' = meter /\ ladder' = ladder
    BY <1>14, Zenon DEF ApproveTask, effectVars
  <2>2. reserved' = 0 \/ UNCHANGED <<task, reserved>>
    BY <1>14, Zenon DEF ApproveTask
  <2>3. QED
    BY <1>4, <1>13, <2>1, <2>2, Zenon
<1>15. ASSUME NEW r \in Reviewers, NEW p, NEW emission, RejectTask(r, p, emission)
       PROVE  Affordable'
  <2>1. /\ task.status = "submitted"
        /\ r \in Humans \/ BudgetAdmits(1)
        /\ reserved' = 0 /\ ladder' = ladder
    BY <1>15, Zenon DEF RejectTask
  <2>2. task'.status = "rejected" /\ task'.lastFailure = Null
    <3>1. ASSUME NEW spent, RetryTrigger(p, spent)
          PROVE  task'.status = "rejected" /\ task'.lastFailure = Null
      BY <1>1, <3>1, Zenon DEF RetryTrigger, Tasks
    <3>2. QED
      BY <1>1, <1>15, <3>1, Zenon DEF RejectTask, Tasks
  <2>3. Ceiling # 0 => \E spent \in {0, 1} : /\ spent = 1 => r \in Agents
                                             /\ meter' \in {meter + spent, meter + (spent + 1)}
    <3>1. DEFINE spent == IF r \in Agents /\ emission # "lost" THEN 1 ELSE 0
    <3>2. RetryTrigger(p, spent) \/ Metered(spent)
      BY <1>15, Zenon DEF RejectTask
    <3>3. Ceiling # 0 => meter' \in {meter + spent, meter + (spent + 1)}
      BY <3>2, Zenon DEF RetryTrigger
    <3>4. spent \in {0, 1} /\ (spent = 1 => r \in Agents)
      OBVIOUS
    <3>5. QED
      BY <3>3, <3>4
  <2>4. Ceiling # 0 => meter' <= Ceiling + 1
    BY <1>1, <2>1, <2>3, DisjointAssumption DEF Affordable
  <2>5. \A receipt \in ladder : receipt.event # Null
    BY <1>1 DEF Receipts
  <2>6. QED
    BY <2>1, <2>2, <2>4, <2>5 DEF Affordable
<1>16. ASSUME NEW a, CompleteTask(a)
       PROVE  Affordable'
  <2>1. task.status \in {"submitted", "approved"} /\ meter' = meter /\ reserved' = 0
    BY <1>16, Zenon DEF CompleteTask, effectVars
  <2>2. QED
    BY <1>13, <2>1
<1>17. ASSUME NEW r, AddReviewer(r) \/ RemoveReviewer(r)
       PROVE  Affordable'
  BY <1>4, <1>17, Zenon DEF AddReviewer, RemoveReviewer, effectVars
<1>18. ASSUME NEW h, NEW n, ResolveRequirement(h, n)
       PROVE  Affordable'
  BY <1>4, <1>18, Zenon DEF ResolveRequirement, effectVars
<1>19. ASSUME NEW a, NEW t, NEW emitted, ReleaseTask(a, t, emitted)
       PROVE  Affordable'
  <2>1. reserved' = 0 /\ (Ceiling # 0 => meter' <= Ceiling)
    BY <1>1, <1>19, SMT DEF ReleaseTask
  <2>2. QED
    BY <1>2, <2>1
<1>20. ASSUME NEW p, ReleaseTaskForRemote(p)
       PROVE  Affordable'
  <2>1. /\ task.status \in Releasable /\ reserved' = 0
        /\ p \in ExemptRemotes \/ BudgetAdmits(1)
        /\ Ceiling # 0 => meter' = meter + (IF p \in ExemptRemotes THEN 0 ELSE 1)
    BY <1>20, SMT DEF ReleaseTaskForRemote
  <2>2. Ceiling # 0 => meter' <= Ceiling
    BY <1>1, <2>1 DEF Affordable, Releasable
  <2>3. QED
    BY <1>2, <2>1, <2>2
<1>21. CASE SystemRelease \/ FailWithEffects
  <2>1. reserved' = 0 /\ (Ceiling # 0 => meter' <= Ceiling)
    BY <1>1, <1>21, SMT DEF SystemRelease, FailWithEffects
  <2>2. QED
    BY <1>2, <2>1
<1>22. ASSUME NEW a, NEW byHuman, DeleteAgent(a, byHuman)
       PROVE  Affordable'
  <2>1. \/ /\ task.status \in Releasable /\ reserved' = 0
           /\ byHuman \/ BudgetAdmits(1)
           /\ Ceiling # 0 => meter' = meter + (IF byHuman THEN 0 ELSE 1)
        \/ /\ UNCHANGED <<meter, reserved, ladder>>
           /\ task'.status = task.status /\ task'.lastFailure = task.lastFailure
    BY <1>1, <1>22, Zenon DEF DeleteAgent, Tasks
  <2>2. CASE /\ task.status \in Releasable /\ reserved' = 0
             /\ byHuman \/ BudgetAdmits(1)
             /\ Ceiling # 0 => meter' = meter + (IF byHuman THEN 0 ELSE 1)
    <3>1. Ceiling # 0 => meter' <= Ceiling
      BY <1>1, <2>2 DEF Affordable, Releasable
    <3>2. QED
      BY <1>2, <2>2, <3>1
  <2>3. QED
    BY <1>4, <2>1, <2>2
<1>23. ASSUME NEW receipt \in ladder, NEW p, DeliverRetryLadder(receipt, p)
       PROVE  Affordable'
  <2>1. ladder' = ladder \ {receipt} /\ reserved' = reserved
    BY <1>23, Zenon DEF DeliverRetryLadder
  <2>2. CASE /\ task.status = "failed" /\ task.lastFailure = receipt.event
             /\ task' = [task EXCEPT !.nextRetry = TRUE]
             /\ Metered(1)
    <3>1. task'.status = "failed" /\ task'.lastFailure = receipt.event
      BY <1>1, <2>2, Zenon DEF Tasks
    <3>2. \A other \in ladder' : other.event # receipt.event
      <4>1. SUFFICES ASSUME NEW other \in ladder, other.event = receipt.event
                     PROVE  other = receipt
        BY <2>1
      <4>2. other.retryCount = receipt.retryCount
        BY <2>2, <4>1 DEF ReceiptsOfPast
      <4>3. QED
        BY <1>1, <4>1, <4>2 DEF Receipts
    <3>3. Ceiling # 0 => meter <= Ceiling /\ meter' = meter + 1 /\ reserved = 0
      BY <1>1, <2>2 DEF Affordable
    <3>4. QED
      BY <1>1, <2>1, <3>1, <3>2, <3>3 DEF Affordable
  <2>3. CASE /\ task' = [task EXCEPT !.assigned = Null, !.nextRetry = FALSE, !.token = Null]
             /\ UNCHANGED meter
    BY <1>1, <1>4, <2>1, <2>3, Zenon DEF Tasks
  <2>4. CASE UNCHANGED <<task, meter>>
    BY <1>4, <2>1, <2>4
  <2>5. QED
    BY <1>23, <2>2, <2>3, <2>4, Zenon DEF DeliverRetryLadder
<1>24. ASSUME NEW p, NEW emitted, ProcessPendingRetry(p, emitted)
       PROVE  Affordable'
  <2>1. CASE BudgetAdmits(1) /\ EmitMetered(emitted)
    <3>1. reserved' = 0 /\ (Ceiling # 0 => meter' <= Ceiling)
      BY <1>1, <1>24, <2>1, SMT DEF ProcessPendingRetry
    <3>2. QED
      BY <1>2, <3>1
  <2>2. CASE (EscalateClearOwner \/ RetireDueRow) /\ UNCHANGED meter
    <3>1. task'.status = task.status /\ task'.lastFailure \in {task.lastFailure, Null}
      BY <1>1, <2>2, Zenon DEF EscalateClearOwner, RetireDueRow, Cleared, Tasks
    <3>2. ladder' = ladder /\ reserved' = 0
      BY <1>24, Zenon DEF ProcessPendingRetry
    <3>3. QED
      BY <1>4, <2>2, <3>1, <3>2
  <2>3. QED
    BY <1>24, <2>1, <2>2, Zenon DEF ProcessPendingRetry
<1>25. ASSUME NEW emitted, ManualRetryByAgent(emitted)
       PROVE  Affordable'
  <2>1. reserved' = 0 /\ (Ceiling # 0 => meter' <= Ceiling)
    BY <1>1, <1>25, SMT DEF ManualRetryByAgent
  <2>2. QED
    BY <1>2, <2>1
<1>26. ASSUME NEW emitted, ManualRetryByHuman(emitted)
       PROVE  Affordable'
  <2>1. task'.status = "pending"
    BY <1>1, <1>26, Zenon DEF ManualRetryByHuman, RetryToPending, Cleared, Tasks
  <2>2. reserved' = 3 /\ (Ceiling # 0 => meter' + 3 <= Ceiling)
    BY <1>1, <1>26, SMT DEF ManualRetryByHuman, RecoveryHeadroom
  <2>3. QED
    <3>1. PICK m \in Nat : meter' = m
      BY <1>1
    <3>2. Ceiling # 0 => m + 3 <= Ceiling /\ m <= Ceiling
      BY <1>1, <2>2, <3>1
    <3>3. QED
      BY <1>1, <2>1, <2>2, <3>1, <3>2 DEF Affordable
<1>27. CASE UNCHANGED vars
  BY <1>4, <1>27 DEF vars
<1>28. QED
  BY <1>5, <1>6, <1>7, <1>8, <1>9, <1>10, <1>11, <1>12, <1>14, <1>15, <1>16, <1>17, <1>18,
     <1>19, <1>20, <1>21, <1>22, <1>23, <1>24, <1>25, <1>26, <1>27, Zenon
  DEF Next, SystemFail, FailTask

(* The metered transitions of a task never pass its ceiling by more than   *)
(* the one event of an armed retry, and a replacement that a human made    *)
(* room for can always pay for what is left of its work.                   *)
THEOREM BudgetTheorem == Spec => []BudgetHolds
<1>1. Init => ReceiptsOfPast /\ Affordable
  BY CountsAssumption DEF Init, ReceiptsOfPast, Affordable
<1>2. CustodyInv /\ ReceiptsOfPast /\ [Next]_vars => ReceiptsOfPast'
  BY ReceiptsStep
<1>3. CustodyInv /\ ReceiptsOfPast /\ Affordable /\ [Next]_vars => Affordable'
  BY BudgetStep
<1>4. Affordable => BudgetHolds
  BY DEF Affordable, BudgetHolds, MeterIsBounded, RecoveryIsAffordable
<1>5. QED
  BY <1>1, <1>2, <1>3, <1>4, CustodyInvariant, PTL DEF Spec

(***************************************************************************)
(* Ownership                                                               *)
(* The theorems hold wherever delegation and remote participants do not    *)
(* meet: the run dual_owner shows that an offer which outlives its         *)
(* ownership gives a task two owners.                                      *)
(***************************************************************************)
OneKindOfContributor == Delegates = {} \/ Remotes = {}

(* Offers go to delegates only.                                            *)
OffersToDelegates == task.delegatedTo \in Delegates \cup {Null}

LEMMA OffersStep ==
    ASSUME TypeOK, OffersToDelegates, [Next]_vars
    PROVE  OffersToDelegates'
<1>1. task \in Tasks
  BY DEF TypeOK
<1>2. ASSUME task'.delegatedTo \in {task.delegatedTo, Null}
      PROVE  OffersToDelegates'
  BY <1>2 DEF OffersToDelegates
<1>3. ASSUME NEW a, NEW count, NEW emitted,
             ClaimTask(a, count, emitted) \/ ClaimDelegatedTask(a, count, emitted)
      PROVE  OffersToDelegates'
  BY <1>1, <1>2, <1>3, Zenon DEF ClaimTask, ClaimDelegatedTask, Tasks
<1>4. ASSUME NEW p, NEW count, ClaimTaskForRemote(p, count)
      PROVE  OffersToDelegates'
  BY <1>1, <1>2, <1>4, Zenon DEF ClaimTaskForRemote, Tasks
<1>5. ASSUME NEW a, NEW b \in Delegates, DelegateTask(a, b)
      PROVE  OffersToDelegates'
  <2>1. task'.delegatedTo = b
    BY <1>1, <1>5, Zenon DEF DelegateTask, Tasks
  <2>2. QED
    BY <2>1 DEF OffersToDelegates
<1>6. ASSUME NEW a, NEW t, NEW emitted, StartTask(a, t, emitted) \/ ReleaseTask(a, t, emitted)
      PROVE  OffersToDelegates'
  BY <1>1, <1>2, <1>6, Zenon DEF StartTask, ReleaseTask, Cleared, Tasks
<1>7. ASSUME NEW p, StartTaskByRemoteParticipant(p) \/ ReleaseTaskForRemote(p)
      PROVE  OffersToDelegates'
  BY <1>1, <1>2, <1>7, Zenon DEF StartTaskByRemoteParticipant, ReleaseTaskForRemote, Cleared, Tasks
<1>8. ASSUME NEW a, NEW t, NEW S, NEW emitted, SubmitTask(a, t, S, emitted)
      PROVE  OffersToDelegates'
  BY <1>1, <1>2, <1>8, Zenon DEF SubmitTask, Tasks
<1>9. ASSUME NEW p, NEW S, NEW emitted, SubmitTaskForRemote(p, S, emitted)
      PROVE  OffersToDelegates'
  BY <1>1, <1>2, <1>9, Zenon DEF SubmitTaskForRemote, Tasks
<1>10. ASSUME NEW r, ApproveTask(r) \/ CompleteTask(r)
       PROVE  OffersToDelegates'
  BY <1>1, <1>2, <1>10, Zenon DEF ApproveTask, TerminalApprove, CompleteTask, Tasks
<1>11. ASSUME NEW r, NEW p, NEW emission, RejectTask(r, p, emission)
       PROVE  OffersToDelegates'
  <2>1. ASSUME NEW spent, RetryTrigger(p, spent)
        PROVE  OffersToDelegates'
    BY <1>1, <1>2, <2>1, Zenon DEF RetryTrigger, Tasks
  <2>2. QED
    BY <1>1, <1>2, <1>11, <2>1, Zenon DEF RejectTask, Tasks
<1>12. ASSUME UNCHANGED task
       PROVE  OffersToDelegates'
  BY <1>12 DEF OffersToDelegates
<1>13. ASSUME NEW r, AddReviewer(r) \/ RemoveReviewer(r)
       PROVE  OffersToDelegates'
  BY <1>12, <1>13, Zenon DEF AddReviewer, RemoveReviewer
<1>14. ASSUME NEW h, NEW n, ResolveRequirement(h, n)
       PROVE  OffersToDelegates'
  BY <1>12, <1>14, Zenon DEF ResolveRequirement
<1>15. CASE SystemRelease \/ FailWithEffects
  BY <1>1, <1>2, <1>15, Zenon DEF SystemRelease, ReleaseWithEffects, FailWithEffects, Tasks
<1>16. ASSUME NEW a, NEW byHuman, DeleteAgent(a, byHuman)
       PROVE  OffersToDelegates'
  <2>1. task'.delegatedTo = IF task.delegatedTo = a THEN Null ELSE task.delegatedTo
    BY <1>1, <1>16, Zenon DEF DeleteAgent, Tasks
  <2>2. QED
    BY <1>2, <2>1
<1>17. ASSUME NEW receipt \in ladder, NEW p, DeliverRetryLadder(receipt, p)
       PROVE  OffersToDelegates'
  BY <1>1, <1>2, <1>17, Zenon DEF DeliverRetryLadder, Tasks
<1>18. ASSUME RetryToPending
       PROVE  OffersToDelegates'
  BY <1>1, <1>2, <1>18, Zenon DEF RetryToPending, Cleared, Tasks
<1>19. ASSUME NEW p, NEW emitted, ProcessPendingRetry(p, emitted)
       PROVE  OffersToDelegates'
  <2>1. CASE EscalateClearOwner \/ RetireDueRow
    BY <1>1, <1>2, <2>1, Zenon DEF EscalateClearOwner, RetireDueRow, Cleared, Tasks
  <2>2. QED
    BY <1>18, <1>19, <2>1, Zenon DEF ProcessPendingRetry
<1>20. ASSUME NEW emitted, ManualRetryByAgent(emitted) \/ ManualRetryByHuman(emitted)
       PROVE  OffersToDelegates'
  BY <1>18, <1>20, Zenon DEF ManualRetryByAgent, ManualRetryByHuman
<1>21. CASE UNCHANGED vars
  BY <1>12, <1>21 DEF vars
<1>22. QED
  BY <1>3, <1>4, <1>5, <1>6, <1>7, <1>8, <1>9, <1>10, <1>11, <1>13, <1>14, <1>15, <1>16,
     <1>17, <1>19, <1>20, <1>21, Zenon
  DEF Next, SystemFail, FailTask

-----------------------------------------------------------------------------
(* One owner at most, an owner exactly while the task is held or final, the*)
(* claimant of the requirement the same as the owner of the row.           *)
Owners ==
    /\ OneOwner
    /\ OwnedIffHeld
    /\ ClaimantIsOwner
    /\ task.status = "failed" => ~Owned

(* What a step does to ownership and evidence, whatever its handler.       *)
SameOwner == task'.assigned = task.assigned /\ task'.remote = task.remote
OwnedBy(h) == \/ task.assigned = h /\ task.remote = Null
              \/ task.assigned = Null /\ task.remote = h
IsFinal == task.status \in {"approved", "done"}

Begins ==
    /\ \E h \in Claimants : OwnedBy(h)' /\ req'.claimant = h
    /\ req'.generation = req.generation + 1
    /\ claims' = claims + 1
    /\ decisions' = decisions
    /\ task.status \in {"pending", "claimed", "in_progress"}
    /\ task'.status = "claimed"

Ends ==
    /\ Owned
    /\ task'.assigned = Null /\ task'.remote = Null /\ req'.claimant = Null
    /\ req'.generation = req.generation + 1
    /\ UNCHANGED <<claims, decisions>>
    /\ task'.status \notin Holding
    /\ IsFinal' <=> IsFinal

Judges ==
    /\ SameOwner
    /\ UNCHANGED <<req, claims>>
    /\ task.status = "submitted" /\ task'.status \in {"submitted", "rejected"}
    /\ \E r \in Reviewers \ {task.assigned, task.remote}, verdict \in {"approved", "rejected"} :
          decisions' = [decisions EXCEPT ![r] = Decision(verdict)]

Accepts ==
    /\ SameOwner
    /\ req' \in {req, StampApproved(req)}
    /\ claims' = claims
    /\ task.status = "submitted" /\ IsFinal'
    /\ \/ decisions' = decisions
       \/ \E r \in Reviewers \ {task.assigned, task.remote} :
             decisions' = [decisions EXCEPT ![r] = Decision("approved")]

Stays ==
    /\ SameOwner
    /\ req'.claimant = req.claimant /\ req'.generation = req.generation
    /\ UNCHANGED <<claims, decisions>>
    /\ \/ task'.status = task.status
       \/ task.status \in Holding /\ task'.status \in Holding
       \/ IsFinal /\ IsFinal'
       \/ task.status = "failed" /\ task'.status = "pending"

OwnershipMoves == Begins \/ Ends \/ Judges \/ Accepts \/ Stays

LEMMA StepMovesOwnership ==
    ASSUME OneKindOfContributor, TypeOK, OffersToDelegates, Owners, [Next]_vars
    PROVE  OwnershipMoves
<1>1. /\ task \in Tasks /\ req \in Requirements
      /\ task.assigned \in Agents \cup {Null} /\ task.remote \in Remotes \cup {Null}
      /\ Null \notin Agents /\ Null \notin Remotes
  BY NullAssumption DEF TypeOK, Tasks
<1>2. ASSUME NEW h \in Claimants, NEW count \in Nat,
             OwnedBy(h)', BeginPeriod(h, count), decisions' = decisions,
             task.status \in {"pending", "claimed", "in_progress"}, task'.status = "claimed"
      PROVE  Begins
  <2>1. req'.generation = req.generation + 1 /\ req'.claimant = h /\ claims' = claims + 1
    BY <1>1, <1>2, CapturedPolicyType, Zenon DEF BeginPeriod, CaptureOnClaim, Requirements
  <2>2. QED
    BY <1>2, <2>1 DEF Begins
<1>3. ASSUME NEW a \in Agents, NEW count \in PolicyCounts, NEW emitted,
             ClaimTask(a, count, emitted)
      PROVE  Begins
  <2>1. /\ task'.assigned = a /\ task'.remote = task.remote /\ task'.status = "claimed"
        /\ task.status = "pending"
    BY <1>1, <1>3, Zenon DEF ClaimTask, Tasks
  <2>2. task.remote = Null
    BY <1>3 DEF ClaimTask, Owned
  <2>3. QED
    BY <1>2, <1>3, <2>1, <2>2, CountsAssumption, Zenon DEF ClaimTask, OwnedBy, Claimants
<1>4. ASSUME NEW p \in Remotes, NEW count \in PolicyCounts, ClaimTaskForRemote(p, count)
      PROVE  Begins
  <2>1. /\ task'.assigned = task.assigned /\ task'.remote = p /\ task'.status = "claimed"
        /\ task.status = "pending"
    BY <1>1, <1>4, Zenon DEF ClaimTaskForRemote, Tasks
  <2>2. task.assigned = Null
    BY <1>4 DEF ClaimTaskForRemote, Owned
  <2>3. QED
    BY <1>2, <1>4, <2>1, <2>2, CountsAssumption, Zenon DEF ClaimTaskForRemote, OwnedBy, Claimants
<1>5. ASSUME NEW b \in Agents, NEW count \in PolicyCounts, NEW emitted,
             ClaimDelegatedTask(b, count, emitted)
      PROVE  Begins
  <2>1. /\ task'.assigned = b /\ task'.remote = task.remote /\ task'.status = "claimed"
        /\ task.status \in Releasable /\ task.delegatedTo = b
    BY <1>1, <1>5, Zenon DEF ClaimDelegatedTask, Tasks
  <2>2. task.remote = Null
    BY <1>1, <2>1 DEF OneKindOfContributor, OffersToDelegates
  <2>3. task.status \in {"pending", "claimed", "in_progress"}
    BY <2>1 DEF Releasable
  <2>4. QED
    BY <1>2, <1>5, <2>1, <2>2, <2>3, CountsAssumption, Zenon
    DEF ClaimDelegatedTask, OwnedBy, Claimants
<1>6. ASSUME NEW a, NEW b, DelegateTask(a, b)
      PROVE  Stays
  BY <1>1, <1>6, Zenon DEF DelegateTask, reviewVars, Stays, SameOwner, Tasks
<1>7. ASSUME NEW a, NEW t, NEW emitted, StartTask(a, t, emitted)
      PROVE  Stays
  <2>1. /\ task.status \in {"claimed", "rejected"} /\ task'.status = "in_progress"
        /\ SameOwner /\ UNCHANGED <<claims, decisions>>
    BY <1>1, <1>7, Zenon DEF StartTask, SameOwner, Tasks
  <2>2. req'.claimant = req.claimant /\ req'.generation = req.generation
    BY <1>1, <1>7, Zenon DEF StartTask, BumpRound, Requirements
  <2>3. QED
    BY <2>1, <2>2 DEF Stays, Holding
<1>8. ASSUME NEW p, StartTaskByRemoteParticipant(p)
      PROVE  Stays
  <2>1. /\ task.status = "claimed" /\ task'.status = "in_progress"
        /\ SameOwner /\ UNCHANGED <<req, claims, decisions>>
    BY <1>1, <1>8, Zenon DEF StartTaskByRemoteParticipant, reviewVars, SameOwner, Tasks
  <2>2. QED
    BY <2>1 DEF Stays, Holding
<1>9. ASSUME NEW a, NEW t, NEW S, NEW emitted, SubmitTask(a, t, S, emitted)
      PROVE  Stays
  <2>1. /\ task.status = "in_progress" /\ task'.status = "submitted"
        /\ SameOwner /\ UNCHANGED <<req, claims, decisions>>
    BY <1>1, <1>9, Zenon DEF SubmitTask, SameOwner, Tasks
  <2>2. QED
    BY <2>1 DEF Stays, Holding
<1>10. ASSUME NEW p, NEW S, NEW emitted, SubmitTaskForRemote(p, S, emitted)
       PROVE  Stays
  <2>1. /\ task.status = "in_progress" /\ task'.status = "submitted"
        /\ SameOwner /\ UNCHANGED <<req, claims, decisions>>
    BY <1>1, <1>10, Zenon DEF SubmitTaskForRemote, SameOwner, Tasks
  <2>2. QED
    BY <2>1 DEF Stays, Holding
<1>11. ASSUME NEW r \in Reviewers, AgentMayDecide(r)
       PROVE  r \in Reviewers \ {task.assigned, task.remote}
  <2>1. r \notin Remotes /\ r # Null
    BY DisjointAssumption, NullAssumption DEF Reviewers
  <2>2. r \in Agents => task.assigned # r
    BY <1>11 DEF AgentMayDecide
  <2>3. QED
    BY <1>1, <2>1, <2>2
<1>12. ASSUME NEW r \in Reviewers, ApproveTask(r)
       PROVE  OwnershipMoves
  <2>1. /\ task.status = "submitted" /\ claims' = claims
        /\ r \in Reviewers \ {task.assigned, task.remote}
    BY <1>11, <1>12, Zenon DEF ApproveTask
  <2>2. \/ decisions' = decisions
        \/ decisions' = [decisions EXCEPT ![r] = Decision("approved")]
    BY <1>12, Zenon DEF ApproveTask, RecordApproval
  <2>3. CASE TerminalApprove
    <3>1. task'.status = "approved" /\ SameOwner /\ req' = StampApproved(req)
      BY <1>1, <2>3, Zenon DEF TerminalApprove, SameOwner, Tasks
    <3>2. QED
      BY <2>1, <2>2, <3>1 DEF OwnershipMoves, Accepts, IsFinal
  <2>4. CASE UNCHANGED <<task, req>>
    <3>1. SameOwner
      BY <2>4 DEF SameOwner
    <3>2. Judges \/ Stays
      BY <2>1, <2>2, <2>4, <3>1, Zenon DEF Judges, Stays
    <3>3. QED
      BY <3>2 DEF OwnershipMoves
  <2>5. QED
    BY <1>12, <2>3, <2>4, Zenon DEF ApproveTask
<1>13. ASSUME NEW r \in Reviewers, NEW p, NEW emission, RejectTask(r, p, emission)
       PROVE  Judges
  <2>1. task'.status = "rejected" /\ SameOwner
    <3>1. ASSUME NEW spent, RetryTrigger(p, spent)
          PROVE  task'.status = "rejected" /\ SameOwner
      BY <1>1, <3>1, Zenon DEF RetryTrigger, SameOwner, Tasks
    <3>2. QED
      BY <1>1, <1>13, <3>1, Zenon DEF RejectTask, SameOwner, Tasks
  <2>2. /\ task.status = "submitted" /\ UNCHANGED <<req, claims>>
        /\ r \in Reviewers \ {task.assigned, task.remote}
        /\ decisions' = [decisions EXCEPT ![r] = Decision("rejected")]
    BY <1>11, <1>13, Zenon DEF RejectTask
  <2>3. QED
    BY <2>1, <2>2, Zenon DEF Judges
<1>14. ASSUME NEW a, CompleteTask(a)
       PROVE  Accepts \/ Stays
  <2>1. /\ task.status \in {"submitted", "approved"} /\ task'.status = "done"
        /\ SameOwner /\ UNCHANGED <<req, claims, decisions>>
    BY <1>1, <1>14, Zenon DEF CompleteTask, reviewVars, SameOwner, Tasks
  <2>2. QED
    BY <2>1 DEF Accepts, Stays, IsFinal
<1>15. ASSUME UNCHANGED <<task, claims, decisions>>,
              req'.claimant = req.claimant, req'.generation = req.generation
       PROVE  Stays
  BY <1>15 DEF Stays, SameOwner
<1>16. ASSUME NEW r, AddReviewer(r) \/ RemoveReviewer(r)
       PROVE  Stays
  BY <1>15, <1>16, Zenon DEF AddReviewer, RemoveReviewer
<1>17. ASSUME NEW h, NEW n, ResolveRequirement(h, n)
       PROVE  Stays
  <2>1. req' = Resolve(req, n) /\ UNCHANGED <<task, claims, decisions>>
    BY <1>17 DEF ResolveRequirement
  <2>2. req'.claimant = req.claimant /\ req'.generation = req.generation
    BY <1>1, <2>1, Zenon DEF Resolve, Requirements
  <2>3. QED
    BY <1>15, <2>1, <2>2
<1>18. ASSUME Owned, task'.assigned = Null, task'.remote = Null,
              req' = EndOwnership(req, TRUE), UNCHANGED <<claims, decisions>>,
              \/ task.status \in Holding /\ task'.status \in {"pending", "failed"}
              \/ task.status \notin Holding /\ task'.status = task.status
       PROVE  Ends
  <2>1. req'.generation = req.generation + 1 /\ req'.claimant = Null
    BY <1>1, <1>18, Zenon DEF EndOwnership, Requirements
  <2>2. QED
    BY <1>18, <2>1 DEF Ends, Holding, IsFinal
<1>19. ASSUME NEW a \in Agents, NEW t, NEW emitted, ReleaseTask(a, t, emitted)
       PROVE  Ends
  <2>1. /\ task'.assigned = Null /\ task'.remote = task.remote /\ task'.status = "pending"
        /\ task.status \in Releasable /\ task.assigned = a /\ task.remote = Null
        /\ req' = EndOwnership(req, TRUE) /\ UNCHANGED <<claims, decisions>>
    BY <1>1, <1>19, Zenon DEF ReleaseTask, Cleared, Tasks
  <2>2. QED
    BY <1>1, <1>18, <2>1 DEF Owned, Releasable, Holding
<1>20. ASSUME NEW p \in Remotes, ReleaseTaskForRemote(p)
       PROVE  Ends
  <2>1. /\ task'.remote = Null /\ task'.assigned = task.assigned /\ task'.status = "pending"
        /\ task.status \in Releasable /\ task.remote = p /\ task.assigned = Null
        /\ req' = EndOwnership(req, TRUE) /\ UNCHANGED <<claims, decisions>>
    BY <1>1, <1>20, Zenon DEF ReleaseTaskForRemote, Cleared, Tasks
  <2>2. QED
    BY <1>1, <1>18, <2>1 DEF Owned, Releasable, Holding
<1>21. ASSUME task.assigned # Null, SystemRelease \/ FailWithEffects
       PROVE  Ends
  <2>1. /\ task'.assigned = Null /\ task'.remote = task.remote
        /\ task'.status \in {"pending", "failed"}
        /\ task.status \in {"claimed", "in_progress"}
        /\ req' = EndOwnership(req, task.assigned # Null)
        /\ UNCHANGED <<claims, decisions>>
    BY <1>1, <1>21, ZenonT(40) DEF SystemRelease, ReleaseWithEffects, FailWithEffects, Releasable, Tasks
  <2>2. task.remote = Null /\ (task.assigned # Null) = TRUE
    BY <1>21 DEF Owners, OneOwner
  <2>3. QED
    BY <1>18, <1>21, <2>1, <2>2 DEF Owned, Holding
<1>22. ASSUME NEW a \in Agents, NEW byHuman, DeleteAgent(a, byHuman)
       PROVE  Ends \/ Stays
  <2>1. UNCHANGED <<claims, decisions>>
    BY <1>22, Zenon DEF DeleteAgent
  <2>2. CASE task.assigned = a
    <3>1. task.remote = Null /\ req.claimant = a
      BY <1>1, <2>2 DEF Owners, OneOwner, ClaimantIsOwner, CurrentOwner
    <3>2. /\ task'.assigned = Null /\ task'.remote = task.remote
          /\ req' = EndOwnership(req, TRUE)
          /\ \/ task.status \in Releasable /\ task'.status = "pending"
             \/ task.status \notin Holding /\ task'.status = task.status
      BY <1>1, <1>22, <2>2, <3>1, ZenonT(40) DEF DeleteAgent, Tasks
    <3>3. QED
      BY <1>1, <1>18, <2>1, <2>2, <3>1, <3>2 DEF Owned, Releasable, Holding
  <2>3. CASE task.assigned # a
    BY <1>1, <1>22, <2>1, <2>3, Zenon DEF DeleteAgent, Stays, SameOwner, Tasks
  <2>4. QED
    BY <2>2, <2>3
<1>23. ASSUME task.status = "failed"
       PROVE  task.assigned = Null /\ task.remote = Null /\ req.claimant = Null
  BY <1>23 DEF Owners, Owned, ClaimantIsOwner, CurrentOwner
<1>24. ASSUME NEW receipt \in ladder, NEW p, DeliverRetryLadder(receipt, p)
       PROVE  Stays
  <2>1. UNCHANGED <<req, claims, decisions>>
    BY <1>24, Zenon DEF DeliverRetryLadder, reviewVars
  <2>2. CASE task.status = "failed"
            /\ task' = [task EXCEPT !.assigned = Null, !.nextRetry = FALSE, !.token = Null]
    <3>1. task'.status = task.status /\ SameOwner
      BY <1>1, <1>23, <2>2, Zenon DEF SameOwner, Tasks
    <3>2. QED
      BY <2>1, <3>1 DEF Stays
  <2>3. CASE task' = [task EXCEPT !.nextRetry = TRUE]
    <3>1. task'.status = task.status /\ SameOwner
      BY <1>1, <2>3, Zenon DEF SameOwner, Tasks
    <3>2. QED
      BY <2>1, <3>1 DEF Stays
  <2>4. QED
    BY <1>15, <1>24, <2>1, <2>2, <2>3, Zenon DEF DeliverRetryLadder
<1>25. ASSUME req' = EndOwnership(req, Owned), UNCHANGED <<claims, decisions>>,
              task'.assigned = Null, task'.remote = Null,
              \/ task.status = "rejected" /\ task'.status = "pending"
              \/ task.status = "failed" /\ task'.status \in {"pending", "failed"}
       PROVE  Ends \/ Stays
  <2>1. CASE task.status = "rejected"
    <3>1. Owned = TRUE
      BY <2>1 DEF Owners, OwnedIffHeld, Holding, Owned
    <3>2. QED
      BY <1>18, <1>25, <2>1, <3>1 DEF Holding
  <2>2. CASE task.status = "failed"
    <3>1. Owned = FALSE
      BY <1>23, <2>2 DEF Owned
    <3>2. req'.claimant = Null /\ req'.generation = req.generation
      BY <1>1, <1>25, <3>1, Zenon DEF EndOwnership, Requirements
    <3>3. QED
      BY <1>23, <1>25, <2>2, <3>2 DEF Stays, SameOwner
  <2>3. QED
    BY <1>25, <2>1, <2>2
<1>26. ASSUME RetryToPending, task.status \in {"rejected", "failed"},
              UNCHANGED <<claims, decisions>>
       PROVE  Ends \/ Stays
  <2>1. /\ task'.assigned = Null /\ task'.remote = Null /\ task'.status = "pending"
        /\ req' = EndOwnership(req, Owned)
    BY <1>1, <1>26, Zenon DEF RetryToPending, Cleared, Tasks
  <2>2. QED
    BY <1>25, <1>26, <2>1
<1>27. ASSUME NEW p, NEW emitted, ProcessPendingRetry(p, emitted)
       PROVE  Ends \/ Stays
  <2>1. task.status \in {"rejected", "failed"} /\ UNCHANGED <<claims, decisions>>
    BY <1>27, Zenon DEF ProcessPendingRetry
  <2>2. CASE EscalateClearOwner /\ task.status = "failed"
    <3>1. /\ task'.assigned = Null /\ task'.remote = Null /\ task'.status = "failed"
          /\ req' = EndOwnership(req, Owned)
      BY <1>1, <2>2, Zenon DEF EscalateClearOwner, Cleared, Tasks
    <3>2. QED
      BY <1>25, <2>1, <2>2, <3>1
  <2>3. CASE RetireDueRow
    BY <1>1, <2>1, <2>3, Zenon DEF RetireDueRow, Stays, SameOwner, Tasks
  <2>4. QED
    BY <1>26, <1>27, <2>1, <2>2, <2>3, Zenon DEF ProcessPendingRetry
<1>28. ASSUME NEW emitted, ManualRetryByAgent(emitted) \/ ManualRetryByHuman(emitted)
       PROVE  Ends \/ Stays
  <2>1. /\ RetryToPending /\ task.status \in {"rejected", "failed"}
        /\ UNCHANGED <<claims, decisions>>
    BY <1>28, Zenon DEF ManualRetryByAgent, ManualRetryByHuman
  <2>2. QED
    BY <1>26, <2>1
<1>29. CASE UNCHANGED vars
  BY <1>15, <1>29 DEF vars, OwnershipMoves
<1>30. ASSUME NEW a \in Agents, NEW t, FailTask(a, t)
       PROVE  Ends
  <2>1. task.assigned # Null
    BY <1>1, <1>30 DEF FailTask
  <2>2. QED
    BY <1>21, <1>30, <2>1 DEF FailTask
<1>31. CASE SystemRelease \/ SystemFail
  BY <1>21, <1>31, Zenon DEF SystemRelease, SystemFail, OwnershipMoves
<1>32. QED
  BY <1>3, <1>4, <1>5, <1>6, <1>7, <1>8, <1>9, <1>10, <1>12, <1>13, <1>14, <1>16, <1>17,
     <1>19, <1>20, <1>22, <1>24, <1>27, <1>28, <1>29, <1>30, <1>31, Zenon
  DEF Next, OwnershipMoves

LEMMA OwnersStep ==
    ASSUME TypeOK, Owners, OwnershipMoves
    PROVE  Owners'
<1> USE DEF Owners, OneOwner, OwnedIffHeld, ClaimantIsOwner, CurrentOwner, Owned, Holding
<1>1. task.assigned \in Agents \cup {Null} /\ task.remote \in Remotes \cup {Null}
  BY DEF TypeOK, Tasks
<1>2. CASE Begins
  <2>1. PICK h \in Claimants : OwnedBy(h)' /\ req'.claimant = h
    BY <1>2 DEF Begins
  <2>2. h # Null
    BY NullAssumption DEF Claimants
  <2>3. QED
    BY <1>2, <2>1, <2>2 DEF Begins, OwnedBy
<1>3. CASE Ends
  BY <1>3 DEF Ends
<1>4. CASE Judges
  BY <1>4 DEF Judges, SameOwner
<1>5. CASE Accepts
  <2>1. req'.claimant = req.claimant
    BY <1>5, Zenon DEF Accepts, StampApproved, TypeOK, Requirements
  <2>2. QED
    BY <1>5, <2>1 DEF Accepts, SameOwner, IsFinal
<1>6. CASE Stays
  BY <1>6 DEF Stays, SameOwner, IsFinal
<1>7. QED
  BY <1>2, <1>3, <1>4, <1>5, <1>6 DEF OwnershipMoves

OwnersInv == TypeOK /\ OffersToDelegates /\ Owners

LEMMA OwnersInvariant == ASSUME OneKindOfContributor PROVE Spec => []OwnersInv
<1>1. Init => OffersToDelegates /\ Owners
  <2>1. Uncaptured.claimant = Null /\ PresetHistorical.claimant = Null
    BY DEF Uncaptured, PresetHistorical
  <2>2. QED
    BY <2>1
    DEF Init, NewTask, OffersToDelegates, Owners, OneOwner, OwnedIffHeld, ClaimantIsOwner,
        CurrentOwner, Owned, Holding
<1>2. OwnersInv /\ [Next]_vars => OffersToDelegates' /\ Owners'
  BY OffersStep, StepMovesOwnership, OwnersStep DEF OwnersInv
<1>3. QED
  BY <1>1, <1>2, TypeTheorem, PTL DEF Spec, OwnersInv

(* Where delegation and remote participants do not meet, a task in the pool*)
(* has no owner, a held one has one, and never two of different kinds.     *)
THEOREM ExclusiveTheorem ==
    ASSUME OneKindOfContributor PROVE Spec => []OwnershipIsExclusive
<1>1. OwnersInv => OwnershipIsExclusive
  BY DEF OwnersInv, Owners, OwnershipIsExclusive
<1>2. QED
  BY <1>1, OwnersInvariant, PTL

(* There the token of the row and the claimant of the requirement follow   *)
(* the custody of the row through every call, sweep and retry.             *)
THEOREM CustodyTheorem ==
    ASSUME OneKindOfContributor PROVE Spec => []CustodyIsHeld
<1>1. OwnersInv /\ TokenIffCustody => CustodyIsHeld
  BY DEF OwnersInv, Owners, CustodyIsHeld
<1>2. QED
  BY <1>1, OwnersInvariant, TokenTheorem, PTL

-----------------------------------------------------------------------------
(* The refinement of OwnershipPeriods                                      *)

(* A new generation leaves no decision of the old ones standing.           *)
LEMMA NewGenerationHasNoEvidence ==
    ASSUME TypeOK, EvidenceOfThisClaim, decisions' = decisions,
           req'.generation = req.generation + 1
    PROVE  StandingApprovals' = {}
<1>1. req.generation \in Nat
  BY DEF TypeOK, Requirements
<1>2. \A r \in Reviewers : decisions[r] # Null => decisions[r].generation # req'.generation
  BY <1>1 DEF TypeOK, Decisions, EvidenceOfThisClaim
<1>3. QED
  BY <1>2, Zenon DEF StandingApprovals, DecidedNow

(* A decision taken now puts its reviewer among the standing approvals, or *)
(* takes it from them.                                                     *)
LEMMA DecisionMovesEvidence ==
    ASSUME TypeOK, req'.generation = req.generation,
           NEW r \in Reviewers, NEW verdict \in {"approved", "rejected"},
           decisions' = [decisions EXCEPT ![r] = Decision(verdict)]
    PROVE  StandingApprovals' = IF verdict = "approved" THEN StandingApprovals \cup {r}
                                ELSE StandingApprovals \ {r}
<1>1. \A s \in Reviewers : decisions'[s] = IF s = r THEN Decision(verdict) ELSE decisions[s]
  BY DEF TypeOK
<1>2. /\ Decision(verdict).generation = req.generation
      /\ Decision(verdict).verdict = verdict
      /\ Decision(verdict) # Null
  <2>1. Decision(verdict).generation = req.generation /\ Decision(verdict).verdict = verdict
    BY DEF Decision
  <2>2. Decision(verdict) \in Decisions
    BY Zenon DEF Decision, Decisions, TypeOK, Requirements
  <2>3. QED
    BY <2>1, <2>2, NoDecisionAssumption
<1>3. \A s \in Reviewers :
         s \in StandingApprovals' <=> IF s = r THEN verdict = "approved" ELSE s \in StandingApprovals
  BY <1>1, <1>2 DEF StandingApprovals, DecidedNow
<1>4. StandingApprovals \subseteq Reviewers /\ StandingApprovals' \subseteq Reviewers
  BY DEF StandingApprovals
<1>5. QED
  BY <1>3, <1>4

LEMMA SameEvidence ==
    ASSUME decisions' = decisions, req'.generation = req.generation
    PROVE  StandingApprovals' = StandingApprovals
BY Zenon DEF StandingApprovals, DecidedNow

LEMMA PeriodsStep ==
    ASSUME OwnersInv, EvidenceOfThisClaim, OwnershipMoves
    PROVE  [Periods!Next]_(Periods!vars)
<1>1. /\ TypeOK /\ claims \in Nat
      /\ task.assigned \in Agents \cup {Null} /\ task.remote \in Remotes \cup {Null}
      /\ task.assigned = Null \/ task.remote = Null
      /\ task.status \in Holding => CurrentOwner # Null
      /\ Owned <=> CurrentOwner # Null
  BY DEF OwnersInv, TypeOK, Tasks, Owners, OneOwner, OwnedIffHeld, Owned, CurrentOwner
<1>2. CASE Begins
  <2>1. PICK h \in Claimants : OwnedBy(h)' /\ req'.claimant = h
    BY <1>2 DEF Begins
  <2>2. CurrentOwner' = h
    BY <2>1, NullAssumption DEF OwnedBy, CurrentOwner, Claimants
  <2>3. StandingApprovals' = {}
    BY <1>1, <1>2, NewGenerationHasNoEvidence DEF Begins
  <2>4. ~IsFinal /\ ~IsFinal' /\ claims' = claims + 1
    BY <1>2 DEF Begins, IsFinal
  <2>5. Periods!Begin(h)
    BY <2>2, <2>3, <2>4 DEF Periods!Begin, IsFinal
  <2>6. QED
    BY <2>1, <2>5 DEF Periods!Next
<1>3. CASE Ends
  <2>1. CurrentOwner # Null /\ CurrentOwner' = Null
    BY <1>1, <1>3 DEF Ends, CurrentOwner
  <2>2. StandingApprovals' = {}
    BY <1>1, <1>3, NewGenerationHasNoEvidence DEF Ends
  <2>3. Periods!End
    BY <1>3, <2>1, <2>2 DEF Periods!End, Ends, IsFinal
  <2>4. QED
    BY <2>3 DEF Periods!Next
<1>4. ASSUME SameOwner
      PROVE  CurrentOwner' = CurrentOwner
  BY <1>4 DEF SameOwner, CurrentOwner
<1>5. CASE Judges
  <2>1. PICK r \in Reviewers \ {task.assigned, task.remote}, verdict \in {"approved", "rejected"} :
           decisions' = [decisions EXCEPT ![r] = Decision(verdict)]
    BY <1>5 DEF Judges
  <2>2. /\ CurrentOwner' = CurrentOwner /\ claims' = claims
        /\ ~IsFinal /\ ~IsFinal'
        /\ CurrentOwner # Null /\ r # CurrentOwner
    BY <1>1, <1>4, <1>5, <2>1 DEF Judges, IsFinal, Holding, CurrentOwner
  <2>3. StandingApprovals' \in {StandingApprovals \cup {r}, StandingApprovals \ {r}}
    BY <1>1, <1>5, <2>1, DecisionMovesEvidence DEF Judges
  <2>4. Periods!Judge(r)
    BY <2>2, <2>3 DEF Periods!Judge, IsFinal
  <2>5. QED
    BY <2>4 DEF Periods!Next
<1>6. CASE Accepts
  <2>1. /\ CurrentOwner' = CurrentOwner /\ claims' = claims
        /\ ~IsFinal /\ IsFinal' /\ CurrentOwner # Null
    BY <1>1, <1>4, <1>6 DEF Accepts, IsFinal, Holding
  <2>2. req'.generation = req.generation
    BY <1>1, <1>6, Zenon DEF Accepts, StampApproved, TypeOK, Requirements
  <2>3. \/ StandingApprovals' = StandingApprovals
        \/ \E r \in Reviewers \ {CurrentOwner} : StandingApprovals' = StandingApprovals \cup {r}
    <3>1. CASE decisions' = decisions
      BY <2>2, <3>1, SameEvidence
    <3>2. ASSUME NEW r \in Reviewers \ {task.assigned, task.remote},
                 decisions' = [decisions EXCEPT ![r] = Decision("approved")]
          PROVE  StandingApprovals' = StandingApprovals \cup {r} /\ r # CurrentOwner
      BY <1>1, <2>2, <3>2, DecisionMovesEvidence DEF CurrentOwner
    <3>3. QED
      BY <1>6, <3>1, <3>2 DEF Accepts
  <2>4. Periods!Accept
    BY <2>1, <2>3 DEF Periods!Accept, IsFinal
  <2>5. QED
    BY <2>4 DEF Periods!Next
<1>7. CASE Stays
  <2>1. CurrentOwner' = CurrentOwner /\ claims' = claims /\ StandingApprovals' = StandingApprovals
    BY <1>4, <1>7, SameEvidence DEF Stays
  <2>2. (task'.status \in {"approved", "done"}) = (task.status \in {"approved", "done"})
    BY <1>7 DEF Stays, IsFinal, Holding
  <2>3. QED
    BY <2>1, <2>2 DEF Periods!vars
<1>8. QED
  BY <1>2, <1>3, <1>5, <1>6, <1>7 DEF OwnershipMoves

(* Where delegation and remote participants do not meet, the task service  *)
(* implements OwnershipPeriods: however an ownership ends or moves on, the *)
(* approvals given to it are evidence for nobody else's work.              *)
THEOREM PeriodsTheorem ==
    ASSUME OneKindOfContributor PROVE Spec => ImplementsPeriods
<1>1. Init => EvidenceOfThisClaim
  BY DEF Init, EvidenceOfThisClaim
<1>2. TypeOK /\ EvidenceOfThisClaim /\ [Next]_vars => EvidenceOfThisClaim'
  BY EvidenceStep
<1>3. Init => Periods!Init
  BY DEF Init, NewTask, Periods!Init, CurrentOwner, StandingApprovals, DecidedNow
<1>4. OwnersInv /\ EvidenceOfThisClaim /\ [Next]_vars => [Periods!Next]_(Periods!vars)
  BY StepMovesOwnership, PeriodsStep DEF OwnersInv
<1>5. QED
  BY <1>1, <1>2, <1>3, <1>4, OwnersInvariant, TypeTheorem, PTL
  DEF Spec, ImplementsPeriods, Periods!Spec

-----------------------------------------------------------------------------
(* Finality is earned                                                      *)

(* Only an approval or a completion makes a task final.                    *)
LEMMA OnlyReviewFinishes ==
    ASSUME TypeOK, [Next]_vars,
           task'.status \in FinalStatuses, task'.status # task.status
    PROVE  (\E r \in Reviewers : ApproveTask(r)) \/ (\E a \in Agents : CompleteTask(a))
<1>1. task \in Tasks
  BY DEF TypeOK
<1>2. ~ \/ task'.status \in {"pending", "claimed", "in_progress", "submitted", "rejected", "failed"}
        \/ task'.status = task.status
  BY DEF FinalStatuses
<1> USE <1>1, <1>2
<1>3. ASSUME NEW a, NEW count, NEW emitted,
             ClaimTask(a, count, emitted) \/ ClaimDelegatedTask(a, count, emitted)
      PROVE  FALSE
  BY <1>3, Zenon DEF ClaimTask, ClaimDelegatedTask, Tasks
<1>4. ASSUME NEW p, NEW count, ClaimTaskForRemote(p, count)
      PROVE  FALSE
  BY <1>4, Zenon DEF ClaimTaskForRemote, Tasks
<1>5. ASSUME NEW a, NEW b, DelegateTask(a, b)
      PROVE  FALSE
  BY <1>5, Zenon DEF DelegateTask, Tasks
<1>6. ASSUME NEW a, NEW t, NEW emitted, StartTask(a, t, emitted) \/ ReleaseTask(a, t, emitted)
      PROVE  FALSE
  BY <1>6, Zenon DEF StartTask, ReleaseTask, Cleared, Tasks
<1>7. ASSUME NEW p, StartTaskByRemoteParticipant(p) \/ ReleaseTaskForRemote(p)
      PROVE  FALSE
  BY <1>7, Zenon DEF StartTaskByRemoteParticipant, ReleaseTaskForRemote, Cleared, Tasks
<1>8. ASSUME NEW a, NEW t, NEW S, NEW emitted, SubmitTask(a, t, S, emitted)
      PROVE  FALSE
  BY <1>8, Zenon DEF SubmitTask, Tasks
<1>9. ASSUME NEW p, NEW S, NEW emitted, SubmitTaskForRemote(p, S, emitted)
      PROVE  FALSE
  BY <1>9, Zenon DEF SubmitTaskForRemote, Tasks
<1>10. ASSUME NEW r, NEW p, NEW emission, RejectTask(r, p, emission)
       PROVE  FALSE
  <2>1. ASSUME NEW spent, RetryTrigger(p, spent)
        PROVE  FALSE
    BY <2>1, Zenon DEF RetryTrigger, Tasks
  <2>2. QED
    BY <1>10, <2>1, Zenon DEF RejectTask, Tasks
<1>11. ASSUME NEW r, AddReviewer(r) \/ RemoveReviewer(r)
       PROVE  FALSE
  BY <1>11, Zenon DEF AddReviewer, RemoveReviewer
<1>12. ASSUME NEW h, NEW n, ResolveRequirement(h, n)
       PROVE  FALSE
  BY <1>12, Zenon DEF ResolveRequirement
<1>13. ASSUME SystemRelease \/ FailWithEffects
       PROVE  FALSE
  BY <1>13, Zenon DEF SystemRelease, ReleaseWithEffects, FailWithEffects, Tasks
<1>14. ASSUME NEW a, NEW byHuman, DeleteAgent(a, byHuman)
       PROVE  FALSE
  BY <1>14, Zenon DEF DeleteAgent, Tasks
<1>15. ASSUME NEW receipt \in ladder, NEW p, DeliverRetryLadder(receipt, p)
       PROVE  FALSE
  BY <1>15, Zenon DEF DeliverRetryLadder, Tasks
<1>16. ASSUME RetryToPending
       PROVE  FALSE
  BY <1>16, Zenon DEF RetryToPending, Cleared, Tasks
<1>17. ASSUME NEW p, NEW emitted, ProcessPendingRetry(p, emitted)
       PROVE  FALSE
  <2>1. ASSUME EscalateClearOwner \/ RetireDueRow
        PROVE  FALSE
    BY <2>1, Zenon DEF EscalateClearOwner, RetireDueRow, Cleared, Tasks
  <2>2. QED
    BY <1>16, <1>17, <2>1, Zenon DEF ProcessPendingRetry
<1>18. ASSUME NEW emitted, ManualRetryByAgent(emitted) \/ ManualRetryByHuman(emitted)
       PROVE  FALSE
  BY <1>16, <1>18, Zenon DEF ManualRetryByAgent, ManualRetryByHuman
<1>19. ~UNCHANGED vars
  BY Zenon DEF vars
<1>20. QED
  BY <1>3, <1>4, <1>5, <1>6, <1>7, <1>8, <1>9, <1>10, <1>11, <1>12, <1>13, <1>14, <1>15,
     <1>17, <1>18, <1>19, Zenon
  DEF Next, SystemFail, FailTask

(* Fresh finality of the committed decisions is what the code evaluates;   *)
(* an approval that is final by prospect makes it true.                    *)
LEMMA ApprovalMakesFinal ==
    ASSUME OwnersInv, RequirementInv, NEW r \in Reviewers, ApproveTask(r), task'.status # task.status
    PROVE  Final(req, rows, decisions)'
<1>1. /\ task \in Tasks /\ req \in Requirements /\ Coherent(req)
      /\ rows \in [Reviewers -> RowStates]
      /\ decisions \in [Reviewers -> Decisions \cup {Null}]
  BY DEF OwnersInv, RequirementInv, TypeOK
<1>2. req' = StampApproved(req)
  BY <1>1, Zenon DEF ApproveTask, TerminalApprove
<1>3. /\ req'.state = req.state /\ req'.effective = req.effective /\ req'.floor = req.floor
      /\ req'.claimant = req.claimant /\ req'.generation = req.generation
      /\ req'.round = req.round
  BY <1>1, <1>2, Zenon DEF StampApproved, Requirements
<1>4. ~Unresolved(req) /\ ~Unresolved(req')
  BY <1>3, Zenon DEF ApproveTask, Unresolved
<1>5. CASE Assigned(rows) = {} /\ req.state = "known_zero" /\ UNCHANGED <<rows, decisions>>
  <2>1. Assigned(rows') = {}
    BY <1>5
  <2>2. Blocking(req', rows', decisions') = {}
    BY <2>1, Zenon DEF Blocking, ProjectedAs
  <2>3. QED
    BY <1>3, <1>4, <1>5, <2>2 DEF Final
<1>6. CASE /\ rows[r] # "none"
           /\ Projection(req, rows, decisions, r) # "ineligible"
           /\ RecordApproval(r)
           /\ WouldBeFinal(req, rows, decisions, r)
  <2>1. Projection(req', rows', decisions', r) = "approved" /\ rows'[r] # "none"
    <3>1. r # req.claimant
      BY <1>6 DEF Projection
    <3>2. CASE Projection(req, rows, decisions, r) = "approved"
      <4>1. UNCHANGED <<rows, decisions>>
        BY <1>6, <3>2 DEF RecordApproval
      <4>2. QED
        BY <1>3, <1>6, <3>1, <3>2, <4>1 DEF Projection, DecidedNow
    <3>3. CASE Projection(req, rows, decisions, r) # "approved"
      <4>1. /\ decisions'[r] = Decision("approved")
            /\ rows'[r] = "approved"
        BY <1>1, <1>6, <3>3 DEF RecordApproval
      <4>2. Decision("approved").generation = req.generation
            /\ Decision("approved").verdict = "approved"
        BY DEF Decision
      <4>3. Decision("approved") \in Decisions
        BY Zenon DEF Decision, Decisions, OwnersInv, TypeOK, Requirements
      <4>4. QED
        BY <1>3, <3>1, <4>1, <4>2, <4>3, NoDecisionAssumption DEF Projection, DecidedNow
    <3>4. QED
      BY <3>2, <3>3
  <2>2. \A s \in Reviewers \ {r} :
           /\ rows'[s] = rows[s]
           /\ Projection(req', rows', decisions', s) = Projection(req, rows, decisions, s)
    <3>1. \A s \in Reviewers \ {r} : rows'[s] = rows[s] /\ decisions'[s] = decisions[s]
      BY <1>1, <1>6 DEF RecordApproval
    <3>2. QED
      BY <1>3, <3>1 DEF Projection, DecidedNow
  <2>3. Blocking(req', rows', decisions') = {}
    BY <1>6, <2>1, <2>2, Zenon DEF WouldBeFinal, Blocking, ProjectedAs, Assigned
  <2>4. Approvals(req', rows', decisions') = Approvals(req, rows, decisions) \cup {r}
    BY <1>6, <2>1, <2>2, Zenon DEF Approvals, ProjectedAs, Assigned
  <2>5. req.state = "known_zero" \/ (req.state = "required" /\ req.effective \in Nat)
    BY <1>1, <1>4 DEF Coherent, Unresolved, Requirements, RequirementStates
  <2>6. QED
    BY <1>3, <1>4, <1>6, <2>3, <2>4, <2>5, NullAssumption DEF Final, WouldBeFinal, OrZero
<1>7. QED
  BY <1>5, <1>6, Zenon DEF ApproveTask

(* Among the states that the invariants allow, a final projection is backed*)
(* by approvals of this ownership period, as many as the policies ask for. *)
LEMMA FinalIsEarned ==
    OwnersInv /\ RequirementInv /\ EvidenceOfThisClaim /\ Final(req, rows, decisions) => Earned
<1>1. SUFFICES ASSUME OwnersInv, RequirementInv, EvidenceOfThisClaim, Final(req, rows, decisions)
               PROVE  Earned
  OBVIOUS
<1>2. /\ task.assigned \in Agents \cup {Null} /\ task.remote \in Remotes \cup {Null}
      /\ req \in Requirements /\ Coherent(req)
      /\ req.claimant = CurrentOwner
      /\ task.assigned = Null \/ task.remote = Null
  BY <1>1 DEF OwnersInv, TypeOK, Tasks, RequirementInv, Owners, OneOwner, ClaimantIsOwner
<1>3. ASSUME NEW r \in Reviewers, rows[r] # "none"
      PROVE  Projection(req, rows, decisions, r) \in {"ineligible", "approved"}
  <2>1. Projection(req, rows, decisions, r) \in {"ineligible", "approved", "rejected", "pending"}
    BY Zenon DEF Projection
  <2>2. Projection(req, rows, decisions, r) \notin {"pending", "rejected"}
    BY <1>1, <1>3, Zenon DEF Final, Blocking, ProjectedAs, Assigned
  <2>3. QED
    BY <2>1, <2>2
<1>4. ASSUME NEW r \in Reviewers, rows[r] # "none",
             Projection(req, rows, decisions, r) = "approved"
      PROVE  r \in Backers
  <2>1. r # req.claimant /\ DecidedNow(req, decisions, r) /\ decisions[r].verdict = "approved"
    BY <1>4 DEF Projection
  <2>2. r # Null
    BY NullAssumption DEF Reviewers
  <2>3. r \notin {task.assigned, task.remote}
    BY <1>2, <2>1, <2>2 DEF CurrentOwner
  <2>4. decisions[r].claim = claims
    BY <1>1, <2>1 DEF EvidenceOfThisClaim, DecidedNow
  <2>5. QED
    BY <1>4, <2>1, <2>3, <2>4 DEF Backers, DecidedNow
<1>5. \A r \in Reviewers : rows[r] # "none" => r \in Backers \cup {task.assigned, task.remote}
  <2>1. SUFFICES ASSUME NEW r \in Reviewers, rows[r] # "none",
                        Projection(req, rows, decisions, r) = "ineligible"
                 PROVE  r \in {task.assigned, task.remote}
    BY <1>3, <1>4
  <2>2. r = req.claimant
    BY <2>1 DEF Projection, DecidedNow
  <2>3. QED
    BY <1>2, <2>2 DEF CurrentOwner
<1>6. /\ Cardinality(Backers) \in Nat
      /\ Cardinality(Approvals(req, rows, decisions)) \in Nat
      /\ Cardinality(Approvals(req, rows, decisions)) <= Cardinality(Backers)
  <2>1. IsFiniteSet(Reviewers)
    BY FS_Union, FiniteAssumption, Zenon DEF Reviewers
  <2>2. Backers \in SUBSET Reviewers
    BY DEF Backers
  <2>3. IsFiniteSet(Backers)
    BY <2>1, <2>2, FS_Subset, Zenon
  <2>4. Approvals(req, rows, decisions) \in SUBSET Backers
    BY <1>4, Zenon DEF Approvals, ProjectedAs, Assigned
  <2>5. IsFiniteSet(Approvals(req, rows, decisions))
        /\ Cardinality(Approvals(req, rows, decisions)) <= Cardinality(Backers)
    BY <2>3, <2>4, FS_Subset, Zenon
  <2>6. QED
    BY <2>3, <2>5, FS_CardinalityType, Zenon
<1>7. Cardinality(Backers) >= IF req.activeOverride # Null THEN req.effective ELSE Baseline(req)
  <2>1. CASE req.state = "known_zero"
    <3>1. req.activeOverride = Null /\ Baseline(req) = 0
      BY <1>2, <2>1 DEF Coherent, Baseline, OrZero, Larger
    <3>2. QED
      BY <1>6, <3>1
  <2>2. CASE /\ req.state = "required"
             /\ Cardinality(Approvals(req, rows, decisions))
                  >= IF req.effective # Null THEN req.effective ELSE OrZero(req.floor)
    <3>1. /\ req.effective \in Nat
          /\ req.activeOverride \in {Null, req.generation}
          /\ req.effective < Baseline(req) => req.activeOverride = req.generation
          /\ req.generation \in Nat
      BY <1>2, <2>2 DEF Coherent, Requirements
    <3>2. Baseline(req) \in Nat
      BY <1>2, BaselineType
    <3>3. req.activeOverride = Null => req.effective >= Baseline(req)
      BY <3>1, <3>2, NullAssumption
    <3>4. Cardinality(Backers) >= req.effective
      BY <1>6, <2>2, <3>1, NullAssumption
    <3>5. QED
      BY <1>6, <3>1, <3>2, <3>3, <3>4
  <2>3. QED
    BY <1>1, <2>1, <2>2 DEF Final
<1>8. QED
  BY <1>1, <1>5, <1>7 DEF Earned, Final

(* Where delegation and remote participants do not meet, a task becomes    *)
(* approved or done only when every assigned reviewer but its owner        *)
(* approved it in this ownership period, and there are as many of them as  *)
(* the policies seen so far ask for, or as a human allowed.                *)
THEOREM FinalityTheorem ==
    ASSUME OneKindOfContributor PROVE Spec => FinalityIsEarned
<1>1. Init => EvidenceOfThisClaim
  BY DEF Init, EvidenceOfThisClaim
<1>2. TypeOK /\ EvidenceOfThisClaim /\ [Next]_vars => EvidenceOfThisClaim'
  BY EvidenceStep
<1>3. ASSUME OwnersInv, RequirementInv, [Next]_vars,
             task'.status \in FinalStatuses, task'.status # task.status
      PROVE  Final(req, rows, decisions)'
  <2>1. CASE \E r \in Reviewers : ApproveTask(r)
    BY <1>3, <2>1, ApprovalMakesFinal
  <2>2. CASE \E a \in Agents : CompleteTask(a)
    <3>1. Final(req, rows, decisions) /\ UNCHANGED <<req, rows, decisions>>
      BY <2>2, Zenon DEF CompleteTask, reviewVars
    <3>2. QED
      BY <3>1
  <2>3. QED
    BY <1>3, <2>1, <2>2, OnlyReviewFinishes DEF OwnersInv
<1>4. OwnersInv' /\ RequirementInv' /\ EvidenceOfThisClaim' /\ Final(req, rows, decisions)' => Earned'
  BY FinalIsEarned, PTL
<1>5. /\ OwnersInv /\ RequirementInv /\ OwnersInv' /\ RequirementInv' /\ EvidenceOfThisClaim'
      /\ [Next]_vars
      => [task'.status \in {"approved", "done"} /\ task'.status # task.status => Earned']_vars
  BY <1>3, <1>4 DEF FinalStatuses
<1>6. QED
  BY <1>1, <1>2, <1>5, OwnersInvariant, RequirementInvariant, TypeTheorem, PTL
  DEF Spec, FinalityIsEarned


=============================================================================
