-------------------------- MODULE ReviewRequirement --------------------------
(***************************************************************************)
(* The review requirement of one task, as pure operators: what a claim     *)
(* captures, what the end of an ownership clears, how a human resolves or  *)
(* relaxes it, how assignment rows project to effective reviewer states,   *)
(* and when an approval is final.  It models repositories/reviewSafety.ts  *)
(* and the predicates of services/reviewFinalityService.ts; the state that *)
(* these operators transform belongs to TaskLifecycle.                     *)
(*                                                                         *)
(* A requirement is the row of task_review_requirements without its        *)
(* bookkeeping columns: requirement_version only detects that a resolver   *)
(* decided on a stale read, and here a resolver reads and writes in one    *)
(* step.  active_override_id points at a row of task_review_overrides; the *)
(* one column of that row the properties need is its review_generation, so *)
(* the pointer is modelled by that generation.                             *)
(***************************************************************************)
EXTENDS Naturals, FiniteSets

CONSTANTS
    Agents,     \* local agents (agents table)
    Humans,     \* human reviewers and resolvers (users table)
    Remotes,    \* remote participants
    Null        \* SQL NULL

ASSUME NullAssumption == Null \notin Nat /\ Null \notin Agents \cup Humans \cup Remotes
ASSUME DisjointAssumption ==
    /\ Agents \cap Humans = {}
    /\ Agents \cap Remotes = {}
    /\ Humans \cap Remotes = {}
ASSUME FiniteAssumption == IsFiniteSet(Agents) /\ IsFiniteSet(Humans) /\ IsFiniteSet(Remotes)

(* A reviewer slot is typed (reviewer_type, reviewer_id); a claimant too.  *)
Reviewers == Agents \cup Humans
Claimants == Agents \cup Remotes

RequirementStates == {"uncaptured", "legacy_unknown", "known_zero", "required"}

Requirements ==
    [state              : RequirementStates,
     floor              : Nat \cup {Null},        \* non_overridden_floor
     known              : Nat,                    \* known_policy_floor
     effective          : Nat \cup {Null},        \* effective_count
     generation         : Nat,                    \* review_generation
     round              : Nat,                    \* review_round
     claimant           : Claimants \cup {Null},  \* (claimant_type, claimant_id)
     approvedGeneration : Nat \cup {Null},
     activeOverride     : Nat \cup {Null}]

(* One assignment row per reviewer: its raw status, or "none".             *)
RowStates == {"none", "pending", "approved", "rejected"}

(* The latest decision of a reviewer in the append-only decision table.    *)
Decisions == [generation : Nat, round : Nat, verdict : {"approved", "rejected"}, claim : Nat]

ASSUME NoDecisionAssumption == Null \notin Decisions

Larger(m, n) == IF m >= n THEN m ELSE n
OrZero(n) == IF n = Null THEN 0 ELSE n        \* the source's "n ?? 0"

Unresolved(q) == q.state \in {"uncaptured", "legacy_unknown"}

(* The count that holds without an override.                               *)
Baseline(q) == Larger(OrZero(q.floor), q.known)

-----------------------------------------------------------------------------
(* Birth of the row, and the preset/import classification.                 *)

Uncaptured ==
    [state |-> "uncaptured", floor |-> Null, known |-> 0, effective |-> Null,
     generation |-> 0, round |-> 0, claimant |-> Null,
     approvedGeneration |-> Null, activeOverride |-> Null]

PresetHistorical == [Uncaptured EXCEPT !.state = "legacy_unknown"]

-----------------------------------------------------------------------------
(* A successful claim captures the requirement of the first matching       *)
(* review rule: count is its requiredReviews, 0 when no rule matches.      *)

(* Mutants: a claim that captures every requirement afresh, and one that   *)
(* leaves the known floor NULL.                                            *)
CaptureAfresh(q, count) ==
    [q EXCEPT !.state = IF count = 0 THEN "known_zero" ELSE "required",
              !.floor = count, !.effective = count]
CaptureLeavesNull(q, count) == [CaptureAfresh(q, count) EXCEPT !.known = Null]

CapturedPolicy(q, count) ==
    CASE q.state = "uncaptured" ->
           [q EXCEPT !.state = IF count = 0 THEN "known_zero" ELSE "required",
                     !.floor = count, !.known = 0, !.effective = count]
      [] q.state = "legacy_unknown" ->
           [q EXCEPT !.known = Larger(q.known, count)]
      [] q.state = "known_zero" ->
           [q EXCEPT !.state = IF count > 0 THEN "required" ELSE "known_zero",
                     !.floor = count, !.effective = count]
      [] q.state = "required" ->
           LET floor == Larger(OrZero(q.floor), count)
           IN  [q EXCEPT !.floor = floor, !.effective = Larger(floor, q.known)]

(* Mutant: a claim that opens no new generation.                           *)
CaptureKeepsGeneration(q, count, claimant) ==
    [CapturedPolicy(q, count) EXCEPT
        !.round = 0, !.claimant = claimant,
        !.approvedGeneration = Null, !.activeOverride = Null]

CaptureOnClaim(q, count, claimant) ==
    [CapturedPolicy(q, count) EXCEPT
        !.generation = q.generation + 1,
        !.round = 0,
        !.claimant = claimant,
        !.approvedGeneration = Null,
        !.activeOverride = Null]

(* Mutants: an end that only advances the generation, and one that only    *)
(* drops the proof and the override.                                       *)
EndOnlyAdvances(q, advance) ==
    [q EXCEPT !.claimant = Null,
              !.generation = IF advance THEN q.generation + 1 ELSE q.generation]
EndOnlyInvalidates(q, advance) ==
    [q EXCEPT !.approvedGeneration = Null, !.activeOverride = Null]

(* The end of an ownership: claimant, proof and override go, the effective *)
(* count returns to the baseline at once, the generation advances iff an   *)
(* owner actually ended.  The round is left to the next capture.           *)
EndOwnership(q, advance) ==
    [q EXCEPT
        !.claimant = Null,
        !.approvedGeneration = Null,
        !.activeOverride = Null,
        !.effective = CASE q.state = "required"   -> Baseline(q)
                        [] q.state = "known_zero" -> 0
                        [] OTHER                  -> Null,
        !.generation = IF advance THEN q.generation + 1 ELSE q.generation]

(* Mutant: a rework in the round it answers.                               *)
SameRound(q) == q

BumpRound(q) == [q EXCEPT !.round = q.round + 1]

StampApproved(q) == [q EXCEPT !.approvedGeneration = q.generation]

-----------------------------------------------------------------------------
(* Human resolution of an unknown requirement, or relaxation of a baseline *)

CanResolve(q, n) ==
    \/ q.state = "legacy_unknown"
    \/ q.state = "required" /\ n < Baseline(q)

Resolve(q, n) ==
    IF q.state = "legacy_unknown"
    THEN [q EXCEPT !.state = IF Larger(n, q.known) = 0 THEN "known_zero" ELSE "required",
                   !.floor = n,
                   !.effective = Larger(n, q.known),
                   !.activeOverride = Null]
    ELSE [q EXCEPT !.effective = n, !.activeOverride = q.generation]

-----------------------------------------------------------------------------
(* Projection of the assignment rows in the current generation             *)

Assigned(rows) == {r \in Reviewers : rows[r] # "none"}

(* Mutant: a decision query without its generation filter.                 *)
DecidedEver(q, decisions, r) == decisions[r] # Null

DecidedNow(q, decisions, r) ==
    decisions[r] # Null /\ decisions[r].generation = q.generation

Projection(q, rows, decisions, r) ==
    IF r = q.claimant THEN "ineligible"
    ELSE IF DecidedNow(q, decisions, r)
    THEN IF decisions[r].verdict = "approved" THEN "approved"
         ELSE IF decisions[r].round = q.round THEN "rejected" ELSE "pending"
    ELSE IF rows[r] = "rejected" /\ q.generation = 0 THEN "rejected" ELSE "pending"

ProjectedAs(q, rows, decisions, kind) ==
    {r \in Assigned(rows) : Projection(q, rows, decisions, r) = kind}

Blocking(q, rows, decisions) ==
    ProjectedAs(q, rows, decisions, "pending") \cup ProjectedAs(q, rows, decisions, "rejected")

Approvals(q, rows, decisions) == ProjectedAs(q, rows, decisions, "approved")

(* evaluateFinality: fresh finality of the committed decisions.            *)
Final(q, rows, decisions) ==
    /\ ~Unresolved(q)
    /\ Blocking(q, rows, decisions) = {}
    /\ \/ q.state = "known_zero"
       \/ /\ q.state = "required"
          /\ Cardinality(Approvals(q, rows, decisions))
                >= IF q.effective # Null THEN q.effective ELSE OrZero(q.floor)

(* Mutant: an approval that is final by its quorum alone.                  *)
QuorumAlone(q, rows, decisions, r) ==
    Cardinality(Approvals(q, rows, decisions) \cup {r}) >= OrZero(q.effective)

(* The prospective finality of an approval by r, before it is recorded.    *)
WouldBeFinal(q, rows, decisions, r) ==
    /\ Blocking(q, rows, decisions) \subseteq {r}
    /\ \/ q.state = "known_zero"
       \/ Cardinality(Approvals(q, rows, decisions) \cup {r}) >= OrZero(q.effective)

=============================================================================
