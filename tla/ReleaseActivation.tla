-------------------------- MODULE ReleaseActivation --------------------------
(* Findings are routed to corrective Missions, which wait behind a release    *)
(* gate or are activated by hand.  When a Release is detected, one epoch      *)
(* freezes the groups it may activate and the number of Findings it may       *)
(* activate; each group is then activated or deferred in a transaction of its *)
(* own, and four projections tell about the result.  Several detections of    *)
(* one Release, in processes that share the database, run at once, fail       *)
(* anywhere, and are delivered again.                                         *)
EXTENDS Integers, Sequences, FiniteSets

CONSTANTS
  Findings, Releases, Gates, Workers,
  Order,       \* the Missions, oldest first
  Link,        \* the Mission each Finding is linked to at first, or NoMission
  Met,         \* the gates a Release satisfies
  Deadlined,   \* the Missions whose deadline a Release is
  Caps,        \* caps a habitat may have configured; NoCap is none
  MaxFaults,   \* bound: passes that end early
  MaxEdits     \* bound: Missions started, ended or given another gate

NoMission == "none"
NoGate == "none"
NoRelease == "none"
NoCap == -1
Missions == {Order[i] : i \in DOMAIN Order}

VARIABLES
  finding,   \* status, corrective Mission and release attribution of each Finding
  mission,   \* state and release gate of each corrective Mission
  epoch,     \* the activation epoch of each Release
  proj,      \* what each projection of a Release produced, or Pending
  work,      \* the detections that run
  faults, edits

vars == <<finding, mission, epoch, proj, work, faults, edits>>

Kinds == <<"deadline", "notify", "pulse", "shipped">>
Pending == [count |-> -1, missed |-> -1]
Absent == [made |-> FALSE, done |-> FALSE, cap |-> NoCap, groups |-> << >>]
Idle == [release |-> NoRelease, at |-> 0, left |-> {}, count |-> -1, missed |-> -1, loaded |-> FALSE]
(* A Finding ends resolved or wontfix; nothing is activated under a Mission  *)
(* that is over, an archived one included.                                   *)
Ended == {"ended"}
Over == {"done", "failed"}

Live(m) == {f \in Findings : finding[f].mission = m /\ finding[f].status \notin Ended}
Attributed(r) == {f \in Findings : finding[f].release = r}
Frozen(r) == DOMAIN epoch[r].groups
Activated(e) == {m \in DOMAIN e.groups : e.groups[m].disposition = "activated"}
(* The passes take the groups of an epoch from the oldest Mission on.        *)
IsFirst(m, S) ==
  \E i \in DOMAIN Order : Order[i] = m /\ \A j \in 1..(i - 1) : Order[j] \notin S

Init ==
  /\ finding = [f \in Findings |->
       [status |-> IF Link[f] = NoMission THEN "open" ELSE "triaged", mission |-> Link[f],
        release |-> NoRelease, plain |-> FALSE]]
  /\ \E gate \in Gates : mission = [m \in Missions |->
       IF \E f \in Findings : Link[f] = m THEN [state |-> "not_started", gate |-> gate]
                                          ELSE [state |-> "absent", gate |-> NoGate]]
  /\ epoch = [r \in Releases |-> Absent]
  /\ proj = [r \in Releases |-> [k \in 1..Len(Kinds) |-> Pending]]
  /\ work = [w \in Workers |-> Idle] /\ faults = 0 /\ edits = 0

(***************************************************************************)
(* Routing and activation of Findings                                      *)
(***************************************************************************)
(* A first route, or work for a Finding that was routed without any.        *)
Routable(f) ==
  \/ finding[f].status = "open"
  \/ finding[f].status = "triaged" /\ finding[f].mission = NoMission /\ finding[f].plain

RouteToWork(f, m, gate) ==
  /\ Routable(f) /\ mission[m].state = "absent"
  /\ mission' = [mission EXCEPT ![m] = [state |-> "not_started", gate |-> gate]]
  /\ finding' = [finding EXCEPT ![f] =
       [status |-> IF gate = NoGate THEN "in_progress" ELSE "triaged", mission |-> m,
        release |-> NoRelease, plain |-> FALSE]]
  /\ UNCHANGED <<epoch, proj, work, faults, edits>>

RouteWithoutWork(f) ==
  /\ finding[f].status = "open"
  /\ finding' = [finding EXCEPT ![f].status = "triaged", ![f].plain = TRUE]
  /\ UNCHANGED <<mission, epoch, proj, work, faults, edits>>

(* Only a group that is triaged as a whole, under a Mission that is not      *)
(* over, is activated, and it is activated as a whole.                       *)
Activatable(m) ==
  /\ m # NoMission /\ mission[m].state \notin Over
  /\ \A f \in Live(m) : finding[f].status = "triaged"

InProgress(m, r) ==
  [f \in Findings |-> IF f \in Live(m) THEN [finding[f] EXCEPT !.status = "in_progress", !.release = r]
                                       ELSE finding[f]]

(* By hand, under the Mission version its author has seen; the gate goes.    *)
ActivateByHand(f) ==
  LET m == finding[f].mission
  IN /\ finding[f].status = "triaged" /\ Activatable(m)
     /\ finding' = InProgress(m, NoRelease)
     /\ mission' = [mission EXCEPT ![m].gate = NoGate]
     /\ UNCHANGED <<epoch, proj, work, faults, edits>>

End(f) ==
  /\ finding[f].status \notin Ended
  /\ finding' = [finding EXCEPT ![f].status = "ended"]
  /\ UNCHANGED <<mission, epoch, proj, work, faults, edits>>

Edit(m) ==
  /\ edits < MaxEdits /\ edits' = edits + 1
  /\ mission[m].state \notin Over \cup {"absent"}
  /\ \/ \E gate \in Gates \cup {NoGate} :
          gate # mission[m].gate /\ mission' = [mission EXCEPT ![m].gate = gate]
     \/ mission[m].state = "not_started" /\ mission' = [mission EXCEPT ![m].state = "in_progress"]
     \/ \E state \in Over : mission' = [mission EXCEPT ![m].state = state]
  /\ UNCHANGED <<finding, epoch, proj, work, faults>>

(***************************************************************************)
(* Detection: the Release, its epoch and its projections                   *)
(***************************************************************************)
Eligible(r) ==
  {m \in Missions : /\ mission[m].state = "not_started" /\ mission[m].gate \in Met[r]
                    /\ Live(m) # {} /\ \A f \in Live(m) : finding[f].status = "triaged"}

FreshEpoch(r, cap, promote) ==
  [made |-> TRUE, done |-> FALSE, cap |-> cap,
   groups |-> [m \in IF promote THEN Eligible(r) ELSE {} |->
                 [members |-> Live(m), gate |-> mission[m].gate, disposition |-> "pending"]]]

(* Mutant of Detect: a known Release is left alone.                         *)
DetectOnce(w, r) ==
  /\ work[w] = Idle /\ ~epoch[r].made
  /\ \E cap \in Caps, promote \in BOOLEAN :
       epoch' = [epoch EXCEPT ![r] = FreshEpoch(r, cap, promote)]
  /\ work' = [work EXCEPT ![w] =
       [Idle EXCEPT !.release = r, !.left = DOMAIN epoch'[r].groups]]
  /\ UNCHANGED <<finding, mission, proj, faults, edits>>

(* A detection records a Release once, and passes over its groups and        *)
(* projections whether it made the record or found it.  Position 0 is the    *)
(* activation of the groups.                                                 *)
Detect(w, r) ==
  /\ work[w] = Idle
  /\ IF epoch[r].made THEN UNCHANGED epoch
     ELSE \E cap \in Caps, promote \in BOOLEAN :
            epoch' = [epoch EXCEPT ![r] = FreshEpoch(r, cap, promote)]
  /\ work' = [work EXCEPT ![w] =
       [Idle EXCEPT !.release = r, !.loaded = epoch[r].made,
                    !.left = IF epoch'[r].done THEN {} ELSE DOMAIN epoch'[r].groups]]
  /\ UNCHANGED <<finding, mission, proj, faults, edits>>

(* Mutant of StartedHere: work in progress is taken for this Release's.      *)
StartedAnyhow(r, m) == TRUE

StartedHere(r, m) == Live(m) \subseteq Attributed(r)

(* The verdict on a frozen group, under the write lock: first whether it is  *)
(* still the group that was frozen, then whether the cap has room.           *)
Verdict(r, m) ==
  LET group == epoch[r].groups[m]
      used == Cardinality(Attributed(r))
      size == Cardinality(group.members)
      fits == epoch[r].cap = NoCap \/ used + size =< epoch[r].cap
  IN IF mission[m].state \in Over \/ Live(m) # group.members THEN "deferred_changed"
     ELSE IF \A f \in Live(m) : finding[f].status = "in_progress"
          THEN IF StartedHere(r, m) THEN "activated" ELSE "deferred_changed"
     ELSE IF ~Activatable(m) \/ mission[m].gate # group.gate THEN "deferred_changed"
     ELSE IF fits THEN "activate"
     ELSE IF size > epoch[r].cap THEN "deferred_oversized" ELSE "deferred_budget"

Disposed(r, m, verdict) ==
  [epoch[r] EXCEPT !.groups[m].disposition = IF verdict = "activate" THEN "activated" ELSE verdict]

(* One group, in one transaction; a group that has a disposition keeps it.   *)
Reconcile(w) == \E m \in work[w].left :
  LET r == work[w].release
      verdict == Verdict(r, m)
  IN /\ r # NoRelease /\ work[w].at = 0 /\ IsFirst(m, work[w].left)
     /\ work' = [work EXCEPT ![w].left = @ \ {m}]
     /\ IF epoch[r].groups[m].disposition # "pending" THEN UNCHANGED <<finding, epoch>>
        ELSE /\ epoch' = [epoch EXCEPT ![r] = Disposed(r, m, verdict)]
             /\ finding' = IF verdict = "activate" THEN InProgress(m, r) ELSE finding
     /\ UNCHANGED <<mission, proj, faults, edits>>

(* The pass visited every group, so the final transaction finds each with a  *)
(* disposition and closes the epoch.                                         *)
Finalize(w) ==
  LET r == work[w].release
  IN /\ r # NoRelease /\ work[w].at = 0 /\ work[w].left = {}
     /\ \A m \in Frozen(r) : epoch[r].groups[m].disposition # "pending"
     /\ epoch' = [epoch EXCEPT ![r].done = TRUE]
     /\ work' = [work EXCEPT ![w].at = 1, ![w].count = Cardinality(Activated(epoch'[r]))]
     /\ UNCHANGED <<finding, mission, proj, faults, edits>>

Missed(r) == Cardinality({m \in Deadlined[r] : mission[m].state \notin {"absent", "done"}})

(* What a projection produces: the deadline notice counts the Missions that  *)
(* missed it, the others tell what the detection has counted before.         *)
Product(w, k) ==
  IF Kinds[k] = "deadline" THEN [count |-> -1, missed |-> Missed(work[w].release)]
  ELSE [count |-> work[w].count, missed |-> IF Kinds[k] = "notify" THEN -1 ELSE work[w].missed]

(* A projection is produced with its completion, if none has completed it.   *)
Project(w) ==
  LET r == work[w].release
      k == work[w].at
      made == IF proj[r][k] = Pending THEN Product(w, k) ELSE proj[r][k]
  IN /\ r # NoRelease /\ k > 0
     /\ proj' = [proj EXCEPT ![r][k] = made]
     /\ work' = [work EXCEPT ![w] =
          IF k = Len(Kinds) THEN Idle
          ELSE [work[w] EXCEPT !.at = k + 1,
                  !.missed = IF Kinds[k] = "deadline" THEN made.missed ELSE work[w].missed]]
     /\ UNCHANGED <<finding, mission, epoch, faults, edits>>

(* A step finds the database busy, throws, or its process dies.              *)
Abandon(w) ==
  /\ work[w] # Idle /\ faults < MaxFaults
  /\ work' = [work EXCEPT ![w] = Idle] /\ faults' = faults + 1
  /\ UNCHANGED <<finding, mission, epoch, proj, edits>>

Step(w) == Reconcile(w) \/ Finalize(w) \/ Project(w)

Next ==
  \/ \E f \in Findings :
       \/ \E m \in Missions, gate \in Gates \cup {NoGate} : RouteToWork(f, m, gate)
       \/ RouteWithoutWork(f) \/ ActivateByHand(f) \/ End(f)
  \/ \E m \in Missions : Edit(m)
  \/ \E w \in Workers :
       \/ \E r \in Releases : Detect(w, r)
       \/ Step(w) \/ Abandon(w)

Spec == Init /\ [][Next]_vars
-----------------------------------------------------------------------------
(* The variables hold values of the kinds the tables declare.                *)
TypeOK ==
  /\ finding \in [Findings -> [status : {"open", "triaged", "in_progress"} \cup Ended,
                               mission : Missions \cup {NoMission},
                               release : Releases \cup {NoRelease}, plain : BOOLEAN]]
  /\ mission \in [Missions -> [state : {"absent", "not_started", "in_progress"} \cup Over,
                               gate : Gates \cup {NoGate}]]
  /\ \A r \in Releases : \A m \in Frozen(r) :
       epoch[r].groups[m].disposition \in
         {"pending", "activated", "deferred_changed", "deferred_oversized", "deferred_budget"}
  /\ \A w \in Workers : work[w].at \in 0..Len(Kinds) /\ work[w].left \subseteq Missions

(* However many detections of a Release run at once, it never activates more *)
(* Findings than the cap it froze.                                           *)
CapHolds ==
  \A r \in Releases : epoch[r].cap # NoCap => Cardinality(Attributed(r)) =< epoch[r].cap

(* The Findings of one Mission that are not ended wait together or are in    *)
(* progress together: no activation, by hand or by a Release, splits them.   *)
GroupsAreWhole ==
  \A m \in Missions : \A f, g \in Live(m) : finding[f].status = finding[g].status

(* Findings and epochs agree: the Findings attributed to a Release are the   *)
(* members of the groups its epoch activated, no more and no fewer.          *)
AttributionAgrees ==
  \A r \in Releases :
    Attributed(r) = UNION {epoch[r].groups[m].members : m \in Activated(epoch[r])}

(* A Release tells of its activation only once its epoch is closed, and each *)
(* projection follows the ones before it: no event announces a Release whose *)
(* deadline notice or retrospective is still to be made.                     *)
ProjectionsInOrder ==
  \A r \in Releases : \A k \in 1..Len(Kinds) :
    proj[r][k] # Pending => epoch[r].done /\ \A j \in 1..k : proj[r][j] # Pending

(* The retrospective and the event of a Release tell what its epoch          *)
(* activated and what its deadline notice counted, whichever detection       *)
(* produced them and whatever happened in between.                           *)
ProjectionsAgree ==
  \A r \in Releases : \A k \in 2..Len(Kinds) :
    proj[r][k] # Pending =>
      /\ proj[r][k].count = Cardinality(Activated(epoch[r]))
      /\ Kinds[k] # "notify" => proj[r][k].missed = proj[r][1].missed

(* What a Release activated, what it recorded and what it told agree.        *)
ReleaseAgrees ==
  /\ TypeOK /\ CapHolds /\ GroupsAreWhole
  /\ AttributionAgrees /\ ProjectionsInOrder /\ ProjectionsAgree

(* Every recorded Release comes to the end of its projections.               *)
Reconciled(r) == \A k \in 1..Len(Kinds) : proj[r][k] # Pending
ReleaseReconciles == \A r \in Releases : epoch[r].made ~> Reconciled(r)
=============================================================================
