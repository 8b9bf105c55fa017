-------------------------- MODULE ImportPublication --------------------------
(* A manifest is imported as a new Habitat or over one: a request reserves    *)
(* the row of its manifest id, runs the preflight, reserves an attempt for    *)
(* every Task, takes the lease of the row, asks governance, and publishes     *)
(* everything in one transaction.  Nothing drives an import but requests: one *)
(* that finds the row publishing under a lease that has expired, with the     *)
(* same content, carries it on.  Requests run in processes of their own and   *)
(* may stop anywhere.                                                         *)
EXTENDS Integers, Sequences

CONSTANTS
  Requests,                          \* requests with one manifest id
  Contents,                          \* what their manifests say (digests)
  Imported,                          \* the Tasks of the manifest
  MaxChanges, MaxStops, MaxLapses    \* bounds

None == "none"

VARIABLES
  row,       \* of import_attempts
  coord,     \* the state of its coordination attempt
  attempts,  \* and of the attempts of the Tasks
  habitat,   \* the stamp of the Habitat, and what was imported over it
  call,      \* the requests under way
  changes, stops, lapses

imported == <<row, coord, attempts, habitat>>
bounds == <<changes, stops, lapses>>
vars == <<imported, call, bounds>>

Idle == [at |-> "idle", content |-> None, stamp |-> 0]

Init ==
  /\ row \in [state : {None}, mode : {"new", "replacement"}, content : {None}, owner : {None},
              expired : {FALSE}]
  /\ coord = None /\ attempts = [i \in Imported |-> None]
  /\ habitat = [stamp |-> 1, applied |-> << >>]
  /\ call = [r \in Requests |-> Idle] /\ changes = 0 /\ stops = 0 /\ lapses = 0

Goes(r, to) == call' = [call EXCEPT ![r].at = to]
Answers(r) == call' = [call EXCEPT ![r] = Idle]

(***************************************************************************)
(* Reservation and preflight                                               *)
(***************************************************************************)
(* A request whose id is taken carries the import on if it may, and is       *)
(* otherwise answered with the row there is.                                 *)
Resumable(content) == row.state = "publishing" /\ row.expired /\ row.content = content

Request(r, content) ==
  /\ call[r] = Idle
  /\ \/ /\ row.state = None
        /\ row' = [row EXCEPT !.state = "reserved", !.content = content] /\ coord' = "pending"
     \/ Resumable(content) /\ UNCHANGED <<row, coord>>
  /\ call' = [call EXCEPT ![r] = [Idle EXCEPT !.at = "preflight", !.content = content]]
  /\ UNCHANGED <<attempts, habitat, bounds>>

(* The stamp of the Habitat is read before its contents.                     *)
Preflight(r) ==
  /\ call[r].at = "preflight"
  /\ call' = [call EXCEPT ![r].at = "attempts", ![r].stamp = habitat.stamp]
  /\ UNCHANGED <<imported, bounds>>

(* A refused manifest ends an import that this request reserved; one that it *)
(* would have carried on is left to the next request.                        *)
Refuse(r) ==
  /\ call[r].at = "preflight" /\ Answers(r)
  /\ IF row.state = "reserved" THEN row' = [row EXCEPT !.state = "rejected"] /\ coord' = "rejected_validation"
                               ELSE UNCHANGED <<row, coord>>
  /\ UNCHANGED <<attempts, habitat, bounds>>

(***************************************************************************)
(* Publication                                                             *)
(***************************************************************************)
ReserveAttempt(r, i) ==
  /\ call[r].at = "attempts" /\ attempts[i] = None
  /\ attempts' = [attempts EXCEPT ![i] = "pending"]
  /\ UNCHANGED <<row, coord, habitat, call, bounds>>

(* The first to come takes the lease, or who finds it expired.               *)
Leasable == row.state = "reserved" \/ (row.state = "publishing" /\ row.expired)

Acquire(r) ==
  /\ call[r].at = "attempts" /\ \A i \in Imported : attempts[i] # None
  /\ IF Leasable
     THEN /\ row' = [row EXCEPT !.state = "publishing", !.owner = r, !.expired = FALSE]
          /\ Goes(r, "govern")
     ELSE Answers(r) /\ UNCHANGED row
  /\ UNCHANGED <<coord, attempts, habitat, bounds>>

Govern(r) == call[r].at = "govern" /\ Goes(r, "commit") /\ UNCHANGED <<imported, bounds>>

(* Terminal states are fenced by the owner of the lease.                     *)
Owns(r) == row.state = "publishing" /\ row.owner = r

Ends(state) == row' = [row EXCEPT !.state = state, !.owner = None, !.expired = FALSE]

(* A veto, here or inside the transaction, ends the import and its attempt.  *)
Veto(r) ==
  /\ call[r].at \in {"govern", "commit"} /\ Answers(r)
  /\ IF Owns(r) THEN Ends("rejected") /\ coord' = "vetoed" ELSE UNCHANGED <<row, coord>>
  /\ UNCHANGED <<attempts, habitat, bounds>>

(* The Habitat to be replaced is as the preflight saw it, or else nothing is *)
(* written and the lease runs out.  A request that lost its lease is rolled  *)
(* back.                                                                     *)
Unchanged(r) == row.mode = "replacement" => habitat.stamp = call[r].stamp

Commit(r) ==
  /\ call[r].at = "commit" /\ Answers(r)
  /\ IF Unchanged(r) /\ Owns(r)
     THEN /\ Ends("published") /\ coord' = "created"
          /\ attempts' = [i \in Imported |-> "published"]
          /\ habitat' = [stamp |-> habitat.stamp + 1,
                         applied |-> Append(habitat.applied,
                           [content |-> call[r].content, fresh |-> call[r].stamp = habitat.stamp])]
     ELSE UNCHANGED imported
  /\ UNCHANGED bounds

(***************************************************************************)
(* The others                                                              *)
(***************************************************************************)
EditHabitat ==
  /\ changes < MaxChanges /\ changes' = changes + 1
  /\ habitat' = [habitat EXCEPT !.stamp = @ + 1]
  /\ UNCHANGED <<row, coord, attempts, call, stops, lapses>>

Lapse ==
  /\ row.state = "publishing" /\ ~row.expired /\ lapses < MaxLapses /\ lapses' = lapses + 1
  /\ row' = [row EXCEPT !.expired = TRUE]
  /\ UNCHANGED <<coord, attempts, habitat, call, changes, stops>>

Crash(r) ==
  /\ call[r] # Idle /\ stops < MaxStops /\ stops' = stops + 1 /\ Answers(r)
  /\ UNCHANGED <<imported, changes, lapses>>

Step(r) ==
  \/ \E content \in Contents : Request(r, content)
  \/ Preflight(r) \/ Refuse(r) \/ Acquire(r) \/ Govern(r) \/ Veto(r) \/ Commit(r) \/ Crash(r)
  \/ \E i \in Imported : ReserveAttempt(r, i)

Next == (\E r \in Requests : Step(r)) \/ EditHabitat \/ Lapse

Spec == Init /\ [][Next]_vars
-----------------------------------------------------------------------------
(* The import is published exactly when the manifest that reserved its id    *)
(* was applied, once, to the Habitat that its preflight had seen; its        *)
(* coordination and Task attempts say the same, and nobody edits in between    *)
(* unseen.                                                                   *)
ImportAgrees ==
  /\ row.state = "published" <=> habitat.applied # << >>
  /\ Len(habitat.applied) <= 1
  /\ \A k \in DOMAIN habitat.applied :
       habitat.applied[k].content = row.content /\ (row.mode = "replacement" => habitat.applied[k].fresh)
  /\ row.state = None => coord = None
  /\ row.state \in {"reserved", "publishing"} => coord = "pending"
  /\ row.state = "published" => coord = "created"
  /\ row.state = "rejected" => coord \in {"vetoed", "rejected_validation"}
  /\ row.state # "published" => \A i \in Imported : attempts[i] # "published"
  /\ row.state = "published" => \A i \in Imported : attempts[i] = "published"
  /\ row.state = "publishing" <=> row.owner # None
=============================================================================
