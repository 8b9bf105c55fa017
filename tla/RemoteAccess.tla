----------------------------- MODULE RemoteAccess -----------------------------
(* Access to a habitat from outside it.  An invite becomes a pod with one     *)
(* participant, who is issued credentials and granted authority that an       *)
(* instant, a revocation or a suspension ends; nothing but the stamps of a    *)
(* grant and the clock says what it still authorizes.  Streams outlive the    *)
(* request that opened them and ask again before every notice and on a timer. *)
(* Handlers run to their end unless the process does.                         *)
EXTENDS Integers, FiniteSets

CONSTANTS
  Credentials, Grants,
  PodWide,                          \* the grants that name no participant
  Windows,                          \* grace windows, in hours
  Scopes,                           \* what grants are given: sets of actions
  MaxTime, MaxCrashes, MaxCommands  \* bounds

None == "none"
Absent == -1        \* a stamp that is null

VARIABLES
  now,
  invite,           \* its status; undone: revoked by the acceptance that failed
  pod, participant, \* their statuses; none: no such row
  standing,         \* of the participant
  credentials, grants,
  stream,           \* the credential it was opened with
  told,             \* the notices it was sent: could it be read then?
  crashes, commands

accounts == <<invite, pod, participant, standing>>
vars == <<now, accounts, credentials, grants, stream, told, crashes, commands>>

NoGrant == [status |-> None, expires |-> Absent, expired |-> Absent, revoked |-> Absent,
            window |-> 0, scopes |-> {}]

Init ==
  /\ now = 0 /\ invite = "pending" /\ pod = None /\ participant = None
  /\ standing \in {"remote_observer", "remote_contributor"}
  /\ credentials = [c \in Credentials |-> None]
  /\ grants = [g \in Grants |-> NoGrant]
  /\ stream = None /\ told = {} /\ crashes = 0 /\ commands = 0

Command == commands < MaxCommands /\ commands' = commands + 1

(***************************************************************************)
(* What a grant authorizes at an instant                                   *)
(***************************************************************************)
Earlier(s, t) == IF s < t THEN s ELSE t

(* A window is half-open: start <= t < start + hours.                        *)
GraceFrom(g, t, start) == IF start <= t /\ t < start + g.window THEN "grace" ELSE "blocked"

EvaluateActive(g, t) ==
  IF g.expires = Absent \/ t < g.expires THEN "active" ELSE GraceFrom(g, t, g.expires)

(* A revocation may only move the start of the window earlier.               *)
WithOptionalEarlierRevocation(g, t, start) ==
  IF g.revoked = Absent THEN GraceFrom(g, t, start)
  ELSE IF g.revoked > t THEN "blocked" ELSE GraceFrom(g, t, Earlier(start, g.revoked))

EvaluateExpired(g, t) ==
  LET start == IF g.expires = Absent THEN g.expired ELSE g.expires
  IN IF start = Absent \/ start > t THEN "blocked" ELSE WithOptionalEarlierRevocation(g, t, start)

EvaluateSoftRevoked(g, t) ==
  LET end == IF g.expires = Absent THEN g.expired ELSE g.expires
  IN IF g.revoked = Absent \/ g.revoked > t \/ (g.expires = Absent /\ g.expired > t) THEN "blocked"
     ELSE GraceFrom(g, t, IF end # Absent /\ end <= t THEN Earlier(g.revoked, end) ELSE g.revoked)

EvaluateGrantTime(g, t) ==
  CASE g.status = "active" -> EvaluateActive(g, t)
    [] g.status = "expired" -> EvaluateExpired(g, t)
    [] g.status = "soft_revoked" -> EvaluateSoftRevoked(g, t)
    [] OTHER -> "blocked"

(***************************************************************************)
(* Who may do what                                                         *)
(***************************************************************************)
GraceActions == {"heartbeat", "submit", "release"}

IsActionAllowedForStanding(action) ==
  \/ standing = "remote_observer" /\ action \in {"read", "comment"}
  \/ standing = "remote_contributor" /\ action \in {"read", "comment", "claim", "heartbeat", "submit", "release"}

EvaluateGrant(g, action) ==
  LET state == EvaluateGrantTime(g, now)
  IN /\ state # "blocked"
     /\ state = "grace" =>
          action \in GraceActions /\ (action = "submit" => standing = "remote_contributor")
     /\ action \in g.scopes /\ IsActionAllowedForStanding(action)

(* Of a pod-wide grant everything is visible, of another its targets.        *)
Visible == \E g \in Grants : EvaluateGrantTime(grants[g], now) = "active"

Authenticated(c) == credentials[c] = "active" /\ participant = "active" /\ pod = "active"
May(c, action) == Authenticated(c) /\ \E g \in Grants : EvaluateGrant(grants[g], action)

(* An open connection is good for as long as some grant is in its window; a   *)
(* stream is for as long as one gives read.                                  *)
IsRemoteConnectionValid(c) ==
  Authenticated(c) /\ \E g \in Grants : EvaluateGrantTime(grants[g], now) # "blocked"

RefreshRemoteStreamRead(c) == May(c, "read")

(***************************************************************************)
(* Invite, pod and participant                                             *)
(***************************************************************************)
(* The steps of an acceptance are statements of their own; a crash leaves     *)
(* what the first few did.                                                   *)
AcceptInvite(steps) ==
  /\ invite = "pending" /\ steps \in 1 .. 5
  /\ IF steps = 5 THEN UNCHANGED crashes ELSE crashes < MaxCrashes /\ crashes' = crashes + 1
  /\ invite' = "accepted"
  /\ pod' = IF steps < 2 THEN None ELSE IF steps < 4 THEN "pending" ELSE "active"
  /\ participant' = IF steps < 3 THEN None ELSE IF steps < 5 THEN "pending" ELSE "active"
  /\ stream' = IF steps = 5 THEN stream ELSE None
  /\ UNCHANGED <<now, standing, credentials, grants, told, commands>>

(* A statement that makes the pod or its participant fails, perhaps with the   *)
(* row written.  The failure is answered by revoking the pod, if it is known, *)
(* and then the invite that was accepted, and either may fail in its turn: a  *)
(* pod can be left under an invite that was undone, for the host to manage.   *)
AcceptanceFails ==
  /\ invite = "pending" /\ crashes < MaxCrashes /\ crashes' = crashes + 1
  /\ invite' \in {"undone", "accepted"}
  /\ \/ pod' \in {None, "pending"} /\ participant' = None
     \/ pod' \in {"revoked", "pending"} /\ participant' \in {None, "pending"}
  /\ UNCHANGED <<now, standing, credentials, grants, stream, told, commands>>

RevokeInvite ==
  /\ invite = "pending" /\ invite' = "revoked" /\ Command
  /\ UNCHANGED <<now, pod, participant, standing, credentials, grants, stream, told, crashes>>

(* A row may be suspended from any other status, a revoked one included.      *)
Managed(status, to) ==
  /\ status # None
  /\ CASE to = "active" -> status # "revoked" [] OTHER -> status # to

ManagePod(to) ==
  /\ Managed(pod, to) /\ pod' = to /\ Command
  /\ UNCHANGED <<now, invite, participant, standing, credentials, grants, stream, told, crashes>>

ManageParticipant(to) ==
  /\ Managed(participant, to) /\ participant' = to /\ Command
  /\ UNCHANGED <<now, invite, pod, standing, credentials, grants, stream, told, crashes>>

ApproveParticipant(to) ==
  /\ participant # None /\ standing' = to /\ Command
  /\ participant' = IF participant = "pending" THEN "active" ELSE participant
  /\ UNCHANGED <<now, invite, pod, credentials, grants, stream, told, crashes>>

(***************************************************************************)
(* Credentials and grants                                                  *)
(***************************************************************************)
CreateCredential(c) ==
  /\ credentials[c] = None /\ participant = "active" /\ Command
  /\ credentials' = [credentials EXCEPT ![c] = "active"]
  /\ UNCHANGED <<now, accounts, grants, stream, told, crashes>>

RotateCredential(c, d) ==
  /\ credentials[c] = "active" /\ credentials[d] = None /\ Command
  /\ credentials' = [credentials EXCEPT ![c] = "rotated", ![d] = "active"]
  /\ UNCHANGED <<now, accounts, grants, stream, told, crashes>>

RevokeCredential(c) ==
  /\ credentials[c] = "active" /\ Command
  /\ credentials' = [credentials EXCEPT ![c] = "revoked"]
  /\ UNCHANGED <<now, accounts, grants, stream, told, crashes>>

CreateGrant(g, expires, window, scopes) ==
  /\ grants[g] = NoGrant /\ pod # None /\ (g \notin PodWide => participant # None) /\ Command
  /\ grants' = [grants EXCEPT ![g] =
       [NoGrant EXCEPT !.status = "active", !.expires = expires, !.window = window, !.scopes = scopes]]
  /\ UNCHANGED <<now, accounts, credentials, stream, told, crashes>>

RevokeGrant(g, to) ==
  /\ grants[g].status \in {"active", "expired"} /\ Command
  /\ grants' = [grants EXCEPT ![g].status = to, ![g].revoked = now]
  /\ UNCHANGED <<now, accounts, credentials, stream, told, crashes>>

(* A storage primitive that nothing schedules.                               *)
ExpireActiveGrants ==
  /\ \E g \in Grants : grants[g].status = "active" /\ grants[g].expires # Absent /\ grants[g].expires < now
  /\ grants' = [g \in Grants |->
       IF grants[g].status = "active" /\ grants[g].expires # Absent /\ grants[g].expires < now
       THEN [grants[g] EXCEPT !.status = "expired", !.expired = now] ELSE grants[g]]
  /\ UNCHANGED <<now, accounts, credentials, stream, told, crashes, commands>>

(***************************************************************************)
(* The stream                                                              *)
(***************************************************************************)
OpenStream(c) ==
  /\ stream = None /\ IsRemoteConnectionValid(c) /\ RefreshRemoteStreamRead(c) /\ stream' = c
  /\ UNCHANGED <<now, accounts, credentials, grants, told, crashes, commands>>

(* A change of a task is published: the stream ends, or is told if it is seen. *)
Publish ==
  /\ stream # None
  /\ IF RefreshRemoteStreamRead(stream)
     THEN /\ Visible /\ UNCHANGED stream
          /\ told' = told \cup {May(stream, "read") /\ Visible}
     ELSE stream' = None /\ UNCHANGED told
  /\ UNCHANGED <<now, accounts, credentials, grants, crashes, commands>>

Revalidate ==
  /\ stream # None /\ ~RefreshRemoteStreamRead(stream) /\ stream' = None
  /\ UNCHANGED <<now, accounts, credentials, grants, told, crashes, commands>>

Tick ==
  /\ now < MaxTime /\ now' = now + 1
  /\ UNCHANGED <<accounts, credentials, grants, stream, told, crashes, commands>>

Crash ==
  /\ stream # None /\ crashes < MaxCrashes /\ crashes' = crashes + 1 /\ stream' = None
  /\ UNCHANGED <<now, accounts, credentials, grants, told, commands>>

Next ==
  \/ \E steps \in 1 .. 5 : AcceptInvite(steps)
  \/ AcceptanceFails \/ RevokeInvite
  \/ \E to \in {"suspended", "active", "revoked"} : ManagePod(to) \/ ManageParticipant(to)
  \/ \E to \in {"remote_observer", "remote_contributor"} : ApproveParticipant(to)
  \/ \E c \in Credentials :
       \/ CreateCredential(c) \/ RevokeCredential(c) \/ OpenStream(c)
       \/ \E d \in Credentials : RotateCredential(c, d)
  \/ \E g \in Grants :
       \/ \E expires \in {Absent} \cup 0 .. MaxTime, window \in Windows, scopes \in Scopes :
            CreateGrant(g, expires, window, scopes)
       \/ \E to \in {"soft_revoked", "hard_revoked", "frozen"} : RevokeGrant(g, to)
  \/ ExpireActiveGrants \/ Publish \/ Revalidate \/ Tick \/ Crash

Spec == Init /\ [][Next]_vars
-----------------------------------------------------------------------------
Statuses == {"pending", "active", "suspended", "revoked"}

TypeOK ==
  /\ now \in 0 .. MaxTime /\ invite \in {"pending", "accepted", "undone", "revoked"}
  /\ pod \in Statuses \cup {None} /\ participant \in Statuses \cup {None}
  /\ standing \in {"remote_observer", "remote_contributor"}
  /\ credentials \in [Credentials -> {None, "active", "rotated", "revoked"}]
  /\ \A g \in Grants :
       grants[g] \in [status : {None, "active", "expired", "soft_revoked", "hard_revoked", "frozen"},
                      expires : Absent .. MaxTime, expired : Absent .. MaxTime, revoked : Absent .. MaxTime,
                      window : Windows \cup {0}, scopes : Scopes \cup {{}}]
  /\ stream \in Credentials \cup {None} /\ told \subseteq BOOLEAN
  /\ crashes \in 0 .. MaxCrashes /\ commands \in 0 .. MaxCommands

(* What the host decided of a grant: it authorizes until its deadline or its  *)
(* revocation, whichever is first, and from then on for the hours of its      *)
(* window what was begun, unless it was revoked hard or frozen.              *)
Decided(g) ==
  LET ends == {g.expires, g.revoked} \ {Absent}
  IN IF g.status \in {None, "hard_revoked", "frozen"} THEN "blocked"
     ELSE IF \A end \in ends : now < end THEN "active"
     ELSE IF \A end \in ends : now < end + g.window THEN "grace" ELSE "blocked"

(* The stamps of a grant and the clock say what the host decided, whether or  *)
(* not a sweep has rewritten the row; a stream was told of nothing that a     *)
(* request could not have read; and access comes from an invite that its host *)
(* did not revoke, though its acceptance may have been undone.                *)
AccessAgrees ==
  /\ \A g \in Grants : EvaluateGrantTime(grants[g], now) = Decided(grants[g])
  /\ FALSE \notin told
  /\ pod # None => invite \in {"accepted", "undone"}
  /\ participant # None => pod # None
  /\ (stream # None \/ \E c \in Credentials : credentials[c] # None) => participant \notin {None, "pending"}

Rank(state) == CASE state = "active" -> 2 [] state = "grace" -> 1 [] OTHER -> 0

(* The authority of a grant only fades, and no credential is good again.      *)
AuthorityFades ==
  [][/\ \A g \in Grants : grants[g] # NoGrant =>
          Rank(EvaluateGrantTime(grants[g], now)') <= Rank(EvaluateGrantTime(grants[g], now))
     /\ \A c \in Credentials : credentials[c] \notin {None, "active"} => credentials[c]' = credentials[c]]_vars
=============================================================================
