----------------------------- MODULE MC_Governance ----------------------------
(* Roles in three settings: two admins of a habitat who work on one roster; a *)
(* team whose habitat, mission, task and agents are deleted and restored      *)
(* under its grants; and a team without work, which defines, revises and      *)
(* expires, gets a habitat, and is deleted.  Beside them the access of one    *)
(* remote pod, and the requests it makes under one idempotency key.  A        *)
(* behaviour is one of the part it takes, while the variables of the others   *)
(* rest.                                                                      *)
EXTENDS RoleGovernance, TLC

CONSTANTS t1, h1, m1, k1, a1, ann, lea, r1, c1, c2, g1, q1, q2, q3, v1, v2

VARIABLES
  part,
  now, invite, pod, participant, standing, credentials, given, stream, told, halts, orders,
  once, record, call, effects, lapses, crashes, faults

remote == <<now, invite, pod, participant, standing, credentials, given, stream, told, halts, orders>>
keyed == <<once, record, call, effects, lapses, crashes, faults>>
everything == <<part, vars, remote, keyed>>

Nothing == {}
Both == {ann, lea}
LedByAnn == t1 :> {ann}
Unled == << >>
InTeam == t1 :> None @@ h1 :> t1 @@ m1 :> h1 @@ k1 :> m1
Personal == h1 :> None @@ m1 :> h1 @@ k1 :> m1
Bare == t1 :> None @@ h1 :> None
Habitat1 == {h1}

Roster == INSTANCE RoleGovernance WITH
  Teams <- Nothing, Users <- Both, Admins <- Both, Leads <- Unled, Home <- Personal,
  MaxCommands <- 3, MaxImports <- 0

Office == INSTANCE RoleGovernance WITH
  Missions <- Nothing, Tasks <- Nothing, Home <- Bare, Unborn <- Habitat1, Expiring <- TRUE,
  MaxCommands <- 4, MaxRevisions <- 2

(* A grant to read and one to work, with two hours of grace.                  *)
Actions == {{"read"}, {"claim", "submit"}}
Access == INSTANCE RemoteAccess WITH
  grants <- given, crashes <- halts, commands <- orders,
  Credentials <- {c1, c2}, Grants <- {g1}, PodWide <- Nothing, Windows <- {2}, Scopes <- Actions,
  MaxTime <- 4, MaxCrashes <- 1, MaxCommands <- 4

Keys == INSTANCE RemoteRequests WITH
  Requests <- {q1, q2, q3}, Bodies <- {v1, v2}, MaxLapses <- 2, MaxCrashes <- 1, MaxFaults <- 1

Begin ==
  /\ part \in {"custody", "roster", "office", "access", "keys"}
  /\ Access!Init /\ Keys!Init
  /\ part # "access" => standing = "remote_observer"
  /\ part # "keys" => once = FALSE
  /\ CASE part = "custody" -> Init [] part = "roster" -> Roster!Init [] part = "office" -> Office!Init [] OTHER -> Init

Step ==
  \/ part = "custody" /\ Next /\ UNCHANGED <<part, remote, keyed>>
  \/ part = "roster" /\ Roster!Next /\ UNCHANGED <<part, remote, keyed>>
  \/ part = "office" /\ Office!Next /\ UNCHANGED <<part, remote, keyed>>
  \/ part = "access" /\ Access!Next /\ UNCHANGED <<part, vars, keyed>>
  \/ part = "keys" /\ Keys!Next /\ UNCHANGED <<part, vars, remote>>

Behaviour == Begin /\ [][Step]_everything
-----------------------------------------------------------------------------
(* Grants are of what is there, and screens that are accepted are true; a     *)
(* remote grant authorizes what was decided of it, and a key does what its    *)
(* first request asked for, and again only when it was taken over.            *)
AuthorityAgrees ==
  CASE part = "custody" -> TypeOK /\ RolesAgree
    [] part = "roster" -> Roster!TypeOK /\ Roster!RolesAgree
    [] part = "office" -> Office!TypeOK /\ Office!RolesAgree
    [] part = "access" -> Access!TypeOK /\ Access!AccessAgrees
    [] OTHER -> Keys!TypeOK /\ Keys!KeyIsHonoured

(* No deletion, restore or revision gives a permission, ledgers move on, the  *)
(* authority of a remote grant only fades and the answer under a key stands.  *)
AuthorityMovesOn == AuthorityIsGiven /\ LedgersMoveOn /\ Access!AuthorityFades /\ Keys!AnswersStand
=============================================================================
