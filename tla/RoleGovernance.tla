--------------------------- MODULE RoleGovernance ---------------------------
(* Local roles: people govern a team or a personal habitat, define roles in   *)
(* it, and grant them to agents and people at a team, habitat, mission or     *)
(* task.  Each of these scopes has a ledger of an incarnation and a version,  *)
(* and a command acts only on the pair its author has seen.  Whoever deletes  *)
(* a resource retires its ledger and revokes its grants first, and an id that *)
(* comes back starts a new incarnation.                                       *)
(*                                                                            *)
(* A command is one IMMEDIATE transaction and one action.  Names, reasons and *)
(* audit rows are left out, but for the number of commands, which is a bound. *)
EXTENDS Integers, Sequences, FiniteSets

CONSTANTS
  Teams, Habitats, Missions, Tasks,
  Agents, Users, Admins, Viewers,
  Leads,         \* the owners and admins of each team
  Home,          \* the parent of each resource at the start, or None
  Unborn,        \* habitats that are created later
  Roles, Builtins,
  Expiring,      \* grants may carry an expiry
  RestoreRaces,  \* a resource may go while an import that restores it is under way
  MaxCommands, MaxGrants, MaxRevisions, MaxImports   \* bounds

None == "none"
Scopes == Teams \cup Habitats \cup Missions \cup Tasks
Principals == Agents \cup Users
Permissions == {"assign", "configure"}

ASSUME GovernanceAssumption ==
  /\ Admins \subseteq Users /\ Viewers \subseteq Users \ Admins /\ Builtins \subseteq Roles
  /\ Unborn \subseteq Habitats /\ Leads \in [Teams -> SUBSET Users]
  /\ Home \in [Scopes -> Scopes \cup {None}] /\ None \notin Scopes
  /\ {MaxCommands, MaxGrants, MaxRevisions, MaxImports} \subseteq Nat

(* A task is in a mission, a mission in a habitat that exists, and a habitat  *)
(* in a team or in none.                                                     *)
ASSUME HierarchyAssumption ==
  /\ (Teams \cup Habitats) \cap (Missions \cup Tasks) = {}
  /\ Teams \cap Habitats = {} /\ Missions \cap Tasks = {}
  /\ \A t \in Teams : Home[t] = None
  /\ \A h \in Habitats : Home[h] \in Teams \cup {None}
  /\ \A m \in Missions : Home[m] \in Habitats \ Unborn
  /\ \A k \in Tasks : Home[k] \in Missions

VARIABLES
  live,      \* the resources that exist
  parent,    \* of each resource; None above a team and a personal habitat
  owner,     \* of each personal habitat
  ledger,    \* of each scope; incarnation 0 is a scope without history
  role,      \* namespace, its incarnation, revisions, and whether it is in use
  grants,    \* every assignment ever made, in order
  deleted,   \* agents that were deleted
  screen,    \* what each person last read of a scope
  restore,   \* the import that was prepared and is to be published
  commands,  \* commands so far
  imports    \* imports so far

vars == <<live, parent, owner, ledger, role, grants, deleted, screen, restore, commands, imports>>
resources == <<live, parent>>

NoLedger == [incarnation |-> 0, version |-> 0, active |-> FALSE]
NoRole == [status |-> "absent", namespace |-> None, incarnation |-> 0, revisions |-> << >>]
Builtin == [status |-> "active", namespace |-> None, incarnation |-> 0, revisions |-> <<{"assign"}>>]
Blank == [scope |-> None, incarnation |-> 0, version |-> 0, grants |-> {}, roles |-> {}]
NoRestore == [habitat |-> None, ids |-> {}, drift |-> FALSE]

Init ==
  /\ live = Scopes \ Unborn /\ parent = Home /\ owner = [h \in Habitats |-> None]
  /\ ledger = [s \in Scopes |-> NoLedger]
  /\ role = [d \in Roles |-> IF d \in Builtins THEN Builtin ELSE NoRole]
  /\ grants = << >> /\ deleted = {} /\ screen = [u \in Users |-> Blank]
  /\ restore = NoRestore /\ commands = 0 /\ imports = 0

(***************************************************************************)
(* Scopes                                                                  *)
(***************************************************************************)
Parent(s) == IF s = None THEN None ELSE parent[s]

(* A resource and what it is in, up to the team.                            *)
Chain(s) == {s, Parent(s), Parent(Parent(s)), Parent(Parent(Parent(s)))} \ {None}
Below(s) == {x \in live : s \in Chain(x)}

(* A live scope without history reads as incarnation 1, version 1; one with *)
(* nothing but history is retired and reads as nothing.                     *)
Active(s) == s \in live /\ (ledger[s].incarnation = 0 \/ ledger[s].active)
Incarnation(s) == IF ledger[s].incarnation = 0 THEN 1 ELSE ledger[s].incarnation
Version(s) == IF ledger[s].incarnation = 0 THEN 1 ELSE ledger[s].version

Bumped(s) == [incarnation |-> Incarnation(s), version |-> Version(s) + 1, active |-> TRUE]

Retire(entry) ==
  IF entry.incarnation = 0 THEN [incarnation |-> 1, version |-> 2, active |-> FALSE]
  ELSE IF entry.active THEN [entry EXCEPT !.version = @ + 1, !.active = FALSE] ELSE entry

(* Mutant of Reenroll: the id comes back in the incarnation it had.         *)
Revive(entry) == [incarnation |-> entry.incarnation, version |-> 1, active |-> TRUE]
Reenroll(entry) == [incarnation |-> entry.incarnation + 1, version |-> 1, active |-> TRUE]

(***************************************************************************)
(* Authority                                                               *)
(***************************************************************************)
Governs(u, s) ==
  /\ u \notin Viewers
  /\ \/ u \in Admins
     \/ s \in Teams /\ u \in Leads[s]
     \/ s \in Habitats /\ parent[s] = None /\ owner[s] = u
     \/ s \in Habitats /\ parent[s] # None /\ u \in Leads[parent[s]]

Governed(s) == CHOOSE g \in Chain(s) : IF s \in Teams THEN g = s ELSE g \in Habitats

Assignable(perms, s) == "configure" \in perms => s \in Teams \cup Habitats
Served(perm, s) == IF perm = "assign" THEN s \in Tasks ELSE s \in Habitats

(* Mutant of Pinned: a grant follows its role to the last revision.         *)
Newest(g) == role[g.role].revisions[Len(role[g.role].revisions)]
Pinned(g) == role[g.role].revisions[g.revision]

(* A grant gives a permission at the target if it was made at the target or *)
(* above it, in the incarnation that scope has, for a role whose namespace  *)
(* is above both and has the incarnation the role was defined in.           *)
Supports(g, p, perm, target) ==
  /\ g.active /\ g.who = p /\ role[g.role].status = "active" /\ ~g.expired /\ perm \in Pinned(g)
  /\ g.scope \in Chain(target) /\ Assignable({perm}, g.scope)
  /\ Active(g.scope) /\ g.incarnation = Incarnation(g.scope)
  /\ \/ role[g.role].namespace = None
     \/ LET space == role[g.role].namespace
        IN /\ space \in Chain(target) /\ space \in Chain(g.scope)
           /\ Active(space) /\ role[g.role].incarnation = Incarnation(space)

Granted(p, perm, target) ==
  /\ p \notin Viewers \cup deleted /\ Active(target) /\ Served(perm, target)
  /\ \E i \in DOMAIN grants : Supports(grants[i], p, perm, target)

(***************************************************************************)
(* What a person sees                                                      *)
(***************************************************************************)
RowsOf(s, gs, rs) ==
  [grants |-> {<<i, gs[i].version>> : i \in {j \in DOMAIN gs : gs[j].active /\ gs[j].scope = s}},
   roles |-> {<<d, Len(rs[d].revisions)>> :
                d \in {e \in Roles : rs[e].namespace = s /\ rs[e].status = "active"}}]
Rows(s) == RowsOf(s, grants, role)

Look(u, s) ==
  /\ Active(s) /\ Governs(u, Governed(s))
  /\ screen' = [screen EXCEPT ![u] =
       [scope |-> s, incarnation |-> Incarnation(s), version |-> Version(s),
        grants |-> Rows(s).grants, roles |-> Rows(s).roles]]
  /\ screen'[u] # screen[u]
  /\ UNCHANGED <<resources, owner, ledger, role, grants, deleted, restore, commands, imports>>

(***************************************************************************)
(* Commands                                                                *)
(***************************************************************************)
(* The command names what its author has seen of the scope.                 *)
Expected(u, s) == screen[u].incarnation = Incarnation(s) /\ screen[u].version = Version(s)

Command(u, s) ==
  /\ commands < MaxCommands /\ commands' = commands + 1
  /\ Active(s) /\ Governs(u, Governed(s))
  /\ screen[u].scope = s /\ Expected(u, s)

CreateRole(u, d, perms) ==
  LET s == screen[u].scope
  IN /\ s \in Teams \cup Habitats /\ Command(u, s) /\ role[d] = NoRole
     /\ ledger' = [ledger EXCEPT ![s] = Bumped(s)]
     /\ role' = [role EXCEPT ![d] = [status |-> "active", namespace |-> s,
                                     incarnation |-> Incarnation(s), revisions |-> <<perms>>]]
     /\ UNCHANGED <<resources, owner, grants, deleted, screen, restore, imports>>

(* A custom role that is in use is changed by who has seen its last revision. *)
Changes(u, d) ==
  /\ d \notin Builtins /\ role[d].status = "active"
  /\ Command(u, role[d].namespace) /\ <<d, Len(role[d].revisions)>> \in screen[u].roles

MintRevision(u, d, perms) ==
  /\ Changes(u, d) /\ Len(role[d].revisions) < MaxRevisions
  /\ ledger' = [ledger EXCEPT ![role[d].namespace] = Bumped(role[d].namespace)]
  /\ role' = [role EXCEPT ![d].revisions = Append(@, perms)]
  /\ UNCHANGED <<resources, owner, grants, deleted, screen, restore, imports>>

Revoke(g) == [g EXCEPT !.active = FALSE, !.version = @ + 1]
RevokedIf(ids) == [i \in DOMAIN grants |-> IF i \in ids THEN Revoke(grants[i]) ELSE grants[i]]
Of(d) == {i \in DOMAIN grants : grants[i].active /\ grants[i].role = d}

(* Mutant of Affected: only the scope of the namespace learns of it.        *)
AffectedNone(d) == {}

(* The scopes whose grants a retired role takes away, at the incarnation    *)
(* that the grants have captured.                                           *)
Affected(d) ==
  {s \in Scopes \ {role[d].namespace} :
     Active(s) /\ \E i \in Of(d) : grants[i].scope = s /\ grants[i].incarnation = Incarnation(s)}

RetireRole(u, d) ==
  /\ Changes(u, d)
  /\ role' = [role EXCEPT ![d].status = "retired"]
  /\ grants' = RevokedIf(Of(d))
  /\ ledger' = [s \in Scopes |->
       IF s \in Affected(d) \cup {role[d].namespace} THEN Bumped(s) ELSE ledger[s]]
  /\ UNCHANGED <<resources, owner, deleted, screen, restore, imports>>

Same(g, p, d, s) ==
  g.active /\ g.who = p /\ g.role = d /\ g.scope = s /\ g.incarnation = Incarnation(s)

Regranted(p, d, s) == {i \in DOMAIN grants : Same(grants[i], p, d, s)}

(* A person or an agent gets a revision of a role at a scope below the      *)
(* namespace; an active grant of the same role there is revoked first.      *)
Assign(u, p, d, n) ==
  LET s == screen[u].scope
  IN /\ s # None /\ Len(grants) < MaxGrants /\ p \notin deleted
     /\ role[d].status = "active" /\ n \in DOMAIN role[d].revisions
     /\ Command(u, s)
     /\ role[d].namespace \in Chain(s) \cup {None}
     /\ Assignable(role[d].revisions[n], s)
     /\ ledger' = [ledger EXCEPT ![s] = Bumped(s)]
     /\ grants' = Append(RevokedIf(Regranted(p, d, s)),
          [who |-> p, role |-> d, revision |-> n, scope |-> s, incarnation |-> Incarnation(s),
           active |-> TRUE, version |-> 1, expired |-> FALSE])
     /\ UNCHANGED <<resources, owner, role, deleted, screen, restore, imports>>

(* A grant is moved to another revision, or revoked, as it was seen.        *)
Sees(u, i) == Command(u, grants[i].scope) /\ <<i, grants[i].version>> \in screen[u].grants

Repin(u, i, n) ==
  /\ grants[i].active /\ role[grants[i].role].status = "active"
  /\ n \in DOMAIN role[grants[i].role].revisions
  /\ Sees(u, i) /\ Assignable(role[grants[i].role].revisions[n], grants[i].scope)
  /\ ledger' = [ledger EXCEPT ![grants[i].scope] = Bumped(grants[i].scope)]
  /\ grants' = [grants EXCEPT ![i].revision = n, ![i].version = @ + 1]
  /\ UNCHANGED <<resources, owner, role, deleted, screen, restore, imports>>

RevokeGrant(u, i) ==
  /\ grants[i].active /\ Sees(u, i)
  /\ ledger' = [ledger EXCEPT ![grants[i].scope] = Bumped(grants[i].scope)]
  /\ grants' = RevokedIf({i})
  /\ UNCHANGED <<resources, owner, role, deleted, screen, restore, imports>>

(* A global admin gives a personal habitat an owner, or takes it away.      *)
SetOwner(u, o) ==
  LET h == screen[u].scope
  IN /\ h \in Habitats /\ u \in Admins /\ o \notin Viewers
     /\ Command(u, h) /\ parent[h] = None
     /\ ledger' = [ledger EXCEPT ![h] = Bumped(h)]
     /\ owner' = [owner EXCEPT ![h] = o]
     /\ restore' = [restore EXCEPT !.drift = @ \/ restore.habitat = h]
     /\ UNCHANGED <<resources, role, grants, deleted, screen, imports>>

CreateHabitat(u, h) ==
  LET t == screen[u].scope
  IN /\ t \in Teams /\ Command(u, t) /\ h \in Unborn \ live
     /\ ledger[h] = NoLedger
     /\ ledger' = [ledger EXCEPT ![t] = Bumped(t)]
     /\ live' = live \cup {h} /\ parent' = [parent EXCEPT ![h] = t]
     /\ UNCHANGED <<owner, role, grants, deleted, screen, restore, imports>>

(***************************************************************************)
(* Custody                                                                 *)
(***************************************************************************)
(* The active grants at these scopes, of whatever incarnation.              *)
Taken(scopes) == {i \in DOMAIN grants : grants[i].active /\ grants[i].scope \in scopes}

Unrolled(scopes) ==
  [d \in Roles |-> IF role[d].status = "active" /\ role[d].namespace \in scopes
                   THEN [role[d] EXCEPT !.status = "retired"] ELSE role[d]]

(* What an import is about to restore stays, unless it may race.            *)
Leaves(scopes) == live' = live \ scopes /\ (RestoreRaces \/ restore.ids \cap scopes = {})

(* A task, a mission or a habitat goes with all that is in it.              *)
Delete(s) ==
  /\ s \in live \ Teams /\ Leaves(Below(s))
  /\ ledger' = [x \in Scopes |-> IF x \in Below(s) THEN Retire(ledger[x]) ELSE ledger[x]]
  /\ grants' = RevokedIf(Taken(Below(s))) /\ role' = Unrolled(Below(s))
  /\ owner' = [h \in Habitats |-> IF h = s THEN None ELSE owner[h]]
  /\ UNCHANGED <<parent, deleted, screen, restore, commands, imports>>

(* The habitats of a team outlive it as personal ones, in new incarnations. *)
DeleteTeam(u, t) ==
  /\ t \in live \cap Teams /\ Governs(u, t) /\ live' = live \ {t}
  /\ ledger' = [x \in Scopes |->
       IF x = t THEN Retire(ledger[x])
       ELSE IF x \in Below(t) THEN Reenroll(Retire(ledger[x])) ELSE ledger[x]]
  /\ grants' = RevokedIf(Taken(Below(t))) /\ role' = Unrolled(Below(t))
  /\ parent' = [x \in Scopes |-> IF parent[x] = t THEN None ELSE parent[x]]
  /\ UNCHANGED <<owner, deleted, screen, restore, commands, imports>>

(* Nothing is retired with an agent, and no ledger learns of its grants.    *)
DeleteAgent(a) ==
  /\ a \notin deleted /\ deleted' = deleted \cup {a}
  /\ grants' = RevokedIf({i \in DOMAIN grants : grants[i].active /\ grants[i].who = a})
  /\ UNCHANGED <<resources, owner, ledger, role, screen, restore, commands, imports>>

(* An import that restores missions and tasks of a habitat by their ids is  *)
(* prepared; each id it declares is one the habitat has.                    *)
PrepareRestore(h, ids) ==
  /\ restore = NoRestore /\ imports < MaxImports /\ imports' = imports + 1 /\ h \in live \cap Habitats
  /\ ids # {} /\ ids \subseteq Below(h) \ {h} /\ \A s \in ids \cap Tasks : parent[s] \in ids
  /\ restore' = [habitat |-> h, ids |-> ids, drift |-> FALSE]
  /\ UNCHANGED <<resources, owner, ledger, role, grants, deleted, screen, commands>>

(* What the habitat has goes; what the import restores goes on in a new     *)
(* incarnation, if it has a history.                                        *)
Replaced(s) ==
  IF s \notin restore.ids THEN Retire(ledger[s])
  ELSE IF ledger[s] = NoLedger THEN NoLedger ELSE Reenroll(Retire(ledger[s]))

PublishRestore ==
  /\ restore # NoRestore /\ restore' = NoRestore
  /\ LET had == Below(restore.habitat) \ {restore.habitat}
     IN IF restore.habitat \in live /\ ~restore.drift
        THEN /\ live' = (live \ had) \cup restore.ids
             /\ ledger' = [s \in Scopes |-> IF s \in had THEN Replaced(s) ELSE ledger[s]]
             /\ grants' = RevokedIf(Taken({s \in had : s \notin restore.ids \/ ledger[s] # NoLedger}))
        ELSE UNCHANGED <<live, ledger, grants>>
  /\ UNCHANGED <<parent, owner, role, deleted, screen, commands, imports>>

(* The expiry of a grant passes.                                            *)
Expire(i) ==
  /\ Expiring /\ grants[i].active /\ ~grants[i].expired
  /\ grants' = [grants EXCEPT ![i].expired = TRUE]
  /\ UNCHANGED <<resources, owner, ledger, role, deleted, screen, restore, commands, imports>>

Ask(u) ==
  \/ \E s \in Scopes : Look(u, s)
  \/ \E d \in Roles :
       \/ \E perms \in SUBSET Permissions \ {{}} : CreateRole(u, d, perms) \/ MintRevision(u, d, perms)
       \/ RetireRole(u, d)
       \/ \E p \in Principals, n \in 1 .. MaxRevisions : Assign(u, p, d, n)
  \/ \E i \in DOMAIN grants :
       RevokeGrant(u, i) \/ \E n \in 1 .. MaxRevisions : Repin(u, i, n)
  \/ \E o \in Users \cup {None} : SetOwner(u, o)
  \/ \E h \in Habitats : CreateHabitat(u, h)
  \/ \E t \in Teams : DeleteTeam(u, t)

Next ==
  \/ \E u \in Users : Ask(u)
  \/ \E s \in Scopes : Delete(s)
  \/ \E a \in Agents : DeleteAgent(a)
  \/ \E h \in Habitats : \E ids \in SUBSET (Missions \cup Tasks) : PrepareRestore(h, ids)
  \/ PublishRestore
  \/ \E i \in DOMAIN grants : Expire(i)

Spec == Init /\ [][Next]_vars
-----------------------------------------------------------------------------
(***************************************************************************)
(* Properties                                                              *)
(***************************************************************************)
TypeOK ==
  /\ live \subseteq Scopes /\ parent \in [Scopes -> Scopes \cup {None}]
  /\ owner \in [Habitats -> Users \cup {None}]
  /\ ledger \in [Scopes -> [incarnation : Nat, version : Nat, active : BOOLEAN]]
  /\ \A i \in DOMAIN grants : grants[i].scope \in Scopes /\ grants[i].role \in Roles

(* A grant that is active is of the incarnation that its scope has now, and *)
(* its role is in use: custody takes back every grant with its scope, and   *)
(* the end of a role takes back its grants wherever they are.               *)
GrantsAreCurrent ==
  \A i \in DOMAIN grants : grants[i].active =>
    /\ grants[i].scope \in live /\ ledger[grants[i].scope].active
    /\ grants[i].incarnation = ledger[grants[i].scope].incarnation
    /\ role[grants[i].role].status = "active"
    /\ role[grants[i].role].namespace \in Chain(grants[i].scope) \cup {None}

(* Nobody holds the same role at the same scope twice.                      *)
GrantsAreSingle ==
  \A i, j \in DOMAIN grants :
    grants[i].active /\ grants[j].active /\ i # j =>
      \/ grants[i].who # grants[j].who \/ grants[i].role # grants[j].role
      \/ grants[i].scope # grants[j].scope

(* While the versions that a person has seen are accepted, the grants and   *)
(* the roles of the scope are those the person has seen, but for the grants *)
(* of deleted agents: no command acts on a roster its author has not seen.  *)
ScreensAreTrue ==
  \A u \in Users :
    screen[u].scope # None /\ Active(screen[u].scope) /\ Expected(u, screen[u].scope) =>
      LET now == Rows(screen[u].scope)
      IN /\ now.roles = screen[u].roles /\ now.grants \subseteq screen[u].grants
         /\ \A g \in screen[u].grants \ now.grants : grants[g[1]].who \in deleted

(* What exists can be governed: a resource never lives on with a ledger     *)
(* that is retired, which no command and no decision would ever accept.     *)
LiveIsGoverned == \A s \in live : Active(s)

(* Authority comes from a command: a step in which an agent or a person     *)
(* gains a permission through roles at a target that was there makes a      *)
(* grant or pins one anew.  No deletion, restore or new incarnation does.   *)
AuthorityIsGiven ==
  [][\A p \in Principals, perm \in Permissions, s \in live :
       ~Granted(p, perm, s) /\ Granted(p, perm, s)' =>
         \E i \in DOMAIN grants' :
           i \in DOMAIN grants => grants'[i].revision # grants[i].revision]_vars

(* A ledger only moves on: to later versions, from active to retired, and   *)
(* from retired to another incarnation.                                     *)
LedgersMoveOn ==
  [][\A s \in DOMAIN ledger :
       \/ ledger'[s] = ledger[s]
       \/ ledger'[s].incarnation > ledger[s].incarnation
       \/ /\ ledger'[s].incarnation = ledger[s].incarnation
          /\ ledger[s].active /\ ledger'[s].version > ledger[s].version]_vars

RolesAgree == GrantsAreCurrent /\ GrantsAreSingle /\ ScreensAreTrue /\ LiveIsGoverned
=============================================================================
