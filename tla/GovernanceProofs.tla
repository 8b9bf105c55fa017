-------------------------- MODULE GovernanceProofs --------------------------
(***************************************************************************)
(* Theorems about who may do what: local roles, which are extended, and    *)
(* two instances over variables of their own, the idempotency keys of a    *)
(* remote participant and the access of its pod.                           *)
(*                                                                         *)
(* Of roles, chains of resources come first, then an invariant of the rows *)
(* (`GovernanceInv`), and what a step does to them (`Moves`): each scope   *)
(* stays, is bumped, goes, is renewed or comes, and roles and grants       *)
(* change only where the ledger of their scope shows it.  Every action is  *)
(* one of the moves, and the moves keep the invariant.  Resources that an  *)
(* import restores are taken to stay until it is published                 *)
(* (`~RestoreRaces`): otherwise one may live on with a retired ledger.     *)
(***************************************************************************)
EXTENDS RoleGovernance, FiniteSetTheorems, TLAPS

CONSTANTS
  Requests, Bodies, MaxFaults, MaxLapses,               \* of RemoteRequests
  Credentials, Grants, PodWide, Windows, RemoteScopes,  \* of RemoteAccess
  MaxTime, MaxCrashes

VARIABLES
  once, record, asked, effects, expiries, crashes, errors,
  now, invite, pod, participant, standing, credentials, given, stream, told, halts, orders

Keys == INSTANCE RemoteRequests WITH
  call <- asked, lapses <- expiries, faults <- errors
Access == INSTANCE RemoteAccess WITH
  Scopes <- RemoteScopes, grants <- given, crashes <- halts, commands <- orders

(***************************************************************************)
(* Where things are                                                        *)
(***************************************************************************)
(* A map of every resource to what it is in.                                *)
Shaped(p) ==
  /\ p \in [Scopes -> Scopes \cup {None}]
  /\ \A t \in Teams : p[t] = None
  /\ \A h \in Habitats : p[h] \in Teams \cup {None}
  /\ \A m \in Missions : p[m] \in Habitats
  /\ \A k \in Tasks : p[k] \in Missions

Above(p, s) == IF s = None THEN None ELSE p[s]
ChainIn(p, s) == {s, Above(p, s), Above(p, Above(p, s)), Above(p, Above(p, Above(p, s)))} \ {None}

(* The four kinds of chain.                                                 *)
LEMMA ChainOf ==
  ASSUME NEW p, Shaped(p)
  PROVE  /\ \A t \in Teams : ChainIn(p, t) = {t}
         /\ \A h \in Habitats : ChainIn(p, h) = {h, p[h]} \ {None}
         /\ \A m \in Missions : ChainIn(p, m) = {m, p[m], p[p[m]]} \ {None}
         /\ \A k \in Tasks : ChainIn(p, k) = {k, p[k], p[p[k]], p[p[p[k]]]} \ {None}
<1>1. /\ None \notin Scopes
      /\ Teams \subseteq Scopes /\ Habitats \subseteq Scopes /\ Missions \subseteq Scopes /\ Tasks \subseteq Scopes
  BY GovernanceAssumption DEF Scopes
<1>2. ASSUME NEW t \in Teams PROVE ChainIn(p, t) = {t}
  <2>1. t # None /\ p[t] = None
    BY <1>1 DEF Shaped
  <2>2. QED BY <2>1 DEF ChainIn, Above
<1>3. ASSUME NEW h \in Habitats PROVE ChainIn(p, h) = {h, p[h]} \ {None}
  <2>1. h # None /\ (p[h] = None \/ (p[h] # None /\ p[p[h]] = None))
    BY <1>1 DEF Shaped
  <2>2. QED BY <2>1 DEF ChainIn, Above
<1>4. ASSUME NEW m \in Missions PROVE ChainIn(p, m) = {m, p[m], p[p[m]]} \ {None}
  <2>1. m # None /\ p[m] # None /\ (p[p[m]] = None \/ (p[p[m]] # None /\ p[p[p[m]]] = None))
    BY <1>1 DEF Shaped
  <2>2. QED BY <2>1 DEF ChainIn, Above
<1>5. ASSUME NEW k \in Tasks PROVE ChainIn(p, k) = {k, p[k], p[p[k]], p[p[p[k]]]} \ {None}
  <2>1. k # None /\ p[k] # None /\ p[p[k]] # None
    BY <1>1 DEF Shaped
  <2>2. QED BY <2>1 DEF ChainIn, Above
<1>6. QED BY <1>2, <1>3, <1>4, <1>5

LEMMA KindsDiffer ==
  /\ None \notin Scopes
  /\ Teams \subseteq Scopes /\ Habitats \subseteq Scopes /\ Missions \subseteq Scopes /\ Tasks \subseteq Scopes
  /\ \A s \in Scopes : s \in Teams \/ s \in Habitats \/ s \in Missions \/ s \in Tasks
  /\ \A s \in Teams : s \notin Habitats /\ s \notin Missions /\ s \notin Tasks
  /\ \A s \in Habitats : s \notin Missions /\ s \notin Tasks
  /\ \A s \in Missions : s \notin Tasks
BY GovernanceAssumption, HierarchyAssumption DEF Scopes

(* What is above a resource's parent is above the resource.                 *)
LEMMA ChainUp ==
  ASSUME NEW p, Shaped(p), NEW s \in Scopes
  PROVE  /\ s \in ChainIn(p, s) /\ ChainIn(p, s) \subseteq Scopes
         /\ p[s] # None => p[s] \in ChainIn(p, s) /\ ChainIn(p, p[s]) \subseteq ChainIn(p, s)
         /\ ChainIn(p, s) = {s} \cup (IF p[s] = None THEN {} ELSE ChainIn(p, p[s]))
<1>1. CASE s \in Teams
  BY <1>1, ChainOf, KindsDiffer DEF Shaped
<1>2. CASE s \in Habitats
  <2>1. p[s] \in Teams \/ p[s] = None
    BY <1>2 DEF Shaped
  <2>2. QED BY <1>2, <2>1, ChainOf, KindsDiffer DEF Shaped
<1>3. CASE s \in Missions
  <2>1. p[s] \in Habitats
    BY <1>3 DEF Shaped
  <2>2. p[p[s]] \in Teams \cup {None}
    BY <2>1 DEF Shaped
  <2>3. QED BY <1>3, <2>1, <2>2, ChainOf, KindsDiffer
<1>4. CASE s \in Tasks
  <2>1. p[s] \in Missions
    BY <1>4 DEF Shaped
  <2>2. p[p[s]] \in Habitats
    BY <2>1 DEF Shaped
  <2>3. p[p[p[s]]] \in Teams \cup {None}
    BY <2>2 DEF Shaped
  <2>4. QED BY <1>4, <2>1, <2>2, <2>3, ChainOf, KindsDiffer
<1>5. QED BY <1>1, <1>2, <1>3, <1>4, KindsDiffer

(* A team goes: chains end where it was.                                    *)
LEMMA ChainCut ==
  ASSUME NEW p, Shaped(p), NEW t \in Teams, NEW q,
         q = [x \in Scopes |-> IF p[x] = t THEN None ELSE p[x]]
  PROVE  /\ Shaped(q)
         /\ \A x \in Scopes : x # t => ChainIn(q, x) = ChainIn(p, x) \ {t}
         /\ ChainIn(q, t) = ChainIn(p, t)
<1>1. Shaped(q)
  <2>1. ASSUME NEW x \in Scopes PROVE q[x] = IF p[x] = t THEN None ELSE p[x]
    OBVIOUS
  <2>2. q \in [Scopes -> Scopes \cup {None}]
    BY DEF Shaped
  <2>3. QED BY <2>1, <2>2, KindsDiffer DEF Shaped
<1>2. ASSUME NEW x \in Scopes PROVE q[x] = IF p[x] = t THEN None ELSE p[x]
  OBVIOUS
<1>3. ASSUME NEW x \in Teams PROVE ChainIn(q, x) = {x} /\ ChainIn(p, x) = {x}
  BY <1>1, <1>3, ChainOf
<1>4. ASSUME NEW x \in Habitats PROVE ChainIn(q, x) = ChainIn(p, x) \ {t}
  <2>1. x # t /\ q[x] = IF p[x] = t THEN None ELSE p[x]
    BY <1>2, KindsDiffer
  <2>2. ChainIn(q, x) = {x, q[x]} \ {None} /\ ChainIn(p, x) = {x, p[x]} \ {None}
    BY <1>1, ChainOf
  <2>3. QED BY <2>1, <2>2
<1>5. ASSUME NEW x \in Missions PROVE ChainIn(q, x) = ChainIn(p, x) \ {t}
  <2>1. p[x] \in Habitats
    BY DEF Shaped
  <2>2. q[x] = p[x] /\ x # t
    BY <1>2, <2>1, KindsDiffer
  <2>3. ChainIn(q, x) = {x} \cup ChainIn(q, q[x]) /\ ChainIn(p, x) = {x} \cup ChainIn(p, p[x])
    BY <1>1, <2>1, <2>2, ChainUp, KindsDiffer
  <2>4. QED BY <1>4, <2>1, <2>2, <2>3
<1>6. ASSUME NEW x \in Tasks PROVE ChainIn(q, x) = ChainIn(p, x) \ {t}
  <2>1. p[x] \in Missions
    BY DEF Shaped
  <2>2. q[x] = p[x] /\ x # t
    BY <1>2, <2>1, KindsDiffer
  <2>3. ChainIn(q, x) = {x} \cup ChainIn(q, q[x]) /\ ChainIn(p, x) = {x} \cup ChainIn(p, p[x])
    BY <1>1, <2>1, <2>2, ChainUp, KindsDiffer
  <2>4. QED BY <1>5, <2>1, <2>2, <2>3
<1>7. QED BY <1>1, <1>3, <1>4, <1>5, <1>6, KindsDiffer

(* A habitat comes: what was not in it stays where it is.                   *)
LEMMA ChainGrown ==
  ASSUME NEW p, Shaped(p), NEW h \in Habitats, NEW t \in Teams, NEW q, q \in [Scopes -> Scopes \cup {None}],
         q[h] = t, \A x \in Scopes \ {h} : q[x] = p[x]
  PROVE  /\ Shaped(q)
         /\ \A x \in Scopes : h \notin ChainIn(p, x) => ChainIn(q, x) = ChainIn(p, x)
<1>1. q \in [Scopes -> Scopes \cup {None}] /\ q[h] = t /\ \A x \in Scopes \ {h} : q[x] = p[x]
  OBVIOUS
<1>2. Shaped(q)
  <2>1. \A x \in Teams : q[x] = None
    BY <1>1, KindsDiffer DEF Shaped
  <2>2. \A x \in Habitats : q[x] \in Teams \cup {None}
    BY <1>1, KindsDiffer DEF Shaped
  <2>3. (\A x \in Missions : q[x] \in Habitats) /\ (\A x \in Tasks : q[x] \in Missions)
    BY <1>1, KindsDiffer DEF Shaped
  <2>4. QED BY <1>1, <2>1, <2>2, <2>3 DEF Shaped
<1>3. ASSUME NEW x \in Teams PROVE ChainIn(q, x) = ChainIn(p, x)
  <2>1. Shaped(p) /\ Shaped(q)
    BY <1>2
  <2>2. ChainIn(q, x) = {x} /\ ChainIn(p, x) = {x}
    BY <2>1, ChainOf, Zenon
  <2>3. QED BY <2>2, Zenon
<1>4. ASSUME NEW x \in Habitats, x # h PROVE ChainIn(q, x) = ChainIn(p, x)
  <2>1. q[x] = p[x]
    BY <1>1, <1>4, KindsDiffer
  <2>2. ChainIn(q, x) = {x, q[x]} \ {None} /\ ChainIn(p, x) = {x, p[x]} \ {None}
    BY <1>2, ChainOf
  <2>3. QED BY <2>1, <2>2
<1>5. ASSUME NEW x \in Missions, h \notin ChainIn(p, x) PROVE ChainIn(q, x) = ChainIn(p, x)
  <2>1. p[x] \in Habitats
    BY DEF Shaped
  <2>2. p[x] # h /\ q[x] = p[x]
    BY <1>1, <1>5, <2>1, ChainUp, KindsDiffer
  <2>3. ChainIn(q, x) = {x} \cup ChainIn(q, q[x]) /\ ChainIn(p, x) = {x} \cup ChainIn(p, p[x])
    BY <1>2, <2>1, <2>2, ChainUp, KindsDiffer
  <2>4. QED BY <1>4, <2>1, <2>2, <2>3
<1>6. ASSUME NEW x \in Tasks, h \notin ChainIn(p, x) PROVE ChainIn(q, x) = ChainIn(p, x)
  <2>1. p[x] \in Missions
    BY DEF Shaped
  <2>2. q[x] = p[x]
    BY <1>1, <2>1, KindsDiffer
  <2>3. ChainIn(q, x) = {x} \cup ChainIn(q, q[x]) /\ ChainIn(p, x) = {x} \cup ChainIn(p, p[x])
    BY <1>2, <2>1, <2>2, ChainUp, KindsDiffer
  <2>4. QED BY <1>5, <1>6, <2>1, <2>2, <2>3
<1>7. ASSUME NEW x \in Scopes, h \notin ChainIn(p, x) PROVE x # h
  BY <1>7, ChainUp
<1>8. ASSUME NEW x \in Scopes, h \notin ChainIn(p, x) PROVE ChainIn(q, x) = ChainIn(p, x)
  <2>1. x # h
    BY <1>7, <1>8
  <2>2. x \in Teams \/ x \in Habitats \/ x \in Missions \/ x \in Tasks
    BY KindsDiffer
  <2>3. QED BY <1>3, <1>4, <1>5, <1>6, <1>8, <2>1, <2>2
<1>9. QED BY <1>2, <1>8

LEMMA ChainIs == \A s : Chain(s) = ChainIn(parent, s) /\ Chain(s)' = ChainIn(parent', s)
  BY DEF Chain, ChainIn, Parent, Above

(***************************************************************************)
(* What holds of the rows                                                  *)
(***************************************************************************)
Entries == [incarnation : Nat, version : Nat, active : BOOLEAN]
RoleRows ==
  [status : {"absent", "active", "retired"}, namespace : Teams \cup Habitats \cup {None},
   incarnation : Nat, revisions : Seq(SUBSET Permissions)]
GrantRows ==
  [who : Principals, role : Roles, revision : Nat, scope : Scopes, incarnation : Nat,
   active : BOOLEAN, version : Nat, expired : BOOLEAN]
Screens ==
  [scope : Scopes \cup {None}, incarnation : Nat, version : Nat,
   grants : SUBSET (Nat \X Nat), roles : SUBSET (Roles \X Nat)]
Restores == [habitat : Habitats \cup {None}, ids : SUBSET (Missions \cup Tasks), drift : BOOLEAN]

RowTypes ==
  /\ owner \in [Habitats -> Users \cup {None}]
  /\ ledger \in [Scopes -> Entries] /\ role \in [Roles -> RoleRows] /\ grants \in Seq(GrantRows)
  /\ screen \in [Users -> Screens] /\ restore \in Restores

(* What exists is in something that exists and can be governed; an import    *)
(* restores what is still there.                                             *)
Rooted ==
  /\ Shaped(parent) /\ live \subseteq Scopes
  /\ \A s \in live : parent[s] # None => parent[s] \in live
  /\ \A s \in Scopes : ledger[s].incarnation = 0 => ledger[s] = NoLedger
  /\ LiveIsGoverned
Restorable ==
  /\ restore.ids \subseteq live
  /\ \A s \in restore.ids : restore.habitat \in Chain(s)
  /\ \A k \in restore.ids \cap Tasks : parent[k] \in restore.ids

(* A role that is in use is of the incarnation its namespace has now.        *)
RolesAreCurrent ==
  \A d \in Roles : role[d].status = "active" =>
    LET space == role[d].namespace
    IN space # None =>
         /\ space \in live /\ ledger[space].active
         /\ role[d].incarnation = ledger[space].incarnation

PinsExist ==
  \A i \in DOMAIN grants : grants[i].active => grants[i].revision \in DOMAIN role[grants[i].role].revisions

(* Nobody has seen a scope later than it is.                                 *)
NotAfter(u, s) ==
  \/ screen[u].incarnation < Incarnation(s)
  \/ screen[u].incarnation = Incarnation(s) /\ screen[u].version <= Version(s)
SeenBefore ==
  \A u \in Users : screen[u].scope # None =>
    /\ NotAfter(u, screen[u].scope)
    /\ screen[u].scope \in live \/ ledger[screen[u].scope] # NoLedger
    /\ \A g \in screen[u].grants : g[1] \in DOMAIN grants

(***************************************************************************)
(* What a step does                                                        *)
(***************************************************************************)
Stays(s) == ledger'[s] = ledger[s] /\ (s \in live' <=> s \in live)
Bumps(s) == Active(s) /\ ledger'[s] = Bumped(s) /\ s \in live'
Goes(s) == s \in live /\ ledger'[s] = Retire(ledger[s]) /\ s \notin live'
Renews(s) == s \in live /\ ledger'[s] = Reenroll(Retire(ledger[s])) /\ s \in live'
Comes(s) == s \notin live /\ ledger[s] = NoLedger /\ ledger'[s] = NoLedger /\ s \in live'

(* The ledgers.                                                              *)
ScopeMoves ==
  /\ ledger' = [s \in Scopes |-> ledger'[s]]
  /\ \A s \in Scopes : Stays(s) \/ Bumps(s) \/ Goes(s) \/ Renews(s) \/ Comes(s)

(* The places.  What is above a resource changes only when a team goes, and  *)
(* that starts a new incarnation of it.                                      *)
TreeMoves ==
  /\ Shaped(parent') /\ live' \subseteq Scopes
  /\ \A s \in live' : parent'[s] # None => parent'[s] \in live'
  /\ \A s \in live \cap live' :
       /\ Chain(s)' \subseteq Chain(s) /\ Chain(s) \ Teams \subseteq Chain(s)'
       /\ ~Renews(s) => Chain(s)' = Chain(s)

(* The roles: one is made, revised or ended, and its namespace shows it.     *)
RoleMoves ==
  /\ role' \in [Roles -> RoleRows]
  /\ \A d \in Roles :
       \/ role'[d] = role[d]
       \/ /\ role[d] = NoRole /\ role'[d].status = "active" /\ role'[d].namespace \in Scopes
          /\ Bumps(role'[d].namespace) /\ role'[d].incarnation = Incarnation(role'[d].namespace)
       \/ /\ role[d].status = "active" /\ role[d].namespace # None
          /\ role'[d].namespace = role[d].namespace /\ role'[d].incarnation = role[d].incarnation
          /\ \/ /\ role'[d].status = "retired" /\ role'[d].revisions = role[d].revisions
                /\ ~Stays(role[d].namespace)
             \/ /\ role'[d].status = "active" /\ Bumps(role[d].namespace)
                /\ \E perms \in SUBSET Permissions : role'[d].revisions = Append(role[d].revisions, perms)
  /\ \A d \in Roles :
       role[d].status = "active" /\ role'[d].status = "active" /\ role[d].namespace # None =>
         Stays(role[d].namespace) \/ Bumps(role[d].namespace)

(* A grant that was there: it is not given to another, is not good again,    *)
(* and its scope shows what happens to it, unless its agent was deleted.     *)
Follows(g, h) ==
  /\ h.who = g.who /\ h.role = g.role /\ h.scope = g.scope /\ h.incarnation = g.incarnation
  /\ h.active => g.active /\ (g.expired => h.expired)
  /\ h.active => Stays(g.scope) \/ Bumps(g.scope)
  /\ h.active /\ h.version # g.version => Bumps(g.scope)
  /\ g.active /\ ~h.active => g.who \in deleted' \/ ~Stays(g.scope)
  /\ h.active => role'[g.role].status = "active"
  /\ h.active => h.revision = g.revision \/ h.revision \in DOMAIN role[g.role].revisions

(* A grant that was not.                                                     *)
Given(h) ==
  /\ h.active /\ Bumps(h.scope) /\ h.incarnation = Incarnation(h.scope)
  /\ role[h.role].status = "active" /\ role' = role
  /\ role[h.role].namespace \in Chain(h.scope) \cup {None}
  /\ h.revision \in DOMAIN role[h.role].revisions

GrantMoves ==
  /\ grants' \in Seq(GrantRows) /\ deleted \subseteq deleted'
  /\ Len(grants') \in {Len(grants), Len(grants) + 1}
  /\ \A i \in DOMAIN grants : Follows(grants[i], grants'[i])
  /\ Len(grants') = Len(grants) + 1 =>
       /\ Given(grants'[Len(grants')])
       /\ \A i \in DOMAIN grants : grants'[i].active =>
            LET g == grants[i]   h == grants'[Len(grants')]
            IN g.who # h.who \/ g.role # h.role \/ g.scope # h.scope

GovernanceInv ==
  /\ RowTypes /\ Rooted /\ Restorable /\ RolesAreCurrent /\ GrantsAreCurrent /\ PinsExist
  /\ GrantsAreSingle /\ SeenBefore /\ ScreensAreTrue

(* What a step does to the rows, and to an import that is under way.         *)
Moves ==
  /\ ScopeMoves /\ TreeMoves /\ RoleMoves /\ GrantMoves /\ Restorable'
  /\ owner' \in [Habitats -> Users \cup {None}] /\ restore' \in Restores

LEMMA ChainDown ==
  ASSUME NEW p, Shaped(p), NEW s \in Scopes, NEW x \in ChainIn(p, s)
  PROVE  x \in Scopes /\ ChainIn(p, x) \subseteq ChainIn(p, s)
<1>1. ASSUME NEW y \in Scopes, p[y] # None
      PROVE  p[y] \in Scopes /\ ChainIn(p, p[y]) \subseteq ChainIn(p, y)
  BY <1>1, ChainUp DEF Shaped
<1>2. x \in {s, Above(p, s), Above(p, Above(p, s)), Above(p, Above(p, Above(p, s)))} /\ x # None
  BY DEF ChainIn
<1>3. s # None
  BY KindsDiffer
<1>4. CASE x = s
  BY <1>4
<1>5. CASE x = p[s]
  BY <1>1, <1>2, <1>5
<1>6. CASE p[s] # None /\ x = p[p[s]]
  <2>1. p[s] \in Scopes /\ ChainIn(p, p[s]) \subseteq ChainIn(p, s)
    BY <1>1, <1>6
  <2>2. x \in Scopes /\ ChainIn(p, x) \subseteq ChainIn(p, p[s])
    BY <1>1, <1>2, <1>6, <2>1
  <2>3. QED BY <2>1, <2>2
<1>7. CASE p[s] # None /\ p[p[s]] # None /\ x = p[p[p[s]]]
  <2>1. p[s] \in Scopes /\ ChainIn(p, p[s]) \subseteq ChainIn(p, s)
    BY <1>1, <1>7
  <2>2. p[p[s]] \in Scopes /\ ChainIn(p, p[p[s]]) \subseteq ChainIn(p, p[s])
    BY <1>1, <1>7, <2>1
  <2>3. x \in Scopes /\ ChainIn(p, x) \subseteq ChainIn(p, p[p[s]])
    BY <1>1, <1>2, <1>7, <2>2
  <2>4. QED BY <2>1, <2>2, <2>3
<1>8. QED BY <1>2, <1>3, <1>4, <1>5, <1>6, <1>7, Zenon DEF Above

(* What is above something that exists exists.                               *)
LEMMA ChainLives ==
  ASSUME Rooted, NEW s \in live
  PROVE  s \in Chain(s) /\ Chain(s) \subseteq live
<1>1. /\ Shaped(parent) /\ live \subseteq Scopes
      /\ \A x \in live : parent[x] # None => parent[x] \in live
  BY DEF Rooted
<1>2. s \in ChainIn(parent, s)
  BY <1>1, ChainUp
<1>3. ASSUME NEW x \in live \cup {None} PROVE Above(parent, x) \in live \cup {None}
  BY <1>1 DEF Above
<1>4. ChainIn(parent, s) \subseteq live
  <2>1. Above(parent, s) \in live \cup {None}
    BY <1>3
  <2>2. Above(parent, Above(parent, s)) \in live \cup {None}
    BY <1>3, <2>1
  <2>3. Above(parent, Above(parent, Above(parent, s))) \in live \cup {None}
    BY <1>3, <2>2
  <2>4. QED BY <2>1, <2>2, <2>3 DEF ChainIn
<1>5. QED BY <1>2, <1>4, ChainIs, Zenon

LEMMA TreeStays ==
  ASSUME Rooted, UNCHANGED resources
  PROVE  TreeMoves
<1>1. parent' = parent /\ live' = live
  BY DEF resources
<1>2. \A s : Chain(s)' = Chain(s)
  BY <1>1, ChainIs
<1>3. QED BY <1>1, <1>2 DEF TreeMoves, Rooted

LEMMA RolesStay ==
  ASSUME RowTypes, RolesAreCurrent, role' = role,
         \A d \in Roles : role[d].status = "active" /\ role[d].namespace # None =>
           Stays(role[d].namespace) \/ Bumps(role[d].namespace)
  PROVE  RoleMoves
BY DEF RoleMoves, RowTypes

(* A grant is revoked with its agent, or its scope shows it.                 *)
LEMMA Revocations ==
  ASSUME RowTypes, NEW ids, grants' = RevokedIf(ids), deleted \subseteq deleted',
         \A i \in DOMAIN grants : grants[i].active =>
           IF i \in ids THEN grants[i].who \in deleted' \/ ~Stays(grants[i].scope)
           ELSE /\ Stays(grants[i].scope) \/ Bumps(grants[i].scope)
                /\ role'[grants[i].role].status = "active"
  PROVE  GrantMoves
<1>1. grants \in Seq(GrantRows) /\ DOMAIN grants = 1 .. Len(grants) /\ Len(grants) \in Nat
  BY DEF RowTypes
<1>2. ASSUME NEW i \in DOMAIN grants
      PROVE  grants'[i] \in GrantRows /\ Follows(grants[i], grants'[i])
  <2>1. grants[i] \in GrantRows
    BY <1>1
  <2>2. CASE i \in ids
    <3>1. grants'[i] = Revoke(grants[i])
      BY <2>2 DEF RevokedIf
    <3> DEFINE h == Revoke(grants[i])
    <3>2. /\ h \in GrantRows /\ ~h.active /\ h.who = grants[i].who /\ h.role = grants[i].role
          /\ h.scope = grants[i].scope /\ h.incarnation = grants[i].incarnation
          /\ h.expired = grants[i].expired
      <4> DEFINE v == grants[i].version + 1
      <4>1. v \in Nat
        BY <2>1 DEF GrantRows
      <4>2. h = [grants[i] EXCEPT !.active = FALSE, !.version = v]
        BY DEF Revoke
      <4> HIDE DEF v, h
      <4>3. QED BY <2>1, <4>1, <4>2 DEF GrantRows
    <3> HIDE DEF h
    <3>3. grants[i].active => grants[i].who \in deleted' \/ ~Stays(grants[i].scope)
      BY <2>2
    <3>4. Follows(grants[i], h)
      BY <3>2, <3>3, Zenon DEF Follows
    <3>5. grants'[i] = h
      BY <3>1 DEF h
    <3>6. QED BY <3>2, <3>4, <3>5
  <2>3. CASE i \notin ids
    <3>1. grants'[i] = grants[i]
      BY <2>3 DEF RevokedIf
    <3>2. grants[i].active =>
            /\ Stays(grants[i].scope) \/ Bumps(grants[i].scope)
            /\ role'[grants[i].role].status = "active"
      BY <2>3
    <3>3. Follows(grants[i], grants[i])
      BY <3>2, Zenon DEF Follows
    <3>4. QED BY <2>1, <3>1, <3>3
  <2>4. QED BY <2>2, <2>3
<1>3. grants' \in Seq(GrantRows) /\ Len(grants') = Len(grants)
  <2>1. grants' = [i \in 1 .. Len(grants) |-> grants'[i]]
    BY <1>1 DEF RevokedIf
  <2>2. QED BY <1>1, <1>2, <2>1
<1>4. Len(grants') \in {Len(grants), Len(grants) + 1} /\ Len(grants') # Len(grants) + 1
  <2> DEFINE n == Len(grants)   m == Len(grants')
  <2>1. n \in Nat /\ m = n
    BY <1>1, <1>3
  <2> HIDE DEF n, m
  <2>2. m \in {n, n + 1} /\ m # n + 1
    BY <2>1
  <2>3. QED BY <2>2 DEF n, m
<1>5. \A i \in DOMAIN grants : Follows(grants[i], grants'[i])
  BY <1>2
<1>6. Len(grants') = Len(grants) + 1 =>
       /\ Given(grants'[Len(grants')])
       /\ \A i \in DOMAIN grants : grants'[i].active =>
            LET g == grants[i]   h == grants'[Len(grants')]
            IN g.who # h.who \/ g.role # h.role \/ g.scope # h.scope
  BY <1>4, Zenon
<1>7. QED BY <1>3, <1>4, <1>5, <1>6, Zenon DEF GrantMoves

LEMMA GrantsStay ==
  ASSUME RowTypes, grants' = grants, deleted' = deleted,
         \A i \in DOMAIN grants : grants[i].active =>
           /\ Stays(grants[i].scope) \/ Bumps(grants[i].scope)
           /\ role'[grants[i].role].status = "active"
  PROVE  GrantMoves
<1>1. grants \in Seq(GrantRows)
  BY DEF RowTypes
<1>2. RevokedIf({}) = grants
  <2>1. RevokedIf({}) = [i \in DOMAIN grants |-> grants[i]]
    BY DEF RevokedIf
  <2>2. QED BY <1>1, <2>1
<1>3. \A i \in DOMAIN grants : grants[i].active =>
        IF i \in {} THEN grants[i].who \in deleted' \/ ~Stays(grants[i].scope)
        ELSE /\ Stays(grants[i].scope) \/ Bumps(grants[i].scope)
             /\ role'[grants[i].role].status = "active"
  OBVIOUS
<1>4. QED BY <1>2, <1>3, Revocations

(* A command touches the ledger of scopes that are active.                   *)
LEMMA Commanded ==
  ASSUME Rooted, RowTypes, UNCHANGED resources, NEW S, \A s \in S : s \in Scopes /\ Active(s),
         ledger' = [s \in Scopes |-> IF s \in S THEN Bumped(s) ELSE ledger[s]]
  PROVE  /\ ScopeMoves /\ \A s \in Scopes : Stays(s) \/ Bumps(s)
         /\ \A s \in S : Bumps(s) /\ ~Stays(s)
<1>1. ledger \in [Scopes -> Entries] /\ live' = live
  BY DEF RowTypes, resources
<1>2. ASSUME NEW s \in S PROVE Bumps(s)
  BY <1>1 DEF Bumps, Active
<1>3. ASSUME NEW s \in S PROVE ~Stays(s)
  <2>1. ledger'[s] = Bumped(s) /\ ledger[s] \in Entries
    BY <1>1
  <2>2. CASE ledger[s].incarnation = 0
    <3>1. ledger[s] = NoLedger
      BY <2>2 DEF Rooted
    <3>2. ledger'[s].incarnation = 1
      BY <2>1, <2>2 DEF Bumped, Incarnation
    <3>3. QED BY <2>2, <3>2 DEF Stays
  <2>3. CASE ledger[s].incarnation # 0
    <3>1. ledger'[s].version = ledger[s].version + 1
      BY <2>1, <2>3 DEF Bumped, Version
    <3>2. ledger[s].version \in Nat
      BY <2>1 DEF Entries
    <3>3. QED BY <3>1, <3>2 DEF Stays
  <2>4. QED BY <2>2, <2>3
<1>4. ASSUME NEW s \in Scopes, s \notin S PROVE Stays(s)
  BY <1>1, <1>4 DEF Stays
<1>5. ledger' = [s \in Scopes |-> ledger'[s]]
  OBVIOUS
<1>6. QED BY <1>2, <1>3, <1>4, <1>5 DEF ScopeMoves

(* Grants and roles that are good are of scopes that exist.                  *)
LEMMA GoodOnes ==
  ASSUME GovernanceInv
  PROVE  /\ \A i \in DOMAIN grants : grants[i] \in GrantRows
         /\ \A i \in DOMAIN grants : grants[i].active =>
              /\ grants[i].scope \in live /\ grants[i].scope \in Scopes /\ grants[i].role \in Roles
              /\ role[grants[i].role].status = "active" /\ Active(grants[i].scope)
              /\ grants[i].incarnation = Incarnation(grants[i].scope)
              /\ ledger[grants[i].scope] # NoLedger
         /\ \A d \in Roles : role[d].status = "active" /\ role[d].namespace # None =>
              role[d].namespace \in live /\ role[d].namespace \in Scopes
<1>1. /\ grants \in Seq(GrantRows) /\ ledger \in [Scopes -> Entries] /\ live \subseteq Scopes
      /\ GrantsAreCurrent /\ RolesAreCurrent /\ \A s \in Scopes : ledger[s].incarnation = 0 => ledger[s] = NoLedger
  BY DEF GovernanceInv, RowTypes, Rooted
<1>2. ASSUME NEW i \in DOMAIN grants, grants[i].active
      PROVE  /\ grants[i].scope \in live /\ grants[i].scope \in Scopes
             /\ role[grants[i].role].status = "active" /\ Active(grants[i].scope)
             /\ grants[i].incarnation = Incarnation(grants[i].scope)
             /\ ledger[grants[i].scope] # NoLedger
  <2>1. /\ grants[i].scope \in live /\ ledger[grants[i].scope].active
        /\ grants[i].incarnation = ledger[grants[i].scope].incarnation
        /\ role[grants[i].role].status = "active"
    BY <1>1, <1>2, Zenon DEF GrantsAreCurrent
  <2>2. ledger[grants[i].scope] # NoLedger
    BY <2>1 DEF NoLedger
  <2>3. QED BY <1>1, <2>1, <2>2 DEF Active, Incarnation
<1>3. ASSUME NEW i \in DOMAIN grants PROVE grants[i] \in GrantRows
  BY <1>1
<1>4. \A i \in DOMAIN grants : grants[i].role \in Roles
  BY <1>3 DEF GrantRows
<1>5. QED BY <1>1, <1>2, <1>3, <1>4 DEF RolesAreCurrent

LEMMA RestoreStays ==
  ASSUME Restorable, UNCHANGED resources, restore'.ids = restore.ids, restore'.habitat = restore.habitat
  PROVE  Restorable'
<1>1. parent' = parent /\ live' = live
  BY DEF resources
<1>2. \A s : Chain(s)' = Chain(s)
  BY <1>1, ChainIs
<1>3. QED BY <1>1, <1>2 DEF Restorable

(* A command that touches neither the roles nor the grants but by what is    *)
(* said of them.                                                             *)
LEMMA CommandMoves ==
  ASSUME GovernanceInv, UNCHANGED <<resources, deleted, restore>>, owner' \in [Habitats -> Users \cup {None}],
         NEW S, \A s \in S : s \in Scopes /\ Active(s),
         ledger' = [s \in Scopes |-> IF s \in S THEN Bumped(s) ELSE ledger[s]],
         RoleMoves, GrantMoves
  PROVE  Moves
<1>1. ScopeMoves /\ TreeMoves /\ Restorable'
  BY Commanded, TreeStays, RestoreStays, Zenon DEF GovernanceInv
<1>2. QED BY <1>1 DEF Moves, GovernanceInv, RowTypes

LEMMA BumpOne ==
  ASSUME RowTypes, NEW s \in Scopes, ledger' = [ledger EXCEPT ![s] = Bumped(s)]
  PROVE  ledger' = [x \in Scopes |-> IF x \in {s} THEN Bumped(x) ELSE ledger[x]]
BY DEF RowTypes

LEMMA PositionsAreNumbers ==
  ASSUME RowTypes, NEW s \in Scopes
  PROVE  Incarnation(s) \in Nat /\ Version(s) \in Nat
<1>1. ledger[s] \in Entries
  BY DEF RowTypes
<1>2. QED BY <1>1 DEF Entries, Incarnation, Version

LEMMA CreateRoleMoves ==
  ASSUME GovernanceInv, NEW u \in Users, NEW d \in Roles, NEW perms \in SUBSET Permissions,
         CreateRole(u, d, perms)
  PROVE  Moves
<1> DEFINE s == screen[u].scope
           r == [status |-> "active", namespace |-> s, incarnation |-> Incarnation(s), revisions |-> <<perms>>]
<1>1. /\ s \in Teams \cup Habitats /\ Active(s) /\ role[d] = NoRole
      /\ ledger' = [ledger EXCEPT ![s] = Bumped(s)] /\ role' = [role EXCEPT ![d] = r]
      /\ UNCHANGED <<resources, owner, grants, deleted, screen, restore>>
  BY DEF CreateRole, Command
<1>2. s \in Scopes /\ RowTypes /\ Rooted
  BY <1>1 DEF Scopes, GovernanceInv
<1>3. r \in RoleRows /\ r.status = "active" /\ r.namespace = s /\ r.incarnation = Incarnation(s)
  BY <1>1, <1>2, PositionsAreNumbers DEF RoleRows
<1> HIDE DEF s, r
<1>4. ledger' = [x \in Scopes |-> IF x \in {s} THEN Bumped(x) ELSE ledger[x]]
  BY <1>1, <1>2, BumpOne
<1>5. Bumps(s) /\ \A x \in Scopes : Stays(x) \/ Bumps(x)
  BY <1>1, <1>2, <1>4, Commanded
<1>6. /\ role' \in [Roles -> RoleRows] /\ role'[d] = r /\ role[d].status = "absent"
      /\ \A e \in Roles \ {d} : role'[e] = role[e]
  BY <1>1, <1>2, <1>3 DEF RowTypes, NoRole
<1>7. RoleMoves
  <2>1. \A e \in Roles : role[e].status = "active" /\ role[e].namespace # None => role[e].namespace \in Scopes
    BY GoodOnes
  <2>2. QED BY <1>1, <1>2, <1>3, <1>5, <1>6, <2>1 DEF RoleMoves
<1>8. GrantMoves
  <2>1. ASSUME NEW i \in DOMAIN grants, grants[i].active
        PROVE  /\ Stays(grants[i].scope) \/ Bumps(grants[i].scope)
               /\ role'[grants[i].role].status = "active"
    BY <1>5, <1>6, <2>1, GoodOnes
  <2>2. QED BY <1>1, <1>2, <2>1, GrantsStay
<1>9. owner' \in [Habitats -> Users \cup {None}]
  BY <1>1, <1>2 DEF RowTypes
<1>10. \A x \in {s} : x \in Scopes /\ Active(x)
  BY <1>1, <1>2
<1>11. QED BY <1>1, <1>4, <1>7, <1>8, <1>9, <1>10, CommandMoves

LEMMA MintRevisionMoves ==
  ASSUME GovernanceInv, NEW u \in Users, NEW d \in Roles, NEW perms \in SUBSET Permissions,
         MintRevision(u, d, perms)
  PROVE  Moves
<1> DEFINE s == role[d].namespace
           r == [role[d] EXCEPT !.revisions = Append(@, perms)]
<1>1. /\ Active(s) /\ role[d].status = "active"
      /\ ledger' = [ledger EXCEPT ![s] = Bumped(s)] /\ role' = [role EXCEPT ![d].revisions = Append(@, perms)]
      /\ UNCHANGED <<resources, owner, grants, deleted, screen, restore>>
  BY DEF MintRevision, Changes, Command
<1>2. s \in Scopes /\ s # None /\ RowTypes /\ Rooted
  BY <1>1, KindsDiffer DEF Active, GovernanceInv, Rooted
<1>3. role[d] \in RoleRows
  BY <1>2 DEF RowTypes
<1>4. /\ r \in RoleRows /\ r.status = "active" /\ r.namespace = s /\ r.incarnation = role[d].incarnation
      /\ r.revisions = Append(role[d].revisions, perms)
  <2> DEFINE more == Append(role[d].revisions, perms)
  <2>1. more \in Seq(SUBSET Permissions)
    BY <1>3 DEF RoleRows
  <2>2. r = [role[d] EXCEPT !.revisions = more]
    OBVIOUS
  <2> HIDE DEF more, r
  <2>3. /\ r \in RoleRows /\ r.status = role[d].status /\ r.namespace = role[d].namespace
        /\ r.incarnation = role[d].incarnation /\ r.revisions = more
    BY <1>3, <2>1, <2>2 DEF RoleRows
  <2>4. QED BY <1>1, <2>3 DEF more
<1>5. role' = [role EXCEPT ![d] = r]
  BY <1>1
<1> HIDE DEF s, r
<1>6. ledger' = [x \in Scopes |-> IF x \in {s} THEN Bumped(x) ELSE ledger[x]]
  BY <1>1, <1>2, BumpOne
<1>7. Bumps(s) /\ \A x \in Scopes : Stays(x) \/ Bumps(x)
  BY <1>1, <1>2, <1>6, Commanded
<1>8. /\ role' \in [Roles -> RoleRows] /\ role'[d] = r
      /\ \A e \in Roles \ {d} : role'[e] = role[e]
  BY <1>2, <1>4, <1>5 DEF RowTypes
<1>9. RoleMoves
  <2>1. \A e \in Roles : role[e].status = "active" /\ role[e].namespace # None => role[e].namespace \in Scopes
    BY GoodOnes
  <2>2. role[d].namespace = s
    BY DEF s
  <2>3. QED BY <1>1, <1>2, <1>4, <1>7, <1>8, <2>1, <2>2 DEF RoleMoves
<1>10. GrantMoves
  <2>1. ASSUME NEW i \in DOMAIN grants, grants[i].active
        PROVE  /\ Stays(grants[i].scope) \/ Bumps(grants[i].scope)
               /\ role'[grants[i].role].status = "active"
    BY <1>4, <1>7, <1>8, <2>1, GoodOnes
  <2>2. QED BY <1>1, <1>2, <2>1, GrantsStay
<1>11. owner' \in [Habitats -> Users \cup {None}]
  BY <1>1, <1>2 DEF RowTypes
<1>12. \A x \in {s} : x \in Scopes /\ Active(x)
  BY <1>1, <1>2
<1>13. QED BY <1>1, <1>6, <1>9, <1>10, <1>11, <1>12, CommandMoves

LEMMA RetireRoleMoves ==
  ASSUME GovernanceInv, NEW u \in Users, NEW d \in Roles, RetireRole(u, d)
  PROVE  Moves
<1> DEFINE s == role[d].namespace
           r == [role[d] EXCEPT !.status = "retired"]
           S == Affected(d) \cup {s}
<1>1. /\ Active(s) /\ role[d].status = "active" /\ role' = [role EXCEPT ![d].status = "retired"]
      /\ ledger' = [x \in Scopes |-> IF x \in S THEN Bumped(x) ELSE ledger[x]]
      /\ grants' = RevokedIf(Of(d))
      /\ UNCHANGED <<resources, owner, deleted, screen, restore>>
  BY DEF RetireRole, Changes, Command
<1>2. s \in Scopes /\ s # None /\ RowTypes /\ Rooted
  BY <1>1, KindsDiffer DEF Active, GovernanceInv, Rooted
<1>3. role[d] \in RoleRows
  BY <1>2 DEF RowTypes
<1>4. /\ r \in RoleRows /\ r.status = "retired" /\ r.namespace = s /\ r.incarnation = role[d].incarnation
      /\ r.revisions = role[d].revisions
  BY <1>1, <1>3 DEF RoleRows
<1>5. role' = [role EXCEPT ![d] = r]
  BY <1>1
<1>6. \A x \in S : x \in Scopes /\ Active(x)
  BY <1>1, <1>2 DEF Affected
<1>7. role[d].namespace = s
  BY DEF s
<1> HIDE DEF s, r
<1>8. /\ role' \in [Roles -> RoleRows] /\ role'[d] = r
      /\ \A e \in Roles \ {d} : role'[e] = role[e]
  BY <1>2, <1>4, <1>5 DEF RowTypes
<1>9. \A i \in DOMAIN grants : grants[i].active /\ grants[i].role = d => grants[i].scope \in S
  <2>1. ASSUME NEW i \in DOMAIN grants, grants[i].active, grants[i].role = d, grants[i].scope # role[d].namespace
        PROVE  grants[i].scope \in Affected(d)
    <3>1. /\ grants[i].scope \in Scopes /\ Active(grants[i].scope)
          /\ grants[i].incarnation = Incarnation(grants[i].scope)
      BY <2>1, GoodOnes
    <3>2. i \in Of(d)
      BY <2>1 DEF Of
    <3>3. QED BY <2>1, <3>1, <3>2, Zenon DEF Affected
  <2>2. QED BY <1>7, <2>1
<1>10. s \in S
  OBVIOUS
<1> HIDE DEF S
<1>11. /\ \A x \in Scopes : Stays(x) \/ Bumps(x)
       /\ \A x \in S : Bumps(x) /\ ~Stays(x)
  BY <1>1, <1>2, <1>6, Commanded
<1>12. RoleMoves
  <2>1. \A e \in Roles : role[e].status = "active" /\ role[e].namespace # None => role[e].namespace \in Scopes
    BY GoodOnes
  <2>2. QED BY <1>1, <1>2, <1>4, <1>7, <1>8, <1>10, <1>11, <2>1 DEF RoleMoves
<1>13. GrantMoves
  <2>1. ASSUME NEW i \in DOMAIN grants, grants[i].active
        PROVE  IF i \in Of(d) THEN grants[i].who \in deleted' \/ ~Stays(grants[i].scope)
               ELSE /\ Stays(grants[i].scope) \/ Bumps(grants[i].scope)
                    /\ role'[grants[i].role].status = "active"
    <3>1. CASE grants[i].role = d
      BY <1>9, <1>11, <2>1, <3>1 DEF Of
    <3>2. CASE grants[i].role # d
      <4>1. i \notin Of(d)
        BY <3>2 DEF Of
      <4>2. QED BY <1>8, <1>11, <2>1, <3>2, <4>1, GoodOnes
    <3>3. QED BY <3>1, <3>2
  <2>2. QED BY <1>1, <1>2, <2>1, Revocations
<1>14. owner' \in [Habitats -> Users \cup {None}]
  BY <1>1, <1>2 DEF RowTypes
<1>15. QED BY <1>1, <1>6, <1>12, <1>13, <1>14, CommandMoves

(* Roles that nobody touches, in a command.                                  *)
LEMMA RolesRest ==
  ASSUME GovernanceInv, role' = role, \A x \in Scopes : Stays(x) \/ Bumps(x)
  PROVE  RoleMoves
<1>1. \A d \in Roles : role[d].status = "active" /\ role[d].namespace # None =>
        Stays(role[d].namespace) \/ Bumps(role[d].namespace)
  BY GoodOnes
<1>2. QED BY <1>1, RolesStay DEF GovernanceInv

LEMMA RevokeGrantMoves ==
  ASSUME GovernanceInv, NEW u \in Users, NEW i \in DOMAIN grants, RevokeGrant(u, i)
  PROVE  Moves
<1> DEFINE s == grants[i].scope
<1>1. /\ Active(s) /\ grants[i].active /\ ledger' = [ledger EXCEPT ![s] = Bumped(s)]
      /\ grants' = RevokedIf({i}) /\ UNCHANGED <<resources, owner, role, deleted, screen, restore>>
  BY DEF RevokeGrant, Sees, Command
<1>2. s \in Scopes /\ RowTypes /\ Rooted
  BY <1>1 DEF Active, GovernanceInv, Rooted
<1> HIDE DEF s
<1>3. ledger' = [x \in Scopes |-> IF x \in {s} THEN Bumped(x) ELSE ledger[x]]
  BY <1>1, <1>2, BumpOne
<1>4. \A x \in {s} : x \in Scopes /\ Active(x)
  BY <1>1, <1>2
<1>5. Bumps(s) /\ ~Stays(s) /\ \A x \in Scopes : Stays(x) \/ Bumps(x)
  BY <1>1, <1>2, <1>3, <1>4, Commanded
<1>6. RoleMoves
  BY <1>1, <1>5, RolesRest
<1>7. GrantMoves
  <2>1. ASSUME NEW j \in DOMAIN grants, grants[j].active
        PROVE  IF j \in {i} THEN grants[j].who \in deleted' \/ ~Stays(grants[j].scope)
               ELSE /\ Stays(grants[j].scope) \/ Bumps(grants[j].scope)
                    /\ role'[grants[j].role].status = "active"
    BY <1>1, <1>5, <2>1, GoodOnes DEF s
  <2>2. QED BY <1>1, <1>2, <2>1, Revocations
<1>8. owner' \in [Habitats -> Users \cup {None}]
  BY <1>1, <1>2 DEF RowTypes
<1>9. QED BY <1>1, <1>3, <1>4, <1>6, <1>7, <1>8, CommandMoves

LEMMA SetOwnerMoves ==
  ASSUME GovernanceInv, NEW u \in Users, NEW o \in Users \cup {None}, SetOwner(u, o)
  PROVE  Moves
<1> DEFINE s == screen[u].scope
           b == restore.drift \/ restore.habitat = s
<1>1. /\ s \in Habitats /\ Active(s) /\ ledger' = [ledger EXCEPT ![s] = Bumped(s)]
      /\ owner' = [owner EXCEPT ![s] = o] /\ restore' = [restore EXCEPT !.drift = b]
      /\ UNCHANGED <<resources, role, grants, deleted, screen>>
  BY DEF SetOwner, Command
<1>2. s \in Scopes /\ RowTypes /\ Rooted
  BY <1>1, KindsDiffer DEF GovernanceInv
<1>3. b \in BOOLEAN
  BY <1>2 DEF RowTypes, Restores
<1> HIDE DEF s, b
<1>4. ledger' = [x \in Scopes |-> IF x \in {s} THEN Bumped(x) ELSE ledger[x]]
  BY <1>1, <1>2, BumpOne
<1>5. \A x \in {s} : x \in Scopes /\ Active(x)
  BY <1>1, <1>2
<1>6. ScopeMoves /\ \A x \in Scopes : Stays(x) \/ Bumps(x)
  BY <1>1, <1>2, <1>4, <1>5, Commanded
<1>7. RoleMoves
  BY <1>1, <1>6, RolesRest
<1>8. GrantMoves
  <2>1. ASSUME NEW j \in DOMAIN grants, grants[j].active
        PROVE  /\ Stays(grants[j].scope) \/ Bumps(grants[j].scope)
               /\ role'[grants[j].role].status = "active"
    BY <1>1, <1>6, <2>1, GoodOnes
  <2>2. QED BY <1>1, <1>2, <2>1, GrantsStay
<1>9. /\ restore' \in Restores /\ restore'.ids = restore.ids /\ restore'.habitat = restore.habitat
  BY <1>1, <1>2, <1>3 DEF RowTypes, Restores
<1>10. Restorable' /\ TreeMoves
  BY <1>1, <1>2, <1>9, RestoreStays, TreeStays DEF GovernanceInv
<1>11. owner' \in [Habitats -> Users \cup {None}]
  BY <1>1, <1>2 DEF RowTypes
<1>12. QED BY <1>6, <1>7, <1>8, <1>9, <1>10, <1>11 DEF Moves

(* A grant like the one that is made is revoked: it is of the incarnation    *)
(* that the scope has.                                                       *)
LEMMA AssignMoves ==
  ASSUME GovernanceInv, NEW u \in Users, NEW p \in Principals, NEW d \in Roles, NEW n \in 1 .. MaxRevisions,
         Assign(u, p, d, n)
  PROVE  Moves
<1> DEFINE s == screen[u].scope
           ids == Regranted(p, d, s)
           h == [who |-> p, role |-> d, revision |-> n, scope |-> s, incarnation |-> Incarnation(s),
                 active |-> TRUE, version |-> 1, expired |-> FALSE]
           N == Len(grants) + 1
<1>1. /\ Active(s) /\ role[d].status = "active" /\ n \in DOMAIN role[d].revisions
      /\ role[d].namespace \in Chain(s) \cup {None}
      /\ ledger' = [ledger EXCEPT ![s] = Bumped(s)]
      /\ grants' = Append(RevokedIf(ids), h)
      /\ UNCHANGED <<resources, owner, role, deleted, screen, restore>>
  BY DEF Assign, Command
<1>2. s \in Scopes /\ RowTypes /\ Rooted
  BY <1>1 DEF Active, GovernanceInv, Rooted
<1>3. /\ h \in GrantRows /\ h.active /\ h.who = p /\ h.role = d /\ h.scope = s /\ h.revision = n
      /\ h.incarnation = Incarnation(s)
  <2>1. n \in Nat /\ Incarnation(s) \in Nat
    BY <1>2, PositionsAreNumbers
  <2>2. QED BY <1>2, <2>1 DEF GrantRows
<1>4. ASSUME NEW i \in DOMAIN grants, i \notin ids, grants[i].active
      PROVE  grants[i].who # p \/ grants[i].role # d \/ grants[i].scope # s
  BY <1>4, GoodOnes DEF Regranted, Same
<1>5. ASSUME NEW i \in ids PROVE i \in DOMAIN grants /\ grants[i].scope = s
  BY DEF Regranted, Same
<1> HIDE DEF s, h, ids
<1>6. ledger' = [x \in Scopes |-> IF x \in {s} THEN Bumped(x) ELSE ledger[x]]
  BY <1>1, <1>2, BumpOne
<1>7. \A x \in {s} : x \in Scopes /\ Active(x)
  BY <1>1, <1>2
<1>8. Bumps(s) /\ ~Stays(s) /\ \A x \in Scopes : Stays(x) \/ Bumps(x)
  BY <1>1, <1>2, <1>6, <1>7, Commanded
<1>9. RoleMoves
  BY <1>1, <1>8, RolesRest
<1>10. GrantMoves
  <2>1. grants \in Seq(GrantRows) /\ DOMAIN grants = 1 .. Len(grants) /\ Len(grants) \in Nat
    BY <1>2 DEF RowTypes
  <2>2. ASSUME NEW i \in DOMAIN grants
        PROVE  /\ RevokedIf(ids)[i] \in GrantRows /\ Follows(grants[i], RevokedIf(ids)[i])
               /\ RevokedIf(ids)[i].active => i \notin ids /\ grants[i].active
    <3>1. grants[i] \in GrantRows
      BY <2>1
    <3>2. CASE i \in ids
      <4> DEFINE g == Revoke(grants[i])
      <4>1. /\ g \in GrantRows /\ ~g.active /\ g.who = grants[i].who /\ g.role = grants[i].role
            /\ g.scope = grants[i].scope /\ g.incarnation = grants[i].incarnation
            /\ g.expired = grants[i].expired
        <5> DEFINE v == grants[i].version + 1
        <5>1. v \in Nat
          BY <3>1 DEF GrantRows
        <5>2. g = [grants[i] EXCEPT !.active = FALSE, !.version = v]
          BY DEF Revoke
        <5> HIDE DEF v, g
        <5>3. QED BY <3>1, <5>1, <5>2 DEF GrantRows
      <4>2. RevokedIf(ids)[i] = g
        BY <3>2 DEF RevokedIf
      <4> HIDE DEF g
      <4>3. Follows(grants[i], g)
        BY <1>5, <1>8, <3>2, <4>1, Zenon DEF Follows
      <4>4. QED BY <4>1, <4>2, <4>3
    <3>3. CASE i \notin ids
      <4>1. RevokedIf(ids)[i] = grants[i]
        BY <3>3 DEF RevokedIf
      <4>2. grants[i].active =>
              /\ Stays(grants[i].scope) \/ Bumps(grants[i].scope)
              /\ role'[grants[i].role].status = "active"
        BY <1>1, <1>8, GoodOnes
      <4>3. Follows(grants[i], grants[i])
        BY <4>2, Zenon DEF Follows
      <4>4. QED BY <3>1, <3>3, <4>1, <4>3
    <3>4. QED BY <3>2, <3>3
  <2>3. RevokedIf(ids) \in Seq(GrantRows) /\ Len(RevokedIf(ids)) = Len(grants)
    <3>1. RevokedIf(ids) = [i \in 1 .. Len(grants) |-> RevokedIf(ids)[i]]
      BY <2>1 DEF RevokedIf
    <3> DEFINE f == RevokedIf(ids)
    <3>2. \A i \in 1 .. Len(grants) : f[i] \in GrantRows
      BY <2>1, <2>2
    <3> HIDE DEF f
    <3>3. f = [i \in 1 .. Len(grants) |-> f[i]]
      BY <3>1 DEF f
    <3>4. f \in Seq(GrantRows) /\ Len(f) = Len(grants)
      BY <2>1, <3>2, <3>3
    <3>5. QED BY <3>4 DEF f
  <2> DEFINE f == RevokedIf(ids)
  <2>4. f \in Seq(GrantRows) /\ Len(f) = Len(grants) /\ grants' = Append(f, h)
    BY <1>1, <2>3
  <2> HIDE DEF f
  <2>5. /\ grants' \in Seq(GrantRows) /\ Len(grants') = N /\ grants'[N] = h
        /\ \A i \in DOMAIN grants : grants'[i] = f[i]
    BY <1>3, <2>1, <2>4
  <2>6. \A i \in DOMAIN grants : Follows(grants[i], grants'[i])
    BY <2>2, <2>5 DEF f
  <2>7. Given(h)
    BY <1>1, <1>3, <1>8 DEF Given
  <2>8. ASSUME NEW i \in DOMAIN grants, grants'[i].active
        PROVE  grants[i].who # h.who \/ grants[i].role # h.role \/ grants[i].scope # h.scope
    <3>1. i \notin ids /\ grants[i].active
      BY <2>2, <2>5, <2>8 DEF f
    <3>2. QED BY <1>3, <1>4, <3>1
  <2>9. deleted \subseteq deleted' /\ Len(grants') \in {Len(grants), Len(grants) + 1}
    BY <1>1, <2>5
  <2>10. QED BY <2>5, <2>6, <2>7, <2>8, <2>9, Zenon DEF GrantMoves
<1>11. owner' \in [Habitats -> Users \cup {None}]
  BY <1>1, <1>2 DEF RowTypes
<1>12. QED BY <1>1, <1>6, <1>7, <1>9, <1>10, <1>11, CommandMoves

(* One grant changes, and its scope shows it or nothing is shown of it.      *)
LEMMA OneGrantMoves ==
  ASSUME RowTypes, NEW i \in DOMAIN grants, NEW h \in GrantRows, grants' = [grants EXCEPT ![i] = h],
         deleted' = deleted, Follows(grants[i], h),
         \A j \in DOMAIN grants : grants[j].active =>
           /\ Stays(grants[j].scope) \/ Bumps(grants[j].scope)
           /\ role'[grants[j].role].status = "active"
  PROVE  GrantMoves
<1>1. grants \in Seq(GrantRows) /\ DOMAIN grants = 1 .. Len(grants) /\ Len(grants) \in Nat
  BY DEF RowTypes
<1>2. /\ grants' \in Seq(GrantRows) /\ Len(grants') = Len(grants) /\ grants'[i] = h
      /\ \A j \in DOMAIN grants \ {i} : grants'[j] = grants[j]
  BY <1>1
<1>3. ASSUME NEW j \in DOMAIN grants PROVE Follows(grants[j], grants'[j])
  <2>1. CASE j = i
    BY <1>2, <2>1
  <2>2. CASE j # i
    <3>1. grants[j].active =>
            /\ Stays(grants[j].scope) \/ Bumps(grants[j].scope)
            /\ role'[grants[j].role].status = "active"
      OBVIOUS
    <3>2. Follows(grants[j], grants[j])
      BY <3>1, Zenon DEF Follows
    <3>3. QED BY <1>2, <2>2, <3>2
  <2>3. QED BY <2>1, <2>2
<1>4. Len(grants') \in {Len(grants), Len(grants) + 1} /\ Len(grants') # Len(grants) + 1
  <2> DEFINE n == Len(grants)   m == Len(grants')
  <2>1. n \in Nat /\ m = n
    BY <1>1, <1>2
  <2> HIDE DEF n, m
  <2>2. m \in {n, n + 1} /\ m # n + 1
    BY <2>1
  <2>3. QED BY <2>2 DEF n, m
<1>5. Len(grants') = Len(grants) + 1 =>
       /\ Given(grants'[Len(grants')])
       /\ \A j \in DOMAIN grants : grants'[j].active =>
            LET g == grants[j]   k == grants'[Len(grants')]
            IN g.who # k.who \/ g.role # k.role \/ g.scope # k.scope
  BY <1>4, Zenon
<1>6. deleted \subseteq deleted'
  OBVIOUS
<1>7. \A j \in DOMAIN grants : Follows(grants[j], grants'[j])
  BY <1>3
<1>8. QED BY <1>2, <1>4, <1>5, <1>6, <1>7, Zenon DEF GrantMoves

LEMMA RepinMoves ==
  ASSUME GovernanceInv, NEW u \in Users, NEW i \in DOMAIN grants, NEW n \in 1 .. MaxRevisions, Repin(u, i, n)
  PROVE  Moves
<1> DEFINE s == grants[i].scope
           v == grants[i].version + 1
           h == [grants[i] EXCEPT !.revision = n, !.version = v]
<1>1. /\ Active(s) /\ grants[i].active /\ n \in DOMAIN role[grants[i].role].revisions
      /\ role[grants[i].role].status = "active"
      /\ ledger' = [ledger EXCEPT ![s] = Bumped(s)]
      /\ grants' = [grants EXCEPT ![i] = h] /\ UNCHANGED <<resources, owner, role, deleted, screen, restore>>
  BY DEF Repin, Sees, Command
<1>2. s \in Scopes /\ RowTypes /\ Rooted /\ grants[i] \in GrantRows
  BY <1>1, GoodOnes DEF Active, GovernanceInv, Rooted
<1>3. v \in Nat /\ n \in Nat
  BY <1>2 DEF GrantRows
<1> HIDE DEF v
<1>4. /\ h \in GrantRows /\ h.active = grants[i].active /\ h.who = grants[i].who /\ h.role = grants[i].role
      /\ h.scope = s /\ h.incarnation = grants[i].incarnation /\ h.expired = grants[i].expired
      /\ h.revision = n
  BY <1>2, <1>3 DEF GrantRows
<1>5. grants[i].scope = s
  OBVIOUS
<1> HIDE DEF s, h
<1>6. ledger' = [x \in Scopes |-> IF x \in {s} THEN Bumped(x) ELSE ledger[x]]
  BY <1>1, <1>2, BumpOne
<1>7. \A x \in {s} : x \in Scopes /\ Active(x)
  BY <1>1, <1>2
<1>8. Bumps(s) /\ ~Stays(s) /\ \A x \in Scopes : Stays(x) \/ Bumps(x)
  BY <1>1, <1>2, <1>6, <1>7, Commanded
<1>9. RoleMoves
  BY <1>1, <1>8, RolesRest
<1>10. Follows(grants[i], h)
  BY <1>1, <1>4, <1>5, <1>8 DEF Follows
<1>11. GrantMoves
  <2>1. ASSUME NEW j \in DOMAIN grants, grants[j].active
        PROVE  /\ Stays(grants[j].scope) \/ Bumps(grants[j].scope)
               /\ role'[grants[j].role].status = "active"
    BY <1>1, <1>8, <2>1, GoodOnes
  <2>2. deleted' = deleted
    BY <1>1
  <2>3. QED BY <1>1, <1>2, <1>4, <1>10, <2>1, <2>2, OneGrantMoves
<1>12. owner' \in [Habitats -> Users \cup {None}]
  BY <1>1, <1>2 DEF RowTypes
<1>13. QED BY <1>1, <1>6, <1>7, <1>9, <1>11, <1>12, CommandMoves

(* Steps that touch no ledger.                                               *)
LEMMA QuietMoves ==
  ASSUME GovernanceInv, UNCHANGED <<resources, owner, ledger, role>>, GrantMoves,
         restore' \in Restores, Restorable'
  PROVE  Moves
<1>1. \A s \in Scopes : Stays(s)
  BY DEF Stays, resources
<1>2. RoleMoves
  BY <1>1, RolesRest
<1>3. TreeMoves
  BY TreeStays DEF GovernanceInv
<1>4. ledger' = [s \in Scopes |-> ledger'[s]]
  BY DEF GovernanceInv, RowTypes
<1>5. QED BY <1>1, <1>2, <1>3, <1>4 DEF Moves, ScopeMoves, GovernanceInv, RowTypes

LEMMA StandStill ==
  ASSUME GovernanceInv, UNCHANGED <<resources, ledger, role>>
  PROVE  \A j \in DOMAIN grants : grants[j].active =>
           /\ Stays(grants[j].scope) /\ role'[grants[j].role].status = "active"
BY GoodOnes DEF Stays, resources

LEMMA ExpireMoves ==
  ASSUME GovernanceInv, NEW i \in DOMAIN grants, Expire(i)
  PROVE  Moves
<1> DEFINE h == [grants[i] EXCEPT !.expired = TRUE]
<1>1. /\ grants[i].active /\ grants' = [grants EXCEPT ![i] = h]
      /\ UNCHANGED <<resources, owner, ledger, role, deleted, screen, restore>>
  BY DEF Expire
<1>2. RowTypes /\ grants[i] \in GrantRows
  BY GoodOnes DEF GovernanceInv
<1>3. /\ h \in GrantRows /\ h.active = grants[i].active /\ h.who = grants[i].who /\ h.role = grants[i].role
      /\ h.scope = grants[i].scope /\ h.incarnation = grants[i].incarnation /\ h.expired
      /\ h.version = grants[i].version /\ h.revision = grants[i].revision
  BY <1>2 DEF GrantRows
<1> HIDE DEF h
<1>4. \A j \in DOMAIN grants : grants[j].active =>
        /\ Stays(grants[j].scope) /\ role'[grants[j].role].status = "active"
  BY <1>1, StandStill
<1>5. Follows(grants[i], h)
  BY <1>1, <1>3, <1>4 DEF Follows
<1>6. GrantMoves
  BY <1>1, <1>2, <1>3, <1>4, <1>5, OneGrantMoves
<1>7. restore' \in Restores /\ Restorable'
  BY <1>1, <1>2, RestoreStays DEF RowTypes, GovernanceInv
<1>8. QED BY <1>1, <1>6, <1>7, QuietMoves

LEMMA DeleteAgentMoves ==
  ASSUME GovernanceInv, NEW a \in Agents, DeleteAgent(a)
  PROVE  Moves
<1> DEFINE ids == {i \in DOMAIN grants : grants[i].active /\ grants[i].who = a}
<1>1. /\ deleted' = deleted \cup {a} /\ grants' = RevokedIf(ids)
      /\ UNCHANGED <<resources, owner, ledger, role, screen, restore>>
  BY DEF DeleteAgent
<1>2. \A j \in DOMAIN grants : grants[j].active =>
        /\ Stays(grants[j].scope) /\ role'[grants[j].role].status = "active"
  BY <1>1, StandStill
<1>3. GrantMoves
  <2>1. \A i \in DOMAIN grants : i \in ids => grants[i].who \in deleted'
    BY <1>1
  <2>2. RowTypes /\ deleted \subseteq deleted'
    BY <1>1 DEF GovernanceInv
  <2> HIDE DEF ids
  <2>3. QED BY <1>1, <1>2, <2>1, <2>2, Revocations
<1>4. restore' \in Restores /\ Restorable'
  BY <1>1, RestoreStays DEF RowTypes, GovernanceInv
<1>5. QED BY <1>1, <1>3, <1>4, QuietMoves

LEMMA PrepareRestoreMoves ==
  ASSUME GovernanceInv, NEW h \in Habitats, NEW ids \in SUBSET (Missions \cup Tasks), PrepareRestore(h, ids)
  PROVE  Moves
<1>1. /\ ids \subseteq Below(h) /\ \A s \in ids \cap Tasks : parent[s] \in ids
      /\ restore' = [habitat |-> h, ids |-> ids, drift |-> FALSE]
      /\ UNCHANGED <<resources, owner, ledger, role, grants, deleted, screen>>
  BY DEF PrepareRestore
<1>2. restore' \in Restores /\ restore'.habitat = h /\ restore'.ids = ids
  BY <1>1 DEF Restores
<1>3. Restorable'
  <2>1. \A s : Chain(s)' = Chain(s)
    BY <1>1, ChainIs DEF resources
  <2>2. parent' = parent /\ live' = live
    BY <1>1 DEF resources
  <2>3. QED BY <1>1, <1>2, <2>1, <2>2 DEF Restorable, Below
<1>4. GrantMoves
  BY <1>1, StandStill, GrantsStay DEF GovernanceInv
<1>5. QED BY <1>1, <1>2, <1>3, <1>4, QuietMoves

LEMMA LookMoves ==
  ASSUME GovernanceInv, UNCHANGED <<resources, owner, ledger, role, grants, deleted, restore>>
  PROVE  Moves
<1>1. GrantMoves
  BY StandStill, GrantsStay DEF GovernanceInv
<1>2. restore' \in Restores /\ Restorable'
  BY RestoreStays DEF RowTypes, GovernanceInv
<1>3. QED BY <1>1, <1>2, QuietMoves

(* What retiring and enrolling do to the ledger of something that exists.    *)
LEMMA LedgerSteps ==
  ASSUME NEW e \in Entries, e.incarnation = 0 => e = NoLedger
  PROVE  /\ Retire(e) \in Entries /\ ~Retire(e).active /\ Retire(e).incarnation # 0
         /\ Retire(e).incarnation >= e.incarnation
         /\ (e.incarnation # 0 /\ e.active) =>
              Retire(e).incarnation = e.incarnation /\ Retire(e).version = e.version + 1
         /\ Reenroll(Retire(e)) \in Entries /\ Reenroll(Retire(e)).active
         /\ Reenroll(Retire(e)).incarnation = Retire(e).incarnation + 1
         /\ Reenroll(Retire(e)) # e
<1>1. e.incarnation \in Nat /\ e.version \in Nat /\ e.active \in BOOLEAN
  BY DEF Entries
<1>2. /\ Retire(e) \in Entries /\ ~Retire(e).active /\ Retire(e).incarnation # 0
      /\ Retire(e).incarnation >= e.incarnation
      /\ (e.incarnation # 0 /\ e.active) =>
           Retire(e).incarnation = e.incarnation /\ Retire(e).version = e.version + 1
  <2>1. CASE e.incarnation = 0
    BY <1>1, <2>1 DEF Retire, Entries
  <2>2. CASE e.incarnation # 0 /\ e.active
    <3> DEFINE v == e.version + 1
    <3>1. Retire(e) = [e EXCEPT !.version = v, !.active = FALSE]
      BY <2>2 DEF Retire
    <3>2. v \in Nat /\ v = e.version + 1
      BY <1>1
    <3> DEFINE r == Retire(e)
    <3>3. r = [e EXCEPT !.version = v, !.active = FALSE]
      BY <3>1
    <3> HIDE DEF v, r
    <3>4. /\ r \in Entries /\ ~r.active /\ r.incarnation = e.incarnation /\ r.version = v
      BY <1>1, <3>2, <3>3 DEF Entries
    <3>5. r.incarnation >= e.incarnation /\ r.incarnation # 0
      BY <1>1, <2>2, <3>4
    <3>6. QED BY <3>2, <3>4, <3>5 DEF r
  <2>3. CASE e.incarnation # 0 /\ ~e.active
    BY <1>1, <2>3 DEF Retire
  <2>4. QED BY <2>1, <2>2, <2>3
<1> DEFINE r == Retire(e)
<1>3. r.incarnation \in Nat
  BY <1>2 DEF Entries
<1> HIDE DEF r
<1>4. /\ Reenroll(r) \in Entries /\ Reenroll(r).active /\ Reenroll(r).incarnation = r.incarnation + 1
  BY <1>3 DEF Reenroll, Entries
<1>5. r.incarnation >= e.incarnation
  BY <1>2 DEF r
<1>6. Reenroll(r) # e
  BY <1>1, <1>3, <1>4, <1>5
<1>7. QED BY <1>2, <1>4, <1>6 DEF r

LEMMA EntryOf ==
  ASSUME GovernanceInv, NEW s \in Scopes
  PROVE  ledger[s] \in Entries /\ (ledger[s].incarnation = 0 => ledger[s] = NoLedger)
BY DEF GovernanceInv, RowTypes, Rooted

LEMMA CreateHabitatMoves ==
  ASSUME GovernanceInv, NEW u \in Users, NEW h \in Habitats, CreateHabitat(u, h)
  PROVE  Moves
<1> DEFINE t == screen[u].scope
<1>1. /\ t \in Teams /\ Active(t) /\ h \notin live /\ ledger[h] = NoLedger
      /\ ledger' = [ledger EXCEPT ![t] = Bumped(t)]
      /\ live' = live \cup {h} /\ parent' = [parent EXCEPT ![h] = t]
      /\ UNCHANGED <<owner, role, grants, deleted, screen, restore>>
  BY DEF CreateHabitat, Command
<1>2. /\ RowTypes /\ Rooted /\ Restorable /\ Shaped(parent) /\ live \subseteq Scopes
      /\ \A s \in live : parent[s] # None => parent[s] \in live
  BY DEF GovernanceInv, Rooted
<1>3. t \in Scopes /\ h \in Scopes /\ t # h /\ t \in live
  BY <1>1, KindsDiffer DEF Active
<1> HIDE DEF t
<1>4. /\ Bumps(t) /\ Comes(h) /\ \A s \in Scopes \ {t, h} : Stays(s)
  <2>1. ledger'[t] = Bumped(t) /\ \A s \in Scopes \ {t} : ledger'[s] = ledger[s]
    BY <1>1, <1>2, <1>3 DEF RowTypes
  <2>2. QED BY <1>1, <1>3, <2>1 DEF Bumps, Comes, Stays
<1>5. Shaped(parent') /\ \A s \in live : Chain(s)' = Chain(s)
  <2> DEFINE q == parent'
  <2>1. q \in [Scopes -> Scopes \cup {None}] /\ q[h] = t /\ \A x \in Scopes \ {h} : q[x] = parent[x]
    BY <1>1, <1>2, <1>3 DEF Shaped
  <2> HIDE DEF q
  <2>2. Shaped(q) /\ \A s \in Scopes : h \notin ChainIn(parent, s) => ChainIn(q, s) = ChainIn(parent, s)
    <3>1. h \in Habitats /\ t \in Teams /\ Shaped(parent)
      BY <1>1, <1>2
    <3>2. QED BY <2>1, <3>1, ChainGrown
  <2>3. Shaped(parent') /\ \A s \in Scopes : h \notin ChainIn(parent, s) => ChainIn(parent', s) = ChainIn(parent, s)
    BY <2>2 DEF q
  <2>4. \A s \in live : h \notin ChainIn(parent, s)
    BY <1>1, <1>2, ChainLives, ChainIs
  <2>5. QED BY <1>2, <2>3, <2>4, ChainIs
<1>6. TreeMoves
  <2>1. parent'[h] = t /\ \A s \in Scopes \ {h} : parent'[s] = parent[s]
    BY <1>1, <1>2, <1>3 DEF Shaped
  <2>2. \A s \in live' : parent'[s] # None => parent'[s] \in live'
    BY <1>1, <1>2, <1>3, <2>1
  <2>3. live' \subseteq Scopes /\ live \cap live' = live
    BY <1>1, <1>2, <1>3
  <2>4. QED BY <1>5, <2>2, <2>3 DEF TreeMoves
<1>7. \A s \in live : Stays(s) \/ Bumps(s)
  BY <1>1, <1>2, <1>4
<1>8. RoleMoves
  BY <1>1, <1>2, <1>7, GoodOnes, RolesStay DEF GovernanceInv
<1>9. GrantMoves
  <2>1. ASSUME NEW j \in DOMAIN grants, grants[j].active
        PROVE  /\ Stays(grants[j].scope) \/ Bumps(grants[j].scope)
               /\ role'[grants[j].role].status = "active"
    BY <1>1, <1>7, <2>1, GoodOnes
  <2>2. QED BY <1>1, <1>2, <2>1, GrantsStay
<1>10. Restorable'
  <2>1. \A k \in restore.ids \cap Tasks : parent'[k] = parent[k]
    <3>1. \A k \in Tasks : k \in Scopes /\ k # h
      BY KindsDiffer
    <3>2. QED BY <1>1, <1>2, <3>1 DEF Shaped
  <2>2. QED BY <1>1, <1>2, <1>5, <2>1 DEF Restorable
<1>11. ScopeMoves
  <2>1. ledger' = [s \in Scopes |-> ledger'[s]]
    BY <1>1, <1>2 DEF RowTypes
  <2>2. QED BY <1>4, <2>1 DEF ScopeMoves
<1>12. QED BY <1>1, <1>2, <1>6, <1>8, <1>9, <1>10, <1>11 DEF Moves, RowTypes

(* Whatever goes takes the grants at it and the roles of it along.           *)
LEMMA Taking ==
  ASSUME GovernanceInv, NEW s \in Scopes,
         grants' = RevokedIf(Taken(Below(s))), role' = Unrolled(Below(s)), deleted' = deleted,
         \A x \in Below(s) : ~Stays(x), \A x \in live \ Below(s) : Stays(x)
  PROVE  RoleMoves /\ GrantMoves
<1>1. /\ RowTypes /\ Rooted /\ Shaped(parent) /\ live \subseteq Scopes /\ GrantsAreCurrent
      /\ role \in [Roles -> RoleRows]
  BY DEF GovernanceInv, Rooted, RowTypes
<1>2. RoleMoves
  <2>1. ASSUME NEW d \in Roles, role[d].status = "active", role[d].namespace \in Below(s)
        PROVE  /\ role'[d] \in RoleRows /\ role'[d].status = "retired"
               /\ role'[d].namespace = role[d].namespace /\ role'[d].incarnation = role[d].incarnation
               /\ role'[d].revisions = role[d].revisions
               /\ role[d].namespace # None /\ ~Stays(role[d].namespace)
    <3>1. role[d] \in RoleRows /\ role'[d] = [role[d] EXCEPT !.status = "retired"]
      BY <1>1, <2>1 DEF Unrolled
    <3>2. role[d].namespace \in Scopes
      BY <1>1, <2>1 DEF Below
    <3>3. QED BY <2>1, <3>1, <3>2, KindsDiffer DEF RoleRows
  <2>2. ASSUME NEW d \in Roles, ~(role[d].status = "active" /\ role[d].namespace \in Below(s))
        PROVE  role'[d] = role[d]
    BY <2>2 DEF Unrolled
  <2>3. role' \in [Roles -> RoleRows]
    <3>1. \A d \in Roles : role'[d] \in RoleRows
      BY <1>1, <2>1, <2>2
    <3>2. role' = [d \in Roles |-> role'[d]]
      BY DEF Unrolled
    <3>3. QED BY <3>1, <3>2
  <2>4. ASSUME NEW d \in Roles, role[d].status = "active", role'[d].status = "active", role[d].namespace # None
        PROVE  Stays(role[d].namespace)
    BY <2>1, <2>4, GoodOnes
  <2>5. QED BY <2>1, <2>2, <2>3, <2>4 DEF RoleMoves
<1>3. GrantMoves
  <2> DEFINE ids == Taken(Below(s))
  <2>1. ASSUME NEW i \in DOMAIN grants, grants[i].active, i \in ids
        PROVE  ~Stays(grants[i].scope)
    BY <2>1 DEF Taken
  <2>2. ASSUME NEW i \in DOMAIN grants, grants[i].active, i \notin ids
        PROVE  Stays(grants[i].scope) /\ role'[grants[i].role].status = "active"
    <3> DEFINE x == grants[i].scope   space == role[grants[i].role].namespace
    <3>1. /\ x \in live /\ x \in Scopes /\ grants[i].role \in Roles
          /\ role[grants[i].role].status = "active" /\ space \in Chain(x) \cup {None}
      BY <1>1, <2>2, GoodOnes DEF GrantsAreCurrent
    <3>2. x \notin Below(s)
      BY <2>2 DEF Taken
    <3>3. space \notin Below(s)
      <4>1. SUFFICES ASSUME space \in Below(s) PROVE FALSE
        OBVIOUS
      <4>2. space \in live /\ s \in ChainIn(parent, space)
        BY <4>1, ChainIs, Zenon DEF Below
      <4>3. space \in ChainIn(parent, x)
        BY <1>1, <3>1, <4>2, ChainIs, KindsDiffer
      <4>4. s \in ChainIn(parent, x)
        BY <1>1, <3>1, <4>2, <4>3, ChainDown
      <4>5. QED BY <3>1, <3>2, <4>4, ChainIs, Zenon DEF Below
    <3>4. role'[grants[i].role] = role[grants[i].role]
      BY <3>1, <3>3 DEF Unrolled
    <3>5. QED BY <3>1, <3>2, <3>4
  <2> HIDE DEF ids
  <2>3. grants' = RevokedIf(ids) /\ deleted \subseteq deleted'
    BY DEF ids
  <2>4. QED BY <1>1, <2>1, <2>2, <2>3, Revocations
<1>4. QED BY <1>2, <1>3

LEMMA DeleteMoves ==
  ASSUME GovernanceInv, ~RestoreRaces, NEW s \in Scopes, Delete(s)
  PROVE  Moves
<1>1. /\ live' = live \ Below(s) /\ restore.ids \cap Below(s) = {} /\ s \notin Teams
      /\ ledger' = [x \in Scopes |-> IF x \in Below(s) THEN Retire(ledger[x]) ELSE ledger[x]]
      /\ grants' = RevokedIf(Taken(Below(s))) /\ role' = Unrolled(Below(s))
      /\ owner' = [h \in Habitats |-> IF h = s THEN None ELSE owner[h]]
      /\ UNCHANGED <<parent, deleted, screen, restore>>
  BY DEF Delete, Leaves
<1>2. /\ RowTypes /\ Rooted /\ Restorable /\ Shaped(parent) /\ live \subseteq Scopes
      /\ \A x \in live : parent[x] # None => parent[x] \in live
      /\ Below(s) \subseteq live
  BY DEF GovernanceInv, Rooted, Below
<1>3. /\ \A x \in Below(s) : Goes(x) /\ ~Stays(x)
      /\ \A x \in Scopes \ Below(s) : Stays(x)
  BY <1>1, <1>2 DEF Goes, Stays
<1>4. RoleMoves /\ GrantMoves
  BY <1>1, <1>2, <1>3, Taking
<1>5. \A x : Chain(x)' = Chain(x)
  BY <1>1, ChainIs
<1>6. TreeMoves
  <2>1. ASSUME NEW x \in live', parent[x] # None PROVE parent[x] \in live'
    <3>1. x \in live /\ x \in Scopes /\ s \notin ChainIn(parent, x)
      BY <1>1, <1>2, ChainIs DEF Below
    <3>2. ChainIn(parent, parent[x]) \subseteq ChainIn(parent, x)
      BY <1>2, <2>1, <3>1, ChainUp
    <3>3. s \notin Chain(parent[x])
      BY <3>1, <3>2, ChainIs
    <3>4. parent[x] \in live /\ parent[x] \notin Below(s)
      BY <1>2, <2>1, <3>1, <3>3 DEF Below
    <3>5. QED BY <1>1, <3>4
  <2>2. QED BY <1>1, <1>2, <1>5, <2>1 DEF TreeMoves
<1>7. Restorable'
  BY <1>1, <1>2, <1>5 DEF Restorable
<1>8. owner' \in [Habitats -> Users \cup {None}]
  BY <1>1, <1>2 DEF RowTypes
<1>9. ScopeMoves
  <2>1. ledger' = [x \in Scopes |-> ledger'[x]]
    BY <1>1
  <2>2. QED BY <1>3, <2>1 DEF ScopeMoves
<1>10. QED BY <1>1, <1>2, <1>4, <1>6, <1>7, <1>8, <1>9 DEF Moves, RowTypes

LEMMA DeleteTeamMoves ==
  ASSUME GovernanceInv, NEW u \in Users, NEW t \in Teams, DeleteTeam(u, t)
  PROVE  Moves
<1>1. /\ t \in live /\ live' = live \ {t}
      /\ ledger' = [x \in Scopes |->
           IF x = t THEN Retire(ledger[x])
           ELSE IF x \in Below(t) THEN Reenroll(Retire(ledger[x])) ELSE ledger[x]]
      /\ grants' = RevokedIf(Taken(Below(t))) /\ role' = Unrolled(Below(t))
      /\ parent' = [x \in Scopes |-> IF parent[x] = t THEN None ELSE parent[x]]
      /\ UNCHANGED <<owner, deleted, screen, restore>>
  BY DEF DeleteTeam
<1>2. /\ RowTypes /\ Rooted /\ Restorable /\ Shaped(parent) /\ live \subseteq Scopes
      /\ \A x \in live : parent[x] # None => parent[x] \in live
      /\ Below(t) \subseteq live /\ t \in Scopes
  BY KindsDiffer DEF GovernanceInv, Rooted, Below
<1>3. /\ Goes(t) /\ ~Stays(t)
      /\ \A x \in Below(t) \ {t} : Renews(x) /\ ~Stays(x)
      /\ \A x \in Scopes \ Below(t) : x # t => Stays(x)
  <2>1. ASSUME NEW x \in Below(t) \ {t} PROVE Renews(x) /\ ~Stays(x)
    <3>1. x \in Scopes /\ x \in live /\ x \in live' /\ ledger'[x] = Reenroll(Retire(ledger[x]))
      BY <1>1, <1>2
    <3>2. Reenroll(Retire(ledger[x])) # ledger[x]
      BY <3>1, EntryOf, LedgerSteps
    <3>3. QED BY <3>1, <3>2 DEF Renews, Stays
  <2>2. QED BY <1>1, <1>2, <2>1 DEF Goes, Stays
<1>4. t \in Below(t)
  BY <1>1, <1>2, ChainLives DEF Below
<1>5. RoleMoves /\ GrantMoves
  <2>1. \A x \in Below(t) : ~Stays(x)
    BY <1>3
  <2>2. \A x \in live \ Below(t) : Stays(x)
    BY <1>2, <1>3, <1>4
  <2>3. QED BY <1>1, <1>2, <2>1, <2>2, Taking
<1>6. /\ Shaped(parent') /\ \A x \in Scopes : x # t => Chain(x)' = Chain(x) \ {t}
  <2>1. /\ Shaped(parent') /\ \A x \in Scopes : x # t => ChainIn(parent', x) = ChainIn(parent, x) \ {t}
    BY <1>1, <1>2, ChainCut
  <2>2. QED BY <2>1, ChainIs
<1>7. TreeMoves
  <2>1. ASSUME NEW x \in live', parent'[x] # None PROVE parent'[x] \in live'
    <3>1. x \in live /\ x \in Scopes /\ parent'[x] = IF parent[x] = t THEN None ELSE parent[x]
      BY <1>1, <1>2
    <3>2. QED BY <1>1, <1>2, <2>1, <3>1
  <2>2. ASSUME NEW x \in live \cap live'
        PROVE  /\ Chain(x)' \subseteq Chain(x) /\ Chain(x) \ Teams \subseteq Chain(x)'
               /\ ~Renews(x) => Chain(x)' = Chain(x)
    <3>1. x \in Scopes /\ x # t /\ Chain(x)' = Chain(x) \ {t}
      BY <1>1, <1>2, <1>6
    <3>2. ~Renews(x) => t \notin Chain(x)
      BY <1>3, <3>1 DEF Below
    <3>3. QED BY <3>1, <3>2
  <2>3. QED BY <1>1, <1>2, <1>6, <2>1, <2>2 DEF TreeMoves
<1>8. Restorable'
  <2>1. \A x \in restore.ids : x \in Missions \cup Tasks /\ x \in live /\ x \in Scopes /\ x # t
    BY <1>2, KindsDiffer DEF Restorable, RowTypes, Restores
  <2>2. restore.habitat \in Habitats \cup {None} /\ restore.habitat # t
    BY <1>2, KindsDiffer DEF RowTypes, Restores
  <2>3. \A k \in restore.ids \cap Tasks : parent'[k] = parent[k]
    <3>1. \A k \in Tasks : k \in Scopes /\ parent[k] # t
      BY <1>2, KindsDiffer DEF Shaped
    <3>2. QED BY <1>1, <3>1
  <2>4. QED BY <1>1, <1>2, <1>6, <2>1, <2>2, <2>3 DEF Restorable
<1>9. ScopeMoves
  <2>1. ledger' = [x \in Scopes |-> ledger'[x]]
    BY <1>1
  <2>2. QED BY <1>3, <2>1 DEF ScopeMoves
<1>10. QED BY <1>1, <1>2, <1>5, <1>7, <1>8, <1>9 DEF Moves, RowTypes

(* What an import that is published restores was there until then.           *)
LEMMA PublishRestoreMoves ==
  ASSUME GovernanceInv, PublishRestore
  PROVE  Moves
<1> DEFINE h == restore.habitat
           had == Below(h) \ {h}
           gone == {s \in had : s \notin restore.ids \/ ledger[s] # NoLedger}
<1>1. /\ RowTypes /\ Rooted /\ Restorable /\ Shaped(parent) /\ live \subseteq Scopes
      /\ \A x \in live : parent[x] # None => parent[x] \in live
      /\ had \subseteq live
  BY DEF GovernanceInv, Rooted, Below
<1>2. restore' = NoRestore /\ UNCHANGED <<parent, owner, role, deleted, screen>>
  BY DEF PublishRestore
<1>3. restore' \in Restores /\ Restorable'
  BY <1>2 DEF NoRestore, Restores, Restorable
<1>4. \A x : Chain(x)' = Chain(x)
  BY <1>2, ChainIs
<1>5. CASE ~(h \in live /\ ~restore.drift)
  <2>1. UNCHANGED <<live, ledger, grants>>
    BY <1>5 DEF PublishRestore
  <2>2. GrantMoves
    BY <1>1, <1>2, <2>1, StandStill, GrantsStay DEF resources
  <2>3. QED BY <1>2, <1>3, <2>1, <2>2, QuietMoves DEF resources
<1>6. CASE h \in live /\ ~restore.drift
  <2>1. /\ live' = (live \ had) \cup restore.ids
        /\ ledger' = [s \in Scopes |-> IF s \in had THEN Replaced(s) ELSE ledger[s]]
        /\ grants' = RevokedIf(Taken(gone))
    BY <1>6, Zenon DEF PublishRestore
  <2>2. /\ restore.ids \subseteq Missions \cup Tasks /\ h \in Habitats \cup {None}
        /\ restore.ids \subseteq live
        /\ \A s \in restore.ids : h \in Chain(s)
        /\ \A k \in restore.ids \cap Tasks : parent[k] \in restore.ids
    BY <1>1 DEF RowTypes, Restores, Restorable
  <2>3. h \in Habitats /\ h \in Scopes
    BY <1>1, <1>6, <2>2, KindsDiffer
  <2>4. restore.ids \subseteq had
    <3>1. \A s \in restore.ids : s # h
      BY <2>2, <2>3, KindsDiffer
    <3>2. QED BY <2>2, <3>1 DEF Below
  <2>5. ASSUME NEW x \in had PROVE x \in Missions \/ x \in Tasks
    <3>1. x \in Scopes /\ x # h /\ h \in ChainIn(parent, x)
      BY <1>1, ChainIs DEF Below
    <3>2. x \notin Teams
      BY <1>1, <2>3, <3>1, ChainOf, KindsDiffer
    <3>3. x \notin Habitats
      <4>1. SUFFICES ASSUME x \in Habitats PROVE FALSE
        OBVIOUS
      <4>2. h = parent[x] /\ parent[x] \in Teams \cup {None}
        BY <1>1, <3>1, <4>1, ChainOf DEF Shaped
      <4>3. QED BY <2>3, <4>2, KindsDiffer
    <3>4. QED BY <3>1, <3>2, <3>3, KindsDiffer
  <2>6. live' \subseteq live /\ \A x \in Scopes \ had : (x \in live' <=> x \in live)
    BY <1>1, <2>1, <2>2, <2>4
  <2>7. ASSUME NEW x \in had
        PROVE  /\ x \in live /\ x \in Scopes
               /\ x \notin gone => Stays(x)
               /\ x \in gone => ~Stays(x) /\ (Goes(x) \/ Renews(x))
    <3>1. x \in live /\ x \in Scopes
      BY <1>1
    <3>2. CASE x \notin restore.ids
      <4>1. ledger'[x] = Retire(ledger[x]) /\ x \notin live'
        BY <2>1, <3>1, <3>2 DEF Replaced
      <4>2. QED BY <3>1, <3>2, <4>1 DEF Goes, Stays
    <3>3. CASE x \in restore.ids /\ ledger[x] = NoLedger
      <4>1. ledger'[x] = ledger[x] /\ x \in live'
        BY <2>1, <3>1, <3>3 DEF Replaced
      <4>2. QED BY <3>1, <3>3, <4>1 DEF Stays
    <3>4. CASE x \in restore.ids /\ ledger[x] # NoLedger
      <4>1. ledger'[x] = Reenroll(Retire(ledger[x])) /\ x \in live'
        BY <2>1, <3>1, <3>4 DEF Replaced
      <4>2. Reenroll(Retire(ledger[x])) # ledger[x]
        BY <3>1, EntryOf, LedgerSteps
      <4>3. QED BY <3>1, <3>4, <4>1, <4>2 DEF Renews, Stays
    <3>5. QED BY <3>2, <3>3, <3>4
  <2>8. \A x \in Scopes \ had : Stays(x)
    BY <2>1, <2>6 DEF Stays
  <2>9. ScopeMoves
    <3>1. ledger' = [x \in Scopes |-> ledger'[x]]
      BY <2>1
    <3>2. QED BY <2>7, <2>8, <3>1 DEF ScopeMoves
  <2>10. RoleMoves
    <3>1. ASSUME NEW d \in Roles, role[d].status = "active", role[d].namespace # None
          PROVE  Stays(role[d].namespace)
      <4>1. role[d].namespace \in Teams \cup Habitats
        BY <1>1, <3>1 DEF RowTypes, RoleRows
      <4>2. role[d].namespace \in Scopes /\ role[d].namespace \notin had
        BY <2>5, <4>1, KindsDiffer
      <4>3. QED BY <2>8, <4>2
    <3>2. QED BY <1>1, <1>2, <3>1, RolesStay DEF GovernanceInv
  <2>11. GrantMoves
    <3>1. ASSUME NEW i \in DOMAIN grants, grants[i].active
          PROVE  IF i \in Taken(gone) THEN grants[i].who \in deleted' \/ ~Stays(grants[i].scope)
                 ELSE /\ Stays(grants[i].scope) \/ Bumps(grants[i].scope)
                      /\ role'[grants[i].role].status = "active"
      <4>1. grants[i].scope \in Scopes /\ role'[grants[i].role].status = "active"
        BY <1>2, <3>1, GoodOnes
      <4>2. i \in Taken(gone) <=> grants[i].scope \in gone
        BY <3>1 DEF Taken
      <4>3. gone \subseteq had
        OBVIOUS
      <4> HIDE DEF gone, had
      <4>4. QED BY <2>7, <2>8, <4>1, <4>2, <4>3
    <3>2. deleted \subseteq deleted'
      BY <1>2
    <3> HIDE DEF gone
    <3>3. QED BY <1>1, <2>1, <3>1, <3>2, Revocations
  <2>12. TreeMoves
    <3>1. ASSUME NEW x \in live', parent[x] # None PROVE parent[x] \in live'
      <4>1. x \in live /\ x \in Scopes /\ parent[x] \in live
        BY <1>1, <2>6, <3>1
      <4>2. CASE x \in had
        <5>1. x \in restore.ids
          BY <2>1, <4>2
        <5>2. CASE x \in Tasks
          BY <2>1, <2>2, <5>1, <5>2
        <5>3. CASE x \in Missions
          <6>1. parent[x] \in Habitats
            BY <1>1, <5>3 DEF Shaped
          <6>2. parent[x] \notin had
            BY <2>5, <6>1, KindsDiffer
          <6>3. QED BY <2>1, <4>1, <6>2
        <5>4. QED BY <2>5, <4>2, <5>2, <5>3
      <4>3. CASE x \notin had
        <5>1. parent[x] \notin had
          <6>1. SUFFICES ASSUME parent[x] \in had PROVE FALSE
            OBVIOUS
          <6>2. h \in ChainIn(parent, parent[x])
            BY <6>1, ChainIs DEF Below
          <6>3. h \in Chain(x)
            BY <1>1, <3>1, <4>1, <6>2, ChainUp, ChainIs
          <6>4. x # h
            <7>1. parent[x] \in Missions \/ parent[x] \in Tasks
              BY <2>5, <6>1
            <7>2. h \in Habitats => parent[h] \in Teams \cup {None}
              BY <1>1 DEF Shaped
            <7>3. QED BY <2>3, <7>1, <7>2, <4>1, KindsDiffer
          <6>5. QED BY <4>1, <4>3, <6>3, <6>4 DEF Below
        <5>2. QED BY <2>1, <4>1, <5>1
      <4>4. QED BY <4>2, <4>3
    <3>2. live' \subseteq Scopes
      BY <1>1, <2>6
    <3>3. QED BY <1>1, <1>2, <1>4, <3>1, <3>2 DEF TreeMoves
  <2>13. QED BY <1>1, <1>2, <1>3, <2>9, <2>10, <2>11, <2>12 DEF Moves, RowTypes
<1>7. QED BY <1>5, <1>6

(* Every step but a look leaves the screens alone.                           *)
LEMMA StepMoves ==
  ASSUME GovernanceInv, ~RestoreRaces, [Next]_vars
  PROVE  Moves /\ (screen' = screen
                   \/ \E u \in Users, s \in Scopes : Look(u, s))
<1>1. CASE UNCHANGED vars
  BY <1>1, LookMoves DEF vars, resources
<1>2. ASSUME NEW u \in Users, NEW s \in Scopes, Look(u, s) PROVE Moves
  BY <1>2, LookMoves DEF Look
<1>3. ASSUME NEW s \in Scopes, Delete(s) PROVE Moves
  BY <1>3, DeleteMoves
<1>4. CASE Next
  <2>1. Moves
    BY <1>2, <1>3, <1>4, CreateRoleMoves, MintRevisionMoves, RetireRoleMoves, AssignMoves, RevokeGrantMoves,
       RepinMoves, SetOwnerMoves, CreateHabitatMoves, DeleteTeamMoves, DeleteAgentMoves,
       PrepareRestoreMoves, PublishRestoreMoves, ExpireMoves, ZenonT(60) DEF Next, Ask
  <2>2. screen' = screen \/ \E u \in Users, s \in Scopes : Look(u, s)
    <3>1. \A u \in Users, d \in Roles, perms \in SUBSET Permissions \ {{}} :
            CreateRole(u, d, perms) \/ MintRevision(u, d, perms) \/ RetireRole(u, d) => screen' = screen
      BY Zenon DEF CreateRole, MintRevision, RetireRole
    <3>2. \A u \in Users, p \in Principals, d \in Roles, n \in 1 .. MaxRevisions :
            Assign(u, p, d, n) => screen' = screen
      BY ZenonT(40) DEF Assign
    <3>3. \A u \in Users, i \in DOMAIN grants, n \in 1 .. MaxRevisions :
            (Repin(u, i, n) => screen' = screen) /\ (RevokeGrant(u, i) => screen' = screen)
      BY Zenon DEF Repin, RevokeGrant
    <3>4. \A u \in Users : /\ \A o \in Users \cup {None} : SetOwner(u, o) => screen' = screen
                           /\ \A h \in Habitats : CreateHabitat(u, h) => screen' = screen
                           /\ \A t \in Teams : DeleteTeam(u, t) => screen' = screen
      BY Zenon DEF SetOwner, CreateHabitat, DeleteTeam
    <3>5. ASSUME NEW u \in Users, Ask(u) PROVE screen' = screen \/ \E s \in Scopes : Look(u, s)
      <4>1. \A d \in Roles : RetireRole(u, d) => screen' = screen
        BY Zenon DEF RetireRole
      <4>2. \A i \in DOMAIN grants : RevokeGrant(u, i) => screen' = screen
        BY Zenon DEF RevokeGrant
      <4>3. QED BY <3>1, <3>2, <3>3, <3>4, <3>5, <4>1, <4>2, Zenon DEF Ask
    <3>6. ~(\E u \in Users : Ask(u)) => screen' = screen
      BY <1>4, Zenon DEF Next, Delete, DeleteAgent, PrepareRestore, PublishRestore, Expire
    <3>7. QED BY <3>5, <3>6, Zenon
  <2>3. QED BY <2>1, <2>2
<1>5. QED BY <1>1, <1>4 DEF vars

(***************************************************************************)
(* What the moves keep                                                     *)
(***************************************************************************)
LEMMA LedgerAfter ==
  ASSUME GovernanceInv, Moves, NEW s \in Scopes
  PROVE  /\ ledger'[s] \in Entries /\ (ledger'[s].incarnation = 0 => ledger'[s] = NoLedger)
         /\ s \in live' => Active(s)'
         /\ Stays(s) \/ Comes(s) =>
              ledger'[s] = ledger[s] /\ Incarnation(s)' = Incarnation(s) /\ Version(s)' = Version(s)
         /\ Bumps(s) =>
              /\ s \in live /\ s \in live' /\ Active(s) /\ ledger'[s].active /\ ledger'[s] # ledger[s]
              /\ ledger'[s].incarnation = Incarnation(s) /\ Incarnation(s)' = Incarnation(s)
              /\ Version(s)' = Version(s) + 1
         /\ Goes(s) =>
              /\ ~Active(s)' /\ ledger'[s] # NoLedger
              /\ Incarnation(s)' = Incarnation(s) /\ Version(s)' = Version(s) + 1
         /\ Renews(s) =>
              /\ ledger'[s].active /\ ledger'[s] # NoLedger /\ Incarnation(s)' > Incarnation(s)
         /\ Stays(s) \/ Bumps(s) \/ Goes(s) \/ Renews(s) \/ Comes(s)
<1>1. /\ ledger[s] \in Entries /\ (ledger[s].incarnation = 0 => ledger[s] = NoLedger)
      /\ s \in live => Active(s)
      /\ Stays(s) \/ Bumps(s) \/ Goes(s) \/ Renews(s) \/ Comes(s)
  BY EntryOf DEF GovernanceInv, Rooted, LiveIsGoverned, Moves, ScopeMoves
<1>2. ledger[s].incarnation \in Nat /\ ledger[s].version \in Nat
  BY <1>1 DEF Entries
<1>3. NoLedger \in Entries /\ NoLedger.incarnation = 0 /\ ~NoLedger.active
  BY DEF NoLedger, Entries
<1>4. Incarnation(s) \in Nat /\ Version(s) \in Nat /\ Incarnation(s) # 0
  BY <1>2 DEF Incarnation, Version
<1>5. CASE Stays(s)
  <2>1. ~Bumps(s) /\ ~Goes(s) /\ ~Renews(s)
    <3> DEFINE v == Version(s) + 1
    <3>1. Bumped(s) # ledger[s]
      <4>1. Bumped(s).version = v /\ Bumped(s).incarnation = Incarnation(s)
        BY DEF Bumped
      <4>2. ledger[s].incarnation = Incarnation(s) => v # ledger[s].version
        BY <1>2, <1>4 DEF Version
      <4>3. QED BY <4>1, <4>2
    <3>2. Reenroll(Retire(ledger[s])) # ledger[s]
      BY <1>1, LedgerSteps
    <3>3. QED BY <1>5, <3>1, <3>2, Zenon DEF Stays, Bumps, Goes, Renews
  <2>2. ledger'[s] = ledger[s] /\ (s \in live' <=> s \in live)
    BY <1>5 DEF Stays
  <2>3. Incarnation(s)' = Incarnation(s) /\ Version(s)' = Version(s) /\ (s \in live' => Active(s)')
    BY <1>1, <2>2 DEF Incarnation, Version, Active
  <2>4. QED BY <1>1, <1>5, <2>1, <2>2, <2>3, Zenon
<1>6. CASE Comes(s)
  <2>1. /\ s \notin live /\ ledger[s] = NoLedger /\ ledger'[s] = NoLedger /\ s \in live'
    BY <1>6 DEF Comes
  <2>2. ~Bumps(s) /\ ~Goes(s) /\ ~Renews(s)
    BY <2>1, Zenon DEF Bumps, Goes, Renews, Active
  <2>3. Incarnation(s)' = Incarnation(s) /\ Version(s)' = Version(s) /\ (s \in live' => Active(s)')
    BY <1>3, <2>1 DEF Incarnation, Version, Active
  <2>4. QED BY <1>1, <1>6, <2>1, <2>2, <2>3, Zenon
<1>7. CASE Bumps(s)
  <2> DEFINE v == Version(s) + 1
  <2>1. Active(s) /\ ledger'[s] = Bumped(s) /\ s \in live' /\ s \in live
    BY <1>7 DEF Bumps, Active
  <2>2. v \in Nat /\ v # Version(s)
    BY <1>4
  <2>3. /\ Bumped(s) \in Entries /\ Bumped(s).active /\ Bumped(s).incarnation = Incarnation(s)
        /\ Bumped(s).version = v
    BY <1>4, <2>2 DEF Bumped, Entries
  <2>4. Incarnation(s)' = Incarnation(s) /\ Version(s)' = v /\ Active(s)'
    BY <1>4, <2>1, <2>3 DEF Incarnation, Version, Active
  <2>5. ledger'[s] # ledger[s]
    BY <1>4, <2>1, <2>2, <2>3 DEF Incarnation, Version
  <2>6. ~Stays(s) /\ ~Comes(s) /\ ~Goes(s)
    BY <2>1, <2>5, Zenon DEF Stays, Comes, Goes
  <2>7. ~Renews(s)
    <3>1. ledger[s].incarnation = 0 => Reenroll(Retire(ledger[s])).incarnation # Incarnation(s)
      BY <1>1, LedgerSteps DEF Incarnation, Retire, Reenroll
    <3>2. ledger[s].incarnation # 0 => Reenroll(Retire(ledger[s])).incarnation # Incarnation(s)
      BY <1>1, <1>2, LedgerSteps DEF Incarnation, Entries
    <3>3. QED BY <2>1, <2>3, <3>1, <3>2 DEF Renews
  <2>8. Version(s)' = Version(s) + 1 /\ ledger'[s] \in Entries /\ ledger'[s].incarnation # 0
        /\ ledger'[s].active /\ ledger'[s].incarnation = Incarnation(s)
    BY <1>4, <2>1, <2>3, <2>4
  <2>9. QED BY <1>7, <2>1, <2>4, <2>5, <2>6, <2>7, <2>8, Zenon
<1>8. CASE Goes(s)
  <2>1. s \in live /\ s \notin live' /\ ledger'[s] = Retire(ledger[s])
    BY <1>8 DEF Goes
  <2>2. /\ Retire(ledger[s]) \in Entries /\ ~Retire(ledger[s]).active /\ Retire(ledger[s]).incarnation # 0
        /\ Retire(ledger[s]).incarnation = Incarnation(s) /\ Retire(ledger[s]).version = Version(s) + 1
    <3>1. CASE ledger[s].incarnation = 0
      <4>1. /\ Retire(ledger[s]) \in Entries /\ ~Retire(ledger[s]).active
            /\ Retire(ledger[s]).incarnation # 0
        BY <1>1, LedgerSteps
      <4>2. Retire(ledger[s]).incarnation = 1 /\ Retire(ledger[s]).version = 2
        BY <3>1 DEF Retire
      <4>3. Incarnation(s) = 1 /\ Version(s) = 1
        BY <3>1 DEF Incarnation, Version
      <4>4. QED BY <4>1, <4>2, <4>3
    <3>2. CASE ledger[s].incarnation # 0
      BY <1>1, <2>1, <3>2, LedgerSteps DEF Incarnation, Version, Active
    <3>3. QED BY <3>1, <3>2
  <2>3. /\ ~Active(s)' /\ ledger'[s] # NoLedger
        /\ Incarnation(s)' = Incarnation(s) /\ Version(s)' = Version(s) + 1
    BY <1>3, <2>1, <2>2 DEF Active, Incarnation, Version
  <2>4. ~Stays(s) /\ ~Comes(s) /\ ~Bumps(s) /\ ~Renews(s)
    BY <2>1, Zenon DEF Stays, Comes, Bumps, Renews
  <2>5. QED BY <1>8, <2>1, <2>2, <2>3, <2>4, Zenon
<1>9. CASE Renews(s)
  <2> DEFINE r == Retire(ledger[s])
  <2>1. s \in live /\ s \in live' /\ ledger'[s] = Reenroll(r)
    BY <1>9 DEF Renews
  <2>2. /\ r.incarnation \in Nat /\ r.incarnation >= Incarnation(s)
        /\ Reenroll(r) \in Entries /\ Reenroll(r).active /\ Reenroll(r).incarnation = r.incarnation + 1
        /\ Reenroll(r) # ledger[s]
    <3>1. /\ r \in Entries /\ r.incarnation # 0 /\ r.incarnation >= ledger[s].incarnation
          /\ Reenroll(r) \in Entries /\ Reenroll(r).active /\ Reenroll(r).incarnation = r.incarnation + 1
          /\ Reenroll(r) # ledger[s]
      BY <1>1, LedgerSteps
    <3> HIDE DEF r
    <3>2. r.incarnation \in Nat
      BY <3>1 DEF Entries
    <3>3. r.incarnation >= Incarnation(s)
      BY <1>2, <3>1, <3>2 DEF Incarnation
    <3>4. QED BY <3>1, <3>2, <3>3
  <2> HIDE DEF r
  <2>3. Incarnation(s)' = r.incarnation + 1 /\ ledger'[s] \in Entries /\ ledger'[s].active /\ Active(s)'
    BY <2>1, <2>2 DEF Incarnation, Active
  <2>4. Incarnation(s)' > Incarnation(s) /\ ledger'[s].incarnation # 0 /\ ledger'[s] # NoLedger
    BY <1>3, <1>4, <2>1, <2>2, <2>3
  <2>5. ~Stays(s) /\ ~Comes(s) /\ ~Goes(s)
    BY <2>1, <2>2, Zenon DEF Stays, Comes, Goes
  <2>6. ~Bumps(s)
    <3>1. Bumped(s).incarnation = Incarnation(s)
      BY DEF Bumped
    <3>2. ledger'[s].incarnation > Incarnation(s)
      BY <1>4, <2>1, <2>2
    <3>3. QED BY <1>4, <3>1, <3>2 DEF Bumps
  <2>7. QED BY <1>9, <2>3, <2>4, <2>5, <2>6, Zenon
<1>10. QED BY <1>1, <1>5, <1>6, <1>7, <1>8, <1>9

(* A scope that keeps its incarnation, and what is above it.                 *)
LEMMA GoesOn ==
  ASSUME GovernanceInv, Moves, NEW s \in Scopes, s \in live, Stays(s) \/ Bumps(s)
  PROVE  /\ s \in live' /\ Chain(s)' = Chain(s) /\ Incarnation(s)' = Incarnation(s)
         /\ Bumps(s) \/ ledger[s].active =>
              ledger'[s].active /\ ledger'[s].incarnation = Incarnation(s)
         /\ ledger[s].active => Incarnation(s) = ledger[s].incarnation
<1>1. ledger[s] \in Entries /\ (ledger[s].incarnation = 0 => ledger[s] = NoLedger)
  BY EntryOf DEF GovernanceInv, Rooted
<1>2. Incarnation(s) \in Nat
  BY <1>1 DEF Incarnation, Entries
<1>3. s \in live' /\ Incarnation(s)' = Incarnation(s) /\ ~Renews(s)
  <2>1. Stays(s) => s \in live'
    BY DEF Stays
  <2>2. Bumps(s) => s \in live'
    BY DEF Bumps
  <2>3. Incarnation(s)' = Incarnation(s)
    BY LedgerAfter
  <2>4. Renews(s) => Incarnation(s)' > Incarnation(s)
    BY LedgerAfter
  <2>5. QED BY <1>2, <2>1, <2>2, <2>3, <2>4
<1>4. Chain(s)' = Chain(s)
  BY <1>3 DEF Moves, TreeMoves
<1>5. ledger[s].active => Incarnation(s) = ledger[s].incarnation
  BY <1>1 DEF Incarnation, NoLedger
<1>6. Bumps(s) \/ ledger[s].active => ledger'[s].active /\ ledger'[s].incarnation = Incarnation(s)
  <2>1. CASE Bumps(s)
    BY <2>1, LedgerAfter
  <2>2. CASE Stays(s) /\ ledger[s].active
    BY <1>5, <2>2 DEF Stays
  <2>3. QED BY <2>1, <2>2
<1>7. QED BY <1>3, <1>4, <1>5, <1>6

(* What a role in use said, it says for good.                                *)
LEMMA RevisionsStay ==
  ASSUME RowTypes, RoleMoves, NEW d \in Roles, role[d].status = "active"
  PROVE  /\ role'[d].namespace = role[d].namespace /\ role'[d].incarnation = role[d].incarnation
         /\ \A n \in DOMAIN role[d].revisions :
              n \in DOMAIN role'[d].revisions /\ role'[d].revisions[n] = role[d].revisions[n]
<1>1. role[d] \in RoleRows /\ role[d].revisions \in Seq(SUBSET Permissions)
  BY DEF RowTypes, RoleRows
<1>2. role[d] # NoRole
  BY DEF NoRole
<1>3. CASE role'[d] = role[d]
  BY <1>3
<1>4. CASE role'[d].namespace = role[d].namespace /\ role'[d].incarnation = role[d].incarnation
           /\ role'[d].revisions = role[d].revisions
  BY <1>4
<1>5. CASE /\ role'[d].namespace = role[d].namespace /\ role'[d].incarnation = role[d].incarnation
           /\ \E perms \in SUBSET Permissions : role'[d].revisions = Append(role[d].revisions, perms)
  <2>1. PICK perms \in SUBSET Permissions : role'[d].revisions = Append(role[d].revisions, perms)
    BY <1>5
  <2> DEFINE r == role[d].revisions
  <2>2. ASSUME NEW n \in DOMAIN r PROVE n \in DOMAIN Append(r, perms) /\ Append(r, perms)[n] = r[n]
    <3>1. r \in Seq(SUBSET Permissions)
      BY <1>1
    <3> HIDE DEF r
    <3>2. QED BY <3>1
  <2>3. QED BY <1>5, <2>1, <2>2
<1>6. QED BY <1>2, <1>3, <1>4, <1>5 DEF RoleMoves

LEMMA RolesAfter ==
  ASSUME GovernanceInv, Moves
  PROVE  RolesAreCurrent'
<1>1. SUFFICES ASSUME NEW d \in Roles, role'[d].status = "active", NEW s, s = role'[d].namespace, s # None
               PROVE  s \in live' /\ ledger'[s].active /\ role'[d].incarnation = ledger'[s].incarnation
  BY DEF RolesAreCurrent
<1>2. CASE role[d].status = "active"
  <2>1. s = role[d].namespace /\ role'[d].incarnation = role[d].incarnation
    BY <1>1, <1>2, RevisionsStay DEF GovernanceInv, Moves
  <2>2. s \in live /\ ledger[s].active /\ role[d].incarnation = ledger[s].incarnation
    BY <1>1, <1>2, <2>1 DEF GovernanceInv, RolesAreCurrent
  <2>3. s \in Scopes
    BY <2>2 DEF GovernanceInv, Rooted
  <2>4. Stays(s) \/ Bumps(s)
    BY <1>1, <1>2, <2>1 DEF Moves, RoleMoves
  <2>5. QED BY <2>1, <2>2, <2>3, <2>4, GoesOn
<1>3. CASE role[d].status # "active"
  <2>1. s \in Scopes /\ Bumps(s) /\ role'[d].incarnation = Incarnation(s)
    BY <1>1, <1>3 DEF Moves, RoleMoves
  <2>2. QED BY <2>1, LedgerAfter
<1>4. QED BY <1>2, <1>3

(* Grants are never removed.                                                 *)
LEMMA DomainGrows ==
  ASSUME RowTypes, GrantMoves
  PROVE  DOMAIN grants \subseteq DOMAIN grants'
<1> DEFINE n == Len(grants)   m == Len(grants')
<1>1. /\ grants \in Seq(GrantRows) /\ grants' \in Seq(GrantRows) /\ m \in {n, n + 1}
  BY DEF RowTypes, GrantMoves
<1>2. n \in Nat /\ DOMAIN grants = 1 .. n /\ DOMAIN grants' = 1 .. m
  BY <1>1
<1> HIDE DEF n, m
<1>3. QED BY <1>1, <1>2

(* A grant that is good after a step was given in it, or was good before.    *)
LEMMA GoodAfter ==
  ASSUME GovernanceInv, Moves, NEW i \in DOMAIN grants', grants'[i].active
  PROVE  \/ /\ i \in DOMAIN grants /\ grants[i].active /\ Follows(grants[i], grants'[i])
         \/ /\ i \notin DOMAIN grants /\ i = Len(grants') /\ Len(grants') = Len(grants) + 1
            /\ Given(grants'[i])
<1>1. /\ grants \in Seq(GrantRows) /\ grants' \in Seq(GrantRows)
      /\ Len(grants') \in {Len(grants), Len(grants) + 1}
  BY DEF GovernanceInv, RowTypes, Moves, GrantMoves
<1> DEFINE n == Len(grants)   m == Len(grants')
<1>2. n \in Nat /\ m \in {n, n + 1} /\ DOMAIN grants = 1 .. n /\ i \in 1 .. m
  BY <1>1
<1>3. CASE i \in DOMAIN grants
  BY <1>3 DEF Moves, GrantMoves, Follows
<1>4. CASE i \notin DOMAIN grants
  <2> HIDE DEF n, m
  <2>1. i = m /\ m = n + 1
    BY <1>2, <1>4
  <2>2. i = Len(grants') /\ Len(grants') = Len(grants) + 1
    BY <2>1 DEF n, m
  <2>3. Given(grants'[i])
    BY <2>2, Zenon DEF Moves, GrantMoves
  <2>4. QED BY <1>4, <2>2, <2>3
<1>5. QED BY <1>3, <1>4

(* The same of a scope that is read after the step.                         *)
LEMMA OnAt ==
  ASSUME GovernanceInv, Moves, NEW s \in Scopes, s \in live, Stays(s) \/ Bumps(s)
  PROVE  /\ s \in live' /\ ChainIn(parent', s) = Chain(s)
         /\ Bumps(s) \/ ledger[s].active =>
              ledger'[s].active /\ ledger'[s].incarnation = Incarnation(s)
         /\ ledger[s].active => Incarnation(s) = ledger[s].incarnation
BY GoesOn, ChainIs

LEMMA GrantsAfter ==
  ASSUME GovernanceInv, Moves
  PROVE  GrantsAreCurrent' /\ PinsExist'
<1>1. ASSUME NEW i \in DOMAIN grants', grants'[i].active
      PROVE  /\ grants'[i].scope \in live' /\ ledger'[grants'[i].scope].active
             /\ grants'[i].incarnation = ledger'[grants'[i].scope].incarnation
             /\ role'[grants'[i].role].status = "active"
             /\ role'[grants'[i].role].namespace \in ChainIn(parent', grants'[i].scope) \cup {None}
             /\ grants'[i].revision \in DOMAIN role'[grants'[i].role].revisions
  <2> DEFINE h == grants'[i]
  <2>1. h \in GrantRows /\ h.role \in Roles /\ h.scope \in Scopes
    <3>1. h \in GrantRows
      BY <1>1 DEF Moves, GrantMoves
    <3>2. QED BY <3>1 DEF GrantRows
  <2> HIDE DEF h
  <2>2. RowTypes /\ RoleMoves
    BY DEF GovernanceInv, Moves
  <2>3. CASE i \in DOMAIN grants /\ grants[i].active /\ Follows(grants[i], h)
    <3> DEFINE g == grants[i]
    <3>1. /\ g.active /\ g.scope \in live /\ ledger[g.scope].active
          /\ g.incarnation = ledger[g.scope].incarnation
          /\ role[g.role].status = "active" /\ role[g.role].namespace \in Chain(g.scope) \cup {None}
          /\ g.revision \in DOMAIN role[g.role].revisions
      BY <2>3 DEF GovernanceInv, GrantsAreCurrent, PinsExist
    <3> HIDE DEF g
    <3>2. /\ h.role = g.role /\ h.scope = g.scope /\ h.incarnation = g.incarnation /\ h.active
          /\ Stays(g.scope) \/ Bumps(g.scope)
          /\ role'[g.role].status = "active"
          /\ h.revision = g.revision \/ h.revision \in DOMAIN role[g.role].revisions
      BY <1>1, <2>3 DEF Follows, g, h
    <3>3. /\ g.scope \in live' /\ ChainIn(parent', g.scope) = Chain(g.scope)
          /\ ledger'[g.scope].active /\ ledger'[g.scope].incarnation = ledger[g.scope].incarnation
      BY <2>1, <3>1, <3>2, OnAt
    <3>4. /\ role'[g.role].namespace = role[g.role].namespace
          /\ h.revision \in DOMAIN role'[g.role].revisions
      BY <2>1, <2>2, <3>1, <3>2, RevisionsStay
    <3>5. QED BY <3>1, <3>2, <3>3, <3>4 DEF h
  <2>4. CASE Given(h)
    <3>1. /\ Bumps(h.scope) /\ h.incarnation = Incarnation(h.scope)
          /\ role[h.role].status = "active" /\ role' = role
          /\ role[h.role].namespace \in Chain(h.scope) \cup {None}
          /\ h.revision \in DOMAIN role[h.role].revisions
      BY <2>4 DEF Given
    <3>2. h.scope \in live
      BY <3>1 DEF Bumps, Active
    <3>3. /\ h.scope \in live' /\ ledger'[h.scope].active
          /\ ledger'[h.scope].incarnation = Incarnation(h.scope)
          /\ ChainIn(parent', h.scope) = Chain(h.scope)
      BY <2>1, <3>1, <3>2, OnAt
    <3>4. QED BY <3>1, <3>3 DEF h
  <2>5. QED BY <1>1, <2>3, <2>4, GoodAfter DEF h
<1>2. \A i \in DOMAIN grants' : Chain(grants[i].scope)' = ChainIn(parent', grants'[i].scope)
  BY DEF Chain, ChainIn, Parent, Above
<1>3. QED BY <1>1, <1>2 DEF GrantsAreCurrent, PinsExist

LEMMA SingleAfter ==
  ASSUME GovernanceInv, Moves
  PROVE  GrantsAreSingle'
<1> DEFINE Apart(g, h) == g.who # h.who \/ g.role # h.role \/ g.scope # h.scope
<1>1. ASSUME NEW i \in DOMAIN grants', NEW j \in DOMAIN grants', grants'[i].active, grants'[j].active,
             i # j, i \in DOMAIN grants
      PROVE  Apart(grants'[i], grants'[j]) \/ Apart(grants'[j], grants'[i])
  <2>1. grants[i].active /\ Follows(grants[i], grants'[i])
    BY <1>1, GoodAfter
  <2>2. CASE j \in DOMAIN grants /\ grants[j].active /\ Follows(grants[j], grants'[j])
    <3>1. Apart(grants[i], grants[j])
      BY <1>1, <2>1, <2>2 DEF GovernanceInv, GrantsAreSingle
    <3>2. QED BY <2>1, <2>2, <3>1 DEF Follows
  <2>3. CASE j = Len(grants') /\ Len(grants') = Len(grants) + 1
    <3>1. Apart(grants[i], grants'[j])
      BY <1>1, <2>3, Zenon DEF Moves, GrantMoves
    <3>2. QED BY <2>1, <3>1 DEF Follows
  <2>4. QED BY <1>1, <2>2, <2>3, GoodAfter
<1>2. ASSUME NEW i \in DOMAIN grants', NEW j \in DOMAIN grants', grants'[i].active, grants'[j].active, i # j
      PROVE  i \in DOMAIN grants \/ j \in DOMAIN grants
  BY <1>2, GoodAfter
<1>3. QED BY <1>1, <1>2 DEF GrantsAreSingle

LEMMA RootedAfter ==
  ASSUME GovernanceInv, Moves
  PROVE  Rooted'
<1>1. \A s \in Scopes : (ledger'[s].incarnation = 0 => ledger'[s] = NoLedger) /\ (s \in live' => Active(s)')
  BY LedgerAfter
<1>2. LiveIsGoverned'
  BY <1>1 DEF LiveIsGoverned, Moves, TreeMoves
<1>3. QED BY <1>1, <1>2 DEF Rooted, Moves, TreeMoves

LEMMA TypesAfter ==
  ASSUME GovernanceInv, Moves, screen' \in [Users -> Screens]
  PROVE  RowTypes'
<1>1. ledger' \in [Scopes -> Entries]
  <2>1. ledger' = [s \in Scopes |-> ledger'[s]]
    BY DEF Moves, ScopeMoves
  <2>2. \A s \in Scopes : ledger'[s] \in Entries
    BY LedgerAfter
  <2>3. QED BY <2>1, <2>2
<1>2. QED BY <1>1 DEF RowTypes, Moves, RoleMoves, GrantMoves

(* The rows of a scope, one by one.                                          *)
LEMMA RowsAre ==
  ASSUME NEW s, NEW gs, NEW rs
  PROVE  /\ \A i, v : <<i, v>> \in RowsOf(s, gs, rs).grants <=>
                        i \in DOMAIN gs /\ gs[i].active /\ gs[i].scope = s /\ v = gs[i].version
         /\ \A g \in RowsOf(s, gs, rs).grants : g = <<g[1], g[2]>>
         /\ \A d, n : <<d, n>> \in RowsOf(s, gs, rs).roles <=>
                        /\ d \in Roles /\ rs[d].namespace = s /\ rs[d].status = "active"
                        /\ n = Len(rs[d].revisions)
         /\ \A r \in RowsOf(s, gs, rs).roles : r = <<r[1], r[2]>>
<1>1. RowsOf(s, gs, rs).grants = {<<i, gs[i].version>> :
                          i \in {j \in DOMAIN gs : gs[j].active /\ gs[j].scope = s}}
  BY DEF RowsOf
<1>2. RowsOf(s, gs, rs).roles = {<<d, Len(rs[d].revisions)>> :
                         d \in {e \in Roles : rs[e].namespace = s /\ rs[e].status = "active"}}
  BY DEF RowsOf
<1>3. QED BY <1>1, <1>2

LEMMA RowsRead == \A s : Rows(s) = RowsOf(s, grants, role) /\ Rows(s)' = RowsOf(s, grants', role')
  BY DEF Rows, RowsOf

(* While a scope stays as it is, so do its rows, but for deleted agents.     *)
LEMMA RowsStay ==
  ASSUME GovernanceInv, Moves, NEW s \in Scopes, Stays(s)
  PROVE  /\ Rows(s)'.roles = Rows(s).roles /\ Rows(s)'.grants \subseteq Rows(s).grants
         /\ \A g \in Rows(s).grants \ Rows(s)'.grants : grants'[g[1]].who \in deleted'
<1>1. ~Bumps(s)
  BY LedgerAfter DEF Stays
<1>2. ASSUME NEW d \in Roles
      PROVE  /\ role[d].namespace = s /\ role[d].status = "active"
                 => role'[d] = role[d]
             /\ role'[d].namespace = s /\ role'[d].status = "active"
                 => role'[d] = role[d]
  BY <1>1 DEF Moves, RoleMoves, NoRole
<1>3. Rows(s)'.roles = Rows(s).roles
  <2>1. \A d, n : <<d, n>> \in RowsOf(s, grants', role').roles <=>
                        /\ d \in Roles /\ role'[d].namespace = s /\ role'[d].status = "active"
                        /\ n = Len(role'[d].revisions)
    BY RowsAre, Zenon
  <2>2. \A d, n : <<d, n>> \in RowsOf(s, grants, role).roles <=>
                        /\ d \in Roles /\ role[d].namespace = s /\ role[d].status = "active"
                        /\ n = Len(role[d].revisions)
    BY RowsAre, Zenon
  <2>3. \A r \in RowsOf(s, grants', role').roles : r = <<r[1], r[2]>>
    BY RowsAre, Zenon
  <2>4. \A r \in RowsOf(s, grants, role).roles : r = <<r[1], r[2]>>
    BY RowsAre, Zenon
  <2>5. \A d, n : <<d, n>> \in RowsOf(s, grants, role).roles <=> <<d, n>> \in RowsOf(s, grants', role').roles
    <3>1. SUFFICES ASSUME NEW d \in Roles, NEW n
                   PROVE  <<d, n>> \in RowsOf(s, grants, role).roles <=> <<d, n>> \in RowsOf(s, grants', role').roles
      BY <2>1, <2>2, Zenon
    <3>2. CASE role'[d] = role[d]
      <4> DEFINE good == role[d].namespace = s /\ role[d].status = "active" /\ n = Len(role[d].revisions)
      <4>1. <<d, n>> \in RowsOf(s, grants, role).roles <=> good
        BY <2>2, Zenon
      <4>2. <<d, n>> \in RowsOf(s, grants', role').roles <=>
              role'[d].namespace = s /\ role'[d].status = "active" /\ n = Len(role'[d].revisions)
        BY <2>1, Zenon
      <4>3. role'[d].namespace = s /\ role'[d].status = "active" /\ n = Len(role'[d].revisions) <=> good
        BY <3>2
      <4>4. QED BY <4>1, <4>2, <4>3, Zenon
    <3>3. CASE role'[d] # role[d]
      <4>1. /\ ~(role[d].namespace = s /\ role[d].status = "active")
            /\ ~(role'[d].namespace = s /\ role'[d].status = "active")
        BY <1>2, <3>3
      <4>2. <<d, n>> \notin RowsOf(s, grants, role).roles
        BY <2>2, <4>1, Zenon
      <4>3. <<d, n>> \notin RowsOf(s, grants', role').roles
        BY <2>1, <4>1, Zenon
      <4>4. QED BY <4>2, <4>3
    <3>4. QED BY <3>2, <3>3
  <2>6. RowsOf(s, grants, role).roles = RowsOf(s, grants', role').roles
    BY <2>3, <2>4, <2>5
  <2>7. QED BY <2>6, RowsRead
<1>4. ASSUME NEW i \in DOMAIN grants', grants'[i].active, grants'[i].scope = s
      PROVE  i \in DOMAIN grants /\ grants[i].active /\ grants[i].scope = s /\ grants'[i].version = grants[i].version
  <2>1. ~Given(grants'[i])
    BY <1>1, <1>4 DEF Given
  <2>2. QED BY <1>1, <1>4, <2>1, GoodAfter DEF Follows
<1>5. /\ \A i, v : <<i, v>> \in Rows(s)'.grants <=>
                     i \in DOMAIN grants' /\ grants'[i].active /\ grants'[i].scope = s /\ v = grants'[i].version
      /\ \A g \in Rows(s)'.grants : g = <<g[1], g[2]>>
  BY RowsAre, RowsRead
<1>6. Rows(s)'.grants \subseteq Rows(s).grants
  BY <1>4, <1>5, RowsAre, RowsRead
<1>7. ASSUME NEW g \in Rows(s).grants, g \notin Rows(s)'.grants PROVE grants'[g[1]].who \in deleted'
  <2> DEFINE i == g[1]
  <2>1. g = <<i, g[2]>> /\ i \in DOMAIN grants /\ grants[i].active /\ grants[i].scope = s /\ g[2] = grants[i].version
    BY RowsAre, RowsRead
  <2>2. Follows(grants[i], grants'[i]) /\ i \in DOMAIN grants'
    <3>1. Follows(grants[i], grants'[i])
      BY <2>1, Zenon DEF Moves, GrantMoves
    <3>2. QED BY <2>1, <3>1, DomainGrows DEF GovernanceInv, Moves
  <2> HIDE DEF i
  <2>3. CASE grants'[i].active
    <3>1. grants'[i].version = grants[i].version /\ grants'[i].scope = s
      BY <1>1, <2>1, <2>2, <2>3 DEF Follows
    <3>2. QED BY <1>5, <1>7, <2>1, <2>2, <2>3, <3>1
  <2>4. CASE ~grants'[i].active
    BY <2>1, <2>2, <2>4 DEF Follows, i
  <2>5. QED BY <2>3, <2>4
<1>8. QED BY <1>3, <1>6, <1>7

(***************************************************************************)
(* What people see                                                         *)
(***************************************************************************)
(* A scope that was seen and changed is not taken for the one that was seen. *)
LEMMA SeenAfter ==
  ASSUME GovernanceInv, Moves, NEW u \in Users, NEW s \in Scopes, s = screen[u].scope, screen' = screen
  PROVE  /\ NotAfter(u, s)' /\ (s \in live' \/ ledger'[s] # NoLedger)
         /\ Active(s)' /\ Expected(u, s)' => Stays(s) /\ Active(s) /\ Expected(u, s)
<1>1. NotAfter(u, s) /\ (s \in live \/ ledger[s] # NoLedger)
  <2>1. s # None
    BY KindsDiffer
  <2>2. QED BY <2>1 DEF GovernanceInv, SeenBefore
<1>2. /\ screen[u].incarnation \in Nat /\ screen[u].version \in Nat
      /\ Incarnation(s) \in Nat /\ Version(s) \in Nat /\ Incarnation(s)' \in Nat /\ Version(s)' \in Nat
  <2>1. screen[u] \in Screens /\ ledger[s] \in Entries /\ ledger'[s] \in Entries
    BY LedgerAfter DEF GovernanceInv, RowTypes
  <2>2. QED BY <2>1 DEF Screens, Entries, Incarnation, Version
<1> DEFINE i == screen[u].incarnation   v == screen[u].version
           a == Incarnation(s)   b == Version(s)   c == Incarnation(s)'   d == Version(s)'
<1>3. /\ NotAfter(u, s) <=> (i < a \/ (i = a /\ v <= b))
      /\ NotAfter(u, s)' <=> (i < c \/ (i = c /\ v <= d))
      /\ Expected(u, s) <=> (i = a /\ v = b)
      /\ Expected(u, s)' <=> (i = c /\ v = d)
  BY DEF NotAfter, Expected
<1>4. /\ Stays(s) \/ Comes(s) => ledger'[s] = ledger[s] /\ c = a /\ d = b
      /\ Bumps(s) => s \in live' /\ c = a /\ d = b + 1
      /\ Goes(s) => ~Active(s)' /\ ledger'[s] # NoLedger /\ c = a /\ d = b + 1
      /\ Renews(s) => ledger'[s] # NoLedger /\ c > a
      /\ Stays(s) \/ Bumps(s) \/ Goes(s) \/ Renews(s) \/ Comes(s)
  BY LedgerAfter
<1>5. i \in Nat /\ v \in Nat /\ a \in Nat /\ b \in Nat /\ c \in Nat /\ d \in Nat
  BY <1>2
<1> HIDE DEF i, v, a, b, c, d
<1>6. NotAfter(u, s)'
  BY <1>1, <1>3, <1>4, <1>5
<1>7. s \in live' \/ ledger'[s] # NoLedger
  BY <1>1, <1>4 DEF Stays, Comes
<1>8. ASSUME Active(s)', Expected(u, s)' PROVE Stays(s) /\ Active(s) /\ Expected(u, s)
  <2>1. ~Comes(s)
    BY <1>1 DEF Comes
  <2>2. ~Bumps(s) /\ ~Renews(s) /\ ~Goes(s)
    BY <1>1, <1>3, <1>4, <1>5, <1>8
  <2>3. Stays(s) /\ c = a /\ d = b
    BY <1>4, <2>1, <2>2
  <2>4. Active(s)
    BY <1>8, <2>3 DEF Active, Stays
  <2>5. QED BY <1>3, <1>8, <2>3, <2>4
<1>9. QED BY <1>6, <1>7, <1>8

LEMMA ScreensAfter ==
  ASSUME GovernanceInv, Moves, screen' = screen
  PROVE  SeenBefore' /\ ScreensAreTrue'
<1>1. ASSUME NEW u \in Users, screen[u].scope # None
      PROVE  /\ screen[u].scope \in Scopes
             /\ \A g \in screen[u].grants : g[1] \in DOMAIN grants /\ g[1] \in DOMAIN grants'
  <2>1. screen[u] \in Screens
    BY DEF GovernanceInv, RowTypes
  <2>2. DOMAIN grants \subseteq DOMAIN grants'
    BY DomainGrows DEF GovernanceInv, Moves
  <2>3. QED BY <1>1, <2>1, <2>2 DEF Screens, GovernanceInv, SeenBefore
<1>2. SeenBefore'
  <2>1. ASSUME NEW u \in Users, screen[u].scope # None
        PROVE  /\ NotAfter(u, screen[u].scope)'
               /\ screen[u].scope \in live' \/ ledger'[screen[u].scope] # NoLedger
    <3> DEFINE s == screen[u].scope
    <3>1. s \in Scopes /\ s' = s
      BY <1>1, <2>1
    <3>2. NotAfter(u, s)' /\ (s \in live' \/ ledger'[s] # NoLedger)
      BY <3>1, SeenAfter
    <3>3. QED BY <3>2
  <2>2. QED BY <1>1, <2>1 DEF SeenBefore
<1>3. ASSUME NEW u \in Users, NEW s, s = screen[u].scope, s # None, Active(s)', Expected(u, s)'
      PROVE  /\ Rows(s)'.roles = screen[u].roles /\ Rows(s)'.grants \subseteq screen[u].grants
             /\ \A g \in screen[u].grants \ Rows(s)'.grants : grants'[g[1]].who \in deleted'
  <2>1. s \in Scopes
    BY <1>1, <1>3
  <2>2. Stays(s) /\ Active(s) /\ Expected(u, s)
    BY <1>3, <2>1, SeenAfter
  <2>3. /\ Rows(s).roles = screen[u].roles /\ Rows(s).grants \subseteq screen[u].grants
        /\ \A g \in screen[u].grants \ Rows(s).grants : grants[g[1]].who \in deleted
    BY <1>3, <2>2 DEF GovernanceInv, ScreensAreTrue
  <2>4. /\ Rows(s)'.roles = Rows(s).roles /\ Rows(s)'.grants \subseteq Rows(s).grants
        /\ \A g \in Rows(s).grants \ Rows(s)'.grants : grants'[g[1]].who \in deleted'
    BY <2>1, <2>2, RowsStay
  <2>5. ASSUME NEW g \in screen[u].grants, grants[g[1]].who \in deleted PROVE grants'[g[1]].who \in deleted'
    <3>1. g[1] \in DOMAIN grants
      BY <1>1, <1>3
    <3>2. grants'[g[1]].who = grants[g[1]].who /\ deleted \subseteq deleted'
      BY <3>1 DEF Moves, GrantMoves, Follows
    <3>3. QED BY <2>5, <3>2
  <2>6. QED BY <2>3, <2>4, <2>5
<1>4. QED BY <1>2, <1>3 DEF ScreensAreTrue

LEMMA LookAfter ==
  ASSUME GovernanceInv, NEW u \in Users, NEW s \in Scopes, Look(u, s)
  PROVE  screen' \in [Users -> Screens] /\ SeenBefore' /\ ScreensAreTrue'
<1> DEFINE seen == [scope |-> s, incarnation |-> Incarnation(s), version |-> Version(s),
                    grants |-> Rows(s).grants, roles |-> Rows(s).roles]
<1>1. /\ Active(s) /\ screen' = [screen EXCEPT ![u] = seen]
      /\ live' = live /\ ledger' = ledger /\ role' = role /\ grants' = grants /\ deleted' = deleted
  BY DEF Look, resources
<1>2. /\ ledger[s] \in Entries /\ Incarnation(s) \in Nat /\ Version(s) \in Nat
  BY DEF GovernanceInv, RowTypes, Entries, Incarnation, Version
<1>3. Rows(s).grants \in SUBSET (Nat \X Nat)
  <2>1. ASSUME NEW g \in Rows(s).grants PROVE g \in Nat \X Nat
    <3>1. g = <<g[1], g[2]>> /\ g[1] \in DOMAIN grants /\ g[2] = grants[g[1]].version
      BY RowsAre, RowsRead
    <3>2. grants \in Seq(GrantRows)
      BY DEF GovernanceInv, RowTypes
    <3>3. g[1] \in Nat /\ grants[g[1]] \in GrantRows
      BY <3>1, <3>2
    <3>4. g[2] \in Nat
      BY <3>1, <3>3 DEF GrantRows
    <3>5. QED BY <3>1, <3>3, <3>4
  <2>2. QED BY <2>1
<1>4. Rows(s).roles \in SUBSET (Roles \X Nat)
  <2>1. ASSUME NEW r \in Rows(s).roles PROVE r \in Roles \X Nat
    <3>1. r = <<r[1], r[2]>> /\ r[1] \in Roles /\ r[2] = Len(role[r[1]].revisions)
      BY RowsAre, RowsRead
    <3>2. role[r[1]].revisions \in Seq(SUBSET Permissions)
      BY <3>1 DEF GovernanceInv, RowTypes, RoleRows
    <3>3. r[2] \in Nat
      BY <3>1, <3>2
    <3>4. QED BY <3>1, <3>3
  <2>2. QED BY <2>1
<1>5. seen \in Screens
  BY <1>2, <1>3, <1>4 DEF Screens
<1>6. /\ seen.scope = s /\ seen.incarnation = Incarnation(s) /\ seen.version = Version(s)
      /\ seen.grants = Rows(s).grants /\ seen.roles = Rows(s).roles
  OBVIOUS
<1> HIDE DEF seen
<1>7. /\ screen \in [Users -> Screens] /\ screen' \in [Users -> Screens] /\ screen'[u] = seen
      /\ \A v \in Users \ {u} : screen'[v] = screen[v]
  BY <1>1, <1>5 DEF GovernanceInv, RowTypes
<1>8. \A x : /\ Active(x)' = Active(x) /\ Incarnation(x)' = Incarnation(x) /\ Version(x)' = Version(x)
             /\ Rows(x)' = Rows(x)
  BY <1>1 DEF Active, Incarnation, Version, Rows
<1>9. SeenBefore'
  <2>1. ASSUME NEW v \in Users, NEW x, x = screen'[v].scope, x # None
        PROVE  /\ \/ screen'[v].incarnation < Incarnation(x)
                  \/ screen'[v].incarnation = Incarnation(x) /\ screen'[v].version <= Version(x)
               /\ x \in live \/ ledger[x] # NoLedger
               /\ \A g \in screen'[v].grants : g[1] \in DOMAIN grants
    <3>1. CASE v = u
      <4>1. x = s /\ screen'[v].incarnation = Incarnation(s) /\ screen'[v].version = Version(s)
        BY <1>6, <1>7, <2>1, <3>1
      <4>2. \A g \in Rows(s).grants : g[1] \in DOMAIN grants
        BY RowsAre, RowsRead
      <4>3. QED BY <1>1, <1>2, <1>6, <1>7, <3>1, <4>1, <4>2 DEF Active
    <3>2. CASE v # u
      BY <1>7, <2>1, <3>2 DEF GovernanceInv, SeenBefore, NotAfter
    <3>3. QED BY <3>1, <3>2
  <2>2. QED BY <1>1, <2>1 DEF SeenBefore, NotAfter, Incarnation, Version
<1>10. ScreensAreTrue'
  <2>1. ASSUME NEW v \in Users, NEW x, x = screen'[v].scope, x # None, Active(x),
               screen'[v].incarnation = Incarnation(x), screen'[v].version = Version(x)
        PROVE  /\ Rows(x).roles = screen'[v].roles /\ Rows(x).grants \subseteq screen'[v].grants
               /\ \A g \in screen'[v].grants \ Rows(x).grants : grants[g[1]].who \in deleted
    <3>1. CASE v = u
      BY <1>6, <1>7, <2>1, <3>1
    <3>2. CASE v # u
      BY <1>7, <2>1, <3>2 DEF GovernanceInv, ScreensAreTrue, Expected
    <3>3. QED BY <3>1, <3>2
  <2>2. QED BY <1>1, <2>1 DEF ScreensAreTrue, Expected, Active, Incarnation, Version, Rows
<1>11. QED BY <1>7, <1>9, <1>10

LEMMA GovernanceStart == Init => GovernanceInv
<1> SUFFICES ASSUME Init PROVE GovernanceInv
  OBVIOUS
<1>1. /\ live = Scopes \ Unborn /\ parent = Home /\ owner = [h \in Habitats |-> None]
      /\ ledger = [s \in Scopes |-> NoLedger]
      /\ role = [d \in Roles |-> IF d \in Builtins THEN Builtin ELSE NoRole]
      /\ grants = << >> /\ deleted = {} /\ screen = [u \in Users |-> Blank]
      /\ restore = NoRestore
  BY DEF Init
<1>2. RowTypes
  <2>1. NoLedger \in Entries
    BY DEF NoLedger, Entries
  <2>2. Builtin \in RoleRows /\ NoRole \in RoleRows
    <3>1. <<{"assign"}>> \in Seq(SUBSET Permissions) /\ << >> \in Seq(SUBSET Permissions)
      BY DEF Permissions
    <3>2. QED BY <3>1 DEF Builtin, NoRole, RoleRows
  <2>3. Blank \in Screens
    BY DEF Blank, Screens
  <2>4. NoRestore \in Restores
    BY DEF NoRestore, Restores
  <2>5. << >> \in Seq(GrantRows)
    OBVIOUS
  <2>6. ledger \in [Scopes -> Entries]
    BY <1>1, <2>1
  <2>7. role \in [Roles -> RoleRows]
    BY <1>1, <2>2
  <2>8. screen \in [Users -> Screens]
    BY <1>1, <2>3
  <2>9. owner \in [Habitats -> Users \cup {None}]
    BY <1>1
  <2>10. QED BY <1>1, <2>4, <2>5, <2>6, <2>7, <2>8, <2>9 DEF RowTypes
<1>3. Rooted
  <2>1. Shaped(parent)
    BY <1>1, GovernanceAssumption, HierarchyAssumption DEF Shaped
  <2>2. ASSUME NEW s \in live, parent[s] # None PROVE parent[s] \in live
    <3>1. s \in Teams \/ s \in Habitats \/ s \in Missions \/ s \in Tasks
      BY <1>1, KindsDiffer
    <3>2. parent[s] \in Teams \cup (Habitats \ Unborn) \cup Missions
      BY <1>1, <2>2, <3>1, HierarchyAssumption
    <3>3. parent[s] \in Scopes /\ parent[s] \notin Unborn
      BY <3>2, KindsDiffer, GovernanceAssumption
    <3>4. QED BY <1>1, <3>3
  <2>3. \A s \in Scopes : ledger[s] = NoLedger
    BY <1>1
  <2>4. LiveIsGoverned
    BY <1>1, <2>3 DEF LiveIsGoverned, Active, NoLedger
  <2>5. live \subseteq Scopes
    BY <1>1
  <2>6. QED BY <2>1, <2>2, <2>3, <2>4, <2>5 DEF Rooted
<1>4. Restorable
  BY <1>1 DEF Restorable, NoRestore
<1>5. RolesAreCurrent
  BY <1>1 DEF RolesAreCurrent, Builtin, NoRole
<1>6. GrantsAreCurrent /\ PinsExist /\ GrantsAreSingle
  <2>1. DOMAIN grants = {}
    BY <1>1
  <2>2. QED BY <2>1 DEF GrantsAreCurrent, PinsExist, GrantsAreSingle
<1>7. SeenBefore /\ ScreensAreTrue
  <2>1. \A u \in Users : screen[u].scope = None
    BY <1>1 DEF Blank
  <2>2. QED BY <2>1 DEF SeenBefore, ScreensAreTrue
<1>8. QED BY <1>2, <1>3, <1>4, <1>5, <1>6, <1>7 DEF GovernanceInv

LEMMA GovernanceStep ==
  ASSUME GovernanceInv, ~RestoreRaces, [Next]_vars
  PROVE  GovernanceInv'
<1>1. Moves /\ (screen' = screen \/ \E u \in Users, s \in Scopes : Look(u, s))
  BY StepMoves
<1>2. screen' \in [Users -> Screens] /\ SeenBefore' /\ ScreensAreTrue'
  <2>1. CASE screen' = screen
    BY <1>1, <2>1, ScreensAfter DEF GovernanceInv, RowTypes
  <2>2. CASE \E u \in Users, s \in Scopes : Look(u, s)
    BY <2>2, LookAfter, Zenon
  <2>3. QED BY <1>1, <2>1, <2>2
<1>3. QED BY <1>1, <1>2, TypesAfter, RootedAfter, RolesAfter, GrantsAfter, SingleAfter DEF GovernanceInv, Moves

(***************************************************************************)
(* The theorems                                                            *)
(***************************************************************************)
(* Whatever people do to teams, habitats, roles and grants, and in whatever  *)
(* order: an active grant is of the incarnation its scope has and of a role  *)
(* in use, nobody holds a role twice at a scope, what an author has seen is  *)
(* what is there while its versions are accepted, and what exists can be     *)
(* governed.                                                                 *)
THEOREM RolesTheorem ==
  ASSUME ~RestoreRaces
  PROVE  Spec => [](TypeOK /\ RolesAgree)
<1>1. Init => GovernanceInv
  BY GovernanceStart
<1>2. GovernanceInv /\ [Next]_vars => GovernanceInv'
  BY GovernanceStep
<1>3. GovernanceInv => TypeOK /\ RolesAgree
  <2> SUFFICES ASSUME GovernanceInv PROVE TypeOK /\ RolesAgree
    OBVIOUS
  <2>1. TypeOK
    <3>1. \A i \in DOMAIN grants : grants[i].scope \in Scopes /\ grants[i].role \in Roles
      <4>1. ASSUME NEW i \in DOMAIN grants PROVE grants[i] \in GrantRows
        BY GoodOnes
      <4>2. QED BY <4>1 DEF GrantRows
    <3>2. QED BY <3>1 DEF TypeOK, GovernanceInv, RowTypes, Rooted, Shaped, Entries
  <2>2. QED BY <2>1 DEF RolesAgree, GovernanceInv, Rooted
<1>4. QED BY <1>1, <1>2, <1>3, PTL DEF Spec

(* A grant that supports a permission after a step that made or pinned no    *)
(* grant supported it before.                                                *)
LEMMA SupportedBefore ==
  ASSUME GovernanceInv, Moves, NEW p, NEW perm, NEW s \in live, s \in live',
         NEW i \in DOMAIN grants, grants'[i].revision = grants[i].revision,
         Supports(grants[i], p, perm, s)'
  PROVE  Supports(grants[i], p, perm, s)
<1> DEFINE g == grants[i]   h == grants'[i]
<1>1. /\ h.active /\ h.who = p /\ role'[h.role].status = "active" /\ ~h.expired
      /\ perm \in role'[h.role].revisions[h.revision]
      /\ h.scope \in ChainIn(parent', s) /\ Assignable({perm}, h.scope)
      /\ role'[h.role].namespace # None =>
           /\ role'[h.role].namespace \in ChainIn(parent', s)
           /\ role'[h.role].namespace \in ChainIn(parent', h.scope)
  BY DEF Supports, Pinned, Chain, ChainIn, Parent, Above
<1>2. /\ h.who = g.who /\ h.role = g.role /\ h.scope = g.scope /\ g.active /\ ~g.expired
      /\ h.revision = g.revision /\ (Stays(g.scope) \/ Bumps(g.scope))
  BY <1>1 DEF Moves, GrantMoves, Follows
<1>3. /\ g.scope \in live /\ g.scope \in Scopes /\ g.role \in Roles /\ role[g.role].status = "active"
      /\ Active(g.scope) /\ g.incarnation = Incarnation(g.scope)
      /\ g.revision \in DOMAIN role[g.role].revisions
  BY <1>2, GoodOnes DEF GovernanceInv, PinsExist
<1> HIDE DEF g, h
<1>4. /\ role'[g.role].namespace = role[g.role].namespace
      /\ role'[g.role].revisions[g.revision] = role[g.role].revisions[g.revision]
  BY <1>3, RevisionsStay DEF GovernanceInv, Moves
<1>5. \A x \in live : x \in live' => ChainIn(parent', x) \subseteq Chain(x)
  BY ChainIs DEF Moves, TreeMoves
<1>6. g.scope \in live'
  BY <1>2, <1>3 DEF Stays, Bumps
<1>7. ASSUME role[g.role].namespace # None
      PROVE  LET space == role[g.role].namespace
             IN /\ space \in Chain(s) /\ space \in Chain(g.scope)
                /\ Active(space) /\ role[g.role].incarnation = Incarnation(space)
  <2> DEFINE space == role[g.role].namespace
  <2>1. space \in Chain(s) /\ space \in Chain(g.scope)
    BY <1>1, <1>2, <1>3, <1>4, <1>5, <1>6, <1>7
  <2>2. /\ space \in live /\ ledger[space].active /\ role[g.role].incarnation = ledger[space].incarnation
    BY <1>3, <1>7 DEF GovernanceInv, RolesAreCurrent
  <2>3. Active(space)
    BY <2>2 DEF GovernanceInv, Rooted, LiveIsGoverned
  <2>4. ledger[space].incarnation # 0
    <3>1. space \in Scopes
      BY <2>2 DEF GovernanceInv, Rooted
    <3>2. QED BY <2>2, <3>1 DEF GovernanceInv, Rooted, NoLedger
  <2>5. QED BY <2>1, <2>2, <2>3, <2>4 DEF Incarnation
<1>8. perm \in Pinned(g)
  <2>1. role'[h.role].revisions[h.revision] = role[g.role].revisions[g.revision]
    BY <1>2, <1>4
  <2>2. Pinned(g) = role[g.role].revisions[g.revision]
    BY DEF Pinned
  <2>3. QED BY <1>1, <2>1, <2>2
<1>9. g.scope \in Chain(s)
  BY <1>1, <1>2, <1>5
<1>10. Supports(g, p, perm, s)
  BY <1>1, <1>2, <1>3, <1>7, <1>8, <1>9, Zenon DEF Supports
<1>11. QED BY <1>10, SMTT(30) DEF g

(* No deletion, no restore and no new incarnation gives anybody a permission *)
(* at what was there: only a command that makes a grant or pins one does.    *)
THEOREM GivenTheorem ==
  ASSUME ~RestoreRaces
  PROVE  Spec => AuthorityIsGiven
<1>1. Init => GovernanceInv
  BY GovernanceStart
<1>2. GovernanceInv /\ [Next]_vars => GovernanceInv'
  BY GovernanceStep
<1> DEFINE Step == \A p \in Principals, perm \in Permissions, s \in live :
       ~Granted(p, perm, s) /\ Granted(p, perm, s)' =>
         \E i \in DOMAIN grants' :
           i \in DOMAIN grants => grants'[i].revision # grants[i].revision
<1>3. GovernanceInv /\ [Next]_vars => [Step]_vars
  <2>1. SUFFICES ASSUME GovernanceInv, [Next]_vars, NEW p \in Principals, NEW perm \in Permissions, NEW s \in live,
                        Granted(p, perm, s)',
                        \A i \in DOMAIN grants' : i \in DOMAIN grants /\ grants'[i].revision = grants[i].revision
                 PROVE  Granted(p, perm, s)
    BY Zenon
  <2>2. Moves
    BY <2>1, StepMoves
  <2>3. /\ p \notin Viewers \cup deleted' /\ Active(s)' /\ Served(perm, s)
        /\ \E i \in DOMAIN grants' : Supports(grants[i], p, perm, s)'
    BY <2>1 DEF Granted
  <2>4. s \in live' /\ Active(s) /\ p \notin Viewers \cup deleted
    <3>1. s \in live'
      BY <2>3 DEF Active
    <3>2. Active(s)
      BY <2>1 DEF GovernanceInv, Rooted, LiveIsGoverned
    <3>3. deleted \subseteq deleted'
      BY <2>2 DEF Moves, GrantMoves
    <3>4. QED BY <2>3, <3>1, <3>2, <3>3
  <2>5. PICK i \in DOMAIN grants' : Supports(grants[i], p, perm, s)'
    BY <2>3
  <2>6. i \in DOMAIN grants /\ Supports(grants[i], p, perm, s)
    BY <2>1, <2>2, <2>4, <2>5, SupportedBefore
  <2>7. QED BY <2>3, <2>4, <2>6 DEF Granted
<1>4. QED BY <1>1, <1>2, <1>3, PTL DEF Spec, AuthorityIsGiven

(* A ledger only moves on, so that no command of an earlier incarnation or   *)
(* version is ever taken for a present one.                                  *)
THEOREM LedgersTheorem ==
  ASSUME ~RestoreRaces
  PROVE  Spec => LedgersMoveOn
<1>1. Init => GovernanceInv
  BY GovernanceStart
<1>2. GovernanceInv /\ [Next]_vars => GovernanceInv'
  BY GovernanceStep
<1> DEFINE Step == \A s \in DOMAIN ledger :
       \/ ledger'[s] = ledger[s]
       \/ ledger'[s].incarnation > ledger[s].incarnation
       \/ /\ ledger'[s].incarnation = ledger[s].incarnation
          /\ ledger[s].active /\ ledger'[s].version > ledger[s].version
<1>3. GovernanceInv /\ [Next]_vars => [Step]_vars
  <2>1. SUFFICES ASSUME GovernanceInv, [Next]_vars, NEW s \in Scopes, ledger'[s] # ledger[s]
                 PROVE  \/ ledger'[s].incarnation > ledger[s].incarnation
                        \/ /\ ledger'[s].incarnation = ledger[s].incarnation
                           /\ ledger[s].active /\ ledger'[s].version > ledger[s].version
    <3>1. GovernanceInv => DOMAIN ledger = Scopes
      BY DEF GovernanceInv, RowTypes
    <3>2. QED BY <3>1, Zenon
  <2>2. Moves
    BY <2>1, StepMoves
  <2>3. /\ ledger[s] \in Entries /\ ledger'[s] \in Entries
        /\ ledger[s].incarnation = 0 => ledger[s] = NoLedger
        /\ ledger'[s].incarnation = 0 => ledger'[s] = NoLedger
    BY <2>1, <2>2, LedgerAfter, EntryOf DEF GovernanceInv, Rooted
  <2>4. /\ s \in live
        /\ \/ Incarnation(s)' = Incarnation(s) /\ Version(s)' = Version(s) + 1
           \/ Incarnation(s)' > Incarnation(s)
        /\ ledger'[s].incarnation # 0
    <3>1. ~Stays(s) /\ ~Comes(s)
      BY <2>1 DEF Stays, Comes
    <3>2. CASE Bumps(s)
      <4>1. ledger'[s].active
        BY <2>1, <2>2, <3>2, LedgerAfter
      <4>2. ledger'[s] # NoLedger
        BY <4>1 DEF NoLedger
      <4>3. QED BY <2>1, <2>2, <2>3, <3>2, <4>2, LedgerAfter
    <3>3. CASE Goes(s)
      BY <2>1, <2>2, <2>3, <3>3, LedgerAfter DEF Goes
    <3>4. CASE Renews(s)
      BY <2>1, <2>2, <2>3, <3>4, LedgerAfter DEF Renews
    <3>5. QED BY <2>1, <2>2, <3>1, <3>2, <3>3, <3>4, LedgerAfter
  <2>5. Active(s)
    BY <2>1, <2>4 DEF GovernanceInv, Rooted, LiveIsGoverned
  <2> DEFINE a == ledger[s].incarnation   b == ledger[s].version
             c == ledger'[s].incarnation   d == ledger'[s].version
  <2>6. a \in Nat /\ b \in Nat /\ c \in Nat /\ d \in Nat
    BY <2>3 DEF Entries
  <2>7. /\ Incarnation(s) = (IF a = 0 THEN 1 ELSE a) /\ Version(s) = (IF a = 0 THEN 1 ELSE b)
        /\ Incarnation(s)' = c /\ Version(s)' = d /\ (a # 0 => ledger[s].active) /\ c # 0
    BY <2>4, <2>5 DEF Incarnation, Version, Active
  <2> HIDE DEF a, b, c, d
  <2>8. \/ c > a
        \/ c = a /\ ledger[s].active /\ d > b
    BY <2>4, <2>6, <2>7
  <2>9. QED BY <2>8 DEF a, b, c, d
<1>4. QED BY <1>1, <1>2, <1>3, PTL DEF Spec, LedgersMoveOn

(***************************************************************************)
(* The idempotency key                                                     *)
(***************************************************************************)
Codes == {"none", "mismatch", "in flight", "prior failure", "busy", "error"}

(* A request is told from a code, and the bounds are numbers.                *)
KeyHypotheses ==
  Requests \cap Codes = {} /\ MaxLapses \in Nat /\ MaxCrashes \in Nat /\ MaxFaults \in Nat

Under == {r \in Requests : Keys!Executing(r)}
Ready == {r \in Requests : asked[r].at = "execute"}
Held == Under \cup (IF record.state = "none" THEN {} ELSE {record.id})

(* The registration lets one request execute, and a lease that ran out one   *)
(* more once it has been taken over.                                         *)
LetIn == IF record.state = "none" THEN 0 ELSE IF record.stale THEN expiries ELSE expiries + 1

(* Whoever executes was let to, by a record that is there and of its body;   *)
(* so was the request that the record names, also when it is answered.       *)
OnlyTheGranted ==
  /\ IsFiniteSet(Held)
  /\ Cardinality(Held) <= LetIn /\ Len(effects) + Cardinality(Ready) <= LetIn
  /\ record.state = "none" => Under = {} /\ effects = << >>
  /\ record.state # "none" => record.id \in Requests /\ record.hash \in Bodies
  /\ \A r \in Under : asked[r].body = record.hash
  /\ \A k \in DOMAIN effects : effects[k].body = record.hash

(* A completion tells of an effect of its own request; and as long as no     *)
(* lease ran out and every completion was written, what fails was not done.  *)
TellsWhatWasDone ==
  /\ \A r \in Requests : asked[r].at = "complete" \/ record.response = r =>
       \E k \in DOMAIN effects : effects[k].by = r
  /\ expiries = 0 /\ errors = 0 =>
       \A r \in Requests : asked[r].at = "fail" \/ record.state = "failed" => effects = << >>

(* A verdict is the last word of the request that gave it.                   *)
VerdictIsLast ==
  /\ record.state \in {"completed", "failed"} => record.id \notin Under
  /\ record.state \notin {"completed", "failed"} => record.response = "none"
  /\ \A r \in Requests : asked[r].response \in Requests \ {r} =>
       record.state = "completed" /\ record.response = asked[r].response

KeyInv == Keys!TypeOK /\ OnlyTheGranted /\ TellsWhatWasDone /\ VerdictIsLast

USE DEF Keys!None

LEMMA KeyNumbers ==
  ASSUME KeyHypotheses, Keys!TypeOK
  PROVE  /\ expiries \in Nat /\ errors \in Nat /\ LetIn \in Nat
         /\ effects \in Seq([by : Requests, body : Bodies]) /\ Len(effects) \in Nat
<1>1. expiries \in 0 .. MaxLapses /\ errors \in 0 .. MaxFaults
  BY DEF Keys!TypeOK
<1>2. MaxLapses \in Nat /\ MaxFaults \in Nat
  BY DEF KeyHypotheses
<1>3. expiries \in Nat /\ errors \in Nat
  BY <1>1, <1>2
<1>4. effects \in Seq([by : Requests, body : Bodies])
  BY DEF Keys!TypeOK
<1>5. LetIn \in Nat
  BY <1>3 DEF LetIn
<1>6. QED BY <1>3, <1>4, <1>5

KeyRecords ==
  [state : {"none", "pending", "completed", "failed"}, hash : Bodies \cup {"none"},
   id : Requests \cup {"none"}, stale : BOOLEAN, response : Requests \cup {"none"}]
KeyCalls ==
  [at : {"new", "execute", "complete", "fail", "answered"}, body : Bodies \cup {"none"},
   response : Requests \cup {"none", "mismatch", "in flight", "prior failure", "busy", "error"}]

LEMMA KeyInit ==
  ASSUME KeyHypotheses, Keys!Init
  PROVE  KeyInv
<1>1. Keys!TypeOK
  BY DEF KeyHypotheses, Keys!Init, Keys!TypeOK, Keys!Fresh
<1>2. Under = {} /\ Ready = {} /\ Held = {}
  BY DEF Under, Ready, Held, Keys!Executing, Keys!Init, Keys!Fresh
<1>3. OnlyTheGranted
  BY <1>2, FS_EmptySet DEF OnlyTheGranted, LetIn, Keys!Init
<1>4. TellsWhatWasDone /\ VerdictIsLast
  BY <1>2 DEF KeyHypotheses, Codes, TellsWhatWasDone, VerdictIsLast, Keys!Init, Keys!Fresh
<1>5. QED BY <1>1, <1>3, <1>4 DEF KeyInv

LEMMA OneAtMost ==
  ASSUME NEW S, IsFiniteSet(S), Cardinality(S) <= 1, NEW p \in S, NEW q \in S
  PROVE  p = q
<1> SUFFICES ASSUME p # q PROVE FALSE
  OBVIOUS
<1>1. IsFiniteSet({p}) /\ Cardinality({p}) = 1
  BY FS_Singleton
<1>2. Cardinality({p} \cup {q}) = 2
  <2>1. q \notin {p}
    OBVIOUS
  <2>2. Cardinality({p} \cup {q}) = Cardinality({p}) + 1
    BY <1>1, <2>1, FS_AddElement, Zenon
  <2>3. QED BY <1>1, <2>2
<1>3. {p} \cup {q} \subseteq S
  OBVIOUS
<1>4. Cardinality({p} \cup {q}) <= Cardinality(S)
  BY <1>3, FS_Subset
<1>5. Cardinality(S) \in Nat
  BY FS_CardinalityType
<1>6. QED BY <1>2, <1>4, <1>5

(* What leaves the record and the effects alone and lets nobody execute      *)
(* keeps the counts.                                                         *)
LEMMA ReadyFinite ==
  ASSUME OnlyTheGranted
  PROVE  IsFiniteSet(Ready) /\ Ready \subseteq Under
<1>1. Ready \subseteq Under /\ Under \subseteq Held
  BY DEF Ready, Under, Held, Keys!Executing
<1>2. QED BY <1>1, FS_Subset DEF OnlyTheGranted

LEMMA FewerExecute ==
  ASSUME KeyHypotheses, OnlyTheGranted, Keys!TypeOK, Held' \subseteq Held, Ready' \subseteq Ready,
         LetIn' = LetIn,
         Len(effects') + Cardinality(Ready') <= Len(effects) + Cardinality(Ready)
  PROVE  /\ IsFiniteSet(Held') /\ Cardinality(Held') <= LetIn'
         /\ Len(effects') + Cardinality(Ready') <= LetIn'
<1>1. IsFiniteSet(Held') /\ Cardinality(Held') <= Cardinality(Held)
  BY FS_Subset DEF OnlyTheGranted
<1>2. Cardinality(Held) \in Nat /\ Cardinality(Held') \in Nat
  BY <1>1, FS_CardinalityType DEF OnlyTheGranted
<1>3. IsFiniteSet(Ready) /\ IsFiniteSet(Ready')
  BY ReadyFinite, FS_Subset
<1>4. Cardinality(Ready) \in Nat /\ Cardinality(Ready') \in Nat
  BY <1>3, FS_CardinalityType
<1>5. /\ IsFiniteSet(Held) /\ Cardinality(Held) <= LetIn
      /\ Len(effects) + Cardinality(Ready) <= LetIn
  BY DEF OnlyTheGranted
<1>6. LetIn \in Nat
  BY KeyNumbers
<1>7. QED BY <1>1, <1>2, <1>4, <1>5, <1>6

(* One request that is new is let execute.                                   *)
LEMMA OneMoreExecutes ==
  ASSUME KeyHypotheses, OnlyTheGranted, Keys!TypeOK, NEW r \in Requests, r \notin Under,
         Held' \subseteq Held \cup {r}, Ready' = Ready \cup {r},
         LetIn' >= LetIn + 1, LetIn' \in Nat,
         effects' = effects
  PROVE  /\ IsFiniteSet(Held') /\ Cardinality(Held') <= LetIn'
         /\ Len(effects') + Cardinality(Ready') <= LetIn'
<1>1. /\ IsFiniteSet(Held \cup {r}) /\ Cardinality(Held \cup {r}) \in Nat
      /\ Cardinality(Held \cup {r}) <= Cardinality(Held) + 1 /\ Cardinality(Held) \in Nat
  <2>1. IsFiniteSet(Held)
    BY DEF OnlyTheGranted
  <2>2. /\ IsFiniteSet(Held \cup {r})
        /\ Cardinality(Held \cup {r}) =
             IF r \in Held THEN Cardinality(Held) ELSE Cardinality(Held) + 1
    BY <2>1, FS_AddElement, Zenon
  <2>3. Cardinality(Held) \in Nat
    BY <2>1, FS_CardinalityType
  <2>4. QED BY <2>2, <2>3
<1>2. /\ IsFiniteSet(Held') /\ Cardinality(Held') \in Nat
      /\ Cardinality(Held') <= Cardinality(Held \cup {r})
  BY <1>1, FS_Subset, FS_CardinalityType
<1>3. IsFiniteSet(Ready) /\ r \notin Ready
  BY ReadyFinite
<1>4. Cardinality(Ready') = Cardinality(Ready) + 1
  BY <1>3, FS_AddElement
<1>5. /\ Cardinality(Ready) \in Nat /\ Len(effects) \in Nat /\ LetIn \in Nat
  BY <1>3, FS_CardinalityType, KeyNumbers
<1>6. Cardinality(Held) <= LetIn /\ Len(effects) + Cardinality(Ready) <= LetIn
  BY DEF OnlyTheGranted
<1>7. Cardinality(Held') <= LetIn'
  BY <1>1, <1>2, <1>5, <1>6
<1>8. Len(effects') + Cardinality(Ready') <= LetIn'
  BY <1>4, <1>5, <1>6
<1>9. QED BY <1>2, <1>7, <1>8

(* The first request registers the key, and a later one takes it over.       *)
LEMMA KeyGranted ==
  ASSUME KeyHypotheses, KeyInv, NEW r \in Requests, NEW body \in Bodies,
         asked[r].at = "new",
         asked' = [asked EXCEPT ![r].at = "execute", ![r].body = body],
         UNCHANGED <<once, effects, expiries, crashes, errors>>,
         \/ record.state = "none" /\ Keys!Register(r, body)
         \/ record.state = "pending" /\ record.hash = body /\ record.stale /\ Keys!TakeOver(r)
  PROVE  KeyInv'
<1>1. /\ record' \in KeyRecords
      /\ record'.state = "pending" /\ record'.hash = body /\ record'.id = r /\ record'.stale = FALSE
      /\ record'.response = "none"
  <2>1. CASE Keys!Register(r, body)
    BY <2>1 DEF Keys!Register, KeyRecords
  <2>2. CASE record.state = "pending" /\ record.hash = body /\ Keys!TakeOver(r)
    <3>1. record \in KeyRecords /\ record.response = "none"
      BY <2>2 DEF KeyInv, VerdictIsLast, Keys!TypeOK, KeyRecords
    <3>2. QED BY <2>2, <3>1 DEF Keys!TakeOver, KeyRecords
  <2>3. QED BY <2>1, <2>2
<1>2. Keys!TypeOK'
  <2>1. asked \in [Requests -> KeyCalls]
    BY DEF KeyInv, Keys!TypeOK, KeyCalls
  <2>2. asked' \in [Requests -> KeyCalls]
    BY <2>1, ZenonT(40) DEF KeyCalls
  <2>3. QED BY <1>1, <2>2 DEF KeyInv, Keys!TypeOK, KeyRecords, KeyCalls
<1>3. /\ asked'[r].at = "execute" /\ asked'[r].body = body /\ asked'[r].response = asked[r].response
      /\ \A q \in Requests \ {r} : asked'[q] = asked[q]
  BY DEF KeyInv, Keys!TypeOK
<1>4. /\ r \notin Under /\ Under' = Under \cup {r} /\ Ready' = Ready \cup {r}
      /\ Held' \subseteq Held \cup {r}
  <2>1. r \notin Under /\ Under' = Under \cup {r} /\ Ready' = Ready \cup {r}
    BY <1>3 DEF Under, Ready, Keys!Executing
  <2>2. Held' = Under' \cup {r}
    BY <1>1 DEF Held
  <2>3. QED BY <2>1, <2>2 DEF Held
<1>5. LetIn' \in Nat /\ LetIn' >= LetIn + 1
  BY <1>1, KeyNumbers DEF LetIn, KeyInv
<1>6. OnlyTheGranted'
  <2>1. /\ IsFiniteSet(Held') /\ Cardinality(Held') <= LetIn'
        /\ Len(effects') + Cardinality(Ready') <= LetIn'
    BY <1>4, <1>5, OneMoreExecutes DEF KeyInv
  <2>2. \A q \in Under' : asked'[q].body = record'.hash
    <3>1. Under = {} \/ record.hash = body
      BY DEF KeyInv, OnlyTheGranted
    <3>2. \A q \in Under : q # r /\ asked'[q] = asked[q] /\ asked[q].body = record.hash
      BY <1>3, <1>4 DEF KeyInv, OnlyTheGranted, Under
    <3>3. QED BY <1>1, <1>3, <1>4, <3>1, <3>2, ZenonT(40)
  <2>3. \A k \in DOMAIN effects' : effects'[k].body = record'.hash
    BY <1>1 DEF KeyInv, OnlyTheGranted
  <2>4. QED BY <1>1, <2>1, <2>2, <2>3 DEF OnlyTheGranted
<1>7. TellsWhatWasDone'
  <2>1. ASSUME NEW q \in Requests, (asked[q].at = "complete" \/ record.response = q)'
        PROVE  \E k \in DOMAIN effects' : effects'[k].by = q
    <3>1. asked[q].at = "complete"
      BY <1>1, <1>3, <2>1 DEF KeyHypotheses, Codes
    <3>2. QED BY <3>1 DEF KeyInv, TellsWhatWasDone
  <2>2. ASSUME expiries' = 0, errors' = 0, NEW q \in Requests,
               (asked[q].at = "fail" \/ record.state = "failed")'
        PROVE  effects' = << >>
    <3>1. asked[q].at = "fail"
      BY <1>1, <1>3, <2>2
    <3>2. QED BY <2>2, <3>1 DEF KeyInv, TellsWhatWasDone
  <2>3. QED BY <2>1, <2>2 DEF TellsWhatWasDone
<1>8. VerdictIsLast'
  BY <1>1, <1>3, ZenonT(40) DEF KeyInv, VerdictIsLast
<1>9. QED BY <1>2, <1>6, <1>7, <1>8 DEF KeyInv

(* A request that is refused, and one that is busy or dies, is answered; it  *)
(* may be answered with the response of a completed record.                  *)
LEMMA KeyAnswered ==
  ASSUME KeyHypotheses, KeyInv, NEW r \in Requests, NEW code,
         code \in Codes \/ (record.state = "completed" /\ code = record.response),
         asked' \in [Requests -> KeyCalls],
         asked'[r].at = "answered" /\ asked'[r].response = code,
         \A q \in Requests \ {r} : asked'[q] = asked[q],
         UNCHANGED <<once, record, effects, expiries, errors>>, crashes' \in 0 .. MaxCrashes
  PROVE  KeyInv'
<1>1. Keys!TypeOK'
  BY DEF KeyInv, Keys!TypeOK, KeyCalls
<1>2. /\ asked'[r].at = "answered" /\ asked'[r].response = code
      /\ \A q \in Requests \ {r} : asked'[q] = asked[q]
  OBVIOUS
<1>3. /\ Under' \subseteq Under /\ Ready' \subseteq Ready /\ LetIn' = LetIn
      /\ Held' \subseteq Held /\ \A q \in Under' : asked'[q] = asked[q]
  BY <1>2 DEF Under, Ready, Held, Keys!Executing, LetIn
<1>4. OnlyTheGranted'
  <2>1. IsFiniteSet(Ready) /\ Cardinality(Ready') <= Cardinality(Ready)
    BY <1>3, ReadyFinite, FS_Subset DEF KeyInv
  <2>2. Len(effects') + Cardinality(Ready') <= Len(effects) + Cardinality(Ready)
    BY <2>1, <1>3, FS_CardinalityType, FS_Subset, KeyNumbers DEF KeyInv
  <2>3. /\ IsFiniteSet(Held') /\ Cardinality(Held') <= LetIn'
        /\ Len(effects') + Cardinality(Ready') <= LetIn'
    BY <1>3, <2>2, FewerExecute DEF KeyInv
  <2>4. QED BY <1>3, <2>3 DEF KeyInv, OnlyTheGranted
<1>5. TellsWhatWasDone'
  <2>1. ASSUME NEW q \in Requests, (asked[q].at = "complete" \/ record.response = q)'
        PROVE  \E k \in DOMAIN effects' : effects'[k].by = q
    BY <1>2, <2>1 DEF KeyInv, TellsWhatWasDone
  <2>2. ASSUME expiries' = 0, errors' = 0, NEW q \in Requests,
               (asked[q].at = "fail" \/ record.state = "failed")'
        PROVE  effects' = << >>
    BY <1>2, <2>2 DEF KeyInv, TellsWhatWasDone
  <2>3. QED BY <2>1, <2>2 DEF TellsWhatWasDone
<1>6. VerdictIsLast'
  <2>1. record'.state \in {"completed", "failed"} => record'.id \notin Under'
    BY <1>3 DEF KeyInv, VerdictIsLast
  <2>2. record'.state \notin {"completed", "failed"} => record'.response = "none"
    BY DEF KeyInv, VerdictIsLast
  <2>3. ASSUME NEW q \in Requests, asked'[q].response \in Requests \ {q}
        PROVE  record'.state = "completed" /\ record'.response = asked'[q].response
    BY <1>2, <2>3 DEF KeyInv, VerdictIsLast, KeyHypotheses
  <2>4. QED BY <2>1, <2>2, <2>3 DEF VerdictIsLast
<1>7. QED BY <1>1, <1>4, <1>5, <1>6 DEF KeyInv

(* A request goes on to another phase: it still executes, and is no longer   *)
(* the one that acts.                                                        *)
LEMMA KeyPhase ==
  ASSUME KeyInv, NEW r \in Requests, NEW phase \in {"complete", "fail"}, r \in Under,
         asked' = [asked EXCEPT ![r].at = phase]
  PROVE  /\ asked' \in [Requests -> KeyCalls]
         /\ asked'[r].at = phase /\ asked'[r].body = asked[r].body
         /\ asked'[r].response = asked[r].response
         /\ \A q \in Requests \ {r} : asked'[q] = asked[q]
         /\ Under' = Under /\ Ready' = Ready \ {r}
<1>1. asked \in [Requests -> KeyCalls]
  BY DEF KeyInv, Keys!TypeOK, KeyCalls
<1>2. /\ asked' \in [Requests -> KeyCalls]
      /\ asked'[r].at = phase /\ asked'[r].body = asked[r].body
      /\ asked'[r].response = asked[r].response
      /\ \A q \in Requests \ {r} : asked'[q] = asked[q]
  BY <1>1 DEF KeyCalls
<1>3. Under' = Under /\ Ready' = Ready \ {r}
  BY <1>2 DEF Under, Ready, Keys!Executing
<1>4. QED BY <1>2, <1>3

(* The command commits: one grant is used up.                                *)
LEMMA KeyDone ==
  ASSUME KeyHypotheses, KeyInv, NEW r \in Requests, asked[r].at = "execute",
         effects' = Append(effects, [by |-> r, body |-> asked[r].body]),
         asked' = [asked EXCEPT ![r].at = "complete"],
         UNCHANGED <<once, record, expiries, crashes, errors>>
  PROVE  KeyInv'
<1> DEFINE entry == [by |-> r, body |-> asked[r].body]
<1>1. r \in Under /\ r \in Ready
  BY DEF Under, Ready, Keys!Executing
<1>2. /\ asked' \in [Requests -> KeyCalls]
      /\ asked'[r].at = "complete" /\ asked'[r].body = asked[r].body
      /\ asked'[r].response = asked[r].response
      /\ \A q \in Requests \ {r} : asked'[q] = asked[q]
      /\ Under' = Under /\ Ready' = Ready \ {r}
  BY <1>1, KeyPhase
<1>3. asked[r].body = record.hash /\ record.hash \in Bodies
  BY <1>1 DEF KeyInv, OnlyTheGranted
<1>4. effects \in Seq([by : Requests, body : Bodies]) /\ Len(effects) \in Nat
  BY KeyNumbers DEF KeyInv
<1>5. entry \in [by : Requests, body : Bodies] /\ entry.by = r /\ entry.body = record.hash
  BY <1>3
<1> HIDE DEF entry
<1>6. effects' = Append(effects, entry)
  BY DEF entry
<1>7. /\ effects' \in Seq([by : Requests, body : Bodies]) /\ Len(effects') = Len(effects) + 1
      /\ DOMAIN effects' = 1 .. Len(effects) + 1 /\ effects'[Len(effects) + 1] = entry
      /\ \A k \in 1 .. Len(effects) : effects'[k] = effects[k]
  BY <1>4, <1>5, <1>6
<1>8. Keys!TypeOK'
  BY <1>2, <1>7 DEF KeyInv, Keys!TypeOK, KeyCalls
<1>9. OnlyTheGranted'
  <2>1. IsFiniteSet(Ready) /\ Cardinality(Ready) \in Nat
    BY ReadyFinite, FS_CardinalityType DEF KeyInv
  <2>2. Cardinality(Ready') = Cardinality(Ready) - 1
    BY <1>1, <1>2, <2>1, FS_RemoveElement
  <2>3. LetIn' = LetIn /\ Held' = Held
    BY <1>2 DEF LetIn, Held
  <2>4. Len(effects') + Cardinality(Ready') <= Len(effects) + Cardinality(Ready)
    BY <1>4, <1>7, <2>1, <2>2
  <2>5. /\ IsFiniteSet(Held') /\ Cardinality(Held') <= LetIn'
        /\ Len(effects') + Cardinality(Ready') <= LetIn'
    BY <1>2, <2>3, <2>4, FewerExecute DEF KeyInv
  <2>6. \A q \in Under' : asked'[q].body = record'.hash
    BY <1>2, <1>3 DEF KeyInv, OnlyTheGranted, Under
  <2>7. \A k \in DOMAIN effects' : effects'[k].body = record'.hash
    <3>1. ASSUME NEW k \in 1 .. Len(effects) PROVE effects[k].body = record.hash
      BY <1>4 DEF KeyInv, OnlyTheGranted
    <3>2. ASSUME NEW k \in DOMAIN effects' PROVE effects'[k].body = record.hash
      BY <1>4, <1>5, <1>7, <3>1
    <3>3. QED BY <3>2
  <2>8. record.state # "none" /\ record' = record
    BY <1>1 DEF KeyInv, OnlyTheGranted
  <2>9. QED BY <2>5, <2>6, <2>7, <2>8 DEF KeyInv, OnlyTheGranted
<1>10. TellsWhatWasDone'
  <2>1. ASSUME NEW q \in Requests, (asked[q].at = "complete" \/ record.response = q)'
        PROVE  \E k \in DOMAIN effects' : effects'[k].by = q
    <3>1. CASE q = r
      BY <1>4, <1>5, <1>7, <3>1
    <3>2. CASE q # r
      <4>1. PICK k \in DOMAIN effects : effects[k].by = q
        BY <1>2, <2>1, <3>2 DEF KeyInv, TellsWhatWasDone
      <4>2. k \in DOMAIN effects' /\ effects'[k] = effects[k]
        BY <1>4, <1>7
      <4>3. QED BY <4>1, <4>2
    <3>3. QED BY <3>1, <3>2
  <2>2. ASSUME expiries' = 0, errors' = 0, NEW q \in Requests,
               (asked[q].at = "fail" \/ record.state = "failed")'
        PROVE  FALSE
    <3>1. expiries = 0 /\ LetIn <= 1
      BY <2>2 DEF LetIn
    <3>2. Cardinality(Held) <= 1 /\ IsFiniteSet(Held)
      BY <3>1, KeyNumbers, FS_CardinalityType DEF KeyInv, OnlyTheGranted
    <3>3. \A p \in Held : p = r
      BY <1>1, <3>2, OneAtMost DEF Held
    <3>4. CASE asked'[q].at = "fail"
      BY <1>2, <3>3, <3>4 DEF Held, Under, Keys!Executing
    <3>5. CASE record.state = "failed"
      BY <1>1, <3>3, <3>5 DEF KeyInv, VerdictIsLast, Held
    <3>6. QED BY <2>2, <3>4, <3>5
  <2>3. QED BY <2>1, <2>2 DEF TellsWhatWasDone
<1>11. VerdictIsLast'
  BY <1>2 DEF KeyInv, VerdictIsLast
<1>12. QED BY <1>8, <1>9, <1>10, <1>11 DEF KeyInv

(* A command that fails has not been done under this key, unless its record  *)
(* was taken over; a completion that fails counts as an error.               *)
LEMMA KeyFails ==
  ASSUME KeyHypotheses, KeyInv, NEW r \in Requests, r \in Under,
         asked' = [asked EXCEPT ![r].at = "fail"],
         UNCHANGED <<once, record, effects, expiries, crashes>>, errors' \in 0 .. MaxFaults,
         \/ errors' = errors /\ asked[r].at = "execute"
         \/ errors' = errors + 1
  PROVE  KeyInv'
<1>1. /\ asked' \in [Requests -> KeyCalls]
      /\ asked'[r].at = "fail" /\ asked'[r].body = asked[r].body
      /\ asked'[r].response = asked[r].response
      /\ \A q \in Requests \ {r} : asked'[q] = asked[q]
      /\ Under' = Under /\ Ready' = Ready \ {r}
  BY KeyPhase
<1>2. Keys!TypeOK'
  BY <1>1 DEF KeyInv, Keys!TypeOK, KeyCalls
<1>3. /\ effects \in Seq([by : Requests, body : Bodies]) /\ Len(effects) \in Nat
      /\ expiries \in Nat /\ errors \in Nat
  BY KeyNumbers DEF KeyInv
<1>4. /\ IsFiniteSet(Ready) /\ Cardinality(Ready) \in Nat
      /\ Cardinality(Ready') \in Nat /\ Cardinality(Ready') <= Cardinality(Ready)
  BY <1>1, ReadyFinite, FS_CardinalityType, FS_Subset DEF KeyInv
<1>5. OnlyTheGranted'
  <2>1. LetIn' = LetIn /\ Held' = Held
    BY <1>1 DEF LetIn, Held
  <2>2. Len(effects') + Cardinality(Ready') <= Len(effects) + Cardinality(Ready)
    BY <1>3, <1>4
  <2>3. /\ IsFiniteSet(Held') /\ Cardinality(Held') <= LetIn'
        /\ Len(effects') + Cardinality(Ready') <= LetIn'
    BY <1>1, <2>1, <2>2, FewerExecute DEF KeyInv
  <2>4. \A q \in Under' : asked'[q].body = record'.hash
    BY <1>1 DEF KeyInv, OnlyTheGranted, Under
  <2>5. QED BY <1>1, <2>3, <2>4 DEF KeyInv, OnlyTheGranted
<1>6. TellsWhatWasDone'
  <2>1. ASSUME NEW q \in Requests, (asked[q].at = "complete" \/ record.response = q)'
        PROVE  \E k \in DOMAIN effects' : effects'[k].by = q
    BY <1>1, <2>1 DEF KeyInv, TellsWhatWasDone
  <2>2. ASSUME expiries' = 0, errors' = 0, NEW q \in Requests,
               (asked[q].at = "fail" \/ record.state = "failed")'
        PROVE  effects' = << >>
    <3>1. errors = 0 /\ expiries = 0 /\ asked[r].at = "execute"
      BY <1>3, <2>2
    <3>2. CASE q = r /\ record.state # "failed"
      <4>1. LetIn <= 1
        BY <3>1 DEF LetIn
      <4>2. Len(effects) + Cardinality(Ready) <= LetIn
        BY DEF KeyInv, OnlyTheGranted
      <4>3. r \in Ready /\ Cardinality(Ready) = 1 + Cardinality(Ready')
        <5>1. r \in Ready
          BY <3>1 DEF Ready
        <5>2. Cardinality(Ready \ {r}) = Cardinality(Ready) - 1
          BY <5>1, <1>4, FS_RemoveElement, Zenon
        <5>3. QED BY <1>1, <1>4, <5>1, <5>2
      <4>4. LetIn \in Nat
        BY KeyNumbers DEF KeyInv
      <4>5. Len(effects) = 0
        BY <1>3, <1>4, <4>1, <4>2, <4>3, <4>4
      <4>6. QED BY <1>3, <4>5
    <3>3. CASE q # r \/ record.state = "failed"
      BY <1>1, <2>2, <3>1, <3>3 DEF KeyInv, TellsWhatWasDone
    <3>4. QED BY <3>2, <3>3
  <2>3. QED BY <2>1, <2>2 DEF TellsWhatWasDone
<1>7. VerdictIsLast'
  BY <1>1 DEF KeyInv, VerdictIsLast
<1>8. QED BY <1>2, <1>5, <1>6, <1>7 DEF KeyInv

(* The request that the record names ends it and is answered.                *)
LEMMA KeyEnds ==
  ASSUME KeyHypotheses, KeyInv, NEW r \in Requests, NEW state, NEW word, NEW response,
         \/ /\ asked[r].at = "complete" /\ state = "completed" /\ word = r /\ response = r
         \/ /\ asked[r].at = "fail" /\ state = "failed" /\ word = "none" /\ response = "error",
         asked' = [asked EXCEPT ![r].at = "answered", ![r].response = response],
         Keys!Ends(r, state, word), UNCHANGED <<once, effects, expiries, crashes, errors>>
  PROVE  KeyInv'
<1>1. r \in Under /\ record.state # "none"
  BY DEF Under, Keys!Executing, KeyInv, OnlyTheGranted
<1>2. asked \in [Requests -> KeyCalls] /\ record \in KeyRecords
  BY DEF KeyInv, Keys!TypeOK, KeyCalls, KeyRecords
<1>3. /\ asked' \in [Requests -> KeyCalls]
      /\ asked'[r].at = "answered" /\ asked'[r].response = response
      /\ \A q \in Requests \ {r} : asked'[q] = asked[q]
  BY <1>2 DEF KeyCalls
<1>4. /\ Under' = Under \ {r} /\ Ready' = Ready
      /\ \A q \in Under' : asked'[q] = asked[q]
  BY <1>3 DEF Under, Ready, Keys!Executing
<1>5. /\ record' \in KeyRecords
      /\ record'.hash = record.hash /\ record'.id = record.id /\ record'.stale = record.stale
      /\ record.id = r => record'.state = state /\ record'.response = word
      /\ record.id # r => record' = record
  BY <1>2 DEF Keys!Ends, KeyRecords
<1>6. record'.state # "none"
  BY <1>1, <1>5
<1>7. Keys!TypeOK'
  BY <1>3, <1>5 DEF KeyInv, Keys!TypeOK, KeyCalls, KeyRecords
<1>8. OnlyTheGranted'
  <2>1. LetIn' = LetIn /\ Held' \subseteq Held
    BY <1>1, <1>4, <1>5, <1>6 DEF LetIn, Held
  <2>2. /\ IsFiniteSet(Held') /\ Cardinality(Held') <= LetIn'
        /\ Len(effects') + Cardinality(Ready') <= LetIn'
    <3>1. Len(effects) \in Nat /\ Cardinality(Ready) \in Nat
      BY KeyNumbers, ReadyFinite, FS_CardinalityType DEF KeyInv
    <3>2. Len(effects') + Cardinality(Ready') <= Len(effects) + Cardinality(Ready)
      BY <1>4, <3>1
    <3>3. QED BY <1>4, <2>1, <3>2, FewerExecute DEF KeyInv
  <2>3. \A q \in Under' : asked'[q].body = record'.hash
    BY <1>4, <1>5 DEF KeyInv, OnlyTheGranted
  <2>4. QED BY <1>1, <1>5, <1>6, <2>2, <2>3 DEF KeyInv, OnlyTheGranted
<1>9. TellsWhatWasDone'
  <2>1. ASSUME NEW q \in Requests, (asked[q].at = "complete" \/ record.response = q)'
        PROVE  \E k \in DOMAIN effects' : effects'[k].by = q
    <3>1. CASE asked'[q].at = "complete"
      <4>1. asked[q].at = "complete"
        BY <1>3, <3>1
      <4>2. QED BY <4>1 DEF KeyInv, TellsWhatWasDone
    <3>2. CASE record'.response = q /\ record.id # r
      <4>1. record.response = q
        BY <1>5, <3>2
      <4>2. QED BY <4>1 DEF KeyInv, TellsWhatWasDone
    <3>3. CASE record'.response = q /\ record.id = r
      <4>1. word = q /\ q # "none"
        BY <1>5, <3>3 DEF KeyHypotheses, Codes
      <4>2. q = r /\ asked[r].at = "complete"
        BY <4>1
      <4>3. QED BY <4>2 DEF KeyInv, TellsWhatWasDone
    <3>4. QED BY <2>1, <3>1, <3>2, <3>3
  <2>2. ASSUME expiries' = 0, errors' = 0, NEW q \in Requests,
               (asked[q].at = "fail" \/ record.state = "failed")'
        PROVE  effects' = << >>
    <3>1. asked[q].at = "fail" \/ asked[r].at = "fail" \/ record.state = "failed"
      BY <1>3, <1>5, <2>2
    <3>2. QED BY <2>2, <3>1 DEF KeyInv, TellsWhatWasDone
  <2>3. QED BY <2>1, <2>2 DEF TellsWhatWasDone
<1>10. VerdictIsLast'
  <2>1. CASE record.id = r
    <3>1. record.state \notin {"completed", "failed"}
      BY <1>1, <2>1 DEF KeyInv, VerdictIsLast
    <3>2. record'.state \in {"completed", "failed"} /\ record'.id \notin Under'
      BY <1>4, <1>5, <2>1
    <3>3. ASSUME NEW q \in Requests PROVE asked'[q].response \notin Requests \ {q}
      <4>1. CASE q = r
        <5>1. response = r \/ response = "error"
          OBVIOUS
        <5>2. QED BY <1>3, <4>1, <5>1, ZenonT(40) DEF KeyHypotheses, Codes
      <4>2. CASE q # r
        <5>1. asked[q].response \notin Requests \ {q}
          BY <3>1 DEF KeyInv, VerdictIsLast
        <5>2. QED BY <1>3, <4>2, <5>1
      <4>3. QED BY <4>1, <4>2
    <3>4. QED BY <3>2, <3>3 DEF VerdictIsLast
  <2>2. CASE record.id # r
    <3>1. \A q \in Requests : asked'[q].response \in Requests \ {q} => asked'[q] = asked[q]
      BY <1>3, ZenonT(40) DEF KeyHypotheses, Codes
    <3>2. record' = record /\ Under' \subseteq Under
      BY <1>4, <1>5, <2>2
    <3>3. QED BY <3>1, <3>2 DEF KeyInv, VerdictIsLast
  <2>3. QED BY <2>1, <2>2
<1>11. QED BY <1>7, <1>8, <1>9, <1>10 DEF KeyInv

(* Thirty seconds allow one more request.                                    *)
LEMMA KeyLapse ==
  ASSUME KeyHypotheses, KeyInv, Keys!Lapse
  PROVE  KeyInv'
<1>1. /\ record.state = "pending" /\ ~record.stale /\ expiries' = expiries + 1
      /\ record' = [record EXCEPT !.stale = TRUE] /\ expiries < MaxLapses
      /\ UNCHANGED <<once, asked, effects, crashes, errors>>
  BY DEF Keys!Lapse
<1>2. record \in KeyRecords /\ expiries \in Nat /\ MaxLapses \in Nat
  BY KeyNumbers DEF KeyInv, Keys!TypeOK, KeyRecords, KeyHypotheses
<1>3. /\ record' \in KeyRecords /\ record'.state = "pending" /\ record'.id = record.id
      /\ record'.hash = record.hash /\ record'.stale = TRUE /\ record'.response = record.response
  BY <1>1, <1>2 DEF KeyRecords
<1>4. expiries' \in 0 .. MaxLapses
  BY <1>1, <1>2
<1>5. Keys!TypeOK'
  BY <1>1, <1>3, <1>4 DEF KeyInv, Keys!TypeOK, KeyRecords
<1>6. Under' = Under /\ Ready' = Ready /\ Held' = Held /\ LetIn' = LetIn
  BY <1>1, <1>2, <1>3 DEF Under, Ready, Held, LetIn, Keys!Executing
<1>7. OnlyTheGranted'
  BY <1>1, <1>3, <1>6 DEF KeyInv, OnlyTheGranted
<1>8. expiries' # 0
  BY <1>1, <1>2
<1>9. TellsWhatWasDone'
  BY <1>1, <1>3, <1>8 DEF KeyInv, TellsWhatWasDone
<1>10. VerdictIsLast'
  BY <1>1, <1>3, <1>6 DEF KeyInv, VerdictIsLast
<1>11. QED BY <1>5, <1>7, <1>9, <1>10 DEF KeyInv

LEMMA KeyReceive ==
  ASSUME KeyHypotheses, KeyInv, NEW r \in Requests, NEW body \in Bodies, Keys!Receive(r, body)
  PROVE  KeyInv'
<1>1. asked \in [Requests -> KeyCalls]
  BY DEF KeyInv, Keys!TypeOK, KeyCalls
<1>2. /\ asked[r].at = "new" /\ UNCHANGED <<once, effects, expiries, crashes, errors>>
  BY DEF Keys!Receive, Keys!bounds
<1>3. CASE /\ \/ record.state = "none" /\ Keys!Register(r, body)
              \/ record.state = "pending" /\ record.hash = body /\ record.stale /\ Keys!TakeOver(r)
           /\ asked' = [asked EXCEPT ![r].at = "execute", ![r].body = body]
  BY <1>2, <1>3, KeyGranted, Zenon
<1>4. ASSUME NEW code,
             asked' = [asked EXCEPT ![r].at = "answered", ![r].body = body, ![r].response = code],
             UNCHANGED record,
             code \in {"mismatch", "in flight", "prior failure"}
               \/ (record.state = "completed" /\ code = record.response)
      PROVE  KeyInv'
  <2>1. code \in Requests \cup Codes
    BY <1>4 DEF Codes, KeyInv, Keys!TypeOK
  <2>2. /\ asked' \in [Requests -> KeyCalls]
        /\ asked'[r].at = "answered" /\ asked'[r].response = code
        /\ \A q \in Requests \ {r} : asked'[q] = asked[q]
    <3>1. /\ asked'[r].at = "answered" /\ asked'[r].body = body /\ asked'[r].response = code
          /\ \A q \in Requests \ {r} : asked'[q] = asked[q]
      BY <1>1, <1>4 DEF KeyCalls
    <3>2. [asked[r] EXCEPT !.at = "answered", !.body = body, !.response = code] \in KeyCalls
      BY <1>1, <2>1 DEF KeyCalls, Codes
    <3>3. asked' = [asked EXCEPT ![r] =
                      [asked[r] EXCEPT !.at = "answered", !.body = body, !.response = code]]
      BY <1>1, <1>4
    <3>4. asked' \in [Requests -> KeyCalls]
      BY <1>1, <3>2, <3>3
    <3>5. QED BY <3>1, <3>4
  <2>3. crashes' \in 0 .. MaxCrashes
    BY <1>2 DEF KeyInv, Keys!TypeOK
  <2>4. code \in Codes \/ (record.state = "completed" /\ code = record.response)
    BY <1>4 DEF Codes
  <2>5. QED BY <1>2, <1>4, <2>2, <2>3, <2>4, KeyAnswered
<1>5. QED BY <1>3, <1>4 DEF Keys!Receive

LEMMA KeyExecute ==
  ASSUME KeyHypotheses, KeyInv, NEW r \in Requests, Keys!Execute(r)
  PROVE  KeyInv'
<1>1. asked \in [Requests -> KeyCalls] /\ crashes \in 0 .. MaxCrashes /\ errors \in 0 .. MaxFaults
  BY DEF KeyInv, Keys!TypeOK, KeyCalls
<1>2. /\ asked[r].at = "execute" /\ r \in Under
      /\ UNCHANGED <<once, record, expiries, crashes, errors>>
  BY DEF Keys!Execute, Keys!bounds, Under, Keys!Executing
<1>3. CASE /\ effects' = Append(effects, [by |-> r, body |-> asked[r].body])
           /\ asked' = [asked EXCEPT ![r].at = "complete"]
  BY <1>2, <1>3, KeyDone
<1>4. CASE asked' = [asked EXCEPT ![r].at = "fail"] /\ UNCHANGED effects
  BY <1>1, <1>2, <1>4, KeyFails
<1>5. CASE asked' = [asked EXCEPT ![r].at = "answered", ![r].response = "busy"] /\ UNCHANGED effects
  <2>1. /\ asked' \in [Requests -> KeyCalls]
        /\ asked'[r].at = "answered" /\ asked'[r].response = "busy"
        /\ \A q \in Requests \ {r} : asked'[q] = asked[q]
    BY <1>1, <1>5 DEF KeyCalls
  <2>2. crashes' \in 0 .. MaxCrashes
    BY <1>1, <1>2
  <2>3. QED BY <1>2, <1>5, <2>1, <2>2, KeyAnswered DEF Codes
<1>6. QED BY <1>3, <1>4, <1>5 DEF Keys!Execute, Keys!Goes, Keys!Answers

LEMMA KeyCrash ==
  ASSUME KeyHypotheses, KeyInv, NEW r \in Requests, Keys!Crash(r)
  PROVE  KeyInv'
<1>1. asked \in [Requests -> KeyCalls] /\ crashes \in 0 .. MaxCrashes /\ MaxCrashes \in Nat
  BY DEF KeyInv, Keys!TypeOK, KeyCalls, KeyHypotheses
<1>2. /\ crashes < MaxCrashes /\ crashes' = crashes + 1
      /\ UNCHANGED <<once, record, effects, expiries, errors>>
      /\ asked' = [asked EXCEPT ![r].at = "answered", ![r].response = "none"]
  BY DEF Keys!Crash, Keys!Answers
<1>3. /\ asked' \in [Requests -> KeyCalls]
      /\ asked'[r].at = "answered" /\ asked'[r].response = "none"
      /\ \A q \in Requests \ {r} : asked'[q] = asked[q]
  BY <1>1, <1>2 DEF KeyCalls
<1>4. crashes' \in 0 .. MaxCrashes
  BY <1>1, <1>2
<1>5. QED BY <1>2, <1>3, <1>4, KeyAnswered DEF Codes

LEMMA KeyStep ==
  ASSUME KeyHypotheses, KeyInv, [Keys!Next]_(Keys!vars)
  PROVE  KeyInv'
<1>1. ASSUME NEW r \in Requests, Keys!Step(r) PROVE KeyInv'
  <2>1. CASE Keys!Complete(r)
    BY <2>1, KeyEnds DEF Keys!Complete, Keys!Answers, Keys!bounds
  <2>2. CASE Keys!Fail(r)
    BY <2>2, KeyEnds DEF Keys!Fail, Keys!Answers, Keys!bounds
  <2>3. CASE Keys!CompletionFails(r)
    <3>1. /\ r \in Under /\ errors < MaxFaults /\ errors' = errors + 1
          /\ asked' = [asked EXCEPT ![r].at = "fail"]
          /\ UNCHANGED <<once, record, effects, expiries, crashes>>
      BY <2>3 DEF Keys!CompletionFails, Keys!Goes, Under, Keys!Executing
    <3>2. errors \in Nat /\ MaxFaults \in Nat
      BY KeyNumbers DEF KeyInv, KeyHypotheses
    <3>3. errors' \in 0 .. MaxFaults
      BY <3>1, <3>2
    <3>4. QED BY <3>1, <3>3, KeyFails
  <2>4. QED BY <1>1, <2>1, <2>2, <2>3, KeyReceive, KeyExecute, KeyCrash, Zenon DEF Keys!Step
<1>2. CASE UNCHANGED Keys!vars
  <2>1. UNCHANGED <<once, record, asked, effects, expiries, crashes, errors>>
    BY <1>2 DEF Keys!vars, Keys!bounds
  <2>2. Under' = Under /\ Ready' = Ready /\ LetIn' = LetIn
    BY <2>1 DEF Under, Ready, LetIn, Keys!Executing
  <2>3. Held' = Held
    BY <2>1, <2>2 DEF Held
  <2>4. Keys!TypeOK'
    BY <2>1 DEF KeyInv, Keys!TypeOK
  <2>5. OnlyTheGranted'
    BY <2>1, <2>2, <2>3 DEF KeyInv, OnlyTheGranted
  <2>6. TellsWhatWasDone'
    BY <2>1 DEF KeyInv, TellsWhatWasDone
  <2>7. VerdictIsLast'
    BY <2>1, <2>2 DEF KeyInv, VerdictIsLast
  <2>8. QED BY <2>4, <2>5, <2>6, <2>7 DEF KeyInv
<1>3. QED BY <1>1, <1>2, KeyLapse DEF Keys!Next

LEMMA KeyInvHonours ==
  ASSUME KeyHypotheses, KeyInv
  PROVE  Keys!KeyIsHonoured
<1>1. \A k \in DOMAIN effects : effects[k].body = record.hash
  BY DEF KeyInv, OnlyTheGranted
<1>2. /\ LetIn <= expiries + 1 /\ LetIn \in Nat /\ expiries \in Nat /\ Len(effects) \in Nat
      /\ errors \in Nat
  BY KeyNumbers DEF KeyInv, LetIn
<1>3. Len(effects) <= expiries + 1
  <2>1. Cardinality(Ready) \in Nat
    BY ReadyFinite, FS_CardinalityType DEF KeyInv
  <2>2. Len(effects) + Cardinality(Ready) <= LetIn
    BY DEF KeyInv, OnlyTheGranted
  <2>3. QED BY <1>2, <2>1, <2>2
<1>4. Cardinality(Under) <= expiries + 1
  <2>1. IsFiniteSet(Held) /\ Cardinality(Held) <= LetIn /\ Under \subseteq Held
    BY DEF KeyInv, OnlyTheGranted, Held
  <2>2. /\ Cardinality(Under) <= Cardinality(Held) /\ Cardinality(Held) \in Nat
        /\ Cardinality(Under) \in Nat
    BY <2>1, FS_Subset, FS_CardinalityType
  <2>3. QED BY <1>2, <2>1, <2>2
<1>5. \A r \in Requests : record.response = r => \E k \in DOMAIN effects : effects[k].by = r
  BY DEF KeyInv, TellsWhatWasDone
<1>6. record.state = "failed" /\ effects # << >> => expiries > 0 \/ errors > 0
  <2>1. SUFFICES ASSUME record.state = "failed", expiries = 0, errors = 0 PROVE effects = << >>
    BY <1>2
  <2>2. record.id \in Requests
    BY <2>1 DEF KeyInv, OnlyTheGranted
  <2>3. QED BY <2>1, <2>2 DEF KeyInv, TellsWhatWasDone
<1>7. \A r \in Requests : asked[r].response \in Requests \ {r} =>
        record.state = "completed" /\ record.response = asked[r].response
  BY DEF KeyInv, VerdictIsLast
<1>8. Keys!Cardinality({r \in Requests : Keys!Executing(r)}) <= expiries + 1
  BY <1>4, Zenon DEF Under, Keys!Cardinality, Cardinality
<1>9. QED BY <1>1, <1>3, <1>5, <1>6, <1>7, <1>8, Zenon DEF Keys!KeyIsHonoured

(* A key does what its first request asked for, once and once more for every *)
(* lease that ran out, and is answered with what was done.                   *)
THEOREM KeyTheorem ==
  ASSUME KeyHypotheses
  PROVE  Keys!Spec => [](Keys!TypeOK /\ Keys!KeyIsHonoured)
<1>1. ASSUME Keys!Init PROVE KeyInv
  BY <1>1, KeyInit
<1>2. ASSUME KeyInv, [Keys!Next]_(Keys!vars) PROVE KeyInv'
  BY <1>2, KeyStep
<1>3. ASSUME KeyInv PROVE Keys!TypeOK /\ Keys!KeyIsHonoured
  BY <1>3, KeyInvHonours DEF KeyInv
<1>4. QED BY <1>1, <1>2, <1>3, PTL DEF Keys!Spec

(* A record that is completed or failed stays as it is: whoever was overtaken *)
(* does not write it, and who wrote it is done.                              *)
THEOREM AnswersTheorem ==
  ASSUME KeyHypotheses
  PROVE  Keys!Spec => Keys!AnswersStand
<1>1. ASSUME Keys!Init PROVE KeyInv
  BY <1>1, KeyInit
<1>2. ASSUME KeyInv, [Keys!Next]_(Keys!vars) PROVE KeyInv'
  BY <1>2, KeyStep
<1>3. ASSUME KeyInv, [Keys!Next]_(Keys!vars)
      PROVE  [record.state \in {"completed", "failed"} => record' = record]_(Keys!vars)
  <2>1. SUFFICES ASSUME record.state \in {"completed", "failed"}, Keys!Next PROVE record' = record
    BY <1>3
  <2>2. ~Keys!Lapse
    BY <2>1 DEF Keys!Lapse
  <2>3. PICK r \in Requests : Keys!Step(r)
    BY <2>1, <2>2 DEF Keys!Next
  <2>4. record.id \notin Under /\ record.id \in Requests
    BY <1>3, <2>1 DEF KeyInv, VerdictIsLast, OnlyTheGranted
  <2>5. ASSUME Keys!Complete(r) \/ Keys!Fail(r) PROVE record' = record
    <3>1. r \in Under
      BY <2>5 DEF Keys!Complete, Keys!Fail, Under, Keys!Executing
    <3>2. QED BY <2>4, <2>5, <3>1 DEF Keys!Complete, Keys!Fail, Keys!Ends
  <2>6. ASSUME NEW body \in Bodies, Keys!Receive(r, body) PROVE record' = record
    BY <2>1, <2>6 DEF Keys!Receive
  <2>7. ASSUME Keys!Execute(r) \/ Keys!CompletionFails(r) \/ Keys!Crash(r) PROVE record' = record
    BY <2>7 DEF Keys!Execute, Keys!CompletionFails, Keys!Crash
  <2>8. QED BY <2>3, <2>5, <2>6, <2>7 DEF Keys!Step
<1>4. QED BY <1>1, <1>2, <1>3, PTL DEF Keys!Spec, Keys!AnswersStand


(***************************************************************************)
(* The access of a remote pod                                              *)
(***************************************************************************)
(* Hours are counted in numbers, and a credential is told from "none".       *)
AccessHypotheses ==
  Windows \subseteq Nat /\ {MaxTime, MaxCommands, MaxCrashes} \subseteq Nat /\ "none" \notin Credentials

PodGrantRows ==
  [status : {"none", "active", "expired", "soft_revoked", "hard_revoked", "frozen"},
   expires : -1 .. MaxTime, expired : -1 .. MaxTime, revoked : -1 .. MaxTime,
   window : Windows \cup {0}, scopes : RemoteScopes \cup {{}}]

(* The stamps of a grant that is not over are of the past, and a sweep has   *)
(* stamped it after its deadline.                                            *)
StampsAreOfThePast(g, t) ==
  /\ g.status = "active" => g.expired = -1 /\ g.revoked = -1
  /\ g.status = "expired" => g.expires # -1 /\ g.expires < g.expired /\ g.expired <= t /\ g.revoked = -1
  /\ g.status = "soft_revoked" =>
       /\ g.revoked # -1 /\ g.revoked <= t
       /\ g.expired # -1 => g.expires # -1 /\ g.expires < g.expired

AccountsFollow ==
  /\ pod # "none" => invite \in {"accepted", "undone"}
  /\ participant # "none" => pod # "none"
  /\ (stream # "none" \/ \E c \in Credentials : credentials[c] # "none") => participant \notin {"none", "pending"}

USE DEF Access!None, Access!Absent

LEMMA GrantNumbers ==
  ASSUME AccessHypotheses, NEW g \in PodGrantRows
  PROVE  /\ g.expires \in Int /\ g.expired \in Int /\ g.revoked \in Int /\ g.window \in Nat
         /\ g.expires >= -1 /\ g.expired >= -1 /\ g.revoked >= -1
<1>1. /\ g.expires \in -1 .. MaxTime /\ g.expired \in -1 .. MaxTime /\ g.revoked \in -1 .. MaxTime
      /\ g.window \in Windows \cup {0}
  BY DEF PodGrantRows
<1>2. MaxTime \in Nat /\ Windows \subseteq Nat
  BY DEF AccessHypotheses
<1>3. \A i \in -1 .. MaxTime : i \in Int /\ i >= -1
  BY <1>2
<1>4. \A w \in Windows \cup {0} : w \in Nat
  BY <1>2
<1>5. QED BY <1>1, <1>3, <1>4, Zenon

(* What a grant authorizes, by its deadline and its revocation alone.        *)
Authority(g, t) ==
  IF g.status \in {"none", "hard_revoked", "frozen"} THEN 0
  ELSE IF (g.expires = -1 \/ t < g.expires) /\ (g.revoked = -1 \/ t < g.revoked) THEN 2
  ELSE IF (g.expires = -1 \/ t < g.expires + g.window) /\ (g.revoked = -1 \/ t < g.revoked + g.window)
       THEN 1 ELSE 0
Named(n) == IF n = 2 THEN "active" ELSE IF n = 1 THEN "grace" ELSE "blocked"

LEMMA StampsTell ==
  ASSUME AccessHypotheses, NEW g \in PodGrantRows, NEW t \in Nat, StampsAreOfThePast(g, t)
  PROVE  Access!EvaluateGrantTime(g, t) = Named(Authority(g, t))
<1>1. /\ g.expires \in Int /\ g.expired \in Int /\ g.revoked \in Int /\ g.window \in Nat
      /\ g.expires >= -1 /\ g.expired >= -1 /\ g.revoked >= -1
  BY GrantNumbers
<1>2. CASE g.status = "active"
  <2>1. Access!EvaluateGrantTime(g, t) = Access!EvaluateActive(g, t)
    BY <1>2 DEF Access!EvaluateGrantTime
  <2>2. QED BY <1>1, <1>2, <2>1
    DEF StampsAreOfThePast, Authority, Named, Access!EvaluateActive, Access!GraceFrom
<1>3. CASE g.status = "expired"
  <2>1. Access!EvaluateGrantTime(g, t) = Access!EvaluateExpired(g, t)
    BY <1>3 DEF Access!EvaluateGrantTime
  <2>2. QED BY <1>1, <1>3, <2>1
    DEF StampsAreOfThePast, Authority, Named, Access!EvaluateExpired, Access!GraceFrom,
        Access!WithOptionalEarlierRevocation
<1>4. CASE g.status = "soft_revoked"
  <2>1. Access!EvaluateGrantTime(g, t) = Access!EvaluateSoftRevoked(g, t)
    BY <1>4 DEF Access!EvaluateGrantTime
  <2>2. QED BY <1>1, <1>4, <2>1
    DEF StampsAreOfThePast, Authority, Named, Access!EvaluateSoftRevoked, Access!GraceFrom,
        Access!Earlier
<1>5. CASE g.status \in {"none", "hard_revoked", "frozen"}
  BY <1>5 DEF Access!EvaluateGrantTime, Authority, Named
<1>6. QED BY <1>2, <1>3, <1>4, <1>5 DEF PodGrantRows

LEMMA HostDecided ==
  ASSUME AccessHypotheses, NEW g \in PodGrantRows, now \in Nat
  PROVE  Access!Decided(g) = Named(Authority(g, now))
<1>1. /\ g.expires \in Int /\ g.revoked \in Int /\ g.window \in Nat
  BY GrantNumbers
<1> DEFINE ends == {g.expires, g.revoked} \ {-1}
<1>2. /\ (\A end \in ends : now < end) <=>
           (g.expires = -1 \/ now < g.expires) /\ (g.revoked = -1 \/ now < g.revoked)
      /\ (\A end \in ends : now < end + g.window) <=>
           (g.expires = -1 \/ now < g.expires + g.window) /\ (g.revoked = -1 \/ now < g.revoked + g.window)
  BY <1>1
<1>3. CASE g.status \in {"none", "hard_revoked", "frozen"}
  BY <1>3 DEF Access!Decided, Authority, Named
<1>4. CASE g.status \notin {"none", "hard_revoked", "frozen"}
  <2>1. Access!Decided(g) = IF \A end \in ends : now < end THEN "active"
                            ELSE IF \A end \in ends : now < end + g.window THEN "grace" ELSE "blocked"
    BY <1>4 DEF Access!Decided
  <2> HIDE DEF ends
  <2>2. QED BY <1>2, <1>4, <2>1 DEF Authority, Named
<1>5. QED BY <1>3, <1>4

LEMMA RankIsAuthority ==
  ASSUME NEW g, NEW t
  PROVE  Access!Rank(Named(Authority(g, t))) = Authority(g, t)
BY DEF Access!Rank, Named, Authority

(* Time, a revocation and a sweep.                                           *)
LEMMA TimeFades ==
  ASSUME AccessHypotheses, NEW g \in PodGrantRows, NEW t \in Nat, StampsAreOfThePast(g, t)
  PROVE  StampsAreOfThePast(g, t + 1) /\ Authority(g, t + 1) <= Authority(g, t)
<1>1. /\ g.expires \in Int /\ g.expired \in Int /\ g.revoked \in Int /\ g.window \in Nat
      /\ g.expires >= -1 /\ g.expired >= -1 /\ g.revoked >= -1
  BY GrantNumbers
<1>2. StampsAreOfThePast(g, t + 1)
  BY <1>1 DEF StampsAreOfThePast
<1>3. Authority(g, t + 1) <= Authority(g, t)
  BY <1>1 DEF Authority
<1>4. QED BY <1>2, <1>3

LEMMA RevocationFades ==
  ASSUME AccessHypotheses, NEW g \in PodGrantRows, NEW t \in Nat, t <= MaxTime, StampsAreOfThePast(g, t),
         g.status \in {"active", "expired"}, NEW to \in {"soft_revoked", "hard_revoked", "frozen"},
         NEW h, h = [g EXCEPT !.status = to, !.revoked = t]
  PROVE  h \in PodGrantRows /\ StampsAreOfThePast(h, t) /\ Authority(h, t) <= Authority(g, t)
<1>1. /\ g.expires \in Int /\ g.expired \in Int /\ g.revoked \in Int /\ g.window \in Nat
      /\ g.expires >= -1 /\ g.expired >= -1 /\ g.revoked >= -1
  BY GrantNumbers
<1>2. /\ h \in PodGrantRows /\ h.status = to /\ h.revoked = t /\ h.expires = g.expires
      /\ h.expired = g.expired /\ h.window = g.window
  <2>1. t \in -1 .. MaxTime
    BY DEF AccessHypotheses
  <2>2. QED BY <2>1 DEF PodGrantRows
<1>3. StampsAreOfThePast(h, t)
  BY <1>1, <1>2 DEF StampsAreOfThePast
<1>4. Authority(h, t) <= Authority(g, t)
  BY <1>1, <1>2 DEF Authority, StampsAreOfThePast
<1>5. QED BY <1>2, <1>3, <1>4

LEMMA SweepKeeps ==
  ASSUME AccessHypotheses, NEW g \in PodGrantRows, NEW t \in Nat, t <= MaxTime, StampsAreOfThePast(g, t),
         g.status = "active", g.expires # -1, g.expires < t,
         NEW h, h = [g EXCEPT !.status = "expired", !.expired = t]
  PROVE  h \in PodGrantRows /\ StampsAreOfThePast(h, t) /\ Authority(h, t) = Authority(g, t)
<1>1. /\ g.expires \in Int /\ g.expired \in Int /\ g.revoked \in Int /\ g.window \in Nat
      /\ g.expires >= -1 /\ g.expired >= -1 /\ g.revoked >= -1
  BY GrantNumbers
<1>2. /\ h \in PodGrantRows /\ h.status = "expired" /\ h.revoked = g.revoked /\ h.expires = g.expires
      /\ h.expired = t /\ h.window = g.window
  <2>1. t \in -1 .. MaxTime
    BY DEF AccessHypotheses
  <2>2. QED BY <2>1 DEF PodGrantRows
<1>3. StampsAreOfThePast(h, t)
  BY <1>1, <1>2 DEF StampsAreOfThePast
<1>4. Authority(h, t) = Authority(g, t)
  BY <1>1, <1>2 DEF Authority
<1>5. QED BY <1>2, <1>3, <1>4

(* A step changes a grant so that it authorizes no more than before, or makes *)
(* one that was not there.                                                   *)
GrantsFade ==
  /\ given' \in [Grants -> PodGrantRows]
  /\ \A g \in Grants :
       /\ StampsAreOfThePast(given'[g], now')
       /\ given[g] # Access!NoGrant => Authority(given'[g], now') <= Authority(given[g], now)

GrantsType == given \in [Grants -> PodGrantRows] /\ now \in 0 .. MaxTime

CredentialsLast ==
  \A c \in Credentials : credentials[c] \notin {"none", "active"} => credentials'[c] = credentials[c]

LEMMA GrantStep ==
  ASSUME AccessHypotheses, GrantsType, \A g \in Grants : StampsAreOfThePast(given[g], now),
         [Access!Next]_(Access!vars)
  PROVE  GrantsFade
<1>1. /\ now \in Nat /\ now <= MaxTime /\ given \in [Grants -> PodGrantRows]
  BY DEF GrantsType, AccessHypotheses
<1>2. \A g \in Grants : Authority(given[g], now) \in Nat
  BY DEF Authority
<1>3. CASE UNCHANGED <<now, given>>
  BY <1>1, <1>2, <1>3 DEF GrantsFade
<1>4. CASE Access!Tick
  <2>1. now' = now + 1 /\ given' = given
    BY <1>4 DEF Access!Tick
  <2>2. QED BY <1>1, <2>1, TimeFades DEF GrantsFade
<1>5. ASSUME NEW g \in Grants, NEW to \in {"soft_revoked", "hard_revoked", "frozen"}, Access!RevokeGrant(g, to)
      PROVE  GrantsFade
  <2> DEFINE h == [given[g] EXCEPT !.status = to, !.revoked = now]
  <2>1. /\ given[g].status \in {"active", "expired"} /\ now' = now
        /\ given' = [given EXCEPT ![g].status = to, ![g].revoked = now]
    BY <1>5 DEF Access!RevokeGrant
  <2>2. given' = [given EXCEPT ![g] = h]
    BY <1>1, <2>1
  <2>3. given[g] \in PodGrantRows
    BY <1>1
  <2>4. /\ h \in PodGrantRows /\ StampsAreOfThePast(h, now)
        /\ Authority(h, now) <= Authority(given[g], now)
    BY <1>1, <2>1, <2>3, RevocationFades
  <2> HIDE DEF h
  <2>5. /\ given' \in [Grants -> PodGrantRows] /\ given'[g] = h
        /\ \A f \in Grants \ {g} : given'[f] = given[f]
    BY <1>1, <2>2, <2>4, SMTT(30)
  <2>6. QED BY <1>2, <2>1, <2>4, <2>5 DEF GrantsFade
<1>6. CASE Access!ExpireActiveGrants
  <2>1. /\ now' = now
        /\ given' = [g \in Grants |->
             IF given[g].status = "active" /\ given[g].expires # -1 /\ given[g].expires < now
             THEN [given[g] EXCEPT !.status = "expired", !.expired = now] ELSE given[g]]
    BY <1>6 DEF Access!ExpireActiveGrants
  <2>2. ASSUME NEW g \in Grants
        PROVE  /\ given'[g] \in PodGrantRows /\ StampsAreOfThePast(given'[g], now)
               /\ Authority(given'[g], now) <= Authority(given[g], now)
    <3>1. given[g] \in PodGrantRows /\ StampsAreOfThePast(given[g], now)
          /\ Authority(given[g], now) \in Nat
      BY <1>1, <1>2
    <3>2. CASE given[g].status = "active" /\ given[g].expires # -1 /\ given[g].expires < now
      <4> DEFINE h == [given[g] EXCEPT !.status = "expired", !.expired = now]
      <4>1. given'[g] = h
        BY <2>1, <3>2, Zenon
      <4>2. /\ h \in PodGrantRows /\ StampsAreOfThePast(h, now)
            /\ Authority(h, now) = Authority(given[g], now)
        BY <1>1, <3>1, <3>2, SweepKeeps
      <4> HIDE DEF h
      <4>3. QED BY <3>1, <4>1, <4>2
    <3>3. CASE ~(given[g].status = "active" /\ given[g].expires # -1 /\ given[g].expires < now)
      <4>1. given'[g] = given[g]
        BY <2>1, <3>3, Zenon
      <4>2. QED BY <3>1, <4>1
    <3>4. QED BY <3>2, <3>3
  <2>3. given' \in [Grants -> PodGrantRows]
    <3>1. given' = [g \in Grants |-> given'[g]]
      BY <2>1
    <3>2. QED BY <2>2, <3>1
  <2>4. QED BY <2>1, <2>2, <2>3 DEF GrantsFade
<1>7. ASSUME NEW g \in Grants, NEW expires \in {-1} \cup 0 .. MaxTime, NEW window \in Windows,
             NEW scopes \in RemoteScopes, Access!CreateGrant(g, expires, window, scopes)
      PROVE  GrantsFade
  <2> DEFINE h == [Access!NoGrant EXCEPT !.status = "active", !.expires = expires, !.window = window,
                                         !.scopes = scopes]
  <2>1. given[g] = Access!NoGrant /\ now' = now /\ given' = [given EXCEPT ![g] = h]
    BY <1>7 DEF Access!CreateGrant
  <2>2. expires \in -1 .. MaxTime /\ -1 \in -1 .. MaxTime
    BY DEF AccessHypotheses
  <2>3. h \in PodGrantRows /\ h.status = "active" /\ h.expired = -1 /\ h.revoked = -1
    BY <2>2 DEF PodGrantRows, Access!NoGrant
  <2> HIDE DEF h
  <2>4. /\ given' \in [Grants -> PodGrantRows] /\ given'[g] = h
        /\ \A f \in Grants \ {g} : given'[f] = given[f]
    BY <1>1, <2>1, <2>3
  <2>5. StampsAreOfThePast(h, now)
    BY <2>3 DEF StampsAreOfThePast
  <2>6. QED BY <1>2, <2>1, <2>4, <2>5 DEF GrantsFade
<1>8. QED
  BY <1>3, <1>4, <1>5, <1>6, <1>7, Zenon
  DEF Access!Next, Access!vars, Access!AcceptInvite, Access!AcceptanceFails, Access!RevokeInvite, Access!ManagePod,
      Access!ManageParticipant, Access!ApproveParticipant, Access!CreateCredential, Access!RotateCredential,
      Access!RevokeCredential, Access!OpenStream, Access!Publish, Access!Revalidate, Access!Crash

(* The accounts, the credentials and the stream.                             *)
AccountsType ==
  /\ invite \in {"pending", "accepted", "undone", "revoked"}
  /\ pod \in Access!Statuses \cup {"none"} /\ participant \in Access!Statuses \cup {"none"}
  /\ standing \in {"remote_observer", "remote_contributor"}
  /\ credentials \in [Credentials -> {"none", "active", "rotated", "revoked"}]
  /\ stream \in Credentials \cup {"none"} /\ told \subseteq {TRUE}

CountersType == now \in 0 .. MaxTime /\ halts \in 0 .. MaxCrashes /\ orders \in 0 .. MaxCommands

LEMMA CountersStep ==
  ASSUME AccessHypotheses, CountersType, [Access!Next]_(Access!vars)
  PROVE  CountersType'
<1>1. MaxTime \in Nat /\ MaxCrashes \in Nat /\ MaxCommands \in Nat
  BY DEF AccessHypotheses
<1>2. now' = now \/ (now < MaxTime /\ now' = now + 1)
  BY Zenon DEF Access!Next, Access!vars, Access!AcceptInvite, Access!AcceptanceFails, Access!RevokeInvite, Access!ManagePod,
      Access!ManageParticipant, Access!ApproveParticipant, Access!CreateCredential, Access!RotateCredential,
      Access!RevokeCredential, Access!CreateGrant, Access!RevokeGrant, Access!ExpireActiveGrants,
      Access!OpenStream, Access!Publish, Access!Revalidate, Access!Tick, Access!Crash
<1>3. halts' = halts \/ (halts < MaxCrashes /\ halts' = halts + 1)
  <2>1. ASSUME NEW steps, Access!AcceptInvite(steps)
        PROVE  halts' = halts \/ (halts < MaxCrashes /\ halts' = halts + 1)
    BY <2>1 DEF Access!AcceptInvite
  <2>2. CASE Access!AcceptanceFails
    BY <2>2 DEF Access!AcceptanceFails
  <2>3. QED
    BY <2>1, <2>2, Zenon DEF Access!Next, Access!vars, Access!RevokeInvite, Access!ManagePod,
        Access!ManageParticipant, Access!ApproveParticipant, Access!CreateCredential, Access!RotateCredential,
        Access!RevokeCredential, Access!CreateGrant, Access!RevokeGrant, Access!ExpireActiveGrants,
        Access!OpenStream, Access!Publish, Access!Revalidate, Access!Tick, Access!Crash
<1>4. orders' = orders \/ (orders < MaxCommands /\ orders' = orders + 1)
  BY Zenon DEF Access!Next, Access!vars, Access!Command, Access!AcceptInvite, Access!AcceptanceFails, Access!RevokeInvite, Access!ManagePod,
      Access!ManageParticipant, Access!ApproveParticipant, Access!CreateCredential, Access!RotateCredential,
      Access!RevokeCredential, Access!CreateGrant, Access!RevokeGrant, Access!ExpireActiveGrants,
      Access!OpenStream, Access!Publish, Access!Revalidate, Access!Tick, Access!Crash
<1>5. QED BY <1>1, <1>2, <1>3, <1>4 DEF CountersType

AccountsAgree == AccountsType /\ AccountsFollow
AccountsKept == AccountsAgree' /\ CredentialsLast

LEMMA AccountsStep ==
  ASSUME AccessHypotheses, AccountsAgree, [Access!Next]_(Access!vars)
  PROVE  AccountsKept
<1> USE DEF AccountsAgree, AccountsKept, AccountsType, AccountsFollow, CredentialsLast, Access!Statuses
<1>1. CASE UNCHANGED <<Access!accounts, credentials, stream, told>>
  BY <1>1 DEF Access!accounts
<1>2. ASSUME NEW steps \in 1 .. 5, Access!AcceptInvite(steps) PROVE AccountsKept
  <2>1. invite = "pending" /\ invite' = "accepted" /\ UNCHANGED <<standing, credentials, told>>
    BY <1>2 DEF Access!AcceptInvite
  <2>2. /\ pod' \in {"none", "pending", "active"} /\ participant' \in {"none", "pending", "active"}
        /\ pod' = "none" => participant' = "none"
        /\ stream' \in {stream, "none"}
    BY <1>2 DEF Access!AcceptInvite
  <2>3. stream = "none" /\ \A c \in Credentials : credentials[c] = "none"
    BY <2>1
  <2>4. QED BY <2>1, <2>2, <2>3
<1>3. CASE Access!AcceptanceFails
  <2>1. /\ invite = "pending" /\ invite' \in {"undone", "accepted"}
        /\ UNCHANGED <<standing, credentials, stream, told>>
    BY <1>3 DEF Access!AcceptanceFails
  <2>2. /\ pod' \in {"none", "revoked", "pending"} /\ participant' \in {"none", "pending"}
        /\ pod' = "none" => participant' = "none"
    BY <1>3 DEF Access!AcceptanceFails
  <2>3. stream = "none" /\ \A c \in Credentials : credentials[c] = "none"
    BY <2>1
  <2>4. QED BY <2>1, <2>2, <2>3
<1>4. CASE Access!RevokeInvite
  BY <1>4 DEF Access!RevokeInvite
<1>5. ASSUME NEW to \in {"suspended", "active", "revoked"}, Access!ManagePod(to) \/ Access!ManageParticipant(to)
      PROVE  AccountsKept
  BY <1>5 DEF Access!ManagePod, Access!ManageParticipant, Access!Managed
<1>6. ASSUME NEW to \in {"remote_observer", "remote_contributor"}, Access!ApproveParticipant(to)
      PROVE  AccountsKept
  BY <1>6 DEF Access!ApproveParticipant
<1>7. ASSUME NEW c \in Credentials, Access!CreateCredential(c) PROVE AccountsKept
  BY <1>7 DEF Access!CreateCredential, Access!accounts
<1>8. ASSUME NEW c \in Credentials, Access!RevokeCredential(c) PROVE AccountsKept
  BY <1>8 DEF Access!RevokeCredential, Access!accounts
<1>9. ASSUME NEW c \in Credentials, NEW d \in Credentials, Access!RotateCredential(c, d) PROVE AccountsKept
  BY <1>9 DEF Access!RotateCredential, Access!accounts
<1>10. ASSUME NEW c \in Credentials, Access!OpenStream(c) PROVE AccountsKept
  <2>1. participant = "active"
    BY <1>10, Zenon DEF Access!OpenStream, Access!IsRemoteConnectionValid, Access!Authenticated
  <2>2. UNCHANGED <<Access!accounts, credentials, told>> /\ stream' = c
    BY <1>10 DEF Access!OpenStream
  <2>3. QED BY <2>1, <2>2 DEF Access!accounts
<1>11. CASE Access!Publish
  <2>1. /\ UNCHANGED <<Access!accounts, credentials>> /\ stream' \in {stream, "none"}
        /\ told' = told \/ told' = told \cup {Access!May(stream, "read") /\ Access!Visible}
    BY <1>11, Zenon DEF Access!Publish
  <2>2. told' # told => Access!RefreshRemoteStreamRead(stream) /\ Access!Visible
    BY <1>11, Zenon DEF Access!Publish
  <2>3. told' # told => (Access!May(stream, "read") /\ Access!Visible) = TRUE
    BY <2>2, Zenon DEF Access!RefreshRemoteStreamRead
  <2>4. told' \subseteq {TRUE}
    BY <2>1, <2>3
  <2>5. QED BY <2>1, <2>4 DEF Access!accounts
<1>12. CASE stream' = "none" /\ UNCHANGED <<Access!accounts, credentials, told>>
  BY <1>12 DEF Access!accounts
<1>13. QED
  BY <1>1, <1>2, <1>3, <1>4, <1>5, <1>6, <1>7, <1>8, <1>9, <1>10, <1>11, <1>12, Zenon
  DEF Access!Next, Access!vars, Access!CreateGrant, Access!RevokeGrant, Access!ExpireActiveGrants,
      Access!Revalidate, Access!Tick, Access!Crash

AccessInv ==
  /\ given \in [Grants -> PodGrantRows] /\ CountersType /\ AccountsAgree
  /\ \A g \in Grants : StampsAreOfThePast(given[g], now)

LEMMA AccessInit ==
  ASSUME AccessHypotheses, Access!Init
  PROVE  AccessInv
<1>1. -1 \in -1 .. MaxTime /\ 0 \in 0 .. MaxTime /\ 0 \in 0 .. MaxCrashes /\ 0 \in 0 .. MaxCommands
  BY DEF AccessHypotheses
<1>2. Access!NoGrant \in PodGrantRows /\ StampsAreOfThePast(Access!NoGrant, now)
  BY <1>1 DEF PodGrantRows, Access!NoGrant, StampsAreOfThePast
<1>3. given \in [Grants -> PodGrantRows] /\ \A g \in Grants : StampsAreOfThePast(given[g], now)
  BY <1>2 DEF Access!Init
<1>4. CountersType
  BY <1>1 DEF Access!Init, CountersType
<1>5. AccountsAgree
  BY DEF Access!Init, AccountsAgree, AccountsType, AccountsFollow, Access!Statuses
<1>6. QED BY <1>3, <1>4, <1>5 DEF AccessInv

LEMMA AccessStep ==
  ASSUME AccessHypotheses, AccessInv, [Access!Next]_(Access!vars)
  PROVE  AccessInv' /\ GrantsFade /\ CredentialsLast
<1>1. GrantsType
  BY DEF AccessInv, GrantsType, CountersType
<1>2. GrantsFade
  BY <1>1, GrantStep DEF AccessInv
<1>3. CountersType' /\ AccountsKept
  BY CountersStep, AccountsStep DEF AccessInv
<1>4. QED BY <1>2, <1>3 DEF AccessInv, GrantsFade, AccountsKept

(* What a grant gives is what the host decided: a deadline or a revocation,  *)
(* whichever is first, and the hours of the window from then, whether or not *)
(* a sweep has rewritten the row; a stream is told of nothing that a request *)
(* could not read; and access comes from an invite that its host did not     *)
(* revoke, though the acceptance itself may have undone it.                  *)
THEOREM AccessTheorem ==
  ASSUME AccessHypotheses
  PROVE  Access!Spec => [](Access!TypeOK /\ Access!AccessAgrees)
<1>1. ASSUME AccessInv PROVE Access!TypeOK /\ Access!AccessAgrees
  <2>1. Access!TypeOK
    <3>1. \A g \in Grants : given[g] \in PodGrantRows
      BY <1>1 DEF AccessInv
    <3>2. told \subseteq BOOLEAN
      BY <1>1 DEF AccessInv, AccountsAgree, AccountsType
    <3>3. QED BY <1>1, <3>1, <3>2, Zenon
      DEF AccessInv, AccountsAgree, AccountsType, CountersType, PodGrantRows, Access!TypeOK
  <2>2. ASSUME NEW g \in Grants PROVE Access!EvaluateGrantTime(given[g], now) = Access!Decided(given[g])
    <3>1. given[g] \in PodGrantRows /\ now \in Nat /\ StampsAreOfThePast(given[g], now)
      BY <1>1 DEF AccessInv, CountersType
    <3>2. QED BY <3>1, StampsTell, HostDecided
  <2>3. FALSE \notin told /\ AccountsFollow
    BY <1>1 DEF AccessInv, AccountsAgree, AccountsType
  <2>4. QED BY <2>1, <2>2, <2>3, Zenon DEF Access!AccessAgrees, AccountsFollow
<1>2. AccessInv /\ [Access!Next]_(Access!vars) => AccessInv'
  BY AccessStep
<1>3. QED BY AccessInit, <1>1, <1>2, PTL DEF Access!Spec

(* The authority of a grant only fades: no step of time, of a sweep or of a  *)
(* command gives back what a deadline or a revocation took; and a credential *)
(* that was rotated or revoked is not good again.                            *)
THEOREM FadingTheorem ==
  ASSUME AccessHypotheses
  PROVE  Access!Spec => Access!AuthorityFades
<1>1. AccessInv /\ [Access!Next]_(Access!vars) => AccessInv'
  BY AccessStep
<1>2. ASSUME AccessInv, [Access!Next]_(Access!vars)
      PROVE  /\ \A g \in Grants : given[g] # Access!NoGrant =>
                  Access!Rank(Access!EvaluateGrantTime(given[g], now)')
                    <= Access!Rank(Access!EvaluateGrantTime(given[g], now))
             /\ \A c \in Credentials : credentials[c] \notin {"none", "active"} => credentials[c]' = credentials[c]
  <2>1. GrantsFade /\ CredentialsLast /\ AccessInv'
    BY <1>2, AccessStep
  <2>2. ASSUME NEW g \in Grants, given[g] # Access!NoGrant
        PROVE  Access!Rank(Access!EvaluateGrantTime(given'[g], now'))
                 <= Access!Rank(Access!EvaluateGrantTime(given[g], now))
    <3>1. /\ given[g] \in PodGrantRows /\ now \in Nat /\ StampsAreOfThePast(given[g], now)
          /\ given'[g] \in PodGrantRows /\ now' \in Nat /\ StampsAreOfThePast(given'[g], now')
      BY <1>2, <2>1 DEF AccessInv, CountersType, GrantsFade
    <3>2. Authority(given'[g], now') <= Authority(given[g], now)
      BY <2>1, <2>2 DEF GrantsFade
    <3>3. Access!EvaluateGrantTime(given[g], now) = Named(Authority(given[g], now))
      BY <3>1, StampsTell
    <3>4. Access!EvaluateGrantTime(given'[g], now') = Named(Authority(given'[g], now'))
      BY <3>1, StampsTell
    <3>5. /\ Access!Rank(Access!EvaluateGrantTime(given[g], now)) = Authority(given[g], now)
          /\ Access!Rank(Access!EvaluateGrantTime(given'[g], now')) = Authority(given'[g], now')
      BY <3>3, <3>4, RankIsAuthority, Zenon
    <3>6. QED BY <3>2, <3>5
  <2>3. QED BY <2>1, <2>2 DEF CredentialsLast
<1>3. QED BY AccessInit, <1>1, <1>2, PTL DEF Access!Spec, Access!AuthorityFades
=============================================================================
