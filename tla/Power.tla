------------------------------- MODULE Power -------------------------------
(* What a group is worth.  Several parts of Jinbe answer this, each with code of *)
(* its own: the gates of the group assignment, the counts of the directory, the  *)
(* access review, the resolver behind /whoami, and the preview of a change.      *)
(* Authorization_proofs shows where they agree.                                  *)
(*                                                                               *)
(* A registry is a record: groups maps a name to its definition, a definition    *)
(* maps a scope to the roles bound there; roles maps a scope to its roles, a     *)
(* role to its permissions; routes maps a scope to its rules; services is the    *)
(* registered set, in which seed-rbac puts "global" too.  A user is a set of     *)
(* group names, defined or not.                                                  *)
EXTENDS Naturals, FiniteSets

CONSTANTS Global, SuperAdmin, Star,  \* "global", "super_admin", "*"
          Base                       \* the group "users"

None == {}

Bound(def, s) == IF s \in DOMAIN def THEN def[s] ELSE None

\* The permissions of role r in the map of scope s.
PermsIn(reg, s, r) ==
  IF s \in DOMAIN reg.roles
    THEN IF r \in DOMAIN reg.roles[s] THEN reg.roles[s][r] ELSE None
    ELSE None

Wild(reg, s, r) == Star \in PermsIn(reg, s, r)

Defined(reg, gs) == gs \cap DOMAIN reg.groups

-----------------------------------------------------------------------------
(* The gates (rbac.service.ts).                                                *)

DefGrantsGlobalPower(reg, def) ==
  \/ SuperAdmin \in Bound(def, Global)
  \/ \E r \in Bound(def, Global) : Wild(reg, Global, r)

GroupGrantsGlobalPower(reg, g) ==
  g \in DOMAIN reg.groups /\ DefGrantsGlobalPower(reg, reg.groups[g])

GroupGrantsAdminPower(reg, g) ==
  /\ g \in DOMAIN reg.groups
  /\ \/ DefGrantsGlobalPower(reg, reg.groups[g])
     \/ \E s \in DOMAIN reg.groups[g] \ {Global} :
          \E r \in reg.groups[g][s] : Wild(reg, s, r)

IsEmptyGroup(reg, g) ==
  g \in DOMAIN reg.groups => \A s \in DOMAIN reg.groups[g] : reg.groups[g][s] = None

-----------------------------------------------------------------------------
(* The counts of the directory (wildcardGroupNames and the loop of             *)
(* refreshDirectoryStats).                                                     *)

WildcardGroupNames(reg) ==
  {g \in DOMAIN reg.groups :
     \E s \in DOMAIN reg.groups[g] : \E r \in reg.groups[g][s] :
        (s = Global /\ r = SuperAdmin) \/ Wild(reg, s, r)}

FullAccess(reg, gs) == gs \cap WildcardGroupNames(reg) # None

Unassigned(gs) == gs \subseteq {Base}

\* A service is counted when the definition names it, be it with no role.
CountedServices(reg, gs) == UNION {DOMAIN reg.groups[g] : g \in Defined(reg, gs)}

-----------------------------------------------------------------------------
(* The access review (compute).                                                *)

BroadReachMin == 3
NotPrivileged == 4

\* GroupPower of one group.
GlobalPower(reg, g) ==
  \E r \in Bound(reg.groups[g], Global) : r = SuperAdmin \/ Wild(reg, Global, r)
WildcardServices(reg, g) ==
  {s \in DOMAIN reg.groups[g] \ {Global} : \E r \in reg.groups[g][s] : Wild(reg, s, r)}
GrantedServices(reg, g) ==
  {s \in DOMAIN reg.groups[g] \ {Global} : reg.groups[g][s] # None}

UserGlobalPower(reg, gs) == \E g \in Defined(reg, gs) : GlobalPower(reg, g)
UserWildcards(reg, gs) == UNION {WildcardServices(reg, g) : g \in Defined(reg, gs)}
Reached(reg, gs) ==
  UNION {GrantedServices(reg, g) : g \in Defined(reg, gs)}
    \cup (IF UserGlobalPower(reg, gs) THEN reg.services ELSE None)

\* The ladder: the highest power wins.
Tier(reg, gs, isOrgAdmin) ==
  CASE UserGlobalPower(reg, gs) -> 0
    [] ~UserGlobalPower(reg, gs) /\ UserWildcards(reg, gs) # None -> 1
    [] ~UserGlobalPower(reg, gs) /\ UserWildcards(reg, gs) = None /\ isOrgAdmin -> 2
    [] OTHER -> IF Cardinality(Reached(reg, gs)) >= BroadReachMin THEN 3 ELSE NotPrivileged

Orphaned(reg, gs) == \E g \in gs : g \notin DOMAIN reg.groups /\ g # Base

-----------------------------------------------------------------------------
(* The resolver (resolveRoles, resolvePermissions): a role is looked up in both *)
(* maps, whichever scope it was bound in.                                       *)

ResolveRoles(reg, gs, app) ==
  UNION {Bound(reg.groups[g], Global) \cup Bound(reg.groups[g], app) : g \in Defined(reg, gs)}

ResolvePermissions(reg, gs, app) ==
  UNION {PermsIn(reg, Global, r) \cup PermsIn(reg, app, r) : r \in ResolveRoles(reg, gs, app)}

\* No group binds in one of the two scopes a role that the other one defines
\* without binding it there.
Scoped(reg, app) ==
  \A g \in DOMAIN reg.groups :
     /\ \A r \in Bound(reg.groups[g], app) :
          PermsIn(reg, Global, r) \subseteq PermsIn(reg, app, r)
     /\ \A r \in Bound(reg.groups[g], Global) :
          PermsIn(reg, app, r) \subseteq PermsIn(reg, Global, r)

-----------------------------------------------------------------------------
(* The preview of a change (impact-preview.service.ts).  A proposal has partial *)
(* maps of the same shape, and new groups of some users.                        *)

\* f overridden by g.
Merge(f, g) == [x \in DOMAIN f \cup DOMAIN g |-> IF x \in DOMAIN g THEN g[x] ELSE f[x]]

MergeProposed(reg, p) ==
  [groups |-> Merge(reg.groups, p.groups), roles |-> Merge(reg.roles, p.roles),
   routes |-> Merge(reg.routes, p.routes), services |-> reg.services]

\* The groups of a user once the proposal is applied.
NextGroups(members, p, u) == Bound(Merge(members, p.membership), u)

\* The code compares the JSON texts, so another order of the same roles is a
\* change to it as well.
ChangedGroups(reg, p) ==
  {g \in DOMAIN p.groups : g \notin DOMAIN reg.groups \/ reg.groups[g] # p.groups[g]}

Keys(groups, gs) == UNION {DOMAIN groups[g] : g \in gs \cap DOMAIN groups}

EditedScopes(p) == DOMAIN p.roles \cup DOMAIN p.routes

TouchedScopes(reg, members, p) ==
  Keys(p.groups, ChangedGroups(reg, p)) \cup Keys(reg.groups, ChangedGroups(reg, p))
    \cup EditedScopes(p)
    \cup UNION {Keys(reg.groups, p.membership[u] \cup Bound(members, u)) :
                  u \in DOMAIN p.membership}

AffectedServices(reg, members, p) == TouchedScopes(reg, members, p) \ {Global}

AffectedUsers(reg, members, p) ==
  DOMAIN p.membership
    \cup {u \in DOMAIN members : members[u] \cap ChangedGroups(reg, p) # None}
    \cup {u \in DOMAIN members :
            /\ EditedScopes(p) # None
            /\ Keys(reg.groups, members[u]) \cap ({Global} \cup EditedScopes(p)) # None}

\* The synthetic sample: who is probed, on which declared rules.  Of these, and of
\* the recent requests, TOTAL_SAMPLE_LIMIT are evaluated.
Probes(reg, members, p) ==
  AffectedUsers(reg, members, p)
    \X UNION {Bound(reg.routes, s) \cup Bound(MergeProposed(reg, p).routes, s) :
                s \in AffectedServices(reg, members, p)}
=============================================================================
