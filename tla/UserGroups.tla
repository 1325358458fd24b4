----------------------------- MODULE UserGroups -----------------------------
(***************************************************************************)
(* Everything in jinbe that writes the group membership of one user.       *)
(*                                                                         *)
(* Membership lives in Kratos, in metadata_admin.groups.  Kratos has no    *)
(* compare-and-swap: every writer reads the identity, then PUTs the whole  *)
(* of it back (kratosService.updateIdentity).  Two writers serialise on    *)
(* the redis lock user-groups:<email>, the others take no such lock:       *)
(*                                                                         *)
(*   Appliers  userGroupsService.applyGroupUpdate           locked         *)
(*   Cleaners  kratosService.removeGroupFromAllUsers        locked         *)
(*   Reviewers recertService.removeGroupMembership          not locked     *)
(*   Editors   admin setUserMetadata / updateUser, SCIM     not locked     *)
(*   Toggles   admin setUserState, organization updateUser  not locked     *)
(*                                                                         *)
(* Identities share nothing but the group definitions, which are constants *)
(* here.  The lock is the leased mutex of RedisLock, seen by its owner.    *)
(***************************************************************************)
EXTENDS FiniteSets

CONSTANTS
  Appliers, Cleaners, Reviewers, Editors, Toggles,
  NoOne,
  Groups,         \* group names
  Base,           \* the group 'users', which an identity without groups has
  BaseIsEmpty,    \* isEmptyGroup('users')
  AdminPower,     \* isAdminPowerGroup: some role of the group resolves to '*'
  GlobalPower,    \* groupGrantsGlobalPower
  SystemGroups,   \* metadata system: true
  OrgAdminFlag,   \* {'org_admins'}: empty binding, positional authority
  Actors,         \* who asks: [org, may, super, fresh]
  Requests        \* the lists of groups that are asked for

Locked   == Appliers \cup Cleaners
Unlocked == Reviewers \cup Editors \cup Toggles
Writers  == Locked \cup Unlocked

ASSUME WriterAssumption ==
  /\ NoOne \notin Writers
  /\ Appliers \cap (Cleaners \cup Unlocked) = {} /\ Cleaners \cap Unlocked = {}
  /\ Reviewers \cap (Editors \cup Toggles) = {} /\ Editors \cap Toggles = {}
ASSUME GroupAssumption ==
  /\ Base \in Groups /\ BaseIsEmpty \in BOOLEAN
  /\ AdminPower \subseteq Groups /\ GlobalPower \subseteq AdminPower
  /\ SystemGroups \subseteq Groups /\ OrgAdminFlag \subseteq Groups
  /\ Requests \subseteq SUBSET Groups

\* An actor: the policy of the endpoint (org: wildcard_in_org, otherwise
\* super_admin_required), the groups can_grant answers for, whether OPA sees a
\* super_admin, and whether an AAL2 proof is at most 15 minutes old.
Actor == [org : BOOLEAN, may : SUBSET Groups, super : BOOLEAN, fresh : BOOLEAN]

ASSUME ActorAssumption == Actors \subseteq Actor

\* An identity as Kratos stores it.  No groups at all stands for an absent
\* key: jinbe never writes an empty list.
Identity == [groups : SUBSET Groups, active : BOOLEAN]

VARIABLES
  identity,   \* the identity in Kratos
  mfa,        \* the user has enrolled a second factor (fixed by Init)
  lock,       \* who holds user-groups:<email>
  tainted,    \* locked writers whose pre-image the lock no longer protects
  held,       \* every group the user has ever held
  actor,      \* actor[w]: who called the applier w
  want,       \* want[w]: what w will write, or the one group w will drop
  old,        \* old[w]: the groups w read first
  got,        \* got[w]: the identity that updateIdentity fetched
  pc

vars == <<identity, mfa, lock, tainted, held, actor, want, old, got, pc>>
data == <<identity, mfa, held>>

\* A write that replaces the groups never names none.
NeverGroupless == \A w \in Locked \cup Reviewers : pc[w] \in {"fetch", "put"} => want[w] # {}

Stages == {"idle", "wait", "read", "gate", "fetch", "put", "release", "done", "crashed"}

\* metadata_admin?.groups || ['users'].
Eff(groups) == IF groups = {} THEN {Base} ELSE groups

TypeOK ==
  /\ identity \in Identity /\ mfa \in BOOLEAN
  /\ lock \in Locked \cup {NoOne}
  /\ tainted \in SUBSET Locked /\ held \in SUBSET Groups
  /\ actor \in [Appliers -> Actors]
  /\ want \in [Writers -> SUBSET Groups] /\ old \in [Writers -> SUBSET Groups]
  /\ got \in [Writers -> Identity]
  /\ pc \in [Writers -> Stages]
  /\ NeverGroupless

Init ==
  /\ identity \in [groups : Requests, active : {TRUE}]
  /\ mfa \in BOOLEAN
  /\ lock = NoOne
  /\ tainted = {}
  /\ held = Eff(identity.groups)
  /\ actor \in [Appliers -> Actors]
  /\ want = [w \in Writers |-> {}]
  /\ old  = [w \in Writers |-> {}]
  /\ got  = [w \in Writers |-> identity]
  /\ pc   = [w \in Writers |-> "idle"]

Goto(w, s) == pc' = [pc EXCEPT ![w] = s]

\* A writer that gives up: the error leaves withRedisLock through its finally.
Abort(w) == Goto(w, IF w \in Locked THEN "release" ELSE "done")

\* Ensure user always has at least ['users'] group.
WithoutFallback(groups, g) == groups \ {g}

Without(groups, g) == IF groups = {g} THEN {Base} ELSE groups \ {g}

-----------------------------------------------------------------------------
(* Requests arrive.                                                        *)

\* The controllers have validated the group names and resolved the identity.
\* finalGroups is the request, or the base group for an empty one.
StartApply(w) ==
  /\ w \in Appliers /\ pc[w] = "idle"
  /\ \E n \in Requests : want' = [want EXCEPT ![w] = Eff(n)]
  /\ \E a \in Actors : actor' = [actor EXCEPT ![w] = a]
  /\ Goto(w, "wait")
  /\ UNCHANGED <<data, lock, tainted, old, got>>

\* deleteGroup cascades; system groups are not deletable.  The bulk snapshot
\* may be as old as the bindings cache, so it may miss or invent this user.
StartCleanup(w) ==
  /\ w \in Cleaners /\ pc[w] = "idle"
  /\ \E g \in Groups \ SystemGroups : want' = [want EXCEPT ![w] = {g}]
  /\ \E s \in {"wait", "done"} : Goto(w, s)
  /\ UNCHANGED <<data, lock, tainted, actor, old, got>>

\* A recertification revokes one membership; 'users' is never in scope.
StartRevoke(w) ==
  /\ w \in Reviewers /\ pc[w] = "idle"
  /\ \E g \in Groups \ {Base} : want' = [want EXCEPT ![w] = {g}]
  /\ Goto(w, "read")
  /\ UNCHANGED <<data, lock, tainted, actor, old, got>>

\* setUserMetadata, updateUser and SCIM read the identity first; setUserState
\* and the organization's updateUser go straight to updateIdentity.
StartEdit(w) ==
  /\ pc[w] = "idle"
  /\ \/ w \in Editors /\ Goto(w, "read")
     \/ w \in Toggles /\ Goto(w, "fetch")
  /\ UNCHANGED <<data, lock, tainted, actor, want, old, got>>

-----------------------------------------------------------------------------
(* withRedisLock(`user-groups:${email}`).                                  *)

AcquireIgnored(w) ==
  /\ pc[w] = "wait"
  /\ lock' = w
  /\ Goto(w, "read")
  /\ UNCHANGED <<data, tainted, actor, want, old, got>>

Acquire(w) ==
  /\ pc[w] = "wait"
  /\ lock = NoOne
  /\ lock' = w
  /\ Goto(w, "read")
  /\ UNCHANGED <<data, tainted, actor, want, old, got>>

\* The wait runs out: 503, nothing was read or written.
Busy(w) ==
  /\ pc[w] = "wait"
  /\ lock # NoOne
  /\ Goto(w, "done")
  /\ UNCHANGED <<data, lock, tainted, actor, want, old, got>>

Release(w) ==
  /\ pc[w] = "release"
  /\ lock' = IF lock = w THEN NoOne ELSE lock
  /\ Goto(w, "done")
  /\ UNCHANGED <<data, tainted, actor, want, old, got>>

\* The TTL runs out.  Under a holder that has died this is the recovery; under
\* one that still runs (Kratos calls have no timeout) it ends the protection.
Lapse(w) ==
  /\ lock = w
  /\ lock' = NoOne
  /\ tainted' = IF pc[w] = "crashed" THEN tainted ELSE tainted \cup {w}
  /\ UNCHANGED <<data, actor, want, old, got, pc>>

Crash(w) ==
  /\ pc[w] \in {"wait", "read", "gate", "fetch", "put", "release"}
  /\ Goto(w, "crashed")
  /\ UNCHANGED <<data, lock, tainted, actor, want, old, got>>

-----------------------------------------------------------------------------
(* The first read.                                                         *)

\* applyGroupUpdate: the pre-image that drives the removal gate.
ReadForApply(w) ==
  /\ w \in Appliers /\ pc[w] = "read"
  /\ old' = [old EXCEPT ![w] = Eff(identity.groups)]
  /\ Goto(w, "gate")
  /\ UNCHANGED <<data, lock, tainted, actor, want, got>>

\* The cleanup re-reads under the lock, the recertification without one; both
\* stop if the group is not there.  Neither leaves the user without a group.
ReadForDrop(w) ==
  /\ w \in Cleaners \cup Reviewers /\ pc[w] = "read"
  /\ LET now == Eff(identity.groups)
     IN \/ /\ \A g \in want[w] : g \notin now
           /\ Abort(w)
           /\ UNCHANGED <<want, old>>
        \/ \E g \in want[w] :
             /\ g \in now
             /\ old' = [old EXCEPT ![w] = now]
             /\ want' = [want EXCEPT ![w] = Without(now, g)]
             /\ Goto(w, "fetch")
  /\ UNCHANGED <<data, lock, tainted, actor, got>>

\* The bug of an editor that takes the groups of the body.
ReadForEditUnchecked(w) ==
  /\ w \in Editors /\ pc[w] = "read"
  /\ \E body \in Requests \cup {identity.groups} :
       /\ old' = [old EXCEPT ![w] = body]
       /\ Goto(w, "fetch")
  /\ UNCHANGED <<data, lock, tainted, actor, want, got>>

\* A body that names other groups than the current ones is refused (422);
\* the edit pins the groups of this read.
ReadForEdit(w) ==
  /\ w \in Editors /\ pc[w] = "read"
  /\ \E body \in Requests \cup {identity.groups} :
       \/ /\ body # identity.groups
          /\ Abort(w)
          /\ UNCHANGED old
       \/ /\ body = identity.groups
          /\ old' = [old EXCEPT ![w] = identity.groups]
          /\ Goto(w, "fetch")
  /\ UNCHANGED <<data, lock, tainted, actor, want, got>>

\* The bug the pre-image guard excludes: a failed read taken for no groups.
ReadFailsOpen(w) ==
  /\ pc[w] = "read"
  /\ IF w \in Appliers THEN Goto(w, "gate") ELSE Abort(w)
  /\ old' = [old EXCEPT ![w] = {}]
  /\ UNCHANGED <<data, lock, tainted, actor, want, got>>

\* Kratos does not answer: groups_precondition_failed, no change is made.
ReadFails(w) ==
  /\ pc[w] = "read"
  /\ Abort(w)
  /\ UNCHANGED <<data, lock, tainted, actor, want, old, got>>

-----------------------------------------------------------------------------
(* The gates of applyGroupUpdate.                                          *)

Added(w)   == want[w] \ old[w]
Removed(w) == old[w] \ want[w]

\* Which of the changed groups must clear the privilege gate.
GatedAddsOnly(w) ==
  IF actor[w].org THEN {g \in Added(w) : ~(g = Base /\ BaseIsEmpty)}
                  ELSE Added(w) \cap (AdminPower \cup OrgAdminFlag)

GatedByPowerOnly(w) ==
  IF actor[w].org THEN {g \in Added(w) \cup Removed(w) : ~(g = Base /\ BaseIsEmpty)}
                  ELSE Added(w) \cap AdminPower

Gated(w) ==
  IF actor[w].org THEN {g \in Added(w) \cup Removed(w) : ~(g = Base /\ BaseIsEmpty)}
                  ELSE Added(w) \cap (AdminPower \cup OrgAdminFlag)

\* checkPrivilegeEscalation: OPA can_grant and never a global group on the
\* organization's endpoint, super_admin on the global one.
Clears(w, g) ==
  IF actor[w].org THEN g \in actor[w].may /\ g \notin GlobalPower
                  ELSE actor[w].super

\* findPrivilegedGroupRequiringMFA.
NeedsMfa(w) == Added(w) \cap SystemGroups \cap AdminPower # {}

GateOpens(w) ==
  /\ \A g \in Gated(w) : Clears(w, g)
  /\ NeedsMfa(w) => mfa
  /\ Gated(w) # {} => actor[w].fresh

PassGate(w) ==
  /\ w \in Appliers /\ pc[w] = "gate"
  /\ GateOpens(w)
  /\ Goto(w, "fetch")
  /\ UNCHANGED <<data, lock, tainted, actor, want, old, got>>

\* A gate denies, or one of its lookups fails (OPA and MFA errors deny, a
\* Redis error throws): no write either way.
DenyGate(w) ==
  /\ w \in Appliers /\ pc[w] = "gate"
  /\ Abort(w)
  /\ UNCHANGED <<data, lock, tainted, actor, want, old, got>>

-----------------------------------------------------------------------------
(* kratosService.updateIdentity: GET, merge, PUT.                          *)

Fetch(w) ==
  /\ pc[w] = "fetch"
  /\ got' = [got EXCEPT ![w] = identity]
  /\ Goto(w, "put")
  /\ UNCHANGED <<data, lock, tainted, actor, want, old>>

\* The groups w puts back: its own list, the ones it pinned (an identity
\* without groups pins nothing in updateUser), or the ones just fetched.
PutGroups(w) ==
  CASE w \in Locked \cup Reviewers -> {want[w]}
    [] w \in Editors               -> IF old[w] = {} THEN {{}, got[w].groups} ELSE {old[w]}
    [] w \in Toggles               -> {got[w].groups}

\* The state w puts back: SCIM and setUserState set it, the others repeat it.
PutActive(w) == IF w \in Editors \cup Toggles THEN BOOLEAN ELSE {got[w].active}

\* An unlocked writer, or one that lost its lease, changes the membership
\* under those that have read it.
Spoiled(w) ==
  IF w \in Unlocked \cup tainted
    THEN {v \in Locked \ {w} : pc[v] \in {"gate", "fetch", "put"}}
    ELSE {}

\* The reply may get lost; the writer then reports an error and the identity
\* is written all the same.
Put(w) ==
  /\ pc[w] = "put"
  /\ \E g \in PutGroups(w), a \in PutActive(w) : identity' = [groups |-> g, active |-> a]
  /\ held' = held \cup Eff(identity'.groups)
  /\ tainted' = tainted \cup Spoiled(w)
  /\ Abort(w)
  /\ UNCHANGED <<mfa, lock, actor, want, old, got>>

UpdateFails(w) ==
  /\ pc[w] \in {"fetch", "put"}
  /\ Abort(w)
  /\ UNCHANGED <<data, lock, tainted, actor, want, old, got>>

-----------------------------------------------------------------------------
Next == \E w \in Writers :
  \/ StartApply(w) \/ StartCleanup(w) \/ StartRevoke(w) \/ StartEdit(w)
  \/ Acquire(w) \/ Busy(w) \/ Release(w) \/ Lapse(w) \/ Crash(w)
  \/ ReadForApply(w) \/ ReadForDrop(w) \/ ReadForEdit(w) \/ ReadFails(w)
  \/ PassGate(w) \/ DenyGate(w)
  \/ Fetch(w) \/ Put(w) \/ UpdateFails(w)

Spec == Init /\ [][Next]_vars

-----------------------------------------------------------------------------
(* Properties.                                                             *)

Gains  == Eff(identity'.groups) \ Eff(identity.groups)
Losses == Eff(identity.groups) \ Eff(identity'.groups)

\* w writes the identity in this step.
Writes(w) == pc[w] = "put" /\ pc'[w] # "put" /\ identity' # identity

\* The actor of w has the authority, the recent second factor and the target's
\* second factor that adding g takes.
MayAdd(w, g) ==
  /\ IF actor[w].org
       THEN (g = Base /\ BaseIsEmpty) \/ (Clears(w, g) /\ actor[w].fresh)
       ELSE g \in AdminPower \cup OrgAdminFlag => actor[w].super /\ actor[w].fresh
  /\ g \in SystemGroups \cap AdminPower => mfa

\* On the organization's endpoint a removal takes the authority of a grant.
MayRemove(w, g) ==
  actor[w].org => \/ g = Base /\ BaseIsEmpty
                  \/ Clears(w, g) /\ actor[w].fresh

\* "within jinbe the per-user lock above serializes every writer, so the
\* pre-image is authoritative here": as far as locked writers go.  Between its
\* read and its write the membership is what a locked writer read, unless its
\* lease lapsed or a writer that takes no lock came in between.
PreimageHolds ==
  \A w \in Locked \ tainted :
    pc[w] \in {"gate", "fetch", "put"} => old[w] = Eff(identity.groups)

\* Nobody joins a group without the authority of an applier's actor.  The one
\* exception is a group the user has held before and a stale write brings back,
\* and only a writer without a lock, or one whose lease lapsed, can do that.
NoUnauthorisedGrant ==
  [][\A w \in Writers : Writes(w) => \A g \in Gains :
       \/ w \in Appliers /\ MayAdd(w, g)
       \/ w \notin Appliers /\ g = Base
       \/ g \in held /\ w \in Unlocked \cup tainted]_vars

\* "an UNGATED strip": an organization's administrator never removes a group
\* that this administrator could not grant, unless the lock failed to protect
\* the pre-image.
NoUngatedStrip ==
  [][\A w \in Appliers \ tainted : Writes(w) => \A g \in Losses : MayRemove(w, g)]_vars

\* "Every jinbe group writer takes the SAME lock ... the pre-image is
\* authoritative": the claim as the comment makes it, for writers that keep
\* their lease.
PreimageAuthoritative ==
  \A w \in Appliers :
    lock = w /\ pc[w] \in {"gate", "fetch", "put"} => old[w] = Eff(identity.groups)

\* "the state flip already blocks new logins": a deactivation is only undone
\* by a request that sets the state.
DeactivationSticks ==
  [][\A w \in Locked : Writes(w) => identity'.active = identity.active]_vars
=============================================================================
