------------------------------- MODULE Access -------------------------------
(***************************************************************************)
(* One request on its way through jinbe: extractIdentity, requireAuth and  *)
(* the gates the route was registered with, up to the handler.  Each gate  *)
(* asks OPA, Kratos or Redis in turn, so the facts it checks may change    *)
(* between two gates and any of these calls may fail.                      *)
(*                                                                         *)
(* What is true of the caller is the variable world, which other           *)
(* administrators change at any time; what the request object carries      *)
(* (userContext, rbacInfo) is a copy taken when a gate ran.  DEV_BYPASS_   *)
(* AUTH, which only a development server honours, is off.                  *)
(***************************************************************************)
EXTENDS Naturals, Sequences, FiniteSets

CONSTANTS
  Chains,       \* the sequences of gates the routes are registered with
  Services,     \* the RBAC services an organization can be mapped to
  App,          \* the service of the console itself (APP_NAME)
  Callers,      \* the worlds a request may start in
  MaxChanges    \* bound on the changes of world during the request

Gates == {"Session", "Scim", "Secret", "Admin", "SuperGroup", "SuperRole", "RecentMfa",
          "ServiceAdmin", "ManageableOrg", "AssignPermission", "ReviewerOrAdmin"}


\* What can be true of a caller, apart from permissions on a service.
\* "super" stands for super_admins and superadmin, which are in both lists of
\* group names; "superadmins" is a name that only requireSuperAdmin knows.
GroupFacts == {"admin", "super", "superadmins"}
Facts == GroupFacts \cup
         {"session", "machine", "aal2", "superRole", "manages", "reviewer", "scimToken", "secret"}
Permissions == {"*", "users:assign_group", "other"}

\* The caller and the organization that the URL names.
World == [facts : SUBSET Facts, perms : SUBSET (Services \X Permissions), service : Services]

\* The gates that fill request.rbacInfo and those that read what an earlier one
\* put there: on an organization's route it is filled once, before it is read.
Fillers == {"Admin", "SuperGroup", "ServiceAdmin", "ReviewerOrAdmin"}
Readers == {"ManageableOrg", "AssignPermission"}

WellOrdered(chain) ==
  /\ \A j \in 1..Len(chain) : chain[j] \in Readers => \E i \in 1..(j - 1) : chain[i] = "ServiceAdmin"
  /\ \A i, j \in 1..Len(chain) : chain[i] = "ServiceAdmin" /\ chain[j] \in Fillers => i = j

ASSUME ChainsAssumption == Chains \subseteq Seq(Gates) /\ \A chain \in Chains : WellOrdered(chain)
ASSUME WorldAssumption == App \in Services /\ Callers \subseteq World
ASSUME MaxChangesAssumption == MaxChanges \in Nat

\* How a request ends: the handler runs, or a gate answers with a status.
Refusals == {"unauthenticated", "forbidden", "reauth", "uninitialised", "unavailable"}
Outcomes == {"open", "handled"} \cup Refusals

VARIABLES
  gates,      \* the gates of the route the request matched
  cred,       \* the credentials it presents: a bearer token, a session cookie
  world,      \* what is true now
  held,       \* what has been true at some moment of this request
  changes,    \* changes of world so far
  stage,      \* "token", "cookie" (extractIdentity), then "gates"
  at,         \* index of the next gate
  ctx,        \* request.userContext: what it holds of e-mail and second factor
  rbac,       \* request.rbacInfo: not set, or the copy OPA answered
  outcome

vars == <<gates, cred, world, held, changes, stage, at, ctx, rbac, outcome>>

NoRbac == [set |-> FALSE, groups |-> {}, perms |-> {}]

TypeOK ==
  /\ gates \in Chains /\ cred \subseteq {"token", "cookie"}
  /\ world \in World
  /\ held \in [facts : SUBSET Facts, perms : SUBSET (Services \X Permissions), services : SUBSET Services]
  /\ changes \in 0..MaxChanges /\ stage \in {"token", "cookie", "gates"}
  /\ at \in 1..(Len(gates) + 1)
  /\ ctx \subseteq {"email", "aal2"}
  /\ rbac \in [set : BOOLEAN, groups : SUBSET GroupFacts, perms : SUBSET Permissions]
  /\ outcome \in Outcomes

Witness(w) == [facts |-> w.facts, perms |-> w.perms, services |-> {w.service}]

Remember(h, w) == [facts |-> h.facts \cup w.facts, perms |-> h.perms \cup w.perms,
                   services |-> h.services \cup {w.service}]

Init ==
  /\ gates \in Chains /\ cred \in SUBSET {"token", "cookie"}
  /\ world \in Callers
  /\ held = Witness(world)
  /\ changes = 0 /\ stage = "token" /\ at = 1
  /\ ctx = {} /\ rbac = NoRbac
  /\ outcome = "open"

Flip(S, x) == IF x \in S THEN S \ {x} ELSE S \cup {x}

\* Somebody else revokes, grants, logs the caller out or remaps the organization.
Change ==
  /\ outcome = "open" /\ changes < MaxChanges
  /\ \/ \E f \in Facts : world' = [world EXCEPT !.facts = Flip(@, f)]
     \/ \E p \in Services \X Permissions : world' = [world EXCEPT !.perms = Flip(@, p)]
     \/ \E s \in Services \ {world.service} : world' = [world EXCEPT !.service = s]
  /\ held' = Remember(held, world')
  /\ changes' = changes + 1
  /\ UNCHANGED <<gates, cred, stage, at, ctx, rbac, outcome>>

------------------------------------------------------------------------------
(* extractIdentity.  A ServiceAccount token is tried first; a rejected one
   falls through to the cookie.  A machine has no second factor. *)

ReviewToken ==
  /\ stage = "token"
  /\ \/ /\ "token" \in cred /\ "machine" \in world.facts
        /\ ctx' = {"email"} /\ stage' = "gates"
     \/ stage' = "cookie" /\ UNCHANGED ctx      \* none, rejected, or no API server
  /\ UNCHANGED <<gates, cred, world, held, changes, at, rbac, outcome>>

\* kratosSessionService.validateSession: Kratos vouches for the session, or the
\* request goes on without userContext (no cookie, a refusal, or an exception).
ValidateSession ==
  /\ stage = "cookie" /\ stage' = "gates"
  /\ \/ /\ "cookie" \in cred /\ "session" \in world.facts
        /\ ctx' = {"email"} \cup (world.facts \cap {"aal2"})
     \/ UNCHANGED ctx
  /\ UNCHANGED <<gates, cred, world, held, changes, at, rbac, outcome>>

------------------------------------------------------------------------------
(* The gates. *)

Gate == IF at <= Len(gates) THEN gates[at] ELSE "none"

PermsOn(s) == {p \in Permissions : <<s, p>> \in world.perms}

\* Mutated form: the answer is taken as it comes, with members that are no groups.
RawUserInfo(app) == [set |-> TRUE, groups |-> world.facts, perms |-> PermsOn(app)]

\* opaService.getUserInfo(email, app), kept in request.rbacInfo.
UserInfo(app) == [set |-> TRUE, groups |-> world.facts \cap GroupFacts, perms |-> PermsOn(app)]

AsksOpa == Gate \in Fillers
NeedsEmail == Gate \in Fillers \cup {"Session", "SuperRole"}

Next1 == at' = at + 1 /\ UNCHANGED outcome
Refuse(status) == outcome' = status /\ UNCHANGED at

Ready == stage = "gates" /\ outcome = "open" /\ UNCHANGED <<gates, cred, world, held, changes, stage, ctx>>

\* 401: requireAuth, and every gate that reads userContext.email.
NotAuthenticated == Ready /\ NeedsEmail /\ "email" \notin ctx /\ Refuse("unauthenticated") /\ UNCHANGED rbac

CheckSession == Ready /\ Gate = "Session" /\ "email" \in ctx /\ Next1 /\ UNCHANGED rbac

\* The SCIM bearer token, and the shared secret of the Kratos webhook.
CheckToken ==
  /\ Ready /\ UNCHANGED rbac
  /\ \/ Gate = "Scim" /\ "scimToken" \in world.facts /\ Next1
     \/ Gate = "Secret" /\ "secret" \in world.facts /\ Next1
     \/ Gate = "Scim" /\ "scimToken" \notin world.facts /\ Refuse("unauthenticated")
     \/ Gate = "Secret" /\ "secret" \notin world.facts /\ Refuse("unauthenticated")

\* hasAnyGroup with ADMIN_GROUPS or with SUPER_ADMIN_GROUPS.
Named(g) == IF g = "SuperGroup" THEN {"super", "superadmins"} ELSE {"admin", "super"}

CheckGroups(g) ==
  /\ Ready /\ Gate = g /\ "email" \in ctx
  /\ rbac' = UserInfo(App)
  /\ IF rbac'.groups \cap Named(g) # {} THEN Next1 ELSE Refuse("forbidden")

CheckAdmin == CheckGroups("Admin")
CheckSuperAdmin == CheckGroups("SuperGroup")

\* The decision route: the reviewer of the item decides, anyone else must pass
\* requireAdmin, which answers by itself.
CheckReviewer ==
  /\ Ready /\ Gate = "ReviewerOrAdmin" /\ "email" \in ctx
  /\ \/ "reviewer" \in world.facts /\ Next1 /\ UNCHANGED rbac
     \/ /\ "reviewer" \notin world.facts /\ rbac' = UserInfo(App)
        /\ IF rbac'.groups \cap Named(Gate) # {} THEN Next1 ELSE Refuse("forbidden")

\* simulate resolves the caller's roles; rbacInfo keeps what an earlier gate put.
CheckRole ==
  /\ Ready /\ Gate = "SuperRole" /\ "email" \in ctx /\ UNCHANGED rbac
  /\ IF "superRole" \in world.facts THEN Next1 ELSE Refuse("forbidden")

\* Mutated form: no answer when the second factor is missing or too old.
CheckMfaSilently == Ready /\ Gate = "RecentMfa" /\ UNCHANGED rbac /\ "aal2" \in ctx /\ Next1

\* The second factor as extractIdentity found it; it may be older than 15
\* minutes by now.
CheckMfa ==
  /\ Ready /\ Gate = "RecentMfa" /\ UNCHANGED rbac
  /\ \/ "aal2" \in ctx /\ Next1
     \/ Refuse("reauth")

\* Mutated form: the answer is checked but not kept in request.rbacInfo.
CheckServiceUnkept ==
  /\ Ready /\ Gate = "ServiceAdmin" /\ "email" \in ctx /\ UNCHANGED rbac
  /\ IF PermsOn(world.service) # {} THEN Next1 ELSE Refuse("forbidden")

\* The organization is resolved to its service and OPA asked about that one.
CheckService ==
  /\ Ready /\ Gate = "ServiceAdmin" /\ "email" \in ctx
  /\ rbac' = UserInfo(world.service)
  /\ IF rbac'.perms # {} THEN Next1 ELSE Refuse("forbidden")

\* The wildcard on the service reaches every organization, OPA decides for the
\* rest; 500 when the gate that fills rbacInfo has not run.
CheckOrg ==
  /\ Ready /\ Gate = "ManageableOrg" /\ UNCHANGED rbac
  /\ IF ~rbac.set THEN Refuse("uninitialised")
     ELSE IF "*" \in rbac.perms \/ ("email" \in ctx /\ "manages" \in world.facts) THEN Next1
     ELSE Refuse(IF "email" \in ctx THEN "forbidden" ELSE "unauthenticated")

CheckPermission ==
  /\ Ready /\ Gate = "AssignPermission" /\ UNCHANGED rbac
  /\ IF ~rbac.set THEN Refuse("uninitialised")
     ELSE IF rbac.perms \cap {"*", "users:assign_group"} # {} THEN Next1
     ELSE Refuse("forbidden")

\* Mutated form: an unreachable OPA does not stop a request.
OpaFailsOpen == Ready /\ UNCHANGED rbac /\ AsksOpa /\ "email" \in ctx /\ Next1

\* OPA does not answer: getUserInfo is null (503); simulate is null and
\* manageableOrgs is empty, and these two gates answer 403.
OpaFails ==
  /\ Ready /\ UNCHANGED <<rbac, at>>
  /\ \/ AsksOpa /\ "email" \in ctx /\ outcome' = "unavailable"
     \/ Gate = "SuperRole" /\ "email" \in ctx /\ outcome' = "forbidden"
     \/ Gate = "ManageableOrg" /\ rbac.set /\ "*" \notin rbac.perms /\ "email" \in ctx /\ outcome' = "forbidden"

Handle ==
  /\ Ready /\ Gate = "none"
  /\ outcome' = "handled" /\ UNCHANGED <<at, rbac>>

CheckGate ==
  \/ NotAuthenticated \/ CheckSession \/ CheckToken \/ CheckAdmin \/ CheckSuperAdmin
  \/ CheckReviewer \/ CheckRole \/ CheckMfa \/ CheckService \/ CheckOrg
  \/ CheckPermission \/ OpaFails \/ Handle

Next == Change \/ ReviewToken \/ ValidateSession \/ CheckGate

Spec == Init /\ [][Next]_vars

\* Every call of the pipeline settles: a fetch is answered or rejected.
FairSpec == Spec /\ WF_vars(ReviewToken \/ ValidateSession \/ CheckGate)

------------------------------------------------------------------------------
(* Properties. *)

\* That gate g let the request through on the strength of something that was
\* true of this caller, or of the service s, at some moment of the request.
Evidence(g, s) ==
  CASE g = "Session"          -> held.facts \cap {"session", "machine"} # {} /\ cred # {}
    [] g = "Scim"             -> "scimToken" \in held.facts
    [] g = "Secret"           -> "secret" \in held.facts
    [] g = "Admin"            -> held.facts \cap {"admin", "super"} # {}
    [] g = "SuperGroup"       -> held.facts \cap {"super", "superadmins"} # {}
    [] g = "SuperRole"        -> "superRole" \in held.facts
    [] g = "RecentMfa"        -> held.facts \cap {"aal2"} # {} /\ "cookie" \in cred
    [] g = "ServiceAdmin"     -> \E p \in Permissions : <<s, p>> \in held.perms
    [] g = "ManageableOrg"    -> "manages" \in held.facts \/ <<s, "*">> \in held.perms
    [] g = "AssignPermission" -> \E p \in {"*", "users:assign_group"} : <<s, p>> \in held.perms
    [] g = "ReviewerOrAdmin"  -> held.facts \cap {"reviewer", "admin", "super"} # {}

\* The handler runs only if every gate of the route has evidence, and all the
\* gates of an organization's route for one and the same service that the
\* organization was mapped to: no failed call, no change between two gates and
\* no copy left by an earlier gate opens the route (requireAdmin to
\* requireManageableOrg, each of which fails closed by itself).
HandledIsAuthorised ==
  outcome = "handled" =>
    \E s \in held.services : \A i \in 1..Len(gates) : Evidence(gates[i], s)

\* A gate that reads request.rbacInfo finds it filled on every route: the 500
\* "Authorization context not initialized" of requireManageableOrg and of
\* requireServicePermission is never answered.
NeverUninitialised == outcome # "uninitialised"

\* Every request ends, in its handler or with an answer of the gate that stopped
\* it, as long as each call settles: no gate waits for another and none returns
\* without having answered or let the request on.
EveryRequestAnswered == <>(outcome # "open")

\* requireSuperAdmin is "More restrictive than requireAdmin" (middleware/
\* require-admin.ts:203): whoever it lets through is in a group that requireAdmin
\* accepts as well.
MoreRestrictive ==
  outcome = "handled" /\ (\E i \in 1..Len(gates) : gates[i] = "SuperGroup")
    => held.facts \cap {"admin", "super"} # {}
==============================================================================
