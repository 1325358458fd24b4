------------------------------ MODULE Registry ------------------------------
(***************************************************************************)
(* The RBAC registry in Redis: services with their roles, route maps and   *)
(* Oathkeeper rules, and the groups that bind services to roles.           *)
(*                                                                         *)
(* Nothing is transactional.  An operation is a script of single Redis     *)
(* writes (Steps), any of which may fail, and a crash may come between any *)
(* two.  The rules are one JSON array under one key and a group is one     *)
(* hash field, so both are changed by read-modify-write: in a withRedisLock*)
(* section for the rules and for the bindings a service operation changes, *)
(* without any lock for the edits of a group.                              *)
(*                                                                         *)
(* Of a role set or a route map only its presence is kept; of a rule, who  *)
(* wrote it last; of a group, the services it binds.                       *)
(***************************************************************************)
EXTENDS Naturals, Sequences

CONSTANTS
  Workers,          \* requests in flight
  NoOne,
  Services,
  SystemServices,   \* metadata system: true
  Groups,
  SystemGroups,     \* metadata system: true
  DefaultGroups,    \* the keys of DEFAULT_GROUP_SERVICE_ROLES
  Requests,         \* the requests that are made
  MaxRequests       \* a bound on their number

VARIABLES
  registry,   \* rbac:services
  roles,      \* the services with a key rbac:roles:<service>
  routes,     \* the services with a key rbac:route_map:<service>
  rules,      \* rbac:oathkeeper:rules, by rule id
  groups,     \* the fields of rbac:groups
  binds,      \* <<g, s>>: the definition of g has a key s
  lock,       \* who holds rbac:lock:groups and rbac:lock:oathkeeper:rules
  st,         \* st[w]: where w stands
  req,        \* req[w]: what w was asked
  at,         \* at[w]: the step of its script that w is at
  snap,       \* snap[w]: what w read at the start of its critical section
  left,       \* left[w]: the writes its critical section has yet to make
  tainted,    \* workers in a critical section whose snapshot is not protected
  shared,     \* workers that overlapped with another one on the same data
  raced,      \* services on which two operations have overlapped
  quota       \* requests yet to come

store  == <<registry, roles, routes, rules, groups, binds>>
local  == <<req, at, snap, left>>
ghosts == <<tainted, shared, raced>>
vars   == <<store, lock, st, local, ghosts, quota>>

-----------------------------------------------------------------------------
(* Requests and their scripts.                                             *)

RuleIds == Services \X {"main", "health"}   \* <service> and <service>-health

\* createAt: createService with a matchUrl of its own, which gets no health
\* rule.  repair: getServiceRoles of a service without roles.
ServiceOps == {"create", "createAt", "delete", "config", "routes", "roles", "repair"}
RuleOps    == {"addRule", "putRule", "dropRule"}
GroupOps   == {"newGroup", "putGroup", "dropGroup"}

ServiceRequest == [op : ServiceOps, svc : Services]
RuleRequest    == [op : RuleOps, rule : RuleIds]
GroupRequest   == [op : GroupOps, group : Groups, binds : SUBSET Services]

ASSUME RegistryAssumption ==
  /\ NoOne \notin Workers
  /\ SystemServices \subseteq Services
  /\ SystemGroups \subseteq Groups /\ DefaultGroups \subseteq Groups
  /\ MaxRequests \in Nat
  /\ Requests \subseteq ServiceRequest \cup RuleRequest \cup GroupRequest

Creates == {"create", "createAt"}

\* The bug of a deletion that starts with the registry: what a failure leaves
\* behind cannot be deleted any more.
DeleteRegistryFirst == <<"registry", "groups", "main", "health", "roles", "routes">>

\* The bug of a deletion that forgets the second rule of a default service.
DeleteWithoutHealth == <<"groups", "main", "roles", "routes", "registry">>

\* What deleteService writes, in the order it writes it.
DeleteSteps == <<"groups", "main", "health", "roles", "routes", "registry">>

Steps(op) ==
  CASE op = "create"   -> <<"registry", "roles", "routes", "main", "health", "groups">>
    [] op = "createAt" -> <<"registry", "roles", "routes", "main", "groups">>
    [] op = "delete"   -> DeleteSteps
    [] op = "config"   -> <<"main">>
    [] op = "routes"   -> <<"routes">>
    [] op \in {"roles", "repair"} -> <<"roles">>
    [] op \in RuleOps  -> <<"rule">>
    [] op \in GroupOps -> <<"group">>

Op(w)   == req[w].op
Step(w) == Steps(Op(w))[at[w]]

\* The rule a step changes.
Rule(w) == IF Op(w) \in RuleOps THEN req[w].rule ELSE <<req[w].svc, Step(w)>>

\* The services whose roles, routes and rules a request may change.
Target(r) == IF r.op \in ServiceOps THEN {r.svc}
             ELSE IF r.op \in RuleOps THEN {r.rule[1]} ELSE {}

\* Two requests that work on the same data: on one service, or one on a group
\* that the other binds or unbinds.
Overlap(r, q) ==
  \/ Target(r) \cap Target(q) # {}
  \/ r.op \in GroupOps /\ q.op \in GroupOps \cup Creates \cup {"delete"}
  \/ q.op \in GroupOps /\ r.op \in Creates \cup {"delete"}

Active == {w \in Workers : st[w] \in {"run", "inside"}}

-----------------------------------------------------------------------------
NoSnap == [rules |-> [i \in RuleIds |-> "none"], groups |-> {}, binds |-> {}]

TypeOK ==
  /\ registry \in SUBSET Services /\ roles \in SUBSET Services /\ routes \in SUBSET Services
  /\ rules \in [RuleIds -> {"none", "made", "edited", "custom"}]
  /\ groups \in SUBSET Groups /\ binds \in SUBSET (groups \X Services)
  /\ lock \in [{"groups", "rules"} -> Workers \cup {NoOne}]
  /\ st \in [Workers -> {"idle", "run", "inside", "done", "failed", "crashed"}]
  /\ req \in [Workers -> Requests] /\ at \in [Workers -> 1..6]
  /\ \A w \in Workers : snap[w].groups \in SUBSET Groups /\ snap[w].binds \in SUBSET (Groups \X Services)
  /\ \A w \in Workers : left[w] \in (SUBSET RuleIds) \cup (SUBSET snap[w].groups)
  /\ tainted \in SUBSET Workers /\ shared \in SUBSET Workers /\ raced \in SUBSET Services
  /\ quota \in 0..MaxRequests

\* Any number of services has been created before.
Init ==
  /\ registry \in SUBSET Services
  /\ roles = registry /\ routes = registry
  /\ rules = [i \in RuleIds |-> IF i[1] \in registry THEN "made" ELSE "none"]
  /\ groups = Groups /\ binds = DefaultGroups \X registry
  /\ lock = [l \in {"groups", "rules"} |-> NoOne]
  /\ st = [w \in Workers |-> "idle"]
  /\ \E r \in Requests : req = [w \in Workers |-> r]
  /\ at = [w \in Workers |-> 1]
  /\ snap = [w \in Workers |-> NoSnap]
  /\ left = [w \in Workers |-> {}]
  /\ tainted = {} /\ shared = {} /\ raced = {}
  /\ quota = MaxRequests

Become(w, s) == st' = [st EXCEPT ![w] = s]

\* On to the next step, or the end of the script.
Advance(w) ==
  IF at[w] < Len(Steps(Op(w)))
    THEN at' = [at EXCEPT ![w] = @ + 1] /\ Become(w, "run")
    ELSE UNCHANGED at /\ Become(w, "done")

\* The bug of a creation that swallows every error.
SwallowsAll(w) == Op(w) \in Creates

\* createService swallows whatever addAccessRule throws.
Swallows(w) == Op(w) \in Creates /\ Step(w) \in {"main", "health"}

\* A step throws: the operation ends where it is.
Throw(w) == IF Swallows(w) THEN Advance(w) ELSE Become(w, "failed") /\ UNCHANGED at

-----------------------------------------------------------------------------
\* The checks before the first write (404, 409, system resource); the access
\* rules are checked under the lock.
Admissible(r) ==
  CASE r.op \in Creates   -> r.svc \notin registry
    [] r.op = "delete"    -> r.svc \in registry \ SystemServices
    [] r.op = "repair"    -> r.svc \in registry \ roles
    [] r.op \in {"config", "routes", "roles"} -> r.svc \in registry
    [] r.op \in RuleOps   -> TRUE
    [] r.op = "newGroup"  -> r.group \notin groups
    [] r.op = "putGroup"  -> r.group \in groups
    [] r.op = "dropGroup" -> r.group \in groups \ SystemGroups

\* A request arrives and passes its checks; one that does not changes nothing.
\* A worker whose request is over stands for the next one, once no lock can be
\* taken for its own.
Begin(w, r) ==
  /\ st[w] \in {"idle", "done", "failed", "crashed"}
  /\ \A l \in {"groups", "rules"} : lock[l] # w
  /\ Admissible(r)
  /\ quota > 0 /\ quota' = quota - 1
  /\ req' = [req EXCEPT ![w] = r]
  /\ at' = [at EXCEPT ![w] = 1]
  /\ Become(w, "run")
  /\ LET others == {v \in Active : Overlap(r, req[v]) \/ v \in tainted}
     IN /\ shared' = (shared \ {w}) \cup others \cup {v \in {w} : others # {}}
        /\ raced' = raced \cup (Target(r) \cap UNION {Target(req[v]) : v \in others})
  /\ UNCHANGED <<store, lock, snap, left, tainted>>

\* Set members, keys and hash fields that are written without being read.
Toggle(w, set) == IF Op(w) = "delete" THEN set \ {req[w].svc} ELSE set \cup {req[w].svc}

WriteService(w) ==
  /\ st[w] = "run"
  /\ \/ Step(w) = "registry" /\ registry' = Toggle(w, registry) /\ UNCHANGED <<roles, routes>>
     \/ Step(w) = "roles"    /\ roles' = Toggle(w, roles) /\ UNCHANGED <<registry, routes>>
     \/ Step(w) = "routes"   /\ routes' = Toggle(w, routes) /\ UNCHANGED <<registry, roles>>
  /\ Advance(w)
  /\ UNCHANGED <<rules, groups, binds, lock, req, snap, left, ghosts, quota>>

\* createGroup, updateGroup and deleteGroup take no lock: those who have read
\* the groups under it no longer know what they replace.
EditGroup(w) ==
  /\ st[w] = "run" /\ Step(w) = "group"
  /\ LET g == req[w].group
         others == {b \in binds : b[1] # g}
     IN IF Op(w) = "dropGroup"
          THEN groups' = groups \ {g} /\ binds' = others
          ELSE groups' = groups \cup {g} /\ binds' = others \cup ({g} \X req[w].binds)
  /\ tainted' = tainted \cup {v \in Workers : st[v] = "inside" /\ Step(v) = "groups"}
  /\ Advance(w)
  /\ UNCHANGED <<registry, roles, routes, rules, lock, req, snap, left, shared, raced, quota>>

-----------------------------------------------------------------------------
(* The critical sections.  Taking the lock and reading are one action: what*)
(* comes between them might as well have come before.                      *)

Lock(w) == IF Step(w) = "groups" THEN "groups" ELSE "rules"

\* The bug of binding the default groups whether or not they exist.
AffectedBlindly(w) ==
  IF Op(w) = "delete" THEN {g \in groups : <<g, req[w].svc>> \in binds} ELSE DefaultGroups

\* The groups whose definition a service operation writes back.
Affected(w) ==
  IF Op(w) = "delete" THEN {g \in groups : <<g, req[w].svc>> \in binds}
                      ELSE groups \cap DefaultGroups

\* What a section makes of its rule, "same" when it writes nothing.
NewRule(w) ==
  LET was == rules[Rule(w)]
  IN CASE Op(w) \in Creates /\ was = "none"              -> "made"
       [] Op(w) = "addRule" /\ was = "none"              -> "custom"
       [] Op(w) = "putRule" /\ was # "none"              -> "custom"
       [] Op(w) = "config"  /\ was # "none"              -> "edited"
       [] Op(w) \in {"delete", "dropRule"} /\ was # "none" -> "none"
       [] OTHER                                          -> "same"

\* The bug of a section that does not wait for the lock.
EnterAnyway(w) ==
  /\ st[w] = "run" /\ Step(w) \in {"main", "health", "rule", "groups"}
  /\ lock' = [lock EXCEPT ![Lock(w)] = w]
  /\ \/ /\ Step(w) = "groups"
        /\ snap' = [snap EXCEPT ![w] = [NoSnap EXCEPT !.groups = groups, !.binds = binds]]
        /\ left' = [left EXCEPT ![w] = Affected(w)]
     \/ /\ Step(w) # "groups"
        /\ snap' = [snap EXCEPT ![w] = [NoSnap EXCEPT !.rules =
                                          [rules EXCEPT ![Rule(w)] = IF NewRule(w) = "same" THEN @ ELSE NewRule(w)]]]
        /\ left' = [left EXCEPT ![w] = IF NewRule(w) = "same" THEN {} ELSE {Rule(w)}]
  /\ Become(w, "inside")
  /\ UNCHANGED <<store, req, at, ghosts, quota>>

Enter(w) ==
  /\ st[w] = "run" /\ Step(w) \in {"main", "health", "rule", "groups"}
  /\ lock[Lock(w)] = NoOne
  /\ lock' = [lock EXCEPT ![Lock(w)] = w]
  /\ \/ /\ Step(w) = "groups"
        /\ snap' = [snap EXCEPT ![w] = [NoSnap EXCEPT !.groups = groups, !.binds = binds]]
        /\ left' = [left EXCEPT ![w] = Affected(w)]
     \/ /\ Step(w) # "groups"
        /\ snap' = [snap EXCEPT ![w] = [NoSnap EXCEPT !.rules =
                                          [rules EXCEPT ![Rule(w)] = IF NewRule(w) = "same" THEN @ ELSE NewRule(w)]]]
        /\ left' = [left EXCEPT ![w] = IF NewRule(w) = "same" THEN {} ELSE {Rule(w)}]
  /\ Become(w, "inside")
  /\ UNCHANGED <<store, req, at, ghosts, quota>>

\* A write by a worker that has lost its lease spoils what others have read.
Spoiled(w) ==
  IF w \in tainted THEN {v \in Workers : st[v] = "inside" /\ Lock(v) = Lock(w)} ELSE {}

WriteRules(w) ==
  /\ st[w] = "inside" /\ Lock(w) = "rules" /\ left[w] # {}
  /\ rules' = snap[w].rules
  /\ left' = [left EXCEPT ![w] = {}]
  /\ tainted' = tainted \cup Spoiled(w)
  /\ UNCHANGED <<registry, roles, routes, groups, binds, lock, st, req, at, snap, shared, raced, quota>>

\* One setGroup of the loop, with the definition that was read.
WriteGroup(w) ==
  /\ st[w] = "inside" /\ Lock(w) = "groups"
  /\ \E g \in left[w] :
       LET read == {b[2] : b \in {b \in snap[w].binds : b[1] = g}}
       IN /\ groups' = groups \cup {g}
          /\ binds' = {b \in binds : b[1] # g} \cup ({g} \X Toggle(w, read))
          /\ left' = [left EXCEPT ![w] = @ \ {g}]
  /\ tainted' = tainted \cup Spoiled(w)
  /\ UNCHANGED <<registry, roles, routes, rules, lock, st, req, at, snap, shared, raced, quota>>

Unlock(w) == lock' = [lock EXCEPT ![Lock(w)] = IF @ = w THEN NoOne ELSE @]

Leave(w) ==
  /\ st[w] = "inside" /\ left[w] = {}
  /\ Unlock(w)
  /\ tainted' = tainted \ {w}
  /\ Advance(w)
  /\ UNCHANGED <<store, req, snap, left, shared, raced, quota>>

\* 503: the lock could not be had in time.
Busy(w) ==
  /\ st[w] = "run" /\ Step(w) \in {"main", "health", "rule", "groups"}
  /\ lock[Lock(w)] # NoOne
  /\ Throw(w)
  /\ UNCHANGED <<store, lock, req, snap, left, ghosts, quota>>

\* A Redis command errors, or an authority check refuses a group edit.
Fail(w) ==
  /\ \/ st[w] = "run" /\ UNCHANGED lock
     \/ st[w] = "inside" /\ Unlock(w)
  /\ Throw(w)
  /\ left' = [left EXCEPT ![w] = {}]
  /\ tainted' = tainted \ {w}
  /\ UNCHANGED <<store, req, snap, shared, raced, quota>>

Crash(w) ==
  /\ st[w] \in {"run", "inside"}
  /\ Become(w, "crashed")
  /\ tainted' = tainted \ {w}
  /\ UNCHANGED <<store, lock, local, shared, raced, quota>>

\* The TTL of a lock runs out, under a dead holder or under a live one.
Lapse(w, l) ==
  /\ lock[l] = w
  /\ lock' = [lock EXCEPT ![l] = NoOne]
  /\ IF st[w] = "inside"
       THEN /\ tainted' = tainted \cup {w}
            /\ shared' = shared \cup Active
            /\ raced' = Services
       ELSE UNCHANGED ghosts
  /\ UNCHANGED <<store, st, local, quota>>

Next ==
  \E w \in Workers :
    \/ \E r \in Requests : Begin(w, r)
    \/ WriteService(w) \/ EditGroup(w)
    \/ Enter(w) \/ WriteRules(w) \/ WriteGroup(w) \/ Leave(w)
    \/ Busy(w) \/ Fail(w) \/ Crash(w)
    \/ \E l \in {"groups", "rules"} : Lapse(w, l)

Spec == Init /\ [][Next]_vars

-----------------------------------------------------------------------------
(* Properties.                                                             *)

\* w makes a write of its critical section in this step.
Writes(w) == st[w] = "inside" /\ st'[w] = "inside" /\ left'[w] # left[w]

\* "otherwise two concurrent admins each read the same array and the last SET
\* clobbers the other's rule": under a live lease the rewrite of the whole
\* array changes the rule of the request and no other.
RuleWritesTouchOne ==
  [][\A w \in Workers \ tainted : Writes(w) /\ Lock(w) = "rules" =>
       \A i \in RuleIds : rules'[i] # rules[i] => i = Rule(w)]_vars

\* createService and deleteService change the bindings of their own service and
\* create no group, unless the lease lapsed or a group edit came in between.
ServiceOpsTouchOwn ==
  [][\A w \in Workers \ tainted : Writes(w) /\ Lock(w) = "groups" =>
       /\ groups' = groups
       /\ \A b \in binds' \cup binds : (b \in binds) # (b \in binds') => b[2] = req[w].svc]_vars

\* "(or a concurrent group edit) ... Serialize the whole read+write under the
\* `groups` lock": the comment's claim, for a worker that has the lock.
GroupEditsStand ==
  [][\A w \in Workers : Writes(w) /\ lock["groups"] = w =>
       /\ groups' = groups
       /\ \A b \in binds' \cup binds : (b \in binds) # (b \in binds') => b[2] = req[w].svc]_vars

\* Whatever a creation or a deletion leaves behind when it fails or the process
\* dies, the service is still registered, and so it can be deleted again.  Only
\* overlapping operations on one service can break this.
RemainsAreRegistered ==
  \A s \in Services \ raced :
    \/ s \in roles \cup routes
    \/ \E i \in RuleIds : i[1] = s /\ rules[i] \in {"made", "edited"}
    => s \in registry

\* w has answered 200 in this step, and shared its data with nobody.
Succeeds(w) == w \notin shared /\ st[w] # "done" /\ st'[w] = "done"

\* "created with roles, routes": a service that was created by an operation
\* that overlapped no other on its data has them, and every default group that
\* exists binds it.
CreateIsComplete ==
  [][\A w \in Workers : Succeeds(w) /\ Op(w) \in Creates =>
       /\ req[w].svc \in registry' \cap roles' \cap routes'
       /\ (groups' \cap DefaultGroups) \X {req[w].svc} \subseteq binds']_vars

\* A deletion that overlapped no other operation on its data leaves nothing of
\* the service behind, whatever state earlier failures had left it in.
DeleteIsComplete ==
  [][\A w \in Workers : Succeeds(w) /\ Op(w) = "delete" =>
       /\ req[w].svc \notin registry' \cup roles' \cup routes'
       /\ \A i \in RuleIds : i[1] = req[w].svc => rules'[i] = "none"
       /\ \A b \in binds' : b[2] # req[w].svc]_vars

\* "created with roles, routes, and oathkeeper rules".
CreatedIsRouted ==
  [][\A w \in Workers : Succeeds(w) /\ Op(w) \in Creates =>
       rules'[<<req[w].svc, "main">>] # "none"]_vars
=============================================================================
