# Formal models of Jinbe

Jinbe is the control plane of an RBAC system: a Fastify server in TypeScript that
edits users (in Ory Kratos), services, roles, routes, access rules and groups (in
Redis), and publishes them to OPA and Oathkeeper, which decide on requests. This
directory holds TLA+ models of its stateful parts, the TLC configurations that check
them and TLAPS proofs about the models. Paths below are relative to `src/src/`.

Run `tlc -config X.cfg MCModule` for a run of the table below and `tlapm X_proofs.tla`
for a proof.

## 1. Inventory

Neither Kratos nor the use Jinbe makes of Redis is transactional. Kratos has no
compare-and-swap: an identity is read, merged and PUT back whole. Redis is used one
command at a time. Several replicas may run. What order there is comes from one helper,
`withRedisLock`, and from the order in which operations make their writes. So the hard
behaviours are the same everywhere: read-modify-write beside another writer that takes
another lock or none, a lease that runs out under its holder, and a sequence of writes
that stops half way.

| component | state | operations | what makes it correct |
|---|---|---|---|
| Redis lock (`services/redis-lock.ts`) | one key per name: token and TTL | acquire by polling `SET NX PX`, run the function, release by compare-and-delete | live critical sections exclude each other; a call is answered; a dead holder is reaped |
| Group membership (`services/user-groups.service.ts`, `services/kratos.service.ts`, the two user controllers, `services/scim.service.ts`) | `metadata_admin.groups` and `state` of an identity | gated replacement, cleanup of a deleted group, recertification revoke, metadata edits, SCIM, state toggles | the gates are evaluated on what is overwritten; nobody gains or loses a group without the authority asked for |
| Recertification (`services/recert.service.ts`, `services/redis-recert.repository.ts`) | campaign, items, inboxes, frozen reports | create, activate, decide, close, delete | a decision stands; an item tells the truth about the membership; the report is frozen and true |
| Recertification scheduler (`services/recert-scheduler.service.ts`) | claim key | hourly sweep | overdue campaigns get closed |
| Registry (`services/rbac.service.ts`, `services/redis-rbac.repository.ts`) | set of services, a key of roles and one of routes per service, one array of access rules, a hash of groups, metadata, organization map | create, configure and delete a service, edit routes, roles, rules and groups | writers of shared values do not lose each other's changes; what a failure leaves behind is repairable |
| Caches (`kratos.service.ts` bindings, `rbac.service.ts` statistics, `access-review.service.ts`, `opa-bundle.service.ts`) | process-local or Redis copies with TTL, epoch or etag | read, background refresh, invalidate | a bundle contains what its etag announces; nothing read before an invalidation is kept after it |
| Outbox (`services/notifications/notifier.ts`) | Redis stream, consumer group | emit, read, fan out, acknowledge, reclaim, dismiss | every notifier accepts an event unless it gets too old or is trimmed; nothing stays pending for ever |
| Bootstrap (`bootstrap/`) | lock, marker, seeded data | first run, upgrade, drift, no-op, reset | what the marker vouches for is there; the operator's data is kept |
| Bundle (`services/rbac-bundle.service.ts`, backup scheduler and store) | the whole registry, a bounded history of snapshots, `latest.json` | export, import, roll back, back up, restore | an import leaves what it says; as long as it may have written, there is a snapshot of what was before |
| Tokens (`services/scim-token.service.ts`, `services/k8s-token-review.service.ts`) | token records, cached reviews | mint, verify, touch, revoke | what is revoked stays revoked |
| Request authorization (`middleware/`, `services/opa.service.ts`, the hooks in `routes/`) | what a request carries from gate to gate | identify, check | no handler runs without evidence for each gate of its route; every request is answered |
| Audit and realtime | capped Redis streams, subscribers | emit, publish | never blocks an operation |

How they interact. The controllers call `userGroupsService.applyGroupUpdate`, which runs
under `user-groups:<email>` and calls `kratosService`; `rbacService.deleteGroup` cascades
into `kratosService.removeGroupFromAllUsers` under the same lock; `recertService` writes
the same identities under its own lock `recert:<id>`. `rbacService` works on the registry
under `groups` and `oathkeeper:rules` or under no lock. Every mutation drops the caches,
pushes to OPAL, emits audit and notification events, none of which the caller waits for
or is failed by. The sweep calls `closeCampaign`. The bootstrap job, an import and the API write
the same registry; the job may itself import the latest backup. OPA pulls the bundle with
the etag it holds.

The hazards this leaves, each at its line with the properties that cover it, are in
`PROJECT.json`.

## 2. Modules

    LeaseMutex        what withRedisLock promises                 (abstract)
      ^ implemented by
    RedisLock         withRedisLock, one lock name                RedisLock_proofs, MCRedisLock
      ^ its owner's view (acquire, busy, release, lapse) is used in
    UserGroups        the writers of one user's groups            UserGroups_proofs, MCUserGroups
    Recert            one campaign, its requests and the sweep    Recert_proofs, MCRecert
    Registry          services, rules and groups                  Registry_proofs, MCRegistry
    Caches            bindings, counts, review and OPA bundle     Caches_proofs, MCCaches
    Bundle            export, import, rollback, backup            Bootstrap_proofs
      ^ extended, with its imports beside the job, by
    Bootstrap         the bootstrap job                           Bootstrap_proofs, MCBootstrap
    AtLeastOnce       what the outbox promises                    (abstract)
      ^ implemented by
    Outbox            the notification stream and its loops       Outbox_proofs, MCOutbox
    Access            a request on its way through the gates      Authorization_proofs
      ^ instantiated with the chains of
    Routes            the routes and their gates                  MCAccess
    Power             what a group is worth (operators)           Authorization_proofs

A worker (writer, handler, request) has a program counter and its local variables; each
action is one Redis or Kratos call with the code that follows it up to the next call. So
every await is a point where others may run, where the process may die and where a lock
may expire. Reads that only compute are merged with the step that follows them where
nothing another worker does can tell the difference. Audit, realtime, OPAL and
notification calls are not awaited and never read back; they are left out.

Operators described as "the bug of ..." are the broken forms of the definition below
them. No specification uses them; each shows that some property depends on the line it
breaks (section 6).

### RedisLock
`owner` and `ttl` are the key, `lease[c]` is what is left of the lease that `c` set,
`wait` and `nap` are the deadline and the retry sleep; `Tick` lets time pass for all.
All are "time left", so nothing grows. Faults: the reply of the `SET` is lost, the `EVAL`
fails on the client and is run by Redis later or never (`stray`), the process dies. A
member of `Callers` is a `randomUUID` token; `NewToken` reuses it for another call only
when Redis can hold nothing of it any more.

`LeaseMutex` has one variable and no clock. `Stage` maps the program counter and the lease
to it: in the critical section a call is *inside* under a live lease and *overrun* after it.

### UserGroups
One identity (`identity`: groups and active) and all the code that writes it, in five
roles: appliers (`applyGroupUpdate`), cleaners (`removeGroupFromAllUsers`), reviewers
(`recertService.removeGroupMembership`), editors (`setUserMetadata`, `updateUser`, SCIM),
toggles (`setUserState`, the organization's `updateUser`). The first two take the lock.
Identities share nothing but group definitions, so one is enough. The definitions are
constants that the proofs leave arbitrary: which groups have administrative or global
power, which are system groups, whether the base group is empty. An actor is what the
gates can see of one: endpoint, the groups OPA's `can_grant` answers for, super_admin,
freshness of the second factor. Authority does not change during a request.

Two ghosts. `tainted`: locked writers whose pre-image is no longer protected, since their
lease lapsed or a writer without protection has written under them. `held`: every group the
user ever had. They say exactly which exceptions the properties make; the two violation
runs show that the exceptions happen.

### Recert
One campaign. A handler is one request, a sweeper a replica's cron job. An item is a
membership and the activation that generated it, since each activation draws new ids.
Decision and outcome are one value, and closing leaves the decision pending, as the code
does. The race of one membership's read and write with other writers is UserGroups'
subject, so `Strip` is one step here; its reply may still be lost. The ghosts `raced` (a
lease lapsed under a live holder, or a deletion ran beside a locked operation) and
`stripped` (the memberships the campaign removed or found removed) appear in properties.

### Registry
An operation is a script (`Steps`): the Redis writes of the method in their order. Steps
under a lock are sections: `Enter` takes the lock and reads, `WriteRules`/`WriteGroup`
write what was read back, changed, `Leave` releases. Of a rule it matters who wrote it
last, of a group which services it binds, of roles and routes whether they are there.
Ghosts: `tainted` (sections whose snapshot is no longer protected), `shared` (operations
that overlapped another one on the same data), `raced` (services where that happened).
Metadata is a constant (`SystemServices`, `SystemGroups`); default role sets, URLs and
sign-in chains are data. A worker starts another request once its previous one is over.

### Caches
All that a derived value can tell apart is which write of the registry and which of the
directory it was computed from, so both are counters (`reg`, `dir`) and a value is a pair.
A mutation is a list of steps in the order of its handler (`Steps`): the write, the etag, the
drops. They are not uniform: `deleteUser` drops the bindings before it deletes, the SCIM
provisioner and a recertification tell nobody. A task is a request for the bundle or a
refresh of the review or the counts; it reads the registry and the directory separately, and
a walk over the directory stores what it saw when it ends, however much later. `Expire` is the
TTL of the bindings, `Crash` a restart of one replica, `Restart` one of an OPA process, which
has no bundle then. `mark`, `busted` and `counted` are
histories: the registry at each etag, the registry or directory at the last drop.

### Bundle and Bootstrap
The registry is one record; an import, a rollback, a restore or a backup is a process with
the stages of `applyBundle` in their order (`Stages`), each key one write. A throw turns to the
snapshot; a second one, or a death, leaves what is there. The bootstrap job works
off a list of steps (`FirstRun`, `Upsert`), and a step that depends on what is there is two:
`Look` and `Do`. So another writer may come in between, and the job may die anywhere. Its
restore is the import of Bundle. Groups, roles and rules stand for what their seeders write; of
the three services with delegation two are there. Ghosts: `touched` (imports beside which
somebody else wrote), `cut` (a seed whose only check is its first write was cut off, or an
import wrote beside the job).

Two properties say less than one might expect of an import, since the code does. `RestorePointKept` ends
with the cap of the history (`IMPORT_HISTORY_CAP`): a push evicts the oldest snapshot whatever became of
the import that made it, so a snapshot is promised only while no more than `HistoryCap` imports may have pushed
(`Beyond`). And `RestoreIsExact` says of a service that the bundle does not list that its keys are gone or
are those the bundle itself has for it: `applyBundle` writes the roles and route maps of the bundle key by
key without looking at its list of services.

### Outbox and AtLeastOnce
An event is its position in the stream; a listing or a batch is the set of its entries, which the
loop works off oldest first (`Heads`), as both commands return them in the order of the stream. `idle` is the pending list of the
consumer group. All replicas read as the consumer `worker-1`, so nothing in Redis tells them
apart but the idle time. A notifier may accept an event although its answer is an error.
Trimming is approximate (`MAXLEN ~`): any number beyond the limit may stay. The
refinement maps the pending list and the unread part of the stream to the one set `pending`.

### Access and Routes
`Routes` lists each route of the server with the gates its plugin, its own hooks and its handler
run, in order; `Access` is one request that meets one such chain. `world` is what is true of
the caller and changes while the request is checked, `ctx` and `rbac` are the copies that
the request object carries, `held` is the history of what was true at some moment. The policy
is external: OPA answers with the world of that moment, or not at all. The assumption on the chains
(`WellOrdered`: `ManageableOrg` and `AssignPermission` come after `ServiceAdmin`, and no other
gate replaces what that one stored) is evaluated by TLC on the routes of the code.

### Power
No state: the predicates of `rbacService`, the counts, the access review, the resolver and
the impact preview are operators on a registry and on the groups of a user. They judge the same
things in code of their own; only theorems say that they agree. A definition keeps which scopes
it names, with or without roles, because the parts differ there: `CountedServices` counts a
scope named with no role, `Reached` does not. Grant paths, scores, enrichment (audit, second
factor) and the cap of the sample are left out.

## 3. Runs

| run | question | size |
|---|---|---|
| `RedisLock` | does the lock implement LeaseMutex, does it protect a live lease, is every call answered and every dead holder reaped? | 3 callers, TTL 2, wait 1, retry 1; 31 thousand states |
| `UserGroups` | do the gates hold for writers with the lock? | 2 appliers, 1 cleaner, 3 groups, 3 actors; 0.95 million |
| `UserGroupsMixed` | do they hold beside writers without it? | 1 applier, reviewer, editor and toggle; 0.28 million |
| `Recert` | do decisions, items, inboxes and the report agree? | 3 requests, 2 users and memberships, 2 activations, 1 fault; 1.24 million |
| `RecertSweep` | is an overdue campaign closed in the end? | 2 requests, 1 replica, 1 membership, 1 fault; 0.59 million |
| `Registry` | do operations on the registry leave each other's data and what they should? | 2 workers, 3 requests, 2 services, 1 group; 1.0 million |
| `CachesBundle` | does OPA get, under each etag, what the etag announces, and in the end the latest? | 2 replicas, 1 client, 2 mutations of 4 kinds, 1 crash; 1.51 million |
| `CachesReview` | is a review or a count computed before a mutation kept after it? | 1 replica, 2 mutations of 3 kinds, both refreshes; 0.27 million |
| `Outbox` | does the outbox deliver at least once, one worker per claim, and never keep an event for ever? | 2 replicas, 2 events, 2 transports, 1 fault; 0.51 million |
| `Access` | does a handler run without evidence for a gate, on any route? | all chains of `Routes`, 8 kinds of callers, 2 changes during the request; 0.51 million |
| `Bootstrap` | what do the job, imports and edits leave, with deaths in between? | 2 runs, 1 import, 1 edit, 1 fault, 3 of these altogether, 3 initial worlds; 1.46 million |
| `CachesMembership` | does a new membership reach OPA? | counterexample, section 5 |

What the passing runs show, beyond the titles: `PreimageHolds` is the comment of
`applyGroupUpdate` ("makes the pre-image authoritative") as far as it is true;
`NoUnauthorisedGrant` and `NoUngatedStrip` are what it is for; `ReportTruthful` holds
although the report is built from a second read; `OutcomeApplied` holds although Kratos
and Redis are written in two steps; `RemainsAreRegistered` is the reason `deleteService`
deregisters last and `createService` registers first; `RuleWritesTouchOne` and
`ServiceOpsTouchOwn` are what the locks #7 and #8 of the comments are for.
`BundleCoversEtag` and `OpaCatchesUp` hold because the etag is read before the data and set
after the write, in every interleaving with other replicas; `ReviewIsCurrent` because the
generation is compared. `RestorePointKept` is why the snapshot is pushed before the first
write. `MarkedIsSeeded` shows that seeders which look at each thing they write (`seedDelegation`,
the merges of rules and routes) survive any death, and its exception `cut` which ones do not.
`HandledIsAuthorised` is end to end: a handler of an organization's route runs only if all gates
had evidence for one and the same service the organization was mapped to.

### Bounds
- Time: a TTL of two ticks against a wait of one keeps the code's order (10 s > 5 s > 50 ms)
  and lets a lease outlive a deadline or the reverse happen to a late caller. The proofs
  assume nothing of the sizes.
- Three callers: one that overran, one that owns the key, one that waits.
- One identity, three groups: base, one that the organization's administrator may grant, one
  that this administrator may not (in the second world `org_admins`). Each gate is open and shut for
  some actor and group.
- `MaxBatches` = 2 activations, `MaxFaults` = 1 process death or Redis error (a failed Kratos
  call is not a fault and is unbounded). Three requests allow two
  decisions on one item beside a close.
- `MaxRequests` = 3 with two at a time: leave something half done, then run two operations
  on it, or overlap two and delete afterwards. The requests of `MCRegistry` are creations with and without a
  health rule, and one representative of each other operation. One default group suffices for
  lost bindings, since groups are separate hash fields.
- `MaxWrites` = 2 mutations: the one that invalidates, and one more whose steps interleave with
  the first one's. A replica that builds and one that serves is all a client can meet. The
  proofs have no bound.
- `Batch` = 2 with two events: a batch with an event behind the one that is slow; `Claim` = 1
  tick and `MaxAge` = 1 keep their order (30 s, then hours); `MaxLen` = 1 lets the
  stream trim what is pending.
- `MaxChanges` = 2: a chain has at most two gates that ask about the same fact. The proofs have
  no bound.
- `MaxImports`, `MaxEdits`, `MaxFaults` = 1 each and `MaxEvents` = 3 altogether; `HistoryCap` = 2
  stands for the cap of the history; `Overlap` = FALSE has no client's import beside a run of the job,
  while edits and the job's own import do run beside it. Two runs: one that
  dies or fails, and one that must make up for it, or finds the lock. All properties but
  `MarkedIsSeeded` are proved without these bounds.

`SYMMETRY` permutes interchangeable workers only (and in `Recert` users together with their
memberships); it is used in runs without liveness properties. `VIEW` drops locals that no
later step reads (a worker that is finished keeps its old request, for instance). Every
guard and every property reads dropped values only of workers for which they are
shown. The ghosts dropped for finished workers are reset or final. Invariants and
step properties of the runs with a view depend on what the view keeps. `RecertSweep` uses
neither.

`CHECK_DEADLOCK FALSE` everywhere: requests may all be over.

### Fairness
`RedisLock`: time passes, and a call that polls goes on polling. Nothing says that the function
settles, that a release arrives or that a process lives. `Recert`: an operation that was begun
goes on to its next call (weak fairness per worker, whatever that call answers), Redis
expires keys, the cron fires. No request has to arrive, and no call has to succeed. Both follow
from the event loop, from `PX` and from `node-cron`; crashes stay possible and are not fair.
`Caches`: OPA polls, and a mutation or a request in progress goes on; a walk ends or fails. `Outbox`:
time passes, and each replica's loop takes its next step, whatever the answer; a process that
died is started again by Kubernetes. No notifier ever has to accept anything. `Access`:
each call of the pipeline settles. The other modules state no fairness and have no liveness property.

## 4. Proofs

`RedisLock_proofs`, `UserGroups_proofs`, `Recert_proofs`, `Registry_proofs`, `Caches_proofs`,
`Outbox_proofs`, `Bootstrap_proofs` (for `Bundle` and `Bootstrap`) and `Authorization_proofs` (for `Access` and
`Power`) prove, for every value of the constants under the named assumptions of the modules (the sentinel is
not a worker, roles are disjoint, TTL and retry are positive, the stream keeps at least one entry, chains are
well ordered, the groups, services and roles that the seeds name exist, initial worlds, uploads and edits are
well formed). TLC evaluates each assumption on the constants of the runs.

- `RedisLock`: type correctness, `OwnerKeepsLock`, `KeyIsALease`, and that it implements
  `LeaseMutex`. None of the invariants is inductive by itself. A late release may run at any
  time, so `LockInv` adds that only finished calls have one outstanding (`StrayIsOver`); and
  the key of a live lease stays its owner's because the key's TTL *is* the lease of the token
  it holds (`KeyIsALease`), so a key that expires takes its lease along. The refinement maps
  the initial state, then each step: ticks to a run of overruns (at most one call is inside, so
  one step), polls that fail to stuttering, the rest one to one. `Enter` is the interesting case:
  the key is free, so by `OwnerKeepsLock` nobody is inside.
- `UserGroups`: type correctness, `PreimageHolds`, `NoUnauthorisedGrant`, `NoUngatedStrip`.
  The invariant `IInv` is TypeOK and: untainted locked writers past their acquisition hold the
  lock (`HoldsLock`), hence there is one; its pre-image is the membership (`PreimageHolds`); what
  it will write has passed the gates against that pre-image (`GatePassed`); a dropping
  writer's list is contained in what it read, or the base group (`DropsOnly`); everything ever read had
  been held (`RemembersHeld`). The step properties follow in `Put`: additions against the current
  membership are additions against the pre-image for an untainted writer, and for a tainted
  one a further addition was in the pre-image and so held before.

- `Recert`: all its safety properties. `OutcomeApplied` needs no lock, only that a worker about to record
  such an outcome has seen the membership go (`Earned`), which rests on which operation may be at which
  stage (`Roles`: the consequence of the deadline does not change once there are requests). The others
  hold `Quiet`ly, as long as nobody has run past a lease or beside a deletion: whoever is in a section holds
  the lock, so at most one is, and what it has read stays true until it is done (`Section`: the
  campaign's status, the items it decides or closes are pending, those it keeps are approved); a
  report exists only of a completed campaign, whose items nobody writes any more (`Frozen`), a draft has no
  decided items to delete (`Undecided`), and the next activation uses new items (`Unborn`).
- `Registry`: type correctness, `RuleWritesTouchOne`, `ServiceOpsTouchOwn`, `RemainsAreRegistered`,
  `CreateIsComplete`, `DeleteIsComplete`.
  `Typed` adds to TypeOK that nobody is beyond the end of its script. For the two step properties
  the invariant says of an untainted section that it holds its lock (`HoldsLock`), and that what it
  will write back is what is there, but for its own rule (`RulesKnown`) or for the groups it has
  yet to write (`GroupsKnown`); a write that would falsify this for another one comes from a tainted worker,
  whose write taints it. `RemainsAreRegistered` says nothing of the requests under
  way, so `PerService` adds, of a service with one worker on it, how far that worker is: registered
  once past the first step of a creation, and each thing a deletion has passed is gone
  (`Dismantled`), which a section on the rules must promise in advance of its write (`Progress`).
  The two completeness properties are about a worker that shares its data with nobody while it runs. Of it
  `WholeInv` says that it is untainted, that no other worker at work has a request on the same data (`Apart`),
  and how far its script has come: what a creation has stored (`Built`), what a deletion has removed
  (`Cleared`). A step of its own takes it one place further (`OwnStep`); a step of another worker leaves
  its data alone (`Bystander`, `StrangersStep`), or makes the two overlap, and then nothing is claimed.
- `Caches`: type correctness, `BundleCoversEtag`, `ReviewIsCurrent`. The first needs to know of a
  request under way that what it has read so far is at least what its etag announces, which
  stays true because versions only grow and an announcement is never changed (`HistoryGrows`).
  The second needs the same of a refresh whose generation is still that of its replica: then no
  drop has come in between, so what it read is not older than the last one.
- `Outbox`: type correctness, `OneWorkerPerClaim`, and that it implements `AtLeastOnce`. Two replicas are
  apart because the idle time of an entry in work is at most what its owner has had it for (`Kept`):
  whoever claims it again has seen `PENDING_CLAIM_MS` go by since, so the first owner has had it that long;
  and a batch that is read was never delivered before. For the refinement an entry about to be acknowledged
  must have been accepted by every notifier or be too old (`Heard`, which counts the notifiers called so
  far), and an event not yet emitted has age 0 (`Unborn`). `FirstOfIsBounded` and `FirstOfIsDownward` say
  what `COUNT` returns: at most a batch, and nothing before it is left out, so the cursor skips no event.
- `Bundle` with `Bootstrap`: type correctness, `RestoreIsExact`, `RestorePointKept`, `OperatorsWordStands`,
  beside any number of imports, runs, edits and deaths. `Typed` is the shape of each import and run by its stage: which
  of its fields are filled, and that what a stage still has to write lies within what it was to write (`Aim`).
  `Done` says how far a full import beside which nobody wrote has brought the registry: each key is as the bundle
  wants it once its stage has passed it (`Passed`), whether the stage wrote it or found nothing to do. Later
  stages could undo that, and the proof is that none does: `prune` before the keys are dropped,
  the defaults only for services without roles. `Found` says that what an import has read is the registry it
  found, and that its snapshot is in the history, no further down than imports may have pushed
  since; a push moves it one down and puts one more import into `Beyond` (`PushIsOneMore`). Both need to know what any step
  of the system is to one given import: a step of its own, or one that leaves it alone and
  either writes nothing or marks it as touched (`OneOf`, `Stands`). `OperatorsWordStands` needs only that what a run writes
  is computed from what it read (`ResultRespects`, `OnlyDoWrites`).
- `Access`: type correctness, `HandledIsAuthorised`, `NeverUninitialised`, for any set of
  well-ordered chains and any world. The invariant says of a request that each gate behind it has
  evidence in `held`, all gates for one service (`Backed`, with the service at which `rbac` was
  stored as witness), and that `rbac` and `ctx` are copies of something that was held (`Sampled`).
  Evidence only grows, so changes of the world do no harm.

- `Power`: for every registry, the groups the gate of the assignment refuses to give without a
  super_admin are those the dashboard counts as full access and those the review ranks T0 or T1
  (`AdminPowerIsWildcard`, `TierZeroIsGlobal`, `TierOneIsFullAccess`); a further group never
  ranks lower; a group that `isEmptyGroup` lets past the gate adds nothing anywhere; a preview asks
  about each user and each rule whose decision a change can move. Two of them need `Scoped`, that
  a role bound in one scope is not defined stronger in the other: the resolver looks a
  role up in the global map and in the service's, the other parts in the one it is bound in. The
  seeded roles satisfy it, since each `admin` is `*`. Each proof reduces both sides to
  one statement about a group, a scope and a role.

Model-checked only: `MarkedIsSeeded`. It is a claim about an installation and the edits and uploads it
meets, not about every value of the constants: an operator who deletes a seeded group, or uploads a bundle
without it, leaves a marker that vouches for less. Out of the prover's reach: the liveness properties (`EveryCallAnswered`,
`DeadHolderReaped`, `OverdueIsClosed`, `OpaCatchesUp`, `EventuallySettled`, `EveryRequestAnswered`),
ENABLED, and inductions over data.

## 5. What the checks found

`CachesMembership` contradicts a comment of `applyGroupUpdate`: "OPA stays stale until its next poll".
A bundle built from a walk that began before the change, or without members while Kratos is
down, is kept under the current etag and answered 304 until the next mutation anywhere.

The following definitions state what a comment or message of the code says, and TLC refutes each
when it is added to a configuration of its module; `PROJECT.json` quotes the sentence.

| definition | what happens instead |
|---|---|
| `UserGroups!PreimageAuthoritative` | a recertification's revoke takes no lock, so a group update may restore the membership |
| `UserGroups!DeactivationSticks` | a group update that fetched the identity before puts the active state back |
| `Recert!OverdueIsReported` | one deleted user in a campaign with `onExpiry: revoke` leaves it in `closing` for ever |
| `Recert!OneItemPerEntitlement` | a repeated activation makes a second set of items |
| `Registry!GroupEditsStand` | group edits take no lock, a service operation overwrites them |
| `Registry!CreatedIsRouted` | a busy lock on the rules leaves a new service without its rules |
| `Caches!StatsAreCurrent` | `invalidateBundle` drops the counts without a new generation |
| `Bootstrap!LockHeldMeansWorking` | the holder of the lock may be dead for ten minutes |
| `Bundle!SelectivePrunesNothing` | the compensation of a selective import is a full one |
| `Access!MoreRestrictive` | `superadmins` passes `requireSuperAdmin` and not `requireAdmin` |

Met while reading, without a definition: the deletion of a campaign without its lock,
the organization map after a deletion of a service, the spelling of the e-mail in the lock
name, the missing rollback of `createUser` when the group assignment throws, a seed cut off
after its first group, the upgrade of the access rules without their lock, what a full restore
keeps, the authentication of `/metrics`, a role looked up in a scope it was not bound in (the
assumption `Scoped` of Power), a preview of a change of global roles that probes no rule.

## 6. Mutants

For each property of each passing run `PROJECT.json` names a definition and a broken form of
it, under which the property fails in that run: a `SET` without `PX`, a `DEL` without
compare, a gate that forgets removals, an item recorded although Kratos refused, a
deletion that deregisters first, an etag read after the data, a generation nobody compares, a
claim without a minimum idle time, a merge that ignores the operator, and so on.

## 7. Not modelled

The modules stand for about 7,700 of the roughly 24,000 lines of non-test TypeScript.

- The creation and deletion of identities, and the loop of a group deletion over its users: the
  steps for one user are in UserGroups and Caches; joining them with Registry multiplies two
  state spaces that are each near what TLC can do.
- The organization map and the metadata hashes as the API edits them: single fields, written
  whole. Bundle has the map, Bootstrap the metadata.
- Token records, the cache of token reviews and API keys: one hash field or a
  call to Hydra each. Access has what a request sees of them.
- The claim key and the dated copies of the scheduled backup: the pattern of the sweep
  in Recert.
- The editor of the Kratos configuration: one read-modify-write of a file.
- Clusters, databases, backups and jobs (single statements over Prisma; Routes has their
  routes), HTTP plumbing, favicons, OpenAPI import and audit diffs (pure functions), grant paths and scores of the review, the rego
  policy (not in the repository), and the delivery of audit and realtime events, which
  nothing in the modelled parts depends on.
