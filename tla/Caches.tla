------------------------------- MODULE Caches -------------------------------
(***************************************************************************)
(* What jinbe derives from the directory (Kratos) and from the registry    *)
(* (Redis), and keeps: the bindings of all identities and the access       *)
(* review, in the memory of each replica; the OPA bundle, in the memory of *)
(* each replica under an etag all replicas share; the directory counts, in *)
(* Redis.  Data is abstracted to versions: reg and dir count the writes,   *)
(* and a derived value is the pair of versions it was computed from.       *)
(*                                                                         *)
(* A mutation is the list of the steps its handler takes, in their order.  *)
(* A refresh or a request for the bundle reads its inputs one at a time,   *)
(* while mutations, other refreshes and crashes go on.                     *)
(***************************************************************************)
EXTENDS Naturals, Sequences

CONSTANTS
  Replicas,    \* the jinbe processes
  Writers,     \* administrators' and provisioners' requests, one each at a time
  Clients,     \* the OPA processes that poll the bundle
  ReviewAt,    \* the replicas asked for the access review
  StatsAt,     \* the replicas asked for the directory counts
  Kinds,       \* the mutations considered, a subset of DOMAIN Steps
  MaxWrites,   \* bound: mutations
  MaxCrashes,  \* bound: crashes of a replica and restarts of a client
  None

VARIABLES
  reg, dir,     \* versions of the registry and of the directory
  etag,         \* rbac:bundle:etag, 0 while the key is absent
  stats,        \* rbac:stats
  bindings,     \* bindings[r]: the cached walk of the directory
  review,       \* review[r]: the cached access review
  epoch,        \* epoch[r]: the review's generation
  statsEpoch,   \* statsEpoch[r]: the generation of the counts
  bundle,       \* bundle[r]: the cached bundle and its etag
  write,        \* write[w]: the mutation in progress, at which replica
  task,         \* task[t]: the request or refresh in progress
  opa,          \* opa[c]: the bundle client c has loaded
  writes, crashes,
  mark,         \* history: mark[e], the registry when the e-th etag was set
  busted,       \* history: busted[r], the registry when r last dropped it
  counted       \* history: the directory when the counts were last dropped

shared == <<reg, dir, etag, stats>>
caches == <<bindings, review, epoch, statsEpoch, bundle>>
history == <<mark, busted, counted>>
vars == <<reg, dir, etag, stats, bindings, review, epoch, statsEpoch, bundle,
          write, task, opa, writes, crashes, mark, busted, counted>>

Reviews == {"review"} \X ReviewAt
Counts == {"stats"} \X StatsAt
Tasks == Clients \cup Reviews \cup Counts

Derived == [reg : Nat, dir : Nat]
NoTask == [pc |-> "idle", at |-> None, stamp |-> 0, reg |-> None, dir |-> None,
           walk |-> None]
NoWrite == [at |-> None, todo |-> <<>>]

(***************************************************************************)
(* The mutations.  "registry" stands for the operations of rbacService,    *)
(* "groups" for user-group, metadata and organization changes, "delete"    *)
(* for AdminController.deleteUser, "state" for createUser and              *)
(* setUserState, "scim" for the provisioner's writes and "recert" for the  *)
(* groups a recertification revokes: these last two tell no one.  Dropping *)
(* the review follows the new etag without a pause; the counts are deleted *)
(* without anyone waiting for it.                                          *)
(***************************************************************************)
InvalidateBundle == <<"etag", "bust", "uncount">>
Steps ==
  [registry |-> <<"registry">> \o InvalidateBundle,
   groups   |-> <<"directory", "drop">> \o InvalidateBundle,
   delete   |-> <<"drop", "directory">> \o InvalidateBundle,
   state    |-> <<"directory", "generation", "uncount", "bust">>,
   scim     |-> <<"directory", "drop">>,
   recert   |-> <<"directory", "drop">>]

StepNames == {"registry", "directory", "drop", "etag", "bust", "generation",
              "uncount"}

ASSUME CachesAssumption ==
  /\ ReviewAt \subseteq Replicas /\ StatsAt \subseteq Replicas
  /\ MaxWrites \in Nat /\ MaxCrashes \in Nat /\ Kinds \subseteq DOMAIN Steps
  /\ Clients \cap (Reviews \cup Counts) = {}
  /\ None \notin Nat /\ None \notin Replicas
  /\ None \notin [reg : Nat, dir : Nat]
  /\ None \notin [etag : Nat, reg : Nat, dir : Nat]

Init ==
  /\ reg = 0 /\ dir = 0 /\ etag = 0 /\ stats = None /\ writes = 0 /\ crashes = 0
  /\ bindings = [r \in Replicas |-> None]
  /\ review = [r \in Replicas |-> None]
  /\ epoch = [r \in Replicas |-> 0]
  /\ statsEpoch = [r \in Replicas |-> 0]
  /\ bundle = [r \in Replicas |-> None]
  /\ write = [w \in Writers |-> NoWrite]
  /\ task = [t \in Tasks |-> NoTask]
  /\ opa = [c \in Clients |-> None]
  /\ mark = <<>>
  /\ busted = [r \in Replicas |-> 0]
  /\ counted = 0

-----------------------------------------------------------------------------
(* Mutations *)

BeginWrite(w, r, kind) ==
  /\ writes < MaxWrites /\ write[w] = NoWrite
  /\ writes' = writes + 1
  /\ write' = [write EXCEPT ![w] = [at |-> r, todo |-> Steps[kind]]]
  /\ UNCHANGED <<shared, caches, task, opa, crashes, history>>

Rest(w) == IF Len(write[w].todo) = 1 THEN NoWrite
           ELSE [write[w] EXCEPT !.todo = Tail(@)]

\* The next step of w's mutation is this one, and is taken.
Does(w, step) ==
  /\ write[w].todo # <<>> /\ Head(write[w].todo) = step
  /\ write' = [write EXCEPT ![w] = Rest(w)]
  /\ UNCHANGED <<task, opa, writes, crashes>>

WriteRegistry(w) ==
  /\ Does(w, "registry")
  /\ reg' = reg + 1
  /\ UNCHANGED <<dir, etag, stats, caches, history>>

WriteDirectory(w) ==
  /\ Does(w, "directory")
  /\ dir' = dir + 1
  /\ UNCHANGED <<reg, etag, stats, caches, history>>

\* invalidateGroupsCache
DropBindings(w) ==
  /\ Does(w, "drop")
  /\ bindings' = [bindings EXCEPT ![write[w].at] = None]
  /\ UNCHANGED <<shared, review, epoch, statsEpoch, bundle, history>>

\* invalidateBundleEtag: a value no one has seen before.
NewEtag(w) ==
  /\ Does(w, "etag")
  /\ etag' = etag + 1
  /\ mark' = Append(mark, reg)
  /\ UNCHANGED <<reg, dir, stats, caches, busted, counted>>

\* accessReviewService.invalidate
Bust(w) ==
  LET r == write[w].at IN
  /\ Does(w, "bust")
  /\ epoch' = [epoch EXCEPT ![r] = @ + 1]
  /\ review' = [review EXCEPT ![r] = None]
  /\ busted' = [busted EXCEPT ![r] = reg]
  /\ UNCHANGED <<shared, bindings, statsEpoch, bundle, mark, counted>>

\* The first, unpaused half of invalidateDirectoryStats.
NewGeneration(w) ==
  LET r == write[w].at IN
  /\ Does(w, "generation")
  /\ statsEpoch' = [statsEpoch EXCEPT ![r] = @ + 1]
  /\ bindings' = [bindings EXCEPT ![r] = None]
  /\ UNCHANGED <<shared, review, epoch, bundle, history>>

DropStats(w) ==
  /\ Does(w, "uncount")
  /\ stats' = None
  /\ counted' = dir
  /\ UNCHANGED <<reg, dir, etag, caches, mark, busted>>

WriteStep(w) ==
  \/ WriteRegistry(w) \/ WriteDirectory(w) \/ DropBindings(w) \/ NewEtag(w)
  \/ Bust(w) \/ NewGeneration(w) \/ DropStats(w)

-----------------------------------------------------------------------------
(* Reading the inputs: the registry, and the bindings from the cache or by *)
(* a walk that stores what it saw when it ends.                            *)

Reading(r, stamp) ==
  [pc |-> "reading", at |-> r, stamp |-> stamp, reg |-> None,
   dir |-> bindings[r], walk |-> None]

ReadRegistry(t) ==
  /\ task[t].pc = "reading" /\ task[t].reg = None
  /\ task' = [task EXCEPT ![t].reg = reg]
  /\ UNCHANGED <<shared, caches, write, opa, writes, crashes, history>>

Walk(t) ==
  /\ task[t].pc = "reading" /\ task[t].dir = None /\ task[t].walk = None
  /\ task' = [task EXCEPT ![t].walk = dir]
  /\ UNCHANGED <<shared, caches, write, opa, writes, crashes, history>>

WalkEnds(t) ==
  /\ task[t].walk # None
  /\ bindings' = [bindings EXCEPT ![task[t].at] = task[t].walk]
  /\ task' = [task EXCEPT ![t].dir = task[t].walk, ![t].walk = None]
  /\ UNCHANGED <<shared, review, epoch, statsEpoch, bundle, write, opa,
                 writes, crashes, history>>

\* Kratos does not answer: the bundle is built without members (version 0),
\* a review or a count is given up.
WalkFails(t) ==
  /\ task[t].pc = "reading" /\ task[t].dir = None
  /\ task' = [task EXCEPT ![t] =
                IF t \in Clients THEN [@ EXCEPT !.dir = 0, !.walk = None]
                ELSE NoTask]
  /\ UNCHANGED <<shared, caches, write, opa, writes, crashes, history>>

Inputs(t) == [reg |-> task[t].reg, dir |-> task[t].dir]
HasInputs(t) ==
  task[t].pc = "reading" /\ task[t].reg # None /\ task[t].dir # None

\* CACHE_TTL_MS has passed.
Expire(r) ==
  /\ bindings[r] # None
  /\ bindings' = [bindings EXCEPT ![r] = None]
  /\ UNCHANGED <<shared, review, epoch, statsEpoch, bundle, write, task, opa,
                 writes, crashes, history>>

-----------------------------------------------------------------------------
(* The OPA bundle *)

\* getBundle reads the etag first.
ReadEtag(c, r) ==
  /\ task[c].pc = "idle"
  /\ task' = [task EXCEPT ![c] = [NoTask EXCEPT !.pc = "etag", !.at = r,
                                               !.stamp = etag]]
  /\ UNCHANGED <<shared, caches, write, opa, writes, crashes, history>>

Holds(b, e) == e # 0 /\ b # None /\ b.etag = e

NotModified(c) ==
  /\ task[c].pc = "etag" /\ Holds(opa[c], task[c].stamp)
  /\ task' = [task EXCEPT ![c] = NoTask]
  /\ UNCHANGED <<shared, caches, write, opa, writes, crashes, history>>

\* Mutated form: any cached bundle is good enough.
CachedAnyway(c) == bundle[task[c].at] # None

CachedServes(c) == Holds(bundle[task[c].at], task[c].stamp)

ServeCached(c) ==
  /\ task[c].pc = "etag" /\ ~Holds(opa[c], task[c].stamp)
  /\ CachedServes(c)
  /\ opa' = [opa EXCEPT ![c] = bundle[task[c].at]]
  /\ task' = [task EXCEPT ![c] = NoTask]
  /\ UNCHANGED <<shared, caches, write, writes, crashes, history>>

Build(c) ==
  /\ task[c].pc = "etag" /\ ~Holds(opa[c], task[c].stamp)
  /\ ~CachedServes(c)
  /\ task' = [task EXCEPT ![c] = Reading(@.at, @.stamp)]
  /\ UNCHANGED <<shared, caches, write, opa, writes, crashes, history>>

\* Mutated form: the etag is read when the bundle is ready.
LabelledLate(c) ==
  [etag |-> etag, reg |-> task[c].reg, dir |-> task[c].dir]
\* Mutated form: no etag is made up while the key is absent.
LabelledRaw(c) ==
  [etag |-> IF task[c].stamp = 0 THEN None ELSE task[c].stamp,
   reg |-> task[c].reg, dir |-> task[c].dir]

Labelled(c) ==
  [etag |-> task[c].stamp, reg |-> task[c].reg, dir |-> task[c].dir]

Built(c) ==
  /\ HasInputs(c)
  /\ bundle' = [bundle EXCEPT ![task[c].at] = Labelled(c)]
  /\ opa' = [opa EXCEPT ![c] = Labelled(c)]
  /\ task' = [task EXCEPT ![c] = NoTask]
  /\ UNCHANGED <<shared, bindings, review, epoch, statsEpoch, write, writes,
                 crashes, history>>

-----------------------------------------------------------------------------
(* The access review and the directory counts: refreshes, one of each at a *)
(* time in a replica, whose result is kept if the generation did not move. *)

Refresh(t) ==
  LET r == t[2] IN
  /\ task[t].pc = "idle"
  /\ task' = [task EXCEPT ![t] =
                Reading(r, IF t \in Reviews THEN epoch[r] ELSE statsEpoch[r])]
  /\ UNCHANGED <<shared, caches, write, opa, writes, crashes, history>>

\* Mutated form: the refresh does not look at the generation.
KeepsAlways(t) == TRUE

KeepsReview(t) == epoch[t[2]] = task[t].stamp

Reviewed(t) ==
  /\ HasInputs(t)
  /\ review' = IF KeepsReview(t) THEN [review EXCEPT ![t[2]] = Inputs(t)]
               ELSE review
  /\ task' = [task EXCEPT ![t] = NoTask]
  /\ UNCHANGED <<shared, bindings, epoch, statsEpoch, bundle, write, opa,
                 writes, crashes, history>>

Counted(t) ==
  /\ HasInputs(t)
  /\ stats' = IF statsEpoch[t[2]] = task[t].stamp THEN Inputs(t) ELSE stats
  /\ task' = [task EXCEPT ![t] = NoTask]
  /\ UNCHANGED <<reg, dir, etag, caches, write, opa, writes, crashes, history>>

-----------------------------------------------------------------------------
\* A replica restarts: its memory and what it was doing are gone.
Crash(r) ==
  /\ crashes < MaxCrashes
  /\ crashes' = crashes + 1
  /\ bindings' = [bindings EXCEPT ![r] = None]
  /\ review' = [review EXCEPT ![r] = None]
  /\ epoch' = [epoch EXCEPT ![r] = 0]
  /\ statsEpoch' = [statsEpoch EXCEPT ![r] = 0]
  /\ bundle' = [bundle EXCEPT ![r] = None]
  /\ write' = [w \in Writers |->
                 IF write[w].at = r THEN NoWrite ELSE write[w]]
  /\ task' = [t \in Tasks |-> IF task[t].at = r THEN NoTask ELSE task[t]]
  /\ UNCHANGED <<shared, opa, writes, history>>

\* An OPA process restarts between two polls: it has no bundle and no etag.
Restart(c) ==
  /\ crashes < MaxCrashes /\ task[c].pc = "idle" /\ opa[c] # None
  /\ crashes' = crashes + 1
  /\ opa' = [opa EXCEPT ![c] = None]
  /\ UNCHANGED <<shared, caches, write, task, writes, history>>

Next ==
  \/ \E w \in Writers, r \in Replicas, k \in Kinds : BeginWrite(w, r, k)
  \/ \E w \in Writers : WriteStep(w)
  \/ \E t \in Tasks : \/ ReadRegistry(t) \/ Walk(t) \/ WalkEnds(t)
                      \/ WalkFails(t)
  \/ \E c \in Clients, r \in Replicas : ReadEtag(c, r)
  \/ \E c \in Clients : \/ NotModified(c) \/ ServeCached(c) \/ Build(c)
                        \/ Built(c) \/ Restart(c)
  \/ \E t \in Reviews \cup Counts : Refresh(t)
  \/ \E t \in Reviews : Reviewed(t)
  \/ \E t \in Counts : Counted(t)
  \/ \E r \in Replicas : Expire(r) \/ Crash(r)

Spec == Init /\ [][Next]_vars

\* OPA polls on its interval, and a request in progress ends one way or the
\* other: the clients of Kratos and Redis time out.
Fairness ==
  /\ \A c \in Clients :
       /\ WF_vars(\E r \in Replicas : ReadEtag(c, r))
       /\ WF_vars(NotModified(c) \/ ServeCached(c) \/ Build(c) \/ Built(c))
       /\ WF_vars(ReadRegistry(c))
       /\ WF_vars(WalkEnds(c) \/ WalkFails(c))
  /\ \A w \in Writers : WF_vars(WriteStep(w))

FairSpec == Spec /\ Fairness

-----------------------------------------------------------------------------
(* Properties *)

Labels == [etag : Nat, reg : Nat, dir : Nat]
Task == [pc : {"idle", "etag", "reading"}, at : Replicas \cup {None},
         stamp : Nat, reg : Nat \cup {None}, dir : Nat \cup {None},
         walk : Nat \cup {None}]
Write == [at : Replicas \cup {None}, todo : Seq(StepNames)]

TypeOK ==
  /\ reg \in Nat /\ dir \in Nat /\ etag \in Nat
  /\ writes \in Nat /\ crashes \in Nat
  /\ stats \in Derived \cup {None}
  /\ bindings \in [Replicas -> Nat \cup {None}]
  /\ review \in [Replicas -> Derived \cup {None}]
  /\ epoch \in [Replicas -> Nat] /\ statsEpoch \in [Replicas -> Nat]
  /\ bundle \in [Replicas -> Labels \cup {None}]
  /\ opa \in [Clients -> Labels \cup {None}]
  /\ write \in [Writers -> Write]
  /\ task \in [Tasks -> Task]

\* The registry version that etag e announces.
Announced(e) == IF e = 0 THEN 0 ELSE mark[e]

\* A bundle labelled with an etag contains every registry write made before
\* that etag was set: a policy engine that holds the current etag, and is told
\* 304 Not Modified from then on, is never left with an older registry.
BundleCoversEtag ==
  /\ \A r \in Replicas :
       bundle[r] # None => bundle[r].reg >= Announced(bundle[r].etag)
  /\ \A c \in Clients : opa[c] # None => opa[c].reg >= Announced(opa[c].etag)

\* No replica serves an access review computed from a registry older than the
\* last mutation that invalidated the review there.
ReviewIsCurrent ==
  \A r \in Replicas : review[r] # None => review[r].reg >= busted[r]

\* Every OPA process ends up with a bundle at least as recent as the last etag
\* that was set, whatever replicas it asked and whichever crashed meanwhile.
OpaCatchesUp ==
  \A c \in Clients :
    <>[](opa[c] # None /\ opa[c].reg >= Announced(etag))

\* What rbac.service.ts says of invalidateDirectoryStats: a refresh that read
\* the directory before a mutation does not publish its counts.
StatsAreCurrent == stats # None => stats.dir >= counted

\* What user-groups.service.ts says of a lost notification: OPA is stale until
\* its next poll, so that the inconsistency with Kratos is bounded.
MembershipReachesOpa ==
  \A c \in Clients : <>[](opa[c] # None /\ opa[c].dir = dir)

=============================================================================
