--------------------------- MODULE Registry_proofs ---------------------------
(***************************************************************************)
(* Proofs about Registry: type correctness, what the locks on the rules    *)
(* and on the groups protect, what failures leave behind, and what an      *)
(* operation that overlaps no other one has done when it answers, for any  *)
(* number of workers, services, groups and requests.                       *)
(***************************************************************************)
EXTENDS Registry, TLAPS

AllOps == ServiceOps \cup RuleOps \cup GroupOps

-----------------------------------------------------------------------------
(* The scripts.                                                            *)

LEMMA ScriptShape ==
  ASSUME NEW op \in AllOps
  PROVE  /\ Len(Steps(op)) \in 1 .. 6
         /\ \A i \in 1 .. Len(Steps(op)) :
              /\ Steps(op)[i] \in {"registry", "roles", "routes", "main", "health"} => op \in ServiceOps
              /\ Steps(op)[i] = "groups" => op \in Creates \cup {"delete"}
              /\ Steps(op)[i] = "rule" => op \in RuleOps
              /\ Steps(op)[i] = "group" => op \in GroupOps
<1>. USE DEF ServiceOps, RuleOps, GroupOps, Creates
<1>1. CASE op = "create"    BY <1>1 DEF Steps
<1>2. CASE op = "createAt"  BY <1>2 DEF Steps
<1>3. CASE op = "delete"    BY <1>3 DEF Steps, DeleteSteps
<1>4. CASE op = "config"    BY <1>4 DEF Steps
<1>5. CASE op = "routes"    BY <1>5 DEF Steps
<1>6. CASE op \in {"roles", "repair"}  BY <1>6 DEF Steps
<1>7. CASE op \in RuleOps   BY <1>7 DEF Steps
<1>8. CASE op \in GroupOps  BY <1>8 DEF Steps
<1>. QED  BY <1>1, <1>2, <1>3, <1>4, <1>5, <1>6, <1>7, <1>8 DEF AllOps

LEMMA RequestShape ==
  ASSUME NEW r \in Requests
  PROVE  /\ r.op \in AllOps
         /\ r.op \in ServiceOps => r.svc \in Services
         /\ r.op \in RuleOps => r.rule \in RuleIds
         /\ r.op \in GroupOps => r.group \in Groups /\ r.binds \subseteq Services
         /\ Target(r) \subseteq Services
<1>1. r \in ServiceRequest \cup RuleRequest \cup GroupRequest  BY RegistryAssumption
<1>. USE DEF ServiceOps, RuleOps, GroupOps, AllOps
<1>2. CASE r \in ServiceRequest  BY <1>2 DEF ServiceRequest, Target
<1>3. CASE r \in RuleRequest     BY <1>3 DEF RuleRequest, Target, RuleIds
<1>4. CASE r \in GroupRequest    BY <1>4 DEF GroupRequest, Target
<1>. QED  BY <1>1, <1>2, <1>3, <1>4

-----------------------------------------------------------------------------
(* The invariant.                                                          *)

Written == {"none", "made", "edited", "custom"}
Snaps == [rules : [RuleIds -> Written], groups : SUBSET Groups, binds : SUBSET (Groups \X Services)]

\* TypeOK with the domains of the functions, and no worker beyond its script.
Typed ==
  /\ registry \in SUBSET Services /\ roles \in SUBSET Services /\ routes \in SUBSET Services
  /\ rules \in [RuleIds -> Written]
  /\ groups \in SUBSET Groups /\ binds \in SUBSET (groups \X Services)
  /\ lock \in [{"groups", "rules"} -> Workers \cup {NoOne}]
  /\ st \in [Workers -> {"idle", "run", "inside", "done", "failed", "crashed"}]
  /\ req \in [Workers -> Requests] /\ at \in [Workers -> 1..6]
  /\ snap \in [Workers -> Snaps]
  /\ left \in [Workers -> (SUBSET RuleIds) \cup (SUBSET Groups)]
  /\ tainted \in SUBSET Workers /\ shared \in SUBSET Workers /\ raced \in SUBSET Services
  /\ quota \in 0..MaxRequests
  /\ \A w \in Workers : at[w] \in 1 .. Len(Steps(Op(w)))
  /\ \A w \in Workers : left[w] \in (SUBSET RuleIds) \cup (SUBSET snap[w].groups)
  /\ \A w \in Workers : st[w] = "inside" /\ Step(w) = "groups" => left[w] \subseteq Groups

\* Inside a section that nothing has spoilt, a worker holds the lock of it.
HoldsLock ==
  \A w \in Workers \ tainted : st[w] = "inside" => lock[Lock(w)] = w

\* What it will write back of the rules is what is there, but for its own rule.
RulesKnown ==
  \A w \in Workers \ tainted : st[w] = "inside" /\ Lock(w) = "rules" /\ left[w] # {} =>
     \A i \in RuleIds : i # Rule(w) => snap[w].rules[i] = rules[i]

\* Of the groups it has yet to write it knows the definition; they exist.
GroupsKnown ==
  \A w \in Workers \ tainted : st[w] = "inside" /\ Lock(w) = "groups" =>
     /\ left[w] \subseteq groups
     /\ \A b \in Groups \X Services : b[1] \in left[w] => (b \in snap[w].binds <=> b \in binds)

LEMMA TypedImpliesTypeOK == Typed => TypeOK
BY DEF Typed, TypeOK, Snaps, Written

LEMMA InitTyped == Init => Typed
<1>. SUFFICES ASSUME Init PROVE Typed  OBVIOUS
<1>1. RuleIds \subseteq Services \X {"main", "health"}  BY DEF RuleIds
<1>2. NoSnap \in Snaps  BY DEF NoSnap, Snaps, Written
<1>3. \A w \in Workers : req[w] \in Requests  BY DEF Init
<1>4. ASSUME NEW w \in Workers
      PROVE  1 \in 1 .. Len(Steps(req[w].op))
  <2>1. req[w].op \in AllOps  BY <1>3, RequestShape
  <2>. DEFINE n == Len(Steps(req[w].op))
  <2>2. n \in 1 .. 6  BY <2>1, ScriptShape
  <2>. HIDE DEF n
  <2>3. 1 \in 1 .. n  BY <2>2
  <2>. QED  BY <2>3 DEF n
<1>5. rules \in [RuleIds -> Written]  BY DEF Init, Written
<1>6. binds \in SUBSET (groups \X Services)
  BY RegistryAssumption DEF Init
<1>. QED
  BY <1>2, <1>3, <1>4, <1>5, <1>6, RegistryAssumption DEF Init, Typed, Op

\* A step of the script of w in this state is one of the script's.
LEMMA StepShape ==
  ASSUME Typed, NEW w \in Workers
  PROVE  /\ Op(w) \in AllOps /\ Op(w) = req[w].op /\ req[w] \in Requests
         /\ at[w] \in 1 .. Len(Steps(Op(w))) /\ Len(Steps(Op(w))) \in 1 .. 6
         /\ Step(w) \in {"registry", "roles", "routes", "main", "health", "groups"} => req[w].svc \in Services
         /\ Step(w) = "groups" => Op(w) \in Creates \cup {"delete"}
         /\ Step(w) = "group" => Op(w) \in GroupOps /\ req[w].group \in Groups /\ req[w].binds \subseteq Services
         /\ Step(w) \in {"main", "health", "rule"} => Rule(w) \in RuleIds
<1>1. req[w] \in Requests /\ at[w] \in 1 .. Len(Steps(Op(w)))  BY DEF Typed
<1>2. Op(w) = req[w].op /\ Op(w) \in AllOps  BY <1>1, RequestShape DEF Op
<1>3. /\ Step(w) \in {"registry", "roles", "routes", "main", "health"} => Op(w) \in ServiceOps
      /\ Step(w) = "groups" => Op(w) \in Creates \cup {"delete"}
      /\ Step(w) = "rule" => Op(w) \in RuleOps
      /\ Step(w) = "group" => Op(w) \in GroupOps
  BY <1>1, <1>2, ScriptShape DEF Step
<1>4. Creates \cup {"delete"} \subseteq ServiceOps  BY DEF Creates, ServiceOps
<1>5. ServiceOps \cap RuleOps = {}  BY DEF ServiceOps, RuleOps
<1>6. Step(w) \in {"main", "health", "rule"} => Rule(w) \in RuleIds
  <2>1. CASE Step(w) \in {"main", "health"}
    BY <2>1, <1>1, <1>2, <1>3, <1>5, RequestShape DEF Rule, RuleIds
  <2>2. CASE Step(w) = "rule"  BY <2>2, <1>1, <1>2, <1>3, RequestShape DEF Rule
  <2>. QED  BY <2>1, <2>2
<1>. QED  BY <1>1, <1>2, <1>3, <1>4, <1>6, RequestShape, ScriptShape

LEMMA AdvanceTyped ==
  ASSUME Typed, NEW w \in Workers, Advance(w), UNCHANGED req
  PROVE  /\ at' \in [Workers -> 1..6]
         /\ \A v \in Workers : at'[v] \in 1 .. Len(Steps(Op(v)'))
         /\ st' \in [Workers -> {"idle", "run", "inside", "done", "failed", "crashed"}]
         /\ st'[w] \in {"run", "done"}
         /\ \A v \in Workers \ {w} : st'[v] = st[v] /\ at'[v] = at[v]
<1>1. \A v \in Workers : Op(v)' = Op(v)  BY DEF Op
<1>2. \A v \in Workers : at[v] \in 1 .. Len(Steps(Op(v))) /\ Len(Steps(Op(v))) \in 1 .. 6
  BY StepShape
<1>3. at \in [Workers -> 1..6]  BY DEF Typed
<1>4. st \in [Workers -> {"idle", "run", "inside", "done", "failed", "crashed"}]  BY DEF Typed
<1>5. CASE at[w] < Len(Steps(Op(w)))
  <2>1. at' = [at EXCEPT ![w] = @ + 1] /\ st' = [st EXCEPT ![w] = "run"]
    BY <1>5 DEF Advance, Become
  <2>. DEFINE n == Len(Steps(Op(w)))
  <2>a. n \in 1 .. 6 /\ at[w] \in 1 .. n /\ at[w] < n  BY <1>2, <1>5
  <2>. HIDE DEF n
  <2>b. at[w] + 1 \in 1 .. n /\ at[w] + 1 \in 1 .. 6  BY <2>a
  <2>2. at[w] + 1 \in 1 .. Len(Steps(Op(w))) /\ at[w] + 1 \in 1 .. 6  BY <2>b DEF n
  <2>. QED  BY <2>1, <2>2, <1>1, <1>2, <1>3, <1>4
<1>6. CASE ~(at[w] < Len(Steps(Op(w))))
  <2>1. at' = at /\ st' = [st EXCEPT ![w] = "done"]  BY <1>6 DEF Advance, Become
  <2>. QED  BY <2>1, <1>1, <1>2, <1>3, <1>4
<1>. QED  BY <1>5, <1>6

LEMMA ThrowTyped ==
  ASSUME Typed, NEW w \in Workers, Throw(w), UNCHANGED req
  PROVE  /\ at' \in [Workers -> 1..6]
         /\ \A v \in Workers : at'[v] \in 1 .. Len(Steps(Op(v)'))
         /\ st' \in [Workers -> {"idle", "run", "inside", "done", "failed", "crashed"}]
         /\ st'[w] \in {"run", "done", "failed"}
         /\ \A v \in Workers \ {w} : st'[v] = st[v] /\ at'[v] = at[v]
<1>1. CASE Swallows(w)  BY <1>1, AdvanceTyped DEF Throw
<1>2. CASE ~Swallows(w)
  <2>1. at' = at /\ st' = [st EXCEPT ![w] = "failed"]  BY <1>2 DEF Throw, Become
  <2>2. \A v \in Workers : Op(v)' = Op(v)  BY DEF Op
  <2>. QED  BY <2>1, <2>2 DEF Typed
<1>. QED  BY <1>1, <1>2

\* A worker whose request and position stay is in the same section.
LEMMA SameSection ==
  ASSUME NEW v, req'[v] = req[v], at'[v] = at[v]
  PROVE  Op(v)' = Op(v) /\ Step(v)' = Step(v) /\ Lock(v)' = Lock(v) /\ Rule(v)' = Rule(v)
BY DEF Op, Step, Lock, Rule

LEMMA EnteredRules ==
  ASSUME Typed, NEW w \in Workers, Step(w) \in {"main", "health", "rule"}
  PROVE  [rules EXCEPT ![Rule(w)] = IF NewRule(w) = "same" THEN @ ELSE NewRule(w)]
           \in [RuleIds -> Written]
<1>1. NewRule(w) \in Written \cup {"same"}  BY DEF NewRule, Written
<1>2. Rule(w) \in RuleIds /\ rules \in [RuleIds -> Written]  BY StepShape DEF Typed
<1>. QED  BY <1>1, <1>2

\* The workers but w are in the sections they were in.
LEMMA SectionsKept ==
  ASSUME Typed, NEW w,
         \A v \in Workers \ {w} : /\ st'[v] = st[v] /\ req'[v] = req[v] /\ at'[v] = at[v]
                                  /\ left'[v] = left[v],
         st'[w] = "inside" /\ Step(w)' = "groups" => left'[w] \subseteq Groups
  PROVE  \A v \in Workers : st'[v] = "inside" /\ Step(v)' = "groups" => left'[v] \subseteq Groups
<1>. SUFFICES ASSUME NEW v \in Workers, v # w, st'[v] = "inside", Step(v)' = "groups"
              PROVE  left'[v] \subseteq Groups
  OBVIOUS
<1>1. Step(v)' = Step(v)  BY SameSection
<1>. QED  BY <1>1 DEF Typed

-----------------------------------------------------------------------------
(* Types are preserved.                                                    *)

LEMMA StepTyped == Typed /\ [Next]_vars => Typed'
<1>. SUFFICES ASSUME Typed, [Next]_vars PROVE Typed'  OBVIOUS
<1>a. CASE UNCHANGED vars
  <2>1. \A w \in Workers : Op(w)' = Op(w) /\ Step(w)' = Step(w)
    BY <1>a DEF vars, local, Op, Step
  <2>. QED  BY <1>a, <2>1 DEF vars, store, local, ghosts, Typed
<1>b. ASSUME NEW w \in Workers, NEW r \in Requests, Begin(w, r) PROVE Typed'
  <2>1. /\ req' \in [Workers -> Requests] /\ at' \in [Workers -> 1..6]
        /\ req'[w] = r /\ at'[w] = 1
        /\ \A v \in Workers \ {w} : req'[v] = req[v] /\ at'[v] = at[v]
    BY <1>b DEF Begin, Typed
  <2>2. \A v \in Workers : at'[v] \in 1 .. Len(Steps(Op(v)'))
    <3>. SUFFICES ASSUME NEW v \in Workers PROVE at'[v] \in 1 .. Len(Steps(req'[v].op))
      BY DEF Op
    <3>1. CASE v = w
      <4>. DEFINE n == Len(Steps(r.op))
      <4>1. n \in 1 .. 6  BY RequestShape, ScriptShape
      <4>. HIDE DEF n
      <4>2. 1 \in 1 .. n  BY <4>1
      <4>. QED  BY <4>2, <3>1, <2>1 DEF n
    <3>2. CASE v # w  BY <3>2, <2>1 DEF Typed, Op
    <3>. QED  BY <3>1, <3>2
  <2>3. st' \in [Workers -> {"idle", "run", "inside", "done", "failed", "crashed"}]
    BY <1>b DEF Begin, Become, Typed
  <2>4. shared' \in SUBSET Workers /\ raced' \in SUBSET Services
    <3>1. raced' \subseteq raced \cup Target(r)  BY <1>b DEF Begin
    <3>2. shared' \subseteq shared \cup Workers  BY <1>b DEF Begin, Active
    <3>. QED  BY <3>1, <3>2, RequestShape DEF Typed
  <2>5. quota' \in 0..MaxRequests
    BY <1>b, RegistryAssumption DEF Begin, Typed
  <2>s. \A v \in Workers : st'[v] = "inside" /\ Step(v)' = "groups" => left'[v] \subseteq Groups
    <3>1. st' = [st EXCEPT ![w] = "run"] /\ left' = left  BY <1>b DEF Begin, Become
    <3>2. st'[w] = "run" /\ \A v \in Workers \ {w} : st'[v] = st[v]  BY <3>1 DEF Typed
    <3>. QED  BY <3>1, <3>2, <2>1, SectionsKept
  <2>. QED
    BY <1>b, <2>1, <2>2, <2>3, <2>4, <2>5, <2>s DEF Begin, Typed, store
<1>c. ASSUME NEW w \in Workers, WriteService(w) PROVE Typed'
  <2>1. Advance(w) /\ UNCHANGED req  BY <1>c DEF WriteService
  <2>2. Step(w) \in {"registry", "roles", "routes"}  BY <1>c DEF WriteService
  <2>3. req[w].svc \in Services  BY <2>2, StepShape
  <2>4. /\ registry' \in SUBSET Services /\ roles' \in SUBSET Services /\ routes' \in SUBSET Services
    BY <1>c, <2>3 DEF WriteService, Toggle, Typed
  <2>s. \A v \in Workers : st'[v] = "inside" /\ Step(v)' = "groups" => left'[v] \subseteq Groups
    BY <1>c, <2>1, AdvanceTyped, SectionsKept DEF WriteService
  <2>. QED  BY <1>c, <2>1, <2>4, <2>s, AdvanceTyped DEF WriteService, Typed, ghosts
<1>d. ASSUME NEW w \in Workers, EditGroup(w) PROVE Typed'
  <2>1. Advance(w) /\ UNCHANGED req /\ Step(w) = "group"  BY <1>d DEF EditGroup
  <2>2. req[w].group \in Groups /\ req[w].binds \subseteq Services  BY <2>1, StepShape
  <2>3. groups' \in SUBSET Groups /\ binds' \in SUBSET (groups' \X Services)
    <3>. DEFINE g == req[w].group
    <3>1. binds \subseteq groups \X Services /\ groups \subseteq Groups  BY DEF Typed
    <3>2. CASE Op(w) = "dropGroup"
      <4>1. groups' = groups \ {g} /\ binds' = {b \in binds : b[1] # g}
        BY <1>d, <3>2 DEF EditGroup
      <4>. QED  BY <3>1, <4>1
    <3>3. CASE Op(w) # "dropGroup"
      <4>1. groups' = groups \cup {g}
              /\ binds' = {b \in binds : b[1] # g} \cup ({g} \X req[w].binds)
        BY <1>d, <3>3 DEF EditGroup
      <4>. QED  BY <2>2, <3>1, <4>1
    <3>. QED  BY <3>2, <3>3
  <2>4. tainted' \in SUBSET Workers  BY <1>d DEF EditGroup, Typed
  <2>s. \A v \in Workers : st'[v] = "inside" /\ Step(v)' = "groups" => left'[v] \subseteq Groups
    BY <1>d, <2>1, AdvanceTyped, SectionsKept DEF EditGroup
  <2>. QED  BY <1>d, <2>1, <2>3, <2>4, <2>s, AdvanceTyped DEF EditGroup, Typed
<1>e. ASSUME NEW w \in Workers, Enter(w) PROVE Typed'
  <2>1. lock' \in [{"groups", "rules"} -> Workers \cup {NoOne}]
    BY <1>e DEF Enter, Lock, Typed
  <2>2. st' \in [Workers -> {"idle", "run", "inside", "done", "failed", "crashed"}]
    BY <1>e DEF Enter, Become, Typed
  <2>3. /\ snap' \in [Workers -> Snaps] /\ left' \in [Workers -> (SUBSET RuleIds) \cup (SUBSET Groups)]
        /\ \A v \in Workers : left'[v] \in (SUBSET RuleIds) \cup (SUBSET snap'[v].groups)
    <3>1. CASE Step(w) = "groups"
      <4>1. Affected(w) \subseteq groups  BY DEF Affected
      <4>. DEFINE N == [NoSnap EXCEPT !.groups = groups, !.binds = binds]
      <4>2. N \in Snaps /\ N.groups = groups
        <5>1. NoSnap \in Snaps  BY DEF NoSnap, Snaps, Written
        <5>2. groups \in SUBSET Groups /\ binds \in SUBSET (Groups \X Services)  BY DEF Typed
        <5>. QED  BY <5>1, <5>2 DEF Snaps
      <4>3. snap' = [snap EXCEPT ![w] = N] /\ left' = [left EXCEPT ![w] = Affected(w)]
        BY <1>e, <3>1 DEF Enter
      <4>4. groups \in SUBSET Groups  BY DEF Typed
      <4>. HIDE DEF N
      <4>5. snap' \in [Workers -> Snaps]  BY <4>2, <4>3 DEF Typed
      <4>6. left' \in [Workers -> (SUBSET RuleIds) \cup (SUBSET Groups)]
        <5>1. Affected(w) \in (SUBSET RuleIds) \cup (SUBSET Groups)  BY <4>1, <4>4
        <5>2. left \in [Workers -> (SUBSET RuleIds) \cup (SUBSET Groups)]  BY DEF Typed
        <5>. QED  BY <4>3, <5>1, <5>2
      <4>7. ASSUME NEW v \in Workers
            PROVE  left'[v] \in (SUBSET RuleIds) \cup (SUBSET snap'[v].groups)
        <5>1. CASE v = w
          <6>1. left'[w] = Affected(w) /\ snap'[w] = N  BY <4>3 DEF Typed
          <6>. QED  BY <5>1, <6>1, <4>1, <4>2
        <5>2. CASE v # w
          <6>1. left'[v] = left[v] /\ snap'[v] = snap[v]  BY <4>3, <5>2 DEF Typed
          <6>. QED  BY <6>1 DEF Typed
        <5>. QED  BY <5>1, <5>2
      <4>. QED  BY <4>5, <4>6, <4>7
    <3>2. CASE Step(w) # "groups"
      <4>. DEFINE R == [rules EXCEPT ![Rule(w)] = IF NewRule(w) = "same" THEN @ ELSE NewRule(w)]
      <4>0. Step(w) \in {"main", "health", "rule"}  BY <1>e, <3>2 DEF Enter
      <4>1. R \in [RuleIds -> Written] /\ Rule(w) \in RuleIds  BY <4>0, EnteredRules, StepShape
      <4>2. [NoSnap EXCEPT !.rules = R] \in Snaps  BY <4>1 DEF NoSnap, Snaps
      <4>3. /\ snap' = [snap EXCEPT ![w] = [NoSnap EXCEPT !.rules = R]]
            /\ left' = [left EXCEPT ![w] = IF NewRule(w) = "same" THEN {} ELSE {Rule(w)}]
        BY <1>e, <3>2 DEF Enter
      <4>. HIDE DEF R
      <4>. QED  BY <4>1, <4>2, <4>3 DEF Typed
    <3>. QED  BY <3>1, <3>2
  <2>4. \A v \in Workers : Op(v)' = Op(v)  BY <1>e DEF Enter, Op
  <2>s. \A v \in Workers : st'[v] = "inside" /\ Step(v)' = "groups" => left'[v] \subseteq Groups
    <3>1. /\ UNCHANGED <<req, at>> /\ Step(w)' = Step(w)
          /\ \A v \in Workers \ {w} : st'[v] = st[v] /\ left'[v] = left[v]
      BY <1>e DEF Enter, Become, Typed, Step, Op
    <3>2. Step(w) = "groups" => left'[w] \subseteq Groups
      <4>1. Affected(w) \subseteq groups  BY DEF Affected
      <4>2. Step(w) = "groups" => left'[w] = Affected(w)  BY <1>e DEF Enter, Typed
      <4>. QED  BY <4>1, <4>2 DEF Typed
    <3>. QED  BY <3>1, <3>2, SectionsKept
  <2>. QED  BY <1>e, <2>1, <2>2, <2>3, <2>4, <2>s DEF Enter, Typed, store, ghosts
<1>f. ASSUME NEW w \in Workers, WriteRules(w) PROVE Typed'
  <2>1. rules' \in [RuleIds -> Written]  BY <1>f DEF WriteRules, Typed, Snaps
  <2>2. tainted' \in SUBSET Workers  BY <1>f DEF WriteRules, Spoiled, Typed
  <2>3. left' \in [Workers -> (SUBSET RuleIds) \cup (SUBSET Groups)]
          /\ \A v \in Workers : left'[v] \in (SUBSET RuleIds) \cup (SUBSET snap[v].groups)
    BY <1>f DEF WriteRules, Typed
  <2>4. \A v \in Workers : Op(v)' = Op(v)  BY <1>f DEF WriteRules, Op
  <2>s. \A v \in Workers : st'[v] = "inside" /\ Step(v)' = "groups" => left'[v] \subseteq Groups
    <3>1. /\ UNCHANGED <<req, at, st>> /\ left'[w] = {}
          /\ \A v \in Workers \ {w} : left'[v] = left[v]
      BY <1>f DEF WriteRules, Typed
    <3>. QED  BY <3>1, SectionsKept
  <2>. QED  BY <1>f, <2>1, <2>2, <2>3, <2>4, <2>s DEF WriteRules, Typed
<1>g. ASSUME NEW w \in Workers, WriteGroup(w) PROVE Typed'
  <2>1. PICK g \in left[w] :
          LET read == {b[2] : b \in {b \in snap[w].binds : b[1] = g}}
          IN /\ groups' = groups \cup {g}
             /\ binds' = {b \in binds : b[1] # g} \cup ({g} \X Toggle(w, read))
             /\ left' = [left EXCEPT ![w] = @ \ {g}]
    BY <1>g DEF WriteGroup
  <2>. DEFINE read == {b[2] : b \in {b \in snap[w].binds : b[1] = g}}
  <2>2. Step(w) = "groups"  BY <1>g DEF WriteGroup, Lock
  <2>3. req[w].svc \in Services  BY <2>2, StepShape
  <2>4. snap[w].binds \subseteq Groups \X Services  BY DEF Typed, Snaps
  <2>5. read \subseteq Services  BY <2>4
  <2>6. Toggle(w, read) \subseteq Services  BY <2>3, <2>5 DEF Toggle
  <2>7. g \in Groups /\ left[w] \subseteq Groups  BY <1>g, <2>2 DEF WriteGroup, Typed
  <2>8. groups' \in SUBSET Groups /\ binds' \in SUBSET (groups' \X Services)
    <3>1. binds \subseteq groups \X Services /\ groups \subseteq Groups  BY DEF Typed
    <3>2. groups' = groups \cup {g}
            /\ binds' = {b \in binds : b[1] # g} \cup ({g} \X Toggle(w, read))
      BY <2>1
    <3>. HIDE DEF read
    <3>. QED  BY <2>6, <2>7, <3>1, <3>2
  <2>9. left' = [left EXCEPT ![w] = @ \ {g}]  BY <2>1
  <2>10. left' \in [Workers -> (SUBSET RuleIds) \cup (SUBSET Groups)]
           /\ \A v \in Workers : left'[v] \in (SUBSET RuleIds) \cup (SUBSET snap[v].groups)
    BY <2>9 DEF Typed
  <2>11. tainted' \in SUBSET Workers  BY <1>g DEF WriteGroup, Spoiled, Typed
  <2>12. \A v \in Workers : Op(v)' = Op(v)  BY <1>g DEF WriteGroup, Op
  <2>s. \A v \in Workers : st'[v] = "inside" /\ Step(v)' = "groups" => left'[v] \subseteq Groups
    <3>1. /\ UNCHANGED <<req, at, st>> /\ left'[w] \subseteq Groups
          /\ \A v \in Workers \ {w} : left'[v] = left[v]
      BY <1>g, <2>7, <2>9 DEF WriteGroup, Typed
    <3>. QED  BY <3>1, SectionsKept
  <2>. QED  BY <1>g, <2>8, <2>10, <2>11, <2>12, <2>s DEF WriteGroup, Typed
<1>h. ASSUME NEW w \in Workers, Leave(w) PROVE Typed'
  <2>1. Advance(w) /\ UNCHANGED req /\ UNCHANGED left  BY <1>h DEF Leave
  <2>2. lock' \in [{"groups", "rules"} -> Workers \cup {NoOne}]
    BY <1>h DEF Leave, Unlock, Lock, Typed
  <2>s. \A v \in Workers : st'[v] = "inside" /\ Step(v)' = "groups" => left'[v] \subseteq Groups
    BY <2>1, AdvanceTyped, SectionsKept
  <2>. QED  BY <1>h, <2>1, <2>2, <2>s, AdvanceTyped DEF Leave, Typed, store
<1>i. ASSUME NEW w \in Workers, Busy(w) PROVE Typed'
  <2>1. Throw(w) /\ UNCHANGED req /\ UNCHANGED left  BY <1>i DEF Busy
  <2>s. \A v \in Workers : st'[v] = "inside" /\ Step(v)' = "groups" => left'[v] \subseteq Groups
    BY <2>1, ThrowTyped, SectionsKept
  <2>. QED  BY <1>i, <2>1, <2>s, ThrowTyped DEF Busy, Typed, store, ghosts
<1>j. ASSUME NEW w \in Workers, Fail(w) PROVE Typed'
  <2>1. Throw(w) /\ UNCHANGED req /\ left' = [left EXCEPT ![w] = {}]  BY <1>j DEF Fail
  <2>2. lock' \in [{"groups", "rules"} -> Workers \cup {NoOne}]
    BY <1>j DEF Fail, Unlock, Lock, Typed
  <2>3. left' \in [Workers -> (SUBSET RuleIds) \cup (SUBSET Groups)]
          /\ \A v \in Workers : left'[v] \in (SUBSET RuleIds) \cup (SUBSET snap[v].groups)
    BY <2>1 DEF Typed
  <2>s. \A v \in Workers : st'[v] = "inside" /\ Step(v)' = "groups" => left'[v] \subseteq Groups
    <3>1. left'[w] = {} /\ \A v \in Workers \ {w} : left'[v] = left[v]  BY <2>1 DEF Typed
    <3>. QED  BY <2>1, <3>1, ThrowTyped, SectionsKept
  <2>. QED  BY <1>j, <2>1, <2>2, <2>3, <2>s, ThrowTyped DEF Fail, Typed, store
<1>k. ASSUME NEW w \in Workers, Crash(w) PROVE Typed'
  <2>1. \A v \in Workers : Op(v)' = Op(v)  BY <1>k DEF Crash, local, Op
  <2>s. \A v \in Workers : st'[v] = "inside" /\ Step(v)' = "groups" => left'[v] \subseteq Groups
    BY <1>k, SectionsKept DEF Crash, Become, local, Typed
  <2>. QED  BY <1>k, <2>1, <2>s DEF Crash, Become, Typed, store, local
<1>l. ASSUME NEW w \in Workers, NEW l \in {"groups", "rules"}, Lapse(w, l) PROVE Typed'
  <2>1. \A v \in Workers : Op(v)' = Op(v) /\ Step(v)' = Step(v)
    BY <1>l DEF Lapse, local, Op, Step
  <2>2. lock' \in [{"groups", "rules"} -> Workers \cup {NoOne}]  BY <1>l DEF Lapse, Typed
  <2>3. tainted' \in SUBSET Workers /\ shared' \in SUBSET Workers /\ raced' \in SUBSET Services
    BY <1>l DEF Lapse, ghosts, Active, Typed
  <2>. QED  BY <1>l, <2>1, <2>2, <2>3 DEF Lapse, Typed, store, local
<1>. QED
  BY <1>a, <1>b, <1>c, <1>d, <1>e, <1>f, <1>g, <1>h, <1>i, <1>j, <1>k, <1>l DEF Next

(* Every variable keeps its type, each worker stays within the script of its     *)
(* request, and what a section has yet to write is of the kind the section is    *)
(* for, whatever fails or lapses.                                                *)
THEOREM TypeCorrect == Spec => []TypeOK
<1>1. Spec => []Typed  BY InitTyped, StepTyped, PTL DEF Spec
<1>. QED  BY <1>1, TypedImpliesTypeOK, PTL

-----------------------------------------------------------------------------
(* What the locks protect.                                                 *)

SectionInv == HoldsLock /\ RulesKnown /\ GroupsKnown

LEMMA InitSections == Init => SectionInv
BY DEF Init, SectionInv, HoldsLock, RulesKnown, GroupsKnown

\* The sections a step leaves alone: of workers that stay where they are and
\* stay untainted, while the lock and what they have read stay.
Untouched(v) ==
  /\ v \notin tainted
  /\ st'[v] = st[v] /\ req'[v] = req[v] /\ at'[v] = at[v] /\ snap'[v] = snap[v] /\ left'[v] = left[v]
  /\ lock[Lock(v)] = v => lock'[Lock(v)] = v
  /\ Lock(v) = "rules" => rules' = rules
  /\ Lock(v) = "groups" => groups' = groups /\ binds' = binds

LEMMA OthersKept ==
  ASSUME Typed, SectionInv, NEW w,
         \A v \in Workers \ {w} : v \notin tainted' /\ st'[v] = "inside" => Untouched(v),
         w \notin tainted' /\ w \in Workers /\ st'[w] = "inside"
           => /\ lock'[Lock(w)'] = w
              /\ Lock(w)' = "rules" /\ left'[w] # {}
                   => \A i \in RuleIds : i # Rule(w)' => snap'[w].rules[i] = rules'[i]
              /\ Lock(w)' = "groups"
                   => /\ left'[w] \subseteq groups'
                      /\ \A b \in Groups \X Services :
                           b[1] \in left'[w] => (b \in snap'[w].binds <=> b \in binds')
  PROVE  SectionInv'
<1>1. ASSUME NEW v \in Workers \ {w}, v \notin tainted', st'[v] = "inside"
      PROVE  /\ lock'[Lock(v)'] = v
             /\ Lock(v)' = "rules" /\ left'[v] # {}
                  => \A i \in RuleIds : i # Rule(v)' => snap'[v].rules[i] = rules'[i]
             /\ Lock(v)' = "groups"
                  => /\ left'[v] \subseteq groups'
                     /\ \A b \in Groups \X Services :
                          b[1] \in left'[v] => (b \in snap'[v].binds <=> b \in binds')
  <2>1. Untouched(v)  BY <1>1
  <2>2. Lock(v)' = Lock(v) /\ Rule(v)' = Rule(v)  BY <2>1, SameSection DEF Untouched
  <2>3. v \in Workers \ tainted /\ st[v] = "inside"  BY <1>1, <2>1 DEF Untouched
  <2>4. lock[Lock(v)] = v  BY <2>3 DEF SectionInv, HoldsLock
  <2>5. Lock(v) = "rules" /\ left[v] # {} => \A i \in RuleIds : i # Rule(v) => snap[v].rules[i] = rules[i]
    BY <2>3 DEF SectionInv, RulesKnown
  <2>6. Lock(v) = "groups"
          => /\ left[v] \subseteq groups
             /\ \A b \in Groups \X Services : b[1] \in left[v] => (b \in snap[v].binds <=> b \in binds)
    BY <2>3 DEF SectionInv, GroupsKnown
  <2>. QED  BY <2>1, <2>2, <2>4, <2>5, <2>6 DEF Untouched
<1>2. HoldsLock'  BY <1>1 DEF HoldsLock
<1>3. RulesKnown'  BY <1>1 DEF RulesKnown
<1>4. GroupsKnown'  BY <1>1 DEF GroupsKnown
<1>. QED  BY <1>2, <1>3, <1>4 DEF SectionInv

LEMMA LockNames == \A v : Lock(v) \in {"groups", "rules"}
BY DEF Lock

LEMMA StepSections == Typed /\ SectionInv /\ [Next]_vars => SectionInv'
<1>. SUFFICES ASSUME Typed, SectionInv, [Next]_vars PROVE SectionInv'  OBVIOUS
<1>. USE LockNames
<1>0. \A v \in Workers \ tainted : st[v] = "inside" => lock[Lock(v)] = v /\ v # NoOne
  BY RegistryAssumption DEF SectionInv, HoldsLock
<1>a. CASE UNCHANGED vars
  <2>1. \A v \in Workers \ {NoOne} : v \notin tainted' /\ st'[v] = "inside" => Untouched(v)
    BY <1>a DEF vars, store, local, ghosts, Untouched
  <2>. QED  BY <2>1, OthersKept, RegistryAssumption
<1>b. ASSUME NEW w \in Workers, NEW r \in Requests, Begin(w, r) PROVE SectionInv'
  <2>1. st' = [st EXCEPT ![w] = "run"]  BY <1>b DEF Begin, Become
  <2>2. st'[w] # "inside"  BY <2>1 DEF Typed
  <2>3. \A v \in Workers \ {w} : v \notin tainted' /\ st'[v] = "inside" => Untouched(v)
    BY <1>b, <2>1 DEF Begin, store, Untouched, Typed
  <2>. QED  BY <2>2, <2>3, OthersKept
<1>c. ASSUME NEW w \in Workers, WriteService(w) PROVE SectionInv'
  <2>1. /\ st'[w] # "inside"
        /\ \A v \in Workers \ {w} : st'[v] = st[v] /\ at'[v] = at[v]
    BY <1>c, AdvanceTyped DEF WriteService
  <2>2. \A v \in Workers \ {w} : v \notin tainted' /\ st'[v] = "inside" => Untouched(v)
    BY <1>c, <2>1 DEF WriteService, ghosts, Untouched
  <2>. QED  BY <2>1, <2>2, OthersKept
<1>d. ASSUME NEW w \in Workers, EditGroup(w) PROVE SectionInv'
  <2>1. /\ st'[w] # "inside"
        /\ \A v \in Workers \ {w} : st'[v] = st[v] /\ at'[v] = at[v]
    BY <1>d, AdvanceTyped DEF EditGroup
  <2>2. ASSUME NEW v \in Workers \ {w}, v \notin tainted', st'[v] = "inside"
        PROVE  Untouched(v)
    <3>1. v \notin tainted /\ Lock(v) # "groups"  BY <1>d, <2>1, <2>2 DEF EditGroup, Lock
    <3>. QED  BY <1>d, <2>1, <3>1 DEF EditGroup, Untouched
  <2>. QED  BY <2>1, <2>2, OthersKept
<1>e. ASSUME NEW w \in Workers, Enter(w) PROVE SectionInv'
  <2>1. /\ UNCHANGED <<req, at, rules, groups, binds, tainted>>
        /\ \A v \in Workers \ {w} : st'[v] = st[v] /\ snap'[v] = snap[v] /\ left'[v] = left[v]
    BY <1>e DEF Enter, Become, store, ghosts, Typed
  <2>2. lock[Lock(w)] = NoOne /\ lock'[Lock(w)] = w
          /\ \A l \in {"groups", "rules"} \ {Lock(w)} : lock'[l] = lock[l]
    BY <1>e DEF Enter, Typed
  <2>3. ASSUME NEW v \in Workers \ {w}, v \notin tainted', st'[v] = "inside"
        PROVE  Untouched(v)
    <3>1. lock[Lock(v)] = v /\ v # NoOne  BY <1>0, <2>1, <2>3
    <3>2. Lock(v) # Lock(w)  BY <2>2, <3>1
    <3>. QED  BY <2>1, <2>2, <2>3, <3>2 DEF Untouched
  <2>4. Lock(w)' = Lock(w) /\ Rule(w)' = Rule(w)  BY <2>1, SameSection
  <2>5. Lock(w) = "rules" => \A i \in RuleIds : i # Rule(w) => snap'[w].rules[i] = rules[i]
    <3>. SUFFICES ASSUME Lock(w) = "rules", NEW i \in RuleIds, i # Rule(w)
                  PROVE  snap'[w].rules[i] = rules[i]
      OBVIOUS
    <3>. DEFINE R == [rules EXCEPT ![Rule(w)] = IF NewRule(w) = "same" THEN @ ELSE NewRule(w)]
    <3>1. Step(w) # "groups"  BY DEF Lock
    <3>2. snap' = [snap EXCEPT ![w] = [NoSnap EXCEPT !.rules = R]]  BY <1>e, <3>1 DEF Enter
    <3>3. R[i] = rules[i]  BY DEF Typed
    <3>. HIDE DEF R
    <3>4. [NoSnap EXCEPT !.rules = R].rules = R  BY DEF NoSnap
    <3>5. snap'[w] = [NoSnap EXCEPT !.rules = R]  BY <3>2 DEF Typed
    <3>. QED  BY <3>3, <3>4, <3>5
  <2>6. Lock(w) = "groups" => left'[w] \subseteq groups /\ snap'[w].binds = binds
    <3>. SUFFICES ASSUME Lock(w) = "groups"
                  PROVE  left'[w] \subseteq groups /\ snap'[w].binds = binds
      OBVIOUS
    <3>. DEFINE N == [NoSnap EXCEPT !.groups = groups, !.binds = binds]
    <3>1. Step(w) = "groups"  BY DEF Lock
    <3>2. snap' = [snap EXCEPT ![w] = N] /\ left' = [left EXCEPT ![w] = Affected(w)]
      BY <1>e, <3>1 DEF Enter
    <3>3. N.binds = binds  BY DEF NoSnap
    <3>. HIDE DEF N
    <3>4. snap'[w] = N /\ left'[w] = Affected(w)  BY <3>2 DEF Typed
    <3>. QED  BY <3>3, <3>4 DEF Affected
  <2>. QED  BY <2>1, <2>2, <2>3, <2>4, <2>5, <2>6, OthersKept
<1>f. ASSUME NEW w \in Workers, WriteRules(w) PROVE SectionInv'
  <2>1. /\ UNCHANGED <<lock, st, req, at, snap, groups, binds>>
        /\ left'[w] = {} /\ \A v \in Workers \ {w} : left'[v] = left[v]
        /\ Lock(w) = "rules" /\ st[w] = "inside" /\ tainted' = tainted \cup Spoiled(w)
    BY <1>f DEF WriteRules, Typed
  <2>2. ASSUME NEW v \in Workers \ {w}, v \notin tainted', st'[v] = "inside"
        PROVE  Untouched(v)
    <3>1. v \notin tainted /\ st[v] = "inside"  BY <2>1, <2>2
    <3>2. Lock(v) # "rules"
      <4>1. CASE w \in tainted  BY <4>1, <2>1, <2>2, <3>1 DEF Spoiled
      <4>2. CASE w \notin tainted  BY <4>2, <1>0, <2>1, <3>1
      <4>. QED  BY <4>1, <4>2
    <3>. QED  BY <2>1, <3>1, <3>2 DEF Untouched
  <2>3. Lock(w)' = Lock(w)  BY <2>1, SameSection
  <2>4. w \notin tainted' => lock'[Lock(w)'] = w  BY <1>0, <2>1, <2>3
  <2>. QED  BY <2>1, <2>2, <2>3, <2>4, OthersKept
<1>g. ASSUME NEW w \in Workers, WriteGroup(w) PROVE SectionInv'
  <2>1. /\ UNCHANGED <<lock, st, req, at, snap, rules>>
        /\ Lock(w) = "groups" /\ st[w] = "inside" /\ tainted' = tainted \cup Spoiled(w)
    BY <1>g DEF WriteGroup
  <2>2. PICK g \in left[w] : \E T :
          /\ groups' = groups \cup {g}
          /\ binds' = {b \in binds : b[1] # g} \cup ({g} \X T)
          /\ left' = [left EXCEPT ![w] = @ \ {g}]
    BY <1>g DEF WriteGroup
  <2>3. left'[w] = left[w] \ {g} /\ \A v \in Workers \ {w} : left'[v] = left[v]
    BY <2>2 DEF Typed
  <2>4. ASSUME NEW v \in Workers \ {w}, v \notin tainted', st'[v] = "inside"
        PROVE  Untouched(v)
    <3>1. v \notin tainted /\ st[v] = "inside"  BY <2>1, <2>4
    <3>2. Lock(v) # "groups"
      <4>1. CASE w \in tainted  BY <4>1, <2>1, <2>4, <3>1 DEF Spoiled
      <4>2. CASE w \notin tainted  BY <4>2, <1>0, <2>1, <3>1
      <4>. QED  BY <4>1, <4>2
    <3>. QED  BY <2>1, <2>3, <3>1, <3>2 DEF Untouched
  <2>5. Lock(w)' = Lock(w)  BY <2>1, SameSection
  <2>6. ASSUME w \notin tainted'
        PROVE  /\ lock'[Lock(w)'] = w /\ left'[w] \subseteq groups'
               /\ \A b \in Groups \X Services :
                    b[1] \in left'[w] => (b \in snap'[w].binds <=> b \in binds')
    <3>1. w \in Workers \ tainted  BY <2>1, <2>6
    <3>2. lock[Lock(w)] = w  BY <1>0, <2>1, <3>1
    <3>3. /\ left[w] \subseteq groups
          /\ \A b \in Groups \X Services : b[1] \in left[w] => (b \in snap[w].binds <=> b \in binds)
      BY <2>1, <3>1 DEF SectionInv, GroupsKnown
    <3>4. \A b \in Groups \X Services : b[1] # g => (b \in binds <=> b \in binds')
      BY <2>2
    <3>5. left'[w] \subseteq groups'  BY <2>2, <2>3, <3>3
    <3>6. \A b \in Groups \X Services : b[1] \in left'[w] => b[1] \in left[w] /\ b[1] # g
      BY <2>3
    <3>. QED  BY <2>1, <2>5, <3>2, <3>3, <3>4, <3>5, <3>6
  <2>. QED  BY <2>1, <2>4, <2>5, <2>6, OthersKept
<1>h. ASSUME NEW w \in Workers, Leave(w) PROVE SectionInv'
  <2>1. /\ st'[w] # "inside"
        /\ \A v \in Workers \ {w} : st'[v] = st[v] /\ at'[v] = at[v]
    BY <1>h, AdvanceTyped DEF Leave
  <2>2. \A v \in Workers \ {w} : lock[Lock(v)] = v => lock'[Lock(v)] = v
    BY <1>h DEF Leave, Unlock, Typed
  <2>3. \A v \in Workers \ {w} : v \notin tainted' /\ st'[v] = "inside" => Untouched(v)
    BY <1>h, <2>1, <2>2 DEF Leave, store, Untouched
  <2>. QED  BY <2>1, <2>3, OthersKept
<1>i. ASSUME NEW w \in Workers, Busy(w) PROVE SectionInv'
  <2>1. /\ st'[w] # "inside"
        /\ \A v \in Workers \ {w} : st'[v] = st[v] /\ at'[v] = at[v]
    BY <1>i, ThrowTyped DEF Busy
  <2>2. \A v \in Workers \ {w} : v \notin tainted' /\ st'[v] = "inside" => Untouched(v)
    BY <1>i, <2>1 DEF Busy, store, ghosts, Untouched
  <2>. QED  BY <2>1, <2>2, OthersKept
<1>j. ASSUME NEW w \in Workers, Fail(w) PROVE SectionInv'
  <2>1. /\ st'[w] # "inside"
        /\ \A v \in Workers \ {w} : st'[v] = st[v] /\ at'[v] = at[v]
    BY <1>j, ThrowTyped DEF Fail
  <2>2. \A v \in Workers \ {w} : lock[Lock(v)] = v => lock'[Lock(v)] = v
    BY <1>j DEF Fail, Unlock, Typed
  <2>3. \A v \in Workers \ {w} : left'[v] = left[v]  BY <1>j DEF Fail, Typed
  <2>4. \A v \in Workers \ {w} : v \notin tainted' /\ st'[v] = "inside" => Untouched(v)
    BY <1>j, <2>1, <2>2, <2>3 DEF Fail, store, Untouched
  <2>. QED  BY <2>1, <2>4, OthersKept
<1>k. ASSUME NEW w \in Workers, Crash(w) PROVE SectionInv'
  <2>1. st'[w] # "inside" /\ \A v \in Workers \ {w} : st'[v] = st[v]
    BY <1>k DEF Crash, Become, Typed
  <2>2. \A v \in Workers \ {w} : v \notin tainted' /\ st'[v] = "inside" => Untouched(v)
    BY <1>k, <2>1 DEF Crash, store, local, Untouched
  <2>. QED  BY <2>1, <2>2, OthersKept
<1>l. ASSUME NEW w \in Workers, NEW l \in {"groups", "rules"}, Lapse(w, l) PROVE SectionInv'
  <2>1. \A v \in Workers \ {w} : lock[Lock(v)] = v => lock'[Lock(v)] = v
    BY <1>l DEF Lapse, Typed
  <2>2. st'[w] = "inside" => w \in tainted'  BY <1>l DEF Lapse
  <2>3. \A v \in Workers \ {w} : v \notin tainted' => v \notin tainted  BY <1>l DEF Lapse, ghosts
  <2>4. \A v \in Workers \ {w} : v \notin tainted' /\ st'[v] = "inside" => Untouched(v)
    BY <1>l, <2>1, <2>3 DEF Lapse, store, local, Untouched
  <2>. QED  BY <2>2, <2>4, OthersKept
<1>. QED
  BY <1>a, <1>b, <1>c, <1>d, <1>e, <1>f, <1>g, <1>h, <1>i, <1>j, <1>k, <1>l DEF Next

LEMMA Inductive == Spec => [](Typed /\ SectionInv)
<1>1. Init => Typed /\ SectionInv  BY InitTyped, InitSections
<1>2. Typed /\ SectionInv /\ [Next]_vars => (Typed /\ SectionInv)'  BY StepTyped, StepSections
<1>. QED  BY <1>1, <1>2, PTL DEF Spec

LEMMA WhoWrites ==
  ASSUME Typed, [Next]_vars, NEW w \in Workers, Writes(w)
  PROVE  WriteRules(w) \/ WriteGroup(w)
<1>1. st[w] = "inside" /\ st'[w] = "inside" /\ left'[w] # left[w]  BY DEF Writes
<1>2. ~UNCHANGED vars  BY <1>1 DEF vars, local
<1>3. PICK v \in Workers :
        \/ \E r \in Requests : Begin(v, r)
        \/ WriteService(v) \/ EditGroup(v)
        \/ Enter(v) \/ WriteRules(v) \/ WriteGroup(v) \/ Leave(v)
        \/ Busy(v) \/ Fail(v) \/ Crash(v)
        \/ \E l \in {"groups", "rules"} : Lapse(v, l)
  BY <1>2 DEF Next
<1>4. UNCHANGED left => FALSE  BY <1>1
<1>5. ~(\E r \in Requests : Begin(v, r)) /\ ~WriteService(v) /\ ~EditGroup(v) /\ ~Leave(v) /\ ~Busy(v)
  BY <1>4 DEF Begin, WriteService, EditGroup, Leave, Busy
<1>6. ~Crash(v) /\ ~(\E l \in {"groups", "rules"} : Lapse(v, l))
  BY <1>4 DEF Crash, Lapse, local
<1>7. ~Enter(v)
  <2>. SUFFICES ASSUME Enter(v) PROVE FALSE  OBVIOUS
  <2>1. st[v] = "run"  BY DEF Enter
  <2>2. w # v  BY <1>1, <2>1
  <2>3. left'[w] = left[w]  BY <2>2 DEF Enter, Typed
  <2>. QED  BY <1>1, <2>3
<1>8. ~Fail(v)
  <2>. SUFFICES ASSUME Fail(v) PROVE FALSE  OBVIOUS
  <2>1. left' = [left EXCEPT ![v] = {}] /\ Throw(v) /\ UNCHANGED req  BY DEF Fail
  <2>2. st'[v] # "inside"  BY <2>1, ThrowTyped
  <2>3. w # v  BY <1>1, <2>2
  <2>. QED  BY <1>1, <2>1, <2>3 DEF Typed
<1>9. v = w
  <2>1. WriteRules(v) \/ WriteGroup(v)  BY <1>3, <1>5, <1>6, <1>7, <1>8
  <2>2. v # w => left'[w] = left[w]  BY <2>1 DEF WriteRules, WriteGroup, Typed
  <2>. QED  BY <1>1, <2>2
<1>. QED  BY <1>3, <1>5, <1>6, <1>7, <1>8, <1>9

(* "otherwise two concurrent admins each read the same array and the last SET     *)
(* clobbers the other's rule": as long as its lease has not lapsed, the rewrite   *)
(* of the array by a worker changes the rule of its request and no other one.     *)
THEOREM RulesAreSerialized == Spec => RuleWritesTouchOne
<1>1. ASSUME Typed, SectionInv, [Next]_vars,
             NEW w \in Workers \ tainted, Writes(w), Lock(w) = "rules",
             NEW i \in RuleIds, rules'[i] # rules[i]
      PROVE  i = Rule(w)
  <2>1. WriteRules(w)
    <3>1. ~WriteGroup(w)  BY <1>1 DEF WriteGroup
    <3>. QED  BY <1>1, <3>1, WhoWrites
  <2>2. rules' = snap[w].rules /\ left[w] # {} /\ st[w] = "inside"  BY <2>1 DEF WriteRules
  <2>3. i # Rule(w) => snap[w].rules[i] = rules[i]
    BY <1>1, <2>2 DEF SectionInv, RulesKnown
  <2>. QED  BY <1>1, <2>2, <2>3
<1>2. Typed /\ SectionInv /\ [Next]_vars
        => [\A w \in Workers \ tainted : Writes(w) /\ Lock(w) = "rules" =>
              \A i \in RuleIds : rules'[i] # rules[i] => i = Rule(w)]_vars
  BY <1>1
<1>. QED  BY <1>2, Inductive, PTL DEF Spec, RuleWritesTouchOne

\* One setGroup of a section that nothing has spoilt: it binds or unbinds the
\* service of the request in one group, which exists.
LEMMA GroupWritten ==
  ASSUME Typed, SectionInv, NEW w \in Workers \ tainted, WriteGroup(w)
  PROVE  /\ groups' = groups
         /\ binds \subseteq Groups \X Services /\ binds' \subseteq Groups \X Services
         /\ \E g \in left[w] :
              /\ left' = [left EXCEPT ![w] = @ \ {g}]
              /\ \A h \in Groups, s \in Services : <<h, s>> \in binds' <=>
                   IF h = g /\ s = req[w].svc THEN Op(w) # "delete" ELSE <<h, s>> \in binds
<1>1. PICK g \in left[w] :
        LET read == {b[2] : b \in {b \in snap[w].binds : b[1] = g}}
        IN /\ groups' = groups \cup {g}
           /\ binds' = {b \in binds : b[1] # g} \cup ({g} \X Toggle(w, read))
           /\ left' = [left EXCEPT ![w] = @ \ {g}]
  BY DEF WriteGroup
<1>. DEFINE read == {b[2] : b \in {b \in snap[w].binds : b[1] = g}}
            svc  == req[w].svc
<1>2. st[w] = "inside" /\ Lock(w) = "groups" /\ Step(w) = "groups"  BY DEF WriteGroup, Lock
<1>3. /\ left[w] \subseteq groups
      /\ \A b \in Groups \X Services : b[1] \in left[w] => (b \in snap[w].binds <=> b \in binds)
  BY <1>2 DEF SectionInv, GroupsKnown
<1>4. g \in groups /\ groups' = groups  BY <1>1, <1>3
<1>5. binds' = {b \in binds : b[1] # g} \cup ({g} \X Toggle(w, read))  BY <1>1
<1>6. /\ binds \subseteq Groups \X Services /\ snap[w].binds \subseteq Groups \X Services
      /\ g \in Groups /\ svc \in Services
  BY <1>2, <1>4, StepShape DEF Typed, Snaps
<1>7. \A s \in Services : s \in read <=> <<g, s>> \in binds
  <2>1. \A s \in Services : <<g, s>> \in snap[w].binds <=> <<g, s>> \in binds  BY <1>3, <1>6
  <2>2. ASSUME NEW s \in Services, <<g, s>> \in snap[w].binds PROVE s \in read
    <3>1. <<g, s>>[1] = g /\ <<g, s>>[2] = s  OBVIOUS
    <3>. QED  BY <2>2, <3>1
  <2>3. ASSUME NEW s \in read PROVE <<g, s>> \in snap[w].binds
    <3>1. PICK b \in snap[w].binds : b[1] = g /\ b[2] = s  OBVIOUS
    <3>2. b = <<g, s>>  BY <3>1, <1>6
    <3>. QED  BY <3>1, <3>2
  <2>. QED  BY <2>1, <2>2, <2>3
<1>8. read \subseteq Services  BY <1>6
<1>. HIDE DEF read
<1>9. /\ Toggle(w, read) \subseteq Services
      /\ \A s \in Services : s \in Toggle(w, read) <=> IF s = svc THEN Op(w) # "delete" ELSE s \in read
  BY <1>6, <1>8 DEF Toggle
<1>10. binds' \subseteq Groups \X Services  BY <1>5, <1>6, <1>9
<1>11. ASSUME NEW h \in Groups, NEW s \in Services
       PROVE  <<h, s>> \in binds' <=>
                IF h = g /\ s = svc THEN Op(w) # "delete" ELSE <<h, s>> \in binds
  <2>1. <<h, s>>[1] = h  OBVIOUS
  <2>2. <<h, s>> \in {g} \X Toggle(w, read) <=> h = g /\ s \in Toggle(w, read)  OBVIOUS
  <2>3. <<h, s>> \in binds' <=> (<<h, s>> \in binds /\ h # g) \/ (h = g /\ s \in Toggle(w, read))
    BY <1>5, <2>1, <2>2
  <2>. QED  BY <2>3, <1>7, <1>9
<1>. QED  BY <1>1, <1>4, <1>6, <1>10, <1>11

(* The comments of createService and deleteService ("Serialize the whole           *)
(* read+write under the `groups` lock"): unless its lease lapsed or a group edit    *)
(* came in between, a service operation creates no group and binds or unbinds its  *)
(* own service only.                                                               *)
THEOREM BindingsAreSerialized == Spec => ServiceOpsTouchOwn
<1>1. ASSUME Typed, SectionInv, [Next]_vars,
             NEW w \in Workers \ tainted, Writes(w), Lock(w) = "groups"
      PROVE  /\ groups' = groups
             /\ \A b \in binds' \cup binds : (b \in binds) # (b \in binds') => b[2] = req[w].svc
  <2>1. WriteGroup(w)
    <3>1. ~WriteRules(w)  BY <1>1 DEF WriteRules
    <3>. QED  BY <1>1, <3>1, WhoWrites
  <2>2. /\ groups' = groups /\ binds' \cup binds \subseteq Groups \X Services
        /\ \A h \in Groups, s \in Services :
             s # req[w].svc => (<<h, s>> \in binds' <=> <<h, s>> \in binds)
    BY <1>1, <2>1, GroupWritten
  <2>3. ASSUME NEW b \in binds' \cup binds, b[2] # req[w].svc PROVE b \in binds <=> b \in binds'
    <3>1. PICK h \in Groups, s \in Services : b = <<h, s>>  BY <2>2
    <3>2. s # req[w].svc  BY <2>3, <3>1
    <3>. QED  BY <2>2, <3>1, <3>2
  <2>. QED  BY <2>2, <2>3
<1>2. Typed /\ SectionInv /\ [Next]_vars
        => [\A w \in Workers \ tainted : Writes(w) /\ Lock(w) = "groups" =>
              /\ groups' = groups
              /\ \A b \in binds' \cup binds : (b \in binds) # (b \in binds') => b[2] = req[w].svc]_vars
  BY <1>1
<1>. QED  BY <1>2, Inductive, PTL DEF Spec, ServiceOpsTouchOwn

-----------------------------------------------------------------------------
(* What failures leave behind.                                             *)

\* w is at work on s.
On(s, w) == w \in Workers /\ st[w] \in {"run", "inside"} /\ s \in Target(req[w])

Clean(i) == rules[i] \notin {"made", "edited"}

\* The part of a deletion that is done: each thing is gone before the next step.
Dismantled(s, w) ==
  /\ at[w] > 2 => Clean(<<s, "main">>)
  /\ at[w] > 3 => Clean(<<s, "health">>)
  /\ at[w] > 4 => s \notin roles
  /\ at[w] > 5 => s \notin routes

InRules(w) == st[w] = "inside" /\ Lock(w) = "rules"

\* What holds of a worker on a service that only one is at work on.
Progress(s, w) ==
  /\ Op(w) \in ServiceOps => s \in registry \/ (Op(w) \in Creates /\ at[w] = 1)
  /\ Op(w) = "delete" => Dismantled(s, w)
  /\ InRules(w) /\ left[w] # {} /\ Op(w) \in RuleOps \cup {"delete"}
       => snap[w].rules[Rule(w)] \notin {"made", "edited"}
  /\ InRules(w) /\ left[w] = {} /\ Op(w) = "delete" => Clean(Rule(w))

Remains(s) ==
  s \in roles \cup routes \/ (\E i \in RuleIds : i[1] = s /\ ~Clean(i)) => s \in registry

PerService(s) ==
  /\ \A v, w \in Workers : On(s, v) /\ On(s, w) => v = w
  /\ \A w \in Workers : On(s, w) => Progress(s, w)
  /\ Remains(s)

Locking == {"main", "health", "rule", "groups"}   \* the steps that are sections

\* Only sections are tainted, those on the rules by a lapse.
TaintInv ==
  /\ \A w \in Workers : st[w] = "inside" => Step(w) \in Locking
  /\ \A w \in tainted : st[w] = "inside"
  /\ \A w \in tainted : Lock(w) = "rules" => raced = Services

RemainsInv == TaintInv /\ \A s \in Services \ raced : PerService(s)

LEMMA RemainsInvImplies == Typed /\ RemainsInv => RemainsAreRegistered
BY DEF Typed, RemainsInv, PerService, Remains, Clean, RemainsAreRegistered

LEMMA InitRemains == Init => RemainsInv
<1>. SUFFICES ASSUME Init PROVE RemainsInv  OBVIOUS
<1>1. TaintInv  BY DEF Init, TaintInv
<1>2. \A s, w : ~On(s, w)  BY DEF Init, On
<1>3. \A s \in Services : Remains(s)  BY DEF Init, Remains, Clean
<1>. QED  BY <1>1, <1>2, <1>3 DEF RemainsInv, PerService

LEMMA StepTaint == Typed /\ TaintInv /\ [Next]_vars => TaintInv'
<1>. SUFFICES ASSUME Typed, TaintInv, [Next]_vars PROVE TaintInv'  OBVIOUS
<1>. DEFINE Same(v) == st'[v] = st[v] /\ req'[v] = req[v] /\ at'[v] = at[v]
<1>0. ASSUME raced = Services => raced' = Services,
             \A v \in Workers : st'[v] = "inside" => Same(v) \/ Step(v)' \in Locking,
             \A v \in tainted' : st'[v] = "inside"
                /\ \/ v \in tainted /\ Same(v)
                   \/ (Lock(v)' = "rules" => raced' = Services)
      PROVE  TaintInv'
  <2>1. \A v : Same(v) => Lock(v)' = Lock(v) /\ Step(v)' = Step(v)  BY SameSection
  <2>. QED  BY <1>0, <2>1 DEF TaintInv
<1>1. tainted \subseteq Workers  BY DEF Typed
<1>a. CASE UNCHANGED vars
  BY <1>0, <1>1, <1>a DEF vars, local, ghosts, TaintInv
<1>b. ASSUME NEW w \in Workers, NEW r \in Requests, Begin(w, r) PROVE TaintInv'
  <2>1. st[w] # "inside"  BY <1>b DEF Begin
  <2>2. \A v \in tainted : v # w  BY <2>1 DEF TaintInv
  <2>3. st'[w] = "run" /\ \A v \in Workers \ {w} : Same(v)  BY <1>b DEF Begin, Become, Typed
  <2>4. raced = Services => raced' = Services  BY <1>b, RequestShape DEF Begin
  <2>. QED  BY <1>0, <1>1, <1>b, <2>2, <2>3, <2>4 DEF Begin, TaintInv
<1>c. ASSUME NEW w \in Workers, WriteService(w) PROVE TaintInv'
  <2>1. \A v \in tainted : v # w  BY <1>c DEF WriteService, TaintInv
  <2>2. st'[w] # "inside" /\ \A v \in Workers \ {w} : Same(v)
    BY <1>c, AdvanceTyped DEF WriteService
  <2>. QED  BY <1>0, <1>1, <1>c, <2>1, <2>2 DEF WriteService, ghosts, TaintInv
<1>d. ASSUME NEW w \in Workers, EditGroup(w) PROVE TaintInv'
  <2>1. UNCHANGED <<raced, req>> /\ Advance(w) /\ st[w] = "run"
          /\ tainted' = tainted \cup {v \in Workers : st[v] = "inside" /\ Step(v) = "groups"}
    BY <1>d DEF EditGroup
  <2>2. \A v \in tainted' : v \in Workers /\ st[v] = "inside" /\ v # w
    BY <2>1 DEF TaintInv, Typed
  <2>3. st'[w] # "inside" /\ \A v \in Workers \ {w} : Same(v)  BY <2>1, AdvanceTyped
  <2>4. \A v \in tainted' : v \notin tainted => Lock(v)' = "groups"
    BY <2>1, <2>2, <2>3, SameSection DEF Lock
  <2>. QED  BY <1>0, <2>1, <2>2, <2>3, <2>4
<1>e. ASSUME NEW w \in Workers, Enter(w) PROVE TaintInv'
  <2>1. \A v \in tainted : v # w  BY <1>e DEF Enter, TaintInv
  <2>2. \A v \in Workers \ {w} : Same(v)  BY <1>e DEF Enter, Become, Typed
  <2>3. Step(w)' = Step(w) /\ Step(w) \in Locking  BY <1>e DEF Enter, Step, Op, Locking
  <2>. QED  BY <1>0, <1>1, <1>e, <2>1, <2>2, <2>3 DEF Enter, ghosts, TaintInv
<1>f. ASSUME NEW w \in Workers, WriteRules(w) \/ WriteGroup(w) PROVE TaintInv'
  <2>1. UNCHANGED <<raced, st, req, at>> /\ tainted' = tainted \cup Spoiled(w)
    BY <1>f DEF WriteRules, WriteGroup
  <2>2. \A v \in Spoiled(w) : st[v] = "inside" /\ Lock(v) = Lock(w) /\ w \in tainted
    BY DEF Spoiled
  <2>3. \A v \in Spoiled(w) : Lock(v) = "rules" => raced = Services
    BY <2>2 DEF TaintInv
  <2>4. \A v : Lock(v)' = Lock(v)  BY <2>1 DEF Lock, Step, Op
  <2>. QED  BY <1>0, <2>1, <2>2, <2>3, <2>4 DEF TaintInv
<1>g. ASSUME NEW w \in Workers, Leave(w) \/ Busy(w) \/ Fail(w) \/ Crash(w) PROVE TaintInv'
  <2>1. w \notin tainted' /\ tainted' \subseteq tainted /\ raced' = raced /\ req' = req
    BY <1>g DEF Leave, Busy, Fail, Crash, TaintInv, ghosts, local
  <2>2. st'[w] # "inside" /\ \A v \in Workers \ {w} : Same(v)
    <3>1. CASE Leave(w)  BY <3>1, AdvanceTyped DEF Leave
    <3>2. CASE Busy(w) \/ Fail(w)  BY <3>2, ThrowTyped DEF Busy, Fail
    <3>3. CASE Crash(w)  BY <3>3 DEF Crash, Become, local, Typed
    <3>. QED  BY <1>g, <3>1, <3>2, <3>3
  <2>. QED  BY <1>0, <1>1, <2>1, <2>2 DEF TaintInv
<1>h. ASSUME NEW w \in Workers, NEW l \in {"groups", "rules"}, Lapse(w, l) PROVE TaintInv'
  <2>1. CASE st[w] = "inside"  BY <1>0, <1>h, <2>1 DEF Lapse, local, TaintInv
  <2>2. CASE st[w] # "inside"  BY <1>0, <1>h, <2>2 DEF Lapse, local, ghosts, TaintInv
  <2>. QED  BY <2>1, <2>2
<1>. QED
  BY <1>a, <1>b, <1>c, <1>d, <1>e, <1>f, <1>g, <1>h DEF Next

\* The script of a deletion.
LEMMA DeleteScript ==
  ASSUME NEW i \in 1 .. Len(Steps("delete"))
  PROVE  /\ Len(Steps("delete")) = 6
         /\ Steps("delete")[i] = "main" <=> i = 2
         /\ Steps("delete")[i] = "health" <=> i = 3
         /\ Steps("delete")[i] = "roles" <=> i = 4
         /\ Steps("delete")[i] = "routes" <=> i = 5
         /\ Steps("delete")[i] = "registry" <=> i = 6
         /\ Steps("delete")[i] # "rule"
<1>1. Steps("delete") = <<"groups", "main", "health", "roles", "routes", "registry">>
  BY DEF Steps, DeleteSteps, RuleOps, GroupOps
<1>. DEFINE D == Steps("delete")
<1>2. /\ Len(D) = 6 /\ D[1] = "groups" /\ D[2] = "main" /\ D[3] = "health"
      /\ D[4] = "roles" /\ D[5] = "routes" /\ D[6] = "registry"
  BY <1>1
<1>. HIDE DEF D
<1>3. i \in 1 .. 6  BY <1>2 DEF D
<1>4. i = 1 \/ i = 2 \/ i = 3 \/ i = 4 \/ i = 5 \/ i = 6  BY <1>3
<1>5. CASE i = 1  BY <1>2, <1>5 DEF D
<1>6. CASE i = 2  BY <1>2, <1>6 DEF D
<1>7. CASE i = 3  BY <1>2, <1>7 DEF D
<1>8. CASE i = 4  BY <1>2, <1>8 DEF D
<1>9. CASE i = 5  BY <1>2, <1>9 DEF D
<1>10. CASE i = 6  BY <1>2, <1>10 DEF D
<1>. QED  BY <1>4, <1>5, <1>6, <1>7, <1>8, <1>9, <1>10

\* The registry is written first by a creation and last by a deletion.
LEMMA ScriptPlaces ==
  ASSUME NEW op \in AllOps, NEW i \in 1 .. Len(Steps(op))
  PROVE  Steps(op)[i] = "registry" <=>
           (op = "delete" /\ i = 6) \/ (op \in Creates /\ i = 1)
<1>. USE DEF ServiceOps, RuleOps, GroupOps, Creates
<1>1. CASE op = "create"    BY <1>1 DEF Steps
<1>2. CASE op = "createAt"  BY <1>2 DEF Steps
<1>3. CASE op = "delete"    BY <1>3, DeleteScript
<1>4. CASE op = "config"    BY <1>4 DEF Steps
<1>5. CASE op = "routes"    BY <1>5 DEF Steps
<1>6. CASE op \in {"roles", "repair"}  BY <1>6 DEF Steps
<1>7. CASE op \in RuleOps   BY <1>7 DEF Steps
<1>8. CASE op \in GroupOps  BY <1>8 DEF Steps
<1>. QED  BY <1>1, <1>2, <1>3, <1>4, <1>5, <1>6, <1>7, <1>8 DEF AllOps

LEMMA RuleInTarget ==
  ASSUME Typed, NEW w \in Workers
  PROVE  /\ Step(w) \in {"main", "health", "rule"} => Rule(w)[1] \in Target(req[w])
         /\ Op(w) \in ServiceOps => Target(req[w]) = {req[w].svc}
         /\ Op(w) \in ServiceOps /\ Step(w) \in {"main", "health"} => Rule(w) = <<req[w].svc, Step(w)>>
         /\ Op(w) \in GroupOps => Target(req[w]) = {}
<1>1. Op(w) = req[w].op  BY DEF Op
<1>2. ServiceOps \cap RuleOps = {} /\ ServiceOps \cap GroupOps = {} /\ RuleOps \cap GroupOps = {}
  BY DEF ServiceOps, RuleOps, GroupOps
<1>3. Step(w) \in {"main", "health"} => Op(w) \in ServiceOps
  BY StepShape, ScriptShape DEF Step
<1>4. Step(w) = "rule" => Op(w) \in RuleOps
  BY StepShape, ScriptShape DEF Step
<1>5. CASE Op(w) \in ServiceOps
  BY <1>1, <1>2, <1>4, <1>5 DEF Rule, Target
<1>6. CASE Op(w) \notin ServiceOps
  BY <1>1, <1>2, <1>3, <1>4, <1>6 DEF Rule, Target
<1>. QED  BY <1>5, <1>6

\* A step that leaves s and the workers on s alone.
LEMMA Foreign ==
  ASSUME NEW s, PerService(s),
         \A v \in Workers : On(s, v)' =>
            /\ On(s, v)
            /\ st'[v] = st[v] /\ req'[v] = req[v] /\ at'[v] = at[v]
            /\ snap'[v] = snap[v] /\ left'[v] = left[v],
         s \in registry <=> s \in registry', s \in roles <=> s \in roles',
         s \in routes <=> s \in routes',
         \A i \in RuleIds : i[1] = s => rules'[i] = rules[i],
         \A v \in Workers : On(s, v) /\ InRules(v) => Rule(v) \in RuleIds /\ Rule(v)[1] = s,
         <<s, "main">> \in RuleIds /\ <<s, "health">> \in RuleIds
  PROVE  PerService(s)'
<1>1. \A v, w \in Workers : On(s, v)' /\ On(s, w)' => v = w  BY DEF PerService
<1>2. ASSUME NEW w \in Workers, On(s, w)'
      PROVE  Progress(s, w)'
  <2>1. On(s, w) /\ Progress(s, w)  BY <1>2 DEF PerService
  <2>2. /\ Op(w)' = Op(w) /\ Lock(w)' = Lock(w) /\ Rule(w)' = Rule(w)
        /\ InRules(w)' = InRules(w)
    BY <1>2, SameSection DEF InRules
  <2>3. <<s, "main">>[1] = s /\ <<s, "health">>[1] = s  OBVIOUS
  <2>4. Clean(<<s, "main">>)' = Clean(<<s, "main">>) /\ Clean(<<s, "health">>)' = Clean(<<s, "health">>)
    BY <2>3 DEF Clean
  <2>5. InRules(w) => Clean(Rule(w))' = Clean(Rule(w))  BY <2>1, <2>2 DEF Clean
  <2>. QED  BY <1>2, <2>1, <2>2, <2>4, <2>5 DEF Progress, Dismantled
<1>3. Remains(s)'  BY DEF PerService, Remains, Clean
<1>. QED  BY <1>1, <1>2, <1>3 DEF PerService

\* A step of the one worker that is on s, or comes to be.
LEMMA Alone ==
  ASSUME NEW s, NEW w \in Workers,
         \A v \in Workers : On(s, v)' => v = w,
         On(s, w)' => Progress(s, w)',
         Remains(s)'
  PROVE  PerService(s)'
BY DEF PerService

\* The invariant's facts about the step of w, seen from s.
LEMMA InRulesShape ==
  ASSUME Typed, TaintInv, NEW v \in Workers, InRules(v)
  PROVE  /\ Step(v) \in {"main", "health", "rule"}
         /\ Rule(v) \in RuleIds /\ Rule(v)[1] \in Target(req[v])
         /\ \A s : s \in Target(req[v]) => s = Rule(v)[1]
<1>1. Step(v) \in {"main", "health", "rule"}
  BY DEF InRules, TaintInv, Locking, Lock
<1>2. Rule(v) \in RuleIds /\ Rule(v)[1] \in Target(req[v])  BY <1>1, StepShape, RuleInTarget
<1>3. Op(v) \in ServiceOps \cup RuleOps
  BY <1>1, StepShape, ScriptShape DEF Step
<1>4. ServiceOps \cap RuleOps = {}  BY DEF ServiceOps, RuleOps
<1>5. \E x : Target(req[v]) = {x}  BY <1>3, <1>4 DEF Target, Op
<1>. QED  BY <1>1, <1>2, <1>5

\* A step of w that leaves the other workers alone.
OthersSame(w) ==
  /\ req' = req
  /\ \A v \in Workers \ {w} : /\ st'[v] = st[v] /\ at'[v] = at[v]
                             /\ snap'[v] = snap[v] /\ left'[v] = left[v]

\* A step that leaves what is kept of s alone.
ServiceSame(s) ==
  /\ s \in registry <=> s \in registry'
  /\ s \in roles <=> s \in roles'
  /\ s \in routes <=> s \in routes'
  /\ \A i \in RuleIds : i[1] = s => rules'[i] = rules[i]

\* What may be assumed of s before a step.
Standing(s) ==
  /\ Typed /\ TaintInv /\ PerService(s) /\ s \in Services \ raced
  /\ <<s, "main">> \in RuleIds /\ <<s, "health">> \in RuleIds
  /\ \A v \in Workers : On(s, v) /\ InRules(v) => Rule(v) \in RuleIds /\ Rule(v)[1] = s

\* A step of a worker that is not on s.
LEMMA Away ==
  ASSUME NEW s, Standing(s), NEW w \in Workers, ~On(s, w), st[w] \in {"run", "inside"},
         OthersSame(w), ServiceSame(s)
  PROVE  PerService(s)'
<1>1. ~On(s, w)'  BY DEF On, OthersSame
<1>2. \A v \in Workers : On(s, v)' => v # w /\ On(s, v)  BY <1>1 DEF On, OthersSame
<1>. QED  BY <1>2, Foreign DEF Standing, OthersSame, ServiceSame

\* A step of the worker that is on s.
LEMMA Here ==
  ASSUME NEW s, Standing(s), NEW w \in Workers, On(s, w), OthersSame(w),
         On(s, w)' => Progress(s, w)',
         Remains(s)'
  PROVE  PerService(s)'
<1>1. \A v \in Workers : On(s, v)' /\ v # w => On(s, v)  BY DEF On, OthersSame
<1>2. \A v \in Workers : On(s, v)' => v = w  BY <1>1 DEF Standing, PerService
<1>. QED  BY <1>2, Alone

LEMMA SameRemains ==
  ASSUME NEW s, PerService(s), ServiceSame(s)
  PROVE  Remains(s)'
BY DEF PerService, Remains, Clean, ServiceSame

\* The service of a service operation is registered once past the first step
\* of a creation.
LEMMA Registered ==
  ASSUME NEW s, Standing(s), NEW w \in Workers, On(s, w),
         Op(w) \in ServiceOps, Step(w) # "registry"
  PROVE  s \in registry
<1>1. s \in registry \/ (Op(w) \in Creates /\ at[w] = 1)
  BY DEF Standing, PerService, Progress
<1>2. ~(Op(w) \in Creates /\ at[w] = 1)  BY StepShape, ScriptPlaces DEF Standing, Step
<1>. QED  BY <1>1, <1>2

\* Where a deletion stands.
LEMMA DeletePlace ==
  ASSUME Typed, NEW w \in Workers, Op(w) = "delete"
  PROVE  /\ at[w] \in 1 .. 6 /\ Len(Steps(Op(w))) = 6
         /\ Step(w) = "main" <=> at[w] = 2
         /\ Step(w) = "health" <=> at[w] = 3
         /\ Step(w) = "roles" <=> at[w] = 4
         /\ Step(w) = "routes" <=> at[w] = 5
         /\ Step(w) = "registry" <=> at[w] = 6
         /\ Step(w) # "rule"
<1>1. at[w] \in 1 .. Len(Steps("delete")) /\ at[w] \in 1 .. 6  BY StepShape DEF Typed
<1>2. Step(w) = Steps("delete")[at[w]]  BY DEF Step
<1>. QED  BY <1>1, <1>2, DeleteScript

\* What the worker on s needs to move on: nothing is left of what its step was
\* to remove, and its service is still registered.
LEMMA MovesOn ==
  ASSUME NEW s, Standing(s), NEW w \in Workers, On(s, w), Advance(w), OthersSame(w),
         Op(w) \in ServiceOps /\ st'[w] = "run" => s \in registry',
         Op(w) = "delete" => /\ at[w] >= 2 /\ at[w] < 6 => Clean(<<s, "main">>)'
                             /\ at[w] >= 3 /\ at[w] < 6 => Clean(<<s, "health">>)'
                             /\ at[w] >= 4 /\ at[w] < 6 => s \notin roles'
                             /\ at[w] >= 5 /\ at[w] < 6 => s \notin routes',
         Remains(s)'
  PROVE  PerService(s)'
<1>1. Typed /\ req' = req /\ at \in [Workers -> 1..6] /\ st \in [Workers -> {"idle", "run", "inside", "done", "failed", "crashed"}]
  BY DEF Standing, OthersSame, Typed
<1>2. ASSUME On(s, w)' PROVE Progress(s, w)'
  <2>1. st'[w] = "run"  BY <1>1, <1>2, AdvanceTyped DEF On
  <2>2. at[w] < Len(Steps(Op(w))) /\ at'[w] = at[w] + 1  BY <1>1, <2>1 DEF Advance, Become
  <2>3. Op(w)' = Op(w)  BY <1>1 DEF Op
  <2>4. ASSUME Op(w) = "delete" PROVE Dismantled(s, w)'
    <3>0. at[w] \in 1 .. 6 /\ Len(Steps(Op(w))) = 6  BY <1>1, <2>4, DeletePlace
    <3>1. at[w] \in 1 .. 5  BY <2>2, <3>0
    <3>. QED  BY <2>2, <2>4, <3>1 DEF Dismantled
  <2>. QED  BY <2>1, <2>3, <2>4 DEF Progress, InRules
<1>. QED  BY <1>2, Here

LEMMA StepRemains == Typed /\ SectionInv /\ RemainsInv /\ [Next]_vars => RemainsInv'
<1>. SUFFICES ASSUME Typed, SectionInv, RemainsInv, [Next]_vars,
                     NEW s \in Services, s \notin raced'
              PROVE  PerService(s)'
  BY StepTaint DEF RemainsInv
<1>0. /\ TaintInv
      /\ <<s, "main">> \in RuleIds /\ <<s, "health">> \in RuleIds
      /\ \A v \in Workers : On(s, v) /\ InRules(v) => Rule(v) \in RuleIds /\ Rule(v)[1] = s
  BY InRulesShape DEF RemainsInv, RuleIds, On
<1>a. CASE UNCHANGED vars
  <2>1. PerService(s)  BY <1>a DEF RemainsInv, vars, ghosts
  <2>2. \A v \in Workers : On(s, v)' => On(s, v)  BY <1>a DEF vars, local, On
  <2>. QED  BY <1>0, <1>a, <2>1, <2>2, Foreign DEF vars, store, local
<1>b. ASSUME NEW w \in Workers, NEW r \in Requests, Begin(w, r) PROVE PerService(s)'
  <2>. DEFINE others == {v \in Active : Overlap(r, req[v]) \/ v \in tainted}
  <2>1. raced' = raced \cup (Target(r) \cap UNION {Target(req[v]) : v \in others})
    BY <1>b DEF Begin
  <2>2. PerService(s)  BY <2>1 DEF RemainsInv
  <2>3. /\ st'[w] = "run" /\ req'[w] = r /\ at'[w] = 1 /\ Admissible(r)
        /\ UNCHANGED <<registry, roles, routes, rules>>
        /\ \A v \in Workers \ {w} : /\ st'[v] = st[v] /\ req'[v] = req[v] /\ at'[v] = at[v]
                                      /\ snap'[v] = snap[v] /\ left'[v] = left[v]
    BY <1>b DEF Begin, Become, store, Typed
  <2>4. \A v \in Workers \ {w} : On(s, v)' => On(s, v)  BY <2>3 DEF On
  <2>5. CASE s \notin Target(r)
    <3>1. ~On(s, w)'  BY <2>3, <2>5 DEF On
    <3>. QED  BY <1>0, <2>2, <2>3, <2>4, <3>1, Foreign
  <2>6. CASE s \in Target(r)
    <3>1. ASSUME NEW v \in Workers, On(s, v)', v # w PROVE FALSE
      <4>1. On(s, v)  BY <2>4, <3>1
      <4>2. v \in others  BY <2>6, <4>1 DEF On, Overlap, Active
      <4>. QED  BY <2>1, <2>6, <4>1, <4>2 DEF On
    <3>2. Progress(s, w)'
      <4>1. Op(w)' = r.op  BY <2>3 DEF Op
      <4>2. r.op \in ServiceOps => s \in registry \/ r.op \in Creates
        <5>1. r.op \in ServiceOps => s = r.svc  BY <2>6 DEF Target
        <5>2. CASE r.op \in Creates  BY <5>2
        <5>3. CASE r.op = "delete"  BY <2>3, <5>1, <5>3 DEF Admissible, Creates, ServiceOps, RuleOps
        <5>4. CASE r.op = "repair"  BY <2>3, <5>1, <5>4 DEF Admissible, Creates, ServiceOps, RuleOps
        <5>5. CASE r.op \in {"config", "routes", "roles"}
          BY <2>3, <5>1, <5>5 DEF Admissible, Creates, ServiceOps, RuleOps
        <5>. QED  BY <5>2, <5>3, <5>4, <5>5 DEF ServiceOps, Creates
      <4>. QED  BY <2>3, <4>1, <4>2 DEF Progress, Dismantled, InRules
    <3>3. Remains(s)'  BY <2>2, <2>3 DEF PerService, Remains, Clean
    <3>. QED  BY <3>1, <3>2, <3>3, Alone
  <2>. QED  BY <2>5, <2>6
<1>1. ASSUME raced' = raced PROVE Standing(s)
  BY <1>0, <1>1 DEF Standing, RemainsInv
<1>c. ASSUME NEW w \in Workers, WriteService(w) PROVE PerService(s)'
  <2>1. /\ UNCHANGED <<rules, req, snap, left, raced>> /\ Advance(w) /\ st[w] = "run"
        /\ Step(w) \in {"registry", "roles", "routes"}
    BY <1>c DEF WriteService, ghosts
  <2>2. Standing(s) /\ OthersSame(w)  BY <1>1, <2>1, AdvanceTyped DEF OthersSame
  <2>3. Op(w) \in ServiceOps /\ Target(req[w]) = {req[w].svc}
    BY <2>1, StepShape, ScriptShape, RuleInTarget DEF Step
  <2>4. CASE req[w].svc # s
    <3>1. ~On(s, w)  BY <2>3, <2>4 DEF On
    <3>2. ServiceSame(s)  BY <1>c, <2>1, <2>4 DEF WriteService, Toggle, ServiceSame
    <3>. QED  BY <2>1, <2>2, <3>1, <3>2, Away
  <2>5. CASE req[w].svc = s
    <3>0. On(s, w) /\ PerService(s)  BY <2>1, <2>2, <2>3, <2>5 DEF On, Standing
    <3>1. CASE Step(w) = "registry" /\ Op(w) # "delete"
      <4>1. registry' = registry \cup {s} /\ UNCHANGED <<roles, routes>>
        BY <1>c, <2>5, <3>1 DEF WriteService, Toggle
      <4>2. Remains(s)'  BY <4>1 DEF Remains
      <4>. QED  BY <2>1, <2>2, <3>0, <3>1, <4>1, <4>2, MovesOn
    <3>2. CASE Step(w) = "registry" /\ Op(w) = "delete"
      <4>1. at[w] = 6 /\ Len(Steps(Op(w))) = 6  BY <3>2, DeletePlace
      <4>2. st'[w] # "run"
        <5>1. ~(at[w] < Len(Steps(Op(w))))  BY <4>1
        <5>. QED  BY <2>1, <5>1 DEF Advance, Become, Typed
      <4>3. Dismantled(s, w)  BY <3>0, <3>2 DEF PerService, Progress
      <4>4. UNCHANGED <<roles, routes, rules>>  BY <1>c, <2>1, <3>2 DEF WriteService
      <4>5. \A i \in RuleIds : i[1] = s => i = <<s, "main">> \/ i = <<s, "health">>
        BY DEF RuleIds
      <4>6. Remains(s)'  BY <4>1, <4>3, <4>4, <4>5 DEF Dismantled, Remains, Clean
      <4>7. ~(at[w] < 6)  BY <4>1
      <4>. QED  BY <2>1, <2>2, <3>0, <4>2, <4>6, <4>7, MovesOn
    <3>3. CASE Step(w) # "registry"
      <4>1. s \in registry /\ UNCHANGED registry
        BY <1>c, <2>1, <2>2, <2>3, <3>0, <3>3, Registered DEF WriteService
      <4>2. Remains(s)'  BY <4>1 DEF Remains
      <4>3. ASSUME Op(w) = "delete"
            PROVE  /\ Dismantled(s, w)
                   /\ \/ at[w] = 4 /\ s \notin roles'
                      \/ at[w] = 5 /\ s \notin routes' /\ roles' = roles
        <5>1. Dismantled(s, w)  BY <3>0, <4>3 DEF PerService, Progress
        <5>2. CASE Step(w) = "roles"
          <6>1. at[w] = 4  BY <4>3, <5>2, DeletePlace
          <6>2. roles' = roles \ {s}  BY <1>c, <2>5, <4>3, <5>2 DEF WriteService, Toggle
          <6>. QED  BY <5>1, <6>1, <6>2
        <5>3. CASE Step(w) = "routes"
          BY <1>c, <2>5, <4>3, <5>1, <5>3, DeletePlace DEF WriteService, Toggle
        <5>. QED  BY <2>1, <3>3, <5>2, <5>3
      <4>4. ASSUME Op(w) = "delete"
            PROVE  /\ at[w] >= 2 => Clean(<<s, "main">>)'
                   /\ at[w] >= 3 => Clean(<<s, "health">>)'
                   /\ at[w] >= 4 => s \notin roles'
                   /\ at[w] >= 5 => s \notin routes'
        BY <2>1, <4>3, <4>4 DEF Dismantled, Clean
      <4>. QED  BY <2>1, <2>2, <3>0, <4>1, <4>2, <4>4, MovesOn
    <3>. QED  BY <3>1, <3>2, <3>3
  <2>. QED  BY <2>4, <2>5
<1>d. ASSUME NEW w \in Workers, EditGroup(w) PROVE PerService(s)'
  <2>1. /\ UNCHANGED <<registry, roles, routes, rules, req, snap, left, raced>>
        /\ Advance(w) /\ st[w] = "run" /\ Step(w) = "group"
    BY <1>d DEF EditGroup
  <2>2. Standing(s) /\ OthersSame(w)  BY <1>1, <2>1, AdvanceTyped DEF OthersSame
  <2>3. ~On(s, w)  BY <2>1, StepShape, RuleInTarget DEF On
  <2>4. ServiceSame(s)  BY <2>1 DEF ServiceSame
  <2>. QED  BY <2>1, <2>2, <2>3, <2>4, Away
<1>e. ASSUME NEW w \in Workers, Enter(w) PROVE PerService(s)'
  <2>1. /\ UNCHANGED <<registry, roles, routes, rules, req, at, raced>>
        /\ st[w] = "run" /\ Step(w) \in Locking
    BY <1>e DEF Enter, store, ghosts, Locking
  <2>2. Standing(s) /\ OthersSame(w)
    BY <1>e, <1>1, <2>1 DEF Enter, Become, Typed, OthersSame
  <2>3. ServiceSame(s)  BY <2>1 DEF ServiceSame
  <2>4. CASE ~On(s, w)  BY <2>1, <2>2, <2>3, <2>4, Away
  <2>5. CASE On(s, w)
    <3>1. Progress(s, w) /\ PerService(s)  BY <2>2, <2>5 DEF Standing, PerService
    <3>2. Op(w)' = Op(w) /\ Lock(w)' = Lock(w) /\ Rule(w)' = Rule(w)  BY <2>1, SameSection
    <3>3. \A i : Clean(i)' = Clean(i)  BY <2>1 DEF Clean
    <3>4. CASE Step(w) = "groups"
      <4>1. ~InRules(w)'  BY <3>2, <3>4 DEF InRules, Lock
      <4>2. Progress(s, w)'  BY <2>1, <3>1, <3>2, <3>3, <4>1 DEF Progress, Dismantled
      <4>. QED  BY <2>2, <2>3, <2>5, <3>1, <4>2, Here, SameRemains
    <3>5. CASE Step(w) # "groups"
      <4>. DEFINE R == [rules EXCEPT ![Rule(w)] = IF NewRule(w) = "same" THEN @ ELSE NewRule(w)]
      <4>1. /\ snap' = [snap EXCEPT ![w] = [NoSnap EXCEPT !.rules = R]]
            /\ left' = [left EXCEPT ![w] = IF NewRule(w) = "same" THEN {} ELSE {Rule(w)}]
        BY <1>e, <3>5 DEF Enter
      <4>2. Rule(w) \in RuleIds  BY <2>1, <3>5, StepShape DEF Locking
      <4>3. NewRule(w) # "same" => R[Rule(w)] = NewRule(w)  BY <4>2 DEF Typed
      <4>. HIDE DEF R
      <4>4. [NoSnap EXCEPT !.rules = R].rules = R  BY DEF NoSnap
      <4>5. snap'[w].rules = R  BY <4>1, <4>4 DEF Typed
      <4>6. left'[w] = IF NewRule(w) = "same" THEN {} ELSE {Rule(w)}  BY <4>1 DEF Typed
      <4>7. Op(w) \in RuleOps \cup {"delete"} => NewRule(w) \in {"none", "custom", "same"}
        BY DEF NewRule, RuleOps, Creates
      <4>8. Op(w) = "delete" /\ NewRule(w) = "same" => Clean(Rule(w))
        BY DEF NewRule, Creates, Clean
      <4>9. left'[w] # {} /\ Op(w) \in RuleOps \cup {"delete"}
              => snap'[w].rules[Rule(w)] \notin {"made", "edited"}
        BY <4>3, <4>5, <4>6, <4>7
      <4>10. left'[w] = {} /\ Op(w) = "delete" => Clean(Rule(w))
        BY <4>6, <4>8
      <4>11. Progress(s, w)'
        BY <2>1, <3>1, <3>2, <3>3, <4>9, <4>10 DEF Progress, Dismantled
      <4>. QED  BY <2>2, <2>3, <2>5, <3>1, <4>11, Here, SameRemains
    <3>. QED  BY <3>4, <3>5
  <2>. QED  BY <2>4, <2>5
<1>f. ASSUME NEW w \in Workers, WriteRules(w) PROVE PerService(s)'
  <2>1. /\ UNCHANGED <<registry, roles, routes, req, at, st, snap, raced>>
        /\ st[w] = "inside" /\ Lock(w) = "rules" /\ left[w] # {}
        /\ rules' = snap[w].rules /\ left' = [left EXCEPT ![w] = {}]
    BY <1>f DEF WriteRules
  <2>2. Standing(s) /\ OthersSame(w)  BY <1>1, <2>1 DEF OthersSame, Typed
  <2>3. w \notin tainted  BY <2>1, <2>2 DEF Standing, TaintInv
  <2>4. \A i \in RuleIds : i # Rule(w) => rules'[i] = rules[i]
    BY <2>1, <2>3 DEF SectionInv, RulesKnown
  <2>5. Rule(w) \in RuleIds /\ Rule(w)[1] \in Target(req[w])
    BY <2>1, <2>2, InRulesShape DEF InRules, Standing
  <2>6. CASE ~On(s, w)
    <3>1. Rule(w)[1] # s  BY <2>1, <2>5, <2>6 DEF On
    <3>2. ServiceSame(s)  BY <2>1, <2>4, <3>1 DEF ServiceSame
    <3>. QED  BY <2>1, <2>2, <2>6, <3>2, Away
  <2>7. CASE On(s, w)
    <3>1. Progress(s, w) /\ Remains(s)  BY <2>2, <2>7 DEF Standing, PerService
    <3>2. Op(w)' = Op(w) /\ Rule(w)' = Rule(w)  BY <2>1, SameSection
    <3>3. Step(w) \in {"main", "health", "rule"} /\ Op(w) \in ServiceOps \cup RuleOps
      BY <2>1, <2>2, InRulesShape, StepShape, ScriptShape DEF InRules, Step, Standing
    <3>4. Op(w) \in RuleOps \cup {"delete"} => Clean(Rule(w))'
      BY <2>1, <3>1, <3>2 DEF Progress, InRules, Clean
    <3>5. Op(w) = "delete" => \A i \in RuleIds : Clean(i) => Clean(i)'
      BY <2>4, <3>2, <3>4 DEF Clean
    <3>6. Op(w) = "delete" => Dismantled(s, w)'
      BY <1>0, <2>1, <3>1, <3>5 DEF Progress, Dismantled
    <3>7. left'[w] = {}  BY <2>1 DEF Typed
    <3>8. Progress(s, w)'  BY <2>1, <3>1, <3>2, <3>4, <3>6, <3>7 DEF Progress
    <3>9. CASE Op(w) \in ServiceOps
      <4>1. s \in registry  BY <2>2, <2>7, <3>3, <3>9, Registered
      <4>2. Remains(s)'  BY <2>1, <4>1 DEF Remains
      <4>. QED  BY <2>2, <2>7, <3>8, <4>2, Here
    <3>10. CASE Op(w) \in RuleOps
      <4>1. \A i \in RuleIds : ~Clean(i)' => ~Clean(i)
        BY <2>4, <3>2, <3>4, <3>10 DEF Clean
      <4>2. Remains(s)'  BY <2>1, <3>1, <4>1 DEF Remains
      <4>. QED  BY <2>2, <2>7, <3>8, <4>2, Here
    <3>. QED  BY <3>3, <3>9, <3>10
  <2>. QED  BY <2>6, <2>7
<1>g. ASSUME NEW w \in Workers, WriteGroup(w) PROVE PerService(s)'
  <2>1. /\ UNCHANGED <<registry, roles, routes, rules, req, at, st, snap, raced>>
        /\ st[w] = "inside" /\ Lock(w) = "groups"
        /\ \E x : left' = [left EXCEPT ![w] = x]
    BY <1>g DEF WriteGroup
  <2>2. Standing(s) /\ OthersSame(w)  BY <1>1, <2>1 DEF OthersSame, Typed
  <2>3. ServiceSame(s)  BY <2>1 DEF ServiceSame
  <2>4. CASE ~On(s, w)  BY <2>1, <2>2, <2>3, <2>4, Away
  <2>5. CASE On(s, w)
    <3>1. Progress(s, w) /\ PerService(s)  BY <2>2, <2>5 DEF Standing, PerService
    <3>2. Op(w)' = Op(w) /\ ~InRules(w)'  BY <2>1, SameSection DEF InRules
    <3>3. Progress(s, w)'  BY <2>1, <3>1, <3>2 DEF Progress, Dismantled, Clean
    <3>. QED  BY <2>2, <2>3, <2>5, <3>1, <3>3, Here, SameRemains
  <2>. QED  BY <2>4, <2>5
\* What a section of w, done or given up, leaves registered.
<1>2. ASSUME NEW w \in Workers, Standing(s), On(s, w), Step(w) \in Locking, UNCHANGED registry
      PROVE  Op(w) \in ServiceOps => s \in registry'
  BY <1>2, Registered DEF Locking
<1>h. ASSUME NEW w \in Workers, Leave(w) PROVE PerService(s)'
  <2>1. /\ UNCHANGED <<registry, roles, routes, rules, req, snap, left, raced>>
        /\ st[w] = "inside" /\ left[w] = {} /\ Advance(w)
    BY <1>h DEF Leave, store
  <2>2. Standing(s) /\ OthersSame(w)  BY <1>1, <2>1, AdvanceTyped DEF OthersSame
  <2>3. ServiceSame(s)  BY <2>1 DEF ServiceSame
  <2>4. CASE ~On(s, w)  BY <2>1, <2>2, <2>3, <2>4, Away
  <2>5. CASE On(s, w)
    <3>1. Progress(s, w) /\ PerService(s)  BY <2>2, <2>5 DEF Standing, PerService
    <3>2. Step(w) \in Locking  BY <2>1, <2>2 DEF Standing, TaintInv
    <3>3. Op(w) \in ServiceOps => s \in registry'  BY <1>2, <2>1, <2>2, <2>5, <3>2
    <3>4. ASSUME Op(w) = "delete"
          PROVE  /\ at[w] \in {1, 2, 3}
                 /\ at[w] >= 2 => Clean(<<s, "main">>)'
                 /\ at[w] >= 3 => Clean(<<s, "health">>)'
      <4>1. Dismantled(s, w)  BY <3>1, <3>4 DEF Progress
      <4>2. at[w] \in 1 .. 6  BY <3>4, DeletePlace
      <4>3. at[w] # 4 /\ at[w] # 5 /\ at[w] # 6  BY <3>2, <3>4, DeletePlace DEF Locking
      <4>4. at[w] \in {1, 2, 3}  BY <4>2, <4>3
      <4>5. ASSUME Step(w) \in {"main", "health"} PROVE Clean(<<s, Step(w)>>)
        <5>1. Lock(w) = "rules"  BY <4>5 DEF Lock
        <5>2. Clean(Rule(w))  BY <2>1, <3>1, <3>4, <5>1 DEF Progress, InRules
        <5>3. Op(w) \in ServiceOps  BY <3>4 DEF ServiceOps
        <5>4. Rule(w) = <<s, Step(w)>>  BY <2>5, <4>5, <5>3, RuleInTarget DEF On
        <5>. QED  BY <5>2, <5>4
      <4>6. at[w] = 2 => Clean(<<s, "main">>)  BY <3>4, <4>5, DeletePlace
      <4>7. at[w] = 3 => Clean(<<s, "health">>)  BY <3>4, <4>5, DeletePlace
      <4>. QED  BY <2>1, <4>1, <4>4, <4>6, <4>7 DEF Dismantled, Clean
    <3>5. Remains(s)'  BY <2>3, <3>1, SameRemains
    <3>. QED  BY <2>1, <2>2, <2>5, <3>3, <3>4, <3>5, MovesOn
  <2>. QED  BY <2>4, <2>5
<1>i. ASSUME NEW w \in Workers, Busy(w) \/ Fail(w) PROVE PerService(s)'
  <2>1. /\ UNCHANGED <<registry, roles, routes, rules, req, snap, raced>>
        /\ st[w] \in {"run", "inside"} /\ Throw(w)
        /\ \A v \in Workers \ {w} : left'[v] = left[v]
    BY <1>i DEF Busy, Fail, store, ghosts, Typed
  <2>2. Standing(s) /\ OthersSame(w)  BY <1>1, <2>1, ThrowTyped DEF OthersSame
  <2>3. ServiceSame(s)  BY <2>1 DEF ServiceSame
  <2>4. CASE ~On(s, w)  BY <2>1, <2>2, <2>3, <2>4, Away
  <2>5. CASE On(s, w) /\ Swallows(w)
    <3>1. Advance(w) /\ Op(w) \in Creates /\ Step(w) \in Locking
      BY <2>1, <2>5 DEF Throw, Swallows, Locking
    <3>2. Op(w) \in ServiceOps => s \in registry'  BY <1>2, <2>1, <2>2, <2>5, <3>1
    <3>3. Op(w) # "delete"  BY <3>1 DEF Creates
    <3>4. Remains(s)'  BY <2>2, <2>3, SameRemains DEF Standing
    <3>. QED  BY <2>2, <2>5, <3>1, <3>2, <3>3, <3>4, MovesOn
  <2>6. CASE On(s, w) /\ ~Swallows(w)
    <3>1. ~On(s, w)'  BY <2>1, <2>6 DEF Throw, Become, On, Typed
    <3>2. Remains(s)'  BY <2>2, <2>3, SameRemains DEF Standing
    <3>. QED  BY <2>2, <2>6, <3>1, <3>2, Here
  <2>. QED  BY <2>4, <2>5, <2>6
<1>j. ASSUME NEW w \in Workers, Crash(w) PROVE PerService(s)'
  <2>1. /\ UNCHANGED <<registry, roles, routes, rules, req, at, snap, left, raced>>
        /\ st[w] \in {"run", "inside"} /\ st' = [st EXCEPT ![w] = "crashed"]
    BY <1>j DEF Crash, Become, store, local
  <2>2. Standing(s) /\ OthersSame(w)  BY <1>1, <2>1 DEF OthersSame, Typed
  <2>3. ServiceSame(s)  BY <2>1 DEF ServiceSame
  <2>4. CASE ~On(s, w)  BY <2>1, <2>2, <2>3, <2>4, Away
  <2>5. CASE On(s, w)
    <3>1. ~On(s, w)'  BY <2>1 DEF On, Typed
    <3>2. Remains(s)'  BY <2>2, <2>3, SameRemains DEF Standing
    <3>. QED  BY <2>2, <2>5, <3>1, <3>2, Here
  <2>. QED  BY <2>4, <2>5
<1>k. ASSUME NEW w \in Workers, NEW l \in {"groups", "rules"}, Lapse(w, l) PROVE PerService(s)'
  <2>1. st[w] # "inside"  BY <1>k DEF Lapse
  <2>2. UNCHANGED <<registry, roles, routes, rules, st, req, at, snap, left, raced>>
    BY <1>k, <2>1 DEF Lapse, store, local, ghosts
  <2>3. PerService(s)  BY <2>2 DEF RemainsInv
  <2>4. \A v \in Workers : On(s, v)' => On(s, v)  BY <2>2 DEF On
  <2>. QED  BY <1>0, <2>2, <2>3, <2>4, Foreign
<1>. QED
  BY <1>a, <1>b, <1>c, <1>d, <1>e, <1>f, <1>g, <1>h, <1>i, <1>j, <1>k DEF Next

\* createService writes the registry entry first and deleteService removes it
\* last: whatever fails, stops half-way or dies, and in whatever order requests
\* come, a service of which anything is left is registered, as long as no two
\* operations were at work on it at once.
THEOREM RemainsRegistered == Spec => []RemainsAreRegistered
<1>1. Init => Typed /\ SectionInv /\ RemainsInv  BY InitTyped, InitSections, InitRemains
<1>2. Typed /\ SectionInv /\ RemainsInv /\ [Next]_vars => (Typed /\ SectionInv /\ RemainsInv)'
  BY StepTyped, StepSections, StepRemains
<1>3. Typed /\ SectionInv /\ RemainsInv => RemainsAreRegistered  BY RemainsInvImplies
<1>. QED  BY <1>1, <1>2, <1>3, PTL DEF Spec

-----------------------------------------------------------------------------
(* What an operation that overlaps no other one has done when it answers.   *)

Whole == Creates \cup {"delete"}

\* The part of a creation that is done.
Built(w) ==
  LET s == req[w].svc IN
  /\ at[w] > 1 => s \in registry
  /\ at[w] > 2 => s \in roles
  /\ at[w] > 3 => s \in routes
  /\ st[w] = "inside" /\ Step(w) = "groups" =>
       \A g \in Groups : g \in groups \cap DefaultGroups => g \in left[w] \/ <<g, s>> \in binds

\* The part of a deletion that is done, whoever wrote what it removes.
Cleared(w) ==
  LET s == req[w].svc IN
  /\ at[w] > 1 => \A g \in Groups : <<g, s>> \notin binds
  /\ at[w] > 2 => rules[<<s, "main">>] = "none"
  /\ at[w] > 3 => rules[<<s, "health">>] = "none"
  /\ at[w] > 4 => s \notin roles
  /\ at[w] > 5 => s \notin routes
  /\ st[w] = "inside" /\ Step(w) = "groups" =>
       \A g \in Groups : <<g, s>> \in binds => g \in left[w]
  /\ st[w] = "inside" /\ Step(w) \in {"main", "health"} =>
       IF left[w] = {} THEN rules[<<s, Step(w)>>] = "none"
                       ELSE snap[w].rules[<<s, Step(w)>>] = "none"

\* Nobody else is at work on the data of w.
Apart(w) == \A v \in Workers \ {w} : v \in Active => ~Overlap(req[w], req[v])

Undisturbed(w) ==
  /\ tainted = {} /\ Apart(w)
  /\ Op(w) \in Creates => Built(w)
  /\ Op(w) = "delete" => Cleared(w)

WholeInv == \A w \in Workers \ shared : w \in Active /\ Op(w) \in Whole => Undisturbed(w)

\* Where a creation stands.
LEMMA CreateScript ==
  ASSUME NEW op \in Creates, NEW i \in 1 .. Len(Steps(op))
  PROVE  /\ Steps(op)[i] = "registry" <=> i = 1
         /\ Steps(op)[i] = "roles" <=> i = 2
         /\ Steps(op)[i] = "routes" <=> i = 3
         /\ Steps(op)[i] = "groups" <=> i = Len(Steps(op))
         /\ Steps(op)[i] \notin {"rule", "group"}
         /\ Len(Steps(op)) \in {5, 6}
<1>. DEFINE D == Steps(op)
<1>1. CASE op = "create"
  <2>1. /\ Len(D) = 6 /\ D[1] = "registry" /\ D[2] = "roles" /\ D[3] = "routes"
        /\ D[4] = "main" /\ D[5] = "health" /\ D[6] = "groups"
    BY <1>1 DEF Steps, RuleOps, GroupOps
  <2>. HIDE DEF D
  <2>2. i \in 1 .. 6  BY <2>1 DEF D
  <2>3. i = 1 \/ i = 2 \/ i = 3 \/ i = 4 \/ i = 5 \/ i = 6  BY <2>2
  <2>4. CASE i = 1  BY <2>1, <2>4 DEF D
  <2>5. CASE i = 2  BY <2>1, <2>5 DEF D
  <2>6. CASE i = 3  BY <2>1, <2>6 DEF D
  <2>7. CASE i = 4  BY <2>1, <2>7 DEF D
  <2>8. CASE i = 5  BY <2>1, <2>8 DEF D
  <2>9. CASE i = 6  BY <2>1, <2>9 DEF D
  <2>. QED  BY <2>3, <2>4, <2>5, <2>6, <2>7, <2>8, <2>9
<1>2. CASE op = "createAt"
  <2>1. /\ Len(D) = 5 /\ D[1] = "registry" /\ D[2] = "roles" /\ D[3] = "routes"
        /\ D[4] = "main" /\ D[5] = "groups"
    BY <1>2 DEF Steps, RuleOps, GroupOps
  <2>. HIDE DEF D
  <2>2. i \in 1 .. 5  BY <2>1 DEF D
  <2>3. i = 1 \/ i = 2 \/ i = 3 \/ i = 4 \/ i = 5  BY <2>2
  <2>4. CASE i = 1  BY <2>1, <2>4 DEF D
  <2>5. CASE i = 2  BY <2>1, <2>5 DEF D
  <2>6. CASE i = 3  BY <2>1, <2>6 DEF D
  <2>7. CASE i = 4  BY <2>1, <2>7 DEF D
  <2>8. CASE i = 5  BY <2>1, <2>8 DEF D
  <2>. QED  BY <2>3, <2>4, <2>5, <2>6, <2>7, <2>8
<1>. QED  BY <1>1, <1>2 DEF Creates

LEMMA CreatePlace ==
  ASSUME Typed, NEW w \in Workers, Op(w) \in Creates
  PROVE  /\ at[w] \in 1 .. 6 /\ Len(Steps(Op(w))) \in {5, 6}
         /\ Step(w) = "registry" <=> at[w] = 1
         /\ Step(w) = "roles" <=> at[w] = 2
         /\ Step(w) = "routes" <=> at[w] = 3
         /\ Step(w) = "groups" <=> at[w] = Len(Steps(Op(w)))
         /\ Step(w) \notin {"rule", "group"}
<1>1. at[w] \in 1 .. Len(Steps(Op(w))) /\ at[w] \in 1 .. 6  BY StepShape DEF Typed
<1>. QED  BY <1>1, CreateScript DEF Step

\* The service of such an operation and its rules.
LEMMA WholeShape ==
  ASSUME Typed, NEW w \in Workers, Op(w) \in Whole
  PROVE  /\ Op(w) \in ServiceOps /\ Op(w) \notin RuleOps \cup GroupOps
         /\ req[w].svc \in Services /\ Target(req[w]) = {req[w].svc} /\ req[w].op = Op(w)
         /\ \A x \in {"main", "health"} :
              <<req[w].svc, x>> \in RuleIds /\ <<req[w].svc, x>>[1] = req[w].svc
         /\ Step(w) \in {"main", "health"} => Rule(w) = <<req[w].svc, Step(w)>>
         /\ Step(w) \notin {"rule", "group"}
<1>1. Op(w) \in ServiceOps /\ Op(w) \notin RuleOps \cup GroupOps
  BY DEF Whole, Creates, ServiceOps, RuleOps, GroupOps
<1>2. req[w] \in Requests /\ req[w].op = Op(w)  BY DEF Typed, Op
<1>3. req[w].svc \in Services  BY <1>1, <1>2, RequestShape
<1>4. Step(w) \notin {"rule", "group"}  BY <1>1, StepShape, ScriptShape DEF Step
<1>5. \A x \in {"main", "health"} :
        <<req[w].svc, x>> \in RuleIds /\ <<req[w].svc, x>>[1] = req[w].svc
  BY <1>3 DEF RuleIds
<1>. QED  BY <1>1, <1>2, <1>3, <1>4, <1>5, RuleInTarget

\* What a step leaves alone of the data of s.
DataSame(s) ==
  /\ ServiceSame(s) /\ groups' = groups
  /\ \A g \in Groups : <<g, s>> \in binds' <=> <<g, s>> \in binds

\* Of the others, those that are at work were so before, or do not overlap with u.
StaysApart(u) ==
  \A v \in Workers \ {u} : v \in Active' =>
    (v \in Active /\ req'[v] = req[v]) \/ ~Overlap(req[u], req'[v])

\* A step that leaves u and its data alone.
LEMMA Bystander ==
  ASSUME Typed, NEW u \in Workers, Op(u) \in Whole, Undisturbed(u),
         st'[u] = st[u], req'[u] = req[u], at'[u] = at[u], snap'[u] = snap[u], left'[u] = left[u],
         tainted' = {}, StaysApart(u), DataSame(req[u].svc)
  PROVE  Undisturbed(u)'
<1>1. Op(u)' = Op(u) /\ Step(u)' = Step(u)  BY SameSection
<1>2. Apart(u)'  BY DEF Undisturbed, Apart, StaysApart
<1>3. ASSUME Op(u) \in Creates PROVE Built(u)'
  <2>1. Built(u)  BY <1>3 DEF Undisturbed
  <2>. QED  BY <1>1, <2>1 DEF Built, DataSame, ServiceSame
<1>4. ASSUME Op(u) = "delete" PROVE Cleared(u)'
  <2>1. Cleared(u)  BY <1>4 DEF Undisturbed
  <2>2. \A x \in {"main", "health"} : rules'[<<req[u].svc, x>>] = rules[<<req[u].svc, x>>]
    BY WholeShape DEF DataSame, ServiceSame
  <2>. QED  BY <1>1, <2>1, <2>2 DEF Cleared, DataSame, ServiceSame
<1>. QED  BY <1>1, <1>2, <1>3, <1>4 DEF Undisturbed

\* u goes on to the next step of its script.
LEMMA NextStep ==
  ASSUME Typed, NEW u \in Workers, Op(u) \in Whole, Advance(u), OthersSame(u), Apart(u),
         u \in Active', tainted' = {},
         Op(u) \in Creates => /\ at[u] >= 1 => req[u].svc \in registry'
                              /\ at[u] >= 2 => req[u].svc \in roles'
                              /\ at[u] >= 3 => req[u].svc \in routes',
         Op(u) = "delete" =>
           /\ \A g \in Groups : <<g, req[u].svc>> \notin binds'
           /\ at[u] >= 2 => rules'[<<req[u].svc, "main">>] = "none"
           /\ at[u] >= 3 => rules'[<<req[u].svc, "health">>] = "none"
           /\ at[u] >= 4 => req[u].svc \notin roles'
           /\ at[u] >= 5 => req[u].svc \notin routes'
  PROVE  Undisturbed(u)'
<1>1. req' = req /\ Op(u)' = Op(u)  BY DEF OthersSame, Op
<1>2. st'[u] = "run" /\ at'[u] = at[u] + 1 /\ at[u] \in 1 .. 6
  <2>1. st'[u] = "run"  BY <1>1, AdvanceTyped DEF Active
  <2>2. at[u] < Len(Steps(Op(u)))  BY <2>1 DEF Advance, Become, Typed
  <2>. QED  BY <2>1, <2>2 DEF Advance, Typed
<1>3. Apart(u)'  BY <1>1 DEF Apart, OthersSame, Active
<1>4. Op(u) \in Creates => Built(u)'  BY <1>1, <1>2 DEF Built
<1>5. Op(u) = "delete" => Cleared(u)'  BY <1>1, <1>2 DEF Cleared
<1>. QED  BY <1>1, <1>3, <1>4, <1>5 DEF Undisturbed

\* Who works beside u works on something else.
LEMMA Strangers ==
  ASSUME Typed, NEW u \in Workers, Op(u) \in Whole, Undisturbed(u),
         NEW w \in Workers, w # u, w \in Active
  PROVE  /\ Op(w) \notin GroupOps /\ req[u].svc \notin Target(req[w])
         /\ w \notin tainted
<1>1. ~Overlap(req[u], req[w])  BY DEF Undisturbed, Apart
<1>2. req[u].op \in Whole /\ req[w].op = Op(w) /\ Target(req[u]) = {req[u].svc}
  BY WholeShape DEF Op
<1>. QED  BY <1>1, <1>2 DEF Overlap, Undisturbed, Whole

\* A step of such a worker.
LEMMA StrangersStep ==
  ASSUME Typed, SectionInv, TaintInv, NEW u \in Workers, Op(u) \in Whole, Undisturbed(u),
         NEW w \in Workers, w # u,
         \/ WriteService(w) \/ EditGroup(w) \/ Enter(w) \/ WriteRules(w) \/ WriteGroup(w)
         \/ Leave(w) \/ Busy(w) \/ Fail(w) \/ Crash(w)
  PROVE  Undisturbed(u)'
<1>. DEFINE s == req[u].svc
<1>1. w \in Active
  BY DEF WriteService, EditGroup, Enter, WriteRules, WriteGroup, Leave, Busy, Fail, Crash, Active
<1>2. Op(w) \notin GroupOps /\ s \notin Target(req[w]) /\ w \notin tainted /\ tainted = {}
  BY <1>1, Strangers DEF Undisturbed
<1>3. ASSUME OthersSame(w), tainted' = {}, DataSame(s) PROVE Undisturbed(u)'
  <2>1. StaysApart(u)  BY <1>1, <1>3 DEF StaysApart, OthersSame, Active
  <2>. QED  BY <1>3, <2>1, Bystander DEF OthersSame
<1>a. CASE WriteService(w)
  <2>1. /\ Advance(w) /\ UNCHANGED <<rules, groups, binds, req, snap, left, tainted>>
        /\ Step(w) \in {"registry", "roles", "routes"}
    BY <1>a DEF WriteService, ghosts
  <2>2. OthersSame(w)  BY <2>1, AdvanceTyped DEF OthersSame
  <2>3. req[w].svc # s
    <3>1. Op(w) \in ServiceOps  BY <2>1, StepShape, ScriptShape DEF Step
    <3>. QED  BY <1>2, <3>1, RuleInTarget
  <2>4. DataSame(s)  BY <1>a, <2>1, <2>3 DEF WriteService, Toggle, DataSame, ServiceSame
  <2>. QED  BY <1>2, <1>3, <2>1, <2>2, <2>4
<1>b. CASE EditGroup(w)
  <2>1. Step(w) = "group"  BY <1>b DEF EditGroup
  <2>. QED  BY <1>2, <2>1, StepShape
<1>c. CASE Enter(w)
  <2>1. UNCHANGED <<registry, roles, routes, rules, groups, binds, req, at, tainted>>
    BY <1>c DEF Enter, store, ghosts
  <2>2. OthersSame(w)  BY <1>c, <2>1 DEF Enter, Become, Typed, OthersSame
  <2>3. DataSame(s)  BY <2>1 DEF DataSame, ServiceSame
  <2>. QED  BY <1>2, <1>3, <2>1, <2>2, <2>3
<1>d. CASE WriteRules(w)
  <2>1. /\ UNCHANGED <<registry, roles, routes, groups, binds, st, req, at, snap>>
        /\ st[w] = "inside" /\ Lock(w) = "rules" /\ left[w] # {}
        /\ rules' = snap[w].rules /\ left' = [left EXCEPT ![w] = {}]
        /\ tainted' = tainted \cup Spoiled(w)
    BY <1>d DEF WriteRules
  <2>2. OthersSame(w)  BY <2>1 DEF OthersSame, Typed
  <2>3. \A i \in RuleIds : i # Rule(w) => rules'[i] = rules[i]
    BY <1>2, <2>1 DEF SectionInv, RulesKnown
  <2>4. Rule(w)[1] # s  BY <1>2, <2>1, InRulesShape DEF InRules
  <2>5. DataSame(s)  BY <2>1, <2>3, <2>4 DEF DataSame, ServiceSame
  <2>. QED  BY <1>2, <1>3, <2>1, <2>2, <2>5 DEF Spoiled
<1>e. CASE WriteGroup(w)
  <2>1. /\ UNCHANGED <<registry, roles, routes, rules, st, req, at, snap>>
        /\ st[w] = "inside" /\ Lock(w) = "groups" /\ tainted' = tainted \cup Spoiled(w)
    BY <1>e DEF WriteGroup
  <2>2. PICK g \in left[w] :
          /\ left' = [left EXCEPT ![w] = @ \ {g}]
          /\ \A h \in Groups, x \in Services : <<h, x>> \in binds' <=>
               IF h = g /\ x = req[w].svc THEN Op(w) # "delete" ELSE <<h, x>> \in binds
    BY <1>2, <1>e, GroupWritten
  <2>3. groups' = groups  BY <1>2, <1>e, GroupWritten
  <2>4. OthersSame(w)  BY <2>1, <2>2 DEF OthersSame, Typed
  <2>5. Step(w) = "groups" /\ Op(w) \in ServiceOps
    <3>1. Step(w) = "groups"  BY <2>1 DEF Lock
    <3>. QED  BY <3>1, StepShape DEF Creates, ServiceOps
  <2>6. req[w].svc # s /\ s \in Services  BY <1>2, <2>5, RuleInTarget, WholeShape
  <2>7. DataSame(s)  BY <2>1, <2>2, <2>3, <2>6 DEF DataSame, ServiceSame
  <2>. QED  BY <1>2, <1>3, <2>1, <2>4, <2>7 DEF Spoiled
<1>f. CASE Leave(w) \/ Busy(w) \/ Fail(w) \/ Crash(w)
  <2>1. /\ UNCHANGED <<registry, roles, routes, rules, groups, binds, req, snap>>
        /\ tainted' \subseteq tainted
        /\ \A v \in Workers \ {w} : left'[v] = left[v]
    BY <1>f DEF Leave, Busy, Fail, Crash, store, local, ghosts, Typed
  <2>2. \A v \in Workers \ {w} : st'[v] = st[v] /\ at'[v] = at[v]
    <3>1. CASE Leave(w)  BY <3>1, AdvanceTyped DEF Leave
    <3>2. CASE Busy(w) \/ Fail(w)  BY <3>2, ThrowTyped DEF Busy, Fail
    <3>3. CASE Crash(w)  BY <3>3 DEF Crash, Become, local, Typed
    <3>. QED  BY <1>f, <3>1, <3>2, <3>3
  <2>3. OthersSame(w) /\ DataSame(s)  BY <2>1, <2>2 DEF OthersSame, DataSame, ServiceSame
  <2>. QED  BY <1>2, <1>3, <2>1, <2>3
<1>. QED  BY <1>a, <1>b, <1>c, <1>d, <1>e, <1>f

\* A step of u itself.
LEMMA OwnStep ==
  ASSUME Typed, SectionInv, TaintInv, NEW u \in Workers, Op(u) \in Whole, Undisturbed(u),
         u \in Active',
         \/ WriteService(u) \/ EditGroup(u) \/ Enter(u) \/ WriteRules(u) \/ WriteGroup(u)
         \/ Leave(u) \/ Busy(u) \/ Fail(u) \/ Crash(u)
  PROVE  Undisturbed(u)'
<1>. DEFINE s == req[u].svc
<1>0. /\ tainted = {} /\ Apart(u)
      /\ Op(u) \in Creates => Built(u) /\ Op(u) # "delete"
      /\ Op(u) = "delete" => Cleared(u) /\ Op(u) \notin Creates
  BY DEF Undisturbed, Creates
<1>1. ASSUME OthersSame(u), tainted' = {} PROVE Op(u)' = Op(u) /\ Apart(u)'
  BY <1>0, <1>1 DEF OthersSame, Apart, Active, Op
<1>a. CASE WriteService(u)
  <2>1. /\ Advance(u) /\ UNCHANGED <<rules, groups, binds, req, snap, left, tainted>>
        /\ Step(u) \in {"registry", "roles", "routes"}
    BY <1>a DEF WriteService, ghosts
  <2>2. OthersSame(u)  BY <2>1, AdvanceTyped DEF OthersSame
  <2>3. ASSUME Op(u) \in Creates
        PROVE  /\ at[u] >= 1 => s \in registry'
               /\ at[u] >= 2 => s \in roles'
               /\ at[u] >= 3 => s \in routes'
    <3>1. Built(u) /\ Op(u) # "delete"  BY <1>0, <2>3
    <3>2. \/ at[u] = 1 /\ registry' = registry \cup {s}
          \/ at[u] = 2 /\ roles' = roles \cup {s} /\ UNCHANGED registry
          \/ at[u] = 3 /\ routes' = routes \cup {s} /\ UNCHANGED <<registry, roles>>
      BY <1>a, <2>1, <2>3, <3>1, CreatePlace DEF WriteService, Toggle
    <3>. QED  BY <3>1, <3>2 DEF Built
  <2>4. ASSUME Op(u) = "delete"
        PROVE  /\ \A g \in Groups : <<g, s>> \notin binds'
               /\ at[u] >= 2 => rules'[<<s, "main">>] = "none"
               /\ at[u] >= 3 => rules'[<<s, "health">>] = "none"
               /\ at[u] >= 4 => s \notin roles'
               /\ at[u] >= 5 => s \notin routes'
    <3>1. Cleared(u)  BY <1>0, <2>4
    <3>2. \/ at[u] = 4 /\ roles' = roles \ {s}
          \/ at[u] = 5 /\ routes' = routes \ {s} /\ UNCHANGED roles
          \/ at[u] = 6 /\ UNCHANGED <<roles, routes>>
      BY <1>a, <2>1, <2>4, DeletePlace DEF WriteService, Toggle
    <3>. QED  BY <2>1, <3>1, <3>2 DEF Cleared
  <2>. QED  BY <1>0, <2>1, <2>2, <2>3, <2>4, NextStep
<1>b. CASE EditGroup(u)
  BY <1>b, WholeShape DEF EditGroup
<1>c. CASE Enter(u)
  <2>1. /\ UNCHANGED <<registry, roles, routes, rules, groups, binds, req, at, tainted>>
        /\ st' = [st EXCEPT ![u] = "inside"] /\ Step(u) \in Locking
    BY <1>c DEF Enter, Become, store, ghosts, Locking
  <2>2. OthersSame(u) /\ st'[u] = "inside"
    BY <1>c, <2>1 DEF Enter, Typed, OthersSame
  <2>3. Op(u)' = Op(u) /\ Step(u)' = Step(u) /\ Apart(u)'  BY <1>0, <1>1, <2>1, <2>2, SameSection
  <2>4. Step(u) = "groups" => left'[u] = Affected(u)  BY <1>c DEF Enter, Typed
  <2>5. ASSUME Op(u) \in Creates PROVE Built(u)'
    <3>1. Built(u) /\ Op(u) # "delete"  BY <1>0, <2>5
    <3>2. Step(u) = "groups" => left'[u] = groups \cap DefaultGroups  BY <2>4, <3>1 DEF Affected
    <3>. QED  BY <2>1, <2>3, <3>1, <3>2 DEF Built
  <2>6. ASSUME Op(u) = "delete" PROVE Cleared(u)'
    <3>1. Cleared(u)  BY <1>0, <2>6
    <3>2. Step(u) = "groups" => \A g \in Groups : <<g, s>> \in binds => g \in left'[u]
      <4>1. ASSUME Step(u) = "groups" PROVE left'[u] = {g \in groups : <<g, s>> \in binds}
        BY <2>4, <2>6, <4>1 DEF Affected
      <4>2. \A g \in Groups : <<g, s>> \in binds => g \in groups  BY DEF Typed
      <4>. QED  BY <4>1, <4>2
    <3>3. ASSUME Step(u) \in {"main", "health"}
          PROVE  IF left'[u] = {} THEN rules[<<s, Step(u)>>] = "none"
                                  ELSE snap'[u].rules[<<s, Step(u)>>] = "none"
      <4>. DEFINE R == [rules EXCEPT ![Rule(u)] = IF NewRule(u) = "same" THEN @ ELSE NewRule(u)]
      <4>1. Step(u) # "groups" /\ Rule(u) = <<s, Step(u)>> /\ Rule(u) \in RuleIds
        BY <3>3, WholeShape
      <4>2. /\ snap' = [snap EXCEPT ![u] = [NoSnap EXCEPT !.rules = R]]
            /\ left' = [left EXCEPT ![u] = IF NewRule(u) = "same" THEN {} ELSE {Rule(u)}]
        BY <1>c, <4>1 DEF Enter
      <4>3. NewRule(u) # "same" => R[Rule(u)] = NewRule(u)  BY <4>1 DEF Typed
      <4>. HIDE DEF R
      <4>4. [NoSnap EXCEPT !.rules = R].rules = R  BY DEF NoSnap
      <4>5. snap'[u].rules = R  BY <4>2, <4>4 DEF Typed
      <4>6. left'[u] = IF NewRule(u) = "same" THEN {} ELSE {Rule(u)}  BY <4>2 DEF Typed
      <4>7. NewRule(u) = IF rules[Rule(u)] = "none" THEN "same" ELSE "none"
        BY <2>6 DEF NewRule, Creates
      <4>. QED  BY <4>1, <4>3, <4>5, <4>6, <4>7
    <3>. QED  BY <2>1, <2>3, <3>1, <3>2, <3>3 DEF Cleared
  <2>. QED  BY <1>0, <2>1, <2>3, <2>5, <2>6 DEF Undisturbed
<1>d. CASE WriteRules(u)
  <2>1. /\ UNCHANGED <<registry, roles, routes, groups, binds, st, req, at, snap>>
        /\ st[u] = "inside" /\ Lock(u) = "rules" /\ left[u] # {}
        /\ rules' = snap[u].rules /\ left' = [left EXCEPT ![u] = {}]
        /\ tainted' = tainted \cup Spoiled(u)
    BY <1>d DEF WriteRules
  <2>2. OthersSame(u) /\ left'[u] = {} /\ tainted' = {}
    BY <1>0, <2>1 DEF OthersSame, Typed, Spoiled
  <2>3. Op(u)' = Op(u) /\ Step(u)' = Step(u) /\ Apart(u)'  BY <1>1, <2>1, <2>2, SameSection
  <2>4. Step(u) \in {"main", "health"} /\ Rule(u) = <<s, Step(u)>>
    <3>1. Step(u) # "groups" /\ Step(u) \in Locking  BY <2>1 DEF Lock, TaintInv
    <3>. QED  BY <3>1, WholeShape DEF Locking
  <2>5. \A i \in RuleIds : i # <<s, Step(u)>> => rules'[i] = rules[i]
    BY <1>0, <2>1, <2>4 DEF SectionInv, RulesKnown
  <2>6. Op(u) \in Creates => Built(u)'
    BY <1>0, <2>1, <2>3, <2>4 DEF Built
  <2>7. ASSUME Op(u) = "delete" PROVE Cleared(u)'
    <3>1. Cleared(u)  BY <1>0, <2>7
    <3>2. rules'[<<s, Step(u)>>] = "none"  BY <2>1, <2>4, <3>1 DEF Cleared
    <3>3. \A x \in {"main", "health"} :
            rules[<<s, x>>] = "none" => rules'[<<s, x>>] = "none"
      BY <2>5, <3>2, WholeShape
    <3>. QED  BY <2>1, <2>2, <2>3, <2>4, <3>1, <3>2, <3>3 DEF Cleared
  <2>. QED  BY <2>2, <2>3, <2>6, <2>7 DEF Undisturbed
<1>e. CASE WriteGroup(u)
  <2>1. /\ UNCHANGED <<registry, roles, routes, rules, st, req, at, snap>>
        /\ st[u] = "inside" /\ Step(u) = "groups" /\ tainted' = tainted \cup Spoiled(u)
    BY <1>e DEF WriteGroup, Lock
  <2>2. PICK g \in left[u] :
          /\ left' = [left EXCEPT ![u] = @ \ {g}]
          /\ \A h \in Groups, x \in Services : <<h, x>> \in binds' <=>
               IF h = g /\ x = s THEN Op(u) # "delete" ELSE <<h, x>> \in binds
    BY <1>0, <1>e, GroupWritten
  <2>3. groups' = groups  BY <1>0, <1>e, GroupWritten
  <2>4. OthersSame(u) /\ left'[u] = left[u] \ {g} /\ tainted' = {}
    BY <1>0, <2>1, <2>2 DEF OthersSame, Typed, Spoiled
  <2>5. Op(u)' = Op(u) /\ Step(u)' = Step(u) /\ Apart(u)'  BY <1>1, <2>1, <2>4, SameSection
  <2>6. s \in Services  BY WholeShape
  <2>7. \A h \in Groups : <<h, s>> \in binds' <=> IF h = g THEN Op(u) # "delete" ELSE <<h, s>> \in binds
    BY <2>2, <2>6
  <2>8. ASSUME Op(u) \in Creates PROVE Built(u)'
    <3>1. Built(u) /\ Op(u) # "delete"  BY <1>0, <2>8
    <3>. QED  BY <2>1, <2>3, <2>4, <2>5, <2>7, <3>1 DEF Built
  <2>9. ASSUME Op(u) = "delete" PROVE Cleared(u)'
    <3>1. Cleared(u)  BY <1>0, <2>9
    <3>2. \A h \in Groups : <<h, s>> \in binds' => h # g /\ <<h, s>> \in binds
      BY <2>7, <2>9
    <3>. QED  BY <2>1, <2>4, <2>5, <3>1, <3>2 DEF Cleared
  <2>. QED  BY <2>4, <2>5, <2>8, <2>9 DEF Undisturbed
<1>f. CASE Leave(u)
  <2>1. /\ UNCHANGED <<registry, roles, routes, rules, groups, binds, req, snap, left>>
        /\ st[u] = "inside" /\ left[u] = {} /\ Advance(u) /\ tainted' = tainted \ {u}
    BY <1>f DEF Leave, store
  <2>2. OthersSame(u)  BY <2>1, AdvanceTyped DEF OthersSame
  <2>3. Step(u) \in Locking  BY <2>1 DEF TaintInv
  <2>4. ASSUME Op(u) \in Creates
        PROVE  /\ at[u] >= 1 => s \in registry
               /\ at[u] >= 2 => s \in roles
               /\ at[u] >= 3 => s \in routes
    <3>1. at[u] \in 1 .. 6 /\ at[u] # 1 /\ at[u] # 2 /\ at[u] # 3
      BY <2>3, <2>4, CreatePlace DEF Locking
    <3>. QED  BY <1>0, <2>4, <3>1 DEF Built
  <2>5. ASSUME Op(u) = "delete"
        PROVE  /\ \A g \in Groups : <<g, s>> \notin binds
               /\ at[u] >= 2 => rules[<<s, "main">>] = "none"
               /\ at[u] >= 3 => rules[<<s, "health">>] = "none"
               /\ at[u] < 4
    <3>1. Cleared(u)  BY <1>0, <2>5
    <3>2. at[u] \in 1 .. 6 /\ at[u] # 4 /\ at[u] # 5 /\ at[u] # 6
      BY <2>3, <2>5, DeletePlace DEF Locking
    <3>3. at[u] = 1 => Step(u) = "groups"  BY <2>3, <2>5, DeletePlace DEF Locking
    <3>4. at[u] = 2 => Step(u) = "main"  BY <2>5, DeletePlace
    <3>5. at[u] = 3 => Step(u) = "health"  BY <2>5, DeletePlace
    <3>. QED  BY <2>1, <3>1, <3>2, <3>3, <3>4, <3>5 DEF Cleared
  <2>6. at[u] \in 1 .. 6  BY DEF Typed
  <2>. QED  BY <1>0, <2>1, <2>2, <2>4, <2>5, <2>6, NextStep
<1>g. CASE Busy(u) \/ Fail(u)
  <2>1. /\ UNCHANGED <<registry, roles, routes, rules, groups, binds, req, snap>>
        /\ Throw(u) /\ tainted' \subseteq tainted
        /\ \A v \in Workers \ {u} : left'[v] = left[v]
    BY <1>g DEF Busy, Fail, store, ghosts, Typed
  <2>2. OthersSame(u)  BY <2>1, ThrowTyped DEF OthersSame
  <2>3. Swallows(u)
    <3>1. ASSUME ~Swallows(u) PROVE st'[u] = "failed"
      BY <2>1, <3>1 DEF Throw, Become, Typed
    <3>. QED  BY <3>1 DEF Active
  <2>4. Advance(u) /\ Op(u) \in Creates /\ Step(u) \in {"main", "health"}
    BY <2>1, <2>3 DEF Throw, Swallows
  <2>5. at[u] \in 1 .. 6 /\ at[u] # 1 /\ at[u] # 2 /\ at[u] # 3  BY <2>4, CreatePlace
  <2>6. s \in registry /\ s \in roles /\ s \in routes  BY <1>0, <2>4, <2>5 DEF Built
  <2>. QED  BY <1>0, <2>1, <2>2, <2>4, <2>6, NextStep
<1>h. CASE Crash(u)
  BY <1>h DEF Crash, Become, Active, Typed
<1>. QED  BY <1>a, <1>b, <1>c, <1>d, <1>e, <1>f, <1>g, <1>h

LEMMA InitWhole == Init => WholeInv
BY DEF Init, WholeInv, Active

LEMMA StepWhole == Typed /\ SectionInv /\ TaintInv /\ WholeInv /\ [Next]_vars => WholeInv'
<1>. SUFFICES ASSUME Typed, SectionInv, TaintInv, WholeInv, [Next]_vars,
                     NEW u \in Workers, u \notin shared', u \in Active', Op(u)' \in Whole
              PROVE  Undisturbed(u)'
  BY DEF WholeInv
<1>1. ASSUME u \notin shared, u \in Active, req'[u] = req[u]
      PROVE  Op(u) \in Whole /\ Undisturbed(u)
  BY <1>1 DEF WholeInv, Op
<1>a. CASE UNCHANGED vars
  <2>1. Op(u) \in Whole /\ Undisturbed(u)  BY <1>1, <1>a DEF vars, local, ghosts, Active
  <2>2. StaysApart(u) /\ DataSame(req[u].svc) /\ tainted' = {}
    BY <1>a, <2>1
    DEF vars, store, local, ghosts, StaysApart, Active, DataSame, ServiceSame, Undisturbed
  <2>. QED  BY <1>a, <2>1, <2>2, Bystander DEF vars, local
<1>b. ASSUME NEW w \in Workers, NEW r \in Requests, Begin(w, r) PROVE Undisturbed(u)'
  <2>. DEFINE others == {v \in Active : Overlap(r, req[v]) \/ v \in tainted}
  <2>1. /\ shared' = (shared \ {w}) \cup others \cup {v \in {w} : others # {}}
        /\ UNCHANGED <<registry, roles, routes, rules, groups, binds, snap, left, tainted>>
    BY <1>b DEF Begin, store
  <2>2. /\ st'[w] = "run" /\ req'[w] = r /\ at'[w] = 1 /\ w \notin Active
        /\ \A v \in Workers \ {w} : st'[v] = st[v] /\ req'[v] = req[v] /\ at'[v] = at[v]
    BY <1>b DEF Begin, Become, Active, Typed
  <2>3. CASE u = w
    <3>1. others = {}  BY <2>1, <2>3
    <3>2. tainted \subseteq Active  BY DEF TaintInv, Active, Typed
    <3>3. tainted' = {}  BY <2>1, <3>1, <3>2
    <3>4. Apart(u)'
      <4>1. \A v \in Active : ~Overlap(r, req[v])  BY <3>1
      <4>2. \A v \in Workers \ {u} : v \in Active' => v \in Active  BY <2>2, <2>3 DEF Active
      <4>. QED  BY <2>2, <2>3, <4>1, <4>2 DEF Apart
    <3>5. Built(u)' /\ Cleared(u)'  BY <2>2, <2>3 DEF Built, Cleared
    <3>. QED  BY <3>3, <3>4, <3>5 DEF Undisturbed
  <2>4. CASE u # w
    <3>1. u \notin shared /\ u \in Active /\ u \notin others
      BY <2>1, <2>2, <2>4 DEF Active
    <3>2. Op(u) \in Whole /\ Undisturbed(u)  BY <1>1, <2>2, <2>4, <3>1
    <3>3. ~Overlap(req[u], r)  BY <3>1 DEF Overlap
    <3>4. StaysApart(u)  BY <2>2, <3>3 DEF StaysApart, Active
    <3>5. DataSame(req[u].svc) /\ tainted' = {}
      BY <2>1, <3>2 DEF DataSame, ServiceSame, Undisturbed
    <3>. QED  BY <2>1, <2>2, <2>4, <3>2, <3>4, <3>5, Bystander
  <2>. QED  BY <2>3, <2>4
<1>c. ASSUME NEW w \in Workers,
             \/ WriteService(w) \/ EditGroup(w) \/ Enter(w) \/ WriteRules(w) \/ WriteGroup(w)
             \/ Leave(w) \/ Busy(w) \/ Fail(w) \/ Crash(w)
      PROVE  Undisturbed(u)'
  <2>1. w \in Active /\ UNCHANGED <<req, shared>>
    BY <1>c DEF WriteService, EditGroup, Enter, WriteRules, WriteGroup, Leave, Busy, Fail, Crash,
                Active, ghosts, local
  <2>2. \A v \in Workers \ {w} : st'[v] = st[v]
    <3>1. CASE WriteService(w) \/ EditGroup(w) \/ Leave(w)
      BY <3>1, AdvanceTyped DEF WriteService, EditGroup, Leave
    <3>2. CASE Busy(w) \/ Fail(w)  BY <3>2, ThrowTyped DEF Busy, Fail
    <3>3. CASE Enter(w) \/ Crash(w)  BY <3>3 DEF Enter, Crash, Become, Typed
    <3>4. CASE WriteRules(w) \/ WriteGroup(w)  BY <3>4 DEF WriteRules, WriteGroup
    <3>. QED  BY <1>c, <3>1, <3>2, <3>3, <3>4
  <2>3. u \in Active  BY <2>1, <2>2 DEF Active
  <2>4. Op(u) \in Whole /\ Undisturbed(u)  BY <1>1, <2>1, <2>3
  <2>5. CASE u = w  BY <1>c, <2>4, <2>5, OwnStep
  <2>6. CASE u # w  BY <1>c, <2>4, <2>6, StrangersStep
  <2>. QED  BY <2>5, <2>6
<1>d. ASSUME NEW w \in Workers, NEW l \in {"groups", "rules"}, Lapse(w, l) PROVE Undisturbed(u)'
  <2>1. UNCHANGED <<store, st, local>> /\ u \in Active  BY <1>d DEF Lapse, Active
  <2>2. st[w] # "inside"  BY <1>d, <2>1 DEF Lapse
  <2>3. UNCHANGED ghosts  BY <1>d, <2>2 DEF Lapse
  <2>4. Op(u) \in Whole /\ Undisturbed(u)  BY <1>1, <2>1, <2>3 DEF local, ghosts
  <2>5. StaysApart(u) /\ DataSame(req[u].svc) /\ tainted' = {}
    BY <2>1, <2>3, <2>4
    DEF store, local, ghosts, StaysApart, Active, DataSame, ServiceSame, Undisturbed
  <2>. QED  BY <2>1, <2>4, <2>5, Bystander DEF local
<1>. QED  BY <1>a, <1>b, <1>c, <1>d DEF Next

\* WholeInv and what it rests on.
LEMMA InductiveWhole == Spec => [](Typed /\ TaintInv /\ WholeInv)
<1>. DEFINE I == Typed /\ SectionInv /\ TaintInv /\ WholeInv
<1>1. Init => I  BY InitTyped, InitSections, InitRemains, InitWhole DEF RemainsInv
<1>2. I /\ [Next]_vars => I'  BY StepTyped, StepSections, StepTaint, StepWhole
<1>3. I => Typed /\ TaintInv /\ WholeInv  OBVIOUS
<1>. QED  BY <1>1, <1>2, <1>3, PTL DEF Spec

\* The step in which an operation answers: the last one of its script.
LEMMA Answers ==
  ASSUME Typed, TaintInv, WholeInv, [Next]_vars, NEW w \in Workers, Succeeds(w), Op(w) \in Whole
  PROVE  /\ Undisturbed(w) /\ at[w] = Len(Steps(Op(w)))
         /\ WriteService(w) \/ Leave(w)
<1>1. w \notin shared /\ st[w] # "done" /\ st'[w] = "done"  BY DEF Succeeds
<1>2. ~UNCHANGED vars  BY <1>1 DEF vars
<1>3. PICK v \in Workers :
        \/ \E r \in Requests : Begin(v, r)
        \/ WriteService(v) \/ EditGroup(v)
        \/ Enter(v) \/ WriteRules(v) \/ WriteGroup(v) \/ Leave(v)
        \/ Busy(v) \/ Fail(v) \/ Crash(v)
        \/ \E l \in {"groups", "rules"} : Lapse(v, l)
  BY <1>2 DEF Next
<1>4. ~(\E r \in Requests : Begin(v, r)) /\ ~Enter(v) /\ ~Crash(v)
  BY <1>1 DEF Begin, Enter, Crash, Become, Typed
<1>5. ~WriteRules(v) /\ ~WriteGroup(v) /\ ~(\E l \in {"groups", "rules"} : Lapse(v, l))
  BY <1>1 DEF WriteRules, WriteGroup, Lapse
<1>6. v = w
  <2>1. WriteService(v) \/ EditGroup(v) \/ Leave(v) \/ Busy(v) \/ Fail(v)
    BY <1>3, <1>4, <1>5
  <2>2. CASE WriteService(v) \/ EditGroup(v) \/ Leave(v)
    BY <1>1, <2>2, AdvanceTyped DEF WriteService, EditGroup, Leave
  <2>3. CASE Busy(v) \/ Fail(v)  BY <1>1, <2>3, ThrowTyped DEF Busy, Fail
  <2>. QED  BY <2>1, <2>2, <2>3
<1>7. ASSUME Advance(w) PROVE at[w] = Len(Steps(Op(w)))
  <2>1. at[w] \in 1 .. Len(Steps(Op(w))) /\ Len(Steps(Op(w))) \in 1 .. 6  BY StepShape
  <2>2. ~(at[w] < Len(Steps(Op(w))))  BY <1>1, <1>7 DEF Advance, Become, Typed
  <2>. QED  BY <2>1, <2>2
<1>8. ~Busy(w) /\ ~Fail(w)
  <2>. SUFFICES ASSUME Throw(w) PROVE FALSE  BY DEF Busy, Fail
  <2>1. Swallows(w) /\ Advance(w)  BY <1>1 DEF Throw, Become, Typed
  <2>2. Op(w) \in Creates /\ Step(w) \in {"main", "health"}  BY <2>1 DEF Swallows
  <2>. QED  BY <1>7, <2>1, <2>2, CreatePlace
<1>9. ~EditGroup(w)  BY WholeShape DEF EditGroup
<1>10. WriteService(w) \/ Leave(w)  BY <1>3, <1>4, <1>5, <1>6, <1>8, <1>9
<1>11. w \in Active /\ Advance(w)  BY <1>10 DEF WriteService, Leave, Active
<1>. QED  BY <1>1, <1>7, <1>10, <1>11 DEF WholeInv

(* "created with roles, routes": a creation that overlapped no other operation on  *)
(* its data and answers 200 has stored the service with its roles and routes, and  *)
(* bound it in every default group there is, whatever earlier operations left      *)
(* behind and whatever others do to other services meanwhile.                      *)
THEOREM CreationIsWhole == Spec => CreateIsComplete
<1>1. ASSUME Typed, TaintInv, WholeInv, [Next]_vars,
             NEW w \in Workers, Succeeds(w), Op(w) \in Creates
      PROVE  /\ req[w].svc \in registry' \cap roles' \cap routes'
             /\ (groups' \cap DefaultGroups) \X {req[w].svc} \subseteq binds'
  <2>1. /\ Undisturbed(w) /\ at[w] = Len(Steps(Op(w)))
        /\ WriteService(w) \/ Leave(w)
    BY <1>1, Answers DEF Whole
  <2>2. at[w] \in {5, 6} /\ Step(w) = "groups"  BY <1>1, <2>1, CreatePlace
  <2>3. Leave(w)  BY <2>1, <2>2 DEF WriteService
  <2>4. /\ st[w] = "inside" /\ left[w] = {}
        /\ UNCHANGED <<registry, roles, routes, groups, binds>>
    BY <2>3 DEF Leave, store
  <2>5. Built(w)  BY <1>1, <2>1 DEF Undisturbed
  <2>6. \A g \in groups \cap DefaultGroups : <<g, req[w].svc>> \in binds
    BY <1>1, <2>2, <2>4, <2>5 DEF Built, Typed
  <2>. QED  BY <2>2, <2>4, <2>5, <2>6 DEF Built
<1>2. Typed /\ TaintInv /\ WholeInv /\ [Next]_vars
        => [\A w \in Workers : Succeeds(w) /\ Op(w) \in Creates =>
              /\ req[w].svc \in registry' \cap roles' \cap routes'
              /\ (groups' \cap DefaultGroups) \X {req[w].svc} \subseteq binds']_vars
  BY <1>1
<1>. QED  BY <1>2, InductiveWhole, PTL DEF Spec, CreateIsComplete

(* deleteService unbinds the service, then removes its rules, roles, routes and,    *)
(* last, its entry: a deletion that overlapped no other operation on its data and  *)
(* answers 200 leaves nothing of the service behind, in whatever state failed or   *)
(* interrupted operations had left it.                                             *)
THEOREM DeletionIsWhole == Spec => DeleteIsComplete
<1>1. ASSUME Typed, TaintInv, WholeInv, [Next]_vars,
             NEW w \in Workers, Succeeds(w), Op(w) = "delete"
      PROVE  /\ req[w].svc \notin registry' \cup roles' \cup routes'
             /\ \A i \in RuleIds : i[1] = req[w].svc => rules'[i] = "none"
             /\ \A b \in binds' : b[2] # req[w].svc
  <2>. DEFINE s == req[w].svc
  <2>1. /\ Undisturbed(w) /\ at[w] = Len(Steps(Op(w)))
        /\ WriteService(w) \/ Leave(w)
    BY <1>1, Answers DEF Whole
  <2>2. at[w] = 6 /\ Step(w) = "registry"  BY <1>1, <2>1, DeletePlace
  <2>3. WriteService(w)  BY <1>1, <2>1, <2>2 DEF Leave, TaintInv, Locking
  <2>4. registry' = registry \ {s} /\ UNCHANGED <<roles, routes, rules, binds>>
    BY <1>1, <2>2, <2>3 DEF WriteService, Toggle
  <2>5. Cleared(w)  BY <1>1, <2>1 DEF Undisturbed
  <2>6. \A i \in RuleIds : i[1] = s => i = <<s, "main">> \/ i = <<s, "health">>
    BY DEF RuleIds
  <2>7. \A g \in Groups : <<g, s>> \notin binds  BY <2>2, <2>5 DEF Cleared
  <2>8. ASSUME NEW b \in binds PROVE b[2] # s
    <3>1. PICK h \in Groups, x \in Services : b = <<h, x>>  BY <1>1 DEF Typed
    <3>. QED  BY <2>7, <2>8, <3>1
  <2>. QED  BY <2>2, <2>4, <2>5, <2>6, <2>8 DEF Cleared
<1>2. Typed /\ TaintInv /\ WholeInv /\ [Next]_vars
        => [\A w \in Workers : Succeeds(w) /\ Op(w) = "delete" =>
              /\ req[w].svc \notin registry' \cup roles' \cup routes'
              /\ \A i \in RuleIds : i[1] = req[w].svc => rules'[i] = "none"
              /\ \A b \in binds' : b[2] # req[w].svc]_vars
  BY <1>1
<1>. QED  BY <1>2, InductiveWhole, PTL DEF Spec, DeleteIsComplete
=============================================================================
