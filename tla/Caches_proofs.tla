---------------------------- MODULE Caches_proofs ----------------------------
(***************************************************************************)
(* For any number of replicas, clients, mutations and crashes: the etag of *)
(* a bundle never promises more of the registry than the bundle contains,  *)
(* and a review is never older than the last mutation that dropped it.     *)
(***************************************************************************)
EXTENDS Caches, TLAPS

\* The marks are versions the registry has had, one per etag.
Marked ==
  /\ mark \in Seq(Nat) /\ Len(mark) = etag
  /\ \A e \in 1..etag : mark[e] <= reg
  /\ busted \in [Replicas -> Nat] /\ \A r \in Replicas : busted[r] <= reg

\* Whatever is in progress is so in a replica.
Placed == \A t \in Tasks : task[t].pc # "idle" => task[t].at \in Replicas

\* What a bundle request holds is as recent as the etag it has read.
RequestCovers ==
  \A c \in Clients :
    /\ task[c].stamp <= etag
    /\ task[c].reg # None => task[c].reg >= Announced(task[c].stamp)

Labelling ==
  /\ \A r \in Replicas : bundle[r] # None => bundle[r].etag <= etag
  /\ \A c \in Clients : opa[c] # None => opa[c].etag <= etag

\* A refresh of the generation that still lasts has read the registry since
\* the generation began.
RefreshCovers ==
  \A t \in Reviews :
    /\ task[t].pc # "idle" => task[t].at = t[2] /\ task[t].stamp <= epoch[t[2]]
    /\ task[t].pc # "idle" /\ task[t].reg # None /\ task[t].stamp = epoch[t[2]]
         => task[t].reg >= busted[t[2]]

Inv ==
  /\ TypeOK /\ Marked /\ Placed /\ RequestCovers /\ Labelling /\ RefreshCovers
  /\ BundleCoversEtag /\ ReviewIsCurrent

-----------------------------------------------------------------------------
(* Types *)

\* The steps of every mutation are steps the module knows.
LEMMA StepsType == \A k \in DOMAIN Steps : Steps[k] \in Seq(StepNames) /\ Len(Steps[k]) > 0
<1>1. InvalidateBundle \in Seq(StepNames) /\ Len(InvalidateBundle) = 3
  BY DEF InvalidateBundle, StepNames
<1>2. /\ <<"registry">> \in Seq(StepNames) /\ Len(<<"registry">>) = 1
      /\ <<"directory", "drop">> \in Seq(StepNames) /\ Len(<<"directory", "drop">>) = 2
      /\ <<"drop", "directory">> \in Seq(StepNames) /\ Len(<<"drop", "directory">>) = 2
      /\ <<"directory", "generation", "uncount", "bust">> \in Seq(StepNames)
      /\ Len(<<"directory", "generation", "uncount", "bust">>) = 4
  BY DEF StepNames
<1>3. ASSUME NEW s \in Seq(StepNames), NEW u \in Seq(StepNames), Len(s) > 0
      PROVE  s \o u \in Seq(StepNames) /\ Len(s \o u) > 0
  BY <1>3
<1>4. Steps["registry"] \in Seq(StepNames) /\ Len(Steps["registry"]) > 0
  BY <1>1, <1>2, <1>3 DEF Steps
<1>5. Steps["groups"] \in Seq(StepNames) /\ Len(Steps["groups"]) > 0
  BY <1>1, <1>2, <1>3 DEF Steps
<1>6. Steps["delete"] \in Seq(StepNames) /\ Len(Steps["delete"]) > 0
  BY <1>1, <1>2, <1>3 DEF Steps
<1>7. /\ Steps["state"] \in Seq(StepNames) /\ Len(Steps["state"]) > 0
      /\ Steps["scim"] \in Seq(StepNames) /\ Len(Steps["scim"]) > 0
      /\ Steps["recert"] \in Seq(StepNames) /\ Len(Steps["recert"]) > 0
  BY <1>2 DEF Steps
<1>8. DOMAIN Steps = {"registry", "groups", "delete", "state", "scim", "recert"}
  BY DEF Steps
<1> QED
  BY <1>4, <1>5, <1>6, <1>7, <1>8

\* A request or refresh of one kind is of no other.
LEMMA TasksApart ==
  /\ \A t \in Reviews : t \notin Counts /\ t \notin Clients /\ t[2] \in Replicas
  /\ \A t \in Counts : t \notin Reviews /\ t \notin Clients /\ t[2] \in Replicas
  /\ \A t \in Clients : t \notin Reviews /\ t \notin Counts
  /\ Reviews \subseteq Tasks /\ Counts \subseteq Tasks /\ Clients \subseteq Tasks
BY CachesAssumption DEF Reviews, Counts, Tasks

LEMMA InitInv == Init => Inv
<1> SUFFICES ASSUME Init PROVE Inv
  OBVIOUS
<1>1. NoTask \in Task /\ NoTask.pc = "idle" /\ NoTask.reg = None /\ NoTask.stamp = 0
  BY DEF NoTask, Task
<1>2. NoWrite \in Write
  BY DEF NoWrite, Write
<1>3. TypeOK
  BY <1>1, <1>2 DEF Init, TypeOK
<1>4. Marked /\ Placed
  BY <1>1 DEF Init, Marked, Placed
<1>5. RequestCovers /\ RefreshCovers
  BY <1>1, TasksApart DEF Init, RequestCovers, RefreshCovers
<1>6. Labelling /\ BundleCoversEtag /\ ReviewIsCurrent
  BY DEF Init, Labelling, BundleCoversEtag, ReviewIsCurrent
<1> QED
  BY <1>3, <1>4, <1>5, <1>6 DEF Inv

\* What is left of a mutation is a list of its steps.
LEMMA DoesType ==
  ASSUME TypeOK, NEW w \in Writers, NEW step, Does(w, step)
  PROVE  /\ write' \in [Writers -> Write]
         /\ UNCHANGED <<task, opa, writes, crashes>>
<1>1. write[w] \in Write /\ write[w].todo \in Seq(StepNames) /\ write[w].todo # <<>>
  BY DEF TypeOK, Write, Does
<1>2. Tail(write[w].todo) \in Seq(StepNames)
  BY <1>1
<1>3. [write[w] EXCEPT !.todo = Tail(write[w].todo)] \in Write
  BY <1>1, <1>2 DEF Write
<1>4. NoWrite \in Write
  BY DEF NoWrite, Write
<1>5. write \in [Writers -> Write]
  BY DEF TypeOK
<1>6. Rest(w) \in Write
  BY <1>3, <1>4 DEF Rest
<1>7. write' \in [Writers -> Write]
  BY <1>5, <1>6 DEF Does
<1> QED
  BY <1>7 DEF Does

\* Every task of a state with the right types has its fields.
LEMMA TaskType ==
  ASSUME TypeOK
  PROVE  task \in [Tasks -> Task] /\ \A t \in Tasks : task[t] \in Task
BY DEF TypeOK

\* Every step of a mutation keeps the types.
LEMMA WriteStepType ==
  ASSUME TypeOK, Marked, NEW w \in Writers, WriteStep(w)
  PROVE  TypeOK'
<1>1. ASSUME WriteRegistry(w) PROVE TypeOK'
  BY <1>1, DoesType DEF WriteRegistry, TypeOK, caches
<1>2. ASSUME WriteDirectory(w) PROVE TypeOK'
  BY <1>2, DoesType DEF WriteDirectory, TypeOK, caches
<1>3. ASSUME DropBindings(w) PROVE TypeOK'
  BY <1>3, DoesType DEF DropBindings, TypeOK, shared
<1>4. ASSUME NewEtag(w) PROVE TypeOK'
  BY <1>4, DoesType DEF NewEtag, TypeOK, caches
<1>5. ASSUME Bust(w) PROVE TypeOK'
  <2> DEFINE r == write[w].at
  <2>1. epoch' \in [Replicas -> Nat]
    <3>1. CASE r \in Replicas
      BY <1>5, <3>1 DEF Bust, TypeOK
    <3>2. CASE r \notin Replicas
      BY <1>5, <3>2 DEF Bust, TypeOK
    <3> QED
      BY <3>1, <3>2
  <2>2. review' \in [Replicas -> Derived \cup {None}]
    BY <1>5 DEF Bust, TypeOK
  <2> QED
    BY <1>5, <2>1, <2>2, DoesType DEF Bust, TypeOK, shared
<1>6. ASSUME NewGeneration(w) PROVE TypeOK'
  <2> DEFINE r == write[w].at
  <2>1. statsEpoch' \in [Replicas -> Nat]
    <3>1. CASE r \in Replicas
      BY <1>6, <3>1 DEF NewGeneration, TypeOK
    <3>2. CASE r \notin Replicas
      BY <1>6, <3>2 DEF NewGeneration, TypeOK
    <3> QED
      BY <3>1, <3>2
  <2>2. bindings' \in [Replicas -> Nat \cup {None}]
    BY <1>6 DEF NewGeneration, TypeOK
  <2> QED
    BY <1>6, <2>1, <2>2, DoesType DEF NewGeneration, TypeOK, shared
<1>7. ASSUME DropStats(w) PROVE TypeOK'
  BY <1>7, DoesType DEF DropStats, TypeOK, caches
<1> QED
  BY <1>1, <1>2, <1>3, <1>4, <1>5, <1>6, <1>7 DEF WriteStep

\* Requests and refreshes keep the types.
LEMMA TaskStepType ==
  ASSUME TypeOK, NEW t \in Tasks,
         ReadRegistry(t) \/ Walk(t) \/ WalkEnds(t) \/ WalkFails(t)
  PROVE  TypeOK'
<1> USE TaskType
<1>0. NoTask \in Task
  BY DEF NoTask, Task
<1>1. ASSUME ReadRegistry(t) PROVE TypeOK'
  <2>1. [task[t] EXCEPT !.reg = reg] \in Task
    BY DEF Task, TypeOK
  <2>2. task' \in [Tasks -> Task]
    BY <1>1, <2>1 DEF ReadRegistry
  <2> QED
    BY <1>1, <2>2 DEF ReadRegistry, TypeOK, shared, caches
<1>2. ASSUME Walk(t) PROVE TypeOK'
  <2>1. [task[t] EXCEPT !.walk = dir] \in Task
    BY DEF Task, TypeOK
  <2>2. task' \in [Tasks -> Task]
    BY <1>2, <2>1 DEF Walk
  <2> QED
    BY <1>2, <2>2 DEF Walk, TypeOK, shared, caches
<1>3. ASSUME WalkEnds(t) PROVE TypeOK'
  <2>1. /\ task[t].walk \in Nat
        /\ [task[t] EXCEPT !.dir = task[t].walk, !.walk = None] \in Task
    BY <1>3 DEF Task, WalkEnds
  <2>2. task' \in [Tasks -> Task]
    BY <1>3, <2>1 DEF WalkEnds
  <2>3. bindings' \in [Replicas -> Nat \cup {None}]
    BY <1>3, <2>1 DEF WalkEnds, TypeOK
  <2> QED
    BY <1>3, <2>2, <2>3 DEF WalkEnds, TypeOK, shared
<1>4. ASSUME WalkFails(t) PROVE TypeOK'
  <2>1. [task[t] EXCEPT !.dir = 0, !.walk = None] \in Task
    BY DEF Task
  <2>2. task' \in [Tasks -> Task]
    BY <1>0, <1>4, <2>1 DEF WalkFails
  <2> QED
    BY <1>4, <2>2 DEF WalkFails, TypeOK, shared, caches
<1> QED
  BY <1>1, <1>2, <1>3, <1>4

\* So do the requests for the bundle.
LEMMA BundleStepType ==
  ASSUME TypeOK, Placed, NEW c \in Clients,
         \/ \E r \in Replicas : ReadEtag(c, r)
         \/ NotModified(c) \/ ServeCached(c) \/ Build(c) \/ Built(c)
  PROVE  TypeOK'
<1> USE TaskType, TasksApart
<1>0. NoTask \in Task /\ c \in Tasks
  BY DEF NoTask, Task
<1>1. ASSUME NEW r \in Replicas, ReadEtag(c, r) PROVE TypeOK'
  <2>1. [NoTask EXCEPT !.pc = "etag", !.at = r, !.stamp = etag] \in Task
    BY DEF Task, TypeOK, NoTask
  <2>2. task' \in [Tasks -> Task]
    BY <1>1, <2>1 DEF ReadEtag
  <2> QED
    BY <1>1, <2>2 DEF ReadEtag, TypeOK, shared, caches
<1>2. ASSUME NotModified(c) PROVE TypeOK'
  BY <1>0, <1>2 DEF NotModified, TypeOK, shared, caches
<1>3. ASSUME ServeCached(c) PROVE TypeOK'
  <2>1. task[c].at \in Replicas
    BY <1>0, <1>3 DEF Placed, ServeCached
  <2> QED
    BY <1>0, <1>3, <2>1 DEF ServeCached, CachedServes, Holds, TypeOK, shared, caches
<1>4. ASSUME Build(c) PROVE TypeOK'
  <2>1. Reading(task[c].at, task[c].stamp) \in Task
    BY <1>0, <1>4 DEF Placed, Build, Reading, Task, TypeOK
  <2>2. task' \in [Tasks -> Task]
    BY <1>0, <1>4, <2>1 DEF Build
  <2> QED
    BY <1>4, <2>2 DEF Build, TypeOK, shared, caches
<1>5. ASSUME Built(c) PROVE TypeOK'
  <2>1. Labelled(c) \in Labels
    BY <1>0, <1>5 DEF Built, HasInputs, Labelled, Labels, Task
  <2> QED
    BY <1>0, <1>5, <2>1 DEF Built, TypeOK, shared
<1> QED
  BY <1>1, <1>2, <1>3, <1>4, <1>5

\* So do the refreshes of the review and of the counts.
LEMMA RefreshStepType ==
  ASSUME TypeOK, NEW t \in Reviews \cup Counts,
         \/ Refresh(t)
         \/ t \in Reviews /\ Reviewed(t)
         \/ t \in Counts /\ Counted(t)
  PROVE  TypeOK'
<1> USE TaskType, TasksApart
<1>0. NoTask \in Task /\ t \in Tasks /\ t[2] \in Replicas
  BY DEF NoTask, Task
<1>1. ASSUME Refresh(t) PROVE TypeOK'
  <2>1. /\ Reading(t[2], epoch[t[2]]) \in Task
        /\ Reading(t[2], statsEpoch[t[2]]) \in Task
    BY <1>0 DEF Reading, Task, TypeOK
  <2>2. task' \in [Tasks -> Task]
    BY <1>1, <2>1 DEF Refresh
  <2> QED
    BY <1>1, <2>2 DEF Refresh, TypeOK, shared, caches
<1>2. HasInputs(t) => Inputs(t) \in Derived
  BY <1>0 DEF HasInputs, Inputs, Derived, Task
<1>3. ASSUME Reviewed(t) PROVE TypeOK'
  BY <1>0, <1>2, <1>3 DEF Reviewed, TypeOK, shared
<1>4. ASSUME Counted(t) PROVE TypeOK'
  BY <1>0, <1>2, <1>4 DEF Counted, TypeOK, caches
<1> QED
  BY <1>1, <1>3, <1>4

\* Every step keeps the types.
LEMMA TypeStep == Inv /\ [Next]_vars => TypeOK'
<1> SUFFICES ASSUME TypeOK, Marked, Placed, [Next]_vars PROVE TypeOK'
  BY DEF Inv
<1> USE TasksApart
<1>0. NoTask \in Task /\ NoWrite \in Write
  BY DEF NoTask, Task, NoWrite, Write
<1>1. ASSUME NEW w \in Writers, NEW r \in Replicas, NEW k \in Kinds, BeginWrite(w, r, k)
      PROVE  TypeOK'
  <2>1. [at |-> r, todo |-> Steps[k]] \in Write
    BY StepsType, CachesAssumption DEF Write
  <2> QED
    BY <1>1, <2>1 DEF BeginWrite, TypeOK, shared, caches
<1>2. ASSUME NEW r \in Replicas, Expire(r) PROVE TypeOK'
  BY <1>2 DEF Expire, TypeOK, shared
<1>3. ASSUME NEW r \in Replicas, Crash(r) PROVE TypeOK'
  BY <1>0, <1>3 DEF Crash, TypeOK, shared
<1>12. ASSUME NEW c \in Clients, Restart(c) PROVE TypeOK'
  BY <1>12 DEF Restart, TypeOK, shared, caches
<1>4. ASSUME UNCHANGED vars PROVE TypeOK'
  BY <1>4 DEF vars, TypeOK
<1>5. ASSUME NEW w \in Writers, WriteStep(w) PROVE TypeOK'
  BY <1>5, WriteStepType
<1>6. ASSUME NEW t \in Tasks,
             ReadRegistry(t) \/ Walk(t) \/ WalkEnds(t) \/ WalkFails(t)
      PROVE  TypeOK'
  BY <1>6, TaskStepType
<1>7. ASSUME NEW c \in Clients,
             \/ \E r \in Replicas : ReadEtag(c, r)
             \/ NotModified(c) \/ ServeCached(c) \/ Build(c) \/ Built(c)
      PROVE  TypeOK'
  BY <1>7, BundleStepType
<1>8. ASSUME NEW t \in Reviews \cup Counts, Refresh(t) PROVE TypeOK'
  BY <1>8, RefreshStepType
<1>10. ASSUME NEW t \in Reviews, Reviewed(t) PROVE TypeOK'
  <2>1. t \in Reviews \cup Counts
    OBVIOUS
  <2> QED
    BY <1>10, <2>1, RefreshStepType
<1>11. ASSUME NEW t \in Counts, Counted(t) PROVE TypeOK'
  <2>1. t \in Reviews \cup Counts
    OBVIOUS
  <2> QED
    BY <1>11, <2>1, RefreshStepType
<1> HIDE TasksApart
<1>9. ASSUME Next PROVE TypeOK'
  <2>1. CASE \E w \in Writers, r \in Replicas, k \in Kinds : BeginWrite(w, r, k)
    BY <1>1, <2>1
  <2>2. CASE \E w \in Writers : WriteStep(w)
    BY <1>5, <2>2
  <2>3. CASE \E t \in Tasks :
               ReadRegistry(t) \/ Walk(t) \/ WalkEnds(t) \/ WalkFails(t)
    BY <1>6, <2>3
  <2>4. CASE \E c \in Clients, r \in Replicas : ReadEtag(c, r)
    BY <1>7, <2>4
  <2>5. CASE \E c \in Clients :
               NotModified(c) \/ ServeCached(c) \/ Build(c) \/ Built(c) \/ Restart(c)
    BY <1>7, <1>12, <2>5
  <2>6. CASE \E t \in Reviews \cup Counts : Refresh(t)
    BY <1>8, <2>6
  <2>8. CASE \E t \in Reviews : Reviewed(t)
    BY <1>10, <2>8
  <2>9. CASE \E t \in Counts : Counted(t)
    BY <1>11, <2>9
  <2>7. CASE \E r \in Replicas : Expire(r) \/ Crash(r)
    BY <1>2, <1>3, <2>7
  <2> QED
    BY <1>9, <2>1, <2>2, <2>3, <2>4, <2>5, <2>6, <2>7, <2>8, <2>9 DEF Next
<1> QED
  BY <1>4, <1>9

-----------------------------------------------------------------------------
(* Versions *)

\* Versions and etags only grow, and what an etag announces stays what it was.
LEMMA HistoryGrows ==
  ASSUME TypeOK, Marked, [Next]_vars
  PROVE  /\ Marked' /\ etag <= etag' /\ reg <= reg'
         /\ \A e \in 0..etag : Announced(e)' = Announced(e) /\ Announced(e) <= reg
<1> USE DEF TypeOK, Marked, Announced
<1>0. \A e \in 0..etag : Announced(e) \in Nat /\ Announced(e) <= reg
  OBVIOUS
<1>1. ASSUME UNCHANGED <<reg, etag, mark, busted>>
      PROVE  /\ Marked' /\ etag <= etag' /\ reg <= reg'
             /\ \A e \in 0..etag : Announced(e)' = Announced(e) /\ Announced(e) <= reg
  BY <1>0, <1>1
<1>2. ASSUME NEW w \in Writers, WriteRegistry(w)
      PROVE  /\ Marked' /\ etag <= etag' /\ reg <= reg'
             /\ \A e \in 0..etag : Announced(e)' = Announced(e) /\ Announced(e) <= reg
  BY <1>0, <1>2 DEF WriteRegistry, history
<1>3. ASSUME NEW w \in Writers, NewEtag(w)
      PROVE  /\ Marked' /\ etag <= etag' /\ reg <= reg'
             /\ \A e \in 0..etag : Announced(e)' = Announced(e) /\ Announced(e) <= reg
  <2>1. /\ mark' = Append(mark, reg) /\ etag' = etag + 1 /\ reg' = reg
        /\ busted' = busted
    BY <1>3 DEF NewEtag
  <2>2. /\ Append(mark, reg) \in Seq(Nat) /\ Len(Append(mark, reg)) = etag + 1
        /\ \A e \in 1..etag : Append(mark, reg)[e] = mark[e]
        /\ Append(mark, reg)[etag + 1] = reg
    OBVIOUS
  <2> QED
    BY <1>0, <2>1, <2>2
<1>4. ASSUME NEW w \in Writers, Bust(w)
      PROVE  /\ Marked' /\ etag <= etag' /\ reg <= reg'
             /\ \A e \in 0..etag : Announced(e)' = Announced(e) /\ Announced(e) <= reg
  <2>1. /\ busted' = [busted EXCEPT ![write[w].at] = reg]
        /\ UNCHANGED <<reg, etag, mark>>
    BY <1>4 DEF Bust, shared
  <2>2. /\ busted' \in [Replicas -> Nat]
        /\ \A r \in Replicas : busted'[r] = busted[r] \/ busted'[r] = reg
    BY <2>1
  <2> QED
    BY <1>0, <2>1, <2>2
<1>5. \/ UNCHANGED <<reg, etag, mark, busted>>
      \/ \E w \in Writers : WriteRegistry(w) \/ NewEtag(w) \/ Bust(w)
  BY DEF Next, vars, shared, history, WriteStep, BeginWrite, WriteDirectory,
         DropBindings, NewGeneration, DropStats, ReadRegistry, Walk, WalkEnds,
         WalkFails, ReadEtag, NotModified, ServeCached, Build, Built, Refresh,
         Reviewed, Counted, Expire, Crash, Restart
<1> QED
  BY <1>1, <1>2, <1>3, <1>4, <1>5

\* What can become of a request or a refresh in one step.
TaskMoves(t) ==
  \/ task'[t] = task[t]
  \/ task'[t] = NoTask
  \/ task[t].pc = "reading" /\ task[t].reg = None
     /\ task'[t] = [task[t] EXCEPT !.reg = reg]
  \/ \E d \in Nat \cup {None}, v \in Nat \cup {None} :
       task'[t] = [task[t] EXCEPT !.dir = d, !.walk = v]
  \/ t \in Clients /\ \E r \in Replicas :
       task'[t] = [NoTask EXCEPT !.pc = "etag", !.at = r, !.stamp = etag]
  \/ t \in Clients /\ task[t].pc = "etag"
     /\ task'[t] = Reading(task[t].at, task[t].stamp)
  \/ t \in Reviews /\ task'[t] = Reading(t[2], epoch[t[2]])
  \/ t \in Counts /\ task'[t] = Reading(t[2], statsEpoch[t[2]])

LEMMA Moves ==
  ASSUME TypeOK, [Next]_vars, NEW t \in Tasks
  PROVE  TaskMoves(t)
<1> USE TaskType DEF TaskMoves
<1>1. ASSUME NEW u \in Tasks, ReadRegistry(u) PROVE TaskMoves(t)
  BY <1>1 DEF ReadRegistry
<1>2. ASSUME NEW u \in Tasks, Walk(u) PROVE TaskMoves(t)
  <2>1. [task[u] EXCEPT !.walk = dir]
          = [task[u] EXCEPT !.dir = task[u].dir, !.walk = dir]
    BY DEF Task
  <2>2. task[u].dir \in Nat \cup {None} /\ dir \in Nat
    BY DEF Task, TypeOK
  <2> QED
    BY <1>2, <2>1, <2>2 DEF Walk
<1>3. ASSUME NEW u \in Tasks, WalkEnds(u) PROVE TaskMoves(t)
  <2>1. task[u].walk \in Nat \cup {None} /\ None \in Nat \cup {None}
    BY DEF Task
  <2>2. task'[u] = [task[u] EXCEPT !.dir = task[u].walk, !.walk = None]
    BY <1>3 DEF WalkEnds
  <2>3. t # u => task'[t] = task[t]
    BY <1>3 DEF WalkEnds
  <2> QED
    BY <2>1, <2>2, <2>3
<1>4. ASSUME NEW u \in Tasks, WalkFails(u) PROVE TaskMoves(t)
  BY <1>4 DEF WalkFails
<1>5. ASSUME NEW c \in Clients, NEW r \in Replicas, ReadEtag(c, r) PROVE TaskMoves(t)
  BY <1>5 DEF ReadEtag
<1>6. ASSUME NEW c \in Clients,
             NotModified(c) \/ ServeCached(c) \/ Build(c) \/ Built(c)
      PROVE  TaskMoves(t)
  BY <1>6 DEF NotModified, ServeCached, Build, Built
<1>7. ASSUME NEW u \in Reviews \cup Counts,
             Refresh(u) \/ Reviewed(u) \/ Counted(u)
      PROVE  TaskMoves(t)
  BY <1>7, TasksApart DEF Refresh, Reviewed, Counted
<1>8. ASSUME NEW r \in Replicas, Crash(r) PROVE TaskMoves(t)
  BY <1>8 DEF Crash
<1>9. ASSUME task' = task PROVE TaskMoves(t)
  BY <1>9
<1>10. ASSUME NEW w \in Writers, WriteStep(w) PROVE task' = task
  BY <1>10 DEF WriteStep, WriteRegistry, WriteDirectory, DropBindings, NewEtag,
               Bust, NewGeneration, DropStats, Does
<1>11. UNCHANGED vars \/ (\E r \in Replicas : Expire(r)) \/ (\E c \in Clients : Restart(c))
       \/ (\E w \in Writers, r \in Replicas, k \in Kinds : BeginWrite(w, r, k))
         => task' = task
  BY DEF vars, Expire, Restart, BeginWrite
<1> HIDE DEF TaskMoves
<1> QED
  BY <1>1, <1>2, <1>3, <1>4, <1>5, <1>6, <1>7, <1>8, <1>9, <1>10, <1>11 DEF Next

\* A request or refresh is always placed in a replica.
LEMMA PlacedStep ==
  ASSUME TypeOK, Placed, [Next]_vars
  PROVE  Placed'
<1> SUFFICES ASSUME NEW t \in Tasks, task'[t].pc # "idle"
             PROVE  task'[t].at \in Replicas
  BY DEF Placed
<1>1. TaskMoves(t) /\ task[t] \in Task
  BY Moves, TaskType
<1>2. task[t].pc # "idle" => task[t].at \in Replicas
  BY DEF Placed
<1>3. CASE task'[t].at = task[t].at /\ task[t].pc # "idle"
  BY <1>2, <1>3
<1>4. CASE t \in Clients /\ \E r \in Replicas :
             task'[t] = [NoTask EXCEPT !.pc = "etag", !.at = r, !.stamp = etag]
  BY <1>4 DEF NoTask
<1>5. CASE t \in Reviews /\ task'[t] = Reading(t[2], epoch[t[2]])
  BY <1>5, TasksApart DEF Reading
<1>6. CASE t \in Counts /\ task'[t] = Reading(t[2], statsEpoch[t[2]])
  BY <1>6, TasksApart DEF Reading
<1>7. CASE task'[t] = NoTask
  BY <1>7 DEF NoTask
<1>8. ASSUME NEW d, NEW v, task'[t] = [task[t] EXCEPT !.dir = d, !.walk = v]
      PROVE  task'[t].at = task[t].at /\ task'[t].pc = task[t].pc
  BY <1>1, <1>8 DEF Task
<1>9. CASE task'[t] = [task[t] EXCEPT !.reg = reg]
  BY <1>1, <1>2, <1>9 DEF Task
<1>10. CASE task[t].pc = "etag" /\ task'[t] = Reading(task[t].at, task[t].stamp)
  BY <1>2, <1>10 DEF Reading
<1> QED
  BY <1>1, <1>2, <1>3, <1>4, <1>5, <1>6, <1>7, <1>8, <1>9, <1>10 DEF TaskMoves

\* What a request has read stays as recent as its etag.
LEMMA RequestStep ==
  ASSUME TypeOK, Marked, RequestCovers, [Next]_vars
  PROVE  RequestCovers'
<1> SUFFICES ASSUME NEW c \in Clients
             PROVE  /\ task'[c].stamp <= etag'
                    /\ task'[c].reg # None => (task[c].reg >= Announced(task[c].stamp))'
  BY DEF RequestCovers
<1>1. TaskMoves(c) /\ task[c] \in Task /\ c \notin Reviews /\ c \notin Counts
  BY Moves, TaskType, TasksApart
<1>2. /\ etag <= etag' /\ etag \in Nat /\ etag' \in Nat /\ reg \in Nat
      /\ \A e \in 0..etag : Announced(e)' = Announced(e) /\ Announced(e) <= reg
  BY HistoryGrows DEF TypeOK, Marked
<1>3. task[c].stamp \in 0..etag
  BY <1>1, <1>2 DEF RequestCovers, Task
<1>4. task[c].reg # None => task[c].reg >= Announced(task[c].stamp)
  BY DEF RequestCovers
<1>5. CASE /\ task'[c].stamp = task[c].stamp
            /\ task'[c].reg \in {task[c].reg, reg, None}
  <2>1. Announced(task[c].stamp)' = Announced(task[c].stamp)
    BY <1>2, <1>3, <1>5, HistoryGrows DEF Announced
  <2> QED
    BY <1>2, <1>3, <1>4, <1>5, <2>1
<1>6. CASE task'[c].stamp \in {0, etag} /\ task'[c].reg = None
  BY <1>2, <1>6
<1>7. ASSUME NEW d, NEW v, task'[c] = [task[c] EXCEPT !.dir = d, !.walk = v]
      PROVE  task'[c].stamp = task[c].stamp /\ task'[c].reg = task[c].reg
  BY <1>1, <1>7 DEF Task
<1>8. task'[c] = [task[c] EXCEPT !.reg = reg]
        => task'[c].stamp = task[c].stamp /\ task'[c].reg = reg
  BY <1>1 DEF Task
<1>9. ASSUME NEW r, NEW e, task'[c] = Reading(r, e)
      PROVE  task'[c].stamp = e /\ task'[c].reg = None
  BY <1>9 DEF Reading
<1>10. ASSUME NEW r, task'[c] = [NoTask EXCEPT !.pc = "etag", !.at = r, !.stamp = etag]
       PROVE  task'[c].stamp = etag /\ task'[c].reg = None
  BY <1>10 DEF NoTask
<1>11. NoTask.stamp = 0 /\ NoTask.reg = None
  BY DEF NoTask
<1>12. CASE task'[c] = task[c] \/ task'[c] = NoTask
  BY <1>5, <1>6, <1>11, <1>12
<1>13. CASE \E d, v : task'[c] = [task[c] EXCEPT !.dir = d, !.walk = v]
  BY <1>5, <1>7, <1>13
<1>14. CASE task'[c] = [task[c] EXCEPT !.reg = reg]
  BY <1>5, <1>8, <1>14
<1>15. CASE \E r : task'[c] = [NoTask EXCEPT !.pc = "etag", !.at = r, !.stamp = etag]
  BY <1>6, <1>10, <1>15
<1>16. CASE task'[c] = Reading(task[c].at, task[c].stamp)
  BY <1>5, <1>9, <1>16
<1> QED
  BY <1>1, <1>12, <1>13, <1>14, <1>15, <1>16 DEF TaskMoves

\* A cached or loaded bundle comes from a finished request.
LEMMA BundleMoves ==
  ASSUME TypeOK, Placed, [Next]_vars
  PROVE  /\ \A r \in Replicas :
              \/ bundle'[r] = bundle[r] \/ bundle'[r] = None
              \/ \E c \in Clients : bundle'[r] = Labelled(c) /\ HasInputs(c)
         /\ \A c \in Clients :
              \/ opa'[c] = opa[c] \/ opa'[c] = None
              \/ \E r \in Replicas : opa'[c] = bundle[r] /\ bundle[r] # None
              \/ opa'[c] = Labelled(c) /\ HasInputs(c)
<1> DEFINE P == /\ \A r \in Replicas :
                     \/ bundle'[r] = bundle[r] \/ bundle'[r] = None
                     \/ \E c \in Clients : bundle'[r] = Labelled(c) /\ HasInputs(c)
                /\ \A c \in Clients :
                     \/ opa'[c] = opa[c] \/ opa'[c] = None
                     \/ \E r \in Replicas : opa'[c] = bundle[r] /\ bundle[r] # None
                     \/ opa'[c] = Labelled(c) /\ HasInputs(c)
<1>1. ASSUME NEW c \in Clients, Built(c) PROVE P
  BY <1>1 DEF Built, TypeOK
<1>2. ASSUME NEW c \in Clients, ServeCached(c) PROVE P
  <2>1. task[c].at \in Replicas /\ bundle[task[c].at] # None
    BY <1>2, TasksApart DEF ServeCached, CachedServes, Holds, Placed
  <2> QED
    BY <1>2, <2>1 DEF ServeCached, TypeOK, caches
<1>3. ASSUME NEW r \in Replicas, Crash(r) PROVE P
  BY <1>3 DEF Crash, TypeOK
<1>7. ASSUME NEW c \in Clients, Restart(c) PROVE P
  BY <1>7 DEF Restart, TypeOK, caches
<1>4. ASSUME UNCHANGED <<bundle, opa>> PROVE P
  BY <1>4
<1>5. \/ UNCHANGED <<bundle, opa>>
      \/ \E c \in Clients : Built(c) \/ ServeCached(c) \/ Restart(c)
      \/ \E r \in Replicas : Crash(r)
  BY DEF Next, vars, caches, WriteStep, BeginWrite, WriteRegistry, WriteDirectory,
         DropBindings, NewEtag, Bust, NewGeneration, DropStats, Does, ReadRegistry,
         Walk, WalkEnds, WalkFails, ReadEtag, NotModified, Build, Refresh,
         Reviewed, Counted, Expire
<1> HIDE DEF P
<1>6. P
  BY <1>1, <1>2, <1>3, <1>4, <1>5, <1>7
<1> QED
  BY <1>6 DEF P

\* Bundles keep covering their etags.
LEMMA BundleStep ==
  ASSUME Inv, [Next]_vars
  PROVE  Labelling' /\ BundleCoversEtag'
<1>1. /\ TypeOK /\ Marked /\ Placed /\ RequestCovers /\ Labelling /\ BundleCoversEtag
      /\ TypeOK'
  BY TypeStep DEF Inv
<1>2. /\ etag <= etag' /\ etag \in Nat /\ etag' \in Nat
      /\ \A e \in 0..etag : Announced(e)' = Announced(e)
  BY <1>1, HistoryGrows DEF TypeOK
<1>3. ASSUME NEW c \in Clients, HasInputs(c)
      PROVE  /\ Labelled(c) \in Labels /\ Labelled(c).etag <= etag
             /\ Labelled(c).reg >= Announced(Labelled(c).etag)
  <2>1. task[c] \in Task
    BY <1>1, TaskType, TasksApart
  <2> QED
    BY <1>1, <1>3, <2>1 DEF HasInputs, Labelled, Labels, Task, RequestCovers
<1>4. ASSUME NEW b \in Labels, b.etag <= etag, b.reg >= Announced(b.etag)
      PROVE  b.etag <= etag' /\ b.reg >= Announced(b.etag)'
  <2>1. b.etag \in 0..etag
    BY <1>2, <1>4 DEF Labels
  <2>2. Announced(b.etag)' = Announced(b.etag)
    BY <1>2, <2>1
  <2> QED
    BY <1>2, <1>4, <2>1, <2>2
<1>5. \A r \in Replicas : bundle[r] # None =>
         bundle[r] \in Labels /\ bundle[r].etag <= etag
         /\ bundle[r].reg >= Announced(bundle[r].etag)
  BY <1>1 DEF TypeOK, Labelling, BundleCoversEtag
<1>6. \A c \in Clients : opa[c] # None =>
         opa[c] \in Labels /\ opa[c].etag <= etag
         /\ opa[c].reg >= Announced(opa[c].etag)
  BY <1>1 DEF TypeOK, Labelling, BundleCoversEtag
<1>7. ASSUME NEW r \in Replicas, bundle'[r] # None
      PROVE  bundle'[r].etag <= etag' /\ (bundle[r].reg >= Announced(bundle[r].etag))'
  <2>1. PICK b \in Labels : b = bundle'[r] /\ b.etag <= etag /\ b.reg >= Announced(b.etag)
    BY <1>1, <1>3, <1>5, <1>7, BundleMoves
  <2>2. b.etag <= etag' /\ b.reg >= Announced(b.etag)'
    BY <1>4, <2>1
  <2> QED
    BY <2>1, <2>2 DEF Announced
<1>8. ASSUME NEW c \in Clients, opa'[c] # None
      PROVE  opa'[c].etag <= etag' /\ (opa[c].reg >= Announced(opa[c].etag))'
  <2>1. PICK b \in Labels : b = opa'[c] /\ b.etag <= etag /\ b.reg >= Announced(b.etag)
    BY <1>1, <1>3, <1>5, <1>6, <1>8, BundleMoves
  <2>2. b.etag <= etag' /\ b.reg >= Announced(b.etag)'
    BY <1>4, <2>1
  <2> QED
    BY <2>1, <2>2 DEF Announced
<1> QED
  BY <1>7, <1>8 DEF Labelling, BundleCoversEtag

\* The generation and the version at which it began change together.
LEMMA EpochMoves ==
  ASSUME TypeOK, Marked, [Next]_vars, NEW r \in Replicas
  PROVE  \/ epoch'[r] = epoch[r] /\ busted'[r] = busted[r]
         \/ epoch'[r] = epoch[r] + 1 /\ busted'[r] = reg /\ review'[r] = None
            /\ task' = task
         \/ epoch'[r] = 0 /\ busted'[r] = busted[r] /\ review'[r] = None
            /\ \A t \in Tasks : task'[t] = IF task[t].at = r THEN NoTask ELSE task[t]
<1> DEFINE P == \/ epoch'[r] = epoch[r] /\ busted'[r] = busted[r]
                \/ epoch'[r] = epoch[r] + 1 /\ busted'[r] = reg /\ review'[r] = None
                   /\ task' = task
                \/ epoch'[r] = 0 /\ busted'[r] = busted[r] /\ review'[r] = None
                   /\ \A t \in Tasks : task'[t] = IF task[t].at = r THEN NoTask ELSE task[t]
<1>1. ASSUME NEW w \in Writers, Bust(w) PROVE P
  BY <1>1 DEF Bust, Does, TypeOK, Marked
<1>2. ASSUME NEW q \in Replicas, Crash(q) PROVE P
  BY <1>2 DEF Crash, TypeOK, history
<1>3. ASSUME UNCHANGED <<epoch, busted>> PROVE P
  BY <1>3
<1>4. \/ UNCHANGED <<epoch, busted>>
      \/ \E w \in Writers : Bust(w)
      \/ \E q \in Replicas : Crash(q)
  BY DEF Next, vars, caches, history, WriteStep, BeginWrite, WriteRegistry,
         WriteDirectory, DropBindings, NewEtag, NewGeneration, DropStats,
         ReadRegistry, Walk, WalkEnds, WalkFails, ReadEtag, NotModified,
         ServeCached, Build, Built, Refresh, Reviewed, Counted, Expire, Restart
<1> HIDE DEF P
<1>5. P
  BY <1>1, <1>2, <1>3, <1>4
<1> QED
  BY <1>5 DEF P

\* What can become of a cached review.
LEMMA ReviewMoves ==
  ASSUME TypeOK, [Next]_vars, NEW r \in Replicas
  PROVE  \/ review'[r] = review[r] \/ review'[r] = None
         \/ /\ UNCHANGED <<epoch, busted>>
            /\ \E t \in Reviews : /\ t[2] = r /\ HasInputs(t) /\ epoch[r] = task[t].stamp
                                  /\ review'[r] = Inputs(t)
<1> DEFINE P == \/ review'[r] = review[r] \/ review'[r] = None
                \/ /\ UNCHANGED <<epoch, busted>>
                   /\ \E t \in Reviews : /\ t[2] = r /\ HasInputs(t) /\ epoch[r] = task[t].stamp
                                         /\ review'[r] = Inputs(t)
<1>1. ASSUME NEW t \in Reviews, Reviewed(t) PROVE P
  BY <1>1 DEF Reviewed, KeepsReview, TypeOK, history
<1>2. ASSUME NEW w \in Writers, Bust(w) PROVE P
  BY <1>2 DEF Bust, TypeOK
<1>3. ASSUME NEW q \in Replicas, Crash(q) PROVE P
  BY <1>3 DEF Crash, TypeOK
<1>4. ASSUME UNCHANGED review PROVE P
  BY <1>4
<1>5. \/ UNCHANGED review
      \/ \E t \in Reviews : Reviewed(t)
      \/ \E w \in Writers : Bust(w)
      \/ \E q \in Replicas : Crash(q)
  BY DEF Next, vars, caches, WriteStep, BeginWrite, WriteRegistry,
         WriteDirectory, DropBindings, NewEtag, NewGeneration, DropStats,
         ReadRegistry, Walk, WalkEnds, WalkFails, ReadEtag, NotModified,
         ServeCached, Build, Built, Refresh, Counted, Expire, Restart
<1> HIDE DEF P
<1>6. P
  BY <1>1, <1>2, <1>3, <1>4, <1>5
<1> QED
  BY <1>6 DEF P

\* A refresh of the current generation stays recent.
LEMMA RefreshStep ==
  ASSUME TypeOK, Marked, RefreshCovers, [Next]_vars
  PROVE  RefreshCovers'
<1> SUFFICES ASSUME NEW t \in Reviews, task'[t].pc # "idle"
             PROVE  /\ task'[t].at = t[2] /\ task'[t].stamp <= epoch'[t[2]]
                    /\ task'[t].reg # None /\ task'[t].stamp = epoch'[t[2]]
                         => task'[t].reg >= busted'[t[2]]
  BY DEF RefreshCovers
<1> DEFINE r == t[2]
<1>1. r \in Replicas /\ t \in Tasks /\ t \notin Clients /\ t \notin Counts
  BY TasksApart
<1>2. /\ task[t] \in Task /\ epoch[r] \in Nat /\ busted[r] \in Nat /\ busted[r] <= reg
      /\ reg \in Nat
  BY <1>1, TaskType DEF TypeOK, Marked
<1>3. /\ task[t].pc # "idle" => task[t].at = r /\ task[t].stamp <= epoch[r]
      /\ task[t].pc # "idle" /\ task[t].reg # None /\ task[t].stamp = epoch[r]
           => task[t].reg >= busted[r]
  BY DEF RefreshCovers
<1>4. CASE epoch'[r] = epoch[r] /\ busted'[r] = busted[r]
  <2>1. CASE task'[t] = task[t]
    BY <1>2, <1>3, <1>4, <2>1
  <2>2. CASE task[t].pc = "reading" /\ task'[t] = [task[t] EXCEPT !.reg = reg]
    BY <1>2, <1>3, <1>4, <2>2 DEF Task
  <2>3. ASSUME NEW d, NEW v, task'[t] = [task[t] EXCEPT !.dir = d, !.walk = v]
        PROVE  /\ task'[t].at = r /\ task'[t].stamp <= epoch'[r]
               /\ task'[t].reg # None /\ task'[t].stamp = epoch'[r]
                    => task'[t].reg >= busted'[r]
    <3>1. /\ task'[t].pc = task[t].pc /\ task'[t].at = task[t].at
          /\ task'[t].stamp = task[t].stamp /\ task'[t].reg = task[t].reg
      BY <1>2, <2>3 DEF Task
    <3> QED
      BY <1>2, <1>3, <1>4, <3>1
  <2>4. CASE task'[t] = Reading(r, epoch[r])
    BY <1>2, <1>4, <2>4 DEF Reading
  <2>5. CASE task'[t] = NoTask
    BY <2>5 DEF NoTask
  <2>6. TaskMoves(t)
    BY <1>1, Moves
  <2> QED
    BY <1>1, <2>1, <2>2, <2>3, <2>4, <2>5, <2>6 DEF TaskMoves
<1>5. CASE epoch'[r] = epoch[r] + 1 /\ task' = task
  BY <1>2, <1>3, <1>5 DEF Task
<1>6. CASE \A u \in Tasks : task'[u] = IF task[u].at = r THEN NoTask ELSE task[u]
  <2>1. task'[t] # NoTask
    BY DEF NoTask
  <2> QED
    BY <1>1, <1>3, <1>6, <2>1
<1> QED
  BY <1>1, <1>4, <1>5, <1>6, EpochMoves

\* No review is kept that is older than the generation.
LEMMA ReviewStep ==
  ASSUME TypeOK, Marked, RefreshCovers, ReviewIsCurrent, [Next]_vars
  PROVE  ReviewIsCurrent'
<1> SUFFICES ASSUME NEW r \in Replicas, review'[r] # None
             PROVE  review'[r].reg >= busted'[r]
  BY DEF ReviewIsCurrent
<1>1. CASE /\ UNCHANGED <<epoch, busted>>
           /\ \E t \in Reviews : /\ t[2] = r /\ HasInputs(t) /\ epoch[r] = task[t].stamp
                                 /\ review'[r] = Inputs(t)
  BY <1>1, TaskType, TasksApart DEF RefreshCovers, HasInputs, Inputs
<1>2. CASE review'[r] = review[r]
  BY <1>2, EpochMoves DEF ReviewIsCurrent
<1> QED
  BY <1>1, <1>2, ReviewMoves

\* The invariant is inductive.
LEMMA InvStep == Inv /\ [Next]_vars => Inv'
<1> SUFFICES ASSUME Inv, [Next]_vars PROVE Inv'
  OBVIOUS
<1> USE DEF Inv
<1>1. TypeOK'
  BY TypeStep
<1>2. Marked'
  BY HistoryGrows
<1>3. Placed'
  BY PlacedStep
<1>4. RequestCovers'
  BY RequestStep
<1>5. Labelling' /\ BundleCoversEtag'
  BY BundleStep
<1>6. RefreshCovers'
  BY RefreshStep
<1>7. ReviewIsCurrent'
  BY ReviewStep
<1> QED
  BY <1>1, <1>2, <1>3, <1>4, <1>5, <1>6, <1>7

THEOREM Invariant == Spec => []Inv
BY InitInv, InvStep, PTL DEF Spec

\* The variables keep their types, whatever the bounds.
THEOREM TypeCorrect == Spec => []TypeOK
<1>1. Inv => TypeOK
  BY DEF Inv
<1> QED
  BY <1>1, Invariant, PTL

\* A bundle contains what its etag announces (opa-bundle.service.ts reads the
\* etag before the data), with any number of replicas, clients and mutations.
THEOREM BundlesCoverTheirEtags == Spec => []BundleCoversEtag
<1>1. Inv => BundleCoversEtag
  BY DEF Inv
<1> QED
  BY <1>1, Invariant, PTL

\* The generation of access-review.service.ts keeps older reviews out.
THEOREM ReviewsAreCurrent == Spec => []ReviewIsCurrent
<1>1. Inv => ReviewIsCurrent
  BY DEF Inv
<1> QED
  BY <1>1, Invariant, PTL

=============================================================================
