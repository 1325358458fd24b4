------------------------- MODULE UserGroups_proofs --------------------------
(***************************************************************************)
(* Proofs about UserGroups, for any number of writers of each kind, any    *)
(* group definitions, actors and requests.                                 *)
(*                                                                         *)
(* PreimageHolds is not inductive by itself.  It rests on the lock (a      *)
(* locked writer that is not tainted holds it from its read to its         *)
(* release), and the two action properties also rest on what the gate let  *)
(* through (GatePassed) and on where a stale write gets its groups from    *)
(* (WritesHeld).                                                           *)
(***************************************************************************)
EXTENDS UserGroups, TLAPS

Section == {"read", "gate", "fetch", "put", "release"}

\* A locked writer between its read and its release holds the lock.
HoldsLock == \A w \in Locked \ tainted : pc[w] \in Section => lock = w

\* What passed the gate still clears it: the gate's inputs are the writer's own.
GatePassed == \A w \in Appliers : pc[w] \in {"fetch", "put"} => GateOpens(w)

\* Every group a writer remembers was held by the user once.
RemembersHeld ==
  /\ Eff(identity.groups) \subseteq held
  /\ \A w \in Writers \ Toggles : pc[w] \in {"gate", "fetch", "put"} => old[w] \subseteq held
  /\ \A w \in Writers : pc[w] = "put" => got[w].groups \subseteq held

\* A drop adds no group but the base group to what it read.
DropsOnly ==
  \A w \in Cleaners \cup Reviewers :
    pc[w] \in {"fetch", "put"} => want[w] \subseteq old[w] \cup {Base}

\* Only locked writers queue for the lock, and a request for groups names some.
Lanes ==
  /\ \A w \in Writers : pc[w] = "wait" => w \in Locked
  /\ \A w \in Appliers : pc[w] \in {"wait", "read", "gate"} => want[w] # {}

IInv == TypeOK /\ Lanes /\ HoldsLock /\ PreimageHolds /\ GatePassed /\ RemembersHeld /\ DropsOnly

USE DEF data

-----------------------------------------------------------------------------
LEMMA EffType == ASSUME NEW G \in SUBSET Groups PROVE Eff(G) \in SUBSET Groups /\ Eff(G) # {}
  BY GroupAssumption DEF Eff

LEMMA EffAgain == ASSUME NEW G, G # {} PROVE Eff(G) = G
  BY DEF Eff

\* Whatever a writer puts back, its groups are groups.
LEMMA PutType ==
  ASSUME TypeOK, NEW w \in Writers, pc[w] = "put",
         NEW g \in PutGroups(w), NEW a \in PutActive(w)
  PROVE  [groups |-> g, active |-> a] \in Identity
<1>1. w \in Locked \cup Reviewers \/ w \in Editors \/ w \in Toggles
  BY DEF Writers, Unlocked
<1>2. g \in SUBSET Groups
  <2>1. got[w].groups \in SUBSET Groups /\ old[w] \in SUBSET Groups /\ want[w] \in SUBSET Groups
    BY DEF TypeOK, Identity
  <2>2. g \in {want[w], {}, got[w].groups, old[w]}
    BY <1>1, WriterAssumption DEF PutGroups, Locked, Unlocked
  <2> QED BY <2>1, <2>2
<1>3. a \in BOOLEAN
  BY DEF PutActive, TypeOK, Identity
<1> QED BY <1>2, <1>3 DEF Identity

LEMMA InitInv == Init => IInv
<1> SUFFICES ASSUME Init PROVE IInv
  OBVIOUS
<1>1. TypeOK
  <2>1. identity \in Identity
    BY GroupAssumption DEF Init, Identity
  <2>2. held \in SUBSET Groups
    BY <2>1, EffType DEF Init, Identity
  <2> QED BY <2>1, <2>2, GroupAssumption DEF Init, TypeOK, Stages, NeverGroupless, Locked, Unlocked, Writers
<1>2. HoldsLock /\ PreimageHolds /\ GatePassed /\ RemembersHeld /\ DropsOnly /\ Lanes
  BY DEF Init, HoldsLock, Section, PreimageHolds, GatePassed, RemembersHeld, DropsOnly,
         Locked, Unlocked, Writers, Lanes
<1> QED BY <1>1, <1>2 DEF IInv

LEMMA TypeStep == TypeOK /\ Lanes /\ [Next]_vars => TypeOK' /\ Lanes'
<1> SUFFICES ASSUME TypeOK, Lanes, [Next]_vars PROVE TypeOK' /\ Lanes'
  OBVIOUS
<1>0. CASE UNCHANGED vars
  BY <1>0 DEF vars, TypeOK, NeverGroupless, Lanes
<1> SUFFICES ASSUME NEW w \in Writers,
      \/ StartApply(w) \/ StartCleanup(w) \/ StartRevoke(w) \/ StartEdit(w)
      \/ Acquire(w) \/ Busy(w) \/ Release(w) \/ Lapse(w) \/ Crash(w)
      \/ ReadForApply(w) \/ ReadForDrop(w) \/ ReadForEdit(w) \/ ReadFails(w)
      \/ PassGate(w) \/ DenyGate(w)
      \/ Fetch(w) \/ Put(w) \/ UpdateFails(w)
    PROVE TypeOK' /\ Lanes'
  BY <1>0 DEF Next
<1> USE DEF TypeOK, NeverGroupless, Lanes, Stages, Goto, Abort, Writers, Locked
<1>1. CASE StartApply(w)
  BY <1>1, EffType, GroupAssumption DEF StartApply
<1>2. CASE StartCleanup(w)
  BY <1>2 DEF StartCleanup
<1>3. CASE StartRevoke(w)
  BY <1>3 DEF StartRevoke
<1>4. CASE StartEdit(w)
  BY <1>4, WriterAssumption DEF StartEdit, Unlocked
<1>5. CASE Acquire(w)
  BY <1>5 DEF Acquire
<1>6. CASE Busy(w)
  BY <1>6 DEF Busy
<1>7. CASE Release(w)
  BY <1>7 DEF Release
<1>8. CASE Lapse(w)
  BY <1>8, WriterAssumption DEF Lapse
<1>9. CASE Crash(w)
  BY <1>9 DEF Crash
<1>10. CASE ReadForApply(w)
  BY <1>10, EffType DEF ReadForApply, Identity
<1>11. CASE ReadForDrop(w)
  <2> DEFINE now == Eff(identity.groups)
  <2>1. now \in SUBSET Groups /\ now # {}
    BY EffType DEF Identity
  <2>2. w \notin Appliers
    BY <1>11, WriterAssumption DEF ReadForDrop, Unlocked
  <2>3. CASE UNCHANGED <<want, old>> /\ Abort(w)
    BY <1>11, <2>3, <2>2 DEF ReadForDrop
  <2>4. ASSUME NEW g \in want[w], old' = [old EXCEPT ![w] = now],
               want' = [want EXCEPT ![w] = Without(now, g)], Goto(w, "fetch")
        PROVE  TypeOK' /\ Lanes'
    <3>1. Without(now, g) \in SUBSET Groups /\ Without(now, g) # {}
      BY <2>1, GroupAssumption DEF Without
    <3> QED BY <1>11, <2>4, <2>1, <2>2, <3>1 DEF ReadForDrop
  <2> QED BY <1>11, <2>3, <2>4 DEF ReadForDrop
<1>12. CASE ReadForEdit(w)
  BY <1>12, WriterAssumption DEF ReadForEdit, Identity, Unlocked
<1>13. CASE ReadFails(w)
  BY <1>13 DEF ReadFails
<1>14. CASE PassGate(w)
  BY <1>14 DEF PassGate
<1>15. CASE DenyGate(w)
  BY <1>15 DEF DenyGate
<1>16. CASE Fetch(w)
  BY <1>16 DEF Fetch
<1>17. CASE Put(w)
  BY <1>17, PutType, EffType DEF Put, Spoiled, Identity
<1>18. CASE UpdateFails(w)
  BY <1>18 DEF UpdateFails
<1> QED BY <1>1, <1>2, <1>3, <1>4, <1>5, <1>6, <1>7, <1>8, <1>9, <1>10, <1>11,
           <1>12, <1>13, <1>14, <1>15, <1>16, <1>17, <1>18

LEMMA LockStep == IInv /\ [Next]_vars => HoldsLock' /\ PreimageHolds'
<1> SUFFICES ASSUME IInv, [Next]_vars PROVE HoldsLock' /\ PreimageHolds'
  OBVIOUS
<1>0. CASE UNCHANGED vars
  BY <1>0 DEF vars, IInv, HoldsLock, PreimageHolds, Section
<1> SUFFICES ASSUME NEW w \in Writers,
      \/ StartApply(w) \/ StartCleanup(w) \/ StartRevoke(w) \/ StartEdit(w)
      \/ Acquire(w) \/ Busy(w) \/ Release(w) \/ Lapse(w) \/ Crash(w)
      \/ ReadForApply(w) \/ ReadForDrop(w) \/ ReadForEdit(w) \/ ReadFails(w)
      \/ PassGate(w) \/ DenyGate(w)
      \/ Fetch(w) \/ Put(w) \/ UpdateFails(w)
    PROVE HoldsLock' /\ PreimageHolds'
  BY <1>0 DEF Next
<1> USE DEF IInv, TypeOK, Lanes, HoldsLock, PreimageHolds, Section, Goto, Abort, Writers, Locked
<1>1. CASE StartApply(w)
  BY <1>1, WriterAssumption DEF StartApply, Unlocked
<1>2. CASE StartCleanup(w)
  BY <1>2, WriterAssumption DEF StartCleanup, Unlocked
<1>3. CASE StartRevoke(w)
  BY <1>3, WriterAssumption DEF StartRevoke, Unlocked
<1>4. CASE StartEdit(w)
  BY <1>4, WriterAssumption DEF StartEdit, Unlocked
<1>5. CASE Acquire(w)
  BY <1>5, WriterAssumption DEF Acquire, Unlocked
<1>6. CASE Busy(w)
  BY <1>6 DEF Busy
<1>7. CASE Release(w)
  BY <1>7 DEF Release
<1>8. CASE Lapse(w)
  BY <1>8, WriterAssumption DEF Lapse, Unlocked
<1>9. CASE Crash(w)
  BY <1>9 DEF Crash
<1>10. CASE ReadForApply(w)
  BY <1>10, WriterAssumption DEF ReadForApply, Unlocked
<1>11. CASE ReadForDrop(w)
  BY <1>11, WriterAssumption DEF ReadForDrop, Unlocked
<1>12. CASE ReadForEdit(w)
  BY <1>12, WriterAssumption DEF ReadForEdit, Unlocked
<1>13. CASE ReadFails(w)
  BY <1>13 DEF ReadFails
<1>14. CASE PassGate(w)
  BY <1>14 DEF PassGate
<1>15. CASE DenyGate(w)
  BY <1>15 DEF DenyGate
<1>16. CASE Fetch(w)
  BY <1>16 DEF Fetch
<1>17. CASE Put(w)
  BY <1>17, WriterAssumption DEF Put, Spoiled, Unlocked
<1>18. CASE UpdateFails(w)
  BY <1>18 DEF UpdateFails
<1> QED BY <1>1, <1>2, <1>3, <1>4, <1>5, <1>6, <1>7, <1>8, <1>9,
           <1>10, <1>11, <1>12, <1>13, <1>14, <1>15, <1>16, <1>17, <1>18

LEMMA GateStep == IInv /\ [Next]_vars => GatePassed'
<1> SUFFICES ASSUME IInv, [Next]_vars PROVE GatePassed'
  OBVIOUS
<1>0. CASE UNCHANGED vars
  BY <1>0 DEF vars, IInv, GatePassed, GateOpens, Gated, Clears, NeedsMfa, Added, Removed
<1> SUFFICES ASSUME NEW w \in Writers,
      \/ StartApply(w) \/ StartCleanup(w) \/ StartRevoke(w) \/ StartEdit(w)
      \/ Acquire(w) \/ Busy(w) \/ Release(w) \/ Lapse(w) \/ Crash(w)
      \/ ReadForApply(w) \/ ReadForDrop(w) \/ ReadForEdit(w) \/ ReadFails(w)
      \/ PassGate(w) \/ DenyGate(w)
      \/ Fetch(w) \/ Put(w) \/ UpdateFails(w)
    PROVE GatePassed'
  BY <1>0 DEF Next
<1> USE DEF IInv, TypeOK, Lanes, GatePassed, GateOpens, Gated, Clears, NeedsMfa, Added, Removed, Goto, Abort, Writers, Locked
<1>1. CASE StartApply(w)
  BY <1>1, WriterAssumption DEF StartApply, Unlocked
<1>2. CASE StartCleanup(w)
  BY <1>2, WriterAssumption DEF StartCleanup, Unlocked
<1>3. CASE StartRevoke(w)
  BY <1>3, WriterAssumption DEF StartRevoke, Unlocked
<1>4. CASE StartEdit(w)
  BY <1>4, WriterAssumption DEF StartEdit, Unlocked
<1>5. CASE Acquire(w)
  BY <1>5, WriterAssumption DEF Acquire, Unlocked
<1>6. CASE Busy(w)
  BY <1>6 DEF Busy
<1>7. CASE Release(w)
  BY <1>7 DEF Release
<1>8. CASE Lapse(w)
  BY <1>8, WriterAssumption DEF Lapse, Unlocked
<1>9. CASE Crash(w)
  BY <1>9 DEF Crash
<1>10. CASE ReadForApply(w)
  BY <1>10, WriterAssumption DEF ReadForApply, Unlocked
<1>11. CASE ReadForDrop(w)
  BY <1>11, WriterAssumption DEF ReadForDrop, Unlocked
<1>12. CASE ReadForEdit(w)
  BY <1>12, WriterAssumption DEF ReadForEdit, Unlocked
<1>13. CASE ReadFails(w)
  BY <1>13 DEF ReadFails
<1>14. CASE PassGate(w)
  BY <1>14 DEF PassGate
<1>15. CASE DenyGate(w)
  BY <1>15 DEF DenyGate
<1>16. CASE Fetch(w)
  BY <1>16 DEF Fetch
<1>17. CASE Put(w)
  BY <1>17, WriterAssumption DEF Put, Spoiled, Unlocked
<1>18. CASE UpdateFails(w)
  BY <1>18 DEF UpdateFails
<1> QED BY <1>1, <1>2, <1>3, <1>4, <1>5, <1>6, <1>7, <1>8, <1>9,
           <1>10, <1>11, <1>12, <1>13, <1>14, <1>15, <1>16, <1>17, <1>18

LEMMA HeldStep == IInv /\ [Next]_vars => RemembersHeld'
<1> SUFFICES ASSUME IInv, [Next]_vars PROVE RemembersHeld'
  OBVIOUS
<1>0. CASE UNCHANGED vars
  BY <1>0 DEF vars, IInv, RemembersHeld
<1> SUFFICES ASSUME NEW w \in Writers,
      \/ StartApply(w) \/ StartCleanup(w) \/ StartRevoke(w) \/ StartEdit(w)
      \/ Acquire(w) \/ Busy(w) \/ Release(w) \/ Lapse(w) \/ Crash(w)
      \/ ReadForApply(w) \/ ReadForDrop(w) \/ ReadForEdit(w) \/ ReadFails(w)
      \/ PassGate(w) \/ DenyGate(w)
      \/ Fetch(w) \/ Put(w) \/ UpdateFails(w)
    PROVE RemembersHeld'
  BY <1>0 DEF Next
<1> USE DEF IInv, TypeOK, Lanes, RemembersHeld, Goto, Abort, Writers, Locked
<1>1. CASE StartApply(w)
  BY <1>1, WriterAssumption DEF StartApply, Unlocked
<1>2. CASE StartCleanup(w)
  BY <1>2, WriterAssumption DEF StartCleanup, Unlocked
<1>3. CASE StartRevoke(w)
  BY <1>3, WriterAssumption DEF StartRevoke, Unlocked
<1>4. CASE StartEdit(w)
  BY <1>4, WriterAssumption DEF StartEdit, Unlocked
<1>5. CASE Acquire(w)
  BY <1>5, WriterAssumption DEF Acquire, Unlocked
<1>6. CASE Busy(w)
  BY <1>6 DEF Busy
<1>7. CASE Release(w)
  BY <1>7 DEF Release
<1>8. CASE Lapse(w)
  BY <1>8, WriterAssumption DEF Lapse, Unlocked
<1>9. CASE Crash(w)
  BY <1>9 DEF Crash
<1>10. CASE ReadForApply(w)
  BY <1>10, WriterAssumption DEF ReadForApply, Unlocked
<1>11. CASE ReadForDrop(w)
  BY <1>11, WriterAssumption DEF ReadForDrop, Unlocked
<1>12. CASE ReadForEdit(w)
  BY <1>12, WriterAssumption DEF ReadForEdit, Unlocked, Eff
<1>13. CASE ReadFails(w)
  BY <1>13 DEF ReadFails
<1>14. CASE PassGate(w)
  BY <1>14 DEF PassGate
<1>15. CASE DenyGate(w)
  BY <1>15 DEF DenyGate
<1>16. CASE Fetch(w)
  BY <1>16 DEF Fetch, Eff
<1>17. CASE Put(w)
  BY <1>17, WriterAssumption DEF Put, Spoiled, Unlocked
<1>18. CASE UpdateFails(w)
  BY <1>18 DEF UpdateFails
<1> QED BY <1>1, <1>2, <1>3, <1>4, <1>5, <1>6, <1>7, <1>8, <1>9,
           <1>10, <1>11, <1>12, <1>13, <1>14, <1>15, <1>16, <1>17, <1>18

LEMMA DropStep == IInv /\ [Next]_vars => DropsOnly'
<1> SUFFICES ASSUME IInv, [Next]_vars PROVE DropsOnly'
  OBVIOUS
<1>0. CASE UNCHANGED vars
  BY <1>0 DEF vars, IInv, DropsOnly
<1> SUFFICES ASSUME NEW w \in Writers,
      \/ StartApply(w) \/ StartCleanup(w) \/ StartRevoke(w) \/ StartEdit(w)
      \/ Acquire(w) \/ Busy(w) \/ Release(w) \/ Lapse(w) \/ Crash(w)
      \/ ReadForApply(w) \/ ReadForDrop(w) \/ ReadForEdit(w) \/ ReadFails(w)
      \/ PassGate(w) \/ DenyGate(w)
      \/ Fetch(w) \/ Put(w) \/ UpdateFails(w)
    PROVE DropsOnly'
  BY <1>0 DEF Next
<1> USE DEF IInv, TypeOK, Lanes, DropsOnly, Goto, Abort, Writers, Locked
<1>1. CASE StartApply(w)
  BY <1>1, WriterAssumption DEF StartApply, Unlocked
<1>2. CASE StartCleanup(w)
  BY <1>2, WriterAssumption DEF StartCleanup, Unlocked
<1>3. CASE StartRevoke(w)
  BY <1>3, WriterAssumption DEF StartRevoke, Unlocked
<1>4. CASE StartEdit(w)
  BY <1>4, WriterAssumption DEF StartEdit, Unlocked
<1>5. CASE Acquire(w)
  BY <1>5, WriterAssumption DEF Acquire, Unlocked
<1>6. CASE Busy(w)
  BY <1>6 DEF Busy
<1>7. CASE Release(w)
  BY <1>7 DEF Release
<1>8. CASE Lapse(w)
  BY <1>8, WriterAssumption DEF Lapse, Unlocked
<1>9. CASE Crash(w)
  BY <1>9 DEF Crash
<1>10. CASE ReadForApply(w)
  BY <1>10, WriterAssumption DEF ReadForApply, Unlocked
<1>11. CASE ReadForDrop(w)
  BY <1>11, WriterAssumption DEF ReadForDrop, Unlocked, Without
<1>12. CASE ReadForEdit(w)
  BY <1>12, WriterAssumption DEF ReadForEdit, Unlocked
<1>13. CASE ReadFails(w)
  BY <1>13 DEF ReadFails
<1>14. CASE PassGate(w)
  BY <1>14, WriterAssumption DEF PassGate, Unlocked
<1>15. CASE DenyGate(w)
  BY <1>15 DEF DenyGate
<1>16. CASE Fetch(w)
  BY <1>16 DEF Fetch
<1>17. CASE Put(w)
  BY <1>17, WriterAssumption DEF Put, Spoiled, Unlocked
<1>18. CASE UpdateFails(w)
  BY <1>18 DEF UpdateFails
<1> QED BY <1>1, <1>2, <1>3, <1>4, <1>5, <1>6, <1>7, <1>8, <1>9,
           <1>10, <1>11, <1>12, <1>13, <1>14, <1>15, <1>16, <1>17, <1>18

LEMMA Inductive == IInv /\ [Next]_vars => IInv'
BY TypeStep, LockStep, GateStep, HeldStep, DropStep DEF IInv

LEMMA Invariance == Spec => []IInv
BY InitInv, Inductive, PTL DEF Spec

\* In every behaviour every variable keeps its type, and a writer that replaces
\* the groups never names none: no user of jinbe ends up groupless.
THEOREM TypeCorrect == Spec => []TypeOK
<1>1. IInv => TypeOK
  BY DEF IInv
<1> QED BY Invariance, <1>1, PTL

\* The lock does what applyGroupUpdate relies on: between its read and its PUT
\* the membership is the pre-image that the gate was computed from, unless a
\* writer without a lock or a lapsed lease came in between.
THEOREM LockedPreimageHolds == Spec => []PreimageHolds
<1>1. IInv => PreimageHolds
  BY DEF IInv
<1> QED BY Invariance, <1>1, PTL

-----------------------------------------------------------------------------
\* A step that changes the identity is the PUT of the writer that leaves "put".
LEMMA OnlyPutWrites ==
  ASSUME TypeOK, [Next]_vars, NEW w \in Writers, Writes(w)
  PROVE  Put(w)
<1>1. PICK v \in Writers :
      \/ StartApply(v) \/ StartCleanup(v) \/ StartRevoke(v) \/ StartEdit(v)
      \/ Acquire(v) \/ Busy(v) \/ Release(v) \/ Lapse(v) \/ Crash(v)
      \/ ReadForApply(v) \/ ReadForDrop(v) \/ ReadForEdit(v) \/ ReadFails(v)
      \/ PassGate(v) \/ DenyGate(v)
      \/ Fetch(v) \/ Put(v) \/ UpdateFails(v)
  BY DEF Writes, Next, vars
<1>2. Put(v)
  BY <1>1 DEF Writes, StartApply, StartCleanup, StartRevoke, StartEdit, Acquire, Busy,
              Release, Lapse, Crash, ReadForApply, ReadForDrop, ReadForEdit, ReadFails,
              PassGate, DenyGate, Fetch, UpdateFails
<1>3. pc' = [pc EXCEPT ![v] = pc'[v]]
  BY <1>2 DEF Put, Abort, Goto, TypeOK
<1>4. v = w
  BY <1>3 DEF Writes, TypeOK
<1> QED BY <1>2, <1>4

\* What an applier gains for the user was added by its request or read by it;
\* what it added cleared the gate.
LEMMA AddedMayBeAdded ==
  ASSUME IInv, NEW w \in Appliers, pc[w] = "put", NEW g \in Added(w)
  PROVE  MayAdd(w, g)
BY DEF IInv, GatePassed, GateOpens, Gated, NeedsMfa, MayAdd, Clears

LEMMA RemovedMayBeRemoved ==
  ASSUME IInv, NEW w \in Appliers, pc[w] = "put", NEW g \in Removed(w)
  PROVE  MayRemove(w, g)
BY DEF IInv, GatePassed, GateOpens, Gated, MayRemove, Clears

\* Nobody joins a group without the authority of the actor who asks, except that a stale
\* write of an unlocked or lapsed writer may bring back what the user held.
THEOREM GrantsAreAuthorised == Spec => NoUnauthorisedGrant
<1>1. ASSUME IInv, [Next]_vars, NEW w \in Writers, Writes(w), NEW g \in Gains
      PROVE  \/ w \in Appliers /\ MayAdd(w, g)
             \/ w \notin Appliers /\ g = Base
             \/ g \in held /\ w \in Unlocked \cup tainted
  <2>1. Put(w) /\ pc[w] = "put"
    BY <1>1, OnlyPutWrites DEF IInv, Put
  <2>2. PICK ng \in PutGroups(w) : identity'.groups = ng
    BY <2>1 DEF Put
  <2>3. g \in Eff(ng) /\ g \notin Eff(identity.groups)
    BY <1>1, <2>2 DEF Gains
  <2>4. CASE w \in Locked \cup Reviewers
    <3>1. ng = want[w] /\ want[w] # {}
      BY <1>1, <2>1, <2>2, <2>4, WriterAssumption DEF PutGroups, Locked, Unlocked, IInv, TypeOK, NeverGroupless
    <3>2. g \in want[w]
      BY <2>3, <3>1, EffAgain
    <3>3. old[w] \subseteq held
      BY <1>1, <2>1, <2>4, WriterAssumption DEF IInv, RemembersHeld, Locked, Unlocked, Writers
    <3>4. w \in Locked \ tainted => old[w] = Eff(identity.groups)
      BY <1>1, <2>1 DEF IInv, PreimageHolds
    <3>5. CASE w \in Appliers
      BY <1>1, <3>2, <3>3, <3>4, <3>5, <2>1, <2>3, AddedMayBeAdded DEF Added, Locked
    <3>6. CASE w \notin Appliers
      BY <1>1, <3>2, <3>3, <3>4, <3>6, <2>1, <2>3, <2>4 DEF IInv, DropsOnly, Locked, Unlocked
    <3> QED BY <3>5, <3>6
  <2>5. CASE w \in Editors \/ w \in Toggles
    <3>1. w \notin Appliers /\ w \in Unlocked
      BY <2>5, WriterAssumption DEF Unlocked
    <3>2. got[w].groups \subseteq held /\ (w \notin Toggles => old[w] \subseteq held)
      BY <1>1, <2>1 DEF IInv, RemembersHeld
    <3>3. ng \in {{}, got[w].groups} \/ (w \notin Toggles /\ ng = old[w])
      <4>1. w \notin Locked \cup Reviewers
        BY <2>5, WriterAssumption DEF Unlocked, Locked
      <4>2. CASE w \in Editors
        BY <4>1, <4>2, <2>2, WriterAssumption DEF PutGroups
      <4>3. CASE w \in Toggles
        BY <4>1, <4>3, <2>2, WriterAssumption DEF PutGroups
      <4> QED BY <2>5, <4>2, <4>3
    <3> QED BY <3>1, <3>2, <3>3, <2>3 DEF Eff
  <2> QED BY <2>4, <2>5 DEF Writers, Unlocked
<1>2. IInv /\ [Next]_vars =>
        [\A w \in Writers : Writes(w) => \A g \in Gains :
           \/ w \in Appliers /\ MayAdd(w, g)
           \/ w \notin Appliers /\ g = Base
           \/ g \in held /\ w \in Unlocked \cup tainted]_vars
  BY <1>1
<1> QED BY Invariance, <1>2, PTL DEF Spec, NoUnauthorisedGrant

\* An organization's administrator removes only what this administrator could
\* grant, as long as the lock protected the pre-image.
THEOREM StripsAreGated == Spec => NoUngatedStrip
<1>1. ASSUME IInv, [Next]_vars, NEW w \in Appliers \ tainted, Writes(w), NEW g \in Losses
      PROVE  MayRemove(w, g)
  <2>1. Put(w) /\ pc[w] = "put"
    BY <1>1, OnlyPutWrites DEF IInv, Put, Writers, Locked
  <2>2. identity'.groups = want[w] /\ want[w] # {}
    BY <1>1, <2>1, WriterAssumption
    DEF Put, PutGroups, Locked, Unlocked, Writers, IInv, TypeOK, NeverGroupless
  <2>3. old[w] = Eff(identity.groups)
    BY <1>1, <2>1 DEF IInv, PreimageHolds, Locked
  <2>4. g \in Removed(w)
    BY <1>1, <2>2, <2>3, EffAgain DEF Losses, Removed
  <2> QED BY <1>1, <2>1, <2>4, RemovedMayBeRemoved
<1>2. IInv /\ [Next]_vars =>
        [\A w \in Appliers \ tainted : Writes(w) => \A g \in Losses : MayRemove(w, g)]_vars
  BY <1>1
<1> QED BY Invariance, <1>2, PTL DEF Spec, NoUngatedStrip
=============================================================================
