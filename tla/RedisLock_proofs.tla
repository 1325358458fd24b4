-------------------------- MODULE RedisLock_proofs --------------------------
(***************************************************************************)
(* For any number of calls and any TTL, wait and retry: the lease protects *)
(* the key, and withRedisLock implements the leased mutex.  No assumption  *)
(* relates the TTL to the length of a critical section; a call that        *)
(* overruns its TTL just stops being "inside".                             *)
(***************************************************************************)
EXTENDS RedisLock, TLAPS

LEMMA LessFact == ASSUME NEW m \in Nat, NEW n \in 0..m
                  PROVE  /\ Less(n) \in 0..m
                         /\ n > 0 => Less(n) = n - 1
                         /\ n = 0 => Less(n) = 0
  BY DEF Less

LEMMA InitInv == Init => LockInv
  BY NoOneAssumption, TimeAssumption
     DEF Init, LockInv, TypeOK, KeyIsALease, StrayIsOver, OwnerKeepsLock, Stages

LEMMA SetInv ==
  ASSUME LockInv, NEW c \in Callers, pc[c] = "try", SetNX(c),
         stray' = stray, wait' = wait, nap' \in [Callers -> 0..Retry],
         NEW s \in {"cs", "sleep", "refused"}, Goto(c, s)
  PROVE  LockInv'
<1>1. TypeOK'
  BY NoOneAssumption, TimeAssumption DEF LockInv, TypeOK, SetNX, Goto, Stages
<1>2. KeyIsALease'
  BY NoOneAssumption, TimeAssumption DEF LockInv, TypeOK, KeyIsALease, SetNX
<1>3. StrayIsOver'
  BY DEF LockInv, TypeOK, StrayIsOver, Goto
<1>4. OwnerKeepsLock'
  BY NoOneAssumption DEF LockInv, TypeOK, OwnerKeepsLock, SetNX, Goto
<1> QED BY <1>1, <1>2, <1>3, <1>4 DEF LockInv

\* A release, prompt or late, of a call whose critical section is over.
LEMMA DeleteInv ==
  ASSUME LockInv, NEW c \in Callers, pc[c] \in {"release", "done"}, CompareAndDelete(c),
         pc' = [pc EXCEPT ![c] = "done"],
         lease' = lease, wait' = wait, nap' = nap,
         stray' \in SUBSET stray
  PROVE  LockInv'
<1>1. TypeOK'
  BY TimeAssumption DEF LockInv, TypeOK, CompareAndDelete, Stages
<1>2. KeyIsALease'
  BY NoOneAssumption DEF LockInv, TypeOK, KeyIsALease, CompareAndDelete
<1>3. StrayIsOver'
  BY DEF LockInv, TypeOK, StrayIsOver
<1>4. OwnerKeepsLock'
  BY NoOneAssumption DEF LockInv, TypeOK, OwnerKeepsLock, CompareAndDelete
<1> QED BY <1>1, <1>2, <1>3, <1>4 DEF LockInv

LEMMA TickInv == LockInv /\ Tick => LockInv'
<1> SUFFICES ASSUME LockInv, Tick PROVE LockInv'
  OBVIOUS
<1> USE DEF LockInv, TypeOK, Tick
<1>1. Ttl \in Nat /\ Wait \in Nat /\ Retry \in Nat
  BY TimeAssumption
<1>2. TypeOK'
  <2>1. ttl' \in 0..Ttl BY <1>1, LessFact
  <2>2. owner' \in Callers \cup {NoOne} OBVIOUS
  <2>3. lease' \in [Callers -> 0..Ttl] BY <1>1, LessFact
  <2>4. wait' \in [Callers -> 0..Wait] BY <1>1, LessFact
  <2>5. nap' \in [Callers -> 0..Retry] BY <1>1, LessFact
  <2> QED BY <2>1, <2>2, <2>3, <2>4, <2>5
<1>3. KeyIsALease'
  <2>1. (owner' = NoOne) <=> (ttl' = 0)
    BY <1>1, NoOneAssumption, LessFact DEF KeyIsALease
  <2>2. ASSUME NEW c \in Callers, owner' = c PROVE lease'[c] = ttl'
    <3>1. owner = c BY <2>2, NoOneAssumption
    <3> QED BY <3>1 DEF KeyIsALease
  <2> QED BY <2>1, <2>2 DEF KeyIsALease
<1>4. StrayIsOver'
  BY DEF StrayIsOver
<1>5. OwnerKeepsLock'
  <2> SUFFICES ASSUME NEW c \in Callers, pc'[c] \in {"cs", "release"}, lease'[c] > 0
               PROVE  owner' = c
    BY DEF OwnerKeepsLock
  <2>1. lease[c] \in 0..Ttl /\ lease'[c] = Less(lease[c]) OBVIOUS
  <2>2. lease[c] > 0 /\ lease'[c] = lease[c] - 1 BY <2>1, <1>1, LessFact
  <2>3. owner = c BY <2>2 DEF OwnerKeepsLock
  <2>4. ttl = lease[c] BY <2>3 DEF KeyIsALease
  <2>5. ttl' > 0 BY <2>4
  <2> QED BY <2>3, <2>5
<1> QED BY <1>2, <1>3, <1>4, <1>5

LEMMA NextInv == LockInv /\ [Next]_vars => LockInv'
<1> SUFFICES ASSUME LockInv, [Next]_vars PROVE LockInv'
  OBVIOUS
<1> USE DEF LockInv
<1>1. CASE Tick
  BY <1>1, TickInv
<1>2. ASSUME NEW c \in Callers, Step(c) PROVE LockInv'
  <2>1. CASE Call(c)
    BY <2>1, TimeAssumption DEF Call, Goto, TypeOK, Stages, KeyIsALease, StrayIsOver, OwnerKeepsLock
  <2>2. CASE NewToken(c)
    <3>1. TypeOK'
      BY <2>2, TimeAssumption DEF NewToken, Goto, TypeOK, Stages
    <3>2. KeyIsALease' /\ StrayIsOver' /\ OwnerKeepsLock'
      BY <2>2 DEF NewToken, Goto, TypeOK, KeyIsALease, StrayIsOver, OwnerKeepsLock
    <3> QED BY <3>1, <3>2
  <2>3. CASE Acquire(c)
    BY <2>3, SetInv DEF Acquire, TypeOK
  <2>4. CASE AcquireReplyLost(c)
    <3>1. nap' \in [Callers -> 0..Retry]
      BY <2>4, TimeAssumption DEF AcquireReplyLost, TypeOK
    <3> QED BY <2>4, <3>1, SetInv DEF AcquireReplyLost, TypeOK
  <2>5. CASE Sleep(c)
    <3>1. TypeOK'
      BY <2>5, TimeAssumption DEF Sleep, Goto, TypeOK, Stages
    <3>2. KeyIsALease' /\ StrayIsOver' /\ OwnerKeepsLock'
      BY <2>5 DEF Sleep, Goto, TypeOK, KeyIsALease, StrayIsOver, OwnerKeepsLock
    <3> QED BY <3>1, <3>2
  <2>6. CASE Refuse(c)
    BY <2>6 DEF Refuse, Goto, TypeOK, Stages, KeyIsALease, StrayIsOver, OwnerKeepsLock
  <2>7. CASE Wake(c)
    BY <2>7 DEF Wake, Goto, TypeOK, Stages, KeyIsALease, StrayIsOver, OwnerKeepsLock
  <2>8. CASE FnSettles(c)
    BY <2>8 DEF FnSettles, Goto, TypeOK, Stages, KeyIsALease, StrayIsOver, OwnerKeepsLock
  <2>9. CASE Release(c)
    BY <2>9, DeleteInv DEF Release, Goto
  <2>10. CASE ReleaseErrors(c)
    BY <2>10 DEF ReleaseErrors, Goto, TypeOK, Stages, KeyIsALease, StrayIsOver, OwnerKeepsLock
  <2> QED
    BY <1>2, <2>1, <2>2, <2>3, <2>4, <2>5, <2>6, <2>7, <2>8, <2>9, <2>10 DEF Step
<1>3. ASSUME NEW c \in Callers, LateRelease(c) PROVE LockInv'
  <2>1. pc[c] = "done"
    BY <1>3 DEF LateRelease, StrayIsOver
  <2>2. pc' = [pc EXCEPT ![c] = "done"]
    BY <1>3, <2>1 DEF LateRelease, TypeOK
  <2> QED BY <1>3, <2>1, <2>2, DeleteInv DEF LateRelease
<1>4. ASSUME NEW c \in Callers, Crash(c) PROVE LockInv'
  BY <1>4 DEF Crash, Goto, TypeOK, Stages, KeyIsALease, StrayIsOver, OwnerKeepsLock
<1>5. CASE UNCHANGED vars
  BY <1>5 DEF vars, TypeOK, KeyIsALease, StrayIsOver, OwnerKeepsLock
<1> QED BY <1>1, <1>2, <1>3, <1>4, <1>5 DEF Next

LEMMA LockInvariance == Spec => []LockInv
  BY InitInv, NextInv, PTL DEF Spec

\* withRedisLock: every variable of the lock protocol keeps its type.
THEOREM TypeCorrect == Spec => []TypeOK
<1>1. LockInv => TypeOK BY DEF LockInv
<1> QED BY <1>1, LockInvariance, PTL

\* RELEASE_LUA and SET NX: the key of a live lease is never taken away.
THEOREM LeaseProtectsKey == Spec => []OwnerKeepsLock
<1>1. LockInv => OwnerKeepsLock BY DEF LockInv
<1> QED BY <1>1, LockInvariance, PTL

\* PX ttlMs: whoever blocks the key does so under a lease that runs out.
THEOREM KeyExpires == Spec => []KeyIsALease
<1>1. LockInv => KeyIsALease BY DEF LockInv
<1> QED BY <1>1, LockInvariance, PTL

-----------------------------------------------------------------------------
\* Refinement of the leased mutex.

LEMMA MapInit == Init => Mutex!Init
  BY DEF Init, Mutex!Init, Stage, StageOf

\* A step that only changes where c stands, from one of the given stages.
LEMMA MapOne ==
  ASSUME NEW c \in Callers, NEW from, NEW to,
         Stage(c) \in from, Stage(c)' = to,
         \A d \in Callers \ {c} : Stage(d)' = Stage(d)
  PROVE  Mutex!Move(c, from, to)
  BY DEF Mutex!Move, StageOf

\* The stages of the calls other than the one that steps.
LEMMA OthersStay ==
  ASSUME TypeOK, NEW c \in Callers,
         \A d \in Callers \ {c} : pc'[d] = pc[d] /\ lease'[d] = lease[d]
  PROVE  \A d \in Callers \ {c} : Stage(d)' = Stage(d)
  BY DEF Stage

\* Acquire needs the key to be free, so nobody else is inside.
LEMMA FreeMeansEmpty ==
  ASSUME LockInv, owner = NoOne
  PROVE  \A d \in Callers : Stage(d) # "inside"
  BY NoOneAssumption DEF LockInv, TypeOK, OwnerKeepsLock, Stage, Stages

\* At most one call is inside: two would own the same key.
LEMMA OneInside ==
  ASSUME LockInv, NEW a \in Callers, NEW b \in Callers,
         Stage(a) = "inside", Stage(b) = "inside"
  PROVE  a = b
  BY DEF LockInv, TypeOK, OwnerKeepsLock, Stage, Stages

LEMMA MapStep == LockInv /\ [Next]_vars => [Mutex!Next]_StageOf
<1> SUFFICES ASSUME LockInv, [Next]_vars PROVE [Mutex!Next]_StageOf
  OBVIOUS
<1> USE DEF LockInv
<1>1. CASE Tick
  <2>1. ASSUME NEW d \in Callers, Stage(d) # "inside" PROVE Stage(d)' = Stage(d)
    <3>1. pc'[d] = pc[d] /\ lease'[d] = Less(lease[d]) /\ lease[d] \in 0..Ttl
      BY <1>1 DEF Tick, TypeOK
    <3>2. lease[d] = 0 => lease'[d] = 0 BY <3>1, TimeAssumption, LessFact
    <3> QED BY <2>1, <3>1, <3>2 DEF Stage, TypeOK, Stages
  <2>2. CASE \E c \in Callers : Stage(c) = "inside" /\ Stage(c)' # "inside"
    <3>1. PICK c \in Callers : Stage(c) = "inside" /\ Stage(c)' # "inside"
      BY <2>2
    <3>2. Stage(c)' = "overrun"
      BY <1>1, <3>1 DEF Tick, Stage, TypeOK, Stages
    <3>3. \A d \in Callers \ {c} : Stage(d)' = Stage(d)
      BY <3>1, <2>1, OneInside
    <3>4. Mutex!Move(c, {"inside"}, "overrun") BY <3>1, <3>2, <3>3, MapOne
    <3> QED BY <3>4 DEF Mutex!Next, Mutex!Overrun
  <2>3. CASE \A c \in Callers : Stage(c) = "inside" => Stage(c)' = "inside"
    <3>1. \A d \in Callers : Stage(d)' = Stage(d) BY <2>1, <2>3
    <3> QED BY <3>1 DEF StageOf
  <2> QED BY <2>2, <2>3
<1>2. ASSUME NEW c \in Callers, Step(c) PROVE [Mutex!Next]_StageOf
  <2>0. \A d \in Callers \ {c} : Stage(d)' = Stage(d)
    BY <1>2, OthersStay DEF Step, Call, NewToken, Acquire, AcquireReplyLost, SetNX, Sleep,
       Refuse, Wake, FnSettles, Release, ReleaseErrors, Goto, TypeOK
  <2>1. CASE Call(c)
    <3>1. Stage(c) \in {"idle"} /\ Stage(c)' = "waiting"
      BY <2>1 DEF Call, Goto, Stage, TypeOK
    <3>2. Mutex!Move(c, {"idle"}, "waiting") BY <2>0, <3>1, MapOne
    <3> QED BY <3>2 DEF Mutex!Next, Mutex!Ask
  <2>2. CASE NewToken(c)
    <3>1. Stage(c) \in {"returned", "refused", "gone"} /\ Stage(c)' = "idle"
      BY <2>2 DEF NewToken, Goto, Stage, TypeOK
    <3>2. Mutex!Move(c, {"returned", "refused", "gone"}, "idle") BY <2>0, <3>1, MapOne
    <3> QED BY <3>2 DEF Mutex!Next, Mutex!Renew
  <2>3. CASE Acquire(c)
    <3>1. Stage(c) \in {"waiting"} /\ Stage(c)' = "inside"
      BY <2>3, TimeAssumption DEF Acquire, SetNX, Goto, Stage, TypeOK
    <3>2. Mutex!Move(c, {"waiting"}, "inside") BY <2>0, <3>1, MapOne
    <3>3. \A d \in Callers : StageOf[d] # "inside"
      BY <2>3, FreeMeansEmpty DEF Acquire, SetNX, StageOf
    <3> QED BY <3>2, <3>3 DEF Mutex!Next, Mutex!Enter
  <2>4. CASE AcquireReplyLost(c)
    <3>1. Stage(c) = "waiting" /\ Stage(c)' \in {"waiting", "refused"}
      BY <2>4 DEF AcquireReplyLost, Goto, Stage, TypeOK
    <3>2. CASE Stage(c)' = "waiting"
      BY <2>0, <3>1, <3>2 DEF StageOf
    <3>3. CASE Stage(c)' = "refused"
      <4>1. Mutex!Move(c, {"waiting"}, "refused") BY <2>0, <3>1, <3>3, MapOne
      <4> QED BY <4>1 DEF Mutex!Next, Mutex!Refuse
    <3> QED BY <3>1, <3>2, <3>3
  <2>5. CASE Sleep(c) \/ Wake(c)
    <3>1. Stage(c)' = Stage(c)
      BY <2>5 DEF Sleep, Wake, Goto, Stage, TypeOK
    <3> QED BY <2>0, <3>1 DEF StageOf
  <2>6. CASE Refuse(c)
    <3>1. Stage(c) \in {"waiting"} /\ Stage(c)' = "refused"
      BY <2>6 DEF Refuse, Goto, Stage, TypeOK
    <3>2. Mutex!Move(c, {"waiting"}, "refused") BY <2>0, <3>1, MapOne
    <3> QED BY <3>2 DEF Mutex!Next, Mutex!Refuse
  <2>7. CASE FnSettles(c)
    <3>1. Stage(c) \in {"inside", "overrun"} /\ Stage(c)' = "returned"
      BY <2>7 DEF FnSettles, Goto, Stage, TypeOK
    <3>2. Mutex!Move(c, {"inside", "overrun"}, "returned") BY <2>0, <3>1, MapOne
    <3> QED BY <3>2 DEF Mutex!Next, Mutex!Return
  <2>8. CASE Release(c) \/ ReleaseErrors(c)
    <3>1. Stage(c)' = Stage(c)
      BY <2>8 DEF Release, ReleaseErrors, Goto, Stage, TypeOK
    <3> QED BY <2>0, <3>1 DEF StageOf
  <2> QED BY <1>2, <2>1, <2>2, <2>3, <2>4, <2>5, <2>6, <2>7, <2>8 DEF Step
<1>3. ASSUME NEW c \in Callers, LateRelease(c) PROVE [Mutex!Next]_StageOf
  BY <1>3 DEF LateRelease, StageOf, Stage
<1>4. ASSUME NEW c \in Callers, Crash(c) PROVE [Mutex!Next]_StageOf
  <2>0. \A d \in Callers \ {c} : Stage(d)' = Stage(d)
    BY <1>4, OthersStay DEF Crash, Goto, TypeOK
  <2>1. Stage(c) \in {"waiting", "inside", "overrun", "returned"} /\ Stage(c)' = "gone"
    BY <1>4 DEF Crash, Goto, Stage, TypeOK
  <2>2. Mutex!Move(c, {"waiting", "inside", "overrun", "returned"}, "gone")
    BY <2>0, <2>1, MapOne
  <2> QED BY <2>2 DEF Mutex!Next, Mutex!Vanish
<1>5. CASE UNCHANGED vars
  BY <1>5 DEF vars, StageOf, Stage
<1> QED BY <1>1, <1>2, <1>3, <1>4, <1>5 DEF Next

\* withRedisLock implements the leased mutex: mutual exclusion of the calls
\* whose lease is live, and no refused call ever runs its function.
THEOREM LockImplementsLeaseMutex == Spec => ImplementsLeaseMutex
<1>1. Spec => Init /\ [][Next]_vars BY DEF Spec
<1> QED BY <1>1, MapInit, MapStep, LockInvariance, PTL DEF ImplementsLeaseMutex, Mutex!Spec
=============================================================================
