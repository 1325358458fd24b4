----------------------------- MODULE RedisLock ------------------------------
(***************************************************************************)
(* services/redis-lock.ts: withRedisLock(name, fn, {ttlMs, waitMs,         *)
(* retryMs}), for one lock name.  The key holds the token of the call that *)
(* owns it and a TTL; a call polls SET NX PX until its deadline, runs fn,  *)
(* and releases by compare-and-delete.  Time is counted in ticks, always   *)
(* as "time left", so no clock grows.                                      *)
(*                                                                         *)
(* A call stands for its randomUUID token.  There is no end of calls: a    *)
(* member of Callers stands for a new call, with a new token, once the old *)
(* one is over and nothing in Redis can hold or delete its token any more. *)
(***************************************************************************)
EXTENDS Naturals

CONSTANTS
  Callers,    \* the calls of withRedisLock on this name
  NoOne,      \* the key does not exist
  Ttl,        \* ttlMs, in ticks
  Wait,       \* waitMs, in ticks
  Retry       \* retryMs, in ticks

ASSUME NoOneAssumption == NoOne \notin Callers
ASSUME TimeAssumption  == Ttl \in Nat \ {0} /\ Wait \in Nat /\ Retry \in Nat \ {0}

VARIABLES
  owner,      \* the token stored under rbac:lock:<name>, or NoOne
  ttl,        \* time left before Redis expires the key
  lease,      \* lease[c]: time left since the last SET of c that Redis applied
  wait,       \* wait[c]: time left before the deadline of c
  nap,        \* nap[c]: time left of the retry sleep of c
  stray,      \* calls whose release errored on the client but may still run in Redis
  pc

vars == <<owner, ttl, lease, wait, nap, stray, pc>>

Stages == {"idle", "try", "sleep", "cs", "release", "done", "refused", "crashed"}

TypeOK ==
  /\ owner \in Callers \cup {NoOne}
  /\ ttl   \in 0..Ttl
  /\ lease \in [Callers -> 0..Ttl]
  /\ wait  \in [Callers -> 0..Wait]
  /\ nap   \in [Callers -> 0..Retry]
  /\ stray \in SUBSET Callers
  /\ pc    \in [Callers -> Stages]

Init ==
  /\ owner = NoOne
  /\ ttl   = 0
  /\ lease = [c \in Callers |-> 0]
  /\ wait  = [c \in Callers |-> 0]
  /\ nap   = [c \in Callers |-> 0]
  /\ stray = {}
  /\ pc    = [c \in Callers |-> "idle"]

Goto(c, s) == pc' = [pc EXCEPT ![c] = s]

\* The bug of a deadline that allows for the last retry on top.
CallWithSlack(c) ==
  /\ pc[c] = "idle"
  /\ wait' = [wait EXCEPT ![c] = Wait + Retry]
  /\ Goto(c, "try")
  /\ UNCHANGED <<owner, ttl, lease, nap, stray>>

\* withRedisLock is called: deadline = Date.now() + waitMs.
Call(c) ==
  /\ pc[c] = "idle"
  /\ wait' = [wait EXCEPT ![c] = Wait]
  /\ Goto(c, "try")
  /\ UNCHANGED <<owner, ttl, lease, nap, stray>>

\* Another call, with a token of its own, in the place of one that is over.
NewToken(c) ==
  /\ pc[c] \in {"done", "refused", "crashed"}
  /\ c \notin stray /\ owner # c
  /\ lease' = [lease EXCEPT ![c] = 0]
  /\ Goto(c, "idle")
  /\ UNCHANGED <<owner, ttl, wait, nap, stray>>

\* The bug the NX flag excludes: SET overwrites whatever token is there.
SetWithoutNX(c) ==
  /\ owner' = c
  /\ ttl'   = Ttl
  /\ lease' = [lease EXCEPT ![c] = Ttl]

\* SET key token PX ttl NX.
SetNX(c) ==
  /\ owner = NoOne
  /\ owner' = c
  /\ ttl'   = Ttl
  /\ lease' = [lease EXCEPT ![c] = Ttl]

\* SET answers OK.
Acquire(c) ==
  /\ pc[c] = "try"
  /\ SetNX(c)
  /\ Goto(c, "cs")
  /\ UNCHANGED <<wait, nap, stray>>

\* The reply is lost.  Either the client resends the command, finds its own
\* token and sleeps, or its retries run out and the call throws.
AcquireReplyLost(c) ==
  /\ pc[c] = "try"
  /\ SetNX(c)
  /\ \/ /\ wait[c] > 0
        /\ Goto(c, "sleep")
        /\ nap' = [nap EXCEPT ![c] = Retry]
     \/ /\ Goto(c, "refused")
        /\ UNCHANGED nap
  /\ UNCHANGED <<wait, stray>>

\* SET answers null before the deadline: sleep retryMs.
Sleep(c) ==
  /\ pc[c] = "try"
  /\ owner # NoOne
  /\ wait[c] > 0
  /\ nap' = [nap EXCEPT ![c] = Retry]
  /\ Goto(c, "sleep")
  /\ UNCHANGED <<owner, ttl, lease, wait, stray>>

\* The bug of a caller that gives up waiting and proceeds without the lock.
RefuseProceeds(c) ==
  /\ pc[c] = "try"
  /\ owner # NoOne
  /\ wait[c] = 0
  /\ Goto(c, "cs")
  /\ UNCHANGED <<owner, ttl, lease, wait, nap, stray>>

\* SET answers null at or past the deadline: throw 503, fn is never run.
Refuse(c) ==
  /\ pc[c] = "try"
  /\ owner # NoOne
  /\ wait[c] = 0
  /\ Goto(c, "refused")
  /\ UNCHANGED <<owner, ttl, lease, wait, nap, stray>>

\* The bug of a deadline computed inside the polling loop.
WakeAndRenewDeadline(c) ==
  /\ pc[c] = "sleep"
  /\ nap[c] = 0
  /\ wait' = [wait EXCEPT ![c] = Wait]
  /\ Goto(c, "try")
  /\ UNCHANGED <<owner, ttl, lease, nap, stray>>

Wake(c) ==
  /\ pc[c] = "sleep"
  /\ nap[c] = 0
  /\ Goto(c, "try")
  /\ UNCHANGED <<owner, ttl, lease, wait, nap, stray>>

\* fn settles, by returning or by throwing: the finally block runs.
FnSettles(c) ==
  /\ pc[c] = "cs"
  /\ Goto(c, "release")
  /\ UNCHANGED <<owner, ttl, lease, wait, nap, stray>>

\* The bug RELEASE_LUA excludes: DEL whatever token is there.
PlainDelete(c) ==
  /\ owner' = NoOne
  /\ ttl'   = 0

\* RELEASE_LUA: delete the key only if it still holds the caller's token.
CompareAndDelete(c) ==
  IF owner = c THEN owner' = NoOne /\ ttl' = 0
               ELSE UNCHANGED <<owner, ttl>>

Release(c) ==
  /\ pc[c] = "release"
  /\ CompareAndDelete(c)
  /\ Goto(c, "done")
  /\ UNCHANGED <<lease, wait, nap, stray>>

\* The EVAL errors and the error is swallowed; Redis may run it later or never.
ReleaseErrors(c) ==
  /\ pc[c] = "release"
  /\ stray' = stray \cup {c}
  /\ Goto(c, "done")
  /\ UNCHANGED <<owner, ttl, lease, wait, nap>>

LateRelease(c) ==
  /\ c \in stray
  /\ stray' = stray \ {c}
  /\ CompareAndDelete(c)
  /\ UNCHANGED <<lease, wait, nap, pc>>

\* The process dies while it waits, in its critical section or before releasing.
Crash(c) ==
  /\ pc[c] \in {"try", "sleep", "cs", "release"}
  /\ Goto(c, "crashed")
  /\ UNCHANGED <<owner, ttl, lease, wait, nap, stray>>

Less(n) == IF n > 0 THEN n - 1 ELSE 0

\* The bug of a SET without PX: the key never expires.
TickWithoutExpiry ==
  /\ UNCHANGED <<ttl, owner>>
  /\ lease' = [c \in Callers |-> Less(lease[c])]
  /\ wait'  = [c \in Callers |-> Less(wait[c])]
  /\ nap'   = [c \in Callers |-> Less(nap[c])]
  /\ UNCHANGED <<stray, pc>>

\* Time passes; Redis drops the key when its TTL runs out.
Tick ==
  /\ ttl'   = Less(ttl)
  /\ owner' = IF ttl' = 0 THEN NoOne ELSE owner
  /\ lease' = [c \in Callers |-> Less(lease[c])]
  /\ wait'  = [c \in Callers |-> Less(wait[c])]
  /\ nap'   = [c \in Callers |-> Less(nap[c])]
  /\ UNCHANGED <<stray, pc>>

\* What one call does by itself.
Step(c) ==
  \/ Call(c) \/ NewToken(c) \/ Acquire(c) \/ AcquireReplyLost(c) \/ Sleep(c)
  \/ Refuse(c) \/ Wake(c) \/ FnSettles(c) \/ Release(c) \/ ReleaseErrors(c)

Next ==
  \/ Tick
  \/ \E c \in Callers : Step(c) \/ LateRelease(c) \/ Crash(c)

(***************************************************************************)
(* Fairness: time passes, and a call that is polling goes on polling (the  *)
(* event loop runs its timers and its replies).  Nothing says that fn ever *)
(* settles, that a release reaches Redis or that a process never dies.     *)
(***************************************************************************)
Polling(c) == Acquire(c) \/ Sleep(c) \/ Refuse(c) \/ Wake(c)

Fairness == WF_vars(Tick) /\ \A c \in Callers : WF_vars(Polling(c))

Spec == Init /\ [][Next]_vars /\ Fairness

-----------------------------------------------------------------------------
\* The abstract view: a call in its critical section is inside as long as its
\* lease is live.
Stage(c) ==
  CASE pc[c] = "idle"              -> "idle"
    [] pc[c] \in {"try", "sleep"}  -> "waiting"
    [] pc[c] = "cs"                -> IF lease[c] > 0 THEN "inside" ELSE "overrun"
    [] pc[c] \in {"release", "done"} -> "returned"
    [] pc[c] = "refused"           -> "refused"
    [] pc[c] = "crashed"           -> "gone"

StageOf == [c \in Callers |-> Stage(c)]

Mutex == INSTANCE LeaseMutex WITH st <- StageOf

\* withRedisLock implements the leased mutex: live critical sections exclude
\* each other, fn runs at most once per call, and a call that was refused
\* (503) or whose SET errored never runs it.
ImplementsLeaseMutex == Mutex!Spec

\* As long as its lease is live, the key of a call in its critical section
\* stays its own: no poll, expiry, late release or release of a call that
\* overran its TTL takes the key away ("deleting the new owner's lock").
OwnerKeepsLock ==
  \A c \in Callers : pc[c] \in {"cs", "release"} /\ lease[c] > 0 => owner = c

\* The key never outlives the lease it was set with: what blocks the others
\* is a lease that is still running.
KeyIsALease ==
  /\ (owner = NoOne) <=> (ttl = 0)
  /\ \A c \in Callers : owner = c => lease[c] = ttl

\* A call that polls is answered: it runs fn, is refused or its process dies.
EveryCallAnswered ==
  \A c \in Callers : pc[c] = "try" ~> pc[c] \in {"cs", "refused", "crashed"}

\* A release can only be outstanding for a call that is over.
StrayIsOver == \A c \in stray : pc[c] = "done"

\* The inductive invariant behind the two above.
LockInv == TypeOK /\ KeyIsALease /\ StrayIsOver /\ OwnerKeepsLock

\* "a crashed holder can't deadlock the key": whoever holds the key and has
\* died, or whose release was lost, loses it.
DeadHolderReaped ==
  \A c \in Callers : (owner = c /\ pc[c] \in {"crashed", "done", "refused"}) ~> owner # c
=============================================================================
