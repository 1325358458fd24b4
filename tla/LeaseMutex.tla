----------------------------- MODULE LeaseMutex -----------------------------
(***************************************************************************)
(* What withRedisLock promises its callers, without Redis, tokens, polls   *)
(* or clocks.  A call waits, is refused, or runs its function once.  At    *)
(* most one call is "inside" (running its function under a live lease); a  *)
(* call whose lease ran out goes on running as "overrun", unprotected.     *)
(***************************************************************************)
CONSTANT Callers        \* the calls of withRedisLock on one lock name

VARIABLE st             \* where each call stands

Stages == {"idle", "waiting", "inside", "overrun", "returned", "refused", "gone"}

Init == st = [c \in Callers |-> "idle"]

Move(c, from, to) == /\ st[c] \in from
                     /\ st' = [st EXCEPT ![c] = to]

Ask(c)    == Move(c, {"idle"}, "waiting")

\* Fail closed: a call that cannot get the lock never runs its function.
Refuse(c) == Move(c, {"waiting"}, "refused")

Enter(c)  == /\ \A d \in Callers : st[d] # "inside"
             /\ Move(c, {"waiting"}, "inside")

\* The TTL runs out under a call that is still in its critical section.
Overrun(c) == Move(c, {"inside"}, "overrun")

Return(c) == Move(c, {"inside", "overrun"}, "returned")

\* The process dies, possibly after its function returned but before the release.
Vanish(c) == Move(c, {"waiting", "inside", "overrun", "returned"}, "gone")

\* A call that is over makes room for a later one.
Renew(c)  == Move(c, {"returned", "refused", "gone"}, "idle")

Next == \E c \in Callers :
          \/ Ask(c) \/ Refuse(c) \/ Enter(c) \/ Overrun(c)
          \/ Return(c) \/ Vanish(c) \/ Renew(c)

Spec == Init /\ [][Next]_st

-----------------------------------------------------------------------------
\* Two calls of withRedisLock on one name never run their functions at the
\* same time while both of their leases are live.
MutualExclusion ==
  \A a, b \in Callers : st[a] = "inside" /\ st[b] = "inside" => a = b
=============================================================================
