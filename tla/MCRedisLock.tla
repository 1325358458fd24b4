---------------------------- MODULE MCRedisLock -----------------------------
(***************************************************************************)
(* Three calls compete for one lock name.  A TTL of two ticks against a    *)
(* wait of one keeps the code's order (ttl 10 s > wait 5 s > retry 50 ms). *)
(***************************************************************************)
EXTENDS RedisLock
=============================================================================
