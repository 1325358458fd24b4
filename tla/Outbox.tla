------------------------------- MODULE Outbox -------------------------------
(***************************************************************************)
(* services/notifications: the Redis stream notifications:outbox, its one  *)
(* consumer group, and the loop that every replica runs under the same     *)
(* consumer name.  An event is its position in the stream.  Time is in     *)
(* ticks; an idle time is counted up to PENDING_CLAIM_MS and an age up to  *)
(* one more than maxAgeMs, which is all the code compares them with.       *)
(***************************************************************************)
EXTENDS Naturals, FiniteSets, Functions

CONSTANTS
  Replicas,    \* the processes that run start()
  Transports,  \* how many notifiers are registered, in order
  MaxEvents,   \* bound: events emitted
  Batch,       \* BATCH_SIZE
  Claim,       \* PENDING_CLAIM_MS, in ticks
  MaxAge,      \* maxAgeMs, in ticks
  MaxLen,      \* MAXLEN of the XADD
  MaxFaults    \* bound: process deaths and Redis errors

ASSUME SizesAssumption == /\ Transports \in Nat \ {0} /\ MaxEvents \in Nat
                          /\ Batch \in Nat \ {0}      /\ Claim \in Nat \ {0}
                          /\ MaxLen \in Nat \ {0}     /\ MaxAge \in Nat
                          /\ MaxFaults \in Nat

Events    == 1..MaxEvents
Notifiers == 1..Transports

VARIABLES
  last,      \* events added so far
  low,       \* the events up to low have been trimmed
  cursor,    \* last-delivered-id of the group
  idle,      \* the pending entries, each with its idle time
  age,
  accepted,  \* accepted[e]: notifiers that accepted e at least once
  dropped,   \* events acknowledged because of their age
  pc,        \* pc[r]: where the loop of r stands
  todo,      \* todo[r]: the entries still to be processed, the oldest first
  next,      \* next[r]: the notifier to be called next for the oldest of todo[r]
  ok,        \* ok[r]: allOk
  held,      \* held[r]: ticks since r was given the entries it owns
  faults

loopVars == <<pc, todo, next, ok, held>>
vars == <<last, low, cursor, idle, age, accepted, dropped, loopVars, faults>>

\* reclaim and read: about to ask Redis; claim: with the old pending entries,
\* about to claim the first; rework and work: processing the first entry of a
\* claim and of a batch; reack and ack: about to acknowledge it.
Stages == {"down", "reclaim", "claim", "rework", "reack", "read", "work", "ack"}
Owning == {"rework", "reack", "work", "ack"}

Pending == DOMAIN idle

OutboxTypeOK ==
  /\ last \in 0..MaxEvents /\ low \in 0..last /\ cursor \in 0..last
  /\ Pending \subseteq 1..cursor /\ idle \in [Pending -> 0..Claim]
  /\ age \in [Events -> 0..MaxAge + 1]
  /\ accepted \in [Events -> SUBSET Notifiers]
  /\ dropped \in SUBSET Events
  /\ pc \in [Replicas -> Stages]
  /\ todo \in [Replicas -> SUBSET (1..cursor)]
  /\ \A r \in Replicas : /\ Cardinality(todo[r]) <= Batch
                         /\ pc[r] \in Owning \cup {"claim"} => todo[r] # {}
  /\ next \in [Replicas -> 1..Transports + 1]
  /\ ok \in [Replicas -> BOOLEAN]
  /\ held \in [Replicas -> 0..Claim]
  /\ faults \in 0..MaxFaults

Init ==
  /\ last = 0 /\ low = 0 /\ cursor = 0 /\ idle = [e \in {} |-> 0]
  /\ age = [e \in Events |-> 0]
  /\ accepted = [e \in Events |-> {}] /\ dropped = {}
  /\ pc = [r \in Replicas |-> "down"]
  /\ todo = [r \in Replicas |-> {}]
  /\ next = [r \in Replicas |-> 1] /\ ok = [r \in Replicas |-> TRUE]
  /\ held = [r \in Replicas |-> 0]
  /\ faults = 0

\* The loop of r goes to stage s with the entries t; it has had those for a while
\* only if they are the rest of the batch it works on.
Loop(r, s, t) ==
  /\ held' = [held EXCEPT ![r] = IF s = "work" /\ pc[r] \in {"work", "ack"} THEN @ ELSE 0]
  /\ pc' = [pc EXCEPT ![r] = s] /\ todo' = [todo EXCEPT ![r] = t]
  /\ next' = [next EXCEPT ![r] = 1] /\ ok' = [ok EXCEPT ![r] = TRUE]

\* A listing and a batch come in the order of the stream.
Heads(r, e) == e \in todo[r] /\ \A f \in todo[r] : e <= f

\* After e, the rest of a claim or of a batch.
Onwards(r, e) ==
  LET again == pc[r] \in {"claim", "rework", "reack"}
      rest  == todo[r] \ {e} IN
  IF rest # {}
  THEN Loop(r, IF again THEN "claim" ELSE "work", rest)
  ELSE Loop(r, IF again THEN "read" ELSE "reclaim", {})

\* emit: XADD MAXLEN ~; the trim may leave more than MaxLen entries.
Emit ==
  /\ last < MaxEvents
  /\ last' = last + 1
  /\ \E cut \in low..last' : /\ cut > low => last' - cut >= MaxLen
                             /\ low' = cut
  /\ UNCHANGED <<cursor, idle, age, accepted, dropped, loopVars, faults>>

\* start: the group exists or is created; the loop begins.
Start(r) ==
  /\ pc[r] = "down"
  /\ Loop(r, "reclaim", {})
  /\ UNCHANGED <<last, low, cursor, idle, age, accepted, dropped, faults>>

\* COUNT BATCH_SIZE: the entries of S that fewer than Batch others precede.
FirstOf(S) == {e \in S : Cardinality({f \in S : f < e}) < Batch}

IdleEnough(e) == idle[e] >= Claim
Due == {e \in FirstOf(Pending) : IdleEnough(e)}

\* The bug of a loop that reads new entries only.
ReclaimNothing(r) ==
  /\ pc[r] = "reclaim"
  /\ Loop(r, "read", {})
  /\ UNCHANGED <<last, low, cursor, idle, age, accepted, dropped, faults>>

\* The bug of claiming although nothing is due.
ReclaimAnyway(r) ==
  /\ pc[r] = "reclaim"
  /\ Loop(r, "claim", Due)
  /\ UNCHANGED <<last, low, cursor, idle, age, accepted, dropped, faults>>

\* reclaimPending: XPENDING lists the first entries of whatever consumer.
Reclaim(r) ==
  /\ pc[r] = "reclaim"
  /\ IF Due = {} THEN Loop(r, "read", {}) ELSE Loop(r, "claim", Due)
  /\ UNCHANGED <<last, low, cursor, idle, age, accepted, dropped, faults>>

\* The bug of an XCLAIM with a minimum idle time of zero.
ClaimsBusy(e) == e \in Pending

\* XCLAIM compares with the idle time of now, not of the listing.
Claims(e) == e \in Pending /\ IdleEnough(e)

\* The entry is r's from here; a trimmed one leaves the pending list instead.
ClaimNext(r) ==
  /\ pc[r] = "claim"
  /\ \E e \in Events :
       /\ Heads(r, e)
       /\ \/ /\ Claims(e) /\ e > low
             /\ idle' = [idle EXCEPT ![e] = 0]
             /\ Loop(r, "rework", todo[r])
          \/ /\ Claims(e) /\ e <= low
             /\ idle' = Restrict(idle, Pending \ {e})
             /\ Onwards(r, e)
          \/ /\ ~Claims(e)
             /\ Onwards(r, e)
             /\ UNCHANGED idle
  /\ UNCHANGED <<last, low, cursor, age, accepted, dropped, faults>>

Fresh == {e \in 1..last : e > cursor /\ e > low}

\* XREADGROUP '>': the next entries become pending; without any it blocks.
Read(r) ==
  /\ pc[r] = "read"
  /\ LET batch == FirstOf(Fresh) IN
     \/ /\ Fresh = {}
        /\ Loop(r, "reclaim", {})
        /\ UNCHANGED <<cursor, idle>>
     \/ /\ cursor' \in batch /\ \A e \in batch : e <= cursor'
        /\ idle' = [e \in Pending \cup batch |-> IF e \in Pending THEN idle[e] ELSE 0]
        /\ Loop(r, "work", batch)
  /\ UNCHANGED <<last, low, age, accepted, dropped, faults>>

Working(r) == pc[r] \in {"rework", "work"}
ToAck(r)   == pc' = [pc EXCEPT ![r] = IF @ = "rework" THEN "reack" ELSE "ack"]

\* processMessage, an event older than maxAgeMs.
Dismiss(r) ==
  /\ Working(r) /\ next[r] = 1 /\ ok[r]
  /\ \E e \in Events : Heads(r, e) /\ age[e] > MaxAge /\ dropped' = dropped \cup {e}
  /\ ToAck(r)
  /\ UNCHANGED <<last, low, cursor, idle, age, accepted, todo, next, ok, held, faults>>

\* One notify call: taken, refused, or taken although it throws (a timeout).
\* The age has been looked at before the first.
Notify(r) ==
  /\ Working(r) /\ next[r] <= Transports
  /\ \E e \in Events, taken, answered \in BOOLEAN :
       /\ Heads(r, e) /\ (next[r] = 1 => age[e] <= MaxAge)
       /\ answered => taken
       /\ accepted' = [accepted EXCEPT ![e] = IF taken THEN @ \cup {next[r]} ELSE @]
       /\ ok' = [ok EXCEPT ![r] = @ /\ answered]
  /\ next' = [next EXCEPT ![r] = @ + 1]
  /\ UNCHANGED <<last, low, cursor, idle, age, dropped, pc, todo, held, faults>>

\* The bug of an acknowledgement whatever the notifiers said.
EndWithAck(r) ==
  /\ Working(r) /\ next[r] > Transports
  /\ ToAck(r) /\ UNCHANGED <<todo, next, ok, held>>
  /\ UNCHANGED <<last, low, cursor, idle, age, accepted, dropped, faults>>

\* All notifiers have been called: acknowledge, or leave the entry pending.
EndOfFanOut(r) ==
  /\ Working(r) /\ next[r] > Transports
  /\ \/ ok[r] /\ ToAck(r) /\ UNCHANGED <<todo, next, ok, held>>
     \/ ~ok[r] /\ \E e \in Events : Heads(r, e) /\ Onwards(r, e)
  /\ UNCHANGED <<last, low, cursor, idle, age, accepted, dropped, faults>>

Ack(r) ==
  /\ pc[r] \in {"reack", "ack"}
  /\ \E e \in Events : /\ Heads(r, e) /\ Onwards(r, e)
                       /\ idle' = Restrict(idle, Pending \ {e})
  /\ UNCHANGED <<last, low, cursor, age, accepted, dropped, faults>>

\* ack and reclaimPending swallow a Redis error, the loop backs off after one.
RedisError(r) ==
  /\ faults < MaxFaults /\ faults' = faults + 1
  /\ \/ pc[r] \in {"reack", "ack"} /\ \E e \in Events : Heads(r, e) /\ Onwards(r, e)
     \/ pc[r] \in {"reclaim", "claim"} /\ Loop(r, "read", {})
     \/ pc[r] = "read" /\ Loop(r, "reclaim", {})
  /\ UNCHANGED <<last, low, cursor, idle, age, accepted, dropped>>

\* The process ends; what it owned stays pending.
Crash(r) ==
  /\ pc[r] # "down" /\ faults < MaxFaults /\ faults' = faults + 1
  /\ Loop(r, "down", {})
  /\ UNCHANGED <<last, low, cursor, idle, age, accepted, dropped>>

UpTo(n, limit) == IF n < limit THEN n + 1 ELSE n

Tick ==
  /\ idle' = [e \in Pending |-> UpTo(idle[e], Claim)]
  /\ age'  = [e \in Events |-> IF e <= last THEN UpTo(age[e], MaxAge + 1) ELSE 0]
  /\ held' = [r \in Replicas |-> IF pc[r] \in Owning THEN UpTo(held[r], Claim) ELSE held[r]]
  /\ <<idle', age', held'>> # <<idle, age, held>>
  /\ UNCHANGED <<last, low, cursor, accepted, dropped, pc, todo, next, ok, faults>>

\* What the loop of a live process goes on to do by itself.
Step(r) == \/ Start(r) \/ Reclaim(r) \/ ClaimNext(r) \/ Read(r)
           \/ Dismiss(r) \/ Notify(r) \/ EndOfFanOut(r) \/ Ack(r)

Next == Emit \/ Tick \/ \E r \in Replicas : Step(r) \/ RedisError(r) \/ Crash(r)

\* The loop never ends and each of its calls settles (HttpNotifier aborts after
\* timeoutMs); a process that died is started again; time passes.
Spec == /\ Init /\ [][Next]_vars
        /\ WF_vars(Tick) /\ \A r \in Replicas : WF_vars(Step(r))

-----------------------------------------------------------------------------
Settled(e) == e <= low \/ (e <= cursor /\ e \notin Pending)

Unsettled == {e \in 1..last : ~Settled(e)}
Gone      == {e \in 1..last : Settled(e)}
TooOld    == {e \in 1..last : age[e] > MaxAge}

Abstract == INSTANCE AtLeastOnce WITH pending <- Unsettled, settled <- Gone, old <- TooOld

\* Whatever replicas, claims, refusals and crashes do, an event leaves the outbox
\* only accepted by all notifiers, too old, or trimmed with MaxLen later ones
\* ("All must succeed for ACK", "Failed events stay pending").
ImplementsAtLeastOnce == Abstract!Spec

Owns(r, e) == \/ pc[r] \in Owning /\ Heads(r, e)
              \/ pc[r] \in {"work", "ack"} /\ e \in todo[r]

\* PENDING_CLAIM_MS keeps replicas apart, though they all read as 'worker-1': two of
\* them own one entry only if one of them has had it for that long.
OneWorkerPerClaim ==
  \A q, r \in Replicas, e \in Events :
    Owns(q, e) /\ Owns(r, e) /\ q # r => held[q] = Claim \/ held[r] = Claim

\* No event stays in the outbox for ever, though notifiers may never accept it,
\* acknowledgements get lost and the replica that read it dies.
EventuallySettled == \A e \in Events : e <= last ~> Settled(e)
=============================================================================
