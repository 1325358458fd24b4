---------------------------- MODULE Outbox_proofs ----------------------------
(***************************************************************************)
(* Proofs about the notification outbox: type correctness, that a claim    *)
(* keeps replicas apart, and that the outbox implements AtLeastOnce.       *)
(***************************************************************************)
EXTENDS Outbox, FiniteSetTheorems, TLAPS

\* What the fan-out of r relies on when it acknowledges: the notifiers called so
\* far have accepted the entry, or it was too old when it was looked at.
Heard ==
  \A r \in Replicas, e \in Events : Heads(r, e) =>
    /\ Working(r) /\ ok[r] => 1..(next[r] - 1) \subseteq accepted[e]
    /\ pc[r] \in {"reack", "ack"} => accepted[e] = Notifiers \/ age[e] > MaxAge

\* The idle time of what r works on began with r: an entry due again is one that
\* its owner has had for as long.
Kept ==
  \A r \in Replicas, e \in Events : Owns(r, e) /\ e \in Pending => idle[e] <= held[r]

\* Only what has been emitted ages.
Unborn == \A e \in Events : e > last => age[e] = 0

IInv == OutboxTypeOK /\ Heard /\ Kept /\ Unborn /\ OneWorkerPerClaim

-----------------------------------------------------------------------------
\* The first entries of a set.

\* A listing or a batch holds at most Batch entries: how many precede an entry
\* tells the entries of a listing apart.
LEMMA FirstOfIsBounded ==
  ASSUME NEW S, IsFiniteSet(S), \A e \in S : e \in Nat
  PROVE  /\ FirstOf(S) \subseteq S /\ IsFiniteSet(FirstOf(S))
         /\ Cardinality(FirstOf(S)) <= Batch
<1>. DEFINE Before(e) == {f \in S : f < e}
            rank == [e \in FirstOf(S) |-> Cardinality(Before(e))]
<1>1. FirstOf(S) \subseteq S  BY DEF FirstOf
<1>2. IsFiniteSet(FirstOf(S))  BY <1>1, FS_Subset
<1>3. \A e : IsFiniteSet(Before(e)) /\ Cardinality(Before(e)) \in Nat
  BY FS_Subset, FS_CardinalityType
<1>4. Batch \in Nat /\ Batch > 0  BY SizesAssumption
<1>5. rank \in [FirstOf(S) -> 0..(Batch - 1)]
  <2>1. \A e \in FirstOf(S) : Cardinality(Before(e)) \in 0..(Batch - 1)
    BY <1>3, <1>4 DEF FirstOf
  <2>. HIDE DEF Before
  <2>. QED  BY <2>1
<1>6. ASSUME NEW d \in FirstOf(S), NEW e \in FirstOf(S), d < e PROVE rank[d] # rank[e]
  <2>. DEFINE D == Before(d)
              E == Before(e)
  <2>1. d \in S /\ d \in Nat /\ e \in Nat  BY <1>1
  <2>2. \A f \in S : f < d => f < e  BY <1>6, <2>1
  <2>3. D \subseteq E  BY <2>2
  <2>4. d \in E /\ d \notin D  BY <1>6, <2>1
  <2>5. IsFiniteSet(E)  BY <1>3
  <2>6. rank[d] = Cardinality(D) /\ rank[e] = Cardinality(E)  OBVIOUS
  <2>. HIDE DEF D, E, rank
  <2>7. Cardinality(D) # Cardinality(E)  BY <2>3, <2>4, <2>5, FS_Subset
  <2>. QED  BY <2>6, <2>7
<1>. HIDE DEF rank
<1>7. ASSUME NEW d \in FirstOf(S), NEW e \in FirstOf(S), rank[d] = rank[e] PROVE d = e
  <2>1. d \in Nat /\ e \in Nat  BY <1>1
  <2>2. ~(d < e) /\ ~(e < d)  BY <1>6, <1>7
  <2>. QED  BY <2>1, <2>2
<1>8. rank \in Injection(FirstOf(S), 0..(Batch - 1))
  BY <1>5, <1>7 DEF Injection, IsInjective
<1>9. IsFiniteSet(0..(Batch - 1)) /\ Cardinality(0..(Batch - 1)) = Batch
  BY <1>4, FS_Interval
<1>. QED  BY <1>1, <1>2, <1>8, <1>9, FS_Injection

\* Whatever of S is not after an entry of the listing is in it as well.
LEMMA FirstOfIsDownward ==
  ASSUME NEW S, IsFiniteSet(S), \A e \in S : e \in Nat,
         NEW m \in FirstOf(S), NEW e \in S, e <= m
  PROVE  e \in FirstOf(S)
<1>. DEFINE D == {f \in S : f < e}
            M == {f \in S : f < m}
<1>1. m \in Nat /\ e \in Nat  BY DEF FirstOf
<1>2. D \subseteq M
  <2>1. \A f \in S : f < e => f < m  BY <1>1
  <2>. QED  BY <2>1
<1>3. IsFiniteSet(M) /\ Cardinality(M) < Batch  BY FS_Subset DEF FirstOf
<1>4. Cardinality(D) < Batch
  <2>. HIDE DEF D, M
  <2>1. Cardinality(D) \in Nat /\ Cardinality(M) \in Nat /\ Cardinality(D) <= Cardinality(M)
    BY <1>2, <1>3, FS_Subset, FS_CardinalityType
  <2>. QED  BY <1>3, <2>1, SizesAssumption
<1>. QED  BY <1>4 DEF FirstOf

\* Part of a stream of n entries.
LEMMA StreamPart ==
  ASSUME NEW n \in Nat, NEW S, S \subseteq 1..n
  PROVE  /\ IsFiniteSet(S) /\ \A e \in S : e \in Nat
         /\ Cardinality(S) \in Nat /\ Cardinality(S) <= n
<1>1. IsFiniteSet(1..n) /\ Cardinality(1..n) = n  BY FS_Interval
<1>2. IsFiniteSet(S) /\ Cardinality(S) <= n  BY <1>1, FS_Subset
<1>3. Cardinality(S) \in Nat  BY <1>2, FS_CardinalityType
<1>. QED  BY <1>2, <1>3

-----------------------------------------------------------------------------
\* The type invariant, the stream apart from the loops.
StreamOK ==
  /\ last \in 0..MaxEvents /\ low \in 0..last /\ cursor \in 0..last
  /\ Pending \subseteq 1..cursor /\ idle \in [Pending -> 0..Claim]
  /\ age \in [Events -> 0..MaxAge + 1]
  /\ accepted \in [Events -> SUBSET Notifiers]
  /\ dropped \in SUBSET Events
  /\ faults \in 0..MaxFaults

LoopOK ==
  /\ pc \in [Replicas -> Stages]
  /\ todo \in [Replicas -> SUBSET (1..cursor)]
  /\ \A r \in Replicas : /\ Cardinality(todo[r]) <= Batch
                         /\ pc[r] \in Owning \cup {"claim"} => todo[r] # {}
  /\ next \in [Replicas -> 1..Transports + 1]
  /\ ok \in [Replicas -> BOOLEAN]
  /\ held \in [Replicas -> 0..Claim]

LEMMA TypeParts == OutboxTypeOK <=> StreamOK /\ LoopOK
  BY DEF OutboxTypeOK, StreamOK, LoopOK

LEMMA Sizes ==
  /\ Transports \in Nat /\ Transports > 0 /\ MaxEvents \in Nat /\ MaxAge \in Nat
  /\ Batch \in Nat /\ Batch > 0 /\ Claim \in Nat /\ Claim > 0 /\ MaxLen \in Nat /\ MaxLen > 0
  /\ MaxFaults \in Nat
BY SizesAssumption

\* What one turn of the loop of r does to r, and that it leaves the others alone.
LEMMA LoopSelf ==
  ASSUME LoopOK, NEW r \in Replicas, NEW s, NEW t, Loop(r, s, t)
  PROVE  /\ pc'[r] = s /\ todo'[r] = t /\ next'[r] = 1
         /\ s = "work" /\ pc[r] \in {"work", "ack"} => held'[r] = held[r]
         /\ ~(s = "work" /\ pc[r] \in {"work", "ack"}) => held'[r] = 0
BY DEF LoopOK, Loop

LEMMA LoopOthers ==
  ASSUME LoopOK, NEW r \in Replicas, NEW s, NEW t, Loop(r, s, t), NEW q \in Replicas \ {r}
  PROVE  /\ pc'[q] = pc[q] /\ todo'[q] = todo[q] /\ held'[q] = held[q]
         /\ next'[q] = next[q] /\ ok'[q] = ok[q]
BY DEF LoopOK, Loop

LEMMA LoopTypes ==
  ASSUME StreamOK, LoopOK, NEW r \in Replicas, NEW s \in Stages, NEW t, Loop(r, s, t),
         cursor <= cursor', cursor' \in Nat, t \subseteq 1..cursor', Cardinality(t) <= Batch,
         s \in Owning \cup {"claim"} => t # {}
  PROVE  LoopOK'
<1>1. pc' \in [Replicas -> Stages]  BY DEF LoopOK, Loop
<1>2. todo' \in [Replicas -> SUBSET (1..cursor')]
  <2>1. 1..cursor \subseteq 1..cursor'  BY DEF StreamOK
  <2>. QED  BY <2>1 DEF LoopOK, Loop
<1>3. ASSUME NEW q \in Replicas
      PROVE  Cardinality(todo'[q]) <= Batch
             /\ (pc'[q] \in Owning \cup {"claim"} => todo'[q] # {})
  <2>1. CASE q = r
    <3>1. pc'[q] = s /\ todo'[q] = t  BY <2>1, LoopSelf
    <3>. QED  BY <3>1
  <2>2. CASE q # r
    <3>1. pc'[q] = pc[q] /\ todo'[q] = todo[q]  BY <2>2, LoopOthers
    <3>. QED  BY <3>1 DEF LoopOK
  <2>. QED  BY <2>1, <2>2
<1>4. next' \in [Replicas -> 1..Transports + 1]  BY Sizes DEF LoopOK, Loop
<1>5. ok' \in [Replicas -> BOOLEAN]  BY DEF LoopOK, Loop
<1>6. held' \in [Replicas -> 0..Claim]  BY Sizes DEF LoopOK, Loop
<1>. QED  BY <1>1, <1>2, <1>3, <1>4, <1>5, <1>6 DEF LoopOK, Owning

\* Where r goes with what is left of a claim or a batch.
LEMMA OnwardsEffect ==
  ASSUME LoopOK, NEW r \in Replicas, NEW e, Onwards(r, e), pc[r] \in Owning \cup {"claim"}
  PROVE  \E s \in {"claim", "work", "read", "reclaim"} :
           /\ Loop(r, s, todo[r] \ {e})
           /\ s \in {"claim", "work"} => todo[r] \ {e} # {}
           /\ s = "work" => pc[r] \in {"work", "ack"}
BY DEF Onwards, Owning

LEMMA OnwardsTypes ==
  ASSUME StreamOK, LoopOK, NEW r \in Replicas, NEW e, Onwards(r, e), pc[r] \in Owning \cup {"claim"},
         UNCHANGED cursor
  PROVE  LoopOK'
<1>. DEFINE t == todo[r] \ {e}
<1>1. PICK s \in {"claim", "work", "read", "reclaim"} :
         Loop(r, s, t) /\ (s \in {"claim", "work"} => t # {})
  BY OnwardsEffect
<1>2. todo[r] \subseteq 1..cursor /\ cursor \in Nat /\ Cardinality(todo[r]) <= Batch
  BY Sizes DEF LoopOK, StreamOK
<1>3. IsFiniteSet(todo[r]) /\ Cardinality(todo[r]) \in Nat  BY <1>2, StreamPart
<1>4. t \subseteq todo[r]  OBVIOUS
<1>. HIDE DEF t
<1>5. Cardinality(t) \in Nat /\ Cardinality(t) <= Cardinality(todo[r])
  BY <1>3, <1>4, FS_Subset, FS_CardinalityType
<1>6. Cardinality(t) <= Batch  BY <1>2, <1>3, <1>5, Sizes
<1>7. s \in Stages /\ (s \in Owning \cup {"claim"} => t # {})  BY <1>1 DEF Stages, Owning
<1>8. cursor' \in Nat /\ cursor <= cursor' /\ t \subseteq 1..cursor'  BY <1>2, <1>4
<1>. QED  BY <1>1, <1>2, <1>6, <1>7, <1>8, LoopTypes

\* A turn that leaves r with nothing to do.
LEMMA IdleTypes ==
  ASSUME StreamOK, LoopOK, NEW r \in Replicas, NEW s \in {"down", "reclaim", "read"}, Loop(r, s, {}),
         UNCHANGED cursor
  PROVE  LoopOK'
<1>1. cursor \in Nat /\ cursor' = cursor  BY DEF StreamOK
<1>2. s \in Stages /\ s \notin Owning \cup {"claim"}  BY DEF Stages, Owning
<1>3. Cardinality({}) <= Batch  BY FS_EmptySet, Sizes
<1>. QED  BY <1>1, <1>2, <1>3, LoopTypes

LEMMA InitTypes == Init => OutboxTypeOK
<1>. SUFFICES ASSUME Init PROVE StreamOK /\ LoopOK  BY TypeParts
<1>1. StreamOK  BY Sizes DEF Init, StreamOK, Pending
<1>2. LoopOK
  <2>1. Cardinality({}) = 0  BY FS_EmptySet
  <2>2. \A r \in Replicas : todo[r] = {} /\ pc[r] = "down"  BY DEF Init
  <2>3. \A r \in Replicas : Cardinality(todo[r]) <= Batch  BY <2>1, <2>2, Sizes
  <2>4. /\ pc \in [Replicas -> Stages] /\ todo \in [Replicas -> SUBSET (1..cursor)]
        /\ ok \in [Replicas -> BOOLEAN]
    BY DEF Init, Stages
  <2>5. next \in [Replicas -> 1..Transports + 1] /\ held \in [Replicas -> 0..Claim]
    BY Sizes DEF Init
  <2>. QED  BY <2>2, <2>3, <2>4, <2>5 DEF LoopOK, Owning
<1>. QED  BY <1>1, <1>2

\* The listing of what is due, and the batch of what is unread.
LEMMA Listed ==
  ASSUME StreamOK
  PROVE  /\ Due \subseteq Pending /\ Due \subseteq 1..cursor /\ Cardinality(Due) <= Batch
         /\ Fresh \subseteq 1..last /\ FirstOf(Fresh) \subseteq Fresh
         /\ Cardinality(FirstOf(Fresh)) <= Batch
<1>1. cursor \in Nat /\ last \in Nat /\ Pending \subseteq 1..cursor /\ Fresh \subseteq 1..last
  BY Sizes DEF StreamOK, Fresh
<1>2. /\ FirstOf(Pending) \subseteq Pending /\ IsFiniteSet(FirstOf(Pending))
      /\ Cardinality(FirstOf(Pending)) <= Batch
  BY <1>1, StreamPart, FirstOfIsBounded
<1>3. FirstOf(Fresh) \subseteq Fresh /\ Cardinality(FirstOf(Fresh)) <= Batch
  BY <1>1, StreamPart, FirstOfIsBounded
<1>4. Due \subseteq FirstOf(Pending)  BY DEF Due
<1>5. Cardinality(Due) \in Nat /\ Cardinality(Due) <= Cardinality(FirstOf(Pending))
      /\ Cardinality(FirstOf(Pending)) \in Nat
  BY <1>2, <1>4, FS_Subset, FS_CardinalityType
<1>6. Cardinality(Due) <= Batch  BY <1>2, <1>5, Sizes
<1>. QED  BY <1>1, <1>2, <1>3, <1>4, <1>6

\* A batch goes up to the new cursor, and leaves nothing unread before it.
LEMMA BatchIsUnread ==
  ASSUME StreamOK, cursor' \in FirstOf(Fresh), \A e \in FirstOf(Fresh) : e <= cursor'
  PROVE  /\ cursor' \in Nat /\ cursor < cursor' /\ cursor' <= last
         /\ \A e \in FirstOf(Fresh) : e \in cursor + 1 .. cursor' /\ e > low
         /\ \A e \in Nat : e > cursor /\ e <= cursor' /\ e > low => e \in FirstOf(Fresh)
<1>1. Fresh \subseteq 1..last /\ FirstOf(Fresh) \subseteq Fresh  BY Listed
<1>2. last \in Nat /\ cursor \in Nat /\ low \in Nat  BY Sizes DEF StreamOK
<1>3. IsFiniteSet(Fresh) /\ \A e \in Fresh : e \in Nat  BY <1>1, <1>2, StreamPart
<1>4. cursor' \in Nat /\ cursor < cursor' /\ cursor' <= last  BY <1>1, <1>2 DEF Fresh
<1>5. ASSUME NEW e \in FirstOf(Fresh) PROVE e \in cursor + 1 .. cursor' /\ e > low
  <2>1. e \in Nat /\ e > cursor /\ e <= cursor' /\ e > low  BY <1>1, <1>3 DEF Fresh
  <2>. QED  BY <1>2, <1>4, <2>1
<1>6. ASSUME NEW e \in Nat, e > cursor, e <= cursor', e > low PROVE e \in FirstOf(Fresh)
  <2>1. e \in Fresh  BY <1>2, <1>4, <1>6 DEF Fresh
  <2>. QED  BY <1>3, <1>6, <2>1, FirstOfIsDownward
<1>. QED  BY <1>4, <1>5, <1>6

LEMMA StepTypes == OutboxTypeOK /\ [Next]_vars => OutboxTypeOK'
<1>. SUFFICES ASSUME StreamOK, LoopOK, [Next]_vars PROVE StreamOK' /\ LoopOK'
  BY TypeParts DEF OutboxTypeOK, StreamOK, LoopOK
<1>1. CASE UNCHANGED vars
  <2>1. StreamOK'  BY <1>1 DEF vars, StreamOK, Pending
  <2>2. LoopOK'  BY <1>1 DEF vars, loopVars, LoopOK
  <2>. QED  BY <2>1, <2>2
<1>2. CASE Emit
  <2>1. /\ last' = last + 1 /\ last < MaxEvents /\ low' \in low..last'
        /\ UNCHANGED <<cursor, idle, age, accepted, dropped, loopVars, faults>>
    BY <1>2 DEF Emit
  <2>2. last' \in 0..MaxEvents /\ low' \in 0..last' /\ cursor' \in 0..last'
    BY <2>1, Sizes DEF StreamOK
  <2>3. StreamOK'  BY <2>1, <2>2 DEF StreamOK, Pending
  <2>4. LoopOK'  BY <2>1 DEF LoopOK, loopVars
  <2>. QED  BY <2>3, <2>4
<1>3. CASE Tick
  <2>1. /\ idle' = [e \in Pending |-> UpTo(idle[e], Claim)]
        /\ age' = [e \in Events |-> IF e <= last THEN UpTo(age[e], MaxAge + 1) ELSE 0]
        /\ held' = [r \in Replicas |-> IF pc[r] \in Owning THEN UpTo(held[r], Claim) ELSE held[r]]
        /\ UNCHANGED <<last, low, cursor, accepted, dropped, pc, todo, next, ok, faults>>
    BY <1>3 DEF Tick
  <2>2. \A n, limit \in Nat : n \in 0..limit => UpTo(n, limit) \in 0..limit  BY DEF UpTo
  <2>3. Pending' = Pending /\ idle' \in [Pending -> 0..Claim]
    BY <2>1, <2>2, Sizes DEF StreamOK, Pending
  <2>4. age' \in [Events -> 0..MaxAge + 1]
    <3>1. \A e \in Events : age[e] \in Nat /\ UpTo(age[e], MaxAge + 1) \in 0..MaxAge + 1
      BY <2>2, Sizes DEF StreamOK
    <3>2. 0 \in 0..MaxAge + 1  BY Sizes
    <3>. QED  BY <2>1, <3>1, <3>2
  <2>5. held' \in [Replicas -> 0..Claim]  BY <2>1, <2>2, Sizes DEF LoopOK
  <2>6. StreamOK'  BY <2>1, <2>3, <2>4 DEF StreamOK
  <2>7. LoopOK'  BY <2>1, <2>5 DEF LoopOK
  <2>. QED  BY <2>6, <2>7
<1>4. ASSUME NEW r \in Replicas, Start(r) PROVE StreamOK' /\ LoopOK'
  <2>1. StreamOK'  BY <1>4 DEF Start, StreamOK, Pending
  <2>2. LoopOK'  BY <1>4, IdleTypes DEF Start
  <2>. QED  BY <2>1, <2>2
<1>5. ASSUME NEW r \in Replicas, Reclaim(r) PROVE StreamOK' /\ LoopOK'
  <2>1. StreamOK'  BY <1>5 DEF Reclaim, StreamOK, Pending
  <2>2. CASE Due = {}  BY <1>5, <2>1, <2>2, IdleTypes DEF Reclaim
  <2>3. CASE Due # {}
    <3>1. Loop(r, "claim", Due) /\ cursor' = cursor  BY <1>5, <2>3 DEF Reclaim
    <3>2. cursor' \in Nat /\ cursor <= cursor' /\ Due \subseteq 1..cursor' /\ Cardinality(Due) <= Batch
      BY <3>1, Listed DEF StreamOK
    <3>3. "claim" \in Stages  BY DEF Stages
    <3>. QED  BY <2>1, <2>3, <3>1, <3>2, <3>3, LoopTypes
  <2>. QED  BY <2>1, <2>2, <2>3
<1>6. ASSUME NEW r \in Replicas, ClaimNext(r) PROVE StreamOK' /\ LoopOK'
  <2>1. PICK e \in Events :
           /\ Heads(r, e)
           /\ \/ /\ Claims(e) /\ e > low
                 /\ idle' = [idle EXCEPT ![e] = 0]
                 /\ Loop(r, "rework", todo[r])
              \/ /\ Claims(e) /\ e <= low
                 /\ idle' = Restrict(idle, Pending \ {e})
                 /\ Onwards(r, e)
              \/ /\ ~Claims(e)
                 /\ Onwards(r, e)
                 /\ UNCHANGED idle
    BY <1>6 DEF ClaimNext
  <2>2. /\ pc[r] = "claim"
        /\ UNCHANGED <<last, low, cursor, age, accepted, dropped, faults>>
    BY <1>6 DEF ClaimNext
  <2>3. StreamOK'
    <3>1. Pending' \subseteq Pending /\ idle' \in [Pending' -> 0..Claim]
      BY <2>1, Sizes DEF StreamOK, Pending, Restrict
    <3>. QED  BY <2>2, <3>1 DEF StreamOK
  <2>4. CASE Loop(r, "rework", todo[r])
    <3>1. /\ cursor \in Nat /\ cursor' = cursor /\ todo[r] \subseteq 1..cursor
          /\ Cardinality(todo[r]) <= Batch /\ todo[r] # {}
      BY <2>2 DEF StreamOK, LoopOK
    <3>2. "rework" \in Stages  BY DEF Stages
    <3>. QED  BY <2>3, <2>4, <3>1, <3>2, LoopTypes
  <2>5. CASE Onwards(r, e)  BY <2>2, <2>3, <2>5, OnwardsTypes
  <2>. QED  BY <2>1, <2>4, <2>5
<1>7. ASSUME NEW r \in Replicas, Read(r) PROVE StreamOK' /\ LoopOK'
  <2>. DEFINE batch == FirstOf(Fresh)
  <2>1. UNCHANGED <<last, low, age, accepted, dropped, faults>>  BY <1>7 DEF Read
  <2>2. CASE Loop(r, "reclaim", {}) /\ UNCHANGED <<cursor, idle>>
    <3>1. StreamOK'  BY <2>1, <2>2 DEF StreamOK, Pending
    <3>. QED  BY <2>2, <3>1, IdleTypes
  <2>3. CASE /\ cursor' \in batch /\ \A e \in batch : e <= cursor'
             /\ idle' = [e \in Pending \cup batch |-> IF e \in Pending THEN idle[e] ELSE 0]
             /\ Loop(r, "work", batch)
    <3>. HIDE DEF batch
    <3>1. /\ cursor' \in Nat /\ cursor < cursor' /\ cursor' <= last
          /\ \A e \in batch : e \in cursor + 1 .. cursor'
      BY <2>3, BatchIsUnread DEF batch
    <3>2. cursor \in Nat /\ last \in Nat  BY Sizes DEF StreamOK
    <3>3. batch \subseteq 1..cursor' /\ 1..cursor \subseteq 1..cursor' /\ cursor' \in 0..last
      BY <3>1, <3>2
    <3>4. Pending' = Pending \cup batch /\ idle' \in [Pending' -> 0..Claim]
      BY <2>3, Sizes DEF StreamOK, Pending
    <3>5. Pending' \subseteq 1..cursor'  BY <3>3, <3>4 DEF StreamOK
    <3>6. StreamOK'  BY <2>1, <3>3, <3>4, <3>5 DEF StreamOK
    <3>7. Cardinality(batch) <= Batch /\ batch # {}  BY <2>3, Listed DEF batch
    <3>8. "work" \in Stages /\ cursor <= cursor'  BY <3>1, <3>2 DEF Stages
    <3>. QED  BY <2>3, <3>1, <3>3, <3>6, <3>7, <3>8, LoopTypes
  <2>. QED  BY <1>7, <2>2, <2>3 DEF Read
<1>8. ASSUME NEW r \in Replicas, Dismiss(r) PROVE StreamOK' /\ LoopOK'
  <2>1. StreamOK'  BY <1>8 DEF Dismiss, StreamOK, Pending
  <2>2. LoopOK'  BY <1>8 DEF Dismiss, LoopOK, ToAck, Working, Stages, Owning
  <2>. QED  BY <2>1, <2>2
<1>9. ASSUME NEW r \in Replicas, Notify(r) PROVE StreamOK' /\ LoopOK'
  <2>1. /\ next[r] \in 1..Transports /\ next' = [next EXCEPT ![r] = @ + 1]
        /\ \E a \in BOOLEAN : ok' = [ok EXCEPT ![r] = @ /\ a]
        /\ UNCHANGED <<last, low, cursor, idle, age, dropped, pc, todo, held, faults>>
    <3>1. next[r] \in 1..Transports + 1  BY DEF LoopOK
    <3>2. next[r] \in 1..Transports  BY <1>9, <3>1, Sizes DEF Notify
    <3>. QED  BY <1>9, <3>2 DEF Notify
  <2>2. accepted' \in [Events -> SUBSET Notifiers]
    BY <1>9, <2>1 DEF Notify, StreamOK, Notifiers
  <2>3. StreamOK'  BY <2>1, <2>2 DEF StreamOK, Pending
  <2>4. next' \in [Replicas -> 1..Transports + 1]  BY <2>1, Sizes DEF LoopOK
  <2>5. ok' \in [Replicas -> BOOLEAN]  BY <2>1 DEF LoopOK
  <2>6. LoopOK'  BY <2>1, <2>4, <2>5 DEF LoopOK
  <2>. QED  BY <2>3, <2>6
<1>10. ASSUME NEW r \in Replicas, EndOfFanOut(r) PROVE StreamOK' /\ LoopOK'
  <2>1. StreamOK'  BY <1>10 DEF EndOfFanOut, StreamOK, Pending
  <2>2. CASE ToAck(r) /\ UNCHANGED <<todo, next, ok, held>>
    BY <1>10, <2>1, <2>2 DEF EndOfFanOut, LoopOK, ToAck, Working, Stages, Owning
  <2>3. CASE \E e \in Events : Onwards(r, e)
    BY <1>10, <2>1, <2>3, OnwardsTypes DEF EndOfFanOut, Working, Owning
  <2>. QED  BY <1>10, <2>1, <2>2, <2>3 DEF EndOfFanOut
<1>11. ASSUME NEW r \in Replicas, Ack(r) PROVE StreamOK' /\ LoopOK'
  <2>1. PICK e \in Events : Onwards(r, e) /\ idle' = Restrict(idle, Pending \ {e})
    BY <1>11 DEF Ack
  <2>2. Pending' \subseteq Pending /\ idle' \in [Pending' -> 0..Claim]
    BY <2>1 DEF StreamOK, Pending, Restrict
  <2>3. StreamOK'  BY <1>11, <2>2 DEF Ack, StreamOK
  <2>4. LoopOK'  BY <1>11, <2>1, OnwardsTypes DEF Ack, Owning
  <2>. QED  BY <2>3, <2>4
<1>12. ASSUME NEW r \in Replicas, RedisError(r) PROVE StreamOK' /\ LoopOK'
  <2>1. StreamOK'  BY <1>12, Sizes DEF RedisError, StreamOK, Pending
  <2>2. CASE pc[r] \in {"reack", "ack"} /\ \E e \in Events : Onwards(r, e)
    BY <1>12, <2>1, <2>2, OnwardsTypes DEF RedisError, Owning
  <2>3. CASE Loop(r, "read", {}) \/ Loop(r, "reclaim", {})
    BY <1>12, <2>1, <2>3, IdleTypes DEF RedisError
  <2>. QED  BY <1>12, <2>1, <2>2, <2>3 DEF RedisError
<1>13. ASSUME NEW r \in Replicas, Crash(r) PROVE StreamOK' /\ LoopOK'
  <2>1. StreamOK'  BY <1>13, Sizes DEF Crash, StreamOK, Pending
  <2>2. LoopOK'  BY <1>13, IdleTypes DEF Crash
  <2>. QED  BY <2>1, <2>2
<1>. QED
  BY <1>1, <1>2, <1>3, <1>4, <1>5, <1>6, <1>7, <1>8, <1>9, <1>10, <1>11, <1>12, <1>13
  DEF Next, Step

\* Whatever the loops, the stream and the clock do, the entries a replica has
\* before it are at most a batch, of what the group has delivered, and a claim or a
\* call of a notifier always has an entry it is about.
THEOREM OutboxTypes == Spec => []OutboxTypeOK
<1>1. Spec => Init /\ [][Next]_vars  BY PTL DEF Spec
<1>. QED  BY <1>1, InitTypes, StepTypes, PTL

-----------------------------------------------------------------------------
\* One worker per claim.

\* Nobody comes to own anything, and nobody's time begins again.
Shrinks ==
  \A q \in Replicas, e \in Events : Owns(q, e)' => Owns(q, e) /\ held'[q] = held[q]

\* Nothing becomes pending, and no idle time begins again.
Leaves ==
  \A e \in Events : e \in Pending' => e \in Pending /\ idle'[e] = idle[e]

LEMMA ShrinkingKeepsApart ==
  ASSUME Kept, OneWorkerPerClaim, Shrinks, Leaves
  PROVE  (Kept /\ OneWorkerPerClaim)'
<1>1. Kept'
  <2>. SUFFICES ASSUME NEW r \in Replicas, NEW e \in Events, Owns(r, e)', e \in Pending'
                PROVE  idle'[e] <= held'[r]
    BY DEF Kept
  <2>1. Owns(r, e) /\ held'[r] = held[r]  BY DEF Shrinks
  <2>2. e \in Pending /\ idle'[e] = idle[e]  BY DEF Leaves
  <2>. QED  BY <2>1, <2>2 DEF Kept
<1>2. OneWorkerPerClaim'
  <2>. SUFFICES ASSUME NEW q \in Replicas, NEW r \in Replicas, NEW e \in Events,
                       Owns(q, e)', Owns(r, e)', q # r
                PROVE  held'[q] = Claim \/ held'[r] = Claim
    BY DEF OneWorkerPerClaim
  <2>1. Owns(q, e) /\ held'[q] = held[q] /\ Owns(r, e) /\ held'[r] = held[r]  BY DEF Shrinks
  <2>. QED  BY <2>1 DEF OneWorkerPerClaim
<1>. QED  BY <1>1, <1>2

\* A turn of the loop that is not given entries.
LEMMA TurnShrinks ==
  ASSUME LoopOK, NEW r \in Replicas, NEW s, NEW t, Loop(r, s, t),
         \/ s \in {"down", "reclaim", "read", "claim"}
         \/ s = "work" /\ pc[r] \in {"work", "ack"} /\ t \subseteq todo[r]
  PROVE  Shrinks
<1>. SUFFICES ASSUME NEW q \in Replicas, NEW e \in Events, Owns(q, e)'
              PROVE  Owns(q, e) /\ held'[q] = held[q]
  BY DEF Shrinks
<1>1. CASE q # r
  <2>1. pc'[q] = pc[q] /\ todo'[q] = todo[q] /\ held'[q] = held[q]  BY <1>1, LoopOthers
  <2>. QED  BY <2>1 DEF Owns, Heads
<1>2. CASE q = r
  <2>1. /\ pc'[r] = s /\ todo'[r] = t
        /\ s = "work" /\ pc[r] \in {"work", "ack"} => held'[r] = held[r]
    BY LoopSelf
  <2>2. s \in Owning /\ e \in t  BY <1>2, <2>1 DEF Owns, Heads, Owning
  <2>3. s = "work" /\ pc[r] \in {"work", "ack"} /\ e \in todo[r]  BY <2>2 DEF Owning
  <2>. QED  BY <1>2, <2>1, <2>3 DEF Owns
<1>. QED  BY <1>1, <1>2

LEMMA OnwardsShrinks ==
  ASSUME LoopOK, NEW r \in Replicas, NEW e, Onwards(r, e), pc[r] \in Owning \cup {"claim"}
  PROVE  Shrinks
<1>1. PICK s \in {"claim", "work", "read", "reclaim"} :
         Loop(r, s, todo[r] \ {e}) /\ (s = "work" => pc[r] \in {"work", "ack"})
  BY OnwardsEffect
<1>2. todo[r] \ {e} \subseteq todo[r]  OBVIOUS
<1>. QED  BY <1>1, <1>2, TurnShrinks

\* From the fan-out to the acknowledgement of the same entry.
LEMMA ToAckShrinks ==
  ASSUME LoopOK, NEW r \in Replicas, Working(r), ToAck(r), UNCHANGED <<todo, held>>
  PROVE  Shrinks
<1>. SUFFICES ASSUME NEW q \in Replicas, NEW e \in Events, Owns(q, e)' PROVE Owns(q, e)
  BY DEF Shrinks
<1>1. CASE q # r
  <2>1. pc'[q] = pc[q]  BY <1>1 DEF ToAck, LoopOK
  <2>. QED  BY <2>1 DEF Owns, Heads
<1>2. CASE q = r
  <2>1. pc[r] \in {"rework", "work"} /\ pc'[r] = IF pc[r] = "rework" THEN "reack" ELSE "ack"
    BY DEF ToAck, LoopOK, Working
  <2>. QED  BY <1>2, <2>1 DEF Owns, Heads, Owning
<1>. QED  BY <1>1, <1>2

\* A claim succeeds only on an entry whose owners all have had it for so long.
LEMMA ClaimKeepsApart ==
  ASSUME StreamOK, LoopOK, Kept, OneWorkerPerClaim, NEW r \in Replicas, NEW e \in Events,
         pc[r] = "claim", Heads(r, e), Claims(e), idle' = [idle EXCEPT ![e] = 0],
         Loop(r, "rework", todo[r])
  PROVE  (Kept /\ OneWorkerPerClaim)'
<1>1. /\ pc'[r] = "rework" /\ todo'[r] = todo[r] /\ held'[r] = 0
      /\ \A q \in Replicas \ {r} : pc'[q] = pc[q] /\ todo'[q] = todo[q] /\ held'[q] = held[q]
  BY LoopSelf, LoopOthers
<1>2. \A q \in Replicas \ {r}, f \in Events : Owns(q, f)' => Owns(q, f) /\ held'[q] = held[q]
  BY <1>1 DEF Owns, Heads
<1>3. ASSUME NEW f \in Events, Owns(r, f)' PROVE f = e
  <2>1. e \in todo[r] /\ f \in todo[r] /\ e <= f /\ f <= e
    BY <1>1, <1>3 DEF Owns, Heads
  <2>2. e \in Nat /\ f \in Nat  BY Sizes DEF Events
  <2>. QED  BY <2>1, <2>2
<1>4. /\ Pending' = Pending /\ e \in Pending /\ idle[e] >= Claim /\ idle'[e] = 0
      /\ \A f \in Pending \ {e} : idle'[f] = idle[f]
  BY DEF Claims, IdleEnough, StreamOK, Pending
<1>5. \A q \in Replicas : held[q] \in 0..Claim /\ held'[q] \in 0..Claim
  BY <1>1, Sizes DEF LoopOK
<1>6. ASSUME NEW q \in Replicas \ {r}, Owns(q, e) PROVE held'[q] = Claim
  <2>1. idle[e] <= held[q]  BY <1>4, <1>6 DEF Kept
  <2>2. idle[e] \in 0..Claim  BY <1>4 DEF StreamOK
  <2>. QED  BY <1>1, <1>4, <1>5, <2>1, <2>2, Sizes
<1>7. Kept'
  <2>. SUFFICES ASSUME NEW q \in Replicas, NEW f \in Events, Owns(q, f)', f \in Pending'
                PROVE  idle'[f] <= held'[q]
    BY DEF Kept
  <2>1. CASE f = e  BY <1>4, <1>5, <2>1, Sizes
  <2>2. CASE f # e
    <3>1. q # r /\ Owns(q, f) /\ held'[q] = held[q]  BY <1>2, <1>3, <2>2
    <3>2. f \in Pending /\ idle'[f] = idle[f]  BY <1>4, <2>2
    <3>. QED  BY <3>1, <3>2 DEF Kept
  <2>. QED  BY <2>1, <2>2
<1>8. OneWorkerPerClaim'
  <2>. SUFFICES ASSUME NEW p \in Replicas, NEW q \in Replicas, NEW f \in Events,
                       Owns(p, f)', Owns(q, f)', p # q
                PROVE  held'[p] = Claim \/ held'[q] = Claim
    BY DEF OneWorkerPerClaim
  <2>1. CASE p = r  BY <1>2, <1>3, <1>6, <2>1
  <2>2. CASE q = r  BY <1>2, <1>3, <1>6, <2>2
  <2>3. CASE p # r /\ q # r
    <3>1. Owns(p, f) /\ held'[p] = held[p] /\ Owns(q, f) /\ held'[q] = held[q]  BY <1>2, <2>3
    <3>. QED  BY <3>1 DEF OneWorkerPerClaim
  <2>. QED  BY <2>1, <2>2, <2>3
<1>. QED  BY <1>7, <1>8

\* A batch is of entries that nobody was given before.
LEMMA ReadKeepsApart ==
  ASSUME StreamOK, LoopOK, Kept, OneWorkerPerClaim, NEW r \in Replicas, pc[r] = "read",
         cursor' \in FirstOf(Fresh), \A e \in FirstOf(Fresh) : e <= cursor',
         idle' = [e \in Pending \cup FirstOf(Fresh) |-> IF e \in Pending THEN idle[e] ELSE 0],
         Loop(r, "work", FirstOf(Fresh))
  PROVE  (Kept /\ OneWorkerPerClaim)'
<1>. DEFINE batch == FirstOf(Fresh)
<1>1. /\ pc'[r] = "work" /\ todo'[r] = batch /\ held'[r] = 0
      /\ \A q \in Replicas \ {r} : pc'[q] = pc[q] /\ todo'[q] = todo[q] /\ held'[q] = held[q]
  BY LoopSelf, LoopOthers
<1>. HIDE DEF batch
<1>2. \A q \in Replicas \ {r}, e \in Events : Owns(q, e)' => Owns(q, e) /\ held'[q] = held[q]
  BY <1>1 DEF Owns, Heads
<1>3. \A e \in Events : Owns(r, e)' => e \in batch  BY <1>1 DEF Owns, Heads
<1>4. cursor \in Nat /\ \A e \in batch : e \in Nat /\ e > cursor
  <2>1. cursor \in Nat /\ cursor' \in Nat  BY BatchIsUnread, Sizes DEF StreamOK
  <2>2. \A e \in batch : e \in cursor + 1 .. cursor'  BY BatchIsUnread DEF batch
  <2>. QED  BY <2>1, <2>2
<1>5. \A e \in batch : e \notin Pending  BY <1>4 DEF StreamOK
<1>6. ASSUME NEW q \in Replicas \ {r}, NEW e \in Events, Owns(q, e) PROVE e \notin batch
  <2>1. e \in todo[q] /\ todo[q] \subseteq 1..cursor  BY <1>6 DEF Owns, Heads, LoopOK
  <2>. QED  BY <1>4, <2>1
<1>7. /\ Pending' = Pending \cup batch
      /\ \A e \in Pending : idle'[e] = idle[e]
      /\ \A e \in batch : idle'[e] = 0
  BY <1>5 DEF Pending, batch
<1>8. Kept'
  <2>. SUFFICES ASSUME NEW q \in Replicas, NEW e \in Events, Owns(q, e)', e \in Pending'
                PROVE  idle'[e] <= held'[q]
    BY DEF Kept
  <2>1. CASE q = r  BY <1>1, <1>3, <1>7, <2>1
  <2>2. CASE q # r
    <3>1. Owns(q, e) /\ held'[q] = held[q] /\ e \notin batch  BY <1>2, <1>6, <2>2
    <3>2. e \in Pending /\ idle'[e] = idle[e]  BY <1>7, <3>1
    <3>. QED  BY <3>1, <3>2 DEF Kept
  <2>. QED  BY <2>1, <2>2
<1>9. OneWorkerPerClaim'
  <2>. SUFFICES ASSUME NEW p \in Replicas, NEW q \in Replicas, NEW e \in Events,
                       Owns(p, e)', Owns(q, e)', p # q
                PROVE  held'[p] = Claim \/ held'[q] = Claim
    BY DEF OneWorkerPerClaim
  <2>1. p # r /\ q # r  BY <1>2, <1>3, <1>6
  <2>2. Owns(p, e) /\ held'[p] = held[p] /\ Owns(q, e) /\ held'[q] = held[q]  BY <1>2, <2>1
  <2>. QED  BY <2>2 DEF OneWorkerPerClaim
<1>. QED  BY <1>8, <1>9

LEMMA StepApart ==
  OutboxTypeOK /\ Kept /\ OneWorkerPerClaim /\ [Next]_vars => (Kept /\ OneWorkerPerClaim)'
<1>. SUFFICES ASSUME StreamOK, LoopOK, Kept, OneWorkerPerClaim, [Next]_vars
              PROVE  (Kept /\ OneWorkerPerClaim)'
  BY TypeParts
<1>0. UNCHANGED idle => Leaves  BY DEF Leaves, Pending
<1>1. CASE UNCHANGED vars
  <2>1. Leaves  BY <1>0, <1>1 DEF vars
  <2>2. Shrinks  BY <1>1 DEF vars, loopVars, Shrinks, Owns, Heads
  <2>. QED  BY <2>1, <2>2, ShrinkingKeepsApart
<1>2. CASE Emit
  <2>1. Leaves  BY <1>0, <1>2 DEF Emit
  <2>2. Shrinks  BY <1>2 DEF Emit, loopVars, Shrinks, Owns, Heads
  <2>. QED  BY <2>1, <2>2, ShrinkingKeepsApart
<1>3. CASE Tick
  <2>1. /\ idle' = [e \in Pending |-> UpTo(idle[e], Claim)]
        /\ held' = [r \in Replicas |-> IF pc[r] \in Owning THEN UpTo(held[r], Claim) ELSE held[r]]
        /\ UNCHANGED <<pc, todo>>
    BY <1>3 DEF Tick
  <2>2. \A q \in Replicas, e \in Events : Owns(q, e)' => Owns(q, e) /\ pc[q] \in Owning
    BY <2>1 DEF Owns, Heads, Owning
  <2>3. \A q \in Replicas, e \in Events : Owns(q, e)' => held'[q] = UpTo(held[q], Claim)
    BY <2>1, <2>2
  <2>4. \A q \in Replicas : held[q] \in 0..Claim  BY DEF LoopOK
  <2>5. Pending' = Pending /\ \A e \in Pending : idle'[e] = UpTo(idle[e], Claim) /\ idle[e] \in 0..Claim
    BY <2>1 DEF StreamOK, Pending
  <2>6. \A i, h \in 0..Claim : i <= h => UpTo(i, Claim) <= UpTo(h, Claim)
    BY Sizes DEF UpTo
  <2>7. Kept'
    <3>. SUFFICES ASSUME NEW r \in Replicas, NEW e \in Events, Owns(r, e)', e \in Pending'
                  PROVE  idle'[e] <= held'[r]
      BY DEF Kept
    <3>1. idle[e] <= held[r]  BY <2>2, <2>5 DEF Kept
    <3>. QED  BY <2>3, <2>4, <2>5, <2>6, <3>1
  <2>8. OneWorkerPerClaim'
    <3>. SUFFICES ASSUME NEW q \in Replicas, NEW r \in Replicas, NEW e \in Events,
                         Owns(q, e)', Owns(r, e)', q # r
                  PROVE  held'[q] = Claim \/ held'[r] = Claim
      BY DEF OneWorkerPerClaim
    <3>1. held[q] = Claim \/ held[r] = Claim  BY <2>2 DEF OneWorkerPerClaim
    <3>2. UpTo(Claim, Claim) = Claim  BY Sizes DEF UpTo
    <3>. QED  BY <2>3, <3>1, <3>2
  <2>. QED  BY <2>7, <2>8
<1>4. ASSUME NEW r \in Replicas, Start(r) PROVE (Kept /\ OneWorkerPerClaim)'
  <2>1. Leaves /\ Shrinks  BY <1>0, <1>4, TurnShrinks DEF Start
  <2>. QED  BY <2>1, ShrinkingKeepsApart
<1>5. ASSUME NEW r \in Replicas, Reclaim(r) PROVE (Kept /\ OneWorkerPerClaim)'
  <2>1. Leaves /\ Shrinks  BY <1>0, <1>5, TurnShrinks DEF Reclaim
  <2>. QED  BY <2>1, ShrinkingKeepsApart
<1>6. ASSUME NEW r \in Replicas, ClaimNext(r) PROVE (Kept /\ OneWorkerPerClaim)'
  <2>1. PICK e \in Events :
           /\ Heads(r, e)
           /\ \/ /\ Claims(e) /\ e > low
                 /\ idle' = [idle EXCEPT ![e] = 0]
                 /\ Loop(r, "rework", todo[r])
              \/ /\ Claims(e) /\ e <= low
                 /\ idle' = Restrict(idle, Pending \ {e})
                 /\ Onwards(r, e)
              \/ /\ ~Claims(e)
                 /\ Onwards(r, e)
                 /\ UNCHANGED idle
    BY <1>6 DEF ClaimNext
  <2>2. pc[r] = "claim"  BY <1>6 DEF ClaimNext
  <2>3. CASE Claims(e) /\ idle' = [idle EXCEPT ![e] = 0] /\ Loop(r, "rework", todo[r])
    BY <2>1, <2>2, <2>3, ClaimKeepsApart
  <2>4. CASE (idle' = Restrict(idle, Pending \ {e}) \/ UNCHANGED idle) /\ Onwards(r, e)
    <3>1. Leaves  BY <1>0, <2>4 DEF Leaves, Pending, Restrict
    <3>2. Shrinks  BY <2>2, <2>4, OnwardsShrinks
    <3>. QED  BY <3>1, <3>2, ShrinkingKeepsApart
  <2>. QED  BY <2>1, <2>3, <2>4
<1>7. ASSUME NEW r \in Replicas, Read(r) PROVE (Kept /\ OneWorkerPerClaim)'
  <2>1. CASE Loop(r, "reclaim", {}) /\ UNCHANGED idle
    <3>1. Leaves /\ Shrinks  BY <1>0, <2>1, TurnShrinks
    <3>. QED  BY <3>1, ShrinkingKeepsApart
  <2>2. CASE /\ cursor' \in FirstOf(Fresh) /\ \A e \in FirstOf(Fresh) : e <= cursor'
             /\ idle' = [e \in Pending \cup FirstOf(Fresh) |-> IF e \in Pending THEN idle[e] ELSE 0]
             /\ Loop(r, "work", FirstOf(Fresh))
    BY <1>7, <2>2, ReadKeepsApart DEF Read
  <2>. QED  BY <1>7, <2>1, <2>2 DEF Read
<1>8. ASSUME NEW r \in Replicas, Dismiss(r) PROVE (Kept /\ OneWorkerPerClaim)'
  <2>1. Leaves /\ Shrinks  BY <1>0, <1>8, ToAckShrinks DEF Dismiss
  <2>. QED  BY <2>1, ShrinkingKeepsApart
<1>9. ASSUME NEW r \in Replicas, Notify(r) PROVE (Kept /\ OneWorkerPerClaim)'
  <2>1. Leaves  BY <1>0, <1>9 DEF Notify
  <2>2. Shrinks  BY <1>9 DEF Notify, Shrinks, Owns, Heads
  <2>. QED  BY <2>1, <2>2, ShrinkingKeepsApart
<1>10. ASSUME NEW r \in Replicas, EndOfFanOut(r) PROVE (Kept /\ OneWorkerPerClaim)'
  <2>1. Leaves  BY <1>0, <1>10 DEF EndOfFanOut
  <2>2. CASE ToAck(r) /\ UNCHANGED <<todo, held>>
    <3>1. Shrinks  BY <1>10, <2>2, ToAckShrinks DEF EndOfFanOut
    <3>. QED  BY <2>1, <3>1, ShrinkingKeepsApart
  <2>3. CASE \E e \in Events : Onwards(r, e)
    <3>1. Shrinks  BY <1>10, <2>3, OnwardsShrinks DEF EndOfFanOut, Working, Owning
    <3>. QED  BY <2>1, <3>1, ShrinkingKeepsApart
  <2>. QED  BY <1>10, <2>2, <2>3 DEF EndOfFanOut
<1>11. ASSUME NEW r \in Replicas, Ack(r) PROVE (Kept /\ OneWorkerPerClaim)'
  <2>1. PICK e \in Events : Onwards(r, e) /\ idle' = Restrict(idle, Pending \ {e})
    BY <1>11 DEF Ack
  <2>2. Leaves  BY <2>1 DEF Leaves, Pending, Restrict
  <2>3. Shrinks  BY <1>11, <2>1, OnwardsShrinks DEF Ack, Owning
  <2>. QED  BY <2>2, <2>3, ShrinkingKeepsApart
<1>12. ASSUME NEW r \in Replicas, RedisError(r) PROVE (Kept /\ OneWorkerPerClaim)'
  <2>1. Leaves  BY <1>0, <1>12 DEF RedisError
  <2>2. CASE pc[r] \in {"reack", "ack"} /\ \E e \in Events : Onwards(r, e)
    <3>1. Shrinks  BY <2>2, OnwardsShrinks DEF Owning
    <3>. QED  BY <2>1, <3>1, ShrinkingKeepsApart
  <2>3. CASE Loop(r, "read", {}) \/ Loop(r, "reclaim", {})
    <3>1. Shrinks  BY <2>3, TurnShrinks
    <3>. QED  BY <2>1, <3>1, ShrinkingKeepsApart
  <2>. QED  BY <1>12, <2>2, <2>3 DEF RedisError
<1>13. ASSUME NEW r \in Replicas, Crash(r) PROVE (Kept /\ OneWorkerPerClaim)'
  <2>1. Leaves /\ Shrinks  BY <1>0, <1>13, TurnShrinks DEF Crash
  <2>. QED  BY <2>1, ShrinkingKeepsApart
<1>. QED
  BY <1>1, <1>2, <1>3, <1>4, <1>5, <1>6, <1>7, <1>8, <1>9, <1>10, <1>11, <1>12, <1>13
  DEF Next, Step

\* PENDING_CLAIM_MS keeps the replicas apart although Redis takes them for one
\* consumer: of two that work on one entry, one has had it for that long.
THEOREM WorkersApart == Spec => []OneWorkerPerClaim
<1>1. Spec => Init /\ [][Next]_vars  BY PTL DEF Spec
<1>2. Init => Kept /\ OneWorkerPerClaim
  BY DEF Init, Kept, OneWorkerPerClaim, Owns, Owning
<1>. QED  BY <1>1, <1>2, InitTypes, StepTypes, StepApart, PTL

-----------------------------------------------------------------------------
\* What the fan-out knows when it acknowledges.

\* A turn of the loop of r: its next entry has been offered to nobody yet.
LEMMA TurnHeard ==
  ASSUME LoopOK, Heard, NEW r \in Replicas, NEW s, s \notin {"reack", "ack"}, NEW t, Loop(r, s, t),
         UNCHANGED <<accepted, age>>
  PROVE  Heard'
<1>. SUFFICES ASSUME NEW q \in Replicas, NEW e \in Events, Heads(q, e)'
              PROVE  /\ (Working(q) /\ ok[q])' => 1..(next'[q] - 1) \subseteq accepted'[e]
                     /\ pc'[q] \in {"reack", "ack"} => accepted'[e] = Notifiers \/ age'[e] > MaxAge
  BY DEF Heard
<1>1. CASE q # r
  <2>1. pc'[q] = pc[q] /\ todo'[q] = todo[q] /\ next'[q] = next[q] /\ ok'[q] = ok[q]
    BY <1>1, LoopOthers
  <2>2. Heads(q, e)  BY <2>1 DEF Heads
  <2>. QED  BY <2>1, <2>2 DEF Heard, Working
<1>2. CASE q = r
  <2>1. pc'[q] \notin {"reack", "ack"} /\ next'[q] = 1  BY <1>2, LoopSelf
  <2>2. 1..(next'[q] - 1) = {}  BY <2>1
  <2>. QED  BY <2>1, <2>2
<1>. QED  BY <1>1, <1>2

LEMMA OnwardsHeard ==
  ASSUME LoopOK, Heard, NEW r \in Replicas, NEW e, Onwards(r, e), pc[r] \in Owning \cup {"claim"},
         UNCHANGED <<accepted, age>>
  PROVE  Heard'
<1>1. PICK s \in {"claim", "work", "read", "reclaim"} : Loop(r, s, todo[r] \ {e})
  BY OnwardsEffect
<1>. QED  BY <1>1, TurnHeard

\* The step to the acknowledgement, with a reason for it.
LEMMA ToAckHeard ==
  ASSUME LoopOK, Heard, NEW r \in Replicas, Working(r), ToAck(r),
         UNCHANGED <<accepted, age, todo, next, ok>>,
         \A e \in Events : Heads(r, e) => accepted[e] = Notifiers \/ age[e] > MaxAge
  PROVE  Heard'
<1>. SUFFICES ASSUME NEW q \in Replicas, NEW e \in Events, Heads(q, e)'
              PROVE  /\ (Working(q) /\ ok[q])' => 1..(next'[q] - 1) \subseteq accepted'[e]
                     /\ pc'[q] \in {"reack", "ack"} => accepted'[e] = Notifiers \/ age'[e] > MaxAge
  BY DEF Heard
<1>1. Heads(q, e)  BY DEF Heads
<1>2. CASE q # r
  <2>1. pc'[q] = pc[q]  BY <1>2 DEF ToAck, LoopOK
  <2>. QED  BY <1>1, <2>1 DEF Heard, Working
<1>3. CASE q = r
  <2>1. pc'[r] \in {"reack", "ack"}  BY DEF ToAck, LoopOK
  <2>. QED  BY <1>1, <1>3, <2>1 DEF Working
<1>. QED  BY <1>2, <1>3

LEMMA OneHead ==
  ASSUME NEW r \in Replicas, NEW d \in Events, NEW e \in Events, Heads(r, d), Heads(r, e)
  PROVE  d = e
<1>1. d <= e /\ e <= d  BY DEF Heads
<1>2. d \in Nat /\ e \in Nat  BY Sizes DEF Events
<1>. QED  BY <1>1, <1>2

LEMMA NotifyHeard ==
  ASSUME StreamOK, LoopOK, Heard, NEW r \in Replicas, Notify(r)
  PROVE  Heard'
<1>1. PICK d \in Events, taken \in BOOLEAN, answered \in BOOLEAN :
         /\ Heads(r, d) /\ (answered => taken)
         /\ accepted' = [accepted EXCEPT ![d] = IF taken THEN @ \cup {next[r]} ELSE @]
         /\ ok' = [ok EXCEPT ![r] = @ /\ answered]
  BY DEF Notify
<1>2. /\ Working(r) /\ next' = [next EXCEPT ![r] = @ + 1] /\ UNCHANGED <<age, pc, todo>>
      /\ next[r] \in 1..Transports
  <2>1. next[r] \in 1..Transports + 1  BY DEF LoopOK
  <2>2. next[r] \in 1..Transports  BY <2>1, Sizes DEF Notify
  <2>. QED  BY <2>2 DEF Notify
<1>3. \A e \in Events : accepted[e] \subseteq accepted'[e] /\ accepted'[e] \subseteq Notifiers
  BY <1>1, <1>2 DEF StreamOK, Notifiers
<1>4. ASSUME NEW e \in Events, accepted[e] = Notifiers PROVE accepted'[e] = Notifiers
  BY <1>3, <1>4
<1>. SUFFICES ASSUME NEW q \in Replicas, NEW e \in Events, Heads(q, e)'
              PROVE  /\ (Working(q) /\ ok[q])' => 1..(next'[q] - 1) \subseteq accepted'[e]
                     /\ pc'[q] \in {"reack", "ack"} => accepted'[e] = Notifiers \/ age'[e] > MaxAge
  BY DEF Heard
<1>5. Heads(q, e)  BY <1>2 DEF Heads
<1>6. pc'[q] \in {"reack", "ack"} => accepted'[e] = Notifiers \/ age'[e] > MaxAge
  BY <1>2, <1>4, <1>5 DEF Heard
<1>7. ASSUME Working(q)', ok'[q] PROVE 1..(next'[q] - 1) \subseteq accepted'[e]
  <2>1. CASE q # r
    <3>1. next'[q] = next[q] /\ ok[q] /\ Working(q)
      BY <1>1, <1>2, <1>7, <2>1 DEF LoopOK, Working
    <3>. QED  BY <1>3, <1>5, <3>1 DEF Heard
  <2>2. CASE q = r
    <3>1. ok[r] /\ answered  BY <1>1, <1>7, <2>2 DEF LoopOK
    <3>2. e = d  BY <1>1, <1>5, <2>2, OneHead
    <3>3. accepted'[e] = accepted[e] \cup {next[r]}  BY <1>1, <3>1, <3>2 DEF StreamOK
    <3>4. 1..(next[r] - 1) \subseteq accepted[e]  BY <1>2, <1>5, <2>2, <3>1 DEF Heard
    <3>5. next'[q] = next[r] + 1 /\ next[r] \in Nat  BY <1>2, <2>2, Sizes DEF LoopOK
    <3>6. \A n \in 1..next[r] : n = next[r] \/ n \in 1..(next[r] - 1)  BY <3>5
    <3>7. 1..(next'[q] - 1) = 1..next[r]  BY <3>5
    <3>. QED  BY <3>3, <3>4, <3>6, <3>7
  <2>. QED  BY <2>1, <2>2
<1>. QED  BY <1>6, <1>7

\* A clock tick makes nothing younger.
LEMMA TickAges ==
  ASSUME StreamOK, Unborn, Tick
  PROVE  /\ \A e \in Events : age[e] > MaxAge => age'[e] > MaxAge
         /\ Unborn'
<1>1. age' = [e \in Events |-> IF e <= last THEN UpTo(age[e], MaxAge + 1) ELSE 0] /\ last' = last
  BY DEF Tick
<1>2. ASSUME NEW e \in Events, age[e] > MaxAge PROVE age'[e] > MaxAge
  <2>1. age[e] \in 0..MaxAge + 1 /\ e \in Nat /\ last \in Nat  BY Sizes DEF StreamOK, Events
  <2>2. e <= last  BY <1>2, <2>1, Sizes DEF Unborn
  <2>3. age'[e] = UpTo(age[e], MaxAge + 1)  BY <1>1, <2>2
  <2>. QED  BY <1>2, <2>1, <2>3, Sizes DEF UpTo
<1>3. Unborn'
  <2>1. \A e \in Events : e \in Nat  BY Sizes DEF Events
  <2>2. last \in Nat  BY Sizes DEF StreamOK
  <2>. QED  BY <1>1, <2>1, <2>2 DEF Unborn
<1>. QED  BY <1>2, <1>3

LEMMA StepHeard ==
  OutboxTypeOK /\ Heard /\ Unborn /\ [Next]_vars => (Heard /\ Unborn)'
<1>. SUFFICES ASSUME StreamOK, LoopOK, Heard, Unborn, [Next]_vars PROVE (Heard /\ Unborn)'
  BY TypeParts
<1>0. UNCHANGED <<last, age>> => Unborn'  BY DEF Unborn
<1>1. CASE UNCHANGED vars
  BY <1>0, <1>1 DEF vars, loopVars, Heard, Heads, Working
<1>2. CASE Emit
  <2>1. Heard'  BY <1>2 DEF Emit, loopVars, Heard, Heads, Working
  <2>2. Unborn'
    <3>1. last \in Nat /\ last' = last + 1 /\ age' = age  BY <1>2, Sizes DEF Emit, StreamOK
    <3>2. \A e \in Events : e \in Nat  BY Sizes DEF Events
    <3>. QED  BY <3>1, <3>2 DEF Unborn
  <2>. QED  BY <2>1, <2>2
<1>3. CASE Tick
  <2>1. Heard'  BY <1>3, TickAges DEF Tick, Heard, Heads, Working
  <2>. QED  BY <1>3, <2>1, TickAges
<1>4. ASSUME NEW r \in Replicas, Start(r) \/ Reclaim(r) \/ Crash(r) PROVE (Heard /\ Unborn)'
  BY <1>0, <1>4, TurnHeard DEF Start, Reclaim, Crash
<1>5. ASSUME NEW r \in Replicas, ClaimNext(r) PROVE (Heard /\ Unborn)'
  <2>1. pc[r] = "claim" /\ UNCHANGED <<last, age, accepted>>  BY <1>5 DEF ClaimNext
  <2>2. Loop(r, "rework", todo[r]) \/ \E e \in Events : Onwards(r, e)  BY <1>5 DEF ClaimNext
  <2>. QED  BY <1>0, <2>1, <2>2, TurnHeard, OnwardsHeard
<1>6. ASSUME NEW r \in Replicas, Read(r) PROVE (Heard /\ Unborn)'
  BY <1>0, <1>6, TurnHeard DEF Read
<1>7. ASSUME NEW r \in Replicas, Dismiss(r) PROVE (Heard /\ Unborn)'
  <2>1. \A e \in Events : Heads(r, e) => age[e] > MaxAge  BY <1>7, OneHead DEF Dismiss
  <2>. QED  BY <1>0, <1>7, <2>1, ToAckHeard DEF Dismiss
<1>8. ASSUME NEW r \in Replicas, Notify(r) PROVE (Heard /\ Unborn)'
  BY <1>0, <1>8, NotifyHeard DEF Notify
<1>9. ASSUME NEW r \in Replicas, EndOfFanOut(r) PROVE (Heard /\ Unborn)'
  <2>1. Working(r) /\ next[r] > Transports /\ UNCHANGED <<last, age, accepted>>
    BY <1>9 DEF EndOfFanOut
  <2>2. CASE ok[r] /\ ToAck(r) /\ UNCHANGED <<todo, next, ok, held>>
    <3>1. next[r] = Transports + 1
      <4>1. next[r] \in 1..Transports + 1  BY DEF LoopOK
      <4>. QED  BY <2>1, <4>1, Sizes
    <3>2. 1..(next[r] - 1) = Notifiers  BY <3>1, Sizes DEF Notifiers
    <3>3. \A e \in Events : Heads(r, e) => accepted[e] = Notifiers
      BY <2>1, <2>2, <3>2 DEF Heard, StreamOK
    <3>. QED  BY <1>0, <2>1, <2>2, <3>3, ToAckHeard
  <2>3. CASE \E e \in Events : Onwards(r, e)
    BY <1>0, <2>1, <2>3, OnwardsHeard DEF Working, Owning
  <2>. QED  BY <1>9, <2>2, <2>3 DEF EndOfFanOut
<1>10. ASSUME NEW r \in Replicas, Ack(r) PROVE (Heard /\ Unborn)'
  BY <1>0, <1>10, OnwardsHeard DEF Ack, Owning
<1>11. ASSUME NEW r \in Replicas, RedisError(r) PROVE (Heard /\ Unborn)'
  <2>1. UNCHANGED <<last, age, accepted>>  BY <1>11 DEF RedisError
  <2>2. CASE pc[r] \in {"reack", "ack"} /\ \E e \in Events : Onwards(r, e)
    BY <1>0, <2>1, <2>2, OnwardsHeard DEF Owning
  <2>3. CASE Loop(r, "read", {}) \/ Loop(r, "reclaim", {})
    BY <1>0, <2>1, <2>3, TurnHeard
  <2>. QED  BY <1>11, <2>2, <2>3 DEF RedisError
<1>. QED
  BY <1>1, <1>2, <1>3, <1>4, <1>5, <1>6, <1>7, <1>8, <1>9, <1>10, <1>11 DEF Next, Step

-----------------------------------------------------------------------------
\* The outbox implements AtLeastOnce.

LEMMA InitInv == Init => IInv
<1>. SUFFICES ASSUME Init PROVE IInv  OBVIOUS
<1>1. OutboxTypeOK  BY InitTypes
<1>2. Heard /\ Kept /\ Unborn /\ OneWorkerPerClaim
  BY DEF Init, Heard, Kept, Unborn, OneWorkerPerClaim, Heads, Owns, Owning, Working
<1>. QED  BY <1>1, <1>2 DEF IInv

LEMMA StepInv == IInv /\ [Next]_vars => IInv'
  BY StepTypes, StepApart, StepHeard DEF IInv

\* The invariant of the two results, as what each loop may rely on while the others,
\* the clock and the writers go on.
THEOREM OutboxInvariant == Spec => []IInv
<1>1. Spec => Init /\ [][Next]_vars  BY PTL DEF Spec
<1>. QED  BY <1>1, InitInv, StepInv, PTL

LEMMA MapInit == Init => Abstract!Init
<1>. SUFFICES ASSUME Init PROVE Abstract!Init  OBVIOUS
<1>1. last = 0 /\ accepted = [e \in Events |-> {}]  BY DEF Init
<1>2. Unsettled = {} /\ Gone = {} /\ TooOld = {}  BY <1>1 DEF Unsettled, Gone, TooOld
<1>. QED  BY <1>1, <1>2 DEF Abstract!Init

LEMMA SameCardinality == \A S : Abstract!Cardinality(S) = Cardinality(S)
BY DEF Abstract!Cardinality, Cardinality

\* Steps that settle nothing.
LEMMA SettlesNothing ==
  ASSUME UNCHANGED <<last, age>>, \A e \in 1..last : Settled(e)' <=> Settled(e)
  PROVE  UNCHANGED <<Unsettled, Gone, TooOld>>
BY DEF Unsettled, Gone, TooOld

LEMMA SamePending ==
  ASSUME UNCHANGED <<last, low, cursor, age, Pending>>
  PROVE  UNCHANGED <<Unsettled, Gone, TooOld>>
<1>1. \A e \in 1..last : Settled(e)' <=> Settled(e)  BY DEF Settled
<1>. QED  BY <1>1, SettlesNothing

\* The limit of the stream: what an XADD trims has MaxLen later ones.
LEMMA MapEmit ==
  ASSUME StreamOK, Unborn, Emit
  PROVE  Abstract!Next
<1>1. /\ last < MaxEvents /\ last' = last + 1 /\ low' \in low..last'
      /\ low' > low => last' - low' >= MaxLen
      /\ UNCHANGED <<cursor, idle, age, accepted>>
  BY DEF Emit
<1>2. last \in Nat /\ low \in Nat /\ low <= last /\ cursor \in Nat /\ cursor <= last
  BY Sizes DEF StreamOK
<1>3. PICK e \in Nat : e = last'  BY <1>1, <1>2
<1>4. PICK cut \in Nat : cut = low'  BY <1>1, <1>2
<1>5. /\ e = last + 1 /\ low <= cut /\ cut <= e /\ (cut > low => e - cut >= MaxLen)
  BY <1>1, <1>2, <1>3, <1>4
<1>6. cut <= last  BY <1>2, <1>5, Sizes
<1>7. e \in Events /\ e \notin 1..last /\ 1..last' = 1..last \cup {e}
  BY <1>1, <1>2, <1>3, <1>5, Sizes DEF Events
<1>8. Unsettled \cup Gone = 1..last  BY DEF Unsettled, Gone
<1>9. \A c \in 1..last : Settled(c)' <=> Settled(c) \/ c <= cut
  <2>1. \A c \in 1..last : c <= low => c <= cut  BY <1>2, <1>5
  <2>. QED  BY <1>1, <1>4, <2>1 DEF Settled, Pending
<1>10. ~Settled(e)'
  <2>1. ~(e <= low') /\ ~(e <= cursor')  BY <1>1, <1>2, <1>4, <1>5, <1>6
  <2>. QED  BY <2>1 DEF Settled
<1>. DEFINE trimmed == {c \in Unsettled : c <= cut}
<1>11. Unsettled' = (Unsettled \cup {e}) \ trimmed  BY <1>7, <1>9, <1>10 DEF Unsettled
<1>12. Gone' = Gone \cup trimmed  BY <1>7, <1>9, <1>10 DEF Gone, Unsettled
<1>13. TooOld' = TooOld
  <2>1. age[e] = 0 /\ age' = age  BY <1>1, <1>2, <1>5, <1>7 DEF Unborn
  <2>2. ~(age'[e] > MaxAge)  BY <2>1, Sizes
  <2>. QED  BY <1>7, <2>1, <2>2 DEF TooOld
<1>14. ASSUME NEW c \in trimmed
       PROVE  Cardinality({f \in Unsettled \cup Gone \cup {e} : f > c}) >= MaxLen
  <2>. DEFINE later == {f \in 1..last \cup {e} : f > c}
              kept  == cut + 1 .. e
  <2>1. c \in 1..last /\ c <= cut /\ ~Settled(c)  BY DEF Unsettled
  <2>2. c > low  BY <1>2, <2>1 DEF Settled
  <2>3. e - cut >= MaxLen  BY <1>2, <1>5, <2>1, <2>2
  <2>4. \A f \in kept : f \in 1..last \cup {e} /\ f > c  BY <1>2, <1>5, <2>1
  <2>5. kept \subseteq later  BY <2>4
  <2>6. IsFiniteSet(later)
    <3>1. later \subseteq 1..e  BY <1>2, <1>5
    <3>. HIDE DEF later
    <3>. QED  BY <3>1, StreamPart
  <2>7. IsFiniteSet(kept) /\ Cardinality(kept) = e - cut
    <3>1. cut + 1 \in Int /\ e \in Int /\ ~(cut + 1 > e)  BY <1>2, <1>5, <1>6
    <3>2. (e - (cut + 1)) + 1 = e - cut  OBVIOUS
    <3>. QED  BY <3>1, <3>2, FS_Interval
  <2>. HIDE DEF later, kept
  <2>8. Cardinality(kept) <= Cardinality(later) /\ Cardinality(later) \in Nat
    BY <2>5, <2>6, FS_Subset, FS_CardinalityType
  <2>9. Cardinality(later) >= MaxLen  BY <2>3, <2>7, <2>8, Sizes
  <2>. QED  BY <1>8, <2>9 DEF later
<1>15. trimmed \in SUBSET Unsettled  OBVIOUS
<1>. HIDE DEF trimmed
<1>16. Abstract!Emit(e)
  <2>1. e \notin Unsettled \cup Gone  BY <1>7, <1>8
  <2>2. \A c \in trimmed : Cardinality({f \in Unsettled \cup Gone \cup {e} : f > c}) >= MaxLen
    BY <1>14
  <2>3. \E c \in SUBSET Unsettled :
          /\ \A d \in c : Cardinality({f \in Unsettled \cup Gone \cup {e} : f > d}) >= MaxLen
          /\ Unsettled' = (Unsettled \cup {e}) \ c /\ Gone' = Gone \cup c
    BY <1>11, <1>12, <1>15, <2>2
  <2>. QED  BY <1>1, <1>13, <2>1, <2>3, SameCardinality DEF Abstract!Emit
<1>. QED  BY <1>7, <1>16 DEF Abstract!Next

LEMMA MapTick ==
  ASSUME StreamOK, Unborn, Tick
  PROVE  Abstract!Next
<1>1. UNCHANGED <<last, low, cursor, accepted>> /\ Pending' = Pending
  BY DEF Tick, Pending
<1>2. Unsettled' = Unsettled /\ Gone' = Gone  BY <1>1 DEF Unsettled, Gone, Settled
<1>3. 1..last \subseteq Events  BY Sizes DEF StreamOK, Events
<1>4. TooOld \subseteq TooOld'  BY <1>1, <1>3, TickAges DEF TooOld
<1>5. TooOld' \subseteq Unsettled \cup Gone  BY <1>1 DEF TooOld, Unsettled, Gone
<1>6. TooOld' = TooOld \cup TooOld'  BY <1>4
<1>. QED  BY <1>1, <1>2, <1>5, <1>6 DEF Abstract!Next, Abstract!Age

\* A notifier that takes an event, whatever it answers.
LEMMA MapNotify ==
  ASSUME StreamOK, LoopOK, NEW r \in Replicas, Notify(r)
  PROVE  Abstract!Next \/ UNCHANGED <<Unsettled, Gone, TooOld, accepted>>
<1>1. PICK e \in Events, taken \in BOOLEAN :
         /\ Heads(r, e)
         /\ accepted' = [accepted EXCEPT ![e] = IF taken THEN @ \cup {next[r]} ELSE @]
  BY DEF Notify
<1>2. UNCHANGED <<Unsettled, Gone, TooOld>>
  BY SamePending DEF Notify, Pending
<1>3. CASE taken
  <2>1. next[r] \in Notifiers
    <3>1. next[r] \in 1..Transports + 1  BY DEF LoopOK
    <3>. QED  BY <3>1, Sizes DEF Notify, Notifiers
  <2>2. e \in Unsettled \cup Gone
    <3>1. e \in 1..cursor  BY <1>1 DEF Heads, LoopOK
    <3>2. e \in 1..last  BY <3>1, Sizes DEF StreamOK
    <3>. QED  BY <3>2 DEF Unsettled, Gone
  <2>3. accepted' = [accepted EXCEPT ![e] = @ \cup {next[r]}]  BY <1>1, <1>3
  <2>. QED  BY <1>2, <2>1, <2>2, <2>3 DEF Abstract!Next, Abstract!Accept
<1>4. CASE ~taken
  <2>1. accepted' = accepted  BY <1>1, <1>4 DEF StreamOK
  <2>. QED  BY <1>2, <2>1
<1>. QED  BY <1>3, <1>4

\* An acknowledgement settles an event that all have accepted, or an old one; one
\* that was acknowledged or trimmed meanwhile has been settled already.
LEMMA MapAck ==
  ASSUME StreamOK, LoopOK, Heard, NEW r \in Replicas, Ack(r)
  PROVE  Abstract!Next \/ UNCHANGED <<Unsettled, Gone, TooOld, accepted>>
<1>1. PICK e \in Events : Heads(r, e) /\ idle' = Restrict(idle, Pending \ {e})
  BY DEF Ack
<1>2. pc[r] \in {"reack", "ack"} /\ UNCHANGED <<last, low, cursor, age, accepted>>
  BY DEF Ack
<1>3. Pending' = Pending \ {e}  BY <1>1 DEF Pending, Restrict
<1>4. e \in 1..last /\ e <= cursor
  <2>1. e \in 1..cursor  BY <1>1 DEF Heads, LoopOK
  <2>. QED  BY <2>1, Sizes DEF StreamOK
<1>5. \A f \in 1..last : Settled(f)' <=> Settled(f) \/ f = e
  BY <1>2, <1>3, <1>4 DEF Settled
<1>6. CASE Settled(e)
  BY <1>2, <1>5, <1>6, SettlesNothing
<1>7. CASE ~Settled(e)
  <2>1. Unsettled' = Unsettled \ {e} /\ Gone' = Gone \cup {e} /\ TooOld' = TooOld
    BY <1>2, <1>4, <1>5 DEF Unsettled, Gone, TooOld
  <2>2. e \in Unsettled  BY <1>4, <1>7 DEF Unsettled
  <2>3. accepted[e] = Notifiers \/ e \in TooOld
    BY <1>1, <1>2, <1>4 DEF Heard, TooOld
  <2>. QED  BY <1>2, <2>1, <2>2, <2>3 DEF Abstract!Next, Abstract!Settle
<1>. QED  BY <1>6, <1>7

\* A batch moves events from the unread part of the stream to the pending list.
LEMMA MapRead ==
  ASSUME StreamOK, NEW r \in Replicas, Read(r)
  PROVE  UNCHANGED <<Unsettled, Gone, TooOld, accepted>>
<1>1. UNCHANGED <<last, low, age, accepted>>  BY DEF Read
<1>2. CASE UNCHANGED <<cursor, idle>>  BY <1>1, <1>2, SamePending DEF Pending
<1>3. CASE /\ cursor' \in FirstOf(Fresh) /\ \A e \in FirstOf(Fresh) : e <= cursor'
           /\ idle' = [e \in Pending \cup FirstOf(Fresh) |-> IF e \in Pending THEN idle[e] ELSE 0]
  <2>1. /\ cursor' \in Nat /\ cursor < cursor'
        /\ \A e \in FirstOf(Fresh) : e \in cursor + 1 .. cursor' /\ e > low
        /\ \A e \in Nat : e > cursor /\ e <= cursor' /\ e > low => e \in FirstOf(Fresh)
    BY <1>3, BatchIsUnread
  <2>2. Pending' = Pending \cup FirstOf(Fresh)  BY <1>3 DEF Pending
  <2>3. cursor \in Nat /\ low \in Nat  BY Sizes DEF StreamOK
  <2>4. ASSUME NEW e \in 1..last PROVE Settled(e)' <=> Settled(e)
    <3>1. e \in Nat  OBVIOUS
    <3>2. CASE e <= low  BY <1>1, <3>2 DEF Settled
    <3>3. CASE ~(e <= low) /\ e <= cursor
      <4>1. e \notin FirstOf(Fresh) /\ e <= cursor'  BY <2>1, <2>3, <3>1, <3>3
      <4>. QED  BY <1>1, <2>2, <3>3, <4>1 DEF Settled
    <3>4. CASE ~(e <= low) /\ ~(e <= cursor)
      <4>1. e <= cursor' => e \in Pending'  BY <2>1, <2>2, <2>3, <3>1, <3>4
      <4>. QED  BY <1>1, <3>4, <4>1 DEF Settled
    <3>. QED  BY <3>2, <3>3, <3>4
  <2>. QED  BY <1>1, <2>4, SettlesNothing
<1>. QED  BY <1>2, <1>3 DEF Read

\* A claim of a trimmed entry drops it from the pending list; it was settled.
LEMMA MapClaim ==
  ASSUME StreamOK, NEW r \in Replicas, ClaimNext(r)
  PROVE  UNCHANGED <<Unsettled, Gone, TooOld, accepted>>
<1>1. UNCHANGED <<last, low, cursor, age, accepted>>  BY DEF ClaimNext
<1>2. Pending' = Pending \/ \E e \in Events : e <= low /\ Pending' = Pending \ {e}
  <2>1. PICK e \in Events : \/ idle' = [idle EXCEPT ![e] = 0]
                            \/ e <= low /\ idle' = Restrict(idle, Pending \ {e})
                            \/ UNCHANGED idle
    BY DEF ClaimNext
  <2>. QED  BY <2>1 DEF Pending, Restrict
<1>3. \A e \in 1..last : Settled(e)' <=> Settled(e)  BY <1>1, <1>2 DEF Settled
<1>. QED  BY <1>1, <1>3, SettlesNothing

LEMMA MapStep ==
  IInv /\ [Next]_vars => [Abstract!Next]_<<Unsettled, Gone, TooOld, accepted>>
<1>. SUFFICES ASSUME StreamOK, LoopOK, Heard, Unborn, [Next]_vars
              PROVE  Abstract!Next \/ UNCHANGED <<Unsettled, Gone, TooOld, accepted>>
  BY TypeParts DEF IInv
<1>1. CASE UNCHANGED vars  BY <1>1, SamePending DEF vars, Pending
<1>2. CASE Emit  BY <1>2, MapEmit
<1>3. CASE Tick  BY <1>3, MapTick
<1>4. ASSUME NEW r \in Replicas,
             \/ Start(r) \/ Reclaim(r) \/ Dismiss(r) \/ EndOfFanOut(r)
             \/ RedisError(r) \/ Crash(r)
      PROVE  UNCHANGED <<Unsettled, Gone, TooOld, accepted>>
  <2>1. UNCHANGED <<last, low, cursor, idle, age, accepted>>
    BY <1>4 DEF Start, Reclaim, Dismiss, EndOfFanOut, RedisError, Crash
  <2>. QED  BY <2>1, SamePending DEF Pending
<1>5. ASSUME NEW r \in Replicas, Notify(r) \/ Ack(r) \/ Read(r) \/ ClaimNext(r)
      PROVE  Abstract!Next \/ UNCHANGED <<Unsettled, Gone, TooOld, accepted>>
  BY <1>5, MapNotify, MapAck, MapRead, MapClaim
<1>. QED  BY <1>1, <1>2, <1>3, <1>4, <1>5 DEF Next, Step

\* "All must succeed for ACK", "Failed events stay pending": for any number of
\* replicas, transports and events, and whatever times and batches, an event leaves
\* the outbox only accepted by all notifiers, too old, or trimmed over the limit.
THEOREM OutboxIsAtLeastOnce == Spec => ImplementsAtLeastOnce
<1>1. Spec => Init /\ [][Next]_vars  BY PTL DEF Spec
<1>. QED
  BY <1>1, MapInit, MapStep, OutboxInvariant, PTL DEF ImplementsAtLeastOnce, Abstract!Spec
=============================================================================
