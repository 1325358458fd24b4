---------------------------- MODULE AtLeastOnce -----------------------------
(***************************************************************************)
(* What the notification outbox promises, without streams, consumer        *)
(* groups, clocks or replicas: an event is pending until every notifier    *)
(* has accepted it, or it is too old, or the stream is over its limit.  A  *)
(* notifier may accept an event any number of times, also a settled one.   *)
(***************************************************************************)
EXTENDS Naturals, FiniteSets

CONSTANTS
  Events,      \* identifiers, in the order of emission
  Notifiers,   \* the registered transports
  MaxLen       \* how many events the stream keeps at least

VARIABLES
  pending,     \* emitted and not settled
  settled,
  old,         \* events older than the age limit
  accepted     \* accepted[e]: the notifiers that accepted e at least once

Init ==
  /\ pending = {} /\ settled = {} /\ old = {}
  /\ accepted = [e \in Events |-> {}]

\* Adding an event may trim the stream, of events with MaxLen later ones.
Emit(e) ==
  /\ e \notin pending \cup settled
  /\ \E cut \in SUBSET pending :
       /\ \A c \in cut :
            Cardinality({f \in pending \cup settled \cup {e} : f > c}) >= MaxLen
       /\ pending' = (pending \cup {e}) \ cut
       /\ settled' = settled \cup cut
  /\ UNCHANGED <<old, accepted>>

Accept(e, n) ==
  /\ e \in pending \cup settled
  /\ accepted' = [accepted EXCEPT ![e] = @ \cup {n}]
  /\ UNCHANGED <<pending, settled, old>>

Settle(e) ==
  /\ e \in pending
  /\ accepted[e] = Notifiers \/ e \in old
  /\ pending' = pending \ {e} /\ settled' = settled \cup {e}
  /\ UNCHANGED <<old, accepted>>

Age == /\ \E es \in SUBSET (pending \cup settled) : old' = old \cup es
       /\ UNCHANGED <<pending, settled, accepted>>

Next == \/ \E e \in Events : Emit(e) \/ Settle(e)
        \/ \E e \in Events, n \in Notifiers : Accept(e, n)
        \/ Age

Spec == Init /\ [][Next]_<<pending, settled, old, accepted>>
=============================================================================
