------------------------------ MODULE MCRecert ------------------------------
(***************************************************************************)
(* Two users with one membership each, three requests and one replica that *)
(* sweeps: enough for two decisions on one item, a close beside a decision *)
(* and an activation that is repeated.                                     *)
(***************************************************************************)
EXTENDS Recert, TLC

CONSTANTS u1, u2, m1, m2

MCSubject == m1 :> u1 @@ m2 :> u2
OneSubject == m1 :> u1

\* Requests are alike, and so are the two users with their memberships.
Swap  == u1 :> u2 @@ u2 :> u1 @@ m1 :> m2 @@ m2 :> m1
Alike == {f @@ g : f \in Permutations(Handlers), g \in {Swap, [x \in DOMAIN Swap |-> x]}}

\* The state without the locals that no later step of their worker reads.
Busily(w) == pc[w] \notin {"idle", "done", "release"}
View ==
  << status, onExpiry, Sweepers # {} /\ overdue, store, kratos, control, batches, pc,
     [w \in Workers |-> IF Busily(w) THEN op[w] ELSE "none"],
     [w \in Workers |-> IF (Busily(w) /\ op[w] = "decide") \/ pc[w] \in {"strip", "record", "unlist"}
                          THEN mine[w] ELSE NoOne],
     [w \in Workers |-> IF Busily(w) /\ op[w] = "decide" THEN verdict[w] ELSE "none"],
     [w \in Workers |-> IF Busily(w) /\ pc[w] # "wait" THEN todo[w] ELSE {}] >>
=============================================================================
