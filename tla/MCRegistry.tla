----------------------------- MODULE MCRegistry -----------------------------
(***************************************************************************)
(* Two services, one default group, three requests, two of them at a time. *)
(***************************************************************************)
EXTENDS Registry, TLC

CONSTANTS s1, s2, grp

MCRequests ==
  [op : {"create", "delete", "config", "roles", "routes", "repair"}, svc : {s1}]
  \cup [op : {"createAt", "delete"}, svc : {s2}]
  \cup [op : {"addRule", "putRule", "dropRule"}, rule : {<<s1, "main">>}]
  \cup [op : {"newGroup", "putGroup"}, group : {grp}, binds : {{}}]
  \cup [op : {"dropGroup"}, group : {grp}, binds : {{}}]

Alike == Permutations(Workers)

\* The state without what no later step reads: the request and the position of
\* a worker that is over, and what was read in a section that has been left.
Live(w) == st[w] \in {"run", "inside"}
View == << quota, store, lock, [w \in Workers |-> IF Live(w) THEN st[w] ELSE "over"], raced, tainted \cap Active, shared \cap Active,
           [w \in Workers |-> IF Live(w) THEN <<req[w], at[w]>> ELSE <<>>],
           [w \in Workers |-> IF st[w] = "inside" THEN <<snap[w], left[w]>> ELSE <<>>] >>
=============================================================================
