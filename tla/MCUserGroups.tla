---------------------------- MODULE MCUserGroups ----------------------------
(***************************************************************************)
(* Three groups are enough to tell the gates apart: the base group, one    *)
(* that an organization's administrator may grant, and super_admins (a     *)
(* system group with global power).  In the second world the third group   *)
(* is org_admins, which has no power of its own, and the base group has    *)
(* been given roles.                                                       *)
(***************************************************************************)
EXTENDS UserGroups, TLC

CONSTANTS users, dev, adm, flag

MCGroups == {users, dev, adm}

OrgAdmin   == [org |-> TRUE,  may |-> {dev}, super |-> FALSE, fresh |-> TRUE]
SuperAdmin == [org |-> FALSE, may |-> {},    super |-> TRUE,  fresh |-> TRUE]

MCActors   == {OrgAdmin, SuperAdmin, [SuperAdmin EXCEPT !.fresh = FALSE]}
MCRequests == {{}, {dev}, {adm}, {dev, adm}}

\* A platform administrator who is not a super_admin calls the global endpoint.
MixedGroups   == {users, dev, flag}
MixedActors   == {OrgAdmin, SuperAdmin, [SuperAdmin EXCEPT !.super = FALSE]}
MixedRequests == {{}, {dev}, {flag}}

Perms      == Permutations(Appliers)

\* The state without what no later step reads: the locals of a writer that has
\* finished or not begun, the pre-image after the gate, the fetched identity
\* after the PUT.
During(stages, f) == [w \in Writers |-> IF pc[w] \in stages THEN f[w] ELSE {}]
View == << identity, mfa, lock, held, pc,
           {w \in tainted : pc[w] \in {"gate", "fetch", "put"}},
           During({"wait", "read", "gate", "fetch", "put"}, want),
           During({"gate", "fetch", "put"}, old),
           [w \in Writers |-> IF pc[w] = "put" THEN <<got[w]>> ELSE <<>>],
           [w \in Appliers |-> IF pc[w] \in {"wait", "read", "gate", "fetch", "put"} THEN <<actor[w]>> ELSE <<>>] >>
=============================================================================
