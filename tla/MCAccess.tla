----------------------------- MODULE MCAccess -----------------------------
(* The gates of the route table against callers of every standing, in a     *)
(* world that changes twice while the request is checked.                   *)
EXTENDS Access, Routes

MCServices == {"jinbe", "shop"}

Standing(facts, perms) == [facts |-> facts, perms |-> perms, service |-> "shop"]

Nobody == Standing({}, {})
Console == Standing({"session", "aal2", "super", "superRole"}, {<<"jinbe", "*">>, <<"shop", "*">>})
Administrator == Standing({"session", "admin"}, {<<"jinbe", "other">>})
Delegate == Standing({"session", "manages"}, {<<"shop", "other">>, <<"jinbe", "users:assign_group">>})
Assigner == Standing({"session", "manages", "aal2"}, {<<"shop", "users:assign_group">>})
Reviewer == Standing({"session", "reviewer"}, {})
Spelled == Standing({"session", "superadmins"}, {<<"jinbe", "*">>})
Machine == Standing({"machine", "secret", "scimToken", "admin"}, {<<"shop", "*">>})

MCCallers == {Nobody, Console, Administrator, Delegate, Assigner, Reviewer, Spelled, Machine}
===========================================================================
