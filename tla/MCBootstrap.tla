---------------------------- MODULE MCBootstrap ----------------------------
(***************************************************************************)
(* Two delegated services, one group, rule and path permission of the      *)
(* operator's, and one organization.  An installation starts empty, empty  *)
(* with a backup in the bucket, or complete and of some release.           *)
(***************************************************************************)
EXTENDS Bootstrap, TLC

MCServices == {"jinbe", "kuma", "global"}
MCGroups   == {"super_admins", "users", "jinbe-viewer", "jinbe-admin", "kuma-viewer",
               "kuma-admin", "platform-admins", "ops"}
MCRuleIds  == {"jinbe-api", "custom"}
MCPairs    == {<<"users", "admin">>, <<"users", "org">>, <<"users", "strict">>}
MCRoleNames == {"admin", "viewer", "org_admin", "super_admin"}
MCDefaults  == {"admin", "viewer"}

MCAsked == {{}, {"groups"}}

Former  == [schema |-> 5, built |-> "a"]
Current == [schema |-> 6, built |-> "b"]
MCCodes == {Former, Current}

\* What a first run leaves, and the operator then adds.
Complete ==
  [services |-> MCServices,
   groups   |-> [g \in MCGroups |->
                   CASE g \in {"super_admins"} -> {"global", "kuma"}
                     [] g = "platform-admins" -> {"global"}
                     [] g \in {"jinbe-viewer", "jinbe-admin"} -> {"jinbe"}
                     [] g \in {"kuma-viewer", "kuma-admin"} -> {"kuma"}
                     [] g = "users" -> {}
                     [] OTHER -> None],
   roles    |-> [s \in MCServices |-> IF s = "global" THEN {"super_admin", "admin"}
                                      ELSE {"admin", "viewer", "org_admin"}],
   maps     |-> [jinbe |-> BuiltInRoutes, kuma |-> {}, global |-> None],
   rules    |-> [i \in MCRuleIds |-> IF i = "custom" THEN None ELSE "a"],
   orgs     |-> [o \in Orgs |-> {}]]

\* An export from before kuma, with a group and a rule of its own; and one whose
\* rules the gateway would not load.
Older ==
  [Complete EXCEPT !.services = {"jinbe", "global"}, !.roles["kuma"] = {},
                   !.maps["kuma"] = None, !.groups["ops"] = {"jinbe"},
                   !.groups["kuma-viewer"] = None, !.groups["kuma-admin"] = None,
                   !.rules["custom"] = "op", !.orgs = [o \in Orgs |-> {"jinbe"}]]
MCUploads == {Older, [Older EXCEPT !.rules["custom"] = "bad"]}

MCOwn == {[kind |-> "group", at |-> "ops", to |-> {"jinbe"}],
          [kind |-> "group", at |-> "ops", to |-> None],
          [kind |-> "rule", at |-> "custom", to |-> "op"],
          [kind |-> "map", at |-> "jinbe", to |-> {<<"users", "strict">>}]}

Fresh(saved) == [reg |-> Empty, latest |-> saved, marker |-> None, tags |-> {}, admin |-> FALSE]
Installed ==
  [reg |-> Complete, latest |-> None, marker |-> Former,
   tags |-> TaggedNames \cup {"platform-admins"}, admin |-> TRUE]
Alike == Permutations(Runners)
MCWorlds == {Fresh(None), Fresh(Older), Installed}
=============================================================================
