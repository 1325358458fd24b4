----------------------------- MODULE Bootstrap -----------------------------
(***************************************************************************)
(* The bootstrap job: what a release seeds into the registry before the    *)
(* API serves, beside the imports and edits of a live installation.        *)
(*                                                                         *)
(* A run takes a lock with a time to live, reads the marker of the last    *)
(* complete run, and works off a list of steps.  Each step that depends on *)
(* what is there reads first (Look) and writes later (Do); nothing but the *)
(* lock keeps others away, and the lock is never renewed.  A run that dies *)
(* leaves everything as it is: the next one must make up for it by looking *)
(* at the registry, and the marker, written last, says that it did.        *)
(***************************************************************************)
EXTENDS Bundle

CONSTANTS
  Runners,   \* the runs of the job, in Procs: each attempt is one
  Codes,     \* the releases: [schema, built], built naming the built-in content
  Worlds,    \* what an installation may look like at first
  Overlap    \* a bound: FALSE has no request import beside a run

VARIABLES
  marker,    \* rbac:bootstrap:state: the release of the last complete run
  key,       \* rbac:bootstrap:lock
  run,       \* run[r]: how far r is
  tags,      \* the groups and services with metadata system: true
  admin,     \* the administrator's identity is in Kratos
  serving,   \* a replica has come past waitForBootstrap
  cut        \* history: a seed or an import was cut off, or wrote beside a run

bootVars == <<marker, key, run, tags, admin, serving, cut>>
vars == <<bundleVars, bootVars>>

Delegated    == {"jinbe", "kuma"}       \* and fleet, alike
ViewerOf     == [jinbe |-> "jinbe-viewer", kuma |-> "kuma-viewer"]
AdminOf      == [jinbe |-> "jinbe-admin", kuma |-> "kuma-admin"]
TaggedGroups == {"super_admins", "users"}       \* SYSTEM_GROUP_DESCRIPTIONS
TaggedNames  == TaggedGroups \cup {"jinbe", "kuma"}
BuiltInRules == {"jinbe-api"}           \* the ids that buildBuiltInRules emits
\* JINBE_BUILT_IN_ROUTES: a path may carry several permissions.
BuiltInRoutes == {<<"users", "admin">>, <<"users", "org">>}

ASSUME BootstrapAssumption ==
  /\ Runners \subseteq Procs
  /\ {"jinbe", "kuma"} \subseteq Services
  /\ {"super_admins", "users", "platform-admins", "jinbe-viewer", "jinbe-admin",
       "kuma-viewer", "kuma-admin"} \subseteq Groups
  /\ {"super_admin", "admin", "viewer", "org_admin"} \subseteq RoleNames
  /\ BuiltInRoutes \subseteq Pairs
  /\ Codes \subseteq [schema : Nat, built : Writers]
  /\ \A w \in Worlds : /\ w.reg \in Registry /\ w.latest \in Registry \cup {None}
                      /\ w.marker \in Codes \cup {None} /\ w.admin \in BOOLEAN
                      /\ w.tags \subseteq TaggedNames \cup {"platform-admins"}

NoRun == [pc |-> "idle", code |-> None, todo |-> <<>>, saw |-> <<>>]
Working(r) == run[r].pc \in {"work", "restoring"}

-----------------------------------------------------------------------------
(* The steps of a run.                                                     *)

SeedWrites == << <<"group", "super_admins", {"global"}>>, <<"group", "users", {}>>,
                 <<"roles", "global", {"super_admin", "admin"}>>,
                 <<"roles", "jinbe", DefaultRoles>>,
                 <<"service", "jinbe">>, <<"service", "global">> >>
KumaWrites == << <<"service", "kuma">>, <<"roles", "kuma", {"admin", "viewer"}>>,
                 <<"bind", "super_admins">> >>

\* runUpsertOnly.
Upsert == << <<"rules">>, <<"routes">>, <<"meta">>, <<"delegate", "kuma">>,
             <<"delegate", "jinbe">>, <<"platform">> >>
Finish == << <<"marker">>, <<"unlock">> >>

\* The bug of a delegation that is seeded before the service it needs.
UpsertFirst == << <<"restore">>, <<"seed">> >> \o Upsert \o << <<"kuma">>, <<"admin">> >>

\* runFullBootstrap.
FirstRun == << <<"restore">>, <<"seed">>, <<"kuma">> >> \o Upsert \o << <<"admin">> >>

\* What a run does once it has read the marker.
Decision(code) ==
  IF marker = None THEN FirstRun \o Finish
  ELSE IF marker.schema > code.schema THEN << <<"unlock">> >>
  ELSE IF marker # code THEN Upsert \o Finish
  ELSE << <<"meta">>, <<"unlock">> >>

\* The steps a composite step stands for, by what is there when r comes to it.
Unfold(step) ==
  CASE step[1] = "seed" ->
         IF \E g \in Groups : reg.groups[g] # None THEN <<>> ELSE SeedWrites
    [] step[1] = "kuma" ->
         (IF "kuma" \in reg.services THEN <<>> ELSE KumaWrites) \o << <<"kumaMap">> >>
    [] step[1] = "delegate" ->
         LET s == step[2]
         IN IF s \notin reg.services THEN <<>>
            ELSE << <<"orgAdmin", s>>, <<"ensure", ViewerOf[s], {s}>>, <<"ensure", AdminOf[s], {s}>> >>

\* What a step that reads before it writes reads; the others read nothing.
Reads == {"bind", "kumaMap", "rules", "routes", "orgAdmin", "ensure", "platform"}
Seen(step) ==
  CASE step[1] \in {"bind", "ensure"} -> reg.groups[step[2]]
    [] step[1] = "platform" -> reg.groups["platform-admins"]
    [] step[1] = "kumaMap"  -> reg.maps["kuma"]
    [] step[1] = "rules"    -> reg.rules
    [] step[1] = "routes"   -> reg.maps["jinbe"]
    [] step[1] = "orgAdmin" -> reg.roles[step[2]]

\* upsertBuiltInRules: the built-in ids are overwritten, the others kept.
MergeRules(rules, code) ==
  [i \in RuleIds |-> IF i \in BuiltInRules THEN code.built ELSE rules[i]]

\* The bug of a merge that adds the built-in permissions a path lacks, whatever
\* the operator put there.
MergeEverything(pairs) == pairs \cup BuiltInRoutes

\* mergeJinbeRouteMap: append-only, and a path that carries a permission that is
\* not built in for it is the operator's.
MergeRoutes(pairs) ==
  pairs \cup {p \in BuiltInRoutes :
                \A q \in pairs : q[1] = p[1] => q \in BuiltInRoutes}

\* The registry after a step, given what the step has seen.
Result(step, saw, code) ==
  LET Missing(g, def) == IF saw = None THEN [reg EXCEPT !.groups[g] = def] ELSE reg
  IN CASE step[1] = "group"    -> [reg EXCEPT !.groups[step[2]] = step[3]]
       [] step[1] = "roles"    -> [reg EXCEPT !.roles[step[2]] = step[3]]
       [] step[1] = "service"  -> [reg EXCEPT !.services = @ \cup {step[2]}]
       [] step[1] = "bind"     -> IF saw = None THEN reg
                                  ELSE [reg EXCEPT !.groups[step[2]] = saw \cup {"kuma"}]
       [] step[1] = "kumaMap"  -> IF saw = None THEN [reg EXCEPT !.maps["kuma"] = {}] ELSE reg
       [] step[1] = "rules"    -> [reg EXCEPT !.rules = MergeRules(saw, code)]
       [] step[1] = "routes"   -> LET old == IF saw = None THEN {} ELSE saw
                                  IN IF MergeRoutes(old) = old THEN reg
                                     ELSE [reg EXCEPT !.maps["jinbe"] = MergeRoutes(old)]
       [] step[1] = "orgAdmin" -> IF "org_admin" \in saw THEN reg
                                  ELSE [reg EXCEPT !.roles[step[2]] = saw \cup {"org_admin"}]
       [] step[1] = "ensure"   -> Missing(step[2], step[3])
       [] step[1] = "platform" -> Missing("platform-admins", {"global"})

Composite == {"seed", "kuma", "delegate"}
Written   == {"group", "roles", "service"} \cup Reads

-----------------------------------------------------------------------------
(* Actions.                                                                *)

Init ==
  /\ \E w \in Worlds : /\ reg = w.reg /\ latest = w.latest /\ marker = w.marker
                       /\ tags = w.tags /\ admin = w.admin /\ serving = (w.marker # None)
  /\ history = <<>> /\ touched = {}
  /\ imp = [p \in Procs |-> NoImport]
  /\ budget = [imports |-> MaxImports, edits |-> MaxEdits, faults |-> MaxFaults,
                events |-> MaxEvents]
  /\ key = None /\ cut = FALSE
  /\ run = [r \in Runners |-> NoRun]

Goes(r, steps) == run' = [run EXCEPT ![r].todo = steps, ![r].saw = <<>>]
Now(r)  == Head(run[r].todo)
Rest(r) == Tail(run[r].todo)
At(r, kinds) == run[r].pc = "work" /\ run[r].todo # <<>> /\ Now(r)[1] \in kinds

\* The job starts: SET NX EX, or the news that somebody else holds the lock.
Start(r) ==
  /\ run[r].pc = "idle"
  /\ Overlap \/ \A p \in Procs \ Runners : ~Active(p)
  /\ IF key = None
       THEN /\ key' = r
            /\ \E code \in Codes, force \in BOOLEAN :
                 run' = [run EXCEPT ![r].pc = "work", ![r].code = code, ![r].todo =
                          (IF force THEN << <<"clear">> >> ELSE <<>>) \o << <<"decide">> >>]
       ELSE /\ run' = [run EXCEPT ![r].pc = "ended"]
            /\ UNCHANGED key
  /\ cut' = (cut \/ touched # {} \/ \E p \in Procs : imp[p].pc \in {"broken", "crashed"})
  /\ UNCHANGED <<bundleVars, marker, tags, admin, serving>>

\* clearMarker, after a forced reset.
Clear(r) ==
  /\ At(r, {"clear"})
  /\ marker' = None
  /\ Goes(r, Rest(r))
  /\ UNCHANGED <<bundleVars, key, tags, admin, serving, cut>>

Decide(r) ==
  /\ At(r, {"decide"})
  /\ Goes(r, Decision(run[r].code))
  /\ UNCHANGED <<bundleVars, marker, key, tags, admin, serving, cut>>

\* maybeRestoreFromBackup: an import like any other, whose failure is caught.
Restore(r) ==
  /\ At(r, {"restore"})
  /\ IF latest = None THEN Goes(r, Rest(r)) /\ UNCHANGED imp
     ELSE /\ Begin(r, latest, {})
          /\ run' = [run EXCEPT ![r].pc = "restoring"]
  /\ UNCHANGED <<reg, history, latest, touched, budget, marker, key, tags, admin, serving, cut>>

Restored(r) ==
  /\ run[r].pc = "restoring" /\ ~Active(r)
  /\ run' = [run EXCEPT ![r].pc = "work", ![r].todo = Rest(r)]
  /\ cut' = (cut \/ imp[r].pc = "broken" \/ r \in touched)
  /\ UNCHANGED <<bundleVars, marker, key, tags, admin, serving>>

\* The check at the head of seedRbacDefaults, of seedKumaService and of each
\* turn of seedDelegation.
Check(r) ==
  /\ At(r, Composite)
  /\ Goes(r, Unfold(Now(r)) \o Rest(r))
  /\ UNCHANGED <<bundleVars, marker, key, tags, admin, serving, cut>>

Look(r) ==
  /\ At(r, Reads) /\ run[r].saw = <<>>
  /\ run' = [run EXCEPT ![r].saw = <<Seen(Now(r))>>]
  /\ UNCHANGED <<bundleVars, marker, key, tags, admin, serving, cut>>

\* The group platform-admins gets its metadata only from the run that adds it.
Do(r) ==
  /\ At(r, Written)
  /\ Now(r)[1] \in Reads => run[r].saw # <<>>
  /\ LET saw == IF Now(r)[1] \in Reads THEN run[r].saw[1] ELSE None
         new == Result(Now(r), saw, run[r].code)
         tag == IF Now(r)[1] = "platform" /\ saw = None THEN << <<"tag">> >> ELSE <<>>
     IN /\ IF new = reg THEN UNCHANGED <<reg, touched>> ELSE Writes(r, new)
        /\ Goes(r, tag \o Rest(r))
  /\ UNCHANGED <<history, latest, imp, budget, marker, key, tags, admin, serving, cut>>

\* applySystemMetadataMigration: what exists and is not yet tagged.
Tag(r) ==
  /\ At(r, {"meta", "tag"})
  /\ tags' = tags \cup (IF Now(r)[1] = "tag" THEN {"platform-admins"}
                        ELSE {n \in TaggedNames :
                                IF n \in Groups THEN reg.groups[n] # None ELSE n \in reg.services})
  /\ Goes(r, Rest(r))
  /\ UNCHANGED <<bundleVars, marker, key, admin, serving, cut>>

\* seedDefaultAdmin: an identity that exists already is as good.
SeedAdmin(r) ==
  /\ At(r, {"admin"})
  /\ admin' = TRUE
  /\ Goes(r, Rest(r))
  /\ UNCHANGED <<bundleVars, marker, key, tags, serving, cut>>

\* writeMarker and the new etag.
Mark(r) ==
  /\ At(r, {"marker"})
  /\ marker' = run[r].code /\ serving' = TRUE
  /\ Goes(r, Rest(r))
  /\ UNCHANGED <<bundleVars, key, tags, admin, cut>>

\* releaseLock: a compare and delete, in the finally of every run.
Unlock(r) ==
  /\ At(r, {"unlock"})
  /\ key' = IF key = r THEN None ELSE key
  /\ run' = [run EXCEPT ![r] = [NoRun EXCEPT !.pc = "ended"]]
  /\ UNCHANGED <<bundleVars, marker, tags, admin, serving, cut>>

\* r is inside a seed that a later run will not take up again, because its
\* check looks at the first thing the seed writes.
MidSeed(r) ==
  \/ Applying(r)
  \/ /\ \E i \in DOMAIN run[r].todo :
          run[r].todo[i][1] \in {"group", "roles", "service", "bind", "tag"}
     /\ Now(r) \notin {Head(SeedWrites), Head(KumaWrites)}

\* A step throws (Redis, Kratos): nothing is undone, the lock is released.
RunThrows(r) ==
  /\ run[r].pc = "work" /\ ~At(r, {"unlock"})
  /\ Spend("faults")
  /\ Goes(r, << <<"unlock">> >>)
  /\ cut' = (cut \/ MidSeed(r))
  /\ UNCHANGED <<reg, history, latest, imp, touched, marker, key, tags, admin, serving>>

\* The pod of the job dies, with the import it may be in.
RunDies(r) ==
  /\ Working(r)
  /\ Spend("faults")
  /\ run' = [run EXCEPT ![r] = [NoRun EXCEPT !.pc = "dead"]]
  /\ imp' = IF Active(r) THEN [imp EXCEPT ![r].pc = "crashed"] ELSE imp
  /\ cut' = (cut \/ MidSeed(r))
  /\ UNCHANGED <<reg, history, latest, touched, marker, key, tags, admin, serving>>

\* The ten minutes of the lock are over.  A live run of a job is a matter of
\* seconds, so it is a dead one that leaves its lock to this.
Lapse ==
  /\ key # None /\ run[key].pc = "dead"
  /\ key' = None
  /\ UNCHANGED <<bundleVars, marker, run, tags, admin, serving, cut>>

\* A replica serves once it has seen the marker (waitForBootstrap), also while a
\* forced run has cleared it again; and edits and imports are for an
\* administrator, whom a group must make one.
Serving == serving /\ reg.groups["super_admins"] # None

Requests(p) ==
  \/ /\ Serving /\ (Overlap \/ \A r \in Runners : ~Working(r))
     /\ Request(p)
     /\ UNCHANGED bootVars
  \/ Step(p) /\ cut' = (cut \/ (Applying(p) /\ \E r \in Runners : Working(r)))
             /\ UNCHANGED <<marker, key, run, tags, admin, serving>>
  \/ (Throw(p) \/ Crash(p)) /\ UNCHANGED bootVars

Runs(r) ==
  \/ Start(r) \/ Clear(r) \/ Decide(r) \/ Restore(r) \/ Restored(r) \/ Check(r)
  \/ Look(r) \/ Do(r) \/ Tag(r) \/ SeedAdmin(r) \/ Mark(r) \/ Unlock(r)
  \/ (Step(r) \/ Throw(r)) /\ UNCHANGED bootVars
  \/ RunThrows(r) \/ RunDies(r)

Next ==
  \/ \E p \in Procs \ Runners : Requests(p)
  \/ \E r \in Runners : Runs(r)
  \/ Serving /\ Edit /\ UNCHANGED bootVars
  \/ Lapse

Spec == Init /\ [][Next]_vars

-----------------------------------------------------------------------------
(* Properties.                                                             *)

\* Types; the history keeps to its cap.
TypeOK ==
  /\ reg \in Registry /\ latest \in Registry \cup {None}
  /\ Len(history) <= HistoryCap /\ \A i \in DOMAIN history : history[i] \in Registry
  /\ imp \in [Procs -> ImportStates] /\ touched \subseteq Procs
  /\ marker \in Codes \cup {None} /\ key \in Runners \cup {None}
  /\ tags \subseteq TaggedNames \cup {"platform-admins"}
  /\ admin \in BOOLEAN /\ serving \in BOOLEAN /\ cut \in BOOLEAN
  /\ \A r \in Runners : run[r].pc \in {"idle", "work", "restoring", "ended", "dead"}

\* What a complete installation has.
Seeded ==
  /\ {"jinbe", "kuma", "global"} \subseteq reg.services
  /\ reg.groups["super_admins"] # None /\ "super_admin" \in reg.roles["global"]
  /\ \A s \in Delegated : /\ {"admin", "viewer", "org_admin"} \subseteq reg.roles[s]
                          /\ reg.groups[ViewerOf[s]] # None /\ reg.groups[AdminOf[s]] # None
  /\ reg.groups["platform-admins"] # None
  /\ \A i \in BuiltInRules : reg.rules[i] # None
  /\ reg.maps["jinbe"] # None /\ reg.maps["kuma"] # None
  /\ admin

\* The marker, which lets the API serve, is first written on an installation
\* that has everything: after any number of runs that failed or died, restored
\* a backup or reset the marker, unless one was cut off inside a seed that
\* checks only its first write (seedRbacDefaults, seedKumaService, a restore).
MarkedIsSeeded ==
  [][marker = None /\ marker' # None /\ ~cut => Seeded]_vars

\* A run that writes what it has just read takes nothing from the operator:
\* custom rules and routes stay, a path the operator has given a permission of
\* their own gets none of the built-in ones back, groups and roles only grow.
OperatorsWordStands ==
  [][\A r \in Runners :
       run'[r] # run[r] /\ reg' # reg /\ run[r].saw # <<>> /\ run[r].saw[1] = Seen(Now(r))
       => /\ \A i \in RuleIds \ BuiltInRules : reg'.rules[i] = reg.rules[i]
          /\ \A s \in Services : reg.maps[s] # None =>
               /\ reg.maps[s] \subseteq reg'.maps[s]
               /\ \A p \in reg'.maps[s] \ reg.maps[s], q \in reg.maps[s] :
                    q[1] = p[1] => q \in BuiltInRoutes
          /\ \A g \in Groups : reg.groups[g] # None => reg.groups[g] \subseteq reg'.groups[g]
          /\ \A s \in Services : reg.roles[s] \subseteq reg'.roles[s]]_vars

\* "lock-held": "another runner is doing the work".
LockHeldMeansWorking ==
  [][\A r \in Runners : run[r].pc = "idle" /\ run'[r].pc = "ended" =>
       \E q \in Runners \ {r} : Working(q)]_vars
=============================================================================
