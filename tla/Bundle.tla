------------------------------- MODULE Bundle -------------------------------
(***************************************************************************)
(* Export, import and rollback of the whole RBAC registry.                 *)
(*                                                                         *)
(* An export reads the registry in two rounds, the names first and then    *)
(* the keys of each service, so another writer can tear it.  An import     *)
(* keeps such a snapshot in the history, then writes the bundle key by key *)
(* with no lock and no transaction; when a write throws, the snapshot is   *)
(* applied in the same way.  A rollback is a full import of an entry of    *)
(* the history, and the backup of a bundle is an export alone.             *)
(*                                                                         *)
(* Of a role set the names are kept, of a group the services it binds, of  *)
(* a route map its <<path, permission>> pairs, of a rule who wrote it.     *)
(***************************************************************************)
EXTENDS Naturals, Sequences, FiniteSets

CONSTANTS
  Procs,         \* the requests, and the bootstrap runs that restore
  Services,      \* with "global", which has roles and is a service as well
  Groups, Orgs, RuleIds, Pairs, RoleNames, Writers,
  DefaultRoles,  \* the names that defaultServiceRoles gives
  Loadable,      \* the writers whose rules pass the schema and handler checks
  Uploads,       \* the bundles a client may upload
  Asked,         \* the values of ?sections= ({} when it is omitted)
  Own,           \* the edits other requests make, as changes of a registry
  HistoryCap,
  MaxImports, MaxEdits, MaxFaults, MaxEvents,   \* of each, and altogether
  None

VARIABLES
  reg,       \* the registry in Redis
  history,   \* rbac:import:history, newest first
  latest,    \* latest.json in the backup bucket
  imp,       \* imp[p]: how far the import, rollback or backup of p is
  touched,   \* history: imports beside which somebody else wrote the registry
  budget     \* imports, edits and faults yet to come

bundleVars == <<reg, history, latest, imp, touched, budget>>

Sections == {"services", "groups", "roles", "routeMaps", "oathkeeperRules", "orgServiceMap"}
Stages == <<"services", "prune", "dropKeys", "pruneGroups", "groups", "roles",
            "defaults", "routeMaps", "oathkeeperRules", "orgServiceMap">>

Registry ==
  [services : SUBSET Services,
   groups   : [Groups -> (SUBSET Services) \cup {None}],
   roles    : [Services -> SUBSET RoleNames],      \* {}: no such key
   maps     : [Services -> (SUBSET Pairs) \cup {None}],
   rules    : [RuleIds -> Writers \cup {None}],
   orgs     : [Orgs -> SUBSET Services]]           \* {}: not mapped

Empty ==
  [services |-> {}, groups |-> [g \in Groups |-> None], roles |-> [s \in Services |-> {}],
   maps |-> [s \in Services |-> None], rules |-> [i \in RuleIds |-> None],
   orgs |-> [o \in Orgs |-> {}]]

Changes ==
  [kind : {"group"}, at : Groups, to : (SUBSET Services) \cup {None}]
    \cup [kind : {"rule"}, at : RuleIds, to : Writers \cup {None}]
    \cup [kind : {"map"}, at : Services, to : (SUBSET Pairs) \cup {None}]

ASSUME BundleAssumption ==
  /\ IsFiniteSet(Procs) /\ None \notin Procs /\ HistoryCap \in Nat
  /\ "global" \in Services /\ DefaultRoles \subseteq RoleNames
  /\ Uploads \subseteq Registry /\ Own \subseteq Changes
  /\ {} \in Asked         \* a rollback asks for everything

Busy == {"names", "keys", "push", "apply", "undo", "publish", "put"}
NoImport == [pc |-> "idle", asked |-> {}, bundle |-> None, snap |-> None, base |-> None,
             seen |-> {}, at |-> 0, todo |-> {}]
ImportStates ==
  [pc     : Busy \cup {"idle", "done", "failed", "broken", "crashed"},
   asked  : Asked,
   bundle : Registry \cup {None},   \* what is being applied
   snap   : Registry \cup {None},   \* what the export of p has read
   base   : Registry \cup {None},   \* history: the registry when p began
   seen   : SUBSET Services,        \* existingServices
   at     : 0 .. Len(Stages),       \* the stage p is in, and its writes to come
   todo   : SUBSET (Groups \cup Services \cup Orgs \cup {"all"})]

Active(p) == imp[p].pc \in Busy

\* p writes the registry: beside it stand the imports under way, and those that
\* died or gave up half-way.
Writes(p, r) ==
  /\ reg' = r
  /\ touched' = touched \cup {q \in Procs \ {p} : imp[q].pc \notin {"idle", "done", "failed"}}

Spend(what) ==
  /\ budget[what] > 0 /\ budget.events > 0
  /\ budget' = [budget EXCEPT ![what] = @ - 1, !.events = @ - 1]
GoTo(p, pc) == imp' = [imp EXCEPT ![p].pc = pc]
End(p, pc)  == imp' = [imp EXCEPT ![p] = [NoImport EXCEPT !.pc = pc]]

-----------------------------------------------------------------------------
(* Export.                                                                 *)

\* getServices, getGroups, getAccessRules and getOrgServiceMap, in parallel.
Names(r) == [Empty EXCEPT !.services = r.services, !.groups = r.groups,
                          !.rules = r.rules, !.orgs = r.orgs]

\* The bug of an exporter that reads no route maps.
WithRolesOnly(e, r) ==
  [e EXCEPT !.roles = [s \in Services |-> IF s \in e.services THEN r.roles[s] ELSE {}]]

\* The roles and route maps of the services that the first round has read.
WithKeys(e, r) ==
  [e EXCEPT
     !.roles = [s \in Services |-> IF s \in e.services \cup {"global"} THEN r.roles[s] ELSE {}],
     !.maps  = [s \in Services |-> IF s \in e.services THEN r.maps[s] ELSE None]]

ReadNames(p) ==
  /\ imp[p].pc = "names"
  /\ imp' = [imp EXCEPT ![p].pc = "keys", ![p].snap = Names(reg)]
  /\ UNCHANGED <<reg, history, latest, touched, budget>>

ReadKeys(p) ==
  /\ imp[p].pc = "keys"
  /\ imp' = [imp EXCEPT ![p].pc = IF imp[p].bundle = None THEN "put" ELSE "push",
                        ![p].snap = WithKeys(@, reg)]
  /\ UNCHANGED <<reg, history, latest, touched, budget>>

\* putBackup; and a scheduled or requested backup is the export and this.
Put(p) ==
  /\ imp[p].pc = "put"
  /\ latest' = imp[p].snap
  /\ End(p, "done")
  /\ UNCHANGED <<reg, history, touched, budget>>

-----------------------------------------------------------------------------
(* Import.                                                                 *)

\* Unknown names are dropped; nothing left reads like nothing asked.
Wanted(asked) == LET known == asked \cap Sections IN IF known = {} THEN Sections ELSE known
Full(asked)   == Wanted(asked) = Sections

Valid(b, asked) ==
  "oathkeeperRules" \in Wanted(asked) => \A i \in RuleIds : b.rules[i] \in Loadable \cup {None}

Begun(b, asked) ==
  IF b # None /\ ~Valid(b, asked) THEN [NoImport EXCEPT !.pc = "failed"]
  ELSE [NoImport EXCEPT !.pc = "names", !.asked = asked, !.bundle = b, !.base = reg]

\* p starts to import b; with b = None, it only exports.
Begin(p, b, asked) ==
  /\ imp[p].pc = "idle"
  /\ imp' = [imp EXCEPT ![p] = Begun(b, asked)]

Request(p) ==
  /\ Spend("imports")
  /\ \/ \E b \in Uploads, asked \in Asked : Begin(p, b, asked)
     \/ \E i \in DOMAIN history : Begin(p, history[i], {})          \* rollback
     \/ latest # None /\ Begin(p, latest, {})                       \* restore
     \/ Begin(p, None, {})                                          \* backup
  /\ UNCHANGED <<reg, history, latest, touched>>

\* The bug of a history that is never trimmed, and LTRIM.
Untrimmed(h) == h
Trimmed(h) == IF Len(h) > HistoryCap THEN SubSeq(h, 1, HistoryCap) ELSE h

Push(p) ==
  /\ imp[p].pc = "push"
  /\ history' = Trimmed(<<imp[p].snap>> \o history)
  /\ imp' = [imp EXCEPT ![p].pc = "apply", ![p].seen = reg.services]
  /\ UNCHANGED <<reg, latest, touched, budget>>

\* The compensation applies the snapshot as a full bundle, whatever was asked.
Applied(p) == IF imp[p].pc = "undo" THEN {} ELSE imp[p].asked
Orphans(p) == imp[p].seen \ imp[p].bundle.services

\* The bug of a full import that leaves groups behind, and the groups it removes.
NoneAbsent(b) == {}
Absent(b) == {g \in Groups : reg.groups[g] # None /\ b.groups[g] = None}

\* The keys a stage writes, once it begins.
Keys(p, stage) ==
  LET b     == imp[p].bundle
      want  == Wanted(Applied(p))
      prune == Full(Applied(p))
      When(cond, keys) == IF cond THEN keys ELSE {}
  IN CASE stage = "services"    -> When("services" \in want /\ b.services # {}, {"all"})
       [] stage \in {"prune", "dropKeys"} -> When(prune /\ Orphans(p) # {}, {"all"})
       [] stage = "pruneGroups" -> When(prune, Absent(b))
       [] stage = "groups"      -> When("groups" \in want, {g \in Groups : b.groups[g] # None})
       [] stage = "roles"       -> When("roles" \in want, {s \in Services : b.roles[s] # {}})
       [] stage = "defaults"    -> When({"roles", "services"} \subseteq want,
                                        {s \in b.services : b.roles[s] = {}})
       [] stage = "routeMaps"   -> When("routeMaps" \in want, {s \in Services : b.maps[s] # None})
       [] stage = "oathkeeperRules" -> When("oathkeeperRules" \in want, {"all"})
       [] stage = "orgServiceMap" -> When("orgServiceMap" \in want, {o \in Orgs : b.orgs[o] # {}})

Defaulted(s) == IF s = "global" THEN {} ELSE DefaultRoles

\* The registry after p has written key k of a stage.  The services are added,
\* and the orphans removed, in one batch of commands.
Effect(p, stage, k) ==
  LET b == imp[p].bundle
      Kept(f, v) == [s \in Services |-> IF s \in Orphans(p) THEN v ELSE f[s]]
  IN CASE stage = "services"    -> [reg EXCEPT !.services = @ \cup b.services]
       [] stage = "prune"       -> [reg EXCEPT !.services = @ \ Orphans(p)]
       [] stage = "dropKeys"    -> [reg EXCEPT !.roles = Kept(@, {}), !.maps = Kept(@, None)]
       [] stage = "pruneGroups" -> [reg EXCEPT !.groups[k] = None]
       [] stage = "groups"      -> [reg EXCEPT !.groups[k] = b.groups[k]]
       [] stage = "roles"       -> [reg EXCEPT !.roles[k] = b.roles[k] \cup Defaulted(k)]
       [] stage = "defaults"    -> [reg EXCEPT !.roles[k] = DefaultRoles]
       [] stage = "routeMaps"   -> [reg EXCEPT !.maps[k] = b.maps[k]]
       [] stage = "oathkeeperRules" -> [reg EXCEPT !.rules = b.rules]
       [] stage = "orgServiceMap" -> [reg EXCEPT !.orgs[k] = b.orgs[k]]

Applying(p) == imp[p].pc \in {"apply", "undo"}

\* The first later stage with something to write; or the end, which publishes
\* an import and reports a failed one.
NextStage(p) ==
  /\ Applying(p) /\ imp[p].todo = {}
  /\ LET ahead == {n \in imp[p].at + 1 .. Len(Stages) : Keys(p, Stages[n]) # {}}
         next  == CHOOSE n \in ahead : \A m \in ahead : n <= m
     IN IF ahead # {}
          THEN imp' = [imp EXCEPT ![p].at = next, ![p].todo = Keys(p, Stages[next])]
          ELSE IF imp[p].pc = "apply" THEN GoTo(p, "publish") ELSE End(p, "failed")
  /\ UNCHANGED <<reg, history, latest, touched, budget>>

\* One key after the other, in the order the bundle lists them.
Write(p) ==
  /\ Applying(p) /\ imp[p].todo # {}
  /\ LET k == CHOOSE x \in imp[p].todo : TRUE
     IN /\ Writes(p, Effect(p, Stages[imp[p].at], k))
        /\ imp' = [imp EXCEPT ![p].todo = @ \ {k}]
  /\ UNCHANGED <<history, latest, budget>>

\* invalidateBundle: the new etag.
Publish(p) ==
  /\ imp[p].pc = "publish"
  /\ End(p, "done")
  /\ UNCHANGED <<reg, history, latest, touched, budget>>

\* A Redis call throws: before the first write the import just fails, within
\* the writes it turns to the snapshot, and within those it gives up.
Throw(p) ==
  /\ Active(p)
  /\ Spend("faults")
  /\ IF imp[p].pc = "apply"
       THEN imp' = [imp EXCEPT ![p].pc = "undo", ![p].bundle = imp[p].snap,
                               ![p].seen = reg.services, ![p].at = 0, ![p].todo = {}]
       ELSE IF imp[p].pc = "undo" THEN GoTo(p, "broken") ELSE End(p, "failed")
  /\ UNCHANGED <<reg, history, latest, touched>>

\* The process of p dies.
Crash(p) ==
  /\ Active(p)
  /\ Spend("faults")
  /\ GoTo(p, "crashed")
  /\ UNCHANGED <<reg, history, latest, touched>>

\* Another request changes one key.
Edit ==
  /\ Spend("edits")
  /\ \E e \in Own :
       Writes(None, CASE e.kind = "group" -> [reg EXCEPT !.groups[e.at] = e.to]
                      [] e.kind = "rule"  -> [reg EXCEPT !.rules[e.at] = e.to]
                      [] e.kind = "map"   -> [reg EXCEPT !.maps[e.at] = e.to])
  /\ UNCHANGED <<history, latest, imp>>

\* What a process does with an import once it has begun.
Step(p) ==
  \/ ReadNames(p) \/ ReadKeys(p) \/ Put(p) \/ Push(p)
  \/ NextStage(p) \/ Write(p) \/ Publish(p)

-----------------------------------------------------------------------------
(* Properties.                                                             *)

\* A full import that nobody wrote beside leaves exactly the bundle's services,
\* groups and rules, the roles of the bundle and the defaults, the route maps
\* of the bundle, and of a service that is gone no key that the bundle does not
\* have ("True 1:1 restore").
RestoreIsExact ==
  \A p \in Procs :
    imp[p].pc = "publish" /\ Full(imp[p].asked) /\ p \notin touched =>
      LET b == imp[p].bundle
      IN /\ <<reg.services, reg.groups, reg.rules>> = <<b.services, b.groups, b.rules>>
         /\ \A s \in (b.services \cup imp[p].seen) \ {"global"} :
              LET gone == s \notin b.services
              IN /\ reg.roles[s] = IF gone /\ b.roles[s] = {} THEN {} ELSE b.roles[s] \cup DefaultRoles
                 /\ gone \/ b.maps[s] # None => reg.maps[s] = b.maps[s]

\* The imports that may have pushed to the history.
Beyond == {q \in Procs : imp[q].pc \notin {"idle", "names", "keys", "push"}}

\* As long as an import may have written, also when it has died half-way, the
\* history holds the registry as it found it (import: "BEFORE any write so a
\* partial failure and any later regret both have a full restore point").  The
\* list is capped, and a push evicts whatever becomes of the import that made it.
RestorePointKept ==
  \A p \in Procs :
    /\ imp[p].pc \in {"apply", "undo", "publish", "broken", "crashed"}
    /\ reg # imp[p].base
    /\ p \notin touched
    /\ Cardinality(Beyond) <= HistoryCap
    => \E i \in DOMAIN history :
         LET h == history[i]
             was == imp[p].base
         IN /\ <<h.services, h.groups, h.rules, h.orgs>>
                 = <<was.services, was.groups, was.rules, was.orgs>>
            /\ \A s \in was.services : h.roles[s] = was.roles[s] /\ h.maps[s] = was.maps[s]

\* "A selective import overrides/adds the chosen sections and NEVER prunes
\* anything outside them."
SelectivePrunesNothing ==
  [][\A p \in Procs :
       imp[p].asked # {} /\ Applying(p) /\ imp'[p].todo # imp[p].todo =>
         /\ reg.services \subseteq reg'.services
         /\ \A g \in Groups : reg.groups[g] # None => reg'.groups[g] # None]_bundleVars
=============================================================================
