--------------------------- MODULE Bootstrap_proofs ---------------------------
(***************************************************************************)
(* Proofs about Bundle and Bootstrap: type correctness, what an import     *)
(* leaves, what the history keeps, and what a seed may not take, for any   *)
(* number of imports and runs, and any registries, bundles and edits.      *)
(***************************************************************************)
EXTENDS Bootstrap, FiniteSetTheorems, TLAPS

-----------------------------------------------------------------------------
(* The invariant of an import.                                             *)

\* What a stage of an import of b may write.
Aim(b, stage) ==
  CASE stage = "pruneGroups" -> {g \in Groups : b.groups[g] = None}
    [] stage = "groups"      -> {g \in Groups : b.groups[g] # None}
    [] stage = "roles"       -> {s \in Services : b.roles[s] # {}}
    [] stage = "defaults"    -> {s \in b.services : b.roles[s] = {}}
    [] stage = "routeMaps"   -> {s \in Services : b.maps[s] # None}
    [] stage = "orgServiceMap" -> Orgs
    [] OTHER -> {"all"}

ImportTyped(p) ==
  /\ imp[p] \in ImportStates
  /\ imp[p].pc \notin {"idle", "done", "failed"} => imp[p].base \in Registry
  /\ imp[p].pc \in {"keys", "push", "put", "apply", "undo"} => imp[p].snap \in Registry
  /\ imp[p].pc \in {"push", "apply", "undo", "publish"} => imp[p].bundle \in Registry
  /\ imp[p].pc \in {"names", "keys", "push"} => imp[p].at = 0 /\ imp[p].todo = {}
  /\ Applying(p) => IF imp[p].at = 0 THEN imp[p].todo = {}
                     ELSE imp[p].todo \subseteq Aim(imp[p].bundle, Stages[imp[p].at])

\* The key k of stage n is written, or was nothing to write.
Passed(p, n, k) ==
  \/ imp[p].pc = "publish"
  \/ n < imp[p].at
  \/ n = imp[p].at /\ k \notin imp[p].todo

\* The roles of a service once the roles of b are written.
Stored(b, s) == b.roles[s] \cup Defaulted(s)

\* How far a full import has brought the registry.
ServicesDone(p) ==
  LET b == imp[p].bundle
  IN /\ reg.services \subseteq imp[p].seen \cup b.services
     /\ Passed(p, 1, "all") => b.services \subseteq reg.services
     /\ Passed(p, 2, "all") => reg.services \cap Orphans(p) = {}
OrphansDone(p) ==
  Passed(p, 3, "all") =>
    \A s \in Orphans(p) : /\ imp[p].bundle.roles[s] = {} => reg.roles[s] = {}
                          /\ imp[p].bundle.maps[s] = None => reg.maps[s] = None
GroupsDone(p) ==
  \A g \in Groups :
    /\ Passed(p, 4, g) /\ imp[p].bundle.groups[g] = None => reg.groups[g] = None
    /\ Passed(p, 5, g) /\ imp[p].bundle.groups[g] # None => reg.groups[g] = imp[p].bundle.groups[g]
KeysDone(p) ==
  \A s \in Services :
    LET b == imp[p].bundle
    IN /\ Passed(p, 6, s) /\ b.roles[s] # {} => reg.roles[s] = Stored(b, s)
       /\ Passed(p, 7, s) /\ b.roles[s] = {} /\ s \in b.services => reg.roles[s] = DefaultRoles
       /\ Passed(p, 8, s) /\ b.maps[s] # None => reg.maps[s] = b.maps[s]
RulesDone(p) == Passed(p, 9, "all") => reg.rules = imp[p].bundle.rules

Restoring(p) == imp[p].pc \in {"apply", "publish"} /\ Full(imp[p].asked) /\ p \notin touched
Done(p) == Restoring(p) => /\ ServicesDone(p) /\ OrphansDone(p) /\ GroupsDone(p)
                           /\ KeysDone(p) /\ RulesDone(p)

\* What p has read is what it found, and once pushed it is in the history, no
\* further down than there are imports to have pushed.
Export(r) == WithKeys(Names(r), r)
InHistory(p) ==
  \E i \in 1 .. Len(history) : i <= Cardinality(Beyond) /\ history[i] = Export(imp[p].base)
Found(p) ==
  p \notin touched =>
    /\ imp[p].pc \in {"names", "keys", "push", "put"} => reg = imp[p].base
    /\ imp[p].pc = "keys" => imp[p].snap = Names(imp[p].base)
    /\ imp[p].pc \in {"push", "put"} => imp[p].snap = Export(imp[p].base)
    /\ Cardinality(Beyond) <= HistoryCap =>
         /\ imp[p].pc \in {"apply", "undo", "publish", "broken"} => InHistory(p)
         /\ imp[p].pc = "crashed" => reg = imp[p].base \/ InHistory(p)

\* The state the imports share.
SharedTyped ==
  /\ reg \in Registry /\ latest \in Registry \cup {None}
  /\ history \in Seq(Registry) /\ Len(history) <= HistoryCap
  /\ touched \subseteq Procs

-----------------------------------------------------------------------------
(* The invariant of a run.                                                 *)

Words == {"clear", "decide", "restore", "seed", "kuma", "kumaMap", "rules", "routes",
          "meta", "tag", "platform", "admin", "marker", "unlock"}
WordSteps   == {<<word>> : word \in Words}
NameSteps   == {"service"} \X Services \cup {"bind"} \X Groups \cup {"delegate", "orgAdmin"} \X Delegated
GroupSteps  == {"group", "ensure"} \X Groups \X SUBSET Services
RoleSteps   == {"roles"} \X Services \X SUBSET RoleNames
RunSteps    == WordSteps \cup NameSteps \cup GroupSteps \cup RoleSteps

\* What a step that reads may have seen.
Views(step) ==
  IF step[1] \in {"bind", "ensure", "platform"} THEN (SUBSET Services) \cup {None}
  ELSE IF step[1] \in {"kumaMap", "routes"} THEN (SUBSET Pairs) \cup {None}
  ELSE IF step[1] = "rules" THEN [RuleIds -> Writers \cup {None}]
  ELSE SUBSET RoleNames
AllViews == (SUBSET Services) \cup (SUBSET Pairs) \cup {None}
              \cup [RuleIds -> Writers \cup {None}] \cup SUBSET RoleNames

RunStates ==
  [pc   : {"idle", "work", "restoring", "ended", "dead"},
   code : Codes \cup {None},
   todo : Seq(RunSteps),
   saw  : {<<>>} \cup {<<v>> : v \in AllViews}]

RunTyped(r) ==
  /\ run[r] \in RunStates
  /\ Working(r) => run[r].code \in Codes
  /\ run[r].pc = "restoring" => run[r].todo # <<>>
  /\ run[r].saw # <<>> =>
       /\ run[r].pc = "work" /\ run[r].todo # <<>>
       /\ Now(r)[1] \in Reads /\ run[r].saw[1] \in Views(Now(r))
  /\ Active(r) => run[r].pc = "restoring"
  /\ imp[r].pc = "crashed" => run[r].pc = "dead"

JobTyped ==
  /\ marker \in Codes \cup {None} /\ key \in Runners \cup {None}
  /\ tags \subseteq TaggedNames \cup {"platform-admins"}
  /\ admin \in BOOLEAN /\ serving \in BOOLEAN /\ cut \in BOOLEAN

ImportsTyped ==
  SharedTyped /\ imp \in [Procs -> ImportStates] /\ \A p \in Procs : ImportTyped(p)
RunsTyped == run \in [Runners -> RunStates] /\ \A r \in Runners : RunTyped(r)

Typed == ImportsTyped /\ JobTyped /\ RunsTyped

-----------------------------------------------------------------------------
(* The registry, and what a stage of an import makes of it.                *)

LEMMA StageNames ==
  /\ Len(Stages) = 10
  /\ Stages[1] = "services" /\ Stages[2] = "prune" /\ Stages[3] = "dropKeys"
  /\ Stages[4] = "pruneGroups" /\ Stages[5] = "groups" /\ Stages[6] = "roles"
  /\ Stages[7] = "defaults" /\ Stages[8] = "routeMaps" /\ Stages[9] = "oathkeeperRules"
  /\ Stages[10] = "orgServiceMap"
BY DEF Stages

LEMMA ReadsAreTyped ==
  ASSUME NEW r \in Registry
  PROVE  /\ Names(r) \in Registry
         /\ \A e \in Registry : WithKeys(e, r) \in Registry
         /\ Export(r) \in Registry
<1>1. Empty \in Registry
  BY DEF Empty, Registry
<1>2. Names(r) \in Registry
  BY <1>1 DEF Names, Registry
<1>3. \A e \in Registry : WithKeys(e, r) \in Registry
  BY DEF WithKeys, Registry
<1>. QED  BY <1>2, <1>3 DEF Export

LEMMA KeysAreAimed ==
  ASSUME NEW p, NEW n \in 1 .. Len(Stages)
  PROVE  Keys(p, Stages[n]) \subseteq Aim(imp[p].bundle, Stages[n])
<1>1. CASE n = 1   BY <1>1, StageNames DEF Keys, Aim
<1>2. CASE n = 2   BY <1>2, StageNames DEF Keys, Aim
<1>3. CASE n = 3   BY <1>3, StageNames DEF Keys, Aim
<1>4. CASE n = 4   BY <1>4, StageNames DEF Keys, Aim, Absent
<1>5. CASE n = 5   BY <1>5, StageNames DEF Keys, Aim
<1>6. CASE n = 6   BY <1>6, StageNames DEF Keys, Aim
<1>7. CASE n = 7   BY <1>7, StageNames DEF Keys, Aim
<1>8. CASE n = 8   BY <1>8, StageNames DEF Keys, Aim
<1>9. CASE n = 9   BY <1>9, StageNames DEF Keys, Aim
<1>10. CASE n = 10 BY <1>10, StageNames DEF Keys, Aim
<1>. QED
  BY <1>1, <1>2, <1>3, <1>4, <1>5, <1>6, <1>7, <1>8, <1>9, <1>10, StageNames

LEMMA AimsAreTyped ==
  ASSUME NEW b \in Registry, NEW n \in 1 .. Len(Stages)
  PROVE  Aim(b, Stages[n]) \subseteq Groups \cup Services \cup Orgs \cup {"all"}
BY DEF Aim, Registry

LEMMA EffectsAreTyped ==
  ASSUME NEW p, reg \in Registry, imp[p].bundle \in Registry,
         NEW n \in 1 .. Len(Stages), NEW k \in Aim(imp[p].bundle, Stages[n])
  PROVE  Effect(p, Stages[n], k) \in Registry
<1>. DEFINE b == imp[p].bundle
<1>0. /\ b \in Registry /\ reg \in Registry
      /\ \A s \in Services : Defaulted(s) \subseteq RoleNames
      /\ DefaultRoles \subseteq RoleNames
  BY BundleAssumption DEF Defaulted
<1>1. CASE n = 1
  <2>1. Effect(p, Stages[n], k) = [reg EXCEPT !.services = @ \cup b.services]
    BY <1>1, StageNames DEF Effect
  <2>. QED  BY <1>0, <2>1 DEF Registry
<1>2. CASE n = 2
  <2>1. Effect(p, Stages[n], k) = [reg EXCEPT !.services = @ \ Orphans(p)]
    BY <1>2, StageNames DEF Effect
  <2>. QED  BY <1>0, <2>1 DEF Registry
<1>3. CASE n = 3
  <2>. DEFINE roles == [s \in Services |-> IF s \in Orphans(p) THEN {} ELSE reg.roles[s]]
              maps  == [s \in Services |-> IF s \in Orphans(p) THEN None ELSE reg.maps[s]]
  <2>1. Effect(p, Stages[n], k) = [reg EXCEPT !.roles = roles, !.maps = maps]
    BY <1>3, StageNames DEF Effect
  <2>2. roles \in [Services -> SUBSET RoleNames]  BY <1>0 DEF Registry
  <2>3. maps \in [Services -> (SUBSET Pairs) \cup {None}]  BY <1>0 DEF Registry
  <2>. HIDE DEF roles, maps
  <2>. QED  BY <1>0, <2>1, <2>2, <2>3 DEF Registry
<1>4. CASE n = 4
  <2>1. Effect(p, Stages[n], k) = [reg EXCEPT !.groups[k] = None]
    BY <1>4, StageNames DEF Effect
  <2>2. k \in Groups  BY <1>4, StageNames DEF Aim
  <2>. QED  BY <1>0, <2>1, <2>2 DEF Registry
<1>5. CASE n = 5
  <2>1. Effect(p, Stages[n], k) = [reg EXCEPT !.groups[k] = b.groups[k]]
    BY <1>5, StageNames DEF Effect
  <2>2. k \in Groups  BY <1>5, StageNames DEF Aim
  <2>. QED  BY <1>0, <2>1, <2>2 DEF Registry
<1>6. CASE n = 6
  <2>1. Effect(p, Stages[n], k) = [reg EXCEPT !.roles[k] = b.roles[k] \cup Defaulted(k)]
    BY <1>6, StageNames DEF Effect
  <2>2. k \in Services  BY <1>6, StageNames DEF Aim
  <2>3. b.roles[k] \cup Defaulted(k) \subseteq RoleNames  BY <1>0, <2>2 DEF Registry
  <2>. QED  BY <1>0, <2>1, <2>2, <2>3 DEF Registry
<1>7. CASE n = 7
  <2>1. Effect(p, Stages[n], k) = [reg EXCEPT !.roles[k] = DefaultRoles]
    BY <1>7, StageNames DEF Effect
  <2>2. k \in Services  BY <1>0, <1>7, StageNames DEF Registry, Aim
  <2>. QED  BY <1>0, <2>1, <2>2 DEF Registry
<1>8. CASE n = 8
  <2>1. Effect(p, Stages[n], k) = [reg EXCEPT !.maps[k] = b.maps[k]]
    BY <1>8, StageNames DEF Effect
  <2>2. k \in Services  BY <1>8, StageNames DEF Aim
  <2>3. [reg.maps EXCEPT ![k] = b.maps[k]] \in [Services -> (SUBSET Pairs) \cup {None}]
    BY <1>0, <2>2 DEF Registry
  <2>. QED  BY <1>0, <2>1, <2>3 DEF Registry
<1>9. CASE n = 9
  <2>1. Effect(p, Stages[n], k) = [reg EXCEPT !.rules = b.rules]
    BY <1>9, StageNames DEF Effect
  <2>. QED  BY <1>0, <2>1 DEF Registry
<1>10. CASE n = 10
  <2>1. Effect(p, Stages[n], k) = [reg EXCEPT !.orgs[k] = b.orgs[k]]
    BY <1>10, StageNames DEF Effect
  <2>2. k \in Orgs  BY <1>10, StageNames DEF Aim
  <2>3. [reg.orgs EXCEPT ![k] = b.orgs[k]] \in [Orgs -> SUBSET Services]
    BY <1>0, <2>2 DEF Registry
  <2>. QED  BY <1>0, <2>1, <2>3 DEF Registry
<1>. QED
  BY <1>1, <1>2, <1>3, <1>4, <1>5, <1>6, <1>7, <1>8, <1>9, <1>10, StageNames

-----------------------------------------------------------------------------
(* Types: the steps of an import.                                          *)

\* One import moves, the others stay as they are.
Moves(p, new) == imp' = [imp EXCEPT ![p] = new]

LEMMA MovingKeepsTypes ==
  ASSUME imp \in [Procs -> ImportStates], \A q \in Procs : ImportTyped(q),
         NEW p \in Procs, NEW new \in ImportStates, Moves(p, new), ImportTyped(p)'
  PROVE  imp' \in [Procs -> ImportStates] /\ \A q \in Procs : ImportTyped(q)'
<1>1. imp' \in [Procs -> ImportStates]
  BY DEF Moves
<1>2. \A q \in Procs \ {p} : imp'[q] = imp[q]
  BY DEF Moves
<1>3. \A q \in Procs \ {p} : ImportTyped(q)'
  BY <1>2 DEF ImportTyped, Applying
<1>. QED  BY <1>1, <1>3

LEMMA NoImportIsTyped ==
  ASSUME NEW pc \in {"idle", "done", "failed"}
  PROVE  [NoImport EXCEPT !.pc = pc] \in ImportStates
<1>1. {} \in Asked  BY BundleAssumption
<1>. QED  BY <1>1, StageNames DEF NoImport, ImportStates, Busy

LEMMA EndKeepsTypes ==
  ASSUME ImportsTyped, NEW p \in Procs, NEW pc \in {"done", "failed"}, End(p, pc)
  PROVE  imp' \in [Procs -> ImportStates] /\ \A q \in Procs : ImportTyped(q)'
<1>. DEFINE new == [NoImport EXCEPT !.pc = pc]
<1>1. Moves(p, new) /\ new \in ImportStates /\ imp'[p] = new
  BY NoImportIsTyped DEF End, Moves, ImportsTyped
<1>2. new.pc = pc
  BY DEF NoImport
<1>3. ImportTyped(p)'
  BY <1>1, <1>2 DEF ImportTyped, Applying, Busy
<1>. QED  BY <1>1, <1>3, MovingKeepsTypes DEF ImportsTyped

LEMMA GoKeepsTypes ==
  ASSUME ImportsTyped, NEW p \in Procs, NEW pc \in {"publish", "broken", "crashed"}, GoTo(p, pc),
         imp[p].pc \in Busy, pc = "publish" => imp[p].pc = "apply"
  PROVE  imp' \in [Procs -> ImportStates] /\ \A q \in Procs : ImportTyped(q)'
<1>. DEFINE new == [imp[p] EXCEPT !.pc = pc]
<1>0. imp[p] \in ImportStates /\ ImportTyped(p)
  BY DEF ImportsTyped
<1>1. new \in ImportStates /\ new.pc = pc /\ new.base = imp[p].base /\ new.bundle = imp[p].bundle
  BY <1>0 DEF ImportStates, Busy
<1>2. Moves(p, new) /\ imp'[p] = new
  BY DEF GoTo, Moves, ImportsTyped
<1>3. ImportTyped(p)'
  BY <1>0, <1>1, <1>2 DEF ImportTyped, Applying, Busy
<1>. QED  BY <1>1, <1>2, <1>3, MovingKeepsTypes DEF ImportsTyped

LEMMA BeginKeepsTypes ==
  ASSUME ImportsTyped, NEW p \in Procs, NEW b \in Registry \cup {None}, NEW asked \in Asked,
         Begin(p, b, asked)
  PROVE  imp' \in [Procs -> ImportStates] /\ \A q \in Procs : ImportTyped(q)'
<1>1. CASE b # None /\ ~Valid(b, asked)
  <2>1. End(p, "failed")  BY <1>1 DEF Begin, Begun, End
  <2>. QED  BY <2>1, EndKeepsTypes
<1>2. CASE ~(b # None /\ ~Valid(b, asked))
  <2>. DEFINE new == [NoImport EXCEPT !.pc = "names", !.asked = asked, !.bundle = b, !.base = reg]
  <2>1. Moves(p, new) /\ imp'[p] = new
    BY <1>2 DEF Begin, Begun, Moves, ImportsTyped
  <2>2. reg \in Registry
    BY DEF ImportsTyped, SharedTyped
  <2>3. /\ new \in ImportStates /\ new.pc = "names" /\ new.base = reg
        /\ new.at = 0 /\ new.todo = {}
    <3>1. NoImport \in ImportStates /\ NoImport.at = 0 /\ NoImport.todo = {}
      BY NoImportIsTyped DEF NoImport
    <3>. QED  BY <2>2, <3>1 DEF ImportStates, Busy
  <2>4. ImportTyped(p)'
    BY <2>1, <2>2, <2>3 DEF ImportTyped, Applying
  <2>. QED  BY <2>1, <2>3, <2>4, MovingKeepsTypes DEF ImportsTyped
<1>. QED  BY <1>1, <1>2

LEMMA ReadNamesKeepsTypes ==
  ASSUME ImportsTyped, NEW p \in Procs, ReadNames(p)
  PROVE  ImportsTyped'
<1>. DEFINE new == [imp[p] EXCEPT !.pc = "keys", !.snap = Names(reg)]
<1>0. imp[p] \in ImportStates /\ ImportTyped(p) /\ reg \in Registry /\ imp[p].pc = "names"
  BY DEF ImportsTyped, SharedTyped, ReadNames
<1>1. Names(reg) \in Registry
  BY <1>0, ReadsAreTyped
<1>2. /\ new \in ImportStates /\ new.pc = "keys" /\ new.snap \in Registry /\ new.base = imp[p].base
      /\ new.at = imp[p].at /\ new.todo = imp[p].todo
  BY <1>0, <1>1 DEF ImportStates, Busy
<1>3. Moves(p, new) /\ imp'[p] = new
  BY DEF ReadNames, Moves, ImportsTyped
<1>4. ImportTyped(p)'
  BY <1>0, <1>2, <1>3 DEF ImportTyped, Applying
<1>5. SharedTyped'
  BY DEF ImportsTyped, SharedTyped, ReadNames
<1>. QED  BY <1>2, <1>3, <1>4, <1>5, MovingKeepsTypes DEF ImportsTyped

LEMMA ReadKeysKeepsTypes ==
  ASSUME ImportsTyped, NEW p \in Procs, ReadKeys(p)
  PROVE  ImportsTyped'
<1>. DEFINE pc == IF imp[p].bundle = None THEN "put" ELSE "push"
            new == [imp[p] EXCEPT !.pc = pc, !.snap = WithKeys(imp[p].snap, reg)]
<1>0. /\ imp[p] \in ImportStates /\ ImportTyped(p) /\ reg \in Registry
      /\ imp[p].pc = "keys" /\ imp[p].snap \in Registry
  BY DEF ImportsTyped, SharedTyped, ReadKeys, ImportTyped
<1>1. WithKeys(imp[p].snap, reg) \in Registry
  BY <1>0, ReadsAreTyped
<1>2. /\ new \in ImportStates /\ new.pc = pc /\ new.snap \in Registry
      /\ new.base = imp[p].base /\ new.bundle = imp[p].bundle
      /\ new.at = imp[p].at /\ new.todo = imp[p].todo
  BY <1>0, <1>1 DEF ImportStates, Busy
<1>3. Moves(p, new) /\ imp'[p] = new
  BY DEF ReadKeys, Moves, ImportsTyped
<1>4. imp[p].bundle # None => imp[p].bundle \in Registry
  BY <1>0 DEF ImportStates
<1>5. ImportTyped(p)'
  BY <1>0, <1>2, <1>3, <1>4 DEF ImportTyped, Applying
<1>6. SharedTyped'
  BY DEF ImportsTyped, SharedTyped, ReadKeys
<1>. QED  BY <1>2, <1>3, <1>5, <1>6, MovingKeepsTypes DEF ImportsTyped

LEMMA TrimmedIsTyped ==
  ASSUME NEW h \in Seq(Registry)
  PROVE  Trimmed(h) \in Seq(Registry) /\ Len(Trimmed(h)) <= HistoryCap
<1>. DEFINE cap == HistoryCap
<1>1. CASE Len(h) > cap
  <2>1. Trimmed(h) = SubSeq(h, 1, cap) /\ cap \in Nat /\ cap <= Len(h)
    BY <1>1, BundleAssumption DEF Trimmed
  <2>. HIDE DEF cap
  <2>2. SubSeq(h, 1, cap) \in Seq(Registry) /\ Len(SubSeq(h, 1, cap)) = cap
    BY <2>1
  <2>. QED  BY <2>1, <2>2 DEF cap
<1>2. CASE ~(Len(h) > cap)
  BY <1>2, BundleAssumption DEF Trimmed
<1>. QED  BY <1>1, <1>2

LEMMA PushKeepsTypes ==
  ASSUME ImportsTyped, NEW p \in Procs, Push(p)
  PROVE  ImportsTyped'
<1>. DEFINE new == [imp[p] EXCEPT !.pc = "apply", !.seen = reg.services]
<1>0. /\ imp[p] \in ImportStates /\ ImportTyped(p) /\ reg \in Registry /\ imp[p].pc = "push"
      /\ imp[p].snap \in Registry /\ imp[p].bundle \in Registry
      /\ imp[p].at = 0 /\ imp[p].todo = {} /\ reg.services \subseteq Services
  BY DEF ImportsTyped, SharedTyped, Push, ImportTyped, Registry
<1>1. /\ new \in ImportStates /\ new.pc = "apply" /\ new.snap = imp[p].snap
      /\ new.base = imp[p].base /\ new.bundle = imp[p].bundle /\ new.at = 0 /\ new.todo = {}
  BY <1>0 DEF ImportStates, Busy
<1>2. Moves(p, new) /\ imp'[p] = new
  BY DEF Push, Moves, ImportsTyped
<1>3. ImportTyped(p)'
  BY <1>0, <1>1, <1>2 DEF ImportTyped, Applying
<1>4. SharedTyped'
  <2>1. <<imp[p].snap>> \o history \in Seq(Registry)
    BY <1>0 DEF ImportsTyped, SharedTyped
  <2>2. history' \in Seq(Registry) /\ Len(history') <= HistoryCap
    BY <2>1, TrimmedIsTyped DEF Push
  <2>. QED  BY <2>2 DEF ImportsTyped, SharedTyped, Push
<1>. QED  BY <1>1, <1>2, <1>3, <1>4, MovingKeepsTypes DEF ImportsTyped

\* The next stage of an import is the first one ahead that has something to write.
Ahead(p) == {n \in imp[p].at + 1 .. Len(Stages) : Keys(p, Stages[n]) # {}}
Next1(p) == CHOOSE n \in Ahead(p) : \A m \in Ahead(p) : n <= m

LEMMA FirstAhead ==
  ASSUME NEW p, imp[p].at \in 0 .. Len(Stages), Ahead(p) # {}
  PROVE  /\ Next1(p) \in imp[p].at + 1 .. Len(Stages)
         /\ Keys(p, Stages[Next1(p)]) # {}
         /\ \A n \in imp[p].at + 1 .. Next1(p) - 1 : Keys(p, Stages[n]) = {}
<1>1. Ahead(p) \subseteq 1 .. 10
  BY StageNames DEF Ahead
<1>2. \E n \in Ahead(p) : \A m \in Ahead(p) : n <= m
  <2>. DEFINE A == Ahead(p)
  <2>1. A \subseteq 1 .. 10 /\ A # {}  BY <1>1
  <2>. HIDE DEF A
  <2>2. \E n \in A : \A m \in A : n <= m
    <3>1. CASE 1 \in A   BY <3>1, <2>1
    <3>2. CASE 1 \notin A /\ 2 \in A   BY <3>2, <2>1
    <3>3. CASE A \cap 1 .. 2 = {} /\ 3 \in A   BY <3>3, <2>1
    <3>4. CASE A \cap 1 .. 3 = {} /\ 4 \in A   BY <3>4, <2>1
    <3>5. CASE A \cap 1 .. 4 = {} /\ 5 \in A   BY <3>5, <2>1
    <3>6. CASE A \cap 1 .. 5 = {} /\ 6 \in A   BY <3>6, <2>1
    <3>7. CASE A \cap 1 .. 6 = {} /\ 7 \in A   BY <3>7, <2>1
    <3>8. CASE A \cap 1 .. 7 = {} /\ 8 \in A   BY <3>8, <2>1
    <3>9. CASE A \cap 1 .. 8 = {} /\ 9 \in A   BY <3>9, <2>1
    <3>10. CASE A \cap 1 .. 9 = {}
      <4>1. \A n \in A : n = 10  BY <3>10, <2>1
      <4>2. PICK x \in A : TRUE  BY <2>1
      <4>3. \A m \in A : x <= m  BY <4>1, <4>2
      <4>. QED  BY <4>3
    <3>. QED
      BY <3>1, <3>2, <3>3, <3>4, <3>5, <3>6, <3>7, <3>8, <3>9, <3>10
  <2>. QED  BY <2>2 DEF A
<1>3. Next1(p) \in Ahead(p) /\ \A m \in Ahead(p) : Next1(p) <= m
  BY <1>2 DEF Next1
<1>4. \A n \in imp[p].at + 1 .. Next1(p) - 1 : n \notin Ahead(p) /\ n \in imp[p].at + 1 .. Len(Stages)
  BY <1>1, <1>3, StageNames DEF Ahead
<1>. QED  BY <1>3, <1>4 DEF Ahead

LEMMA NextStageKeepsTypes ==
  ASSUME ImportsTyped, NEW p \in Procs, NextStage(p)
  PROVE  ImportsTyped'
<1>0. /\ imp[p] \in ImportStates /\ ImportTyped(p) /\ Applying(p) /\ imp[p].bundle \in Registry
      /\ imp[p].at \in 0 .. Len(Stages)
  BY DEF ImportsTyped, ImportTyped, NextStage, Applying, ImportStates
<1>1. SharedTyped'
  BY DEF ImportsTyped, SharedTyped, NextStage
<1>2. CASE Ahead(p) # {}
  <2>. DEFINE n == Next1(p)
              new == [imp[p] EXCEPT !.at = n, !.todo = Keys(p, Stages[n])]
  <2>1. n \in imp[p].at + 1 .. Len(Stages)
    BY <1>0, <1>2, FirstAhead
  <2>2. n \in 1 .. Len(Stages) /\ n # 0
    BY <1>0, <2>1, StageNames
  <2>3. Moves(p, new) /\ imp'[p] = new
    BY <1>2 DEF NextStage, Moves, ImportsTyped, Ahead, Next1
  <2>4. Keys(p, Stages[n]) \subseteq Aim(imp[p].bundle, Stages[n])
    BY <2>2, KeysAreAimed
  <2>5. Keys(p, Stages[n]) \subseteq Groups \cup Services \cup Orgs \cup {"all"}
    BY <1>0, <2>2, <2>4, AimsAreTyped
  <2>. HIDE DEF n
  <2>6. /\ new \in ImportStates /\ new.pc = imp[p].pc /\ new.snap = imp[p].snap
        /\ new.base = imp[p].base /\ new.bundle = imp[p].bundle
        /\ new.at = n /\ new.todo = Keys(p, Stages[n])
    <3>1. n \in 0 .. Len(Stages)  BY <2>2, StageNames
    <3>. QED  BY <1>0, <3>1, <2>5 DEF ImportStates
  <2>7. ImportTyped(p)'
    BY <1>0, <2>2, <2>3, <2>4, <2>6 DEF ImportTyped, Applying
  <2>. QED  BY <1>1, <2>3, <2>6, <2>7, MovingKeepsTypes DEF ImportsTyped
<1>3. CASE Ahead(p) = {}
  <2>1. IF imp[p].pc = "apply" THEN GoTo(p, "publish") ELSE End(p, "failed")
    BY <1>3 DEF NextStage, Ahead
  <2>2. imp[p].pc \in Busy
    BY <1>0 DEF Applying, Busy
  <2>. QED  BY <1>1, <2>1, <2>2, GoKeepsTypes, EndKeepsTypes DEF ImportsTyped
<1>. QED  BY <1>2, <1>3

LEMMA WriteKeepsTypes ==
  ASSUME ImportsTyped, NEW p \in Procs, Write(p)
  PROVE  ImportsTyped'
<1>. DEFINE k == CHOOSE x \in imp[p].todo : TRUE
            new == [imp[p] EXCEPT !.todo = @ \ {k}]
<1>0. /\ imp[p] \in ImportStates /\ ImportTyped(p) /\ Applying(p) /\ imp[p].bundle \in Registry
      /\ reg \in Registry /\ k \in imp[p].todo /\ imp[p].at \in 0 .. Len(Stages)
      /\ reg' = Effect(p, Stages[imp[p].at], k)
      /\ touched' \subseteq touched \cup Procs
  BY DEF ImportsTyped, SharedTyped, ImportTyped, Write, Writes, Applying, ImportStates
<1>1. Moves(p, new) /\ imp'[p] = new
  BY DEF Write, Moves, ImportsTyped
<1>. HIDE DEF k
<1>2. imp[p].at \in 1 .. Len(Stages) /\ k \in Aim(imp[p].bundle, Stages[imp[p].at])
  BY <1>0, StageNames DEF ImportTyped
<1>3. reg' \in Registry
  BY <1>0, <1>2, EffectsAreTyped
<1>4. /\ new \in ImportStates /\ new.pc = imp[p].pc /\ new.snap = imp[p].snap
      /\ new.base = imp[p].base /\ new.bundle = imp[p].bundle
      /\ new.at = imp[p].at /\ new.todo = imp[p].todo \ {k}
  BY <1>0 DEF ImportStates
<1>5. ImportTyped(p)'
  BY <1>0, <1>1, <1>2, <1>4 DEF ImportTyped, Applying
<1>6. SharedTyped'
  BY <1>0, <1>3 DEF ImportsTyped, SharedTyped, Write
<1>. QED  BY <1>1, <1>4, <1>5, <1>6, MovingKeepsTypes DEF ImportsTyped

LEMMA ThrowKeepsTypes ==
  ASSUME ImportsTyped, NEW p \in Procs, Throw(p)
  PROVE  ImportsTyped'
<1>1. SharedTyped'
  BY DEF ImportsTyped, SharedTyped, Throw
<1>2. CASE imp[p].pc = "apply"
  <2>. DEFINE new == [imp[p] EXCEPT !.pc = "undo", !.bundle = imp[p].snap,
                                    !.seen = reg.services, !.at = 0, !.todo = {}]
  <2>0. /\ imp[p] \in ImportStates /\ ImportTyped(p) /\ reg.services \subseteq Services
        /\ imp[p].snap \in Registry
    BY <1>2 DEF ImportsTyped, SharedTyped, ImportTyped, Registry
  <2>1. Moves(p, new) /\ imp'[p] = new
    BY <1>2 DEF Throw, Moves, ImportsTyped
  <2>2. /\ new \in ImportStates /\ new.pc = "undo" /\ new.snap = imp[p].snap
        /\ new.base = imp[p].base /\ new.bundle = imp[p].snap
        /\ new.at = 0 /\ new.todo = {}
    <3>1. 0 \in 0 .. Len(Stages)  BY StageNames
    <3>. QED  BY <2>0, <3>1 DEF ImportStates, Busy
  <2>3. ImportTyped(p)'
    BY <1>2, <2>0, <2>1, <2>2 DEF ImportTyped, Applying
  <2>. QED  BY <1>1, <2>1, <2>2, <2>3, MovingKeepsTypes DEF ImportsTyped
<1>3. CASE imp[p].pc # "apply"
  <2>1. IF imp[p].pc = "undo" THEN GoTo(p, "broken") ELSE End(p, "failed")
    BY <1>3 DEF Throw
  <2>2. imp[p].pc \in Busy
    BY DEF Throw, Active
  <2>. QED  BY <1>1, <2>1, <2>2, GoKeepsTypes, EndKeepsTypes DEF ImportsTyped
<1>. QED  BY <1>2, <1>3

\* Every step of an import, also the last one of a process that dies.
LEMMA ImportKeepsTypes ==
  ASSUME ImportsTyped, NEW p \in Procs, Step(p) \/ Throw(p) \/ Crash(p)
  PROVE  ImportsTyped'
<1>1. CASE Put(p)
  <2>1. imp[p].snap \in Registry
    BY <1>1 DEF Put, ImportsTyped, ImportTyped
  <2>2. SharedTyped'
    BY <1>1, <2>1 DEF ImportsTyped, SharedTyped, Put
  <2>. QED  BY <1>1, <2>2, EndKeepsTypes DEF Put, ImportsTyped
<1>2. CASE Publish(p)
  <2>1. SharedTyped'
    BY <1>2 DEF ImportsTyped, SharedTyped, Publish
  <2>. QED  BY <1>2, <2>1, EndKeepsTypes DEF Publish, ImportsTyped
<1>3. CASE Crash(p)
  <2>1. SharedTyped'
    BY <1>3 DEF ImportsTyped, SharedTyped, Crash
  <2>2. GoTo(p, "crashed") /\ imp[p].pc \in Busy
    BY <1>3 DEF Crash, Active
  <2>. QED  BY <2>1, <2>2, GoKeepsTypes DEF ImportsTyped
<1>. QED
  BY <1>1, <1>2, <1>3, ReadNamesKeepsTypes, ReadKeysKeepsTypes, PushKeepsTypes,
     NextStageKeepsTypes, WriteKeepsTypes, ThrowKeepsTypes DEF Step

-----------------------------------------------------------------------------
(* Types: the steps of a run.                                              *)

\* The name of a step says what its parts are.
LEMMA StepShape ==
  ASSUME NEW step \in RunSteps
  PROVE  /\ step[1] \in Words \cup {"service", "bind", "delegate", "orgAdmin", "group", "ensure", "roles"}
         /\ step[1] = "service" => step[2] \in Services
         /\ step[1] = "bind" => step[2] \in Groups
         /\ step[1] \in {"delegate", "orgAdmin"} => step[2] \in Delegated
         /\ step[1] \in {"group", "ensure"} => step[2] \in Groups /\ step[3] \subseteq Services
         /\ step[1] = "roles" => step[2] \in Services /\ step[3] \subseteq RoleNames
<1>1. CASE step \in WordSteps
  BY <1>1 DEF WordSteps, Words
<1>2. CASE step \in NameSteps
  BY <1>2 DEF NameSteps
<1>3. CASE step \in GroupSteps
  BY <1>3 DEF GroupSteps
<1>4. CASE step \in RoleSteps
  BY <1>4 DEF RoleSteps
<1>. QED  BY <1>1, <1>2, <1>3, <1>4 DEF RunSteps

LEMMA WordsAreSteps ==
  \A word \in Words : <<word>> \in RunSteps
BY DEF RunSteps, WordSteps

LEMMA ScriptsAreTyped ==
  /\ SeedWrites \in Seq(RunSteps) /\ KumaWrites \in Seq(RunSteps)
  /\ Upsert \in Seq(RunSteps) /\ Finish \in Seq(RunSteps) /\ FirstRun \in Seq(RunSteps)
<1>1. /\ <<"group", "super_admins", {"global"}>> \in RunSteps
      /\ <<"group", "users", {}>> \in RunSteps
  <2>1. {"global"} \in SUBSET Services /\ {} \in SUBSET Services /\ {"super_admins", "users"} \subseteq Groups
    BY BundleAssumption, BootstrapAssumption
  <2>2. <<"group", "super_admins", {"global"}>> \in {"group", "ensure"} \X Groups \X SUBSET Services
    BY <2>1
  <2>3. <<"group", "users", {}>> \in {"group", "ensure"} \X Groups \X SUBSET Services
    BY <2>1
  <2>. QED  BY <2>2, <2>3 DEF RunSteps, GroupSteps
<1>2. /\ <<"roles", "global", {"super_admin", "admin"}>> \in RunSteps
      /\ <<"roles", "jinbe", DefaultRoles>> \in RunSteps
      /\ <<"roles", "kuma", {"admin", "viewer"}>> \in RunSteps
  <2>1. /\ {"global", "jinbe", "kuma"} \subseteq Services /\ DefaultRoles \in SUBSET RoleNames
        /\ {"super_admin", "admin"} \in SUBSET RoleNames /\ {"admin", "viewer"} \in SUBSET RoleNames
    BY BundleAssumption, BootstrapAssumption
  <2>2. <<"roles", "global", {"super_admin", "admin"}>> \in {"roles"} \X Services \X SUBSET RoleNames
    BY <2>1
  <2>3. <<"roles", "jinbe", DefaultRoles>> \in {"roles"} \X Services \X SUBSET RoleNames
    BY <2>1
  <2>4. <<"roles", "kuma", {"admin", "viewer"}>> \in {"roles"} \X Services \X SUBSET RoleNames
    BY <2>1
  <2>. QED  BY <2>2, <2>3, <2>4 DEF RunSteps, RoleSteps
<1>3. /\ <<"service", "jinbe">> \in RunSteps /\ <<"service", "global">> \in RunSteps
      /\ <<"service", "kuma">> \in RunSteps
  BY BundleAssumption, BootstrapAssumption DEF RunSteps, NameSteps
<1>4. <<"bind", "super_admins">> \in RunSteps
  BY BootstrapAssumption DEF RunSteps, NameSteps
<1>5. <<"delegate", "kuma">> \in RunSteps /\ <<"delegate", "jinbe">> \in RunSteps
  BY DEF RunSteps, NameSteps, Delegated
<1>6. \A word \in {"rules", "routes", "meta", "platform", "marker", "unlock", "restore", "seed", "kuma", "admin"} :
        <<word>> \in RunSteps
  BY WordsAreSteps DEF Words
<1>7. SeedWrites \in Seq(RunSteps)
  BY <1>1, <1>2, <1>3 DEF SeedWrites
<1>8. KumaWrites \in Seq(RunSteps)
  BY <1>2, <1>3, <1>4 DEF KumaWrites
<1>9. Upsert \in Seq(RunSteps)
  BY <1>5, <1>6 DEF Upsert
<1>10. Finish \in Seq(RunSteps)
  BY <1>6 DEF Finish
<1>11. FirstRun \in Seq(RunSteps)
  <2>1. << <<"restore">>, <<"seed">>, <<"kuma">> >> \in Seq(RunSteps) /\ << <<"admin">> >> \in Seq(RunSteps)
    BY <1>6
  <2>. QED  BY <1>9, <2>1 DEF FirstRun
<1>. QED  BY <1>7, <1>8, <1>9, <1>10, <1>11

LEMMA DecisionIsTyped ==
  ASSUME NEW code
  PROVE  Decision(code) \in Seq(RunSteps)
<1>1. << <<"unlock">> >> \in Seq(RunSteps) /\ << <<"meta">>, <<"unlock">> >> \in Seq(RunSteps)
  BY WordsAreSteps DEF Words
<1>2. FirstRun \o Finish \in Seq(RunSteps) /\ Upsert \o Finish \in Seq(RunSteps)
  BY ScriptsAreTyped
<1>. QED  BY <1>1, <1>2 DEF Decision

LEMMA UnfoldIsTyped ==
  ASSUME NEW step \in RunSteps, step[1] \in Composite
  PROVE  Unfold(step) \in Seq(RunSteps)
<1>1. CASE step[1] = "seed"
  BY <1>1, ScriptsAreTyped DEF Unfold
<1>2. CASE step[1] = "kuma"
  <2>1. << <<"kumaMap">> >> \in Seq(RunSteps)  BY WordsAreSteps DEF Words
  <2>2. Unfold(step) = (IF "kuma" \in reg.services THEN <<>> ELSE KumaWrites) \o << <<"kumaMap">> >>
    BY <1>2 DEF Unfold
  <2>3. KumaWrites \in Seq(RunSteps) /\ <<>> \in Seq(RunSteps)  BY ScriptsAreTyped
  <2>. QED  BY <2>1, <2>2, <2>3
<1>3. CASE step[1] = "delegate"
  <2>. DEFINE s == step[2]
  <2>1. s \in Delegated
    BY <1>3, StepShape
  <2>2. ViewerOf[s] \in Groups /\ AdminOf[s] \in Groups /\ {s} \in SUBSET Services
    BY <2>1, BootstrapAssumption DEF Delegated, ViewerOf, AdminOf
  <2>3. <<"orgAdmin", s>> \in RunSteps
    BY <2>1 DEF RunSteps, NameSteps
  <2>4. <<"ensure", ViewerOf[s], {s}>> \in {"group", "ensure"} \X Groups \X SUBSET Services
    BY <2>2
  <2>5. <<"ensure", AdminOf[s], {s}>> \in {"group", "ensure"} \X Groups \X SUBSET Services
    BY <2>2
  <2>6. << <<"orgAdmin", s>>, <<"ensure", ViewerOf[s], {s}>>, <<"ensure", AdminOf[s], {s}>> >> \in Seq(RunSteps)
    BY <2>3, <2>4, <2>5 DEF RunSteps, GroupSteps
  <2>. QED  BY <1>3, <2>6 DEF Unfold
<1>. QED  BY <1>1, <1>2, <1>3 DEF Composite

LEMMA SeenIsTyped ==
  ASSUME reg \in Registry, NEW step \in RunSteps, step[1] \in Reads
  PROVE  Seen(step) \in Views(step) /\ Views(step) \subseteq AllViews
<1>1. Views(step) \subseteq AllViews
  BY DEF Views, AllViews
<1>0. /\ \A g \in Groups : reg.groups[g] \in (SUBSET Services) \cup {None}
      /\ \A s \in Services : /\ reg.maps[s] \in (SUBSET Pairs) \cup {None}
                             /\ reg.roles[s] \in SUBSET RoleNames
      /\ reg.rules \in [RuleIds -> Writers \cup {None}]
  BY DEF Registry
<1>2. CASE step[1] \in {"bind", "ensure"}
  <2>1. Seen(step) = reg.groups[step[2]] /\ Views(step) = (SUBSET Services) \cup {None}
    BY <1>2 DEF Seen, Views
  <2>. QED  BY <1>0, <1>1, <1>2, <2>1, StepShape
<1>3. CASE step[1] = "platform"
  <2>1. Seen(step) = reg.groups["platform-admins"] /\ Views(step) = (SUBSET Services) \cup {None}
    BY <1>3 DEF Seen, Views
  <2>. QED  BY <1>0, <1>1, <2>1, BootstrapAssumption
<1>4. CASE step[1] = "kumaMap"
  <2>1. Seen(step) = reg.maps["kuma"] /\ Views(step) = (SUBSET Pairs) \cup {None}
    BY <1>4 DEF Seen, Views
  <2>. QED  BY <1>0, <1>1, <2>1, BootstrapAssumption
<1>5. CASE step[1] = "routes"
  <2>1. Seen(step) = reg.maps["jinbe"] /\ Views(step) = (SUBSET Pairs) \cup {None}
    BY <1>5 DEF Seen, Views
  <2>. QED  BY <1>0, <1>1, <2>1, BootstrapAssumption
<1>6. CASE step[1] = "rules"
  <2>1. Seen(step) = reg.rules /\ Views(step) = [RuleIds -> Writers \cup {None}]
    BY <1>6 DEF Seen, Views
  <2>. QED  BY <1>0, <1>1, <2>1
<1>7. CASE step[1] = "orgAdmin"
  <2>1. Seen(step) = reg.roles[step[2]] /\ Views(step) = SUBSET RoleNames
    BY <1>7 DEF Seen, Views
  <2>2. step[2] \in Services
    BY <1>7, StepShape, BootstrapAssumption DEF Delegated
  <2>. QED  BY <1>0, <1>1, <2>1, <2>2
<1>. QED  BY <1>2, <1>3, <1>4, <1>5, <1>6, <1>7 DEF Reads

LEMMA ResultIsTyped ==
  ASSUME reg \in Registry, NEW step \in RunSteps, step[1] \in Written, NEW code \in Codes, NEW saw,
         step[1] \in Reads => saw \in Views(step)
  PROVE  Result(step, saw, code) \in Registry
<1>0. /\ \A g \in Groups, v \in (SUBSET Services) \cup {None} : [reg EXCEPT !.groups[g] = v] \in Registry
      /\ \A s \in Services, v \in SUBSET RoleNames : [reg EXCEPT !.roles[s] = v] \in Registry
      /\ \A s \in Services, v \in SUBSET Pairs : [reg EXCEPT !.maps[s] = v] \in Registry
  <2>1. ASSUME NEW g \in Groups, NEW v \in (SUBSET Services) \cup {None}
        PROVE  [reg EXCEPT !.groups[g] = v] \in Registry
    BY DEF Registry
  <2>2. ASSUME NEW s \in Services, NEW v \in SUBSET RoleNames
        PROVE  [reg EXCEPT !.roles[s] = v] \in Registry
    BY DEF Registry
  <2>3. ASSUME NEW s \in Services, NEW v \in SUBSET Pairs
        PROVE  [reg EXCEPT !.maps[s] = v] \in Registry
    <3>1. [reg.maps EXCEPT ![s] = v] \in [Services -> (SUBSET Pairs) \cup {None}]
      BY DEF Registry
    <3>. QED  BY <3>1 DEF Registry
  <2>. QED  BY <2>1, <2>2, <2>3
<1>1. CASE step[1] \in {"group", "roles"}
  BY <1>0, <1>1, StepShape DEF Result
<1>2. CASE step[1] = "service"
  <2>1. step[2] \in Services  BY <1>2, StepShape
  <2>2. Result(step, saw, code) = [reg EXCEPT !.services = @ \cup {step[2]}]  BY <1>2 DEF Result
  <2>. QED  BY <2>1, <2>2 DEF Registry
<1>3. CASE step[1] = "bind"
  <2>1. step[2] \in Groups /\ saw \in (SUBSET Services) \cup {None} /\ "kuma" \in Services
    BY <1>3, StepShape, BootstrapAssumption DEF Views, Reads
  <2>2. Result(step, saw, code) = IF saw = None THEN reg ELSE [reg EXCEPT !.groups[step[2]] = saw \cup {"kuma"}]
    BY <1>3 DEF Result
  <2>3. saw # None => saw \cup {"kuma"} \in SUBSET Services  BY <2>1
  <2>. QED  BY <1>0, <2>1, <2>2, <2>3
<1>4. CASE step[1] = "kumaMap"
  BY <1>0, <1>4, BootstrapAssumption DEF Result
<1>5. CASE step[1] = "rules"
  <2>1. saw \in [RuleIds -> Writers \cup {None}] /\ code.built \in Writers
    BY <1>5, BootstrapAssumption DEF Views, Reads
  <2>2. MergeRules(saw, code) \in [RuleIds -> Writers \cup {None}]
    BY <2>1 DEF MergeRules
  <2>3. Result(step, saw, code) = [reg EXCEPT !.rules = MergeRules(saw, code)]
    BY <1>5 DEF Result
  <2>. QED  BY <2>2, <2>3 DEF Registry
<1>6. CASE step[1] = "routes"
  <2>. DEFINE old == IF saw = None THEN {} ELSE saw
  <2>1. old \in SUBSET Pairs /\ "jinbe" \in Services
    BY <1>6, BootstrapAssumption DEF Views, Reads
  <2>2. MergeRoutes(old) \in SUBSET Pairs
    BY <2>1, BootstrapAssumption DEF MergeRoutes
  <2>3. Result(step, saw, code)
          = IF MergeRoutes(old) = old THEN reg ELSE [reg EXCEPT !.maps["jinbe"] = MergeRoutes(old)]
    BY <1>6 DEF Result
  <2>. QED  BY <1>0, <2>1, <2>2, <2>3
<1>7. CASE step[1] = "orgAdmin"
  <2>1. step[2] \in Services /\ saw \in SUBSET RoleNames /\ "org_admin" \in RoleNames
    BY <1>7, StepShape, BootstrapAssumption DEF Views, Reads, Delegated
  <2>2. Result(step, saw, code)
          = IF "org_admin" \in saw THEN reg ELSE [reg EXCEPT !.roles[step[2]] = saw \cup {"org_admin"}]
    BY <1>7 DEF Result
  <2>. QED  BY <1>0, <2>1, <2>2
<1>8. CASE step[1] = "ensure"
  BY <1>0, <1>8, StepShape DEF Result
<1>9. CASE step[1] = "platform"
  <2>1. "platform-admins" \in Groups /\ {"global"} \in SUBSET Services
    BY BundleAssumption, BootstrapAssumption
  <2>. QED  BY <1>0, <1>9, <2>1 DEF Result
<1>. QED
  BY <1>1, <1>2, <1>3, <1>4, <1>5, <1>6, <1>7, <1>8, <1>9 DEF Written, Reads

\* The stages of an import before its push.
Early == {"idle", "names", "keys", "push"}

\* What a step of an import leaves alone.
LEMMA OneImport ==
  ASSUME ImportsTyped, NEW p \in Procs, Step(p) \/ Throw(p) \/ Crash(p)
  PROVE  /\ Active(p)
         /\ \A q \in Procs \ {p} : imp'[q] = imp[q]
         /\ Step(p) \/ Throw(p) => imp'[p].pc \notin {"idle", "crashed"}
         /\ imp[p].pc \notin Early => imp'[p].pc \notin Early
<1>. USE DEF Early
<1>0. imp \in [Procs -> ImportStates]
  BY DEF ImportsTyped
<1>1. CASE ReadNames(p)
  BY <1>0, <1>1 DEF ReadNames, Active, Busy, ImportStates
<1>2. CASE ReadKeys(p)
  BY <1>0, <1>2 DEF ReadKeys, Active, Busy, ImportStates
<1>3. CASE Put(p)
  BY <1>0, <1>3 DEF Put, Active, Busy, End, NoImport
<1>4. CASE Push(p)
  BY <1>0, <1>4 DEF Push, Active, Busy, ImportStates
<1>5. CASE NextStage(p)
  <2>1. CASE Ahead(p) # {}
    BY <1>0, <1>5, <2>1 DEF NextStage, Ahead, Applying, Active, Busy, ImportStates
  <2>2. CASE Ahead(p) = {}
    <3>1. IF imp[p].pc = "apply" THEN GoTo(p, "publish") ELSE End(p, "failed")
      BY <1>5, <2>2 DEF NextStage, Ahead
    <3>2. Applying(p) /\ Active(p)
      BY <1>5 DEF NextStage, Applying, Active, Busy
    <3>3. CASE GoTo(p, "publish")
      BY <1>0, <3>2, <3>3 DEF GoTo, ImportStates
    <3>4. CASE End(p, "failed")
      BY <1>0, <3>2, <3>4 DEF End, NoImport
    <3>. QED  BY <3>1, <3>3, <3>4
  <2>. QED  BY <2>1, <2>2
<1>6. CASE Write(p)
  BY <1>0, <1>6 DEF Write, Applying, Active, Busy, ImportStates
<1>7. CASE Publish(p)
  BY <1>0, <1>7 DEF Publish, Active, Busy, End, NoImport
<1>8. CASE Throw(p)
  BY <1>0, <1>8 DEF Throw, Active, Busy, GoTo, End, NoImport, ImportStates
<1>9. CASE Crash(p) /\ ~Step(p) /\ ~Throw(p)
  BY <1>0, <1>9 DEF Crash, Active, Busy, GoTo
<1>. QED
  BY <1>1, <1>2, <1>3, <1>4, <1>5, <1>6, <1>7, <1>8, <1>9 DEF Step

LEMMA RunningKeepsTypes ==
  ASSUME Typed, NEW r \in Runners, NEW new \in RunStates, run' = [run EXCEPT ![r] = new],
         \A q \in Runners \ {r} : imp'[q] = imp[q], RunTyped(r)'
  PROVE  RunsTyped'
<1>1. run' \in [Runners -> RunStates] /\ \A q \in Runners \ {r} : run'[q] = run[q]
  BY DEF Typed, RunsTyped
<1>2. \A q \in Runners \ {r} : RunTyped(q)'
  BY <1>1 DEF Typed, RunsTyped, RunTyped, Working, Active, Now
<1>. QED  BY <1>1, <1>2 DEF RunsTyped

LEMMA GoingKeepsTypes ==
  ASSUME Typed, NEW r \in Runners, run[r].pc = "work", NEW steps \in Seq(RunSteps),
         Goes(r, steps), imp' = imp
  PROVE  RunsTyped'
<1>. DEFINE new == [run[r] EXCEPT !.todo = steps, !.saw = <<>>]
<1>0. run[r] \in RunStates /\ RunTyped(r)
  BY DEF Typed, RunsTyped
<1>1. /\ new \in RunStates /\ new.pc = "work" /\ new.code = run[r].code
      /\ new.saw = <<>> /\ new.todo = steps
  BY <1>0 DEF RunStates
<1>2. run' = [run EXCEPT ![r] = new] /\ run'[r] = new
  BY DEF Goes, Typed, RunsTyped
<1>3. RunTyped(r)'
  BY <1>0, <1>1, <1>2 DEF RunTyped, Working, Active
<1>. QED  BY <1>1, <1>2, <1>3, RunningKeepsTypes

LEMMA AtItsStep ==
  ASSUME Typed, NEW r \in Runners, NEW kinds, At(r, kinds)
  PROVE  /\ run[r].pc = "work" /\ run[r].code \in Codes
         /\ Now(r) \in RunSteps /\ Now(r)[1] \in kinds /\ Rest(r) \in Seq(RunSteps)
<1>1. run[r].todo \in Seq(RunSteps) /\ run[r].todo # <<>>
  BY DEF Typed, RunsTyped, RunStates, At
<1>2. Head(run[r].todo) \in RunSteps /\ Tail(run[r].todo) \in Seq(RunSteps)
  BY <1>1
<1>. QED  BY <1>2 DEF At, Now, Rest, Typed, RunsTyped, RunTyped, Working

LEMMA StartKeepsTypes ==
  ASSUME Typed, NEW r \in Runners, Start(r)
  PROVE  Typed'
<1>0. run[r] \in RunStates /\ RunTyped(r) /\ imp' = imp /\ run[r].pc = "idle" /\ run[r].saw = <<>>
  BY DEF Typed, RunsTyped, RunTyped, Start, bundleVars
<1>1. ImportsTyped'
  BY DEF Typed, ImportsTyped, SharedTyped, ImportTyped, Applying, Start, bundleVars
<1>2. JobTyped'
  BY DEF Typed, JobTyped, Start
<1>3. CASE key = None
  <2>1. PICK code \in Codes, force \in BOOLEAN :
          run' = [run EXCEPT ![r].pc = "work", ![r].code = code, ![r].todo =
                    (IF force THEN << <<"clear">> >> ELSE <<>>) \o << <<"decide">> >>]
    BY <1>3 DEF Start
  <2>. DEFINE todo == (IF force THEN << <<"clear">> >> ELSE <<>>) \o << <<"decide">> >>
              new == [run[r] EXCEPT !.pc = "work", !.code = code, !.todo = todo]
  <2>2. todo \in Seq(RunSteps)
    <3>1. << <<"clear">> >> \in Seq(RunSteps) /\ << <<"decide">> >> \in Seq(RunSteps)
      BY WordsAreSteps DEF Words
    <3>. QED  BY <3>1
  <2>3. run' = [run EXCEPT ![r] = new] /\ run'[r] = new
    BY <2>1 DEF Typed, RunsTyped
  <2>. HIDE DEF todo
  <2>4. new \in RunStates /\ new.pc = "work" /\ new.code = code /\ new.saw = <<>>
    BY <1>0, <2>2 DEF RunStates
  <2>5. RunTyped(r)'
    BY <1>0, <2>3, <2>4 DEF RunTyped, Working, Active
  <2>6. RunsTyped'
    BY <1>0, <2>3, <2>4, <2>5, RunningKeepsTypes
  <2>. QED  BY <1>1, <1>2, <2>6 DEF Typed
<1>4. CASE key # None
  <2>. DEFINE new == [run[r] EXCEPT !.pc = "ended"]
  <2>1. run' = [run EXCEPT ![r] = new] /\ run'[r] = new
    BY <1>4 DEF Start, Typed, RunsTyped
  <2>2. new \in RunStates /\ new.pc = "ended" /\ new.saw = <<>>
    BY <1>0 DEF RunStates
  <2>3. RunTyped(r)'
    BY <1>0, <2>1, <2>2 DEF RunTyped, Working, Active
  <2>4. RunsTyped'
    BY <1>0, <2>1, <2>2, <2>3, RunningKeepsTypes
  <2>. QED  BY <1>1, <1>2, <2>4 DEF Typed
<1>. QED  BY <1>3, <1>4

LEMMA RestoreKeepsTypes ==
  ASSUME Typed, NEW r \in Runners, Restore(r)
  PROVE  Typed'
<1>1. JobTyped'
  BY DEF Typed, JobTyped, Restore
<1>2. SharedTyped'
  BY DEF Typed, ImportsTyped, SharedTyped, Restore
<1>3. Rest(r) \in Seq(RunSteps) /\ run[r].pc = "work" /\ Now(r)[1] = "restore" /\ run[r].code \in Codes
  BY AtItsStep DEF Restore
<1>4. CASE latest = None
  <2>1. Goes(r, Rest(r)) /\ imp' = imp
    BY <1>4 DEF Restore
  <2>2. RunsTyped'
    BY <1>3, <2>1, GoingKeepsTypes
  <2>. QED  BY <1>1, <1>2, <2>1, <2>2 DEF Typed, ImportsTyped, ImportTyped, Applying
<1>5. CASE latest # None
  <2>. DEFINE new == [run[r] EXCEPT !.pc = "restoring"]
  <2>1. r \in Procs /\ latest \in Registry /\ {} \in Asked
    BY <1>5, BundleAssumption, BootstrapAssumption DEF Typed, ImportsTyped, SharedTyped
  <2>2. Begin(r, latest, {}) /\ run' = [run EXCEPT ![r].pc = "restoring"]
    BY <1>5 DEF Restore
  <2>3. ImportsTyped'
    BY <1>2, <2>1, <2>2, BeginKeepsTypes DEF Typed, ImportsTyped
  <2>4. run[r] \in RunStates /\ RunTyped(r) /\ run[r].saw = <<>> /\ run[r].todo # <<>>
    BY <1>3 DEF Typed, RunsTyped, RunTyped, Reads, Restore, At
  <2>5. run' = [run EXCEPT ![r] = new] /\ run'[r] = new
    BY <2>2 DEF Typed, RunsTyped
  <2>6. /\ new \in RunStates /\ new.pc = "restoring" /\ new.saw = <<>>
        /\ new.code = run[r].code /\ new.todo = run[r].todo
    BY <2>4 DEF RunStates
  <2>7. imp'[r].pc # "crashed" /\ \A q \in Procs \ {r} : imp'[q] = imp[q]
    <3>1. imp' = [imp EXCEPT ![r] = Begun(latest, {})] /\ imp \in [Procs -> ImportStates]
      BY <2>2 DEF Begin, Typed, ImportsTyped
    <3>2. Begun(latest, {}).pc \in {"names", "failed"}
      BY DEF Begun, NoImport
    <3>. QED  BY <2>1, <3>1, <3>2
  <2>8. RunTyped(r)'
    BY <1>3, <2>4, <2>5, <2>6, <2>7 DEF RunTyped, Working, Active
  <2>9. RunsTyped'
    BY <2>5, <2>6, <2>7, <2>8, RunningKeepsTypes, BootstrapAssumption
  <2>. QED  BY <1>1, <2>3, <2>9 DEF Typed
<1>. QED  BY <1>4, <1>5

LEMMA RestoredKeepsTypes ==
  ASSUME Typed, NEW r \in Runners, Restored(r)
  PROVE  Typed'
<1>. DEFINE new == [run[r] EXCEPT !.pc = "work", !.todo = Rest(r)]
<1>1. ImportsTyped' /\ imp' = imp
  BY DEF Typed, ImportsTyped, SharedTyped, ImportTyped, Applying, Restored, bundleVars
<1>2. JobTyped'
  BY DEF Typed, JobTyped, Restored
<1>3. /\ run[r] \in RunStates /\ RunTyped(r) /\ run[r].pc = "restoring"
      /\ run[r].saw = <<>> /\ run[r].code \in Codes /\ ~Active(r)
  BY DEF Typed, RunsTyped, RunTyped, Restored, Working
<1>4. Rest(r) \in Seq(RunSteps)
  <2>1. run[r].todo \in Seq(RunSteps) /\ run[r].todo # <<>>
    BY <1>3 DEF RunTyped, RunStates
  <2>. QED  BY <2>1 DEF Rest
<1>5. run' = [run EXCEPT ![r] = new] /\ run'[r] = new
  BY DEF Restored, Typed, RunsTyped
<1>6. new \in RunStates /\ new.pc = "work" /\ new.saw = <<>> /\ new.code = run[r].code
  BY <1>3, <1>4 DEF RunStates
<1>7. RunTyped(r)'
  BY <1>1, <1>3, <1>5, <1>6 DEF RunTyped, Working, Active
<1>8. RunsTyped'
  BY <1>1, <1>5, <1>6, <1>7, RunningKeepsTypes
<1>. QED  BY <1>1, <1>2, <1>8 DEF Typed

LEMMA LookKeepsTypes ==
  ASSUME Typed, NEW r \in Runners, Look(r)
  PROVE  Typed'
<1>. DEFINE v == Seen(Now(r))
            new == [run[r] EXCEPT !.saw = <<v>>]
<1>1. ImportsTyped' /\ imp' = imp
  BY DEF Typed, ImportsTyped, SharedTyped, ImportTyped, Applying, Look, bundleVars
<1>2. JobTyped'
  BY DEF Typed, JobTyped, Look
<1>3. /\ run[r] \in RunStates /\ RunTyped(r) /\ run[r].pc = "work" /\ run[r].code \in Codes
      /\ Now(r) \in RunSteps /\ Now(r)[1] \in Reads /\ run[r].todo # <<>>
  BY AtItsStep DEF Look, Typed, RunsTyped, At
<1>4. v \in Views(Now(r)) /\ v \in AllViews
  BY <1>3, SeenIsTyped DEF Typed, ImportsTyped, SharedTyped
<1>5. run' = [run EXCEPT ![r] = new] /\ run'[r] = new
  BY DEF Look, Typed, RunsTyped
<1>. HIDE DEF v
<1>6. /\ new \in RunStates /\ new.pc = "work" /\ new.saw = <<v>>
      /\ new.code = run[r].code /\ new.todo = run[r].todo
  BY <1>3, <1>4 DEF RunStates
<1>7. new.saw[1] = v /\ Now(r)' = Now(r)
  BY <1>5, <1>6 DEF Now
<1>8. Views(Now(r))' = Views(Now(r))
  BY <1>7 DEF Views
<1>9. RunTyped(r)'
  BY <1>1, <1>3, <1>4, <1>5, <1>6, <1>7, <1>8 DEF RunTyped, Working, Active
<1>10. RunsTyped'
  BY <1>1, <1>5, <1>6, <1>9, RunningKeepsTypes
<1>. QED  BY <1>1, <1>2, <1>10 DEF Typed

LEMMA DoKeepsTypes ==
  ASSUME Typed, NEW r \in Runners, Do(r)
  PROVE  Typed'
<1>. DEFINE saw == IF Now(r)[1] \in Reads THEN run[r].saw[1] ELSE None
            new == Result(Now(r), saw, run[r].code)
            tag == IF Now(r)[1] = "platform" /\ saw = None THEN << <<"tag">> >> ELSE <<>>
<1>1. /\ IF new = reg THEN UNCHANGED <<reg, touched>> ELSE Writes(r, new)
      /\ Goes(r, tag \o Rest(r)) /\ run[r].pc = "work"
      /\ UNCHANGED <<history, latest, imp, marker, key, tags, admin, serving, cut>>
  BY DEF Do, At
<1>2. /\ Now(r) \in RunSteps /\ Now(r)[1] \in Written /\ Rest(r) \in Seq(RunSteps)
      /\ run[r].code \in Codes
  BY AtItsStep DEF Do
<1>3. Now(r)[1] \in Reads => saw \in Views(Now(r))
  BY DEF Do, Typed, RunsTyped, RunTyped
<1>4. tag \o Rest(r) \in Seq(RunSteps)
  <2>1. tag \in Seq(RunSteps)  BY WordsAreSteps DEF Words
  <2>. QED  BY <1>2, <2>1
<1>. HIDE DEF saw, tag
<1>5. new \in Registry
  BY <1>2, <1>3, ResultIsTyped DEF Typed, ImportsTyped, SharedTyped
<1>. HIDE DEF new
<1>6. SharedTyped'
  BY <1>1, <1>5 DEF Typed, ImportsTyped, SharedTyped, Writes
<1>7. ImportsTyped'
  BY <1>1, <1>6 DEF Typed, ImportsTyped, ImportTyped, Applying
<1>8. JobTyped'
  BY <1>1 DEF Typed, JobTyped
<1>9. RunsTyped'
  BY <1>1, <1>4, GoingKeepsTypes
<1>. QED  BY <1>7, <1>8, <1>9 DEF Typed

LEMMA EndOfRunIsTyped ==
  ASSUME Typed, NEW r \in Runners, NEW pc \in {"ended", "dead"},
         run' = [run EXCEPT ![r] = [NoRun EXCEPT !.pc = pc]],
         \A q \in Runners \ {r} : imp'[q] = imp[q], ~Active(r)', pc = "ended" => imp'[r].pc # "crashed"
  PROVE  RunsTyped'
<1>. DEFINE new == [NoRun EXCEPT !.pc = pc]
<1>1. new = [pc |-> pc, code |-> None, todo |-> <<>>, saw |-> <<>>]
  BY DEF NoRun
<1>2. new \in RunStates
  <2>1. <<>> \in Seq(RunSteps)  OBVIOUS
  <2>. QED  BY <1>1, <2>1 DEF RunStates
<1>3. run'[r] = new
  BY DEF Typed, RunsTyped
<1>4. RunTyped(r)'
  BY <1>1, <1>2, <1>3 DEF RunTyped, Working
<1>. QED  BY <1>2, <1>4, RunningKeepsTypes

\* The steps that only go on with the list.
LEMMA ListKeepsTypes ==
  ASSUME Typed, NEW r \in Runners,
         Clear(r) \/ Decide(r) \/ Check(r) \/ Tag(r) \/ SeedAdmin(r) \/ Mark(r) \/ RunThrows(r)
  PROVE  Typed'
<1>1. UNCHANGED <<reg, history, latest, touched, imp>>
  BY DEF Clear, Decide, Check, Tag, SeedAdmin, Mark, RunThrows, bundleVars
<1>2. ImportsTyped'
  BY <1>1 DEF Typed, ImportsTyped, SharedTyped, ImportTyped, Applying
<1>3. JobTyped'
  <2>1. CASE Clear(r)      BY <2>1 DEF Clear, Typed, JobTyped
  <2>2. CASE Decide(r)     BY <2>2 DEF Decide, Typed, JobTyped
  <2>3. CASE Check(r)      BY <2>3 DEF Check, Typed, JobTyped
  <2>4. CASE Tag(r)
    <3>1. tags' \subseteq TaggedNames \cup {"platform-admins"}
      BY <2>4 DEF Tag, Typed, JobTyped
    <3>. QED  BY <2>4, <3>1 DEF Tag, Typed, JobTyped
  <2>5. CASE SeedAdmin(r)  BY <2>5 DEF SeedAdmin, Typed, JobTyped
  <2>6. CASE Mark(r)
    <3>1. run[r].code \in Codes  BY <2>6, AtItsStep DEF Mark
    <3>. QED  BY <2>6, <3>1 DEF Mark, Typed, JobTyped
  <2>7. CASE RunThrows(r)  BY <2>7 DEF RunThrows, Typed, JobTyped
  <2>. QED  BY <2>1, <2>2, <2>3, <2>4, <2>5, <2>6, <2>7
<1>4. \E steps \in Seq(RunSteps) : Goes(r, steps)
  <2>1. CASE Decide(r)     BY <2>1, DecisionIsTyped DEF Decide
  <2>2. CASE Check(r)
    <3>1. Now(r) \in RunSteps /\ Now(r)[1] \in Composite /\ Rest(r) \in Seq(RunSteps)
      BY <2>2, AtItsStep DEF Check
    <3>2. Unfold(Now(r)) \o Rest(r) \in Seq(RunSteps)  BY <3>1, UnfoldIsTyped
    <3>. QED  BY <2>2, <3>2 DEF Check
  <2>3. CASE RunThrows(r)
    <3>1. << <<"unlock">> >> \in Seq(RunSteps)  BY WordsAreSteps DEF Words
    <3>. QED  BY <2>3, <3>1 DEF RunThrows
  <2>4. CASE Clear(r) \/ Tag(r) \/ SeedAdmin(r) \/ Mark(r)
    <3>1. Rest(r) \in Seq(RunSteps)
      BY <2>4, AtItsStep DEF Clear, Tag, SeedAdmin, Mark
    <3>. QED  BY <2>4, <3>1 DEF Clear, Tag, SeedAdmin, Mark
  <2>. QED  BY <2>1, <2>2, <2>3, <2>4
<1>5. run[r].pc = "work"
  BY DEF Clear, Decide, Check, Tag, SeedAdmin, Mark, RunThrows, At
<1>6. RunsTyped'
  BY <1>1, <1>4, <1>5, GoingKeepsTypes
<1>. QED  BY <1>2, <1>3, <1>6 DEF Typed

LEMMA EndKeepsRunsTyped ==
  ASSUME Typed, NEW r \in Runners, Unlock(r) \/ RunDies(r)
  PROVE  Typed'
<1>1. CASE Unlock(r)
  <2>1. ImportsTyped' /\ imp' = imp
    BY <1>1 DEF Typed, ImportsTyped, SharedTyped, ImportTyped, Applying, Unlock, bundleVars
  <2>2. JobTyped'
    BY <1>1 DEF Typed, JobTyped, Unlock
  <2>3. ~Active(r) /\ imp[r].pc # "crashed"
    BY <1>1, AtItsStep DEF Unlock, Typed, RunsTyped, RunTyped
  <2>4. RunsTyped'
    BY <1>1, <2>1, <2>3, EndOfRunIsTyped DEF Unlock, Active
  <2>. QED  BY <2>1, <2>2, <2>4 DEF Typed
<1>2. CASE RunDies(r)
  <2>1. r \in Procs  BY BootstrapAssumption
  <2>2. JobTyped'
    BY <1>2 DEF Typed, JobTyped, RunDies
  <2>3. SharedTyped'
    BY <1>2 DEF Typed, ImportsTyped, SharedTyped, RunDies
  <2>4. ImportsTyped' /\ ~Active(r)' /\ \A q \in Runners \ {r} : imp'[q] = imp[q]
    <3>1. CASE Active(r)
      <4>1. GoTo(r, "crashed") /\ imp[r].pc \in Busy /\ imp \in [Procs -> ImportStates]
        BY <1>2, <3>1 DEF RunDies, GoTo, Active, Typed, ImportsTyped
      <4>2. imp' \in [Procs -> ImportStates] /\ \A q \in Procs : ImportTyped(q)'
        BY <2>1, <4>1, GoKeepsTypes DEF Typed
      <4>3. imp'[r].pc = "crashed" /\ \A q \in Runners \ {r} : imp'[q] = imp[q]
        BY <2>1, <4>1, BootstrapAssumption DEF GoTo, ImportStates
      <4>. QED  BY <2>3, <4>2, <4>3 DEF ImportsTyped, Active, Busy
    <3>2. CASE ~Active(r)
      BY <1>2, <2>3, <3>2 DEF RunDies, Typed, ImportsTyped, ImportTyped, Applying, Active
    <3>. QED  BY <3>1, <3>2
  <2>5. RunsTyped'
    BY <1>2, <2>4, EndOfRunIsTyped DEF RunDies
  <2>. QED  BY <2>2, <2>4, <2>5 DEF Typed
<1>. QED  BY <1>1, <1>2

LEMMA RequestKeepsTypes ==
  ASSUME Typed, NEW p \in Procs, Request(p)
  PROVE  ImportsTyped' /\ \A q \in Procs \ {p} : imp'[q] = imp[q]
<1>1. \E b \in Registry \cup {None}, asked \in Asked : Begin(p, b, asked)
  <2>1. {} \in Asked /\ Uploads \subseteq Registry
    BY BundleAssumption
  <2>2. \A i \in DOMAIN history : history[i] \in Registry
    BY DEF Typed, ImportsTyped, SharedTyped
  <2>3. latest \in Registry \cup {None}
    BY DEF Typed, ImportsTyped, SharedTyped
  <2>. QED  BY <2>1, <2>2, <2>3 DEF Request
<1>2. SharedTyped'
  BY DEF Typed, ImportsTyped, SharedTyped, Request
<1>3. ImportsTyped'
  BY <1>1, <1>2, BeginKeepsTypes DEF Typed, ImportsTyped
<1>. QED  BY <1>1, <1>3 DEF Begin, Typed, ImportsTyped

LEMMA EditKeepsTypes ==
  ASSUME ImportsTyped, Edit
  PROVE  ImportsTyped'
<1>1. PICK e \in Own :
        Writes(None, CASE e.kind = "group" -> [reg EXCEPT !.groups[e.at] = e.to]
                       [] e.kind = "rule"  -> [reg EXCEPT !.rules[e.at] = e.to]
                       [] e.kind = "map"   -> [reg EXCEPT !.maps[e.at] = e.to])
  BY DEF Edit
<1>2. e \in Changes /\ reg \in Registry
  BY BundleAssumption DEF ImportsTyped, SharedTyped
<1>3. reg' \in Registry
  <2>1. CASE e \in [kind : {"group"}, at : Groups, to : (SUBSET Services) \cup {None}]
    <3>1. reg' = [reg EXCEPT !.groups[e.at] = e.to]
      BY <1>1, <2>1 DEF Writes
    <3>2. [reg.groups EXCEPT ![e.at] = e.to] \in [Groups -> (SUBSET Services) \cup {None}]
      BY <1>2, <2>1 DEF Registry
    <3>. QED  BY <1>2, <3>1, <3>2 DEF Registry
  <2>2. CASE e \in [kind : {"rule"}, at : RuleIds, to : Writers \cup {None}]
    <3>1. reg' = [reg EXCEPT !.rules[e.at] = e.to]
      BY <1>1, <2>2 DEF Writes
    <3>2. [reg.rules EXCEPT ![e.at] = e.to] \in [RuleIds -> Writers \cup {None}]
      BY <1>2, <2>2 DEF Registry
    <3>. QED  BY <1>2, <3>1, <3>2 DEF Registry
  <2>3. CASE e \in [kind : {"map"}, at : Services, to : (SUBSET Pairs) \cup {None}]
    <3>1. reg' = [reg EXCEPT !.maps[e.at] = e.to]
      BY <1>1, <2>3 DEF Writes
    <3>2. [reg.maps EXCEPT ![e.at] = e.to] \in [Services -> (SUBSET Pairs) \cup {None}]
      BY <1>2, <2>3 DEF Registry
    <3>. QED  BY <1>2, <3>1, <3>2 DEF Registry
  <2>. QED  BY <1>2, <2>1, <2>2, <2>3 DEF Changes
<1>4. SharedTyped'
  BY <1>1, <1>3 DEF Edit, Writes, ImportsTyped, SharedTyped
<1>. QED  BY <1>4 DEF Edit, ImportsTyped, ImportTyped, Applying

LEMMA InitTyped == Init => Typed
<1>. SUFFICES ASSUME Init PROVE Typed
  OBVIOUS
<1>1. PICK w \in Worlds : /\ reg = w.reg /\ latest = w.latest /\ marker = w.marker
                          /\ tags = w.tags /\ admin = w.admin /\ serving = (w.marker # None)
  BY DEF Init
<1>2. SharedTyped
  BY <1>1, BootstrapAssumption, BundleAssumption DEF Init, SharedTyped
<1>3. JobTyped
  BY <1>1, BootstrapAssumption DEF Init, JobTyped
<1>4. NoImport \in ImportStates /\ NoImport.pc = "idle"
  BY NoImportIsTyped DEF NoImport
<1>5. ImportsTyped
  BY <1>2, <1>4 DEF Init, ImportsTyped, ImportTyped, Applying
<1>6. NoRun \in RunStates
  <2>1. <<>> \in Seq(RunSteps)  OBVIOUS
  <2>. QED  BY <2>1 DEF RunStates, NoRun
<1>7. \A r \in Runners : run[r] = NoRun /\ imp[r] = NoImport
  BY BootstrapAssumption DEF Init
<1>8. RunsTyped
  BY <1>4, <1>6, <1>7 DEF Init, RunsTyped, RunTyped, NoRun, Working, Active, Busy
<1>. QED  BY <1>3, <1>5, <1>8 DEF Typed

\* The steps of one process of an import, among the runs.
LEMMA ImportStepKeepsTypes ==
  ASSUME Typed, NEW p \in Procs, Step(p) \/ Throw(p) \/ Crash(p),
         p \in Runners => Step(p) \/ Throw(p), run' = run
  PROVE  ImportsTyped' /\ RunsTyped'
<1>1. ImportsTyped'
  BY ImportKeepsTypes DEF Typed
<1>2. /\ Active(p) /\ \A q \in Procs \ {p} : imp'[q] = imp[q]
      /\ Step(p) \/ Throw(p) => imp'[p].pc \notin {"idle", "crashed"}
  BY OneImport DEF Typed
<1>3. ASSUME NEW r \in Runners PROVE RunTyped(r)'
  <2>1. RunTyped(r) /\ r \in Procs
    BY BootstrapAssumption DEF Typed, RunsTyped
  <2>2. CASE r # p
    BY <1>2, <2>1, <2>2 DEF RunTyped, Working, Active, Now
  <2>3. CASE r = p
    <3>1. run[r].pc = "restoring" /\ imp'[r].pc # "crashed"
      BY <1>2, <2>1, <2>3 DEF RunTyped
    <3>. QED  BY <2>1, <3>1 DEF RunTyped, Working, Now
  <2>. QED  BY <2>2, <2>3
<1>. QED  BY <1>1, <1>3 DEF Typed, RunsTyped

LEMMA StepTyped == Typed /\ [Next]_vars => Typed'
<1>. SUFFICES ASSUME Typed, [Next]_vars PROVE Typed'
  OBVIOUS
<1>1. ASSUME UNCHANGED vars PROVE Typed'
  BY <1>1 DEF vars, bundleVars, bootVars, Typed, ImportsTyped, SharedTyped, ImportTyped, Applying,
              JobTyped, RunsTyped, RunTyped, Working, Active, Now
<1>2. ASSUME NEW p \in Procs \ Runners, Requests(p) PROVE Typed'
  <2>1. CASE Request(p) /\ UNCHANGED bootVars
    <3>1. ImportsTyped' /\ \A r \in Runners : imp'[r] = imp[r]
      BY <2>1, RequestKeepsTypes, BootstrapAssumption
    <3>. QED
      BY <2>1, <3>1 DEF Typed, JobTyped, RunsTyped, RunTyped, Working, Active, Now, bootVars
  <2>2. CASE /\ Step(p) /\ cut' = (cut \/ (Applying(p) /\ \E r \in Runners : Working(r)))
             /\ UNCHANGED <<marker, key, run, tags, admin, serving>>
    <3>1. ImportsTyped' /\ RunsTyped'
      BY <2>2, ImportStepKeepsTypes
    <3>. QED  BY <2>2, <3>1 DEF Typed, JobTyped
  <2>3. CASE (Throw(p) \/ Crash(p)) /\ UNCHANGED bootVars
    <3>1. ImportsTyped' /\ RunsTyped'
      BY <2>3, ImportStepKeepsTypes DEF bootVars
    <3>. QED  BY <2>3, <3>1 DEF Typed, JobTyped, bootVars
  <2>. QED  BY <1>2, <2>1, <2>2, <2>3 DEF Requests
<1>3. ASSUME NEW r \in Runners, Runs(r) PROVE Typed'
  <2>1. CASE (Step(r) \/ Throw(r)) /\ UNCHANGED bootVars
    <3>1. ImportsTyped' /\ RunsTyped'
      BY <2>1, ImportStepKeepsTypes, BootstrapAssumption DEF bootVars
    <3>. QED  BY <2>1, <3>1 DEF Typed, JobTyped, bootVars
  <2>. QED
    BY <1>3, <2>1, StartKeepsTypes, RestoreKeepsTypes, RestoredKeepsTypes, LookKeepsTypes,
       DoKeepsTypes, ListKeepsTypes, EndKeepsRunsTyped DEF Runs
<1>4. ASSUME Edit, UNCHANGED bootVars PROVE Typed'
  <2>1. ImportsTyped' /\ imp' = imp
    BY <1>4, EditKeepsTypes DEF Typed, Edit
  <2>. QED
    BY <1>4, <2>1 DEF Typed, JobTyped, RunsTyped, RunTyped, Working, Active, Now, bootVars
<1>5. ASSUME Lapse PROVE Typed'
  BY <1>5 DEF Lapse, bundleVars, Typed, ImportsTyped, SharedTyped, ImportTyped, Applying,
              JobTyped, RunsTyped, RunTyped, Working, Active, Now
<1>. QED  BY <1>1, <1>2, <1>3, <1>4, <1>5 DEF Next

(* Every registry, bundle and snapshot is well formed, the history keeps to its  *)
(* cap, and each import and each run of the job is at one of its stages.         *)
THEOREM TypeCorrect == Spec => []TypeOK
<1>1. Typed => TypeOK
  BY DEF Typed, ImportsTyped, SharedTyped, JobTyped, RunsTyped, RunStates, TypeOK
<1>. QED  BY <1>1, InitTyped, StepTyped, PTL DEF Spec

-----------------------------------------------------------------------------
(* What a full import leaves.                                              *)

\* What a full import finds nothing to do for at a stage is as it should be.
LEMMA NothingToDo ==
  ASSUME NEW p, imp[p].pc = "apply", Full(imp[p].asked)
  PROVE  LET b == imp[p].bundle
         IN /\ "all" \notin Keys(p, Stages[1]) => b.services = {}
            /\ "all" \notin Keys(p, Stages[2]) => Orphans(p) = {}
            /\ "all" \notin Keys(p, Stages[3]) => Orphans(p) = {}
            /\ \A g \in Groups :
                 /\ g \notin Keys(p, Stages[4]) /\ b.groups[g] = None => reg.groups[g] = None
                 /\ b.groups[g] # None => g \in Keys(p, Stages[5])
            /\ \A s \in Services :
                 /\ b.roles[s] # {} => s \in Keys(p, Stages[6])
                 /\ s \in b.services /\ b.roles[s] = {} => s \in Keys(p, Stages[7])
                 /\ b.maps[s] # None => s \in Keys(p, Stages[8])
            /\ "all" \in Keys(p, Stages[9])
<1>. DEFINE b == imp[p].bundle
<1>1. Applied(p) = imp[p].asked /\ Wanted(Applied(p)) = Sections /\ Full(Applied(p))
  BY DEF Applied, Full
<1>2. "all" \notin Keys(p, Stages[1]) => b.services = {}
  BY <1>1, StageNames DEF Keys, Sections
<1>3. "all" \notin Keys(p, Stages[2]) => Orphans(p) = {}
  BY <1>1, StageNames DEF Keys
<1>4. "all" \notin Keys(p, Stages[3]) => Orphans(p) = {}
  BY <1>1, StageNames DEF Keys
<1>5. \A g \in Groups : g \notin Keys(p, Stages[4]) /\ b.groups[g] = None => reg.groups[g] = None
  BY <1>1, StageNames DEF Keys, Absent
<1>6. \A g \in Groups : b.groups[g] # None => g \in Keys(p, Stages[5])
  BY <1>1, StageNames DEF Keys, Sections
<1>7. \A s \in Services : b.roles[s] # {} => s \in Keys(p, Stages[6])
  BY <1>1, StageNames DEF Keys, Sections
<1>8. \A s \in Services : s \in b.services /\ b.roles[s] = {} => s \in Keys(p, Stages[7])
  BY <1>1, StageNames DEF Keys, Sections
<1>9. \A s \in Services : b.maps[s] # None => s \in Keys(p, Stages[8])
  BY <1>1, StageNames DEF Keys, Sections
<1>10. "all" \in Keys(p, Stages[9])
  BY <1>1, StageNames DEF Keys, Sections
<1>. QED  BY <1>2, <1>3, <1>4, <1>5, <1>6, <1>7, <1>8, <1>9, <1>10

\* An import that stands still, and beside which nobody writes unnoticed.
LEMMA DoneStays ==
  ASSUME NEW p, Done(p), imp'[p] = imp[p], touched \subseteq touched',
         reg' = reg \/ p \in touched' \/ imp[p].pc \notin {"apply", "publish"}
  PROVE  Done(p)'
<1>1. CASE reg' = reg
  BY <1>1 DEF Done, Restoring, ServicesDone, OrphansDone, GroupsDone, KeysDone, RulesDone,
              Passed, Orphans, Stored, Defaulted
<1>2. CASE reg' # reg
  BY <1>2 DEF Done, Restoring
<1>. QED  BY <1>1, <1>2

LEMMA NextStageDone ==
  ASSUME ImportsTyped, NEW p \in Procs, Done(p), NextStage(p)
  PROVE  Done(p)'
<1>. SUFFICES ASSUME Restoring(p)'
              PROVE  (ServicesDone(p) /\ OrphansDone(p) /\ GroupsDone(p) /\ KeysDone(p) /\ RulesDone(p))'
  BY DEF Done
<1>0. /\ imp[p] \in ImportStates /\ imp \in [Procs -> ImportStates] /\ imp[p].todo = {}
      /\ imp[p].at \in 0 .. Len(Stages) /\ reg' = reg /\ touched' = touched
  BY DEF ImportsTyped, NextStage, ImportStates
<1>1. /\ imp[p].pc = "apply" /\ imp'[p].asked = imp[p].asked /\ imp'[p].bundle = imp[p].bundle
      /\ imp'[p].seen = imp[p].seen
      /\ \/ /\ imp'[p].pc = "apply" /\ imp'[p].at \in imp[p].at + 1 .. Len(Stages)
            /\ imp'[p].todo = Keys(p, Stages[imp'[p].at])
            /\ \A n \in imp[p].at + 1 .. imp'[p].at - 1 : Keys(p, Stages[n]) = {}
         \/ imp'[p].pc = "publish" /\ \A n \in imp[p].at + 1 .. Len(Stages) : Keys(p, Stages[n]) = {}
  <2>0. imp'[p].pc \in {"apply", "publish"}
    BY DEF Restoring
  <2>1. CASE Ahead(p) # {}
    <3>1. imp' = [imp EXCEPT ![p].at = Next1(p), ![p].todo = Keys(p, Stages[Next1(p)])]
      BY <2>1 DEF NextStage, Ahead, Next1
    <3>2. /\ imp'[p].at = Next1(p) /\ imp'[p].todo = Keys(p, Stages[Next1(p)])
          /\ imp'[p].pc = imp[p].pc /\ imp'[p].asked = imp[p].asked
          /\ imp'[p].bundle = imp[p].bundle /\ imp'[p].seen = imp[p].seen
      BY <1>0, <3>1 DEF ImportStates
    <3>3. imp[p].pc = "apply"
      BY <2>0, <3>2 DEF NextStage, Applying
    <3>. QED  BY <1>0, <2>1, <3>2, <3>3, FirstAhead
  <2>2. CASE Ahead(p) = {}
    <3>1. IF imp[p].pc = "apply" THEN GoTo(p, "publish") ELSE End(p, "failed")
      BY <2>2 DEF NextStage, Ahead
    <3>2. imp[p].pc = "apply" /\ GoTo(p, "publish")
      BY <1>0, <2>0, <3>1 DEF End, NoImport
    <3>3. /\ imp'[p].pc = "publish" /\ imp'[p].asked = imp[p].asked
          /\ imp'[p].bundle = imp[p].bundle /\ imp'[p].seen = imp[p].seen
      BY <1>0, <3>2 DEF GoTo, ImportStates
    <3>. QED  BY <2>2, <3>2, <3>3 DEF Ahead
  <2>. QED  BY <2>1, <2>2
<1>2. Restoring(p) /\ Full(imp[p].asked) /\ Orphans(p)' = Orphans(p)
  BY <1>0, <1>1 DEF Restoring, Orphans
<1>3. ASSUME NEW n \in 1 .. Len(Stages), NEW k, Passed(p, n, k)'
      PROVE  Passed(p, n, k) \/ k \notin Keys(p, Stages[n])
  <2>1. CASE n <= imp[p].at
    BY <1>0, <2>1, StageNames DEF Passed
  <2>2. CASE n > imp[p].at /\ imp'[p].pc = "publish"
    BY <1>0, <1>1, <2>2, StageNames
  <2>3. CASE n > imp[p].at /\ imp'[p].pc = "apply"
    <3>1. n < imp'[p].at \/ (n = imp'[p].at /\ k \notin imp'[p].todo)
      BY <1>3, <2>3 DEF Passed
    <3>. QED  BY <1>0, <1>1, <2>3, <3>1, StageNames
  <2>. QED  BY <1>0, <1>1, <2>1, <2>2, <2>3, StageNames
<1>4. ServicesDone(p) /\ OrphansDone(p) /\ GroupsDone(p) /\ KeysDone(p) /\ RulesDone(p)
  BY <1>2 DEF Done
<1>. DEFINE b == imp[p].bundle
<1>5. 1 .. 9 \subseteq 1 .. Len(Stages)
  BY StageNames
<1>6. ServicesDone(p)'
  <2>1. Passed(p, 1, "all")' => b.services \subseteq reg.services
    BY <1>1, <1>2, <1>3, <1>4, <1>5, NothingToDo DEF ServicesDone
  <2>2. Passed(p, 2, "all")' => reg.services \cap Orphans(p) = {}
    BY <1>1, <1>2, <1>3, <1>4, <1>5, NothingToDo DEF ServicesDone
  <2>. QED  BY <1>0, <1>1, <1>2, <1>4, <2>1, <2>2 DEF ServicesDone
<1>7. OrphansDone(p)'
  <2>1. Passed(p, 3, "all")' => Passed(p, 3, "all") \/ Orphans(p) = {}
    BY <1>1, <1>2, <1>3, <1>5, NothingToDo
  <2>. QED  BY <1>0, <1>1, <1>2, <1>4, <2>1 DEF OrphansDone
<1>8. GroupsDone(p)'
  <2>1. ASSUME NEW g \in Groups, Passed(p, 4, g)', b.groups[g] = None  PROVE reg.groups[g] = None
    BY <1>1, <1>2, <1>3, <1>4, <1>5, <2>1, NothingToDo DEF GroupsDone
  <2>2. ASSUME NEW g \in Groups, Passed(p, 5, g)', b.groups[g] # None  PROVE reg.groups[g] = b.groups[g]
    BY <1>1, <1>2, <1>3, <1>4, <1>5, <2>2, NothingToDo DEF GroupsDone
  <2>. QED  BY <1>0, <1>1, <2>1, <2>2 DEF GroupsDone
<1>9. KeysDone(p)'
  <2>1. ASSUME NEW s \in Services, Passed(p, 6, s)', b.roles[s] # {}
        PROVE  reg.roles[s] = Stored(b, s)
    BY <1>1, <1>2, <1>3, <1>4, <1>5, <2>1, NothingToDo DEF KeysDone
  <2>2. ASSUME NEW s \in Services, Passed(p, 7, s)', b.roles[s] = {}, s \in b.services
        PROVE  reg.roles[s] = DefaultRoles
    BY <1>1, <1>2, <1>3, <1>4, <1>5, <2>2, NothingToDo DEF KeysDone
  <2>3. ASSUME NEW s \in Services, Passed(p, 8, s)', b.maps[s] # None
        PROVE  reg.maps[s] = b.maps[s]
    BY <1>1, <1>2, <1>3, <1>4, <1>5, <2>3, NothingToDo DEF KeysDone
  <2>. QED  BY <1>0, <1>1, <2>1, <2>2, <2>3 DEF KeysDone, Stored, Defaulted
<1>10. RulesDone(p)'
  <2>1. Passed(p, 9, "all")' => Passed(p, 9, "all")
    BY <1>1, <1>2, <1>3, <1>5, NothingToDo
  <2>. QED  BY <1>0, <1>1, <1>4, <2>1 DEF RulesDone
<1>. QED  BY <1>6, <1>7, <1>8, <1>9, <1>10

\* The registry once stage n has written key k, part by part.
Parts(p, n, k, new) ==
  LET b == imp[p].bundle
  IN /\ new.services = CASE n = 1 -> reg.services \cup b.services
                         [] n = 2 -> reg.services \ Orphans(p)
                         [] OTHER -> reg.services
     /\ \A g \in Groups :
          new.groups[g] = CASE n = 4 /\ g = k -> None
                            [] n = 5 /\ g = k -> b.groups[g]
                            [] OTHER -> reg.groups[g]
     /\ \A s \in Services :
          /\ new.roles[s] = CASE n = 3 /\ s \in Orphans(p) -> {}
                              [] n = 6 /\ s = k -> Stored(b, s)
                              [] n = 7 /\ s = k -> DefaultRoles
                              [] OTHER -> reg.roles[s]
          /\ new.maps[s] = CASE n = 3 /\ s \in Orphans(p) -> None
                             [] n = 8 /\ s = k -> b.maps[s]
                             [] OTHER -> reg.maps[s]
     /\ new.rules = IF n = 9 THEN b.rules ELSE reg.rules

LEMMA EffectParts ==
  ASSUME NEW p, reg \in Registry, imp[p].bundle \in Registry, NEW n \in 1 .. Len(Stages), NEW k,
         k \in Aim(imp[p].bundle, Stages[n]), NEW new, new = Effect(p, Stages[n], k)
  PROVE  Parts(p, n, k, new)
<1>. DEFINE b == imp[p].bundle
<1>1. CASE n = 1
  <2>1. new = [reg EXCEPT !.services = @ \cup b.services]
    BY <1>1, StageNames DEF Effect
  <2>. QED  BY <1>1, <2>1 DEF Registry, Parts
<1>2. CASE n = 2
  <2>1. new = [reg EXCEPT !.services = @ \ Orphans(p)]
    BY <1>2, StageNames DEF Effect
  <2>. QED  BY <1>2, <2>1 DEF Registry, Parts
<1>3. CASE n = 3
  <2>. DEFINE roles == [s \in Services |-> IF s \in Orphans(p) THEN {} ELSE reg.roles[s]]
              maps  == [s \in Services |-> IF s \in Orphans(p) THEN None ELSE reg.maps[s]]
  <2>1. new = [reg EXCEPT !.roles = roles, !.maps = maps]
    BY <1>3, StageNames DEF Effect
  <2>2. /\ \A s \in Services : roles[s] = IF s \in Orphans(p) THEN {} ELSE reg.roles[s]
        /\ \A s \in Services : maps[s] = IF s \in Orphans(p) THEN None ELSE reg.maps[s]
    OBVIOUS
  <2>. HIDE DEF roles, maps
  <2>3. /\ new.roles = roles /\ new.maps = maps /\ new.services = reg.services
        /\ new.groups = reg.groups /\ new.rules = reg.rules
    BY <2>1 DEF Registry
  <2>. QED  BY <1>3, <2>2, <2>3 DEF Parts
<1>4. CASE n = 4
  <2>1. new = [reg EXCEPT !.groups = [@ EXCEPT ![k] = None]]
    BY <1>4, StageNames DEF Effect
  <2>. QED  BY <1>4, <2>1 DEF Registry, Parts
<1>5. CASE n = 5
  <2>1. new = [reg EXCEPT !.groups = [@ EXCEPT ![k] = b.groups[k]]]
    BY <1>5, StageNames DEF Effect
  <2>. QED  BY <1>5, <2>1 DEF Registry, Parts
<1>6. CASE n = 6
  <2>1. new = [reg EXCEPT !.roles = [@ EXCEPT ![k] = Stored(b, k)]]
    BY <1>6, StageNames DEF Effect, Stored
  <2>. QED  BY <1>6, <2>1 DEF Registry, Parts
<1>7. CASE n = 7
  <2>1. new = [reg EXCEPT !.roles = [@ EXCEPT ![k] = DefaultRoles]]
    BY <1>7, StageNames DEF Effect
  <2>. QED  BY <1>7, <2>1 DEF Registry, Parts
<1>8. CASE n = 8
  <2>1. new = [reg EXCEPT !.maps = [@ EXCEPT ![k] = b.maps[k]]]
    BY <1>8, StageNames DEF Effect
  <2>. QED  BY <1>8, <2>1 DEF Registry, Parts
<1>9. CASE n = 9
  <2>1. new = [reg EXCEPT !.rules = b.rules]
    BY <1>9, StageNames DEF Effect
  <2>. QED  BY <1>9, <2>1 DEF Registry, Parts
<1>10. CASE n = 10
  <2>1. new = [reg EXCEPT !.orgs = [@ EXCEPT ![k] = b.orgs[k]]]
    BY <1>10, StageNames DEF Effect
  <2>. QED  BY <1>10, <2>1 DEF Registry, Parts
<1>. QED
  BY <1>1, <1>2, <1>3, <1>4, <1>5, <1>6, <1>7, <1>8, <1>9, <1>10, StageNames

LEMMA WriteDone ==
  ASSUME ImportsTyped, NEW p \in Procs, Done(p), Write(p)
  PROVE  Done(p)'
<1>. DEFINE k == CHOOSE x \in imp[p].todo : TRUE
            n == imp[p].at
            b == imp[p].bundle
<1>. SUFFICES ASSUME Restoring(p)'
              PROVE  (ServicesDone(p) /\ OrphansDone(p) /\ GroupsDone(p) /\ KeysDone(p) /\ RulesDone(p))'
  BY DEF Done
<1>0. /\ imp[p] \in ImportStates /\ imp \in [Procs -> ImportStates] /\ ImportTyped(p) /\ b \in Registry
      /\ reg \in Registry /\ k \in imp[p].todo /\ n \in 0 .. Len(Stages)
      /\ reg' = Effect(p, Stages[n], k) /\ touched \subseteq touched' /\ Applying(p)
      /\ imp' = [imp EXCEPT ![p].todo = @ \ {k}]
  BY DEF ImportsTyped, SharedTyped, ImportTyped, Write, Writes, Applying, ImportStates
<1>. HIDE DEF k
<1>1. /\ imp'[p].pc = imp[p].pc /\ imp'[p].asked = imp[p].asked /\ imp'[p].bundle = b
      /\ imp'[p].seen = imp[p].seen /\ imp'[p].at = n /\ imp'[p].todo = imp[p].todo \ {k}
  BY <1>0 DEF ImportStates
<1>2. n \in 1 .. Len(Stages) /\ k \in Aim(b, Stages[n])
  BY <1>0, StageNames DEF ImportTyped
<1>3. imp[p].pc = "apply" /\ Orphans(p)' = Orphans(p) /\ Restoring(p)
  BY <1>0, <1>1 DEF Restoring, Applying, Orphans
<1>4. \A m \in 1 .. Len(Stages) : \A j : Passed(p, m, j)' <=> Passed(p, m, j) \/ (m = n /\ j = k)
  BY <1>1, <1>2, <1>3 DEF Passed
<1>5. \A m \in 1 .. Len(Stages) : \A j : Passed(p, m, j) => m <= n
  BY <1>0, <1>2, <1>3, StageNames DEF Passed
<1>6. ServicesDone(p) /\ OrphansDone(p) /\ GroupsDone(p) /\ KeysDone(p) /\ RulesDone(p)
  BY <1>3 DEF Done
<1>7. /\ n \in {1, 2, 3, 9} => k = "all"
      /\ n = 4 => k \in Groups /\ b.groups[k] = None
      /\ n = 5 => k \in Groups /\ b.groups[k] # None
      /\ n = 6 => k \in Services /\ b.roles[k] # {}
      /\ n = 7 => k \in b.services /\ b.roles[k] = {}
      /\ n = 8 => k \in Services /\ b.maps[k] # None
  BY <1>2, StageNames DEF Aim
<1>15. Parts(p, n, k, reg')
  BY <1>0, <1>2, EffectParts
<1>8. /\ reg'.services = CASE n = 1 -> reg.services \cup b.services
                           [] n = 2 -> reg.services \ Orphans(p)
                           [] OTHER -> reg.services
      /\ \A g \in Groups :
           reg'.groups[g] = CASE n = 4 /\ g = k -> None
                              [] n = 5 /\ g = k -> b.groups[g]
                              [] OTHER -> reg.groups[g]
      /\ \A s \in Services :
           /\ reg'.roles[s] = CASE n = 3 /\ s \in Orphans(p) -> {}
                                [] n = 6 /\ s = k -> Stored(b, s)
                                [] n = 7 /\ s = k -> DefaultRoles
                                [] OTHER -> reg.roles[s]
           /\ reg'.maps[s] = CASE n = 3 /\ s \in Orphans(p) -> None
                               [] n = 8 /\ s = k -> b.maps[s]
                               [] OTHER -> reg.maps[s]
      /\ reg'.rules = IF n = 9 THEN b.rules ELSE reg.rules
  BY <1>15 DEF Parts
<1>9. 1 .. 9 \subseteq 1 .. Len(Stages) /\ n \in Nat /\ Orphans(p) \cap b.services = {}
      /\ Orphans(p) \subseteq Services
  BY <1>0, <1>2, StageNames DEF Orphans, ImportStates
<1>. HIDE DEF n, b
<1>10. ServicesDone(p)'
  <2>1. reg'.services \subseteq imp[p].seen \cup b.services
    BY <1>6, <1>8 DEF ServicesDone, b
  <2>2. Passed(p, 1, "all")' => b.services \subseteq reg'.services
    BY <1>4, <1>6, <1>7, <1>8, <1>9 DEF ServicesDone, b
  <2>3. Passed(p, 2, "all")' => reg'.services \cap Orphans(p) = {}
    <3>1. CASE n = 2
      BY <1>8, <3>1
    <3>2. CASE n = 1
      BY <1>4, <1>5, <1>9, <3>2
    <3>3. CASE n \notin {1, 2}
      BY <1>4, <1>6, <1>8, <1>9, <3>3 DEF ServicesDone
    <3>. QED  BY <3>1, <3>2, <3>3
  <2>. QED  BY <1>1, <1>3, <2>1, <2>2, <2>3 DEF ServicesDone
<1>11. OrphansDone(p)'
  <2>1. ASSUME Passed(p, 3, "all")', NEW s \in Orphans(p)
        PROVE  (b.roles[s] = {} => reg'.roles[s] = {}) /\ (b.maps[s] = None => reg'.maps[s] = None)
    <3>1. s \in Services /\ s \notin b.services
      BY <1>9
    <3>2. CASE n = 3
      BY <1>8, <3>1, <3>2
    <3>3. CASE n # 3
      <4>1. (b.roles[s] = {} => reg.roles[s] = {}) /\ (b.maps[s] = None => reg.maps[s] = None)
        BY <1>4, <1>6, <1>9, <2>1, <3>3 DEF OrphansDone, b
      <4>2. b.roles[s] = {} => reg'.roles[s] = reg.roles[s]
        BY <1>7, <1>8, <3>1, <3>3
      <4>3. b.maps[s] = None => reg'.maps[s] = reg.maps[s]
        BY <1>7, <1>8, <3>1, <3>3
      <4>. QED  BY <4>1, <4>2, <4>3
    <3>. QED  BY <3>2, <3>3
  <2>. QED  BY <1>1, <1>3, <2>1 DEF OrphansDone
<1>12. GroupsDone(p)'
  <2>1. ASSUME NEW g \in Groups, Passed(p, 4, g)', b.groups[g] = None  PROVE reg'.groups[g] = None
    BY <1>4, <1>6, <1>7, <1>8, <1>9, <2>1 DEF GroupsDone, b
  <2>2. ASSUME NEW g \in Groups, Passed(p, 5, g)', b.groups[g] # None  PROVE reg'.groups[g] = b.groups[g]
    BY <1>4, <1>6, <1>7, <1>8, <1>9, <2>2 DEF GroupsDone, b
  <2>. QED  BY <1>1, <2>1, <2>2 DEF GroupsDone
<1>13. KeysDone(p)'
  <2>1. ASSUME NEW s \in Services, Passed(p, 6, s)', b.roles[s] # {}
        PROVE  reg'.roles[s] = Stored(b, s)
    <3>1. n # 3 /\ (n = 7 => s # k)
      BY <1>4, <1>5, <1>7, <1>9, <2>1
    <3>2. CASE n = 6 /\ s = k
      BY <1>8, <3>2
    <3>3. CASE ~(n = 6 /\ s = k)
      <4>1. reg.roles[s] = Stored(b, s)
        BY <1>4, <1>6, <1>9, <2>1, <3>3 DEF KeysDone, b
      <4>. QED  BY <1>8, <3>1, <3>3, <4>1
    <3>. QED  BY <3>2, <3>3
  <2>2. ASSUME NEW s \in Services, Passed(p, 7, s)', b.roles[s] = {}, s \in b.services
        PROVE  reg'.roles[s] = DefaultRoles
    <3>1. n # 3 /\ (n = 6 => s # k)
      BY <1>4, <1>5, <1>7, <1>9, <2>2
    <3>2. CASE n = 7 /\ s = k
      BY <1>8, <3>2
    <3>3. CASE ~(n = 7 /\ s = k)
      <4>1. reg.roles[s] = DefaultRoles
        BY <1>4, <1>6, <1>9, <2>2, <3>3 DEF KeysDone, b
      <4>. QED  BY <1>8, <3>1, <3>3, <4>1
    <3>. QED  BY <3>2, <3>3
  <2>3. ASSUME NEW s \in Services, Passed(p, 8, s)', b.maps[s] # None
        PROVE  reg'.maps[s] = b.maps[s]
    <3>1. n # 3
      BY <1>4, <1>5, <1>9, <2>3
    <3>2. CASE n = 8 /\ s = k
      BY <1>8, <3>2
    <3>3. CASE ~(n = 8 /\ s = k)
      <4>1. reg.maps[s] = b.maps[s]
        BY <1>4, <1>6, <1>9, <2>3, <3>3 DEF KeysDone, b
      <4>. QED  BY <1>8, <3>1, <3>3, <4>1
    <3>. QED  BY <3>2, <3>3
  <2>. QED  BY <1>1, <2>1, <2>2, <2>3 DEF KeysDone, Stored, Defaulted
<1>14. RulesDone(p)'
  BY <1>1, <1>4, <1>6, <1>8, <1>9 DEF RulesDone, b
<1>. QED  BY <1>10, <1>11, <1>12, <1>13, <1>14

-----------------------------------------------------------------------------
(* What a step of the whole system is to one import.                       *)

Begins(p) ==
  /\ \E b, asked : Begin(p, b, asked)
  /\ imp[p].pc = "idle" /\ imp'[p].pc \in {"names", "failed"}
  /\ imp'[p].pc = "names" => imp'[p].base = reg
  /\ UNCHANGED <<reg, history, touched>>
Dies(p) == Active(p) /\ GoTo(p, "crashed") /\ UNCHANGED <<reg, history, touched>>

\* p stands still; if somebody writes the registry, p is told, or has nothing to fear.
Stands(p) ==
  /\ imp'[p] = imp[p] /\ touched \subseteq touched'
  /\ history' = history \/ \E q \in Procs \ {p} : Push(q)
  /\ reg' = reg \/ p \in touched' \/ imp[p].pc \in {"idle", "done", "failed", "broken"}

LEMMA BeginsIsBegin ==
  ASSUME ImportsTyped, NEW p \in Procs, NEW b, NEW asked, Begin(p, b, asked),
         UNCHANGED <<reg, history, touched>>
  PROVE  Begins(p) /\ \A q \in Procs \ {p} : imp'[q] = imp[q]
<1>1. imp' = [imp EXCEPT ![p] = Begun(b, asked)] /\ imp[p].pc = "idle" /\ imp \in [Procs -> ImportStates]
  BY DEF Begin, ImportsTyped
<1>2. Begun(b, asked).pc = "failed" \/ (Begun(b, asked).pc = "names" /\ Begun(b, asked).base = reg)
  BY DEF Begun, NoImport
<1>3. imp'[p] = Begun(b, asked) /\ \A q \in Procs \ {p} : imp'[q] = imp[q]
  BY <1>1
<1>. QED  BY <1>1, <1>2, <1>3 DEF Begins

LEMMA OthersStand ==
  ASSUME ImportsTyped, NEW p \in Procs, NEW q \in Procs \ {p}, Step(q) \/ Throw(q) \/ Crash(q)
  PROVE  Stands(p)
<1>1. imp'[p] = imp[p]
  BY OneImport
<1>2. CASE Write(q)
  <2>1. touched' = touched \cup {x \in Procs \ {q} : imp[x].pc \notin {"idle", "done", "failed"}}
    BY <1>2 DEF Write, Writes
  <2>2. history' = history
    BY <1>2 DEF Write
  <2>. QED  BY <1>1, <2>1, <2>2 DEF Stands
<1>3. CASE ~Write(q)
  <2>1. reg' = reg /\ touched' = touched
    BY <1>3 DEF Step, ReadNames, ReadKeys, Put, Push, NextStage, Publish, Throw, Crash
  <2>2. history' = history \/ Push(q)
    BY <1>3 DEF Step, ReadNames, ReadKeys, Put, NextStage, Publish, Throw, Crash
  <2>. QED  BY <1>1, <2>1, <2>2 DEF Stands
<1>. QED  BY <1>2, <1>3

LEMMA OneOf ==
  ASSUME Typed, [Next]_vars, NEW p \in Procs
  PROVE  Step(p) \/ Throw(p) \/ Dies(p) \/ Begins(p) \/ Stands(p)
<1>0. ImportsTyped /\ Runners \subseteq Procs /\ None \notin Procs /\ imp[p] \in ImportStates
  BY BootstrapAssumption, BundleAssumption DEF Typed, ImportsTyped
<1>1. CASE UNCHANGED vars
  BY <1>1 DEF vars, bundleVars, Stands
<1>2. ASSUME NEW q \in Procs \ Runners, Requests(q)
      PROVE  Step(p) \/ Throw(p) \/ Dies(p) \/ Begins(p) \/ Stands(p)
  <2>1. CASE Request(q)
    <3>1. /\ \E b, asked : Begin(q, b, asked)
          /\ UNCHANGED <<reg, history, touched>>
      BY <2>1 DEF Request
    <3>2. Begins(q) /\ \A x \in Procs \ {q} : imp'[x] = imp[x]
      BY <1>0, <3>1, BeginsIsBegin
    <3>. QED  BY <3>1, <3>2 DEF Stands
  <2>2. CASE Step(q) \/ Throw(q)
    BY <1>0, <2>2, OthersStand
  <2>3. CASE Crash(q)
    <3>1. CASE q = p
      BY <2>3, <3>1 DEF Crash, Dies
    <3>2. CASE q # p
      BY <1>0, <2>3, <3>2, OthersStand
    <3>. QED  BY <3>1, <3>2
  <2>. QED  BY <1>2, <2>1, <2>2, <2>3 DEF Requests
<1>3. ASSUME NEW r \in Runners, Runs(r)
      PROVE  Step(p) \/ Throw(p) \/ Dies(p) \/ Begins(p) \/ Stands(p)
  <2>1. CASE Step(r) \/ Throw(r)
    BY <1>0, <2>1, OthersStand
  <2>2. CASE Restore(r)
    <3>1. CASE latest = None
      BY <2>2, <3>1 DEF Restore, Stands
    <3>2. CASE latest # None
      <4>1. Begin(r, latest, {}) /\ UNCHANGED <<reg, history, touched>>
        BY <2>2, <3>2 DEF Restore
      <4>2. Begins(r) /\ \A x \in Procs \ {r} : imp'[x] = imp[x]
        BY <1>0, <4>1, BeginsIsBegin
      <4>. QED  BY <4>1, <4>2 DEF Stands
    <3>. QED  BY <3>1, <3>2
  <2>3. CASE Do(r)
    <3>1. imp' = imp /\ history' = history
      BY <2>3 DEF Do
    <3>2. \/ reg' = reg /\ touched' = touched
          \/ touched' = touched \cup {x \in Procs \ {r} : imp[x].pc \notin {"idle", "done", "failed"}}
      BY <2>3 DEF Do, Writes
    <3>3. p = r => imp[p].pc \in {"idle", "done", "failed", "broken"}
      <4>1. ~Active(r) /\ imp[r].pc # "crashed"
        BY <2>3 DEF Do, At, Typed, RunsTyped, RunTyped
      <4>. QED  BY <1>0, <4>1 DEF Active, ImportStates
    <3>. QED  BY <3>1, <3>2, <3>3 DEF Stands
  <2>4. CASE RunDies(r)
    <3>1. UNCHANGED <<reg, history, touched>> /\ imp' = IF Active(r) THEN [imp EXCEPT ![r].pc = "crashed"] ELSE imp
      BY <2>4 DEF RunDies
    <3>2. CASE p = r /\ Active(r)
      BY <3>1, <3>2 DEF Dies, GoTo
    <3>3. CASE ~(p = r /\ Active(r))
      <4>1. imp'[p] = imp[p]
        BY <1>0, <3>1, <3>3 DEF ImportsTyped
      <4>. QED  BY <3>1, <4>1 DEF Stands
    <3>. QED  BY <3>2, <3>3
  <2>5. CASE \/ Start(r) \/ Clear(r) \/ Decide(r) \/ Restored(r) \/ Check(r) \/ Look(r)
             \/ Tag(r) \/ SeedAdmin(r) \/ Mark(r) \/ Unlock(r) \/ RunThrows(r)
    BY <2>5 DEF Start, Clear, Decide, Restored, Check, Look, Tag, SeedAdmin, Mark, Unlock, RunThrows,
                bundleVars, Stands
  <2>. QED  BY <1>3, <2>1, <2>2, <2>3, <2>4, <2>5 DEF Runs
<1>4. CASE Edit
  <2>1. imp' = imp /\ history' = history
    BY <1>4 DEF Edit
  <2>2. touched' = touched \cup {x \in Procs \ {None} : imp[x].pc \notin {"idle", "done", "failed"}}
    BY <1>4 DEF Edit, Writes
  <2>. QED  BY <1>0, <2>1, <2>2 DEF Stands
<1>5. CASE Lapse
  BY <1>5 DEF Lapse, bundleVars, Stands
<1>. QED  BY <1>1, <1>2, <1>3, <1>4, <1>5 DEF Next

LEMMA DoneStep ==
  ASSUME Typed, [Next]_vars, NEW p \in Procs, Done(p)
  PROVE  Done(p)'
<1>0. ImportsTyped /\ imp \in [Procs -> ImportStates]
  BY DEF Typed, ImportsTyped
<1>1. CASE NextStage(p)
  BY <1>0, <1>1, NextStageDone
<1>2. CASE Write(p)
  BY <1>0, <1>2, WriteDone
<1>3. CASE Stands(p)
  BY <1>3, DoneStays DEF Stands
<1>4. CASE Push(p)
  <2>1. /\ imp'[p].seen = reg.services /\ imp'[p].at = imp[p].at /\ imp'[p].todo = imp[p].todo
        /\ imp'[p].pc = "apply" /\ imp[p].at = 0 /\ imp[p].todo = {} /\ reg' = reg
    BY <1>0, <1>4 DEF Push, ImportStates, ImportsTyped, ImportTyped
  <2>2. \A n \in 1 .. 9 : \A k : ~Passed(p, n, k)'
    BY <2>1 DEF Passed
  <2>. QED
    BY <2>1, <2>2 DEF Done, ServicesDone, OrphansDone, GroupsDone, KeysDone, RulesDone
<1>5. CASE ReadNames(p) \/ ReadKeys(p) \/ Put(p) \/ Publish(p) \/ Throw(p) \/ Dies(p) \/ Begins(p)
  <2>1. imp'[p].pc \notin {"apply", "publish"}
    <3>1. CASE ReadNames(p)  BY <1>0, <3>1 DEF ReadNames, ImportStates
    <3>2. CASE ReadKeys(p)   BY <1>0, <3>2 DEF ReadKeys, ImportStates
    <3>3. CASE Put(p) \/ Publish(p)  BY <1>0, <3>3 DEF Put, Publish, End, NoImport
    <3>4. CASE Throw(p)      BY <1>0, <3>4 DEF Throw, End, GoTo, NoImport, ImportStates
    <3>5. CASE Dies(p)       BY <1>0, <3>5 DEF Dies, GoTo, ImportStates
    <3>6. CASE Begins(p)     BY <3>6 DEF Begins
    <3>. QED  BY <1>5, <3>1, <3>2, <3>3, <3>4, <3>5, <3>6
  <2>. QED  BY <2>1 DEF Done, Restoring
<1>. QED  BY <1>1, <1>2, <1>3, <1>4, <1>5, OneOf DEF Step

LEMMA ExactWhenDone ==
  ASSUME ImportsTyped, \A p \in Procs : Done(p)
  PROVE  RestoreIsExact
<1>. SUFFICES ASSUME NEW p \in Procs, imp[p].pc = "publish", Full(imp[p].asked), p \notin touched
              PROVE  LET b == imp[p].bundle
                     IN /\ <<reg.services, reg.groups, reg.rules>> = <<b.services, b.groups, b.rules>>
                        /\ \A s \in (b.services \cup imp[p].seen) \ {"global"} :
                             LET gone == s \notin b.services
                             IN /\ reg.roles[s] = IF gone /\ b.roles[s] = {} THEN {} ELSE b.roles[s] \cup DefaultRoles
                                /\ gone \/ b.maps[s] # None => reg.maps[s] = b.maps[s]
  BY DEF RestoreIsExact
<1>. DEFINE b == imp[p].bundle
<1>1. /\ ServicesDone(p) /\ OrphansDone(p) /\ GroupsDone(p) /\ KeysDone(p) /\ RulesDone(p)
      /\ \A n, k : Passed(p, n, k)
  BY DEF Done, Restoring, Passed
<1>2. b \in Registry /\ reg \in Registry /\ imp[p].seen \subseteq Services
  BY DEF ImportsTyped, SharedTyped, ImportTyped, ImportStates
<1>3. reg.services = b.services
  BY <1>1 DEF ServicesDone, Orphans
<1>4. reg.groups = b.groups
  <2>1. \A g \in Groups : reg.groups[g] = b.groups[g]
    BY <1>1 DEF GroupsDone
  <2>2. reg.groups \in [Groups -> (SUBSET Services) \cup {None}] /\ b.groups \in [Groups -> (SUBSET Services) \cup {None}]
    BY <1>2 DEF Registry
  <2>. QED  BY <2>1, <2>2
<1>5. reg.rules = b.rules
  BY <1>1 DEF RulesDone
<1>6. ASSUME NEW s \in (b.services \cup imp[p].seen) \ {"global"}
      PROVE  /\ reg.roles[s] = IF s \notin b.services /\ b.roles[s] = {} THEN {} ELSE b.roles[s] \cup DefaultRoles
             /\ s \notin b.services \/ b.maps[s] # None => reg.maps[s] = b.maps[s]
  <2>1. s \in Services
    BY <1>2 DEF Registry
  <2>2. b.roles[s] # {} => reg.roles[s] = b.roles[s] \cup DefaultRoles
    BY <1>1, <2>1 DEF KeysDone, Stored, Defaulted
  <2>3. b.roles[s] = {} /\ s \in b.services => reg.roles[s] = b.roles[s] \cup DefaultRoles
    BY <1>1, <2>1 DEF KeysDone
  <2>4. b.maps[s] # None => reg.maps[s] = b.maps[s]
    BY <1>1, <2>1 DEF KeysDone
  <2>5. s \notin b.services => s \in Orphans(p)
    BY DEF Orphans
  <2>6. s \notin b.services => (b.roles[s] = {} => reg.roles[s] = {}) /\ (b.maps[s] = None => reg.maps[s] = None)
    BY <1>1, <2>5 DEF OrphansDone
  <2>. QED  BY <2>2, <2>3, <2>4, <2>6
<1>. QED  BY <1>3, <1>4, <1>5, <1>6

(* applyBundle, stage by stage: an import of everything beside which nobody else *)
(* wrote leaves the services, groups and rules of the bundle and no others, its  *)
(* roles with the defaults, its route maps, and nothing of what it removed.      *)
THEOREM RestoresAreExact == Spec => []RestoreIsExact
<1>1. Init => \A p \in Procs : Done(p)
  BY DEF Init, Done, Restoring, NoImport
<1>2. Typed /\ (\A p \in Procs : Done(p)) /\ [Next]_vars => (\A p \in Procs : Done(p))'
  BY DoneStep
<1>3. Typed /\ (\A p \in Procs : Done(p)) => RestoreIsExact
  BY ExactWhenDone DEF Typed
<1>. QED  BY <1>1, <1>2, <1>3, InitTyped, StepTyped, PTL DEF Spec

-----------------------------------------------------------------------------
(* What the history keeps.                                                 *)

LEMMA BeyondGrows ==
  ASSUME Typed, [Next]_vars
  PROVE  /\ IsFiniteSet(Beyond) /\ IsFiniteSet(Beyond') /\ Beyond \subseteq Beyond'
         /\ Cardinality(Beyond) \in Nat /\ Cardinality(Beyond') \in Nat
         /\ Cardinality(Beyond) <= Cardinality(Beyond')
<1>1. Beyond \subseteq Procs /\ Beyond' \subseteq Procs /\ IsFiniteSet(Procs)
  BY BundleAssumption DEF Beyond
<1>2. IsFiniteSet(Beyond) /\ IsFiniteSet(Beyond')
  BY <1>1, FS_Subset
<1>3. ASSUME NEW p \in Procs, imp[p].pc \notin Early
      PROVE  imp'[p].pc \notin Early
  <2>1. CASE Step(p) \/ Throw(p)
    BY <1>3, <2>1, OneImport DEF Typed
  <2>2. CASE Dies(p)
    BY <2>2 DEF Dies, GoTo, Typed, ImportsTyped, ImportStates, Early
  <2>. QED  BY <1>3, <2>1, <2>2, OneOf DEF Begins, Stands, Early
<1>4. Beyond \subseteq Beyond'
  BY <1>3 DEF Beyond, Early
<1>. QED  BY <1>2, <1>4, FS_Subset, FS_CardinalityType

\* A push makes one more import that has pushed, and moves the others one down.
LEMMA PushIsOneMore ==
  ASSUME Typed, [Next]_vars, NEW q \in Procs, Push(q)
  PROVE  /\ Cardinality(Beyond) + 1 <= Cardinality(Beyond')
         /\ Cardinality(Beyond') <= HistoryCap =>
              /\ Len(history') >= 1 /\ history'[1] = imp[q].snap
              /\ \A i \in 1 .. Len(history) : i < HistoryCap =>
                   i + 1 \in 1 .. Len(history') /\ history'[i + 1] = history[i]
<1>1. q \notin Beyond /\ q \in Beyond'
  BY DEF Push, Beyond, Typed, ImportsTyped, ImportStates
<1>2. Cardinality(Beyond \cup {q}) = Cardinality(Beyond) + 1 /\ Beyond \cup {q} \subseteq Beyond'
  BY <1>1, BeyondGrows, FS_AddElement
<1>3. Cardinality(Beyond) + 1 <= Cardinality(Beyond')
  BY <1>2, BeyondGrows, FS_Subset
<1>4. history \in Seq(Registry) /\ imp[q].snap \in Registry /\ HistoryCap \in Nat
  BY BundleAssumption DEF Push, Typed, ImportsTyped, SharedTyped, ImportTyped
<1>. DEFINE h == <<imp[q].snap>> \o history
<1>5. /\ h \in Seq(Registry) /\ Len(h) = Len(history) + 1 /\ h[1] = imp[q].snap
      /\ \A i \in 1 .. Len(history) : h[i + 1] = history[i]
  BY <1>4
<1>6. history' = IF Len(h) > HistoryCap THEN SubSeq(h, 1, HistoryCap) ELSE h
  BY DEF Push, Trimmed
<1>. HIDE DEF h
<1>7. ASSUME HistoryCap >= 1
      PROVE  /\ Len(history') >= 1 /\ history'[1] = imp[q].snap
             /\ \A i \in 1 .. Len(history) : i < HistoryCap =>
                  i + 1 \in 1 .. Len(history') /\ history'[i + 1] = history[i]
  <2>1. CASE Len(h) > HistoryCap
    <3>1. Len(history') = HistoryCap /\ \A j \in 1 .. HistoryCap : history'[j] = h[j]
      BY <1>4, <1>5, <1>6, <2>1
    <3>. QED  BY <1>4, <1>5, <1>7, <3>1
  <2>2. CASE ~(Len(h) > HistoryCap)
    BY <1>4, <1>5, <1>6, <2>2
  <2>. QED  BY <2>1, <2>2
<1>8. Cardinality(Beyond') <= HistoryCap => HistoryCap >= 1
  BY <1>3, <1>4, BeyondGrows
<1>. QED  BY <1>3, <1>7, <1>8

LEMMA InHistoryStays ==
  ASSUME Typed, [Next]_vars, NEW p \in Procs, InHistory(p), imp'[p].base = imp[p].base,
         Cardinality(Beyond') <= HistoryCap, history' = history \/ \E q \in Procs : Push(q)
  PROVE  InHistory(p)'
<1>1. PICK i \in 1 .. Len(history) : i <= Cardinality(Beyond) /\ history[i] = Export(imp[p].base)
  BY DEF InHistory
<1>2. Export(imp[p].base)' = Export(imp[p].base)
  BY DEF Export, WithKeys, Names, Empty
<1>3. CASE history' = history
  BY <1>1, <1>2, <1>3, BeyondGrows DEF InHistory
<1>4. ASSUME NEW q \in Procs, Push(q) PROVE InHistory(p)'
  <2>1. i < HistoryCap /\ i + 1 <= Cardinality(Beyond')
    BY <1>1, <1>4, PushIsOneMore, BeyondGrows, BundleAssumption
  <2>2. i + 1 \in 1 .. Len(history') /\ history'[i + 1] = history[i]
    BY <1>4, <2>1, PushIsOneMore
  <2>. QED  BY <1>1, <1>2, <2>1, <2>2 DEF InHistory
<1>. QED  BY <1>3, <1>4

LEMMA FoundStep ==
  ASSUME Typed, [Next]_vars, NEW p \in Procs, Found(p)
  PROVE  Found(p)'
<1>. SUFFICES ASSUME p \notin touched'
              PROVE  /\ imp'[p].pc \in {"names", "keys", "push", "put"} => reg' = imp'[p].base
                     /\ imp'[p].pc = "keys" => imp'[p].snap = Names(imp[p].base)'
                     /\ imp'[p].pc \in {"push", "put"} => imp'[p].snap = Export(imp[p].base)'
                     /\ Cardinality(Beyond') <= HistoryCap =>
                          /\ imp'[p].pc \in {"apply", "undo", "publish", "broken"} => InHistory(p)'
                          /\ imp'[p].pc = "crashed" => reg' = imp'[p].base \/ InHistory(p)'
  BY DEF Found
<1>0. /\ imp \in [Procs -> ImportStates] /\ imp[p] \in ImportStates /\ ImportTyped(p)
      /\ Cardinality(Beyond) \in Nat /\ Cardinality(Beyond') \in Nat /\ HistoryCap \in Nat
      /\ Cardinality(Beyond) <= Cardinality(Beyond')
  BY BeyondGrows, BundleAssumption DEF Typed, ImportsTyped
<1>. DEFINE Pushed == {"apply", "undo", "publish", "broken"}
\* What needs no more than that p keeps the snapshot it has pushed.
<1>1. ASSUME p \notin touched, imp'[p].base = imp[p].base, imp'[p].pc \notin {"names", "keys", "push", "put"},
             imp'[p].pc \in Pushed => imp[p].pc \in Pushed,
             imp'[p].pc = "crashed" =>
               imp[p].pc \in Pushed \/ imp[p].pc = "crashed"
                 \/ (imp[p].pc \in {"names", "keys", "push", "put"} /\ reg' = reg),
             imp[p].pc = "crashed" => reg' = reg,
             history' = history \/ \E q \in Procs : Push(q)
      PROVE  Found(p)'
  <2>1. ASSUME Cardinality(Beyond') <= HistoryCap, InHistory(p) PROVE InHistory(p)'
    BY <1>1, <2>1, InHistoryStays
  <2>2. Cardinality(Beyond') <= HistoryCap => Cardinality(Beyond) <= HistoryCap
    BY <1>0
  <2>. QED  BY <1>1, <2>1, <2>2 DEF Found
<1>2. CASE Stands(p)
  <2>1. p \notin touched
    BY <1>2 DEF Stands
  <2>2. imp'[p] = imp[p] /\ (history' = history \/ \E q \in Procs : Push(q))
        /\ (reg' = reg \/ imp[p].pc \in {"idle", "done", "failed", "broken"})
    BY <1>2 DEF Stands
  <2>3. CASE imp[p].pc \in {"names", "keys", "push", "put"}
    BY <2>1, <2>2, <2>3 DEF Found, Export, WithKeys, Names, Empty
  <2>4. CASE imp[p].pc \notin {"names", "keys", "push", "put"}
    BY <1>1, <2>1, <2>2, <2>4 DEF Found
  <2>. QED  BY <2>3, <2>4
<1>3. CASE ReadNames(p)
  <2>1. /\ imp'[p].pc = "keys" /\ imp'[p].snap = Names(reg) /\ imp'[p].base = imp[p].base
        /\ imp[p].pc = "names" /\ reg' = reg /\ touched' = touched
    BY <1>0, <1>3 DEF ReadNames, ImportStates
  <2>2. Names(imp[p].base)' = Names(imp[p].base)
    BY <2>1 DEF Names, Empty
  <2>. QED  BY <2>1, <2>2 DEF Found
<1>4. CASE ReadKeys(p)
  <2>1. /\ imp'[p].pc \in {"push", "put"} /\ imp'[p].snap = WithKeys(imp[p].snap, reg)
        /\ imp'[p].base = imp[p].base
        /\ imp[p].pc = "keys" /\ reg' = reg /\ touched' = touched
    BY <1>0, <1>4 DEF ReadKeys, ImportStates
  <2>2. Export(imp[p].base)' = Export(imp[p].base)
    BY <2>1 DEF Export, WithKeys, Names, Empty
  <2>3. imp[p].snap = Names(imp[p].base) /\ reg = imp[p].base
    BY <2>1 DEF Found
  <2>. QED  BY <2>1, <2>2, <2>3 DEF Export
<1>5. CASE Push(p)
  <2>1. /\ imp'[p].pc = "apply" /\ imp'[p].base = imp[p].base /\ imp[p].pc = "push"
        /\ touched' = touched
    BY <1>0, <1>5 DEF Push, ImportStates
  <2>2. imp[p].snap = Export(imp[p].base)
    BY <2>1 DEF Found
  <2>3. Export(imp[p].base)' = Export(imp[p].base)
    BY <2>1 DEF Export, WithKeys, Names, Empty
  <2>4. Cardinality(Beyond') <= HistoryCap =>
          1 \in 1 .. Len(history') /\ 1 <= Cardinality(Beyond') /\ history'[1] = imp[p].snap
    <3>1. Len(history') \in Nat
      BY StepTyped DEF Typed, ImportsTyped, SharedTyped
    <3>. QED  BY <1>0, <1>5, <3>1, PushIsOneMore
  <2>. QED  BY <2>1, <2>2, <2>3, <2>4 DEF InHistory
<1>6. CASE NextStage(p) \/ Write(p)
  <2>1. Applying(p) /\ imp[p].pc \in Pushed /\ history' = history
    BY <1>6 DEF NextStage, Write, Applying
  <2>2. p \notin touched
    BY <1>6 DEF NextStage, Write, Writes
  <2>3. imp'[p].pc \in {"done", "failed"} \/ (imp'[p].pc \in Pushed /\ imp'[p].base = imp[p].base)
    <3>1. CASE Write(p)
      BY <1>0, <2>1, <3>1 DEF Write, ImportStates
    <3>2. CASE NextStage(p) /\ Ahead(p) # {}
      BY <1>0, <2>1, <3>2 DEF NextStage, Ahead, ImportStates
    <3>3. CASE NextStage(p) /\ Ahead(p) = {}
      <4>1. GoTo(p, "publish") \/ End(p, "failed")
        BY <3>3 DEF NextStage, Ahead
      <4>2. CASE GoTo(p, "publish")
        BY <1>0, <4>2 DEF GoTo, ImportStates
      <4>3. CASE End(p, "failed")
        BY <1>0, <4>3 DEF End, NoImport
      <4>. QED  BY <4>1, <4>2, <4>3
    <3>. QED  BY <1>6, <3>1, <3>2, <3>3
  <2>. QED  BY <1>1, <2>1, <2>2, <2>3 DEF Found
<1>7. CASE Put(p) \/ Publish(p)
  <2>1. imp'[p].pc = "done"
    BY <1>0, <1>7 DEF Put, Publish, End, NoImport
  <2>. QED  BY <2>1
<1>8. CASE Throw(p)
  <2>1. history' = history /\ p \notin touched
    BY <1>8 DEF Throw
  <2>2. CASE imp[p].pc = "apply"
    <3>1. imp'[p].pc = "undo" /\ imp'[p].base = imp[p].base
      BY <1>0, <1>8, <2>2 DEF Throw, ImportStates
    <3>. QED  BY <1>1, <2>1, <2>2, <3>1 DEF Found
  <2>3. CASE imp[p].pc = "undo"
    <3>1. imp'[p].pc = "broken" /\ imp'[p].base = imp[p].base
      BY <1>0, <1>8, <2>3 DEF Throw, GoTo, ImportStates
    <3>. QED  BY <1>1, <2>1, <2>3, <3>1 DEF Found
  <2>4. CASE imp[p].pc \notin {"apply", "undo"}
    <3>1. imp'[p].pc = "failed"
      BY <1>0, <1>8, <2>4 DEF Throw, End, NoImport
    <3>. QED  BY <3>1
  <2>. QED  BY <2>2, <2>3, <2>4
<1>9. CASE Dies(p)
  <2>1. /\ imp'[p].pc = "crashed" /\ imp'[p].base = imp[p].base /\ imp[p].pc \in Busy
        /\ reg' = reg /\ history' = history /\ touched' = touched
    BY <1>0, <1>9 DEF Dies, GoTo, Active, ImportStates
  <2>. QED  BY <1>1, <2>1 DEF Found, Busy
<1>10. CASE Begins(p)
  BY <1>10 DEF Begins
<1>. QED  BY <1>2, <1>3, <1>4, <1>5, <1>6, <1>7, <1>8, <1>9, <1>10, OneOf DEF Step

LEMMA KeptWhenFound ==
  ASSUME Typed, \A p \in Procs : Found(p)
  PROVE  RestorePointKept
<1>. SUFFICES ASSUME NEW p \in Procs, imp[p].pc \in {"apply", "undo", "publish", "broken", "crashed"},
                     reg # imp[p].base, p \notin touched, Cardinality(Beyond) <= HistoryCap
              PROVE  \E i \in DOMAIN history :
                       LET h == history[i]
                           was == imp[p].base
                       IN /\ <<h.services, h.groups, h.rules, h.orgs>>
                               = <<was.services, was.groups, was.rules, was.orgs>>
                          /\ \A s \in was.services : h.roles[s] = was.roles[s] /\ h.maps[s] = was.maps[s]
  BY DEF RestorePointKept
<1>. DEFINE was == imp[p].base
            h == Export(was)
<1>1. InHistory(p) /\ history \in Seq(Registry)
  BY DEF Found, Typed, ImportsTyped, SharedTyped
<1>2. PICK i \in DOMAIN history : history[i] = Export(imp[p].base)
  BY <1>1 DEF InHistory
<1>3. was \in Registry
  BY DEF Typed, ImportsTyped, ImportTyped
<1>. HIDE DEF was
<1>4. /\ Names(was).services = was.services /\ Names(was).groups = was.groups
      /\ Names(was).rules = was.rules /\ Names(was).orgs = was.orgs /\ Names(was) \in Registry
  BY <1>3, ReadsAreTyped DEF Names, Empty
<1>5. /\ h.services = was.services /\ h.groups = was.groups
      /\ h.rules = was.rules /\ h.orgs = was.orgs
      /\ \A s \in was.services : h.roles[s] = was.roles[s] /\ h.maps[s] = was.maps[s]
  BY <1>3, <1>4 DEF Export, WithKeys, Registry
<1>. QED  BY <1>2, <1>5 DEF was

(* "BEFORE any write so a partial failure and any later regret both have a full  *)
(* restore point": as long as no more than IMPORT_HISTORY_CAP imports have come  *)
(* to push, an import that may have written, beside which nobody else wrote, has *)
(* its snapshot in the history, also when it was given up or its process died.   *)
THEOREM RestorePointsAreKept == Spec => []RestorePointKept
<1>1. Init => \A p \in Procs : Found(p)
  BY DEF Init, Found, NoImport
<1>2. Typed /\ (\A p \in Procs : Found(p)) /\ [Next]_vars => (\A p \in Procs : Found(p))'
  BY FoundStep
<1>3. Typed /\ (\A p \in Procs : Found(p)) => RestorePointKept
  BY KeptWhenFound
<1>. QED  BY <1>1, <1>2, <1>3, InitTyped, StepTyped, PTL DEF Spec

-----------------------------------------------------------------------------
(* What a seed may not take.                                               *)

\* The operator's data after a registry has become new.
Respects(new) ==
  /\ \A i \in RuleIds \ BuiltInRules : new.rules[i] = reg.rules[i]
  /\ \A s \in Services : reg.maps[s] # None =>
       /\ reg.maps[s] \subseteq new.maps[s]
       /\ \A p \in new.maps[s] \ reg.maps[s], q \in reg.maps[s] : q[1] = p[1] => q \in BuiltInRoutes
  /\ \A g \in Groups : reg.groups[g] # None => reg.groups[g] \subseteq new.groups[g]
  /\ \A s \in Services : reg.roles[s] \subseteq new.roles[s]

\* A step that writes, by what it has just read, respects it.
LEMMA ResultRespects ==
  ASSUME reg \in Registry, NEW step \in RunSteps, step[1] \in Reads, NEW code \in Codes
  PROVE  Respects(Result(step, Seen(step), code))
<1>. DEFINE new == Result(step, Seen(step), code)
<1>1. \A g \in Groups : \A v : (reg.groups[g] = None \/ reg.groups[g] \subseteq v)
                              => Respects([reg EXCEPT !.groups[g] = v])
  BY DEF Respects, Registry
<1>2. Respects(reg)
  BY DEF Respects
<1>3. CASE step[1] = "bind"
  <2>1. step[2] \in Groups /\ Seen(step) = reg.groups[step[2]]
    BY <1>3, StepShape DEF Seen
  <2>2. new = IF Seen(step) = None THEN reg ELSE [reg EXCEPT !.groups[step[2]] = Seen(step) \cup {"kuma"}]
    BY <1>3 DEF Result
  <2>. QED  BY <1>1, <1>2, <2>1, <2>2
<1>4. CASE step[1] = "ensure"
  <2>1. step[2] \in Groups /\ Seen(step) = reg.groups[step[2]]
    BY <1>4, StepShape DEF Seen
  <2>2. new = IF Seen(step) = None THEN [reg EXCEPT !.groups[step[2]] = step[3]] ELSE reg
    BY <1>4 DEF Result
  <2>. QED  BY <1>1, <1>2, <2>1, <2>2
<1>5. CASE step[1] = "platform"
  <2>1. "platform-admins" \in Groups /\ Seen(step) = reg.groups["platform-admins"]
    BY <1>5, BootstrapAssumption DEF Seen
  <2>2. new = IF Seen(step) = None THEN [reg EXCEPT !.groups["platform-admins"] = {"global"}] ELSE reg
    BY <1>5 DEF Result
  <2>. QED  BY <1>1, <1>2, <2>1, <2>2
<1>6. CASE step[1] = "kumaMap"
  <2>1. Seen(step) = reg.maps["kuma"]
    BY <1>6 DEF Seen
  <2>2. new = IF Seen(step) = None THEN [reg EXCEPT !.maps["kuma"] = {}] ELSE reg
    BY <1>6 DEF Result
  <2>3. reg.maps["kuma"] = None => Respects([reg EXCEPT !.maps["kuma"] = {}])
    BY DEF Respects, Registry
  <2>. QED  BY <1>2, <2>1, <2>2, <2>3
<1>7. CASE step[1] = "rules"
  <2>1. new = [reg EXCEPT !.rules = MergeRules(reg.rules, code)]
    BY <1>7 DEF Result, Seen
  <2>2. \A i \in RuleIds \ BuiltInRules : MergeRules(reg.rules, code)[i] = reg.rules[i]
    BY DEF MergeRules
  <2>. QED  BY <2>1, <2>2 DEF Respects, Registry
<1>8. CASE step[1] = "routes"
  <2>. DEFINE old == IF reg.maps["jinbe"] = None THEN {} ELSE reg.maps["jinbe"]
              all == MergeRoutes(old)
  <2>1. new = IF all = old THEN reg ELSE [reg EXCEPT !.maps["jinbe"] = all]
    BY <1>8 DEF Result, Seen
  <2>2. /\ old \subseteq all
        /\ \A p \in all \ old, q \in old : q[1] = p[1] => q \in BuiltInRoutes
    BY DEF MergeRoutes
  <2>. HIDE DEF all
  <2>3. Respects([reg EXCEPT !.maps["jinbe"] = all])
    BY <2>2 DEF Respects, Registry
  <2>. QED  BY <1>2, <2>1, <2>3
<1>9. CASE step[1] = "orgAdmin"
  <2>1. new = IF "org_admin" \in reg.roles[step[2]] THEN reg
              ELSE [reg EXCEPT !.roles[step[2]] = reg.roles[step[2]] \cup {"org_admin"}]
    BY <1>9 DEF Result, Seen
  <2>2. Respects([reg EXCEPT !.roles[step[2]] = reg.roles[step[2]] \cup {"org_admin"}])
    BY DEF Respects, Registry
  <2>. QED  BY <1>2, <2>1, <2>2
<1>. QED  BY <1>3, <1>4, <1>5, <1>6, <1>7, <1>8, <1>9 DEF Reads

\* Only Do changes the registry and the place of a run at once.
LEMMA OnlyDoWrites ==
  ASSUME Typed, [Next]_vars, NEW r \in Runners, run'[r] # run[r], reg' # reg
  PROVE  Do(r)
<1>1. ASSUME NEW q \in Runners, Runs(q) PROVE Do(r)
  <2>1. CASE (Step(q) \/ Throw(q)) /\ UNCHANGED bootVars
    BY <2>1 DEF bootVars
  <2>2. CASE Do(q)
    <3>1. q = r
      BY <2>2 DEF Do, Goes, Typed, RunsTyped
    <3>. QED  BY <2>2, <3>1
  <2>3. CASE \/ Start(q) \/ Clear(q) \/ Decide(q) \/ Restore(q) \/ Restored(q) \/ Check(q) \/ Look(q)
             \/ Tag(q) \/ SeedAdmin(q) \/ Mark(q) \/ Unlock(q) \/ RunThrows(q) \/ RunDies(q)
    BY <2>3 DEF Start, Clear, Decide, Restore, Restored, Check, Look, Tag, SeedAdmin, Mark, Unlock,
                RunThrows, RunDies, bundleVars
  <2>. QED  BY <1>1, <2>1, <2>2, <2>3 DEF Runs
<1>2. ~UNCHANGED vars /\ ~Lapse
  BY DEF vars, bundleVars, Lapse
<1>3. ~(Serving /\ Edit /\ UNCHANGED bootVars) /\ ~(\E p \in Procs \ Runners : Requests(p))
  BY DEF bootVars, Requests
<1>. QED  BY <1>1, <1>2, <1>3 DEF Next

(* mergeJinbeRouteMap, upsertBuiltInRules and the seeders that look first: a run *)
(* that writes what it has just read keeps the operator's rules, routes, groups  *)
(* and roles, whatever the operator has made of them.                            *)
THEOREM SeedsRespectOperators == Spec => OperatorsWordStands
<1>1. ASSUME Typed, [Next]_vars, NEW r \in Runners, run'[r] # run[r], reg' # reg,
             run[r].saw # <<>>, run[r].saw[1] = Seen(Now(r))
      PROVE  /\ \A i \in RuleIds \ BuiltInRules : reg'.rules[i] = reg.rules[i]
             /\ \A s \in Services : reg.maps[s] # None =>
                  /\ reg.maps[s] \subseteq reg'.maps[s]
                  /\ \A p \in reg'.maps[s] \ reg.maps[s], q \in reg.maps[s] :
                       q[1] = p[1] => q \in BuiltInRoutes
             /\ \A g \in Groups : reg.groups[g] # None => reg.groups[g] \subseteq reg'.groups[g]
             /\ \A s \in Services : reg.roles[s] \subseteq reg'.roles[s]
  <2>1. Do(r)
    BY <1>1, OnlyDoWrites
  <2>2. Now(r) \in RunSteps /\ run[r].code \in Codes /\ Now(r)[1] \in Reads /\ reg \in Registry
    BY <1>1, <2>1, AtItsStep DEF Do, Typed, RunsTyped, RunTyped, ImportsTyped, SharedTyped
  <2>3. reg' = Result(Now(r), Seen(Now(r)), run[r].code)
    BY <1>1, <2>1, <2>2 DEF Do, Writes
  <2>. DEFINE new == Result(Now(r), Seen(Now(r)), run[r].code)
  <2>4. Respects(new)
    BY <2>2, ResultRespects
  <2>. HIDE DEF new
  <2>. QED  BY <2>3, <2>4 DEF Respects, new
<1>2. Typed /\ [Next]_vars
        => [\A r \in Runners :
              run'[r] # run[r] /\ reg' # reg /\ run[r].saw # <<>> /\ run[r].saw[1] = Seen(Now(r))
              => /\ \A i \in RuleIds \ BuiltInRules : reg'.rules[i] = reg.rules[i]
                 /\ \A s \in Services : reg.maps[s] # None =>
                      /\ reg.maps[s] \subseteq reg'.maps[s]
                      /\ \A p \in reg'.maps[s] \ reg.maps[s], q \in reg.maps[s] :
                           q[1] = p[1] => q \in BuiltInRoutes
                 /\ \A g \in Groups : reg.groups[g] # None => reg.groups[g] \subseteq reg'.groups[g]
                 /\ \A s \in Services : reg.roles[s] \subseteq reg'.roles[s]]_vars
  BY <1>1
<1>. QED  BY <1>2, InitTyped, StepTyped, PTL DEF Spec, OperatorsWordStands
=============================================================================
