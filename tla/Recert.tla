------------------------------- MODULE Recert -------------------------------
(***************************************************************************)
(* One access-recertification campaign: recert.service.ts, its keys in     *)
(* redis-recert.repository.ts and the hourly sweep of                      *)
(* recert-scheduler.service.ts.  A campaign turns the members of its       *)
(* groups into items, reviewers decide them, and the deadline resolves the *)
(* rest.  Activation, decisions and closing run under the redis lock       *)
(* recert:<id>; deletion takes no lock.  Every redis or Kratos call is a   *)
(* step of its own, and after each of them the process may die.            *)
(*                                                                         *)
(* A handler stands for one request.  Who decides (the assigned reviewer   *)
(* or an admin, never the subject) and the comment of a revoke are         *)
(* abstracted to a decision that may be refused.                           *)
(***************************************************************************)
EXTENDS Naturals

CONSTANTS
  Handlers,      \* requests
  Sweepers,      \* replicas that run the deadline job
  NoOne, Dead,   \* the lock: free, held by a process that has died
  NoReport,
  Users,
  Entitlements,  \* memberships in the scope of the campaign; never of 'users'
  Subject,       \* the user of a membership
  MaxBatches,    \* bound: how often items are generated
  MaxFaults      \* bound: how many processes die or see a redis error

Workers == Handlers \cup Sweepers
Batches == 1..MaxBatches
Items   == Entitlements \X Batches   \* an item of each generation has a UUID of its own

ASSUME WorkerAssumption == NoOne \notin Workers /\ Dead \notin Workers /\ NoOne # Dead
ASSUME DisjointAssumption == Handlers \cap Sweepers = {}
ASSUME BoundAssumption == MaxBatches \in Nat /\ MaxFaults \in Nat
ASSUME SubjectAssumption == Subject \in [Entitlements -> Users]

VARIABLES
  status,     \* of the campaign
  onExpiry,   \* the consequence for items still pending at the end
  overdue,    \* the deadline has passed
  item,       \* rbac:recert:items:<id>, decision and outcome in one
  inbox,      \* rbac:recert:inbox:*
  report,     \* rbac:recert:reports
  member,     \* the memberships as Kratos has them
  gone,       \* users deleted since
  stripped,   \* the memberships the campaign has removed, or found removed
  lock,       \* recert:<id>
  claim,      \* rbac:recert:scheduler:running
  raced,      \* someone has run past a lease, or beside a deletion
  batches, faults,
  op, mine, verdict, todo, pc   \* of each worker

campaign == <<status, onExpiry, overdue>>
store    == <<item, inbox, report>>
kratos   == <<member, gone, stripped>>
control  == <<lock, claim, raced, faults>>
locals   == <<op, mine, verdict, todo>>
vars     == <<campaign, store, kratos, control, batches, locals, pc>>

\* Closing resolves a pending item by its outcome and leaves its decision.
Pending  == {"pending", "auto-revoked", "flagged"}
Approved == {"approved", "kept"}
States   == Pending \cup Approved \cup {"none", "revoke-applied"}

\* Deletion has stages of its own: it takes no lock.
Deleting == {"del-read", "del-inbox", "del-campaign"}
Stages == {"idle", "wait", "check", "store", "inbox", "open", "shut", "list", "next",
           "strip", "record", "unlist", "count", "final", "keep", "complete", "report",
           "release", "done"} \cup Deleting

TypeOK ==
  /\ status \in {"new", "draft", "active", "closing", "completed", "deleted"}
  /\ onExpiry \in {"revoke", "flag"} /\ overdue \in BOOLEAN
  /\ item \in [Items -> States] /\ inbox \in SUBSET Items
  /\ report \in [Items -> States] \cup {NoReport}
  /\ member \in SUBSET Entitlements /\ gone \in SUBSET Users /\ stripped \in SUBSET Entitlements
  /\ lock \in Workers \cup {NoOne, Dead} /\ claim \in BOOLEAN /\ raced \in BOOLEAN
  /\ batches \in 0..MaxBatches /\ faults \in 0..MaxFaults
  /\ op \in [Workers -> {"none", "activate", "decide", "close", "delete"}]
  /\ mine \in [Workers -> Items \cup {NoOne}]
  /\ verdict \in [Workers -> {"approved", "revoke-applied"}]
  /\ todo \in [Workers -> SUBSET Items]
  /\ pc \in [Workers -> Stages]

Init ==
  /\ status = "new" /\ onExpiry = "flag" /\ overdue = FALSE
  /\ item = [i \in Items |-> "none"] /\ inbox = {} /\ report = NoReport
  /\ member = Entitlements /\ gone = {} /\ stripped = {}
  /\ lock = NoOne /\ claim = FALSE /\ raced = FALSE
  /\ batches = 0 /\ faults = 0
  /\ op = [w \in Workers |-> "none"]
  /\ mine = [w \in Workers |-> NoOne]
  /\ verdict = [w \in Workers |-> "approved"]
  /\ todo = [w \in Workers |-> {}]
  /\ pc = [w \in Workers |-> "idle"]

Goto(w, s)   == pc' = [pc EXCEPT ![w] = s]
SetTodo(w, s) == todo' = [todo EXCEPT ![w] = s]
Over(w)      == IF w \in Sweepers THEN "idle" ELSE "done"

-----------------------------------------------------------------------------
(* The environment.                                                        *)

\* createCampaign; the deadline must lie in the future.
Create ==
  /\ status = "new"
  /\ status' = "draft"
  /\ onExpiry' \in {"revoke", "flag"}
  /\ UNCHANGED <<overdue, store, kratos, control, batches, locals, pc>>

DeadlinePasses ==
  /\ status # "new" /\ ~overdue
  /\ overdue' = TRUE
  /\ UNCHANGED <<status, onExpiry, store, kratos, control, batches, locals, pc>>

\* An identity is deleted in Kratos; its items stay.
DeleteUser(u) ==
  /\ u \notin gone
  /\ gone' = gone \cup {u}
  /\ member' = {e \in member : Subject[e] # u}
  /\ UNCHANGED <<campaign, store, stripped, control, batches, locals, pc>>

\* The bug of a claim without PX.
ClaimSticks ==
  /\ claim
  /\ UNCHANGED vars

ClaimExpires ==
  /\ claim
  /\ claim' = FALSE
  /\ UNCHANGED <<campaign, store, kratos, lock, raced, faults, batches, locals, pc>>

-----------------------------------------------------------------------------
(* Requests and the sweep; the lock.                                       *)

StartActivate(w) ==
  /\ w \in Handlers /\ pc[w] = "idle" /\ status # "new"
  /\ op' = [op EXCEPT ![w] = "activate"]
  /\ Goto(w, "wait")
  /\ UNCHANGED <<campaign, store, kratos, control, batches, mine, verdict, todo>>

\* The route has found the item, and the caller is its reviewer or an admin.
StartDecide(w) ==
  /\ w \in Handlers /\ pc[w] = "idle"
  /\ \E i \in Items :
       /\ status # "new" /\ item[i] # "none"
       /\ mine' = [mine EXCEPT ![w] = i]
  /\ \E v \in {"approved", "revoke-applied"} : verdict' = [verdict EXCEPT ![w] = v]
  /\ op' = [op EXCEPT ![w] = "decide"]
  /\ Goto(w, "wait")
  /\ UNCHANGED <<campaign, store, kratos, control, batches, todo>>

StartClose(w) ==
  /\ w \in Handlers /\ pc[w] = "idle" /\ status # "new"
  /\ op' = [op EXCEPT ![w] = "close"]
  /\ Goto(w, "wait")
  /\ UNCHANGED <<campaign, store, kratos, control, batches, mine, verdict, todo>>

StartDelete(w) ==
  /\ w \in Handlers /\ pc[w] = "idle" /\ status # "new"
  /\ op' = [op EXCEPT ![w] = "delete"]
  /\ Goto(w, "del-read")
  /\ UNCHANGED <<campaign, store, kratos, control, batches, mine, verdict, todo>>

\* The cron fires on a replica that wins the claim: it closes a campaign that
\* is active and overdue.
StartSweep(w) ==
  /\ w \in Sweepers /\ pc[w] = "idle"
  /\ ~claim /\ claim' = TRUE
  /\ status = "active" /\ overdue
  /\ op' = [op EXCEPT ![w] = "close"]
  /\ Goto(w, "wait")
  /\ UNCHANGED <<campaign, store, kratos, lock, raced, faults, batches, mine, verdict, todo>>

Acquire(w) ==
  /\ pc[w] = "wait"
  /\ lock = NoOne
  /\ lock' = w
  /\ raced' = (raced \/ \E v \in Workers : pc[v] \in Deleting)
  /\ Goto(w, "check")
  /\ UNCHANGED <<campaign, store, kratos, claim, faults, batches, locals>>

\* 503 after waitMs; the sweep logs it and waits for its next hour.
Busy(w) ==
  /\ pc[w] = "wait"
  /\ lock # NoOne
  /\ Goto(w, Over(w))
  /\ UNCHANGED <<campaign, store, kratos, control, batches, locals>>

\* The EVAL may fail; the key then waits for its TTL.
Release(w) ==
  /\ pc[w] = "release"
  /\ lock' \in IF lock = w THEN {NoOne, Dead} ELSE {lock}
  /\ Goto(w, Over(w))
  /\ UNCHANGED <<campaign, store, kratos, claim, raced, faults, batches, locals>>

\* The TTL of 10 s runs out, whether its holder has died or only takes longer
\* (a directory walk, one Kratos update per item).
Lapse ==
  /\ lock # NoOne
  /\ lock' = NoOne
  /\ raced' = (raced \/ lock # Dead)
  /\ UNCHANGED <<campaign, store, kratos, claim, faults, batches, locals, pc>>

\* The process dies between two calls; the lock stays until its TTL.
Crash(w) ==
  /\ pc[w] \notin {"idle", "done"}
  /\ faults < MaxFaults
  /\ faults' = faults + 1
  /\ lock' = IF lock = w THEN Dead ELSE lock
  /\ Goto(w, Over(w))
  /\ UNCHANGED <<campaign, store, kratos, claim, raced, batches, locals>>

\* Redis answers with an error; the exception leaves through withRedisLock.
RedisFails(w) ==
  /\ pc[w] \notin {"idle", "wait", "strip", "release", "done"}
  /\ faults < MaxFaults
  /\ faults' = faults + 1
  /\ Goto(w, IF pc[w] \in Deleting THEN "done" ELSE "release")
  /\ UNCHANGED <<campaign, store, kratos, lock, claim, raced, batches, locals>>

-----------------------------------------------------------------------------
(* activateCampaign.                                                       *)

\* The campaign is draft; generateItems makes one item per member of a group
\* in scope.  The directory may be a cached one that still has deleted users.
Generate(w) ==
  /\ pc[w] = "check" /\ op[w] = "activate"
  /\ status = "draft"
  /\ batches < MaxBatches
  /\ batches' = batches + 1
  /\ \E stale \in SUBSET {e \in Entitlements : Subject[e] \in gone} :
       SetTodo(w, (member \cup stale) \X {batches'})
  /\ Goto(w, "store")
  /\ UNCHANGED <<campaign, store, kratos, control, op, mine, verdict>>

\* The bug of an activation that publishes before it fills the inboxes.
OpenFirst(w) ==
  /\ pc[w] = "store"
  /\ item' = [i \in Items |-> IF i \in todo[w] THEN "pending" ELSE item[i]]
  /\ status' = "active"
  /\ Goto(w, "inbox")
  /\ UNCHANGED <<onExpiry, overdue, inbox, report, kratos, control, batches, locals>>

StoreItems(w) ==
  /\ pc[w] = "store"
  /\ item' = [i \in Items |-> IF i \in todo[w] THEN "pending" ELSE item[i]]
  /\ Goto(w, "inbox")
  /\ UNCHANGED <<campaign, inbox, report, kratos, control, batches, locals>>

AddToInbox(w) ==
  /\ pc[w] = "inbox"
  /\ \E i \in todo[w] :
       /\ inbox' = inbox \cup {i}
       /\ SetTodo(w, todo[w] \ {i})
  /\ UNCHANGED <<campaign, item, report, kratos, control, batches, op, mine, verdict, pc>>

\* setCampaign writes the whole record, whatever is there by now.
Open(w) ==
  /\ pc[w] = "inbox" /\ todo[w] = {}
  /\ status' = "active"
  /\ Goto(w, "release")
  /\ UNCHANGED <<onExpiry, overdue, store, kratos, control, batches, locals>>

-----------------------------------------------------------------------------
(* decide.                                                                 *)

\* The bug of a decision that does not look at the campaign.
DecideAnyTime(w) ==
  /\ pc[w] = "check" /\ op[w] = "decide"
  /\ item[mine[w]] \in Pending
  /\ Goto(w, IF verdict[w] = "approved" THEN "record" ELSE "strip")
  /\ UNCHANGED <<campaign, store, kratos, control, batches, locals>>

\* The campaign is active and the item undecided.
ReadForDecide(w) ==
  /\ pc[w] = "check" /\ op[w] = "decide"
  /\ status = "active"
  /\ item[mine[w]] \in Pending
  /\ Goto(w, IF verdict[w] = "approved" THEN "record" ELSE "strip")
  /\ UNCHANGED <<campaign, store, kratos, control, batches, locals>>

\* A check fails (status, decided already, self-review, no comment), or the
\* directory cannot be read: no write.  A close is only refused by its status.
Refuse(w) ==
  /\ pc[w] = "check"
  /\ op[w] = "close" => status # "active"
  /\ Goto(w, "release")
  /\ UNCHANGED <<campaign, store, kratos, control, batches, locals>>

\* removeGroupMembership: a subject that does not hold the group is a no-op.
\* The races of its read and write with other writers are those of UserGroups.
Strip(w) ==
  /\ pc[w] = "strip"
  /\ Subject[mine[w][1]] \notin gone
  /\ member' = member \ {mine[w][1]}
  /\ stripped' = stripped \cup {mine[w][1]}
  /\ Goto(w, "record")
  /\ UNCHANGED <<campaign, store, gone, control, batches, locals>>

\* The bug of a revoke that is recorded although Kratos refused it.
StripIgnored(w) ==
  /\ pc[w] = "strip"
  /\ Goto(w, "record")
  /\ UNCHANGED <<campaign, store, kratos, control, batches, locals>>

\* getUserGroups answers 404 for a deleted user, Kratos is down, or it has
\* applied the PUT and its reply is lost.
StripFails(w) ==
  /\ pc[w] = "strip"
  /\ \/ UNCHANGED <<member, stripped>>
     \/ /\ Subject[mine[w][1]] \notin gone
        /\ member' = member \ {mine[w][1]}
        /\ stripped' = stripped \cup {mine[w][1]}
  /\ Goto(w, "release")
  /\ UNCHANGED <<campaign, store, gone, control, batches, locals>>

\* The bug of an outcome that repeats the decision.
OutcomeIsDecision(w) ==
  IF op[w] = "decide" /\ verdict[w] = "revoke-applied" THEN "revoked" ELSE verdict[w]

Outcome(w) ==
  IF op[w] = "decide" THEN verdict[w]
  ELSE IF onExpiry = "revoke" THEN "auto-revoked" ELSE "flagged"

Record(w) ==
  /\ pc[w] = "record"
  /\ item' = [item EXCEPT ![mine[w]] = Outcome(w)]
  /\ Goto(w, "unlist")
  /\ UNCHANGED <<campaign, inbox, report, kratos, control, batches, locals>>

Unlist(w) ==
  /\ pc[w] = "unlist"
  /\ inbox' = inbox \ {mine[w]}
  /\ Goto(w, IF op[w] = "decide" THEN "count" ELSE "next")
  /\ UNCHANGED <<campaign, item, report, kratos, control, batches, locals>>

\* The last pending decision completes the campaign.
CountPending(w) ==
  /\ pc[w] = "count"
  /\ Goto(w, IF \E i \in Items : item[i] \in Pending THEN "release" ELSE "final")
  /\ UNCHANGED <<campaign, store, kratos, control, batches, locals>>

-----------------------------------------------------------------------------
(* closeCampaign.                                                          *)

ReadForClose(w) ==
  /\ pc[w] = "check" /\ op[w] = "close"
  /\ status = "active"
  /\ Goto(w, "shut")
  /\ UNCHANGED <<campaign, store, kratos, control, batches, locals>>

Shut(w) ==
  /\ pc[w] = "shut"
  /\ status' = "closing"
  /\ Goto(w, "list")
  /\ UNCHANGED <<onExpiry, overdue, store, kratos, control, batches, locals>>

\* The bug of a close that resolves the approved items as well.
ListAll(w) ==
  /\ pc[w] = "list"
  /\ SetTodo(w, {i \in Items : item[i] \in Pending \cup Approved})
  /\ Goto(w, "next")
  /\ UNCHANGED <<campaign, store, kratos, control, batches, op, mine, verdict>>

ListPending(w) ==
  /\ pc[w] = "list"
  /\ SetTodo(w, {i \in Items : item[i] \in Pending})
  /\ Goto(w, "next")
  /\ UNCHANGED <<campaign, store, kratos, control, batches, op, mine, verdict>>

NextItem(w) ==
  /\ pc[w] = "next"
  /\ \E i \in todo[w] :
       /\ mine' = [mine EXCEPT ![w] = i]
       /\ SetTodo(w, todo[w] \ {i})
  /\ Goto(w, IF onExpiry = "revoke" THEN "strip" ELSE "record")
  /\ UNCHANGED <<campaign, store, kratos, control, batches, op, verdict>>

AllResolved(w) ==
  /\ pc[w] = "next" /\ todo[w] = {}
  /\ Goto(w, "final")
  /\ UNCHANGED <<campaign, store, kratos, control, batches, locals>>

-----------------------------------------------------------------------------
(* finalize.                                                               *)

ListApproved(w) ==
  /\ pc[w] = "final"
  /\ SetTodo(w, {i \in Items : item[i] = "approved"})
  /\ Goto(w, "keep")
  /\ UNCHANGED <<campaign, store, kratos, control, batches, op, mine, verdict>>

Keep(w) ==
  /\ pc[w] = "keep"
  /\ \E i \in todo[w] :
       /\ item' = [item EXCEPT ![i] = "kept"]
       /\ SetTodo(w, todo[w] \ {i})
  /\ UNCHANGED <<campaign, inbox, report, kratos, control, batches, op, mine, verdict, pc>>

Complete(w) ==
  /\ pc[w] = "keep" /\ todo[w] = {}
  /\ status' = "completed"
  /\ Goto(w, "report")
  /\ UNCHANGED <<onExpiry, overdue, store, kratos, control, batches, locals>>

\* The bug of a report built from the items as they were before finalize.
FreezeFirstRead(w) ==
  /\ pc[w] = "report"
  /\ report' = IF report = NoReport
                 THEN [i \in Items |-> IF item[i] = "kept" THEN "approved" ELSE item[i]]
                 ELSE report
  /\ Goto(w, "release")
  /\ UNCHANGED <<campaign, item, inbox, kratos, control, batches, locals>>

\* setReport is HSETNX: a report is written once.
Freeze(w) ==
  /\ pc[w] = "report"
  /\ report' = IF report = NoReport THEN item ELSE report
  /\ Goto(w, "release")
  /\ UNCHANGED <<campaign, item, inbox, kratos, control, batches, locals>>

-----------------------------------------------------------------------------
(* deleteCampaign, without the lock.                                       *)

ReadForDelete(w) ==
  /\ pc[w] = "del-read"
  /\ IF status = "draft"
       THEN /\ SetTodo(w, {i \in Items : item[i] # "none"})
            /\ Goto(w, "del-inbox")
            /\ raced' = (raced \/ lock \in Workers)
       ELSE Goto(w, "done") /\ UNCHANGED <<todo, raced>>
  /\ UNCHANGED <<campaign, store, kratos, lock, claim, faults, batches, op, mine, verdict>>

DeleteRef(w) ==
  /\ pc[w] = "del-inbox"
  /\ \E i \in todo[w] :
       /\ inbox' = inbox \ {i}
       /\ SetTodo(w, todo[w] \ {i})
  /\ UNCHANGED <<campaign, item, report, kratos, control, batches, op, mine, verdict, pc>>

DeleteItems(w) ==
  /\ pc[w] = "del-inbox" /\ todo[w] = {}
  /\ item' = [i \in Items |-> "none"]
  /\ Goto(w, "del-campaign")
  /\ UNCHANGED <<campaign, inbox, report, kratos, control, batches, locals>>

DeleteCampaign(w) ==
  /\ pc[w] = "del-campaign"
  /\ status' = "deleted"
  /\ Goto(w, "done")
  /\ UNCHANGED <<onExpiry, overdue, store, kratos, control, batches, locals>>

-----------------------------------------------------------------------------
Start(w) ==
  StartActivate(w) \/ StartDecide(w) \/ StartClose(w) \/ StartDelete(w) \/ StartSweep(w)

Step(w) ==
  \/ Acquire(w) \/ Busy(w) \/ Release(w)
  \/ Generate(w) \/ StoreItems(w) \/ AddToInbox(w) \/ Open(w)
  \/ ReadForDecide(w) \/ Refuse(w) \/ Strip(w) \/ StripFails(w)
  \/ Record(w) \/ Unlist(w) \/ CountPending(w)
  \/ ReadForClose(w) \/ Shut(w) \/ ListPending(w) \/ NextItem(w) \/ AllResolved(w)
  \/ ListApproved(w) \/ Keep(w) \/ Complete(w) \/ Freeze(w)
  \/ ReadForDelete(w) \/ DeleteRef(w) \/ DeleteItems(w) \/ DeleteCampaign(w)

Next ==
  \/ Create \/ DeadlinePasses \/ ClaimExpires \/ Lapse
  \/ \E u \in Users : DeleteUser(u)
  \/ \E w \in Workers : Start(w) \/ Step(w) \/ Crash(w) \/ RedisFails(w)

(***************************************************************************)
(* Fairness: what a process has begun it goes on with, redis expires keys, *)
(* and the cron fires.  No request has to arrive, and nothing has to       *)
(* succeed.                                                                *)
(***************************************************************************)
Fairness ==
  /\ WF_vars(ClaimExpires) /\ WF_vars(Lapse)
  /\ \A w \in Workers : WF_vars(Step(w))
  /\ \A w \in Sweepers : WF_vars(StartSweep(w))

Spec == Init /\ [][Next]_vars /\ Fairness

-----------------------------------------------------------------------------
(* Properties.                                                             *)

\* "frozen completion report": what the auditor reads is what the items say, for
\* ever, as long as no writer ran past its lease or beside a deletion.
ReportTruthful == report # NoReport /\ ~raced => report = item

\* An item that says its membership was removed is right about it: the outcome
\* is written after Kratos has answered.
OutcomeApplied ==
  \A i \in Items : item[i] \in {"revoke-applied", "auto-revoked"} => i[1] \in stripped

\* A reviewer finds in the inbox every item that is waiting for a decision,
\* except those a failed activation left behind.
InboxShowsPending ==
  status = "active" /\ ~raced =>
    \A i \in Items : item[i] = "pending" /\ i[2] = batches => i \in inbox

\* "two simultaneous decisions on one item: only one wins", and closing does
\* not touch what was decided.
DecisionsStand ==
  [][~raced' => \A i \in Items :
       /\ item[i] \in Approved => item'[i] \in Approved
       /\ item[i] = "revoke-applied" => item'[i] = "revoke-applied"]_vars

\* The campaign never removes a membership that a reviewer approved, unless a
\* failed activation left two items for it.
Twice(e) == \E i, j \in Items : i # j /\ i[1] = e /\ j[1] = e /\ "none" \notin {item[i], item[j]}

ApprovedSurvives ==
  [][\A e \in stripped' \ stripped :
       raced \/ Twice(e) \/ \A i \in Items : i[1] = e => item[i] \notin Approved]_vars

\* An overdue campaign does not stay open for decisions: whoever fails, a later
\* sweep gets to it.
OverdueIsClosed == (status = "active" /\ overdue) ~> status # "active"

\* "any whose deadline has passed is closed ... and the completion report is
\* frozen", as the comment of the scheduler says it (runs past a lease and
\* beside a deletion aside).
OverdueIsReported ==
  (status = "active" /\ overdue) ~> (report # NoReport \/ raced)

\* "one ReviewItem per (user, group) in scope" (the same aside).
OneItemPerEntitlement == status = "active" /\ ~raced => \A e \in Entitlements : ~Twice(e)
=============================================================================
