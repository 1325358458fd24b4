---------------------------- MODULE Recert_proofs ----------------------------
(***************************************************************************)
(* Proofs about Recert, for any number of requests, sweeping replicas,     *)
(* users, memberships, repeated activations and faults.                    *)
(***************************************************************************)
EXTENDS Recert, TLAPS

\* The stages of a section under the lock, and those of a deletion that has
\* found a draft.
Inside  == Stages \ ({"idle", "wait", "done"} \cup Deleting)
Erasing == {"del-inbox", "del-campaign"}
Filling == {"store", "inbox"}

\* Whose stages they are.
Roles ==
  \A w \in Workers :
    /\ pc[w] \notin {"idle", "done"} => status # "new"
    /\ pc[w] \in {"wait", "check"} => op[w] \in {"activate", "decide", "close"}
    /\ pc[w] \in {"wait", "check"} /\ op[w] = "decide" => mine[w] \in Items
    /\ pc[w] \in {"strip", "record", "unlist"} => mine[w] \in Items /\ op[w] \in {"decide", "close"}
    /\ pc[w] \in {"shut", "list", "next"} => op[w] = "close"
    /\ pc[w] = "count" => op[w] = "decide"

\* An outcome that says the membership is gone is recorded after it went.
Earned ==
  \A w \in Workers :
    pc[w] = "record" /\ Outcome(w) \in {"revoke-applied", "auto-revoked"} => mine[w][1] \in stripped

\* What the section of w relies on, while nobody has run past a lease or beside
\* a deletion.
Section(w) ==
  /\ pc[w] \in Inside => lock = w
  /\ pc[w] \in Erasing => lock \notin Workers /\ status \in {"draft", "deleted"}
  /\ pc[w] \in Filling => status = "draft" /\ \A i \in todo[w] : i[2] = batches
  /\ pc[w] = "store" => \A i \in Items : i[2] = batches => item[i] = "none"
  /\ pc[w] = "inbox" =>
       \A i \in Items : i[2] = batches /\ item[i] = "pending" => i \in inbox \cup todo[w]
  /\ pc[w] = "shut" => status = "active"
  /\ pc[w] \in {"list", "next", "strip", "record", "unlist", "count", "final", "keep"}
       => status \in {"active", "closing"}
  /\ pc[w] \in {"strip", "record"} => item[mine[w]] \in Pending
  /\ pc[w] = "unlist" => item[mine[w]] # "pending"
  /\ pc[w] \in {"next", "strip", "record", "unlist"} /\ op[w] = "close"
       => \A i \in todo[w] : item[i] \in Pending
  /\ pc[w] = "keep" => \A i \in todo[w] : item[i] \in Approved
  /\ pc[w] = "report" => status = "completed"

\* What holds of the campaign meanwhile.
Frozen    == report # NoReport => status = "completed" /\ report = item
Listed    == status = "active" =>
               \A i \in Items : item[i] = "pending" /\ i[2] = batches => i \in inbox
Undecided == status \in {"new", "draft", "deleted"} =>
               \A i \in Items : item[i] \in {"none", "pending"}
Unborn    == \A i \in Items : i[2] > batches => item[i] = "none"

Campaign == Frozen /\ Listed /\ Undecided /\ Unborn
Quiet    == ~raced => Campaign /\ \A w \in Workers : Section(w)

IInv == TypeOK /\ Roles /\ Earned /\ OutcomeApplied /\ Quiet

-----------------------------------------------------------------------------
LEMMA InitInv == Init => IInv
<1>. SUFFICES ASSUME Init PROVE IInv  OBVIOUS
<1>1. TypeOK
  <2>1. item \in [Items -> States]  BY DEF Init, States
  <2>2. batches \in 0..MaxBatches /\ faults \in 0..MaxFaults  BY BoundAssumption DEF Init
  <2>. QED  BY <2>1, <2>2 DEF Init, TypeOK, Stages
<1>2. Roles /\ Earned /\ OutcomeApplied  BY DEF Init, Roles, Earned, OutcomeApplied
<1>3. Quiet  BY DEF Init, Quiet, Campaign, Frozen, Listed, Undecided, Unborn, Section,
                   Inside, Stages, Deleting, Erasing, Filling
<1>. QED  BY <1>1, <1>2, <1>3 DEF IInv

LEMMA StepTypes == TypeOK /\ Roles /\ [Next]_vars => TypeOK'
<1>. SUFFICES ASSUME TypeOK, Roles, [Next]_vars PROVE TypeOK'  OBVIOUS
<1>. USE DEF TypeOK, campaign, store, kratos, control, locals, Goto, SetTodo, Over, Stages, Deleting
<1>a. CASE UNCHANGED vars  BY <1>a DEF vars
<1>e1. ASSUME Create PROVE TypeOK'  BY <1>e1 DEF Create
<1>e2. ASSUME DeadlinePasses PROVE TypeOK'  BY <1>e2 DEF DeadlinePasses
<1>e3. ASSUME ClaimExpires PROVE TypeOK'  BY <1>e3 DEF ClaimExpires
<1>e4. ASSUME Lapse PROVE TypeOK'  BY <1>e4 DEF Lapse
<1>e5. ASSUME NEW u \in Users, DeleteUser(u) PROVE TypeOK'  BY <1>e5 DEF DeleteUser
<1>1. ASSUME NEW w \in Workers, StartActivate(w) PROVE TypeOK'  BY <1>1 DEF StartActivate
<1>2. ASSUME NEW w \in Workers, StartDecide(w) PROVE TypeOK'  BY <1>2 DEF StartDecide
<1>3. ASSUME NEW w \in Workers, StartClose(w) PROVE TypeOK'  BY <1>3 DEF StartClose
<1>4. ASSUME NEW w \in Workers, StartDelete(w) PROVE TypeOK'  BY <1>4 DEF StartDelete
<1>5. ASSUME NEW w \in Workers, StartSweep(w) PROVE TypeOK'  BY <1>5 DEF StartSweep
<1>6. ASSUME NEW w \in Workers, Acquire(w) PROVE TypeOK'  BY <1>6 DEF Acquire
<1>7. ASSUME NEW w \in Workers, Busy(w) PROVE TypeOK'  BY <1>7 DEF Busy
<1>8. ASSUME NEW w \in Workers, Release(w) PROVE TypeOK'  BY <1>8 DEF Release
<1>9. ASSUME NEW w \in Workers, Generate(w) PROVE TypeOK'
  <2>1. batches' = batches + 1 /\ batches + 1 \in 1..MaxBatches
    BY <1>9, BoundAssumption DEF Generate
  <2>2. PICK stale \in SUBSET Entitlements : todo' = [todo EXCEPT ![w] = (member \cup stale) \X {batches'}]
    BY <1>9 DEF Generate
  <2>3. (member \cup stale) \X {batches'} \subseteq Items  BY <2>1 DEF Items, Batches
  <2>4. todo' \in [Workers -> SUBSET Items]  BY <2>2, <2>3
  <2>. QED  BY <1>9, <2>1, <2>4 DEF Generate
<1>10. ASSUME NEW w \in Workers, StoreItems(w) PROVE TypeOK'
  <2>1. item' \in [Items -> States]  BY <1>10 DEF StoreItems, States, Pending
  <2>. QED  BY <1>10, <2>1 DEF StoreItems
<1>11. ASSUME NEW w \in Workers, AddToInbox(w) PROVE TypeOK'  BY <1>11 DEF AddToInbox
<1>12. ASSUME NEW w \in Workers, Open(w) PROVE TypeOK'  BY <1>12 DEF Open
<1>13. ASSUME NEW w \in Workers, ReadForDecide(w) PROVE TypeOK'  BY <1>13 DEF ReadForDecide
<1>14. ASSUME NEW w \in Workers, Refuse(w) PROVE TypeOK'  BY <1>14 DEF Refuse
<1>15. ASSUME NEW w \in Workers, Strip(w) PROVE TypeOK'
  <2>1. mine[w] \in Items  BY <1>15 DEF Strip, Roles
  <2>2. mine[w][1] \in Entitlements  BY <2>1 DEF Items
  <2>. QED  BY <1>15, <2>2 DEF Strip
<1>16. ASSUME NEW w \in Workers, StripFails(w) PROVE TypeOK'
  <2>1. mine[w] \in Items  BY <1>16 DEF StripFails, Roles
  <2>2. mine[w][1] \in Entitlements  BY <2>1 DEF Items
  <2>. QED  BY <1>16, <2>2 DEF StripFails
<1>17. ASSUME NEW w \in Workers, Record(w) PROVE TypeOK'
  <2>1. Outcome(w) \in States  BY DEF Outcome, States, Pending, Approved
  <2>. QED  BY <1>17, <2>1 DEF Record
<1>18. ASSUME NEW w \in Workers, Unlist(w) PROVE TypeOK'  BY <1>18 DEF Unlist
<1>19. ASSUME NEW w \in Workers, CountPending(w) PROVE TypeOK'  BY <1>19 DEF CountPending
<1>20. ASSUME NEW w \in Workers, ReadForClose(w) PROVE TypeOK'  BY <1>20 DEF ReadForClose
<1>21. ASSUME NEW w \in Workers, Shut(w) PROVE TypeOK'  BY <1>21 DEF Shut
<1>22. ASSUME NEW w \in Workers, ListPending(w) PROVE TypeOK'  BY <1>22 DEF ListPending
<1>23. ASSUME NEW w \in Workers, NextItem(w) PROVE TypeOK'  BY <1>23 DEF NextItem
<1>24. ASSUME NEW w \in Workers, AllResolved(w) PROVE TypeOK'  BY <1>24 DEF AllResolved
<1>25. ASSUME NEW w \in Workers, ListApproved(w) PROVE TypeOK'  BY <1>25 DEF ListApproved
<1>26. ASSUME NEW w \in Workers, Keep(w) PROVE TypeOK'
  <2>1. "kept" \in States  BY DEF States, Approved
  <2>. QED  BY <1>26, <2>1 DEF Keep
<1>27. ASSUME NEW w \in Workers, Complete(w) PROVE TypeOK'  BY <1>27 DEF Complete
<1>28. ASSUME NEW w \in Workers, Freeze(w) PROVE TypeOK'  BY <1>28 DEF Freeze
<1>29. ASSUME NEW w \in Workers, ReadForDelete(w) PROVE TypeOK'
  <2>1. UNCHANGED <<campaign, store, kratos, lock, claim, faults, batches, op, mine, verdict>>
    BY <1>29 DEF ReadForDelete
  <2>2. CASE status = "draft"
    <3>1. todo' = [todo EXCEPT ![w] = {i \in Items : item[i] # "none"}]
          /\ pc' = [pc EXCEPT ![w] = "del-inbox"] /\ raced' = (raced \/ lock \in Workers)
      BY <1>29, <2>2 DEF ReadForDelete
    <3>2. todo' \in [Workers -> SUBSET Items]  BY <3>1
    <3>3. pc' \in [Workers -> Stages] /\ raced' \in BOOLEAN  BY <3>1
    <3>. QED  BY <2>1, <3>2, <3>3
  <2>3. CASE status # "draft"
    <3>1. UNCHANGED <<todo, raced>> /\ pc' = [pc EXCEPT ![w] = "done"]
      BY <1>29, <2>3 DEF ReadForDelete
    <3>2. pc' \in [Workers -> Stages]  BY <3>1
    <3>. QED  BY <2>1, <3>1, <3>2
  <2>. QED  BY <2>2, <2>3
<1>30. ASSUME NEW w \in Workers, DeleteRef(w) PROVE TypeOK'  BY <1>30 DEF DeleteRef
<1>31. ASSUME NEW w \in Workers, DeleteItems(w) PROVE TypeOK'
  <2>1. item' \in [Items -> States]  BY <1>31 DEF DeleteItems, States
  <2>. QED  BY <1>31, <2>1 DEF DeleteItems
<1>32. ASSUME NEW w \in Workers, DeleteCampaign(w) PROVE TypeOK'  BY <1>32 DEF DeleteCampaign
<1>33. ASSUME NEW w \in Workers, Crash(w) PROVE TypeOK'
  <2>1. faults' \in 0..MaxFaults  BY <1>33, BoundAssumption DEF Crash
  <2>. QED  BY <1>33, <2>1 DEF Crash
<1>34. ASSUME NEW w \in Workers, RedisFails(w) PROVE TypeOK'
  <2>1. faults' \in 0..MaxFaults  BY <1>34, BoundAssumption DEF RedisFails
  <2>. QED  BY <1>34, <2>1 DEF RedisFails
<1>. QED
    BY <1>a, <1>e1, <1>e2, <1>e3, <1>e4, <1>e5, <1>1, <1>2, <1>3, <1>4, <1>5, <1>6, <1>7, <1>8,
     <1>9, <1>10, <1>11, <1>12, <1>13, <1>14, <1>15, <1>16, <1>17, <1>18, <1>19, <1>20, <1>21,
     <1>22, <1>23, <1>24, <1>25, <1>26, <1>27, <1>28, <1>29, <1>30, <1>31, <1>32, <1>33, <1>34
  DEF Next, Start, Step

LEMMA StepRoles == TypeOK /\ Roles /\ [Next]_vars => Roles'
<1>. SUFFICES ASSUME TypeOK, Roles, [Next]_vars PROVE Roles'  OBVIOUS
<1>. USE DEF TypeOK, Roles, campaign, store, kratos, control, locals, Goto, SetTodo, Over, Stages,
             Deleting
<1>a. CASE UNCHANGED vars  BY <1>a DEF vars
<1>e1. ASSUME Create PROVE Roles'  BY <1>e1 DEF Create
<1>e2. ASSUME DeadlinePasses PROVE Roles'  BY <1>e2 DEF DeadlinePasses
<1>e3. ASSUME ClaimExpires PROVE Roles'  BY <1>e3 DEF ClaimExpires
<1>e4. ASSUME Lapse PROVE Roles'  BY <1>e4 DEF Lapse
<1>e5. ASSUME NEW u \in Users, DeleteUser(u) PROVE Roles'  BY <1>e5 DEF DeleteUser
<1>1. ASSUME NEW w \in Workers, StartActivate(w) PROVE Roles'  BY <1>1 DEF StartActivate
<1>2. ASSUME NEW w \in Workers, StartDecide(w) PROVE Roles'  BY <1>2 DEF StartDecide
<1>3. ASSUME NEW w \in Workers, StartClose(w) PROVE Roles'  BY <1>3 DEF StartClose
<1>4. ASSUME NEW w \in Workers, StartDelete(w) PROVE Roles'  BY <1>4 DEF StartDelete
<1>5. ASSUME NEW w \in Workers, StartSweep(w) PROVE Roles'  BY <1>5 DEF StartSweep
<1>6. ASSUME NEW w \in Workers, Acquire(w) PROVE Roles'  BY <1>6 DEF Acquire
<1>7. ASSUME NEW w \in Workers, Busy(w) PROVE Roles'  BY <1>7 DEF Busy
<1>8. ASSUME NEW w \in Workers, Release(w) PROVE Roles'  BY <1>8 DEF Release
<1>9. ASSUME NEW w \in Workers, Generate(w) PROVE Roles'  BY <1>9 DEF Generate
<1>10. ASSUME NEW w \in Workers, StoreItems(w) PROVE Roles'  BY <1>10 DEF StoreItems
<1>11. ASSUME NEW w \in Workers, AddToInbox(w) PROVE Roles'  BY <1>11 DEF AddToInbox
<1>12. ASSUME NEW w \in Workers, Open(w) PROVE Roles'  BY <1>12 DEF Open
<1>13. ASSUME NEW w \in Workers, ReadForDecide(w) PROVE Roles'  BY <1>13 DEF ReadForDecide
<1>14. ASSUME NEW w \in Workers, Refuse(w) PROVE Roles'  BY <1>14 DEF Refuse
<1>15. ASSUME NEW w \in Workers, Strip(w) PROVE Roles'  BY <1>15 DEF Strip
<1>16. ASSUME NEW w \in Workers, StripFails(w) PROVE Roles'  BY <1>16 DEF StripFails
<1>17. ASSUME NEW w \in Workers, Record(w) PROVE Roles'  BY <1>17 DEF Record
<1>18. ASSUME NEW w \in Workers, Unlist(w) PROVE Roles'  BY <1>18 DEF Unlist
<1>19. ASSUME NEW w \in Workers, CountPending(w) PROVE Roles'  BY <1>19 DEF CountPending
<1>20. ASSUME NEW w \in Workers, ReadForClose(w) PROVE Roles'  BY <1>20 DEF ReadForClose
<1>21. ASSUME NEW w \in Workers, Shut(w) PROVE Roles'  BY <1>21 DEF Shut
<1>22. ASSUME NEW w \in Workers, ListPending(w) PROVE Roles'  BY <1>22 DEF ListPending
<1>23. ASSUME NEW w \in Workers, NextItem(w) PROVE Roles'  BY <1>23 DEF NextItem
<1>24. ASSUME NEW w \in Workers, AllResolved(w) PROVE Roles'  BY <1>24 DEF AllResolved
<1>25. ASSUME NEW w \in Workers, ListApproved(w) PROVE Roles'  BY <1>25 DEF ListApproved
<1>26. ASSUME NEW w \in Workers, Keep(w) PROVE Roles'  BY <1>26 DEF Keep
<1>27. ASSUME NEW w \in Workers, Complete(w) PROVE Roles'  BY <1>27 DEF Complete
<1>28. ASSUME NEW w \in Workers, Freeze(w) PROVE Roles'  BY <1>28 DEF Freeze
<1>29. ASSUME NEW w \in Workers, ReadForDelete(w) PROVE Roles'  BY <1>29 DEF ReadForDelete
<1>30. ASSUME NEW w \in Workers, DeleteRef(w) PROVE Roles'  BY <1>30 DEF DeleteRef
<1>31. ASSUME NEW w \in Workers, DeleteItems(w) PROVE Roles'  BY <1>31 DEF DeleteItems
<1>32. ASSUME NEW w \in Workers, DeleteCampaign(w) PROVE Roles'  BY <1>32 DEF DeleteCampaign
<1>33. ASSUME NEW w \in Workers, Crash(w) PROVE Roles'  BY <1>33 DEF Crash
<1>34. ASSUME NEW w \in Workers, RedisFails(w) PROVE Roles'  BY <1>34 DEF RedisFails
<1>. QED
    BY <1>a, <1>e1, <1>e2, <1>e3, <1>e4, <1>e5, <1>1, <1>2, <1>3, <1>4, <1>5, <1>6, <1>7, <1>8,
     <1>9, <1>10, <1>11, <1>12, <1>13, <1>14, <1>15, <1>16, <1>17, <1>18, <1>19, <1>20, <1>21,
     <1>22, <1>23, <1>24, <1>25, <1>26, <1>27, <1>28, <1>29, <1>30, <1>31, <1>32, <1>33, <1>34
  DEF Next, Start, Step

LEMMA StepEarned == TypeOK /\ Roles /\ Earned /\ OutcomeApplied /\ [Next]_vars => (Earned /\ OutcomeApplied)'
<1>. SUFFICES ASSUME TypeOK, Roles, Earned, OutcomeApplied, [Next]_vars PROVE (Earned /\ OutcomeApplied)'  OBVIOUS
<1>. USE DEF TypeOK, Roles, Earned, OutcomeApplied, Outcome, campaign, store, kratos, control,
             locals, Goto, SetTodo, Over, Stages, Deleting
<1>a. CASE UNCHANGED vars  BY <1>a DEF vars
<1>e1. ASSUME Create PROVE (Earned /\ OutcomeApplied)'  BY <1>e1 DEF Create
<1>e2. ASSUME DeadlinePasses PROVE (Earned /\ OutcomeApplied)'  BY <1>e2 DEF DeadlinePasses
<1>e3. ASSUME ClaimExpires PROVE (Earned /\ OutcomeApplied)'  BY <1>e3 DEF ClaimExpires
<1>e4. ASSUME Lapse PROVE (Earned /\ OutcomeApplied)'  BY <1>e4 DEF Lapse
<1>e5. ASSUME NEW u \in Users, DeleteUser(u) PROVE (Earned /\ OutcomeApplied)'  BY <1>e5 DEF DeleteUser
<1>1. ASSUME NEW w \in Workers, StartActivate(w) PROVE (Earned /\ OutcomeApplied)'  BY <1>1 DEF StartActivate
<1>2. ASSUME NEW w \in Workers, StartDecide(w) PROVE (Earned /\ OutcomeApplied)'  BY <1>2 DEF StartDecide
<1>3. ASSUME NEW w \in Workers, StartClose(w) PROVE (Earned /\ OutcomeApplied)'  BY <1>3 DEF StartClose
<1>4. ASSUME NEW w \in Workers, StartDelete(w) PROVE (Earned /\ OutcomeApplied)'  BY <1>4 DEF StartDelete
<1>5. ASSUME NEW w \in Workers, StartSweep(w) PROVE (Earned /\ OutcomeApplied)'  BY <1>5 DEF StartSweep
<1>6. ASSUME NEW w \in Workers, Acquire(w) PROVE (Earned /\ OutcomeApplied)'  BY <1>6 DEF Acquire
<1>7. ASSUME NEW w \in Workers, Busy(w) PROVE (Earned /\ OutcomeApplied)'  BY <1>7 DEF Busy
<1>8. ASSUME NEW w \in Workers, Release(w) PROVE (Earned /\ OutcomeApplied)'  BY <1>8 DEF Release
<1>9. ASSUME NEW w \in Workers, Generate(w) PROVE (Earned /\ OutcomeApplied)'  BY <1>9 DEF Generate
<1>10. ASSUME NEW w \in Workers, StoreItems(w) PROVE (Earned /\ OutcomeApplied)'  BY <1>10 DEF StoreItems
<1>11. ASSUME NEW w \in Workers, AddToInbox(w) PROVE (Earned /\ OutcomeApplied)'  BY <1>11 DEF AddToInbox
<1>12. ASSUME NEW w \in Workers, Open(w) PROVE (Earned /\ OutcomeApplied)'  BY <1>12 DEF Open
<1>13. ASSUME NEW w \in Workers, ReadForDecide(w) PROVE (Earned /\ OutcomeApplied)'
  <2>1. op[w] = "decide" /\ UNCHANGED <<item, stripped, onExpiry, op, verdict, mine>>
    BY <1>13 DEF ReadForDecide
  <2>2. pc'[w] = "record" => verdict'[w] = "approved" /\ op'[w] = "decide"
    BY <1>13, <2>1 DEF ReadForDecide
  <2>3. \A v \in Workers \ {w} : pc'[v] = pc[v]  BY <1>13 DEF ReadForDecide
  <2>4. \A v : Outcome(v)' = Outcome(v)  BY <2>1
  <2>5. pc'[w] = "record" => Outcome(w)' = "approved"  BY <2>2
  <2>. HIDE DEF Outcome
  <2>. QED  BY <2>1, <2>3, <2>4, <2>5
<1>14. ASSUME NEW w \in Workers, Refuse(w) PROVE (Earned /\ OutcomeApplied)'  BY <1>14 DEF Refuse
<1>15. ASSUME NEW w \in Workers, Strip(w) PROVE (Earned /\ OutcomeApplied)'  BY <1>15 DEF Strip
<1>16. ASSUME NEW w \in Workers, StripFails(w) PROVE (Earned /\ OutcomeApplied)'  BY <1>16 DEF StripFails
<1>17. ASSUME NEW w \in Workers, Record(w) PROVE (Earned /\ OutcomeApplied)'  BY <1>17 DEF Record
<1>18. ASSUME NEW w \in Workers, Unlist(w) PROVE (Earned /\ OutcomeApplied)'  BY <1>18 DEF Unlist
<1>19. ASSUME NEW w \in Workers, CountPending(w) PROVE (Earned /\ OutcomeApplied)'  BY <1>19 DEF CountPending
<1>20. ASSUME NEW w \in Workers, ReadForClose(w) PROVE (Earned /\ OutcomeApplied)'  BY <1>20 DEF ReadForClose
<1>21. ASSUME NEW w \in Workers, Shut(w) PROVE (Earned /\ OutcomeApplied)'  BY <1>21 DEF Shut
<1>22. ASSUME NEW w \in Workers, ListPending(w) PROVE (Earned /\ OutcomeApplied)'  BY <1>22 DEF ListPending
<1>23. ASSUME NEW w \in Workers, NextItem(w) PROVE (Earned /\ OutcomeApplied)'  BY <1>23 DEF NextItem
<1>24. ASSUME NEW w \in Workers, AllResolved(w) PROVE (Earned /\ OutcomeApplied)'  BY <1>24 DEF AllResolved
<1>25. ASSUME NEW w \in Workers, ListApproved(w) PROVE (Earned /\ OutcomeApplied)'  BY <1>25 DEF ListApproved
<1>26. ASSUME NEW w \in Workers, Keep(w) PROVE (Earned /\ OutcomeApplied)'  BY <1>26 DEF Keep
<1>27. ASSUME NEW w \in Workers, Complete(w) PROVE (Earned /\ OutcomeApplied)'  BY <1>27 DEF Complete
<1>28. ASSUME NEW w \in Workers, Freeze(w) PROVE (Earned /\ OutcomeApplied)'  BY <1>28 DEF Freeze
<1>29. ASSUME NEW w \in Workers, ReadForDelete(w) PROVE (Earned /\ OutcomeApplied)'  BY <1>29 DEF ReadForDelete
<1>30. ASSUME NEW w \in Workers, DeleteRef(w) PROVE (Earned /\ OutcomeApplied)'  BY <1>30 DEF DeleteRef
<1>31. ASSUME NEW w \in Workers, DeleteItems(w) PROVE (Earned /\ OutcomeApplied)'  BY <1>31 DEF DeleteItems
<1>32. ASSUME NEW w \in Workers, DeleteCampaign(w) PROVE (Earned /\ OutcomeApplied)'  BY <1>32 DEF DeleteCampaign
<1>33. ASSUME NEW w \in Workers, Crash(w) PROVE (Earned /\ OutcomeApplied)'  BY <1>33 DEF Crash
<1>34. ASSUME NEW w \in Workers, RedisFails(w) PROVE (Earned /\ OutcomeApplied)'  BY <1>34 DEF RedisFails
<1>. QED
    BY <1>a, <1>e1, <1>e2, <1>e3, <1>e4, <1>e5, <1>1, <1>2, <1>3, <1>4, <1>5, <1>6, <1>7, <1>8,
     <1>9, <1>10, <1>11, <1>12, <1>13, <1>14, <1>15, <1>16, <1>17, <1>18, <1>19, <1>20, <1>21,
     <1>22, <1>23, <1>24, <1>25, <1>26, <1>27, <1>28, <1>29, <1>30, <1>31, <1>32, <1>33, <1>34
  DEF Next, Start, Step

LEMMA StepQuiet == TypeOK /\ Roles /\ Quiet /\ [Next]_vars => Quiet'
<1>. SUFFICES ASSUME TypeOK, Roles, Quiet, [Next]_vars PROVE Quiet'  OBVIOUS
<1>. USE DEF TypeOK, Roles, Quiet, Campaign, Frozen, Listed, Undecided, Unborn, Section, Inside,
             Erasing, Filling, campaign, store, kratos, control, locals, Goto, SetTodo, Over,
             Stages, Deleting
<1>a. CASE UNCHANGED vars  BY <1>a DEF vars
<1>e1. ASSUME Create PROVE Quiet'  BY <1>e1 DEF Create
<1>e2. ASSUME DeadlinePasses PROVE Quiet'  BY <1>e2 DEF DeadlinePasses
<1>e3. ASSUME ClaimExpires PROVE Quiet'  BY <1>e3 DEF ClaimExpires
<1>e4. ASSUME Lapse PROVE Quiet'
  <2>. SUFFICES ASSUME ~raced' PROVE (Campaign /\ \A w \in Workers : Section(w))'  OBVIOUS
  <2>1. /\ ~raced /\ lock = Dead /\ lock' = NoOne
        /\ UNCHANGED <<campaign, store, batches, locals, pc>>
    BY <1>e4 DEF Lapse
  <2>2. \A w \in Workers : pc[w] \notin Inside
    BY <2>1, WorkerAssumption
  <2>3. Campaign'  BY <2>1
  <2>4. \A w \in Workers : Section(w)'  BY <2>1, <2>2, WorkerAssumption
  <2>. QED  BY <2>3, <2>4
<1>e5. ASSUME NEW u \in Users, DeleteUser(u) PROVE Quiet'  BY <1>e5 DEF DeleteUser
<1>1. ASSUME NEW w \in Workers, StartActivate(w) PROVE Quiet'  BY <1>1 DEF StartActivate
<1>2. ASSUME NEW w \in Workers, StartDecide(w) PROVE Quiet'  BY <1>2 DEF StartDecide
<1>3. ASSUME NEW w \in Workers, StartClose(w) PROVE Quiet'  BY <1>3 DEF StartClose
<1>4. ASSUME NEW w \in Workers, StartDelete(w) PROVE Quiet'  BY <1>4 DEF StartDelete
<1>5. ASSUME NEW w \in Workers, StartSweep(w) PROVE Quiet'  BY <1>5 DEF StartSweep
<1>6. ASSUME NEW w \in Workers, Acquire(w) PROVE Quiet'
  <2>. SUFFICES ASSUME ~raced' PROVE (Campaign /\ \A v \in Workers : Section(v))'  OBVIOUS
  <2>1. /\ ~raced /\ lock = NoOne /\ lock' = w /\ pc' = [pc EXCEPT ![w] = "check"]
        /\ \A v \in Workers : pc[v] \notin Deleting
        /\ UNCHANGED <<campaign, store, batches, locals>>
    BY <1>6 DEF Acquire
  <2>2. Campaign'  BY <2>1
  <2>3. \A v \in Workers : pc[v] \notin Inside  BY <2>1, WorkerAssumption
  <2>4. Section(w)'  BY <2>1
  <2>5. \A v \in Workers \ {w} : Section(v)'  BY <2>1, <2>3
  <2>. QED  BY <2>2, <2>4, <2>5
<1>7. ASSUME NEW w \in Workers, Busy(w) PROVE Quiet'  BY <1>7 DEF Busy
<1>8. ASSUME NEW w \in Workers, Release(w) PROVE Quiet'  BY <1>8 DEF Release
<1>9. ASSUME NEW w \in Workers, Generate(w) PROVE Quiet'
  <2>. SUFFICES ASSUME ~raced' PROVE (Campaign /\ \A v \in Workers : Section(v))'  OBVIOUS
  <2>1. /\ ~raced /\ pc[w] = "check" /\ status = "draft" /\ batches' = batches + 1
        /\ UNCHANGED <<campaign, store, lock, op, mine>> /\ pc' = [pc EXCEPT ![w] = "store"]
    BY <1>9 DEF Generate
  <2>2. PICK S : todo' = [todo EXCEPT ![w] = S \X {batches'}]
    BY <1>9 DEF Generate
  <2>3. batches \in Nat /\ \A i \in Items : i[2] \in Nat
    BY BoundAssumption DEF Items, Batches
  <2>4. Campaign'  BY <2>1, <2>3
  <2>5. \A v \in Workers \ {w} : pc[v] \notin Inside \cup Erasing  BY <2>1
  <2>6. \A i \in todo'[w] : i[2] = batches'  BY <2>2
  <2>7. Section(w)'  BY <2>1, <2>3, <2>6
  <2>8. \A v \in Workers \ {w} : Section(v)'  BY <2>1, <2>5
  <2>. QED  BY <2>4, <2>7, <2>8
<1>10. ASSUME NEW w \in Workers, StoreItems(w) PROVE Quiet'  BY <1>10 DEF StoreItems
<1>11. ASSUME NEW w \in Workers, AddToInbox(w) PROVE Quiet'  BY <1>11 DEF AddToInbox
<1>12. ASSUME NEW w \in Workers, Open(w) PROVE Quiet'  BY <1>12 DEF Open
<1>13. ASSUME NEW w \in Workers, ReadForDecide(w) PROVE Quiet'  BY <1>13 DEF ReadForDecide
<1>14. ASSUME NEW w \in Workers, Refuse(w) PROVE Quiet'  BY <1>14 DEF Refuse
<1>15. ASSUME NEW w \in Workers, Strip(w) PROVE Quiet'  BY <1>15 DEF Strip
<1>16. ASSUME NEW w \in Workers, StripFails(w) PROVE Quiet'  BY <1>16 DEF StripFails
<1>17. ASSUME NEW w \in Workers, Record(w) PROVE Quiet'
  BY <1>17 DEF Record, Outcome, Pending
<1>18. ASSUME NEW w \in Workers, Unlist(w) PROVE Quiet'  BY <1>18 DEF Unlist
<1>19. ASSUME NEW w \in Workers, CountPending(w) PROVE Quiet'  BY <1>19 DEF CountPending
<1>20. ASSUME NEW w \in Workers, ReadForClose(w) PROVE Quiet'  BY <1>20 DEF ReadForClose
<1>21. ASSUME NEW w \in Workers, Shut(w) PROVE Quiet'  BY <1>21 DEF Shut
<1>22. ASSUME NEW w \in Workers, ListPending(w) PROVE Quiet'  BY <1>22 DEF ListPending
<1>23. ASSUME NEW w \in Workers, NextItem(w) PROVE Quiet'  BY <1>23 DEF NextItem
<1>24. ASSUME NEW w \in Workers, AllResolved(w) PROVE Quiet'  BY <1>24 DEF AllResolved
<1>25. ASSUME NEW w \in Workers, ListApproved(w) PROVE Quiet'
  BY <1>25 DEF ListApproved, Approved
<1>26. ASSUME NEW w \in Workers, Keep(w) PROVE Quiet'
  BY <1>26 DEF Keep, Approved, Pending
<1>27. ASSUME NEW w \in Workers, Complete(w) PROVE Quiet'  BY <1>27 DEF Complete
<1>28. ASSUME NEW w \in Workers, Freeze(w) PROVE Quiet'  BY <1>28 DEF Freeze
<1>29. ASSUME NEW w \in Workers, ReadForDelete(w) PROVE Quiet'
  <2>1. CASE status = "draft"
    <3>. SUFFICES ASSUME ~raced' PROVE (Campaign /\ \A v \in Workers : Section(v))'  OBVIOUS
    <3>1. /\ ~raced /\ lock \notin Workers /\ pc' = [pc EXCEPT ![w] = "del-inbox"]
          /\ \E S : todo' = [todo EXCEPT ![w] = S]
          /\ UNCHANGED <<campaign, store, lock, batches, op, mine>>
      BY <1>29, <2>1 DEF ReadForDelete
    <3>2. \A v \in Workers : pc[v] \notin Inside  BY <3>1
    <3>3. Campaign'  BY <3>1
    <3>4. \A v \in Workers : Section(v)'  BY <2>1, <3>1, <3>2
    <3>. QED  BY <3>3, <3>4
  <2>2. CASE status # "draft"  BY <1>29, <2>2 DEF ReadForDelete
  <2>. QED  BY <2>1, <2>2
<1>30. ASSUME NEW w \in Workers, DeleteRef(w) PROVE Quiet'  BY <1>30 DEF DeleteRef
<1>31. ASSUME NEW w \in Workers, DeleteItems(w) PROVE Quiet'  BY <1>31 DEF DeleteItems
<1>32. ASSUME NEW w \in Workers, DeleteCampaign(w) PROVE Quiet'  BY <1>32 DEF DeleteCampaign
<1>33. ASSUME NEW w \in Workers, Crash(w) PROVE Quiet'  BY <1>33 DEF Crash
<1>34. ASSUME NEW w \in Workers, RedisFails(w) PROVE Quiet'  BY <1>34 DEF RedisFails
<1>. QED
    BY <1>a, <1>e1, <1>e2, <1>e3, <1>e4, <1>e5, <1>1, <1>2, <1>3, <1>4, <1>5, <1>6, <1>7, <1>8,
     <1>9, <1>10, <1>11, <1>12, <1>13, <1>14, <1>15, <1>16, <1>17, <1>18, <1>19, <1>20, <1>21,
     <1>22, <1>23, <1>24, <1>25, <1>26, <1>27, <1>28, <1>29, <1>30, <1>31, <1>32, <1>33, <1>34
  DEF Next, Start, Step

LEMMA Inductive == Spec => []IInv
<1>1. IInv /\ [Next]_vars => IInv'
  BY StepTypes, StepRoles, StepEarned, StepQuiet DEF IInv
<1>. QED  BY InitInv, <1>1, PTL DEF Spec

-----------------------------------------------------------------------------
(* The properties of the runs.                                             *)

\* Every variable keeps its type, whoever dies, fails or runs past its lease.
THEOREM TypeCorrect == Spec => []TypeOK
<1>1. IInv => TypeOK  BY DEF IInv
<1>. QED  BY Inductive, <1>1, PTL

\* finalize and setReport: the frozen report says of every item what the item
\* says, from then on, unless somebody ran past a lease or beside a deletion.
THEOREM ReportsAreTruthful == Spec => []ReportTruthful
<1>1. IInv => ReportTruthful  BY DEF IInv, Quiet, Campaign, Frozen, ReportTruthful
<1>. QED  BY Inductive, <1>1, PTL

\* decide and closeCampaign record an outcome after Kratos has answered: an item
\* never says that a membership was removed that the campaign did not remove.
THEOREM OutcomesAreApplied == Spec => []OutcomeApplied
<1>1. IInv => OutcomeApplied  BY DEF IInv
<1>. QED  BY Inductive, <1>1, PTL

\* activateCampaign opens the campaign when the inboxes are filled: an item that
\* waits for a decision is in the inbox of its reviewer.
THEOREM InboxesShowPending == Spec => []InboxShowsPending
<1>1. IInv => InboxShowsPending  BY DEF IInv, Quiet, Campaign, Listed, InboxShowsPending
<1>. QED  BY Inductive, <1>1, PTL

\* What was decided stays decided, in one step.
Stand ==
  ~raced' => \A i \in Items :
    /\ item[i] \in Approved => item'[i] \in Approved
    /\ item[i] = "revoke-applied" => item'[i] = "revoke-applied"

LEMMA StepDecided == TypeOK /\ Roles /\ Quiet /\ [Next]_vars => Stand
<1>. SUFFICES ASSUME TypeOK, Roles, Quiet, [Next]_vars PROVE Stand  OBVIOUS
<1>. USE DEF TypeOK, Roles, Quiet, Campaign, Undecided, Section, Inside, Erasing, Filling,
             campaign, store, kratos, control, locals, Stages, Deleting, Stand, Pending, Approved
<1>a. CASE UNCHANGED vars  BY <1>a DEF vars
<1>e1. ASSUME Create PROVE Stand  BY <1>e1 DEF Create
<1>e2. ASSUME DeadlinePasses PROVE Stand  BY <1>e2 DEF DeadlinePasses
<1>e3. ASSUME ClaimExpires PROVE Stand  BY <1>e3 DEF ClaimExpires
<1>e4. ASSUME Lapse PROVE Stand  BY <1>e4 DEF Lapse
<1>e5. ASSUME NEW u \in Users, DeleteUser(u) PROVE Stand  BY <1>e5 DEF DeleteUser
<1>1. ASSUME NEW w \in Workers, StartActivate(w) PROVE Stand  BY <1>1 DEF StartActivate
<1>2. ASSUME NEW w \in Workers, StartDecide(w) PROVE Stand  BY <1>2 DEF StartDecide
<1>3. ASSUME NEW w \in Workers, StartClose(w) PROVE Stand  BY <1>3 DEF StartClose
<1>4. ASSUME NEW w \in Workers, StartDelete(w) PROVE Stand  BY <1>4 DEF StartDelete
<1>5. ASSUME NEW w \in Workers, StartSweep(w) PROVE Stand  BY <1>5 DEF StartSweep
<1>6. ASSUME NEW w \in Workers, Acquire(w) PROVE Stand  BY <1>6 DEF Acquire
<1>7. ASSUME NEW w \in Workers, Busy(w) PROVE Stand  BY <1>7 DEF Busy
<1>8. ASSUME NEW w \in Workers, Release(w) PROVE Stand  BY <1>8 DEF Release
<1>9. ASSUME NEW w \in Workers, Generate(w) PROVE Stand  BY <1>9 DEF Generate
<1>10. ASSUME NEW w \in Workers, StoreItems(w) PROVE Stand  BY <1>10 DEF StoreItems
<1>11. ASSUME NEW w \in Workers, AddToInbox(w) PROVE Stand  BY <1>11 DEF AddToInbox
<1>12. ASSUME NEW w \in Workers, Open(w) PROVE Stand  BY <1>12 DEF Open
<1>13. ASSUME NEW w \in Workers, ReadForDecide(w) PROVE Stand  BY <1>13 DEF ReadForDecide
<1>14. ASSUME NEW w \in Workers, Refuse(w) PROVE Stand  BY <1>14 DEF Refuse
<1>15. ASSUME NEW w \in Workers, Strip(w) PROVE Stand  BY <1>15 DEF Strip
<1>16. ASSUME NEW w \in Workers, StripFails(w) PROVE Stand  BY <1>16 DEF StripFails
<1>17. ASSUME NEW w \in Workers, Record(w) PROVE Stand  BY <1>17 DEF Record
<1>18. ASSUME NEW w \in Workers, Unlist(w) PROVE Stand  BY <1>18 DEF Unlist
<1>19. ASSUME NEW w \in Workers, CountPending(w) PROVE Stand  BY <1>19 DEF CountPending
<1>20. ASSUME NEW w \in Workers, ReadForClose(w) PROVE Stand  BY <1>20 DEF ReadForClose
<1>21. ASSUME NEW w \in Workers, Shut(w) PROVE Stand  BY <1>21 DEF Shut
<1>22. ASSUME NEW w \in Workers, ListPending(w) PROVE Stand  BY <1>22 DEF ListPending
<1>23. ASSUME NEW w \in Workers, NextItem(w) PROVE Stand  BY <1>23 DEF NextItem
<1>24. ASSUME NEW w \in Workers, AllResolved(w) PROVE Stand  BY <1>24 DEF AllResolved
<1>25. ASSUME NEW w \in Workers, ListApproved(w) PROVE Stand  BY <1>25 DEF ListApproved
<1>26. ASSUME NEW w \in Workers, Keep(w) PROVE Stand  BY <1>26 DEF Keep
<1>27. ASSUME NEW w \in Workers, Complete(w) PROVE Stand  BY <1>27 DEF Complete
<1>28. ASSUME NEW w \in Workers, Freeze(w) PROVE Stand  BY <1>28 DEF Freeze
<1>29. ASSUME NEW w \in Workers, ReadForDelete(w) PROVE Stand  BY <1>29 DEF ReadForDelete
<1>30. ASSUME NEW w \in Workers, DeleteRef(w) PROVE Stand  BY <1>30 DEF DeleteRef
<1>31. ASSUME NEW w \in Workers, DeleteItems(w) PROVE Stand  BY <1>31 DEF DeleteItems
<1>32. ASSUME NEW w \in Workers, DeleteCampaign(w) PROVE Stand  BY <1>32 DEF DeleteCampaign
<1>33. ASSUME NEW w \in Workers, Crash(w) PROVE Stand  BY <1>33 DEF Crash
<1>34. ASSUME NEW w \in Workers, RedisFails(w) PROVE Stand  BY <1>34 DEF RedisFails
<1>. QED
    BY <1>a, <1>e1, <1>e2, <1>e3, <1>e4, <1>e5, <1>1, <1>2, <1>3, <1>4, <1>5, <1>6, <1>7, <1>8,
     <1>9, <1>10, <1>11, <1>12, <1>13, <1>14, <1>15, <1>16, <1>17, <1>18, <1>19, <1>20, <1>21,
     <1>22, <1>23, <1>24, <1>25, <1>26, <1>27, <1>28, <1>29, <1>30, <1>31, <1>32, <1>33, <1>34
  DEF Next, Start, Step

\* decide refuses an item that is decided, closeCampaign lists the pending ones,
\* and a deletion finds a draft: a decision stands, unless somebody ran past a
\* lease or beside a deletion.
THEOREM DecisionsAreFinal == Spec => DecisionsStand
<1>1. IInv /\ [Next]_vars =>
        [~raced' => \A i \in Items :
           /\ item[i] \in Approved => item'[i] \in Approved
           /\ item[i] = "revoke-applied" => item'[i] = "revoke-applied"]_vars
  BY StepDecided DEF IInv, Stand
<1>. QED  BY <1>1, Inductive, PTL DEF Spec, DecisionsStand

\* Which steps remove a membership.
LEMMA OnlyStripRemoves ==
  ASSUME [Next]_vars, stripped' # stripped
  PROVE  \E w \in Workers : Strip(w) \/ StripFails(w)
<1>. SUFFICES ASSUME \A w \in Workers : ~Strip(w) /\ ~StripFails(w) PROVE stripped' = stripped
  OBVIOUS
<1>. USE DEF campaign, store, kratos, control, locals
<1>1. CASE UNCHANGED vars  BY <1>1 DEF vars
<1>2. CASE Create \/ DeadlinePasses \/ ClaimExpires \/ Lapse \/ \E u \in Users : DeleteUser(u)
  BY <1>2 DEF Create, DeadlinePasses, ClaimExpires, Lapse, DeleteUser
<1>3. ASSUME NEW w \in Workers, Start(w) \/ Crash(w) \/ RedisFails(w) PROVE stripped' = stripped
  BY <1>3 DEF Start, StartActivate, StartDecide, StartClose, StartDelete, StartSweep, Crash, RedisFails
<1>4. ASSUME NEW w \in Workers, Step(w) PROVE stripped' = stripped
  <2>1. CASE Acquire(w) \/ Busy(w) \/ Release(w)
    BY <2>1 DEF Acquire, Busy, Release
  <2>2. CASE Generate(w) \/ StoreItems(w) \/ AddToInbox(w) \/ Open(w)
    BY <2>2 DEF Generate, StoreItems, AddToInbox, Open
  <2>3. CASE ReadForDecide(w) \/ Refuse(w) \/ Record(w) \/ Unlist(w) \/ CountPending(w)
    BY <2>3 DEF ReadForDecide, Refuse, Record, Unlist, CountPending
  <2>4. CASE ReadForClose(w) \/ Shut(w) \/ ListPending(w) \/ NextItem(w) \/ AllResolved(w)
    BY <2>4 DEF ReadForClose, Shut, ListPending, NextItem, AllResolved
  <2>5. CASE ListApproved(w) \/ Keep(w) \/ Complete(w) \/ Freeze(w)
    BY <2>5 DEF ListApproved, Keep, Complete, Freeze
  <2>6. CASE ReadForDelete(w) \/ DeleteRef(w) \/ DeleteItems(w) \/ DeleteCampaign(w)
    BY <2>6 DEF ReadForDelete, DeleteRef, DeleteItems, DeleteCampaign
  <2>. QED  BY <1>4, <2>1, <2>2, <2>3, <2>4, <2>5, <2>6 DEF Step
<1>. QED  BY <1>1, <1>2, <1>3, <1>4 DEF Next

LEMMA StepSurvives ==
  ASSUME TypeOK, Roles, Quiet, [Next]_vars, NEW e \in stripped' \ stripped
  PROVE  raced \/ Twice(e) \/ \A i \in Items : i[1] = e => item[i] \notin Approved
<1>1. PICK w \in Workers : Strip(w) \/ StripFails(w)  BY OnlyStripRemoves
<1>2. pc[w] = "strip" /\ e = mine[w][1]  BY <1>1 DEF Strip, StripFails
<1>3. mine[w] \in Items  BY <1>2 DEF Roles
<1>4. ASSUME ~raced PROVE item[mine[w]] \in Pending  BY <1>2, <1>4 DEF Quiet, Section
<1>5. ASSUME ~raced, NEW i \in Items, i[1] = e, item[i] \in Approved PROVE Twice(e)
  BY <1>2, <1>3, <1>4, <1>5 DEF Twice, Pending, Approved
<1>. QED  BY <1>5

\* Strip works on an item that is still pending: the campaign does not remove a
\* membership that was approved, unless a failed activation left two items for
\* it or somebody ran past a lease or beside a deletion.
THEOREM ApprovalsSurvive == Spec => ApprovedSurvives
<1>1. IInv /\ [Next]_vars =>
        [\A e \in stripped' \ stripped :
           raced \/ Twice(e) \/ \A i \in Items : i[1] = e => item[i] \notin Approved]_vars
  BY StepSurvives DEF IInv
<1>. QED  BY <1>1, Inductive, PTL DEF Spec, ApprovedSurvives
=============================================================================
