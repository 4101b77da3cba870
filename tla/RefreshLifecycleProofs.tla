----------------------- MODULE RefreshLifecycleProofs -----------------------
(***************************************************************************)
(* What holds of RefreshLifecycle for every value of its constants: its    *)
(* types, the inductive invariant LifeInv, and from it the safety of       *)
(* removal, of the replacement of a removed member, and of serials; DueInv *)
(* and StaticInv, and from them that a served zone's expiry stays armed    *)
(* and does not come early.                                                *)
(***************************************************************************)
EXTENDS RefreshLifecycle, TLAPS

\* Every serial a primary or the cache offers is a serial, and "no serial" is none.
LEMMA SerialsFact == Offered \subseteq Serials /\ NoSerial \notin Serials
  BY LifecycleAssumption DEF Serials, NoSerial

\* A refresh status whose flags, deadline or generation are assigned is a refresh status.
LEMMA StatusFields ==
  ASSUME NEW s \in Statuses, NEW b \in BOOLEAN, NEW c \in BOOLEAN, NEW n \in Int, NEW g \in Nat
  PROVE  /\ [s EXCEPT !.inProgress = b] \in Statuses
         /\ [s EXCEPT !.expired = b] \in Statuses
         /\ [s EXCEPT !.inProgress = b, !.nextRefresh = n] \in Statuses
         /\ [s EXCEPT !.inProgress = b, !.nextRefresh = n, !.expired = c] \in Statuses
         /\ [s EXCEPT !.gen = g] \in Statuses
         /\ [s EXCEPT !.gen = g, !.inProgress = b] \in Statuses
  BY DEF Statuses

\* The flags mark_attempt_started, finish and expire_due assign leave a refresh status.
LEMMA StatusType ==
  ASSUME TypeOK
  PROVE  /\ status \in Statuses
         /\ [status EXCEPT !.inProgress = TRUE] \in Statuses
         /\ [status EXCEPT !.inProgress = FALSE] \in Statuses
         /\ [status EXCEPT !.expired = TRUE] \in Statuses
  <1>1. status \in Statuses BY DEF TypeOK
  <1>2. \A b \in BOOLEAN : /\ [status EXCEPT !.inProgress = b] \in Statuses
                            /\ [status EXCEPT !.expired = b] \in Statuses
    BY <1>1 DEF Statuses
  <1>3. TRUE \in BOOLEAN /\ FALSE \in BOOLEAN OBVIOUS
  <1> QED BY <1>1, <1>2, <1>3, Zenon

\* defer_interrupted_attempt leaves a refresh status.
LEMMA DeferredType == ASSUME TypeOK, NEW g \in Nat PROVE Deferred(g) \in Statuses
  <1>1. status \in Statuses /\ clock \in Int BY DEF TypeOK
  <1>2. [status EXCEPT !.inProgress = FALSE, !.nextRefresh = clock] \in Statuses
    BY <1>1, StatusFields
  <1> QED BY <1>1, <1>2 DEF Deferred

\* record_success_with_commit leaves a refresh status.
LEMMA SucceededType ==
  ASSUME clock \in Nat, NEW g \in Nat, NEW age \in Int, NEW d \in Nat, NEW b \in BOOLEAN
  PROVE  Succeeded(g, age, d, b) \in Statuses
  BY LifecycleAssumption DEF Succeeded, Statuses

\* The absent plan, entry and status and the idle tasks have their types.
LEMMA EmptyTypes ==
  /\ NoPlan \in Plans /\ NoEntry \in Entries /\ NoStatus \in Statuses
  /\ Idle \in Attempts /\ SchedIdle \in SchedStates /\ ReconIdle \in ReconStates
  BY LifecycleAssumption
  DEF NoPlan, Plans, NoEntry, Entries, NoStatus, Statuses, Idle, Attempts, SchedIdle,
      SchedStates, ReconIdle, ReconStates, AttemptPcs, EarlyPcs, EntryStates, MaybeSerials

\* A status that begin_attempt or record_loading_start creates is a refresh status.
LEMMA NewStatusType ==
  ASSUME NEW g \in Nat
  PROVE  /\ [NoStatus EXCEPT !.gen = g] \in Statuses
         /\ [NoStatus EXCEPT !.gen = g, !.inProgress = TRUE] \in Statuses
  <1>1. NoStatus \in Statuses BY EmptyTypes
  <1>2. \A b \in BOOLEAN : [NoStatus EXCEPT !.gen = g, !.inProgress = b] \in Statuses
    BY <1>1 DEF Statuses
  <1>3. [NoStatus EXCEPT !.gen = g] \in Statuses BY <1>1 DEF Statuses
  <1> QED BY <1>2, <1>3, Zenon

\* A zone restored from the cache is a directory entry, expired or not.
LEMMA RestoredType ==
  ASSUME clock \in Nat, NEW v \in Nat, NEW s \in Offered, NEW age \in Nat, NEW l \in Nat
  PROVE  Restored(v, s, age, l) \in Entries
  <1> DEFINE late == age >= ExpireAfter
             state == IF late THEN "Expired" ELSE "Active"
  <1>1. late \in BOOLEAN /\ state \in EntryStates BY DEF EntryStates
  <1>2. clock - age \in Int /\ s \in MaybeSerials
    BY LifecycleAssumption DEF MaybeSerials
  <1> HIDE DEF late, state
  <1>3. [NoEntry EXCEPT !.state = state, !.bornExpired = late, !.ver = v, !.snap = v,
           !.serial = s, !.life = l, !.by = l, !.root = l, !.freshAt = clock - age,
           !.acked = TRUE] \in Entries
    BY <1>1, <1>2, EmptyTypes DEF Entries
  <1> QED BY <1>3 DEF Restored, late, state

\* What a task keeps once its loop is over is an attempt.
LEMMA EndingType ==
  ASSUME TypeOK, NEW t \in Tasks, NEW pc \in AttemptPcs
  PROVE  Ending(t, pc) \in Attempts
  BY EmptyTypes DEF TypeOK, Ending, Attempts

\* A task that ends gives the ownership back and is idle.
LEMMA ReleaseType ==
  ASSUME TypeOK, NEW t \in Tasks, Release(t)
  PROVE  owner' \in Tasks \cup {NoTask} /\ att' \in [Tasks -> Attempts]
  BY EmptyTypes DEF TypeOK, Release

\* Falling back from IXFR to AXFR leaves an attempt.
LEMMA TryAxfrType ==
  ASSUME TypeOK, NEW t \in Tasks, TryAxfr(t)
  PROVE  att' \in [Tasks -> Attempts]
  <1>1. att \in [Tasks -> Attempts] /\ att[t] \in Attempts BY DEF TypeOK
  <1>2. [att[t] EXCEPT !.pc = "axfr", !.via = "axfr", !.ver = 0, !.snapSerial = NoSerial,
                       !.root = 0, !.expected = NoSerial] \in Attempts
    BY <1>1 DEF Attempts, AttemptPcs, EarlyPcs, MaybeSerials
  <1> QED BY <1>1, <1>2 DEF TryAxfr

\* discard_obsolete keeps the types.
LEMMA DiscardType == ASSUME TypeOK, NEW t \in Tasks, DiscardObsolete(t) PROVE TypeOK'
  <1>1. att[t].gen \in Nat BY DEF TypeOK, Attempts
  <1> QED BY <1>1, ReleaseType, DeferredType, EmptyTypes DEF TypeOK, DiscardObsolete

\* Dropping an unfinished ZoneRefreshAttempt keeps the types.
LEMMA DropType == ASSUME TypeOK, NEW t \in Tasks, DropAttempt(t) PROVE TypeOK'
  <1>1. att[t].gen \in Nat BY DEF TypeOK, Attempts
  <1> QED BY <1>1, ReleaseType, DeferredType, EmptyTypes DEF TypeOK, DropAttempt

\* The program starts with its types.
LEMMA InitType == Init => TypeOK
  <1> SUFFICES ASSUME Init PROVE TypeOK
    OBVIOUS
  <1>1. clock \in Nat /\ secret \in Nat /\ life \in Nat /\ owner \in Tasks \cup {NoTask}
    BY LifecycleAssumption DEF Init
  <1>2. queue \subseteq Requests /\ sched \in SchedStates
    BY EmptyTypes DEF Init
  <1>3. recon \in ReconStates
    BY EmptyTypes, LifecycleAssumption DEF Init, ReconStates
  <1>4. plan \in Plans /\ used \in [plan : Nat, gen : Nat, ver : Nat]
    <2>1. \/ plan = NoPlan /\ used = [plan |-> 0, gen |-> 0, ver |-> 0]
          \/ plan = [gen |-> 1, life |-> 0] /\ used = [plan |-> 1, gen |-> 1, ver |-> 1]
      BY Zenon DEF Init
    <2> QED BY <2>1, EmptyTypes DEF Plans
  <1>5. att \in [Tasks -> Attempts]
    <2>1. [Idle EXCEPT !.pc = "begin", !.plan = 1] \in Attempts
      BY EmptyTypes DEF Attempts, AttemptPcs, EarlyPcs
    <2> QED BY <2>1, EmptyTypes DEF Init
  <1>6. entry \in Entries /\ status \in Statuses
    <2>1. CASE entry = NoEntry /\ status = NoStatus
      BY <2>1, EmptyTypes
    <2>2. CASE /\ entry = [NoEntry EXCEPT !.state = "Loading", !.ver = 1, !.snap = 1]
               /\ status = [NoStatus EXCEPT !.gen = 1]
      BY <2>2, EmptyTypes, StatusFields DEF Entries, EntryStates
    <2>3. ASSUME NEW z \in Offered, NEW d \in RefreshDelays, NEW age \in 0 .. clock - 1,
                 entry = Restored(1, z, age, 0), status = Succeeded(1, age, d, FALSE)
          PROVE  entry \in Entries /\ status \in Statuses
      <3>1. age \in Nat /\ age \in Int /\ d \in Nat /\ 1 \in Nat /\ 0 \in Nat
        BY <1>1, LifecycleAssumption
      <3>2. entry \in Entries
        BY <1>1, <3>1, <2>3, RestoredType
      <3>3. status \in Statuses
        BY <1>1, <3>1, <2>3, SucceededType
      <3> QED BY <3>2, <3>3
    <2> QED BY <2>1, <2>2, <2>3, Zenon DEF Init
  <1> QED BY <1>1, <1>2, <1>3, <1>4, <1>5, <1>6 DEF TypeOK

\* A reconciliation that is over leaves only whether a copy is cached.
LEMMA ReconciledType ==
  ASSUME TypeOK, Reconciled
  PROVE  recon' \in ReconStates /\ recon'.pc = "idle" /\ recon'.cached = recon.cached
  <1>1. recon \in ReconStates /\ recon.cached \in BOOLEAN BY DEF TypeOK, ReconStates
  <1> QED BY <1>1, EmptyTypes DEF Reconciled, ReconIdle, ReconStates

\* Every step keeps the types: one case per action.
LEMMA NextType == TypeOK /\ [Next]_vars => TypeOK'
  <1> SUFFICES ASSUME TypeOK, [Next]_vars PROVE TypeOK'
    OBVIOUS
  <1>1. CASE Tick
    BY <1>1 DEF TypeOK, Tick
  <1>2. CASE ReloadSecrets
    BY <1>2 DEF TypeOK, ReloadSecrets
  <1>3. CASE Notify
    BY <1>3 DEF TypeOK, Notify, Enqueue, Requests, Plans, Statuses
  <1>4. CASE ControlPlaneRetry
    BY <1>4 DEF TypeOK, ControlPlaneRetry, Enqueue, Requests, Plans
  <1>5. CASE DropFromQueue
    <2>1. status \in Statuses /\ clock \in Int /\ status.nextRefresh \in Int
      BY <1>5 DEF TypeOK, Statuses
    <2>2. \A n \in Int : [status EXCEPT !.inProgress = FALSE, !.nextRefresh = n] \in Statuses
      BY <1>5, <2>1, StatusFields
    <2>3. status' \in Statuses
      BY <1>5, <2>1, <2>2 DEF DropFromQueue
    <2>4. queue' \subseteq Requests
      BY <1>5 DEF TypeOK, DropFromQueue
    <2> QED
      BY <1>5, <2>1, <2>2, <2>3, <2>4 DEF TypeOK, DropFromQueue
  <1>6. CASE Dispatch
    <2>1. \A r \in Requests : [Idle EXCEPT !.pc = "begin", !.plan = r.plan, !.life = plan.life, !.ngen = r.ngen] \in Attempts
      BY <1>6, EmptyTypes DEF TypeOK, Plans, Requests, Attempts, AttemptPcs, EarlyPcs
    <2>2. att' \in [Tasks -> Attempts]
      <3>1. PICK r \in queue :
              att' = IF IsCurrent(r)
                       THEN [att EXCEPT !["dispatch"] =
                               [Idle EXCEPT !.pc = "begin", !.plan = r.plan,
                                            !.life = plan.life, !.ngen = r.ngen]]
                       ELSE att
        BY <1>6 DEF Dispatch
      <3>2. r \in Requests /\ att \in [Tasks -> Attempts]
        BY DEF TypeOK
      <3> DEFINE a == [Idle EXCEPT !.pc = "begin", !.plan = r.plan,
                                   !.life = plan.life, !.ngen = r.ngen]
      <3>3. a \in Attempts BY <2>1, <3>2
      <3> HIDE DEF a
      <3>4. att' = [att EXCEPT !["dispatch"] = a] \/ att' = att
        BY <3>1, Zenon DEF a
      <3> QED BY <3>2, <3>3, <3>4 DEF Tasks
    <2>3. queue' \subseteq Requests
      BY <1>6 DEF TypeOK, Dispatch
    <2> QED
      BY <1>6, <2>1, <2>2, <2>3 DEF TypeOK, Dispatch
  <1>7. CASE BeginStale
    BY <1>7, EmptyTypes DEF TypeOK, BeginStale, Tasks
  <1>8. CASE ExpiryCollect
    BY <1>8, EmptyTypes DEF TypeOK, ExpiryCollect, SchedStates, Statuses
  <1>9. CASE ExpiryCapture
    BY <1>9, EmptyTypes DEF TypeOK, ExpiryCapture, SchedStates, DueCheck, Entries
  <1>10. CASE ExpiryRecheck
    BY <1>10, EmptyTypes DEF TypeOK, ExpiryRecheck, SchedStates, DueCheck
  <1>11. CASE ExpirePublish
    <2>1. sched' \in SchedStates
      BY <1>11, EmptyTypes DEF TypeOK, ExpirePublish, DueCheck, SchedStates
    <2>2. status' \in Statuses
      BY <1>11, StatusType, Zenon DEF ExpirePublish
    <2>3. used' \in [plan : Nat, gen : Nat, ver : Nat]
      BY <1>11 DEF TypeOK, ExpirePublish
    <2>4. entry' \in Entries
      <3>1. used.ver + 1 \in Nat /\ entry \in Entries BY DEF TypeOK
      <3>2. [entry EXCEPT !.state = "Expired", !.ver = used.ver + 1] \in Entries
        BY <3>1 DEF Entries, EntryStates
      <3> QED BY <1>11, <3>1, <3>2, Zenon DEF ExpirePublish
    <2> QED
      BY <1>11, <2>1, <2>2, <2>3, <2>4 DEF TypeOK, ExpirePublish
  <1>12. CASE StartDue
    <2>1. [SchedIdle EXCEPT !.pc = "sending"] \in SchedStates
      BY <1>12, EmptyTypes DEF SchedStates
    <2>2. [status EXCEPT !.inProgress = TRUE] \in Statuses
      BY StatusType
    <2>3. sched' \in SchedStates /\ status' \in Statuses
      BY <1>12, <2>1, <2>2, EmptyTypes, StatusType, Zenon DEF StartDue
    <2> QED
      BY <1>12, <2>1, <2>2, <2>3 DEF TypeOK, StartDue
  <1>13. CASE SendDue
    <2>1. [status EXCEPT !.inProgress = FALSE] \in Statuses
      BY StatusType
    <2>2. queue' \subseteq Requests
      BY <1>13 DEF TypeOK, SendDue, Enqueue, Requests, Plans
    <2>3. sched' \in SchedStates /\ status' \in Statuses
      BY <1>13, <2>1, EmptyTypes, StatusType, Zenon DEF SendDue
    <2> QED
      BY <1>13, <2>1, <2>2, <2>3 DEF TypeOK, SendDue
  <1>14. CASE ReconcileStart
    BY <1>14 DEF TypeOK, ReconcileStart, ReconStates
  <1>15. CASE ReconcileRemovePlan
    <2>1. recon' \in ReconStates
      BY <1>15 DEF TypeOK, ReconcileRemovePlan, ReconStates
    <2>2. plan' \in Plans /\ life' \in Nat
      BY <1>15, EmptyTypes DEF TypeOK, ReconcileRemovePlan
    <2> QED
      BY <1>15, <2>1, <2>2 DEF TypeOK, ReconcileRemovePlan
  <1>16. CASE ReconcileRemoveStatus
    BY <1>16, EmptyTypes DEF TypeOK, ReconcileRemoveStatus, ReconStates, Reconciling
  <1>17. CASE ReconcileInsertPlan
    <2>1. plan' \in Plans /\ used' \in [plan : Nat, gen : Nat, ver : Nat]
      BY <1>17 DEF TypeOK, ReconcileInsertPlan, Plans
    <2>2. recon' \in ReconStates
      BY <1>17, ReconciledType DEF TypeOK, ReconcileInsertPlan, Reconciling, ReconStates
    <2>3. queue' \subseteq Requests
      BY <1>17 DEF TypeOK, ReconcileInsertPlan, SendCatalogRefresh, Requests
    <2> QED
      BY <1>17, <2>1, <2>2, <2>3 DEF TypeOK, ReconcileInsertPlan
  <1>18. CASE ReconcileRestore
    <2>0. PICK s \in Offered, age \in 0 .. clock - 1 :
            /\ entry' = Restored(used.ver + 1, s, age, life)
            /\ recon' = [recon EXCEPT !.pc = "restored", !.freshAt = clock - age]
      BY <1>18, Zenon DEF ReconcileRestore
    <2>a. age \in Nat /\ clock \in Nat /\ clock - age \in Int /\ used.ver + 1 \in Nat /\ life \in Nat
      BY DEF TypeOK
    <2>1. recon' \in ReconStates
      BY <2>0, <2>a DEF TypeOK, ReconStates
    <2>2. entry' \in Entries
      BY <2>0, <2>a, RestoredType
    <2>3. used' \in [plan : Nat, gen : Nat, ver : Nat]
      BY <1>18 DEF TypeOK, ReconcileRestore
    <2> QED
      BY <1>18, <2>1, <2>2, <2>3 DEF TypeOK, ReconcileRestore
  <1>19. CASE ReconcileRestoredStatus
    <2>1. recon' \in ReconStates /\ queue' \subseteq Requests
      <3>1. recon' \in ReconStates
        BY <1>19, ReconciledType DEF ReconcileRestoredStatus
      <3>2. queue' \subseteq Requests
        BY <1>19 DEF TypeOK, ReconcileRestoredStatus, SendCatalogRefresh, Requests, Plans
      <3> QED BY <3>1, <3>2
    <2>2. clock - recon.freshAt \in Int
      BY <1>19 DEF TypeOK, ReconStates
    <2>3. \A g \in Nat, d \in RefreshDelays : Succeeded(g, clock - recon.freshAt, d, FALSE) \in Statuses
      BY <1>19, <2>2, SucceededType, LifecycleAssumption DEF TypeOK
    <2>4. status' \in Statuses
      <3> DEFINE gen == IF status.gen = 0 THEN used.gen + 1 ELSE status.gen
      <3>1. gen \in Nat BY DEF TypeOK, Statuses
      <3>2. PICK d \in RefreshDelays : status' = Succeeded(gen, clock - recon.freshAt, d, FALSE)
        BY <1>19, Zenon DEF ReconcileRestoredStatus
      <3> HIDE DEF gen
      <3> QED BY <2>3, <3>1, <3>2
    <2>5. used' \in [plan : Nat, gen : Nat, ver : Nat]
      BY <1>19 DEF TypeOK, ReconcileRestoredStatus
    <2> QED
      BY <1>19, <2>1, <2>2, <2>3, <2>4, <2>5 DEF TypeOK, ReconcileRestoredStatus
  <1>20. CASE ReconcileLoadingStart
    <2>1. recon' \in ReconStates
      BY <1>20 DEF TypeOK, ReconcileLoadingStart, Reconciling, ReconStates
    <2>2. status' \in Statuses
      <3>1. [NoStatus EXCEPT !.gen = used.gen + 1] \in Statuses
        <4>1. used.gen + 1 \in Nat BY DEF TypeOK
        <4> QED BY <4>1, NewStatusType, Zenon
      <3> QED BY <1>20, <3>1, StatusType, Zenon DEF ReconcileLoadingStart
    <2>3. used' \in [plan : Nat, gen : Nat, ver : Nat]
      BY <1>20 DEF TypeOK, ReconcileLoadingStart
    <2> QED
      BY <1>20, <2>1, <2>2, <2>3 DEF TypeOK, ReconcileLoadingStart
  <1>21. CASE ReconcileDirectory
    <2>1. recon' \in ReconStates /\ queue' \subseteq Requests
      <3>1. recon' \in ReconStates
        BY <1>21, ReconciledType DEF ReconcileDirectory
      <3>2. queue' \subseteq Requests
        BY <1>21 DEF TypeOK, ReconcileDirectory, SendCatalogRefresh, Requests, Plans
      <3> QED BY <3>1, <3>2
    <2>2. entry' \in Entries
      <3> DEFINE l == IF recon.what = "add" /\ entry.state # "Absent" THEN entry.life ELSE life
                 e == [NoEntry EXCEPT !.state = "Loading", !.ver = used.ver + 1,
                                      !.snap = used.ver + 1, !.life = l]
      <3>1. used.ver + 1 \in Nat /\ l \in Nat BY DEF TypeOK, Entries
      <3>2. e \in Entries
        <4> HIDE DEF l
        <4> QED BY <3>1, EmptyTypes DEF Entries, EntryStates
      <3>3. entry' = NoEntry \/ entry' = e BY <1>21, Zenon DEF ReconcileDirectory
      <3> QED BY <3>2, <3>3, EmptyTypes
    <2>3. used' \in [plan : Nat, gen : Nat, ver : Nat]
      BY <1>21 DEF TypeOK, ReconcileDirectory
    <2> QED
      BY <1>21, <2>1, <2>2, <2>3 DEF TypeOK, ReconcileDirectory
  <1>22. CASE ReplaceEntry
    BY <1>22 DEF TypeOK, ReplaceEntry, Entries
  <1>23. ASSUME NEW t \in Tasks, BeginAttempt(t) PROVE TypeOK'
    <2>1. att' \in [Tasks -> Attempts]
      BY <1>23 DEF TypeOK, BeginAttempt, Statuses, Attempts, AttemptPcs, EarlyPcs
    <2>2. status' \in Statuses
      <3>1. [NoStatus EXCEPT !.gen = used.gen + 1, !.inProgress = TRUE] \in Statuses
        <4>1. used.gen + 1 \in Nat BY DEF TypeOK
        <4> QED BY <4>1, NewStatusType, Zenon
      <3> QED BY <1>23, <3>1, StatusType, Zenon DEF BeginAttempt
    <2>3. used' \in [plan : Nat, gen : Nat, ver : Nat]
      BY <1>23 DEF TypeOK, BeginAttempt
    <2> QED
      BY <1>23, <2>1, <2>2, <2>3 DEF TypeOK, BeginAttempt
  <1>24. ASSUME NEW t \in Tasks, StartLoop(t) PROVE TypeOK'
    <2>1. Primaries \in 0 .. Primaries /\ entry.serial \in MaybeSerials /\ secret \in Nat
      BY <1>24, LifecycleAssumption DEF TypeOK, Entries
    <2>2. att' \in [Tasks -> Attempts]
      <3>1. PICK force \in BOOLEAN :
              att' = [att EXCEPT ![t].pc = "poll", ![t].left = Primaries, ![t].force = force,
                                 ![t].secret = secret, ![t].serial = entry.serial]
        BY <1>24, Zenon DEF StartLoop
      <3>2. att \in [Tasks -> Attempts] /\ att[t] \in Attempts BY <1>24 DEF TypeOK
      <3>3. [att[t] EXCEPT !.pc = "poll", !.left = Primaries, !.force = force,
                           !.secret = secret, !.serial = entry.serial] \in Attempts
        BY <2>1, <3>2 DEF Attempts, AttemptPcs, EarlyPcs
      <3> QED BY <3>1, <3>2, <3>3
    <2> QED
      BY <1>24, <2>1, <2>2 DEF TypeOK, StartLoop
  <1>25. ASSUME NEW t \in Tasks, StartStale(t) PROVE TypeOK'
    BY <1>25, DiscardType DEF StartStale
  <1>26. ASSUME NEW t \in Tasks, Cancelled(t) PROVE TypeOK'
    BY <1>26, DiscardType DEF Cancelled
  <1>27. ASSUME NEW t \in Tasks, Interrupt(t) PROVE TypeOK'
    BY <1>27, DropType DEF Interrupt
  <1>28. ASSUME NEW t \in Tasks, PollPrimary(t) PROVE TypeOK'
    BY <1>28, LifecycleAssumption DEF TypeOK, PollPrimary, Attempts, AttemptPcs, EarlyPcs,
      Entries, NextPrimary, PrimaryLeft, MaybeSerials
  <1>29. ASSUME NEW t \in Tasks, IxfrFails(t) PROVE TypeOK'
    <2>1. att' \in [Tasks -> Attempts]
      BY <1>29, TryAxfrType DEF IxfrFails
    <2> QED
      BY <1>29, <2>1 DEF TypeOK, IxfrFails
  <1>30. ASSUME NEW t \in Tasks, TransferFails(t) PROVE TypeOK'
    BY <1>30 DEF TypeOK, TransferFails, Attempts, AttemptPcs, EarlyPcs, NextPrimary, MaybeSerials
  <1>31. ASSUME NEW t \in Tasks, Prepare(t) PROVE TypeOK'
    <2>1. entry.ver \in Nat /\ entry.serial \in MaybeSerials
      BY <1>31 DEF TypeOK, Entries
    <2>2. Offered \subseteq MaybeSerials
      BY <1>31, LifecycleAssumption DEF MaybeSerials
    <2>3. att' \in [Tasks -> Attempts]
      <3> DEFINE root == IF att[t].via = "ixfr" THEN att[t].root ELSE att[t].life
      <3>1. att \in [Tasks -> Attempts] /\ att[t] \in Attempts /\ root \in Nat
        BY <1>31 DEF TypeOK, Attempts
      <3>2. PICK s \in Offered :
              att' = [att EXCEPT ![t].pc = "prepared", ![t].ver = entry.ver,
                                 ![t].expected = entry.serial, ![t].snapSerial = s,
                                 ![t].root = IF att[t].via = "ixfr" THEN @ ELSE att[t].life]
        BY <1>31, Zenon DEF Prepare
      <3>3. [att[t] EXCEPT !.pc = "prepared", !.ver = entry.ver, !.expected = entry.serial,
                           !.snapSerial = s,
                           !.root = IF att[t].via = "ixfr" THEN @ ELSE att[t].life] \in Attempts
        BY <2>1, <2>2, <3>1 DEF Attempts, AttemptPcs, EarlyPcs
      <3> QED BY <3>1, <3>2, <3>3
    <2> QED
      BY <1>31, <2>1, <2>2, <2>3 DEF TypeOK, Prepare
  <1>32. ASSUME NEW t \in Tasks, PublishPrepared(t) PROVE TypeOK'
    <2>1. att' \in [Tasks -> Attempts]
      <3>1. Ending(t, "published") \in Attempts /\ used.ver + 1 \in Nat
        BY <1>32, EndingType DEF TypeOK, AttemptPcs
      <3>2. [Ending(t, "published") EXCEPT !.ver = used.ver + 1] \in Attempts
        BY <3>1 DEF Attempts
      <3> QED BY <1>32, <3>2 DEF TypeOK, PublishPrepared
    <2>2. entry' \in Entries
      BY <1>32 DEF TypeOK, PublishPrepared, Attempts, Entries, EntryStates
    <2>3. used' \in [plan : Nat, gen : Nat, ver : Nat]
      BY <1>32 DEF TypeOK, PublishPrepared
    <2> QED
      BY <1>32, <2>1, <2>2, <2>3 DEF TypeOK, PublishPrepared
  <1>33. ASSUME NEW t \in Tasks, PublishObsolete(t) PROVE TypeOK'
    BY <1>33, DiscardType DEF PublishObsolete
  <1>34. ASSUME NEW t \in Tasks, PromoteFails(t) PROVE TypeOK'
    BY <1>34 DEF TypeOK, PromoteFails, Attempts, AttemptPcs, EarlyPcs, TryAxfr, NextPrimary,
      MaybeSerials
  <1>35. ASSUME NEW t \in Tasks, StartConfirm(t) PROVE TypeOK'
    BY <1>35 DEF TypeOK, StartConfirm, Attempts, AttemptPcs, EarlyPcs, Entries
  <1>36. ASSUME NEW t \in Tasks, ConfirmFails(t) PROVE TypeOK'
    BY <1>36 DEF TypeOK, ConfirmFails, Attempts, AttemptPcs, EarlyPcs, TryAxfr, MaybeSerials
  <1>37. ASSUME NEW t \in Tasks, ConfirmStale(t) PROVE TypeOK'
    BY <1>37, DiscardType DEF ConfirmStale
  <1>38. ASSUME NEW t \in Tasks, ConfirmCurrent(t) PROVE TypeOK'
    <2>1. \A d \in RefreshDelays : Succeeded(att[t].gen, 0, d, TRUE) \in Statuses
      <3>1. att[t].gen \in Nat /\ clock \in Nat BY <1>38 DEF TypeOK, Attempts
      <3>2. RefreshDelays \subseteq Nat BY LifecycleAssumption
      <3>3. \A b \in BOOLEAN, d \in RefreshDelays : Succeeded(att[t].gen, 0, d, b) \in Statuses
        BY <3>1, <3>2, SucceededType
      <3> QED BY <3>3, Zenon
    <2>2. status' \in Statuses
      BY <1>38, <2>1 DEF ConfirmCurrent
    <2>3. att' \in [Tasks -> Attempts]
      BY <1>38, EndingType DEF TypeOK, ConfirmCurrent, AttemptPcs
    <2>4. entry' \in Entries
      <3>1. entry \in Entries /\ used.ver + 1 \in Nat /\ clock \in Int BY DEF TypeOK
      <3>2. [entry EXCEPT !.freshAt = clock, !.acked = TRUE] \in Entries
        BY <3>1 DEF Entries
      <3> DEFINE n == IF entry.bornExpired THEN used.ver + 1 ELSE entry.snap
      <3>3. n \in Nat BY <3>1 DEF Entries
      <3>4. [entry EXCEPT !.state = "Active", !.ver = used.ver + 1,
                       !.snap = IF entry.bornExpired THEN used.ver + 1 ELSE @,
                       !.bornExpired = FALSE, !.freshAt = clock, !.acked = TRUE] \in Entries
        BY <3>1, <3>3 DEF Entries, EntryStates
      <3> QED BY <1>38, <3>2, <3>4, Zenon DEF ConfirmCurrent
    <2>5. used' \in [plan : Nat, gen : Nat, ver : Nat]
      BY <1>38 DEF TypeOK, ConfirmCurrent
    <2> QED
      BY <1>38, <2>1, <2>2, <2>3, <2>4, <2>5 DEF TypeOK, ConfirmCurrent
  <1>39. ASSUME NEW t \in Tasks, AcknowledgeCheck(t) PROVE TypeOK'
    BY <1>39 DEF TypeOK, AcknowledgeCheck, Attempts, AttemptPcs, EarlyPcs
  <1>40. ASSUME NEW t \in Tasks, Acknowledge(t) PROVE TypeOK'
    <2>1. \A d \in RefreshDelays : Succeeded(att[t].gen, 0, d, TRUE) \in Statuses
      <3>1. att[t].gen \in Nat /\ clock \in Nat BY <1>40 DEF TypeOK, Attempts
      <3>2. RefreshDelays \subseteq Nat BY LifecycleAssumption
      <3>3. \A b \in BOOLEAN, d \in RefreshDelays : Succeeded(att[t].gen, 0, d, b) \in Statuses
        BY <3>1, <3>2, SucceededType
      <3> QED BY <3>3, Zenon
    <2>2. status' \in Statuses
      BY <1>40, <2>1 DEF Acknowledge
    <2>3. att' \in [Tasks -> Attempts]
      BY <1>40, EndingType DEF TypeOK, Acknowledge, AttemptPcs
    <2>4. entry' \in Entries
      BY <1>40 DEF TypeOK, Acknowledge, Entries
    <2> QED
      BY <1>40, <2>1, <2>2, <2>3, <2>4 DEF TypeOK, Acknowledge
  <1>41. ASSUME NEW t \in Tasks, NotAcknowledged(t) PROVE TypeOK'
    BY <1>41, DropType DEF NotAcknowledged
  <1>42. ASSUME NEW t \in Tasks, FinishAttempt(t) PROVE TypeOK'
    <2>1. [status EXCEPT !.inProgress = FALSE] \in Statuses
      BY StatusType
    <2>2. status' \in Statuses
      BY <1>42, <2>1, StatusType, Zenon DEF FinishAttempt
    <2>3. owner' \in Tasks \cup {NoTask} /\ att' \in [Tasks -> Attempts]
      BY <1>42, ReleaseType DEF FinishAttempt
    <2> QED
      BY <1>42, <2>1, <2>2, <2>3 DEF TypeOK, FinishAttempt
  <1>43. ASSUME NEW t \in Tasks, FailAttempt(t) PROVE TypeOK'
    <2>1. Ending(t, "failing") \in Attempts /\ entry.state \in EntryStates
      BY <1>43, EndingType DEF TypeOK, AttemptPcs, Entries
    <2>2. att' \in [Tasks -> Attempts]
      BY <1>43, <2>1 DEF TypeOK, FailAttempt, Attempts
    <2> QED
      BY <1>43, <2>1, <2>2 DEF TypeOK, FailAttempt
  <1>44. ASSUME NEW t \in Tasks, RecordFailure(t) PROVE TypeOK'
    <2>1. status' \in Statuses
      <3>1. CASE UNCHANGED status BY <3>1, StatusType
      <3>2. ASSUME NEW d \in FailureDelays(att[t].seen), NEW expired \in BOOLEAN,
                   status' = [status EXCEPT !.inProgress = FALSE, !.nextRefresh = clock + d,
                                            !.expired = expired]
            PROVE  status' \in Statuses
        <4>1. clock + d \in Int BY LifecycleAssumption DEF TypeOK, FailureDelays
        <4> QED BY <3>2, <4>1, StatusType, StatusFields
      <3> QED BY <1>44, <3>1, <3>2, Zenon DEF RecordFailure
    <2>2. owner' \in Tasks \cup {NoTask} /\ att' \in [Tasks -> Attempts]
      BY <1>44, ReleaseType DEF RecordFailure
    <2> QED
      BY <1>44, <2>1, <2>2 DEF TypeOK, RecordFailure
  <1>45. CASE UNCHANGED vars
    BY <1>45 DEF TypeOK, vars
  <1> QED
    BY <1>1, <1>2, <1>3, <1>4, <1>5, <1>6, <1>7, <1>8, <1>9, <1>10, <1>11, <1>12, <1>13, <1>14,
      <1>15, <1>16, <1>17, <1>18, <1>19, <1>20, <1>21, <1>22, <1>23, <1>24, <1>25, <1>26,
      <1>27, <1>28, <1>29, <1>30, <1>31, <1>32, <1>33, <1>34, <1>35, <1>36, <1>37, <1>38, <1>39,
      <1>40, <1>41, <1>42, <1>43, <1>44, <1>45, Zenon
    DEF Next, Environment, Attempt, Scheduler, Reconcile
\* Every behaviour keeps its types: the counters of handed out identities, the primaries an
\* attempt still has to ask, the serials of what is served and of what is prepared.
THEOREM TypeCorrect == Spec => []TypeOK
  BY InitType, NextType, PTL DEF Spec

-----------------------------------------------------------------------------
(***************************************************************************)
(* LifeInv is inductive.                                                   *)
(***************************************************************************)

\* Only these steps change the plan, the directory entry, the ghost count of lives or the
\* identities handed out.
Loud ==
  \/ ReconcileRemovePlan \/ ReconcileInsertPlan \/ ReconcileRestore
  \/ ReconcileRestoredStatus \/ ReconcileLoadingStart \/ ReconcileDirectory
  \/ ExpirePublish \/ ReplaceEntry
  \/ \E t \in Tasks : BeginAttempt(t) \/ PublishPrepared(t) \/ ConfirmCurrent(t) \/ Acknowledge(t)

Quiet == UNCHANGED <<plan, entry, life, used>>

\* Every step of the specification is loud or quiet.
LEMMA QuietOrLoud == [Next]_vars => Quiet \/ Loud
  <1> SUFFICES ASSUME [Next]_vars PROVE Quiet \/ Loud
    OBVIOUS
  <1>1. CASE Environment
    BY <1>1, Zenon DEF Environment, Tick, ReloadSecrets, Notify, ControlPlaneRetry,
                       DropFromQueue, Quiet, Loud
  <1>2. CASE Dispatch \/ BeginStale
    BY <1>2, Zenon DEF Dispatch, BeginStale, Quiet
  <1>3. CASE Scheduler
    BY <1>3, Zenon DEF Scheduler, ExpiryCollect, ExpiryCapture, ExpiryRecheck, StartDue,
                       SendDue, Quiet, Loud
  <1>4. CASE Reconcile
    BY <1>4, Zenon DEF Reconcile, ReconcileStart, ReconcileRemoveStatus, Quiet, Loud
  <1>5. ASSUME NEW t \in Tasks, Attempt(t) \/ Interrupt(t) PROVE Quiet \/ Loud
    <2>1. CASE StartStale(t) \/ Cancelled(t) \/ PublishObsolete(t) \/ ConfirmStale(t)
      BY <2>1, Zenon DEF StartStale, Cancelled, PublishObsolete, ConfirmStale,
                         DiscardObsolete, Quiet
    <2>2. CASE NotAcknowledged(t) \/ Interrupt(t)
      BY <2>2, Zenon DEF NotAcknowledged, Interrupt, DropAttempt, Quiet
    <2>3. CASE StartLoop(t) \/ PollPrimary(t) \/ IxfrFails(t) \/ TransferFails(t) \/ Prepare(t)
      BY <2>3, Zenon DEF StartLoop, PollPrimary, IxfrFails, TransferFails, Prepare, Quiet
    <2>4. CASE PromoteFails(t) \/ StartConfirm(t) \/ ConfirmFails(t) \/ AcknowledgeCheck(t)
      BY <2>4, Zenon DEF PromoteFails, StartConfirm, ConfirmFails, AcknowledgeCheck, Quiet
    <2>5. CASE FinishAttempt(t) \/ FailAttempt(t) \/ RecordFailure(t)
      BY <2>5, Zenon DEF FinishAttempt, FailAttempt, RecordFailure, Quiet
    <2> QED BY <1>5, <2>1, <2>2, <2>3, <2>4, <2>5, Zenon DEF Attempt, Loud
  <1>6. CASE UNCHANGED vars
    BY <1>6, Zenon DEF vars, Quiet
  <1> QED BY <1>1, <1>2, <1>3, <1>4, <1>5, <1>6, Zenon DEF Next

\* What a step may do to the things attempts have captured: an identity is kept with what it
\* identifies, withdrawn, or replaced by one that was never handed out before.
Moves ==
  /\ used.ver <= used'.ver /\ used.plan <= used'.plan
  /\ \/ entry'.ver = entry.ver /\ entry'.serial = entry.serial
     \/ entry'.ver = 0 /\ entry'.serial = NoSerial
     \/ entry'.ver > used.ver
  /\ \/ entry'.snap = entry.snap /\ entry'.serial = entry.serial
     \/ entry'.snap = 0
     \/ entry'.snap > used.ver
  /\ plan' = plan \/ plan'.gen = 0 \/ plan'.gen > used.plan

\* Every step moves the captured identities as Moves allows: a directory entry that is replaced,
\* expired or confirmed gets an identity that no attempt can hold yet.
LEMMA StepMoves == TypeOK /\ [Next]_vars => Moves
  <1> SUFFICES ASSUME TypeOK, [Next]_vars PROVE Moves
    OBVIOUS
  <1>0. /\ used \in [plan : Nat, gen : Nat, ver : Nat] /\ entry \in Entries /\ plan \in Plans
        /\ used.plan \in Nat /\ used.ver \in Nat
    BY DEF TypeOK
  <1>1. CASE Quiet
    BY <1>0, <1>1 DEF Quiet, Moves
  <1>2. CASE ReconcileRemovePlan
    BY <1>0, <1>2 DEF ReconcileRemovePlan, NoPlan, Moves
  <1>3. CASE ReconcileInsertPlan
    BY <1>0, <1>3 DEF ReconcileInsertPlan, Moves
  <1>4. CASE ReconcileRestore
    <2>1. PICK s \in Offered, age \in 0 .. clock - 1 : entry' = Restored(used.ver + 1, s, age, life)
      BY <1>4, Zenon DEF ReconcileRestore
    <2>2. Restored(used.ver + 1, s, age, life).ver = used.ver + 1 /\ Restored(used.ver + 1, s, age, life).snap = used.ver + 1
      BY DEF Restored, NoEntry
    <2> QED BY <1>0, <1>4, <2>1, <2>2 DEF ReconcileRestore, Moves
  <1>5. CASE ReconcileRestoredStatus
    <2>1. used'.plan = used.plan /\ used'.ver = used.ver /\ UNCHANGED <<plan, entry>>
      BY <1>0, <1>5 DEF ReconcileRestoredStatus
    <2> QED BY <1>0, <2>1 DEF Moves
  <1>6. CASE ReconcileLoadingStart
    <2>1. used'.plan = used.plan /\ used'.ver = used.ver /\ UNCHANGED <<plan, entry>>
      BY <1>0, <1>6 DEF ReconcileLoadingStart
    <2> QED BY <1>0, <2>1 DEF Moves
  <1>7. CASE ReconcileDirectory
    <2>1. CASE entry' = NoEntry /\ UNCHANGED used
      BY <1>0, <1>7, <2>1 DEF ReconcileDirectory, Moves, NoEntry
    <2>2. CASE entry'.ver = used.ver + 1 /\ entry'.snap = used.ver + 1 /\ used' = [used EXCEPT !.ver = @ + 1]
      BY <1>0, <1>7, <2>2 DEF ReconcileDirectory, Moves
    <2> QED BY <1>7, <2>1, <2>2 DEF ReconcileDirectory, NoEntry
  <1>8. CASE ExpirePublish
    <2>1. CASE UNCHANGED <<entry, used>>
      BY <1>0, <1>8, <2>1 DEF ExpirePublish, Moves
    <2>2. CASE /\ used' = [used EXCEPT !.ver = @ + 1]
               /\ entry' = [entry EXCEPT !.state = "Expired", !.ver = used.ver + 1]
      BY <1>0, <1>8, <2>2 DEF ExpirePublish, Moves, Entries
    <2> QED BY <1>8, <2>1, <2>2, Zenon DEF ExpirePublish
  <1>9. CASE ReplaceEntry
    BY <1>0, <1>9 DEF ReplaceEntry, Moves, Entries
  <1>10. ASSUME NEW t \in Tasks, BeginAttempt(t) PROVE Moves
    <2>1. used'.plan = used.plan /\ used'.ver = used.ver /\ UNCHANGED <<plan, entry>>
      BY <1>0, <1>10 DEF BeginAttempt
    <2> QED BY <1>0, <2>1 DEF Moves
  <1>11. ASSUME NEW t \in Tasks, PublishPrepared(t) PROVE Moves
    BY <1>0, <1>11 DEF PublishPrepared, Moves
  <1>12. ASSUME NEW t \in Tasks, ConfirmCurrent(t) PROVE Moves
    <2>1. CASE entry' = [entry EXCEPT !.freshAt = clock, !.acked = TRUE] /\ UNCHANGED used
      BY <1>0, <1>12, <2>1 DEF ConfirmCurrent, Moves, Entries
    <2>2. CASE /\ used' = [used EXCEPT !.ver = @ + 1]
               /\ entry' = [entry EXCEPT !.state = "Active", !.ver = used.ver + 1,
                              !.snap = IF entry.bornExpired THEN used.ver + 1 ELSE @,
                              !.bornExpired = FALSE, !.freshAt = clock, !.acked = TRUE]
      BY <1>0, <1>12, <2>2 DEF ConfirmCurrent, Moves, Entries
    <2> QED BY <1>12, <2>1, <2>2, Zenon DEF ConfirmCurrent
  <1>13. ASSUME NEW t \in Tasks, Acknowledge(t) PROVE Moves
    <2>1. CASE entry' = [entry EXCEPT !.acked = TRUE]
      BY <1>0, <1>13, <2>1 DEF Acknowledge, Moves, Entries
    <2>2. CASE entry' = entry
      BY <1>0, <1>13, <2>2 DEF Acknowledge, Moves
    <2> QED BY <1>13, <2>1, <2>2, Zenon DEF Acknowledge
  <1> QED
    BY <1>1, <1>2, <1>3, <1>4, <1>5, <1>6, <1>7, <1>8, <1>9, <1>10, <1>11, <1>12, <1>13,
       QuietOrLoud, Zenon DEF Loud
\* Only the reconciliation moves recon.
LEMMA ReconSteps == [Next]_vars => UNCHANGED recon \/ Reconcile
  <1> SUFFICES ASSUME [Next]_vars PROVE UNCHANGED recon \/ Reconcile
    OBVIOUS
  <1>1. CASE Environment
    BY <1>1, Zenon DEF Environment, Tick, ReloadSecrets, Notify, ControlPlaneRetry,
                       DropFromQueue, ReplaceEntry
  <1>2. CASE Dispatch \/ BeginStale
    BY <1>2, Zenon DEF Dispatch, BeginStale
  <1>3. CASE Scheduler
    BY <1>3, Zenon DEF Scheduler, ExpiryCollect, ExpiryCapture, ExpiryRecheck, ExpirePublish,
                       StartDue, SendDue
  <1>4. ASSUME NEW t \in Tasks, Attempt(t) \/ Interrupt(t) PROVE UNCHANGED recon
    <2>1. CASE StartStale(t) \/ Cancelled(t) \/ PublishObsolete(t) \/ ConfirmStale(t)
      BY <2>1, Zenon DEF StartStale, Cancelled, PublishObsolete, ConfirmStale, DiscardObsolete
    <2>2. CASE NotAcknowledged(t) \/ Interrupt(t)
      BY <2>2, Zenon DEF NotAcknowledged, Interrupt, DropAttempt
    <2>3. CASE StartLoop(t) \/ PollPrimary(t) \/ IxfrFails(t) \/ TransferFails(t) \/ Prepare(t)
      BY <2>3, Zenon DEF StartLoop, PollPrimary, IxfrFails, TransferFails, Prepare
    <2>4. CASE PromoteFails(t) \/ StartConfirm(t) \/ ConfirmFails(t) \/ AcknowledgeCheck(t)
      BY <2>4, Zenon DEF PromoteFails, StartConfirm, ConfirmFails, AcknowledgeCheck
    <2>5. CASE FinishAttempt(t) \/ FailAttempt(t) \/ RecordFailure(t)
      BY <2>5, Zenon DEF FinishAttempt, FailAttempt, RecordFailure
    <2>6. CASE BeginAttempt(t) \/ PublishPrepared(t) \/ ConfirmCurrent(t) \/ Acknowledge(t)
      BY <2>6, Zenon DEF BeginAttempt, PublishPrepared, ConfirmCurrent, Acknowledge
    <2> QED BY <1>4, <2>1, <2>2, <2>3, <2>4, <2>5, <2>6, Zenon DEF Attempt
  <1>5. CASE UNCHANGED vars
    BY <1>5, Zenon DEF vars
  <1> QED BY <1>1, <1>2, <1>3, <1>4, <1>5, Zenon DEF Next

\* The plan belongs to the current life, and only a reconciliation leaves an entry without one.
LEMMA PlanStep == TypeOK /\ LifeInv /\ [Next]_vars => PlanInv'
  <1> SUFFICES ASSUME TypeOK, LifeInv, [Next]_vars PROVE PlanInv'
    OBVIOUS
  <1>0. /\ used \in [plan : Nat, gen : Nat, ver : Nat] /\ entry \in Entries /\ plan \in Plans
        /\ used.plan \in Nat /\ plan.gen \in Nat /\ recon \in ReconStates /\ life \in Nat
    BY DEF TypeOK, Plans
  <1>a. PlanInv
    BY DEF LifeInv
  <1>1. CASE Quiet /\ UNCHANGED recon
    BY <1>a, <1>1 DEF Quiet, PlanInv
  <1>2. CASE ReconcileRemovePlan
    <2>1. recon'.pc = "removeStatus" /\ plan'.gen = 0
      BY <1>0, <1>2 DEF ReconcileRemovePlan, NoPlan, ReconStates
    <2> QED BY <1>0, <1>2, <2>1 DEF ReconcileRemovePlan, PlanInv
  <1>3. CASE ReconcileInsertPlan
    <2>1. plan'.gen = used.plan + 1 /\ plan'.life = life /\ used'.plan = used.plan + 1 /\ life' = life
      BY <1>0, <1>3 DEF ReconcileInsertPlan
    <2> QED BY <1>0, <2>1 DEF PlanInv
  <1>4. CASE ReconcileRestore
    <2>1. recon.pc = "loading" /\ used'.plan = used.plan /\ UNCHANGED <<plan, life>>
      BY <1>0, <1>4 DEF ReconcileRestore
    <2> QED BY <1>a, <2>1 DEF PlanInv
  <1>5. CASE ReconcileRestoredStatus
    <2>1. recon.pc = "restored" /\ used'.plan = used.plan /\ UNCHANGED <<plan, life>>
      BY <1>0, <1>5 DEF ReconcileRestoredStatus
    <2> QED BY <1>a, <2>1 DEF PlanInv
  <1>6. CASE ReconcileLoadingStart
    <2>1. recon.pc = "loading" /\ used'.plan = used.plan /\ UNCHANGED <<plan, life>>
      BY <1>0, <1>6 DEF ReconcileLoadingStart
    <2> QED BY <1>a, <2>1 DEF PlanInv
  <1>7. CASE ReconcileDirectory
    <2>1. CASE recon.what = "remove" /\ entry' = NoEntry /\ UNCHANGED used
      <3>1. recon'.pc = "idle" /\ entry'.state = "Absent" /\ UNCHANGED <<plan, life>>
        BY <1>7, <2>1, ReconciledType DEF ReconcileDirectory, NoEntry
      <3> QED BY <1>a, <2>1, <3>1 DEF PlanInv
    <2>2. CASE recon.what # "remove"
      <3>1. recon.pc = "directory" /\ used'.plan = used.plan /\ UNCHANGED <<plan, life>>
        BY <1>0, <1>7, <2>2 DEF ReconcileDirectory
      <3> QED BY <1>a, <2>2, <3>1 DEF PlanInv
    <2> QED BY <1>7, <2>1, <2>2, Zenon DEF ReconcileDirectory
  <1>8. CASE ExpirePublish
    <2>1. used'.plan = used.plan /\ UNCHANGED <<plan, life, recon>>
      BY <1>0, <1>8 DEF ExpirePublish
    <2>2. entry.state # "Absent" \/ UNCHANGED entry
      BY <1>8 DEF ExpirePublish, MayExpire
    <2> QED BY <1>a, <2>1, <2>2 DEF PlanInv
  <1>9. CASE ReplaceEntry
    <2>1. used'.plan = used.plan /\ UNCHANGED <<plan, life, recon>> /\ entry.state # "Absent"
      BY <1>0, <1>9 DEF ReplaceEntry
    <2> QED BY <1>a, <2>1 DEF PlanInv
  <1>10. ASSUME NEW t \in Tasks, BeginAttempt(t) PROVE PlanInv'
    <2>1. used'.plan = used.plan /\ UNCHANGED <<plan, life, recon, entry>>
      BY <1>0, <1>10 DEF BeginAttempt
    <2> QED BY <1>a, <2>1 DEF PlanInv
  <1>11. ASSUME NEW t \in Tasks, PublishPrepared(t) PROVE PlanInv'
    <2>1. plan.gen # 0
      BY <1>11 DEF LifeInv, AttemptInv, PublishPrepared, MayPublish
    <2>2. used'.plan = used.plan /\ UNCHANGED <<plan, life, recon>>
      BY <1>0, <1>11 DEF PublishPrepared
    <2> QED BY <1>a, <2>1, <2>2 DEF PlanInv
  <1>12. ASSUME NEW t \in Tasks, ConfirmCurrent(t) PROVE PlanInv'
    <2>1. entry.state # "Absent" /\ UNCHANGED <<plan, life, recon>>
      BY <1>12 DEF ConfirmCurrent
    <2>2. used'.plan = used.plan
      BY <1>0, <1>12 DEF ConfirmCurrent
    <2> QED BY <1>a, <2>1, <2>2 DEF PlanInv
  <1>13. ASSUME NEW t \in Tasks, Acknowledge(t) PROVE PlanInv'
    <2>1. entry'.state = entry.state /\ UNCHANGED <<plan, life, recon, used>>
      BY <1>0, <1>13 DEF Acknowledge, Entries
    <2> QED BY <1>a, <2>1 DEF PlanInv
  <1>14. CASE Quiet /\ Reconcile
    <2>1. CASE ReconcileStart
      <3>1. /\ recon.pc = "idle" /\ recon'.pc \in {"removePlan", "insertPlan"}
            /\ recon'.pc = "insertPlan" \/ plan.gen # 0
        BY <1>0, <2>1 DEF ReconcileStart, ReconStates
      <3> QED BY <1>a, <1>14, <3>1 DEF PlanInv, Quiet
    <2>2. CASE ReconcileRemoveStatus
      <3>1. /\ recon.pc = "removeStatus" /\ recon'.what = recon.what
            /\ recon'.pc = IF recon.what = "remove" THEN "directory" ELSE "insertPlan"
        BY <1>0, <2>2 DEF ReconcileRemoveStatus, Reconciling, ReconStates
      <3> QED BY <1>a, <1>14, <3>1 DEF PlanInv, Quiet
    <2> QED BY <1>14, <2>1, <2>2, <1>2, <1>3, <1>4, <1>5, <1>6, <1>7, Zenon DEF Reconcile
  <1> QED
    BY <1>1, <1>2, <1>3, <1>4, <1>5, <1>6, <1>7, <1>8, <1>9, <1>10, <1>11, <1>12, <1>13, <1>14,
       QuietOrLoud, ReconSteps, Zenon DEF Loud
\* What is in the directory has an identity that was handed out, and was fetched for its life.
LEMMA EntryStep == TypeOK /\ LifeInv /\ [Next]_vars => EntryInv'
  <1> SUFFICES ASSUME TypeOK, LifeInv, [Next]_vars PROVE EntryInv'
    OBVIOUS
  <1>0. /\ used \in [plan : Nat, gen : Nat, ver : Nat] /\ used.ver \in Nat
        /\ entry \in Entries /\ entry.ver \in Nat /\ entry.snap \in Nat /\ entry.life \in Nat
        /\ entry.by \in Nat /\ life \in Nat /\ clock \in Nat
    BY DEF TypeOK, Entries
  <1>a. EntryInv /\ PlanInv
    BY DEF LifeInv
  <1>1. CASE Quiet
    BY <1>a, <1>1 DEF Quiet, EntryInv
  <1>2. CASE ReconcileRemovePlan
    BY <1>0, <1>a, <1>2 DEF ReconcileRemovePlan, EntryInv
  <1>3. CASE ReconcileInsertPlan
    <2>1. used'.ver = used.ver /\ UNCHANGED <<entry, life>>
      BY <1>0, <1>3 DEF ReconcileInsertPlan
    <2> QED BY <1>a, <2>1 DEF EntryInv
  <1>4. CASE ReconcileRestore
    <2>1. PICK s \in Offered, age \in 0 .. clock - 1 : entry' = Restored(used.ver + 1, s, age, life)
      BY <1>4, Zenon DEF ReconcileRestore
    <2>2. s # NoSerial /\ age \in Nat
      BY <1>0, <2>1, SerialsFact
    <2>3. /\ entry'.ver = used.ver + 1 /\ entry'.snap = used.ver + 1 /\ entry'.life = life
          /\ entry'.by = life /\ entry'.serial = s
      BY <2>1 DEF Restored, NoEntry
    <2>4. used'.ver = used.ver + 1 /\ life' = life
      BY <1>0, <1>4 DEF ReconcileRestore
    <2> QED BY <1>0, <2>2, <2>3, <2>4 DEF EntryInv
  <1>5. CASE ReconcileRestoredStatus
    <2>1. used'.ver = used.ver /\ UNCHANGED <<entry, life>>
      BY <1>0, <1>5 DEF ReconcileRestoredStatus
    <2> QED BY <1>a, <2>1 DEF EntryInv
  <1>6. CASE ReconcileLoadingStart
    <2>1. used'.ver = used.ver /\ UNCHANGED <<entry, life>>
      BY <1>0, <1>6 DEF ReconcileLoadingStart
    <2> QED BY <1>a, <2>1 DEF EntryInv
  <1>7. CASE ReconcileDirectory
    <2>1. CASE entry' = NoEntry /\ UNCHANGED used
      BY <1>0, <1>7, <2>1 DEF ReconcileDirectory, EntryInv, NoEntry
    <2>2. CASE /\ used' = [used EXCEPT !.ver = @ + 1]
               /\ entry'.ver = used.ver + 1 /\ entry'.snap = used.ver + 1
               /\ entry'.state = "Loading" /\ entry'.serial = NoSerial
               /\ entry'.life \in {entry.life, life}
      BY <1>0, <1>a, <1>7, <2>2 DEF ReconcileDirectory, EntryInv
    <2> QED BY <1>7, <2>1, <2>2 DEF ReconcileDirectory, NoEntry
  <1>8. CASE ExpirePublish
    <2>1. CASE UNCHANGED <<entry, used>>
      BY <1>a, <1>8, <2>1 DEF ExpirePublish, EntryInv
    <2>2. CASE /\ used' = [used EXCEPT !.ver = @ + 1]
               /\ entry' = [entry EXCEPT !.state = "Expired", !.ver = used.ver + 1]
      <3>1. /\ entry'.ver = used.ver + 1 /\ entry'.snap = entry.snap /\ entry'.serial = entry.serial
            /\ entry'.life = entry.life /\ entry'.by = entry.by /\ entry'.state = "Expired"
            /\ used'.ver = used.ver + 1 /\ life' = life
        BY <1>0, <1>8, <2>2 DEF ExpirePublish, Entries
      <3> QED BY <1>0, <1>a, <3>1 DEF EntryInv
    <2> QED BY <1>8, <2>1, <2>2, Zenon DEF ExpirePublish
  <1>9. CASE ReplaceEntry
    <2>1. /\ entry'.ver = used.ver + 1 /\ entry'.snap = entry.snap /\ entry'.serial = entry.serial
          /\ entry'.life = entry.life /\ entry'.by = entry.by /\ entry'.state = entry.state
          /\ used'.ver = used.ver + 1 /\ life' = life
      BY <1>0, <1>9 DEF ReplaceEntry, Entries
    <2> QED BY <1>0, <1>a, <2>1 DEF EntryInv
  <1>10. ASSUME NEW t \in Tasks, BeginAttempt(t) PROVE EntryInv'
    <2>1. used'.ver = used.ver /\ UNCHANGED <<entry, life>>
      BY <1>0, <1>10 DEF BeginAttempt
    <2> QED BY <1>a, <2>1 DEF EntryInv
  <1>11. ASSUME NEW t \in Tasks, PublishPrepared(t) PROVE EntryInv'
    <2>1. att[t].life = life
      <3>1. att[t].plan # 0 /\ att[t].life = plan.life /\ plan.gen = att[t].plan
        BY <1>11 DEF LifeInv, AttemptInv, PublishPrepared, MayPublish, EarlyPcs
      <3> QED BY <1>a, <3>1 DEF PlanInv
    <2>2. /\ entry'.ver = used.ver + 1 /\ entry'.snap = used.ver + 1 /\ entry'.by = life
          /\ entry'.life \in {entry.life, life} /\ used'.ver = used.ver + 1 /\ life' = life
          /\ entry'.serial = att[t].snapSerial
      BY <1>0, <1>11, <2>1 DEF PublishPrepared
    <2>3. att[t].snapSerial # NoSerial
      BY <1>11 DEF LifeInv, AttemptInv, PublishPrepared
    <2> QED BY <1>0, <1>a, <2>2, <2>3 DEF EntryInv
  <1>12. ASSUME NEW t \in Tasks, ConfirmCurrent(t) PROVE EntryInv'
    <2>1. entry.serial # NoSerial
      BY <1>12 DEF LifeInv, AttemptInv, ConfirmCurrent
    <2>2. CASE entry' = [entry EXCEPT !.freshAt = clock, !.acked = TRUE] /\ UNCHANGED used
      <3>1. /\ entry'.ver = entry.ver /\ entry'.snap = entry.snap /\ entry'.serial = entry.serial
            /\ entry'.life = entry.life /\ entry'.by = entry.by /\ entry'.state = entry.state
            /\ life' = life
        BY <1>0, <1>12, <2>2 DEF ConfirmCurrent, Entries
      <3> QED BY <1>0, <1>a, <2>2, <3>1 DEF EntryInv
    <2>3. CASE /\ used' = [used EXCEPT !.ver = @ + 1]
               /\ entry' = [entry EXCEPT !.state = "Active", !.ver = used.ver + 1,
                              !.snap = IF entry.bornExpired THEN used.ver + 1 ELSE @,
                              !.bornExpired = FALSE, !.freshAt = clock, !.acked = TRUE]
      <3>1. /\ entry'.ver = used.ver + 1 /\ entry'.snap \in {entry.snap, used.ver + 1}
            /\ entry'.serial = entry.serial /\ entry'.life = entry.life /\ entry'.by = entry.by
            /\ life' = life /\ used'.ver = used.ver + 1
        BY <1>0, <1>12, <2>3 DEF ConfirmCurrent, Entries
      <3> QED BY <1>0, <1>a, <2>1, <3>1 DEF EntryInv
    <2> QED BY <1>12, <2>2, <2>3, Zenon DEF ConfirmCurrent
  <1>13. ASSUME NEW t \in Tasks, Acknowledge(t) PROVE EntryInv'
    <2>1. /\ entry'.ver = entry.ver /\ entry'.snap = entry.snap /\ entry'.serial = entry.serial
          /\ entry'.life = entry.life /\ entry'.by = entry.by /\ entry'.state = entry.state
          /\ UNCHANGED <<used, life>>
      BY <1>0, <1>13 DEF Acknowledge, Entries
    <2> QED BY <1>a, <2>1 DEF EntryInv
  <1> QED
    BY <1>1, <1>2, <1>3, <1>4, <1>5, <1>6, <1>7, <1>8, <1>9, <1>10, <1>11, <1>12, <1>13,
       QuietOrLoud, Zenon DEF Loud

\* What an attempt has captured is not disturbed by the steps of others.
LEMMA AttemptKept ==
  ASSUME TypeOK, LifeInv, Moves, TypeOK', NEW u \in Tasks, att'[u] = att[u]
  PROVE  AttemptInv(u)'
  <1>1. AttemptInv(u)
    BY DEF LifeInv
  <1>2. /\ att[u].plan \in Nat /\ att[u].ver \in Nat /\ used.plan \in Nat /\ used.ver \in Nat
        /\ used'.plan \in Nat /\ used'.ver \in Nat
    BY DEF TypeOK, Attempts
  <1>3. entry'.ver \in Nat /\ entry'.snap \in Nat /\ plan'.gen \in Nat
    BY DEF TypeOK, Entries, Plans
  <1>4. att'[u].pc # "idle" => att'[u].plan # 0 /\ att'[u].plan <= used'.plan
    BY <1>1, <1>2 DEF AttemptInv, Moves
  <1>5. att'[u].pc \in EarlyPcs /\ att'[u].plan = plan'.gen => att'[u].life = plan'.life
    BY <1>1, <1>2, <1>3 DEF AttemptInv, Moves, EarlyPcs
  <1>6. att'[u].pc \in {"ixfr", "confirm"} =>
          /\ att'[u].ver # 0 /\ att'[u].ver <= used'.ver
          /\ att'[u].ver = entry'.snap => entry'.serial # NoSerial
    BY <1>1, <1>2, <1>3 DEF AttemptInv, Moves
  <1>7. att'[u].pc = "prepared" =>
          /\ att'[u].ver <= used'.ver
          /\ att'[u].ver = entry'.ver => att'[u].expected = entry'.serial
          /\ att'[u].ver = 0 => att'[u].expected = NoSerial
          /\ att'[u].snapSerial # NoSerial
    BY <1>1, <1>2, <1>3 DEF AttemptInv, Moves
  <1>8. /\ att'[u].pc \in {"begin", "started"} => ~att'[u].equal
        /\ att'[u].pc \in EarlyPcs /\ att'[u].equal => att'[u].serial # NoSerial
    BY <1>1 DEF AttemptInv
  <1> QED BY <1>4, <1>5, <1>6, <1>7, <1>8 DEF AttemptInv
\* A task changes only what it has captured itself.
LEMMA OthersKept ==
  ASSUME TypeOK, NEW t \in Tasks, NEW u \in Tasks, u # t, Attempt(t) \/ Interrupt(t)
  PROVE  att'[u] = att[u]
  <1>0. att \in [Tasks -> Attempts]
    BY DEF TypeOK
  <1>1. CASE StartStale(t) \/ Cancelled(t) \/ PublishObsolete(t) \/ ConfirmStale(t)
    BY <1>0, <1>1 DEF StartStale, Cancelled, PublishObsolete, ConfirmStale, DiscardObsolete, Release
  <1>2. CASE NotAcknowledged(t) \/ Interrupt(t)
    BY <1>0, <1>2 DEF NotAcknowledged, Interrupt, DropAttempt, Release
  <1>3. CASE StartLoop(t) \/ PollPrimary(t) \/ IxfrFails(t) \/ TransferFails(t) \/ Prepare(t)
    BY <1>0, <1>3 DEF StartLoop, PollPrimary, IxfrFails, TransferFails, Prepare, TryAxfr,
      NextPrimary
  <1>4. CASE PromoteFails(t) \/ StartConfirm(t) \/ ConfirmFails(t) \/ AcknowledgeCheck(t)
    BY <1>0, <1>4 DEF PromoteFails, StartConfirm, ConfirmFails, AcknowledgeCheck, TryAxfr,
      NextPrimary
  <1>5. CASE FinishAttempt(t) \/ FailAttempt(t)
    BY <1>0, <1>5 DEF FinishAttempt, FailAttempt, Release
  <1>6. CASE RecordFailure(t)
    BY <1>0, <1>6 DEF RecordFailure, Release
  <1>7. CASE BeginAttempt(t) \/ PublishPrepared(t) \/ ConfirmCurrent(t) \/ Acknowledge(t)
    <2>1. \E a : att' = [att EXCEPT ![t] = a]
      <3>1. CASE PublishPrepared(t) \/ ConfirmCurrent(t) \/ Acknowledge(t)
        BY <3>1, Zenon DEF PublishPrepared, ConfirmCurrent, Acknowledge
      <3>2. CASE BeginAttempt(t)
        <4>1. \/ att' = [att EXCEPT ![t].pc = "started", ![t].gen = status.gen]
              \/ att' = [att EXCEPT ![t].pc = "started", ![t].gen = used.gen + 1, ![t].created = TRUE]
          BY <3>2, Zenon DEF BeginAttempt
        <4> QED BY <1>0, <4>1
      <3> QED BY <1>7, <3>1, <3>2
    <2> QED BY <1>0, <2>1
  <1> QED BY <1>1, <1>2, <1>3, <1>4, <1>5, <1>6, <1>7, Zenon DEF Attempt

\* A task that ends has nothing captured any more, and one whose loop is over only its plan.
LEMMA EndedAttempt ==
  ASSUME NEW t \in Tasks, att'[t].pc \notin EarlyPcs,
         att'[t].pc = "idle" \/ (att'[t].plan # 0 /\ att'[t].plan <= used'.plan)
  PROVE  AttemptInv(t)'
  BY DEF AttemptInv, EarlyPcs

\* A task's own steps capture what the invariant says.
LEMMA OwnAttempt ==
  ASSUME TypeOK, LifeInv, Moves, NEW t \in Tasks, Attempt(t) \/ Interrupt(t)
  PROVE  AttemptInv(t)'
  <1>0. /\ att \in [Tasks -> Attempts] /\ att[t] \in Attempts /\ att[t].plan \in Nat
        /\ used.plan \in Nat /\ used'.plan >= used.plan
        /\ entry.ver \in Nat /\ entry.snap \in Nat /\ used.ver \in Nat
    BY DEF TypeOK, Attempts, Entries, Moves
  <1>a. AttemptInv(t) /\ EntryInv
    BY DEF LifeInv
  <1>1. ASSUME Release(t) PROVE AttemptInv(t)'
    <2>1. att'[t].pc = "idle"
      BY <1>0, <1>1 DEF Release, Idle
    <2> QED BY <2>1, EndedAttempt DEF EarlyPcs
  <1>2. ASSUME NEW pc \in {"published", "confirmed", "acking", "finishing", "failing"},
               att[t].pc # "idle", att'[t].pc = pc, att'[t].plan = att[t].plan, used'.plan \in Nat
        PROVE  AttemptInv(t)'
    <2>1. att'[t].plan # 0 /\ att'[t].plan <= used'.plan
      BY <1>0, <1>a, <1>2 DEF AttemptInv
    <2> QED BY <1>2, <2>1, EndedAttempt DEF EarlyPcs
  <1>3. CASE BeginAttempt(t)
    <2>1. /\ att[t].pc = "begin" /\ att'[t].pc = "started" /\ att'[t].plan = att[t].plan
          /\ att'[t].life = att[t].life /\ att'[t].equal = att[t].equal /\ used'.plan = used.plan
          /\ plan' = plan
      BY <1>0, <1>3 DEF BeginAttempt, Attempts, TypeOK
    <2> QED BY <1>a, <2>1 DEF AttemptInv, EarlyPcs
  <1>4. CASE StartLoop(t)
    <2>1. /\ att[t].pc = "started" /\ att'[t].pc = "poll" /\ att'[t].plan = att[t].plan
          /\ att'[t].life = att[t].life /\ att'[t].equal = att[t].equal /\ UNCHANGED <<plan, used>>
      BY <1>0, <1>4 DEF StartLoop, Attempts
    <2> QED BY <1>a, <2>1 DEF AttemptInv, EarlyPcs
  <1>5. ASSUME TryAxfr(t) \/ NextPrimary(t), att[t].pc \in {"poll", "ixfr", "axfr", "prepared", "confirm"},
               UNCHANGED <<plan, used>>
        PROVE  AttemptInv(t)'
    <2>1. /\ att'[t].pc \in {"axfr", "poll"} /\ att'[t].plan = att[t].plan /\ att'[t].life = att[t].life
          /\ att'[t].equal = att[t].equal /\ att'[t].serial = att[t].serial
      BY <1>0, <1>5 DEF TryAxfr, NextPrimary, Attempts
    <2> QED BY <1>a, <1>5, <2>1 DEF AttemptInv, EarlyPcs
  <1>6. CASE PollPrimary(t)
    <2>0. att[t].pc = "poll" /\ UNCHANGED <<plan, used, entry>>
      BY <1>6 DEF PollPrimary
    <2>1. CASE NextPrimary(t)
      BY <1>5, <2>0, <2>1
    <2>2. CASE /\ att[t].serial # NoSerial
               /\ att' = [att EXCEPT ![t].left = @ - 1, ![t].equal = TRUE]
      <3>1. /\ att'[t].pc = att[t].pc /\ att'[t].plan = att[t].plan /\ att'[t].life = att[t].life
            /\ att'[t].serial = att[t].serial
        BY <1>0, <2>2 DEF Attempts
      <3> QED BY <1>a, <2>0, <2>2, <3>1 DEF AttemptInv, EarlyPcs
    <2>3. CASE /\ entry.serial # NoSerial
               /\ att' = [att EXCEPT ![t].pc = "ixfr", ![t].newer = TRUE, ![t].via = "ixfr",
                                     ![t].ver = entry.snap, ![t].snapSerial = entry.serial,
                                     ![t].root = entry.root]
      <3>1. /\ att'[t].pc = "ixfr" /\ att'[t].plan = att[t].plan /\ att'[t].life = att[t].life
            /\ att'[t].serial = att[t].serial /\ att'[t].ver = entry.snap /\ att'[t].equal = att[t].equal
        BY <1>0, <2>3 DEF Attempts
      <3> QED BY <1>a, <2>0, <2>3, <3>1 DEF AttemptInv, EntryInv, EarlyPcs
    <2>4. CASE \/ att' = [att EXCEPT ![t].pc = "axfr", ![t].newer = TRUE, ![t].via = "axfr"]
               \/ att' = [att EXCEPT ![t].pc = "axfr", ![t].via = "axfr"]
      <3>1. /\ att'[t].pc = "axfr" /\ att'[t].plan = att[t].plan /\ att'[t].life = att[t].life
            /\ att'[t].serial = att[t].serial /\ att'[t].equal = att[t].equal
        BY <1>0, <2>4 DEF Attempts
      <3> QED BY <1>a, <2>0, <3>1 DEF AttemptInv, EarlyPcs
    <2> QED BY <1>6, <2>1, <2>2, <2>3, <2>4, Zenon DEF PollPrimary
  <1>7. CASE IxfrFails(t) \/ TransferFails(t) \/ PromoteFails(t)
    <2>1. /\ TryAxfr(t) \/ NextPrimary(t)
          /\ att[t].pc \in {"ixfr", "axfr", "prepared"} /\ UNCHANGED <<plan, used>>
      BY <1>7, Zenon DEF IxfrFails, TransferFails, PromoteFails
    <2> QED BY <1>5, <2>1
  <1>8. CASE Prepare(t)
    <2>1. /\ att[t].pc \in {"ixfr", "axfr"} /\ UNCHANGED <<plan, used, entry>>
          /\ \E z \in Offered :
               att' = [att EXCEPT ![t].pc = "prepared", ![t].ver = entry.ver,
                             ![t].expected = entry.serial, ![t].snapSerial = z,
                             ![t].root = IF att[t].via = "ixfr" THEN @ ELSE att[t].life]
      BY <1>8, Zenon DEF Prepare
    <2>2. /\ att'[t].pc = "prepared" /\ att'[t].plan = att[t].plan /\ att'[t].life = att[t].life
          /\ att'[t].serial = att[t].serial /\ att'[t].equal = att[t].equal
          /\ att'[t].ver = entry.ver /\ att'[t].expected = entry.serial /\ att'[t].snapSerial \in Offered
      BY <1>0, <2>1 DEF Attempts
    <2>3. att'[t].snapSerial # NoSerial
      BY <2>2, SerialsFact
    <2> QED BY <1>0, <1>a, <2>1, <2>2, <2>3 DEF AttemptInv, EntryInv, EarlyPcs
  <1>9. CASE PublishPrepared(t)
    <2>1. /\ att[t].pc = "prepared" /\ att'[t].pc = "published" /\ att'[t].plan = att[t].plan
          /\ used'.plan = used.plan
      BY <1>0, <1>9 DEF PublishPrepared, Ending, Idle, TypeOK
    <2> QED BY <1>0, <1>2, <2>1
  <1>10. CASE StartConfirm(t)
    <2>0. UNCHANGED <<plan, used, entry>>
      BY <1>10 DEF StartConfirm
    <2>1. CASE att[t].pc = "ixfr" /\ att' = [att EXCEPT ![t].pc = "confirm"]
      <3>1. /\ att'[t].pc = "confirm" /\ att'[t].plan = att[t].plan /\ att'[t].life = att[t].life
            /\ att'[t].serial = att[t].serial /\ att'[t].equal = att[t].equal /\ att'[t].ver = att[t].ver
        BY <1>0, <2>1 DEF Attempts
      <3> QED BY <1>a, <2>0, <2>1, <3>1 DEF AttemptInv, EarlyPcs
    <2>2. CASE /\ att[t].pc = "poll" /\ att[t].equal /\ entry.serial = att[t].serial
               /\ att' = [att EXCEPT ![t].pc = "confirm", ![t].via = "soa", ![t].ver = entry.snap,
                                     ![t].snapSerial = entry.serial]
      <3>1. /\ att'[t].pc = "confirm" /\ att'[t].plan = att[t].plan /\ att'[t].life = att[t].life
            /\ att'[t].serial = att[t].serial /\ att'[t].equal = att[t].equal /\ att'[t].ver = entry.snap
        BY <1>0, <2>2 DEF Attempts
      <3>2. entry.serial # NoSerial
        BY <1>a, <2>2 DEF AttemptInv, EarlyPcs
      <3> QED BY <1>a, <2>0, <2>2, <3>1, <3>2 DEF AttemptInv, EntryInv, EarlyPcs
    <2> QED BY <1>10, <2>1, <2>2, Zenon DEF StartConfirm
  <1>11. CASE ConfirmFails(t)
    <2>0. att[t].pc = "confirm" /\ UNCHANGED <<plan, used, entry>>
      BY <1>11 DEF ConfirmFails
    <2>1. CASE TryAxfr(t)
      BY <1>5, <2>0, <2>1
    <2>2. CASE att' = [att EXCEPT ![t].pc = "poll", ![t].equal = FALSE, ![t].ver = 0,
                                 ![t].snapSerial = NoSerial]
      <3>1. /\ att'[t].pc = "poll" /\ att'[t].plan = att[t].plan /\ att'[t].life = att[t].life
            /\ att'[t].equal = FALSE
        BY <1>0, <2>2 DEF Attempts
      <3> QED BY <1>a, <2>0, <3>1 DEF AttemptInv, EarlyPcs
    <2> QED BY <1>11, <2>1, <2>2, Zenon DEF ConfirmFails
  <1>12. CASE ConfirmCurrent(t)
    <2>1. /\ att[t].pc = "confirm" /\ att'[t].pc = "confirmed" /\ att'[t].plan = att[t].plan
      BY <1>0, <1>12 DEF ConfirmCurrent, Ending, Idle
    <2>2. used'.plan = used.plan
      BY <1>12 DEF ConfirmCurrent, TypeOK
    <2> QED BY <1>0, <1>2, <2>1, <2>2
  <1>13. CASE AcknowledgeCheck(t)
    <2>1. /\ att[t].pc # "idle" /\ att'[t].pc \in {"acking", "finishing"} /\ att'[t].plan = att[t].plan
          /\ used' = used
      BY <1>0, <1>13 DEF AcknowledgeCheck, Attempts
    <2> QED BY <1>0, <1>2, <2>1
  <1>14. CASE Acknowledge(t)
    <2>1. /\ att[t].pc = "acking" /\ att'[t].pc = "finishing" /\ att'[t].plan = att[t].plan
          /\ used' = used
      BY <1>0, <1>14 DEF Acknowledge, Ending, Idle
    <2> QED BY <1>0, <1>2, <2>1
  <1>15. CASE FailAttempt(t)
    <2>1. /\ att[t].pc = "poll" /\ att'[t].pc = "failing" /\ att'[t].plan = att[t].plan
          /\ used' = used
      BY <1>0, <1>15 DEF FailAttempt, Ending, Idle
    <2> QED BY <1>0, <1>2, <2>1
  <1>16. CASE \/ StartStale(t) \/ Cancelled(t) \/ PublishObsolete(t) \/ ConfirmStale(t)
              \/ NotAcknowledged(t) \/ Interrupt(t) \/ FinishAttempt(t) \/ RecordFailure(t)
    BY <1>1, <1>16, Zenon DEF StartStale, Cancelled, PublishObsolete, ConfirmStale,
       DiscardObsolete, NotAcknowledged, Interrupt, DropAttempt, FinishAttempt, RecordFailure
  <1> QED BY <1>3, <1>4, <1>6, <1>7, <1>8, <1>9, <1>10, <1>11, <1>12, <1>13, <1>14, <1>15, <1>16,
             Zenon DEF Attempt
\* Every attempt keeps its part of the invariant.
LEMMA AttemptStep ==
  TypeOK /\ LifeInv /\ [Next]_vars => \A u \in Tasks : AttemptInv(u)'
  <1> SUFFICES ASSUME TypeOK, LifeInv, [Next]_vars, NEW u \in Tasks PROVE AttemptInv(u)'
    OBVIOUS
  <1>0. Moves /\ TypeOK' /\ att \in [Tasks -> Attempts]
    BY StepMoves, NextType DEF TypeOK
  <1>1. ASSUME NEW t \in Tasks, Attempt(t) \/ Interrupt(t) PROVE AttemptInv(u)'
    <2>1. CASE u = t
      BY <1>0, <1>1, <2>1, OwnAttempt
    <2>2. CASE u # t
      BY <1>0, <1>1, <2>2, OthersKept, AttemptKept
    <2> QED BY <2>1, <2>2
  <1>2. CASE Dispatch
    <2>1. CASE att'[u] = att[u]
      BY <1>0, <2>1, AttemptKept
    <2>2. CASE u = "dispatch" /\ att'[u] # att[u]
      <3>1. PICK r \in queue :
              /\ IsCurrent(r)
              /\ att' = [att EXCEPT !["dispatch"] =
                           [Idle EXCEPT !.pc = "begin", !.plan = r.plan,
                                        !.life = plan.life, !.ngen = r.ngen]]
        BY <1>2, <2>2, Zenon DEF Dispatch
      <3>2. /\ att'[u].pc = "begin" /\ att'[u].plan = r.plan /\ att'[u].life = plan.life
            /\ ~att'[u].equal
        BY <1>0, <2>2, <3>1 DEF Idle
      <3>3. plan.gen # 0 /\ r.plan = plan.gen /\ plan.gen <= used.plan
        BY <3>1 DEF IsCurrent, LifeInv, PlanInv
      <3>4. UNCHANGED <<plan, used>>
        BY <1>2 DEF Dispatch
      <3> QED BY <3>2, <3>3, <3>4 DEF AttemptInv
    <2>3. u # "dispatch" => att'[u] = att[u]
      BY <1>0, <1>2 DEF Dispatch
    <2> QED BY <2>1, <2>2, <2>3
  <1>3. CASE BeginStale
    <2>1. CASE u = "dispatch"
      <3>1. att'[u].pc = "idle"
        BY <1>0, <1>3, <2>1 DEF BeginStale, Idle
      <3> QED BY <3>1, EndedAttempt DEF EarlyPcs
    <2>2. CASE u # "dispatch"
      <3>1. att'[u] = att[u]
        BY <1>0, <1>3, <2>2 DEF BeginStale
      <3> QED BY <1>0, <3>1, AttemptKept
    <2> QED BY <2>1, <2>2
  <1>4. CASE UNCHANGED att
    BY <1>0, <1>4, AttemptKept
  <1>5. Environment \/ Scheduler \/ UNCHANGED vars => UNCHANGED att
    BY Zenon DEF Environment, Tick, ReloadSecrets, Notify, ControlPlaneRetry, DropFromQueue,
                 ReplaceEntry, Scheduler, ExpiryCollect, ExpiryCapture, ExpiryRecheck,
                 ExpirePublish, StartDue, SendDue, vars
  <1>6. Reconcile => UNCHANGED att
    BY Zenon DEF Reconcile, ReconcileStart, ReconcileRemovePlan, ReconcileRemoveStatus,
                 ReconcileInsertPlan, ReconcileRestore, ReconcileRestoredStatus,
                 ReconcileLoadingStart, ReconcileDirectory
  <1> QED BY <1>1, <1>2, <1>3, <1>4, <1>5, <1>6, Zenon DEF Next

\* A member only the reconciliation knows of stays so whatever the rest of the program does.
LEMMA UntouchedStep ==
  ASSUME TypeOK, Untouched, [Next]_vars, UNCHANGED recon
  PROVE  Untouched' /\ UNCHANGED plan
  <1>0. sched \in SchedStates
    BY DEF TypeOK
  <1>1. ASSUME NEW t \in Tasks, Attempt(t) \/ Interrupt(t) PROVE FALSE
    <2>1. att[t].pc # "idle"
      <3>1. CASE StartStale(t) \/ Cancelled(t) \/ PublishObsolete(t) \/ ConfirmStale(t)
        BY <3>1 DEF StartStale, Cancelled, PublishObsolete, ConfirmStale
      <3>2. CASE NotAcknowledged(t) \/ Interrupt(t)
        BY <3>2 DEF NotAcknowledged, Interrupt
      <3>3. CASE StartLoop(t) \/ PollPrimary(t) \/ IxfrFails(t) \/ TransferFails(t) \/ Prepare(t)
        BY <3>3 DEF StartLoop, PollPrimary, IxfrFails, TransferFails, Prepare
      <3>4. CASE PromoteFails(t) \/ StartConfirm(t) \/ ConfirmFails(t) \/ AcknowledgeCheck(t)
        BY <3>4 DEF PromoteFails, StartConfirm, ConfirmFails, AcknowledgeCheck
      <3>5. CASE FinishAttempt(t) \/ FailAttempt(t) \/ RecordFailure(t)
        BY <3>5 DEF FinishAttempt, FailAttempt, RecordFailure
      <3>6. CASE BeginAttempt(t) \/ PublishPrepared(t) \/ ConfirmCurrent(t) \/ Acknowledge(t)
        BY <3>6 DEF BeginAttempt, PublishPrepared, ConfirmCurrent, Acknowledge
      <3> QED BY <1>1, <3>1, <3>2, <3>3, <3>4, <3>5, <3>6, Zenon DEF Attempt
    <2> QED BY <2>1 DEF Untouched
  <1>2. CASE Tick \/ ReloadSecrets \/ UNCHANGED vars
    BY <1>2 DEF Tick, ReloadSecrets, vars, Untouched
  <1>3. ~Notify /\ ~ControlPlaneRetry /\ ~DropFromQueue /\ ~Dispatch /\ ~ReplaceEntry
    BY DEF Untouched, NoEntry, Notify, ControlPlaneRetry, DropFromQueue, Dispatch, ReplaceEntry
  <1>4. ~BeginStale /\ ~SendDue
    BY DEF Untouched, BeginStale, SendDue, Tasks
  <1>5. CASE ExpiryCollect \/ ExpiryCapture \/ ExpiryRecheck
    <2>1. sched'.pc # "sending" /\ UNCHANGED <<plan, entry, status, queue, att>>
      BY <1>0, <1>5 DEF ExpiryCollect, ExpiryCapture, ExpiryRecheck, DueCheck, SchedIdle,
        SchedStates
    <2> QED BY <2>1 DEF Untouched
  <1>6. CASE ExpirePublish
    <2>1. ~MayExpire
      BY DEF Untouched, MayExpire, NoEntry
    <2>2. sched'.pc # "sending" /\ UNCHANGED <<plan, entry, status, queue, att>>
      BY <1>0, <1>6, <2>1 DEF ExpirePublish, DueCheck, SchedIdle, SchedStates
    <2> QED BY <2>2 DEF Untouched
  <1>7. CASE StartDue
    <2>1. sched' = SchedIdle /\ status' = status /\ UNCHANGED <<plan, entry, queue, att>>
      BY <1>7 DEF StartDue, Untouched
    <2> QED BY <2>1 DEF Untouched, SchedIdle
  <1>8. CASE Reconcile
    <2>1. recon \in ReconStates BY DEF TypeOK
    <2>3. CASE ReconcileDirectory
      <3>1. recon.pc = "directory" /\ recon'.pc = "idle"
        BY <2>3, ReconciledType DEF ReconcileDirectory
      <3> QED BY <3>1
    <2>4. CASE ReconcileStart
      <3>1. recon.pc = "idle" /\ recon'.pc # "idle"
        BY <2>1, <2>4 DEF ReconcileStart, ReconStates
      <3> QED BY <3>1
    <2>5. CASE ReconcileRemovePlan \/ ReconcileRemoveStatus
      BY <2>1, <2>5 DEF ReconcileRemovePlan, ReconcileRemoveStatus, Reconciling, ReconStates
    <2>6. CASE ReconcileInsertPlan \/ ReconcileLoadingStart
      BY <2>1, <2>6, ReconciledType DEF ReconcileInsertPlan, ReconcileLoadingStart, Reconciling,
        ReconStates
    <2>7. CASE ReconcileRestore \/ ReconcileRestoredStatus
      BY <2>1, <2>7, ReconciledType DEF ReconcileRestore, ReconcileRestoredStatus, ReconStates
    <2> QED BY <1>8, <2>3, <2>4, <2>5, <2>6, <2>7, Zenon DEF Reconcile
  <1> QED BY <1>1, <1>2, <1>3, <1>4, <1>5, <1>6, <1>7, <1>8, Zenon DEF Next, Environment, Scheduler
\* Only the reconciliation inserts and removes plans.
LEMMA PlanKept ==
  ASSUME [Next]_vars, ~ReconcileRemovePlan, ~ReconcileInsertPlan
  PROVE  UNCHANGED plan
  BY QuietOrLoud, Zenon
  DEF Quiet, Loud, ReconcileRestore, ReconcileRestoredStatus, ReconcileLoadingStart,
      ReconcileDirectory, ExpirePublish, ReplaceEntry, BeginAttempt, PublishPrepared,
      ConfirmCurrent, Acknowledge

\* A cached copy waits only for a member nobody else has touched.
LEMMA CacheStep == TypeOK /\ LifeInv /\ [Next]_vars => CacheInv'
  <1> SUFFICES ASSUME TypeOK, LifeInv, [Next]_vars PROVE CacheInv'
    OBVIOUS
  <1>0. recon \in ReconStates /\ used.plan \in Nat /\ plan.gen \in Nat
    BY DEF TypeOK, Plans
  <1>a. CacheInv /\ PlanInv
    BY DEF LifeInv
  <1>1. CASE ReconcileRemovePlan
    <2>1. /\ recon.pc = "removePlan" /\ recon'.pc = "removeStatus" /\ ~recon'.cached
          /\ recon'.what = recon.what
      BY <1>0, <1>1 DEF ReconcileRemovePlan, ReconStates
    <2> QED BY <1>a, <2>1 DEF CacheInv
  <1>2. CASE ReconcileInsertPlan
    <2>0. recon.pc = "insertPlan" /\ plan'.gen = used.plan + 1
      BY <1>2 DEF ReconcileInsertPlan
    <2>1. CASE Reconciled
      <3>1. recon'.pc = "idle"
        BY <2>1, ReconciledType
      <3> QED BY <1>0, <2>0, <3>1 DEF CacheInv
    <2>2. CASE recon.what # "policy" /\ Reconciling("loading") /\ UNCHANGED queue
      <3>1. /\ recon'.pc = "loading" /\ recon'.cached = recon.cached
            /\ UNCHANGED <<entry, status, sched, att>>
        BY <1>0, <1>2, <2>2 DEF ReconcileInsertPlan, Reconciling, ReconStates
      <3>2. recon.cached => Untouched
        BY <1>a, <2>0, <2>2 DEF CacheInv
      <3>3. Untouched => Untouched'
        BY <2>2, <3>1 DEF Untouched
      <3> QED BY <3>1, <3>2, <3>3 DEF CacheInv
    <2> QED BY <1>2, <2>1, <2>2, Zenon DEF ReconcileInsertPlan
  <1>3. CASE UNCHANGED recon
    <2>1. ~ReconcileRemovePlan /\ ~ReconcileInsertPlan
      BY <1>0, <1>3, ReconciledType DEF ReconcileRemovePlan, ReconcileInsertPlan, Reconciling,
        ReconStates
    <2>2. UNCHANGED plan
      BY <2>1, PlanKept
    <2>3. CASE recon.cached /\ (plan.gen = 0 \/ recon.pc = "loading")
      <3>1. Untouched'
        BY <1>a, <1>3, <2>3, UntouchedStep DEF CacheInv
      <3> QED BY <1>a, <1>3, <2>2, <3>1 DEF CacheInv
    <2>4. CASE ~(recon.cached /\ (plan.gen = 0 \/ recon.pc = "loading"))
      BY <1>a, <1>3, <2>2, <2>4 DEF CacheInv
    <2> QED BY <2>3, <2>4
  <1>4. CASE ReconcileStart
    <2>1. /\ recon'.cached = recon.cached /\ recon'.pc \in {"removePlan", "insertPlan"}
          /\ recon'.pc = "insertPlan" => recon'.what \in {"add", "policy"}
          /\ recon'.pc = "removePlan" => recon'.what \in {"remove", "rename"}
          /\ recon'.what = "add" => plan.gen = 0
          /\ UNCHANGED <<plan, entry, status, queue, sched, att>>
      BY <1>0, <1>4 DEF ReconcileStart, ReconStates
    <2>2. Untouched' = Untouched
      BY <2>1 DEF Untouched
    <2> QED BY <1>a, <2>1, <2>2 DEF CacheInv
  <1>5. CASE ReconcileRemoveStatus
    <2>1. recon.pc = "removeStatus" /\ recon'.cached = recon.cached
      BY <1>0, <1>5 DEF ReconcileRemoveStatus, Reconciling, ReconStates
    <2>2. recon'.pc = (IF recon.what = "remove" THEN "directory" ELSE "insertPlan") /\ recon'.what = recon.what /\ UNCHANGED plan
      BY <1>0, <1>5 DEF ReconcileRemoveStatus, Reconciling, ReconStates
    <2> QED BY <1>a, <2>1, <2>2 DEF CacheInv
  <1>6. CASE ReconcileRestore
    <2>1. recon.pc = "loading" /\ recon'.pc = "restored" /\ UNCHANGED plan
      BY <1>0, <1>6 DEF ReconcileRestore, ReconStates
    <2> QED BY <1>a, <2>1 DEF CacheInv, PlanInv
  <1>7. CASE ReconcileRestoredStatus
    <2>1. recon.pc = "restored" /\ recon'.pc = "idle" /\ UNCHANGED plan
      BY <1>7, ReconciledType DEF ReconcileRestoredStatus
    <2> QED BY <1>a, <2>1 DEF CacheInv, PlanInv
  <1>8. CASE ReconcileLoadingStart
    <2>1. recon.pc = "loading" /\ recon'.pc = "directory" /\ UNCHANGED plan
      BY <1>0, <1>8 DEF ReconcileLoadingStart, Reconciling, ReconStates
    <2> QED BY <1>a, <2>1 DEF CacheInv, PlanInv
  <1>9. CASE ReconcileDirectory
    <2>0. recon.pc = "directory" /\ recon'.pc = "idle" /\ recon'.cached = recon.cached /\ UNCHANGED plan
      BY <1>9, ReconciledType DEF ReconcileDirectory
    <2>1. CASE entry' = NoEntry /\ UNCHANGED <<used, queue>>
      <3>1. Untouched => Untouched'
        BY <1>9, <2>1 DEF Untouched, ReconcileDirectory
      <3> QED BY <1>a, <2>0, <3>1 DEF CacheInv
    <2>2. CASE recon.what # "remove"
      BY <1>a, <2>0, <2>2 DEF CacheInv, PlanInv
    <2> QED BY <1>9, <2>1, <2>2, Zenon DEF ReconcileDirectory
  <1> QED
    BY <1>1, <1>2, <1>3, <1>4, <1>5, <1>6, <1>7, <1>8, <1>9, ReconSteps, Zenon DEF Reconcile

\* The invariant holds when the program has loaded its configuration.
LEMMA InitLife == Init => LifeInv
  <1> SUFFICES ASSUME Init PROVE LifeInv
    OBVIOUS
  <1>0. life = 0 /\ queue = {} /\ sched = SchedIdle /\ clock \in Nat
    BY LifecycleAssumption DEF Init
  <1>1. recon.pc = "idle" /\ recon.what = "add"
    BY LifecycleAssumption DEF Init, ReconIdle
  <1>2. CASE Catalogued
    <2>1. /\ plan = NoPlan /\ entry = NoEntry /\ status = NoStatus
          /\ used = [plan |-> 0, gen |-> 0, ver |-> 0] /\ att = [t \in Tasks |-> Idle]
      BY <1>2, Zenon DEF Init
    <2>2. PlanInv
      BY <1>0, <1>1, <2>1 DEF PlanInv, NoPlan, NoEntry
    <2>3. EntryInv
      BY <1>0, <2>1 DEF EntryInv, NoEntry, NoSerial
    <2>4. CacheInv
      BY <1>0, <1>1, <2>1 DEF CacheInv, Untouched, NoPlan, NoStatus, SchedIdle, Idle
    <2>5. ASSUME NEW t \in Tasks PROVE AttemptInv(t)
      BY <2>1 DEF AttemptInv, Idle, EarlyPcs
    <2> QED BY <2>2, <2>3, <2>4, <2>5 DEF LifeInv
  <1>3. CASE ~Catalogued
    <2>1. /\ plan = [gen |-> 1, life |-> 0] /\ used = [plan |-> 1, gen |-> 1, ver |-> 1]
          /\ att = [t \in Tasks |->
                       IF t = "initial" THEN [Idle EXCEPT !.pc = "begin", !.plan = 1] ELSE Idle]
      BY <1>3, Zenon DEF Init
    <2>2. PlanInv
      BY <1>0, <1>1, <2>1 DEF PlanInv
    <2>3. EntryInv
      <3>1. CASE entry = [NoEntry EXCEPT !.state = "Loading", !.ver = 1, !.snap = 1]
        BY <1>0, <2>1, <3>1 DEF EntryInv, NoEntry
      <3>2. ASSUME NEW s \in Offered, NEW age \in 0 .. clock - 1, entry = Restored(1, s, age, 0)
            PROVE  EntryInv
        <4>1. s # NoSerial
          BY SerialsFact
        <4>2. /\ entry.ver = 1 /\ entry.snap = 1 /\ entry.life = 0 /\ entry.by = 0 /\ entry.serial = s
          BY <3>2 DEF Restored, NoEntry
        <4> QED BY <1>0, <2>1, <4>1, <4>2 DEF EntryInv
      <3> QED BY <1>3, <3>1, <3>2, Zenon DEF Init
    <2>4. CacheInv
      BY <1>1, <2>1 DEF CacheInv
    <2>5. ASSUME NEW t \in Tasks PROVE AttemptInv(t)
      <3>1. /\ att[t].pc \in {"begin", "idle"} /\ att[t].life = 0 /\ ~att[t].equal
            /\ att[t].pc = "begin" => att[t].plan = 1
        BY <2>1 DEF Idle
      <3> QED BY <2>1, <3>1 DEF AttemptInv, EarlyPcs
    <2> QED BY <2>2, <2>3, <2>4, <2>5 DEF LifeInv
  <1> QED BY <1>2, <1>3

\* LifeInv is an invariant: what attempts, scheduler and reconciliation have captured keeps
\* identifying what it was captured from, for any number of primaries, deadlines, serials and
\* generations.
THEOREM LifeCorrect == Spec => [](TypeOK /\ LifeInv)
  <1>1. Init => TypeOK /\ LifeInv
    BY InitType, InitLife
  <1>2. TypeOK /\ LifeInv /\ [Next]_vars => (TypeOK /\ LifeInv)'
    <2> SUFFICES ASSUME TypeOK, LifeInv, [Next]_vars PROVE TypeOK' /\ LifeInv'
      OBVIOUS
    <2>1. PlanInv' /\ EntryInv' /\ CacheInv' /\ \A u \in Tasks : AttemptInv(u)'
      BY PlanStep, EntryStep, CacheStep, AttemptStep
    <2> QED BY <2>1, NextType DEF LifeInv
  <1> QED BY <1>1, <1>2, PTL DEF Spec

\* No attempt, confirmation or expiry that is under way when the catalog removes a member puts
\* it back into the directory.
THEOREM MemberStaysRemoved == Spec => []NoResurrection
  <1>1. LifeInv => NoResurrection
    BY DEF LifeInv, PlanInv, NoResurrection
  <1> QED BY <1>1, LifeCorrect, PTL

\* What is served was fetched for the life of the zone it is served in, or for a later one.
THEOREM ServedByOwnLife == Spec => []PublishedByOwnLife
  <1>1. LifeInv => PublishedByOwnLife
    BY DEF LifeInv, EntryInv, PublishedByOwnLife
  <1> QED BY <1>1, LifeCorrect, PTL

\* Within one incarnation the served serial only advances in RFC 1982 order: a candidate that
\* was admissible against the entry it was prepared for is published only over that entry.
THEOREM ServedSerialAdvances == Spec => SerialAdvances
  <1> DEFINE Advances ==
        /\ entry.serial # NoSerial /\ entry'.serial # NoSerial
        /\ entry'.life = entry.life
        => entry'.serial = entry.serial \/ SerialAfter(entry'.serial, entry.serial)
  <1>1. TypeOK /\ LifeInv /\ [Next]_vars => [Advances]_vars
    <2> SUFFICES ASSUME TypeOK, LifeInv, [Next]_vars PROVE Advances
      OBVIOUS
    <2>0. entry \in Entries
      BY DEF TypeOK
    <2>1. CASE entry'.serial = entry.serial \/ entry'.serial = NoSerial
      BY <2>1
    <2>2. ASSUME NEW t \in Tasks, PublishPrepared(t) PROVE Advances
      <3>1. att[t].ver = entry.ver => att[t].expected = entry.serial
        BY <2>2 DEF LifeInv, AttemptInv, PublishPrepared
      <3>2. /\ entry.ver = att[t].ver /\ entry'.serial = att[t].snapSerial
            /\ Admissible(att[t].snapSerial, att[t].force, att[t].expected)
        BY <2>2 DEF PublishPrepared, MayPublish
      <3> QED BY <3>1, <3>2 DEF Admissible
    <2>3. CASE ReconcileRestore
      <3>1. Untouched
        BY <2>3 DEF LifeInv, CacheInv, ReconcileRestore
      <3> QED BY <3>1 DEF Untouched, NoEntry
    <2>4. CASE ReconcileDirectory
      <3>1. \/ entry' = NoEntry
            \/ \E l : entry' = [NoEntry EXCEPT !.state = "Loading", !.ver = used.ver + 1,
                                               !.snap = used.ver + 1, !.life = l]
        BY <2>4, Zenon DEF ReconcileDirectory
      <3>2. NoEntry \in Entries /\ NoEntry.serial = NoSerial
        BY EmptyTypes DEF NoEntry
      <3>3. entry'.serial = NoSerial
        BY <3>1, <3>2 DEF Entries
      <3> QED BY <3>3
    <2>5. CASE ExpirePublish
      <3>1. entry'.serial = entry.serial
        BY <2>0, <2>5 DEF ExpirePublish, Entries
      <3> QED BY <3>1
    <2>6. CASE ReplaceEntry
      BY <2>0, <2>6 DEF ReplaceEntry, Entries
    <2>7. ASSUME NEW t \in Tasks, ConfirmCurrent(t) PROVE entry'.serial = entry.serial
      BY <2>0, <2>7 DEF ConfirmCurrent, Entries
    <2>8. ASSUME NEW t \in Tasks, Acknowledge(t) PROVE entry'.serial = entry.serial
      BY <2>0, <2>8 DEF Acknowledge, Entries
    <2>9. CASE \/ Quiet \/ ReconcileRemovePlan \/ ReconcileInsertPlan \/ ReconcileRestoredStatus
               \/ ReconcileLoadingStart \/ \E t \in Tasks : BeginAttempt(t)
      <3>1. entry' = entry
        BY <2>9, Zenon DEF Quiet, ReconcileRemovePlan, ReconcileInsertPlan,
           ReconcileRestoredStatus, ReconcileLoadingStart, BeginAttempt
      <3> QED BY <3>1
    <2> QED BY <2>1, <2>2, <2>3, <2>4, <2>5, <2>6, <2>7, <2>8, <2>9, QuietOrLoud, Zenon DEF Loud
  <1> QED BY <1>1, LifeCorrect, PTL DEF Spec, SerialAdvances
-----------------------------------------------------------------------------
(***************************************************************************)
(* The expiry of a served zone is armed, or about to be armed again.       *)
(***************************************************************************)

\* A task that has begun its attempt holds the zone's ownership until it ends.
Running(t) == att[t].pc \notin {"idle", "begin"}

\* A zone that is served although its status says "expired".
Unacknowledged == entry.state = "Active" /\ status.gen # 0 /\ status.expired

\* An attempt of the current plan runs on the current status; one that has lost its status
\* leaves no zone unacknowledged, and neither does one that has recorded its success or has
\* found the zone expired or gone.
RearmInv(t) ==
  /\ Running(t) => owner = t /\ att[t].gen # 0
  /\ Running(t) /\ att[t].plan = plan.gen => status.gen = att[t].gen
  /\ Running(t) /\ status.gen # att[t].gen => ~Unacknowledged
  /\ att[t].pc \in {"confirmed", "finishing"} => ~Unacknowledged
  /\ att[t].pc = "failing" /\ att[t].seen \in {"Expired", "Absent"} => entry.state # "Active"

DueInv ==
  /\ clock > 0
  /\ recon.pc = "removeStatus" => plan.gen = 0
  /\ \A t \in Tasks : RearmInv(t)
  /\ ExpiryRearmed

\* How the generation of the plan may move without becoming that of a running attempt.
PlanMoves == plan'.gen = plan.gen \/ plan'.gen = 0 \/ plan'.gen > used.plan

\* A step of the environment, of the scheduler or of the reconciliation that leaves the tasks,
\* and the generation of the status, alone.
LEMMA CalmStep ==
  ASSUME TypeOK, LifeInv, DueInv, TypeOK', UNCHANGED <<owner, att>>, clock' >= clock, PlanMoves,
         recon'.pc = "removeStatus" => plan'.gen = 0,
         entry'.state = entry.state \/ entry'.state # "Active",
         status'.gen = status.gen,
         status'.expired = status.expired \/ entry'.state # "Active",
         status'.nextRefresh \in {status.nextRefresh, clock}
  PROVE  DueInv'
  <1>0. /\ clock \in Nat /\ clock' \in Nat /\ status \in Statuses /\ status' \in Statuses
        /\ plan.gen \in Nat /\ plan'.gen \in Nat /\ used.plan \in Nat
    BY DEF TypeOK, Plans
  <1>1. Unacknowledged' => Unacknowledged
    BY <1>0 DEF Unacknowledged, Statuses
  <1>2. ASSUME NEW t \in Tasks PROVE RearmInv(t)'
    <2>1. RearmInv(t) /\ (Running(t) => att[t].plan # 0 /\ att[t].plan <= used.plan)
      BY DEF DueInv, LifeInv, AttemptInv, Running
    <2>2. att[t].plan \in Nat
      BY DEF TypeOK, Attempts
    <2>3. Running(t) /\ att[t].plan = plan'.gen => att[t].plan = plan.gen
      BY <1>0, <2>1, <2>2 DEF PlanMoves
    <2> QED BY <1>1, <2>1, <2>3 DEF RearmInv, Running
  <1>3. ExpiryRearmed'
    BY <1>0, <1>1 DEF ExpiryRearmed, DueInv, Unacknowledged, Statuses
  <1> QED BY <1>0, <1>2, <1>3 DEF DueInv

\* A step of the reconciliation that replaces the status of a zone no attempt of the current plan
\* is running for, and leaves nothing unacknowledged.
LEMMA FreshStatusStep ==
  ASSUME TypeOK, LifeInv, DueInv, TypeOK', UNCHANGED <<clock, owner, att, plan>>,
         recon'.pc # "removeStatus",
         entry'.state = entry.state \/ entry'.state # "Active" \/ \A t \in Tasks : ~Running(t),
         status'.gen = status.gen \/ status.gen = 0 \/ plan.gen = 0,
         ~Unacknowledged'
  PROVE  DueInv'
  <1>1. ASSUME NEW t \in Tasks PROVE RearmInv(t)'
    <2>1. RearmInv(t) /\ (Running(t) => att[t].plan # 0)
      BY DEF DueInv, LifeInv, AttemptInv, Running
    <2> QED BY <2>1 DEF RearmInv, Running
  <1>2. ExpiryRearmed'
    BY DEF ExpiryRearmed, Unacknowledged
  <1> QED BY <1>1, <1>2 DEF DueInv

\* The tasks that do not hold the zone's ownership are not running, so that what the holder does
\* is all that matters.
LEMMA OwnerStep ==
  ASSUME TypeOK, DueInv, NEW t \in Tasks, Running(t) \/ owner = NoTask,
         UNCHANGED <<clock, recon, plan>>,
         \A u \in Tasks \ {t} : att'[u] = att[u],
         RearmInv(t)', ExpiryRearmed'
  PROVE  DueInv'
  <1>1. ASSUME NEW u \in Tasks \ {t} PROVE RearmInv(u)'
    <2>1. ~Running(u)
      BY DEF DueInv, RearmInv, Tasks, NoTask
    <2>2. ~Running(u)' /\ att'[u].pc \in {"idle", "begin"}
      BY <2>1 DEF Running
    <2> QED BY <2>2 DEF RearmInv
  <1> QED BY <1>1 DEF DueInv

\* A step of a running attempt that leaves the entry and the status alone.
LEMMA WorkStep ==
  ASSUME TypeOK, LifeInv, DueInv, NEW t \in Tasks, Running(t),
         UNCHANGED <<clock, recon, plan, entry, status, owner>>,
         \A u \in Tasks \ {t} : att'[u] = att[u],
         att'[t].gen = att[t].gen, att'[t].plan = att[t].plan, att'[t].pc # "idle",
         att'[t].pc # "confirmed",
         att'[t].pc = "finishing" => att[t].pc = "confirmed",
         att'[t].pc = "failing" => att'[t].seen = entry.state
  PROVE  DueInv'
  <1>1. RearmInv(t) /\ ExpiryRearmed
    BY DEF DueInv
  <1>2. Unacknowledged' = Unacknowledged
    BY DEF Unacknowledged
  <1>3. RearmInv(t)'
    BY <1>1, <1>2 DEF RearmInv, Running
  <1>4. ExpiryRearmed'
    BY <1>1 DEF ExpiryRearmed
  <1> QED BY <1>3, <1>4, OwnerStep

\* The end of an attempt that leaves no unacknowledged zone, or one that is due at once.
LEMMA ReleaseStep ==
  ASSUME TypeOK, DueInv, NEW t \in Tasks, Running(t), Release(t),
         UNCHANGED <<clock, recon, plan, entry>>,
         Unacknowledged' => status'.nextRefresh = clock
  PROVE  DueInv'
  <1>0. clock \in Nat /\ clock > 0
    BY DEF TypeOK, DueInv
  <1>1. att'[t] = Idle /\ \A u \in Tasks \ {t} : att'[u] = att[u]
    BY DEF Release, TypeOK
  <1>2. RearmInv(t)'
    BY <1>1 DEF RearmInv, Running, Idle
  <1>3. ExpiryRearmed'
    BY <1>0 DEF ExpiryRearmed, Unacknowledged
  <1> QED BY <1>1, <1>2, <1>3, OwnerStep

\* defer_interrupted_attempt arms the refresh of an attempt that still has its status, and
\* changes nothing else.
LEMMA DeferredArms ==
  ASSUME TypeOK, DueInv, NEW t \in Tasks, Running(t), UNCHANGED entry,
         status' = Deferred(att[t].gen)
  PROVE  Unacknowledged' => status'.nextRefresh = clock
  <1>1. status \in Statuses /\ RearmInv(t)
    BY DEF TypeOK, DueInv
  <1>2. CASE status.gen # 0 /\ status.gen = att[t].gen
    BY <1>1, <1>2 DEF Deferred, Statuses
  <1>3. CASE ~(status.gen # 0 /\ status.gen = att[t].gen)
    <2>1. status' = status
      BY <1>3 DEF Deferred
    <2> QED BY <1>1, <1>3, <2>1 DEF RearmInv, Unacknowledged
  <1> QED BY <1>2, <1>3

\* discard_obsolete removes a status only with what it stands for, and otherwise defers.
LEMMA DiscardDue ==
  ASSUME TypeOK, DueInv, NEW t \in Tasks, Running(t), DiscardObsolete(t)
  PROVE  DueInv'
  <1>1. Unacknowledged' => status'.nextRefresh = clock
    <2>1. CASE ~att[t].created
      BY <2>1, DeferredArms DEF DiscardObsolete
    <2>2. CASE status' = NoStatus
      BY <2>2 DEF Unacknowledged, NoStatus
    <2>3. CASE att[t].created /\ status.gen # att[t].gen
      <3>1. status' = status /\ entry' = entry
        BY <2>3 DEF DiscardObsolete
      <3>2. RearmInv(t)
        BY DEF DueInv
      <3> QED BY <2>3, <3>1, <3>2 DEF RearmInv, Unacknowledged
    <2> QED BY <2>1, <2>2, <2>3 DEF DiscardObsolete
  <1> QED BY <1>1, ReleaseStep DEF DiscardObsolete

\* An attempt that is dropped defers.
LEMMA DropDue ==
  ASSUME TypeOK, DueInv, NEW t \in Tasks, Running(t), DropAttempt(t)
  PROVE  DueInv'
  BY DeferredArms, ReleaseStep DEF DropAttempt

\* The steps of the scheduler and of the environment keep DueInv: an expiry takes the zone out
\* of service with the status that says so.
LEMMA OutsideDue ==
  ASSUME TypeOK, LifeInv, DueInv, TypeOK',
         Environment \/ Scheduler \/ Dispatch \/ BeginStale
  PROVE  DueInv'
  <1>0. /\ clock \in Nat /\ status \in Statuses /\ entry \in Entries /\ status.gen \in Nat
        /\ status.expired \in BOOLEAN
    BY DEF TypeOK, Statuses
  <1>1. CASE Tick \/ ReloadSecrets \/ Notify \/ ControlPlaneRetry
    BY <1>0, <1>1, CalmStep DEF Tick, ReloadSecrets, Notify, ControlPlaneRetry, PlanMoves, DueInv
  <1>2. CASE DropFromQueue
    <2>1. /\ status'.gen = status.gen /\ status'.expired = status.expired
          /\ status'.nextRefresh \in {status.nextRefresh, clock}
      BY <1>0, <1>2 DEF DropFromQueue, Statuses
    <2> QED BY <1>0, <1>2, <2>1, CalmStep DEF DropFromQueue, PlanMoves, DueInv
  <1>3. CASE ReplaceEntry
    <2>1. entry'.state = entry.state
      BY <1>0, <1>3 DEF ReplaceEntry, Entries
    <2> QED BY <1>0, <1>3, <2>1, CalmStep DEF ReplaceEntry, PlanMoves, DueInv
  <1>4. CASE ExpiryCollect \/ ExpiryCapture \/ ExpiryRecheck
    BY <1>0, <1>4, CalmStep DEF ExpiryCollect, ExpiryCapture, ExpiryRecheck, PlanMoves, DueInv
  <1>5. CASE ExpirePublish
    <2>1. /\ status'.gen = status.gen /\ status'.nextRefresh = status.nextRefresh
          /\ \/ entry' = entry /\ status' = status
             \/ entry'.state = "Expired"
      BY <1>0, <1>5 DEF ExpirePublish, Statuses, Entries
    <2> QED BY <1>0, <1>5, <2>1, CalmStep DEF ExpirePublish, PlanMoves, DueInv
  <1>6. CASE StartDue \/ SendDue
    <2>1. /\ status'.gen = status.gen /\ status'.expired = status.expired
          /\ status'.nextRefresh = status.nextRefresh
      BY <1>0, <1>6 DEF StartDue, SendDue, Statuses
    <2> QED BY <1>0, <1>6, <2>1, CalmStep DEF StartDue, SendDue, PlanMoves, DueInv
  <1>7. CASE Dispatch \/ BeginStale
    <2>1. /\ \A u \in Tasks : att'[u] = att[u] \/ (~Running(u) /\ att'[u].pc \in {"idle", "begin"})
          /\ UNCHANGED <<clock, plan, entry, status, owner, recon>>
      <3>1. CASE BeginStale
        BY <3>1 DEF BeginStale, Running, Idle, TypeOK
      <3>2. CASE Dispatch
        <4>1. PICK r \in queue :
                /\ att["dispatch"].pc = "idle"
                /\ \/ att' = att
                   \/ att' = [att EXCEPT !["dispatch"] =
                               [Idle EXCEPT !.pc = "begin", !.plan = r.plan,
                                            !.life = plan.life, !.ngen = r.ngen]]
          BY <3>2, Zenon DEF Dispatch
        <4>2. [Idle EXCEPT !.pc = "begin", !.plan = r.plan, !.life = plan.life,
                           !.ngen = r.ngen].pc = "begin"
          BY DEF Idle
        <4>3. UNCHANGED <<clock, plan, entry, status, owner, recon>>
          BY <3>2, Zenon DEF Dispatch
        <4> QED BY <4>1, <4>2, <4>3 DEF Running, TypeOK
      <3> QED BY <1>7, <3>1, <3>2
    <2>2. ASSUME NEW u \in Tasks PROVE RearmInv(u)'
      <3>1. RearmInv(u)
        BY DEF DueInv
      <3>2. CASE att'[u] = att[u]
        BY <2>1, <3>1, <3>2 DEF RearmInv, Running, Unacknowledged
      <3>3. CASE att'[u].pc \in {"idle", "begin"}
        BY <3>3 DEF RearmInv, Running
      <3> QED BY <2>1, <3>2, <3>3
    <2>3. ExpiryRearmed'
      BY <2>1 DEF DueInv, ExpiryRearmed
    <2> QED BY <2>1, <2>2, <2>3 DEF DueInv
  <1> QED BY <1>1, <1>2, <1>3, <1>4, <1>5, <1>6, <1>7, Zenon DEF Environment, Scheduler

\* The steps of the reconciliation keep DueInv: a plan is withdrawn before the status it goes
\* with, and a restored copy is published only for a member nothing else knows of.
LEMMA ReconcileDue ==
  ASSUME TypeOK, LifeInv, DueInv, TypeOK', Reconcile
  PROVE  DueInv'
  <1>0. /\ clock \in Nat /\ status \in Statuses /\ entry \in Entries /\ recon \in ReconStates
        /\ used.plan \in Nat /\ used.gen \in Nat /\ clock >= clock
    BY DEF TypeOK
  <1>1. CASE ReconcileStart
    <2>1. recon'.pc # "removeStatus"
      BY <1>0, <1>1 DEF ReconcileStart, ReconStates
    <2> QED BY <1>0, <1>1, <2>1, CalmStep DEF ReconcileStart, PlanMoves
  <1>2. CASE ReconcileRemovePlan
    BY <1>0, <1>2, CalmStep DEF ReconcileRemovePlan, PlanMoves, NoPlan
  <1>3. CASE ReconcileRemoveStatus
    <2>1. plan.gen = 0
      BY <1>3 DEF DueInv, ReconcileRemoveStatus
    <2>2. recon'.pc # "removeStatus" /\ ~Unacknowledged'
      BY <1>0, <1>3 DEF ReconcileRemoveStatus, Reconciling, ReconStates, Unacknowledged, NoStatus
    <2> QED BY <1>3, <2>1, <2>2, FreshStatusStep DEF ReconcileRemoveStatus
  <1>4. CASE ReconcileInsertPlan
    <2>1. recon'.pc # "removeStatus"
      BY <1>0, <1>4 DEF ReconcileInsertPlan, Reconciling, Reconciled, ReconIdle, ReconStates
    <2> QED BY <1>0, <1>4, <2>1, CalmStep DEF ReconcileInsertPlan, PlanMoves
  <1>5. CASE ReconcileRestore
    <2>1. Untouched
      BY <1>5 DEF LifeInv, CacheInv, ReconcileRestore
    <2>2. recon'.pc # "removeStatus"
      BY <1>0, <1>5 DEF ReconcileRestore, ReconStates
    <2>3. ~Unacknowledged' /\ \A t \in Tasks : ~Running(t)
      BY <1>5, <2>1 DEF ReconcileRestore, Untouched, Unacknowledged, Running
    <2> QED BY <1>5, <2>2, <2>3, FreshStatusStep DEF ReconcileRestore
  <1>6. CASE ReconcileRestoredStatus
    <2>1. status'.gen = status.gen \/ status.gen = 0
      BY <1>6 DEF ReconcileRestoredStatus, Succeeded
    <2>2. recon'.pc # "removeStatus" /\ ~Unacknowledged'
      BY <1>6 DEF ReconcileRestoredStatus, Reconciled, ReconIdle, Unacknowledged, Succeeded
    <2> QED BY <1>6, <2>1, <2>2, FreshStatusStep DEF ReconcileRestoredStatus
  <1>7. CASE ReconcileLoadingStart
    <2>1. recon'.pc # "removeStatus"
      BY <1>0, <1>7 DEF ReconcileLoadingStart, Reconciling, ReconStates
    <2>2. CASE UNCHANGED status
      BY <1>0, <1>7, <2>1, <2>2, CalmStep DEF ReconcileLoadingStart, PlanMoves
    <2>3. CASE status.gen = 0 /\ status' = [NoStatus EXCEPT !.gen = used.gen + 1]
      <3>1. ~Unacknowledged'
        BY <2>3 DEF Unacknowledged, NoStatus
      <3> QED BY <1>7, <2>1, <2>3, <3>1, FreshStatusStep DEF ReconcileLoadingStart
    <2> QED BY <1>7, <2>2, <2>3, Zenon DEF ReconcileLoadingStart
  <1>8. CASE ReconcileDirectory
    <2>1. recon'.pc # "removeStatus"
      BY <1>8 DEF ReconcileDirectory, Reconciled, ReconIdle
    <2>2. entry'.state # "Active"
      <3>1. \/ entry' = NoEntry
            \/ \E l : entry' = [NoEntry EXCEPT !.state = "Loading", !.ver = used.ver + 1,
                                               !.snap = used.ver + 1, !.life = l]
        BY <1>8, Zenon DEF ReconcileDirectory
      <3>2. NoEntry \in Entries /\ NoEntry.state = "Absent"
        BY EmptyTypes DEF NoEntry
      <3> QED BY <3>1, <3>2 DEF Entries
    <2> QED BY <1>0, <1>8, <2>1, <2>2, CalmStep DEF ReconcileDirectory, PlanMoves
  <1> QED BY <1>1, <1>2, <1>3, <1>4, <1>5, <1>6, <1>7, <1>8, Zenon DEF Reconcile

\* The steps of an attempt keep DueInv: it publishes only under its plan, and so with its status;
\* it ends either with a recorded success, or with its refresh due at once, or without a status.
LEMMA AttemptDue ==
  ASSUME TypeOK, LifeInv, DueInv, TypeOK', NEW t \in Tasks, Attempt(t) \/ Interrupt(t)
  PROVE  DueInv'
  <1>0. /\ clock \in Nat /\ status \in Statuses /\ entry \in Entries /\ att[t] \in Attempts
        /\ used.gen \in Nat /\ att[t].gen \in Nat /\ t # NoTask
        /\ att \in [Tasks -> Attempts] /\ status.expired \in BOOLEAN
    BY DEF TypeOK, Attempts, Tasks, NoTask, Statuses
  <1>1. RearmInv(t)
    BY DEF DueInv
  <1>2. CASE BeginAttempt(t)
    <2>1. /\ status'.gen = att'[t].gen /\ att'[t].gen # 0 /\ att'[t].pc = "started"
          /\ \A u \in Tasks \ {t} : att'[u] = att[u]
      <3>1. CASE /\ status.gen # 0 /\ status' = [status EXCEPT !.inProgress = TRUE]
                 /\ att' = [att EXCEPT ![t].pc = "started", ![t].gen = status.gen]
        BY <1>0, <3>1 DEF Attempts, Statuses
      <3>2. CASE /\ status' = [NoStatus EXCEPT !.gen = used.gen + 1, !.inProgress = TRUE]
                 /\ att' = [att EXCEPT ![t].pc = "started", ![t].gen = used.gen + 1,
                                       ![t].created = TRUE]
        <4>1. status'.gen = used.gen + 1
          BY <3>2 DEF NoStatus
        <4>2. att'[t] = [att[t] EXCEPT !.pc = "started", !.gen = used.gen + 1, !.created = TRUE]
          BY <1>0, <3>2
        <4>3. att'[t].gen = used.gen + 1 /\ att'[t].pc = "started" /\ used.gen + 1 # 0
          BY <1>0, <4>2 DEF Attempts
        <4>4. \A u \in Tasks \ {t} : att'[u] = att[u]
          BY <1>0, <3>2
        <4> QED BY <4>1, <4>3, <4>4
      <3> QED BY <1>2, <3>1, <3>2, Zenon DEF BeginAttempt
    <2>2. RearmInv(t)'
      BY <1>2, <2>1 DEF RearmInv, BeginAttempt, Running
    <2>3. ExpiryRearmed'
      BY <1>0, <1>2 DEF ExpiryRearmed, BeginAttempt
    <2> QED BY <1>2, <2>1, <2>2, <2>3, OwnerStep DEF BeginAttempt
  <1>3. CASE \/ StartLoop(t) \/ PollPrimary(t) \/ IxfrFails(t) \/ TransferFails(t) \/ Prepare(t)
             \/ PromoteFails(t) \/ StartConfirm(t) \/ ConfirmFails(t)
    <2>1. /\ Running(t) /\ UNCHANGED <<clock, recon, plan, entry, status, owner>>
      BY <1>3 DEF StartLoop, PollPrimary, IxfrFails, TransferFails, Prepare, PromoteFails,
                  StartConfirm, ConfirmFails, Running
    <2>2. /\ att'[t].gen = att[t].gen /\ att'[t].plan = att[t].plan
          /\ att'[t].pc \in {"poll", "ixfr", "axfr", "prepared", "confirm"}
          /\ \A u \in Tasks \ {t} : att'[u] = att[u]
      <3>1. CASE StartLoop(t)
        BY <1>0, <3>1 DEF StartLoop, Attempts
      <3>2. CASE PollPrimary(t)
        BY <1>0, <3>2 DEF PollPrimary, NextPrimary, TryAxfr, Attempts
      <3>3. CASE IxfrFails(t) \/ TransferFails(t)
        BY <1>0, <3>3 DEF IxfrFails, TransferFails, NextPrimary, TryAxfr, Attempts
      <3>4. CASE Prepare(t)
        BY <1>0, <3>4 DEF Prepare, Attempts
      <3>5. CASE PromoteFails(t)
        BY <1>0, <3>5 DEF PromoteFails, NextPrimary, TryAxfr, Attempts
      <3>6. CASE StartConfirm(t) \/ ConfirmFails(t)
        BY <1>0, <3>6 DEF StartConfirm, ConfirmFails, TryAxfr, Attempts
      <3> QED BY <1>3, <3>1, <3>2, <3>3, <3>4, <3>5, <3>6
    <2> QED BY <2>1, <2>2, WorkStep
  <1>4. CASE AcknowledgeCheck(t)
    <2>1. /\ Running(t) /\ UNCHANGED <<clock, recon, plan, entry, status, owner>>
          /\ att'[t].gen = att[t].gen /\ att'[t].plan = att[t].plan
          /\ att'[t].pc = IF att[t].pc = "published" THEN "acking" ELSE "finishing"
          /\ att[t].pc \in {"published", "confirmed"}
          /\ \A u \in Tasks \ {t} : att'[u] = att[u]
      BY <1>0, <1>4 DEF AcknowledgeCheck, Running, Attempts
    <2> QED BY <2>1, WorkStep
  <1>5. CASE FailAttempt(t)
    <2>1. /\ Running(t) /\ UNCHANGED <<clock, recon, plan, entry, status, owner>>
          /\ att'[t].gen = att[t].gen /\ att'[t].plan = att[t].plan
          /\ att'[t].pc = "failing" /\ att'[t].seen = entry.state
          /\ \A u \in Tasks \ {t} : att'[u] = att[u]
      BY <1>0, <1>5 DEF FailAttempt, Running, Ending, Idle
    <2> QED BY <2>1, WorkStep
  <1>6. CASE PublishPrepared(t)
    <2>1. Running(t) /\ plan.gen = att[t].plan /\ status' = status /\ owner' = owner
      BY <1>6 DEF PublishPrepared, MayPublish, Running
    <2>2. /\ att'[t].gen = att[t].gen /\ att'[t].plan = att[t].plan /\ att'[t].pc = "published"
          /\ \A u \in Tasks \ {t} : att'[u] = att[u]
      BY <1>0, <1>6 DEF PublishPrepared, Ending, Idle
    <2>3. RearmInv(t)'
      BY <1>1, <2>1, <2>2 DEF RearmInv, Running
    <2>4. ExpiryRearmed'
      BY <1>0, <1>1, <2>1 DEF ExpiryRearmed, RearmInv
    <2> QED BY <1>6, <2>1, <2>2, <2>3, <2>4, OwnerStep DEF PublishPrepared
  <1>7. CASE ConfirmCurrent(t) \/ Acknowledge(t)
    <2>1. Running(t) /\ owner' = owner
      BY <1>7 DEF ConfirmCurrent, Acknowledge, Running
    <2>2. /\ att'[t].gen = att[t].gen /\ att'[t].plan = att[t].plan
          /\ att'[t].pc \in {"confirmed", "finishing"}
          /\ \A u \in Tasks \ {t} : att'[u] = att[u]
      <3>1. \E pc \in {"confirmed", "finishing"} : att' = [att EXCEPT ![t] = Ending(t, pc)]
        BY <1>7, Zenon DEF ConfirmCurrent, Acknowledge
      <3>2. PICK pc \in {"confirmed", "finishing"} : att' = [att EXCEPT ![t] = Ending(t, pc)]
        BY <3>1
      <3>3. /\ Ending(t, pc).gen = att[t].gen /\ Ending(t, pc).plan = att[t].plan
            /\ Ending(t, pc).pc = pc
        BY DEF Ending, Idle
      <3>4. att'[t] = Ending(t, pc) /\ \A u \in Tasks \ {t} : att'[u] = att[u]
        BY <1>0, <3>2
      <3> QED BY <3>3, <3>4
    <2>3. status'.gen = att[t].gen /\ ~Unacknowledged'
      BY <1>7 DEF ConfirmCurrent, Acknowledge, Succeeded, Unacknowledged
    <2>4. RearmInv(t)'
      BY <1>1, <2>1, <2>2, <2>3 DEF RearmInv, Running
    <2>5. ExpiryRearmed'
      BY <2>3 DEF ExpiryRearmed, Unacknowledged
    <2> QED BY <1>7, <2>1, <2>2, <2>4, <2>5, OwnerStep DEF ConfirmCurrent, Acknowledge
  <1>8. CASE StartStale(t) \/ Cancelled(t) \/ PublishObsolete(t) \/ ConfirmStale(t)
    <2>1. Running(t) /\ DiscardObsolete(t)
      BY <1>8 DEF StartStale, Cancelled, PublishObsolete, ConfirmStale, Running
    <2> QED BY <2>1, DiscardDue
  <1>9. CASE NotAcknowledged(t) \/ Interrupt(t)
    <2>1. Running(t) /\ DropAttempt(t)
      BY <1>9 DEF NotAcknowledged, Interrupt, Running
    <2> QED BY <2>1, DropDue
  <1>10. CASE FinishAttempt(t)
    <2>1. Running(t) /\ ~Unacknowledged
      BY <1>1, <1>10 DEF FinishAttempt, RearmInv, Running
    <2>2. status'.gen = status.gen /\ status'.expired = status.expired
      BY <1>0, <1>10 DEF FinishAttempt, Statuses
    <2>3. ~Unacknowledged'
      BY <1>10, <2>1, <2>2 DEF FinishAttempt, Unacknowledged
    <2> QED BY <1>10, <2>1, <2>3, ReleaseStep DEF FinishAttempt
  <1>11. CASE RecordFailure(t)
    <2>1. Running(t)
      BY <1>11 DEF RecordFailure, Running
    <2>2. ~Unacknowledged'
      <3>1. CASE status.gen # att[t].gen
        <4>1. ~Unacknowledged
          BY <1>1, <2>1, <3>1 DEF RearmInv
        <4> QED BY <1>11, <3>1, <4>1 DEF RecordFailure, Unacknowledged
      <3>2. CASE att[t].seen \in {"Absent", "Expired"}
        BY <1>1, <1>11, <3>2 DEF RecordFailure, RearmInv, Unacknowledged
      <3>3. CASE status.gen = att[t].gen /\ att[t].seen \notin {"Absent", "Expired"}
        BY <1>0, <1>11, <3>3 DEF RecordFailure, Unacknowledged, Statuses
      <3> QED BY <3>1, <3>2, <3>3
    <2> QED BY <1>11, <2>1, <2>2, ReleaseStep DEF RecordFailure
  <1> QED BY <1>2, <1>3, <1>4, <1>5, <1>6, <1>7, <1>8, <1>9, <1>10, <1>11, Zenon DEF Attempt

\* DueInv holds when the program has loaded its configuration: no attempt runs yet.
LEMMA InitDue == Init => DueInv
  <1> SUFFICES ASSUME Init PROVE DueInv
    OBVIOUS
  <1>1. clock > 0 /\ recon.pc = "idle"
    BY LifecycleAssumption DEF Init, ReconIdle
  <1>2. \A t \in Tasks : att[t].pc \in {"idle", "begin"}
    <2>1. \/ att = [t \in Tasks |-> Idle]
          \/ att = [t \in Tasks |->
                      IF t = "initial" THEN [Idle EXCEPT !.pc = "begin", !.plan = 1] ELSE Idle]
      BY Zenon DEF Init
    <2>2. Idle.pc = "idle" /\ [Idle EXCEPT !.pc = "begin", !.plan = 1].pc = "begin"
      BY DEF Idle
    <2> QED BY <2>1, <2>2
  <1>3. ~Unacknowledged
    <2>1. CASE entry = NoEntry
      BY <2>1 DEF Unacknowledged, NoEntry
    <2>2. CASE entry = [NoEntry EXCEPT !.state = "Loading", !.ver = 1, !.snap = 1]
      BY <2>2 DEF Unacknowledged, NoEntry
    <2>3. ASSUME NEW d, NEW age, status = Succeeded(1, age, d, FALSE) PROVE ~Unacknowledged
      BY <2>3 DEF Unacknowledged, Succeeded
    <2> QED BY <2>1, <2>2, <2>3, Zenon DEF Init
  <1> QED BY <1>1, <1>2, <1>3 DEF DueInv, RearmInv, Running, ExpiryRearmed, Unacknowledged

\* An ACTIVE zone whose status says "expired" has an attempt or a refresh that is due, whatever
\* of the transfers, cancellations, secret reloads and reconciliations comes between: only
\* expire_due_zones says "expired", and it takes the zone out of service.
THEOREM ExpiryIsRearmed == Spec => []ExpiryRearmed
  <1>1. TypeOK /\ LifeInv /\ DueInv /\ TypeOK' /\ [Next]_vars => DueInv'
    <2> SUFFICES ASSUME TypeOK, LifeInv, DueInv, TypeOK', [Next]_vars PROVE DueInv'
      OBVIOUS
    <2>1. CASE UNCHANGED vars
      BY <2>1 DEF vars, DueInv, RearmInv, Running, Unacknowledged, ExpiryRearmed
    <2> QED BY <2>1, OutsideDue, ReconcileDue, AttemptDue, Zenon DEF Next
  <1>2. DueInv => ExpiryRearmed
    BY DEF DueInv
  <1> QED BY <1>1, <1>2, InitDue, LifeCorrect, PTL DEF Spec

-----------------------------------------------------------------------------
(***************************************************************************)
(* A zone of the static configuration always has a status, and that status *)
(* does not expire it early.  Neither is so for a catalog member: while a  *)
(* reconciliation restores its copy from disk, between the publication of  *)
(* the copy and the recording of its deadlines, an attempt of the new plan *)
(* may confirm the copy (and then loses its deadlines to older ones) or be *)
(* discarded together with the status it created.                          *)
(***************************************************************************)

\* No attempt has created the status, and the deadline of an acknowledged zone counts from when
\* it was last fresh.
StaticInv ==
  /\ recon.pc = "idle" /\ status.gen # 0
  /\ \A t \in Tasks : ~att[t].created
  /\ entry.freshAt <= clock /\ sched.now <= clock
  /\ entry.state = "Active" /\ entry.acked /\ status.expireAt # 0
       => status.expireAt >= entry.freshAt + ExpireAfter

\* What a step may do to the deadline of a static zone and to what it is counted from.
Counted ==
  /\ entry'.freshAt \in {entry.freshAt, clock}
  /\ \/ entry'.state # "Active"
     \/ ~entry'.acked
     \/ status'.expireAt = clock + ExpireAfter
     \/ /\ entry.state = "Active" /\ entry'.acked = entry.acked
        /\ status'.expireAt = status.expireAt /\ entry'.freshAt = entry.freshAt

\* StaticInv follows from what a step does to the deadline.
LEMMA StaticStep ==
  ASSUME TypeOK, TypeOK', StaticInv, Counted, clock' >= clock,
         sched'.now \in {0, sched.now, clock}, UNCHANGED recon, status'.gen # 0,
         \A t \in Tasks : ~att'[t].created
  PROVE  StaticInv'
  <1>0. /\ clock \in Nat /\ clock' \in Nat /\ entry.freshAt \in Int /\ status.expireAt \in Int
        /\ status'.expireAt \in Int /\ entry.acked \in BOOLEAN /\ entry'.acked \in BOOLEAN
        /\ ExpireAfter \in Nat /\ sched.now \in Nat
    BY LifecycleAssumption DEF TypeOK, Entries, Statuses, SchedStates
  <1> QED BY <1>0 DEF StaticInv, Counted

\* A step that leaves the entry and the deadline of its expiry alone.
LEMMA UncountedStep ==
  ASSUME UNCHANGED entry, status'.expireAt = status.expireAt
  PROVE  Counted
  BY DEF Counted

\* The scheduler and the environment keep StaticInv.
LEMMA OutsideStatic ==
  ASSUME TypeOK, TypeOK', StaticInv, Environment \/ Scheduler \/ Dispatch \/ BeginStale
  PROVE  StaticInv'
  <1>0. /\ clock \in Nat /\ status \in Statuses /\ entry \in Entries /\ sched \in SchedStates
        /\ clock >= clock /\ att \in [Tasks -> Attempts]
    BY DEF TypeOK
  <1>1. CASE Tick \/ ReloadSecrets \/ Notify \/ ControlPlaneRetry
    BY <1>0, <1>1, UncountedStep, StaticStep
    DEF Tick, ReloadSecrets, Notify, ControlPlaneRetry, StaticInv
  <1>2. CASE DropFromQueue
    <2>1. status'.gen = status.gen /\ status'.expireAt = status.expireAt
      BY <1>0, <1>2 DEF DropFromQueue, Statuses
    <2> QED BY <1>0, <1>2, <2>1, UncountedStep, StaticStep DEF DropFromQueue, StaticInv
  <1>3. CASE ReplaceEntry
    <2>1. /\ entry'.state = entry.state /\ entry'.acked = entry.acked
          /\ entry'.freshAt = entry.freshAt
      BY <1>0, <1>3 DEF ReplaceEntry, Entries
    <2>2. Counted
      BY <1>3, <2>1 DEF Counted, ReplaceEntry
    <2> QED BY <1>0, <1>3, <2>2, StaticStep DEF ReplaceEntry, StaticInv
  <1>4. CASE ExpiryCollect \/ ExpiryCapture \/ ExpiryRecheck
    <2>1. sched'.now \in {sched.now, clock}
      BY <1>0, <1>4 DEF ExpiryCollect, ExpiryCapture, ExpiryRecheck, DueCheck, SchedIdle, SchedStates
    <2> QED BY <1>0, <1>4, <2>1, UncountedStep, StaticStep
            DEF ExpiryCollect, ExpiryCapture, ExpiryRecheck, StaticInv
  <1>5. CASE ExpirePublish
    <2>1. sched'.now = sched.now
      BY <1>0, <1>5 DEF ExpirePublish, DueCheck, SchedIdle
    <2>2. status'.gen = status.gen /\ status'.expireAt = status.expireAt
      BY <1>0, <1>5 DEF ExpirePublish, Statuses
    <2>3. entry' = entry \/ (entry'.state = "Expired" /\ entry'.freshAt = entry.freshAt)
      BY <1>0, <1>5 DEF ExpirePublish, Entries
    <2>4. Counted
      BY <2>2, <2>3 DEF Counted
    <2> QED BY <1>0, <1>5, <2>1, <2>2, <2>4, StaticStep DEF ExpirePublish, StaticInv
  <1>6. CASE StartDue \/ SendDue
    <2>1. sched'.now = 0
      BY <1>6 DEF StartDue, SendDue, SchedIdle
    <2>2. status'.gen = status.gen /\ status'.expireAt = status.expireAt
      BY <1>0, <1>6 DEF StartDue, SendDue, Statuses
    <2> QED BY <1>0, <1>6, <2>1, <2>2, UncountedStep, StaticStep DEF StartDue, SendDue, StaticInv
  <1>7. CASE Dispatch \/ BeginStale
    <2>1. \A t \in Tasks : ~att'[t].created
      <3>1. CASE BeginStale
        BY <1>0, <3>1 DEF BeginStale, Idle, StaticInv
      <3>2. CASE Dispatch
        <4>1. PICK r \in queue :
                \/ att' = att
                \/ att' = [att EXCEPT !["dispatch"] =
                            [Idle EXCEPT !.pc = "begin", !.plan = r.plan,
                                         !.life = plan.life, !.ngen = r.ngen]]
          BY <3>2, Zenon DEF Dispatch
        <4>2. [Idle EXCEPT !.pc = "begin", !.plan = r.plan, !.life = plan.life,
                           !.ngen = r.ngen].created = FALSE
          BY DEF Idle
        <4> QED BY <1>0, <4>1, <4>2 DEF StaticInv
      <3> QED BY <1>7, <3>1, <3>2
    <2>2. UNCHANGED <<clock, entry, status, sched, recon>>
      BY <1>7, Zenon DEF Dispatch, BeginStale
    <2> QED BY <1>0, <2>1, <2>2, UncountedStep, StaticStep DEF StaticInv
  <1> QED BY <1>1, <1>2, <1>3, <1>4, <1>5, <1>6, <1>7, Zenon DEF Environment, Scheduler

\* The end of an attempt defers or finishes it, and keeps the status.
LEMMA EndStatic ==
  ASSUME TypeOK, TypeOK', StaticInv, NEW t \in Tasks, Release(t),
         UNCHANGED <<clock, entry, sched, recon>>,
         status'.gen = status.gen, status'.expireAt = status.expireAt
  PROVE  StaticInv'
  <1>1. \A u \in Tasks : ~att'[u].created
    BY DEF Release, Idle, StaticInv, TypeOK
  <1>2. clock \in Nat /\ clock >= clock
    BY DEF TypeOK
  <1> QED BY <1>1, <1>2, UncountedStep, StaticStep DEF StaticInv

\* defer_interrupted_attempt keeps the deadline of the expiry.
LEMMA DeferredStatic ==
  ASSUME TypeOK, NEW g
  PROVE  Deferred(g).gen = status.gen /\ Deferred(g).expireAt = status.expireAt
  BY DEF Deferred, TypeOK, Statuses

\* The steps of an attempt keep StaticInv: a success is counted from the time it is recorded.
LEMMA AttemptStatic ==
  ASSUME TypeOK, TypeOK', StaticInv, NEW t \in Tasks, Attempt(t) \/ Interrupt(t)
  PROVE  StaticInv'
  <1>0. /\ clock \in Nat /\ clock >= clock /\ status \in Statuses /\ entry \in Entries
        /\ att[t] \in Attempts /\ att \in [Tasks -> Attempts] /\ ~att[t].created
    BY DEF TypeOK, StaticInv
  <1>1. CASE BeginAttempt(t)
    <2>1. /\ status' = [status EXCEPT !.inProgress = TRUE]
          /\ att' = [att EXCEPT ![t].pc = "started", ![t].gen = status.gen]
      BY <1>1, Zenon DEF BeginAttempt, StaticInv
    <2>2. status'.gen = status.gen /\ status'.expireAt = status.expireAt
      BY <1>0, <2>1 DEF Statuses
    <2>3. \A u \in Tasks : ~att'[u].created
      BY <1>0, <2>1 DEF Attempts, StaticInv
    <2> QED BY <1>0, <1>1, <2>2, <2>3, UncountedStep, StaticStep DEF BeginAttempt, StaticInv
  <1>2. CASE \/ StartLoop(t) \/ PollPrimary(t) \/ IxfrFails(t) \/ TransferFails(t) \/ Prepare(t)
             \/ PromoteFails(t) \/ StartConfirm(t) \/ ConfirmFails(t)
             \/ AcknowledgeCheck(t) \/ FailAttempt(t)
    <2>1. UNCHANGED <<clock, entry, status, sched, recon>>
      BY <1>2 DEF StartLoop, PollPrimary, IxfrFails, TransferFails, Prepare, PromoteFails,
                  StartConfirm, ConfirmFails, AcknowledgeCheck, FailAttempt
    <2>2. ~att'[t].created /\ \A u \in Tasks \ {t} : att'[u] = att[u]
      <3>1. CASE StartLoop(t)
        BY <1>0, <3>1 DEF StartLoop, Attempts
      <3>2. CASE PollPrimary(t)
        BY <1>0, <3>2 DEF PollPrimary, NextPrimary, TryAxfr, Attempts
      <3>3. CASE IxfrFails(t) \/ TransferFails(t)
        BY <1>0, <3>3 DEF IxfrFails, TransferFails, NextPrimary, TryAxfr, Attempts
      <3>4. CASE Prepare(t)
        BY <1>0, <3>4 DEF Prepare, Attempts
      <3>5. CASE PromoteFails(t)
        BY <1>0, <3>5 DEF PromoteFails, NextPrimary, TryAxfr, Attempts
      <3>6. CASE StartConfirm(t) \/ ConfirmFails(t) \/ AcknowledgeCheck(t)
        BY <1>0, <3>6 DEF StartConfirm, ConfirmFails, AcknowledgeCheck, TryAxfr, Attempts
      <3>7. CASE FailAttempt(t)
        BY <1>0, <3>7 DEF FailAttempt, Ending, Idle
      <3> QED BY <1>2, <3>1, <3>2, <3>3, <3>4, <3>5, <3>6, <3>7
    <2> QED BY <1>0, <2>1, <2>2, UncountedStep, StaticStep DEF StaticInv
  <1>3. CASE PublishPrepared(t)
    <2>1. Counted
      BY <1>3 DEF PublishPrepared, Counted
    <2>2. \A u \in Tasks : ~att'[u].created
      BY <1>0, <1>3 DEF PublishPrepared, Ending, Idle, StaticInv
    <2> QED BY <1>0, <1>3, <2>1, <2>2, StaticStep DEF PublishPrepared, StaticInv
  <1>4. CASE ConfirmCurrent(t) \/ Acknowledge(t)
    <2>1. status'.gen # 0 /\ status'.expireAt = clock + ExpireAfter
      <3>1. status.gen = att[t].gen /\ \E d \in RefreshDelays : status' = Succeeded(att[t].gen, 0, d, TRUE)
        BY <1>4, Zenon DEF ConfirmCurrent, Acknowledge
      <3>2. ExpireAfter \in Nat
        BY LifecycleAssumption
      <3> QED BY <1>0, <3>1, <3>2 DEF Succeeded, StaticInv
    <2>2. entry'.freshAt \in {entry.freshAt, clock}
      BY <1>0, <1>4 DEF ConfirmCurrent, Acknowledge, Entries
    <2>3. \A u \in Tasks : ~att'[u].created
      <3>1. PICK pc \in {"confirmed", "finishing"} : att' = [att EXCEPT ![t] = Ending(t, pc)]
        BY <1>4, Zenon DEF ConfirmCurrent, Acknowledge
      <3>2. Ending(t, pc).created = FALSE
        BY DEF Ending, Idle
      <3> QED BY <1>0, <3>1, <3>2 DEF StaticInv
    <2>4. UNCHANGED <<clock, sched, recon>>
      BY <1>4, Zenon DEF ConfirmCurrent, Acknowledge
    <2>5. Counted
      BY <2>1, <2>2 DEF Counted
    <2> QED BY <1>0, <2>1, <2>3, <2>4, <2>5, StaticStep
  <1>5. CASE \/ StartStale(t) \/ Cancelled(t) \/ PublishObsolete(t) \/ ConfirmStale(t)
             \/ NotAcknowledged(t) \/ Interrupt(t)
    <2>1. Release(t) /\ status' = Deferred(att[t].gen) /\ UNCHANGED <<clock, entry, sched, recon>>
      BY <1>0, <1>5, Zenon DEF StartStale, Cancelled, PublishObsolete, ConfirmStale,
                               NotAcknowledged, Interrupt, DiscardObsolete, DropAttempt
    <2> QED BY <2>1, DeferredStatic, EndStatic
  <1>6. CASE FinishAttempt(t) \/ RecordFailure(t)
    <2>1. status'.gen = status.gen /\ status'.expireAt = status.expireAt
      BY <1>0, <1>6 DEF FinishAttempt, RecordFailure, Statuses
    <2> QED BY <1>6, <2>1, EndStatic DEF FinishAttempt, RecordFailure
  <1> QED BY <1>1, <1>2, <1>3, <1>4, <1>5, <1>6, Zenon DEF Attempt

\* StaticInv holds when the program has loaded its configuration and restored what it had on disk.
LEMMA InitStatic == ASSUME ~Catalogued, Init PROVE StaticInv
  <1>0. clock \in Nat /\ ExpireAfter \in Nat
    BY LifecycleAssumption DEF Init
  <1>1. recon.pc = "idle" /\ sched.now = 0
    BY DEF Init, ReconIdle, SchedIdle
  <1>2. \A t \in Tasks : ~att[t].created
    <2>1. att = [t \in Tasks |->
                   IF t = "initial" THEN [Idle EXCEPT !.pc = "begin", !.plan = 1] ELSE Idle]
      BY Zenon DEF Init
    <2>2. ~Idle.created /\ ~[Idle EXCEPT !.pc = "begin", !.plan = 1].created
      BY DEF Idle
    <2> QED BY <2>1, <2>2
  <1>3. CASE /\ entry = [NoEntry EXCEPT !.state = "Loading", !.ver = 1, !.snap = 1]
             /\ status = [NoStatus EXCEPT !.gen = 1]
    BY <1>0, <1>1, <1>2, <1>3 DEF StaticInv, NoEntry, NoStatus
  <1>4. ASSUME NEW s \in Offered, NEW d \in RefreshDelays, NEW age \in 0 .. clock - 1,
               entry = Restored(1, s, age, 0), status = Succeeded(1, age, d, FALSE)
        PROVE  StaticInv
    <2>1. entry.freshAt = clock - age
      BY <1>4 DEF Restored, NoEntry
    <2>2. status.gen = 1 /\ status.expireAt = clock - age + ExpireAfter
      BY <1>4 DEF Succeeded
    <2> QED BY <1>0, <1>1, <1>2, <2>1, <2>2 DEF StaticInv
  <1> QED BY <1>3, <1>4, Zenon DEF Init

\* StaticInv is an invariant of a zone of the static configuration.
LEMMA StaticCorrect == ASSUME ~Catalogued PROVE Spec => [](TypeOK /\ StaticInv)
  <1>1. Init => TypeOK /\ StaticInv
    BY InitType, InitStatic
  <1>2. TypeOK /\ StaticInv /\ [Next]_vars => (TypeOK /\ StaticInv)'
    <2> SUFFICES ASSUME TypeOK, StaticInv, [Next]_vars PROVE TypeOK' /\ StaticInv'
      OBVIOUS
    <2>1. TypeOK'
      BY NextType
    <2>2. ~Reconcile
      BY DEF StaticInv, Reconcile, ReconcileStart, ReconcileRemovePlan, ReconcileRemoveStatus,
             ReconcileInsertPlan, ReconcileRestore, ReconcileRestoredStatus,
             ReconcileLoadingStart, ReconcileDirectory
    <2>3. CASE UNCHANGED vars
      BY <2>1, <2>3 DEF vars, StaticInv
    <2>4. CASE Environment \/ Scheduler \/ Dispatch \/ BeginStale
      BY <2>1, <2>4, OutsideStatic
    <2>5. ASSUME NEW t \in Tasks, Attempt(t) \/ Interrupt(t) PROVE StaticInv'
      BY <2>1, <2>5, AttemptStatic
    <2> QED BY <2>1, <2>2, <2>3, <2>4, <2>5, Zenon DEF Next
  <1> QED BY <1>1, <1>2, PTL DEF Spec

\* A zone of the static configuration that is served has the status that will expire it: an
\* attempt discards only a status it has created, and a static zone's is never created by one.
THEOREM StaticZoneHasStatus == ASSUME ~Catalogued PROVE Spec => []ActiveHasStatus
  <1>1. StaticInv => ActiveHasStatus
    BY DEF StaticInv, ActiveHasStatus
  <1> QED BY <1>1, StaticCorrect, PTL

\* A zone of the static configuration whose success has been recorded is not expired before SOA
\* EXPIRE has passed since a primary last vouched for it: expire_due_zones looks at the deadline
\* again under the status lock, and a deadline never counts from before the last success.
THEOREM StaticExpiryInTime == ASSUME ~Catalogued PROVE Spec => AckedExpiry
  <1> DEFINE InTime == entry.state = "Active" /\ entry.acked /\ entry'.state = "Expired"
                         => clock >= entry.freshAt + ExpireAfter
  <1>1. TypeOK /\ StaticInv /\ [Next]_vars => [InTime]_vars
    <2> SUFFICES ASSUME TypeOK, StaticInv, [Next]_vars PROVE InTime
      OBVIOUS
    <2>0. /\ entry \in Entries /\ clock \in Nat /\ entry.freshAt \in Int /\ sched.now \in Nat
          /\ status.expireAt \in Int /\ ExpireAfter \in Nat
      BY LifecycleAssumption DEF TypeOK, Entries, SchedStates, Statuses
    <2>1. CASE ExpirePublish
      <3>1. CASE entry' = entry
        BY <3>1
      <3>2. CASE MayExpire
        BY <2>0, <3>2 DEF MayExpire, ExpiryDue, StaticInv
      <3> QED BY <2>1, <3>1, <3>2, Zenon DEF ExpirePublish
    <2>2. CASE entry' = entry
      BY <2>2
    <2>3. CASE ReplaceEntry
      BY <2>0, <2>3 DEF ReplaceEntry, Entries
    <2>4. ASSUME NEW t \in Tasks, PublishPrepared(t) PROVE InTime
      BY <2>4 DEF PublishPrepared
    <2>5. ASSUME NEW t \in Tasks, ConfirmCurrent(t) PROVE InTime
      BY <2>0, <2>5 DEF ConfirmCurrent, Entries
    <2>6. ASSUME NEW t \in Tasks, Acknowledge(t) PROVE InTime
      BY <2>0, <2>6 DEF Acknowledge, Entries
    <2>7. ~ReconcileRestore /\ ~ReconcileDirectory
      BY DEF StaticInv, ReconcileRestore, ReconcileDirectory
    <2>8. CASE \/ Quiet \/ ReconcileRemovePlan \/ ReconcileInsertPlan \/ ReconcileRestoredStatus
               \/ ReconcileLoadingStart \/ \E t \in Tasks : BeginAttempt(t)
      <3>1. entry' = entry
        BY <2>8, Zenon DEF Quiet, ReconcileRemovePlan, ReconcileInsertPlan,
           ReconcileRestoredStatus, ReconcileLoadingStart, BeginAttempt
      <3> QED BY <2>2, <3>1
    <2> QED BY <2>1, <2>3, <2>4, <2>5, <2>6, <2>7, <2>8, QuietOrLoud, Zenon DEF Loud
  <1> QED BY <1>1, StaticCorrect, PTL DEF Spec, AckedExpiry
=============================================================================
