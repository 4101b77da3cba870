---------------------------- MODULE RefreshQueue ----------------------------
(***************************************************************************)
(* How refresh requests of ALL zones reach a refresh attempt: NOTIFY with  *)
(* its deduplication, the bounded outer channel, the dispatcher with its   *)
(* pending queue and resident tasks, the scheduler, the catalog zone whose *)
(* reconciliation sends requests from inside one of those tasks, and the   *)
(* drain at shutdown.  What an attempt does with the zone is the subject   *)
(* of RefreshLifecycle; here it is started, and it ends.                   *)
(*                                                                         *)
(* NOTIFY's serial is only a hint: it decides whether a NOTIFY is          *)
(* suppressed (which changes nothing), and the transfer ignores it.  Here  *)
(* any NOTIFY may carry a hint that is not covered.                        *)
(***************************************************************************)
EXTENDS Naturals, Sequences, FiniteSets, SequencesExt

CONSTANTS
  Zones,          \* the zones with a refresh status or a plan
  Catalog,        \* the catalog zone; the other zones are its members
  Capacity,       \* NOTIFY_REFRESH_QUEUE_CAPACITY (1024), of both queues
  MaxTasks,       \* max_resident_transfer_tasks
  Permits,        \* max_concurrent_transfers
  MaxPlan,        \* bound: transfer plan generations
  MaxToken,       \* bound: NOTIFY tokens
  MaxGen          \* bound: status generations up to which a reload may remove a status

VARIABLES
  plan,         \* generation of each zone's transfer plan, 0 when there is none
  status,       \* ZoneRefreshStatus of each zone, gen = 0 when there is none
  signal,       \* last_signal_by_zone: the reservation a NOTIFY made
  notify,       \* a NOTIFY between the reads of its plan and of its status
  outer,        \* the mpsc channel
  pending,      \* pending_requests
  pendingKeys,  \* pending_keys
  task,         \* the resident task of each zone; active_keys is where there is one
  disp,         \* the dispatcher drains, scans pending, waits in select!, or has stopped
  sched,        \* zones start_due_refreshes has marked and the scheduler has yet to send
  apply,        \* the reconciliation that the catalog's task is carrying out
  admission,    \* RefreshAdmission: open
  rxOpen,       \* the receiving end of the channel is open
  used          \* generations and tokens handed out so far

vars == <<plan, status, signal, notify, outer, pending, pendingKeys, task, disp, sched,
          apply, admission, rxOpen, used>>

Members == Zones \ {Catalog}
NoZone == "none"

ASSUME QueueAssumption ==
  /\ Catalog \in Zones /\ IsFiniteSet(Zones) /\ NoZone \notin Zones
  /\ Capacity \in Nat \ {0} /\ MaxTasks \in Nat \ {0} /\ Permits \in Nat \ {0}
  /\ MaxPlan \in Nat /\ MaxToken \in Nat /\ MaxGen \in Nat

Reasons == {"Notify", "ControlPlane", "Scheduled", "Catalog"}

\* `next`: no deadline, one in the future, or one that has passed
NoStatus == [gen |-> 0, inProgress |-> FALSE, next |-> "none"]

\* `seen` (ghost): since the reservation an attempt of the current incarnation has started,
\* or a request of another kind has been merged over the NOTIFY
NoSignal == [token |-> 0, plan |-> 0, gen |-> 0, seen |-> FALSE]

NoTask == [pc |-> "none", plan |-> 0, ngen |-> 0, gen |-> 0, created |-> FALSE]

\* `todo`: members still to be reconciled, with what the catalog now says of them;
\* `sends`: the requests to be sent once the reconciliation lock is free
NoApply == [pc |-> "idle", zone |-> NoZone, what |-> "add", todo |-> {}, sends |-> {}]

\* RefreshRequest::new, and the generations a request is tied to (ngen and token only
\* where a NOTIFY made it).  `retry` is retry_after_queue_drop.
Request(z, reason, p) ==
  [zone |-> z, retry |-> IF reason = "Notify" THEN "none" ELSE reason,
   plan |-> p, token |-> 0, ngen |-> 0]

Active == {z \in Zones : task[z].pc # "none"}

\* incarnation_is_current, and validated_refresh_plan's test
IsCurrent(z, p, ngen) ==
  /\ plan[z] # 0 /\ plan[z] = p
  /\ ngen # 0 => status[z].gen = ngen
RequestIsCurrent(r) == IsCurrent(r.zone, r.plan, r.ngen)

\* A restored or a LOADING catalog; members come from its first transfer
Init ==
  /\ plan = [z \in Zones |-> IF z = Catalog THEN 1 ELSE 0]
  /\ \E next \in {"none", "later", "now"} :
       status = [z \in Zones |-> IF z = Catalog THEN [NoStatus EXCEPT !.gen = 1, !.next = next]
                                 ELSE NoStatus]
  /\ signal = [z \in Zones |-> NoSignal]
  /\ notify = [zone |-> NoZone, plan |-> 0]
  /\ outer = <<>> /\ pending = <<>> /\ pendingKeys = {}
  /\ task = [z \in Zones |-> NoTask]
  /\ disp = "scan" /\ sched = {} /\ apply = NoApply
  /\ admission = TRUE /\ rxOpen = TRUE
  /\ used = [plan |-> 1, gen |-> 1, token |-> 0]

(***************************************************************************)
(* Requests come in                                                        *)
(***************************************************************************)

HasRoom == rxOpen /\ Len(outer) < Capacity

\* A deadline passes
Elapse ==
  /\ \E z \in Zones :
       /\ status[z].next = "later"
       /\ status' = [status EXCEPT ![z].next = "now"]
  /\ UNCHANGED <<plan, signal, notify, outer, pending, pendingKeys, task, disp, sched, apply,
                 admission, rxOpen, used>>

\* record_after_enqueue_serial_at reads the plan ...
NotifyArrives ==
  /\ notify.zone = NoZone /\ used.token < MaxToken
  /\ \E z \in Zones :
       /\ plan[z] # 0
       /\ notify' = [zone |-> z, plan |-> plan[z]]
  /\ UNCHANGED <<plan, status, signal, outer, pending, pendingKeys, task, disp, sched, apply,
                 admission, rxOpen, used>>

\* ... then, under the status and the tracker lock, reserves and sends.  A full or closed
\* channel puts the previous reservation back.
NotifySignals ==
  /\ notify.zone # NoZone
  /\ LET z == notify.zone
     IN  \/ /\ status[z].gen # 0 /\ HasRoom
            /\ used' = [used EXCEPT !.token = @ + 1]
            /\ signal' = [signal EXCEPT ![z] = [token |-> used.token + 1, plan |-> notify.plan,
                                                gen |-> status[z].gen, seen |-> FALSE]]
            /\ outer' = Append(outer, [Request(z, "Notify", notify.plan) EXCEPT
                                         !.token = used.token + 1, !.ngen = status[z].gen])
         \/ /\ status[z].gen = 0 \/ ~HasRoom
            /\ UNCHANGED <<signal, outer, used>>
  /\ notify' = [zone |-> NoZone, plan |-> 0]
  /\ UNCHANGED <<plan, status, pending, pendingKeys, task, disp, sched, apply, admission, rxOpen>>

\* serve_runtime_registry_cleanup, or commit_at's own pruning, forgets a reservation that is
\* older than the deduplication interval
PruneSignal ==
  /\ \E z \in Zones :
       /\ signal[z].token # 0
       /\ signal' = [signal EXCEPT ![z] = NoSignal]
  /\ UNCHANGED <<plan, status, notify, outer, pending, pendingKeys, task, disp, sched, apply,
                 admission, rxOpen, used>>

\* enqueue_control_plane_refresh
ControlPlaneRetry ==
  /\ HasRoom
  /\ \E z \in Zones :
       /\ plan[z] # 0
       /\ outer' = Append(outer, Request(z, "ControlPlane", plan[z]))
  /\ UNCHANGED <<plan, status, signal, notify, pending, pendingKeys, task, disp, sched, apply,
                 admission, rxOpen, used>>

\* Each tick marks as many due zones as the channel has room for ... (A tick after the close
\* marks zones, and ends the scheduler with its first send: left out.)
StartDue ==
  /\ sched = {} /\ rxOpen
  /\ LET due == {z \in Zones : /\ status[z].gen # 0 /\ ~status[z].inProgress
                               /\ status[z].next = "now"}
         room == Capacity - Len(outer)
     IN  \E chosen \in SUBSET due :
           /\ chosen # {}
           /\ Cardinality(chosen) <= room
           /\ Cardinality(chosen) = room \/ chosen = due
           /\ sched' = chosen
           /\ status' = [z \in Zones |-> IF z \in chosen
                                           THEN [status[z] EXCEPT !.inProgress = TRUE]
                                           ELSE status[z]]
  /\ UNCHANGED <<plan, signal, notify, outer, pending, pendingKeys, task, disp, apply,
                 admission, rxOpen, used>>

\* Mutant: the mark of a zone that cannot be sent is kept
SendDueKeepsMark(z) ==
  /\ sched' = sched \ {z}
  /\ \/ plan[z] # 0 /\ HasRoom /\ outer' = Append(outer, Request(z, "Scheduled", plan[z]))
     \/ (plan[z] = 0 \/ ~HasRoom) /\ UNCHANGED outer
  /\ UNCHANGED status

\* ... sends a request for it, or takes the mark back; a closed channel ends the scheduler
SendOrCancel(z) ==
  /\ sched' = IF rxOpen THEN sched \ {z} ELSE {}
  /\ \/ /\ plan[z] # 0 /\ HasRoom
        /\ outer' = Append(outer, Request(z, "Scheduled", plan[z]))
        /\ UNCHANGED status
     \/ /\ plan[z] = 0 \/ ~HasRoom
        /\ status' = IF status[z].gen = 0 THEN status
                     ELSE [status EXCEPT ![z].inProgress = FALSE]
        /\ UNCHANGED outer

SendDue ==
  /\ \E z \in sched : SendOrCancel(z)
  /\ UNCHANGED <<plan, signal, notify, pending, pendingKeys, task, disp, apply, admission,
                 rxOpen, used>>

(***************************************************************************)
(* serve_refresh_requests                                                  *)
(***************************************************************************)

\* Mutant: the reservation of dropped work is kept
RolledBackNever(dropped) == signal

\* rollback_notify_dedup_after_queue_drop, of a set of requests
RolledBack(dropped) ==
  [z \in Zones |-> IF \E r \in dropped : r.zone = z /\ r.token # 0 /\ r.token = signal[z].token
                     THEN NoSignal ELSE signal[z]]

\* Mutant: the deferral leaves the zone marked
DeferredDropKeepsMark(dropped) ==
  [z \in Zones |->
     LET retries == {r.retry : r \in {q \in dropped : q.zone = z /\ RequestIsCurrent(q)}} \ {"none"}
     IN  IF status[z].gen = 0 \/ retries \subseteq {"Scheduled"} THEN status[z]
         ELSE [status[z] EXCEPT !.next = "now"]]

\* defer_refresh_after_queue_drop, of those that are still current
DeferredDrop(dropped) ==
  [z \in Zones |->
     LET retries == {r.retry : r \in {q \in dropped : q.zone = z /\ RequestIsCurrent(q)}} \ {"none"}
     IN  IF status[z].gen = 0 \/ retries = {} THEN status[z]
         ELSE [status[z] EXCEPT !.inProgress = FALSE,
                 !.next = IF retries = {"Scheduled"} THEN @ ELSE "now"]]

\* The loop starts over
LoopTop == disp' = IF admission \/ ~rxOpen THEN "scan" ELSE "drain"

\* A closed admission closes the channel and discards what is queued
DrainOnClose ==
  /\ disp = "drain"
  /\ LET dropped == ToSet(pending) \cup ToSet(outer)
     IN  /\ signal' = RolledBack(dropped)
         /\ status' = DeferredDrop(dropped)
  /\ rxOpen' = FALSE /\ outer' = <<>> /\ pending' = <<>> /\ pendingKeys' = {}
  /\ disp' = "scan"
  /\ UNCHANGED <<plan, notify, task, sched, apply, admission, used>>

\* The k-th of a set of positions
Nth(positions, k) == CHOOSE i \in positions : Cardinality({j \in positions : j <= i}) = k

\* Positions of pending whose request may start now: current, and no task of its zone
Ready == {i \in 1 .. Len(pending) : RequestIsCurrent(pending[i]) /\ pending[i].zone \notin Active}
FirstReady == Nth(Ready, 1)

\* What the scan does to the requests it passes: those that are current are kept, in order,
\* the obsolete ones are discarded
CurrentIn(s) == {i \in 1 .. Len(s) : RequestIsCurrent(s[i])}
Kept(s) == [k \in 1 .. Cardinality(CurrentIn(s)) |-> s[Nth(CurrentIn(s), k)]]
Obsolete(s) == {r \in ToSet(s) : ~RequestIsCurrent(r)}
KeysWithout(dropped) == pendingKeys \ {r.zone : r \in dropped}

\* The first ready request becomes a task; the ones before it go to the back
Dispatch ==
  /\ disp = "scan" /\ admission
  /\ Cardinality(Active) < MaxTasks /\ Ready # {}
  /\ LET i == FirstReady
         r == pending[i]
         passed == SubSeq(pending, 1, i - 1)
     IN  /\ pending' = SubSeq(pending, i + 1, Len(pending)) \o Kept(passed)
         /\ pendingKeys' = KeysWithout(Obsolete(passed) \cup {r})
         /\ signal' = RolledBack(Obsolete(passed))
         /\ task' = [task EXCEPT ![r.zone] = [NoTask EXCEPT !.pc = "spawned", !.plan = r.plan,
                                                !.ngen = r.ngen]]
  /\ UNCHANGED <<plan, status, notify, outer, disp, sched, apply, admission, rxOpen, used>>

\* The admission closes while the scan is under way: the request it had found is discarded,
\* its key is not (the next turn of the loop clears them all)
AdmitFails ==
  /\ disp = "scan" /\ ~admission /\ rxOpen
  /\ Cardinality(Active) < MaxTasks /\ Ready # {}
  /\ LET i == FirstReady
         r == pending[i]
         passed == SubSeq(pending, 1, i - 1)
     IN  /\ pending' = SubSeq(pending, i + 1, Len(pending)) \o Kept(passed)
         /\ pendingKeys' = KeysWithout(Obsolete(passed))
         /\ signal' = RolledBack(Obsolete(passed) \cup {r})
         /\ status' = DeferredDrop({r})
  /\ disp' = "wait"
  /\ UNCHANGED <<plan, notify, outer, task, sched, apply, admission, rxOpen, used>>

\* Nothing (more) can be started: wait, or stop once everything is drained
ScanEnds ==
  /\ disp = "scan"
  /\ \/ /\ ~admission \/ Cardinality(Active) >= MaxTasks
        /\ UNCHANGED <<pending, pendingKeys, signal>>
     \/ /\ admission /\ Cardinality(Active) < MaxTasks /\ Ready = {}
        /\ pending' = Kept(pending)
        /\ pendingKeys' = KeysWithout(Obsolete(pending))
        /\ signal' = RolledBack(Obsolete(pending))
  /\ disp' = IF ~rxOpen /\ pending' = <<>> /\ Active = {} THEN "stopped" ELSE "wait"
  /\ UNCHANGED <<plan, status, notify, outer, task, sched, apply, admission, rxOpen, used>>

\* select!: the admission was closed
ClosedWakes ==
  /\ disp = "wait" /\ ~admission /\ rxOpen
  /\ LoopTop
  /\ UNCHANGED <<plan, status, signal, notify, outer, pending, pendingKeys, task, sched, apply,
                 admission, rxOpen, used>>

\* select!: a task has ended (retire_refresh_transfer_task)
Retire(z) ==
  /\ disp = "wait" /\ task[z].pc = "done"
  /\ task' = [task EXCEPT ![z] = NoTask]
  /\ LoopTop
  /\ UNCHANGED <<plan, status, signal, notify, outer, pending, pendingKeys, sched, apply,
                 admission, rxOpen, used>>

\* Mutant: requests are only received while another task may be started
ReceivedWithBackpressure ==
  /\ disp = "wait" /\ rxOpen /\ outer # <<>> /\ Cardinality(Active) < MaxTasks
  /\ outer' = Tail(outer)
  /\ LoopTop
  /\ UNCHANGED <<plan, notify, task, sched, apply, admission, rxOpen, used>>

\* select!: a request is received
Received ==
  /\ disp = "wait" /\ rxOpen /\ outer # <<>>
  /\ outer' = Tail(outer)
  /\ LoopTop
  /\ UNCHANGED <<plan, notify, task, sched, apply, admission, rxOpen, used>>

\* The request is given up: its reservation is rolled back, and if it is current and may be
\* retried the scheduler is told
Drop(r) ==
  /\ signal' = RolledBack({r})
  /\ status' = DeferredDrop({r})

ReceiveObsolete ==
  /\ Received
  /\ ~RequestIsCurrent(Head(outer))
  /\ signal' = RolledBack({Head(outer)})
  /\ UNCHANGED <<status, pending, pendingKeys>>

\* commit_notify_dedup_after_queue_admission_at: is the reservation still the zone's?
Commits(r) == r.token # 0 => signal[r.zone].token = r.token
Committed(r) == [r EXCEPT !.retry = IF @ = "none" THEN "Notify" ELSE @]

Queued(z) == z \in pendingKeys

\* Mutant: off by one
IsOverfull == Len(pending) > Capacity

IsFull == Len(pending) >= Capacity

\* The pending queue is full and the zone has no task: the request is dropped
ReceiveFull ==
  /\ Received
  /\ LET r == Head(outer)
     IN  /\ RequestIsCurrent(r) /\ ~Queued(r.zone) /\ IsFull /\ r.zone \notin Active
         /\ Drop(r)
  /\ UNCHANGED <<pending, pendingKeys>>

\* A NOTIFY whose reservation another one has replaced is dropped without its token, so
\* there is nothing to roll back and nothing to retry
ReceiveSuperseded ==
  /\ Received
  /\ LET r == Head(outer)
     IN  /\ RequestIsCurrent(r) /\ ~Commits(r)
         /\ Queued(r.zone) \/ ~IsFull \/ r.zone \in Active
  /\ UNCHANGED <<signal, status, pending, pendingKeys>>

ReceiveAdmit ==
  /\ Received
  /\ LET r == Head(outer)
     IN  /\ RequestIsCurrent(r) /\ Commits(r) /\ ~Queued(r.zone) /\ ~IsFull
         /\ pending' = Append(pending, Committed(r))
         /\ pendingKeys' = pendingKeys \cup {r.zone}
  /\ UNCHANGED <<signal, status>>

\* Mutant: the key of the evicted request stays
EvictedKeysLeak(r, evicted) == pendingKeys \cup {r.zone}

EvictedKeys(r, evicted) == (pendingKeys \ {evicted.zone}) \cup {r.zone}

\* A follow-up of a zone with a task takes the place of the last pending request
ReceiveEvict ==
  /\ Received
  /\ LET r == Head(outer)
         evicted == Last(pending)
     IN  /\ RequestIsCurrent(r) /\ Commits(r) /\ ~Queued(r.zone) /\ IsFull /\ r.zone \in Active
         /\ pending' = Append(Front(pending), Committed(r))
         /\ pendingKeys' = EvictedKeys(r, evicted)
         /\ Drop(evicted)

\* merge_refresh_request
MergedRetry(a, b) ==
  IF "Catalog" \in {a, b} THEN "Catalog" ELSE IF a # "none" THEN a ELSE b

Merged(old, new) ==
  [new EXCEPT !.retry = MergedRetry(old.retry, new.retry)]

\* A merged request that is not a NOTIFY forgets the token of the one that was there
TakenOver(old, r) ==
  IF r.token = 0 /\ old.token # 0 /\ old.token = signal[r.zone].token
    THEN [signal EXCEPT ![r.zone].seen = TRUE] ELSE signal

\* One request per zone: requests of the same plan are merged, an older plan's gives way
ReceiveMerge ==
  /\ Received
  /\ LET r == Head(outer)
         at == {i \in 1 .. Len(pending) : pending[i].zone = r.zone}
     IN  /\ RequestIsCurrent(r) /\ Commits(r) /\ Queued(r.zone)
         /\ \/ at = {} /\ UNCHANGED <<pending, signal, status>>
            \/ \E i \in at :
                 LET old == pending[i]
                 IN  \/ /\ old.plan = r.plan
                        /\ pending' = [pending EXCEPT ![i] = Merged(old, Committed(r))]
                        /\ signal' = TakenOver(old, r)
                        /\ UNCHANGED status
                     \/ /\ old.plan < r.plan
                        /\ pending' = [pending EXCEPT ![i] = Committed(r)]
                        /\ Drop(old)
                     \/ /\ old.plan > r.plan
                        /\ Drop(Committed(r))
                        /\ UNCHANGED pending
  /\ UNCHANGED pendingKeys

\* Shutdown: RefreshAdmission::close
CloseAdmission ==
  /\ admission
  /\ admission' = FALSE
  /\ UNCHANGED <<plan, status, signal, notify, outer, pending, pendingKeys, task, disp, sched,
                 apply, rxOpen, used>>

(***************************************************************************)
(* The task of a zone                                                      *)
(***************************************************************************)

TaskIsCurrent(z) == IsCurrent(z, task[z].plan, task[z].ngen)
TaskGoes(z, pc) == task' = [task EXCEPT ![z].pc = pc]

\* defer_interrupted_attempt
Deferred(z) ==
  IF status[z].gen = task[z].gen
    THEN [status EXCEPT ![z].inProgress = FALSE, ![z].next = "now"] ELSE status

\* discard_obsolete
DiscardObsolete(z) ==
  /\ TaskGoes(z, "done")
  /\ status' = IF task[z].created
                 THEN IF status[z].gen = task[z].gen THEN [status EXCEPT ![z] = NoStatus] ELSE status
                 ELSE Deferred(z)

\* begin_validated_refresh_attempt: obsolete before it has the zone's ownership ...
BeginStale(z) ==
  /\ task[z].pc = "spawned" /\ ~TaskIsCurrent(z)
  /\ TaskGoes(z, "done")
  /\ UNCHANGED <<plan, status, signal, notify, outer, pending, pendingKeys, disp, sched, apply,
                 admission, rxOpen, used>>

\* ... or mark_attempt_started (no other task of the zone: the lock is free)
BeginAttempt(z) ==
  /\ task[z].pc = "spawned"
  /\ \/ /\ status[z].gen # 0
        /\ status' = [status EXCEPT ![z].inProgress = TRUE]
        /\ task' = [task EXCEPT ![z].pc = "started", ![z].gen = status[z].gen]
        /\ UNCHANGED used
     \/ /\ status[z].gen = 0
        /\ used' = [used EXCEPT !.gen = @ + 1]
        /\ status' = [status EXCEPT ![z] = [NoStatus EXCEPT !.gen = used.gen + 1,
                                              !.inProgress = TRUE]]
        /\ task' = [task EXCEPT ![z].pc = "started", ![z].gen = used.gen + 1,
                                ![z].created = TRUE]
  /\ UNCHANGED <<plan, signal, notify, outer, pending, pendingKeys, disp, sched, apply,
                 admission, rxOpen>>

\* It waits for a transfer permit; its request must be current before and after
Transferring == {z \in Zones : task[z].pc = "running"}

StartTransfer(z) ==
  /\ task[z].pc = "started" /\ TaskIsCurrent(z)
  /\ Cardinality(Transferring) < Permits
  /\ TaskGoes(z, "running")
  /\ signal' = [signal EXCEPT ![z].seen = signal[z].token # 0]
  /\ UNCHANGED <<plan, status, notify, outer, pending, pendingKeys, disp, sched, apply,
                 admission, rxOpen, used>>

\* The request is found obsolete, or the plan of the transfer is cancelled
TransferObsolete(z) ==
  /\ \/ task[z].pc = "started" /\ ~TaskIsCurrent(z)
     \/ task[z].pc = "running" /\ (plan[z] # task[z].plan \/ status[z].gen # task[z].gen)
  /\ DiscardObsolete(z)
  /\ UNCHANGED <<plan, signal, notify, outer, pending, pendingKeys, disp, sched, apply,
                 admission, rxOpen, used>>

\* A secret reload cancels the transfer
SecretsReloaded(z) ==
  /\ task[z].pc = "running" /\ (task[z].created => used.gen < MaxGen)
  /\ DiscardObsolete(z)
  /\ UNCHANGED <<plan, signal, notify, outer, pending, pendingKeys, disp, sched, apply,
                 admission, rxOpen, used>>

\* The task panics, or its success is not acknowledged: the attempt is dropped
Interrupt(z) ==
  /\ task[z].pc \in {"started", "running"}
  /\ TaskGoes(z, "done")
  /\ status' = Deferred(z)
  /\ UNCHANGED <<plan, signal, notify, outer, pending, pendingKeys, disp, sched, apply,
                 admission, rxOpen, used>>

\* record_failure
TransferFails(z) ==
  /\ task[z].pc = "running"
  /\ TaskGoes(z, "done")
  /\ status' = IF status[z].gen = task[z].gen
                 THEN [status EXCEPT ![z].inProgress = FALSE, ![z].next = "later"] ELSE status
  /\ UNCHANGED <<plan, signal, notify, outer, pending, pendingKeys, disp, sched, apply,
                 admission, rxOpen, used>>

\* What a catalog may now say of a member: it has a plan exactly while it is a member
Changes(z) == IF plan[z] = 0 THEN {"add"} ELSE {"remove", "rename", "policy"}

\* The success is recorded; a catalog goes on to reconcile its members
TransferSucceeds(z) ==
  /\ task[z].pc = "running" /\ plan[z] = task[z].plan
  /\ status[z].gen = task[z].gen
  /\ status' = [status EXCEPT ![z].next = "later"]
  /\ \/ TaskGoes(z, "finishing") /\ UNCHANGED apply
     \/ /\ z = Catalog /\ TaskGoes(z, "applying")
        /\ \E todo \in SUBSET [zone : Members, what : {"add", "remove", "rename", "policy"}] :
             /\ todo # {}
             /\ \A c \in todo : c.what \in Changes(c.zone)
             /\ \A c, d \in todo : c.zone = d.zone => c = d
             /\ used.plan + Cardinality({c \in todo : c.what # "remove"}) <= MaxPlan
             /\ apply' = [NoApply EXCEPT !.pc = "next", !.todo = todo]
  /\ UNCHANGED <<plan, signal, notify, outer, pending, pendingKeys, disp, sched, admission,
                 rxOpen, used>>

\* ZoneRefreshAttempt::finish
FinishAttempt(z) ==
  /\ task[z].pc = "finishing"
  /\ TaskGoes(z, "done")
  /\ status' = IF status[z].gen = task[z].gen
                 THEN [status EXCEPT ![z].inProgress = FALSE] ELSE status
  /\ UNCHANGED <<plan, signal, notify, outer, pending, pendingKeys, disp, sched, apply,
                 admission, rxOpen, used>>

(***************************************************************************)
(* apply_parsed_snapshot, in the catalog's task                            *)
(***************************************************************************)

\* The next member: the plan goes first when it is removed or renamed
ApplyNext ==
  /\ apply.pc = "next"
  /\ \E c \in apply.todo :
       /\ apply' = [apply EXCEPT !.zone = c.zone, !.what = c.what, !.todo = @ \ {c},
                      !.pc = IF c.what \in {"remove", "rename"} THEN "status" ELSE "insert"]
       /\ plan' = IF c.what \in {"remove", "rename"} THEN [plan EXCEPT ![c.zone] = 0] ELSE plan
  /\ UNCHANGED <<status, signal, notify, outer, pending, pendingKeys, task, disp, sched,
                 admission, rxOpen, used>>

\* then the status, and only then the reservation
ApplyRemoveStatus ==
  /\ apply.pc = "status"
  /\ status' = [status EXCEPT ![apply.zone] = NoStatus]
  /\ apply' = [apply EXCEPT !.pc = "signal"]
  /\ UNCHANGED <<plan, signal, notify, outer, pending, pendingKeys, task, disp, sched,
                 admission, rxOpen, used>>

ApplyRemoveSignal ==
  /\ apply.pc = "signal"
  /\ signal' = [signal EXCEPT ![apply.zone] = NoSignal]
  /\ apply' = [apply EXCEPT !.pc = IF apply.what = "remove" THEN "next" ELSE "insert"]
  /\ UNCHANGED <<plan, status, notify, outer, pending, pendingKeys, task, disp, sched,
                 admission, rxOpen, used>>

\* A plan of another shape; the refresh is sent later with this generation
ApplyInsertPlan ==
  /\ apply.pc = "insert"
  /\ used' = [used EXCEPT !.plan = @ + 1]
  /\ plan' = [plan EXCEPT ![apply.zone] = used.plan + 1]
  /\ apply' = [apply EXCEPT !.pc = IF apply.what = "policy" THEN "next" ELSE "loading",
                 !.sends = @ \cup {Request(apply.zone, "Catalog", used.plan + 1)}]
  /\ UNCHANGED <<status, signal, notify, outer, pending, pendingKeys, task, disp, sched,
                 admission, rxOpen>>

\* record_loading_start leaves an existing status alone; a copy restored from disk (of a
\* member that is added) brings its own deadline
ApplyLoadingStart ==
  /\ apply.pc = "loading"
  /\ \E restored \in {n \in {"none", "later", "now"} : n = "none" \/ apply.what = "add"} :
       LET z == apply.zone
       IN  \/ /\ status[z].gen # 0
              /\ status' = IF restored = "none" THEN status
                           ELSE [status EXCEPT ![z].inProgress = FALSE, ![z].next = restored]
              /\ UNCHANGED used
           \/ /\ status[z].gen = 0
              /\ used' = [used EXCEPT !.gen = @ + 1]
              /\ status' = [status EXCEPT ![z] = [gen |-> used.gen + 1, inProgress |-> FALSE,
                                                  next |-> restored]]
  /\ apply' = [apply EXCEPT !.pc = "next"]
  /\ UNCHANGED <<plan, signal, notify, outer, pending, pendingKeys, task, disp, sched,
                 admission, rxOpen>>

\* Mutant: the close of the channel does not wake the sender
ApplySendWaits ==
  /\ apply.pc = "next" /\ apply.todo = {} /\ HasRoom
  /\ \E r \in apply.sends :
       /\ apply' = [apply EXCEPT !.sends = @ \ {r}]
       /\ outer' = Append(outer, r)
  /\ UNCHANGED <<plan, status, signal, notify, pending, pendingKeys, task, disp, sched,
                 admission, rxOpen, used>>

\* With the lock released, each member's request waits for room; a closed channel refuses it
ApplySend ==
  /\ apply.pc = "next" /\ apply.todo = {}
  /\ \E r \in apply.sends :
       /\ apply' = [apply EXCEPT !.sends = @ \ {r}]
       /\ \/ HasRoom /\ outer' = Append(outer, r)
          \/ ~rxOpen /\ UNCHANGED outer
  /\ UNCHANGED <<plan, status, signal, notify, pending, pendingKeys, task, disp, sched,
                 admission, rxOpen, used>>

ApplyEnds ==
  /\ apply.pc = "next" /\ apply.todo = {} /\ apply.sends = {}
  /\ apply' = NoApply
  /\ TaskGoes(Catalog, "finishing")
  /\ UNCHANGED <<plan, status, signal, notify, outer, pending, pendingKeys, disp, sched,
                 admission, rxOpen, used>>

-----------------------------------------------------------------------------

Task(z) ==
  \/ BeginStale(z) \/ BeginAttempt(z) \/ StartTransfer(z) \/ TransferObsolete(z)
  \/ TransferFails(z) \/ TransferSucceeds(z) \/ FinishAttempt(z)

Apply ==
  \/ ApplyNext \/ ApplyRemoveStatus \/ ApplyRemoveSignal \/ ApplyInsertPlan
  \/ ApplyLoadingStart \/ ApplySend \/ ApplyEnds

Receive ==
  \/ ReceiveObsolete \/ ReceiveFull \/ ReceiveSuperseded \/ ReceiveAdmit \/ ReceiveEvict
  \/ ReceiveMerge

Scan == DrainOnClose \/ Dispatch \/ AdmitFails \/ ScanEnds

Scheduler == StartDue \/ SendDue

Next ==
  \/ Elapse \/ NotifyArrives \/ NotifySignals \/ PruneSignal \/ ControlPlaneRetry
  \/ Scheduler
  \/ Scan \/ ClosedWakes \/ Receive \/ \E z \in Zones : Retire(z)
  \/ CloseAdmission
  \/ \E z \in Zones : Task(z) \/ Interrupt(z) \/ SecretsReloaded(z)
  \/ Apply

Spec == Init /\ [][Next]_vars

(***************************************************************************)
(* Fairness: the runtime polls every runnable task.  select! picks among   *)
(* its ready branches at random, and the transfer semaphore and send() on  *)
(* a full channel are first come, first served, so none of them passes     *)
(* over a waiting branch or task forever.                                  *)
(***************************************************************************)
Fairness ==
  /\ WF_vars(Scan) /\ WF_vars(SendDue) /\ WF_vars(Apply)
  /\ SF_vars(Receive) /\ SF_vars(ClosedWakes) /\ SF_vars(ApplySend)
  /\ \A z \in Zones : WF_vars(Task(z)) /\ SF_vars(StartTransfer(z)) /\ SF_vars(Retire(z))

FairSpec == Spec /\ Fairness

(***************************************************************************)
(* Properties                                                              *)
(***************************************************************************)

Deadlines == {"none", "later", "now"}
MaybeReasons == Reasons \cup {"none"}
WhatChanges == {"add", "remove", "rename", "policy"}
Requests ==
  [zone : Zones, retry : MaybeReasons, plan : Nat, token : Nat, ngen : Nat]
Statuses == [gen : Nat, inProgress : BOOLEAN, next : Deadlines]
Signals == [token : Nat, plan : Nat, gen : Nat, seen : BOOLEAN]
TaskStates ==
  [pc : {"none", "spawned", "started", "running", "applying", "finishing", "done"},
   plan : Nat, ngen : Nat, gen : Nat, created : BOOLEAN]
ApplyStates ==
  [pc : {"idle", "next", "status", "signal", "insert", "loading"}, zone : Zones \cup {NoZone},
   what : WhatChanges, todo : SUBSET [zone : Members, what : WhatChanges],
   sends : SUBSET Requests]

\* Types of the queues, which stay within their capacity, and of what they are tied to.
TypeOK ==
  /\ plan \in [Zones -> Nat]
  /\ status \in [Zones -> Statuses]
  /\ signal \in [Zones -> Signals]
  /\ notify \in [zone : Zones \cup {NoZone}, plan : Nat]
  /\ outer \in Seq(Requests) /\ Len(outer) <= Capacity
  /\ pending \in Seq(Requests) /\ Len(pending) <= Capacity
  /\ pendingKeys \subseteq Zones
  /\ task \in [Zones -> TaskStates]
  /\ disp \in {"drain", "scan", "wait", "stopped"}
  /\ sched \subseteq Zones
  /\ apply \in ApplyStates
  /\ admission \in BOOLEAN /\ rxOpen \in BOOLEAN
  /\ used \in [plan : Nat, gen : Nat, token : Nat]

\* pending_keys says exactly which zones have a pending request, and each has one: a key
\* left behind would make enqueue_pending_refresh_request swallow every later request of
\* its zone.  (Between the close of the admission and the drain one may be left.)
PendingKeysExact ==
  admission \/ ~rxOpen =>
    /\ pendingKeys = {r.zone : r \in ToSet(pending)}
    /\ \A i, j \in 1 .. Len(pending) : pending[i].zone = pending[j].zone => i = j

\* Some request, task, scheduler step or reconciliation step will still look after the zone
OnTheWay(z) ==
  \/ \E r \in ToSet(outer) \cup ToSet(pending) \cup apply.sends : r.zone = z /\ RequestIsCurrent(r)
  \/ task[z].pc = "spawned" /\ TaskIsCurrent(z)
  \/ task[z].pc \notin {"none", "spawned", "done"}
  \/ z \in sched
  \/ apply.zone = z /\ apply.pc # "next"

\* A zone marked in progress is being looked after: start_due_refreshes passes over such a
\* zone and NOTIFY is suppressed for it, so a mark nobody takes back ends its refreshes.
InProgressBacked ==
  admission => \A z \in Zones : status[z].inProgress => OnTheWay(z)

\* A reservation that suppresses NOTIFYs stands for work: unless an attempt has started
\* since, or a request of another kind has taken the NOTIFY over, an attempt is on its way
\* or due at once (rollback and deferral when either bounded queue drops the request).
SuppressionBacked ==
  admission => \A z \in Zones :
    /\ signal[z].token # 0 /\ ~signal[z].seen
    /\ signal[z].plan = plan[z] /\ status[z].gen # 0 /\ signal[z].gen = status[z].gen
    => OnTheWay(z) \/ status[z].next = "now"

\* A mark is taken back in the end, so that the zone is scheduled again.
MarkEnds ==
  \A z \in Zones : status[z].inProgress ~> (~status[z].inProgress \/ ~admission)

\* The catalog's task gets rid of its requests although the dispatcher that has to receive
\* them is the one that waits for the task.
ApplyCompletes == (apply.pc # "idle") ~> (apply.pc = "idle")

\* After the admission is closed the dispatcher stops.
DrainEnds == ~admission ~> (disp = "stopped")
=============================================================================
