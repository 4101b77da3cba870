-------------------------- MODULE RefreshLifecycle --------------------------
(***************************************************************************)
(* The refresh lifecycle of ONE zone of the secondary server: the entry in *)
(* the ZoneStore directory, its transfer plan, its refresh status, the     *)
(* refresh attempts that transfer it, the scheduler that expires it and    *)
(* starts due refreshes, and the catalog reconciliation that adds, renames *)
(* and removes it while all of that is going on.                           *)
(*                                                                         *)
(* Zones share no lifecycle state but the bounded request queue, so one    *)
(* zone and a lossy queue stand for all of them.  Every action is one      *)
(* critical section of the code: what happens between two lock            *)
(* acquisitions, or between two await points, can interleave with the      *)
(* other tasks.                                                            *)
(***************************************************************************)
EXTENDS Integers, FiniteSets

CONSTANTS
  Catalogued,     \* TRUE: a catalog member; FALSE: a zone of the static configuration
  Primaries,      \* how many primaries the plan lists
  SerialBits,     \* width of the SOA serial (32 in the code)
  Offered,        \* the serials the primaries and the cache may hold
  ExpireAfter,    \* SOA EXPIRE
  RefreshDelays,  \* what effective_interval(refresh) can return
  RetryDelays,    \* what effective_interval(retry) can return
  InitialDelays,  \* what initial_retry_delay can return
  LossyQueue,     \* FALSE: other zones never fill the queue
  MaxClock,       \* bound: time
  MaxPlan,        \* bound: transfer plan generations
  MaxGen,         \* bound: refresh status generations
  MaxVer,         \* bound: directory entries published
  MaxSecret,      \* bound: secret snapshots
  MaxQueue        \* bound: requests of this zone in the queue

VARIABLES
  clock,      \* Instant::now(); starts at 1 so that 0 can stand for "no deadline"
  secret,     \* identity of the current secret snapshot
  plan,       \* the zone's TransferPlan entry: [gen, life], gen = 0 when there is none
  entry,      \* the zone's ZoneStoreEntry, state "Absent" when there is none
  status,     \* the zone's ZoneRefreshStatus, gen = 0 when there is none
  owner,      \* task that holds the zone's AsyncMutex
  att,        \* what each task does
  queue,      \* refresh requests of the zone not yet turned into a task
  sched,      \* the scheduler task
  recon,      \* the catalog reconciliation
  life,       \* ghost: how many times the catalog has removed the zone
  used        \* generations handed out so far: plans, statuses, entries

vars == <<clock, secret, plan, entry, status, owner, att, queue, sched, recon, life, used>>

Tasks == {"dispatch", "initial"}
NoTask == "none"

Serials == 0 .. (2 ^ SerialBits - 1)
NoSerial == -1

ASSUME LifecycleAssumption ==
  /\ Catalogued \in BOOLEAN /\ LossyQueue \in BOOLEAN
  /\ Primaries \in Nat \ {0} /\ SerialBits \in Nat \ {0}
  /\ Offered \subseteq Serials
  /\ ExpireAfter \in Nat \ {0}
  /\ RefreshDelays \subseteq Nat /\ RetryDelays \subseteq Nat /\ InitialDelays \subseteq Nat
  /\ MaxClock \in Nat /\ MaxPlan \in Nat /\ MaxGen \in Nat /\ MaxVer \in Nat
  /\ MaxSecret \in Nat /\ MaxQueue \in Nat

\* RFC 1982: `candidate` is newer than `current` (wrapping_sub below half the space)
SerialAfter(candidate, current) ==
  /\ candidate # current
  /\ (candidate - current) % (2 ^ SerialBits) < 2 ^ (SerialBits - 1)

NoPlan == [gen |-> 0, life |-> 0]

\* `ver` is the identity of the Arc<ZoneStoreEntry>, `snap` that of the Arc<ZoneSnapshot>
\* in it (the `ver` it was first published with); `bornExpired`: that snapshot was restored
\* from disk after its SOA EXPIRE had passed.  Ghosts: `life`, the catalog life its
\* incarnation was allocated in; `by`, that of the plan it was fetched for; `root`, the life
\* in which its oldest content was fetched; `freshAt`, when a primary last vouched for it;
\* `acked`, whether the refresh status knows about that.
NoEntry == [state |-> "Absent", ver |-> 0, snap |-> 0, serial |-> NoSerial,
            bornExpired |-> FALSE, life |-> 0, by |-> 0, root |-> 0,
            freshAt |-> 0, acked |-> FALSE]

NoStatus == [gen |-> 0, expireAt |-> 0, nextRefresh |-> 0, inProgress |-> FALSE,
             expired |-> FALSE]

\* What a task has captured: the request (plan, ngen = NOTIFY's status generation or 0),
\* its secret snapshot, the attempt (gen, created), the loop over the primaries (left,
\* equal, newer, force, serial), and a snapshot: the installed one during an IXFR or a
\* confirmation (ver = its identity), the candidate once prepared (ver and expected = the
\* entry it would replace and its serial).
Idle == [pc |-> "idle", plan |-> 0, life |-> 0, ngen |-> 0, secret |-> 0, gen |-> 0,
         created |-> FALSE, left |-> 0, equal |-> FALSE, newer |-> FALSE, force |-> FALSE,
         serial |-> NoSerial, via |-> "soa", ver |-> 0, snapSerial |-> NoSerial, root |-> 0,
         expected |-> NoSerial, seen |-> "Absent"]

SchedIdle == [pc |-> "idle", now |-> 0, gen |-> 0, snap |-> 0]

\* `cached`: the disk holds a copy of the member; `freshAt`: when the copy that was restored
\* had last been fresh
ReconIdle == [pc |-> "idle", what |-> "add", cached |-> FALSE, freshAt |-> 0]

\* What ZonePersistence::restore returns when the last freshness is `age` old
Restored(ver, serial, age, l) ==
  [NoEntry EXCEPT !.state = IF age >= ExpireAfter THEN "Expired" ELSE "Active",
     !.bornExpired = (age >= ExpireAfter), !.ver = ver, !.snap = ver, !.serial = serial,
     !.life = l, !.by = l, !.root = l, !.freshAt = clock - age, !.acked = TRUE]

\* record_success_with_commit on the status of generation `gen`, `age` ago
Succeeded(gen, age, delay, inProgress) ==
  [gen |-> gen, expireAt |-> clock - age + ExpireAfter, nextRefresh |-> clock - age + delay,
   inProgress |-> inProgress, expired |-> FALSE]

\* The clock starts late enough for a restored zone to have expired
Init ==
  /\ clock = 1 + ExpireAfter /\ secret = 0 /\ owner = NoTask /\ life = 0
  /\ queue = {} /\ sched = SchedIdle
  /\ \E cached \in IF Catalogued THEN BOOLEAN ELSE {FALSE} :
       recon = [ReconIdle EXCEPT !.cached = cached]
  /\ IF Catalogued
       THEN /\ plan = NoPlan /\ entry = NoEntry /\ status = NoStatus
            /\ used = [plan |-> 0, gen |-> 0, ver |-> 0]
            /\ att = [t \in Tasks |-> Idle]
       ELSE /\ plan = [gen |-> 1, life |-> 0]
            /\ used = [plan |-> 1, gen |-> 1, ver |-> 1]
            /\ att = [t \in Tasks |->
                        IF t = "initial" THEN [Idle EXCEPT !.pc = "begin", !.plan = 1] ELSE Idle]
            /\ \/ /\ entry = [NoEntry EXCEPT !.state = "Loading", !.ver = 1, !.snap = 1]
                  /\ status = [NoStatus EXCEPT !.gen = 1]
               \/ \E s \in Offered, d \in RefreshDelays, age \in 0 .. clock - 1 :
                    /\ entry = Restored(1, s, age, 0)
                    /\ status = Succeeded(1, age, d, FALSE)

Tick ==
  /\ clock < MaxClock
  /\ clock' = clock + 1
  /\ UNCHANGED <<secret, plan, entry, status, owner, att, queue, sched, recon, life, used>>

\* SecretManager::reload installs another snapshot
ReloadSecrets ==
  /\ secret < MaxSecret
  /\ secret' = secret + 1
  /\ UNCHANGED <<clock, plan, entry, status, owner, att, queue, sched, recon, life, used>>

(***************************************************************************)
(* Requests                                                                *)
(***************************************************************************)

\* RefreshRequest::incarnation_is_current, and is_current_plan
IsCurrent(r) ==
  /\ plan.gen # 0 /\ plan.gen = r.plan
  /\ r.ngen # 0 => status.gen = r.ngen

Enqueue(kind, ngen) ==
  /\ Cardinality(queue) < MaxQueue
  /\ queue' = queue \cup {[kind |-> kind, plan |-> plan.gen, ngen |-> ngen]}

\* An accepted NOTIFY: ignored without a plan or a status, otherwise tied to both.
\* (Suppression by the dedup interval only removes behaviours.)
Notify ==
  /\ plan.gen # 0 /\ status.gen # 0
  /\ Enqueue("Notify", status.gen)
  /\ UNCHANGED <<clock, secret, plan, entry, status, owner, att, sched, recon, life, used>>

\* A control-plane or operator retry of a known zone
ControlPlaneRetry ==
  /\ entry.state # "Absent" /\ plan.gen # 0
  /\ Enqueue("ControlPlane", 0)
  /\ UNCHANGED <<clock, secret, plan, entry, status, owner, att, sched, recon, life, used>>

\* The pending queue is full, or evicts the request for another zone's follow-up.  A
\* NOTIFY is retried only if it had been admitted to the pending queue.
DropFromQueue ==
  \E r \in queue, admitted \in BOOLEAN :
    /\ LossyQueue
    /\ queue' = queue \ {r}
    /\ status' = IF /\ IsCurrent(r) /\ status.gen # 0
                    /\ r.kind = "Notify" => admitted
                   THEN [status EXCEPT !.inProgress = FALSE,
                           !.nextRefresh = IF r.kind = "Scheduled" THEN @ ELSE clock]
                   ELSE status
    /\ UNCHANGED <<clock, secret, plan, entry, owner, att, sched, recon, life, used>>

\* The dispatcher turns a validated request into a task, one per zone; an obsolete one is
\* discarded
Dispatch ==
  \E r \in queue :
    /\ att["dispatch"].pc = "idle"
    /\ queue' = queue \ {r}
    /\ att' = IF IsCurrent(r)
                THEN [att EXCEPT !["dispatch"] = [Idle EXCEPT !.pc = "begin", !.plan = r.plan,
                                                    !.life = plan.life, !.ngen = r.ngen]]
                ELSE att
    /\ UNCHANGED <<clock, secret, plan, entry, status, owner, sched, recon, life, used>>

(***************************************************************************)
(* The refresh status, and the ends of an attempt                          *)
(***************************************************************************)

\* Mutants: the deferral forgets the deadline, or the in-progress mark
DeferredWithoutDeadline(gen) ==
  IF status.gen # 0 /\ status.gen = gen THEN [status EXCEPT !.inProgress = FALSE] ELSE status

DeferredStillInProgress(gen) ==
  IF status.gen # 0 /\ status.gen = gen THEN [status EXCEPT !.nextRefresh = clock] ELSE status

\* defer_interrupted_attempt
Deferred(gen) ==
  IF status.gen # 0 /\ status.gen = gen
    THEN [status EXCEPT !.inProgress = FALSE, !.nextRefresh = clock]
    ELSE status

\* The task ends and gives the zone's ownership back
Release(t) ==
  /\ owner' = NoTask
  /\ att' = [att EXCEPT ![t] = Idle]

\* Mutant: the status is removed although the attempt found it there
DiscardAlwaysRemoves(t) ==
  /\ Release(t)
  /\ status' = IF status.gen = att[t].gen THEN NoStatus ELSE status
  /\ UNCHANGED <<clock, secret, plan, entry, queue, sched, recon, life, used>>

\* discard_obsolete
DiscardObsolete(t) ==
  /\ Release(t)
  /\ status' = IF att[t].created
                 THEN IF status.gen = att[t].gen THEN NoStatus ELSE status
                 ELSE Deferred(att[t].gen)
  /\ UNCHANGED <<clock, secret, plan, entry, queue, sched, recon, life, used>>

\* ZoneRefreshAttempt dropped without having been finished
DropAttempt(t) ==
  /\ Release(t)
  /\ status' = Deferred(att[t].gen)
  /\ UNCHANGED <<clock, secret, plan, entry, queue, sched, recon, life, used>>

(***************************************************************************)
(* An attempt                                                              *)
(***************************************************************************)

\* begin_validated_refresh_attempt finds the request obsolete before it waits
BeginStale ==
  /\ att["dispatch"].pc = "begin"
  /\ ~IsCurrent(att["dispatch"])
  /\ att' = [att EXCEPT !["dispatch"] = Idle]
  /\ UNCHANGED <<clock, secret, plan, entry, status, owner, queue, sched, recon, life, used>>

\* begin_attempt: take the zone's ownership, then mark_attempt_started
BeginAttempt(t) ==
  /\ att[t].pc = "begin"
  /\ owner = NoTask
  /\ owner' = t
  /\ \/ /\ status.gen # 0
        /\ status' = [status EXCEPT !.inProgress = TRUE]
        /\ att' = [att EXCEPT ![t].pc = "started", ![t].gen = status.gen]
        /\ UNCHANGED used
     \/ /\ status.gen = 0 /\ used.gen < MaxGen
        /\ used' = [used EXCEPT !.gen = @ + 1]
        /\ status' = [NoStatus EXCEPT !.gen = used.gen + 1, !.inProgress = TRUE]
        /\ att' = [att EXCEPT ![t].pc = "started", ![t].gen = used.gen + 1,
                              ![t].created = TRUE]
  /\ UNCHANGED <<clock, secret, plan, entry, queue, sched, recon, life>>

\* Checks after ownership and after the transfer permit; then the requested AXFR is taken
\* and the held serial and the secret snapshot are read
StartLoop(t) ==
  /\ att[t].pc = "started"
  /\ IsCurrent(att[t])
  /\ \E force \in BOOLEAN :
       att' = [att EXCEPT ![t].pc = "poll", ![t].left = Primaries, ![t].force = force,
                          ![t].secret = secret, ![t].serial = entry.serial]
  /\ UNCHANGED <<clock, secret, plan, entry, status, owner, queue, sched, recon, life, used>>

StartStale(t) ==
  /\ att[t].pc = "started"
  /\ ~IsCurrent(att[t])
  /\ DiscardObsolete(t)

\* The task's select! observes the cancellation of its plan or of its secret snapshot at
\* one of its awaits
Cancelled(t) ==
  /\ att[t].pc \in {"poll", "ixfr", "axfr", "prepared", "confirm"}
  /\ plan.gen # att[t].plan \/ secret # att[t].secret
  /\ DiscardObsolete(t)

\* The task panics or is aborted at one of its awaits
Interrupt(t) ==
  /\ att[t].pc \in {"started", "poll", "ixfr", "axfr", "prepared", "confirm", "finishing"}
  /\ DropAttempt(t)

\* The attempt goes on to the next primary
NextPrimary(t) ==
  att' = [att EXCEPT ![t].pc = "poll", ![t].left = @ - 1, ![t].via = "soa",
                     ![t].ver = 0, ![t].snapSerial = NoSerial, ![t].root = 0,
                     ![t].expected = NoSerial]

\* The attempt asks the primary at hand for an AXFR; what an IXFR had captured is dropped
TryAxfr(t) ==
  att' = [att EXCEPT ![t].pc = "axfr", ![t].via = "axfr", ![t].ver = 0,
                     ![t].snapSerial = NoSerial, ![t].root = 0, ![t].expected = NoSerial]

\* What an attempt still needs once its loop is over
Ending(t, pc) == [Idle EXCEPT !.pc = pc, !.plan = att[t].plan, !.gen = att[t].gen]

\* Mutant: off by one
PrimaryLeftOrNone(t) == att[t].left >= 0

\* The loop over the primaries is not over
PrimaryLeft(t) == att[t].left > 0

\* One primary is asked: it cannot be (credentials, query id, SOA poll failure, an older
\* serial), it holds the same serial, or it holds a newer one and is asked for a transfer:
\* an IXFR from the installed snapshot, or an AXFR when the operator asked for one, there is
\* no serial to start from, or IXFR is in its cooldown.
PollPrimary(t) ==
  /\ att[t].pc = "poll" /\ PrimaryLeft(t)
  /\ \/ NextPrimary(t)
     \/ /\ att[t].serial # NoSerial /\ ~att[t].force
        /\ att' = [att EXCEPT ![t].left = @ - 1, ![t].equal = TRUE]
     \/ /\ att[t].serial # NoSerial /\ ~att[t].force
        /\ entry.serial # NoSerial
        /\ att' = [att EXCEPT ![t].pc = "ixfr", ![t].newer = TRUE, ![t].via = "ixfr",
                              ![t].ver = entry.snap, ![t].snapSerial = entry.serial,
                              ![t].root = entry.root]
     \/ /\ att[t].serial # NoSerial /\ ~att[t].force
        /\ att' = [att EXCEPT ![t].pc = "axfr", ![t].newer = TRUE, ![t].via = "axfr"]
     \/ /\ att[t].serial = NoSerial \/ att[t].force
        /\ att' = [att EXCEPT ![t].pc = "axfr", ![t].via = "axfr"]
  /\ UNCHANGED <<clock, secret, plan, entry, status, owner, queue, sched, recon, life, used>>

\* IXFR failed, or brought an invalid catalog: ask the same primary for an AXFR
IxfrFails(t) ==
  /\ att[t].pc = "ixfr"
  /\ TryAxfr(t)
  /\ UNCHANGED <<clock, secret, plan, entry, status, owner, queue, sched, recon, life, used>>

\* AXFR failed, brought an invalid catalog, or preparation or staging failed
TransferFails(t) ==
  /\ att[t].pc \in {"ixfr", "axfr"}
  /\ NextPrimary(t)
  /\ UNCHANGED <<clock, secret, plan, entry, status, owner, queue, sched, recon, life, used>>

\* Mutant: serials compared as plain numbers
AdmissibleUnwrapped(serial, force, expected) ==
  expected = NoSerial \/ serial > expected \/ (force /\ serial = expected)

\* final_soa_is_admissible of a candidate serial against the entry it would replace
Admissible(serial, force, expected) ==
  \/ expected = NoSerial
  \/ SerialAfter(serial, expected)
  \/ force /\ serial = expected

\* A snapshot arrived and prepare_zone_publication ties it to the entry installed NOW.
\* An IXFR result keeps the content of the snapshot the request started from.
Prepare(t) ==
  /\ att[t].pc \in {"ixfr", "axfr"}
  /\ \E s \in Offered :
       /\ att[t].via = "ixfr" => SerialAfter(s, att[t].snapSerial)
       /\ Admissible(s, att[t].force, entry.serial)
       /\ att' = [att EXCEPT ![t].pc = "prepared", ![t].ver = entry.ver,
                             ![t].expected = entry.serial, ![t].snapSerial = s,
                             ![t].root = IF att[t].via = "ixfr" THEN @ ELSE att[t].life]
  /\ UNCHANGED <<clock, secret, plan, entry, status, owner, queue, sched, recon, life, used>>

\* Mutants: the plan is not looked at, or any plan will do
MayPublishAnyPlan(t) ==
  /\ secret = att[t].secret
  /\ entry.ver = att[t].ver
  /\ Admissible(att[t].snapSerial, att[t].force, att[t].expected)

MayPublishSomePlan(t) ==
  /\ plan.gen # 0
  /\ secret = att[t].secret
  /\ entry.ver = att[t].ver
  /\ Admissible(att[t].snapSerial, att[t].force, att[t].expected)

\* Under the plan, secret and publication locks: publish_prepared_snapshot_for_transfer
MayPublish(t) ==
  /\ plan.gen = att[t].plan
  /\ secret = att[t].secret
  /\ entry.ver = att[t].ver
  /\ Admissible(att[t].snapSerial, att[t].force, att[t].expected)

PublishPrepared(t) ==
  /\ att[t].pc = "prepared"
  /\ MayPublish(t)
  /\ used.ver < MaxVer
  /\ used' = [used EXCEPT !.ver = @ + 1]
  /\ entry' = [state |-> "Active", ver |-> used.ver + 1, snap |-> used.ver + 1,
               serial |-> att[t].snapSerial, by |-> att[t].life, root |-> att[t].root,
               life |-> IF entry.state = "Absent" THEN att[t].life ELSE entry.life,
               bornExpired |-> FALSE, freshAt |-> clock, acked |-> FALSE]
  /\ att' = [att EXCEPT ![t] = [Ending(t, "published") EXCEPT !.ver = used.ver + 1]]
  /\ UNCHANGED <<clock, secret, plan, status, owner, queue, sched, recon, life>>

PublishObsolete(t) ==
  /\ att[t].pc = "prepared"
  /\ ~MayPublish(t)
  /\ DiscardObsolete(t)

\* The durable commit fails, so nothing is published
PromoteFails(t) ==
  /\ att[t].pc = "prepared"
  /\ MayPublish(t)
  /\ IF att[t].via = "ixfr" THEN TryAxfr(t) ELSE NextPrimary(t)
  /\ UNCHANGED <<clock, secret, plan, entry, status, owner, queue, sched, recon, life, used>>

\* An IXFR answered "current", or every primary was asked and some held the same serial:
\* take the snapshot to confirm.  Its freshness is renewed on disk without any lock.
StartConfirm(t) ==
  /\ \/ /\ att[t].pc = "ixfr"
        /\ att' = [att EXCEPT ![t].pc = "confirm"]
     \/ /\ att[t].pc = "poll" /\ ~PrimaryLeft(t) /\ att[t].equal /\ ~att[t].newer
        /\ entry.serial = att[t].serial
        /\ att' = [att EXCEPT ![t].pc = "confirm", ![t].via = "soa", ![t].ver = entry.snap,
                              ![t].snapSerial = entry.serial]
  /\ UNCHANGED <<clock, secret, plan, entry, status, owner, queue, sched, recon, life, used>>

\* The confirmation finds its snapshot gone, or could not renew its freshness on disk
ConfirmFails(t) ==
  /\ att[t].pc = "confirm"
  /\ \/ att[t].via = "ixfr" /\ TryAxfr(t)
     \/ /\ att[t].via = "soa"
        /\ att' = [att EXCEPT ![t].pc = "poll", ![t].equal = FALSE, ![t].ver = 0,
                              ![t].snapSerial = NoSerial]
  /\ UNCHANGED <<clock, secret, plan, entry, status, owner, queue, sched, recon, life, used>>

ConfirmStale(t) ==
  /\ att[t].pc = "confirm"
  /\ \/ plan.gen # att[t].plan
     \/ secret # att[t].secret
     \/ status.gen # att[t].gen
  /\ DiscardObsolete(t)

\* Under the plan, secret, status and publication locks: activate_zone_if_snapshot and
\* the new deadlines are one transaction
ConfirmCurrent(t) ==
  /\ att[t].pc = "confirm"
  /\ plan.gen = att[t].plan /\ secret = att[t].secret /\ status.gen = att[t].gen
  /\ entry.snap = att[t].ver /\ entry.state \in {"Active", "Expired"}
  /\ \/ /\ entry.state = "Active"
        /\ entry' = [entry EXCEPT !.freshAt = clock, !.acked = TRUE]
        /\ UNCHANGED used
     \/ /\ entry.state = "Expired" /\ used.ver < MaxVer
        /\ used' = [used EXCEPT !.ver = @ + 1]
        /\ entry' = [entry EXCEPT !.state = "Active", !.ver = used.ver + 1,
                       !.snap = IF entry.bornExpired THEN used.ver + 1 ELSE @,
                       !.bornExpired = FALSE, !.freshAt = clock, !.acked = TRUE]
  /\ \E d \in RefreshDelays : status' = Succeeded(att[t].gen, 0, d, TRUE)
  /\ att' = [att EXCEPT ![t] = Ending(t, "confirmed")]
  /\ UNCHANGED <<clock, secret, plan, owner, queue, sched, recon, life>>

\* acknowledge_refresh_before_maintenance looks at the plan ...
AcknowledgeCheck(t) ==
  /\ att[t].pc \in {"published", "confirmed"}
  /\ plan.gen = att[t].plan
  /\ att' = [att EXCEPT ![t].pc = IF att[t].pc = "published" THEN "acking" ELSE "finishing"]
  /\ UNCHANGED <<clock, secret, plan, entry, status, owner, queue, sched, recon, life, used>>

\* ... and records the success of a published transfer on the attempt's own status
Acknowledge(t) ==
  /\ att[t].pc = "acking"
  /\ status.gen = att[t].gen
  /\ \E d \in RefreshDelays : status' = Succeeded(att[t].gen, 0, d, TRUE)
  /\ entry' = IF entry.snap = att[t].ver THEN [entry EXCEPT !.acked = TRUE] ELSE entry
  /\ att' = [att EXCEPT ![t] = Ending(t, "finishing")]
  /\ UNCHANGED <<clock, secret, plan, owner, queue, sched, recon, life, used>>

\* Neither happened: the attempt is dropped
NotAcknowledged(t) ==
  /\ \/ att[t].pc \in {"published", "confirmed"} /\ plan.gen # att[t].plan
     \/ att[t].pc = "acking" /\ status.gen # att[t].gen
  /\ DropAttempt(t)

\* ZoneRefreshAttempt::finish, once the maintenance is done
FinishAttempt(t) ==
  /\ att[t].pc = "finishing"
  /\ Release(t)
  /\ status' = IF status.gen = att[t].gen THEN [status EXCEPT !.inProgress = FALSE] ELSE status
  /\ UNCHANGED <<clock, secret, plan, entry, queue, sched, recon, life, used>>

\* Every primary was asked in vain: the zone's metadata is read ...
FailAttempt(t) ==
  /\ att[t].pc = "poll" /\ ~PrimaryLeft(t)
  /\ ~(att[t].equal /\ ~att[t].newer /\ entry.serial = att[t].serial)
  /\ att' = [att EXCEPT ![t] = [Ending(t, "failing") EXCEPT !.seen = entry.state]]
  /\ UNCHANGED <<clock, secret, plan, entry, status, owner, queue, sched, recon, life, used>>

\* The delay after a failure: the initial back-off for a zone in LOADING, the SOA retry for one
\* that has been loaded, either for one that is gone (the timers its status has kept decide)
FailureDelays(seen) ==
  {d \in InitialDelays : seen \in {"Loading", "Absent"}} \cup {d \in RetryDelays : seen # "Loading"}

\* ... and record_failure uses it under the status lock
RecordFailure(t) ==
  /\ att[t].pc = "failing"
  /\ Release(t)
  /\ \/ /\ status.gen = att[t].gen
        /\ \E d \in FailureDelays(att[t].seen), expired \in BOOLEAN :
             /\ expired = IF att[t].seen = "Absent" THEN status.expired
                          ELSE att[t].seen = "Expired"
             /\ status' = [status EXCEPT !.inProgress = FALSE, !.nextRefresh = clock + d,
                                         !.expired = expired]
     \/ status.gen # att[t].gen /\ UNCHANGED status
  /\ UNCHANGED <<clock, secret, plan, entry, queue, sched, recon, life, used>>

(***************************************************************************)
(* serve_scheduled_refreshes                                               *)
(***************************************************************************)

ExpiryDue(gen, now) ==
  /\ status.gen # 0 /\ status.gen = gen
  /\ ~status.expired
  /\ status.expireAt # 0 /\ status.expireAt <= now

\* The scheduler is done with expiry and goes on with the time of its tick
DueCheck == [SchedIdle EXCEPT !.pc = "starting", !.now = sched.now]

\* Each tick first collects the due zones ...
ExpiryCollect ==
  /\ sched.pc = "idle"
  /\ sched' = IF ExpiryDue(status.gen, clock)
                THEN [SchedIdle EXCEPT !.pc = "collected", !.now = clock, !.gen = status.gen]
                ELSE [SchedIdle EXCEPT !.pc = "starting", !.now = clock]
  /\ UNCHANGED <<clock, secret, plan, entry, status, owner, att, queue, recon, life, used>>

\* ... captures the exact snapshot of each ...
ExpiryCapture ==
  /\ sched.pc = "collected"
  /\ sched' = IF entry.state = "Absent" THEN DueCheck
              ELSE [sched EXCEPT !.pc = "captured", !.snap = entry.snap]
  /\ UNCHANGED <<clock, secret, plan, entry, status, owner, att, queue, recon, life, used>>

\* ... looks at the candidate again ...
ExpiryRecheck ==
  /\ sched.pc = "captured"
  /\ sched' = IF ExpiryDue(sched.gen, sched.now) THEN [sched EXCEPT !.pc = "expiring"]
              ELSE DueCheck
  /\ UNCHANGED <<clock, secret, plan, entry, status, owner, att, queue, recon, life, used>>

\* Mutants: the decision is not looked at again, or the entry is compared instead of its snapshot
MayExpireUnchecked == entry.state \notin {"Absent", "Expired"} /\ entry.snap = sched.snap

MayExpireSameEntry ==
  /\ ExpiryDue(sched.gen, sched.now)
  /\ entry.state \notin {"Absent", "Expired"}
  /\ entry.ver = sched.snap

\* What ExpirePublish requires under the status lock: the third look at the candidate, and
\* expire_zone_if_snapshot's comparison
MayExpire ==
  /\ ExpiryDue(sched.gen, sched.now)
  /\ entry.state \notin {"Absent", "Expired"}
  /\ entry.snap = sched.snap

\* ... and publishes EXPIRED together with the status.  (No bound: an expiry needs a zone
\* that was published or confirmed since the last one.)
ExpirePublish ==
  /\ sched.pc = "expiring"
  /\ sched' = DueCheck
  /\ \/ /\ MayExpire
        /\ used' = [used EXCEPT !.ver = @ + 1]
        /\ entry' = [entry EXCEPT !.state = "Expired", !.ver = used.ver + 1]
        /\ status' = [status EXCEPT !.expired = TRUE]
     \/ ~MayExpire /\ UNCHANGED <<entry, status, used>>
  /\ UNCHANGED <<clock, secret, plan, owner, att, queue, recon, life>>

\* Then start_due_refreshes_bounded marks the zone if it is due ...
StartDue ==
  /\ sched.pc = "starting"
  /\ LET due == /\ status.gen # 0 /\ ~status.inProgress
                /\ status.nextRefresh # 0 /\ status.nextRefresh <= sched.now
     IN  /\ status' = IF due THEN [status EXCEPT !.inProgress = TRUE] ELSE status
         /\ sched' = IF due THEN [SchedIdle EXCEPT !.pc = "sending"] ELSE SchedIdle
  /\ UNCHANGED <<clock, secret, plan, entry, owner, att, queue, recon, life, used>>

\* ... and sends the request, or takes the mark back (no plan, or no room)
SendDue ==
  /\ sched.pc = "sending"
  /\ sched' = SchedIdle
  /\ \/ plan.gen # 0 /\ Enqueue("Scheduled", 0) /\ UNCHANGED status
     \/ /\ plan.gen = 0 \/ LossyQueue \/ Cardinality(queue) >= MaxQueue
        /\ queue' = queue
        /\ status' = IF status.gen = 0 THEN status ELSE [status EXCEPT !.inProgress = FALSE]
  /\ UNCHANGED <<clock, secret, plan, entry, owner, att, recon, life, used>>

(***************************************************************************)
(* CatalogManager::apply_parsed_snapshot, for this member                  *)
(***************************************************************************)

Reconciling(pc) == recon' = [recon EXCEPT !.pc = pc]

\* The reconciliation is over; whether a cached copy is left is all that remains of it
Reconciled == recon' = [ReconIdle EXCEPT !.cached = recon.cached]

\* Its last step hands over the catalog refresh, with the generation captured when the plan
\* was inserted.  send() waits for room, and the next reconciliation does not wait for it.
SendCatalogRefresh(gen) ==
  queue' = queue \cup {[kind |-> "Catalog", plan |-> gen, ngen |-> 0]}

\* A new catalog version is reconciled: it adds, removes or renames the member, or changes
\* its transfer policy.  (One that leaves the member alone changes nothing.)
ReconcileStart ==
  /\ Catalogued
  /\ recon.pc = "idle"
  /\ \E what \in {"add", "remove", "rename", "policy"} :
       /\ (what = "add") = (plan.gen = 0)
       /\ what # "remove" => used.plan < MaxPlan
       /\ recon' = [recon EXCEPT !.what = what,
                    !.pc = IF what \in {"remove", "rename"} THEN "removePlan" ELSE "insertPlan"]
  /\ UNCHANGED <<clock, secret, plan, entry, status, owner, att, queue, sched, life, used>>

\* transfer_plan.remove cancels the plan's attempts (the cached copy goes with it) ...
ReconcileRemovePlan ==
  /\ recon.pc = "removePlan"
  /\ plan' = NoPlan
  /\ life' = life + 1
  /\ recon' = [recon EXCEPT !.pc = "removeStatus", !.cached = FALSE]
  /\ UNCHANGED <<clock, secret, entry, status, owner, att, queue, sched, used>>

\* ... and refresh_registry.remove_zone drops the status
ReconcileRemoveStatus ==
  /\ recon.pc = "removeStatus"
  /\ status' = NoStatus
  /\ Reconciling(IF recon.what = "remove" THEN "directory" ELSE "insertPlan")
  /\ UNCHANGED <<clock, secret, plan, entry, owner, att, queue, sched, life, used>>

\* insert_preserving_generation_if_unchanged, for a plan of another shape
ReconcileInsertPlan ==
  /\ recon.pc = "insertPlan"
  /\ used' = [used EXCEPT !.plan = @ + 1]
  /\ plan' = [gen |-> used.plan + 1, life |-> life]
  /\ \/ recon.what = "policy" /\ Reconciled /\ SendCatalogRefresh(used.plan + 1)
     \/ recon.what # "policy" /\ Reconciling("loading") /\ UNCHANGED queue
  /\ UNCHANGED <<clock, secret, entry, status, owner, att, sched, life>>

\* A member that is added comes back from the cache: insert_restored_snapshot ...
ReconcileRestore ==
  /\ recon.pc = "loading" /\ recon.cached
  /\ used.ver < MaxVer
  /\ used' = [used EXCEPT !.ver = @ + 1]
  /\ \E s \in Offered, age \in 0 .. clock - 1 :
       /\ entry' = Restored(used.ver + 1, s, age, life)
       /\ recon' = [recon EXCEPT !.pc = "restored", !.freshAt = clock - age]
  /\ UNCHANGED <<clock, secret, plan, status, owner, att, queue, sched, life>>

\* ... then its deadlines are counted from when it was last fresh
ReconcileRestoredStatus ==
  /\ recon.pc = "restored"
  /\ used.gen < MaxGen
  /\ LET gen == IF status.gen = 0 THEN used.gen + 1 ELSE status.gen
     IN  /\ \E d \in RefreshDelays :
              status' = Succeeded(gen, clock - recon.freshAt, d, FALSE)
         /\ used' = [used EXCEPT !.gen = IF status.gen = 0 THEN gen ELSE @]
  /\ Reconciled
  /\ SendCatalogRefresh(plan.gen)
  /\ UNCHANGED <<clock, secret, plan, entry, owner, att, sched, life>>

\* Nothing is cached, or it is rejected: record_loading_start, which leaves an existing
\* status alone
ReconcileLoadingStart ==
  /\ recon.pc = "loading"
  /\ \/ status.gen # 0 /\ UNCHANGED <<status, used>>
     \/ /\ status.gen = 0 /\ used.gen < MaxGen
        /\ used' = [used EXCEPT !.gen = @ + 1]
        /\ status' = [NoStatus EXCEPT !.gen = used.gen + 1]
  /\ Reconciling("directory")
  /\ UNCHANGED <<clock, secret, plan, entry, owner, att, queue, sched, life>>

\* apply_atomic_directory_update: removals, then LOADING entries, in one publication.  A
\* LOADING entry keeps the incarnation of the entry it replaces, if one is left.
ReconcileDirectory ==
  /\ recon.pc = "directory"
  /\ \/ /\ recon.what = "remove"
        /\ entry' = NoEntry
        /\ UNCHANGED <<used, queue>>
     \/ /\ recon.what # "remove" /\ used.ver < MaxVer
        /\ used' = [used EXCEPT !.ver = @ + 1]
        /\ entry' = [NoEntry EXCEPT !.state = "Loading", !.ver = used.ver + 1,
                       !.snap = used.ver + 1,
                       !.life = IF recon.what = "add" /\ entry.state # "Absent"
                                  THEN entry.life ELSE life]
        /\ SendCatalogRefresh(plan.gen)
  /\ Reconciled
  /\ UNCHANGED <<clock, secret, plan, status, owner, att, sched, life>>

\* hide_zone, show_zone and overlay compaction replace the entry, not its snapshot
ReplaceEntry ==
  /\ entry.state = "Active" /\ used.ver < MaxVer
  /\ used' = [used EXCEPT !.ver = @ + 1]
  /\ entry' = [entry EXCEPT !.ver = used.ver + 1]
  /\ UNCHANGED <<clock, secret, plan, status, owner, att, queue, sched, recon, life>>

-----------------------------------------------------------------------------

Attempt(t) ==
  \/ BeginAttempt(t) \/ StartLoop(t) \/ StartStale(t) \/ Cancelled(t) \/ PollPrimary(t)
  \/ IxfrFails(t) \/ TransferFails(t) \/ Prepare(t)
  \/ PublishPrepared(t) \/ PublishObsolete(t) \/ PromoteFails(t)
  \/ StartConfirm(t) \/ ConfirmFails(t) \/ ConfirmStale(t) \/ ConfirmCurrent(t)
  \/ AcknowledgeCheck(t) \/ Acknowledge(t) \/ NotAcknowledged(t) \/ FinishAttempt(t)
  \/ FailAttempt(t) \/ RecordFailure(t)

Scheduler ==
  \/ ExpiryCollect \/ ExpiryCapture \/ ExpiryRecheck \/ ExpirePublish \/ StartDue \/ SendDue

Reconcile ==
  \/ ReconcileStart \/ ReconcileRemovePlan \/ ReconcileRemoveStatus \/ ReconcileInsertPlan
  \/ ReconcileRestore \/ ReconcileRestoredStatus
  \/ ReconcileLoadingStart \/ ReconcileDirectory

Environment ==
  \/ Tick \/ ReloadSecrets \/ Notify \/ ControlPlaneRetry \/ DropFromQueue \/ ReplaceEntry

Next ==
  \/ Environment
  \/ Dispatch \/ BeginStale
  \/ \E t \in Tasks : Attempt(t) \/ Interrupt(t)
  \/ Scheduler
  \/ Reconcile

Spec == Init /\ [][Next]_vars

(***************************************************************************)
(* Fairness: the scheduler ticks forever, the runtime polls every runnable *)
(* task (transfers have timeouts, so every wait on the network ends), and  *)
(* a reconciliation runs to its end.                                       *)
(***************************************************************************)
Fairness ==
  /\ WF_vars(Scheduler)
  /\ WF_vars(Dispatch \/ BeginStale)
  /\ \A t \in Tasks : WF_vars(Attempt(t))
  /\ WF_vars(Reconcile /\ recon.pc # "idle")

FairSpec == Spec /\ Fairness

(***************************************************************************)
(* Properties                                                              *)
(***************************************************************************)

EntryStates == {"Absent", "Loading", "Active", "Expired"}
EarlyPcs == {"begin", "started", "poll", "ixfr", "axfr", "prepared", "confirm"}
AttemptPcs == EarlyPcs \cup {"idle", "published", "confirmed", "acking", "finishing", "failing"}
MaybeSerials == Serials \cup {NoSerial}

Plans == [gen : Nat, life : Nat]
Entries ==
  [state : EntryStates, ver : Nat, snap : Nat, serial : MaybeSerials, bornExpired : BOOLEAN,
   life : Nat, by : Nat, root : Nat, freshAt : Int, acked : BOOLEAN]
Statuses ==
  [gen : Nat, expireAt : Int, nextRefresh : Int, inProgress : BOOLEAN, expired : BOOLEAN]
Attempts ==
  [pc : AttemptPcs, plan : Nat, life : Nat, ngen : Nat, secret : Nat, gen : Nat,
   created : BOOLEAN, left : 0 .. Primaries, equal : BOOLEAN, newer : BOOLEAN,
   force : BOOLEAN, serial : MaybeSerials, via : {"soa", "ixfr", "axfr"}, ver : Nat,
   snapSerial : MaybeSerials, root : Nat, expected : MaybeSerials, seen : EntryStates]
Requests == [kind : {"Notify", "ControlPlane", "Scheduled", "Catalog"}, plan : Nat, ngen : Nat]
SchedStates ==
  [pc : {"idle", "collected", "captured", "expiring", "starting", "sending"},
   now : Nat, gen : Nat, snap : Nat]
ReconStates ==
  [pc : {"idle", "removePlan", "removeStatus", "insertPlan", "loading", "restored",
         "directory"},
   what : {"add", "remove", "rename", "policy"}, cached : BOOLEAN, freshAt : Int]

\* Types of the lifecycle state.
TypeOK ==
  /\ clock \in Nat /\ secret \in Nat /\ life \in Nat
  /\ plan \in Plans
  /\ entry \in Entries
  /\ status \in Statuses
  /\ owner \in Tasks \cup {NoTask}
  /\ att \in [Tasks -> Attempts]
  /\ queue \subseteq Requests
  /\ sched \in SchedStates
  /\ recon \in ReconStates
  /\ used \in [plan : Nat, gen : Nat, ver : Nat]

\* A member the catalog has removed is not served again: no attempt, confirmation or expiry
\* that was under way puts its entry back into the directory (publish_prepared_snapshot,
\* activate_zone_if_snapshot and expire_zone_if_snapshot against apply_parsed_snapshot).
NoResurrection ==
  recon.pc = "idle" /\ plan.gen = 0 => entry.state = "Absent"

\* What is served in one catalog life of a zone was fetched for a plan of that life or a
\* later one: an attempt that outlives remove/re-add never publishes into the replacement.
PublishedByOwnLife ==
  entry.state = "Active" => entry.by >= entry.life

\* Why NoResurrection, PublishedByOwnLife and SerialAdvances hold: an inductive invariant.
\* The plan belongs to the current catalog life, and only a reconciliation may leave an
\* entry without a plan.
PlanInv ==
  /\ plan.gen <= used.plan
  /\ plan.gen # 0 => plan.life = life
  /\ recon.pc \in {"loading", "restored"} => plan.gen # 0
  /\ recon.pc = "directory" /\ recon.what # "remove" => plan.gen # 0
  /\ plan.gen = 0 /\ entry.state # "Absent"
       => recon.pc \in {"removeStatus", "insertPlan", "directory"}

\* The identities in the entry were handed out, and its content belongs to its life.
EntryInv ==
  /\ entry.ver <= used.ver /\ entry.snap <= used.ver
  /\ entry.life <= life
  /\ entry.ver = 0 => entry.serial = NoSerial
  /\ entry.state = "Active" => entry.serial # NoSerial
  /\ entry.serial # NoSerial => entry.snap # 0 /\ entry.by >= entry.life

\* What an attempt has captured still identifies what it was captured from.
AttemptInv(t) ==
  /\ att[t].pc # "idle" => att[t].plan # 0 /\ att[t].plan <= used.plan
  /\ att[t].pc \in EarlyPcs /\ att[t].plan = plan.gen => att[t].life = plan.life
  /\ att[t].pc \in {"begin", "started"} => ~att[t].equal
  /\ att[t].pc \in EarlyPcs /\ att[t].equal => att[t].serial # NoSerial
  /\ att[t].pc \in {"ixfr", "confirm"} =>
       /\ att[t].ver # 0 /\ att[t].ver <= used.ver
       /\ att[t].ver = entry.snap => entry.serial # NoSerial
  /\ att[t].pc = "prepared" =>
       /\ att[t].ver <= used.ver
       /\ att[t].ver = entry.ver => att[t].expected = entry.serial
       /\ att[t].ver = 0 => att[t].expected = NoSerial
       /\ att[t].snapSerial # NoSerial

\* Nothing but the reconciliation knows of the member.
Untouched ==
  /\ entry = NoEntry /\ status.gen = 0 /\ queue = {} /\ sched.pc # "sending"
  /\ \A t \in Tasks : att[t].pc = "idle"

\* A cached copy is restored only for a member nothing else knows of yet.
CacheInv ==
  /\ recon.pc \in {"removePlan", "removeStatus"} => recon.what \in {"remove", "rename"}
  /\ recon.pc = "removeStatus" => ~recon.cached
  /\ recon.pc = "insertPlan" => \/ recon.what = "add" /\ plan.gen = 0
                                \/ recon.what = "rename" /\ ~recon.cached
                                \/ recon.what = "policy"
  /\ recon.cached /\ (plan.gen = 0 \/ recon.pc = "loading") => Untouched

LifeInv ==
  /\ PlanInv /\ EntryInv /\ CacheInv
  /\ \A t \in Tasks : AttemptInv(t)

\* Within one incarnation the served serial only advances, in RFC 1982 order, whatever
\* transfers, confirmations, expiries and directory updates interleave.
SerialAdvances ==
  [][ /\ entry.serial # NoSerial /\ entry'.serial # NoSerial
      /\ entry'.life = entry.life
      => entry'.serial = entry.serial \/ SerialAfter(entry'.serial, entry.serial) ]_vars

\* Once a success is recorded for what is served, the zone is not expired before SOA EXPIRE
\* has passed since a primary last vouched for it, even by a scheduler that collected the
\* zone, or captured its snapshot, before that success.
AckedExpiry ==
  [][ entry.state = "Active" /\ entry.acked /\ entry'.state = "Expired"
      => clock >= entry.freshAt + ExpireAfter ]_vars

\* A zone that is served can expire: it has a refresh status whenever no reconciliation is
\* under way (discard_obsolete never leaves an ACTIVE zone without one).
ActiveHasStatus ==
  recon.pc = "idle" /\ entry.state = "Active" => status.gen # 0

\* An ACTIVE zone whose status still says "expired" (its publication was not acknowledged)
\* is about to be refreshed, so that its expiry is armed again.
ExpiryRearmed ==
  entry.state = "Active" /\ status.gen # 0 /\ status.expired
    => owner # NoTask \/ (status.nextRefresh # 0 /\ status.nextRefresh <= clock)

\* A refresh success leaves the zone ACTIVE: while the status says that the zone is fresh,
\* the directory does not say that it has expired (BDS-FR-ZSM-004).
SuccessIsActive ==
  status.gen # 0 /\ ~status.expired /\ status.expireAt > clock => entry.state # "Expired"

\* A refresh that is due is attempted, unless the catalog removes or resets the zone.
DueIsAttempted ==
  (status.gen # 0 /\ plan.gen # 0 /\ status.nextRefresh # 0 /\ status.nextRefresh <= clock)
    ~> (owner # NoTask \/ status.gen = 0 \/ plan.gen = 0)

\* A zone whose SOA EXPIRE has passed stops being served, unless a success is recorded.
DueIsExpired ==
  (entry.state = "Active" /\ status.gen # 0 /\ ~status.expired /\ status.expireAt <= clock)
    ~> (entry.state # "Active" \/ status.gen = 0 \/ status.expireAt > clock)
=============================================================================
