------------------------------ MODULE AfXdpQueue ------------------------------
(***************************************************************************)
(* One AF_XDP queue: the worker loop of udp.rs (serve_udp_packet_io_until) *)
(* over the packet I/O of af_xdp.rs, and the driver that shares four rings *)
(* of UMEM frames with it.                                                 *)
(*                                                                         *)
(* A frame is handed from place to place; every place is a set of its own, *)
(* so that a frame lost or handed out twice shows.  A step of the worker   *)
(* is what happens between two ring operations, system calls or awaits.    *)
(* What a datagram holds and what answers it are left out: a received      *)
(* frame is admitted or not, an admitted one is answered or not.           *)
(***************************************************************************)
EXTENDS Integers, FiniteSets, FiniteSetsExt

CONSTANTS
    Frames,          \* the UMEM frames
    FillSize,        \* fill_ring_size
    TxSize,          \* tx_ring_size
    CompletionSize,  \* completion_ring_size
    RxSize,          \* rx_ring_size
    BatchSize,       \* the effective batch size
    RxDrainPasses,   \* rx_drain_passes
    KickAttempts,    \* RING_KICK_MAX_RECOVERY_ATTEMPTS
    RxAllocation,    \* frames the driver takes from the FILL ring at a time
    Conditional      \* feature experimental-xdp-conditional-wakeup

\* prepare_xdp_config, bind_all: a batch fits each ring it passes through.  A driver that
\* fills its queue in larger steps than half the FILL ring is not supported.
ASSUME RingAssumption ==
    /\ IsFiniteSet(Frames)
    /\ {FillSize, TxSize, CompletionSize, RxSize, BatchSize} \subseteq Nat \ {0}
    /\ {RxDrainPasses, KickAttempts, RxAllocation} \subseteq Nat \ {0}
    /\ BatchSize <= RxSize /\ BatchSize <= TxSize /\ BatchSize <= CompletionSize
    /\ 2 * RxAllocation <= FillSize
    /\ Conditional \in BOOLEAN

VARIABLES
    mem,          \* where every frame is
    txKick,       \* tx_kick_pending
    fillKick,     \* fill_kick_pending
    txDriver, fillDriver,   \* what the driver does about the TX and the FILL ring
    worker,       \* the task that owns the queue
    open          \* admission_open

vars == <<mem, txKick, fillKick, txDriver, fillDriver, worker, open>>
kicks == <<txKick, fillKick>>
drivers == <<txDriver, fillDriver>>

Places == {"free",        \* umem: available to the worker
           "fill",        \* FILL ring
           "hw",          \* receive buffers of the driver
           "rx",          \* RX ring
           "slab",        \* recv_slab: dequeued, not yet looked at
           "held",        \* frames: admitted, to be answered
           "staged",      \* tx_slab: answered, not yet in the TX ring
           "tx",          \* TX ring
           "completion"}  \* COMPLETION ring

\* The driver polls a ring, has set the needs-wakeup flag but not yet looked at the ring
\* again, or sleeps until a kick.
DriverStates == {"polling", "flagged", "asleep"}
NeedsWakeup(state) == state # "polling"

\* Where the worker is, where it goes on after a kick and after a refill, the attempts of
\* the kick and whether one lost a descriptor, the passes of a receive, and the frames a
\* refill asks for and gets.
Idle == [at |-> "top", next |-> "top", then |-> "top", tries |-> 0, lossy |-> FALSE,
         passes |-> 0, request |-> 0, queued |-> 0]

At(place) == worker.at = place
Goto(place) == worker' = [worker EXCEPT !.at = place]
Move(m, from, to, S) == [m EXCEPT ![from] = @ \ S, ![to] = @ \union S]
Empty(m, from) == Move(m, from, "free", m[from])

-----------------------------------------------------------------------------
(* bind_queue: the FILL ring is populated and kicked; a transient error    *)
(* leaves the kick to the first receive.                                   *)
Init ==
    /\ \E S \in kSubset(Min({FillSize, Cardinality(Frames)}), Frames) :
          mem = [p \in Places |-> IF p = "fill" THEN S ELSE IF p = "free" THEN Frames \ S ELSE {}]
    /\ txKick = FALSE /\ fillKick \in BOOLEAN
    /\ txDriver = "asleep" /\ fillDriver = IF fillKick THEN "asleep" ELSE "polling"
    /\ worker = Idle /\ open = TRUE

-----------------------------------------------------------------------------
(* The driver and the network.                                             *)

(* Receive buffers: the driver takes a whole allocation from the FILL      *)
(* ring, or sets the flag, looks at the ring once more and sleeps.         *)
DriverFill ==
    /\ \/ /\ fillDriver = "polling" /\ Cardinality(mem.fill) >= RxAllocation
          /\ \E S \in kSubset(RxAllocation, mem.fill) : mem' = Move(mem, "fill", "hw", S)
          /\ UNCHANGED fillDriver
       \/ /\ fillDriver = "polling" /\ Cardinality(mem.fill) < RxAllocation
          /\ fillDriver' = "flagged" /\ UNCHANGED mem
       \/ /\ fillDriver = "flagged"
          /\ fillDriver' = IF Cardinality(mem.fill) >= RxAllocation THEN "polling" ELSE "asleep"
          /\ UNCHANGED mem
    /\ UNCHANGED <<kicks, txDriver, worker, open>>

(* A datagram arrives; its interrupt makes the driver look at the FILL     *)
(* ring.                                                                   *)
DriverReceive ==
    /\ Cardinality(mem.rx) < RxSize
    /\ \E f \in mem.hw : mem' = Move(mem, "hw", "rx", {f})
    /\ fillDriver' = "polling"
    /\ UNCHANGED <<kicks, txDriver, worker, open>>

(* A descriptor taken from the TX ring ends in the COMPLETION ring; a      *)
(* driver that finds that ring full goes on polling.                       *)
DriverTransmit ==
    /\ \/ /\ txDriver = "polling" /\ Cardinality(mem.completion) < CompletionSize
          /\ \E f \in mem.tx : mem' = Move(mem, "tx", "completion", {f})
          /\ UNCHANGED txDriver
       \/ /\ txDriver = "polling" /\ mem.tx = {}
          /\ txDriver' = "flagged" /\ UNCHANGED mem
       \/ /\ txDriver = "flagged"
          /\ txDriver' = IF mem.tx # {} THEN "polling" ELSE "asleep"
          /\ UNCHANGED mem
    /\ UNCHANGED <<kicks, fillDriver, worker, open>>

\* Shutdown closes admission.
Close == open /\ open' = FALSE /\ UNCHANGED <<mem, kicks, drivers, worker>>

-----------------------------------------------------------------------------
(* What the worker does with frames between two steps.                     *)

(* drain_completions_into.                                                 *)
DrainCompletions(m) == Empty(m, "completion")

DrainWholeBatch(m) ==   \* a mutant: the admitted part of the batch is recycled too
    [Empty(m, "staged") EXCEPT !.free = @ \union m.tx]

(* drain_tx_slab_to_umem: what no ring has admitted.                       *)
DrainTxSlab(m) == Empty(m, "staged")

(* release_unsent_frames.                                                  *)
ReleaseUnsentFrames(m) == Empty(m, "held")

(* recycle_received_packets.                                               *)
RecycleReceived(m) == Empty(m, "slab")

\* service_tx_kick: a pending kick first makes room in the COMPLETION ring.
ServiceTxKick(m, pending, next) ==
    /\ mem' = IF pending THEN DrainCompletions(m) ELSE m
    /\ worker' = [worker EXCEPT !.at = IF pending THEN "tx" ELSE next, !.next = next,
                                !.tries = 0, !.lossy = FALSE]

ServiceFillKick(pending, next) ==
    worker' = [worker EXCEPT !.at = IF pending THEN "fill" ELSE next, !.next = next,
                             !.tries = 0, !.lossy = FALSE]

\* replenish_fill_ring: an earlier wake is finished first.
ReplenishFillRing(then, passes) ==
    worker' = [worker EXCEPT !.at = IF fillKick THEN "fill" ELSE "refill", !.next = "refill",
                             !.then = then, !.tries = 0, !.lossy = FALSE, !.passes = passes,
                             !.request = FillSize]

-----------------------------------------------------------------------------
(* service_pending_ring_kick.  The kicks of send_batch do not look at      *)
(* admission_open: only the deadline of the shutdown drops them, where     *)
(* they wait.                                                              *)
Sending == worker.next \in {"prepare", "sent"} \/ (At("fill") /\ worker.then = "top")

\* An error returns to the loop, which goes on unless it does not know the error; a send
\* first recycles what it has staged.
ReturnError(m) ==
    /\ mem' = DrainTxSlab(m)
    /\ \E to \in {"top", "failed"} : Goto(to)

\* The attempts of one call are bounded; the kick stays pending beyond them.
TryAgain(m, lossy) ==
    IF worker.tries + 1 >= KickAttempts
    THEN mem' = DrainTxSlab(m) /\ Goto("top")
    ELSE mem' = m /\ worker' = [worker EXCEPT !.tries = @ + 1, !.lossy = lossy]

ServicePendingTxKickForgetful ==   \* a mutant: the kick is only pending until it is tried
    /\ At("tx") /\ (open \/ Sending)
    /\ \/ txDriver' = "polling" /\ Goto(worker.next) /\ UNCHANGED mem
       \/ TryAgain(DrainCompletions(mem), worker.lossy) /\ UNCHANGED txDriver
    /\ txKick' = FALSE
    /\ UNCHANGED <<fillKick, fillDriver, open>>

(* A TX kick wakes the driver; fails for now, as it does when completions  *)
(* have no room; is refused by a driver that dropped a descriptor; or      *)
(* fails for good.  A success after a dropped descriptor reports the drop. *)
ServicePendingTxKick ==
    /\ At("tx") /\ (open \/ Sending)
    /\ \/ /\ Cardinality(mem.completion) < CompletionSize
          /\ txKick' = FALSE /\ txDriver' = "polling"
          /\ IF worker.lossy THEN mem' = DrainTxSlab(mem) /\ Goto("top")
                             ELSE UNCHANGED mem /\ Goto(worker.next)
       \/ TryAgain(DrainCompletions(mem), worker.lossy) /\ UNCHANGED <<txKick, txDriver>>
       \/ /\ Cardinality(mem.completion) < CompletionSize
          /\ \E f \in mem.tx :
                TryAgain(DrainCompletions(Move(mem, "tx", "completion", {f})), TRUE)
          /\ UNCHANGED <<txKick, txDriver>>
       \/ mem' = DrainTxSlab(mem) /\ Goto("failed") /\ UNCHANGED <<txKick, txDriver>>
    /\ UNCHANGED <<fillKick, fillDriver, open>>

(* A FILL kick has no lossy error.                                         *)
ServicePendingFillKick ==
    /\ At("fill") /\ (open \/ Sending)
    /\ \/ fillKick' = FALSE /\ fillDriver' = "polling" /\ Goto(worker.next) /\ UNCHANGED mem
       \/ TryAgain(mem, FALSE) /\ UNCHANGED <<fillKick, fillDriver>>
       \/ Goto("failed") /\ UNCHANGED <<mem, fillKick, fillDriver>>
    /\ UNCHANGED <<txKick, txDriver, open>>

\* Admission is closed: the loop returns from a cancelled kick, from a wait that the
\* shutdown drops, or at the deadline of a send.
Stop ==
    /\ ~open
    /\ At("tx") \/ At("fill") \/ At("dequeue") \/ At("full")
    /\ Goto("stopped")
    /\ UNCHANGED <<mem, kicks, drivers, open>>

-----------------------------------------------------------------------------
(* replenish_fill_ring, between its two kicks: one call of the ring's      *)
(* enqueue, which reserves all it is asked for, as far as frames are free, *)
(* or nothing; enqueue_fill_frames halves the request until one fits.      *)
Enqueue(n) == n > 0 /\ n <= FillSize - Cardinality(mem.fill)

RefillWhole ==   \* a mutant: the whole ring is asked for once
    /\ At("refill")
    /\ LET n == Min({worker.request, Cardinality(mem.free)})
       IN  \/ /\ Enqueue(n)
              /\ \E S \in kSubset(n, mem.free) : mem' = Move(mem, "free", "fill", S)
              /\ worker' = [worker EXCEPT !.at = "marking", !.queued = n]
           \/ /\ ~Enqueue(n) /\ UNCHANGED mem
              /\ worker' = [worker EXCEPT !.at = "marking", !.queued = 0]
    /\ UNCHANGED <<kicks, drivers, open>>

Refill ==
    /\ At("refill")
    /\ LET n == Min({worker.request, Cardinality(mem.free)})
       IN  \/ /\ Enqueue(n)
              /\ \E S \in kSubset(n, mem.free) : mem' = Move(mem, "free", "fill", S)
              /\ worker' = [worker EXCEPT !.at = "marking", !.queued = n]
           \/ /\ ~Enqueue(n) /\ worker.request > 0 /\ UNCHANGED mem
              /\ worker' = [worker EXCEPT !.request = @ \div 2]
           \/ /\ worker.request = 0 /\ UNCHANGED mem
              /\ worker' = [worker EXCEPT !.at = "marking", !.queued = 0]
    /\ UNCHANGED <<kicks, drivers, open>>

(* mark_ring_kick_pending, or mark_conditional_fill_kick, which looks at   *)
(* the flag whether or not something was enqueued.                         *)
MarkFill ==
    /\ At("marking")
    /\ fillKick' = (fillKick \/ IF Conditional THEN NeedsWakeup(fillDriver)
                                               ELSE worker.queued > 0)
    /\ ServiceFillKick(fillKick', worker.then)
    /\ UNCHANGED <<mem, txKick, drivers, open>>

-----------------------------------------------------------------------------
(* serve_udp_packet_io_until: the head of the loop.                        *)
Top ==
    /\ At("top")
    /\ IF open THEN ServiceTxKick(mem, txKick, "receive") ELSE Goto("stopped") /\ UNCHANGED mem
    /\ UNCHANGED <<kicks, drivers, open>>

(* recv_batch, up to its loop.                                             *)
Receive ==
    /\ At("receive")
    /\ mem' = DrainCompletions(ReleaseUnsentFrames(mem))
    /\ ReplenishFillRing("loop", 0)
    /\ UNCHANGED <<kicks, drivers, open>>

\* consume_received_packets: frames are admitted until the batch is full, the others of the
\* slab are recycled, what is behind a full batch stays in the slab.
Splits(m) ==
    {split \in [in : SUBSET m.slab, out : SUBSET m.slab] :
        /\ split.in \intersect split.out = {}
        /\ Cardinality(m.held \union split.in) <= BatchSize
        /\ \/ split.in # {} /\ Cardinality(m.held \union split.in) = BatchSize
           \/ split.in \union split.out = m.slab}

Consumed(m) ==
    {Move(Move(m, "slab", "held", split.in), "slab", "free", split.out) : split \in Splits(m)}

BatchFull(m) == Cardinality(m.held) = BatchSize

\* Admission closed under way: what was dequeued is recycled, what was admitted is answered.
CloseReceive(m) ==
    /\ mem' = RecycleReceived(m)
    /\ Goto(IF m.held # {} THEN "handle" ELSE "stopped")

(* The head of the loop of recv_batch: the tail that a full batch left in  *)
(* the slab comes before anything newer.                                   *)
ReceiveTail ==
    /\ At("loop")
    /\ \/ ~open /\ CloseReceive(mem)
       \/ /\ open /\ mem.slab # {}
          /\ \E m \in Consumed(mem) :
                /\ mem' = m
                /\ IF BatchFull(m) THEN ReplenishFillRing("handle", worker.passes)
                   ELSE IF m.held # {} THEN Goto("handle")
                   ELSE ReplenishFillRing("loop", worker.passes)
       \/ open /\ mem.slab = {} /\ Goto("dequeue") /\ UNCHANGED mem
    /\ UNCHANGED <<kicks, drivers, open>>

(* The rest of it: RX is dequeued, after a wait for readiness when nothing *)
(* is admitted yet; the edge may be a cached one.  Admission is looked at  *)
(* again before the frames are.                                            *)
Dequeue ==
    /\ At("dequeue")
    /\ \E S \in kSubset(Min({BatchSize, Cardinality(mem.rx)}), mem.rx) :
        LET taken == Move(mem, "rx", "slab", S)
            passes == worker.passes + (IF S = {} THEN 0 ELSE 1)
        IN  IF ~open THEN CloseReceive(taken)
            ELSE IF S = {} /\ mem.held # {} THEN Goto("handle") /\ UNCHANGED mem
            ELSE \E m \in Consumed(taken) :
                 /\ mem' = m
                 /\ IF BatchFull(m) THEN ReplenishFillRing("handle", passes)
                    ELSE IF passes < RxDrainPasses THEN ReplenishFillRing("loop", passes)
                    ELSE IF m.held # {} THEN Goto("handle")
                    ELSE ReplenishFillRing("loop", 0)
    /\ UNCHANGED <<kicks, drivers, open>>

-----------------------------------------------------------------------------
(* send_batch: the kick an earlier call left behind comes first.           *)
Handle ==
    /\ At("handle")
    /\ ServiceTxKick(mem, txKick, "prepare")
    /\ UNCHANGED <<kicks, drivers, open>>

(* prepare_tx_frames: answers are staged, every other frame is recycled;   *)
(* an answer that cannot be written ends the worker.                       *)
Prepare ==
    /\ At("prepare")
    /\ \/ \E S \in SUBSET mem.held :
             /\ mem' = ReleaseUnsentFrames(Move(mem, "held", "staged", S))
             /\ Goto(IF S = {} THEN "finish" ELSE "send")
       \/ mem' = ReleaseUnsentFrames(mem) /\ Goto("failed")
    /\ UNCHANGED <<kicks, drivers, open>>

Room == Min({Cardinality(mem.staged), TxSize - Cardinality(mem.tx)})

(* The TX ring admits what it has room for.                                *)
Send ==
    /\ At("send") \/ At("full")
    /\ Room > 0
    /\ \E S \in kSubset(Room, mem.staged) : mem' = Move(mem, "staged", "tx", S)
    /\ Goto("published")
    /\ UNCHANGED <<kicks, drivers, open>>

(* It may fail after it has admitted some, whose kick is then left to the  *)
(* next call; so may the wait for room.                                    *)
SendFails ==
    /\ At("send") \/ At("full")
    /\ \E n \in 0..Room : \E S \in kSubset(n, mem.staged) :
          /\ ReturnError(Move(mem, "staged", "tx", S))
          /\ txKick' = (txKick \/ n > 0)
    /\ UNCHANGED <<fillKick, drivers, open>>

(* A full TX ring: completions are drained and the worker waits for room.  *)
SendBlocks ==
    /\ At("send") /\ Room = 0
    /\ mem' = DrainCompletions(mem)
    /\ Goto("full")
    /\ UNCHANGED <<kicks, drivers, open>>

(* mark_successful_tx_publication: after the descriptors are visible.      *)
MarkTx ==
    /\ At("published")
    /\ txKick' = (txKick \/ ~Conditional \/ NeedsWakeup(txDriver))
    /\ ServiceTxKick(mem, txKick', "sent")
    /\ UNCHANGED <<fillKick, drivers, open>>

(* After the kick: completions are drained, the rest of the batch follows. *)
Sent ==
    /\ At("sent")
    /\ mem' = DrainCompletions(mem)
    /\ Goto(IF mem.staged = {} THEN "finish" ELSE "send")
    /\ UNCHANGED <<kicks, drivers, open>>

(* The end of send_batch.                                                  *)
Finish ==
    /\ At("finish")
    /\ mem' = DrainCompletions(mem)
    /\ ReplenishFillRing("top", 0)
    /\ UNCHANGED <<kicks, drivers, open>>

Next ==
    \/ DriverFill \/ DriverReceive \/ DriverTransmit \/ Close \/ Stop
    \/ ServicePendingTxKick \/ ServicePendingFillKick \/ Refill \/ MarkFill
    \/ Top \/ Receive \/ ReceiveTail \/ Dequeue
    \/ Handle \/ Prepare \/ Send \/ SendFails \/ SendBlocks \/ MarkTx \/ Sent \/ Finish

Spec == Init /\ [][Next]_vars

-----------------------------------------------------------------------------
Pcs == {"top", "receive", "loop", "dequeue", "handle", "prepare", "send", "full", "published",
        "sent", "finish", "tx", "fill", "refill", "marking", "stopped", "failed"}
Nexts == {"top", "receive", "prepare", "sent", "refill", "loop", "handle"}
Thens == {"top", "loop", "handle"}
Workers == [at : Pcs, next : Nexts, then : Thens, tries : 0..KickAttempts - 1, lossy : BOOLEAN,
            passes : 0..RxDrainPasses, request : 0..FillSize, queued : 0..FillSize]

\* Types of the state.
TypeOK ==
    /\ mem \in [Places -> SUBSET Frames]
    /\ {txKick, fillKick, open} \subseteq BOOLEAN
    /\ {txDriver, fillDriver} \subseteq DriverStates
    /\ worker \in Workers

\* No ring and no slab holds more than its size.
WithinSizes ==
    /\ Cardinality(mem.fill) <= FillSize /\ Cardinality(mem.rx) <= RxSize
    /\ Cardinality(mem.tx) <= TxSize /\ Cardinality(mem.completion) <= CompletionSize
    /\ \A p \in {"slab", "held", "staged"} : Cardinality(mem[p]) <= BatchSize

\* The ownership of UMEM frames that the SAFETY comments of af_xdp.rs rest on: whatever
\* fails on the way, a frame is in exactly one place, so none leaks and none is written by
\* the worker while a ring or the driver has it; and no place holds more than its size.  A
\* batch is prepared into an empty slab.
FramesHaveOneOwner ==
    /\ WithinSizes
    /\ UNION {mem[p] : p \in Places} = Frames
    /\ \A p, q \in Places : p # q => mem[p] \intersect mem[q] = {}
    /\ At("prepare") => mem.staged = {}

\* No descriptor waits for a driver that nobody will wake: a kick is pending, or the worker
\* has yet to look at the flag.
NoKickIsLost ==
    /\ txDriver = "asleep" /\ mem.tx # {} => txKick \/ At("published")
    /\ fillDriver = "asleep" /\ Cardinality(mem.fill) >= RxAllocation =>
           fillKick \/ At("marking")

\* A worker that waits for datagrams has left the driver something to put them in: the
\* driver has buffers or takes some, or the worker has no frame to give it.
NeverStarved ==
    At("dequeue") /\ mem.held = {} /\ mem.rx = {} /\ mem.hw = {}
        => Cardinality(mem.fill) >= RxAllocation \/ mem.free = {}
=============================================================================
