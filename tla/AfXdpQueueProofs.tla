-------------------------- MODULE AfXdpQueueProofs --------------------------
(***************************************************************************)
(* What holds of AfXdpQueue for every set of frames, all ring sizes and    *)
(* both kinds of wake-up: the inductive invariant QueueInv, and from it    *)
(* the ownership of frames, that no wake-up is lost and that the driver is *)
(* never left without a frame.                                             *)
(***************************************************************************)
EXTENDS AfXdpQueue, FiniteSetTheorems, TLAPS

-----------------------------------------------------------------------------
\* Every frame is in one place.
Owned(m) ==
    /\ m \in [Places -> SUBSET Frames]
    /\ UNION {m[p] : p \in Places} = Frames
    /\ \A p, q \in Places : p # q => m[p] \intersect m[q] = {}

\* No place holds more than its size.
Limit == [fill |-> FillSize, rx |-> RxSize, tx |-> TxSize, completion |-> CompletionSize,
          slab |-> BatchSize, held |-> BatchSize, staged |-> BatchSize]
Fits(m) == \A p \in DOMAIN Limit : Cardinality(m[p]) <= Limit[p]

\* Where the worker goes on after a kick, and how far a receive has come.
ControlInv ==
    /\ At("tx") => worker.next \in {"receive", "prepare", "sent"}
    /\ At("fill") => worker.next \in {"refill", worker.then}
    /\ At("fill") /\ worker.next = "refill" => worker.request = FillSize
    /\ At("loop") \/ At("dequeue")
          \/ (worker.then = "loop" /\ (At("fill") \/ At("refill") \/ At("marking")))
             => worker.passes < RxDrainPasses

\* Only a send that is under way, or that the shutdown cut short, has staged frames; the
\* slab is empty when the RX ring is dequeued into it.
SlabInv ==
    /\ mem.staged # {} =>
          \/ worker.at \in {"send", "full", "published", "sent", "stopped"}
          \/ At("tx") /\ worker.next = "sent"
    /\ At("dequeue") => mem.slab = {}

\* The wake-up that a driver asleep beside work is owed.  Without the conditional wake-up,
\* the worker marks one only for what it has enqueued.
KickInv ==
    /\ txDriver = "asleep" /\ mem.tx # {} => txKick \/ At("published")
    /\ fillDriver = "asleep" /\ Cardinality(mem.fill) >= RxAllocation =>
          fillKick \/ (At("marking") /\ (Conditional \/ worker.queued > 0))

\* A refill is over, and nothing of the worker's frames has changed since.
Refilled == At("marking") \/ At("loop") \/ At("dequeue") \/ (At("fill") /\ worker.next # "refill")

\* When the driver has nothing and nothing has been received, the FILL ring has an
\* allocation for it or no frame was left; on the way there, the request before this one,
\* of which this one is half, found no room.
StarveInv ==
    mem.hw = {} /\ mem.rx = {} =>
        /\ Refilled => Cardinality(mem.fill) >= RxAllocation \/ mem.free = {}
        /\ At("refill") =>
              \/ worker.request = FillSize \/ mem.free = {}
              \/ /\ 2 * worker.request + 1 > FillSize - Cardinality(mem.fill)
                 /\ Cardinality(mem.free) > FillSize - Cardinality(mem.fill)

QueueInv ==
    /\ TypeOK /\ Owned(mem) /\ Fits(mem)
    /\ ControlInv /\ SlabInv /\ KickInv /\ StarveInv

-----------------------------------------------------------------------------
(* The operators of the model.                                             *)

\* The smaller of two numbers is one of them and exceeds neither.
LEMMA MinOfTwo ==
  ASSUME NEW a \in Int, NEW b \in Int
  PROVE  /\ Min({a, b}) \in {a, b}
         /\ Min({a, b}) <= a /\ Min({a, b}) <= b
  <1>1. \E x \in {a, b} : \A y \in {a, b} : x =< y
    OBVIOUS
  <1> QED BY <1>1 DEF Min

\* What the constants are.
LEMMA Sizes ==
  /\ FillSize \in Nat /\ TxSize \in Nat /\ CompletionSize \in Nat /\ RxSize \in Nat
  /\ BatchSize \in Nat /\ RxDrainPasses \in Nat /\ KickAttempts \in Nat /\ RxAllocation \in Nat
  /\ FillSize > 0 /\ RxDrainPasses > 0 /\ KickAttempts > 0 /\ RxAllocation > 0
  /\ 2 * RxAllocation <= FillSize /\ Conditional \in BOOLEAN /\ IsFiniteSet(Frames)
  BY RingAssumption

\* A place holds finitely many frames.
LEMMA PlaceIsFinite ==
  ASSUME NEW m, Owned(m), NEW p \in Places, NEW S \in SUBSET m[p]
  PROVE  IsFiniteSet(S) /\ Cardinality(S) \in Nat /\ Cardinality(S) <= Cardinality(m[p])
         /\ Cardinality(m[p]) \in Nat
  <1>1. m[p] \in SUBSET Frames BY DEF Owned
  <1>2. IsFiniteSet(m[p]) BY <1>1, Sizes, FS_Subset
  <1>3. IsFiniteSet(S) /\ Cardinality(S) <= Cardinality(m[p]) BY <1>2, FS_Subset
  <1> QED BY <1>2, <1>3, FS_CardinalityType

\* Move takes frames from one place, adds them to another and leaves the others alone.
LEMMA MoveFacts ==
  ASSUME NEW m \in [Places -> SUBSET Frames], NEW from \in Places, NEW to \in Places,
         from # to, NEW S \in SUBSET m[from]
  PROVE  /\ Move(m, from, to, S) \in [Places -> SUBSET Frames]
         /\ Move(m, from, to, S)[from] = m[from] \ S
         /\ Move(m, from, to, S)[to] = m[to] \union S
         /\ \A p \in Places \ {from, to} : Move(m, from, to, S)[p] = m[p]
  BY DEF Move

\* Move neither loses nor doubles a frame.
LEMMA MoveOwned ==
  ASSUME NEW m, Owned(m), NEW from \in Places, NEW to \in Places,
         from # to, NEW S \in SUBSET m[from]
  PROVE  Owned(Move(m, from, to, S))
  <1> DEFINE n == Move(m, from, to, S)
  <1>1. /\ n \in [Places -> SUBSET Frames]
        /\ n[from] = m[from] \ S
        /\ n[to] = m[to] \union S
        /\ \A p \in Places \ {from, to} : n[p] = m[p]
    BY MoveFacts DEF Owned
  <1> HIDE DEF n
  <1>2. \A p, q \in Places : p # q => n[p] \intersect n[q] = {}
    BY <1>1 DEF Owned
  <1>3. UNION {n[p] : p \in Places} = Frames
    BY <1>1 DEF Owned
  <1> QED BY <1>1, <1>2, <1>3 DEF Owned, n

\* The sizes of both places change by the number of frames moved.
LEMMA MoveSizes ==
  ASSUME NEW m, Owned(m), NEW from \in Places, NEW to \in Places,
         from # to, NEW S \in SUBSET m[from]
  PROVE  /\ Cardinality(Move(m, from, to, S)[from]) = Cardinality(m[from]) - Cardinality(S)
         /\ Cardinality(Move(m, from, to, S)[to]) = Cardinality(m[to]) + Cardinality(S)
         /\ Cardinality(S) \in Nat /\ Cardinality(m[from]) \in Nat /\ Cardinality(m[to]) \in Nat
  <1>1. m[from] \intersect S = S /\ m[to] \intersect S = {}
    BY DEF Owned
  <1>2. /\ IsFiniteSet(S) /\ IsFiniteSet(m[from]) /\ IsFiniteSet(m[to])
        /\ Cardinality(S) \in Nat /\ Cardinality(m[from]) \in Nat /\ Cardinality(m[to]) \in Nat
    BY PlaceIsFinite
  <1>3. Cardinality(m[from] \ S) = Cardinality(m[from]) - Cardinality(S)
    BY <1>1, <1>2, FS_Difference
  <1>4. Cardinality(m[to] \union S) =
           Cardinality(m[to]) + Cardinality(S) - Cardinality(m[to] \intersect S)
    BY <1>2, FS_Union, Zenon
  <1>5. Cardinality(m[to] \intersect S) = 0
    BY <1>1, FS_EmptySet
  <1>6. /\ Move(m, from, to, S)[from] = m[from] \ S
        /\ Move(m, from, to, S)[to] = m[to] \union S
    BY MoveFacts DEF Owned
  <1> QED BY <1>2, <1>3, <1>4, <1>5, <1>6

\* Every place but the free frames and the driver's buffers has a size.
LEMMA Limited ==
  /\ DOMAIN Limit = Places \ {"free", "hw"}
  /\ \A p \in DOMAIN Limit : Limit[p] \in Nat
  /\ Limit["fill"] = FillSize /\ Limit["rx"] = RxSize /\ Limit["tx"] = TxSize
  /\ Limit["completion"] = CompletionSize /\ Limit["slab"] = BatchSize
  /\ Limit["held"] = BatchSize /\ Limit["staged"] = BatchSize
  BY Sizes DEF Limit, Places

\* Sizes still hold after a move into a place with room.
LEMMA MoveFits ==
  ASSUME NEW m, Owned(m), Fits(m), NEW from \in Places, NEW to \in Places,
         from # to, NEW S \in SUBSET m[from],
         to \in DOMAIN Limit => Cardinality(m[to]) + Cardinality(S) <= Limit[to]
  PROVE  Fits(Move(m, from, to, S))
  <1> DEFINE n == Move(m, from, to, S)
  <1>1. /\ n[from] = m[from] \ S
        /\ n[to] = m[to] \union S
        /\ \A p \in Places \ {from, to} : n[p] = m[p]
    BY MoveFacts DEF Owned
  <1>2. /\ Cardinality(n[from]) = Cardinality(m[from]) - Cardinality(S)
        /\ Cardinality(n[to]) = Cardinality(m[to]) + Cardinality(S)
        /\ Cardinality(S) \in Nat /\ Cardinality(m[from]) \in Nat
    BY MoveSizes
  <1> HIDE DEF n
  <1>3. ASSUME NEW p \in DOMAIN Limit PROVE Cardinality(n[p]) <= Limit[p]
    <2>1. CASE p = from BY <2>1, <1>2, Limited DEF Fits
    <2>2. CASE p = to BY <2>2, <1>2
    <2>3. CASE p # from /\ p # to BY <2>3, <1>1, Limited DEF Fits
    <2> QED BY <2>1, <2>2, <2>3
  <1> QED BY <1>3 DEF Fits, n

\* What Empty leaves: the place is empty, its frames are free, the sizes still hold.
LEMMA EmptyFacts ==
  ASSUME NEW m, Owned(m), NEW from \in Places \ {"free"}
  PROVE  /\ Owned(Empty(m, from))
         /\ Empty(m, from)[from] = {}
         /\ Empty(m, from).free = m.free \union m[from]
         /\ \A p \in Places \ {from, "free"} : Empty(m, from)[p] = m[p]
         /\ Fits(m) => Fits(Empty(m, from))
  <1> DEFINE n == Empty(m, from)
  <1>1. "free" \in Places /\ m[from] \in SUBSET m[from] /\ m \in [Places -> SUBSET Frames]
    BY DEF Places, Owned
  <1>2. Owned(n) BY <1>1, MoveOwned DEF Empty
  <1>3. /\ n[from] = m[from] \ m[from]
        /\ n["free"] = m["free"] \union m[from]
        /\ \A p \in Places \ {from, "free"} : n[p] = m[p]
    BY <1>1, MoveFacts DEF Empty
  <1>4. n[from] = {} BY <1>3
  <1>5. ASSUME Fits(m) PROVE Fits(n)
    <2>1. "free" \notin DOMAIN Limit BY Limited
    <2> QED BY <1>1, <1>5, <2>1, MoveFits DEF Empty
  <1> QED BY <1>2, <1>3, <1>4, <1>5 DEF n

\* kSubset picks subsets of the size asked for.
LEMMA KSubset ==
  ASSUME NEW k, NEW T, NEW S \in kSubset(k, T)
  PROVE  S \in SUBSET T /\ Cardinality(S) = k
  BY DEF kSubset

\* consume_received_packets moves frames out of the slab, and no more than a batch of them
\* to the admitted ones.
LEMMA ConsumedFacts ==
  ASSUME NEW m, Owned(m), NEW n \in Consumed(m)
  PROVE  /\ Owned(n)
         /\ \A p \in Places \ {"slab", "held", "free"} : n[p] = m[p]
         /\ Fits(m) => Fits(n)
  <1>1. PICK split \in Splits(m) :
           n = Move(Move(m, "slab", "held", split.in), "slab", "free", split.out)
    BY DEF Consumed
  <1> DEFINE h == Move(m, "slab", "held", split.in)
  <1>2. /\ split.in \in SUBSET m["slab"] /\ split.out \in SUBSET m["slab"]
        /\ split.in \intersect split.out = {}
        /\ Cardinality(m["held"] \union split.in) <= BatchSize
    BY DEF Splits
  <1>3. "slab" \in Places /\ "held" \in Places /\ "free" \in Places /\ m \in [Places -> SUBSET Frames]
    BY DEF Places, Owned
  <1>4. Owned(h) BY <1>2, <1>3, MoveOwned
  <1>5. /\ h \in [Places -> SUBSET Frames]
        /\ h["slab"] = m["slab"] \ split.in
        /\ h["held"] = m["held"] \union split.in
        /\ \A p \in Places \ {"slab", "held"} : h[p] = m[p]
    BY <1>2, <1>3, MoveFacts
  <1> HIDE DEF h
  <1>6. split.out \in SUBSET h["slab"] BY <1>2, <1>5
  <1>7. Owned(n) BY <1>1, <1>3, <1>4, <1>6, MoveOwned DEF h
  <1>8. /\ n["slab"] = h["slab"] \ split.out
        /\ \A p \in Places \ {"slab", "free"} : n[p] = h[p]
    BY <1>1, <1>3, <1>5, <1>6, MoveFacts DEF h
  <1>9. \A p \in Places \ {"slab", "held", "free"} : n[p] = m[p]
    BY <1>5, <1>8
  <1>10. n["slab"] \in SUBSET m["slab"] BY <1>5, <1>8
  <1>11. /\ Cardinality(n["slab"]) <= Cardinality(m["slab"])
         /\ Cardinality(n["slab"]) \in Nat /\ Cardinality(m["slab"]) \in Nat
    BY <1>3, <1>10, PlaceIsFinite
  <1>12. Cardinality(n["held"]) <= BatchSize
    BY <1>2, <1>3, <1>5, <1>8
  <1>13. ASSUME Fits(m), NEW p \in DOMAIN Limit PROVE Cardinality(n[p]) <= Limit[p]
    <2>1. CASE p = "slab" BY <2>1, <1>11, <1>13, Limited DEF Fits
    <2>2. CASE p = "held" BY <2>2, <1>12, Limited
    <2>3. CASE p \notin {"slab", "held"} BY <2>3, <1>9, <1>13, Limited DEF Fits
    <2> QED BY <2>1, <2>2, <2>3
  <1> QED BY <1>7, <1>9, <1>13 DEF Fits

-----------------------------------------------------------------------------
(* What each step does to the frames.                                      *)

Sound(m) == Owned(m) /\ Fits(m)
Kept(places) == \A p \in places : mem'[p] = mem[p]

\* The invariant makes the places sound.
LEMMA InvSound == QueueInv => Sound(mem)
  BY DEF QueueInv, Sound

\* A step that only drains the COMPLETION ring, or nothing.
LEMMA DrainFacts ==
  ASSUME NEW m, Sound(m)
  PROVE  /\ Sound(DrainCompletions(m)) /\ Sound(DrainTxSlab(m)) /\ Sound(ReleaseUnsentFrames(m))
         /\ Sound(RecycleReceived(m))
         /\ \A p \in Places \ {"completion", "free"} : DrainCompletions(m)[p] = m[p]
         /\ \A p \in Places \ {"staged", "free"} : DrainTxSlab(m)[p] = m[p]
         /\ \A p \in Places \ {"held", "free"} : ReleaseUnsentFrames(m)[p] = m[p]
         /\ \A p \in Places \ {"slab", "free"} : RecycleReceived(m)[p] = m[p]
         /\ DrainTxSlab(m)["staged"] = {} /\ RecycleReceived(m)["slab"] = {}
  <1>1. {"completion", "staged", "held", "slab"} \subseteq Places \ {"free"} BY DEF Places
  <1>2. ASSUME NEW from \in {"completion", "staged", "held", "slab"}
        PROVE  /\ Sound(Empty(m, from)) /\ Empty(m, from)[from] = {}
               /\ \A p \in Places \ {from, "free"} : Empty(m, from)[p] = m[p]
    BY <1>1, EmptyFacts DEF Sound
  <1>3. /\ Sound(DrainCompletions(m))
        /\ \A p \in Places \ {"completion", "free"} : DrainCompletions(m)[p] = m[p]
    BY <1>2 DEF DrainCompletions
  <1>4. /\ Sound(DrainTxSlab(m)) /\ DrainTxSlab(m)["staged"] = {}
        /\ \A p \in Places \ {"staged", "free"} : DrainTxSlab(m)[p] = m[p]
    BY <1>2 DEF DrainTxSlab
  <1>5. /\ Sound(ReleaseUnsentFrames(m))
        /\ \A p \in Places \ {"held", "free"} : ReleaseUnsentFrames(m)[p] = m[p]
    BY <1>2 DEF ReleaseUnsentFrames
  <1>6. /\ Sound(RecycleReceived(m)) /\ RecycleReceived(m)["slab"] = {}
        /\ \A p \in Places \ {"slab", "free"} : RecycleReceived(m)[p] = m[p]
    BY <1>2 DEF RecycleReceived
  <1> QED BY <1>3, <1>4, <1>5, <1>6

\* The driver takes a whole allocation of receive buffers.
LEMMA DriverFillMem ==
  ASSUME QueueInv, DriverFill
  PROVE  /\ Sound(mem') /\ Kept(Places \ {"fill", "hw"})
         /\ UNCHANGED mem \/ (mem'["hw"] # {} /\ fillDriver' # "asleep")
  <1>1. CASE UNCHANGED mem BY <1>1, InvSound DEF Kept, Sound
  <1>2. CASE \E S \in kSubset(RxAllocation, mem["fill"]) : mem' = Move(mem, "fill", "hw", S)
             /\ fillDriver = "polling" /\ UNCHANGED fillDriver
    <2>1. PICK S \in kSubset(RxAllocation, mem["fill"]) : mem' = Move(mem, "fill", "hw", S)
      BY <1>2
    <2>2. S \in SUBSET mem["fill"] /\ Cardinality(S) = RxAllocation BY KSubset
    <2>3. "fill" \in Places /\ "hw" \in Places /\ "hw" \notin DOMAIN Limit BY Limited DEF Places
    <2>4. Sound(mem') BY <2>1, <2>2, <2>3, InvSound, MoveOwned, MoveFits DEF Sound
    <2>5. mem'["hw"] = mem["hw"] \union S /\ Kept(Places \ {"fill", "hw"})
      BY <2>1, <2>2, <2>3, InvSound, MoveFacts DEF Sound, Owned, Kept
    <2>6. S # {} BY <2>2, Sizes, FS_EmptySet
    <2> QED BY <1>2, <2>4, <2>5, <2>6
  <1> QED BY <1>1, <1>2 DEF DriverFill

\* A frame is received into a RX ring with room.
LEMMA DriverReceiveMem ==
  ASSUME QueueInv, DriverReceive
  PROVE  Sound(mem') /\ Kept(Places \ {"hw", "rx"}) /\ mem'["rx"] # {}
  <1>1. PICK f \in mem["hw"] : mem' = Move(mem, "hw", "rx", {f}) BY DEF DriverReceive
  <1>2. {f} \in SUBSET mem["hw"] /\ Cardinality({f}) = 1 BY FS_Singleton
  <1>3. "hw" \in Places /\ "rx" \in Places BY DEF Places
  <1>4. Cardinality(mem["rx"]) \in Nat BY <1>3, InvSound, PlaceIsFinite DEF Sound
  <1>5. Cardinality(mem["rx"]) + Cardinality({f}) <= Limit["rx"]
    BY <1>2, <1>4, Sizes, Limited DEF DriverReceive
  <1>6. Sound(mem') BY <1>1, <1>2, <1>3, <1>5, InvSound, MoveOwned, MoveFits DEF Sound
  <1>7. mem'["rx"] = mem["rx"] \union {f} /\ Kept(Places \ {"hw", "rx"})
    BY <1>1, <1>2, <1>3, InvSound, MoveFacts DEF Sound, Owned, Kept
  <1> QED BY <1>6, <1>7

\* A descriptor is completed into a COMPLETION ring with room.
LEMMA CompletedMem ==
  ASSUME NEW m, Sound(m), NEW f \in m["tx"], Cardinality(m["completion"]) < CompletionSize
  PROVE  /\ Sound(Move(m, "tx", "completion", {f}))
         /\ Move(m, "tx", "completion", {f})["tx"] \in SUBSET m["tx"]
         /\ \A p \in Places \ {"tx", "completion"} : Move(m, "tx", "completion", {f})[p] = m[p]
  <1>2. {f} \in SUBSET m["tx"] /\ Cardinality({f}) = 1 BY FS_Singleton
  <1>3. "tx" \in Places /\ "completion" \in Places BY DEF Places
  <1>4. Cardinality(m["completion"]) \in Nat BY <1>3, PlaceIsFinite DEF Sound
  <1>5. Cardinality(m["completion"]) + Cardinality({f}) <= Limit["completion"]
    BY <1>2, <1>4, Sizes, Limited
  <1>6. Sound(Move(m, "tx", "completion", {f}))
    BY <1>2, <1>3, <1>5, MoveOwned, MoveFits DEF Sound
  <1> QED BY <1>2, <1>3, <1>6, MoveFacts DEF Sound, Owned

\* The driver transmits: a descriptor at most leaves the TX ring.
LEMMA DriverTransmitMem ==
  ASSUME QueueInv, DriverTransmit
  PROVE  /\ Sound(mem') /\ Kept(Places \ {"tx", "completion"})
         /\ mem'["tx"] \in SUBSET mem["tx"]
  <1>1. CASE UNCHANGED mem BY <1>1, InvSound DEF Kept
  <1>2. CASE /\ Cardinality(mem["completion"]) < CompletionSize
             /\ \E f \in mem["tx"] : mem' = Move(mem, "tx", "completion", {f})
    <2>1. PICK f \in mem["tx"] : mem' = Move(mem, "tx", "completion", {f}) BY <1>2
    <2> QED BY <1>2, <2>1, InvSound, CompletedMem DEF Kept
  <1> QED BY <1>1, <1>2 DEF DriverTransmit

\* An attempt of a kick that failed: the worker tries again with the frames as they are, or
\* gives up with the staged ones recycled.
LEMMA TryAgainMem ==
  ASSUME NEW m, Sound(m), NEW lossy, TryAgain(m, lossy), worker \in Workers
  PROVE  /\ Sound(mem')
         /\ \A p \in Places \ {"staged", "free"} : mem'[p] = m[p]
         /\ \/ mem'["staged"] = {} /\ worker'.at = "top" /\ worker'.next = worker.next
            \/ mem' = m /\ worker'.at = worker.at /\ worker'.next = worker.next
  <1>1. CASE worker.tries + 1 >= KickAttempts
    <2>1. mem' = DrainTxSlab(m) /\ worker' = [worker EXCEPT !.at = "top"]
      BY <1>1 DEF TryAgain, Goto
    <2>2. worker'.at = "top" /\ worker'.next = worker.next BY <2>1 DEF Workers
    <2> QED BY <2>1, <2>2, DrainFacts
  <1>2. CASE ~(worker.tries + 1 >= KickAttempts)
    <2>1. mem' = m /\ worker' = [worker EXCEPT !.tries = @ + 1, !.lossy = lossy]
      BY <1>2 DEF TryAgain
    <2>2. worker'.at = worker.at /\ worker'.next = worker.next BY <2>1 DEF Workers
    <2> QED BY <2>1, <2>2
  <1> QED BY <1>1, <1>2

\* The worker's fields.
LEMMA GotoFacts ==
  ASSUME NEW place, worker \in Workers, Goto(place)
  PROVE  /\ worker'.at = place /\ worker'.next = worker.next /\ worker'.then = worker.then
         /\ worker'.passes = worker.passes /\ worker'.request = worker.request
         /\ worker'.queued = worker.queued
  BY DEF Goto, Workers

\* A TX kick: at most a descriptor leaves the TX ring, and staged frames stay or are recycled.
LEMMA TxKickMem ==
  ASSUME QueueInv, ServicePendingTxKick
  PROVE  /\ Sound(mem') /\ Kept({"fill", "hw", "rx", "slab", "held"})
         /\ mem'["tx"] \in SUBSET mem["tx"]
         /\ worker'.next = worker.next
         /\ \/ mem'["staged"] = {} /\ worker'.at \in {"top", "failed", "tx", worker.next}
            \/ mem'["staged"] = mem["staged"] /\ worker'.at \in {"tx", worker.next}
         /\ UNCHANGED txKick \/ txDriver' = "polling"
  <1> USE InvSound
  <1>0. worker \in Workers /\ worker.at = "tx" BY DEF QueueInv, TypeOK, ServicePendingTxKick, At
  <1>1. {"fill", "hw", "rx", "slab", "held", "tx"} \subseteq Places \ {"staged", "free", "completion"}
        /\ "staged" \in Places \ {"completion", "free", "tx"}
    BY DEF Places
  <1>2. CASE /\ txKick' = FALSE /\ txDriver' = "polling"
             /\ IF worker.lossy THEN mem' = DrainTxSlab(mem) /\ Goto("top")
                                ELSE UNCHANGED mem /\ Goto(worker.next)
    <2>1. CASE mem' = DrainTxSlab(mem) /\ Goto("top")
      BY <1>0, <1>1, <1>2, <2>1, DrainFacts, GotoFacts DEF Kept
    <2>2. CASE UNCHANGED mem /\ Goto(worker.next)
      BY <1>0, <1>2, <2>2, GotoFacts DEF Kept
    <2> QED BY <1>2, <2>1, <2>2
  <1>3. CASE TryAgain(DrainCompletions(mem), worker.lossy) /\ UNCHANGED <<txKick, txDriver>>
    <2> DEFINE m == DrainCompletions(mem)
    <2>1. Sound(m) /\ \A p \in Places \ {"completion", "free"} : m[p] = mem[p]
      BY DrainFacts
    <2>2. TryAgain(m, worker.lossy) BY <1>3
    <2> HIDE DEF m
    <2>3. /\ Sound(mem')
          /\ \A p \in Places \ {"staged", "free"} : mem'[p] = m[p]
          /\ \/ mem'["staged"] = {} /\ worker'.at = "top" /\ worker'.next = worker.next
             \/ mem' = m /\ worker'.at = worker.at /\ worker'.next = worker.next
      BY <1>0, <2>1, <2>2, TryAgainMem
    <2> QED BY <1>0, <1>1, <1>3, <2>1, <2>3 DEF Kept
  <1>4. CASE /\ Cardinality(mem["completion"]) < CompletionSize
             /\ \E f \in mem["tx"] :
                   TryAgain(DrainCompletions(Move(mem, "tx", "completion", {f})), TRUE)
             /\ UNCHANGED <<txKick, txDriver>>
    <2>1. PICK f \in mem["tx"] :
             TryAgain(DrainCompletions(Move(mem, "tx", "completion", {f})), TRUE)
      BY <1>4
    <2> DEFINE n == Move(mem, "tx", "completion", {f})
               m == DrainCompletions(n)
    <2>2. /\ Sound(n) /\ n["tx"] \in SUBSET mem["tx"]
          /\ \A p \in Places \ {"tx", "completion"} : n[p] = mem[p]
      BY <1>4, CompletedMem
    <2>3. TryAgain(m, TRUE) BY <2>1
    <2> HIDE DEF n
    <2>4. Sound(m) /\ \A p \in Places \ {"completion", "free"} : m[p] = n[p]
      BY <2>2, DrainFacts
    <2> HIDE DEF m
    <2>5. /\ Sound(mem')
          /\ \A p \in Places \ {"staged", "free"} : mem'[p] = m[p]
          /\ \/ mem'["staged"] = {} /\ worker'.at = "top" /\ worker'.next = worker.next
             \/ mem' = m /\ worker'.at = worker.at /\ worker'.next = worker.next
      BY <1>0, <2>3, <2>4, TryAgainMem
    <2>6. /\ Kept({"fill", "hw", "rx", "slab", "held"}) /\ mem'["tx"] \in SUBSET mem["tx"]
          /\ m["staged"] = mem["staged"]
      BY <1>1, <2>2, <2>4, <2>5 DEF Kept
    <2> QED BY <1>0, <1>4, <2>5, <2>6
  <1>5. CASE mem' = DrainTxSlab(mem) /\ Goto("failed") /\ UNCHANGED <<txKick, txDriver>>
    BY <1>0, <1>1, <1>5, DrainFacts, GotoFacts DEF Kept
  <1> QED BY <1>2, <1>3, <1>4, <1>5 DEF ServicePendingTxKick

\* A FILL kick: staged frames stay or are recycled.
LEMMA FillKickMem ==
  ASSUME QueueInv, ServicePendingFillKick
  PROVE  /\ Sound(mem') /\ Kept(Places \ {"staged", "free"})
         /\ worker'.next = worker.next
         /\ \/ mem'["staged"] = {} /\ worker'.at = "top"
            \/ UNCHANGED mem /\ worker'.at \in {"fill", "failed", worker.next}
         /\ UNCHANGED fillKick \/ fillDriver' = "polling"
  <1> USE InvSound
  <1>0. worker \in Workers /\ worker.at = "fill"
    BY DEF QueueInv, TypeOK, ServicePendingFillKick, At
  <1>1. CASE fillKick' = FALSE /\ fillDriver' = "polling" /\ Goto(worker.next) /\ UNCHANGED mem
    BY <1>0, <1>1, GotoFacts DEF Kept
  <1>2. CASE TryAgain(mem, FALSE) /\ UNCHANGED <<fillKick, fillDriver>>
    BY <1>0, <1>2, TryAgainMem DEF Kept
  <1>3. CASE Goto("failed") /\ UNCHANGED <<mem, fillKick, fillDriver>>
    BY <1>0, <1>3, GotoFacts DEF Kept
  <1> QED BY <1>1, <1>2, <1>3 DEF ServicePendingFillKick

\* A refill takes as many free frames as the FILL ring has room for, or none.
LEMMA RefillMem ==
  ASSUME QueueInv, Refill
  PROVE  /\ Sound(mem') /\ Kept(Places \ {"free", "fill"})
         /\ \/ UNCHANGED mem
            \/ LET n == Min({worker.request, Cardinality(mem["free"])})
               IN  /\ n > 0 /\ n <= FillSize - Cardinality(mem["fill"])
                   /\ Cardinality(mem'["fill"]) = Cardinality(mem["fill"]) + n
                   /\ Cardinality(mem'["free"]) = Cardinality(mem["free"]) - n
                   /\ worker' = [worker EXCEPT !.at = "marking", !.queued = n]
  <1> USE InvSound
  <1> DEFINE n == Min({worker.request, Cardinality(mem["free"])})
  <1>1. CASE UNCHANGED mem BY <1>1 DEF Kept
  <1>2. CASE /\ Enqueue(n)
             /\ \E S \in kSubset(n, mem["free"]) : mem' = Move(mem, "free", "fill", S)
             /\ worker' = [worker EXCEPT !.at = "marking", !.queued = n]
    <2> HIDE DEF n
    <2>1. PICK S \in kSubset(n, mem["free"]) : mem' = Move(mem, "free", "fill", S)
      BY <1>2
    <2>2. S \in SUBSET mem["free"] /\ Cardinality(S) = n BY KSubset
    <2>3. "fill" \in Places /\ "free" \in Places BY DEF Places
    <2>4. /\ Cardinality(mem'["free"]) = Cardinality(mem["free"]) - n
          /\ Cardinality(mem'["fill"]) = Cardinality(mem["fill"]) + n
          /\ n \in Nat /\ Cardinality(mem["fill"]) \in Nat
      BY <2>1, <2>2, <2>3, MoveSizes DEF Sound
    <2>5. n > 0 /\ n <= FillSize - Cardinality(mem["fill"]) BY <1>2 DEF Enqueue
    <2>6. Cardinality(mem["fill"]) + n <= Limit["fill"] BY <2>4, <2>5, Sizes, Limited
    <2>7. Sound(mem') BY <2>1, <2>2, <2>3, <2>6, MoveOwned, MoveFits DEF Sound
    <2>8. Kept(Places \ {"free", "fill"})
      BY <2>1, <2>2, <2>3, MoveFacts DEF Kept, Sound, Owned
    <2> QED BY <1>2, <2>4, <2>5, <2>7, <2>8 DEF n
  <1> QED BY <1>1, <1>2 DEF Refill

\* service_tx_kick may drain the COMPLETION ring before it kicks.
LEMMA ServiceTxMem ==
  ASSUME QueueInv, NEW pending \in BOOLEAN, NEW next, ServiceTxKick(mem, pending, next)
  PROVE  /\ Sound(mem') /\ Kept(Places \ {"completion", "free"})
         /\ worker'.at \in {"tx", next} /\ worker'.next = next
         /\ worker'.then = worker.then
         /\ worker'.passes = worker.passes
  <1>1. worker \in Workers BY DEF QueueInv, TypeOK
  <1>2. worker'.at \in {"tx", next} /\ worker'.next = next /\ worker'.then = worker.then
        /\ worker'.passes = worker.passes
    BY <1>1 DEF ServiceTxKick, Workers
  <1>3. mem' = mem \/ mem' = DrainCompletions(mem) BY DEF ServiceTxKick
  <1> QED BY <1>2, <1>3, InvSound, DrainFacts DEF Kept

\* The kicks at the head of the loop and of send_batch, and after a publication.
LEMMA KickingMem ==
  ASSUME QueueInv, Top \/ Handle \/ MarkTx
  PROVE  /\ Sound(mem') /\ Kept(Places \ {"completion", "free"})
         /\ \/ At("top") /\ worker'.at = "stopped" /\ worker'.next = worker.next
            \/ At("top") /\ worker'.at \in {"tx", "receive"} /\ worker'.next = "receive"
            \/ At("handle") /\ worker'.at \in {"tx", "prepare"} /\ worker'.next = "prepare"
            \/ At("published") /\ worker'.at \in {"tx", "sent"} /\ worker'.next = "sent"
         /\ worker'.then = worker.then
         /\ worker'.passes = worker.passes
  <1>0. /\ worker \in Workers /\ txKick \in BOOLEAN /\ Conditional \in BOOLEAN
        /\ txKick' \in BOOLEAN
    BY Sizes DEF QueueInv, TypeOK, Top, Handle, MarkTx, kicks
  <1>1. CASE Top
    <2>1. CASE ServiceTxKick(mem, txKick, "receive")
      <3>1. At("top") BY <1>1 DEF Top
      <3> QED BY <1>0, <2>1, <3>1, ServiceTxMem
    <2>2. CASE Goto("stopped") /\ UNCHANGED mem
      <3>1. At("top") BY <1>1 DEF Top
      <3> QED BY <1>0, <2>2, <3>1, GotoFacts, InvSound DEF Kept
    <2> QED BY <1>1, <2>1, <2>2 DEF Top
  <1>2. CASE Handle
    <2>1. At("handle") /\ ServiceTxKick(mem, txKick, "prepare") BY <1>2 DEF Handle
    <2> QED BY <1>0, <2>1, ServiceTxMem
  <1>3. CASE MarkTx
    <2>1. At("published") /\ ServiceTxKick(mem, txKick', "sent") BY <1>3 DEF MarkTx
    <2> QED BY <1>0, <2>1, ServiceTxMem
  <1> QED BY <1>1, <1>2, <1>3

\* replenish_fill_ring starts with a kick or with the refill.
LEMMA ReplenishFacts ==
  ASSUME worker \in Workers, NEW then, NEW passes, ReplenishFillRing(then, passes)
  PROVE  /\ worker'.at \in {"fill", "refill"} /\ worker'.next = "refill"
         /\ worker'.then = then /\ worker'.passes = passes
         /\ worker'.request = FillSize /\ worker'.queued = worker.queued
  BY DEF ReplenishFillRing, Workers

\* Admitted and completed frames are released, and the FILL ring is replenished.
LEMMA ReleasingMem ==
  ASSUME QueueInv, Receive \/ Finish
  PROVE  /\ Sound(mem') /\ Kept(Places \ {"completion", "held", "free"})
         /\ worker'.at \in {"fill", "refill"} /\ worker'.next = "refill"
         /\ worker'.then \in {"top", "loop"} /\ worker'.passes = 0
         /\ worker'.request = FillSize
  <1> USE InvSound
  <1>0. worker \in Workers BY DEF QueueInv, TypeOK
  <1>1. CASE Receive
    <2> DEFINE m == ReleaseUnsentFrames(mem)
    <2>1. Sound(m) /\ \A p \in Places \ {"held", "free"} : m[p] = mem[p] BY DrainFacts
    <2>2. mem' = DrainCompletions(m) /\ ReplenishFillRing("loop", 0) BY <1>1 DEF Receive
    <2> HIDE DEF m
    <2>3. Sound(mem') /\ \A p \in Places \ {"completion", "free"} : mem'[p] = m[p]
      BY <2>1, <2>2, DrainFacts
    <2>4. Kept(Places \ {"completion", "held", "free"}) BY <2>1, <2>3 DEF Kept
    <2> QED BY <1>0, <2>2, <2>3, <2>4, ReplenishFacts
  <1>2. CASE Finish
    <2>1. mem' = DrainCompletions(mem) /\ ReplenishFillRing("top", 0) BY <1>2 DEF Finish
    <2>2. Sound(mem') /\ Kept(Places \ {"completion", "held", "free"})
      BY <2>1, DrainFacts DEF Kept
    <2> QED BY <1>0, <2>1, <2>2, ReplenishFacts
  <1> QED BY <1>1, <1>2

\* Where a receive goes on: it ends, or the FILL ring is replenished with the frames the
\* driver has given up.
Replenishing(thens) ==
    /\ worker'.at \in {"fill", "refill"} /\ worker'.next = "refill" /\ worker'.then \in thens
    /\ worker'.request = FillSize

\* Admission closed under way.
LEMMA CloseReceiveMem ==
  ASSUME NEW m, Sound(m), worker \in Workers, CloseReceive(m)
  PROVE  /\ Sound(mem') /\ \A p \in Places \ {"slab", "free"} : mem'[p] = m[p]
         /\ worker'.at \in {"handle", "stopped"} /\ worker'.passes = worker.passes
         /\ worker'.next = worker.next /\ worker'.then = worker.then
  <1>1. mem' = RecycleReceived(m) BY DEF CloseReceive
  <1>2. \E to \in {"handle", "stopped"} : Goto(to) BY DEF CloseReceive
  <1> QED BY <1>1, <1>2, DrainFacts, GotoFacts

\* The tail of a full batch is consumed, or the RX ring comes next.
LEMMA ReceiveTailMem ==
  ASSUME QueueInv, ReceiveTail
  PROVE  /\ Sound(mem') /\ Kept(Places \ {"slab", "held", "free"})
         /\ worker'.passes = worker.passes
         /\ \/ worker'.at \in {"handle", "stopped"}
            \/ Replenishing({"handle", "loop"})
            \/ UNCHANGED mem /\ mem["slab"] = {} /\ worker'.at = "dequeue"
  <1> USE InvSound
  <1>0. worker \in Workers BY DEF QueueInv, TypeOK
  <1>1. CASE CloseReceive(mem) BY <1>0, <1>1, CloseReceiveMem DEF Kept
  <1>2. CASE \E m \in Consumed(mem) :
                /\ mem' = m
                /\ IF BatchFull(m) THEN ReplenishFillRing("handle", worker.passes)
                   ELSE IF m.held # {} THEN Goto("handle")
                   ELSE ReplenishFillRing("loop", worker.passes)
    <2>1. mem' \in Consumed(mem) BY <1>2
    <2>2. \/ \E then \in {"handle", "loop"} : ReplenishFillRing(then, worker.passes)
          \/ Goto("handle")
      BY <1>2
    <2>3. Sound(mem') /\ Kept(Places \ {"slab", "held", "free"})
      BY <2>1, ConsumedFacts DEF Sound, Kept
    <2> QED BY <1>0, <2>2, <2>3, ReplenishFacts, GotoFacts DEF Replenishing
  <1>3. CASE open /\ mem["slab"] = {} /\ Goto("dequeue") /\ UNCHANGED mem
    BY <1>0, <1>3, GotoFacts DEF Kept
  <1> QED BY <1>1, <1>2, <1>3 DEF ReceiveTail

\* A batch at most is dequeued into the empty slab, and consumed from there.
LEMMA DequeueMem ==
  ASSUME QueueInv, Dequeue
  PROVE  /\ Sound(mem') /\ Kept(Places \ {"rx", "slab", "held", "free"})
         /\ worker'.passes \in 0..RxDrainPasses
         /\ \/ worker'.at \in {"handle", "stopped"}
            \/ /\ Replenishing({"handle", "loop"})
               /\ worker'.then = "loop" => worker'.passes < RxDrainPasses
  <1> USE InvSound
  <1>0. worker \in Workers BY DEF QueueInv, TypeOK
  <1>1. mem["slab"] = {} /\ worker.passes \in Nat /\ worker.passes < RxDrainPasses
    BY Sizes DEF QueueInv, SlabInv, ControlInv, Dequeue, TypeOK, Workers
  <1>2. PICK S \in kSubset(Min({BatchSize, Cardinality(mem["rx"])}), mem["rx"]) :
           LET taken == Move(mem, "rx", "slab", S)
               passes == worker.passes + (IF S = {} THEN 0 ELSE 1)
           IN  IF ~open THEN CloseReceive(taken)
               ELSE IF S = {} /\ mem.held # {} THEN Goto("handle") /\ UNCHANGED mem
               ELSE \E m \in Consumed(taken) :
                    /\ mem' = m
                    /\ IF BatchFull(m) THEN ReplenishFillRing("handle", passes)
                       ELSE IF passes < RxDrainPasses THEN ReplenishFillRing("loop", passes)
                       ELSE IF m.held # {} THEN Goto("handle")
                       ELSE ReplenishFillRing("loop", 0)
    BY DEF Dequeue
  <1> DEFINE taken == Move(mem, "rx", "slab", S)
             passes == worker.passes + (IF S = {} THEN 0 ELSE 1)
  <1>3. S \in SUBSET mem["rx"] /\ Cardinality(S) = Min({BatchSize, Cardinality(mem["rx"])})
    BY KSubset
  <1>4. "rx" \in Places /\ "slab" \in Places BY DEF Places
  <1>5. Cardinality(mem["rx"]) \in Nat BY <1>4, PlaceIsFinite DEF Sound
  <1>6. Cardinality(S) <= BatchSize /\ Cardinality(S) \in Nat
    <2> DEFINE b == Cardinality(mem["rx"])
    <2>1. b \in Nat /\ b \in Int /\ BatchSize \in Int /\ BatchSize \in Nat
          /\ Cardinality(S) = Min({BatchSize, b})
      BY <1>3, <1>5, Sizes
    <2> HIDE DEF b
    <2>2. Min({BatchSize, b}) \in {BatchSize, b} /\ Min({BatchSize, b}) <= BatchSize
      BY <2>1, MinOfTwo
    <2> QED BY <2>1, <2>2
  <1>7. Cardinality(mem["slab"]) + Cardinality(S) <= Limit["slab"]
    BY <1>1, <1>6, FS_EmptySet, Limited
  <1>8. Sound(taken) BY <1>3, <1>4, <1>7, MoveOwned, MoveFits DEF Sound
  <1>9. \A p \in Places \ {"rx", "slab"} : taken[p] = mem[p]
    BY <1>3, <1>4, MoveFacts DEF Sound, Owned
  <1>10. passes \in 0..RxDrainPasses BY <1>1, Sizes
  <1>11. CASE CloseReceive(taken)
    <2> HIDE DEF taken
    <2>1. Sound(mem') /\ (\A p \in Places \ {"slab", "free"} : mem'[p] = taken[p])
          /\ worker'.at \in {"handle", "stopped"} /\ worker'.passes = worker.passes
      BY <1>0, <1>8, <1>11, CloseReceiveMem
    <2>2. Kept(Places \ {"rx", "slab", "held", "free"}) BY <1>9, <2>1 DEF Kept
    <2> QED BY <1>1, <2>1, <2>2, Sizes
  <1>12. CASE Goto("handle") /\ UNCHANGED mem
    BY <1>0, <1>1, <1>12, GotoFacts, Sizes DEF Kept
  <1>13. CASE \E m \in Consumed(taken) :
                 /\ mem' = m
                 /\ IF BatchFull(m) THEN ReplenishFillRing("handle", passes)
                    ELSE IF passes < RxDrainPasses THEN ReplenishFillRing("loop", passes)
                    ELSE IF m.held # {} THEN Goto("handle")
                    ELSE ReplenishFillRing("loop", 0)
    <2> HIDE DEF taken, passes
    <2>1. mem' \in Consumed(taken) BY <1>13
    <2>2. \/ ReplenishFillRing("handle", passes)
          \/ passes < RxDrainPasses /\ ReplenishFillRing("loop", passes)
          \/ Goto("handle")
          \/ ReplenishFillRing("loop", 0)
      BY <1>13
    <2>3. Sound(mem') /\ Kept(Places \ {"rx", "slab", "held", "free"})
      BY <1>8, <1>9, <2>1, ConsumedFacts DEF Sound, Kept
    <2>4. /\ worker'.passes \in 0..RxDrainPasses
          /\ \/ worker'.at \in {"handle", "stopped"}
             \/ /\ Replenishing({"handle", "loop"})
                /\ worker'.then = "loop" => worker'.passes < RxDrainPasses
      <3>1. CASE ReplenishFillRing("handle", passes)
        BY <1>0, <1>10, <3>1, ReplenishFacts DEF Replenishing
      <3>2. CASE passes < RxDrainPasses /\ ReplenishFillRing("loop", passes)
        BY <1>0, <1>10, <3>2, ReplenishFacts DEF Replenishing
      <3>3. CASE Goto("handle") BY <1>0, <1>1, <3>3, GotoFacts, Sizes
      <3>4. CASE ReplenishFillRing("loop", 0)
        BY <1>0, <3>4, ReplenishFacts, Sizes DEF Replenishing
      <3> QED BY <2>2, <3>1, <3>2, <3>3, <3>4
    <2> QED BY <2>3, <2>4
  <1> QED BY <1>2, <1>11, <1>12, <1>13

\* The answers of a batch are staged into the empty slab.
LEMMA PrepareMem ==
  ASSUME QueueInv, Prepare
  PROVE  /\ Sound(mem') /\ Kept(Places \ {"held", "staged", "free"})
         /\ worker'.passes = worker.passes
         /\ (worker'.at \in {"finish", "failed"} /\ mem'["staged"] = {}) \/ worker'.at = "send"
  <1> USE InvSound
  <1>0. worker \in Workers BY DEF QueueInv, TypeOK
  <1>1. mem["staged"] = {} BY DEF QueueInv, SlabInv, Prepare, At
  <1>2. "held" \in Places /\ "staged" \in Places /\ "staged" \notin {"held", "free"} BY DEF Places
  <1>3. CASE \E S \in SUBSET mem["held"] :
                /\ mem' = ReleaseUnsentFrames(Move(mem, "held", "staged", S))
                /\ Goto(IF S = {} THEN "finish" ELSE "send")
    <2>1. PICK S \in SUBSET mem["held"] :
                /\ mem' = ReleaseUnsentFrames(Move(mem, "held", "staged", S))
                /\ Goto(IF S = {} THEN "finish" ELSE "send")
      BY <1>3
    <2> DEFINE m == Move(mem, "held", "staged", S)
    <2>2. Cardinality(S) <= Cardinality(mem["held"]) /\ Cardinality(mem["held"]) <= BatchSize
          /\ Cardinality(S) \in Nat /\ Cardinality(mem["held"]) \in Nat
      BY <1>2, PlaceIsFinite, Limited DEF Sound, Fits
    <2>3. Cardinality(mem["staged"]) + Cardinality(S) <= Limit["staged"]
      BY <1>1, <2>2, FS_EmptySet, Limited, Sizes
    <2>4. Sound(m) BY <1>2, <2>3, MoveOwned, MoveFits DEF Sound
    <2>5. /\ m["staged"] = mem["staged"] \union S
          /\ \A p \in Places \ {"held", "staged"} : m[p] = mem[p]
      BY <1>2, MoveFacts DEF Sound, Owned
    <2>6. mem' = ReleaseUnsentFrames(m) BY <2>1
    <2> HIDE DEF m
    <2>7. Sound(mem') /\ mem'["staged"] = S /\ Kept(Places \ {"held", "staged", "free"})
      BY <1>1, <1>2, <2>4, <2>5, <2>6, DrainFacts DEF Kept
    <2>8. (S = {} /\ Goto("finish")) \/ Goto("send") BY <2>1
    <2> QED BY <1>0, <2>7, <2>8, GotoFacts
  <1>4. CASE mem' = ReleaseUnsentFrames(mem) /\ Goto("failed")
    BY <1>0, <1>1, <1>2, <1>4, DrainFacts, GotoFacts DEF Kept
  <1> QED BY <1>3, <1>4 DEF Prepare

\* The TX ring admits what it has room for.
LEMMA RoomFits ==
  ASSUME QueueInv, NEW n \in Nat, n <= Room, NEW S \in kSubset(n, mem["staged"])
  PROVE  /\ Sound(Move(mem, "staged", "tx", S)) /\ n = Cardinality(S)
         /\ Move(mem, "staged", "tx", S)["tx"] = mem["tx"] \union S
         /\ \A p \in Places \ {"staged", "tx"} : Move(mem, "staged", "tx", S)[p] = mem[p]
  <1> USE InvSound
  <1>1. S \in SUBSET mem["staged"] /\ Cardinality(S) = n BY KSubset
  <1>2. "staged" \in Places /\ "tx" \in Places BY DEF Places
  <1>3. Cardinality(mem["staged"]) \in Nat /\ Cardinality(mem["tx"]) \in Nat
    BY <1>2, PlaceIsFinite DEF Sound
  <1>4. Room <= TxSize - Cardinality(mem["tx"]) /\ Room \in Int
    <2> DEFINE a == Cardinality(mem["staged"])
               b == TxSize - Cardinality(mem["tx"])
    <2>1. a \in Int /\ b \in Int /\ Room = Min({a, b}) BY <1>3, Sizes DEF Room
    <2> HIDE DEF a, b
    <2>2. Min({a, b}) \in {a, b} /\ Min({a, b}) <= b BY <2>1, MinOfTwo
    <2>3. Room <= b /\ Room \in Int BY <2>1, <2>2
    <2> QED BY <2>3 DEF b
  <1>5. Cardinality(mem["tx"]) + Cardinality(S) <= Limit["tx"]
    BY <1>1, <1>3, <1>4, Sizes, Limited
  <1>6. Sound(Move(mem, "staged", "tx", S))
    BY <1>1, <1>2, <1>5, MoveOwned, MoveFits DEF Sound
  <1> QED BY <1>1, <1>2, <1>6, MoveFacts DEF Sound, Owned

\* Room is a number.
LEMMA RoomType == QueueInv => Room \in Nat
  <1> SUFFICES ASSUME QueueInv PROVE Room \in Nat OBVIOUS
  <1>2. "staged" \in Places /\ "tx" \in Places BY DEF Places
  <1>3. Cardinality(mem["staged"]) \in Nat /\ Cardinality(mem["tx"]) \in Nat
    BY <1>2, InvSound, PlaceIsFinite DEF Sound
  <1>4. Cardinality(mem["tx"]) <= TxSize BY InvSound, Limited, <1>2 DEF Sound, Fits
  <1> DEFINE a == Cardinality(mem["staged"])
             b == TxSize - Cardinality(mem["tx"])
  <1>5. a \in Nat /\ b \in Nat /\ Room = Min({a, b}) BY <1>3, <1>4, Sizes DEF Room
  <1> HIDE DEF a, b
  <1>6. a \in Int /\ b \in Int BY <1>5
  <1>7. Min({a, b}) \in {a, b} BY <1>6, MinOfTwo
  <1> QED BY <1>5, <1>7

\* A part of the batch is published, a failure behind it recycles the rest.
LEMMA SendMem ==
  ASSUME QueueInv, Send \/ SendFails
  PROVE  /\ Sound(mem') /\ Kept(Places \ {"staged", "tx", "free"})
         /\ worker'.passes = worker.passes
         /\ \/ Send /\ worker'.at = "published"
            \/ /\ SendFails /\ worker'.at \in {"top", "failed"} /\ mem'["staged"] = {}
               /\ txKick' \/ mem'["tx"] = mem["tx"]
               /\ txKick => txKick'
  <1> USE InvSound
  <1>0. worker \in Workers /\ txKick \in BOOLEAN BY DEF QueueInv, TypeOK
  <1>a. "tx" \in Places /\ "staged" \in Places BY DEF Places
  <1>1. CASE Send
    <2>1. PICK S \in kSubset(Room, mem["staged"]) : mem' = Move(mem, "staged", "tx", S)
      BY <1>1 DEF Send
    <2>2. Room \in Nat /\ Room <= Room BY RoomType
    <2>3. Sound(mem') /\ Kept(Places \ {"staged", "tx", "free"})
      BY <2>1, <2>2, RoomFits DEF Kept
    <2>4. Goto("published") BY <1>1 DEF Send
    <2> QED BY <1>0, <1>1, <2>3, <2>4, GotoFacts
  <1>2. CASE SendFails
    <2>n. PICK n \in 0..Room : \E S \in kSubset(n, mem["staged"]) :
             /\ ReturnError(Move(mem, "staged", "tx", S))
             /\ txKick' = (txKick \/ n > 0)
      BY <1>2 DEF SendFails
    <2>1. PICK S \in kSubset(n, mem["staged"]) :
             /\ ReturnError(Move(mem, "staged", "tx", S))
             /\ txKick' = (txKick \/ n > 0)
      BY <2>n
    <2> DEFINE m == Move(mem, "staged", "tx", S)
    <2>2. n \in Nat /\ n <= Room BY RoomType
    <2>3. /\ Sound(m) /\ n = Cardinality(S) /\ m["tx"] = mem["tx"] \union S
          /\ \A p \in Places \ {"staged", "tx"} : m[p] = mem[p]
      BY <2>2, RoomFits
    <2>4. mem' = DrainTxSlab(m) /\ \E to \in {"top", "failed"} : Goto(to)
      BY <2>1 DEF ReturnError
    <2> HIDE DEF m
    <2>5. /\ Sound(mem') /\ mem'["staged"] = {}
          /\ \A p \in Places \ {"staged", "free"} : mem'[p] = m[p]
      BY <2>3, <2>4, DrainFacts
    <2>6. Kept(Places \ {"staged", "tx", "free"}) /\ mem'["tx"] = mem["tx"] \union S
      BY <1>a, <2>3, <2>5 DEF Kept
    <2>7. IsFiniteSet(S) BY <1>a, <2>1, KSubset, PlaceIsFinite DEF Sound
    <2>8. n > 0 \/ S = {} BY <2>2, <2>3, <2>7, FS_EmptySet
    <2>9. txKick' \/ mem'["tx"] = mem["tx"] BY <2>1, <2>6, <2>8
    <2> QED BY <1>0, <1>2, <2>1, <2>4, <2>5, <2>6, <2>9, GotoFacts
  <1> QED BY <1>1, <1>2

\* Completions are drained on the way through a batch.
LEMMA SendingMem ==
  ASSUME QueueInv, SendBlocks \/ Sent
  PROVE  /\ Sound(mem') /\ Kept(Places \ {"completion", "free"})
         /\ worker'.passes = worker.passes
         /\ \/ worker'.at \in {"full", "send"}
            \/ worker'.at = "finish" /\ mem'["staged"] = {}
  <1>0. worker \in Workers BY DEF QueueInv, TypeOK
  <1>1. "staged" \in Places \ {"completion", "free"} BY DEF Places
  <1>2. mem' = DrainCompletions(mem) BY DEF SendBlocks, Sent
  <1>3. Goto("full") \/ Goto("send") \/ (mem["staged"] = {} /\ Goto("finish"))
    BY DEF SendBlocks, Sent
  <1> QED BY <1>0, <1>1, <1>2, <1>3, DrainFacts, InvSound, GotoFacts DEF Kept

-----------------------------------------------------------------------------
(* The invariant is preserved.                                             *)

\* Goto leaves a worker.
LEMMA GotoType ==
  ASSUME worker \in Workers, NEW a \in Pcs, Goto(a) PROVE worker' \in Workers
  BY DEF Goto, Workers

\* A kick that is tried or skipped leaves a worker.
LEMMA ServiceType ==
  ASSUME worker \in Workers, NEW b \in BOOLEAN, NEW n \in Nexts, n \in Pcs, NEW m,
         ServiceTxKick(m, b, n) \/ ServiceFillKick(b, n)
  PROVE  worker' \in Workers
  <1>1. PICK a \in Pcs : worker' = [worker EXCEPT !.at = a, !.next = n, !.tries = 0, !.lossy = FALSE]
    <2>1. {"tx", "fill"} \subseteq Pcs BY DEF Pcs
    <2> QED BY <2>1 DEF ServiceTxKick, ServiceFillKick
  <1>2. 0 \in 0..KickAttempts - 1 BY Sizes
  <1> QED BY <1>1, <1>2 DEF Workers

\* replenish_fill_ring leaves a worker.
LEMMA ReplenishType ==
  ASSUME worker \in Workers, NEW t \in Thens, NEW p \in 0..RxDrainPasses,
         ReplenishFillRing(t, p)
  PROVE  worker' \in Workers
  <1>1. PICK a \in Pcs : worker' = [worker EXCEPT !.at = a, !.next = "refill", !.then = t,
                              !.tries = 0, !.lossy = FALSE, !.passes = p, !.request = FillSize]
    <2>1. {"refill", "fill"} \subseteq Pcs BY DEF Pcs
    <2> QED BY <2>1 DEF ReplenishFillRing
  <1>2. 0 \in 0..KickAttempts - 1 /\ "refill" \in Nexts /\ FillSize \in 0..FillSize
    BY Sizes DEF Nexts
  <1> QED BY <1>1, <1>2 DEF Workers

\* Another attempt of a kick, or the end of them, leaves a worker.
LEMMA TryAgainType ==
  ASSUME worker \in Workers, NEW b \in BOOLEAN, NEW m, TryAgain(m, b)
  PROVE  worker' \in Workers
  <1>1. CASE worker.tries + 1 >= KickAttempts
    <2>1. "top" \in Pcs /\ Goto("top") BY <1>1 DEF TryAgain, Pcs
    <2> QED BY <2>1, GotoType
  <1>2. CASE ~(worker.tries + 1 >= KickAttempts)
    <2>1. worker' = [worker EXCEPT !.tries = @ + 1, !.lossy = b] BY <1>2 DEF TryAgain
    <2>2. worker.tries + 1 \in 0..KickAttempts - 1 BY <1>2, Sizes DEF Workers
    <2> QED BY <2>1, <2>2 DEF Workers
  <1> QED BY <1>1, <1>2

\* A receive that the shutdown ends leaves a worker.
LEMMA CloseReceiveType ==
  ASSUME worker \in Workers, NEW m, CloseReceive(m) PROVE worker' \in Workers
  <1>1. {"handle", "stopped"} \subseteq Pcs BY DEF Pcs
  <1> QED BY <1>1, GotoType DEF CloseReceive

\* The frames stay sound.
LEMMA SoundStep == QueueInv /\ [Next]_vars => Sound(mem')
  <1> SUFFICES ASSUME QueueInv, [Next]_vars PROVE Sound(mem') OBVIOUS
  <1>1. CASE DriverFill BY <1>1, DriverFillMem
  <1>2. CASE DriverReceive BY <1>2, DriverReceiveMem
  <1>3. CASE DriverTransmit BY <1>3, DriverTransmitMem
  <1>4. CASE Close \/ Stop \/ MarkFill BY <1>4, InvSound DEF Close, Stop, MarkFill
  <1>5. CASE ServicePendingTxKick BY <1>5, TxKickMem
  <1>6. CASE ServicePendingFillKick BY <1>6, FillKickMem
  <1>7. CASE Refill BY <1>7, RefillMem
  <1>8. CASE Top \/ Handle \/ MarkTx BY <1>8, KickingMem
  <1>9. CASE Receive \/ Finish BY <1>9, ReleasingMem
  <1>10. CASE ReceiveTail BY <1>10, ReceiveTailMem
  <1>11. CASE Dequeue BY <1>11, DequeueMem
  <1>12. CASE Prepare BY <1>12, PrepareMem
  <1>13. CASE Send \/ SendFails BY <1>13, SendMem
  <1>14. CASE SendBlocks \/ Sent BY <1>14, SendingMem
  <1>15. CASE UNCHANGED vars BY <1>15, InvSound DEF vars
  <1> QED BY <1>1, <1>2, <1>3, <1>4, <1>5, <1>6, <1>7, <1>8, <1>9, <1>10, <1>11, <1>12,
             <1>13, <1>14, <1>15 DEF Next

\* The worker's fields keep their types.
LEMMA WorkerStep == QueueInv /\ [Next]_vars => worker' \in Workers
  <1> SUFFICES ASSUME QueueInv, [Next]_vars PROVE worker' \in Workers OBVIOUS
  <1>0. worker \in Workers /\ txKick \in BOOLEAN /\ fillKick \in BOOLEAN
    BY DEF QueueInv, TypeOK
  <1>a. /\ worker.next \in Nexts /\ worker.next \in Pcs /\ worker.then \in Thens
        /\ worker.then \in Nexts /\ worker.then \in Pcs /\ worker.lossy \in BOOLEAN
        /\ worker.passes \in 0..RxDrainPasses /\ worker.request \in 0..FillSize
    BY <1>0 DEF Workers, Nexts, Pcs, Thens
  <1>b. /\ {"top", "receive", "loop", "dequeue", "handle", "prepare", "send", "full", "published",
            "sent", "finish", "stopped", "failed"} \subseteq Pcs
        /\ {"receive", "prepare", "sent"} \subseteq Nexts
        /\ {"top", "loop", "handle"} \subseteq Thens /\ 0 \in 0..RxDrainPasses
        /\ TRUE \in BOOLEAN /\ FALSE \in BOOLEAN
    BY Sizes DEF Pcs, Nexts, Thens
  <1>1. CASE DriverFill \/ DriverReceive \/ DriverTransmit \/ Close
    BY <1>0, <1>1 DEF DriverFill, DriverReceive, DriverTransmit, Close
  <1>2. CASE Stop BY <1>0, <1>2, <1>b, GotoType DEF Stop
  <1>3. CASE ServicePendingTxKick
    <2>1. CASE \E to \in {"top", "failed", worker.next} : Goto(to)
      BY <1>0, <1>a, <1>b, <2>1, GotoType
    <2>2. CASE TryAgain(DrainCompletions(mem), worker.lossy)
      BY <1>0, <1>a, <1>b, <2>2, TryAgainType
    <2>3. CASE \E f \in mem["tx"] :
                  TryAgain(DrainCompletions(Move(mem, "tx", "completion", {f})), TRUE)
      BY <1>0, <1>a, <1>b, <2>3, TryAgainType
    <2> QED BY <1>3, <2>1, <2>2, <2>3 DEF ServicePendingTxKick
  <1>4. CASE ServicePendingFillKick
    <2>1. CASE \E to \in {"failed", worker.next} : Goto(to)
      BY <1>0, <1>a, <1>b, <2>1, GotoType
    <2>2. CASE TryAgain(mem, FALSE) BY <1>0, <1>b, <2>2, TryAgainType
    <2> QED BY <1>4, <2>1, <2>2 DEF ServicePendingFillKick
  <1>5. CASE Refill
    <2>0. "marking" \in Pcs /\ 0 \in 0..FillSize /\ worker.request \div 2 \in 0..FillSize
      BY <1>a, Sizes DEF Pcs
    <2>1. CASE worker' = [worker EXCEPT !.request = @ \div 2]
      BY <1>0, <2>0, <2>1 DEF Workers
    <2>2. CASE worker' = [worker EXCEPT !.at = "marking", !.queued = 0]
      BY <1>0, <2>0, <2>2 DEF Workers
    <2>3. CASE LET n == Min({worker.request, Cardinality(mem["free"])})
               IN  Enqueue(n) /\ worker' = [worker EXCEPT !.at = "marking", !.queued = n]
      <3> DEFINE c == Cardinality(mem["free"])
                 n == Min({worker.request, c})
      <3>1. c \in Nat /\ Cardinality(mem["fill"]) \in Nat
        BY InvSound, PlaceIsFinite DEF Sound, Places
      <3>2. n > 0 /\ n <= FillSize - Cardinality(mem["fill"])
            /\ worker' = [worker EXCEPT !.at = "marking", !.queued = n]
        BY <2>3 DEF Enqueue
      <3>3. c \in Int /\ worker.request \in Int BY <3>1, <1>a
      <3> HIDE DEF c
      <3>4. n \in {worker.request, c} BY <3>3, MinOfTwo
      <3> HIDE DEF n
      <3>5. n \in 0..FillSize BY <1>a, <3>1, <3>2, <3>4, Sizes
      <3> QED BY <1>0, <2>0, <3>2, <3>5 DEF Workers
    <2> QED BY <1>5, <2>1, <2>2, <2>3 DEF Refill
  <1>6. CASE MarkFill
    <2>1. fillKick' \in BOOLEAN BY <1>0, <1>6, Sizes DEF MarkFill, NeedsWakeup
    <2> QED BY <1>0, <1>6, <1>a, <1>b, <2>1, ServiceType DEF MarkFill
  <1>7. CASE Top
    BY <1>0, <1>7, <1>b, GotoType, ServiceType DEF Top
  <1>8. CASE Handle BY <1>0, <1>8, <1>b, ServiceType DEF Handle
  <1>9. CASE MarkTx
    <2>1. txKick' \in BOOLEAN BY <1>0, <1>9, Sizes DEF MarkTx, NeedsWakeup
    <2> QED BY <1>0, <1>9, <1>b, <2>1, ServiceType DEF MarkTx
  <1>10. CASE Receive BY <1>0, <1>10, <1>b, ReplenishType DEF Receive
  <1>11. CASE Finish BY <1>0, <1>11, <1>b, ReplenishType DEF Finish
  <1>12. CASE ReceiveTail
    <2>1. \/ CloseReceive(mem) \/ \E to \in {"handle", "dequeue"} : Goto(to)
          \/ \E then \in {"handle", "loop"} : ReplenishFillRing(then, worker.passes)
      BY <1>12 DEF ReceiveTail
    <2> QED BY <1>0, <1>a, <1>b, <2>1, GotoType, ReplenishType, CloseReceiveType
  <1>13. CASE Dequeue
    <2>1. PICK S \in kSubset(Min({BatchSize, Cardinality(mem["rx"])}), mem["rx"]) :
             \/ CloseReceive(Move(mem, "rx", "slab", S)) \/ Goto("handle")
             \/ \E then \in {"handle", "loop"} :
                   ReplenishFillRing(then, worker.passes + (IF S = {} THEN 0 ELSE 1))
             \/ ReplenishFillRing("loop", 0)
      BY <1>13 DEF Dequeue
    <2>2. worker.passes < RxDrainPasses BY <1>13 DEF QueueInv, ControlInv, Dequeue
    <2>3. worker.passes + (IF S = {} THEN 0 ELSE 1) \in 0..RxDrainPasses
      BY <1>a, <2>2, Sizes
    <2> QED BY <1>0, <1>a, <1>b, <2>1, <2>3, GotoType, ReplenishType, CloseReceiveType
  <1>14. CASE Prepare
    <2>1. \E to \in {"finish", "send", "failed"} : Goto(to) BY <1>14 DEF Prepare
    <2> QED BY <1>0, <1>a, <1>b, <2>1, GotoType
  <1>15. CASE Send \/ SendFails \/ SendBlocks \/ Sent
    <2>1. \E to \in {"finish", "send", "failed", "top", "full", "published"} : Goto(to)
      BY <1>15 DEF Send, SendFails, SendBlocks, Sent, ReturnError
    <2> QED BY <1>0, <1>a, <1>b, <2>1, GotoType
  <1>16. CASE UNCHANGED vars BY <1>0, <1>16 DEF vars
  <1> QED BY <1>1, <1>2, <1>3, <1>4, <1>5, <1>6, <1>7, <1>8, <1>9, <1>10, <1>11, <1>12,
             <1>13, <1>14, <1>15, <1>16 DEF Next

\* The flags keep their types.
LEMMA TypeStep == QueueInv /\ [Next]_vars => TypeOK'
  <1> SUFFICES ASSUME QueueInv, [Next]_vars PROVE TypeOK' OBVIOUS
  <1>0. /\ {txKick, fillKick, open} \subseteq BOOLEAN /\ {txDriver, fillDriver} \subseteq DriverStates
        /\ Conditional \in BOOLEAN
    BY Sizes DEF QueueInv, TypeOK
  <1>1. mem' \in [Places -> SUBSET Frames] BY SoundStep DEF Sound, Owned
  <1>2. worker' \in Workers BY WorkerStep
  <1>3. {txKick', fillKick', open'} \subseteq BOOLEAN
    <2>1. CASE MarkFill BY <1>0, <2>1 DEF MarkFill, NeedsWakeup
    <2>2. CASE MarkTx BY <1>0, <2>2 DEF MarkTx, NeedsWakeup
    <2>3. CASE SendFails BY <1>0, <2>3 DEF SendFails
    <2>4. CASE ServicePendingTxKick \/ ServicePendingFillKick
      BY <1>0, <2>4 DEF ServicePendingTxKick, ServicePendingFillKick
    <2>5. CASE UNCHANGED kicks /\ open' \in BOOLEAN BY <1>0, <2>5 DEF kicks
    <2>6. CASE ~(MarkFill \/ MarkTx \/ SendFails \/ ServicePendingTxKick \/ ServicePendingFillKick)
      <3>1. UNCHANGED kicks /\ open' \in BOOLEAN
        BY <1>0, <2>6 DEF Next, vars, kicks, DriverFill, DriverReceive, DriverTransmit, Close, Stop,
           Refill, Top, Receive, ReceiveTail, Dequeue, Handle, Prepare, Send, SendBlocks, Sent, Finish
      <3> QED BY <2>5, <3>1
    <2> QED BY <2>1, <2>2, <2>3, <2>4, <2>6
  <1>4. {txDriver', fillDriver'} \subseteq DriverStates
    <2>1. CASE DriverFill BY <1>0, <2>1 DEF DriverFill, DriverStates
    <2>2. CASE DriverReceive BY <1>0, <2>2 DEF DriverReceive, DriverStates
    <2>3. CASE DriverTransmit BY <1>0, <2>3 DEF DriverTransmit, DriverStates
    <2>4. CASE ServicePendingTxKick \/ ServicePendingFillKick
      BY <1>0, <2>4 DEF ServicePendingTxKick, ServicePendingFillKick, DriverStates
    <2>5. CASE UNCHANGED drivers BY <1>0, <2>5 DEF drivers
    <2>6. CASE ~(DriverFill \/ DriverReceive \/ DriverTransmit \/ ServicePendingTxKick
                   \/ ServicePendingFillKick)
      <3>1. UNCHANGED drivers
        BY <2>6 DEF Next, vars, drivers, Close, Stop, Refill, MarkFill, Top, Receive, ReceiveTail,
           Dequeue, Handle, Prepare, Send, SendFails, SendBlocks, MarkTx, Sent, Finish
      <3> QED BY <2>5, <3>1
    <2> QED BY <2>1, <2>2, <2>3, <2>4, <2>6
  <1> QED BY <1>1, <1>2, <1>3, <1>4 DEF TypeOK

\* A refill and its mark change only where the worker is and how far it has come.
LEMMA RefillFacts ==
  ASSUME QueueInv, Refill \/ MarkFill
  PROVE  /\ worker'.then = worker.then /\ worker'.passes = worker.passes
         /\ Refill => worker'.at \in {"refill", "marking"} /\ worker'.next = worker.next
         /\ MarkFill => /\ worker'.at \in {"fill", worker.then} /\ worker'.next = worker.then
                        /\ worker'.queued = worker.queued
  <1>0. worker \in Workers BY DEF QueueInv, TypeOK
  <1>1. CASE Refill
    <2>1. \/ worker' = [worker EXCEPT !.request = @ \div 2]
          \/ \E n : worker' = [worker EXCEPT !.at = "marking", !.queued = n]
      BY <1>1 DEF Refill
    <2>2. worker.at = "refill" BY <1>1 DEF Refill, At
    <2>3. ~MarkFill BY <2>2 DEF MarkFill, At
    <2> QED BY <1>0, <2>1, <2>2, <2>3 DEF Workers
  <1>2. CASE MarkFill
    <2>1. \E a \in {"fill", worker.then} :
             worker' = [worker EXCEPT !.at = a, !.next = worker.then, !.tries = 0, !.lossy = FALSE]
      BY <1>2 DEF MarkFill, ServiceFillKick
    <2>2. ~Refill BY <1>2 DEF MarkFill, At, Refill
    <2> QED BY <1>0, <2>1, <2>2 DEF Workers
  <1> QED BY <1>1, <1>2

\* A kick keeps the worker's plans.
LEMMA KickFacts ==
  ASSUME QueueInv, ServicePendingTxKick \/ ServicePendingFillKick
  PROVE  /\ worker'.then = worker.then /\ worker'.passes = worker.passes
         /\ worker'.request = worker.request
  <1>0. worker \in Workers BY DEF QueueInv, TypeOK
  <1>1. \/ \E a : worker' = [worker EXCEPT !.at = a]
        \/ \E l : worker' = [worker EXCEPT !.tries = @ + 1, !.lossy = l]
    BY DEF ServicePendingTxKick, ServicePendingFillKick, TryAgain, Goto
  <1> QED BY <1>0, <1>1 DEF Workers

\* The worker returns to where it was called from.
LEMMA ControlStep == QueueInv /\ [Next]_vars => ControlInv'
  <1> SUFFICES ASSUME QueueInv, [Next]_vars PROVE ControlInv' OBVIOUS
  <1>0. worker \in Workers /\ ControlInv BY DEF QueueInv, TypeOK
  <1>p. worker.then \in Thens /\ worker.next \in Nexts BY <1>0 DEF Workers
  <1>1. CASE UNCHANGED worker BY <1>0, <1>1 DEF ControlInv, At
  <1>2. CASE Stop
    <2>1. worker'.at = "stopped" BY <1>0, <1>2, GotoFacts DEF Stop
    <2> QED BY <2>1 DEF ControlInv, At
  <1>3. CASE ServicePendingTxKick
    <2>1. worker.at = "tx" BY <1>3 DEF ServicePendingTxKick, At
    <2>2. worker.next \in {"receive", "prepare", "sent"} BY <1>0, <2>1 DEF ControlInv, At
    <2>3. worker'.at \in {"top", "failed", "tx", worker.next} /\ worker'.next = worker.next
      BY <1>3, TxKickMem
    <2> QED BY <2>2, <2>3 DEF ControlInv, At
  <1>4. CASE ServicePendingFillKick
    <2>1. worker.at = "fill" BY <1>4 DEF ServicePendingFillKick, At
    <2>2. worker'.at \in {"top", "failed", "fill", worker.next} /\ worker'.next = worker.next
      BY <1>4, FillKickMem
    <2>3. worker'.then = worker.then /\ worker'.passes = worker.passes
          /\ worker'.request = worker.request
      BY <1>4, KickFacts
    <2> QED BY <1>0, <1>p, <2>1, <2>2, <2>3 DEF ControlInv, At, Thens
  <1>5. CASE Refill
    <2>1. worker.at = "refill" BY <1>5 DEF Refill, At
    <2> QED BY <1>0, <1>5, <2>1, RefillFacts DEF ControlInv, At
  <1>6. CASE MarkFill
    <2>1. worker.at = "marking" BY <1>6 DEF MarkFill, At
    <2> QED BY <1>0, <1>6, <1>p, <2>1, RefillFacts DEF ControlInv, At, Thens
  <1>7. CASE Top \/ Handle \/ MarkTx BY <1>7, KickingMem DEF ControlInv, At
  <1>8. CASE Receive \/ Finish BY <1>8, ReleasingMem, Sizes DEF ControlInv, At
  <1>9. CASE ReceiveTail
    <2>1. worker.at = "loop" BY <1>9 DEF ReceiveTail, At
    <2> QED BY <1>0, <1>9, <2>1, ReceiveTailMem DEF ControlInv, At, Replenishing
  <1>10. CASE Dequeue BY <1>10, DequeueMem DEF ControlInv, At, Replenishing
  <1>11. CASE Prepare BY <1>11, PrepareMem DEF ControlInv, At
  <1>12. CASE Send \/ SendFails BY <1>12, SendMem DEF ControlInv, At
  <1>13. CASE SendBlocks \/ Sent BY <1>13, SendingMem DEF ControlInv, At
  <1> QED BY <1>1, <1>2, <1>3, <1>4, <1>5, <1>6, <1>7, <1>8, <1>9, <1>10, <1>11, <1>12, <1>13
          DEF Next, vars, DriverFill, DriverReceive, DriverTransmit, Close

\* Staged frames belong to a send under way; the RX ring is dequeued into an empty slab.
LEMMA SlabStep == QueueInv /\ [Next]_vars => SlabInv'
  <1> SUFFICES ASSUME QueueInv, [Next]_vars PROVE SlabInv' OBVIOUS
  <1>0. worker \in Workers /\ ControlInv /\ SlabInv BY DEF QueueInv, TypeOK
  <1>p. worker.then \in Thens /\ worker.next \in Nexts BY <1>0 DEF Workers
  <1>q. {"staged", "slab"} \subseteq Places \ {"fill", "hw", "rx", "tx", "completion", "held", "free"}
    BY DEF Places
  <1>1. CASE DriverFill
    <2>1. UNCHANGED worker BY <1>1 DEF DriverFill
    <2> QED BY <1>0, <1>1, <1>q, <2>1, DriverFillMem DEF SlabInv, At, Kept
  <1>2. CASE DriverReceive
    <2>1. UNCHANGED worker BY <1>2 DEF DriverReceive
    <2> QED BY <1>0, <1>2, <1>q, <2>1, DriverReceiveMem DEF SlabInv, At, Kept
  <1>3. CASE DriverTransmit
    <2>1. UNCHANGED worker BY <1>3 DEF DriverTransmit
    <2> QED BY <1>0, <1>3, <1>q, <2>1, DriverTransmitMem DEF SlabInv, At, Kept
  <1>4. CASE Stop
    <2>1. worker'.at = "stopped" /\ UNCHANGED mem BY <1>0, <1>4, GotoFacts DEF Stop
    <2> QED BY <2>1 DEF SlabInv, At
  <1>5. CASE ServicePendingTxKick
    <2>1. worker.at = "tx" /\ worker.next \in {"receive", "prepare", "sent"}
      BY <1>0, <1>5 DEF ServicePendingTxKick, At, ControlInv
    <2> QED BY <1>0, <1>5, <2>1, TxKickMem DEF SlabInv, At
  <1>6. CASE ServicePendingFillKick
    <2>1. worker.at = "fill" BY <1>6 DEF ServicePendingFillKick, At
    <2>2. mem["staged"] = {} BY <1>0, <2>1 DEF SlabInv, At
    <2>3. worker.next \in {"refill"} \union Thens BY <1>0, <1>p, <2>1 DEF ControlInv, At
    <2> QED BY <1>6, <2>2, <2>3, FillKickMem DEF SlabInv, At, Thens
  <1>7. CASE Refill
    <2>1. worker.at = "refill" BY <1>7 DEF Refill, At
    <2>2. mem["staged"] = {} BY <1>0, <2>1 DEF SlabInv, At
    <2> QED BY <1>7, <1>q, <2>2, RefillMem, RefillFacts DEF SlabInv, At, Kept
  <1>8. CASE MarkFill
    <2>1. worker.at = "marking" /\ UNCHANGED mem BY <1>8 DEF MarkFill, At
    <2>2. mem["staged"] = {} BY <1>0, <2>1 DEF SlabInv, At
    <2> QED BY <1>8, <1>p, <2>1, <2>2, RefillFacts DEF SlabInv, At, Thens
  <1>9. CASE Top \/ Handle \/ MarkTx
    BY <1>0, <1>9, <1>q, KickingMem DEF SlabInv, At, Kept
  <1>10. CASE Receive \/ Finish
    <2>1. mem["staged"] = {} BY <1>0, <1>10 DEF SlabInv, Receive, Finish, At
    <2> QED BY <1>10, <1>q, <2>1, ReleasingMem DEF SlabInv, At, Kept
  <1>11. CASE ReceiveTail
    <2>1. mem["staged"] = {} BY <1>0, <1>11 DEF SlabInv, ReceiveTail, At
    <2> QED BY <1>11, <1>q, <2>1, ReceiveTailMem DEF SlabInv, At, Kept, Replenishing
  <1>12. CASE Dequeue
    <2>1. mem["staged"] = {} BY <1>0, <1>12 DEF SlabInv, Dequeue, At
    <2> QED BY <1>12, <1>q, <2>1, DequeueMem DEF SlabInv, At, Kept, Replenishing
  <1>13. CASE Prepare BY <1>13, PrepareMem DEF SlabInv, At
  <1>14. CASE Send \/ SendFails BY <1>14, SendMem DEF SlabInv, At
  <1>15. CASE SendBlocks \/ Sent BY <1>15, SendingMem DEF SlabInv, At
  <1>16. CASE UNCHANGED <<mem, worker>> BY <1>0, <1>16 DEF SlabInv, At
  <1> QED BY <1>1, <1>2, <1>3, <1>4, <1>5, <1>6, <1>7, <1>8, <1>9, <1>10, <1>11, <1>12, <1>13,
             <1>14, <1>15, <1>16
          DEF Next, vars, Close

\* A TX descriptor beside a sleeping driver has its wake-up: the TX half of KickInv.
TxAwake == txDriver = "asleep" /\ mem["tx"] # {} => txKick \/ At("published")

\* Descriptors are published before the flag is looked at, and the driver looks at the ring after
\* it has set the flag: no step loses the TX wake-up.
LEMMA TxAwakeStep == QueueInv /\ [Next]_vars => TxAwake'
  <1> SUFFICES ASSUME QueueInv, [Next]_vars PROVE TxAwake' OBVIOUS
  <1>0. worker \in Workers /\ TxAwake /\ txKick \in BOOLEAN
    BY DEF QueueInv, TypeOK, KickInv, TxAwake
  <1>q. "tx" \in Places \ {"fill", "hw", "rx", "completion", "held", "free", "slab", "staged"}
    BY DEF Places
  <1>1. CASE DriverFill
    <2>1. UNCHANGED <<worker, txKick, txDriver>> BY <1>1 DEF DriverFill, kicks
    <2> QED BY <1>0, <1>1, <1>q, <2>1, DriverFillMem DEF TxAwake, At, Kept
  <1>2. CASE DriverReceive
    <2>1. UNCHANGED <<worker, txKick, txDriver>> BY <1>2 DEF DriverReceive, kicks
    <2> QED BY <1>0, <1>2, <1>q, <2>1, DriverReceiveMem DEF TxAwake, At, Kept
  <1>3. CASE DriverTransmit
    <2>1. UNCHANGED <<worker, txKick>> BY <1>3 DEF DriverTransmit, kicks
    <2>2. txDriver' = "asleep" => mem'["tx"] = {} BY <1>3 DEF DriverTransmit
    <2> QED BY <2>1, <2>2 DEF TxAwake
  <1>4. CASE Stop
    <2>1. worker.at # "published" /\ UNCHANGED <<mem, txKick, txDriver>>
      BY <1>4 DEF Stop, At, kicks, drivers
    <2> QED BY <1>0, <2>1 DEF TxAwake, At
  <1>5. CASE ServicePendingTxKick
    <2>1. worker.at # "published" BY <1>5 DEF ServicePendingTxKick, At
    <2>2. txDriver' = "polling" \/ UNCHANGED <<txKick, txDriver>>
      BY <1>5 DEF ServicePendingTxKick
    <2> QED BY <1>0, <1>5, <2>1, <2>2, TxKickMem DEF TxAwake, At
  <1>6. CASE ServicePendingFillKick
    <2>1. worker.at # "published" /\ UNCHANGED <<txKick, txDriver>>
      BY <1>6 DEF ServicePendingFillKick, At
    <2> QED BY <1>0, <1>6, <1>q, <2>1, FillKickMem DEF TxAwake, At, Kept
  <1>7. CASE Refill
    <2>1. worker.at # "published" /\ UNCHANGED <<txKick, txDriver>>
      BY <1>7 DEF Refill, At, kicks, drivers
    <2> QED BY <1>0, <1>7, <1>q, <2>1, RefillMem DEF TxAwake, At, Kept
  <1>8. CASE MarkFill
    <2>1. worker.at # "published" /\ UNCHANGED <<mem, txKick, txDriver>>
      BY <1>8 DEF MarkFill, At, drivers
    <2> QED BY <1>0, <2>1 DEF TxAwake, At
  <1>9. CASE Top \/ Handle
    <2>1. worker.at # "published" /\ UNCHANGED <<txKick, txDriver>>
      BY <1>9 DEF Top, Handle, At, kicks, drivers
    <2> QED BY <1>0, <1>9, <1>q, <2>1, KickingMem DEF TxAwake, At, Kept
  <1>10. CASE MarkTx
    <2>1. txDriver' = "asleep" => txKick' BY <1>10 DEF MarkTx, NeedsWakeup, drivers
    <2> QED BY <2>1 DEF TxAwake
  <1>11. CASE Receive \/ Finish
    <2>1. worker.at # "published" /\ UNCHANGED <<txKick, txDriver>>
      BY <1>11 DEF Receive, Finish, At, kicks, drivers
    <2> QED BY <1>0, <1>11, <1>q, <2>1, ReleasingMem DEF TxAwake, At, Kept
  <1>12. CASE ReceiveTail
    <2>1. worker.at # "published" /\ UNCHANGED <<txKick, txDriver>>
      BY <1>12 DEF ReceiveTail, At, kicks, drivers
    <2> QED BY <1>0, <1>12, <1>q, <2>1, ReceiveTailMem DEF TxAwake, At, Kept
  <1>13. CASE Dequeue
    <2>1. worker.at # "published" /\ UNCHANGED <<txKick, txDriver>>
      BY <1>13 DEF Dequeue, At, kicks, drivers
    <2> QED BY <1>0, <1>13, <1>q, <2>1, DequeueMem DEF TxAwake, At, Kept
  <1>14. CASE Prepare
    <2>1. worker.at # "published" /\ UNCHANGED <<txKick, txDriver>>
      BY <1>14 DEF Prepare, At, kicks, drivers
    <2> QED BY <1>0, <1>14, <1>q, <2>1, PrepareMem DEF TxAwake, At, Kept
  <1>15. CASE Send \/ SendFails
    <2>1. worker.at # "published" /\ UNCHANGED txDriver
      BY <1>15 DEF Send, SendFails, At, drivers
    <2> QED BY <1>0, <1>15, <2>1, SendMem DEF TxAwake, At
  <1>16. CASE SendBlocks \/ Sent
    <2>1. worker.at # "published" /\ UNCHANGED <<txKick, txDriver>>
      BY <1>16 DEF SendBlocks, Sent, At, kicks, drivers
    <2> QED BY <1>0, <1>16, <1>q, <2>1, SendingMem DEF TxAwake, At, Kept
  <1>17. CASE UNCHANGED <<mem, worker, txKick, txDriver>> BY <1>0, <1>17 DEF TxAwake, At
  <1> QED BY <1>1, <1>2, <1>3, <1>4, <1>5, <1>6, <1>7, <1>8, <1>9, <1>10, <1>11, <1>12, <1>13,
             <1>14, <1>15, <1>16, <1>17
          DEF Next, vars, Close, kicks, drivers

\* What the steps beside the driver's, a kick, a refill and its mark have in common.
LEMMA FillAlone ==
  ASSUME QueueInv,
         \/ DriverTransmit \/ Close \/ Stop \/ ServicePendingTxKick \/ Top \/ Receive
         \/ ReceiveTail \/ Dequeue \/ Handle \/ Prepare \/ Send \/ SendFails \/ SendBlocks
         \/ MarkTx \/ Sent \/ Finish
  PROVE  /\ mem'["fill"] = mem["fill"] /\ mem'["hw"] = mem["hw"]
         /\ UNCHANGED <<fillKick, fillDriver>>
         /\ UNCHANGED worker \/ ~At("marking")
  <1>q. {"fill", "hw"} \subseteq Places \ {"rx", "tx", "completion", "held", "free", "slab", "staged"}
    BY DEF Places
  <1>1. CASE DriverTransmit
    BY <1>1, <1>q, DriverTransmitMem DEF DriverTransmit, kicks, Kept
  <1>2. CASE Close \/ Stop BY <1>2 DEF Close, Stop, kicks, drivers, At
  <1>3. CASE ServicePendingTxKick
    BY <1>3, TxKickMem DEF ServicePendingTxKick, Kept, At
  <1>4. CASE Top \/ Handle \/ MarkTx
    <2>1. UNCHANGED <<fillKick, fillDriver>> /\ ~At("marking")
      BY <1>4 DEF Top, Handle, MarkTx, At, kicks, drivers
    <2> QED BY <1>4, <1>q, <2>1, KickingMem DEF Kept
  <1>5. CASE Receive \/ Finish
    <2>1. UNCHANGED <<fillKick, fillDriver>> /\ ~At("marking")
      BY <1>5 DEF Receive, Finish, At, kicks, drivers
    <2> QED BY <1>5, <1>q, <2>1, ReleasingMem DEF Kept
  <1>6. CASE ReceiveTail
    <2>1. UNCHANGED <<fillKick, fillDriver>> /\ ~At("marking")
      BY <1>6 DEF ReceiveTail, At, kicks, drivers
    <2> QED BY <1>6, <1>q, <2>1, ReceiveTailMem DEF Kept
  <1>7. CASE Dequeue
    <2>1. UNCHANGED <<fillKick, fillDriver>> /\ ~At("marking")
      BY <1>7 DEF Dequeue, At, kicks, drivers
    <2> QED BY <1>7, <1>q, <2>1, DequeueMem DEF Kept
  <1>8. CASE Prepare
    <2>1. UNCHANGED <<fillKick, fillDriver>> /\ ~At("marking")
      BY <1>8 DEF Prepare, At, kicks, drivers
    <2> QED BY <1>8, <1>q, <2>1, PrepareMem DEF Kept
  <1>9. CASE Send \/ SendFails
    <2>1. UNCHANGED <<fillKick, fillDriver>> /\ ~At("marking")
      BY <1>9 DEF Send, SendFails, At, kicks, drivers
    <2> QED BY <1>9, <1>q, <2>1, SendMem DEF Kept
  <1>10. CASE SendBlocks \/ Sent
    <2>1. UNCHANGED <<fillKick, fillDriver>> /\ ~At("marking")
      BY <1>10 DEF SendBlocks, Sent, At, kicks, drivers
    <2> QED BY <1>10, <1>q, <2>1, SendingMem DEF Kept
  <1> QED BY <1>1, <1>2, <1>3, <1>4, <1>5, <1>6, <1>7, <1>8, <1>9, <1>10

\* The FILL half of KickInv.
FillAwake ==
    fillDriver = "asleep" /\ Cardinality(mem["fill"]) >= RxAllocation =>
        fillKick \/ (At("marking") /\ (Conditional \/ worker.queued > 0))

\* No step loses the FILL wake-up either.
LEMMA FillAwakeStep == QueueInv /\ [Next]_vars => FillAwake'
  <1> SUFFICES ASSUME QueueInv, [Next]_vars PROVE FillAwake' OBVIOUS
  <1>0. worker \in Workers /\ FillAwake /\ fillKick \in BOOLEAN
    BY DEF QueueInv, TypeOK, KickInv, FillAwake
  <1>q. "fill" \in Places \ {"staged", "free"} BY DEF Places
  <1>c. Cardinality(mem["fill"]) \in Nat BY <1>q, InvSound, PlaceIsFinite DEF Sound
  <1>1. CASE DriverFill
    <2>1. CASE ~UNCHANGED mem BY <1>1, <2>1, DriverFillMem DEF FillAwake
    <2>2. CASE UNCHANGED mem
      <3>1. fillDriver' = "asleep" => Cardinality(mem["fill"]) < RxAllocation
        BY <1>0, <1>1, <2>2, Sizes, <1>c DEF DriverFill
      <3> QED BY <2>2, <3>1, <1>c, Sizes DEF FillAwake
    <2> QED BY <2>1, <2>2
  <1>2. CASE DriverReceive
    <2>1. fillDriver' = "polling" BY <1>2 DEF DriverReceive
    <2> QED BY <2>1 DEF FillAwake
  <1>3. CASE ServicePendingFillKick
    <2>1. worker.at # "marking" BY <1>3 DEF ServicePendingFillKick, At
    <2>2. fillDriver' = "polling" \/ UNCHANGED <<fillKick, fillDriver>>
      BY <1>3 DEF ServicePendingFillKick
    <2> QED BY <1>0, <1>3, <1>q, <2>1, <2>2, FillKickMem DEF FillAwake, At, Kept
  <1>4. CASE Refill
    <2>1. worker.at # "marking" /\ UNCHANGED <<fillKick, fillDriver>>
      BY <1>4 DEF Refill, At, kicks, drivers
    <2>2. CASE UNCHANGED mem BY <1>0, <2>1, <2>2 DEF FillAwake, At
    <2>3. CASE ~UNCHANGED mem
      <3>1. worker'.at = "marking" /\ worker'.queued > 0
        BY <1>0, <1>4, <2>3, RefillMem DEF Workers
      <3> QED BY <3>1 DEF FillAwake, At
    <2> QED BY <2>2, <2>3
  <1>5. CASE MarkFill
    <2>1. fillDriver' = "asleep" /\ Cardinality(mem'["fill"]) >= RxAllocation => fillKick'
      BY <1>0, <1>5, Sizes DEF MarkFill, FillAwake, NeedsWakeup, drivers, At
    <2> QED BY <2>1 DEF FillAwake
  <1>6. CASE UNCHANGED <<mem, worker, fillKick, fillDriver>> BY <1>0, <1>6 DEF FillAwake, At
  <1>7. CASE \/ DriverTransmit \/ Close \/ Stop \/ ServicePendingTxKick \/ Top \/ Receive
             \/ ReceiveTail \/ Dequeue \/ Handle \/ Prepare \/ Send \/ SendFails \/ SendBlocks
             \/ MarkTx \/ Sent \/ Finish
    BY <1>0, <1>7, FillAlone DEF FillAwake, At
  <1> QED BY <1>1, <1>2, <1>3, <1>4, <1>5, <1>6, <1>7 DEF Next, vars

\* A refill that starts with the whole ring and halves its request until one fits leaves the
\* driver an allocation, or itself no frame.
LEMMA RefillStarve ==
  ASSUME QueueInv, Refill, mem["hw"] = {} /\ mem["rx"] = {}
  PROVE  StarveInv'
  <1> USE InvSound
  <1> DEFINE fill == Cardinality(mem["fill"])
             free == Cardinality(mem["free"])
             r == worker.request
             n == Min({r, free})
  <1>0. worker \in Workers /\ worker.at = "refill" BY DEF QueueInv, TypeOK, Refill, At
  <1>q. "fill" \in Places /\ "free" \in Places BY DEF Places
  <1>1. fill \in Nat /\ free \in Nat /\ r \in Nat /\ r <= FillSize /\ FillSize \in Nat
        /\ RxAllocation \in Nat /\ 2 * RxAllocation <= FillSize /\ RxAllocation > 0
    BY <1>0, <1>q, PlaceIsFinite, Sizes DEF Sound, Workers
  <1>2. \/ r = FillSize \/ free = 0
        \/ 2 * r + 1 > FillSize - fill /\ free > FillSize - fill
    <2>1. mem["free"] = {} => free = 0 BY FS_EmptySet
    <2> QED BY <2>1 DEF QueueInv, StarveInv, Refill
  <1>3. n \in {r, free} /\ n <= r /\ n <= free
    <2>1. r \in Int /\ free \in Int BY <1>1
    <2> HIDE DEF r, free
    <2> QED BY <2>1, MinOfTwo
  <1>z. Cardinality(mem'["free"]) = 0 => mem'["free"] = {}
    BY <1>q, SoundStep, PlaceIsFinite, FS_EmptySet DEF Next, Sound
  <1>4. CASE /\ n > 0 /\ n <= FillSize - fill
             /\ Cardinality(mem'["fill"]) = fill + n
             /\ Cardinality(mem'["free"]) = free - n
             /\ worker' = [worker EXCEPT !.at = "marking", !.queued = n]
    <2>1. worker'.at = "marking" BY <1>0, <1>4 DEF Workers
    <2> HIDE DEF n, r, fill, free
    <2>2. fill + n >= RxAllocation \/ free - n = 0 BY <1>1, <1>2, <1>3, <1>4
    <2>3. Cardinality(mem'["fill"]) >= RxAllocation \/ mem'["free"] = {}
      BY <1>4, <1>z, <2>2
    <2> QED BY <2>1, <2>3 DEF StarveInv, At
  <1>5. CASE ~Enqueue(n) /\ r > 0 /\ UNCHANGED mem /\ worker' = [worker EXCEPT !.request = @ \div 2]
    <2>1. worker'.at = "refill" /\ worker'.request = r \div 2 BY <1>0, <1>5 DEF Workers
    <2>2. ~(n > 0 /\ n <= FillSize - fill) BY <1>5 DEF Enqueue
    <2>3. r > 0 BY <1>5
    <2>4. Cardinality(mem'["fill"]) = fill /\ Cardinality(mem'["free"]) = free BY <1>5
    <2> HIDE DEF n, r, fill, free
    <2>5. free = 0 \/ (2 * (r \div 2) + 1 > FillSize - fill /\ free > FillSize - fill)
      <3>1. 2 * (r \div 2) + 1 >= r BY <1>1
      <3>2. r \div 2 \in Nat BY <1>1
      <3>3. CASE n = 0 BY <1>1, <1>3, <2>3, <3>3
      <3>4. CASE n > FillSize - fill BY <1>1, <1>3, <3>1, <3>2, <3>4
      <3> QED BY <1>1, <1>3, <2>2, <3>3, <3>4
    <2> QED BY <1>z, <2>1, <2>4, <2>5 DEF StarveInv, At, Refilled
  <1>6. CASE r = 0 /\ UNCHANGED mem /\ worker' = [worker EXCEPT !.at = "marking", !.queued = 0]
    <2>1. worker'.at = "marking" BY <1>0, <1>6 DEF Workers
    <2>2. r = 0 /\ Cardinality(mem'["fill"]) = fill /\ Cardinality(mem'["free"]) = free
      BY <1>6
    <2> HIDE DEF n, r, fill, free
    <2>3. fill >= RxAllocation \/ free = 0 BY <1>1, <1>2, <2>2
    <2> QED BY <1>z, <2>1, <2>2, <2>3 DEF StarveInv, At
  <1>7. \/ UNCHANGED mem
        \/ /\ n > 0 /\ n <= FillSize - fill
           /\ Cardinality(mem'["fill"]) = fill + n
           /\ Cardinality(mem'["free"]) = free - n
           /\ worker' = [worker EXCEPT !.at = "marking", !.queued = n]
    BY RefillMem
  <1>8. CASE UNCHANGED mem /\ Enqueue(n)
             /\ \E S \in kSubset(n, mem["free"]) : mem' = Move(mem, "free", "fill", S)
    <2>1. PICK S \in kSubset(n, mem["free"]) : mem' = Move(mem, "free", "fill", S) BY <1>8
    <2>2. S \in SUBSET mem["free"] /\ Cardinality(S) = n BY KSubset
    <2>3. Cardinality(mem'["fill"]) = fill + n /\ mem' = mem
      BY <1>8, <1>q, <2>1, <2>2, MoveSizes DEF Sound
    <2>4. n > 0 BY <1>8 DEF Enqueue
    <2>5. n \in Int BY <1>1, <1>3
    <2> HIDE DEF n
    <2> QED BY <1>1, <2>3, <2>4, <2>5
  <1> QED BY <1>4, <1>5, <1>6, <1>7, <1>8 DEF Refill

\* The other steps leave what a refill has achieved, or go through another one.
LEMMA StarveStep == QueueInv /\ [Next]_vars => StarveInv'
  <1> SUFFICES ASSUME QueueInv, [Next]_vars, mem'["hw"] = {}, mem'["rx"] = {} PROVE StarveInv'
    BY DEF StarveInv
  <1>0. worker \in Workers /\ ControlInv /\ StarveInv BY DEF QueueInv, TypeOK
  <1>p. worker.then \in Thens /\ worker.next \in Nexts BY <1>0 DEF Workers
  <1>q. {"fill", "free", "hw", "rx"} \subseteq Places BY DEF Places
  <1>1. CASE UNCHANGED <<mem, worker>> BY <1>0, <1>1 DEF StarveInv, Refilled, At
  <1>2. CASE DriverFill
    <2>1. UNCHANGED worker BY <1>2 DEF DriverFill
    <2> QED BY <1>1, <1>2, <2>1, DriverFillMem
  <1>3. CASE DriverReceive BY <1>3, DriverReceiveMem
  <1>4. CASE DriverTransmit
    <2>1. UNCHANGED worker BY <1>4 DEF DriverTransmit
    <2>2. \A p \in {"fill", "free", "hw", "rx"} : mem'[p] = mem[p]
      BY <1>4, DriverTransmitMem DEF Kept, Places
    <2> QED BY <1>0, <2>1, <2>2 DEF StarveInv, Refilled, At
  <1>5. CASE Stop
    <2>1. worker'.at = "stopped" BY <1>0, <1>5, GotoFacts DEF Stop
    <2> QED BY <2>1 DEF StarveInv, Refilled, At
  <1>6. CASE ServicePendingTxKick
    <2>1. worker'.at \in {"top", "failed", "tx", "receive", "prepare", "sent"}
      BY <1>0, <1>6, TxKickMem DEF ControlInv, ServicePendingTxKick, At
    <2> QED BY <2>1 DEF StarveInv, Refilled, At
  <1>7. CASE ServicePendingFillKick
    <2>1. worker.at = "fill" BY <1>7 DEF ServicePendingFillKick, At
    <2>2. CASE worker'.at = "top" BY <2>2 DEF StarveInv, Refilled, At
    <2>3. CASE UNCHANGED mem /\ worker'.at \in {"fill", "failed", worker.next}
      <3>1. worker'.next = worker.next /\ worker'.request = worker.request
        BY <1>7, FillKickMem, KickFacts
      <3>2. worker.next = "refill" => worker.request = FillSize
        BY <1>0, <2>1 DEF ControlInv, At
      <3>3. worker.next # "refill" =>
               Cardinality(mem["fill"]) >= RxAllocation \/ mem["free"] = {}
        BY <1>0, <2>1, <2>3 DEF StarveInv, Refilled, At
      <3>4. worker.next \in {"refill"} \union Thens BY <1>0, <1>p, <2>1 DEF ControlInv, At
      <3> QED BY <2>3, <3>1, <3>2, <3>3, <3>4 DEF StarveInv, Refilled, At, Thens
    <2> QED BY <1>7, <2>2, <2>3, FillKickMem
  <1>8. CASE Refill
    <2>1. mem["hw"] = {} /\ mem["rx"] = {} BY <1>8, RefillMem DEF Kept, Places
    <2> QED BY <1>8, <2>1, RefillStarve
  <1>9. CASE MarkFill
    <2>1. worker.at = "marking" /\ UNCHANGED mem BY <1>9 DEF MarkFill, At
    <2>2. Cardinality(mem["fill"]) >= RxAllocation \/ mem["free"] = {}
      BY <1>0, <2>1 DEF StarveInv, Refilled, At
    <2>3. worker'.at \in {"fill", worker.then} BY <1>9, RefillFacts
    <2> QED BY <1>p, <2>1, <2>2, <2>3 DEF StarveInv, Refilled, At, Thens
  <1>10. CASE Top \/ Handle \/ MarkTx BY <1>10, KickingMem DEF StarveInv, Refilled, At
  <1>11. CASE Receive \/ Finish BY <1>11, ReleasingMem DEF StarveInv, Refilled, At
  <1>12. CASE ReceiveTail
    <2>1. worker.at = "loop" BY <1>12 DEF ReceiveTail, At
    <2> QED BY <1>0, <1>12, <2>1, ReceiveTailMem DEF StarveInv, Refilled, At, Replenishing
  <1>13. CASE Dequeue BY <1>13, DequeueMem DEF StarveInv, Refilled, At, Replenishing
  <1>14. CASE Prepare BY <1>14, PrepareMem DEF StarveInv, Refilled, At
  <1>15. CASE Send \/ SendFails BY <1>15, SendMem DEF StarveInv, Refilled, At
  <1>16. CASE SendBlocks \/ Sent BY <1>16, SendingMem DEF StarveInv, Refilled, At
  <1> QED BY <1>1, <1>2, <1>3, <1>4, <1>5, <1>6, <1>7, <1>8, <1>9, <1>10, <1>11, <1>12, <1>13,
             <1>14, <1>15, <1>16
          DEF Next, vars, Close

-----------------------------------------------------------------------------
\* The frames bind_queue hands to the FILL ring are sound, and nothing waits.
LEMMA InitInv == Init => QueueInv
  <1> SUFFICES ASSUME Init PROVE QueueInv OBVIOUS
  <1> DEFINE c == Cardinality(Frames)
  <1>1. PICK S \in kSubset(Min({FillSize, c}), Frames) :
           mem = [p \in Places |-> IF p = "fill" THEN S ELSE IF p = "free" THEN Frames \ S ELSE {}]
    BY DEF Init
  <1>2. S \in SUBSET Frames /\ Cardinality(S) = Min({FillSize, c}) BY KSubset
  <1>3. c \in Nat BY Sizes, FS_CardinalityType
  <1>4. Cardinality(S) <= FillSize
    <2>1. c \in Int /\ FillSize \in Int BY <1>3, Sizes
    <2> HIDE DEF c
    <2> QED BY <1>2, <2>1, MinOfTwo
  <1>5. /\ mem \in [Places -> SUBSET Frames] /\ mem["fill"] = S /\ mem["free"] = Frames \ S
        /\ \A p \in Places \ {"fill", "free"} : mem[p] = {}
    BY <1>1, <1>2 DEF Places
  <1>6. Owned(mem)
    <2>1. \A p, q \in Places : p # q => mem[p] \intersect mem[q] = {} BY <1>5
    <2>2. "fill" \in Places /\ "free" \in Places BY DEF Places
    <2>3. UNION {mem[p] : p \in Places} = Frames BY <1>2, <1>5, <2>2
    <2> QED BY <1>5, <2>1, <2>3 DEF Owned
  <1>7. Fits(mem)
    <2>1. \A p \in DOMAIN Limit : (mem[p] = S /\ p = "fill") \/ mem[p] = {} BY <1>5, Limited
    <2> QED BY <1>4, <2>1, Limited, FS_EmptySet DEF Fits
  <1>8. worker = Idle /\ txKick = FALSE /\ fillKick \in BOOLEAN /\ open = TRUE
        /\ txDriver = "asleep" /\ fillDriver = IF fillKick THEN "asleep" ELSE "polling"
    BY DEF Init
  <1>9. Idle \in Workers /\ Idle.at = "top" BY Sizes DEF Idle, Workers, Pcs, Nexts, Thens
  <1>10. TypeOK BY <1>5, <1>8, <1>9 DEF TypeOK, DriverStates
  <1>11. ControlInv /\ StarveInv BY <1>8, <1>9 DEF ControlInv, StarveInv, Refilled, At
  <1>12. SlabInv
    <2>1. mem["staged"] = {} BY <1>5 DEF Places
    <2> QED BY <1>8, <1>9, <2>1 DEF SlabInv, At
  <1>13. KickInv
    <2>1. mem["tx"] = {} BY <1>5 DEF Places
    <2> QED BY <1>8, <2>1 DEF KickInv
  <1> QED BY <1>6, <1>7, <1>10, <1>11, <1>12, <1>13 DEF QueueInv

\* Every step preserves the invariant.
LEMMA NextInv == QueueInv /\ [Next]_vars => QueueInv'
  <1> SUFFICES ASSUME QueueInv, [Next]_vars PROVE QueueInv' OBVIOUS
  <1>1. TypeOK' /\ ControlInv' /\ SlabInv' /\ StarveInv'
    BY TypeStep, ControlStep, SlabStep, StarveStep
  <1>2. Owned(mem') /\ Fits(mem') BY SoundStep DEF Sound
  <1>3. KickInv' BY TxAwakeStep, FillAwakeStep DEF KickInv, TxAwake, FillAwake
  <1> QED BY <1>1, <1>2, <1>3 DEF QueueInv

\* QueueInv is an invariant of the queue, whatever the network, the driver and the kicks do.
THEOREM QueueCorrect == Spec => []QueueInv
  <1>1. Init => QueueInv BY InitInv
  <1>2. QueueInv /\ [Next]_vars => QueueInv' BY NextInv
  <1> QED BY <1>1, <1>2, PTL DEF Spec

\* The types of the queue's state: TypeOK is an invariant of Spec.
THEOREM TypeCorrect == Spec => []TypeOK
  <1>1. QueueInv => TypeOK BY DEF QueueInv
  <1> QED BY <1>1, QueueCorrect, PTL

\* Frame ownership: whatever fails on the way, every UMEM frame is in exactly one place and
\* no ring or slab of af_xdp.rs holds more than its size.
THEOREM OneOwner == Spec => []FramesHaveOneOwner
  <1>1. QueueInv => FramesHaveOneOwner
    <2> SUFFICES ASSUME QueueInv PROVE FramesHaveOneOwner OBVIOUS
    <2>1. WithinSizes
      <3>1. \A p \in DOMAIN Limit : Cardinality(mem[p]) <= Limit[p] BY DEF QueueInv, Fits
      <3>2. {"fill", "rx", "tx", "completion", "slab", "held", "staged"} \subseteq DOMAIN Limit
        BY Limited DEF Places
      <3> QED BY <3>1, <3>2, Limited DEF WithinSizes
    <2>2. At("prepare") => mem.staged = {} BY DEF QueueInv, SlabInv, At
    <2>3. Owned(mem) BY DEF QueueInv
    <2> QED BY <2>1, <2>2, <2>3 DEF FramesHaveOneOwner, Owned
  <1> QED BY <1>1, QueueCorrect, PTL

\* No lost wake-up, with and without the conditional wake-up: a descriptor beside a sleeping
\* driver has a kick pending, or the worker has yet to look at the flag.
THEOREM KicksKept == Spec => []NoKickIsLost
  <1>1. QueueInv => NoKickIsLost BY DEF QueueInv, KickInv, NoKickIsLost
  <1> QED BY <1>1, QueueCorrect, PTL

\* A worker that waits for datagrams has left the driver a whole allocation, or has no frame
\* left, for every FILL ring of twice the allocation.
THEOREM DriverIsFed == Spec => []NeverStarved
  <1>1. QueueInv => NeverStarved BY DEF QueueInv, StarveInv, Refilled, NeverStarved
  <1> QED BY <1>1, QueueCorrect, PTL
=============================================================================
