------------------------------- MODULE MCFair -------------------------------
(***************************************************************************)
(* What must eventually happen, on small instances: the replies of the     *)
(* freshness writer (FreshnessBatch), the end of every poll (SoaPoll) and  *)
(* the return of every reservation (TransferIngest).  A behaviour picks    *)
(* one of them; each keeps the fairness its own module states.             *)
(***************************************************************************)
EXTENDS Integers, Sequences

CONSTANT Parts    \* the instances that a run explores

VARIABLES sel,
    now, cache, prior, proof, acked, waiting, channel, writer, file, index, poisoned,
    open, renews, crashes,
    inFlight, step, want, seen, kept, held,
    keyed, serial, phase, net, sent, stray, result, cause

BatchVars == <<now, cache, prior, proof, acked, waiting, channel, writer, file, index,
               poisoned, open, renews, crashes>>
IngestVars == <<inFlight, step, want, seen, kept, held>>
PollVars == <<keyed, serial, phase, net, sent, stray, result, cause>>
vars == <<sel, BatchVars, IngestVars, PollVars>>

Batch == INSTANCE FreshnessBatch WITH
    Keys <- {"k1", "k2"}, MaxBatch <- 2, MaxKeys <- 1, MaxBytes <- 5, CompactMin <- 0,
    MaxContents <- 2, MaxRenews <- 3, MaxTime <- 1, MaxCrashes <- 1
Ingest == INSTANCE TransferIngest WITH
    Sessions <- {"s1", "s2"}, Sizes <- {1, 2}, Limit <- 12, Multiplier <- 4,
    MaxMessages <- 2, MaxBytes <- 3, MaxInt <- 15
Poll == INSTANCE SoaPoll WITH
    Serials <- {"s1"}, Keys <- BOOLEAN, MaxStray <- 2

BatchOff ==
    /\ now = 0 /\ cache = 0 /\ prior = 0 /\ proof = 0 /\ acked = 0 /\ waiting = 0
    /\ channel = 0 /\ writer = 0 /\ file = 0 /\ index = 0 /\ poisoned = 0 /\ open = 0
    /\ renews = 0 /\ crashes = 0
IngestOff == inFlight = 0 /\ step = 0 /\ want = 0 /\ seen = 0 /\ kept = 0 /\ held = 0
PollOff == /\ keyed = 0 /\ serial = 0 /\ phase = 0 /\ net = 0 /\ sent = 0 /\ stray = 0
           /\ result = 0 /\ cause = 0

Init ==
    /\ sel \in Parts
    /\ \/ sel = "batch" /\ Batch!Init /\ IngestOff /\ PollOff
       \/ sel = "ingest" /\ BatchOff /\ Ingest!Init /\ PollOff
       \/ sel = "poll" /\ BatchOff /\ IngestOff /\ Poll!Init

Next ==
    \/ sel = "batch" /\ Batch!Next /\ UNCHANGED <<sel, IngestVars, PollVars>>
    \/ sel = "ingest" /\ Ingest!Next /\ UNCHANGED <<sel, BatchVars, PollVars>>
    \/ sel = "poll" /\ Poll!Next /\ UNCHANGED <<sel, BatchVars, IngestVars>>

(* The fairness of each component while it is the one that runs.           *)
BatchFairness == WF_BatchVars(sel = "batch" /\ Batch!Writer)
IngestFairness ==
    \A s \in {"s1", "s2"} :
        /\ WF_IngestVars(sel = "ingest" /\ Ingest!Fail(s))
        /\ WF_IngestVars(sel = "ingest" /\ Ingest!TryReserve(s))
        /\ SF_IngestVars(sel = "ingest" /\ Ingest!TryReserve(s) /\ seen[s] = inFlight)
        /\ WF_IngestVars(sel = "ingest" /\ Ingest!Parsed(s))
        /\ WF_IngestVars(sel = "ingest" /\ Ingest!Publish(s))
        /\ WF_IngestVars(sel = "ingest" /\ Ingest!Release(s))
PollFairness == WF_PollVars(sel = "poll" /\ Poll!Timeout)

FairSpec ==
    /\ Init /\ [][Next]_vars
    /\ BatchFairness /\ IngestFairness /\ PollFairness

-----------------------------------------------------------------------------
(* run_writer, Drop for TransferIngestReservation and                      *)
(* poll_soa_from_primary_inner: whoever waits for the freshness journal is *)
(* answered, also at the key limit, after a failure and at shutdown; the   *)
(* reservations of a transfer session are given back, whether it fails,    *)
(* times out under its parser or is published; a poll ends, however many   *)
(* datagrams it ignores.  Keys and sessions are alike: one stands for all. *)
Completes ==
    /\ (sel = "batch" /\ waiting["k1"].waits) ~> (sel = "batch" /\ ~waiting["k1"].waits)
    /\ (sel = "ingest" /\ held["s1"] # <<>>) ~> (sel = "ingest" /\ held["s1"] = <<>>)
    /\ sel = "poll" ~> (sel = "poll" /\ phase = "done")
=============================================================================
