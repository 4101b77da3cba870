----------------------------- MODULE MCStorage -----------------------------
(***************************************************************************)
(* Small instances of everything that is kept on disk: ZonePersistence     *)
(* with four sets of constants and FreshnessBatch with two.  A behaviour   *)
(* picks one of them and leaves the variables of the others alone.         *)
(***************************************************************************)
EXTENDS Integers

CONSTANT Parts    \* the instances that a run explores

VARIABLES sel, now, proof, acked, crashes,
    visible, durable, pending, mem, plan, att, cat, minted, past,
    cache, prior, waiting, channel, writer, file, index, poisoned, open, renews

Shared == <<now, proof, acked, crashes>>
ZoneOnly == <<visible, durable, pending, mem, plan, att, cat, minted, past>>
BatchOnly == <<cache, prior, waiting, channel, writer, file, index, poisoned, open, renews>>
vars == <<sel, Shared, ZoneOnly, BatchOnly>>

Crash == INSTANCE ZonePersistence WITH
    Member <- FALSE, Reorder <- FALSE, Faults <- TRUE, Expire <- 2, MaxEntries <- 2,
    MaxContents <- 4, MaxTokens <- 0, MaxCrashes <- 1, MaxPending <- 2, MaxTime <- 1
Disordered == INSTANCE ZonePersistence WITH
    Member <- FALSE, Reorder <- TRUE, Faults <- TRUE, Expire <- 1, MaxEntries <- 1,
    MaxContents <- 3, MaxTokens <- 0, MaxCrashes <- 1, MaxPending <- 3, MaxTime <- 2
Ack == INSTANCE ZonePersistence WITH
    Member <- FALSE, Reorder <- FALSE, Faults <- TRUE, Expire <- 1, MaxEntries <- 1,
    MaxContents <- 3, MaxTokens <- 0, MaxCrashes <- 1, MaxPending <- 2, MaxTime <- 2
Listed == INSTANCE ZonePersistence WITH
    Member <- TRUE, Reorder <- FALSE, Faults <- TRUE, Expire <- 1, MaxEntries <- 1,
    MaxContents <- 1, MaxTokens <- 3, MaxCrashes <- 1, MaxPending <- 2, MaxTime <- 1
Batch == INSTANCE FreshnessBatch WITH
    Keys <- {"k1", "k2"}, MaxBatch <- 2, MaxKeys <- 2, MaxBytes <- 5, CompactMin <- 0,
    MaxContents <- 2, MaxRenews <- 3, MaxTime <- 1, MaxCrashes <- 1
Aged == INSTANCE FreshnessBatch WITH
    Keys <- {"k1"}, MaxBatch <- 2, MaxKeys <- 1, MaxBytes <- 5, CompactMin <- 0,
    MaxContents <- 2, MaxRenews <- 2, MaxTime <- 2, MaxCrashes <- 1

(* The parameters of the instances are ones the modules provide for.       *)
ASSUME ParametersAreSound ==
    Crash!Parameters /\ Disordered!Parameters /\ Ack!Parameters /\ Listed!Parameters

ZoneOff == /\ visible = 0 /\ durable = 0 /\ pending = 0 /\ mem = 0 /\ plan = 0
           /\ att = 0 /\ cat = 0 /\ minted = 0 /\ past = 0
BatchOff == /\ cache = 0 /\ prior = 0 /\ waiting = 0 /\ channel = 0 /\ writer = 0
            /\ file = 0 /\ index = 0 /\ poisoned = 0 /\ open = 0 /\ renews = 0

Init ==
  /\ sel \in Parts
  /\ \/ sel = "crash" /\ Crash!Init /\ BatchOff
     \/ sel = "disordered" /\ Disordered!Init /\ BatchOff
     \/ sel = "ack" /\ Ack!Init /\ BatchOff
     \/ sel = "listed" /\ Listed!Init /\ BatchOff
     \/ sel = "batch" /\ Batch!Init /\ ZoneOff
     \/ sel = "aged" /\ Aged!Init /\ ZoneOff

Next ==
    \/ sel = "crash" /\ Crash!Next /\ UNCHANGED <<sel, BatchOnly>>
    \/ sel = "disordered" /\ Disordered!Next /\ UNCHANGED <<sel, BatchOnly>>
    \/ sel = "ack" /\ Ack!Next /\ UNCHANGED <<sel, BatchOnly>>
    \/ sel = "listed" /\ Listed!Next /\ UNCHANGED <<sel, BatchOnly>>
    \/ sel = "batch" /\ Batch!Next /\ UNCHANGED <<sel, ZoneOnly>>
    \/ sel = "aged" /\ Aged!Next /\ UNCHANGED <<sel, ZoneOnly>>

Spec == Init /\ [][Next]_vars

-----------------------------------------------------------------------------
(* The type invariant of whichever component runs, and its bounds.         *)
TypeOK ==
    /\ sel = "crash" => Crash!TypeOK
    /\ sel = "disordered" => Disordered!TypeOK
    /\ sel = "ack" => Ack!TypeOK
    /\ sel = "batch" => Batch!TypeOK

(* restore and FreshnessJournal::open: no cache that this program has      *)
(* written is rejected or mixed out of two versions, and no journal ends   *)
(* in frames that cannot be replayed, whatever a crash, a torn write or a  *)
(* failed compaction has left of it.                                       *)
RestoreIsWhole ==
    /\ sel = "crash" => Crash!RestoreIsWhole
    /\ sel = "batch" => Batch!AlwaysReplayable

(* The files keep the promise of LastGoodCopy: what is served, or was      *)
(* served before the last directory sync, is what a restart brings back.   *)
LastGood == INSTANCE LastGoodCopy WITH
    Copies <- Crash!Copy, NoCopy <- Crash!NoCopy,
    serving <- IF sel = "crash" THEN mem.copy ELSE Crash!NoCopy,
    saved <- IF sel = "crash" THEN Crash!Saved ELSE {Crash!NoCopy}
ImplementsLastGood == LastGood!Spec

(* read_freshness and the batch journal's read: no copy is taken to be     *)
(* fresher than the last time a primary vouched for that very content.     *)
FreshnessIsEarned ==
    /\ sel = "disordered" => Disordered!FreshnessIsEarned
    /\ sel = "aged" => Aged!FreshnessIsEarned

(* confirm_current_after_freshness and renew: a confirmation that has been *)
(* acknowledged, or that the journal answers with, is in every file that a *)
(* crash may leave.                                                        *)
AcknowledgedIsKept ==
    /\ sel = "ack" => Ack!AckIsDurable
    /\ sel = "batch" => Batch!AcknowledgedIsKept /\ Batch!ReadIsDurable

=============================================================================
