---------------------------- MODULE FreshnessBatch ----------------------------
(***************************************************************************)
(* The group-committed freshness journal (feature                          *)
(* experimental-freshness-batching,                                        *)
(* zone_persistence/freshness_batch.rs): refreshes that found their zone   *)
(* unchanged queue a record, one writer thread appends a batch of them as  *)
(* one frame, syncs, and only then lets readers and waiters see it.        *)
(*                                                                         *)
(* A file is a sequence of frames, each whole or torn; a frame is a        *)
(* sequence of records.  Sizes count a frame header as one unit and a      *)
(* record as one.  The files of zone contents are ZonePersistence's: here  *)
(* a key has a current content, replaced by Promote.                       *)
(***************************************************************************)
EXTENDS Integers, Sequences, FiniteSets, SequencesExt

CONSTANTS
    Keys,         \* cache namespaces (a zone, a binding)
    MaxBatch,     \* MAX_BATCH, also the capacity of the channel
    MaxKeys,      \* MAX_KEYS
    MaxBytes,     \* MAX_BYTES
    CompactMin,   \* COMPACT_MIN
    MaxContents,  \* bound: contents
    MaxRenews,    \* bound: renewals
    MaxTime,      \* bound: seconds
    MaxCrashes    \* bound: crashes

VARIABLES
    now,
    cache,     \* the content on disk of every key
    prior,     \* the content a crash may still put back, its rename not being synced
    proof,     \* history: last time a primary vouched for each content
    acked,     \* history: the last renewal acknowledged, of contents not replaced since
    waiting,   \* the refresh of a key that waits for its reply, or NoWait
    channel,   \* requests accepted, not yet taken by the writer
    writer,    \* the writer thread
    file,      \* the journal: frames, how many are synced, the inode a crash may revert to
    index,     \* the acknowledged record of every key, or NoRecord
    poisoned, open, renews, crashes

vars == <<now, cache, prior, proof, acked, waiting, channel, writer, file, index,
          poisoned, open, renews, crashes>>

NoRecord == [serial |-> 0, sum |-> 0, observed |-> 0]
NoWait == [waits |-> FALSE, serial |-> 0, sum |-> 0]
Resting == [pc |-> "receive", requests |-> << >>, records |-> << >>]
NoInode == [kept |-> FALSE, frames |-> << >>]

-----------------------------------------------------------------------------
AppliedIfLater(ix, r) ==   \* a mutant: only the time decides
    IF r.observed > ix[r.key].observed
    THEN [ix EXCEPT ![r.key] = [serial |-> r.serial, sum |-> r.sum, observed |-> r.observed]]
    ELSE ix

(* apply: another serial or checksum replaces the record, the same one     *)
(* only moves forward.                                                     *)
Applied(ix, r) ==
    LET old == ix[r.key]
        new == [serial |-> r.serial, sum |-> r.sum, observed |-> r.observed]
    IN  [ix EXCEPT ![r.key] =
            IF old.serial # new.serial \/ old.sum # new.sum \/ new.observed > old.observed
            THEN new ELSE old]

EmptyIndex == [k \in Keys |-> NoRecord]
AppliedAll(ix, frames) == FoldLeft(Applied, ix, FlattenSeq([i \in DOMAIN frames |-> frames[i].records]))
Frame(records) == [records |-> records, whole |-> TRUE]
FrameSize(f) == 1 + Len(f.records)
Size(frames) == FoldLeft(LAMBDA n, f : n + FrameSize(f), 0, frames)
KnownKeys(ix) == {k \in Keys : ix[k] # NoRecord}

(* replay: a torn frame ends the journal when it is the last one; a frame  *)
(* after it would be read at the wrong offset and fails its checks.        *)
WholePrefix(frames) == SelectSeq(frames, LAMBDA f : f.whole)
Replayable(frames) ==
    /\ \A i \in DOMAIN frames : frames[i].whole \/ i = Len(frames)
    /\ Size(frames) <= MaxBytes
    /\ Cardinality(KnownKeys(AppliedAll(EmptyIndex, WholePrefix(frames)))) <= MaxKeys

(* What a crash may leave: the synced frames, with a part of the rest, in  *)
(* the present inode or in the one that an unsynced rename has replaced.   *)
Cut(frames, synced) ==
    { SubSeq(frames, 1, n) : n \in synced..Len(frames) } \cup
    { Append(SubSeq(frames, 1, n), [frames[n + 1] EXCEPT !.whole = FALSE])
        : n \in synced..(Len(frames) - 1) }
PossibleFiles ==
    Cut(file.frames, file.synced) \cup (IF file.old.kept THEN {file.old.frames} ELSE {})

ReadBySerial(ix, k, c) ==   \* a mutant: the checksum is not compared
    IF c.sum # 0 /\ ix[k].serial = c.serial THEN ix[k].observed ELSE 0

(* read: the record counts only for this serial and this checksum.         *)
Read(ix, k, c) ==
    IF c.sum # 0 /\ ix[k].serial = c.serial /\ ix[k].sum = c.sum
    THEN ix[k].observed ELSE 0

Init ==
    /\ now = 1
    /\ cache = [k \in Keys |-> [serial |-> 0, sum |-> 0]]
    /\ prior = cache
    /\ proof = [c \in 1..MaxContents |-> 0]
    /\ acked = [c \in 1..MaxContents |-> 0]
    /\ waiting = [k \in Keys |-> NoWait]
    /\ channel = << >>
    /\ writer = Resting
    /\ file = [frames |-> << >>, synced |-> 0, old |-> NoInode]
    /\ index = EmptyIndex
    /\ poisoned = FALSE /\ open = TRUE
    /\ renews = 0 /\ crashes = 0

Tick ==
    /\ now < MaxTime /\ now' = now + 1
    /\ UNCHANGED <<cache, prior, proof, acked, waiting, channel, writer, file, index,
                   poisoned, open, renews, crashes>>

(* A transfer replaces the content of a key (ZonePersistence), under the   *)
(* same serial after an operator's retransfer; its directory sync may have *)
(* failed.                                                                 *)
Promote(k) ==
    /\ ~waiting[k].waits
    /\ \E c \in 1..MaxContents, s \in {cache[k].serial, cache[k].serial + 1} \ {0} :
          /\ c = 1 + Cardinality({d \in 1..MaxContents : proof[d] > 0})
          /\ cache' = [cache EXCEPT ![k] = [serial |-> s, sum |-> c]]
          /\ proof' = [proof EXCEPT ![c] = now]
    /\ acked' = [c \in DOMAIN acked |-> IF c = cache[k].sum THEN 0 ELSE acked[c]]
    /\ prior' \in {prior, [prior EXCEPT ![k] = cache'[k]]}
    /\ UNCHANGED <<now, waiting, channel, writer, file, index, poisoned,
                   open, renews, crashes>>

-----------------------------------------------------------------------------
(* renew_freshness_batched and Batcher::renew: the time of the observation *)
(* is taken before the request waits for room.                             *)
Renew(k) ==
    /\ open /\ ~waiting[k].waits /\ cache[k].sum # 0
    /\ renews < MaxRenews /\ renews' = renews + 1
    /\ Len(channel) < MaxBatch
    /\ proof' = [proof EXCEPT ![cache[k].sum] = now]
    /\ channel' = Append(channel, [key |-> k, serial |-> cache[k].serial,
                                    observed |-> now, awaited |-> TRUE])
    /\ waiting' = [waiting EXCEPT ![k] = [waits |-> TRUE, serial |-> cache[k].serial,
                                          sum |-> cache[k].sum]]
    /\ UNCHANGED <<now, cache, prior, acked, writer, file, index, poisoned, open, crashes>>

Orphaned(requests, k) ==
    [i \in DOMAIN requests |->
        IF requests[i].key = k THEN [requests[i] EXCEPT !.awaited = FALSE] ELSE requests[i]]

(* The attempt is dropped while it waits; its request stays where it is.   *)
Cancel(k) ==
    /\ waiting[k].waits
    /\ waiting' = [waiting EXCEPT ![k] = NoWait]
    /\ channel' = Orphaned(channel, k)
    /\ writer' = [writer EXCEPT !.requests = Orphaned(@, k), !.records = Orphaned(@, k)]
    /\ UNCHANGED <<now, cache, prior, proof, acked, file, index, poisoned, open, renews, crashes>>

(* Drop for Batcher: the channel closes, the writer drains it.             *)
Close ==
    /\ open /\ \A k \in Keys : ~waiting[k].waits
    /\ open' = FALSE
    /\ UNCHANGED <<now, cache, prior, proof, acked, waiting, channel, writer, file, index,
                   poisoned, renews, crashes>>

-----------------------------------------------------------------------------
(* The writer thread.                                                      *)
TakeMore ==   \* a mutant: the batch is not limited
    /\ writer.pc \in {"receive", "sum"} /\ channel # << >>
    /\ writer' = [writer EXCEPT !.pc = "sum", !.requests = @ \o channel]
    /\ channel' = << >>
    /\ UNCHANGED <<now, cache, prior, proof, acked, waiting, file, index, poisoned, open, renews, crashes>>

TakeFull ==   \* a mutant: the writer waits for a full batch
    /\ writer.pc = "receive" /\ Len(channel) = MaxBatch
    /\ writer' = [writer EXCEPT !.pc = "sum", !.requests = channel]
    /\ channel' = << >>
    /\ UNCHANGED <<now, cache, prior, proof, acked, waiting, file, index, poisoned, open, renews, crashes>>

Take ==
    /\ writer.pc = "receive" /\ channel # << >>
    /\ LET n == IF Len(channel) < MaxBatch THEN Len(channel) ELSE MaxBatch
       IN  /\ writer' = [writer EXCEPT !.pc = "sum", !.requests = SubSeq(channel, 1, n)]
           /\ channel' = SubSeq(channel, n + 1, Len(channel))
    /\ UNCHANGED <<now, cache, prior, proof, acked, waiting, file, index, poisoned, open, renews, crashes>>

(* active_cache_checksum, one request at a time: it digests the content    *)
(* that is on disk now, for the serial of the request.                     *)
Sum ==
    /\ writer.pc = "sum" /\ writer.requests # << >>
    /\ LET r == Head(writer.requests)
       IN  writer' = [writer EXCEPT
              !.requests = Tail(@),
              !.records = Append(@, [key |-> r.key, serial |-> r.serial,
                                     sum |-> cache[r.key].sum, observed |-> r.observed,
                                     awaited |-> r.awaited])]
    /\ UNCHANGED <<now, cache, prior, proof, acked, waiting, channel, file, index, poisoned,
                   open, renews, crashes>>

(* The replies of a batch: all of it succeeds or all of it fails.  A reply *)
(* nobody waits for is lost.                                               *)
Reply(ok) ==
    LET keys == {writer.records[i].key :
                    i \in {j \in DOMAIN writer.records : writer.records[j].awaited}}
    IN  /\ waiting' = [k \in Keys |-> IF k \in keys THEN NoWait ELSE waiting[k]]
        /\ acked' = IF ok
                    THEN [c \in DOMAIN acked |->
                            IF \E k \in keys : waiting[k].sum = c
                            THEN proof[c] ELSE acked[c]]
                    ELSE acked
        /\ writer' = Resting

Additions == {writer.records[i].key : i \in DOMAIN writer.records} \ KnownKeys(index)

(* commit_with_sync, refused before anything is written.                   *)
Refuse ==
    /\ writer.pc = "sum" /\ writer.requests = << >>
    /\ poisoned \/ Cardinality(KnownKeys(index)) + Cardinality(Additions) > MaxKeys
    /\ Reply(FALSE)
    /\ UNCHANGED <<now, cache, prior, proof, channel, file, index, poisoned, open, renews, crashes>>

Admitted ==
    /\ writer.pc = "sum" /\ writer.requests = << >>
    /\ ~poisoned /\ Cardinality(KnownKeys(index)) + Cardinality(Additions) <= MaxKeys

CompactAt == IF CompactMin > 3 * Cardinality(KnownKeys(index))
             THEN CompactMin ELSE 3 * Cardinality(KnownKeys(index))

MustCompact ==
    \/ Size(file.frames) + FrameSize(Frame(writer.records)) > MaxBytes
    \/ Size(file.frames) > CompactAt

(* compact: the index, framed, in a new inode renamed over the journal.    *)
Compacted ==
    LET keys == SetToSeq(KnownKeys(index))
        records == [i \in DOMAIN keys |->
                       [key |-> keys[i], serial |-> index[keys[i]].serial,
                        sum |-> index[keys[i]].sum, observed |-> index[keys[i]].observed,
                        awaited |-> FALSE]]
    IN  [i \in 1..((Len(records) + MaxBatch - 1) \div MaxBatch) |->
            Frame(SubSeq(records, (i - 1) * MaxBatch + 1,
                         IF i * MaxBatch < Len(records) THEN i * MaxBatch ELSE Len(records)))]

CompactRename ==
    /\ Admitted /\ MustCompact
    /\ file' = [frames |-> Compacted, synced |-> Len(Compacted),
                old |-> [kept |-> TRUE, frames |-> SubSeq(file.frames, 1, file.synced)]]
    /\ writer' = [writer EXCEPT !.pc = "dirsync"]
    /\ UNCHANGED <<now, cache, prior, proof, acked, waiting, channel, index, poisoned, open, renews, crashes>>

CompactSync ==
    /\ writer.pc = "dirsync"
    /\ prior' = cache
    /\ file' = [file EXCEPT !.old = NoInode]
    /\ writer' = [writer EXCEPT !.pc = "append"]
    /\ UNCHANGED <<now, cache, proof, acked, waiting, channel, index, poisoned, open, renews, crashes>>

(* Any failure once the commit has begun: in compact before its rename, in *)
(* its directory sync, a write that is cut short, a sync that fails, or a  *)
(* frame that does not fit.                                                *)
Poison ==
    \/ Admitted /\ MustCompact /\ UNCHANGED file
    \/ writer.pc = "dirsync" /\ UNCHANGED file
    \/ /\ writer.pc = "append" \/ (Admitted /\ ~MustCompact)
       /\ IF Size(file.frames) + FrameSize(Frame(writer.records)) > MaxBytes
          THEN UNCHANGED file
          ELSE \E whole \in BOOLEAN :
                  file' = [file EXCEPT !.frames =
                             Append(@, [records |-> writer.records, whole |-> whole])]
    \/ writer.pc = "sync" /\ UNCHANGED file

CommitFails ==
    /\ Poison
    /\ poisoned' = TRUE
    /\ Reply(FALSE)
    /\ UNCHANGED <<now, cache, prior, proof, channel, index, open, renews, crashes>>

AppendFrameUnbounded ==   \* a mutant: neither compaction nor the last check of the bound
    /\ writer.pc = "append" \/ Admitted
    /\ file' = [file EXCEPT !.frames = Append(@, Frame(writer.records))]
    /\ writer' = [writer EXCEPT !.pc = "sync"]
    /\ UNCHANGED <<now, cache, prior, proof, acked, waiting, channel, index, poisoned, open, renews, crashes>>

AppendFrame ==
    /\ writer.pc = "append" \/ (Admitted /\ ~MustCompact)
    /\ Size(file.frames) + FrameSize(Frame(writer.records)) <= MaxBytes
    /\ file' = [file EXCEPT !.frames = Append(@, Frame(writer.records))]
    /\ writer' = [writer EXCEPT !.pc = "sync"]
    /\ UNCHANGED <<now, cache, prior, proof, acked, waiting, channel, index, poisoned, open, renews, crashes>>

SyncedLater == file.synced   \* a mutant: the file is not synced before the reply

SyncedFrames == Len(file.frames)

(* The sync, the index (the acknowledgement boundary) and the replies.     *)
Sync ==
    /\ writer.pc = "sync"
    /\ file' = [file EXCEPT !.synced = SyncedFrames]
    /\ index' = AppliedAll(index, <<Frame(writer.records)>>)
    /\ Reply(TRUE)
    /\ UNCHANGED <<now, cache, prior, proof, channel, poisoned, open, renews, crashes>>

-----------------------------------------------------------------------------
(* Journal::open after a crash: replay, truncate the torn tail, sync.      *)
Crash ==
    /\ crashes < MaxCrashes
    /\ \E frames \in PossibleFiles :
          /\ Replayable(frames)
          /\ file' = [frames |-> WholePrefix(frames),
                      synced |-> Len(WholePrefix(frames)), old |-> NoInode]
          /\ index' = AppliedAll(EmptyIndex, WholePrefix(frames))
    /\ \E back \in SUBSET Keys :
          cache' = [k \in Keys |-> IF k \in back THEN prior[k] ELSE cache[k]]
    /\ prior' = cache'
    /\ crashes' = crashes + 1
    /\ waiting' = [k \in Keys |-> NoWait]
    /\ channel' = << >> /\ writer' = Resting /\ poisoned' = FALSE /\ open' = TRUE
    /\ UNCHANGED <<now, proof, acked, renews>>

Next ==
    \/ Tick \/ Close \/ Take \/ Sum \/ Refuse \/ CompactRename \/ CompactSync
    \/ CommitFails \/ AppendFrame \/ Sync \/ Crash
    \/ \E k \in Keys : Promote(k) \/ Renew(k) \/ Cancel(k)

Spec == Init /\ [][Next]_vars

(* The writer thread is scheduled.                                         *)
Writer == Take \/ Sum \/ Refuse \/ CompactRename \/ CompactSync \/ CommitFails \/ AppendFrame \/ Sync
FairSpec == Spec /\ WF_vars(Writer)

-----------------------------------------------------------------------------
(* The variables keep their types and the queue its bound.                 *)
TypeOK ==
    /\ now \in 1..MaxTime /\ crashes \in 0..MaxCrashes
    /\ Len(channel) <= MaxBatch
    /\ Len(writer.records) + Len(writer.requests) <= MaxBatch
    /\ file.synced \in 0..Len(file.frames)
    /\ \A k \in Keys : index[k].observed \in 0..MaxTime /\ waiting[k].waits \in BOOLEAN
    /\ poisoned \in BOOLEAN /\ open \in BOOLEAN

(* replay: whatever a failed or interrupted commit or compaction leaves,   *)
(* the journal can be opened again (it is never followed by a frame after  *)
(* a torn one, and never outgrows the bound that open enforces).           *)
AlwaysReplayable == \A frames \in PossibleFiles : Replayable(frames)

(* "This index is the acknowledgement boundary": what a restore of the     *)
(* same process reads, every crash would have kept.                        *)
ReadIsDurable ==
    \A k \in Keys, frames \in PossibleFiles :
        Read(AppliedAll(EmptyIndex, WholePrefix(frames)), k, cache[k]) >= Read(index, k, cache[k])

(* A renewal that was acknowledged for the content that is still on disk   *)
(* is found by the next restart, through batches, cancelled waiters that   *)
(* left their request behind, compactions and crashes.                     *)
AcknowledgedIsKept ==
    \A k \in Keys : cache[k].sum # 0 =>
        \A frames \in PossibleFiles :
            Read(AppliedAll(EmptyIndex, WholePrefix(frames)), k, cache[k]) >= acked[cache[k].sum]

(* The checksum is taken by the writer, the time by the refresh, and a     *)
(* crash may put the previous content back: a record never makes a content *)
(* younger than a primary's last word on it.                               *)
FreshnessIsEarned ==
    \A k \in Keys, frames \in PossibleFiles :
        \A c \in {cache[k], prior[k]} : c.sum # 0 =>
            Read(AppliedAll(EmptyIndex, WholePrefix(frames)), k, c) <= proof[c.sum]

(* The writer outlives failures and the close of the channel: whoever      *)
(* waits is answered.                                                      *)
WaitersAnswered == \A k \in Keys : waiting[k].waits ~> ~waiting[k].waits
=============================================================================
