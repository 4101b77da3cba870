--------------------------- MODULE ZonePersistence ---------------------------
(***************************************************************************)
(* The last-good cache of one zone on disk                                 *)
(* (crates/borondns-server/src/zone_persistence.rs and                     *)
(* zone_persistence/catalog_lifecycle.rs): a checkpoint, a journal of      *)
(* differences bound to it, and a freshness record bound to either, all    *)
(* replaced by rename, with one directory sync after the fact.             *)
(*                                                                         *)
(* The file system is the adversary.  `visible' is what the process sees,  *)
(* `durable' what the last directory sync has made safe, `pending' the     *)
(* directory operations since; a crash keeps a prefix of them, or, when    *)
(* Reorder is TRUE, the latest or the durable value of every name on its   *)
(* own.  File contents are synced before they are renamed, so a name never *)
(* points at a half-written file.                                          *)
(*                                                                         *)
(* A SHA-256 digest is the digested record itself: equal digests are equal *)
(* contents.                                                               *)
(***************************************************************************)
EXTENDS Integers, Sequences, FiniteSets, SequencesExt

CONSTANTS
    Member,       \* TRUE: a catalog member with a cache binding; FALSE: a configured zone
    Reorder,      \* a crash may persist directory operations out of order
    Faults,       \* disk operations may fail
    Expire,       \* SOA EXPIRE
    MaxEntries,   \* MAX_JOURNAL_ENTRIES
    MaxContents,  \* bound: transferred contents
    MaxTokens,    \* bound: lifecycle tokens drawn
    MaxCrashes,   \* bound: crashes
    MaxPending,   \* bound: unsynced directory operations before the next one
    MaxTime       \* bound: seconds

(* What is taken for granted of the constants.                             *)
Parameters ==
    /\ Member \in BOOLEAN /\ Reorder \in BOOLEAN /\ Faults \in BOOLEAN
    /\ Expire \in Nat /\ MaxEntries \in Nat /\ MaxContents \in Nat
    /\ MaxTokens \in Nat /\ MaxCrashes \in Nat /\ MaxPending \in Nat /\ MaxTime \in Nat

(* The identities of a member that a catalog lists: the digest of catalog, *)
(* member node, zone and transfer policy.  Two policies are enough to      *)
(* leave one and to come back to it.                                       *)
Identities == IF Member THEN {1, 2} ELSE {}
Attempts == IF Member THEN {1, 2} ELSE {1}

NoFile == [kind |-> "none"]
NoCopy == [serial |-> 0, content |-> 0]
Mixed == -1
NoPlan == [listed |-> FALSE, identity |-> 0, token |-> 0, gen |-> 0]
Unlisted == 0

VARIABLES
    now,
    visible, durable, pending,  \* the cache directory
    mem,        \* the copy that is served, and whether it is EXPIRED
    plan,       \* the zone's transfer plan with its cache binding
    att,        \* transfer attempts, with the binding each one has captured
    cat,        \* the catalog: what it lists, and the transition under way
    minted,     \* contents, tokens and plan generations handed out
    proof,      \* history: last time a primary vouched for each content
    acked,      \* history: last confirmation that was acknowledged, per content
    past,       \* history: the namespace each content was fetched for, those of
                \* the member's present life, those of the lives that have ended
    crashes

vars == <<now, visible, durable, pending, mem, plan, att, cat, minted, proof,
          acked, past, crashes>>

Tokens == IF Member THEN 1..MaxTokens ELSE {0}
Names == ({"base", "journal", "fresh"} \X Tokens) \cup ({"token"} \X Identities)
Contents == 1..MaxContents

Max2(a, b) == IF a > b THEN a ELSE b

-----------------------------------------------------------------------------
(* Reading the cache.                                                      *)

(* with_persistence_changes, entry after entry: the differences of an      *)
(* entry make the content it leads to only out of the content they were    *)
(* taken from.                                                             *)
Applied(copy, entries) ==
    LET last == entries[Len(entries)]
        chained == \A i \in DOMAIN entries :
                      entries[i].from = IF i = 1 THEN copy.content ELSE entries[i - 1].to
    IN  IF entries = << >> THEN copy
        ELSE [serial |-> last.new, content |-> IF chained THEN last.to ELSE Mixed]

(* The journal counts only when it is bound to this very checkpoint.       *)
JournalBound(d, t) ==
    d[<<"journal", t>>] # NoFile /\ d[<<"journal", t>>].base = d[<<"base", t>>]

FreshTimeBySerial(d, t, serial, sum) ==   \* a mutant: the digest is not compared
    LET f == d[<<"fresh", t>>]
    IN  IF f # NoFile /\ f.serial = serial THEN f.time ELSE 0

(* read_freshness: the record counts only for this serial and this digest. *)
FreshTime(d, t, serial, sum) ==
    LET f == d[<<"fresh", t>>]
    IN  IF f # NoFile /\ f.serial = serial /\ f.sum = sum THEN f.time ELSE 0

NothingRestored == [ok |-> TRUE, copy |-> NoCopy, time |-> 0]
RestoreRejected == [ok |-> FALSE, copy |-> NoCopy, time |-> 0]

(* restore: checkpoint, then the entries of a journal bound to it, then    *)
(* the freshness of what results.                                          *)
Restore(d, t) ==
    LET b == d[<<"base", t>>]
        j == d[<<"journal", t>>]
        entries == IF JournalBound(d, t) THEN j.entries ELSE << >>
        broken ==
            /\ JournalBound(d, t)
            /\ \/ b.copy.serial # j.serial
               \/ \E i \in DOMAIN entries :
                     entries[i].old # IF i = 1 THEN j.serial ELSE entries[i - 1].new
        copy == Applied(b.copy, entries)
        written == IF entries = << >> THEN b.time ELSE entries[Len(entries)].time
        sum == IF JournalBound(d, t) THEN j ELSE b
    IN  CASE b = NoFile -> NothingRestored
          [] b # NoFile /\ broken -> RestoreRejected
          [] OTHER -> [ok |-> TRUE, copy |-> copy,
                       time |-> Max2(written, FreshTime(d, t, copy.serial, sum))]

ServedRegardless(r) == [copy |-> r.copy, expired |-> FALSE]   \* a mutant

(* The served copy that a restored one becomes: too old, it is EXPIRED.    *)
Served(r) ==
    [copy |-> r.copy, expired |-> r.copy # NoCopy /\ now - r.time >= Expire]

-----------------------------------------------------------------------------
(* Writing the cache.                                                      *)

(* What operations make of a directory: the last one on a name decides.    *)
After(d, ops) ==
    [n \in Names |->
        LET mine == {i \in DOMAIN ops : ops[i].name = n}
        IN  IF mine = {} THEN d[n] ELSE ops[Max(mine)].file]

(* The directory operations of a step: renames and unlinks, in order.      *)
Write(ops) ==
    /\ Len(pending) <= MaxPending
    /\ visible' = After(visible, ops)
    /\ pending' = pending \o ops
    /\ UNCHANGED durable

(* The same operations followed by a directory sync.                       *)
WriteAndSync(ops) ==
    /\ visible' = After(visible, ops)
    /\ durable' = visible'
    /\ pending' = << >>

Op(kind, t, file) == [name |-> <<kind, t>>, file |-> file]

(* What a crash may leave in the directory.                                *)
PrefixOf(k) == After(durable, SubSeq(pending, 1, k))

PossibleDisks ==
    IF Reorder
    THEN { [n \in Names |-> IF n \in kept THEN visible[n] ELSE durable[n]] :
             kept \in SUBSET { pending[i].name : i \in DOMAIN pending } }
    ELSE { PrefixOf(k) : k \in 0..Len(pending) }

Idle == [pc |-> "idle", gen |-> 0, token |-> 0, base |-> NoCopy,
         copy |-> NoCopy, file |-> NoFile, full |-> TRUE, time |-> 0]

(* Settled catalog: what is listed (an identity, or Unlisted), what a       *)
(* restart may find listed, and the transition under way.                  *)
Init ==
    /\ now = 1
    /\ visible = [n \in Names |-> NoFile]
    /\ durable = visible
    /\ pending = << >>
    /\ mem = [copy |-> NoCopy, expired |-> FALSE]
    /\ plan = IF Member THEN NoPlan ELSE [NoPlan EXCEPT !.listed = TRUE]
    /\ att = [a \in Attempts |-> Idle]
    /\ cat = [pc |-> "idle", listed |-> Unlisted, saved |-> {Unlisted},
              wanted |-> Unlisted, renamed |-> FALSE]
    /\ minted = [content |-> 0, token |-> 0, gen |-> 0, serial |-> 1]
    /\ proof = [c \in Contents |-> 0]
    /\ acked = [c \in Contents |-> 0]
    /\ past = [owner |-> [c \in Contents |-> 0], life |-> {}, ended |-> {}]
    /\ crashes = 0

Tick ==
    /\ now < MaxTime
    /\ now' = now + 1
    /\ UNCHANGED <<visible, durable, pending, mem, plan, att, cat, minted, proof,
                   acked, past, crashes>>

-----------------------------------------------------------------------------
(* An attempt: transfer, stage, promote within the publication, sync.      *)

IsCurrent(a) == plan.listed /\ plan.gen = att[a].gen

(* One attempt of the current plan at a time; obsolete ones may linger.    *)
Begin(a) ==
    /\ att[a].pc = "idle" /\ plan.listed
    /\ \A b \in Attempts : att[b].pc = "idle" \/ ~IsCurrent(b)
    /\ att' = [att EXCEPT ![a] =
                  [Idle EXCEPT !.pc = "begun", !.gen = plan.gen,
                               !.token = plan.token, !.base = mem.copy]]
    /\ UNCHANGED <<now, visible, durable, pending, mem, plan, cat, minted,
                   proof, acked, past, crashes>>

Checkpoint(copy) == [kind |-> "base", copy |-> copy, time |-> now]

JournalExtendsFull(t, previous) ==   \* a mutant: off by one at MAX_JOURNAL_ENTRIES
    LET j == visible[<<"journal", t>>]
    IN  /\ visible[<<"base", t>>] # NoFile
        /\ j # NoFile =>
             /\ j.base = visible[<<"base", t>>]
             /\ Len(j.entries) <= MaxEntries
             /\ previous.serial = j.entries[Len(j.entries)].new

JournalExtendsAny(t, previous) ==   \* a mutant: the serials are not compared
    /\ visible[<<"base", t>>] # NoFile
    /\ visible[<<"journal", t>>] # NoFile =>
         Len(visible[<<"journal", t>>].entries) < MaxEntries

(* stage_incremental appends to the journal of the checkpoint on disk; in  *)
(* every other case it falls back to a full checkpoint.                    *)
JournalExtends(t, previous) ==
    LET j == visible[<<"journal", t>>]
    IN  /\ visible[<<"base", t>>] # NoFile
        /\ j # NoFile =>
             /\ j.base = visible[<<"base", t>>]
             /\ Len(j.entries) < MaxEntries
             /\ previous.serial =
                  IF j.entries = << >> THEN j.serial ELSE j.entries[Len(j.entries)].new
        /\ MaxEntries > 0

JournalWith(t, previous, copy) ==
    LET j == visible[<<"journal", t>>]
        entry == [old |-> previous.serial, new |-> copy.serial,
                  from |-> previous.content, to |-> copy.content, time |-> now]
    IN  [kind |-> "journal", base |-> visible[<<"base", t>>],
         serial |-> IF j = NoFile THEN previous.serial ELSE j.serial,
         entries |-> Append(IF j = NoFile THEN << >> ELSE j.entries, entry)]

(* An operator retransfer may bring another content under the same serial. *)
NewSerials(previous) ==
    IF previous = NoCopy THEN {minted.serial} ELSE {previous.serial, minted.serial + 1}

Staged(a, serial, full) ==
    LET copy == [serial |-> serial, content |-> minted.content + 1]
    IN  /\ minted' = [minted EXCEPT !.content = @ + 1, !.serial = Max2(@, serial)]
        /\ proof' = [proof EXCEPT ![copy.content] = now]
        /\ past' = [past EXCEPT !.owner[copy.content] = att[a].token]
        /\ att' = [att EXCEPT ![a] =
                      [@ EXCEPT !.pc = "staged", !.copy = copy, !.full = full,
                                !.file = IF full THEN Checkpoint(copy)
                                         ELSE JournalWith(att[a].token, att[a].base, copy)]]

(* stage: an AXFR, or an IXFR that cannot extend the journal.              *)
StageFull(a) ==
    /\ att[a].pc = "begun" /\ minted.content < MaxContents
    /\ \E s \in NewSerials(att[a].base) : Staged(a, s, TRUE)
    /\ UNCHANGED <<now, visible, durable, pending, mem, plan, cat, acked, crashes>>

StageIncremental(a) ==
    /\ att[a].pc = "begun" /\ minted.content < MaxContents
    /\ att[a].base # NoCopy
    /\ Staged(a, minted.serial + 1, ~JournalExtends(att[a].token, att[a].base))
    /\ UNCHANGED <<now, visible, durable, pending, mem, plan, cat, acked, crashes>>

(* A temporary file that could not be written, or was staged for a plan    *)
(* that is gone, is removed.                                               *)
Abandon(a) ==
    /\ att[a].pc = "staged" /\ (Faults \/ ~IsCurrent(a))
    /\ att' = [att EXCEPT ![a] = Idle]
    /\ UNCHANGED <<now, visible, durable, pending, mem, plan, cat, minted,
                   proof, acked, past, crashes>>

PromoteOpsJournalFirst(a, unlinkJournal, unlinkFresh) ==   \* a mutant: swapped order
    LET t == att[a].token
    IN  (IF att[a].full /\ unlinkJournal THEN <<Op("journal", t, NoFile)>> ELSE << >>)
        \o <<Op(IF att[a].full THEN "base" ELSE "journal", t, att[a].file)>>
        \o (IF unlinkFresh THEN <<Op("fresh", t, NoFile)>> ELSE << >>)

(* promote: rename, then unlink what the new file has made stale; an       *)
(* unlink that fails is reported and nothing is undone.                    *)
PromoteOps(a, unlinkJournal, unlinkFresh) ==
    LET t == att[a].token
    IN  <<Op(IF att[a].full THEN "base" ELSE "journal", t, att[a].file)>>
        \o (IF att[a].full /\ unlinkJournal THEN <<Op("journal", t, NoFile)>> ELSE << >>)
        \o (IF unlinkFresh THEN <<Op("fresh", t, NoFile)>> ELSE << >>)

Unlinked == IF Faults THEN BOOLEAN ELSE {TRUE}

(* publish_prepared_snapshot_for_transfer: memory follows the rename.      *)
Publish(a) ==
    /\ att[a].pc = "staged" /\ IsCurrent(a)
    /\ \E uj, uf \in Unlinked : Write(PromoteOps(a, uj, uf))
    /\ mem' = [copy |-> att[a].copy, expired |-> FALSE]
    /\ att' = [att EXCEPT ![a].pc = "published"]
    /\ UNCHANGED <<now, plan, cat, minted, proof, acked, past, crashes>>

(* finish: the directory sync, outside the publication lock.               *)
Finish(a) ==
    /\ att[a].pc = "published"
    /\ WriteAndSync(<< >>)
    /\ att' = [att EXCEPT ![a] = Idle]
    /\ UNCHANGED <<now, mem, plan, cat, minted, proof, acked, past, crashes>>

FinishFails(a) ==
    /\ att[a].pc = "published" /\ Faults
    /\ att' = [att EXCEPT ![a] = Idle]
    /\ UNCHANGED <<now, visible, durable, pending, mem, plan, cat, minted,
                   proof, acked, past, crashes>>

-----------------------------------------------------------------------------
(* An attempt that finds the zone current renews its freshness on disk     *)
(* before it may activate the zone and acknowledge the refresh.            *)

(* active_cache_checksum: the digest of what restore would return.         *)
ActiveSum(t) == visible[<<IF JournalBound(visible, t) THEN "journal" ELSE "base", t>>]

ConfirmStarts(a) ==
    /\ att[a].pc = "begun" /\ IsCurrent(a)
    /\ att[a].base # NoCopy /\ mem.copy = att[a].base

RenewChecksum(a) ==
    /\ ConfirmStarts(a)
    /\ visible[<<"base", att[a].token>>] # NoFile
    /\ att' = [att EXCEPT ![a].pc = "summed", ![a].time = now,
                          ![a].file = ActiveSum(att[a].token)]
    /\ proof' = [proof EXCEPT ![att[a].base.content] = now]
    /\ UNCHANGED <<now, visible, durable, pending, mem, plan, cat, minted,
                   acked, past, crashes>>

(* No checkpoint in this namespace: the renewal, and the refresh, fail.    *)
RenewFails(a) ==
    /\ ConfirmStarts(a)
    /\ visible[<<"base", att[a].token>>] = NoFile
    /\ att' = [att EXCEPT ![a] = Idle]
    /\ UNCHANGED <<now, visible, durable, pending, mem, plan, cat, minted,
                   proof, acked, past, crashes>>

FreshRecord(a) ==
    [kind |-> "fresh", serial |-> att[a].base.serial, sum |-> att[a].file,
     time |-> att[a].time]

RenewFreshnessUnsynced(a) ==   \* a mutant: acknowledged before the directory sync
    /\ att[a].pc = "summed"
    /\ Write(<<Op("fresh", att[a].token, FreshRecord(a))>>)
    /\ att' = [att EXCEPT ![a].pc = "renewed"]
    /\ UNCHANGED <<now, mem, plan, cat, minted, proof, acked, past, crashes>>

(* renew_freshness: the record is renamed into place and the directory     *)
(* synced; nothing rechecks the plan here, the namespace is the attempt's. *)
RenewFreshness(a) ==
    /\ att[a].pc = "summed"
    /\ WriteAndSync(<<Op("fresh", att[a].token, FreshRecord(a))>>)
    /\ att' = [att EXCEPT ![a].pc = "renewed"]
    /\ UNCHANGED <<now, mem, plan, cat, minted, proof, acked, past, crashes>>

(* The rename or the sync fails: no acknowledgement.                       *)
RenewFreshnessFails(a) ==
    /\ att[a].pc = "summed" /\ Faults
    /\ \/ Write(<<Op("fresh", att[a].token, FreshRecord(a))>>)
       \/ UNCHANGED <<visible, durable, pending>>
    /\ att' = [att EXCEPT ![a] = Idle]
    /\ UNCHANGED <<now, mem, plan, cat, minted, proof, acked, past, crashes>>

(* activate_zone_if_snapshot with the recorded success, or the discovery   *)
(* that the plan or the snapshot has changed meanwhile.                    *)
Activate(a) ==
    /\ att[a].pc = "renewed"
    /\ att' = [att EXCEPT ![a] = Idle]
    /\ IF IsCurrent(a) /\ mem.copy = att[a].base
       THEN /\ mem' = [mem EXCEPT !.expired = FALSE]
            /\ acked' = [acked EXCEPT ![mem.copy.content] = att[a].time]
       ELSE UNCHANGED <<mem, acked>>
    /\ UNCHANGED <<now, visible, durable, pending, plan, cat, minted, proof,
                   past, crashes>>

-----------------------------------------------------------------------------
(* The catalog that lists the member.                                      *)

TokenOf(id) == visible[<<"token", id>>]

(* write_lifecycle_token: a fresh random token for each identity, synced.  *)
Rotated(ids) ==
    [i \in ids |-> minted.token + Cardinality({k \in ids : k <= i})]

WriteTokens(ids, extra) ==
    /\ minted.token + Cardinality(ids) <= MaxTokens
    /\ minted' = [minted EXCEPT !.token = @ + Cardinality(ids), !.gen = @ + extra]
    /\ IF ids = {} THEN UNCHANGED <<visible, durable, pending>>
       ELSE WriteAndSync([k \in 1..Cardinality(ids) |->
                LET i == CHOOSE i \in ids : Cardinality({m \in ids : m <= i}) = k
                IN  Op("token", i, [kind |-> "token", token |-> Rotated(ids)[i]])])

(* catalog_binding draws a token for an identity that has none.            *)
Missing(id) == IF id # Unlisted /\ TokenOf(id) = NoFile THEN {id} ELSE {}


(* prepare_catalog_cache_lifecycles: the binding of a member whose         *)
(* candidate binding differs is revoked before the catalog is published.   *)
Revoked(id) ==
    IF plan.listed /\ plan.token # 0
       /\ ~(id = plan.identity /\ TokenOf(id) # NoFile /\ TokenOf(id).token = plan.token)
    THEN {plan.identity} ELSE {}

CatalogPrepare(id, renamed) ==
    /\ cat.pc = "idle"
    /\ renamed => id # Unlisted /\ id # cat.listed /\ cat.listed # Unlisted
    /\ WriteTokens(Missing(id) \cup Revoked(id), 0)
    /\ cat' = [cat EXCEPT !.pc = "prepared", !.wanted = id, !.renamed = renamed]
    /\ UNCHANGED <<now, mem, plan, att, proof, acked, past, crashes>>

(* The catalog's own transfer does not come to its publication.            *)
CatalogAborts ==
    /\ cat.pc = "prepared"
    /\ cat' = [cat EXCEPT !.pc = "idle", !.wanted = Unlisted, !.renamed = FALSE]
    /\ UNCHANGED <<now, visible, durable, pending, mem, plan, att, minted,
                   proof, acked, past, crashes>>

(* The catalog is published; its own checkpoint may not be durable yet.    *)
CatalogPublish ==
    /\ cat.pc = "prepared"
    /\ cat' \in { [cat EXCEPT !.pc = "apply", !.listed = cat.wanted, !.saved = s] :
                    s \in {{cat.wanted}, cat.saved \cup {cat.wanted}} }
    /\ past' = IF plan.listed /\ (cat.wanted = Unlisted \/ cat.renamed)
               THEN [past EXCEPT !.ended = @ \cup past.life] ELSE past
    /\ UNCHANGED <<now, visible, durable, pending, mem, plan, att, minted,
                   proof, acked, crashes>>

(* remove: checkpoint, freshness, journal, in that order; the first error  *)
(* ends it and only a warning is logged.                                   *)
RemovedKinds(k) == SubSeq(<<"base", "fresh", "journal">>, 1, k)

RemoveFiles(t) ==
    \E k \in (IF Faults THEN 0..3 ELSE {3}) :
        LET ops == [i \in 1..k |-> Op(RemovedKinds(k)[i], t, NoFile)]
        IN  IF k = 3 THEN WriteAndSync(ops) ELSE Write(ops)

(* apply_parsed_snapshot, a member that is no longer listed.               *)
ApplyRemoval ==
    /\ cat.pc = "apply" /\ cat.listed = Unlisted
    /\ cat' = [cat EXCEPT !.pc = "idle"]
    /\ plan' = NoPlan
    /\ mem' = [copy |-> NoCopy, expired |-> FALSE]
    /\ IF plan.listed THEN RemoveFiles(plan.token)
       ELSE UNCHANGED <<visible, durable, pending>>
    /\ UNCHANGED <<now, att, minted, proof, acked, past, crashes>>

(* A renamed member node: the old life is removed before the new one is    *)
(* added, in the same application.                                         *)
ApplyRename ==
    /\ cat.pc = "apply" /\ cat.listed # Unlisted /\ cat.renamed /\ plan.listed
    /\ plan' = NoPlan
    /\ mem' = [copy |-> NoCopy, expired |-> FALSE]
    /\ RemoveFiles(plan.token)
    /\ cat' = [cat EXCEPT !.pc = "readd"]
    /\ UNCHANGED <<now, att, minted, proof, acked, past, crashes>>

(* A listed member gets its binding and its plan; a new generation unless  *)
(* nothing has changed.  A member without a zone is restored from the      *)
(* binding's namespace, except after a rename.                             *)
ApplyListed ==
    /\ \/ cat.pc = "apply" /\ cat.listed # Unlisted /\ ~(cat.renamed /\ plan.listed)
       \/ cat.pc = "readd"
    /\ LET id == cat.listed
           drawn == Missing(id)
           token == IF drawn = {} THEN TokenOf(id).token ELSE minted.token + 1
           same == plan.listed /\ plan.token = token
           restored == IF drawn = {} THEN Restore(visible, token) ELSE NothingRestored
       IN  /\ WriteTokens(drawn, IF same THEN 0 ELSE 1)
           /\ plan' = IF same THEN plan
                      ELSE [listed |-> TRUE, identity |-> id, token |-> token,
                            gen |-> minted.gen + 1]
           /\ mem' = IF mem.copy = NoCopy /\ cat.pc = "apply" THEN Served(restored) ELSE mem
           /\ past' = [past EXCEPT !.life = IF plan.listed THEN @ \cup {token} ELSE {token}]
    /\ cat' = [cat EXCEPT !.pc = "idle", !.renamed = FALSE]
    /\ UNCHANGED <<now, att, proof, acked, crashes>>

-----------------------------------------------------------------------------
(* Crash and restart.  A configured zone is restored at once; a member     *)
(* when the catalog, restored from its own cache, is reconciled.           *)
Restarted(d, listings) ==
    /\ mem' = IF Member THEN [copy |-> NoCopy, expired |-> FALSE]
              ELSE Served(Restore(d, 0))
    /\ plan' = IF Member THEN NoPlan ELSE plan
    /\ att' = [a \in Attempts |-> Idle]
    /\ crashes' = crashes + 1
    /\ IF Member
       THEN \E id \in listings :
               cat' = [cat EXCEPT !.pc = "apply", !.listed = id, !.saved = {id},
                                  !.wanted = Unlisted, !.renamed = FALSE]
       ELSE UNCHANGED cat
    /\ UNCHANGED <<now, minted, proof, acked, past>>

(* The process stops; the directory is as the process saw it.              *)
ProcessCrash ==
    /\ crashes < MaxCrashes
    /\ Restarted(visible, {cat.listed})
    /\ UNCHANGED <<visible, durable, pending>>

(* The machine stops.                                                      *)
PowerLoss ==
    /\ crashes < MaxCrashes
    /\ \E d \in PossibleDisks :
          /\ Restarted(d, cat.saved)
          /\ visible' = d /\ durable' = d /\ pending' = << >>

Next ==
    \/ Tick \/ ProcessCrash \/ PowerLoss
    \/ \E a \in Attempts :
          \/ Begin(a) \/ StageFull(a) \/ StageIncremental(a) \/ Abandon(a)
          \/ Publish(a) \/ Finish(a) \/ FinishFails(a)
          \/ RenewChecksum(a) \/ RenewFails(a)
          \/ RenewFreshness(a) \/ RenewFreshnessFails(a) \/ Activate(a)
    \/ \E id \in Identities \cup {Unlisted}, renamed \in BOOLEAN :
          Member /\ CatalogPrepare(id, renamed)
    \/ CatalogAborts \/ CatalogPublish
    \/ ApplyRemoval \/ ApplyRename \/ ApplyListed

Spec == Init /\ [][Next]_vars

-----------------------------------------------------------------------------
Copy == [serial : 0..(MaxContents + 1), content : 0..MaxContents]

(* The variables keep their types and every bound holds.                   *)
TypeOK ==
    /\ now \in 1..Max2(1, MaxTime) /\ crashes \in 0..MaxCrashes
    /\ mem.copy \in Copy /\ mem.expired \in BOOLEAN
    /\ DOMAIN visible = Names /\ DOMAIN durable = Names
    /\ \A i \in DOMAIN pending : pending[i].name \in Names
    /\ \A t \in Tokens : visible[<<"journal", t>>] # NoFile =>
          Len(visible[<<"journal", t>>].entries) \in 1..MaxEntries
    /\ \A a \in Attempts : att[a].copy \in Copy /\ att[a].token \in Tokens \cup {0}
    /\ minted.content \in 0..MaxContents /\ minted.token \in 0..MaxTokens
    /\ past.life \cup past.ended \subseteq Tokens

(* restore after stage, stage_incremental and promote, whatever of them a  *)
(* crash has kept and whatever cleanup has failed: no cache that this      *)
(* program has written is rejected as inconsistent, and no journal is ever *)
(* applied to a checkpoint it was not computed from.                       *)
RestoreIsWhole ==
    \A d \in PossibleDisks, t \in Tokens :
        Restore(d, t).ok /\ Restore(d, t).copy.content # Mixed

(* read_freshness: the age that a restart computes for a copy is never     *)
(* younger than the last time a primary vouched for that very content, so  *)
(* a freshness record left behind cannot keep another copy alive.          *)
FreshnessIsEarned ==
    \A d \in PossibleDisks, t \in Tokens :
        LET r == Restore(d, t)
        IN  r.copy.content \in Contents => r.time <= proof[r.copy.content]

(* confirm_current_after_freshness syncs the freshness record before the   *)
(* refresh is acknowledged: no crash takes an acknowledged confirmation of *)
(* the served copy back.                                                   *)
AckIsDurable ==
    mem.copy # NoCopy /\ acked[mem.copy.content] > 0 /\ plan.listed =>
        \A d \in PossibleDisks :
            LET r == Restore(d, plan.token)
            IN  r.copy = mem.copy => r.time >= acked[mem.copy.content]

(* restore across downtime: a copy that nobody has vouched for within SOA  *)
(* EXPIRE does not come back ACTIVE.                                       *)
RestoredInTime ==
    mem'.copy # NoCopy /\ ~mem'.expired /\ crashes' # crashes =>
        now - proof[mem'.copy.content] < Expire

(* revoke_catalog_binding before the catalog is published: data fetched    *)
(* for a member that the catalog has since removed or renamed is not       *)
(* restored again, through failed removals, crashes, and catalogs that     *)
(* come back with an older listing.                                        *)
NotRevived ==
    mem'.copy # mem.copy /\ mem'.copy.content \in Contents /\ att' = att =>
        past.owner[mem'.copy.content] \notin past.ended

(* What LastGoodCopy calls saved: the copies that restore finds on the     *)
(* disks a crash may leave.                                                *)
Saved == { Restore(d, 0).copy : d \in PossibleDisks }
=============================================================================
