------------------------------ MODULE ZoneStore ------------------------------
(***************************************************************************)
(* The zone directory (borondns-core zone.rs ZoneStore): an immutable      *)
(* directory swapped under publish_lock, read without it.  Transfers and   *)
(* compactions read an entry, work outside the lock and come back with a   *)
(* replacement; refresh code captures a snapshot and comes back to expire  *)
(* or confirm it; the reconciler and the operator change the directory in  *)
(* between.                                                                *)
(*                                                                         *)
(* A zone is the sequence of its labels from the root.  An entry carries   *)
(* an id that stands for its address (Arc::ptr_eq), and so does a          *)
(* snapshot; a snapshot also carries the incarnation it was made for and   *)
(* an image the snapshot it was compiled from.                             *)
(***************************************************************************)
EXTENDS Naturals, Sequences, FiniteSets, SequencesExt

CONSTANTS
    Origins,     \* origins of zones, sequences of labels from the root
    QNames,      \* names that are asked for
    Transfers,   \* concurrent transfers
    Serials,     \* the serial space is 0 .. Serials - 1
    Copies,      \* serials of the last-good copies that may be restored
    SmallLimit,  \* SMALL_ZONE_DIRECTORY_LIMIT
    Sharding,    \* whether a publication may keep the image of the entry it replaces
    Retransfers, \* whether transfers are ones the operator asked for
    MaxIds       \* bound: how many entries and snapshots are ever made

(* What is taken for granted of the constants.                              *)
Parameters ==
    /\ IsFiniteSet(Origins)
    /\ \A o \in Origins \cup QNames : Len(o) \in Nat /\ o = [i \in 1 .. Len(o) |-> o[i]]
    /\ Serials \in Nat /\ Serials >= 2 /\ Copies \subseteq 0 .. Serials - 1
    /\ SmallLimit \in Nat /\ MaxIds \in Nat
    /\ Sharding \subseteq BOOLEAN /\ Retransfers \subseteq BOOLEAN

NoSerial == Serials      \* a zone that is LOADING has no serial
None == 0                \* no entry, no snapshot, no image

VARIABLES
    dir,      \* the published directory
    ids,      \* how many addresses were given out
    incs,     \* next_incarnation
    prep,     \* per transfer: its PreparedZonePublication
    view,     \* a captured TransferZoneSnapshot
    comp,     \* a running compaction
    ins,      \* a running try_replace_snapshot
    wanted,   \* ghost: the visibility last asked for
    gone      \* ghost: the incarnations that were removed

vars == <<dir, ids, incs, prep, view, comp, ins, wanted, gone>>

NoEntry == [id |-> None, serial |-> NoSerial]
NoPrep == [zone |-> <<"-">>]
NoWork == [zone |-> <<"-">>]
NoView == [zone |-> <<"-">>]

Covers(o, q) == Len(o) <= Len(q) /\ SubSeq(q, 1, Len(o)) = o
Get(d, z) == IF z \in DOMAIN d.by THEN d.by[z] ELSE NoEntry
Put(f, z, e) == [x \in DOMAIN f \cup {z} |-> IF x = z THEN e ELSE f[x]]
Drop(f, z) == [x \in DOMAIN f \ {z} |-> f[x]]

(***************************************************************************)
(* ZoneDirectory.                                                          *)
(***************************************************************************)
EmptyDirectory ==
    [by |-> <<>>, suffix |-> <<>>, lengths |-> {}, small |-> <<>>, len |-> 0, active |-> 0]

Counted(e) == IF e.state = "Active" /\ ~e.hidden THEN 1 ELSE 0
MostLabelsFirst(S) ==
    CHOOSE s \in SetToSeqs(S) :
        \A i, j \in DOMAIN s : i < j => Len(s[i].origin) >= Len(s[j].origin)

\* MUTANT: the entry that is replaced stays in the count.
DirInsertCounting(d, e) ==
    [by |-> Put(d.by, e.origin, e), suffix |-> Put(d.suffix, e.origin, e),
     lengths |-> d.lengths \cup {Len(e.origin)},
     len |-> Cardinality(DOMAIN d.by \cup {e.origin}),
     active |-> d.active + Counted(e), small |-> <<>>]

(* The active count is only changed by what goes in and what comes out.     *)
DirInsert(d, e) ==
    LET z == e.origin
        old == z \in DOMAIN d.by
        len == IF old THEN d.len ELSE d.len + 1
    IN  [by |-> Put(d.by, z, e),
         suffix |-> Put(d.suffix, z, e),
         lengths |-> d.lengths \cup {Len(z)},
         len |-> len,
         active |-> d.active - (IF old THEN Counted(d.by[z]) ELSE 0) + Counted(e),
         small |-> IF len <= SmallLimit
                   THEN MostLabelsFirst({c \in Range(d.small) : c.origin # z} \cup {e})
                   ELSE <<>>]

\* MUTANT: the short list is not rebuilt when the directory shrinks.
DirRemoveKeepSmall(d, z) ==
    IF z \notin DOMAIN d.by THEN d
    ELSE [d EXCEPT !.by = Drop(d.by, z), !.suffix = Drop(d.suffix, z), !.len = d.len - 1,
                   !.active = d.active - Counted(d.by[z]),
                   !.lengths = IF d.len = 1 THEN {} ELSE @]

DirRemove(d, z) ==
    IF z \notin DOMAIN d.by THEN d
    ELSE LET by == Drop(d.by, z)
             len == d.len - 1
         IN  [by |-> by,
              suffix |-> Drop(d.suffix, z),
              lengths |-> IF len = 0 THEN {} ELSE d.lengths,
              len |-> len,
              active |-> d.active - Counted(d.by[z]),
              small |-> IF len <= SmallLimit
                        THEN MostLabelsFirst({by[x] : x \in DOMAIN by}) ELSE d.small]

SuffixGet(d, key) ==
    IF Len(key) \in d.lengths /\ key \in DOMAIN d.suffix THEN d.suffix[key] ELSE NoEntry
Visible(e) == e.id # None /\ ~e.hidden
KeysUpTo(q, upTo) == [i \in 1 .. upTo + 1 |-> SubSeq(q, 1, upTo + 1 - i)]
FirstVisible(d, keys) ==
    LET hits == {i \in DOMAIN keys : Visible(SuffixGet(d, keys[i]))}
    IN  IF hits = {} THEN NoEntry ELSE SuffixGet(d, keys[Min(hits)])

FindBestMatch(d, q) ==
    IF d.small # <<>>
    THEN LET hits == {i \in DOMAIN d.small : ~d.small[i].hidden /\ Covers(d.small[i].origin, q)}
         IN  IF hits = {} THEN NoEntry ELSE d.small[Min(hits)]
    ELSE FirstVisible(d, KeysUpTo(q, Len(q)))

(* The parent that holds the DS RRset of an origin that is served.          *)
FindParentOfExactMatch(d, q) ==
    IF Visible(SuffixGet(d, q)) /\ q # <<>>
    THEN FirstVisible(d, KeysUpTo(q, Len(q) - 1)) ELSE NoEntry

QueryZone(d, q, isDs) ==
    LET parent == FindParentOfExactMatch(d, q)
    IN  IF isDs /\ parent.id # None THEN parent ELSE FindBestMatch(d, q)

(***************************************************************************)
(* Entries.                                                                *)
(***************************************************************************)
LoadingEntry(z, id, hidden, inc) ==
    [origin |-> z, id |-> id, state |-> "Loading", serial |-> NoSerial,
     snap |-> [id |-> id, inc |-> inc], img |-> [id |-> None, inc |-> 0],
     overlay |-> FALSE, hidden |-> hidden, inc |-> inc]

(* try_new_replacing: an incremental publication keeps the image of an      *)
(* entry that is Active and has one.                                        *)
NewEntry(z, id, serial, hidden, inc, old, sharded) ==
    LET snap == [id |-> id, inc |-> inc]
        keep == sharded /\ old.id # None /\ old.state = "Active"
    IN  [origin |-> z, id |-> id, state |-> "Active", serial |-> serial, snap |-> snap,
         img |-> IF keep THEN old.img ELSE snap, overlay |-> keep,
         hidden |-> hidden, inc |-> inc]

WithState(e, id, state) ==
    [e EXCEPT !.id = id, !.state = state, !.img = [id |-> None, inc |-> 0], !.overlay = FALSE]

(***************************************************************************)
(* Transfers.                                                              *)
(***************************************************************************)
Fresh(n) == ids + n <= MaxIds

(* prepare_snapshot_arc_for_transfer: no lock is held.                      *)
Prepare(t, z, serial, sharded, retransfer) ==
    LET old == Get(dir, z)
        inc == IF old.id = None THEN incs + 1 ELSE old.inc
        hidden == old.id # None /\ old.hidden
    IN  /\ prep[t] = NoPrep /\ Fresh(1)
        /\ prep' = [prep EXCEPT ![t] =
             [zone |-> z, expected |-> old, retransfer |-> retransfer,
              entry |-> NewEntry(z, ids + 1, serial, hidden, inc, old, sharded)]]
        /\ ids' = ids + 1
        /\ incs' = IF old.id = None THEN incs + 1 ELSE incs
        /\ UNCHANGED <<dir, view, comp, ins, wanted, gone>>


FinalSoaIsAdmissible(p) ==
    LET distance == (p.entry.serial + Serials - p.expected.serial) % Serials
    IN  p.expected.serial # NoSerial =>
          (distance # 0 \/ p.retransfer) /\ distance < Serials \div 2

\* MUTANT: the transfer compares incarnations and not the entry itself.
StillCurrentByIncarnation(p) ==
    Get(dir, p.zone).id # None =>
        p.expected.id # None /\ Get(dir, p.zone).inc = p.expected.inc

StillCurrent(p) == Get(dir, p.zone).id = p.expected.id

(* publish_prepared_snapshot_for_transfer, under the lock; the durable      *)
(* commit may fail.                                                         *)
PublishPrepared(t) ==
    LET p == prep[t]
    IN  /\ p # NoPrep
        /\ StillCurrent(p) /\ FinalSoaIsAdmissible(p)
        /\ dir' = DirInsert(dir, p.entry)
        /\ prep' = [prep EXCEPT ![t] = NoPrep]
        /\ wanted' = IF p.zone \in DOMAIN dir.by THEN wanted ELSE Put(wanted, p.zone, FALSE)
        /\ UNCHANGED <<ids, incs, view, comp, ins, gone>>
PublishRefused(t) ==
    LET p == prep[t]
    IN  /\ p # NoPrep
        /\ prep' = [prep EXCEPT ![t] = NoPrep]
        /\ UNCHANGED <<dir, ids, incs, view, comp, ins, wanted, gone>>

(***************************************************************************)
(* Confirmation and expiry of a captured snapshot.                         *)
(***************************************************************************)
(* exact_snapshot_for_transfer: the snapshot of an expired entry is a copy  *)
(* made for the caller.                                                     *)
Capture(z) ==
    LET e == Get(dir, z)
    IN  /\ view = NoView /\ e.id # None
        /\ view' = [zone |-> z, installed |-> e.snap, serial |-> e.serial,
                    own |-> e.state # "Expired"]
        /\ UNCHANGED <<dir, ids, incs, prep, comp, ins, wanted, gone>>

IsCurrentSnapshot(v) == Get(dir, v.zone).id # None /\ Get(dir, v.zone).snap = v.installed

ExpireIfSnapshot ==
    LET e == Get(dir, view.zone)
    IN  /\ view # NoView /\ Fresh(1)
        /\ IF IsCurrentSnapshot(view) /\ view.own /\ e.state # "Expired"
           THEN /\ dir' = DirInsert(dir, WithState(e, ids + 1, "Expired"))
                /\ ids' = ids + 1
           ELSE UNCHANGED <<dir, ids>>
        /\ view' = NoView
        /\ UNCHANGED <<incs, prep, comp, ins, wanted, gone>>

Activated(e, id) ==
    [e EXCEPT !.id = id, !.state = "Active", !.img = e.snap, !.overlay = FALSE]
ActivateIfSnapshot ==
    LET e == Get(dir, view.zone)
    IN  /\ view # NoView /\ Fresh(1)
        /\ IF IsCurrentSnapshot(view) /\ e.state = "Expired" /\ view.serial # NoSerial
           THEN /\ dir' = DirInsert(dir, Activated(e, ids + 1))
                /\ ids' = ids + 1
           ELSE UNCHANGED <<dir, ids>>
        /\ view' = NoView
        /\ UNCHANGED <<incs, prep, comp, ins, wanted, gone>>

(***************************************************************************)
(* Compaction.                                                             *)
(***************************************************************************)
CompactStart(z) ==
    LET e == Get(dir, z)
    IN  /\ comp = NoWork
        /\ e.id # None /\ e.overlay
        /\ comp' = [zone |-> z, snap |-> e.snap, inc |-> e.inc]
        /\ UNCHANGED <<dir, ids, incs, prep, view, ins, wanted, gone>>

\* MUTANT: a compaction ends in whatever entry the zone has.
CompactObsoleteByName(e) == e.id = None \/ e.state # "Active"

CompactObsolete(e) == e.id = None \/ e.inc # comp.inc \/ e.state # "Active" \/ ~e.overlay
Compacted(e, id, base) ==
    [e EXCEPT !.id = id, !.img = base, !.overlay = e.snap # base]
CompactFinish ==
    LET e == Get(dir, comp.zone)
    IN  /\ comp # NoWork /\ Fresh(1)
        /\ IF CompactObsolete(e) THEN UNCHANGED <<dir, ids>>
           ELSE /\ dir' = DirInsert(dir, Compacted(e, ids + 1, comp.snap))
                /\ ids' = ids + 1
        /\ comp' = NoWork
        /\ UNCHANGED <<incs, prep, view, ins, wanted, gone>>
(* The image of the candidate cannot be compiled.                           *)
CompactFailed ==
    /\ comp # NoWork /\ Fresh(1) /\ comp' = NoWork
    /\ UNCHANGED <<dir, ids, incs, prep, view, ins, wanted, gone>>

(***************************************************************************)
(* The reconciler: a restored copy, then one directory update.  It does    *)
(* one thing at a time (CatalogManager holds its lock).                    *)
(***************************************************************************)
(* try_replace_snapshot reads the entry and prepares; when the entry has    *)
(* changed by the time the lock is held it starts over.                     *)
Affordable == incs <= ids   \* bound: incarnations lost to failed restorations
RestoreStart(z, serial, force) ==
    LET old == Get(dir, z)
    IN  /\ ins = NoWork /\ old.id = None /\ Affordable
        /\ ins' = [zone |-> z, expected |-> old, serial |-> serial, force |-> force,
                   inc |-> incs + 1]
        /\ incs' = incs + 1
        /\ UNCHANGED <<dir, ids, prep, view, comp, wanted, gone>>
RestoreFinish(sharded) ==
    LET old == ins.expected
        hidden == ins.force \/ (old.id # None /\ old.hidden)
    IN  /\ ins # NoWork /\ Fresh(1)
        /\ Get(dir, ins.zone).id = old.id
        /\ dir' = DirInsert(dir, NewEntry(ins.zone, ids + 1, ins.serial, hidden, ins.inc, old, sharded))
        /\ ids' = ids + 1 /\ ins' = NoWork
        /\ wanted' = Put(wanted, ins.zone, hidden)
        /\ UNCHANGED <<incs, prep, view, comp, gone>>
RestoreRetry ==
    LET old == Get(dir, ins.zone)
    IN  /\ ins # NoWork /\ old.id # ins.expected.id
        /\ ins' = [ins EXCEPT !.expected = old, !.inc = IF old.id = None THEN incs + 1 ELSE old.inc]
        /\ incs' = IF old.id = None THEN incs + 1 ELSE incs
        /\ UNCHANGED <<dir, ids, prep, view, comp, wanted, gone>>
(* The image of the restored copy cannot be compiled.                       *)
RestoreFailed ==
    /\ ins # NoWork /\ Fresh(1) /\ ins' = NoWork
    /\ UNCHANGED <<dir, ids, incs, prep, view, comp, wanted, gone>>

(* One change of apply_atomic_directory_update.  acc is the directory in    *)
(* the making, with the addresses and incarnations given out.               *)
RemoveOne(acc, z) == [acc EXCEPT !.d = DirRemove(acc.d, z)]

\* MUTANT: a zone that is added again gets the incarnation handed out last.
LoadOneAgain(acc, z, hidden) ==
    LET old == Get(acc.d, z)
        inc == IF old.id = None THEN acc.incs ELSE old.inc
    IN  [acc EXCEPT !.d = DirInsert(acc.d, LoadingEntry(z, acc.ids + 1, hidden, inc)),
                    !.ids = @ + 1]

(* The incarnation of a zone that is still there is kept.                   *)
LoadOne(acc, z, hidden) ==
    LET old == Get(acc.d, z)
        incarnation == IF old.id = None THEN acc.incs + 1 ELSE old.inc
    IN  [d |-> DirInsert(acc.d, LoadingEntry(z, acc.ids + 1, hidden, incarnation)),
         ids |-> acc.ids + 1,
         incs |-> IF old.id = None THEN acc.incs + 1 ELSE acc.incs]

WithHidden(e, id, hidden) == [e EXCEPT !.id = id, !.hidden = hidden]
ToggleOne(acc, z, hidden) ==
    LET old == Get(acc.d, z)
    IN  IF old.id = None THEN acc
        ELSE IF old.hidden = hidden THEN acc
        ELSE [acc EXCEPT !.d = DirInsert(acc.d, WithHidden(old, acc.ids + 1, hidden)),
                         !.ids = acc.ids + 1]

Change(acc, c) ==
    CASE c.kind = "remove" -> RemoveOne(acc, c.zone)
      [] c.kind = "load" -> LoadOne(acc, c.zone, c.hidden)
      [] c.kind = "toggle" -> ToggleOne(acc, c.zone, c.hidden)
Changed(acc, changes) == FoldLeft(Change, acc, changes)
ForEach(kind, zones, hidden) ==
    [i \in DOMAIN zones |-> [kind |-> kind, zone |-> zones[i], hidden |-> zones[i] \in hidden]]

(* apply_atomic_directory_update: removals, then zones to load, then        *)
(* visibility, in the order of the lists it is given.                       *)
ApplyAtomicDirectoryUpdate(loading, removed, shown, hidden) ==
    LET H == Range(hidden)
        smaller == Changed([d |-> dir, ids |-> ids, incs |-> incs], ForEach("remove", removed, {}))
        larger == Changed(smaller, ForEach("load", loading, H))
        end == Changed(Changed(larger, ForEach("toggle", shown, {})), ForEach("toggle", hidden, H))
    IN  /\ ins = NoWork /\ end.ids <= MaxIds
        /\ loading # <<>> \/ removed # <<>> \/ shown # <<>> \/ hidden # <<>>
        /\ dir' = end.d /\ ids' = end.ids /\ incs' = end.incs
        /\ wanted' = [z \in DOMAIN end.d.by |->
                        IF z \in H THEN TRUE
                        ELSE IF z \in Range(loading) \cup Range(shown) THEN FALSE ELSE wanted[z]]
        /\ gone' = gone \cup {dir.by[z].inc : z \in Range(removed) \cap DOMAIN dir.by}
        /\ UNCHANGED <<prep, view, comp, ins>>

(* hide_zone and show_zone, from the operator's endpoint.                   *)
SetHidden(z, hidden) ==
    LET e == Get(dir, z)
    IN  /\ e.id # None /\ e.hidden # hidden /\ Fresh(1)
        /\ dir' = DirInsert(dir, WithHidden(e, ids + 1, hidden))
        /\ ids' = ids + 1
        /\ wanted' = Put(wanted, z, hidden)
        /\ UNCHANGED <<incs, prep, view, comp, ins, gone>>

Init ==
    /\ dir = EmptyDirectory
    /\ ids = 0 /\ incs = 0
    /\ prep = [t \in Transfers |-> NoPrep]
    /\ view = NoView /\ comp = NoWork /\ ins = NoWork
    /\ wanted = <<>> /\ gone = {}

(* What a catalog transaction asks for: members come, go, are reset or      *)
(* change their visibility.                                                 *)
Transaction ==
    \E z \in Origins :
        \/ ApplyAtomicDirectoryUpdate(<<z>>, <<>>, <<>>, <<>>)
        \/ ApplyAtomicDirectoryUpdate(<<z>>, <<>>, <<>>, <<z>>)
        \/ ApplyAtomicDirectoryUpdate(<<>>, <<z>>, <<>>, <<>>)
        \/ ApplyAtomicDirectoryUpdate(<<z>>, <<z>>, <<>>, <<>>)
        \/ \E y \in Origins \ {z} : ApplyAtomicDirectoryUpdate(<<z>>, <<y>>, <<>>, <<z>>)
        \/ ApplyAtomicDirectoryUpdate(<<>>, <<>>, <<z>>, SetToSeq(Origins \ {z}))

Next ==
    \/ \E t \in Transfers, z \in Origins, s \in 0 .. Serials - 1, sharded \in Sharding, re \in Retransfers :
         Prepare(t, z, s, sharded, re)
    \/ \E t \in Transfers : PublishPrepared(t) \/ PublishRefused(t)
    \/ \E z \in Origins : Capture(z) \/ CompactStart(z)
    \/ ExpireIfSnapshot \/ ActivateIfSnapshot \/ CompactFinish \/ CompactFailed
    \/ \E z \in Origins, s \in Copies, force \in BOOLEAN : RestoreStart(z, s, force)
    \/ \E sharded \in Sharding : RestoreFinish(sharded)
    \/ RestoreRetry \/ RestoreFailed
    \/ Transaction
    \/ \E z \in Origins, hidden \in BOOLEAN : SetHidden(z, hidden)

Spec == Init /\ [][Next]_vars

-----------------------------------------------------------------------------
Entries == {dir.by[z] : z \in DOMAIN dir.by}

(* TypeOK: the counters and both indexes describe the same directory.       *)
TypeOK ==
    /\ DOMAIN dir.by \subseteq Origins
    /\ ids \in 0 .. MaxIds
    /\ dir.suffix = dir.by
    /\ dir.len = Cardinality(DOMAIN dir.by)
    /\ dir.active = Cardinality({z \in DOMAIN dir.by : Counted(dir.by[z]) = 1})
    /\ DOMAIN wanted = DOMAIN dir.by

Longest(S) == CHOOSE e \in S : \A f \in S : Len(f.origin) <= Len(e.origin)
Reference(S) == IF S = {} THEN None ELSE Longest(S).id

(* LookupIsLongestMatch: whatever came and went, the short list, the suffix *)
(* index with its table of lengths and the reference agree: the deepest     *)
(* zone that is not hidden answers, and DS at its origin is asked of the    *)
(* deepest visible zone above (find_best_match_arc,                         *)
(* find_parent_of_exact_match_ref).                                         *)
LookupIsLongestMatch ==
    \A q \in QNames :
        LET shown == {e \in Entries : ~e.hidden /\ Covers(e.origin, q)}
            above == {e \in shown : e.origin # q}
        IN  /\ QueryZone(dir, q, FALSE).id = Reference(shown)
            /\ QueryZone(dir, q, TRUE).id =
                 IF above # {} THEN Reference(above) ELSE Reference(shown)

(* HiddenStaysHidden: what an operator or the catalog last decided about    *)
(* the visibility of a zone holds, although transfers, compactions,         *)
(* confirmations and restorations publish entries they built from an older  *)
(* one.                                                                     *)
HiddenStaysHidden == \A z \in DOMAIN dir.by : dir.by[z].hidden = wanted[z]

(* GoneIsGone: an incarnation that was removed never comes back.            *)
GoneIsGone == \A e \in Entries : e.inc \notin gone

(* ImageBelongs: only an Active entry has an image; it is of the entry's    *)
(* own snapshot or, with a record of changes, of an earlier one of the same *)
(* incarnation (publish_compacted_base, with_state).                        *)
ImageBelongs ==
    \A e \in Entries :
        /\ (e.img.id # None) = (e.state = "Active")
        /\ e.state = "Active" =>
             e.img.inc = e.inc /\ (e.overlay <=> e.img # e.snap)

(* SerialsAdvance: as long as a zone stays in the directory, a transfer     *)
(* that was overtaken by another, by an expiry or by an activation never    *)
(* takes it back to an older serial (RFC 1982).  A restoration replaces     *)
(* what is there: the server only restores a zone that it does not have.    *)
SerialsAdvance ==
    ins' = ins => \A z \in DOMAIN dir.by \cap DOMAIN dir'.by :
         LET old == dir.by[z]
             new == dir'.by[z]
         IN  old.inc = new.inc /\ old.serial # NoSerial /\ new.serial # NoSerial =>
               (new.serial + Serials - old.serial) % Serials < Serials \div 2
=============================================================================
