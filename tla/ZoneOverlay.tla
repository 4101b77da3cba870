------------------------------ MODULE ZoneOverlay ------------------------------
(***************************************************************************)
(* Incremental publication of a zone (borondns-core): an IXFR publishes a  *)
(* new snapshot but keeps the compiled image of an older one, with a       *)
(* record of what changed since.  A query is answered from the image when  *)
(* that record shows nothing the answer is made of has changed, and from   *)
(* the snapshot otherwise; a compaction compiles a new image while more    *)
(* changes arrive and is then rebased onto them.                           *)
(*                                                                         *)
(* An RRset is a key: <<owner, type>>, where the RRSIG RRset of an NSEC3   *)
(* record is at the hash of a name, HashOwner(n).  zone is the content of  *)
(* the current snapshot and base that of the image; ver and baseVer are    *)
(* the versions of their RRSIG RRsets.                                     *)
(***************************************************************************)
EXTENDS ZoneDenial

CONSTANTS
    Starts,        \* the zones to start from: sets of RRsets
    MaxPublishes,  \* bound: how many IXFRs
    Threshold      \* overlay_compaction_dirty_owner_threshold

VARIABLES ver, base, baseVer, dirty, cand, publishes

ovars == <<zone, mode, ver, base, baseVer, dirty, cand, publishes>>

NoCand == [zone |-> <<>>, ver |-> {}]
NoDirty == [on |-> FALSE, owners |-> {}, direct |-> {}, cuts |-> {}, structural |-> FALSE]

HashOwner(n) == <<"#">> \o n
DataTypes(z, n) == SignedTypes(z, n) # {}

(* Where the signatures of a zone are: at the names with signed RRsets and  *)
(* at every owner of the chain in use.                                      *)
SigOwners(z, m) ==
    {n \in {k[1] : k \in DOMAIN z} : DataTypes(z, n)}
    \cup (IF Nsec3Active(m) THEN {HashOwner(n) : n \in Owners3(z, m)} ELSE NsecOwners(z))

ContentKeys(z) == DOMAIN z
SigKeys(z, m) == {<<n, "RRSIG">> : n \in SigOwners(z, m)}
ChainKeys(z, m) ==
    IF Nsec3Active(m) THEN {<<HashOwner(n), "NSEC3">> : n \in Owners3(z, m)}
    ELSE {<<n, "NSEC">> : n \in NsecOwners(z)}

(* changed_rrset_keys_from: the keys whose RRset is not the same in both.   *)
(* An NSEC or NSEC3 record changes when the names or types around it do.    *)
Changed(z1, v1, z2, v2, m) ==
    {k \in ContentKeys(z1) \cup ContentKeys(z2) :
        ~(k \in DOMAIN z1 /\ k \in DOMAIN z2 /\ z1[k] = z2[k])}
    \cup {<<n, "RRSIG">> : n \in {o \in SigOwners(z1, m) \cup SigOwners(z2, m) :
        ~(o \in SigOwners(z1, m) /\ o \in SigOwners(z2, m)) \/ (o \in v1) # (o \in v2)}}
    \cup (IF DOMAIN z1 = DOMAIN z2 THEN {} ELSE ChainKeys(z1, m) \cup ChainKeys(z2, m))

Exists(z, m, k) ==
    IF k[2] = "RRSIG" THEN k[1] \in SigOwners(z, m)
    ELSE IF k[2] \in {"NSEC", "NSEC3"} THEN k \in ChainKeys(z, m) ELSE k \in DOMAIN z

\* lookup_exact_plan: the names of NSEC3 owners are not ordinary names.
FoundInImage(z, m, k) == k[1][1] # "#" /\ Ordinary(z, k[1]) /\ Exists(z, m, k)

\* MUTANT: changes at cuts and aliases do not close the direct path.
WithChangesNoCuts(d, changes, now, img, m) ==
    [on |-> TRUE,
     owners |-> d.owners \cup {k[1] : k \in changes},
     direct |-> d.direct \cup {k \in changes : FoundInImage(img, m, k)},
     cuts |-> d.cuts,
     structural |-> d.structural \/ \E k \in changes :
                      \/ Exists(now, m, k) # Exists(img, m, k)
                      \/ k[2] \in {"NSEC", "NSEC3", "DNAME"}]

(* ZoneOverlayDirty::with_changes.                                          *)
WithChanges(d, changes, now, img, m) ==
    [on |-> TRUE,
     owners |-> d.owners \cup {k[1] : k \in changes},
     direct |-> d.direct \cup {k \in changes : FoundInImage(img, m, k)},
     cuts |-> d.cuts \cup {k[1] : k \in {c \in changes :
                 c[2] = "DNAME" \/ (c[2] = "NS" /\ c[1] # Apex)}},
     structural |-> \/ d.structural
                    \/ \E k \in changes :
                         \/ Exists(now, m, k) # Exists(img, m, k)
                         \/ k[2] \in {"NSEC", "NSEC3", "DNAME"}]

(***************************************************************************)
(* Publication.                                                            *)
(***************************************************************************)
SerialOf(i) == <<"1", "2", "3", "4">>[i]
WithSerial(z, i) == [z EXCEPT ![<<Apex, "SOA">>] = <<SerialOf(i)>>]

\* Versions are a set: the RRSIG RRsets made anew an odd number of times.
Flip(v, owners) == (v \ owners) \cup (owners \ v)

(* An IXFR changes the SOA, one more thing, and the signatures over both.   *)
PublishOverlay(z, resigned) ==
    LET now == WithSerial(z, publishes + 2)
        v == Flip(ver, (resigned \cup {Apex}) \cap SigOwners(now, mode))
        changes == Changed(zone, ver, now, v, mode)
    IN  /\ publishes < MaxPublishes
        /\ zone' = now /\ ver' = v /\ publishes' = publishes + 1
        /\ dirty' = WithChanges(dirty, changes, now, base, mode)
        /\ UNCHANGED <<mode, base, baseVer, cand>>

SetRrset(r) ==
    LET k == <<r[1], r[2]>>
        z == [j \in DOMAIN zone \cup {k} |-> IF j = k THEN r[3] ELSE zone[j]]
    IN  /\ k \in DOMAIN zone => zone[k] # r[3]
        /\ Coexists(z)
        /\ PublishOverlay(z, {r[1]})
DropRrset(k) ==
    /\ k[1] # Apex
    /\ PublishOverlay([j \in DOMAIN zone \ {k} |-> zone[j]], {k[1]})
Resign(n) == PublishOverlay(zone, {n})

\* MUTANT: the record of changes is cleared, the old image kept.
CompileStale ==
    /\ dirty.on
    /\ base' = base /\ baseVer' = ver /\ dirty' = NoDirty
    /\ UNCHANGED <<zone, mode, ver, cand, publishes>>

(* A compact publication: an AXFR, or the activation of an expired zone,    *)
(* compiles the image anew.                                                 *)
Compile ==
    /\ dirty.on
    /\ base' = zone /\ baseVer' = ver /\ dirty' = NoDirty
    /\ UNCHANGED <<zone, mode, ver, cand, publishes>>

(* compact_overlay_once_if_due: the snapshot is taken, compiled outside the *)
(* lock, and becomes the base when the entry still has an overlay.          *)
CompactStart ==
    /\ cand = NoCand
    /\ dirty.on /\ Cardinality(dirty.owners) >= Threshold
    /\ cand' = [zone |-> zone, ver |-> ver]
    /\ UNCHANGED <<zone, mode, ver, base, baseVer, dirty, publishes>>

\* MUTANT: the changes made during the compilation count as replacements only.
RebasedFlat ==
    [WithChanges(NoDirty, Changed(cand.zone, cand.ver, zone, ver, mode), zone, cand.zone, mode)
        EXCEPT !.structural = FALSE, !.on = TRUE]

Rebased ==
    LET changes == Changed(cand.zone, cand.ver, zone, ver, mode)
    IN  IF changes = {} THEN NoDirty ELSE WithChanges(NoDirty, changes, zone, cand.zone, mode)
CompactFinish ==
    /\ cand # NoCand
    /\ IF dirty.on
       THEN base' = cand.zone /\ baseVer' = cand.ver /\ dirty' = Rebased
       ELSE UNCHANGED <<base, baseVer, dirty>>
    /\ cand' = NoCand
    /\ UNCHANGED <<zone, mode, ver, publishes>>

InitOverlay ==
    /\ \E S \in Starts : zone = WithSerial(ZoneOf(S \cup ApexRRs), 1)
    /\ mode \in Modes
    /\ ver = {} /\ base = zone /\ baseVer = {} /\ dirty = NoDirty /\ cand = NoCand /\ publishes = 0

NextOverlay ==
    \/ \E r \in RRs : SetRrset(r)
    \/ \E k \in DOMAIN zone : DropRrset(k)
    \/ \E n \in SigOwners(zone, mode) : Resign(n)
    \/ Compile \/ CompactStart \/ CompactFinish

SpecOverlay == InitOverlay /\ [][NextOverlay]_ovars

(***************************************************************************)
(* Queries (dns.rs answer_with_incremental_overlay).                       *)
(***************************************************************************)
SigOwnerOf(r) == IF r[3][1] = "NSEC3" THEN HashOwner(r[3][2]) ELSE r[3][2]
Versioned(v, recs) ==
    {IF r[2] = "RRSIG" THEN <<r[1], r[2], r[3], SigOwnerOf(r) \in v>> ELSE r : r \in recs}
Shown(r, v) == [Seen(r) EXCEPT !.ans = Versioned(v, @), !.auth = Versioned(v, @), !.add = Versioned(v, @)]

ImageReply(z, v, q, t, do) ==
    Shown(IF do THEN ImageDnssec(z, mode, q, t) ELSE ImageAnswer(z, q, t), v)
SnapshotReply(z, v, q, t, do) ==
    Shown(IF do THEN SnapshotDnssec(z, mode, q, t) ELSE SnapshotAnswer(z, q, t), v)

(* referenced_rrsets: every RRset of the plan, and the RRSIG RRsets its     *)
(* signatures were selected from; CNAMEs made from a DNAME have none.       *)
KeyOf(r, wild) ==
    IF r[2] = "RRSIG" THEN <<SigOwnerOf(r), "RRSIG">>
    ELSE IF r[2] = "NSEC3" THEN <<HashOwner(r[1]), "NSEC3">> ELSE <<SourceOf(r, wild), r[2]>>
Referenced(r) ==
    {KeyOf(s, r.wild) : s \in {a \in r.ans : ~(a[2] = "CNAME" /\ a[1] \in r.synth)}}
    \cup {KeyOf(s, {}) : s \in r.auth \cup r.add}

AllowsDirectShape(q, t) == t \in {"A", "TXT"} /\ dirty.cuts \cap Path(q) = {}
AllowsPlan(plan) == ~dirty.structural /\ Referenced(plan) \cap dirty.direct = {}

(* A direct answer, a plan of the image, or the snapshot.                   *)
ChooseReply(q, t, do, direct, plan) ==
    IF /\ ~do /\ AllowsDirectShape(q, t)
       /\ FoundInImage(base, mode, <<q, t>>) /\ <<q, t>> \notin dirty.direct
       /\ direct # NoPlan
    THEN Shown(direct, baseVer)
    ELSE IF plan.cont = NoName /\ AllowsPlan(plan) THEN Shown(plan, baseVer)
    ELSE SnapshotReply(zone, ver, q, t, do)
ServedOverlay(q, t, do) ==
    ChooseReply(q, t, do, DirectAnswer(base, q, t),
                IF do THEN ImageDnssec(base, mode, q, t) ELSE ImageAnswer(base, q, t))

Served(q, t, do) ==
    IF dirty.on THEN ServedOverlay(q, t, do) ELSE ImageReply(base, baseVer, q, t, do)

-----------------------------------------------------------------------------
\* TypeOKOverlay: without a record of changes the image is that of the current snapshot.
TypeOKOverlay ==
    /\ Coexists(zone) /\ Coexists(base)
    /\ ~dirty.on => base = zone /\ baseVer = ver
    /\ dirty.direct \subseteq ContentKeys(base) \cup SigKeys(base, mode) \cup ChainKeys(base, mode)
    /\ publishes <= MaxPublishes


(* All but the versions of the signatures over NSEC3 records. *)
Others(r) ==
    LET Cut(recs) == {IF s[2] = "RRSIG" /\ s[3][1] = "NSEC3" THEN <<s[1], s[2], s[3]>> ELSE s : s \in recs}
    IN  [r EXCEPT !.ans = Cut(@), !.auth = Cut(@), !.add = Cut(@)]

(* ServedIsCurrent: whatever was added, removed, replaced or signed anew    *)
(* since the image was compiled, and wherever a compaction stands, a reply  *)
(* is one the current content gives (dns.rs answer_with_incremental_overlay *)
(* and zone.rs ZoneOverlayDirty), signatures over NSEC3 records apart.      *)
ServedIsCurrent ==
    \A q \in QNames, t \in QTypes, do \in BOOLEAN :
        Others(Served(q, t, do)) \in {Others(ImageReply(zone, ver, q, t, do)),
                                     Others(SnapshotReply(zone, ver, q, t, do))}

(* CompactionLosesNothing: everything that differs between the image and    *)
(* the current snapshot is known to be dirty, also right after a compaction *)
(* has been rebased onto changes it did not see (publish_compacted_base).   *)
CompactionLosesNothing ==
    LET changes == Changed(base, baseVer, zone, ver, mode)
    IN  /\ \A k \in changes : k[1] \in dirty.owners
        /\ (\E k \in changes : Exists(zone, mode, k) # Exists(base, mode, k)) => dirty.structural
==============================================================================
