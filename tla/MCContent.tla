----------------------------- MODULE MCContent -----------------------------
(***************************************************************************)
(* Small instances of where the content of a zone comes from (SoaPoll,     *)
(* TransferStream, TransferIngest) and of what is answered from it         *)
(* (ZoneLookup, ZoneDenial with signed zones, ZoneOverlay with IXFRs onto  *)
(* them).  A behaviour picks one and leaves the variables of the others    *)
(* alone.                                                                  *)
(***************************************************************************)
EXTENDS Naturals, Sequences, SequencesExt, TLC

CONSTANTS
    Parts,        \* the instances that a run explores
    s1, s2, s3    \* transfer sessions

VARIABLES sel,
    zone, mode, ver, base, baseVer, dirty, cand, publishes,
    proto, keyed, held, theirs, wire, open, msgs, probe, phase, result, sound,
    inFlight, step, want, seen, kept,
    serial, net, sent, stray, cause

OverlayOnly == <<ver, base, baseVer, dirty, cand, publishes>>
Zone == <<zone, mode, OverlayOnly>>
StreamOnly == <<proto, theirs, wire, open, msgs, probe, sound>>
IngestOnly == <<inFlight, step, want, seen, kept>>
PollOnly == <<serial, net, sent, stray, cause>>
Transfer == <<keyed, held, phase, result, StreamOnly, IngestOnly, PollOnly>>
vars == <<sel, Zone, Transfer>>

-----------------------------------------------------------------------------
(* Names, from the root down, of a zone o with three labels below it.      *)
Apex == <<"o">>
X == <<"o", "x">>
Y == <<"o", "y">>
Z == <<"o", "z">>
SO == <<"o", "*">>
ASO == <<"o", "*", "a">>
AX == <<"o", "x", "a">>
BX == <<"o", "x", "b">>
OX == <<"o", "x", "o">>
SX == <<"o", "x", "*">>
AY == <<"o", "y", "a">>
ABX == <<"o", "x", "b", "a">>
Out == <<"p">>

LookupRRs == {
    <<X, "A", <<>>>>, <<X, "NS", AX>>, <<X, "NS", Out>>, <<X, "DNAME", Y>>, <<X, "DNAME", <<>>>>,
    <<X, "CNAME", Y>>, <<X, "CNAME", AX>>, <<X, "DS", <<>>>>, <<X, "DNAME", AX>>,
    <<AX, "A", <<>>>>, <<AX, "NS", AY>>, <<AX, "CNAME", X>>, <<AX, "CNAME", BX>>,
    <<SX, "A", <<>>>>, <<SX, "CNAME", Y>>, <<SX, "CNAME", BX>>, <<SX, "MX", AX>>,
    <<SO, "A", <<>>>>, <<SO, "CNAME", AX>>, <<ASO, "A", <<>>>>,
    <<Y, "MX", AX>>, <<Y, "CNAME", Out>>, <<Y, "DNAME", X>>, <<Y, "NS", AX>>,
    <<AY, "A", <<>>>>, <<Apex, "DNAME", Out>>, <<AY, "CNAME", AX>>}

DenialRRs == {
    <<X, "A", <<>>>>, <<X, "NS", AX>>, <<X, "DS", <<>>>>, <<X, "DNAME", Y>>, <<X, "CNAME", Y>>,
    <<AX, "A", <<>>>>, <<AX, "CNAME", Z>>, <<AX, "NS", Out>>, <<AX, "DS", <<>>>>,
    <<SX, "A", <<>>>>, <<SX, "CNAME", Y>>, <<SX, "CNAME", AX>>,
    <<SO, "A", <<>>>>, <<SO, "MX", AX>>, <<Y, "MX", AX>>, <<Y, "CNAME", Out>>,
    <<ABX, "A", <<>>>>, <<ABX, "NS", Out>>, <<ASO, "A", <<>>>>}

OverlayRRs == {
    <<X, "A", <<>>>>, <<X, "A", <<"2">>>>, <<X, "NS", AX>>, <<X, "NS", Y>>, <<X, "DNAME", Y>>,
    <<AX, "A", <<>>>>, <<AX, "A", <<"2">>>>, <<Y, "MX", AX>>, <<Y, "MX", X>>,
    <<Y, "CNAME", X>>, <<Y, "CNAME", AX>>, <<SO, "A", <<>>>>, <<SO, "A", <<"2">>>>}
OverlayStarts == {
    {<<X, "NS", AX>>, <<AX, "A", <<>>>>},
    {<<X, "A", <<>>>>, <<Y, "CNAME", X>>, <<SO, "A", <<>>>>}}

(* The labels in canonical order, and a hash of every name that scatters   *)
(* the tree.                                                               *)
Labels == <<"*", "a", "b", "o", "p", "x", "y", "z">>
Below == {"*", "a", "b", "x", "y", "z"}
HashedNames == {<<"o">>} \cup {<<"o", l>> : l \in Below}
               \cup {<<"o", l, k>> : l \in Below, k \in Below}
               \cup {<<"o", l, k, j>> : l \in Below, k \in Below, j \in Below}
               \cup {<<"o", l, k, j, "*">> : l \in Below, k \in Below, j \in Below}
Code(l) == CHOOSE i \in DOMAIN Labels : Labels[i] = l
Number(n) == FoldLeft(LAMBDA h, l : 9 * h + Code(l), 0, n)
Hash == [n \in HashedNames |-> (Number(n) * 31337) % 65537]

ASSUME HashIsInjective == \A m, n \in HashedNames : Hash[m] = Hash[n] => m = n

Lookup == INSTANCE ZoneLookup WITH
    RRs <- LookupRRs, MaxLabels <- 5, MaxChain <- 4, MaxRRsets <- 3,
    QNames <- {Apex, X, Y, Z, AX, AY, BX, OX, SX, ABX, <<"o", "x", "a", "a">>},
    QTypes <- {"A", "DS", "CNAME", "ANY", "MX"}
Denial == INSTANCE ZoneDenial WITH
    RRs <- DenialRRs, MaxLabels <- 5, MaxChain <- 4, MaxRRsets <- 3,
    QNames <- {Apex, X, Y, Z, AX, BX, SX, ABX, <<"o", "z", "a">>},
    QTypes <- {"A", "DS", "CNAME", "MX"}, LabelOrder <- Labels,
    Modes <- {"nsec", "nsec3", "optout", "nsec_broken", "nsec3_broken", "nsec3_iterations"}
Overlay == INSTANCE ZoneOverlay WITH
    RRs <- OverlayRRs, MaxLabels <- 5, MaxChain <- 4, MaxRRsets <- 4,
    QNames <- {Apex, X, Y, Z, AX}, QTypes <- {"A", "DS", "MX"}, LabelOrder <- Labels,
    Modes <- {"nsec", "nsec3"}, Starts <- OverlayStarts, MaxPublishes <- 2, Threshold <- 1

(* Four versions of a small zone; in the last an alias shares its owner    *)
(* with an address.                                                        *)
Versions == <<
    {<<"@", "NS", 1>>, <<"x", "A", 1>>},
    {<<"@", "NS", 1>>, <<"x", "A", 2>>, <<"y", "A", 1>>},
    {<<"@", "NS", 1>>, <<"x", "A", 2>>, <<"y", "CNAME", 1>>},
    {<<"@", "NS", 1>>, <<"x", "A", 2>>, <<"x", "CNAME", 1>>}>>

Stream == INSTANCE TransferStream WITH
    Held <- {2, 3}, Keys <- BOOLEAN, Spellings <- {"a"}, Sloppy <- BOOLEAN,
    Protocols <- {"axfr", "ixfr"}, Window <- 1, MaxMessages <- 3
Ingest == INSTANCE TransferIngest WITH
    Sessions <- {s1, s2, s3}, Sizes <- {0, 1, 2, 4}, Limit <- 15, Multiplier <- 4,
    MaxMessages <- 2, MaxBytes <- 5, MaxInt <- 15
Poll == INSTANCE SoaPoll WITH
    Serials <- {"s1", "s2"}, Keys <- BOOLEAN, MaxStray <- 2

ASSUME ParametersAreSound == Ingest!Parameters /\ Poll!Parameters

Symmetry == Permutations({s1, s2, s3})

-----------------------------------------------------------------------------
OverlayOff == /\ ver = 0 /\ base = 0 /\ baseVer = 0 /\ dirty = 0 /\ cand = 0
              /\ publishes = 0
ZoneOff == zone = 0 /\ mode = 0 /\ OverlayOff
StreamOff == /\ proto = 0 /\ theirs = 0 /\ wire = 0 /\ open = 0 /\ msgs = 0
             /\ probe = 0 /\ sound = 0
IngestOff == inFlight = 0 /\ step = 0 /\ want = 0 /\ seen = 0 /\ kept = 0
PollOff == serial = 0 /\ net = 0 /\ sent = 0 /\ stray = 0 /\ cause = 0
SessionOff == keyed = 0 /\ held = 0 /\ phase = 0 /\ result = 0
TransferOff == SessionOff /\ StreamOff /\ IngestOff /\ PollOff

Init ==
    /\ sel \in Parts
    /\ \/ sel = "lookup" /\ Lookup!Init /\ mode = "plain" /\ OverlayOff /\ TransferOff
       \/ sel = "denial" /\ Denial!InitSigned /\ OverlayOff /\ TransferOff
       \/ sel = "overlay" /\ Overlay!InitOverlay /\ TransferOff
       \/ sel = "stream" /\ Stream!Init /\ ZoneOff /\ IngestOff /\ PollOff
       \/ /\ sel = "ingest" /\ Ingest!Init /\ ZoneOff /\ StreamOff /\ PollOff
          /\ keyed = 0 /\ phase = 0 /\ result = 0
       \/ /\ sel = "poll" /\ Poll!Init /\ ZoneOff /\ StreamOff /\ IngestOff
          /\ held = 0

Next ==
    \/ sel = "lookup" /\ Lookup!Next /\ UNCHANGED <<sel, mode, OverlayOnly, Transfer>>
    \/ sel = "denial" /\ Denial!NextSigned /\ UNCHANGED <<sel, OverlayOnly, Transfer>>
    \/ sel = "overlay" /\ Overlay!NextOverlay /\ UNCHANGED <<sel, Transfer>>
    \/ sel = "stream" /\ Stream!Next /\ UNCHANGED <<sel, Zone, IngestOnly, PollOnly>>
    \/ /\ sel = "ingest" /\ Ingest!Next
       /\ UNCHANGED <<sel, Zone, StreamOnly, PollOnly, keyed, phase, result>>
    \/ /\ sel = "poll" /\ Poll!Next
       /\ UNCHANGED <<sel, Zone, StreamOnly, IngestOnly, held>>

Spec == Init /\ [][Next]_vars

-----------------------------------------------------------------------------
(* The type invariant of whichever component runs: zones are such as       *)
(* transfers accept, and an image without recorded changes is current.     *)
TypeOK ==
    /\ sel = "lookup" => Lookup!TypeOK
    /\ sel = "denial" => Denial!TypeOKSigned
    /\ sel = "overlay" => Overlay!TypeOKOverlay
    /\ sel = "stream" => Stream!TypeOK
    /\ sel = "ingest" => Ingest!TypeOK
    /\ sel = "poll" => Poll!TypeOK

(* lookup_response_plan, resolve_snapshot, lookup_direct_answer_plan: the  *)
(* compiled image, the resolver for changed RRsets and the fast path all   *)
(* answer as the RFCs' descent does.                                       *)
AnswersAreReference ==
    sel = "lookup" =>
        Lookup!ImageIsReference /\ Lookup!SnapshotIsReference /\ Lookup!DirectIsFull


(* answer_with_incremental_overlay, publish_compacted_base: whatever       *)
(* changed since the image was compiled is known to be dirty, and a reply  *)
(* is one the current content gives.                                       *)
ServedIsCurrent ==
    sel = "overlay" => Overlay!ServedIsCurrent /\ Overlay!CompactionLosesNothing

(* transfer_axfr_from_primary_inner, transfer_ixfr_from_primary_inner:     *)
(* what is accepted is exactly the version the primary serves, and valid   *)
(* as a whole; a complete response is recognised with its last message.    *)
TransferIsTheirs ==
    sel = "stream" =>
        Stream!AcceptedIsTheirs /\ Stream!AcceptedIsValid /\ Stream!EndIsRecognised

(* TransferIngestBudget::try_reserve: reservations stay within the limit,  *)
(* and every byte still in memory is covered by one.                       *)
WithinBudget == sel = "ingest" => Ingest!WithinBudget /\ Ingest!RetainedIsCharged

(* poll_soa_from_primary_inner: with a key no foreign datagram decides a   *)
(* poll or makes it turn to TCP.                                           *)
KeyedPollIsAuthentic ==
    sel = "poll" => Poll!KeyedPollIsAuthentic /\ Poll!KeyedPollStaysUdp
=============================================================================
