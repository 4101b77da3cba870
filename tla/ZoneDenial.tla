------------------------------ MODULE ZoneDenial ------------------------------
(***************************************************************************)
(* The DNSSEC part of an answer (borondns-core): the signatures and the    *)
(* proofs of absence that the two resolvers of ZoneLookup add when the     *)
(* client set the DO bit.                                                  *)
(*                                                                         *)
(* The primary signs the zone; the server only selects from the records it *)
(* was given.  The NSEC and NSEC3 records and the signatures are derived   *)
(* here from the content the way a signer derives them, so a zone is       *)
(* always signed correctly, except in the modes that break the chain.  An  *)
(* NSEC3 record is named by the name whose hash its owner is; SHA-1 is an  *)
(* injective function Hash.  Key material, times and TTLs are left out.    *)
(***************************************************************************)
EXTENDS ZoneLookup

CONSTANTS
    Modes,       \* how zones are signed
    LabelOrder,  \* the labels in canonical order
    Hash         \* the NSEC3 hash of a name

VARIABLE mode    \* how this zone is signed

ModeNames == {"nsec", "nsec3", "optout", "nsec_broken", "nsec3_broken", "nsec3_iterations"}

(***************************************************************************)
(* What the signer made.                                                   *)
(***************************************************************************)
CodeOf(label) == CHOOSE i \in DOMAIN LabelOrder : LabelOrder[i] = label
NameLess(a, b) ==
    \/ IsStrictPrefix(a, b)
    \/ /\ ~IsPrefix(b, a) /\ ~IsPrefix(a, b)
       /\ LET i == Min({k \in 1..Min({Len(a), Len(b)}) : a[k] # b[k]})
          IN  CodeOf(a[i]) < CodeOf(b[i])

Occluded(z, n) ==
    \E p \in Ancestors(n) : (p # Apex /\ Has(z, p, "NS")) \/ Has(z, p, "DNAME")
NsecOwners(z) == {n \in {k[1] : k \in DOMAIN z} : ~Occluded(z, n)}
IsCut(z, n) == n # Apex /\ Has(z, n, "NS")
Insecure(z, n) == IsCut(z, n) /\ ~Has(z, n, "DS")
Nsec3Owners(z, optout) ==
    UNION {Path(n) : n \in {m \in NsecOwners(z) : ~(optout /\ Insecure(z, m))}}

SignedTypes(z, n) ==
    IF Occluded(z, n) THEN {} ELSE IF IsCut(z, n) THEN TypesAt(z, n) \cap {"DS"} ELSE TypesAt(z, n)

(***************************************************************************)
(* The indexes over the chains.                                            *)
(***************************************************************************)
(* select_dnssec_denial_chain: NSEC3 is used when NSEC3PARAM names a chain  *)
(* that is a complete cycle, NSEC when there is no NSEC3PARAM and its chain *)
(* is; anything else is a broken chain.                                     *)
NsecActive(m) == m = "nsec"
Nsec3Active(m) == m \in {"nsec3", "optout", "nsec3_iterations"}

Broken(m) == m \in {"nsec_broken", "nsec3_broken"}

NsecAt(z, n) == IF n \in NsecOwners(z) THEN {<<n, "NSEC", <<>>>>} ELSE {}

Owners3(z, m) == Nsec3Owners(z, m = "optout")
\* No hash is computed when the chain asks for more iterations than allowed.
Exact3(z, m, n) == m # "nsec3_iterations" /\ n \in Owners3(z, m)

(* The owner before a name in canonical order, or the last one of the cycle *)
(* when none is before it; nothing when the name is itself an owner.        *)
NsecCovering(z, n) ==
    LET owners == NsecOwners(z)
        before == {o \in owners : NameLess(o, n)}
        from == IF before = {} THEN owners ELSE before
    IN  IF n \in owners THEN {}
        ELSE {<<CHOOSE o \in from : \A p \in from : p = o \/ NameLess(p, o), "NSEC", <<>>>>}
Nsec3Covering(z, m, n) ==
    LET owners == Owners3(z, m)
        before == {o \in owners : Hash[o] < Hash[n]}
        from == IF before = {} THEN owners ELSE before
    IN  IF m = "nsec3_iterations" \/ n \in owners THEN {}
        ELSE {<<CHOOSE o \in from : \A p \in from : Hash[p] <= Hash[o], "NSEC3", <<>>>>}

Nsec3At(z, m, n) == IF Exact3(z, m, n) THEN {<<n, "NSEC3", <<>>>>} ELSE {}

(***************************************************************************)
(* A proof is the records it adds, or bad when one of them is not there.   *)
(***************************************************************************)
Proof(recs) == [recs |-> recs, bad |-> FALSE]
NoProof == [recs |-> {}, bad |-> TRUE]
\* All of the sets, each of which must have a record.
AllOf(sets) == IF {} \in sets THEN NoProof ELSE Proof(UNION sets)

ProvableEncloser(z, m, n) == Longest({p \in Ancestors(n) : Exact3(z, m, p)})
NextCloser(n, encloser) == SubSeq(n, 1, Len(encloser) + 1)

(* push_nsec3_unsigned_referral_proof: the NSEC3 of an unsigned delegation, *)
(* or proof that it lies in an Opt-Out span.                                *)
UnsignedReferral(z, m, n) ==
    LET encloser == ProvableEncloser(z, m, n)
        cover == Nsec3Covering(z, m, NextCloser(n, encloser))
    IN  IF Exact3(z, m, n)
        THEN IF IsCut(z, n) /\ ~Has(z, n, "DS") THEN Proof(Nsec3At(z, m, n)) ELSE NoProof
        ELSE IF encloser = NoName \/ cover = {} \/ m # "optout" THEN NoProof
        ELSE Proof(Nsec3At(z, m, encloser) \cup cover)

ReferralProof(z, m, cut) ==
    IF cut = NoName THEN Proof({})
    ELSE IF Has(z, cut, "DS") THEN Proof({Rec(z, cut, "DS")})
    ELSE IF NsecActive(m) THEN Proof(NsecAt(z, cut))
    ELSE IF Broken(m) THEN NoProof
    ELSE UnsignedReferral(z, m, cut)

NxdomainNameOnly(z, m, n, closest) ==
    LET encloser == ProvableEncloser(z, m, n)
    IN  IF NsecActive(m) THEN Proof(NsecCovering(z, n))
        ELSE IF encloser = NoName THEN NoProof
        ELSE AllOf({Nsec3At(z, m, encloser), Nsec3Covering(z, m, NextCloser(n, encloser))})

(* The proof of NXDOMAIN: the name and the wildcard at its encloser are     *)
(* covered; with NSEC3 also that the encloser exists.                       *)
NxdomainProof(z, m, n, closest) ==
    LET encloser == ProvableEncloser(z, m, n)
    IN  IF NsecActive(m)
        THEN Proof(NsecCovering(z, n) \cup NsecCovering(z, WildcardChild(closest)))
        ELSE IF encloser = NoName THEN NoProof
        ELSE AllOf({Nsec3At(z, m, encloser), Nsec3Covering(z, m, NextCloser(n, encloser)),
                    Nsec3Covering(z, m, WildcardChild(encloser))})

WildcardNodataProof(z, m, n, star) ==
    IF NsecActive(m) THEN Proof(NsecCovering(z, n) \cup NsecAt(z, star))
    ELSE AllOf({Nsec3At(z, m, Parent(star)), Nsec3At(z, m, star),
                Nsec3Covering(z, m, NextCloser(n, Parent(star)))})

(* An answer expanded from a wildcard: the name it was expanded for does    *)
(* not exist.                                                               *)
ExpansionProof(z, m, n, closest) ==
    IF NsecActive(m) THEN Proof(NsecCovering(z, n))
    ELSE AllOf({Nsec3Covering(z, m, NextCloser(n, closest))})

(* add_rrsig_augmentations: the signatures of the records of a section; an  *)
(* expanded record takes those of its wildcard, a CNAME made from a DNAME   *)
(* has none.                                                                *)
SourceOf(r, wild) ==
    LET w == {p \in wild : p[2] = r[1]} IN IF w = {} THEN r[1] ELSE (CHOOSE p \in w : TRUE)[1]
AddSigs(z, recs, wild, synth) ==
    recs \cup
    {<<r[1], "RRSIG", <<r[2], SourceOf(r, wild)>>>> :
        r \in {s \in recs :
                 /\ ~(s[2] = "CNAME" /\ s[1] \in synth)
                 /\ s[2] \in {"NSEC", "NSEC3"} \cup SignedTypes(z, SourceOf(s, wild))}}

Signed(z, r) ==
    [r EXCEPT !.ans = AddSigs(z, @, r.wild, r.synth), !.auth = AddSigs(z, @, {}, {}),
              !.add = AddSigs(z, @, {}, {})]

SnapNodataExact(z, m, n, t) ==
    IF Nsec3Active(m)
    THEN IF Exact3(z, m, n) THEN Proof(Nsec3At(z, m, n)) ELSE NoProof
    ELSE Proof(IF NsecActive(m) THEN NsecAt(z, n) ELSE {})

(***************************************************************************)
(* ZoneSnapshot::augment_lookup_result_with_dnssec.                        *)
(***************************************************************************)
SnapNodataProof(z, m, n, t) ==
    IF Nsec3Active(m)
    THEN IF t = "DS" /\ IsCut(z, n) THEN UnsignedReferral(z, m, n)
         ELSE IF Exact3(z, m, n) THEN Proof(Nsec3At(z, m, n))
         ELSE IF EmptyNonTerminal(z, n) THEN UnsignedReferral(z, m, n) ELSE NoProof
    ELSE Proof(IF NsecActive(m) THEN NsecAt(z, n) ELSE {})

SnapNegativeProof(z, m, t, neg) ==
    CASE neg.kind = "nodata" -> SnapNodataProof(z, m, neg.name, t)
      [] neg.kind = "wildnodata" -> WildcardNodataProof(z, m, neg.name, neg.star)
      [] neg.kind = "nxdomain" -> NxdomainProof(z, m, neg.name, ClosestEncloser(z, neg.name))
      [] OTHER -> Proof({})

SnapServfail == Result("SERVFAIL", FALSE, {}, {}, {}, NoName, NoNeg, {}, {}, NoName)

AugmentLookupResult(z, m, t, r) ==
    LET neg == IF r.aa THEN r.neg ELSE NoNeg
        wild == IF r.aa /\ r.rcode \in {"NOERROR", "NXDOMAIN"} THEN r.wild ELSE {}
        proofs == {ReferralProof(z, m, r.ref), SnapNegativeProof(z, m, t, neg)}
                  \cup {ExpansionProof(z, m, w[2], ClosestEncloser(z, w[2])) : w \in wild}
    IN  IF Broken(m) /\ (neg # NoNeg \/ wild # {}) THEN SnapServfail
        ELSE IF \E p \in proofs : p.bad THEN SnapServfail
        ELSE Signed(z, [r EXCEPT !.auth = @ \cup UNION {p.recs : p \in proofs}])
SnapshotDnssec(z, m, q, t) == AugmentLookupResult(z, m, t, SnapshotAnswer(z, q, t))

(***************************************************************************)
(* ZoneImage::augment_lookup_plan_with_dnssec.  A proof that fails makes   *)
(* the plan SERVFAIL and drops its authority records; the answers stay,    *)
(* and later proofs are still added.                                       *)
(***************************************************************************)
ImageNodataProof(z, m, n) ==
    IF NsecActive(m) THEN AllOf({NsecAt(z, n)})
    ELSE IF Exact3(z, m, n) THEN Proof(Nsec3At(z, m, n))
    ELSE UnsignedReferral(z, m, n)

ImageNegativeProof(z, m, neg) ==
    CASE neg.kind = "nodata" -> ImageNodataProof(z, m, neg.name)
      [] neg.kind = "wildnodata" -> WildcardNodataProof(z, m, neg.name, neg.star)
      [] neg.kind = "nxdomain" -> NxdomainProof(z, m, neg.name, ClosestNode(z, neg.name))
      [] OTHER -> Proof({})

SetServfail(r) ==
    [r EXCEPT !.rcode = "SERVFAIL", !.aa = TRUE, !.auth = {}, !.add = {}, !.cont = NoName,
              !.neg = NoNeg, !.ref = NoName]
AddProof(r, p) == IF p.bad THEN SetServfail(r) ELSE [r EXCEPT !.auth = @ \cup p.recs]

AugmentLookupPlan(z, m, r) ==
    LET neg == IF r.aa THEN r.neg ELSE NoNeg
        wild == IF r.aa /\ r.rcode = "NOERROR" THEN r.wild ELSE {}
        referred == AddProof(r, ReferralProof(z, m, r.ref))
        denied == AddProof(referred, ImageNegativeProof(z, m, neg))
        expansions == {ExpansionProof(z, m, w[2], ClosestNode(z, w[2])) : w \in wild}
        expanded == FoldSet(LAMBDA p, x : AddProof(x, p), denied, expansions)
    IN  IF Broken(m) /\ (neg # NoNeg \/ wild # {}) THEN SetServfail(r)
        ELSE Signed(z, expanded)
ImageDnssec(z, m, q, t) == AugmentLookupPlan(z, m, ImageAnswer(z, q, t))

-----------------------------------------------------------------------------
Sign == mode' \in Modes /\ UNCHANGED zone
ChangeContent == Next /\ UNCHANGED mode

InitSigned == Init /\ mode \in Modes
NextSigned == ChangeContent \/ Sign
SpecSigned == InitSigned /\ [][NextSigned]_<<zone, mode>>

-----------------------------------------------------------------------------
(***************************************************************************)
(* What a validating resolver asks of a response (RFC 4035 section 5.4,    *)
(* RFC 5155 section 8), stated on the records it got and on nothing else   *)
(* but the chains' meaning.                                                *)
(***************************************************************************)
Covered(z, m, recs, n) ==
    \/ n \notin NsecOwners(z) /\ NsecCovering(z, n) \subseteq recs
    \/ /\ Nsec3Active(m) /\ n \notin Owners3(z, m)
       /\ Nsec3Covering(z, m, n) \subseteq recs
\* An NSEC before an empty non-terminal whose next name is below it.
CoversEmpty(z, recs, n) == n \notin NsecOwners(z) /\ NsecCovering(z, n) \subseteq recs

(* The encloser is the longest ancestor the records show to exist.          *)
Enclosed(z, m, recs, n, P(_)) ==
    \E e \in Ancestors(n) :
        /\ \/ NsecActive(m) /\ e = ClosestNode(z, n)
           \/ <<e, "NSEC3", <<>>>> \in recs
        /\ Covered(z, m, recs, IF NsecActive(m) THEN n ELSE NextCloser(n, e))
        /\ P(e)

NodataProved(z, m, recs, n, t) ==
    \/ (<<n, "NSEC", <<>>>> \in recs \/ <<n, "NSEC3", <<>>>> \in recs)
    \/ NsecActive(m) /\ Ordinary(z, n) /\ CoversEmpty(z, recs, n)
    \/ m = "optout" /\ Enclosed(z, m, recs, n, LAMBDA e : TRUE)
DenialProved(z, m, recs, neg, t) ==
    CASE neg.kind = "nodata" -> NodataProved(z, m, recs, neg.name, t)
      [] neg.kind = "wildnodata" ->
            Enclosed(z, m, recs, neg.name, LAMBDA e :
                WildcardChild(e) = neg.star /\ NodataProved(z, m, recs, neg.star, t))
      [] neg.kind = "nxdomain" ->
            Enclosed(z, m, recs, neg.name, LAMBDA e : Covered(z, m, recs, WildcardChild(e)))
      [] OTHER -> TRUE

ValidatesAs(z, m, t, ref, r) ==
        /\ r.rcode = ref.rcode
        /\ ref.ans \subseteq r.ans /\ ref.auth \subseteq r.auth
        /\ \A rec \in ref.ans :
              rec[2] \in SignedTypes(z, SourceOf(rec, ref.wild)) /\ rec[1] \notin ref.synth =>
                  <<rec[1], "RRSIG", <<rec[2], SourceOf(rec, ref.wild)>>>> \in r.ans
        /\ \A rec \in r.auth :
              rec[2] \in {"NSEC", "NSEC3", "SOA", "DS"} =>
                  <<rec[1], "RRSIG", <<rec[2], rec[1]>>>> \in r.auth
        /\ DenialProved(z, m, r.auth, ref.neg, t)
        /\ \A w \in ref.wild : ref.rcode \in {"NOERROR", "NXDOMAIN"} =>
              Covered(z, m, r.auth, w[2])
              \/ \E e \in Ancestors(w[2]) :
                    Parent(w[1]) = e /\ Covered(z, m, r.auth, NextCloser(w[2], e))
        /\ ref.ref # NoName =>
              \/ Has(z, ref.ref, "DS") /\ Rec(z, ref.ref, "DS") \in r.auth
              \/ NodataProved(z, m, r.auth, ref.ref, "DS")
Validates(z, m, q, t, r) == ValidatesAs(z, m, t, ReferenceAnswer(z, q, t), r)

(* A name that owns nothing is denied, or stands for a wildcard: NSEC zones *)
(* have no record there.                                                    *)
DeniesEmptyName(z, q, t) ==
    LET neg == ReferenceAnswer(z, q, t).neg
    IN  \/ neg.kind = "nodata" /\ ~NameExists(z, neg.name)
        \/ neg.kind = "wildnodata" /\ ~NameExists(z, neg.star)
\* A chain that went through a wildcard and ended at a name that is not there.
ExpandedToNowhere(z, q, t) ==
    LET r == ReferenceAnswer(z, q, t) IN r.rcode = "NXDOMAIN" /\ r.wild # {}

(* An Opt-Out chain leaves out empty names above insecure delegations; when *)
(* such a name is the closest encloser, RFC 5155 has no proof to select.    *)
OmittedEncloser(z, m, q, t) ==
    LET neg == ReferenceAnswer(z, q, t).neg
    IN  m = "optout" /\ neg.kind = "nxdomain" /\ ClosestNode(z, neg.name) \notin Owners3(z, m)

Complete == {"nsec", "nsec3", "optout"}

\* TypeOKSigned: the zone is one that transfers accept, and is signed in a known way.
TypeOKSigned == TypeOK /\ mode \in ModeNames

(* ImageProves: in a zone whose chain is complete the image's answer to a   *)
(* DO query is the plain answer with every signature and proof a validator  *)
(* needs, for referrals, empty names, expansions and chains alike           *)
(* (zone_image.rs augment_lookup_plan_with_dnssec).  Two cases where it     *)
(* does not prove what it says are excepted by name.                        *)
ImageProves ==
    mode \in Complete =>
    \A q \in QNames, t \in QTypes :
        \/ mode = "nsec" /\ DeniesEmptyName(zone, q, t)
        \/ ExpandedToNowhere(zone, q, t)
        \/ OmittedEncloser(zone, mode, q, t)
        \/ Validates(zone, mode, q, t, ImageDnssec(zone, mode, q, t))

(* SnapshotProves: the same of the resolver for changed RRsets (zone.rs     *)
(* augment_lookup_result_with_dnssec).                                      *)
SnapshotProves ==
    mode \in Complete =>
    \A q \in QNames, t \in QTypes :
        \/ mode = "nsec" /\ DeniesEmptyName(zone, q, t)
        \/ HasEmptyWildcard(zone)
        \/ OmittedEncloser(zone, mode, q, t)
        \/ Validates(zone, mode, q, t, SnapshotDnssec(zone, mode, q, t))

(* NeverUnproved: with a broken chain, or one with too many iterations, no  *)
(* denial or expansion goes out that a validator would reject: it is a      *)
(* SERVFAIL (both resolvers).                                               *)
NeverUnproved ==
    mode \notin Complete =>
    \A q \in QNames, t \in QTypes :
        LET Fine(r) == r.rcode = "SERVFAIL" \/ Validates(zone, mode, q, t, r)
        IN  /\ ExpandedToNowhere(zone, q, t) \/ Fine(ImageDnssec(zone, mode, q, t))
            /\ HasEmptyWildcard(zone) \/ Fine(SnapshotDnssec(zone, mode, q, t))
==============================================================================
