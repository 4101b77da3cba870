------------------------------ MODULE ZoneLookup ------------------------------
(***************************************************************************)
(* How a query name is resolved inside one zone (borondns-core).           *)
(*                                                                         *)
(* The server has two resolvers over the same RRsets.  ZoneSnapshot        *)
(* (zone.rs) walks names from the query up to the apex and is used for     *)
(* responses that depend on RRsets changed since the last compilation, and *)
(* as the offline oracle of the tests and the fuzzer.  ZoneImage           *)
(* (zone_image.rs) is the compiled trie that serves everything else.       *)
(* Reference is the descent of RFC 1034 section 4.3.2 with RFC 6672        *)
(* (DNAME) and RFC 4592 (wildcards), written independently of both.        *)
(*                                                                         *)
(* A name is its sequence of labels from the root down; the zone hangs at  *)
(* Apex.  A zone is a function from <<owner, type>> to data: the target    *)
(* name of an NS, CNAME, DNAME or MX, and a version for the others.  Wire  *)
(* encodings, TTLs, classes other than IN and the order of records within  *)
(* a section are left out; a section is the set of its records.            *)
(***************************************************************************)
EXTENDS Naturals, Sequences, FiniteSets, SequencesExt, FiniteSetsExt

CONSTANTS
    RRs,         \* the RRsets a primary may add: <<owner, type, data>>
    QNames,      \* the names asked for
    QTypes,      \* the types asked for
    MaxLabels,   \* longest name, in labels (255 octets in the code)
    MaxChain,    \* options.max_cname_chain
    MaxRRsets    \* bound: how many RRsets a zone has beyond SOA and NS

VARIABLE zone    \* the RRsets of the published snapshot

Apex == <<"o">>
NoName == <<"!">>
Star == "*"

TypeCode == [A |-> 1, NS |-> 2, CNAME |-> 5, SOA |-> 6, MX |-> 15, TXT |-> 16,
             DNAME |-> 39, DS |-> 43, RRSIG |-> 46, NSEC |-> 47, NSEC3 |-> 50,
             NSEC3PARAM |-> 51]

(***************************************************************************)
(* Names.                                                                  *)
(***************************************************************************)
Parent(n) == SubSeq(n, 1, Len(n) - 1)
InZone(n) == IsPrefix(Apex, n)
Below(n, top) == IsStrictPrefix(top, n)

\* The in-zone ancestors of n, n included, and without it.
Path(n) == {SubSeq(n, 1, i) : i \in Len(Apex)..Len(n)}
Ancestors(n) == Path(n) \ {n}

Shortest(S) == IF S = {} THEN NoName ELSE CHOOSE p \in S : \A r \in S : Len(p) <= Len(r)
Longest(S) == IF S = {} THEN NoName ELSE CHOOSE p \in S : \A r \in S : Len(p) >= Len(r)

WildcardChild(n) == Append(n, Star)

\* DomainName::with_replaced_suffix: NoName when the result is too long.
WithReplacedSuffix(n, suffix, target) ==
    LET new == target \o SubSeq(n, Len(suffix) + 1, Len(n))
    IN  IF Len(new) > MaxLabels THEN NoName ELSE new

(***************************************************************************)
(* RRsets.                                                                 *)
(***************************************************************************)
Has(z, n, t) == <<n, t>> \in DOMAIN z
Rec(z, n, t) == <<n, t, z[<<n, t>>]>>
RecAs(z, n, t, owner) == <<owner, t, z[<<n, t>>]>>
TypesAt(z, n) == {k[2] : k \in {k2 \in DOMAIN z : k2[1] = n}}

IsSignatureOrProof(t) == t \in {"RRSIG", "NSEC", "NSEC3"}

(* What an ANY query selects at a name: with the minimal mode (RFC 8482)    *)
(* the first RRset in type order, DNSSEC proofs and signatures left out.    *)
AnyTypesAt(z, n) ==
    LET ts == {t \in TypesAt(z, n) : ~IsSignatureOrProof(t)}
    IN  IF ts = {} THEN {}
        ELSE {CHOOSE t \in ts : \A u \in ts : TypeCode[t] <= TypeCode[u]}

SelectedTypes(z, n, t) ==
    IF t = "ANY" THEN AnyTypesAt(z, n)
    ELSE IF Has(z, n, t) THEN {t} ELSE {}

(***************************************************************************)
(* Results.  cont is where a chain left the zone: the name to continue at. *)
(* neg is the denial context: what kind of absence was found, the name it  *)
(* is about and the wildcard that had no data.  wild holds the names that  *)
(* were expanded from a wildcard, with it; synth the CNAME owners made     *)
(* from a DNAME; ref the owner of the NS RRset a referral was made of.     *)
(***************************************************************************)
Result(rcode, aa, ans, auth, add, cont, neg, wild, synth, ref) ==
    [rcode |-> rcode, aa |-> aa, ans |-> ans, auth |-> auth, add |-> add,
     cont |-> cont, neg |-> neg, wild |-> wild, synth |-> synth, ref |-> ref]

NoNeg == [kind |-> "none", name |-> NoName, star |-> NoName]
Neg(kind, n, star) == [kind |-> kind, name |-> n, star |-> star]

SoaOf(z) == IF Has(z, Apex, "SOA") THEN {Rec(z, Apex, "SOA")} ELSE {}

(* What a chain has gathered so far: the records answered, the names        *)
(* expanded from a wildcard and the owners of synthesised CNAMEs.           *)
Chain0 == [ans |-> {}, wild |-> {}, synth |-> {}]

Positive(c, add) == Result("NOERROR", TRUE, c.ans, {}, add, NoName, NoNeg, c.wild, c.synth, NoName)
Continue(c, at) == Result("NOERROR", TRUE, c.ans, {}, {}, at, NoNeg, c.wild, c.synth, NoName)
Servfail(c) == Result("SERVFAIL", TRUE, c.ans, {}, {}, NoName, NoNeg, c.wild, c.synth, NoName)
YxDomain(z, c) == Result("YXDOMAIN", TRUE, c.ans, SoaOf(z), {}, NoName, NoNeg, c.wild, c.synth, NoName)
Negative(z, c, rcode, neg) ==
    Result(rcode, TRUE, c.ans, SoaOf(z), {}, NoName, neg, c.wild, c.synth, NoName)

(* A cut met at the start of a query is a referral; met later in a chain it *)
(* is attached to the answers already found, and the chain goes on in the   *)
(* child zone if this server has it.                                        *)
AtCut(z, c, cut, glue, cur) ==
    IF c.ans = {}
    THEN Result("NOERROR", FALSE, {}, {Rec(z, cut, "NS")}, glue, NoName, NoNeg, {}, {}, cut)
    ELSE Result("NOERROR", TRUE, c.ans, {Rec(z, cut, "NS")}, glue, cur, NoNeg,
                c.wild, c.synth, cut)

AddAnswers(c, recs) == [c EXCEPT !.ans = @ \cup recs]

(* The two records a DNAME contributes: itself and the synthesised CNAME.   *)
AddDname(z, c, dn, cur, target) ==
    [AddAnswers(c, {Rec(z, dn, "DNAME"), <<cur, "CNAME", target>>})
        EXCEPT !.synth = @ \cup {cur}]

AddExpanded(c, recs, star, cur) ==
    IF star = NoName THEN AddAnswers(c, recs)
    ELSE [AddAnswers(c, recs) EXCEPT !.wild = @ \cup {<<star, cur>>}]

(***************************************************************************)
(* ZoneSnapshot (zone.rs).                                                 *)
(***************************************************************************)
(* name_classes and empty_non_terminal_classes: every owner of an RRset and *)
(* every in-zone ancestor of one.                                           *)
NameExists(z, n) == TypesAt(z, n) # {}
EmptyNonTerminal(z, n) == \E k \in DOMAIN z : Below(k[1], n)
SnapExists(z, n) == NameExists(z, n) \/ EmptyNonTerminal(z, n)

(* The NS RRset nearest the apex on the path of n, and the DNAME nearest    *)
(* the apex strictly above n.                                               *)
DelegationFor(z, n) == Shortest({p \in Path(n) \ {Apex} : Has(z, p, "NS")})
DnameFor(z, n) == Shortest({p \in Ancestors(n) : Has(z, p, "DNAME")})

ClosestOwner(z, n) == Longest({p \in Ancestors(n) : NameExists(z, p)})

ClosestEncloser(z, n) == Longest({p \in Ancestors(n) : SnapExists(z, p)})

Addresses(z, n) == IF InZone(n) /\ Has(z, n, "A") THEN {Rec(z, n, "A")} ELSE {}

GlueForNs(z, cut) == Addresses(z, z[<<cut, "NS">>])

AdditionalsForAnswers(z, recs) ==
    UNION {IF InZone(r[3]) /\ DelegationFor(z, r[3]) = NoName
           THEN Addresses(z, r[3]) ELSE {}
           : r \in {s \in recs : s[2] \in {"NS", "MX"}}}

RECURSIVE ResolveSnapshot(_, _, _, _, _, _)
ResolveSnapshot(z, t, cur, visited, c, remaining) ==
    LET cut == DelegationFor(z, cur)
        dn == DnameFor(z, cur)
        seen == IF visited = {} THEN {cur} ELSE visited \cup {cur}
        exists == SnapExists(z, cur)
        star == IF exists THEN NoName ELSE WildcardChild(ClosestEncloser(z, cur))
        owner == IF exists THEN cur ELSE star
        selected == SelectedTypes(z, owner, t)
    IN  IF ~InZone(cur) THEN Continue(c, cur)
        ELSE IF /\ cut # NoName
                /\ dn = NoName \/ Len(cut) <= Len(dn)
                /\ ~(t = "DS" /\ cur = cut)
        THEN AtCut(z, c, cut, GlueForNs(z, cut), cur)
        ELSE IF cur \in visited THEN Servfail(c)
        ELSE IF dn # NoName
        THEN IF remaining = 0 THEN Servfail(c)
             ELSE LET target == WithReplacedSuffix(cur, dn, z[<<dn, "DNAME">>])
                  IN  IF target = NoName
                      THEN YxDomain(z, AddAnswers(c, {Rec(z, dn, "DNAME")}))
                      ELSE IF t \in {"CNAME", "ANY"}
                      THEN Positive(AddDname(z, c, dn, cur, target), {})
                      ELSE ResolveSnapshot(z, t, target, seen,
                                AddDname(z, c, dn, cur, target), remaining - 1)
        ELSE IF selected # {}
        THEN LET done == AddExpanded(c, {RecAs(z, owner, s, cur) : s \in selected}, star, cur)
             IN  Positive(done, AdditionalsForAnswers(z, done.ans))
        ELSE IF t # "CNAME" /\ Has(z, owner, "CNAME")
        THEN IF remaining = 0 THEN Servfail(c)
             ELSE ResolveSnapshot(z, t, z[<<owner, "CNAME">>], seen,
                      AddExpanded(c, {RecAs(z, owner, "CNAME", cur)}, star, cur),
                      remaining - 1)
        ELSE IF exists THEN Negative(z, c, "NOERROR", Neg("nodata", cur, NoName))
        ELSE IF NameExists(z, star)
        THEN Negative(z, c, "NOERROR", Neg("wildnodata", cur, star))
        ELSE Negative(z, c, "NXDOMAIN", Neg("nxdomain", cur, NoName))

SnapshotAnswer(z, q, t) == ResolveSnapshot(z, t, q, {}, Chain0, MaxChain)

(***************************************************************************)
(* ZoneImage (zone_image.rs).                                              *)
(***************************************************************************)
(* A trie node exists for every prefix of an owner; it is an ordinary name  *)
(* when it or a descendant owns something other than an NSEC3 RRset and the *)
(* signatures at an NSEC3 owner.                                            *)
OrdinaryOwner(z, n) ==
    \E t \in TypesAt(z, n) : t # "NSEC3" /\ (t # "RRSIG" \/ ~Has(z, n, "NSEC3"))
Ordinary(z, n) == \E k \in DOMAIN z : IsPrefix(n, k[1]) /\ OrdinaryOwner(z, k[1])

(* query_node_handles: the node of the name, if it is an ordinary name, and *)
(* the deepest ordinary node above or at it.                                *)
ExactNode(z, n) == IF Ordinary(z, n) THEN n ELSE NoName
ClosestNode(z, n) == Longest({p \in Path(n) : Ordinary(z, p)})

(* nearest_in_delegation and nearest_in_dname are inherited from the parent *)
(* when it has one: the boundary nearest the apex.                          *)
NearestInDelegation(z, n) ==
    LET f[i \in Len(Apex)..Len(n)] ==
            IF i = Len(Apex) THEN NoName
            ELSE IF f[i - 1] # NoName THEN f[i - 1]
            ELSE IF Has(z, SubSeq(n, 1, i), "NS") THEN SubSeq(n, 1, i) ELSE NoName
    IN  f[Len(n)]
NearestInDname(z, n) ==
    LET f[i \in Len(Apex)..Len(n)] ==
            IF i > Len(Apex) /\ f[i - 1] # NoName THEN f[i - 1]
            ELSE IF Has(z, SubSeq(n, 1, i), "DNAME") THEN SubSeq(n, 1, i) ELSE NoName
    IN  f[Len(n)]

DnameAtOrAboveNode(z, exact, node) == NearestInDname(z, node)

\* dname_for_node: a name's own DNAME does not cover the name itself.
DnameForNode(z, exact, node) ==
    IF node # exact THEN NearestInDname(z, node)
    ELSE IF node = Apex THEN NoName ELSE NearestInDname(z, Parent(node))

\* The precomputed relations of an RRset: glue of a cut, addresses of a target.
ReferralGlue(z, cut) == IF cut = Apex THEN {} ELSE Addresses(z, z[<<cut, "NS">>])
OccludedByDelegation(z, n) == \E p \in Path(n) \ {Apex} : Has(z, p, "NS")
AdditionalRelations(z, n, t) ==
    IF t \in {"NS", "MX"} /\ InZone(z[<<n, t>>]) /\ ~OccludedByDelegation(z, z[<<n, t>>])
    THEN Addresses(z, z[<<n, t>>]) ELSE {}

(* The answer at a node that has something of the type asked for: the       *)
(* records, under the query name when the node is a wildcard's, and the     *)
(* relations of those RRsets.                                               *)
AnswerAtNode(z, c, node, t, star, cur) ==
    LET sel == SelectedTypes(z, node, t)
    IN  Positive(AddExpanded(c, {RecAs(z, node, s, cur) : s \in sel}, star, cur),
                 UNION {AdditionalRelations(z, node, s) : s \in sel})

(* One step of an image lookup at name cur.  orig is the name asked for,    *)
(* nodes the target nodes already visited; a query starts with no answers.  *)
RECURSIVE ImageStep(_, _, _, _, _, _, _)
ImageStep(z, t, orig, cur, nodes, c, remaining) ==
    LET start == c.ans = {}
        exact == ExactNode(z, cur)
        close == ClosestNode(z, cur)
        dn == DnameForNode(z, exact, close)
        cut == NearestInDelegation(z, close)
        starNode == WildcardChild(close)
        Follow(target, c2, seen) == ImageStep(z, t, orig, target, seen, c2, remaining - 1)
        Cname(node, star, seen) ==
            IF remaining = 0 THEN Servfail(c)
            ELSE Follow(z[<<node, "CNAME">>],
                        AddExpanded(c, {RecAs(z, node, "CNAME", cur)}, star, cur), seen)
        AtNode(node, star, seen, otherwise) ==
            IF SelectedTypes(z, node, t) # {} THEN AnswerAtNode(z, c, node, t, star, cur)
            ELSE IF t # "CNAME" /\ Has(z, node, "CNAME") THEN Cname(node, star, seen)
            ELSE otherwise
    IN  IF ~start /\ cur = orig THEN Servfail(c)
        ELSE IF ~InZone(cur) THEN Continue(c, cur)
        ELSE IF /\ cut # NoName
                /\ dn = NoName \/ Len(cut) <= Len(dn)
                /\ ~(t = "DS" /\ exact = close /\ cut = close)
        THEN AtCut(z, c, cut, ReferralGlue(z, cut), cur)
        ELSE IF dn # NoName
        THEN IF remaining = 0 THEN Servfail(c)
             ELSE LET target == WithReplacedSuffix(cur, dn, z[<<dn, "DNAME">>])
                  IN  IF target = NoName
                      THEN YxDomain(z, AddAnswers(c, {Rec(z, dn, "DNAME")}))
                      ELSE IF t \in {"CNAME", "ANY"}
                      THEN Positive(AddDname(z, c, dn, cur, target), {})
                      ELSE Follow(target, AddDname(z, c, dn, cur, target), nodes)
        ELSE IF exact # NoName
        THEN IF ~start /\ exact \in nodes THEN Servfail(c)
             ELSE AtNode(exact, NoName, IF start THEN nodes ELSE nodes \cup {exact},
                         Negative(z, c, "NOERROR", Neg("nodata", cur, NoName)))
        ELSE IF Ordinary(z, starNode)
        THEN AtNode(starNode, starNode, nodes,
                    Negative(z, c, "NOERROR", Neg("wildnodata", cur, starNode)))
        ELSE Negative(z, c, "NXDOMAIN", Neg("nxdomain", cur, NoName))

ImageAnswer(z, q, t) == ImageStep(z, t, q, q, {}, Chain0, MaxChain)

(* lookup_direct_answer_plan: the fast path for a plain RRset at an         *)
(* existing name that nothing above it covers; NoPlan when it does not      *)
(* apply and the full lookup must run.                                      *)
NoPlan == Result("NONE", FALSE, {}, {}, {}, NoName, NoNeg, {}, {}, NoName)
DirectIgnoringDname(z, q, t) ==
    IF /\ t \notin {"ANY", "NS", "MX"}
       /\ InZone(q)
       /\ Ordinary(z, q)
       /\ Has(z, q, t)
       /\ NearestInDelegation(z, q) \in {NoName} \cup (IF t = "DS" THEN {q} ELSE {})
    THEN Positive(AddAnswers(Chain0, {Rec(z, q, t)}), {})
    ELSE NoPlan

DirectAnswer(z, q, t) ==
    IF /\ t \notin {"ANY", "NS", "MX"}
       /\ InZone(q)
       /\ Ordinary(z, q)
       /\ Has(z, q, t)
       /\ NearestInDelegation(z, q) \in {NoName} \cup (IF t = "DS" THEN {q} ELSE {})
       /\ q = Apex \/ NearestInDname(z, Parent(q)) = NoName
    THEN Positive(AddAnswers(Chain0, {Rec(z, q, t)}), {})
    ELSE NoPlan

(***************************************************************************)
(* The reference: RFC 1034 section 4.3.2 descends from the apex one label   *)
(* at a time and stops at the first thing that ends the descent.           *)
(***************************************************************************)
RECURSIVE Reference(_, _, _, _, _, _)
Reference(z, t, cur, seen, c, remaining) ==
    LET At(i) == SubSeq(cur, 1, i)
        IsCut(i) == i > Len(Apex) /\ Has(z, At(i), "NS") /\ ~(t = "DS" /\ i = Len(cur))
        IsDname(i) == i < Len(cur) /\ Has(z, At(i), "DNAME")
        IsEnd(i) == i = Len(cur) \/ ~Ordinary(z, At(i + 1))
        stop == Min({i \in Len(Apex)..Len(cur) : IsCut(i) \/ IsDname(i) \/ IsEnd(i)})
        node == IF stop = Len(cur) THEN cur ELSE WildcardChild(At(stop))
        star == IF stop = Len(cur) THEN NoName ELSE node
        Alias(c2, target) ==
            IF remaining = 0 THEN Servfail(c)
            ELSE Reference(z, t, target, seen \cup {cur}, c2, remaining - 1)
    IN  IF ~InZone(cur) THEN Continue(c, cur)
        ELSE IF IsCut(stop) THEN AtCut(z, c, At(stop), Addresses(z, z[<<At(stop), "NS">>]), cur)
        ELSE IF cur \in seen THEN Servfail(c)
        ELSE IF IsDname(stop)
        THEN LET target == WithReplacedSuffix(cur, At(stop), z[<<At(stop), "DNAME">>])
             IN  IF remaining = 0 THEN Servfail(c)
                 ELSE IF target = NoName
                 THEN YxDomain(z, AddAnswers(c, {Rec(z, At(stop), "DNAME")}))
                 ELSE IF t \in {"CNAME", "ANY"}
                 THEN Positive(AddDname(z, c, At(stop), cur, target), {})
                 ELSE Alias(AddDname(z, c, At(stop), cur, target), target)
        ELSE IF SelectedTypes(z, node, t) # {}
        THEN LET done == AddExpanded(c, {RecAs(z, node, s, cur) : s \in SelectedTypes(z, node, t)},
                                     star, cur)
             IN  Positive(done, AdditionalsForAnswers(z, done.ans))
        ELSE IF t # "CNAME" /\ Has(z, node, "CNAME")
        THEN Alias(AddExpanded(c, {RecAs(z, node, "CNAME", cur)}, star, cur),
                   z[<<node, "CNAME">>])
        ELSE IF Ordinary(z, node)
        THEN Negative(z, c, "NOERROR", Neg(IF star = NoName THEN "nodata" ELSE "wildnodata", cur, star))
        ELSE Negative(z, c, "NXDOMAIN", Neg("nxdomain", cur, NoName))

ReferenceAnswer(z, q, t) == Reference(z, t, q, {}, Chain0, MaxChain)

(***************************************************************************)
(* Zones.  A transfer is refused unless the owner names obey the rules of  *)
(* CNAME and DNAME (axfr.rs), so only such zones are ever looked into.     *)
(***************************************************************************)
Coexists(z) ==
    \A k \in DOMAIN z :
        /\ k[2] = "CNAME" => TypesAt(z, k[1]) \subseteq {"CNAME", "RRSIG", "NSEC", "NSEC3"}
        /\ k[2] = "DNAME" => ~Has(z, k[1], "NS") \/ k[1] = Apex

ApexRRs == {<<Apex, "SOA", <<>>>>, <<Apex, "NS", <<"p">>>>}
ZoneOf(S) == [k \in {<<r[1], r[2]>> : r \in S} |->
                (CHOOSE r \in S : r[1] = k[1] /\ r[2] = k[2])[3]]

Init == zone = ZoneOf(ApexRRs)

AddRrsetUnchecked(r) ==
    /\ <<r[1], r[2]>> \notin DOMAIN zone
    /\ Cardinality(DOMAIN zone) < MaxRRsets + Cardinality(ApexRRs)
    /\ zone' = [k \in DOMAIN zone \cup {<<r[1], r[2]>>} |->
                    IF k = <<r[1], r[2]>> THEN r[3] ELSE zone[k]]

(* An IXFR adds or removes an RRset; the result must still be a valid zone. *)
AddRrset(r) ==
    /\ <<r[1], r[2]>> \notin DOMAIN zone
    /\ Cardinality(DOMAIN zone) < MaxRRsets + Cardinality(ApexRRs)
    /\ LET z == [k \in DOMAIN zone \cup {<<r[1], r[2]>>} |->
                    IF k = <<r[1], r[2]>> THEN r[3] ELSE zone[k]]
       IN  Coexists(z) /\ zone' = z

RemoveRrset(k) ==
    /\ k[1] # Apex
    /\ zone' = [j \in DOMAIN zone \ {k} |-> zone[j]]

Next == (\E r \in RRs : AddRrset(r)) \/ (\E k \in DOMAIN zone : RemoveRrset(k))

Spec == Init /\ [][Next]_zone

-----------------------------------------------------------------------------
(* What a client sees of a result. *)
Seen(r) == [rcode |-> r.rcode, aa |-> r.aa, ans |-> r.ans, auth |-> r.auth,
            add |-> r.add, cont |-> r.cont]

(* A wildcard whose name owns nothing but has names below it. *)
EmptyWildcard(z, n) == n[Len(n)] = Star /\ ~NameExists(z, n) /\ EmptyNonTerminal(z, n)
HasEmptyWildcard(z) == \E k \in DOMAIN z : \E p \in Path(k[1]) : EmptyWildcard(z, p)

\* TypeOK: the zone holds its apex records and obeys the rules transfers enforce.
TypeOK ==
    /\ {<<r[1], r[2]>> : r \in ApexRRs} \subseteq DOMAIN zone
    /\ \A k \in DOMAIN zone : <<k[1], k[2], zone[k]>> \in RRs \cup ApexRRs
    /\ Coexists(zone)

(* ImageIsReference: the compiled image (inherited boundaries, precomputed  *)
(* relations, node-based loop detection) gives the answer of the RFC's      *)
(* descent for every zone and question, cuts, DNAME, wildcards and chains   *)
(* of them included (zone_image.rs lookup_response_plan).                   *)
ImageIsReference ==
    \A q \in QNames, t \in QTypes :
        Seen(ImageAnswer(zone, q, t)) = Seen(ReferenceAnswer(zone, q, t))

(* SnapshotIsReference: the bottom-up resolver that answers for changed     *)
(* RRsets gives it too, except in zones with an empty wildcard, where the   *)
(* two resolvers differ (zone.rs resolve_snapshot).                         *)
SnapshotIsReference ==
    ~HasEmptyWildcard(zone) =>
    \A q \in QNames, t \in QTypes :
        Seen(SnapshotAnswer(zone, q, t)) = Seen(ReferenceAnswer(zone, q, t))

(* DirectIsFull: the fast path never answers where the full lookup would    *)
(* have answered otherwise: nothing above the name occludes it              *)
(* (zone_image.rs lookup_direct_answer_plan).                               *)
DirectIsFull ==
    \A q \in QNames, t \in QTypes :
        DirectAnswer(zone, q, t) # NoPlan =>
            Seen(DirectAnswer(zone, q, t)) = Seen(ImageAnswer(zone, q, t))
==============================================================================
