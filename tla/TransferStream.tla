---------------------------- MODULE TransferStream ----------------------------
(***************************************************************************)
(* One zone transfer over TCP (borondns-server transfer.rs, borondns-core  *)
(* axfr.rs and tsig.rs): an AXFR or IXFR query, the stream of response     *)
(* messages with its TSIG signatures, the probe that decides after every   *)
(* message whether the stream is complete, the verification of the         *)
(* signatures, and the parser that turns the records into a zone.          *)
(*                                                                         *)
(* A record is <<owner, type, data>>; an SOA is <<"@", "SOA", serial,      *)
(* spelling>>, where the spelling is the case its names are written in.    *)
(* A message is its records, whether it is an error response, and its TSIG *)
(* record if it has one.  A MAC is the pair of what went into it: the MAC  *)
(* before it and the messages since then (HMAC is taken to be injective).  *)
(***************************************************************************)
EXTENDS Naturals, Sequences, FiniteSets, SequencesExt

CONSTANTS
    Versions,     \* the versions of the zone: version i is a set of records, its serial is i
    Held,         \* versions the secondary may hold
    Keys,         \* whether a TSIG key is configured: a subset of BOOLEAN
    Spellings,    \* the ways the primary may write its SOA
    Sloppy,       \* whether the primary's differences may repeat what is there
    Protocols,    \* "axfr", "ixfr"
    Window,       \* how many messages may go unsigned (99 in tsig.rs)
    MaxMessages   \* bound: the messages of a response

VARIABLES
    proto, keyed,  \* the query and whether it was signed
    held,          \* the version the query was made from
    theirs,        \* the version the primary serves
    wire,          \* messages on the way
    open,          \* the connection delivers
    msgs,          \* retained messages
    probe,         \* the state of the completion probe
    phase, result,
    sound          \* ghost: the primary's stream has everything it needs

vars == <<proto, keyed, held, theirs, wire, open, msgs, probe, phase, result, sound>>

Soa(i, s) == <<"@", "SOA", i, s>>
IsSoa(r) == r[2] = "SOA"
SameSoa(a, b) == IsSoa(a) /\ IsSoa(b) /\ a[3] = b[3]
Same(a, b) == IF IsSoa(a) THEN SameSoa(a, b) ELSE a = b

Ok(zone, serial) == [kind |-> "updated", zone |-> zone, serial |-> serial]
Current == [kind |-> "current"]
Failed == [kind |-> "failed"]
Pending == [kind |-> "pending"]

(***************************************************************************)
(* The primary: what a conforming server sends.                            *)
(***************************************************************************)
Zone(i, s) == Versions[i] \cup {Soa(i, s)}
AsAxfr(i, s, t) == <<Soa(i, s)>> \o SetToSeq(Versions[i]) \o <<Soa(i, t)>>
Diff(a, b, s, extra) ==
    <<Soa(a, s)>> \o SetToSeq(Versions[a] \ Versions[b]) \o <<Soa(b, s)>>
    \o SetToSeq((Versions[b] \ Versions[a]) \cup extra)

(* Differences version by version, or condensed into one. *)
Steps(a, b) == [i \in 1 .. b - a |-> <<a + i - 1, a + i>>]
AsIxfr(a, b, s, t, chained, sloppy) ==
    LET extra(x) == IF sloppy THEN Versions[x[1]] \cap Versions[x[2]] ELSE {}
        steps == IF chained THEN Steps(a, b) ELSE <<<<a, b>>>>
    IN  <<Soa(b, s)>> \o FlattenSeq([i \in DOMAIN steps |-> Diff(steps[i][1], steps[i][2], s, extra(steps[i]))])
        \o <<Soa(b, t)>>

Responses(p, h, i, s, t, sloppy) ==
    IF p = "axfr" THEN {AsAxfr(i, s, t)}
    ELSE {AsAxfr(i, s, t), <<Soa(i, s)>>}
         \cup IF h < i THEN {AsIxfr(h, i, s, t, FALSE, sloppy), AsIxfr(h, i, s, t, TRUE, sloppy)} ELSE {}

(* A response is cut into messages anywhere and some of them are signed.    *)
Splits(recs, cuts) ==
    LET ends == SetToSortSeq(cuts \cup {Len(recs)}, <)
    IN  [i \in DOMAIN ends |-> SubSeq(recs, (IF i = 1 THEN 0 ELSE ends[i - 1]) + 1, ends[i])]
NoTsig == [mac |-> <<>>, late |-> FALSE]
Message(recs, error, tsig) == [recs |-> recs, error |-> error, tsig |-> tsig]
Body(m) == <<m.recs, m.error>>

(* MACs over the request, then over the messages since the last one. *)
Request == <<"Q">>
Signed(parts, error, signing) ==
    LET Add(acc, i) ==
            IF i \in signing
            THEN LET mac == <<acc.mac, Append(acc.since, <<parts[i], error>>)>>
                 IN  [out |-> Append(acc.out, Message(parts[i], error, [mac |-> mac, late |-> FALSE])),
                      mac |-> mac, since |-> <<>>]
            ELSE [out |-> Append(acc.out, Message(parts[i], error, NoTsig)),
                  mac |-> acc.mac, since |-> Append(acc.since, <<parts[i], error>>)]
    IN  FoldLeft(Add, [out |-> <<>>, mac |-> Request, since |-> <<>>], [i \in DOMAIN parts |-> i]).out

(***************************************************************************)
(* TSIG: verify_tcp_response_stream_owned_at_times.                        *)
(***************************************************************************)
\* MUTANT: the messages since the last signature are left out of the MAC.
GoodMacCurrent(prior, since, m) == m.tsig.mac[1] = prior /\ Last(m.tsig.mac[2]) = Body(m)

GoodMac(prior, since, m) == m.tsig.mac = <<prior, Append(since, Body(m))>>
HasTsig(m) == m.tsig.mac # <<>>
VerifyStream(ms) ==
    LET Check(acc, m) ==
            IF HasTsig(m)
            THEN [ok |-> acc.ok /\ GoodMac(acc.prior, acc.since, m) /\ ~m.tsig.late,
                  prior |-> m.tsig.mac, since |-> <<>>, last |-> TRUE, n |-> acc.n + 1]
            ELSE [ok |-> acc.ok /\ acc.n > 0 /\ Len(acc.since) < Window,
                  prior |-> acc.prior, since |-> Append(acc.since, Body(m)), last |-> FALSE, n |-> acc.n + 1]
        end == FoldLeft(Check, [ok |-> TRUE, prior |-> Request, since |-> <<>>, last |-> FALSE, n |-> 0], ms)
    IN  end.ok /\ end.last

(***************************************************************************)
(* Validation of a zone.                                                   *)
(***************************************************************************)
At(z, o, t) == {r \in z : r[1] = o /\ r[2] = t}
Coexists(z, o) ==
    /\ Cardinality(At(z, o, "DNAME")) <= 1 /\ Cardinality(At(z, o, "CNAME")) <= 1
    /\ At(z, o, "DNAME") # {} => At(z, o, "CNAME") = {} /\ (At(z, o, "NS") = {} \/ o = "@")
    /\ At(z, o, "CNAME") # {} => \A r \in z : r[1] = o => r[2] \in {"CNAME", "RRSIG", "NSEC"}
ValidApex(z) ==
    /\ Cardinality({r[3] : r \in {x \in z : IsSoa(x)}}) = 1
    /\ At(z, "@", "NS") # {}
ValidZone(z) == ValidApex(z) /\ \A r \in z : Coexists(z, r[1])

(***************************************************************************)
(* The parsers.                                                            *)
(***************************************************************************)
AllRecs(ms) == FlattenSeq([i \in DOMAIN ms |-> ms[i].recs])
NoErrors(ms) == ms # <<>> /\ \A i \in DOMAIN ms : ~ms[i].error

(* parse_axfr_response_with_question: nothing after the second SOA.         *)
ParseAxfr(ms) ==
    LET recs == AllRecs(ms)
        closing == {i \in 2 .. Len(recs) : IsSoa(recs[i])}
        zone == {recs[i] : i \in 1 .. Len(recs) - 1}
    IN  IF /\ NoErrors(ms) /\ Len(recs) > 1 /\ IsSoa(recs[1])
           /\ closing = {Len(recs)} /\ SameSoa(recs[Len(recs)], recs[1])
           /\ ValidZone(zone)
        THEN Ok(zone, recs[1][3]) ELSE Failed

(* parse_ixfr_incremental_delta_parts and apply_ixfr_incremental: at "top"  *)
(* the next record is the old SOA of a sequence or the terminal one.        *)
Without(z, r) == {x \in z : ~Same(x, r)}
DeltaStep(acc, r) ==
    LET present == \E x \in acc.zone : Same(x, r)
        err == [acc EXCEPT !.ok = FALSE]
        atTop == acc.at = "top" \/ (acc.at = "add" /\ IsSoa(r))
    IN  IF ~acc.ok \/ acc.at = "end" THEN err
        ELSE IF atTop
        THEN IF SameSoa(r, acc.outer) /\ SameSoa(acc.expected, acc.outer) THEN [acc EXCEPT !.at = "end"]
             ELSE IF IsSoa(r) /\ SameSoa(r, acc.expected) /\ present
             THEN [acc EXCEPT !.at = "delete", !.zone = Without(@, r), !.owners = @ \cup {r[1]}]
             ELSE err
        ELSE IF acc.at = "delete" /\ IsSoa(r)
        THEN [acc EXCEPT !.at = "add", !.expected = r, !.zone = @ \cup {r}, !.owners = @ \cup {r[1]}]
        ELSE IF acc.at = "delete"
        THEN IF present THEN [acc EXCEPT !.zone = Without(@, r), !.owners = @ \cup {r[1]}] ELSE err
        ELSE [acc EXCEPT !.zone = IF present THEN @ ELSE @ \cup {r}, !.owners = @ \cup {r[1]}]

\* MUTANT: only the apex of an updated zone is checked.
ValidChangeApex(z, owners) == ValidApex(z)

(* validate_incremental_zone: the owners the differences name.              *)
ValidChange(z, owners) == ValidApex(z) /\ \A o \in owners : Coexists(z, o)

ApplyIncremental(recs) ==
    LET outer == recs[1]
        end == FoldLeft(DeltaStep,
                   [ok |-> TRUE, at |-> "top", outer |-> outer, expected |-> Soa(held, "a"),
                    zone |-> Zone(held, "a"), owners |-> {}], Tail(recs))
    IN  IF /\ outer[3] > held /\ end.ok /\ end.at = "end" /\ ValidChange(end.zone, end.owners)
        THEN Ok(end.zone, outer[3]) ELSE Failed

ParseIxfr(ms) ==
    LET recs == AllRecs(ms)
    IN  IF ~NoErrors(ms) \/ recs = <<>> THEN Failed
        ELSE IF ~IsSoa(recs[1]) THEN Failed
        ELSE IF Len(recs) = 1 THEN (IF recs[1][3] = held THEN Current ELSE Failed)
        ELSE IF IsSoa(recs[2]) THEN ApplyIncremental(recs)
        ELSE ParseAxfr(ms)

(***************************************************************************)
(* The completion probes.                                                  *)
(***************************************************************************)
NoProbe == [count |-> 0, first |-> <<>>, mode |-> "none", matching |-> 0, complete |-> FALSE]

\* MUTANT: the SOAs are counted in each message alone.
ObserveAxfrByMessage(p, recs) ==
    LET soas == Len(SelectSeq(recs, IsSoa))
    IN  [p EXCEPT !.count = @ + soas, !.complete = @ \/ soas >= 2]

(* transfer_axfr_from_primary_inner counts the SOAs.                        *)
ObserveAxfr(p, recs) ==
    LET soas == Len(SelectSeq(recs, IsSoa))
    IN  [p EXCEPT !.count = @ + soas, !.complete = @ \/ (soas > 0 /\ p.count + soas >= 2)]

(* IxfrCompletionProbe::observe; it compares the RDATA byte by byte.        *)
ObserveOne(p, r) ==
    LET n == p.count + 1
        mode == IF n = 2 THEN (IF IsSoa(r) THEN "incremental" ELSE "axfr") ELSE p.mode
        match == IsSoa(r) /\ r = p.first
        matching == IF match THEN p.matching + 1 ELSE p.matching
    IN  IF n = 1
        THEN [p EXCEPT !.count = 1, !.first = r, !.complete = r[3] = held]
        ELSE [p EXCEPT !.count = n, !.mode = mode, !.matching = matching,
                       !.complete = @ \/ (match /\ (mode = "axfr" \/ matching >= 2))]

Observe(p, recs) ==
    IF proto = "axfr" THEN ObserveAxfr(p, recs) ELSE FoldLeft(ObserveOne, p, recs)
ProbeFails(m) ==
    m.error \/ (proto = "ixfr" /\ probe.count = 0 /\ m.recs # <<>> /\ ~IsSoa(m.recs[1]))

Parse(ms) == IF proto = "axfr" THEN ParseAxfr(ms) ELSE ParseIxfr(ms)

-----------------------------------------------------------------------------
\* MUTANT: a session whose signatures fail ends without a result.
FinishSilent(ms) ==
    /\ phase' = "done"
    /\ result' = IF keyed /\ ~VerifyStream(ms) THEN Pending ELSE Parse(ms)

(* The end of the reading: verification, then the parser on a worker.       *)
Finish(ms) ==
    /\ phase' = "done"
    /\ result' = IF keyed /\ ~VerifyStream(ms) THEN Failed ELSE Parse(ms)

(* transfer_terminal_tsig_ready. *)
Ready(ms) == keyed => HasTsig(ms[Len(ms)])

Receive ==
    LET m == Head(wire)
        fails == ProbeFails(m)
        next == IF fails THEN probe ELSE Observe(probe, m.recs)
        kept == Append(msgs, m)
    IN  /\ phase = "reading" /\ open /\ wire # <<>>
        /\ wire' = Tail(wire) /\ msgs' = kept /\ probe' = next
        /\ IF fails /\ ~keyed THEN phase' = "done" /\ result' = Failed
           ELSE IF (next.complete \/ fails) /\ Ready(kept) THEN Finish(kept)
           ELSE UNCHANGED <<phase, result>>
        /\ UNCHANGED <<proto, keyed, held, theirs, open, sound>>

(* The primary closes after a message: what has arrived is all there is.    *)
ReceiveEof ==
    /\ phase = "reading" /\ ~open
    /\ Finish(msgs)
    /\ UNCHANGED <<proto, keyed, held, theirs, wire, open, msgs, probe, sound>>

(* A connection that breaks inside a message, an I/O error, the session     *)
(* timeout or the ingestion limits.                                         *)
Abort ==
    /\ phase = "reading"
    /\ phase' = "done" /\ result' = Failed
    /\ UNCHANGED <<proto, keyed, held, theirs, wire, open, msgs, probe, sound>>

(* The network: the connection is closed, a message is delayed past the     *)
(* fudge or, under a key, replaced by another one.                          *)
Close ==
    /\ phase = "reading" /\ open
    /\ open' = FALSE
    /\ UNCHANGED <<proto, keyed, held, theirs, wire, msgs, probe, phase, result, sound>>
Delay ==
    /\ phase = "reading" /\ wire # <<>> /\ HasTsig(Head(wire)) /\ ~Head(wire).tsig.late
    /\ wire' = <<[Head(wire) EXCEPT !.tsig.late = TRUE]>> \o Tail(wire)
    /\ sound' = FALSE
    /\ UNCHANGED <<proto, keyed, held, theirs, open, msgs, probe, phase, result>>
Replace(recs) ==
    /\ phase = "reading" /\ keyed /\ wire # <<>> /\ recs # Head(wire).recs
    /\ wire' = <<[Head(wire) EXCEPT !.recs = recs]>> \o Tail(wire)
    /\ sound' = FALSE
    /\ UNCHANGED <<proto, keyed, held, theirs, open, msgs, probe, phase, result>>

(* The query is on its way and the primary answers from one version.        *)
Answer ==
    /\ phase = "asked"
    /\ \E s, t \in Spellings, sloppy \in Sloppy :
         \E recs \in Responses(proto, held, theirs, s, t, sloppy) :
           \E cuts \in {C \in SUBSET (1 .. Len(recs) - 1) : Cardinality(C) < MaxMessages} :
             LET parts == Splits(recs, cuts)
             IN  \E signing \in IF keyed THEN SUBSET (DOMAIN parts) ELSE {{}} :
                   /\ wire' = Signed(parts, FALSE, signing)
                   /\ sound' = (keyed => /\ {1, Len(parts)} \subseteq signing
                                         /\ \A i \in DOMAIN parts : \E j \in i .. i + Window : j \in signing)
    /\ phase' = "reading"
    /\ UNCHANGED <<proto, keyed, held, theirs, open, msgs, probe, result>>
AnswerError ==
    /\ phase = "asked"
    /\ wire' = Signed(<<<<>>>>, TRUE, IF keyed THEN {1} ELSE {})
    /\ phase' = "reading" /\ sound' = TRUE
    /\ UNCHANGED <<proto, keyed, held, theirs, open, msgs, probe, result>>

Init ==
    /\ proto \in Protocols /\ keyed \in Keys
    /\ held \in Held /\ theirs \in DOMAIN Versions
    /\ wire = <<>> /\ open = TRUE /\ msgs = <<>> /\ probe = NoProbe
    /\ phase = "asked" /\ result = Pending /\ sound = TRUE

Next ==
    \/ Answer \/ AnswerError
    \/ Receive \/ ReceiveEof \/ Abort \/ Close \/ Delay
    \/ \E recs \in {<<>>, <<Soa(theirs, "a")>>} : Replace(recs)

Spec == Init /\ [][Next]_vars

-----------------------------------------------------------------------------
\* TypeOK: a result is there when the session is done, and only then.
TypeOK ==
    /\ phase \in {"asked", "reading", "done"}
    /\ (result # Pending) = (phase = "done")
    /\ result.kind \in {"pending", "failed", "current", "updated"}
    /\ probe.matching <= probe.count

Plain(z) == {IF IsSoa(r) THEN Soa(r[3], "a") ELSE r : r \in z}

(* AcceptedIsTheirs: however the response is cut into messages, signed, cut *)
(* off, delayed or (under a key) altered, a transfer that succeeds gives    *)
(* exactly the version the primary serves and its serial, or says "current" *)
(* when that is the version held.                                           *)
AcceptedIsTheirs ==
    /\ result.kind = "updated" =>
         /\ Plain(result.zone) = Zone(theirs, "a") /\ result.serial = theirs
    /\ result.kind = "current" => held = theirs

(* AcceptedIsValid: an accepted zone passes the validation of a whole zone, *)
(* although an incremental response only has the owners it names checked    *)
(* (axfr.rs validate_incremental_zone).                                     *)
AcceptedIsValid == result.kind = "updated" => ValidZone(Plain(result.zone))

(* What the primary has to spell alike for the probe. *)
Alike == Cardinality(Spellings) = 1

(* EndIsRecognised: when a complete response with the signatures RFC 8945   *)
(* asks for has arrived, the secondary does not wait for more (a primary    *)
(* keeps the connection open): it is done.  A lone SOA of another version   *)
(* is not a complete response.                                              *)
EndIsRecognised ==
    phase = "reading" /\ sound /\ wire = <<>> /\ Alike => Len(AllRecs(msgs)) = 1
=============================================================================
