-------------------------------- MODULE SoaPoll --------------------------------
(***************************************************************************)
(* One SOA poll (borondns-server transfer.rs poll_soa_from_primary_inner): *)
(* a UDP query, the datagrams that arrive on its socket (the answer,       *)
(* answers to earlier queries, altered or foreign ones), the retry over    *)
(* TCP when the answer is truncated, and the session's timeout.            *)
(***************************************************************************)
EXTENDS Naturals, FiniteSets

CONSTANTS
    Serials,     \* serials the primary may have
    Keys,        \* whether a TSIG key is configured: a subset of BOOLEAN
    MaxStray     \* bound: datagrams that are not the primary's answer

Parameters == Keys \subseteq BOOLEAN /\ "rcode" \notin Serials

VARIABLES
    keyed,     \* a key is configured, and the query is signed
    serial,    \* the primary's serial
    phase,     \* "udp", "tcp", "done"
    net,       \* datagrams waiting at the socket
    sent,      \* the primary has answered over UDP
    stray,     \* datagrams from elsewhere so far
    result,
    cause      \* ghost: what ended the poll

vars == <<keyed, serial, phase, net, sent, stray, result, cause>>

None == [kind |-> "none", serial |-> "none"]
Failed == [kind |-> "failed", serial |-> "none"]
Ok(s) == [kind |-> "ok", serial |-> s]

(* A message: whether its header answers the query (id, QR and opcode), its *)
(* TC bit, its signature ("good" is a MAC over this query's MAC, in time,   *)
(* with no TSIG error), and its content: a serial, an error, or a question  *)
(* that is not ours.                                                        *)
Contents == Serials \cup {"rcode", "other"}
Messages == [ours : BOOLEAN, tc : BOOLEAN, sig : {"good", "bad", "none"}, content : Contents]

(* The primary's answers, and what else may arrive: nobody else can sign.   *)
Genuine(m) ==
    /\ m.ours /\ m.sig = (IF keyed THEN "good" ELSE "none")
    /\ m.content \in {serial, "rcode"} /\ (m.tc => m.content = serial)
StrayMessages == {m \in Messages : m.sig # "good"}

(* maybe_verify_transfer_response: with a key only a good signature.         *)
Verified(m) == keyed => m.sig = "good"

(* parse_soa_response *)
ParseSoa(m) == IF m.ours /\ ~m.tc /\ m.content \in Serials THEN Ok(m.content) ELSE Failed

(* udp_response_tc_status *)
TcStatus(m) == IF ~m.tc THEN "not" ELSE IF m.ours THEN "valid" ELSE "invalid"

Done(r, why) == phase' = "done" /\ result' = r /\ cause' = why

PrimaryAnswers(m) ==
    /\ phase = "udp" /\ ~sent /\ Genuine(m)
    /\ net' = net \cup {m} /\ sent' = TRUE
    /\ UNCHANGED <<keyed, serial, phase, stray, result, cause>>

StrayArrives(m) ==
    /\ phase = "udp" /\ stray < MaxStray /\ m \in StrayMessages
    /\ net' = net \cup {m} /\ stray' = stray + 1
    /\ UNCHANGED <<keyed, serial, phase, sent, result, cause>>

\* MUTANT: a datagram that fails verification ends the poll.
ReceiveStrict(m) ==
    /\ phase = "udp" /\ m \in net
    /\ net' = net \ {m}
    /\ CASE ~Verified(m) -> Done(Failed, "datagram")
         [] Verified(m) /\ TcStatus(m) = "invalid" -> UNCHANGED <<phase, result, cause>>
         [] Verified(m) /\ TcStatus(m) = "valid" -> phase' = "tcp" /\ UNCHANGED <<result, cause>>
         [] Verified(m) /\ TcStatus(m) = "not" -> Done(ParseSoa(m), IF Genuine(m) THEN "primary" ELSE "datagram")
    /\ UNCHANGED <<keyed, serial, sent, stray>>

\* MUTANT: the TC bit is looked at before the signature.
ReceiveTcFirst(m) ==
    /\ phase = "udp" /\ m \in net
    /\ net' = net \ {m}
    /\ CASE TcStatus(m) = "invalid" -> UNCHANGED <<phase, result, cause>>
         [] TcStatus(m) = "valid" -> phase' = "tcp" /\ UNCHANGED <<result, cause>>
         [] TcStatus(m) = "not" /\ ~Verified(m) -> UNCHANGED <<phase, result, cause>>
         [] TcStatus(m) = "not" /\ Verified(m) -> Done(ParseSoa(m), IF Genuine(m) THEN "primary" ELSE "datagram")
    /\ UNCHANGED <<keyed, serial, sent, stray>>

(* One turn of the receive loop. *)
Receive(m) ==
    /\ phase = "udp" /\ m \in net
    /\ net' = net \ {m}
    /\ CASE ~Verified(m) -> UNCHANGED <<phase, result, cause>>
         [] Verified(m) /\ TcStatus(m) = "invalid" -> UNCHANGED <<phase, result, cause>>
         [] Verified(m) /\ TcStatus(m) = "valid" -> phase' = "tcp" /\ UNCHANGED <<result, cause>>
         [] Verified(m) /\ TcStatus(m) = "not" -> Done(ParseSoa(m), IF Genuine(m) THEN "primary" ELSE "datagram")
    /\ UNCHANGED <<keyed, serial, sent, stray>>

\* MUTANT: a TCP error ends the poll without a result.
TcpSilent(ok) ==
    /\ phase = "tcp"
    /\ phase' = "done" /\ result' = (IF ok THEN Ok(serial) ELSE None) /\ cause' = "io"
    /\ UNCHANGED <<keyed, serial, net, sent, stray>>

(* poll_soa_from_primary_stream_inner: one framed answer or an I/O error.   *)
Tcp(ok) ==
    /\ phase = "tcp"
    /\ IF ok THEN Done(Ok(serial), "primary") ELSE Done(Failed, "io")
    /\ UNCHANGED <<keyed, serial, net, sent, stray>>

\* MUTANT: the retry over TCP is outside the timeout.
TimeoutUdp ==
    /\ phase = "udp"
    /\ Done(Failed, "timeout")
    /\ UNCHANGED <<keyed, serial, net, sent, stray>>

Timeout ==
    /\ phase # "done"
    /\ Done(Failed, "timeout")
    /\ UNCHANGED <<keyed, serial, net, sent, stray>>

SocketError ==
    /\ phase = "udp"
    /\ Done(Failed, "io")
    /\ UNCHANGED <<keyed, serial, net, sent, stray>>

Init ==
    /\ keyed \in Keys /\ serial \in Serials
    /\ phase = "udp" /\ net = {} /\ sent = FALSE /\ stray = 0
    /\ result = None /\ cause = "none"

Next ==
    \/ \E m \in Messages : PrimaryAnswers(m) \/ StrayArrives(m) \/ Receive(m)
    \/ \E ok \in BOOLEAN : Tcp(ok)
    \/ Timeout \/ SocketError

(* tokio::time::timeout bounds the poll. *)
Spec == Init /\ [][Next]_vars
FairSpec == Spec /\ WF_vars(Timeout)

-----------------------------------------------------------------------------
(* TypeOK: a poll that is done has a result. *)
TypeOK ==
    /\ phase \in {"udp", "tcp", "done"}
    /\ (phase = "done") = (result # None)

(* KeyedPollIsAuthentic: with a key, no datagram that the primary did not   *)
(* sign for this very query decides the poll: it ends with the primary's    *)
(* serial or error, an I/O error or the timeout.                            *)
KeyedPollIsAuthentic ==
    /\ keyed /\ result.kind = "ok" => result.serial = serial
    /\ keyed /\ phase = "done" => cause # "datagram"

(* KeyedPollStaysUdp: nor does it make the secondary turn to TCP.           *)
KeyedPollStaysUdp == phase = "tcp" /\ keyed => sent

(* PollEnds: every poll ends, however many datagrams are ignored.           *)
PollEnds == <>(phase = "done")
=============================================================================
