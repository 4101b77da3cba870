---------------------------- MODULE SoaPollProofs ----------------------------
(***************************************************************************)
(* A keyed SOA poll is decided by the primary alone, for every set of      *)
(* serials and any number of foreign datagrams.  The argument is about     *)
(* what waits at the socket: with a key, a datagram with a good signature  *)
(* is the primary's answer (nobody else can sign), and there is one only   *)
(* after the primary has sent it.                                          *)
(***************************************************************************)
EXTENDS SoaPoll, TLAPS

-----------------------------------------------------------------------------
(* The datagrams at the socket are messages, and of two origins.            *)
Arrived ==
    \A m \in net : m \in Messages /\ (m \in StrayMessages \/ (Genuine(m) /\ sent))

(* What the poll has come to: TCP only after an answer of the primary, and  *)
(* a result that is a serial of the primary, when the query was signed.     *)
Decided ==
    /\ keyed => cause # "datagram"
    /\ keyed /\ result.kind = "ok" => result.serial = serial
    /\ phase = "tcp" /\ keyed => sent

PollInv ==
    /\ keyed \in BOOLEAN /\ serial \in Serials /\ sent \in BOOLEAN
    /\ TypeOK /\ Arrived /\ Decided

-----------------------------------------------------------------------------
\* None, Failed and Ok(s) are told apart by their kind.
LEMMA Kinds ==
    /\ None.kind = "none" /\ Failed.kind = "failed"
    /\ \A x : Ok(x).kind = "ok" /\ Ok(x).serial = x /\ Ok(x) # None
    /\ Failed # None
  BY DEF None, Failed, Ok

\* With a key, a datagram at the socket that verifies is the primary's.
LEMMA VerifiedIsGenuine ==
    ASSUME PollInv, keyed, NEW m \in net, Verified(m)
    PROVE  Genuine(m) /\ sent
  BY DEF PollInv, Arrived, StrayMessages, Verified

\* parse_soa_response gives the primary's serial or an error for what the primary sent.
LEMMA GenuineParse ==
    ASSUME Parameters, NEW m, Genuine(m)
    PROVE  ParseSoa(m) = Failed \/ ParseSoa(m) = Ok(serial)
  BY DEF Genuine, ParseSoa, Parameters

\* A poll starts with an empty socket and no result.
LEMMA InitInv == ASSUME Parameters PROVE Init => PollInv
  BY Kinds DEF Parameters, Init, PollInv, TypeOK, Arrived, Decided

\* A datagram that arrives, from the primary or not, decides nothing.
LEMMA ArrivalInv ==
    ASSUME PollInv, NEW m \in Messages, PrimaryAnswers(m) \/ StrayArrives(m)
    PROVE  PollInv'
  <1>1. Genuine(m)' = Genuine(m) BY DEF PrimaryAnswers, StrayArrives, Genuine
  <1>2. Arrived'
    <2> SUFFICES ASSUME NEW x \in net'
                 PROVE x \in Messages /\ (x \in StrayMessages \/ (Genuine(x)' /\ sent'))
      BY DEF Arrived, StrayMessages, Messages, Contents
    <2>1. Genuine(x)' = Genuine(x) BY DEF PrimaryAnswers, StrayArrives, Genuine
    <2>2. CASE x \in net BY <2>1, <2>2 DEF PollInv, Arrived, PrimaryAnswers, StrayArrives
    <2>3. CASE x = m BY <2>1, <2>3 DEF PrimaryAnswers, StrayArrives
    <2> QED BY <2>2, <2>3 DEF PrimaryAnswers, StrayArrives
  <1>3. /\ keyed' \in BOOLEAN /\ serial' \in Serials /\ sent' \in BOOLEAN
        /\ TypeOK' /\ Decided'
    BY DEF PollInv, TypeOK, Decided, PrimaryAnswers, StrayArrives
  <1> QED BY <1>2, <1>3 DEF PollInv

\* Taking a datagram from the socket leaves the others as they are.
LEMMA SocketShrinks ==
    ASSUME PollInv, net' \subseteq net, UNCHANGED <<keyed, serial, sent>>
    PROVE  Arrived'
  <1> SUFFICES ASSUME NEW x \in net'
               PROVE x \in Messages /\ (x \in StrayMessages \/ (Genuine(x)' /\ sent'))
    BY DEF Arrived, StrayMessages, Messages, Contents
  <1>1. Genuine(x)' = Genuine(x) BY DEF Genuine
  <1> QED BY <1>1 DEF PollInv, Arrived

\* One turn of the receive loop: a datagram is ignored, turns the poll to TCP or ends it.
LEMMA ReceiveInv ==
    ASSUME Parameters, PollInv, NEW m \in Messages, Receive(m)
    PROVE  PollInv'
  <1>1. /\ m \in net /\ phase = "udp" /\ net' \subseteq net
        /\ UNCHANGED <<keyed, serial, sent>>
    BY DEF Receive
  <1>2. Arrived' BY <1>1, SocketShrinks
  <1>3. CASE UNCHANGED <<phase, result, cause>>
    <2>1. TypeOK' /\ Decided' BY <1>1, <1>3 DEF PollInv, TypeOK, Decided
    <2> QED BY <1>1, <1>2, <2>1 DEF PollInv
  <1>4. CASE Verified(m) /\ phase' = "tcp" /\ UNCHANGED <<result, cause>>
    <2>1. keyed => sent BY <1>1, <1>4, VerifiedIsGenuine
    <2>2. TypeOK' /\ Decided' BY <1>1, <1>4, <2>1 DEF PollInv, TypeOK, Decided
    <2> QED BY <1>1, <1>2, <2>2 DEF PollInv
  <1>5. CASE Verified(m) /\ Done(ParseSoa(m), IF Genuine(m) THEN "primary" ELSE "datagram")
    <2>1. ParseSoa(m) # None BY Kinds DEF ParseSoa
    <2>2. keyed => Genuine(m) BY <1>1, <1>5, VerifiedIsGenuine
    <2>3. keyed => ParseSoa(m) = Failed \/ ParseSoa(m) = Ok(serial) BY <2>2, GenuineParse
    <2>4. keyed /\ ParseSoa(m).kind = "ok" => ParseSoa(m).serial = serial
      BY <2>3, Kinds
    <2>5. TypeOK' BY <1>5, <2>1 DEF TypeOK, Done
    <2>6. Decided' BY <1>1, <1>5, <2>2, <2>4 DEF Decided, Done
    <2> QED BY <1>1, <1>2, <2>5, <2>6 DEF PollInv
  <1> QED BY <1>3, <1>4, <1>5 DEF Receive, TcStatus

\* The answer over TCP, an I/O error and the timeout end the poll.
LEMMA EndInv ==
    ASSUME PollInv, (\E ok \in BOOLEAN : Tcp(ok)) \/ Timeout \/ SocketError
    PROVE  PollInv'
  <1>1. UNCHANGED <<keyed, serial, net, sent>> BY DEF Tcp, Timeout, SocketError
  <1>2. Arrived' BY <1>1, SocketShrinks
  <1>3. TypeOK' /\ Decided'
    <2>1. CASE Done(Ok(serial), "primary")
      BY <1>1, <2>1, Kinds DEF TypeOK, Decided, Done
    <2>2. CASE Done(Failed, "io") \/ Done(Failed, "timeout")
      BY <1>1, <2>2, Kinds DEF TypeOK, Decided, Done
    <2> QED BY <2>1, <2>2 DEF Tcp, Timeout, SocketError
  <1> QED BY <1>1, <1>2, <1>3 DEF PollInv

\* PollInv is inductive.
LEMMA NextInv ==
    ASSUME Parameters, PollInv, [Next]_vars
    PROVE  PollInv'
  <1>1. CASE UNCHANGED vars
    <2>1. /\ net' \subseteq net /\ UNCHANGED <<keyed, serial, sent, phase, result, cause>>
      BY <1>1 DEF vars
    <2>2. Arrived' BY <2>1, SocketShrinks
    <2> QED BY <2>1, <2>2 DEF PollInv, TypeOK, Decided
  <1> QED BY <1>1, ArrivalInv, ReceiveInv, EndInv DEF Next

-----------------------------------------------------------------------------
\* A poll with a key reports the primary's serial and is ended by no datagram that the primary
\* did not sign (poll_soa_from_primary_inner), for any serials, keys and foreign datagrams.
THEOREM PollIsAuthentic ==
    ASSUME Parameters
    PROVE  Spec => []KeyedPollIsAuthentic
  <1>1. Init => PollInv BY InitInv
  <1>2. PollInv /\ [Next]_vars => PollInv' BY NextInv
  <1>3. PollInv => KeyedPollIsAuthentic BY DEF PollInv, Decided, KeyedPollIsAuthentic
  <1> QED BY <1>1, <1>2, <1>3, PTL DEF Spec

\* Nor does such a datagram make a poll with a key turn to TCP: the TC bit is looked at after
\* the signature.
THEOREM PollStaysUdp ==
    ASSUME Parameters
    PROVE  Spec => []KeyedPollStaysUdp
  <1>1. Init => PollInv BY InitInv
  <1>2. PollInv /\ [Next]_vars => PollInv' BY NextInv
  <1>3. PollInv => KeyedPollStaysUdp BY DEF PollInv, Decided, KeyedPollStaysUdp
  <1> QED BY <1>1, <1>2, <1>3, PTL DEF Spec
=============================================================================
