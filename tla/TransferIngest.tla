---------------------------- MODULE TransferIngest ----------------------------
(***************************************************************************)
(* The memory budget that all transfers share (borondns-server transfer.rs *)
(* TransferIngestBudget, TransferIngestTracker, GuardedTransfer): sessions *)
(* reserve room before they read a message, by compare-and-swap, hand the  *)
(* reservations to a blocking parser that outlives a session that timed    *)
(* out, and give them back one by one when the result has been published   *)
(* or dropped.                                                             *)
(***************************************************************************)
EXTENDS Integers, Sequences, FiniteSets, FiniteSetsExt, SequencesExt

CONSTANTS
    Sessions,      \* identifiers of transfer sessions (and of the parsers they leave behind)
    Sizes,         \* sizes a message may announce
    Limit,         \* the budget (limit_bytes)
    Multiplier,    \* wire_charge_multiplier
    MaxMessages,   \* limit_messages of a session
    MaxBytes,      \* limit_bytes of a session
    MaxInt         \* u64::MAX

(* What the configuration and the types of the counters guarantee.          *)
Parameters ==
    /\ IsFiniteSet(Sessions) /\ Sizes \subseteq Nat /\ Multiplier \in Nat
    /\ MaxInt \in Nat /\ Limit \in 0 .. MaxInt
    /\ MaxMessages \in Nat /\ MaxBytes \in Nat

VARIABLES
    inFlight,   \* in_flight_bytes
    step,       \* what a session is doing
    want,       \* the message it is reserving for
    seen,       \* the value of in_flight_bytes it has read
    kept,       \* sizes of the messages it retains
    held        \* charges of its reservations

vars == <<inFlight, step, want, seen, kept, held>>

Total(q) == FoldLeft(+, 0, q)
Reserved(h) == MapThenSumSet(LAMBDA s : Total(h[s]), Sessions)
Charge(size) == IF size * Multiplier > MaxInt THEN MaxInt ELSE size * Multiplier

Idle(s) == step' = [step EXCEPT ![s] = "idle"]

(* A session starts: TransferIngestTracker::new. *)
Start(s) ==
    /\ step[s] = "idle" /\ held[s] = <<>>
    /\ step' = [step EXCEPT ![s] = "reading"] /\ kept' = [kept EXCEPT ![s] = <<>>]
    /\ UNCHANGED <<inFlight, want, seen, held>>

(* A length prefix: record_message checks the session's own limits, then    *)
(* try_reserve reads the counter.                                           *)
RecordMessage(s, size) ==
    /\ step[s] = "reading"
    /\ IF Len(kept[s]) + 1 > MaxMessages \/ Total(kept[s]) + size > MaxBytes
       THEN /\ step' = [step EXCEPT ![s] = "dropping"] /\ kept' = [kept EXCEPT ![s] = <<>>]
            /\ UNCHANGED <<want, seen>>
       ELSE /\ step' = [step EXCEPT ![s] = "reserving"]
            /\ want' = [want EXCEPT ![s] = size] /\ seen' = [seen EXCEPT ![s] = inFlight]
            /\ UNCHANGED kept
    /\ UNCHANGED <<inFlight, held>>

\* MUTANT: the limit is checked and the charge added without the swap.
TryReserveUnchecked(s) ==
    LET next == seen[s] + Charge(want[s])
    IN  /\ step[s] = "reserving"
        /\ IF next > MaxInt \/ next > Limit
           THEN /\ step' = [step EXCEPT ![s] = "dropping"] /\ kept' = [kept EXCEPT ![s] = <<>>]
                /\ UNCHANGED <<inFlight, seen, held>>
           ELSE /\ inFlight' = inFlight + Charge(want[s])
                /\ held' = [held EXCEPT ![s] = Append(@, Charge(want[s]))]
                /\ kept' = [kept EXCEPT ![s] = Append(@, want[s])]
                /\ step' = [step EXCEPT ![s] = "reading"]
                /\ UNCHANGED seen
        /\ UNCHANGED want

(* One turn of the loop: refused, reserved, or the counter moved. *)
TryReserve(s) ==
    LET next == seen[s] + Charge(want[s])
    IN  /\ step[s] = "reserving"
        /\ IF next > MaxInt \/ next > Limit
           THEN /\ step' = [step EXCEPT ![s] = "dropping"] /\ kept' = [kept EXCEPT ![s] = <<>>]
                /\ want' = [want EXCEPT ![s] = 0] /\ seen' = [seen EXCEPT ![s] = 0]
                /\ UNCHANGED <<inFlight, held>>
           ELSE IF inFlight = seen[s]
           THEN /\ inFlight' = next
                /\ held' = [held EXCEPT ![s] = Append(@, Charge(want[s]))]
                /\ kept' = [kept EXCEPT ![s] = Append(@, want[s])]
                /\ step' = [step EXCEPT ![s] = "reading"]
                /\ seen' = [seen EXCEPT ![s] = 0] /\ want' = [want EXCEPT ![s] = 0]
           ELSE /\ seen' = [seen EXCEPT ![s] = inFlight]
                /\ UNCHANGED <<inFlight, want, held, kept, step>>

(* The stream is complete and verified: the parser runs on a worker.        *)
Parse(s) ==
    /\ step[s] = "reading" /\ kept[s] # <<>>
    /\ step' = [step EXCEPT ![s] = "parsing"]
    /\ UNCHANGED <<inFlight, want, seen, kept, held>>

(* An error, a closed connection or the session's timeout before the parser *)
(* has started; message buffers go before the reservations.                 *)
Fail(s) ==
    /\ step[s] = "reading"
    /\ step' = [step EXCEPT ![s] = "dropping"] /\ kept' = [kept EXCEPT ![s] = <<>>]
    /\ UNCHANGED <<inFlight, want, seen, held>>

\* MUTANT: the reservations stay with the session that waits for the parser.
TimeoutReleasing(s) ==
    /\ step[s] = "parsing"
    /\ step' = [step EXCEPT ![s] = "orphan"]
    /\ inFlight' = inFlight - Total(held[s]) /\ held' = [held EXCEPT ![s] = <<>>]
    /\ UNCHANGED <<want, seen, kept>>

(* The session times out while the parser runs: the parser keeps all it has. *)
Timeout(s) ==
    /\ step[s] = "parsing"
    /\ step' = [step EXCEPT ![s] = "orphan"]
    /\ UNCHANGED <<inFlight, want, seen, kept, held>>

(* The parser ends.  A rejected response and a result that nobody waits for *)
(* are dropped; a zone goes on to be persisted, compiled and published.     *)
\* MUTANT: a result that nobody waits for is left where it is.
ParsedForgetful(s) ==
    /\ step[s] = "parsing"
    /\ \/ step' = [step EXCEPT ![s] = "publishing"] /\ UNCHANGED kept
       \/ step' = [step EXCEPT ![s] = "dropping"] /\ kept' = [kept EXCEPT ![s] = <<>>]
    /\ UNCHANGED <<inFlight, want, seen, held>>

Parsed(s) ==
    /\ step[s] \in {"parsing", "orphan"}
    /\ \/ step[s] = "parsing" /\ step' = [step EXCEPT ![s] = "publishing"] /\ UNCHANGED kept
       \/ step' = [step EXCEPT ![s] = "dropping"] /\ kept' = [kept EXCEPT ![s] = <<>>]
    /\ UNCHANGED <<inFlight, want, seen, held>>

\* MUTANT: a publication ends the session before its reservations are dropped.
PublishLeaking(s) ==
    /\ step[s] = "publishing"
    /\ step' = [step EXCEPT ![s] = "idle"] /\ kept' = [kept EXCEPT ![s] = <<>>]
    /\ UNCHANGED <<inFlight, want, seen, held>>

(* Published, refused or cancelled: GuardedTransfer is dropped. *)
Publish(s) ==
    /\ step[s] = "publishing"
    /\ step' = [step EXCEPT ![s] = "dropping"] /\ kept' = [kept EXCEPT ![s] = <<>>]
    /\ UNCHANGED <<inFlight, want, seen, held>>

(* TransferIngestReservation::drop, one reservation after the other. *)
Release(s) ==
    /\ step[s] = "dropping"
    /\ IF held[s] = <<>>
       THEN Idle(s) /\ UNCHANGED <<inFlight, held>>
       ELSE /\ inFlight' = inFlight - Head(held[s])
            /\ held' = [held EXCEPT ![s] = Tail(@)]
            /\ UNCHANGED step
    /\ UNCHANGED <<want, seen, kept>>

Init ==
    /\ inFlight = 0 /\ step = [s \in Sessions |-> "idle"]
    /\ want = [s \in Sessions |-> 0] /\ seen = [s \in Sessions |-> 0]
    /\ kept = [s \in Sessions |-> <<>>] /\ held = [s \in Sessions |-> <<>>]

Next ==
    \E s \in Sessions :
        \/ Start(s) \/ TryReserve(s) \/ Parse(s) \/ Fail(s) \/ Timeout(s)
        \/ Parsed(s) \/ Publish(s) \/ Release(s)
        \/ \E size \in Sizes : RecordMessage(s, size)

(* A session is bounded by its timeout, parsing and publication are finite  *)
(* work, and drops are not waited for.  The swap of one session fails only  *)
(* when another one moved the counter in between, and a fair scheduler does *)
(* not let that happen every time.                                          *)
Fairness ==
    \A s \in Sessions :
        /\ WF_vars(Fail(s)) /\ WF_vars(TryReserve(s)) /\ SF_vars(TryReserve(s) /\ seen[s] = inFlight)
        /\ WF_vars(Parsed(s)) /\ WF_vars(Publish(s)) /\ WF_vars(Release(s))
Spec == Init /\ [][Next]_vars
FairSpec == Spec /\ Fairness

-----------------------------------------------------------------------------
(* TypeOK: the counter is in range and holds nothing but reservations.      *)
TypeOK ==
    /\ inFlight \in 0 .. MaxInt
    /\ \A s \in Sessions :
         /\ step[s] \in {"idle", "reading", "reserving", "parsing", "orphan", "publishing", "dropping"}
         /\ step[s] = "idle" => held[s] = <<>>

(* WithinBudget: whatever the sessions race for, the reservations that are  *)
(* out add up to the counter and never exceed the limit (transfer.rs        *)
(* try_reserve).                                                            *)
WithinBudget ==
    /\ inFlight = Reserved(held)
    /\ inFlight <= Limit

(* RetainedIsCharged: every message that is still in memory, with its       *)
(* session or in the hands of a parser whose session timed out, has a       *)
(* reservation of its own, of its charge, that has not been given back.     *)
RetainedIsCharged ==
    \A s \in Sessions : kept[s] # <<>> =>
        /\ Len(held[s]) = Len(kept[s])
        /\ \A i \in DOMAIN kept[s] : held[s][i] = Charge(kept[s][i])

(* AllReturned: a session's reservations are given back in the end, whether *)
(* it fails, times out under the parser or is published.                    *)
AllReturned == \A s \in Sessions : held[s] # <<>> ~> held[s] = <<>>
=============================================================================
