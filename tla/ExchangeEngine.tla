---------------------------- MODULE ExchangeEngine ----------------------------
(***************************************************************************)
(* ExchangeEngine::send_and_receive (exchange_engine.cpp): one blocking    *)
(* request of the hub to one device, with its retries, its challenge and   *)
(* response, and its wall-clock budget.                                    *)
(*                                                                         *)
(* The device and the air are external.  Frames get lost in either         *)
(* direction, the device may answer late (also in a later exchange) or     *)
(* never, and it may report on its own.  An addressed frame of the device  *)
(* counts as an answer, whatever it answers: only the endpoints are        *)
(* compared.                                                               *)
(***************************************************************************)
EXTENDS Integers, FiniteSets

CONSTANTS
    EXCHANGE_RETRY_COUNT,
    EXCHANGE_RETRY_DELAY_MS,
    exchange_total_budget_ms,
    exchange_start_response_wait_ms,
    exchange_response_wait_ms,
    TxTime,       \* the longest a successful transmit_frame takes, listen-before-talk included
    TxTimeout,    \* how long send_packet waits for the end of a transmission
    MaxTries,     \* the max_tries arguments callers pass
    Exchanges,    \* bound of the model: number of exchanges
    MaxAir,       \* bound of the model: answers the device has yet to send
    Horizon       \* bound of the model: the clock of an exchange stops here

Smaller(a, b) == IF a <= b THEN a ELSE b
Larger(a, b) == IF a <= b THEN b ELSE a

\* The longest an exchange blocks: a try that starts with the budget all but used up.
LongestFirstWait == Larger(exchange_start_response_wait_ms, exchange_response_wait_ms)
LongestTry == Larger(TxTimeout, TxTime + LongestFirstWait + Larger(TxTimeout, TxTime + exchange_response_wait_ms))
BlockingBound == exchange_total_budget_ms + EXCHANGE_RETRY_DELAY_MS + LongestTry

ASSUME ExchangeAssumption ==
    /\ {EXCHANGE_RETRY_COUNT, exchange_total_budget_ms, exchange_start_response_wait_ms,
        exchange_response_wait_ms, TxTimeout} \subseteq Nat \ {0}
    /\ {EXCHANGE_RETRY_DELAY_MS, TxTime, Exchanges, MaxAir, Horizon} \subseteq Nat
    /\ MaxTries \subseteq Nat
    /\ BlockingBound < Horizon

VARIABLES
    stage,       \* OutboundExchangeState, "IDLE" between two exchanges
    cmd,         \* "EXECUTE" (CMD_EXECUTE) or "READ" (any other request)
    xid,         \* number of this exchange
    tries,       \* index of this try, from 1
    allowed,     \* its number of tries
    elapsed,     \* millis() - exchange_begin_ms
    window,      \* what is left of the listen window
    challenge,   \* the challenge being answered
    accepted,    \* accepted_without_reply
    outcome,     \* ExchangeOutcome of the last exchange
    pending,     \* device: the request it has challenged, or none
    air,         \* device: answers it has yet to send
    executed,    \* history: how often the device acted on this exchange
    falseAlarm   \* history: a transmission timed out, and may have been on the air

engine == <<stage, cmd, xid, tries, allowed, elapsed, window, challenge, accepted, outcome>>
device == <<pending, air, executed>>
vars == <<engine, device, falseAlarm>>

NoRequest == [xid |-> 0, try |-> 0]
Requests == [xid : 0..Exchanges, try : 0..EXCHANGE_RETRY_COUNT]
This == [xid |-> xid, try |-> tries]
Answer(kind, r) == [kind |-> kind, to |-> r]
Answers == [kind : {"CHALLENGE", "REPLY", "STATUS"}, to : Requests]

Init ==
    /\ stage = "IDLE" /\ cmd = "READ" /\ xid = 0 /\ tries = 0 /\ allowed = 1
    /\ elapsed = 0 /\ window = 0 /\ challenge = NoRequest /\ accepted = FALSE /\ outcome = "NONE"
    /\ pending = NoRequest /\ air = {} /\ executed = 0
    /\ falseAlarm = FALSE

Spent(ms) == Smaller(elapsed + ms, Horizon)

-----------------------------------------------------------------------------
(* The device (external): what it may do on hearing a frame, and alone.    *)

Emits(kinds, r) == air' \in {air} \cup {a \in {air \cup {Answer(k, r)} : k \in kinds} : Cardinality(a) <= MaxAir}

\* A request is challenged; a read may also be answered at once.
HearsRequest ==
    /\ pending' = This
    /\ Emits(IF cmd = "READ" THEN {"CHALLENGE", "REPLY"} ELSE {"CHALLENGE"}, This)
    /\ UNCHANGED executed

\* The response to its open challenge over the request it stored makes it act.
HearsAuth ==
    /\ pending = challenge /\ pending # NoRequest
    /\ pending' = NoRequest
    /\ executed' = executed + 1
    /\ Emits({"REPLY"}, challenge)

Misses == UNCHANGED device

\* A status update of its own accord.
DeviceReports ==
    /\ Cardinality(air) < MaxAir
    /\ air' = air \cup {Answer("STATUS", NoRequest)}
    /\ UNCHANGED <<engine, pending, executed, falseAlarm>>

\* An answer that is lost, or sent while the hub does not listen.
AnswerLost ==
    /\ \E a \in air : air' = air \ {a}
    /\ UNCHANGED <<engine, pending, executed, falseAlarm>>

-----------------------------------------------------------------------------
(* send_and_receive.                                                       *)

tries_allowed(max_tries) == Larger(1, Smaller(max_tries, EXCHANGE_RETRY_COUNT))

Begin(c, max_tries) ==
    /\ stage = "IDLE" /\ xid < Exchanges
    /\ stage' = "TX_REQUEST"
    /\ cmd' = c
    /\ xid' = xid + 1
    /\ tries' = 1
    /\ allowed' = tries_allowed(max_tries)
    /\ elapsed' = 0
    /\ accepted' = FALSE
    /\ outcome' = "NONE"
    /\ executed' = 0 /\ falseAlarm' = FALSE
    /\ UNCHANGED <<window, challenge, pending, air>>

Return(result) == stage' = "IDLE" /\ outcome' = result /\ UNCHANGED tries

\* Faulty variant: the budget is not consulted.
TryEnds_without_budget(now, acc) ==
    IF tries >= allowed
    THEN Return(IF acc THEN "SUCCESS_UNCONFIRMED" ELSE "FAILED") /\ elapsed' = now
    ELSE /\ stage' = "TX_REQUEST" /\ tries' = tries + 1
         /\ elapsed' = Smaller(now + EXCHANGE_RETRY_DELAY_MS, Horizon)
         /\ UNCHANGED outcome

\* `continue`: the next try if one is allowed and the budget is not used up.
TryEnds(now, acc) ==
    IF tries >= allowed \/ now >= exchange_total_budget_ms
    THEN Return(IF acc THEN "SUCCESS_UNCONFIRMED" ELSE "FAILED") /\ elapsed' = now
    ELSE /\ stage' = "TX_REQUEST" /\ tries' = tries + 1
         /\ elapsed' = Smaller(now + EXCHANGE_RETRY_DELAY_MS, Horizon)
         /\ UNCHANGED outcome

Listen(next, ms, wait) ==
    /\ stage' = next
    /\ elapsed' = Spent(ms)
    /\ window' = wait
    /\ UNCHANGED <<tries, outcome>>

\* context.wait_ms: CMD_EXECUTE and most others are start frames, a key transfer is not.
first_waits(c) ==
    {exchange_start_response_wait_ms} \cup (IF c = "EXECUTE" THEN {} ELSE {exchange_response_wait_ms})

TransmitRequest ==
    /\ stage = "TX_REQUEST"
    /\ \E ms \in 0..TxTime, wait \in first_waits(cmd) : Listen("WAIT_FIRST_RESPONSE", ms, wait)
    /\ HearsRequest \/ Misses
    /\ UNCHANGED <<cmd, xid, allowed, challenge, accepted, falseAlarm>>

(***************************************************************************)
(* transmit_frame returns false: nothing was sent, at once; or the end of  *)
(* the transmission was not signalled in time, and it may have been sent.  *)
(***************************************************************************)
TransmitFails(Heard) ==
    \/ TryEnds(elapsed, accepted) /\ Misses /\ UNCHANGED falseAlarm
    \/ TryEnds(Spent(TxTimeout), accepted) /\ (Misses \/ Heard) /\ falseAlarm' = TRUE

TransmitRequestFails ==
    /\ stage = "TX_REQUEST"
    /\ TransmitFails(HearsRequest)
    /\ UNCHANGED <<cmd, xid, allowed, window, challenge, accepted>>

\* wait_for_first_response_: classify_exchange_first_response of an addressed frame.
FirstResponse ==
    /\ stage = "WAIT_FIRST_RESPONSE" /\ window > 0
    /\ \E a \in air :
         /\ air' = air \ {a}
         /\ IF a.kind = "CHALLENGE"
            THEN stage' = "TX_AUTH_RESPONSE" /\ challenge' = a.to /\ UNCHANGED <<tries, outcome>>
            ELSE Return("SUCCESS_WITH_RESPONSE") /\ UNCHANGED challenge
    /\ window' = 0
    /\ UNCHANGED <<cmd, xid, allowed, elapsed, accepted, pending, executed, falseAlarm>>

\* Faulty variant: a frame that is ignored restarts the window.
ListenOn_restarting ==
    /\ stage \in {"WAIT_FIRST_RESPONSE", "WAIT_FINAL_RESPONSE"} /\ window > 0
    /\ elapsed' = Spent(1)
    /\ window' \in {window - 1, exchange_response_wait_ms}
    /\ UNCHANGED <<stage, cmd, xid, tries, allowed, challenge, accepted, outcome, device, falseAlarm>>

\* listen(): silence, a frame between other nodes and garbage take time off the window.
ListenOn ==
    /\ stage \in {"WAIT_FIRST_RESPONSE", "WAIT_FINAL_RESPONSE"} /\ window > 0
    /\ elapsed' = Spent(1)
    /\ window' = window - 1
    /\ UNCHANGED <<stage, cmd, xid, tries, allowed, challenge, accepted, outcome, device, falseAlarm>>

FirstTimeout ==
    /\ stage = "WAIT_FIRST_RESPONSE" /\ window = 0
    /\ TryEnds(elapsed, accepted)
    /\ UNCHANGED <<cmd, xid, allowed, window, challenge, accepted, device, falseAlarm>>

\* handle_authentication_.
TransmitAuth ==
    /\ stage = "TX_AUTH_RESPONSE"
    /\ \E ms \in 0..TxTime : Listen("WAIT_FINAL_RESPONSE", ms, exchange_response_wait_ms)
    /\ HearsAuth \/ Misses
    /\ UNCHANGED <<cmd, xid, allowed, challenge, accepted, falseAlarm>>

TransmitAuthFails ==
    /\ stage = "TX_AUTH_RESPONSE"
    /\ TransmitFails(HearsAuth)
    /\ UNCHANGED <<cmd, xid, allowed, window, challenge, accepted>>

\* wait_for_final_response_: any addressed frame closes the exchange.
FinalResponse ==
    /\ stage = "WAIT_FINAL_RESPONSE" /\ window > 0
    /\ \E a \in air : air' = air \ {a}
    /\ Return("SUCCESS_WITH_RESPONSE")
    /\ window' = 0
    /\ UNCHANGED <<cmd, xid, allowed, elapsed, challenge, accepted, pending, executed, falseAlarm>>

\* Faulty variants: every request is retried, or none is.
retry_after_unconfirmed_accept_is_safe_always(c) == TRUE
retry_after_unconfirmed_accept_is_safe_never(c) == FALSE

retry_after_unconfirmed_accept_is_safe(c) == c # "EXECUTE"

\* Faulty variant: silence after the authentication is a failure.
FinalTimeout_failing ==
    /\ stage = "WAIT_FINAL_RESPONSE" /\ window = 0
    /\ TryEnds(elapsed, accepted)
    /\ UNCHANGED <<cmd, xid, allowed, window, challenge, accepted, device, falseAlarm>>

FinalTimeout ==
    /\ stage = "WAIT_FINAL_RESPONSE" /\ window = 0
    /\ accepted' = TRUE
    /\ IF retry_after_unconfirmed_accept_is_safe(cmd)
       THEN TryEnds(elapsed, TRUE)
       ELSE Return("SUCCESS_UNCONFIRMED") /\ UNCHANGED elapsed
    /\ UNCHANGED <<cmd, xid, allowed, window, challenge, device, falseAlarm>>

Blocking ==
    \/ TransmitRequest \/ TransmitRequestFails \/ FirstResponse \/ FirstTimeout \/ ListenOn
    \/ TransmitAuth \/ TransmitAuthFails \/ FinalResponse \/ FinalTimeout

Next ==
    \/ \E c \in {"EXECUTE", "READ"}, m \in MaxTries : Begin(c, m)
    \/ Blocking
    \/ DeviceReports \/ AnswerLost

Spec == Init /\ [][Next]_vars

\* The hub's code runs: a blocking call keeps taking steps.
FairSpec == Spec /\ WF_vars(Blocking)
-----------------------------------------------------------------------------
\* Type invariant.
TypeOK ==
    /\ stage \in {"IDLE", "TX_REQUEST", "WAIT_FIRST_RESPONSE", "TX_AUTH_RESPONSE", "WAIT_FINAL_RESPONSE"}
    /\ cmd \in {"EXECUTE", "READ"}
    /\ xid \in 0..Exchanges
    /\ tries \in 0..EXCHANGE_RETRY_COUNT /\ allowed \in 1..EXCHANGE_RETRY_COUNT
    /\ elapsed \in 0..Horizon /\ window \in Nat
    /\ challenge \in Requests /\ pending \in Requests
    /\ accepted \in BOOLEAN /\ falseAlarm \in BOOLEAN
    /\ outcome \in {"NONE", "FAILED", "SUCCESS_WITH_RESPONSE", "SUCCESS_UNCONFIRMED"}
    /\ air \subseteq Answers
    /\ executed \in Nat

(***************************************************************************)
(* "A retry there is a second side effect on a device already acting on    *)
(* the first copy": however frames are lost or delayed, the device acts at *)
(* most once on one CMD_EXECUTE exchange.  The one exception needs a       *)
(* budget tuned above the transmit timeout: then the answer whose end was  *)
(* not signalled, and which the device took, is followed by another try.   *)
(***************************************************************************)
AtMostOneExecution ==
    cmd = "EXECUTE" => executed <= 1 \/ (falseAlarm /\ exchange_total_budget_ms > TxTimeout)

(***************************************************************************)
(* The hub withdraws its prediction and reports a failure on FAILED.  The  *)
(* device then did not act, unless a transmission that was reported as     *)
(* failed went out after all.                                              *)
(***************************************************************************)
FailedMeansNotExecuted == outcome = "FAILED" /\ executed > 0 => falseAlarm \/ cmd = "READ"

(***************************************************************************)
(* "For every command but CMD_EXECUTE, this outcome is only returned after *)
(* the full retry budget is spent."                                        *)
(***************************************************************************)
ReadsSpendTheirTries ==
    outcome = "SUCCESS_UNCONFIRMED" /\ cmd = "READ" => tries = allowed \/ elapsed >= exchange_total_budget_ms

(***************************************************************************)
(* One exchange blocks loop() for at most its budget, one retry gap and    *)
(* the longest try, however many retries, ignored frames and transmit      *)
(* timeouts it meets.                                                      *)
(***************************************************************************)
BlockingBounded == elapsed <= BlockingBound

(***************************************************************************)
(* An exchange always ends: loop() gets control back.                      *)
(***************************************************************************)
Termination == stage # "IDLE" ~> stage = "IDLE"
=============================================================================
