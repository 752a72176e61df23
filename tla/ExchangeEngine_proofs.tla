------------------------- MODULE ExchangeEngine_proofs -------------------------
(***************************************************************************)
(* Proof that one exchange makes the device act at most once, that a       *)
(* failure means it did not act, and that the exchange blocks for a        *)
(* bounded time and comes nearer to its end with every step, for every     *)
(* choice of the timing constants and every number of tries.  The second   *)
(* part is about the Home Assistant actions built on such exchanges: what  *)
(* they report of renames, roll-calls and sweeps is true.                  *)
(***************************************************************************)
EXTENDS ExchangeEngine, ManagementActions, FiniteSetTheorems, TLAPS

\* The case AtMostOneExecution excepts.
Excepted == falseAlarm /\ exchange_total_budget_ms > TxTimeout

\* Until the answer to the challenge is sent, the device has not acted on a CMD_EXECUTE.
NotYetActed ==
    cmd = "EXECUTE" /\ stage \in {"TX_REQUEST", "WAIT_FIRST_RESPONSE", "TX_AUTH_RESPONSE"} =>
        executed = 0 \/ Excepted

\* How late each stage may begin, or end if it listens.
TryStart == exchange_total_budget_ms + EXCHANGE_RETRY_DELAY_MS
FirstEnd == TryStart + TxTime + LongestFirstWait
FinalEnd == FirstEnd + TxTime + exchange_response_wait_ms

OnSchedule ==
    /\ stage = "TX_REQUEST" => elapsed <= TryStart
    /\ stage = "WAIT_FIRST_RESPONSE" => elapsed + window <= FirstEnd
    /\ stage = "TX_AUTH_RESPONSE" => elapsed <= FirstEnd
    /\ stage = "WAIT_FINAL_RESPONSE" => elapsed + window <= FinalEnd

Counting == tries <= allowed /\ (stage # "IDLE" => tries >= 1 /\ xid >= 1 /\ outcome = "NONE")

IInv ==
    /\ TypeOK /\ Counting /\ NotYetActed /\ OnSchedule
    /\ AtMostOneExecution /\ FailedMeansNotExecuted /\ ReadsSpendTheirTries /\ BlockingBounded
-----------------------------------------------------------------------------
\* Every stage that can end the exchange ends it within BlockingBound.
LEMMA Times ==
    /\ EXCHANGE_RETRY_COUNT \in Nat /\ exchange_total_budget_ms \in Nat
    /\ exchange_start_response_wait_ms \in Nat /\ exchange_response_wait_ms \in Nat
    /\ TxTimeout \in Nat /\ EXCHANGE_RETRY_DELAY_MS \in Nat /\ TxTime \in Nat /\ Horizon \in Nat
    /\ Exchanges \in Nat /\ MaxAir \in Nat /\ MaxTries \subseteq Nat
    /\ TryStart \in Nat /\ FirstEnd \in Nat /\ FinalEnd \in Nat /\ BlockingBound \in Nat
    /\ EXCHANGE_RETRY_COUNT >= 1 /\ exchange_total_budget_ms >= 1
    /\ exchange_start_response_wait_ms <= LongestFirstWait /\ exchange_response_wait_ms <= LongestFirstWait
    /\ LongestFirstWait \in Nat
    /\ TryStart <= FirstEnd /\ FirstEnd <= FinalEnd
    /\ TryStart + TxTimeout <= BlockingBound
    /\ FirstEnd + TxTimeout <= BlockingBound
    /\ FinalEnd <= BlockingBound /\ BlockingBound < Horizon
  BY ExchangeAssumption
  DEF TryStart, FirstEnd, FinalEnd, BlockingBound, LongestTry, LongestFirstWait, Larger

\* The argument of a caller is clamped.
LEMMA Clamped == ASSUME NEW m \in Nat PROVE tries_allowed(m) \in 1..EXCHANGE_RETRY_COUNT
  BY Times DEF tries_allowed, Larger, Smaller

\* A try that ends either returns or leaves time for another one.
LEMMA TryEndsEffect ==
    ASSUME NEW now \in Nat, now <= BlockingBound, NEW acc \in BOOLEAN, TypeOK, Counting, TryEnds(now, acc)
    PROVE  \/ /\ stage' = "IDLE" /\ tries' = tries /\ elapsed' = now
              /\ tries = allowed \/ now >= exchange_total_budget_ms
              /\ outcome' = IF acc THEN "SUCCESS_UNCONFIRMED" ELSE "FAILED"
           \/ /\ stage' = "TX_REQUEST" /\ tries' = tries + 1 /\ tries < allowed
              /\ now < exchange_total_budget_ms
              /\ elapsed' = now + EXCHANGE_RETRY_DELAY_MS /\ elapsed' <= TryStart
              /\ outcome' = outcome
  <1>1. now \in Int /\ tries \in Int /\ allowed \in Int /\ tries <= allowed
    BY DEF TypeOK, Counting
  <1>2. CASE tries >= allowed \/ now >= exchange_total_budget_ms
    BY <1>1, <1>2 DEF TryEnds, Return
  <1>3. CASE ~(tries >= allowed \/ now >= exchange_total_budget_ms)
    <2>1. now + EXCHANGE_RETRY_DELAY_MS <= TryStart /\ TryStart < Horizon
      BY <1>1, <1>3, Times DEF TryStart
    <2>2. Smaller(now + EXCHANGE_RETRY_DELAY_MS, Horizon) = now + EXCHANGE_RETRY_DELAY_MS
      BY <1>1, <2>1, Times DEF Smaller
    <2>3. QED
      BY <1>1, <1>3, <2>1, <2>2, Times DEF TryEnds
  <1>4. QED
    BY <1>2, <1>3

\* The clock does not reach its cap.
LEMMA SpentExact ==
    ASSUME NEW ms \in Nat, TypeOK, elapsed + ms <= BlockingBound
    PROVE  Spent(ms) = elapsed + ms /\ Spent(ms) \in 0..Horizon
  BY Times DEF Spent, Smaller, TypeOK

\* The request under way is a request, and what the device emits are answers.
LEMMA EmitsAnswers ==
    ASSUME NEW r \in Requests, NEW kinds \in SUBSET {"CHALLENGE", "REPLY"}, TypeOK, Emits(kinds, r)
    PROVE  air' \subseteq Answers
  <1>1. \A k \in kinds : Answer(k, r) \in Answers
    BY DEF Answer, Answers
  <1>2. air' = air \/ \E k \in kinds : air' = air \cup {Answer(k, r)}
    BY DEF Emits
  <1>3. QED
    BY <1>1, <1>2 DEF TypeOK

\* What the device does on hearing a frame keeps its state typed.
LEMMA DeviceTyped ==
    ASSUME IInv, stage # "IDLE", HearsRequest \/ HearsAuth \/ Misses
    PROVE  /\ pending' \in Requests /\ air' \subseteq Answers
           /\ executed' \in Nat
           /\ (HearsRequest \/ Misses) => executed' = executed
           /\ executed' <= executed + 1
  <1>1. This \in Requests
    BY Times DEF This, Requests, IInv, TypeOK, Counting
  <1>2. CASE HearsRequest
    BY <1>1, <1>2, EmitsAnswers DEF HearsRequest, IInv, TypeOK
  <1>3. CASE HearsAuth
    <2>1. TypeOK /\ challenge \in Requests /\ Emits({"REPLY"}, challenge)
      BY <1>3 DEF HearsAuth, IInv, TypeOK
    <2>2. air' \subseteq Answers
      BY <2>1, EmitsAnswers
    <2>3. NoRequest \in Requests
      BY Times DEF NoRequest, Requests
    <2>4. QED
      BY <1>3, <2>1, <2>2, <2>3 DEF HearsAuth, HearsRequest, Misses, device, TypeOK
  <1>4. CASE Misses
    BY <1>4 DEF Misses, device, IInv, TypeOK
  <1>5. QED
    BY <1>2, <1>3, <1>4

\* Nothing IInv speaks of changes but what the device has yet to send.
LEMMA DeviceAlone ==
    ASSUME IInv, DeviceReports \/ AnswerLost
    PROVE  IInv'
  <1>1. air' \subseteq Answers
    <2>1. NoRequest \in Requests
      BY Times DEF NoRequest, Requests
    <2>2. QED
      BY <2>1 DEF DeviceReports, AnswerLost, IInv, TypeOK, Answer, Answers
  <1>2. UNCHANGED <<engine, pending, executed, falseAlarm>>
    BY DEF DeviceReports, AnswerLost
  <1>3. QED
    BY <1>1, <1>2
    DEF IInv, engine, TypeOK, Counting, NotYetActed, Excepted, OnSchedule, AtMostOneExecution,
        FailedMeansNotExecuted, ReadsSpendTheirTries, BlockingBounded

\* A new exchange starts with clean books.
LEMMA BeginStep ==
    ASSUME IInv, NEW c \in {"EXECUTE", "READ"}, NEW m \in MaxTries, Begin(c, m)
    PROVE  IInv'
  <1>1. allowed' \in 1..EXCHANGE_RETRY_COUNT
    BY Clamped, Times DEF Begin
  <1>2. TypeOK'
    <2>1. xid' \in 0..Exchanges /\ tries' \in 0..EXCHANGE_RETRY_COUNT /\ elapsed' \in 0..Horizon /\ executed' \in Nat
      BY Times DEF Begin, IInv, TypeOK
    <2>2. QED
      BY <1>1, <2>1 DEF Begin, IInv, TypeOK
  <1>3. Counting' /\ OnSchedule' /\ BlockingBounded'
    BY <1>1, Times DEF Begin, IInv, TypeOK, Counting, OnSchedule, BlockingBounded
  <1>4. NotYetActed' /\ AtMostOneExecution' /\ FailedMeansNotExecuted' /\ ReadsSpendTheirTries'
    BY DEF Begin, NotYetActed, AtMostOneExecution, FailedMeansNotExecuted, ReadsSpendTheirTries
  <1>5. QED
    BY <1>2, <1>3, <1>4 DEF IInv

\* What a transmission leads to when it works: the window opens on schedule.
LEMMA TransmitStep ==
    ASSUME IInv, TransmitRequest \/ TransmitAuth
    PROVE  IInv'
  <1>1. PICK ms \in 0..TxTime, wait \in Nat :
            \/ TransmitRequest /\ Listen("WAIT_FIRST_RESPONSE", ms, wait) /\ wait <= LongestFirstWait
            \/ TransmitAuth /\ Listen("WAIT_FINAL_RESPONSE", ms, wait) /\ wait = exchange_response_wait_ms
    BY Times DEF TransmitRequest, TransmitAuth, first_waits
  <1>2. /\ stage # "IDLE" /\ (HearsRequest \/ HearsAuth \/ Misses)
        /\ UNCHANGED <<cmd, xid, allowed, challenge, accepted, falseAlarm, tries, outcome>>
        /\ window' = wait /\ elapsed' = Spent(ms)
    BY <1>1 DEF TransmitRequest, TransmitAuth, Listen
  <1>3. elapsed \in Nat /\ ms \in Nat /\ ms <= TxTime
    BY Times DEF IInv, TypeOK
  <1>4. /\ elapsed' = elapsed + ms /\ elapsed' \in 0..Horizon
        /\ \/ TransmitRequest /\ stage' = "WAIT_FIRST_RESPONSE" /\ elapsed' + window' <= FirstEnd
           \/ TransmitAuth /\ stage' = "WAIT_FINAL_RESPONSE" /\ elapsed' + window' <= FinalEnd
    <2>1. CASE TransmitRequest
      <3>1. stage = "TX_REQUEST" /\ elapsed <= TryStart
        BY <2>1 DEF TransmitRequest, IInv, OnSchedule
      <3>2. Listen("WAIT_FIRST_RESPONSE", ms, wait) /\ wait <= LongestFirstWait
        BY <1>1, <3>1 DEF TransmitAuth
      <3>3. elapsed + ms + wait <= FirstEnd
        BY <1>3, <3>1, <3>2, Times DEF FirstEnd
      <3>4. QED
        BY <1>2, <1>3, <2>1, <3>2, <3>3, SpentExact, Times DEF Listen, IInv
    <2>2. CASE TransmitAuth
      <3>1. stage = "TX_AUTH_RESPONSE" /\ elapsed <= FirstEnd
        BY <2>2 DEF TransmitAuth, IInv, OnSchedule
      <3>2. Listen("WAIT_FINAL_RESPONSE", ms, wait) /\ wait = exchange_response_wait_ms
        BY <1>1, <3>1 DEF TransmitRequest
      <3>3. elapsed + ms + wait <= FinalEnd
        BY <1>3, <3>1, <3>2, Times DEF FinalEnd
      <3>4. QED
        BY <1>2, <1>3, <2>2, <3>2, <3>3, SpentExact, Times DEF Listen, IInv
    <2>3. QED
      BY <1>1, <2>1, <2>2
  <1>5. TypeOK'
    BY <1>2, <1>4, DeviceTyped DEF IInv, TypeOK
  <1>6. Counting' /\ OnSchedule'
    BY <1>2, <1>4 DEF IInv, Counting, OnSchedule, TransmitRequest, TransmitAuth
  <1>7. BlockingBounded'
    BY <1>2, <1>4, <1>5, Times DEF BlockingBounded, TypeOK
  <1>8. FailedMeansNotExecuted' /\ ReadsSpendTheirTries'
    BY <1>2 DEF IInv, Counting, FailedMeansNotExecuted, ReadsSpendTheirTries
  <1>9. NotYetActed' /\ AtMostOneExecution'
    <2>1. executed \in Nat /\ executed' \in Nat /\ executed' <= executed + 1
      BY <1>2, DeviceTyped DEF IInv, TypeOK
    <2>2. cmd = "EXECUTE" => executed = 0 \/ Excepted
      BY DEF IInv, NotYetActed, TransmitRequest, TransmitAuth
    <2>3. TransmitRequest => executed' = executed
      BY <1>2, DeviceTyped DEF TransmitRequest
    <2>4. Excepted' = Excepted
      BY <1>2 DEF Excepted
    <2>5. QED
      BY <1>2, <1>4, <2>1, <2>2, <2>3, <2>4 DEF NotYetActed, AtMostOneExecution, Excepted
  <1>10. QED
    BY <1>5, <1>6, <1>7, <1>8, <1>9 DEF IInv

(***************************************************************************)
(* A try may end as long as the device has not acted whenever another try  *)
(* can follow, and has not acted unnoticed when the exchange then fails.   *)
(***************************************************************************)
LEMMA TryEndsStep ==
    ASSUME IInv, stage # "IDLE", NEW now \in Nat, now <= BlockingBound, NEW acc \in BOOLEAN,
           TryEnds(now, acc),
           UNCHANGED <<cmd, xid, allowed, window, challenge>>,
           accepted' \in BOOLEAN, falseAlarm' \in BOOLEAN,
           pending' \in Requests, air' \subseteq Answers, executed' \in Nat,
           cmd = "EXECUTE" => executed' <= 1 \/ Excepted',
           cmd = "EXECUTE" /\ now < exchange_total_budget_ms => executed' = 0 \/ Excepted',
           cmd = "EXECUTE" => executed' = 0 \/ falseAlarm'
    PROVE  IInv'
  <1> DEFINE Returns == /\ stage' = "IDLE" /\ tries' = tries /\ elapsed' = now
                        /\ tries = allowed \/ now >= exchange_total_budget_ms
                        /\ outcome' = IF acc THEN "SUCCESS_UNCONFIRMED" ELSE "FAILED"
             Retries == /\ stage' = "TX_REQUEST" /\ tries' = tries + 1 /\ tries < allowed
                        /\ now < exchange_total_budget_ms
                        /\ elapsed' = now + EXCHANGE_RETRY_DELAY_MS /\ elapsed' <= TryStart
                        /\ outcome' = outcome
  <1>1. Returns \/ Retries
    BY TryEndsEffect DEF IInv
  <1> HIDE DEF Returns, Retries
  <1>2. elapsed' \in 0..Horizon /\ tries' \in 0..EXCHANGE_RETRY_COUNT /\ elapsed' <= BlockingBound /\ tries' <= allowed
    <2>1. CASE Returns
      BY <2>1, Times DEF Returns, IInv, TypeOK, Counting
    <2>2. CASE Retries
      BY <2>2, Times DEF Retries, IInv, TypeOK, Counting
    <2>3. QED
      BY <1>1, <2>1, <2>2
  <1>3. stage' \in {"IDLE", "TX_REQUEST"} /\ outcome' \in {"NONE", "FAILED", "SUCCESS_UNCONFIRMED"}
    BY <1>1 DEF Returns, Retries, IInv, Counting
  <1>4. TypeOK'
    BY <1>2, <1>3 DEF IInv, TypeOK
  <1>5. Counting' /\ OnSchedule' /\ BlockingBounded'
    <2>1. xid >= 1 /\ tries >= 1 /\ tries \in Nat /\ outcome = "NONE"
      BY DEF IInv, Counting, TypeOK
    <2>2. stage' # "IDLE" => tries' >= 1 /\ outcome' = "NONE" /\ elapsed' <= TryStart
      BY <1>1, <2>1 DEF Returns, Retries
    <2>3. QED
      BY <1>2, <1>3, <2>1, <2>2 DEF Counting, OnSchedule, BlockingBounded
  <1>6. NotYetActed' /\ AtMostOneExecution'
    BY <1>1 DEF Returns, Retries, NotYetActed, AtMostOneExecution, Excepted
  <1>7. FailedMeansNotExecuted' /\ ReadsSpendTheirTries'
    <2>1. CASE Returns
      BY <2>1, Times DEF Returns, FailedMeansNotExecuted, ReadsSpendTheirTries, IInv, TypeOK
    <2>2. CASE Retries
      BY <2>2 DEF Retries, FailedMeansNotExecuted, ReadsSpendTheirTries, IInv, Counting
    <2>3. QED
      BY <1>1, <2>1, <2>2
  <1>8. QED
    BY <1>4, <1>5, <1>6, <1>7 DEF IInv

\* A failed transmission: the device acted only if its end went unnoticed.
LEMMA TransmitFailsStep ==
    ASSUME IInv, TransmitRequestFails \/ TransmitAuthFails
    PROVE  IInv'
  <1>1. /\ stage \in {"TX_REQUEST", "TX_AUTH_RESPONSE"}
        /\ UNCHANGED <<cmd, xid, allowed, window, challenge, accepted>>
        /\ \/ TryEnds(elapsed, accepted) /\ Misses /\ UNCHANGED falseAlarm
           \/ TryEnds(Spent(TxTimeout), accepted) /\ (HearsRequest \/ HearsAuth \/ Misses) /\ falseAlarm' = TRUE
    BY DEF TransmitRequestFails, TransmitAuthFails, TransmitFails
  <1>2. elapsed \in Nat /\ elapsed + TxTimeout <= BlockingBound /\ elapsed <= BlockingBound
    BY <1>1, Times DEF IInv, TypeOK, OnSchedule
  <1>3. Spent(TxTimeout) = elapsed + TxTimeout
    BY <1>2, SpentExact, Times DEF IInv
  <1>4. /\ pending' \in Requests /\ air' \subseteq Answers
        /\ executed \in Nat /\ executed' \in Nat /\ executed' <= executed + 1
        /\ Misses => executed' = executed
    BY <1>1, DeviceTyped DEF IInv, TypeOK
  <1>5. accepted \in BOOLEAN /\ accepted' \in BOOLEAN /\ falseAlarm' \in BOOLEAN
    BY <1>1 DEF IInv, TypeOK
  <1>6. cmd = "EXECUTE" => executed = 0 \/ Excepted
    BY <1>1 DEF IInv, NotYetActed
  <1>7. CASE TryEnds(elapsed, accepted) /\ Misses /\ UNCHANGED falseAlarm
    <2>1. executed' = executed /\ Excepted' = Excepted
      BY <1>4, <1>7 DEF Excepted
    <2>2. cmd = "EXECUTE" => executed' = 0 \/ Excepted'
      BY <1>6, <2>1
    <2>3. QED
      BY <1>1, <1>2, <1>4, <1>5, <1>7, <2>2, TryEndsStep DEF Excepted
  <1>8. CASE /\ TryEnds(Spent(TxTimeout), accepted) /\ (HearsRequest \/ HearsAuth \/ Misses)
             /\ falseAlarm' = TRUE
    <2>1. cmd = "EXECUTE" => executed' <= 1 \/ Excepted'
      BY <1>4, <1>6, <1>8 DEF Excepted
    <2>2. elapsed + TxTimeout < exchange_total_budget_ms => Excepted'
      BY <1>2, <1>8, Times DEF Excepted
    <2>3. elapsed + TxTimeout \in Nat
      BY <1>2, Times
    <2>4. QED
      BY <1>1, <1>2, <1>3, <1>4, <1>5, <1>8, <2>1, <2>2, <2>3, TryEndsStep
  <1>9. QED
    BY <1>1, <1>7, <1>8

\* An answer ends the exchange with a reply or asks for authentication.
LEMMA ResponseStep ==
    ASSUME IInv, FirstResponse \/ FinalResponse
    PROVE  IInv'
  <1>1. PICK a \in air : air' = air \ {a}
    BY DEF FirstResponse, FinalResponse
  <1>2. /\ stage \in {"WAIT_FIRST_RESPONSE", "WAIT_FINAL_RESPONSE"}
        /\ window' = 0 /\ tries' = tries
        /\ UNCHANGED <<cmd, xid, allowed, elapsed, accepted, pending, executed, falseAlarm>>
        /\ \/ /\ stage = "WAIT_FIRST_RESPONSE" /\ stage' = "TX_AUTH_RESPONSE" /\ outcome' = outcome
              /\ \E b \in air : challenge' = b.to
           \/ stage' = "IDLE" /\ outcome' = "SUCCESS_WITH_RESPONSE" /\ challenge' = challenge
    BY DEF FirstResponse, FinalResponse, Return
  <1>3. challenge' \in Requests
    BY <1>2 DEF IInv, TypeOK, Answers
  <1>4. elapsed \in Nat /\ window \in Nat /\ elapsed <= BlockingBound
    BY Times DEF IInv, TypeOK, BlockingBounded
  <1>5. TypeOK'
    BY <1>1, <1>2, <1>3 DEF IInv, TypeOK
  <1>6. Counting' /\ OnSchedule' /\ BlockingBounded'
    BY <1>2, <1>4, Times DEF IInv, Counting, OnSchedule, BlockingBounded
  <1>7. NotYetActed' /\ AtMostOneExecution' /\ FailedMeansNotExecuted' /\ ReadsSpendTheirTries'
    BY <1>2 DEF IInv, Counting, NotYetActed, Excepted, AtMostOneExecution, FailedMeansNotExecuted,
                ReadsSpendTheirTries
  <1>8. QED
    BY <1>5, <1>6, <1>7 DEF IInv

\* Listening on moves time from the window to the clock.
LEMMA ListenOnStep ==
    ASSUME IInv, ListenOn
    PROVE  IInv'
  <1>1. /\ stage \in {"WAIT_FIRST_RESPONSE", "WAIT_FINAL_RESPONSE"} /\ window > 0
        /\ window' = window - 1 /\ elapsed' = Spent(1)
        /\ UNCHANGED <<stage, cmd, xid, tries, allowed, challenge, accepted, outcome, pending, air,
                      executed, falseAlarm>>
    BY DEF ListenOn, device
  <1>2. window \in Nat /\ elapsed \in Nat /\ elapsed + window <= BlockingBound
    BY <1>1, Times DEF IInv, TypeOK, OnSchedule
  <1>3. elapsed' = elapsed + 1 /\ elapsed' \in 0..Horizon /\ window' \in Nat
    BY <1>1, <1>2, SpentExact, Times DEF IInv
  <1>4. TypeOK'
    BY <1>1, <1>3 DEF IInv, TypeOK
  <1>5. Counting' /\ OnSchedule' /\ BlockingBounded'
    BY <1>1, <1>2, <1>3, Times DEF IInv, Counting, OnSchedule, BlockingBounded
  <1>6. NotYetActed' /\ AtMostOneExecution' /\ FailedMeansNotExecuted' /\ ReadsSpendTheirTries'
    BY <1>1 DEF IInv, Counting, NotYetActed, Excepted, AtMostOneExecution, FailedMeansNotExecuted,
                ReadsSpendTheirTries
  <1>7. QED
    BY <1>4, <1>5, <1>6 DEF IInv

\* No first response: the device was not answered, so it has not acted.
LEMMA FirstTimeoutStep ==
    ASSUME IInv, FirstTimeout
    PROVE  IInv'
  <1>1. /\ stage = "WAIT_FIRST_RESPONSE" /\ TryEnds(elapsed, accepted)
        /\ UNCHANGED <<cmd, xid, allowed, window, challenge, accepted, pending, air, executed, falseAlarm>>
    BY DEF FirstTimeout, device
  <1>2. elapsed \in Nat /\ elapsed <= BlockingBound
    BY Times DEF IInv, TypeOK, BlockingBounded
  <1>3. /\ accepted \in BOOLEAN /\ accepted' \in BOOLEAN /\ falseAlarm' \in BOOLEAN
        /\ pending' \in Requests /\ air' \subseteq Answers /\ executed' \in Nat
    BY <1>1 DEF IInv, TypeOK
  <1>4. cmd = "EXECUTE" => executed' = 0 \/ Excepted'
    BY <1>1 DEF IInv, NotYetActed, Excepted
  <1>5. QED
    BY <1>1, <1>2, <1>3, <1>4, TryEndsStep DEF Excepted

\* Silence after the authentication: a CMD_EXECUTE is not sent again.
LEMMA FinalTimeoutStep ==
    ASSUME IInv, FinalTimeout
    PROVE  IInv'
  <1>1. /\ stage = "WAIT_FINAL_RESPONSE" /\ accepted' = TRUE
        /\ UNCHANGED <<cmd, xid, allowed, window, challenge, pending, air, executed, falseAlarm>>
    BY DEF FinalTimeout, device
  <1>2. elapsed \in Nat /\ elapsed <= BlockingBound
    BY Times DEF IInv, TypeOK, BlockingBounded
  <1>3. /\ accepted' \in BOOLEAN /\ falseAlarm' \in BOOLEAN
        /\ pending' \in Requests /\ air' \subseteq Answers /\ executed' \in Nat
    BY <1>1 DEF IInv, TypeOK
  <1>4. CASE cmd # "EXECUTE"
    <2>1. TryEnds(elapsed, TRUE)
      BY <1>4 DEF FinalTimeout, retry_after_unconfirmed_accept_is_safe
    <2>2. QED
      BY <1>1, <1>2, <1>3, <1>4, <2>1, TryEndsStep
  <1>5. CASE cmd = "EXECUTE"
    <2>1. stage' = "IDLE" /\ outcome' = "SUCCESS_UNCONFIRMED" /\ UNCHANGED <<tries, elapsed>>
      BY <1>5 DEF FinalTimeout, retry_after_unconfirmed_accept_is_safe, Return
    <2>2. TypeOK'
      BY <1>1, <2>1, <1>3 DEF IInv, TypeOK
    <2>3. QED
      BY <1>1, <1>5, <2>1, <2>2
      DEF IInv, Counting, OnSchedule, BlockingBounded, NotYetActed, Excepted, AtMostOneExecution,
          FailedMeansNotExecuted, ReadsSpendTheirTries
  <1>6. QED
    BY <1>4, <1>5
-----------------------------------------------------------------------------
\* IInv holds at first.
LEMMA InitIInv == Init => IInv
  <1> SUFFICES ASSUME Init PROVE IInv
    OBVIOUS
  <1>1. NoRequest \in Requests
    BY Times DEF NoRequest, Requests
  <1>2. TypeOK
    <2>1. /\ xid \in 0..Exchanges /\ tries \in 0..EXCHANGE_RETRY_COUNT /\ allowed \in 1..EXCHANGE_RETRY_COUNT
          /\ elapsed \in 0..Horizon /\ window \in Nat /\ executed \in Nat
      BY Times DEF Init
    <2>2. QED
      BY <1>1, <2>1 DEF Init, TypeOK
  <1>3. QED
    BY <1>2, Times
    DEF Init, IInv, Counting, OnSchedule, BlockingBounded, NotYetActed, AtMostOneExecution,
        FailedMeansNotExecuted, ReadsSpendTheirTries

\* Every step keeps IInv.
LEMMA NextIInv == IInv /\ [Next]_vars => IInv'
  <1> SUFFICES ASSUME IInv, [Next]_vars PROVE IInv'
    OBVIOUS
  <1>1. CASE \E c \in {"EXECUTE", "READ"}, m \in MaxTries : Begin(c, m)
    BY <1>1, BeginStep
  <1>2. CASE TransmitRequest \/ TransmitAuth
    BY <1>2, TransmitStep
  <1>3. CASE TransmitRequestFails \/ TransmitAuthFails
    BY <1>3, TransmitFailsStep
  <1>4. CASE FirstResponse \/ FinalResponse
    BY <1>4, ResponseStep
  <1>5. CASE ListenOn
    BY <1>5, ListenOnStep
  <1>6. CASE FirstTimeout
    BY <1>6, FirstTimeoutStep
  <1>7. CASE FinalTimeout
    BY <1>7, FinalTimeoutStep
  <1>8. CASE DeviceReports \/ AnswerLost
    BY <1>8, DeviceAlone
  <1>9. CASE UNCHANGED vars
    BY <1>9
    DEF vars, engine, device, IInv, TypeOK, Counting, NotYetActed, Excepted, OnSchedule,
        AtMostOneExecution, FailedMeansNotExecuted, ReadsSpendTheirTries, BlockingBounded
  <1>10. QED
    BY <1>1, <1>2, <1>3, <1>4, <1>5, <1>6, <1>7, <1>8, <1>9 DEF Next, Blocking

\* IInv is an invariant.
THEOREM Invariance == Spec => []IInv
  BY InitIInv, NextIInv, PTL DEF Spec

(***************************************************************************)
(* send_and_receive makes the device act at most once on one CMD_EXECUTE,  *)
(* whatever the number of tries and the losses, unless the budget was      *)
(* tuned above the transmit timeout and a transmission timed out.          *)
(***************************************************************************)
THEOREM ActsOnce == Spec => []AtMostOneExecution
  <1>1. IInv => AtMostOneExecution
    BY DEF IInv
  <1>2. QED
    BY <1>1, Invariance, PTL

(***************************************************************************)
(* A CMD_EXECUTE exchange that returns FAILED did not make the device act, *)
(* unless a transmission timed out.                                        *)
(***************************************************************************)
THEOREM FailureIsHonest == Spec => []FailedMeansNotExecuted
  <1>1. IInv => FailedMeansNotExecuted
    BY DEF IInv
  <1>2. QED
    BY <1>1, Invariance, PTL

(***************************************************************************)
(* send_and_receive never blocks loop() longer than the budget, a retry    *)
(* gap and one try.                                                        *)
(***************************************************************************)
THEOREM BlocksBriefly == Spec => []BlockingBounded
  <1>1. IInv => BlockingBounded
    BY DEF IInv
  <1>2. QED
    BY <1>1, Invariance, PTL

(***************************************************************************)
(* A request without a side effect is reported as accepted but unanswered  *)
(* only after its tries or its budget are used up.                         *)
(***************************************************************************)
THEOREM ReadsPersist == Spec => []ReadsSpendTheirTries
  <1>1. IInv => ReadsSpendTheirTries
    BY DEF IInv
  <1>2. QED
    BY <1>1, Invariance, PTL

-----------------------------------------------------------------------------
(* What Termination rests on: an exchange can only run down.               *)

\* The most steps one try takes, and what is left of the one under way.
TryLength == LongestFirstWait + exchange_response_wait_ms + 4
StageLeft ==
    CASE stage = "TX_REQUEST" -> TryLength
      [] stage = "WAIT_FIRST_RESPONSE" -> window + exchange_response_wait_ms + 3
      [] stage = "TX_AUTH_RESPONSE" -> exchange_response_wait_ms + 2
      [] OTHER -> window + 1

\* The most steps until loop() gets control back.
StepsLeft == IF stage = "IDLE" THEN 0 ELSE (allowed - tries) * TryLength + StageLeft

\* Every step of the engine brings the end nearer, and nothing the device does puts it off.
RunsDown ==
    [][/\ Blocking => StepsLeft' < StepsLeft
       /\ stage # "IDLE" => StepsLeft' <= StepsLeft]_vars

\* The number of steps is a number, and none only between two exchanges.
LEMMA StepsAreCounted ==
    ASSUME IInv
    PROVE  /\ allowed - tries \in Nat /\ TryLength \in Nat /\ (allowed - tries) * TryLength \in Nat
           /\ StageLeft \in Nat \ {0} /\ StepsLeft \in Nat
           /\ stage # "IDLE" => StepsLeft > 0
  <1>1. /\ tries \in Nat /\ allowed \in Nat /\ tries <= allowed /\ window \in Nat
        /\ exchange_response_wait_ms \in Nat /\ LongestFirstWait \in Nat
    BY Times DEF IInv, TypeOK, Counting
  <1>2. allowed - tries \in Nat /\ TryLength \in Nat \ {0}
    BY <1>1 DEF TryLength
  <1>3. \A k, t \in Nat : k * t \in Nat
    OBVIOUS
  <1>4. (allowed - tries) * TryLength \in Nat
    BY <1>2, <1>3
  <1>5. StageLeft \in Nat \ {0}
    BY <1>1, <1>2 DEF StageLeft
  <1>6. QED
    BY <1>2, <1>4, <1>5 DEF StepsLeft

\* So it is after a step.
LEMMA StepsStayCounted == IInv' => StepsLeft' \in Nat /\ StageLeft' \in Nat
  <1>1. IInv => StepsLeft \in Nat /\ StageLeft \in Nat
    BY StepsAreCounted
  <1>2. IInv' => (StepsLeft \in Nat /\ StageLeft \in Nat)'
    BY <1>1, PTL
  <1>3. QED
    BY <1>2

\* Another try is one try less to go.
LEMMA TryRunsDown ==
    ASSUME IInv, stage # "IDLE", NEW now \in Nat, now <= BlockingBound, NEW acc \in BOOLEAN,
           TryEnds(now, acc), allowed' = allowed
    PROVE  StepsLeft' < StepsLeft
  <1>1. \/ stage' = "IDLE"
        \/ stage' = "TX_REQUEST" /\ tries' = tries + 1 /\ tries < allowed
    BY TryEndsEffect DEF IInv
  <1>2. /\ allowed - tries \in Nat /\ TryLength \in Nat /\ StageLeft \in Nat \ {0}
        /\ StepsLeft \in Nat /\ StepsLeft > 0 /\ (allowed - tries) * TryLength \in Nat
    BY StepsAreCounted
  <1>3. CASE stage' = "IDLE"
    BY <1>2, <1>3 DEF StepsLeft
  <1>4. CASE stage' = "TX_REQUEST" /\ tries' = tries + 1 /\ tries < allowed
    <2>1. StepsLeft' = (allowed - (tries + 1)) * TryLength + TryLength
      BY <1>4 DEF StepsLeft, StageLeft, TryLength
    <2>2. tries \in Int /\ allowed \in Int
      BY DEF IInv, TypeOK
    <2>3. \A a, b, t \in Int : (a - (b + 1)) * t + t = (a - b) * t
      OBVIOUS
    <2>4. StepsLeft' = (allowed - tries) * TryLength
      BY <1>2, <2>1, <2>2, <2>3
    <2>5. StepsLeft = (allowed - tries) * TryLength + StageLeft
      BY DEF StepsLeft
    <2>6. QED
      BY <1>2, <2>4, <2>5
  <1>5. QED
    BY <1>1, <1>3, <1>4

\* Within a try what is left of it decides.
LEMMA StageRunsDown ==
    ASSUME IInv, IInv', stage # "IDLE", tries' = tries, allowed' = allowed, stage' = "IDLE" \/ StageLeft' < StageLeft
    PROVE  StepsLeft' < StepsLeft
  <1>1. /\ StageLeft \in Nat /\ (allowed - tries) * TryLength \in Nat /\ StepsLeft > 0
        /\ StepsLeft = (allowed - tries) * TryLength + StageLeft
    BY StepsAreCounted DEF StepsLeft
  <1>2. CASE stage' = "IDLE"
    BY <1>1, <1>2 DEF StepsLeft
  <1>3. CASE stage' # "IDLE"
    <2>1. StepsLeft' = (allowed - tries) * TryLength + StageLeft'
      BY <1>3 DEF StepsLeft, TryLength
    <2>2. StageLeft' \in Nat
      BY StepsStayCounted
    <2>3. QED
      BY <1>1, <1>3, <2>1, <2>2
  <1>4. QED
    BY <1>2, <1>3

\* Each step of the engine.
LEMMA EngineRunsDown == ASSUME IInv, IInv', Blocking PROVE StepsLeft' < StepsLeft
  <1>1. /\ stage # "IDLE" /\ allowed' = allowed /\ window \in Nat /\ elapsed \in Nat /\ elapsed <= BlockingBound
        /\ exchange_response_wait_ms \in Nat /\ LongestFirstWait \in Nat
    <2>1. stage # "IDLE" /\ allowed' = allowed
      BY DEF Blocking, TransmitRequest, TransmitRequestFails, FirstResponse, FirstTimeout, ListenOn, TransmitAuth,
             TransmitAuthFails, FinalResponse, FinalTimeout
    <2>2. QED
      BY <2>1, Times DEF IInv, TypeOK, BlockingBounded
  <1>2. CASE TransmitRequest
    <2>1. PICK wait \in Nat : window' = wait /\ wait <= LongestFirstWait
      BY <1>2, Times DEF TransmitRequest, Listen, first_waits
    <2>2. stage = "TX_REQUEST" /\ stage' = "WAIT_FIRST_RESPONSE" /\ tries' = tries
      BY <1>2 DEF TransmitRequest, Listen
    <2>3. StageLeft' < StageLeft
      BY <1>1, <2>1, <2>2 DEF StageLeft, TryLength
    <2>4. QED
      BY <1>1, <2>2, <2>3, StageRunsDown
  <1>3. CASE TransmitAuth
    <2>1. stage = "TX_AUTH_RESPONSE" /\ stage' = "WAIT_FINAL_RESPONSE" /\ tries' = tries /\ window' = exchange_response_wait_ms
      BY <1>3 DEF TransmitAuth, Listen
    <2>2. StageLeft' < StageLeft
      BY <1>1, <2>1 DEF StageLeft
    <2>3. QED
      BY <1>1, <2>1, <2>2, StageRunsDown
  <1>4. CASE FirstResponse
    <2>1. /\ stage = "WAIT_FIRST_RESPONSE" /\ window > 0 /\ tries' = tries
          /\ stage' = "IDLE" \/ stage' = "TX_AUTH_RESPONSE"
      BY <1>4 DEF FirstResponse, Return
    <2>2. stage' = "TX_AUTH_RESPONSE" => StageLeft' < StageLeft
      BY <1>1, <2>1 DEF StageLeft
    <2>3. QED
      BY <1>1, <2>1, <2>2, StageRunsDown
  <1>5. CASE FinalResponse
    <2>1. stage' = "IDLE" /\ tries' = tries
      BY <1>5 DEF FinalResponse, Return
    <2>2. QED
      BY <1>1, <2>1, StageRunsDown
  <1>6. CASE ListenOn
    <2>1. /\ stage \in {"WAIT_FIRST_RESPONSE", "WAIT_FINAL_RESPONSE"} /\ stage' = stage /\ tries' = tries
          /\ window > 0 /\ window' = window - 1
      BY <1>6 DEF ListenOn
    <2>2. StageLeft' < StageLeft
      BY <1>1, <2>1 DEF StageLeft
    <2>3. QED
      BY <1>1, <2>1, <2>2, StageRunsDown
  <1>7. CASE TransmitRequestFails \/ TransmitAuthFails
    <2>1. accepted \in BOOLEAN /\ (TryEnds(elapsed, accepted) \/ TryEnds(Spent(TxTimeout), accepted))
      BY <1>7 DEF TransmitRequestFails, TransmitAuthFails, TransmitFails, IInv, TypeOK
    <2>2. stage \in {"TX_REQUEST", "TX_AUTH_RESPONSE"}
      BY <1>7 DEF TransmitRequestFails, TransmitAuthFails
    <2>3. elapsed + TxTimeout <= BlockingBound /\ TxTimeout \in Nat
      BY <1>1, <2>2, Times DEF IInv, OnSchedule
    <2>4. Spent(TxTimeout) \in Nat /\ Spent(TxTimeout) <= BlockingBound
      BY <1>1, <2>3, SpentExact DEF IInv
    <2>5. QED
      BY <1>1, <2>1, <2>4, TryRunsDown
  <1>8. CASE FirstTimeout
    <2>1. accepted \in BOOLEAN /\ TryEnds(elapsed, accepted)
      BY <1>8 DEF FirstTimeout, IInv, TypeOK
    <2>2. QED
      BY <1>1, <2>1, TryRunsDown
  <1>9. CASE FinalTimeout
    <2>1. TryEnds(elapsed, TRUE) \/ (stage' = "IDLE" /\ tries' = tries)
      BY <1>9 DEF FinalTimeout, Return
    <2>2. QED
      BY <1>1, <2>1, TryRunsDown, StageRunsDown
  <1>10. QED
    BY <1>2, <1>3, <1>4, <1>5, <1>6, <1>7, <1>8, <1>9 DEF Blocking

(***************************************************************************)
(* send_and_receive comes to its end: each of its steps leaves fewer to go *)
(* than before, and no frame of the device, heard, ignored or lost, adds   *)
(* any.  With Termination's fairness, that blocking calls return, this is  *)
(* why an exchange ends, for any number of tries and lengths of windows.   *)
(***************************************************************************)
THEOREM ExchangesRunDown == Spec => [](StepsLeft \in Nat) /\ RunsDown
  <1>1. IInv => StepsLeft \in Nat
    BY StepsAreCounted
  <1>2. ASSUME IInv, IInv', [Next]_vars
        PROVE  [/\ Blocking => StepsLeft' < StepsLeft
                /\ stage # "IDLE" => StepsLeft' <= StepsLeft]_vars
    <2>1. Blocking => StepsLeft' < StepsLeft
      BY <1>2, EngineRunsDown
    <2>2. StepsLeft \in Nat /\ StepsLeft' \in Nat
      BY <1>1, <1>2, StepsStayCounted
    <2>3. ASSUME stage # "IDLE", ~Blocking, ~UNCHANGED vars PROVE StepsLeft' = StepsLeft
      <3>1. DeviceReports \/ AnswerLost
        BY <1>2, <2>3 DEF Next, Begin
      <3>2. UNCHANGED engine
        BY <3>1 DEF DeviceReports, AnswerLost
      <3>3. QED
        BY <3>2 DEF engine, StepsLeft, StageLeft, TryLength
    <2>4. QED
      BY <2>1, <2>2, <2>3
  <1>3. QED
    BY <1>1, <1>2, Invariance, PTL DEF Spec, RunsDown

-----------------------------------------------------------------------------
(* The Home Assistant actions.                                             *)

Known == Names \cup {""}
Responders == Devices \cup Strangers

\* The jobs an action may have under way.
Jobs ==
    {Idle}
    \cup [action : {"rename"}, d : Devices, name : Names, step : {"request", "readback"}]
    \cup [action : {"scan"}, attempt : Nat, responders : SUBSET Responders, truncated : BOOLEAN]
    \cup [action : {"sweep"}, d : Devices, first : Nat, last : Nat, idx : Nat]

\* The types of the variables.
ActionsTypeInv ==
    /\ registry \in [Devices -> [name : Known, moving : BOOLEAN]]
    /\ actual \in [Devices -> [name : Names, moving : BOOLEAN]]
    /\ job \in Jobs
    /\ hist \in [cached : Known, had : Known, probed : SUBSET Int, answered : SUBSET Responders]

\* The hub learns no name while a rename is under way.
Renaming == job.action = "rename" => hist.cached = registry[job.d].name

\* The list holds whoever answered, until it is full and says so.
Listing ==
    job.action = "scan" =>
        /\ IsFiniteSet(job.responders) /\ Cardinality(job.responders) <= SCAN_MAX_REPLIES
        /\ job.responders \subseteq hist.answered
        /\ IF job.truncated
           THEN Cardinality(job.responders) = SCAN_MAX_REPLIES /\ job.responders # hist.answered
           ELSE job.responders = hist.answered

\* The indices asked are those from the first up to the next one.
Sweeping ==
    job.action = "sweep" => hist.probed = job.first .. (job.idx - 1) /\ job.first <= job.idx /\ job.idx - 1 <= job.last

ActionsInv == ActionsTypeInv /\ Renaming /\ Listing /\ Sweeping /\ RenameHonest /\ ReportsTrue

LEMMA Limits == /\ SCAN_MAX_REPLIES \in Nat /\ SCAN_MAX_REPLIES # 0
                /\ MaxByte \in Nat /\ Channels \in Nat /\ Devices \cap Strangers = {}
  BY ManagementAssumption

\* A result that claims nothing about names, answers or indices is true.
LEMMA ModestResult ==
    ASSUME NEW res, publish_result(res), res.action = "rename" => ~res.verified,
           res.action \in {"scan", "sweep"} => ~res.success
    PROVE  Renaming' /\ Listing' /\ Sweeping' /\ RenameHonest' /\ ReportsTrue'
  BY DEF publish_result, Renaming, Listing, Sweeping, RenameHonest, ReportsTrue, Idle

\* The results that say no more than whether it worked, and with which error.
ActionNames == {"none", "rename", "identify", "force_open", "oneway_set_position", "oneway_remove_controller",
                "scan", "probe", "sweep"}
PlainResults == [action : ActionNames, success : BOOLEAN, verified : BOOLEAN, code : BOOLEAN]

\* What Result makes is a plain result that verifies nothing, with or without an error code.
LEMMA Results ==
    ASSUME NEW a \in ActionNames, NEW s \in BOOLEAN
    PROVE  /\ Result(a, s) \in PlainResults
           /\ Result(a, s).action = a /\ Result(a, s).success = s /\ Result(a, s).verified = FALSE
  <1>0. NoResult \in PlainResults /\ NoResult.verified = FALSE
    BY DEF NoResult, PlainResults, ActionNames
  <1>1. PICK r \in PlainResults : r = NoResult /\ r.verified = FALSE
    BY <1>0
  <1> DEFINE t == [r EXCEPT !.action = a, !.success = s]
  <1>2. t \in PlainResults /\ t.action = a /\ t.success = s /\ t.verified = FALSE
    BY <1>1 DEF PlainResults
  <1>3. Result(a, s) = t
    BY <1>1, Zenon DEF Result
  <1> HIDE DEF t
  <1>4. QED
    BY <1>2, <1>3

\* The error code of an answer changes nothing else of a plain result.
LEMMA ErrorCode ==
    ASSUME NEW o, NEW r \in PlainResults
    PROVE  /\ apply_error_response(o, r).action = r.action /\ apply_error_response(o, r).success = r.success
           /\ apply_error_response(o, r).verified = r.verified
  <1> DEFINE c == o = "ERROR_RESP"
  <1>1. apply_error_response(o, r) = [r EXCEPT !.code = c]
    BY Zenon DEF apply_error_response
  <1> HIDE DEF c
  <1>2. QED
    BY <1>1 DEF PlainResults

\* An action that publishes its result at once.
LEMMA AtOnce ==
    ASSUME ActionsInv, NEW res, publish_result(res), hist' \in {hist, FreshHistory}, UNCHANGED <<registry, actual>>,
           res.action = "rename" => ~res.verified, res.action \in {"scan", "sweep"} => ~res.success
    PROVE  ActionsInv'
  <1>1. FreshHistory \in [cached : Known, had : Known, probed : SUBSET Int, answered : SUBSET Responders]
    BY DEF FreshHistory, Known
  <1>2. hist' \in [cached : Known, had : Known, probed : SUBSET Int, answered : SUBSET Responders]
    BY <1>1 DEF ActionsInv, ActionsTypeInv
  <1>3. job' \in Jobs
    BY DEF publish_result, Jobs
  <1>4. ActionsTypeInv'
    BY <1>2, <1>3 DEF ActionsInv, ActionsTypeInv
  <1>5. QED
    BY <1>4, ModestResult DEF ActionsInv

LEMMA Refused ==
    ASSUME ActionsInv, NEW a \in ActionNames, Refuse(a)
    PROVE  ActionsInv'
  <1>1. publish_result(Result(a, FALSE)) /\ hist' = FreshHistory /\ UNCHANGED <<registry, actual>>
    BY DEF Refuse, Unsent
  <1>2. ~Result(a, FALSE).verified /\ ~Result(a, FALSE).success
    BY Results
  <1>3. QED
    BY <1>1, <1>2, AtOnce

\* While nothing has been published, nothing is claimed.
LEMMA NothingClaimed ==
    ASSUME job' # Idle, job'.action # "sweep"
    PROVE  RenameHonest' /\ ReportsTrue'
  BY DEF RenameHonest, ReportsTrue

LEMMA ApiRenameKeeps ==
    ASSUME ActionsInv, NEW id, NEW name, ApiRename(id, name)
    PROVE  ActionsInv'
  <1>1. CASE resolve_device(id) /\ name \in Names
    <2> DEFINE j == [action |-> "rename", d |-> id, name |-> name, step |-> "request"]
    <2>1. StartJob(j) /\ hist' = [FreshHistory EXCEPT !.cached = registry[id].name]
      BY <1>1 DEF ApiRename
    <2>2. id \in Devices
      BY <1>1 DEF resolve_device
    <2>3. job' = j /\ j \in Jobs /\ j.action = "rename" /\ j # Idle /\ UNCHANGED <<registry, actual>>
      BY <1>1, <2>1, <2>2 DEF StartJob, Jobs, Idle
    <2>4. hist' = [cached |-> registry[id].name, had |-> "", probed |-> {}, answered |-> {}]
      BY <2>1 DEF FreshHistory
    <2>5. registry[id].name \in Known
      BY <2>2 DEF ActionsInv, ActionsTypeInv
    <2>6. ActionsTypeInv'
      BY <2>3, <2>4, <2>5 DEF ActionsInv, ActionsTypeInv, Known
    <2>7. Renaming' /\ Listing' /\ Sweeping'
      BY <2>3, <2>4 DEF Renaming, Listing, Sweeping
    <2> HIDE DEF j
    <2>8. QED
      BY <2>3, <2>6, <2>7, NothingClaimed DEF ActionsInv
  <1>2. CASE ~(resolve_device(id) /\ name \in Names)
    <2>1. Refuse("rename")
      BY <1>2 DEF ApiRename
    <2>2. QED
      BY <2>1, Refused DEF ActionNames
  <1>3. QED
    BY <1>1, <1>2

LEMMA RenameRequestKeeps ==
    ASSUME ActionsInv, RenameRequest
    PROVE  ActionsInv'
  <1> DEFINE Acknowledged == job' = [job EXCEPT !.step = "readback"] /\ UNCHANGED result
             Failed(o) == publish_result(apply_error_response(o, Result("rename", FALSE)))
             Unanswered == publish_result(Result("rename", FALSE))
  <1>1. PICK o \in Outcomes("SET_NAME_RESP"), done \in BOOLEAN :
          /\ actual' = IF done THEN [actual EXCEPT ![job.d].name = job.name] ELSE actual
          /\ CASE o = "SET_NAME_RESP" -> Acknowledged
               [] IsError(o) -> Failed(o)
               [] OTHER -> Unanswered
    BY DEF RenameRequest
  <1> HIDE DEF Acknowledged, Failed, Unanswered
  <1>0. (o = "SET_NAME_RESP" /\ Acknowledged) \/ (o # "SET_NAME_RESP" /\ (Failed(o) \/ Unanswered))
    <2>1. CASE o = "SET_NAME_RESP"
      <3>1. ~IsError(o)
        BY <2>1 DEF IsError
      <3>2. QED
        BY <1>1, <2>1, <3>1
    <2>2. CASE o # "SET_NAME_RESP"
      BY <1>1, <2>2
    <2>3. QED
      BY <2>1, <2>2
  <1>2. job.action = "rename" /\ job.step = "request" /\ UNCHANGED <<registry, queued, hist>>
    BY DEF RenameRequest
  <1>3. job \in [action : {"rename"}, d : Devices, name : Names, step : {"request", "readback"}]
    BY <1>2 DEF ActionsInv, ActionsTypeInv, Jobs, Idle
  <1>4. actual' \in [Devices -> [name : Names, moving : BOOLEAN]]
    <2>1. actual \in [Devices -> [name : Names, moving : BOOLEAN]] /\ job.d \in Devices /\ job.name \in Names
      BY <1>3 DEF ActionsInv, ActionsTypeInv
    <2>2. PICK r \in [name : Names, moving : BOOLEAN] : r = actual[job.d]
      BY <2>1
    <2>3. [r EXCEPT !.name = job.name] \in [name : Names, moving : BOOLEAN]
      BY <2>1
    <2>4. [actual EXCEPT ![job.d].name = job.name] = [actual EXCEPT ![job.d] = [r EXCEPT !.name = job.name]]
      BY <2>2
    <2>5. QED
      BY <1>1, <2>1, <2>3, <2>4
  <1>5. CASE o = "SET_NAME_RESP"
    <2>1. job' = [job EXCEPT !.step = "readback"]
      BY <1>0, <1>5 DEF Acknowledged
    <2>2. /\ job' \in [action : {"rename"}, d : Devices, name : Names, step : {"request", "readback"}]
          /\ job'.d = job.d /\ job'.action = "rename"
      BY <1>3, <2>1
    <2>3. job' \in Jobs /\ job' # Idle
      BY <2>2 DEF Jobs, Idle
    <2>4. ActionsTypeInv'
      BY <1>2, <1>4, <2>3 DEF ActionsInv, ActionsTypeInv
    <2>5. Renaming' /\ Listing' /\ Sweeping'
      BY <1>2, <2>2 DEF ActionsInv, Renaming, Listing, Sweeping
    <2>6. QED
      BY <2>2, <2>3, <2>4, <2>5, NothingClaimed DEF ActionsInv
  <1>6. CASE o # "SET_NAME_RESP"
    <2>1. PICK res : publish_result(res) /\ res.verified = FALSE /\ res.action = "rename"
      <3> DEFINE res == Result("rename", FALSE)
      <3>1. res \in PlainResults /\ res.action = "rename" /\ res.verified = FALSE
        BY Results, FALSE \in BOOLEAN, Zenon DEF ActionNames
      <3>2. CASE Failed(o)
        <4>1. publish_result(apply_error_response(o, res))
          BY <3>2 DEF Failed
        <4> HIDE DEF res
        <4>2. QED
          BY <3>1, <4>1, ErrorCode
      <3>3. CASE Unanswered
        BY <3>1, <3>3 DEF Unanswered
      <3>4. QED
        BY <1>0, <1>6, <3>2, <3>3
    <2>2. ActionsTypeInv'
      BY <1>2, <1>4, <2>1 DEF ActionsInv, ActionsTypeInv, publish_result, Jobs
    <2>3. QED
      BY <2>1, <2>2, ModestResult DEF ActionsInv
  <1>7. QED
    BY <1>5, <1>6

LEMMA RenameReadbackKeeps ==
    ASSUME ActionsInv, RenameReadback
    PROVE  ActionsInv'
  <1>1. PICK o \in Outcomes("GET_NAME_RESP") :
          /\ ReadBack(job.d, o)
          /\ publish_result([action |-> "rename", success |-> TRUE, code |-> FALSE, name |-> job.name,
                             verified |-> Verified(o, registry'[job.d].name, job.name)])
          /\ hist' = [hist EXCEPT !.had = actual[job.d].name]
    BY DEF RenameReadback
  <1>2. job.action = "rename" /\ UNCHANGED <<actual, queued>>
    BY DEF RenameReadback
  <1>3. job.d \in Devices /\ job.name \in Names
    BY <1>2 DEF ActionsInv, ActionsTypeInv, Jobs, Idle
  <1>4. PICK n \in Names : n = actual[job.d].name
    BY <1>3 DEF ActionsInv, ActionsTypeInv
  <1>5. /\ registry' \in [Devices -> [name : Known, moving : BOOLEAN]]
        /\ registry'[job.d].name = IF o = "GET_NAME_RESP" THEN n ELSE registry[job.d].name
    <2>1. registry \in [Devices -> [name : Known, moving : BOOLEAN]] /\ n \in Known
      BY DEF ActionsInv, ActionsTypeInv, Known
    <2>2. PICK r \in [name : Known, moving : BOOLEAN] : r = registry[job.d]
      BY <1>3, <2>1
    <2>0. [r EXCEPT !.name = n] \in [name : Known, moving : BOOLEAN] /\ [r EXCEPT !.name = n].name = n
      BY <2>1
    <2>3. PICK s \in [name : Known, moving : BOOLEAN] : s = [r EXCEPT !.name = n] /\ s.name = n
      BY <2>0
    <2>4. registry' = IF o = "GET_NAME_RESP" THEN [registry EXCEPT ![job.d] = s] ELSE registry
      BY <1>1, <1>4, <2>2, <2>3 DEF ReadBack
    <2>5. QED
      BY <1>3, <2>1, <2>3, <2>4
  <1>6. /\ hist' \in [cached : Known, had : Known, probed : SUBSET Int, answered : SUBSET Responders]
        /\ hist'.cached = hist.cached /\ hist'.had = n
    BY <1>1, <1>4 DEF ActionsInv, ActionsTypeInv, Known
  <1>7. /\ job' = Idle /\ result'.action = "rename" /\ result'.name = job.name
        /\ result'.verified => registry'[job.d].name = job.name
    BY <1>1 DEF publish_result, Verified
  <1>8. ActionsTypeInv'
    BY <1>2, <1>5, <1>6, <1>7 DEF ActionsInv, ActionsTypeInv, Jobs
  <1>9. Renaming' /\ Listing' /\ Sweeping'
    BY <1>7 DEF Renaming, Listing, Sweeping, Idle
  <1>10. RenameHonest'
    <2>1. hist.cached = registry[job.d].name
      BY <1>2 DEF ActionsInv, Renaming
    <2>2. result'.verified /\ hist'.cached # result'.name => hist'.had = result'.name
      BY <1>5, <1>6, <1>7, <2>1
    <2>3. QED
      BY <2>2 DEF RenameHonest
  <1>11. ReportsTrue'
    BY <1>7 DEF ReportsTrue, Idle
  <1>12. QED
    BY <1>8, <1>9, <1>10, <1>11 DEF ActionsInv

LEMMA QueueKeeps ==
    ASSUME ActionsInv, NEW a \in ActionNames, NEW op, Queue(a, op), a \notin {"scan", "sweep"}
    PROVE  ActionsInv'
  <1>1. publish_result(Result(a, TRUE)) /\ hist' = FreshHistory /\ UNCHANGED <<registry, actual>>
    BY DEF Queue
  <1>2. ~Result(a, TRUE).verified /\ Result(a, TRUE).action = a
    BY Results
  <1>3. QED
    BY <1>1, <1>2, AtOnce

LEMMA QueuedActionsKeep ==
    ASSUME ActionsInv
    PROVE  /\ \A id : ApiForceOpen(id) => ActionsInv'
           /\ \A c : ApiOnewayRemove(c) => ActionsInv'
           /\ \A c, p : ApiOnewayPosition(c, p) => ActionsInv'
  <1>1. ASSUME NEW id, ApiForceOpen(id)
        PROVE  ActionsInv'
    <2>1. Queue("force_open", "FORCE_OPEN") \/ Refuse("force_open")
      BY <1>1 DEF ApiForceOpen
    <2>2. QED
      BY <2>1, QueueKeeps, Refused DEF ActionNames
  <1>2. ASSUME NEW c, ApiOnewayRemove(c)
        PROVE  ActionsInv'
    <2>1. Queue("oneway_remove_controller", "unenroll") \/ Refuse("oneway_remove_controller")
      BY <1>2 DEF ApiOnewayRemove
    <2>2. QED
      BY <2>1, QueueKeeps, Refused DEF ActionNames
  <1>3. ASSUME NEW c, NEW p, ApiOnewayPosition(c, p)
        PROVE  ActionsInv'
    <2>1. Queue("oneway_set_position", p) \/ Refuse("oneway_set_position")
      BY <1>3 DEF ApiOnewayPosition
    <2>2. QED
      BY <2>1, QueueKeeps, Refused DEF ActionNames
  <1>4. QED
    BY <1>1, <1>2, <1>3

\* An action that ends in a plain result of its own name, whatever the answer was.
LEMMA PlainlyAnswered ==
    ASSUME ActionsInv, NEW a \in {"identify", "probe"}, NEW o, Unsent,
           publish_result(IF IsError(o) THEN apply_error_response(o, Result(a, TRUE)) ELSE Result(a, Answered(o)))
    PROVE  ActionsInv'
  <1>0. a \in ActionNames /\ a \notin {"rename", "scan", "sweep"}
    BY DEF ActionNames
  <1>1. Answered(o) \in BOOLEAN
    BY DEF Answered
  <1>2. Result(a, TRUE) \in PlainResults /\ Result(a, TRUE).action = a /\ Result(a, TRUE).verified = FALSE
    BY Results, <1>0, TRUE \in BOOLEAN, Zenon
  <1>3. Result(a, Answered(o)).action = a /\ Result(a, Answered(o)).verified = FALSE
    BY <1>1, Results, <1>0, Zenon
  <1>4. apply_error_response(o, Result(a, TRUE)).action = a /\ apply_error_response(o, Result(a, TRUE)).verified = FALSE
    BY <1>2, ErrorCode, Zenon
  <1>5. PICK res : publish_result(res) /\ res.action = a /\ res.verified = FALSE
    <2>1. CASE IsError(o)
      BY <1>4, <2>1
    <2>2. CASE ~IsError(o)
      BY <1>3, <2>2
    <2>3. QED
      BY <2>1, <2>2
  <1>6. hist' = FreshHistory /\ UNCHANGED <<registry, actual>>
    BY DEF Unsent
  <1>7. QED
    BY <1>0, <1>5, <1>6, AtOnce

LEMMA ApiIdentifyKeeps ==
    ASSUME ActionsInv, NEW id, ApiIdentify(id)
    PROVE  ActionsInv'
  <1>1. CASE resolve_device(id)
    <2>1. PICK o \in Outcomes("other frame") :
            /\ publish_result(IF IsError(o) THEN apply_error_response(o, Result("identify", TRUE))
                              ELSE Result("identify", Answered(o)))
            /\ Unsent
      BY <1>1 DEF ApiIdentify
    <2>2. QED
      BY <2>1, PlainlyAnswered
  <1>2. CASE ~resolve_device(id)
    <2>1. Refuse("identify")
      BY <1>2 DEF ApiIdentify
    <2>2. QED
      BY <2>1, Refused DEF ActionNames
  <1>3. QED
    BY <1>1, <1>2

LEMMA ApiProbeKeeps ==
    ASSUME ActionsInv, NEW id, NEW probe, NEW text, ApiProbe(id, probe, text)
    PROVE  ActionsInv'
  <1>1. ASSUME NEW o \in Outcomes("other frame"), publish_result(ProbeAnswered(o)), Unsent
        PROVE  ActionsInv'
    <2>1. publish_result(IF IsError(o) THEN apply_error_response(o, Result("probe", TRUE))
                         ELSE Result("probe", Answered(o)))
      BY <1>1, Zenon DEF ProbeAnswered
    <2>2. QED
      BY <1>1, <2>1, PlainlyAnswered
  <1>2. Refuse("probe") \/ \E o \in Outcomes("other frame") : publish_result(ProbeAnswered(o)) /\ Unsent
    BY DEF ApiProbe
  <1>3. QED
    BY <1>1, <1>2, Refused DEF ActionNames

ScanJobs == [action : {"scan"}, attempt : Nat, responders : SUBSET Responders, truncated : BOOLEAN]
SweepJobs == [action : {"sweep"}, d : Devices, first : Nat, last : Nat, idx : Nat]
Histories == [cached : Known, had : Known, probed : SUBSET Int, answered : SUBSET Responders]

LEMMA JobOfAction ==
    ASSUME ActionsInv
    PROVE  (job.action = "scan" => job \in ScanJobs) /\ (job.action = "sweep" => job \in SweepJobs)
  BY DEF ActionsInv, ActionsTypeInv, Jobs, Idle, ScanJobs, SweepJobs

\* A roll-call that goes on keeps the invariant if its list is right.
LEMMA ScanGoesOn ==
    ASSUME ActionsInv, job' \in ScanJobs, hist' \in Histories, UNCHANGED <<registry, actual>>, Listing'
    PROVE  ActionsInv'
  <1>1. job' # Idle /\ job'.action = "scan"
    BY DEF ScanJobs, Idle
  <1>2. ActionsTypeInv'
    BY DEF ActionsInv, ActionsTypeInv, Jobs, ScanJobs, Histories
  <1>3. Renaming' /\ Sweeping'
    BY <1>1 DEF Renaming, Sweeping
  <1>4. QED
    BY <1>1, <1>2, <1>3, NothingClaimed DEF ActionsInv

LEMMA ApiScanKeeps ==
    ASSUME ActionsInv, ApiScan
    PROVE  ActionsInv'
  <1>1. CASE initialized
    <2> DEFINE j == [action |-> "scan", attempt |-> 1, responders |-> {}, truncated |-> FALSE]
    <2>1. StartJob(j) /\ hist' = FreshHistory
      BY <1>1 DEF ApiScan
    <2>2. j \in ScanJobs /\ j.responders = {} /\ ~j.truncated
      BY DEF ScanJobs
    <2> HIDE DEF j
    <2>3. FreshHistory \in Histories /\ FreshHistory.answered = {}
      BY DEF FreshHistory, Histories, Known
    <2>4. IsFiniteSet({}) /\ Cardinality({}) = 0
      BY FS_EmptySet
    <2>5. job' = j /\ UNCHANGED <<registry, actual>>
      BY <2>1 DEF StartJob
    <2>6. Listing'
      BY <2>1, <2>2, <2>3, <2>4, <2>5, Limits DEF Listing
    <2>7. QED
      BY <2>1, <2>2, <2>3, <2>5, <2>6, ScanGoesOn
  <1>2. CASE ~initialized
    <2>1. Refuse("scan")
      BY <1>2 DEF ApiScan
    <2>2. QED
      BY <2>1, Refused DEF ActionNames
  <1>3. QED
    BY <1>1, <1>2

LEMMA ScanReplyKeeps ==
    ASSUME ActionsInv, NEW x \in Responders, ScanReply(x)
    PROVE  ActionsInv'
  <1>1. /\ job.action = "scan" /\ job' = add_scan_responder(job, x)
        /\ hist' = [hist EXCEPT !.answered = @ \cup {x}] /\ UNCHANGED <<registry, actual>>
    BY DEF ScanReply
  <1>2. PICK j \in ScanJobs : j = job
    BY <1>1, JobOfAction
  <1>3. PICK h \in Histories : h = hist
    BY DEF ActionsInv, ActionsTypeInv, Histories
  <1>4. hist' \in Histories /\ hist'.answered = h.answered \cup {x}
    BY <1>1, <1>3 DEF Histories
  <1>5. /\ IsFiniteSet(j.responders) /\ Cardinality(j.responders) <= SCAN_MAX_REPLIES
        /\ j.responders \subseteq h.answered
        /\ IF j.truncated
           THEN Cardinality(j.responders) = SCAN_MAX_REPLIES /\ j.responders # h.answered
           ELSE j.responders = h.answered
    BY <1>1, <1>2, <1>3 DEF ActionsInv, Listing
  <1>6. Cardinality(j.responders) \in Nat
    BY <1>5, FS_CardinalityType
  <1>7. CASE x \in j.responders
    <2>1. job' = j
      BY <1>1, <1>2, <1>7 DEF add_scan_responder
    <2>2. h.answered \cup {x} = h.answered
      BY <1>5, <1>7
    <2>3. Listing'
      BY <1>4, <1>5, <2>1, <2>2 DEF Listing
    <2>4. QED
      BY <1>1, <1>4, <2>1, <2>3, ScanGoesOn
  <1>8. CASE x \notin j.responders /\ Cardinality(j.responders) >= SCAN_MAX_REPLIES
    <2>1. job' = [j EXCEPT !.truncated = TRUE]
      BY <1>1, <1>2, <1>8 DEF add_scan_responder
    <2>2. job' \in ScanJobs /\ job'.truncated /\ job'.responders = j.responders
      BY <2>1 DEF ScanJobs
    <2>3. Cardinality(j.responders) = SCAN_MAX_REPLIES
      BY <1>5, <1>6, <1>8, Limits
    <2>4. Listing'
      BY <1>4, <1>5, <1>8, <2>2, <2>3 DEF Listing
    <2>5. QED
      BY <1>1, <1>4, <2>2, <2>4, ScanGoesOn
  <1>9. CASE x \notin j.responders /\ ~(Cardinality(j.responders) >= SCAN_MAX_REPLIES)
    <2>1. job' = [j EXCEPT !.responders = @ \cup {x}]
      BY <1>1, <1>2, <1>9 DEF add_scan_responder
    <2>2. job' \in ScanJobs /\ job'.truncated = j.truncated /\ job'.responders = j.responders \cup {x}
      BY <2>1 DEF ScanJobs
    <2>3. ~j.truncated /\ j.responders = h.answered
      BY <1>5, <1>6, <1>9, Limits
    <2>4. IsFiniteSet(j.responders \cup {x}) /\ Cardinality(j.responders \cup {x}) = Cardinality(j.responders) + 1
      BY <1>5, <1>9, FS_AddElement
    <2>5. Cardinality(j.responders \cup {x}) <= SCAN_MAX_REPLIES
      BY <1>6, <1>9, <2>4, Limits
    <2>6. Listing'
      BY <1>4, <2>2, <2>3, <2>4, <2>5 DEF Listing
    <2>7. QED
      BY <1>1, <1>4, <2>2, <2>6, ScanGoesOn
  <1>10. QED
    BY <1>7, <1>8, <1>9

LEMMA ScanWindowEndsKeeps ==
    ASSUME ActionsInv, ScanWindowEnds
    PROVE  ActionsInv'
  <1>1. job.action = "scan" /\ UNCHANGED <<registry, actual, hist>>
    BY DEF ScanWindowEnds
  <1>2. PICK j \in ScanJobs : j = job
    BY <1>1, JobOfAction
  <1>3. hist' \in Histories
    BY <1>1 DEF ActionsInv, ActionsTypeInv, Histories
  <1>4. CASE j.attempt < Channels
    <2>1. job' = [j EXCEPT !.attempt = @ + 1]
      BY <1>2, <1>4 DEF ScanWindowEnds
    <2>2. job' \in ScanJobs /\ job'.truncated = j.truncated /\ job'.responders = j.responders
      BY <2>1 DEF ScanJobs
    <2>3. Listing'
      BY <1>1, <1>2, <2>2 DEF ActionsInv, Listing
    <2>4. QED
      BY <1>1, <1>3, <2>2, <2>3, ScanGoesOn
  <1>5. CASE ~(j.attempt < Channels)
    <2> DEFINE res == [action |-> "scan", success |-> TRUE, verified |-> FALSE, code |-> FALSE,
                       known |-> job.responders \cap Devices, unknown |-> job.responders \ Devices,
                       truncated |-> job.truncated]
    <2>1. result' = res /\ job' = Idle
      BY <1>2, <1>5 DEF ScanWindowEnds, publish_result
    <2>2. /\ result'.action = "scan" /\ result'.known = j.responders \cap Devices
          /\ result'.unknown = j.responders \ Devices /\ result'.truncated = j.truncated
      BY <1>2, <2>1
    <2> HIDE DEF res
    <2>3. ActionsTypeInv'
      BY <1>1, <1>3, <2>1 DEF ActionsInv, ActionsTypeInv, Histories, Jobs
    <2>4. Renaming' /\ Listing' /\ Sweeping' /\ RenameHonest'
      BY <2>1, <2>2 DEF Renaming, Listing, Sweeping, RenameHonest, Idle
    <2>5. /\ result'.known \cup result'.unknown = j.responders
          /\ result'.known \cap result'.unknown = {}
      BY <2>2
    <2>6. /\ j.responders \subseteq hist.answered
          /\ IF j.truncated
             THEN Cardinality(j.responders) = SCAN_MAX_REPLIES /\ j.responders # hist.answered
             ELSE j.responders = hist.answered
      BY <1>1, <1>2 DEF ActionsInv, Listing
    <2>7. ReportsTrue'
      BY <1>1, <2>1, <2>2, <2>5, <2>6 DEF ReportsTrue, Idle
    <2>8. QED
      BY <2>3, <2>4, <2>7 DEF ActionsInv
  <1>6. QED
    BY <1>4, <1>5

\* A sweep that goes on keeps the invariant if what it has asked so far is right.
LEMMA SweepGoesOn ==
    ASSUME ActionsInv, job' \in SweepJobs, hist' \in Histories, UNCHANGED <<registry, actual>>, Sweeping',
           result'.action \notin {"rename", "scan", "sweep"} \/ UNCHANGED result
    PROVE  ActionsInv'
  <1>1. job' # Idle /\ job'.action = "sweep"
    BY DEF SweepJobs, Idle
  <1>2. ActionsTypeInv'
    BY DEF ActionsInv, ActionsTypeInv, Jobs, SweepJobs, Histories
  <1>3. Renaming' /\ Listing' /\ RenameHonest'
    BY <1>1 DEF Renaming, Listing, RenameHonest
  <1>4. ReportsTrue'
    BY <1>1 DEF ReportsTrue, Sweeping
  <1>5. QED
    BY <1>2, <1>3, <1>4 DEF ActionsInv

LEMMA ApiSweepKeeps ==
    ASSUME ActionsInv, NEW id, NEW probe, NEW first, NEW last, ApiSweep(id, probe, first, last)
    PROVE  ActionsInv'
  <1> DEFINE Asked == /\ resolve_device(id) /\ probe \in IndexedProbes
                      /\ {first, last} \subseteq 0 .. MaxByte /\ SweepRange(first, last)
  <1>1. CASE Asked
    <2> DEFINE j == [action |-> "sweep", d |-> id, first |-> first, last |-> last, idx |-> first]
    <2>1. StartJob(j) /\ hist' = FreshHistory
      BY <1>1 DEF ApiSweep
    <2>2. id \in Devices /\ first \in Nat /\ last \in Nat /\ first <= last
      BY <1>1, Limits DEF resolve_device, SweepRange
    <2>3. j \in SweepJobs /\ j.first = first /\ j.idx = first /\ j.last = last
      BY <2>2 DEF SweepJobs
    <2> HIDE DEF j
    <2>4. FreshHistory \in Histories /\ FreshHistory.probed = {}
      BY DEF FreshHistory, Histories, Known
    <2>5. job' = j /\ UNCHANGED <<registry, actual>> /\ result' = NoResult
      BY <2>1 DEF StartJob
    <2>6. first .. (first - 1) = {}
      BY <2>2
    <2>7. Sweeping'
      BY <2>1, <2>2, <2>3, <2>4, <2>5, <2>6 DEF Sweeping
    <2>8. QED
      BY <2>1, <2>3, <2>4, <2>5, <2>7, SweepGoesOn DEF NoResult
  <1>2. CASE ~Asked
    <2>1. Refuse("sweep")
      BY <1>2 DEF ApiSweep
    <2>2. QED
      BY <2>1, Refused DEF ActionNames
  <1>3. QED
    BY <1>1, <1>2

LEMMA SweepStepKeeps ==
    ASSUME ActionsInv, SweepStep
    PROVE  ActionsInv'
  <1>1. job.action = "sweep" /\ job.idx <= job.last /\ UNCHANGED <<registry, actual>>
    BY DEF SweepStep
  <1>2. CASE terminal_refusal(job.d)
    <2>1. publish_result(Result("sweep", FALSE)) /\ UNCHANGED hist
      BY <1>2 DEF SweepStep
    <2>2. Result("sweep", FALSE).verified = FALSE /\ Result("sweep", FALSE).success = FALSE
      BY Results, FALSE \in BOOLEAN, Zenon DEF ActionNames
    <2>3. QED
      BY <1>1, <2>1, <2>2, AtOnce
  <1>3. CASE ~terminal_refusal(job.d)
    <2>1. PICK j \in SweepJobs : j = job
      BY <1>1, JobOfAction
    <2>2. PICK h \in Histories : h = hist
      BY DEF ActionsInv, ActionsTypeInv, Histories
    <2>3. job' = [j EXCEPT !.idx = @ + 1] /\ hist' = [h EXCEPT !.probed = @ \cup {j.idx}] /\ UNCHANGED result
      BY <1>3, <2>1, <2>2 DEF SweepStep, NextIndex
    <2>4. /\ job' \in SweepJobs /\ job'.first = j.first /\ job'.last = j.last /\ job'.idx = j.idx + 1
          /\ j.first \in Nat /\ j.idx \in Nat /\ j.last \in Nat
      BY <2>3 DEF SweepJobs
    <2>5. hist' \in Histories /\ hist'.probed = h.probed \cup {j.idx}
      BY <2>3, <2>4 DEF Histories
    <2>6. h.probed = j.first .. (j.idx - 1) /\ j.first <= j.idx /\ j.idx <= j.last
      BY <1>1, <2>1, <2>2 DEF ActionsInv, Sweeping
    <2>7. (j.first .. (j.idx - 1)) \cup {j.idx} = j.first .. (j.idx + 1 - 1)
      BY <2>4, <2>6
    <2>8. Sweeping'
      BY <2>4, <2>5, <2>6, <2>7 DEF Sweeping
    <2>9. QED
      BY <1>1, <2>3, <2>4, <2>5, <2>8, SweepGoesOn
  <1>4. QED
    BY <1>2, <1>3

LEMMA SweepEndsKeeps ==
    ASSUME ActionsInv, SweepEnds
    PROVE  ActionsInv'
  <1>1. job.action = "sweep" /\ job.idx > job.last /\ UNCHANGED <<registry, actual, hist>>
    BY DEF SweepEnds
  <1>2. PICK j \in SweepJobs : j = job
    BY <1>1, JobOfAction
  <1> DEFINE res == [action |-> "sweep", success |-> TRUE, verified |-> FALSE, code |-> FALSE,
                     first |-> job.first, last |-> job.last]
  <1>3. result' = res /\ job' = Idle
    BY DEF SweepEnds, publish_result
  <1>4. result'.action = "sweep" /\ result'.first = j.first /\ result'.last = j.last
    BY <1>2, <1>3
  <1> HIDE DEF res
  <1>5. ActionsTypeInv'
    BY <1>1, <1>3 DEF ActionsInv, ActionsTypeInv, Jobs
  <1>6. Renaming' /\ Listing' /\ Sweeping' /\ RenameHonest'
    BY <1>3, <1>4 DEF Renaming, Listing, Sweeping, RenameHonest, Idle
  <1>7. hist.probed = j.first .. (j.idx - 1) /\ j.idx - 1 <= j.last /\ j.idx > j.last
    BY <1>1, <1>2 DEF ActionsInv, Sweeping
  <1>8. j.idx - 1 = j.last
    BY <1>2, <1>7 DEF SweepJobs
  <1>9. ReportsTrue'
    BY <1>1, <1>3, <1>4, <1>7, <1>8 DEF ReportsTrue, Idle
  <1>10. QED
    BY <1>5, <1>6, <1>9 DEF ActionsInv

\* What the devices, other controllers and their status messages change says nothing about
\* the action under way or the last result; names are learnt between actions only.
LEMMA WorldKeeps ==
    ASSUME ActionsInv, World
    PROVE  ActionsInv'
  <1>1. PICK d \in Devices :
          (\E n \in Names : OtherControllerRenames(d, n)) \/ DeviceMoves(d) \/ StatusHeard(d)
    BY DEF World
  <1>2. /\ actual \in [Devices -> [name : Names, moving : BOOLEAN]]
        /\ registry \in [Devices -> [name : Known, moving : BOOLEAN]]
    BY DEF ActionsInv, ActionsTypeInv
  <1>3. PICK a \in [name : Names, moving : BOOLEAN] : a = actual[d]
    BY <1>2
  <1>4. PICK r \in [name : Known, moving : BOOLEAN] : r = registry[d]
    BY <1>2
  <1>5. UNCHANGED <<job, result, hist>>
    BY <1>1 DEF OtherControllerRenames, DeviceMoves, StatusHeard
  <1>6. RenameHonest' /\ ReportsTrue' /\ Listing' /\ Sweeping'
    BY <1>5 DEF ActionsInv, RenameHonest, ReportsTrue, Listing, Sweeping
  <1>7. CASE \E n \in Names : OtherControllerRenames(d, n)
    <2>1. PICK n \in Names : actual' = [actual EXCEPT ![d].name = n] /\ UNCHANGED registry
      BY <1>7 DEF OtherControllerRenames
    <2>2. [a EXCEPT !.name = n] \in [name : Names, moving : BOOLEAN]
      OBVIOUS
    <2>3. [actual EXCEPT ![d].name = n] = [actual EXCEPT ![d] = [a EXCEPT !.name = n]]
      BY <1>3
    <2>4. actual' \in [Devices -> [name : Names, moving : BOOLEAN]]
      BY <1>2, <2>1, <2>2, <2>3
    <2>5. QED
      BY <1>5, <1>6, <2>1, <2>4 DEF ActionsInv, ActionsTypeInv, Renaming
  <1>8. CASE DeviceMoves(d)
    <2>1. actual' = [actual EXCEPT ![d].moving = ~@] /\ UNCHANGED registry
      BY <1>8 DEF DeviceMoves
    <2> DEFINE m == ~a.moving
    <2>2. [actual EXCEPT ![d].moving = ~@] = [actual EXCEPT ![d] = [a EXCEPT !.moving = m]]
      BY <1>3, Zenon
    <2>3. m \in BOOLEAN
      OBVIOUS
    <2> HIDE DEF m
    <2>4. [a EXCEPT !.moving = m] \in [name : Names, moving : BOOLEAN]
      BY <2>3
    <2>5. actual' \in [Devices -> [name : Names, moving : BOOLEAN]]
      BY <1>2, <2>1, <2>2, <2>4
    <2>6. QED
      BY <1>5, <1>6, <2>1, <2>5 DEF ActionsInv, ActionsTypeInv, Renaming
  <1>9. CASE StatusHeard(d)
    <2>1. /\ UNCHANGED actual /\ job = Idle
          /\ \/ registry' = [registry EXCEPT ![d].moving = actual[d].moving]
             \/ registry' = [registry EXCEPT ![d].name = actual[d].name]
      BY <1>9 DEF StatusHeard
    <2>2. /\ [r EXCEPT !.moving = a.moving] \in [name : Known, moving : BOOLEAN]
          /\ [r EXCEPT !.name = a.name] \in [name : Known, moving : BOOLEAN]
      BY DEF Known
    <2>3. /\ [registry EXCEPT ![d].moving = actual[d].moving] = [registry EXCEPT ![d] = [r EXCEPT !.moving = a.moving]]
          /\ [registry EXCEPT ![d].name = actual[d].name] = [registry EXCEPT ![d] = [r EXCEPT !.name = a.name]]
      BY <1>3, <1>4
    <2>4. registry' \in [Devices -> [name : Known, moving : BOOLEAN]]
      BY <1>2, <2>1, <2>2, <2>3
    <2>5. Renaming'
      BY <1>5, <2>1 DEF Renaming, Idle
    <2>6. QED
      BY <1>5, <1>6, <2>1, <2>4, <2>5 DEF ActionsInv, ActionsTypeInv
  <1>10. QED
    BY <1>1, <1>7, <1>8, <1>9

LEMMA ActionsInitInv == ActionsInit => ActionsInv
  <1> SUFFICES ASSUME ActionsInit PROVE ActionsInv
    OBVIOUS
  <1>1. actual \in [Devices -> [name : Names, moving : BOOLEAN]]
    <2>1. actual \in [Devices -> [name : Names, moving : {FALSE}]]
      BY DEF ActionsInit
    <2>2. [name : Names, moving : {FALSE}] \subseteq [name : Names, moving : BOOLEAN]
      OBVIOUS
    <2>3. QED
      BY <2>1, <2>2
  <1>2. registry \in [Devices -> [name : Known, moving : BOOLEAN]]
    BY DEF ActionsInit, Known
  <1>3. FreshHistory \in Histories
    BY DEF FreshHistory, Histories, Known
  <1>4. job = Idle /\ result = NoResult /\ hist = FreshHistory
    BY DEF ActionsInit
  <1>5. ActionsTypeInv
    BY <1>1, <1>2, <1>3, <1>4 DEF ActionsTypeInv, Jobs, Histories
  <1>6. Renaming /\ Listing /\ Sweeping /\ RenameHonest /\ ReportsTrue
    BY <1>4 DEF Renaming, Listing, Sweeping, RenameHonest, ReportsTrue, Idle, NoResult
  <1>7. QED
    BY <1>5, <1>6 DEF ActionsInv

LEMMA ActionsNextInv == ActionsInv /\ [ActionsNext]_actionVars => ActionsInv'
  <1> SUFFICES ASSUME ActionsInv, [ActionsNext]_actionVars PROVE ActionsInv'
    OBVIOUS
  <1>1. CASE Calls
    BY <1>1, ApiIdentifyKeeps, QueuedActionsKeep, ApiRenameKeeps, ApiScanKeeps, ApiProbeKeeps, ApiSweepKeeps DEF Calls
  <1>2. CASE Proceeds
    BY <1>2, RenameRequestKeeps, RenameReadbackKeeps, ScanWindowEndsKeeps, SweepStepKeeps, SweepEndsKeeps DEF Proceeds
  <1>3. CASE Replies
    BY <1>3, ScanReplyKeeps DEF Replies, Responders
  <1>4. CASE World
    BY <1>4, WorldKeeps
  <1>5. CASE UNCHANGED actionVars
    BY <1>5 DEF actionVars, ActionsInv, ActionsTypeInv, Renaming, Listing, Sweeping, RenameHonest, ReportsTrue
  <1>6. QED
    BY <1>1, <1>2, <1>3, <1>4, <1>5 DEF ActionsNext

\* The inductive invariant of the actions holds throughout.
THEOREM ActionsInvariance == ActionsSpec => []ActionsInv
  <1>1. QED
    BY ActionsInitInv, ActionsNextInv, PTL DEF ActionsSpec

\* A rename reported as verified is one the device really had when its name was read back,
\* whatever was lost, mistaken or renamed by others meanwhile.
THEOREM RenamesAreHonest == ActionsSpec => []RenameHonest
  <1>1. ActionsInv => RenameHonest
    BY DEF ActionsInv
  <1>2. QED
    BY ActionsInvariance, <1>1, PTL

\* For any number of devices, channels, replies and indices the roll-call lists whoever
\* answered, and a sweep that succeeds asked all of its range.
THEOREM ReportsAreTrue == ActionsSpec => []ReportsTrue
  <1>1. ActionsInv => ReportsTrue
    BY DEF ActionsInv
  <1>2. QED
    BY ActionsInvariance, <1>1, PTL

=============================================================================
