---------------------------- MODULE Pairing_proofs ----------------------------
(***************************************************************************)
(* Proofs about Pairing, for any devices, retry counts and bounds: what    *)
(* the hub registers holds the key (RegisteredIsKeyed), what it reports of *)
(* an attempt is what happened (OutcomeTruthful), every step is one of     *)
(* KeyHandover or none (the safety half of HandsOver), an attempt survives *)
(* lost frames (ToleratesLosses), and it can only run down                 *)
(* (AttemptRunsDown).                                                      *)
(***************************************************************************)
EXTENDS Pairing, SequenceTheorems, TLAPS

Kinds == {"TX", "RX", "RX_REJECT", "LBT_DEFER", "HOP", "PHASE"}
Commands ==
    {"NONE", "DISCOVER_REQ", "DISCOVER_RESP", "KEY_INIT", "CHALLENGE_REQ", "CHALLENGE_RESP", "KEY_TRANSFER", "KEY_CONFIRM",
     "ERROR_RESP", "SET_CONFIG1", "WRITE_PRIVATE"}
Phases ==
    {"IDLE", "TX_DISCOVER", "WAIT_DISCOVER_RESPONSE", "TX_KEY_INIT", "WAIT_KEY_CHALLENGE", "TX_KEY_TRANSFER",
     "WAIT_KEY_CONFIRM", "REGISTER_DEVICE", "COMPLETE"}
Outcomes == {"NONE", "NO_RESPONSE", "INVALID_RESPONSE", "KEY_EXCHANGE_FAILED", "PAIRED", "CONFIG_FAILED"}
Advice == {"1w_traffic", "channel_busy", "foreign_controller", "rf_silent"}

FrameType ==
    [cmd : Commands, src : Devices \cup {Nobody, "stranger"}, dst : {"hub", "other", "BROADCAST", Nobody}, oneway : BOOLEAN]
EventType == [kind : Kinds, frame : FrameType]
TelemetryType ==
    [events : Seq(EventType), heard : Nat, truncated : BOOLEAN, phase : Phases, outcome : Outcomes, attempts : Nat,
     lbt : Nat, paired : Devices \cup {Nobody}, advice : SUBSET Advice]
ContextType ==
    [command : Nat, attempt : Nat, sawInvalid : BOOLEAN, sawTraffic : BOOLEAN, target : Devices \cup {Nobody},
     challenge : Nonces \cup {0}, ke : Nat, re : Nat, tries : Nat]
HistoryType ==
    [losses : Nat, txFails : Nat, defers : Nat, noise : Nat, late : BOOLEAN, refused : BOOLEAN, parsed : BOOLEAN,
     packet : BOOLEAN]
AnswerType ==
    [cmd : {"DISCOVER_RESP", "CHALLENGE_REQ", "KEY_CONFIRM", "ERROR_RESP"}, src : Devices \cup {"stranger"},
     nonce : Nonces \cup {0}, late : BOOLEAN]

\* What may be under way while the devices of K hold the key: of the devices, only they confirm.
Answers(K) ==
    {x \in AnswerType : /\ x.cmd = "KEY_CONFIRM" => x.src \in K \cup {"stranger"}
                        /\ x.cmd = "DISCOVER_RESP" => x.src \in Devices}

Searching == {"discover", "waitDiscover"}
Exchanging == {"keyInit", "waitChallenge", "sendKey", "waitConfirm", "waitFinal", "config"}

TypeInv ==
    /\ pc \in {"idle"} \cup Searching \cup Exchanging
    /\ fast \in BOOLEAN /\ attached \in BOOLEAN
    /\ cx \in ContextType /\ tel \in TelemetryType /\ hist \in HistoryType
    /\ registry \subseteq Devices /\ keyed \subseteq Devices
    /\ air \in Seq(Answers(keyed))

\* The key exchange has a target, and a target that is configured has confirmed.
TargetInv ==
    /\ pc \in Exchanging => cx.target \in Devices
    /\ pc = "config" => cx.target \in keyed
    /\ RegisteredIsKeyed

\* What the log and the loop remember did happen, and until the end nothing is reported.
ReportInv ==
    /\ cx.sawInvalid \/ cx.sawTraffic => hist.packet
    /\ hist.parsed => tel.heard > 0
    /\ "rf_silent" \in tel.advice => tel.heard = 0
    /\ pc # "idle" => tel.outcome = "NONE" /\ tel.paired = Nobody /\ tel.advice = {}
    /\ OutcomeTruthful

IInv == TypeInv /\ TargetInv /\ ReportInv

-----------------------------------------------------------------------------
(* The log.                                                                *)

\* u is t with more in its log.
Follows(t, u) ==
    /\ u \in TelemetryType /\ u.heard >= t.heard
    /\ u.outcome = t.outcome /\ u.paired = t.paired /\ u.advice = t.advice

LEMMA FollowsFollows ==
    ASSUME NEW s, NEW t, NEW u, s \in TelemetryType, Follows(s, t), Follows(t, u) PROVE Follows(s, u)
  BY DEF Follows, TelemetryType

LEMMA Counting == ASSUME NEW n \in Nat PROVE Count(n) \in Nat /\ Count(n) >= n /\ Count(n) > 0
  BY TelemetryAssumption DEF Count

LEMMA Recording ==
    ASSUME NEW t \in TelemetryType, NEW kind \in Kinds, NEW f \in FrameType
    PROVE  Follows(t, record(t, kind, f)) /\ (is_rx_kind(kind) => record(t, kind, f).heard > 0)
  <1> DEFINE h == IF is_rx_kind(kind) THEN Count(t.heard) ELSE t.heard
             e == [kind |-> kind, frame |-> f]
  <1>1. t.heard \in Nat /\ t.events \in Seq(EventType)
    BY DEF TelemetryType
  <1>2. h \in Nat /\ h >= t.heard /\ (is_rx_kind(kind) => h > 0)
    BY <1>1, Counting
  <1>3. Append(t.events, e) \in Seq(EventType)
    BY <1>1 DEF EventType
  <1>4. record(t, kind, f) \in {[t EXCEPT !.heard = h, !.truncated = TRUE], [t EXCEPT !.heard = h, !.events = Append(t.events, e)]}
    BY DEF record, TelemetryType
  <1> HIDE DEF h, e
  <1>5. \A u \in {[t EXCEPT !.heard = h, !.truncated = TRUE], [t EXCEPT !.heard = h, !.events = Append(t.events, e)]} :
          u \in TelemetryType /\ u.heard = h /\ u.outcome = t.outcome /\ u.paired = t.paired /\ u.advice = t.advice
    BY <1>2, <1>3 DEF TelemetryType
  <1>6. QED
    BY <1>2, <1>4, <1>5 DEF Follows

LEMMA Logging ==
    ASSUME NEW t \in TelemetryType, NEW c \in Commands, NEW p \in Phases, NEW f \in FrameType
    PROVE  /\ Follows(t, record_tx(t, c)) /\ Follows(t, record_hop(t)) /\ Follows(t, set_phase(t, p))
           /\ Follows(t, record_lbt_defer(t)) /\ Follows(t, increment_discovery_attempt(t))
           /\ Follows(t, record_rx(t, f)) /\ record_rx(t, f).heard > 0
           /\ Follows(t, record_rx_reject(t, f)) /\ record_rx_reject(t, f).heard > 0
  <1>1. NoFrame \in FrameType /\ [NoFrame EXCEPT !.cmd = c] \in FrameType
    BY DEF NoFrame, Frame, FrameType, Commands
  <1>2. /\ [t EXCEPT !.phase = p] \in TelemetryType /\ Follows(t, [t EXCEPT !.phase = p])
        /\ [t EXCEPT !.lbt = Count(@)] \in TelemetryType /\ Follows(t, [t EXCEPT !.lbt = Count(@)])
        /\ Follows(t, [t EXCEPT !.attempts = Count(@)])
    <2>1. PICK l \in Nat, a \in Nat : l = Count(t.lbt) /\ a = Count(t.attempts)
      BY Counting DEF TelemetryType
    <2>2. \A u \in {[t EXCEPT !.phase = p], [t EXCEPT !.lbt = l], [t EXCEPT !.attempts = a]} : Follows(t, u)
      BY DEF Follows, TelemetryType
    <2>3. QED
      BY <2>1, <2>2 DEF Follows
  <1>3. Kinds = {"TX", "RX", "RX_REJECT", "LBT_DEFER", "HOP", "PHASE"}
    BY DEF Kinds
  <1>4. Follows(t, record_tx(t, c)) /\ Follows(t, record_hop(t))
    BY <1>1, <1>3, Recording DEF record_tx, record_hop
  <1>5. Follows(t, set_phase(t, p))
    BY <1>1, <1>2, <1>3, Recording, FollowsFollows DEF set_phase
  <1>6. Follows(t, record_lbt_defer(t))
    BY <1>1, <1>2, <1>3, Recording, FollowsFollows DEF record_lbt_defer
  <1>7. Follows(t, increment_discovery_attempt(t))
    BY <1>2 DEF increment_discovery_attempt
  <1>8. Follows(t, record_rx(t, f)) /\ record_rx(t, f).heard > 0
    BY <1>3, Recording DEF record_rx, is_rx_kind
  <1>9. Follows(t, record_rx_reject(t, f)) /\ record_rx_reject(t, f).heard > 0
    BY <1>3, Recording DEF record_rx_reject, is_rx_kind
  <1>10. QED
    BY <1>4, <1>5, <1>6, <1>7, <1>8, <1>9

LEMMA Sent == ASSUME NEW t \in TelemetryType, NEW c \in Commands PROVE Follows(t, record_tx(t, c))
  <1>1. NoFrame \in FrameType /\ "IDLE" \in Phases
    BY DEF NoFrame, Frame, FrameType, Commands, Phases
  <1>2. QED
    BY <1>1, Logging

LEMMA Deferral == ASSUME NEW t \in TelemetryType PROVE Follows(t, record_lbt_defer(t)) /\ Follows(t, record_hop(t))
                                                     /\ Follows(t, increment_discovery_attempt(t))
  <1>1. NoFrame \in FrameType /\ "IDLE" \in Phases /\ "NONE" \in Commands
    BY DEF NoFrame, Frame, FrameType, Commands, Phases
  <1>2. QED
    BY <1>1, Logging

LEMMA Phasing == ASSUME NEW t \in TelemetryType, NEW p \in Phases PROVE Follows(t, set_phase(t, p))
  <1>1. NoFrame \in FrameType /\ "NONE" \in Commands
    BY DEF NoFrame, Frame, FrameType, Commands
  <1>2. QED
    BY <1>1, Logging

LEMMA Hearing ==
    ASSUME NEW t \in TelemetryType, NEW f \in FrameType
    PROVE  /\ Follows(t, record_rx(t, f)) /\ record_rx(t, f).heard > 0
           /\ Follows(t, record_rx_reject(t, f)) /\ record_rx_reject(t, f).heard > 0
  <1>1. "IDLE" \in Phases /\ "NONE" \in Commands
    BY DEF Commands, Phases
  <1>2. QED
    BY <1>1, Logging

\* The end of an attempt keeps what was heard, and says that nothing was only if so.
LEMMA Finishing ==
    ASSUME NEW t \in TelemetryType, NEW o \in Outcomes
    PROVE  /\ finish(t, o, "hub") \in TelemetryType
           /\ finish(t, o, "hub").outcome = o /\ finish(t, o, "hub").paired = t.paired /\ finish(t, o, "hub").heard = t.heard
           /\ "rf_silent" \in finish(t, o, "hub").advice => t.heard = 0
  <1> DEFINE done == set_outcome(t, o)
             a == analyze_pairing_telemetry(done, "hub")
  <1>1. /\ done \in TelemetryType /\ done.outcome = o /\ done.paired = t.paired /\ done.heard = t.heard
    BY DEF set_outcome, TelemetryType
  <1>2. a \in SUBSET Advice /\ ("rf_silent" \in a => done.heard = 0)
    BY DEF analyze_pairing_telemetry, Advice
  <1>3. finish(t, o, "hub") = [done EXCEPT !.advice = a]
    BY DEF finish
  <1> HIDE DEF done, a
  <1>4. QED
    BY <1>1, <1>2, <1>3 DEF TelemetryType

-----------------------------------------------------------------------------
(* Devices and air.                                                        *)

LEMMA MoreAnswers ==
    ASSUME NEW K, NEW L, K \subseteq L, NEW s \in Seq(Answers(K)) PROVE s \in Seq(Answers(L))
  <1>1. Answers(K) \subseteq Answers(L)
    BY DEF Answers
  <1>2. QED
    BY <1>1, SeqMonotonic

LEMMA Aging == ASSUME NEW K, NEW s \in Seq(Answers(K)) PROVE Late(s) \in Seq(Answers(K))
  <1>1. Len(s) \in Nat /\ DOMAIN s = 1..Len(s) /\ \A i \in 1..Len(s) : s[i] \in Answers(K)
    BY LenProperties, ElementOfSeq
  <1>2. \A x \in Answers(K) : [x EXCEPT !.late = TRUE] \in Answers(K)
    BY DEF Answers, AnswerType
  <1>3. Late(s) = [i \in 1..Len(s) |-> [s[i] EXCEPT !.late = TRUE]]
    BY <1>1 DEF Late
  <1>4. Late(s) \in [1..Len(s) -> Answers(K)]
    BY <1>1, <1>2, <1>3
  <1>5. QED
    BY <1>1, <1>4, SeqDef

LEMMA Keeping == ASSUME NEW S, NEW s \in Seq(S) PROVE Recent(s) \in Seq(S)
  <1>1. Len(s) \in Nat /\ MaxAir \in Nat /\ \A i \in 1..Len(s) : s[i] \in S
    BY LenProperties, ElementOfSeq, PairingAssumption
  <1>2. Larger(1, Len(s) - MaxAir + 1) \in Int /\ Larger(1, Len(s) - MaxAir + 1) >= 1
    BY <1>1 DEF Larger
  <1>3. QED
    BY <1>1, <1>2, SubSeqProperties DEF Recent

LEMMA Ageing == ASSUME NEW K, NEW s \in Seq(Answers(K)), s # <<>> PROVE Tail(s) \in Seq(Answers(K)) /\ Late(Tail(s)) \in Seq(Answers(K)) /\ Head(s) \in Answers(K)
  BY HeadTailProperties, Aging

\* What a transmission does to the world: h is the history as it was when it was sent.
Answered(h) ==
    /\ keyed \subseteq keyed' /\ keyed' \subseteq Devices /\ air' \in Seq(Answers(keyed'))
    /\ hist' \in HistoryType /\ hist'.parsed = h.parsed /\ hist'.packet = h.packet

LEMMA Sending ==
    ASSUME TypeInv, NEW h \in HistoryType, NEW q, keyed \subseteq keyed', keyed' \subseteq Devices, q \in Seq(Answers(keyed')),
           Send(q, h)
    PROVE  Answered(h)
  <1>1. air \in Seq(Answers(keyed'))
    BY MoreAnswers DEF TypeInv
  <1>2. air \o q \in Seq(Answers(keyed')) /\ Recent(air \o q) \in Seq(Answers(keyed'))
    BY <1>1, ConcatProperties, Keeping
  <1>3. [h EXCEPT !.losses = @ + 1] \in HistoryType /\ [h EXCEPT !.losses = @ + 1].parsed = h.parsed
        /\ [h EXCEPT !.losses = @ + 1].packet = h.packet
    BY DEF HistoryType
  <1>4. QED
    BY <1>1, <1>2, <1>3 DEF Send, Answered

LEMMA NobodyHears ==
    ASSUME TypeInv, NEW h \in HistoryType, Unheard(h) PROVE Answered(h) /\ keyed' = keyed
  <1>1. [h EXCEPT !.losses = @ + 1] \in HistoryType /\ [h EXCEPT !.losses = @ + 1].parsed = h.parsed
        /\ [h EXCEPT !.losses = @ + 1].packet = h.packet
    BY DEF HistoryType
  <1>2. QED
    BY <1>1 DEF TypeInv, Unheard, Answered, world

LEMMA Replying ==
    ASSUME NEW K, NEW cmd \in {"DISCOVER_RESP", "CHALLENGE_REQ", "KEY_CONFIRM", "ERROR_RESP"}, NEW d \in Devices,
           NEW n \in Nonces \cup {0}, cmd = "KEY_CONFIRM" => d \in K
    PROVE  Reply(cmd, d, n) \in Answers(K) /\ <<Reply(cmd, d, n)>> \in Seq(Answers(K))
  BY DEF Reply, Answers, AnswerType

LEMMA DiscoveryHeard ==
    ASSUME TypeInv, NEW h \in HistoryType, DevicesHearDiscovery(h) PROVE Answered(h) /\ keyed' = keyed
  <1>1. keyed' = keyed /\ keyed \subseteq Devices
    BY DEF TypeInv, DevicesHearDiscovery
  <1>2. PICK d \in Devices, e \in Devices :
          Send(IF d = e THEN <<Reply("DISCOVER_RESP", d, 0)>>
               ELSE Append(<<Reply("DISCOVER_RESP", d, 0)>>, Reply("DISCOVER_RESP", e, 0)), h)
    BY DEF DevicesHearDiscovery
  <1>3. \A x \in Devices : Reply("DISCOVER_RESP", x, 0) \in Answers(keyed)
    BY DEF Reply, Answers, AnswerType
  <1>4. PICK q \in Seq(Answers(keyed)) : Send(q, h)
    <2>1. PICK x \in Answers(keyed), y \in Answers(keyed) : x = Reply("DISCOVER_RESP", d, 0) /\ y = Reply("DISCOVER_RESP", e, 0)
      BY <1>3
    <2>2. <<x>> \in Seq(Answers(keyed)) /\ Append(<<x>>, y) \in Seq(Answers(keyed))
      OBVIOUS
    <2>3. QED
      BY <1>2, <2>1, <2>2
  <1>5. QED
    BY <1>1, <1>4, Sending

LEMMA KeyInitHeard ==
    ASSUME TypeInv, NEW h \in HistoryType, NEW d \in Devices, DeviceHearsKeyInit(d, h) PROVE Answered(h) /\ keyed' = keyed
  <1>1. keyed \subseteq Devices /\ keyed' = keyed
    BY DEF TypeInv, DeviceHearsKeyInit
  <1>2. PICK cmd \in {"CHALLENGE_REQ", "KEY_CONFIRM"}, n \in Nonces \cup {0} :
          Send(<<Reply(cmd, d, n)>>, h) /\ (cmd = "KEY_CONFIRM" => d \in keyed)
    BY DEF DeviceHearsKeyInit
  <1>3. <<Reply(cmd, d, n)>> \in Seq(Answers(keyed))
    BY <1>2, Replying
  <1>4. QED
    BY <1>1, <1>2, <1>3, Sending

LEMMA KeyHeard ==
    ASSUME TypeInv, NEW h \in HistoryType, NEW d \in Devices, DeviceHearsKey(d, h)
    PROVE  Answered(h) /\ keyed' \in {keyed, keyed \cup {d}}
  <1>1. keyed \subseteq Devices /\ keyed \subseteq keyed' /\ keyed' \subseteq Devices /\ keyed' \in {keyed, keyed \cup {d}}
    BY DEF TypeInv, DeviceHearsKey
  <1>2. CASE keyed' = keyed \cup {d} /\ Send(<<Reply("KEY_CONFIRM", d, 0)>>, h)
    <2>1. <<Reply("KEY_CONFIRM", d, 0)>> \in Seq(Answers(keyed'))
      BY <1>2, Replying
    <2>2. QED
      BY <1>1, <1>2, <2>1, Sending
  <1>3. CASE keyed' = keyed /\ Send(<<Reply("ERROR_RESP", d, 0)>>, [h EXCEPT !.refused = @ \/ cx.challenge = nonce[d]])
    <2>1. <<Reply("ERROR_RESP", d, 0)>> \in Seq(Answers(keyed'))
      BY Replying
    <2> DEFINE r == h.refused \/ cx.challenge = nonce[d]
               g == [h EXCEPT !.refused = r]
    <2>2. r \in BOOLEAN
      OBVIOUS
    <2> HIDE DEF r
    <2>3. g \in HistoryType /\ g.parsed = h.parsed /\ g.packet = h.packet
      BY <2>2 DEF HistoryType
    <2>a. Send(<<Reply("ERROR_RESP", d, 0)>>, g)
      BY <1>3 DEF r
    <2> HIDE DEF g
    <2>4. Answered(g)
      BY <1>1, <1>3, <2>1, <2>3, <2>a, Sending
    <2>5. QED
      BY <1>1, <2>3, <2>4 DEF Answered
  <1>4. CASE UNCHANGED <<keyed, air>> /\ hist' = h
    BY <1>4 DEF TypeInv, Answered
  <1>5. QED
    BY <1>2, <1>3, <1>4 DEF DeviceHearsKey


-----------------------------------------------------------------------------
(* The hub.                                                                *)

\* What a step of an attempt may do to the world and its history.
Elsewhere ==
    /\ keyed \subseteq keyed' /\ keyed' \subseteq Devices /\ air' \in Seq(Answers(keyed'))
    /\ hist' \in HistoryType /\ (hist.packet => hist'.packet)

Handing == [Handover!Next]_(Handover!vars)

LEMMA Continuing ==
    ASSUME IInv, pc # "idle", Elsewhere, keyed' = keyed \/ (\E d \in Devices : keyed' = keyed \cup {d}),
           NEW next \in Searching \cup Exchanging, NEW c \in ContextType, NEW t, Follows(tel, t), Go(next, c, t),
           next \in Exchanging => c.target \in Devices, next = "config" => c.target \in keyed',
           c.sawInvalid \/ c.sawTraffic => hist'.packet,
           hist'.parsed => hist.parsed \/ t.heard > 0
    PROVE  IInv' /\ Handing
  <1>1. /\ pc' = next /\ cx' = c /\ tel' = t /\ fast' = fast /\ attached' = attached /\ registry' = registry
        /\ pc' # "idle"
    BY DEF Go, Searching, Exchanging
  <1>2. TypeInv'
    BY <1>1 DEF IInv, TypeInv, Elsewhere, Follows
  <1>3. TargetInv'
    BY <1>1 DEF IInv, TargetInv, RegisteredIsKeyed, Elsewhere
  <1>4. ReportInv'
    <2>1. tel.outcome = "NONE" /\ tel.paired = Nobody /\ tel.advice = {} /\ (hist.parsed => tel.heard > 0)
      BY DEF IInv, ReportInv
    <2>2. t.outcome = "NONE" /\ t.paired = Nobody /\ t.advice = {} /\ (hist.parsed => t.heard > 0)
      BY <2>1 DEF Follows, IInv, TypeInv, TelemetryType
    <2>3. OutcomeTruthful'
      BY <1>1 DEF OutcomeTruthful
    <2>4. QED
      BY <1>1, <2>2, <2>3 DEF ReportInv
  <1>5. Handing
    BY <1>1 DEF Handing, Handover!Next, Handover!Give, Handover!vars
  <1>6. QED
    BY <1>2, <1>3, <1>4, <1>5 DEF IInv

LEMMA Failing ==
    ASSUME IInv, pc # "idle", Elsewhere, keyed' = keyed, NEW t, Follows(tel, t),
           NEW o \in {"NO_RESPONSE", "INVALID_RESPONSE", "KEY_EXCHANGE_FAILED"}, Finish(o, t, registry),
           o = "INVALID_RESPONSE" => hist'.packet, hist'.parsed = hist.parsed
    PROVE  IInv' /\ Handing
  <1>1. /\ pc' = "idle" /\ cx' = FreshContext /\ tel' = finish(t, o, "hub") /\ attached' = FALSE /\ registry' = registry
        /\ fast' = fast
    BY DEF Finish
  <1>2. t \in TelemetryType /\ t.paired = Nobody /\ t.heard >= tel.heard /\ (hist.parsed => tel.heard > 0) /\ tel.heard \in Nat
        /\ t.heard \in Nat
    BY DEF IInv, ReportInv, TypeInv, Follows, TelemetryType
  <1>3. /\ tel' \in TelemetryType /\ tel'.outcome = o /\ tel'.paired = Nobody /\ tel'.heard = t.heard
        /\ "rf_silent" \in tel'.advice => t.heard = 0
    <2>1. o \in Outcomes
      BY DEF Outcomes
    <2>2. QED
      BY <1>1, <1>2, <2>1, Finishing
  <1>4. FreshContext \in ContextType /\ FreshContext.sawInvalid = FALSE /\ FreshContext.sawTraffic = FALSE
    BY DEF FreshContext, ContextType
  <1>5. TypeInv'
    BY <1>1, <1>3, <1>4 DEF IInv, TypeInv, Elsewhere
  <1>6. TargetInv'
    BY <1>1 DEF IInv, TargetInv, RegisteredIsKeyed, Exchanging
  <1>7. hist'.parsed => t.heard > 0
    BY <1>2
  <1>8. OutcomeTruthful'
    BY <1>1, <1>2, <1>3, <1>7 DEF OutcomeTruthful
  <1>9. ReportInv'
    BY <1>1, <1>3, <1>4, <1>7, <1>8 DEF ReportInv
  <1>10. Handing
    BY <1>1 DEF Handing, Handover!Next, Handover!Fail
  <1>11. QED
    BY <1>5, <1>6, <1>9, <1>10 DEF IInv

\* The end of a wait of the key exchange: the same device once more, or the attempt has failed.
TriesAgain(t) ==
    \/ \E next \in {"keyInit", "sendKey"}, c \in ContextType :
         /\ Go(next, c, t)
         /\ c.target = cx.target /\ c.sawInvalid = cx.sawInvalid /\ c.sawTraffic = cx.sawTraffic
    \/ Finish("KEY_EXCHANGE_FAILED", t, registry)

LEMMA KeyPhaseEnds == ASSUME cx \in ContextType, NEW t, KeyPhaseFails(t) PROVE TriesAgain(t)
  <1> DEFINE c == [cx EXCEPT !.ke = @ + 1, !.re = 0]
  <1>1. cx.ke + 1 \in Nat /\ 0 \in Nat
    BY DEF ContextType
  <1>2. \A k, r \in Nat : [cx EXCEPT !.ke = k, !.re = r] \in ContextType
    BY DEF ContextType
  <1>3. c.target = cx.target /\ c.sawInvalid = cx.sawInvalid /\ c.sawTraffic = cx.sawTraffic
    BY DEF ContextType
  <1>4. c \in ContextType
    BY <1>1, <1>2, Zenon
  <1>5. Go("keyInit", c, t) \/ Finish("KEY_EXCHANGE_FAILED", t, registry)
    BY DEF KeyPhaseFails
  <1> HIDE DEF c
  <1>6. QED
    BY <1>3, <1>4, <1>5 DEF TriesAgain

LEMMA KeyMissing == ASSUME cx \in ContextType, NEW t, KeyMissed(t) PROVE TriesAgain(t)
  <1>1. [cx EXCEPT !.re = @ + 1] \in ContextType
    BY DEF ContextType
  <1>2. /\ [cx EXCEPT !.re = @ + 1].target = cx.target
        /\ [cx EXCEPT !.re = @ + 1].sawInvalid = cx.sawInvalid
        /\ [cx EXCEPT !.re = @ + 1].sawTraffic = cx.sawTraffic
    BY DEF ContextType
  <1>3. KeyMissed(t) => Go("keyInit", [cx EXCEPT !.re = @ + 1], t) \/ KeyPhaseFails(t)
    BY DEF KeyMissed
  <1>4. QED
    BY <1>1, <1>2, <1>3, KeyPhaseEnds DEF TriesAgain

LEMMA ChallengeMissing == ASSUME cx \in ContextType, NEW t, NoChallenge(t) PROVE TriesAgain(t)
  BY KeyPhaseEnds, KeyMissing DEF NoChallenge

LEMMA ConfirmMissing == ASSUME cx \in ContextType, NEW t, NextTry(t) \/ OutOfTime(t) PROVE TriesAgain(t)
  <1>1. [cx EXCEPT !.tries = @ + 1] \in ContextType
    BY DEF ContextType
  <1>2. /\ [cx EXCEPT !.tries = @ + 1].target = cx.target
        /\ [cx EXCEPT !.tries = @ + 1].sawInvalid = cx.sawInvalid
        /\ [cx EXCEPT !.tries = @ + 1].sawTraffic = cx.sawTraffic
    BY DEF ContextType
  <1>3. Go("sendKey", [cx EXCEPT !.tries = @ + 1], t) \/ KeyMissed(t)
    BY DEF NextTry, OutOfTime
  <1>4. QED
    BY <1>1, <1>2, <1>3, KeyMissing DEF TriesAgain

LEMMA TryingAgain ==
    ASSUME IInv, pc \in Exchanging, Elsewhere, keyed' = keyed, NEW t, Follows(tel, t), TriesAgain(t), hist'.parsed = hist.parsed
    PROVE  IInv' /\ Handing
  <1>1. pc # "idle" /\ cx.target \in Devices /\ (cx.sawInvalid \/ cx.sawTraffic => hist.packet)
    BY DEF IInv, TargetInv, ReportInv, Exchanging
  <1>2. CASE Finish("KEY_EXCHANGE_FAILED", t, registry)
    BY <1>1, <1>2, Failing
  <1>3. ASSUME NEW next \in {"keyInit", "sendKey"}, NEW c \in ContextType, Go(next, c, t),
               c.target = cx.target, c.sawInvalid = cx.sawInvalid, c.sawTraffic = cx.sawTraffic
        PROVE  IInv' /\ Handing
    <2>1. next \in Searching \cup Exchanging /\ next # "config"
      BY DEF Exchanging
    <2>2. c.sawInvalid \/ c.sawTraffic => hist'.packet
      BY <1>1, <1>3 DEF Elsewhere
    <2>3. QED
      BY <1>1, <1>3, <2>1, <2>2, Continuing
  <1>4. QED
    BY <1>2, <1>3 DEF TriesAgain

-----------------------------------------------------------------------------
(* The steps, one by one.                                                  *)

LEMMA Deferring ==
    ASSUME TypeInv, NEW k \in {0, 1}, NEW t, Follows(tel, t), NEW c \in Commands
    PROVE  /\ [hist EXCEPT !.defers = @ + k] \in HistoryType
           /\ [hist EXCEPT !.defers = @ + k].parsed = hist.parsed /\ [hist EXCEPT !.defers = @ + k].packet = hist.packet
           /\ Follows(tel, record_tx(Deferred(t, k), c))
  <1>1. hist \in HistoryType /\ tel \in TelemetryType /\ t \in TelemetryType
    BY DEF TypeInv, Follows
  <1>2. Follows(tel, Deferred(t, k))
    <2>1. Follows(t, record_lbt_defer(t))
      BY <1>1, Deferral
    <2>2. QED
      BY <1>1, <2>1, FollowsFollows DEF Deferred
  <1>3. Follows(tel, record_tx(Deferred(t, k), c))
    <2>1. Deferred(t, k) \in TelemetryType
      BY <1>2 DEF Follows
    <2>2. Follows(Deferred(t, k), record_tx(Deferred(t, k), c))
      BY <2>1, Sent
    <2>3. QED
      BY <1>1, <1>2, <2>2, FollowsFollows
  <1>4. QED
    BY <1>1, <1>3 DEF HistoryType

LEMMA Settling ==
    ASSUME TypeInv, NEW h \in HistoryType, Answered(h), h.parsed = hist.parsed, h.packet = hist.packet
    PROVE  Elsewhere /\ hist'.parsed = hist.parsed
  BY DEF Answered, Elsewhere

LEMMA Refusing ==
    ASSUME TypeInv, hist' = [hist EXCEPT !.txFails = @ + 1], UNCHANGED world
    PROVE  Elsewhere /\ hist'.parsed = hist.parsed /\ keyed' = keyed
  <1>1. hist \in HistoryType /\ keyed \subseteq Devices /\ air \in Seq(Answers(keyed))
    BY DEF TypeInv
  <1>2. hist' \in HistoryType /\ hist'.parsed = hist.parsed /\ hist'.packet = hist.packet
    BY <1>1 DEF HistoryType
  <1>3. QED
    BY <1>1, <1>2 DEF Elsewhere, world

LEMMA Expiring == ASSUME TypeInv, Expires PROVE Elsewhere /\ hist'.parsed = hist.parsed /\ keyed' = keyed
  <1>1. hist \in HistoryType /\ keyed \subseteq Devices /\ Late(air) \in Seq(Answers(keyed)) /\ keyed' = keyed
    BY Aging DEF TypeInv, Expires
  <1>2. PICK missed \in BOOLEAN :
          hist' = [hist EXCEPT !.losses = @ + (IF missed THEN 1 ELSE 0), !.late = @ \/ missed]
    BY DEF Expires
  <1>3. PICK n \in Nat, l \in BOOLEAN : hist' = [hist EXCEPT !.losses = n, !.late = l]
    <2> DEFINE n == hist.losses + (IF missed THEN 1 ELSE 0)
               l == hist.late \/ missed
    <2>1. n \in Nat
      BY <1>1 DEF HistoryType
    <2>2. l \in BOOLEAN
      OBVIOUS
    <2>3. hist' = [hist EXCEPT !.losses = n, !.late = l]
      BY <1>2
    <2> HIDE DEF n, l
    <2>4. QED
      BY <2>1, <2>2, <2>3
  <1>4. hist' \in HistoryType /\ hist'.parsed = hist.parsed /\ hist'.packet = hist.packet
    BY <1>1, <1>3 DEF HistoryType
  <1>5. QED
    BY <1>1, <1>4 DEF Elsewhere, Expires

\* The frame a wait is handed, and what is left of the air.
LEMMA Receiving ==
    ASSUME TypeInv, Receives, keyed' = keyed, air' \in {Tail(air), Late(Tail(air))}
    PROVE  /\ Head(air) \in Answers(keyed) /\ Heard(Head(air)) \in FrameType
           /\ keyed \subseteq Devices /\ air' \in Seq(Answers(keyed')) /\ hist \in HistoryType
           /\ (HeardIn => Elsewhere /\ hist'.parsed = TRUE /\ hist'.packet = TRUE)
           /\ (hist' = hist => Elsewhere /\ hist'.parsed = hist.parsed)
  <1>1. air \in Seq(Answers(keyed)) /\ air # <<>> /\ keyed \subseteq Devices /\ hist \in HistoryType
    BY DEF TypeInv, Receives
  <1>2. Head(air) \in Answers(keyed) /\ Tail(air) \in Seq(Answers(keyed)) /\ Late(Tail(air)) \in Seq(Answers(keyed))
    BY <1>1, Ageing
  <1>3. \A f \in AnswerType : Heard(f) \in FrameType
    BY DEF AnswerType, Heard, Frame, FrameType, Commands
  <1>4. Head(air) \in AnswerType
    BY <1>2 DEF Answers
  <1>5. HeardIn => hist' \in HistoryType /\ hist'.parsed = TRUE /\ hist'.packet = TRUE
    BY <1>1 DEF HeardIn, HistoryType
  <1>6. QED
    BY <1>1, <1>2, <1>3, <1>4, <1>5 DEF Elsewhere

LEMMA Starting == ASSUME IInv, Start PROVE IInv' /\ Handing
  <1>1. /\ pc = "idle" /\ pc' = "discover" /\ cx' = FreshContext /\ tel' = begin /\ hist' = FreshHistory
        /\ attached' = TRUE /\ fast' = fast /\ registry' = registry /\ keyed' = keyed /\ air' = air
    BY DEF Start, world
  <1>2. begin \in TelemetryType /\ begin.outcome = "NONE" /\ begin.paired = Nobody /\ begin.advice = {} /\ begin.heard = 0
    BY DEF begin, TelemetryType, Phases, Outcomes
  <1>3. FreshContext \in ContextType /\ FreshContext.sawInvalid = FALSE /\ FreshContext.sawTraffic = FALSE
    BY DEF FreshContext, ContextType
  <1>4. FreshHistory \in HistoryType /\ FreshHistory.parsed = FALSE
    BY DEF FreshHistory, HistoryType
  <1>5. TypeInv'
    BY <1>1, <1>2, <1>3, <1>4 DEF IInv, TypeInv, Searching
  <1>6. TargetInv'
    BY <1>1 DEF IInv, TargetInv, RegisteredIsKeyed, Exchanging
  <1>7. ReportInv'
    BY <1>1, <1>2, <1>3, <1>4 DEF ReportInv, OutcomeTruthful
  <1>8. Handing
    BY <1>1 DEF Handing, Handover!Next, Handover!Open
  <1>9. QED
    BY <1>5, <1>6, <1>7, <1>8 DEF IInv

LEMMA Discovering == ASSUME IInv, DiscoverTx PROVE IInv' /\ Handing
  <1>1. /\ TypeInv /\ pc = "discover" /\ pc # "idle" /\ tel \in TelemetryType /\ cx \in ContextType /\ hist \in HistoryType
        /\ keyed \subseteq Devices
    BY DEF IInv, TypeInv, DiscoverTx
  <1>2. Follows(tel, DiscoveryPhase)
    <2>1. "TX_DISCOVER" \in Phases /\ Follows(tel, increment_discovery_attempt(tel))
      BY <1>1, Deferral DEF Phases
    <2>2. Follows(increment_discovery_attempt(tel), DiscoveryPhase)
      BY <2>1, Phasing DEF DiscoveryPhase, Follows
    <2>3. QED
      BY <1>1, <2>1, <2>2, FollowsFollows
  <1>3. ASSUME NEW k \in {0, 1}, NEW h, h = [hist EXCEPT !.defers = @ + k], DevicesHearDiscovery(h) \/ Unheard(h),
               NEW t, t = record_tx(Deferred(DiscoveryPhase, k), "DISCOVER_REQ"),
               Go("waitDiscover", [cx EXCEPT !.sawTraffic = FALSE], record_hop(set_phase(t, "WAIT_DISCOVER_RESPONSE")))
        PROVE  IInv' /\ Handing
    <2> DEFINE c == [cx EXCEPT !.sawTraffic = FALSE]
               u == record_hop(set_phase(t, "WAIT_DISCOVER_RESPONSE"))
    <2>1. h \in HistoryType /\ h.parsed = hist.parsed /\ h.packet = hist.packet /\ Follows(tel, t)
      BY <1>1, <1>2, <1>3, Deferring DEF Commands
    <2>2. Elsewhere /\ hist'.parsed = hist.parsed /\ keyed' = keyed
      BY <1>1, <1>3, <2>1, DiscoveryHeard, NobodyHears, Settling
    <2>3. Follows(tel, u)
      <3>1. "WAIT_DISCOVER_RESPONSE" \in Phases /\ t \in TelemetryType
        BY <2>1 DEF Phases, Follows
      <3>2. Follows(t, set_phase(t, "WAIT_DISCOVER_RESPONSE"))
        BY <3>1, Phasing
      <3>3. Follows(set_phase(t, "WAIT_DISCOVER_RESPONSE"), u)
        BY <3>2, Deferral DEF Follows
      <3>4. QED
        BY <1>1, <2>1, <3>2, <3>3, FollowsFollows
    <2>4. c \in ContextType /\ c.sawInvalid = cx.sawInvalid /\ c.sawTraffic = FALSE
      BY <1>1 DEF ContextType
    <2>5. c.sawInvalid \/ c.sawTraffic => hist'.packet
      BY <2>2, <2>4 DEF IInv, ReportInv, Elsewhere
    <2>6. "waitDiscover" \in Searching \cup Exchanging /\ "waitDiscover" \notin Exchanging /\ "waitDiscover" # "config"
      BY DEF Searching, Exchanging
    <2>7. Go("waitDiscover", c, u)
      BY <1>3
    <2> HIDE DEF c, u
    <2>8. QED
      BY <1>1, <2>2, <2>3, <2>4, <2>5, <2>6, <2>7, Continuing
  <1>4. ASSUME TransmitFails(DiscoveryPhase, LAMBDA t : Finish("NO_RESPONSE", t, registry))
        PROVE  IInv' /\ Handing
    <2>1. hist' = [hist EXCEPT !.txFails = @ + 1] /\ UNCHANGED world /\ Finish("NO_RESPONSE", DiscoveryPhase, registry)
      BY <1>4 DEF TransmitFails
    <2>2. QED
      BY <1>1, <1>2, <2>1, Refusing, Failing
  <1>5. QED
    BY <1>3, <1>4 DEF DiscoverTx, Transmit

LEMMA Staying ==
    ASSUME IInv, pc # "idle", Elsewhere, keyed' = keyed, NEW t, Follows(tel, t), Go(pc, cx, t),
           hist'.parsed => hist.parsed \/ t.heard > 0
    PROVE  IInv' /\ Handing
  <1>1. pc \in Searching \cup Exchanging /\ cx \in ContextType
    BY DEF IInv, TypeInv
  <1>2. (pc \in Exchanging => cx.target \in Devices) /\ (pc = "config" => cx.target \in keyed')
    BY DEF IInv, TargetInv
  <1>3. cx.sawInvalid \/ cx.sawTraffic => hist'.packet
    BY DEF IInv, ReportInv, Elsewhere
  <1>4. QED
    BY <1>1, <1>2, <1>3, Continuing

\* Something was received in a discovery window.
LEMMA Disturbing ==
    ASSUME IInv, pc = "waitDiscover", Elsewhere, keyed' = keyed, hist'.packet, NEW t, Follows(tel, t),
           Go(pc, [cx EXCEPT !.sawTraffic = TRUE], t), hist'.parsed => hist.parsed \/ t.heard > 0
    PROVE  IInv' /\ Handing
  <1> DEFINE c == [cx EXCEPT !.sawTraffic = TRUE]
  <1>1. c \in ContextType
    BY DEF IInv, TypeInv, ContextType
  <1>2. pc # "idle" /\ pc \in Searching \cup Exchanging /\ pc \notin Exchanging /\ pc # "config"
    BY DEF Searching, Exchanging
  <1> HIDE DEF c
  <1>3. Go(pc, c, t)
    BY DEF c
  <1>4. QED
    BY <1>1, <1>2, <1>3, Continuing

LEMMA DiscoveryAnswered == ASSUME IInv, DiscoveryReceives PROVE IInv' /\ Handing
  <1> DEFINE f == Head(air)
  <1>1. /\ TypeInv /\ pc = "waitDiscover" /\ tel \in TelemetryType /\ cx \in ContextType /\ keyed' = keyed /\ Receives
        /\ air' \in {Tail(air), Late(Tail(air))} /\ HeardIn
    BY DEF IInv, TypeInv, DiscoveryReceives, Take
  <1>2. f \in Answers(keyed) /\ Heard(f) \in FrameType /\ Elsewhere /\ hist'.parsed = TRUE /\ hist'.packet = TRUE
    BY <1>1, Receiving
  <1>3. CASE is_discovery_response(f)
    <2> DEFINE c == [cx EXCEPT !.target = f.src]
               t == record_rx(tel, Heard(f))
    <2>1. f.src \in Devices
      BY <1>2, <1>3 DEF is_discovery_response, Answers
    <2>2. c \in ContextType /\ c.target = f.src
      BY <1>1, <2>1 DEF ContextType
    <2>3. Follows(tel, t) /\ t.heard > 0
      BY <1>1, <1>2, Hearing
    <2>4. Go("keyInit", c, t)
      BY <1>3 DEF DiscoveryReceives
    <2>5. "keyInit" \in Searching \cup Exchanging
      BY DEF Exchanging
    <2> HIDE DEF c, t
    <2>6. QED
      BY <1>1, <1>2, <2>1, <2>2, <2>3, <2>4, <2>5, Continuing
  <1>4. CASE ~is_discovery_response(f)
    <2> DEFINE t == record_rx_reject(tel, Heard(f))
    <2>1. Follows(tel, t) /\ t.heard > 0 /\ t \in TelemetryType
      BY <1>1, <1>2, Hearing DEF Follows
    <2>2. Follows(t, record_hop(t))
      BY <2>1, Deferral
    <2>3. Follows(tel, record_hop(t)) /\ record_hop(t).heard > 0
      BY <1>1, <2>1, <2>2, FollowsFollows DEF Follows, TelemetryType
    <2>4. Go(pc, [cx EXCEPT !.sawTraffic = TRUE], record_hop(t))
      BY <1>4 DEF DiscoveryReceives
    <2> HIDE DEF t
    <2>5. QED
      BY <1>1, <1>2, <2>3, <2>4, Disturbing
  <1>5. QED
    BY <1>3, <1>4

LEMMA DiscoveryMissed == ASSUME IInv, DiscoveryTimeout PROVE IInv' /\ Handing
  <1> DEFINE c == [cx EXCEPT !.sawInvalid = @ \/ cx.sawTraffic]
  <1>1. /\ TypeInv /\ pc # "idle" /\ tel \in TelemetryType /\ cx \in ContextType /\ Expires /\ Follows(tel, tel)
    BY DEF IInv, TypeInv, DiscoveryTimeout, Follows, TelemetryType
  <1>2. Elsewhere /\ hist'.parsed = hist.parsed /\ keyed' = keyed
    BY <1>1, Expiring
  <1>3. c \in ContextType /\ (c.sawInvalid \/ c.sawTraffic => cx.sawInvalid \/ cx.sawTraffic)
    <2> DEFINE i == cx.sawInvalid \/ cx.sawTraffic
    <2>1. i \in BOOLEAN
      OBVIOUS
    <2> HIDE DEF i
    <2>2. [cx EXCEPT !.sawInvalid = i] \in ContextType /\ [cx EXCEPT !.sawInvalid = i].sawInvalid = i
          /\ [cx EXCEPT !.sawInvalid = i].sawTraffic = cx.sawTraffic
      BY <1>1, <2>1 DEF ContextType
    <2>3. QED
      BY <2>2 DEF i
  <1>4. c.sawInvalid \/ c.sawTraffic => hist'.packet
    BY <1>2, <1>3 DEF IInv, ReportInv, Elsewhere
  <1> HIDE DEF c
  <1>5. "discover" \in Searching \cup Exchanging /\ "discover" \notin Exchanging /\ "discover" # "config"
    BY DEF Searching, Exchanging
  <1>6. ASSUME NEW n \in ContextType, n.sawInvalid = c.sawInvalid, n.sawTraffic = c.sawTraffic, Go("discover", n, tel)
        PROVE  IInv' /\ Handing
    BY <1>1, <1>2, <1>4, <1>5, <1>6, Continuing
  <1>7. CASE Go("discover", [c EXCEPT !.attempt = @ + 1], tel)
    <2>1. [c EXCEPT !.attempt = @ + 1] \in ContextType /\ [c EXCEPT !.attempt = @ + 1].sawInvalid = c.sawInvalid
          /\ [c EXCEPT !.attempt = @ + 1].sawTraffic = c.sawTraffic
      BY <1>3 DEF ContextType
    <2>2. QED
      BY <1>6, <1>7, <2>1
  <1>8. CASE Go("discover", [c EXCEPT !.command = @ + 1, !.attempt = 1], tel)
    <2> DEFINE n == [c EXCEPT !.command = @ + 1, !.attempt = 1]
    <2>1. c.command + 1 \in Nat /\ 1 \in Nat
      BY <1>3 DEF ContextType
    <2>2. \A i, j \in Nat : [c EXCEPT !.command = i, !.attempt = j] \in ContextType
      BY <1>3 DEF ContextType
    <2>3. n \in ContextType
      BY <2>1, <2>2, Zenon
    <2>4. n.sawInvalid = c.sawInvalid /\ n.sawTraffic = c.sawTraffic
      BY <1>3 DEF ContextType
    <2> HIDE DEF n
    <2>5. Go("discover", n, tel)
      BY <1>8 DEF n
    <2>6. QED
      BY <1>6, <2>3, <2>4, <2>5
  <1>9. CASE Finish(IF c.sawInvalid THEN "INVALID_RESPONSE" ELSE "NO_RESPONSE", tel, registry)
    BY <1>1, <1>2, <1>4, <1>9, Failing
  <1>10. QED
    BY <1>7, <1>8, <1>9 DEF DiscoveryTimeout, c

LEMMA KeyInitSending == ASSUME IInv, KeyInitTx PROVE IInv' /\ Handing
  <1> DEFINE p == InPhase(tel, "TX_KEY_INIT")
  <1>1. /\ TypeInv /\ pc = "keyInit" /\ pc # "idle" /\ pc \in Exchanging /\ tel \in TelemetryType /\ cx \in ContextType
        /\ hist \in HistoryType /\ cx.target \in Devices /\ Follows(tel, tel)
    BY DEF IInv, TypeInv, TargetInv, Exchanging, KeyInitTx, Follows, TelemetryType
  <1>2. Follows(tel, p)
    BY <1>1, Phasing DEF InPhase, Phases
  <1> HIDE DEF p
  <1>3. ASSUME NEW k \in {0, 1}, NEW h, h = [hist EXCEPT !.defers = @ + k], DeviceHearsKeyInit(cx.target, h) \/ Unheard(h),
               NEW t, t = record_tx(Deferred(p, k), "KEY_INIT"), Go("waitChallenge", cx, InPhase(t, "WAIT_KEY_CHALLENGE"))
        PROVE  IInv' /\ Handing
    <2>1. h \in HistoryType /\ h.parsed = hist.parsed /\ h.packet = hist.packet /\ Follows(tel, t)
      BY <1>1, <1>2, <1>3, Deferring DEF Commands
    <2>2. Elsewhere /\ hist'.parsed = hist.parsed /\ keyed' = keyed
      BY <1>1, <1>3, <2>1, KeyInitHeard, NobodyHears, Settling
    <2>3. Follows(tel, InPhase(t, "WAIT_KEY_CHALLENGE"))
      <3>1. t \in TelemetryType /\ "WAIT_KEY_CHALLENGE" \in Phases
        BY <2>1 DEF Follows, Phases
      <3>2. Follows(t, set_phase(t, "WAIT_KEY_CHALLENGE"))
        BY <3>1, Phasing
      <3>3. Follows(tel, set_phase(t, "WAIT_KEY_CHALLENGE"))
        BY <1>1, <2>1, <3>2, FollowsFollows
      <3>4. QED
        BY <2>1, <3>3 DEF InPhase
    <2>4. cx.sawInvalid \/ cx.sawTraffic => hist'.packet
      BY <2>2 DEF IInv, ReportInv, Elsewhere
    <2>5. "waitChallenge" \in Searching \cup Exchanging /\ "waitChallenge" # "config"
      BY DEF Exchanging
    <2>6. QED
      BY <1>1, <1>3, <2>2, <2>3, <2>4, <2>5, Continuing
  <1>4. ASSUME TransmitFails(p, NoChallenge) PROVE IInv' /\ Handing
    <2>1. hist' = [hist EXCEPT !.txFails = @ + 1] /\ UNCHANGED world /\ NoChallenge(p)
      BY <1>4 DEF TransmitFails
    <2>2. QED
      BY <1>1, <1>2, <2>1, Refusing, ChallengeMissing, TryingAgain
  <1>5. QED
    BY <1>3, <1>4 DEF KeyInitTx, Transmit, p

LEMMA ChallengeAnswered == ASSUME IInv, ChallengeReceives PROVE IInv' /\ Handing
  <1> DEFINE f == Head(air)
             t == record_rx(tel, Heard(f))
  <1>1. /\ TypeInv /\ pc = "waitChallenge" /\ pc # "idle" /\ pc \in Exchanging /\ tel \in TelemetryType /\ cx \in ContextType
        /\ keyed' = keyed /\ Receives /\ air' \in {Tail(air), Late(Tail(air))} /\ HeardIn /\ cx.target \in Devices
    BY DEF IInv, TypeInv, TargetInv, Exchanging, ChallengeReceives, Take
  <1>2. f \in Answers(keyed) /\ Heard(f) \in FrameType /\ Elsewhere /\ hist'.packet = TRUE
    BY <1>1, Receiving
  <1>3. Follows(tel, t) /\ t.heard > 0 /\ t \in TelemetryType
    BY <1>1, <1>2, Hearing DEF Follows
  <1>4. CASE frame_is_key_confirm(f) /\ f.src = cx.target /\ Go("config", cx, t)
    <2>1. cx.target \in keyed'
      BY <1>1, <1>2, <1>4, PairingAssumption DEF frame_is_key_confirm, Answers
    <2>2. "config" \in Searching \cup Exchanging
      BY DEF Exchanging
    <2> HIDE DEF t
    <2>3. QED
      BY <1>1, <1>2, <1>3, <1>4, <2>1, <2>2, Continuing
  <1>5. CASE TransferKey(f, t)
    <2> DEFINE c == [cx EXCEPT !.challenge = f.nonce, !.tries = 1]
               u == set_phase(set_phase(t, "TX_KEY_TRANSFER"), "WAIT_KEY_CONFIRM")
    <2>1. c \in ContextType
      <3>1. f.nonce \in Nonces \cup {0} /\ 1 \in Nat
        BY <1>2 DEF Answers, AnswerType
      <3>2. \A n \in Nonces \cup {0}, i \in Nat : [cx EXCEPT !.challenge = n, !.tries = i] \in ContextType
        BY <1>1 DEF ContextType
      <3>3. QED
        BY <3>1, <3>2, Zenon
    <2>2. c.target = cx.target
      BY <1>1 DEF ContextType
    <2>3. Follows(tel, u) /\ u.heard > 0
      <3>1. "TX_KEY_TRANSFER" \in Phases /\ "WAIT_KEY_CONFIRM" \in Phases
        BY DEF Phases
      <3> HIDE DEF t
      <3>2. Follows(t, set_phase(t, "TX_KEY_TRANSFER"))
        BY <1>3, <3>1, Phasing
      <3>3. Follows(set_phase(t, "TX_KEY_TRANSFER"), u)
        BY <3>1, <3>2, Phasing DEF Follows
      <3>4. Follows(t, u)
        BY <1>3, <3>2, <3>3, FollowsFollows
      <3> HIDE DEF u
      <3>5. Follows(tel, u)
        BY <1>1, <1>3, <3>4, FollowsFollows
      <3>6. u.heard > 0
        BY <1>3, <3>4 DEF Follows, TelemetryType
      <3>7. QED
        BY <3>5, <3>6
    <2>4. "sendKey" \in Searching \cup Exchanging /\ "sendKey" # "config"
      BY DEF Exchanging
    <2>5. Go("sendKey", c, u)
      BY <1>5 DEF TransferKey
    <2> HIDE DEF c, u
    <2>6. QED
      BY <1>1, <1>2, <2>1, <2>2, <2>3, <2>4, <2>5, Continuing
  <1>6. CASE Go(pc, cx, record_rx_reject(tel, Heard(f)))
    <2>1. Follows(tel, record_rx_reject(tel, Heard(f))) /\ record_rx_reject(tel, Heard(f)).heard > 0
      BY <1>1, <1>2, Hearing
    <2>2. QED
      BY <1>1, <1>2, <1>6, <2>1, Staying
  <1>7. QED
    BY <1>4, <1>5, <1>6 DEF ChallengeReceives

LEMMA ChallengeMissed == ASSUME IInv, ChallengeTimeout PROVE IInv' /\ Handing
  <1>1. TypeInv /\ pc \in Exchanging /\ cx \in ContextType /\ Follows(tel, tel) /\ Expires /\ NoChallenge(tel)
    BY DEF IInv, TypeInv, Exchanging, ChallengeTimeout, Follows, TelemetryType
  <1>2. QED
    BY <1>1, Expiring, ChallengeMissing, TryingAgain

LEMMA KeySending == ASSUME IInv, KeyTx PROVE IInv' /\ Handing
  <1>1. /\ TypeInv /\ pc = "sendKey" /\ pc # "idle" /\ pc \in Exchanging /\ tel \in TelemetryType /\ cx \in ContextType
        /\ hist \in HistoryType /\ cx.target \in Devices /\ Follows(tel, tel)
    BY DEF IInv, TypeInv, TargetInv, Exchanging, KeyTx, Follows, TelemetryType
  <1>2. ASSUME NEW k \in {0, 1}, NEW h, h = [hist EXCEPT !.defers = @ + k], DeviceHearsKey(cx.target, h) \/ Unheard(h),
               NEW t, t = record_tx(Deferred(tel, k), "KEY_TRANSFER"), Go("waitConfirm", cx, t)
        PROVE  IInv' /\ Handing
    <2>1. h \in HistoryType /\ h.parsed = hist.parsed /\ h.packet = hist.packet /\ Follows(tel, t)
      BY <1>1, <1>2, Deferring DEF Commands
    <2>2. Elsewhere /\ hist'.parsed = hist.parsed /\ keyed' \in {keyed, keyed \cup {cx.target}}
      BY <1>1, <1>2, <2>1, KeyHeard, NobodyHears, Settling
    <2>3. cx.sawInvalid \/ cx.sawTraffic => hist'.packet
      BY <2>2 DEF IInv, ReportInv, Elsewhere
    <2>4. "waitConfirm" \in Searching \cup Exchanging /\ "waitConfirm" # "config"
      BY DEF Exchanging
    <2>5. QED
      BY <1>1, <1>2, <2>1, <2>2, <2>3, <2>4, Continuing
  <1>3. ASSUME TransmitFails(tel, LAMBDA t : NextTry(t) \/ OutOfTime(t)) PROVE IInv' /\ Handing
    <2>1. hist' = [hist EXCEPT !.txFails = @ + 1] /\ UNCHANGED world /\ (NextTry(tel) \/ OutOfTime(tel))
      BY <1>3 DEF TransmitFails
    <2>2. QED
      BY <1>1, <2>1, Refusing, ConfirmMissing, TryingAgain
  <1>4. QED
    BY <1>2, <1>3 DEF KeyTx, Transmit

\* The device confirmed: it is the target, and what it sends as a confirmation says that it holds the key.
LEMMA Confirming ==
    ASSUME IInv, pc \in Exchanging, Elsewhere, keyed' = keyed, NEW t, Follows(tel, t), hist'.parsed = hist.parsed,
           Head(air) \in Answers(keyed), frame_is_key_confirm(Head(air)), Head(air).src = cx.target, Go("config", cx, t)
    PROVE  IInv' /\ Handing
  <1>1. cx \in ContextType /\ cx.target \in Devices /\ pc # "idle"
    BY DEF IInv, TypeInv, TargetInv, Exchanging
  <1>2. cx.target \in keyed'
    BY <1>1, PairingAssumption DEF frame_is_key_confirm, Answers
  <1>3. cx.sawInvalid \/ cx.sawTraffic => hist'.packet
    BY DEF IInv, ReportInv, Elsewhere
  <1>4. "config" \in Searching \cup Exchanging
    BY DEF Exchanging
  <1>5. QED
    BY <1>1, <1>2, <1>3, <1>4, Continuing

LEMMA SlowConfirmation == ASSUME IInv, ConfirmReceivesSlow PROVE IInv' /\ Handing
  <1> DEFINE f == Head(air)
  <1>1. /\ TypeInv /\ pc # "idle" /\ pc \in Exchanging /\ tel \in TelemetryType /\ cx \in ContextType
        /\ keyed' = keyed /\ hist' = hist /\ Receives /\ air' \in {Tail(air), Late(Tail(air))} /\ Follows(tel, tel)
    BY DEF IInv, TypeInv, Exchanging, ConfirmReceivesSlow, Take, Follows, TelemetryType
  <1>2. f \in Answers(keyed) /\ Heard(f) \in FrameType /\ Elsewhere /\ hist'.parsed = hist.parsed
    BY <1>1, Receiving
  <1>3. Follows(tel, record_rx(tel, Heard(f))) /\ Follows(tel, record_rx_reject(tel, Heard(f)))
    BY <1>1, <1>2, Hearing
  <1>4. CASE f.src = cx.target /\ frame_is_key_confirm(f) /\ Go("config", cx, record_rx(tel, Heard(f)))
    BY <1>1, <1>2, <1>3, <1>4, Confirming
  <1>5. CASE KeyMissed(record_rx_reject(tel, Heard(f)))
    BY <1>1, <1>2, <1>3, <1>5, KeyMissing, TryingAgain
  <1>6. CASE Go(pc, cx, tel)
    BY <1>1, <1>2, <1>6, Staying
  <1>7. QED
    BY <1>4, <1>5, <1>6 DEF ConfirmReceivesSlow

LEMMA FastConfirmation == ASSUME IInv, ConfirmReceivesFast PROVE IInv' /\ Handing
  <1> DEFINE f == Head(air)
             t == record_tx(tel, "CHALLENGE_RESP")
  <1>1. /\ TypeInv /\ pc # "idle" /\ pc \in Exchanging /\ tel \in TelemetryType /\ cx \in ContextType /\ cx.target \in Devices
        /\ keyed' = keyed /\ hist' = hist /\ Receives /\ air' \in {Tail(air), Late(Tail(air))} /\ Follows(tel, tel)
    BY DEF IInv, TypeInv, TargetInv, Exchanging, ConfirmReceivesFast, Take, Follows, TelemetryType
  <1>2. f \in Answers(keyed) /\ Elsewhere /\ hist'.parsed = hist.parsed
    BY <1>1, Receiving
  <1>3. Follows(tel, t)
    BY <1>1, Sent DEF Commands
  <1>4. CASE f.src = cx.target /\ frame_is_key_confirm(f) /\ Go("config", cx, tel)
    BY <1>1, <1>2, <1>4, Confirming
  <1>5. CASE Go("waitFinal", cx, t)
    <2>1. "waitFinal" \in Searching \cup Exchanging /\ "waitFinal" # "config"
      BY DEF Exchanging
    <2>2. cx.sawInvalid \/ cx.sawTraffic => hist'.packet
      BY <1>2 DEF IInv, ReportInv, Elsewhere
    <2> HIDE DEF t
    <2>3. QED
      BY <1>1, <1>2, <1>3, <1>5, <2>1, <2>2, Continuing
  <1>6. CASE KeyMissed(tel)
    BY <1>1, <1>2, <1>6, KeyMissing, TryingAgain
  <1>7. CASE Go(pc, cx, tel)
    BY <1>1, <1>2, <1>7, Staying
  <1>8. QED
    BY <1>4, <1>5, <1>6, <1>7 DEF ConfirmReceivesFast

LEMMA ConfirmMissed == ASSUME IInv, ConfirmTimeout PROVE IInv' /\ Handing
  <1>1. TypeInv /\ pc \in Exchanging /\ cx \in ContextType /\ Follows(tel, tel) /\ Expires /\ (NextTry(tel) \/ OutOfTime(tel))
    BY DEF IInv, TypeInv, Exchanging, ConfirmTimeout, Follows, TelemetryType
  <1>2. QED
    BY <1>1, Expiring, ConfirmMissing, TryingAgain

LEMMA AuthenticationLost == ASSUME IInv, AuthenticationFails PROVE IInv' /\ Handing
  <1>1. /\ TypeInv /\ pc \in Exchanging /\ cx \in ContextType /\ Follows(tel, tel) /\ keyed' = keyed /\ Receives
        /\ air' \in {Tail(air), Late(Tail(air))} /\ hist' = [hist EXCEPT !.txFails = @ + 1]
        /\ NextTry(tel) \/ OutOfTime(tel)
    BY DEF IInv, TypeInv, Exchanging, AuthenticationFails, Follows, TelemetryType
  <1>2. air' \in Seq(Answers(keyed')) /\ keyed \subseteq Devices /\ hist \in HistoryType
    BY <1>1, Receiving
  <1>3. hist' \in HistoryType /\ hist'.parsed = hist.parsed /\ hist'.packet = hist.packet
    BY <1>1, <1>2 DEF HistoryType
  <1>4. Elsewhere
    BY <1>1, <1>2, <1>3 DEF Elsewhere
  <1>5. QED
    BY <1>1, <1>3, <1>4, ConfirmMissing, TryingAgain

LEMMA Registering == ASSUME IInv, RegisterDevice PROVE IInv' /\ Handing
  <1>1. PICK sent \in BOOLEAN, config_ok \in BOOLEAN, n \in 0..Len(air) :
          LET t == set_phase(IF sent THEN record_tx(tel, "SET_CONFIG1") ELSE tel, "REGISTER_DEVICE")
          IN  /\ Finish(IF config_ok THEN "PAIRED" ELSE "CONFIG_FAILED",
                        set_phase(set_paired_device(t, cx.target), "COMPLETE"), registry \cup {cx.target})
              /\ air' = SubSeq(air, n + 1, Len(air))
    BY DEF RegisterDevice
  <1>2. /\ pc = "config" /\ tel \in TelemetryType /\ hist \in HistoryType /\ air \in Seq(Answers(keyed))
        /\ keyed \subseteq Devices /\ registry \subseteq keyed
        /\ cx.target \in Devices /\ cx.target \in keyed /\ keyed' = keyed /\ hist' = hist
        /\ (hist.parsed => tel.heard > 0) /\ tel.heard \in Nat /\ fast \in BOOLEAN
    BY DEF IInv, TypeInv, TargetInv, ReportInv, RegisteredIsKeyed, Exchanging, RegisterDevice, TelemetryType
  <1> DEFINE s == IF sent THEN record_tx(tel, "SET_CONFIG1") ELSE tel
             t == set_phase(s, "REGISTER_DEVICE")
             p == set_paired_device(t, cx.target)
             u == set_phase(p, "COMPLETE")
             o == IF config_ok THEN "PAIRED" ELSE "CONFIG_FAILED"
  <1>3. "SET_CONFIG1" \in Commands /\ "REGISTER_DEVICE" \in Phases /\ "COMPLETE" \in Phases /\ o \in Outcomes /\ o # "NONE"
        /\ o \in {"PAIRED", "CONFIG_FAILED"}
    BY DEF Commands, Phases, Outcomes
  <1>4. s \in TelemetryType /\ s.heard \in Nat /\ s.heard >= tel.heard
    BY <1>2, <1>3, Sent DEF Follows, TelemetryType
  <1>5. t \in TelemetryType /\ t.heard \in Nat /\ t.heard >= s.heard
    <2> HIDE DEF s
    <2>1. QED
      BY <1>3, <1>4, Phasing DEF Follows, TelemetryType
  <1>6. p \in TelemetryType /\ p.heard \in Nat /\ p.heard = t.heard /\ p.paired = cx.target
    <2> HIDE DEF t
    <2>1. QED
      BY <1>2, <1>5 DEF set_paired_device, TelemetryType
  <1>7. u \in TelemetryType /\ u.heard \in Nat /\ u.heard >= p.heard /\ u.paired = cx.target
    <2> HIDE DEF p
    <2>1. QED
      BY <1>3, <1>6, Phasing DEF Follows, TelemetryType
  <1>8. hist.parsed => u.heard > 0
    <2> HIDE DEF s, t, p, u
    <2>1. QED
      BY <1>2, <1>4, <1>5, <1>6, <1>7
  <1>9. Finish(o, u, registry \cup {cx.target}) /\ air' = SubSeq(air, n + 1, Len(air))
    BY <1>1
  <1> HIDE DEF s, t, p, u, o
  <1>10. /\ pc' = "idle" /\ cx' = FreshContext /\ tel' = finish(u, o, "hub") /\ attached' = FALSE /\ fast' = fast
         /\ registry' = registry \cup {cx.target}
    BY <1>9 DEF Finish
  <1>11. /\ tel' \in TelemetryType /\ tel'.outcome = o /\ tel'.paired = cx.target /\ tel'.heard = u.heard
         /\ "rf_silent" \in tel'.advice => u.heard = 0
    BY <1>3, <1>7, <1>10, Finishing
  <1>12. air' \in Seq(Answers(keyed'))
    <2>1. Len(air) \in Nat /\ (\A i \in 1..Len(air) : air[i] \in Answers(keyed))
      BY <1>2, LenProperties, ElementOfSeq
    <2>2. QED
      BY <1>2, <1>9, <2>1, SubSeqProperties
  <1>13. FreshContext \in ContextType /\ FreshContext.sawInvalid = FALSE /\ FreshContext.sawTraffic = FALSE
    BY DEF FreshContext, ContextType
  <1>14. TypeInv'
    BY <1>2, <1>10, <1>11, <1>12, <1>13 DEF TypeInv
  <1>15. TargetInv'
    BY <1>2, <1>10 DEF TargetInv, RegisteredIsKeyed, Exchanging
  <1>16. OutcomeTruthful'
    BY <1>2, <1>3, <1>8, <1>10, <1>11, PairingAssumption DEF OutcomeTruthful
  <1>17. ReportInv'
    BY <1>2, <1>8, <1>10, <1>11, <1>13, <1>16 DEF ReportInv
  <1>18. Handing
    BY <1>2, <1>10 DEF Handing, Handover!Next, Handover!Take
  <1>19. QED
    BY <1>14, <1>15, <1>17, <1>18 DEF IInv

LEMMA Hopping == ASSUME IInv, Hop PROVE IInv' /\ Handing
  <1>1. /\ pc # "idle" /\ tel \in TelemetryType /\ keyed' = keyed /\ hist' = hist /\ Go(pc, cx, record_hop(tel))
        /\ hist \in HistoryType /\ keyed \subseteq Devices /\ air' \in Seq(Answers(keyed))
    BY DEF IInv, TypeInv, Hop, world
  <1>2. Follows(tel, record_hop(tel)) /\ Elsewhere
    BY <1>1, Deferral DEF Elsewhere
  <1>3. QED
    BY <1>1, <1>2, Staying

\* Steps of the world alone.
LEMMA Drifting ==
    ASSUME IInv, UNCHANGED hub, keyed' = keyed, air' \in Seq(Answers(keyed)), hist' \in HistoryType,
           hist'.packet = hist.packet, hist'.parsed = hist.parsed
    PROVE  IInv' /\ Handing
  <1>1. pc' = pc /\ fast' = fast /\ cx' = cx /\ tel' = tel /\ attached' = attached /\ registry' = registry
    BY DEF hub
  <1>2. TypeInv'
    BY <1>1 DEF IInv, TypeInv
  <1>3. TargetInv'
    BY <1>1 DEF IInv, TargetInv, RegisteredIsKeyed
  <1>4. OutcomeTruthful'
    BY <1>1 DEF IInv, ReportInv, OutcomeTruthful
  <1>5. ReportInv'
    BY <1>1, <1>4 DEF IInv, ReportInv
  <1>6. QED
    BY <1>1, <1>2, <1>3, <1>5 DEF IInv, Handing, Handover!vars

LEMMA Losing == ASSUME IInv, AnswerLost PROVE IInv' /\ Handing
  <1>1. UNCHANGED hub /\ keyed' = keyed /\ hist' = hist /\ air' = Tail(air) /\ air # <<>>
    BY DEF AnswerLost, Receives, Take
  <1>2. air \in Seq(Answers(keyed)) /\ hist \in HistoryType
    BY DEF IInv, TypeInv
  <1>3. air' \in Seq(Answers(keyed)) /\ hist' \in HistoryType
    BY <1>1, <1>2, Ageing
  <1>4. QED
    BY <1>1, <1>3, Drifting

LEMMA Intruding == ASSUME IInv, OtherAnswers PROVE IInv' /\ Handing
  <1>1. UNCHANGED hub /\ keyed' = keyed /\ hist' = [hist EXCEPT !.noise = @ + 1]
    BY DEF OtherAnswers
  <1>2. air \in Seq(Answers(keyed)) /\ hist \in HistoryType
    BY DEF IInv, TypeInv
  <1>3. hist' \in HistoryType /\ hist'.packet = hist.packet /\ hist'.parsed = hist.parsed
    BY <1>1, <1>2 DEF HistoryType
  <1>4. air' \in Seq(Answers(keyed))
    <2>1. PICK cmd \in {"KEY_CONFIRM", "CHALLENGE_REQ"} : air' = Late(<<Reply(cmd, "stranger", 0)>>) \o air
      BY DEF OtherAnswers
    <2>2. Reply(cmd, "stranger", 0) \in Answers(keyed)
      BY DEF Reply, Answers, AnswerType
    <2>3. \A x \in Answers(keyed) : <<x>> \in Seq(Answers(keyed))
      OBVIOUS
    <2>4. Late(<<Reply(cmd, "stranger", 0)>>) \in Seq(Answers(keyed))
      BY <2>2, <2>3, Aging
    <2>5. QED
      BY <1>2, <2>1, <2>4, ConcatProperties
  <1>5. QED
    BY <1>1, <1>3, <1>4, Drifting

LEMMA Disturbed == ASSUME IInv, Noise PROVE IInv' /\ Handing
  <1> DEFINE h == [hist EXCEPT !.noise = @ + 1, !.packet = TRUE]
             g == [h EXCEPT !.parsed = TRUE]
             moved(t) == IF pc = "waitDiscover" THEN record_hop(t) ELSE t
             c == IF pc = "waitDiscover" THEN [cx EXCEPT !.sawTraffic = TRUE] ELSE cx
  <1>1. /\ pc # "idle" /\ tel \in TelemetryType /\ hist \in HistoryType /\ keyed \subseteq Devices /\ air \in Seq(Answers(keyed))
        /\ keyed' = keyed /\ air' = air /\ pc \in {"waitDiscover", "waitChallenge"} /\ Follows(tel, tel)
    BY DEF IInv, TypeInv, Noise, world, Follows, TelemetryType
  <1>2. h \in HistoryType /\ h.packet = TRUE /\ h.parsed = hist.parsed
    <2>1. hist.noise + 1 \in Nat /\ TRUE \in BOOLEAN
      BY <1>1 DEF HistoryType
    <2>2. \A i \in Nat, b \in BOOLEAN :
            LET x == [hist EXCEPT !.noise = i, !.packet = b] IN x \in HistoryType /\ x.packet = b /\ x.parsed = hist.parsed
      BY <1>1 DEF HistoryType
    <2>3. QED
      BY <2>1, <2>2, Zenon
  <1>3. g \in HistoryType /\ g.packet = TRUE
    BY <1>2 DEF HistoryType
  <1>4. ASSUME NEW t, Follows(tel, t), Go(pc, c, moved(t)), hist' \in {h, g}, hist'.parsed => hist.parsed \/ t.heard > 0
        PROVE  IInv' /\ Handing
    <2>1. Elsewhere /\ hist'.packet
      BY <1>1, <1>2, <1>3, <1>4 DEF Elsewhere
    <2>2. t \in TelemetryType /\ t.heard \in Nat
      BY <1>4 DEF Follows, TelemetryType
    <2>3. CASE pc = "waitDiscover"
      <3>1. Follows(t, record_hop(t))
        BY <2>2, Deferral
      <3>2. Follows(tel, record_hop(t))
        BY <1>1, <1>4, <3>1, FollowsFollows
      <3>3. hist'.parsed => hist.parsed \/ record_hop(t).heard > 0
        BY <1>4, <2>2, <3>1 DEF Follows, TelemetryType
      <3>4. Go(pc, [cx EXCEPT !.sawTraffic = TRUE], record_hop(t))
        BY <1>4, <2>3
      <3>5. QED
        BY <1>1, <2>1, <2>3, <3>2, <3>3, <3>4, Disturbing
    <2>4. CASE pc # "waitDiscover"
      <3>1. Go(pc, cx, t)
        BY <1>4, <2>4
      <3>2. QED
        BY <1>1, <1>4, <2>1, <3>1, Staying
    <2>5. QED
      BY <2>3, <2>4
  <1>5. ASSUME NEW f \in ForeignFrames, Go(pc, c, moved(record_rx_reject(tel, f))), hist' = g
        PROVE  IInv' /\ Handing
    <2>1. f \in FrameType
      <3>1. \A cmd \in Commands, dst \in {"other", "BROADCAST"}, w \in BOOLEAN : Frame(cmd, "stranger", dst, w) \in FrameType
        BY DEF Frame, FrameType
      <3>2. "DISCOVER_RESP" \in Commands /\ "WRITE_PRIVATE" \in Commands
        BY DEF Commands
      <3>3. QED
        BY <3>1, <3>2 DEF ForeignFrames
    <2>2. Follows(tel, record_rx_reject(tel, f)) /\ record_rx_reject(tel, f).heard > 0
      BY <1>1, <2>1, Hearing
    <2> HIDE DEF c, moved
    <2>3. QED
      BY <1>4, <1>5, <2>2
  <1>6. ASSUME Go(pc, c, moved(tel)), hist' = h PROVE IInv' /\ Handing
    <2> HIDE DEF c, moved
    <2>1. QED
      BY <1>1, <1>2, <1>4, <1>6
  <1>7. QED
    BY <1>5, <1>6 DEF Noise

LEMMA Initially == Init => IInv
  <1> SUFFICES ASSUME Init PROVE IInv
    OBVIOUS
  <1>1. begin \in TelemetryType /\ begin.outcome = "NONE" /\ begin.paired = Nobody /\ begin.advice = {} /\ begin.heard = 0
    BY DEF begin, TelemetryType, Phases, Outcomes
  <1>2. FreshContext \in ContextType /\ FreshContext.sawInvalid = FALSE /\ FreshContext.sawTraffic = FALSE
    BY DEF FreshContext, ContextType
  <1>3. FreshHistory \in HistoryType /\ FreshHistory.parsed = FALSE
    BY DEF FreshHistory, HistoryType
  <1>4. TypeInv
    <2>1. attached \in BOOLEAN /\ fast \in BOOLEAN
      BY DEF Init
    <2>2. air \in Seq(Answers(keyed))
      BY DEF Init
    <2>3. QED
      BY <1>1, <1>2, <1>3, <2>1, <2>2 DEF Init, TypeInv
  <1>5. TargetInv
    BY DEF Init, TargetInv, RegisteredIsKeyed, Exchanging
  <1>6. ReportInv
    BY <1>1, <1>2, <1>3 DEF Init, ReportInv, OutcomeTruthful
  <1>7. QED
    BY <1>4, <1>5, <1>6 DEF IInv

LEMMA Stuttering == ASSUME IInv, UNCHANGED vars PROVE IInv' /\ Handing
  <1>1. UNCHANGED hub /\ keyed' = keyed /\ air' = air /\ hist' = hist
    BY DEF vars, world
  <1>2. air \in Seq(Answers(keyed)) /\ hist \in HistoryType
    BY DEF IInv, TypeInv
  <1>3. QED
    BY <1>1, <1>2, Drifting

LEMMA EveryStep == ASSUME IInv, [Next]_vars PROVE IInv' /\ Handing
  <1>1. CASE HubSteps
    BY <1>1, Discovering, DiscoveryAnswered, DiscoveryMissed, KeyInitSending, ChallengeAnswered, ChallengeMissed, KeySending,
       SlowConfirmation, FastConfirmation, AuthenticationLost, ConfirmMissed, Registering DEF HubSteps
  <1>2. CASE UNCHANGED vars
    BY <1>2, Stuttering
  <1>3. QED
    BY <1>1, <1>2, Starting, Hopping, Losing, Disturbed, Intruding DEF Next

-----------------------------------------------------------------------------
(***************************************************************************)
(* The inductive invariant holds throughout.                               *)
(***************************************************************************)
THEOREM Invariance == Spec => []IInv
  BY Initially, EveryStep, PTL DEF Spec

(***************************************************************************)
(* What the hub registers holds the key: no late answer, no refusal and no *)
(* frame of another node passes for the confirmation of the target.        *)
(***************************************************************************)
THEOREM RegisteredHoldsTheKey == Spec => []RegisteredIsKeyed
  <1>1. IInv => RegisteredIsKeyed
    BY DEF IInv, TargetInv
  <1>2. QED
    BY <1>1, Invariance, PTL

(***************************************************************************)
(* The outcome finish_pairing_attempt_ reports, and the advice drawn from  *)
(* it, are what happened, whatever the length of the log and its counters. *)
(***************************************************************************)
THEOREM ReportsWhatHappened == Spec => []OutcomeTruthful
  <1>1. IInv => OutcomeTruthful
    BY DEF IInv, ReportInv
  <1>2. QED
    BY <1>1, Invariance, PTL

(***************************************************************************)
(* Every step of the engine is one of KeyHandover or none: the device gets *)
(* the key before the hub counts it as paired, and a failed attempt leaves *)
(* the hub as it was.                                                      *)
(***************************************************************************)
THEOREM KeepsTheContract == Spec => Handover!Init /\ [][Handover!Next]_(Handover!vars)
  <1>1. Init => Handover!Init
    BY DEF Init, Handover!Init
  <1>2. IInv /\ [Next]_vars => [Handover!Next]_(Handover!vars)
    BY EveryStep DEF Handing
  <1>3. QED
    BY <1>1, <1>2, Invariance, PTL DEF Spec

-----------------------------------------------------------------------------
(* The ledger of an attempt: a window closes without the answer it is for  *)
(* only if a frame was lost since it was opened.                           *)

\* Nothing has befallen the attempt that it need not survive.
Clean == ~hist.late /\ hist.txFails = 0 /\ ~hist.refused

\* Discovery transmissions before attempt a of command c.
Before(c, a) == (c - 1) * PAIRING_DISCOVERY_MAX_ATTEMPTS + (a - 1)

\* No answer of d, or of any of the devices, is under way.
Without(s, d) == \A i \in 1..Len(s) : s[i].src # d
NoDevice(s) == \A i \in 1..Len(s) : s[i].src \notin Devices

\* The answer x is due: it comes last, and nothing else of its sender is under way.
Due(s, x) == s # <<>> /\ s[Len(s)] = x /\ ~x.late /\ \A i \in 1..Len(s) : i < Len(s) => s[i].src # x.src

\* A discovery response is due, and no device has two answers under way.
DiscoveryDue(s) ==
    /\ s # <<>> /\ ~s[Len(s)].late /\ s[Len(s)].cmd = "DISCOVER_RESP"
    /\ \A i, j \in 1..Len(s) : i # j /\ s[i].src = s[j].src => s[i].src \notin Devices

\* What the target owes in a window of the key exchange, or the loss was paid for.
Challenges(x) == x.cmd = "CHALLENGE_REQ" /\ x.nonce = nonce[cx.target]
Confirms(x) == x.cmd = "KEY_CONFIRM"
OwesChallenge == \E x \in Answers(keyed) : Due(air, x) /\ x.src = cx.target /\ (Challenges(x) \/ Confirms(x))
OwesConfirmation == \E x \in Answers(keyed) : Due(air, x) /\ x.src = cx.target /\ Confirms(x)
Paid == Without(air, cx.target) /\ hist.losses >= cx.ke

\* The target can make sense of the key it is sent.
Understood == cx.target \in keyed \/ cx.challenge = nonce[cx.target]

Ledger ==
    /\ pc = "discover" => NoDevice(air) /\ hist.losses >= Before(cx.command, cx.attempt)
    /\ pc = "waitDiscover" =>
         /\ hist.losses >= Before(cx.command, cx.attempt)
         /\ DiscoveryDue(air) \/ (NoDevice(air) /\ hist.losses > Before(cx.command, cx.attempt))
    /\ pc \in {"discover", "waitDiscover"} => cx.ke = 1
    /\ pc \in {"keyInit", "sendKey"} => Without(air, cx.target)
    /\ pc \in {"keyInit", "waitChallenge", "sendKey", "waitConfirm"} => hist.losses >= cx.ke - 1
    /\ pc = "waitChallenge" => OwesChallenge \/ Paid
    /\ pc = "waitConfirm" => OwesConfirmation \/ Paid
    /\ pc \in {"sendKey", "waitConfirm"} => Understood
    /\ pc # "waitFinal"

LedgerInv == nonce \in [Devices -> Nonces \cup {0}] /\ (Clean => Ledger) /\ ToleratesLosses

-----------------------------------------------------------------------------
(* Answers under way.                                                      *)

LEMMA Positions ==
    ASSUME NEW S, NEW s \in Seq(S)
    PROVE  /\ Len(s) \in Nat /\ (s # <<>> <=> Len(s) > 0) /\ DOMAIN s = 1..Len(s)
           /\ \A i \in 1..Len(s) : s[i] \in S
  <1>1. Len(s) \in Nat /\ DOMAIN s = 1..Len(s) /\ \A i \in 1..Len(s) : s[i] \in S
    BY LenProperties, ElementOfSeq
  <1>2. s # <<>> <=> Len(s) > 0
    BY <1>1, EmptySeq
  <1>3. QED
    BY <1>1, <1>2

LEMMA SameLength == ASSUME NEW a \in Nat, NEW b \in Nat, 1..a = 1..b PROVE a = b
  <1>1. a + 1 \notin 1..a /\ b + 1 \notin 1..b
    OBVIOUS
  <1>2. a + 1 \notin 1..b /\ b + 1 \notin 1..a
    BY <1>1
  <1>3. a + 1 > b /\ b + 1 > a
    BY <1>2
  <1>4. QED
    BY <1>3

\* Ageing changes nobody's answers.
LEMMA AgedSenders ==
    ASSUME NEW K, NEW s \in Seq(Answers(K))
    PROVE  /\ \A d : Without(s, d) => Without(Late(s), d)
           /\ NoDevice(s) => NoDevice(Late(s))
  <1>1. Len(s) \in Nat /\ DOMAIN s = 1..Len(s) /\ \A i \in 1..Len(s) : s[i] \in AnswerType
    BY Positions DEF Answers
  <1>2. \A x \in AnswerType : [x EXCEPT !.late = TRUE].src = x.src
    BY DEF AnswerType
  <1>3. Late(s) = [i \in 1..Len(s) |-> [s[i] EXCEPT !.late = TRUE]]
    BY <1>1 DEF Late
  <1>4. Late(s) \in Seq(Answers(K))
    BY Aging
  <1>5. DOMAIN Late(s) = 1..Len(Late(s)) /\ Len(Late(s)) \in Nat
    BY <1>4, Positions
  <1>6. DOMAIN Late(s) = 1..Len(s)
    BY <1>3
  <1>7. Len(Late(s)) = Len(s)
    <2>1. 1..Len(s) = 1..Len(Late(s))
      BY <1>5, <1>6
    <2>2. QED
      BY <1>1, <1>5, <2>1, SameLength
  <1>8. \A i \in 1..Len(s) : Late(s)[i].src = s[i].src
    BY <1>1, <1>2, <1>3
  <1>9. QED
    BY <1>7, <1>8 DEF Without, NoDevice

\* r is what is left of s when the oldest answers are gone.
Ending(r, s) == \E k \in Nat : Len(r) = Len(s) - k /\ \A i \in 1..Len(r) : r[i] = s[i + k]

LEMMA EndingSenders ==
    ASSUME NEW S, NEW s \in Seq(S), NEW r \in Seq(S), Ending(r, s)
    PROVE  /\ \A d : Without(s, d) => Without(r, d)
           /\ NoDevice(s) => NoDevice(r)
           /\ r # <<>> /\ DiscoveryDue(s) => DiscoveryDue(r)
           /\ \A x : r # <<>> /\ Due(s, x) => Due(r, x)
  <1>1. PICK k \in Nat : Len(r) = Len(s) - k /\ \A i \in 1..Len(r) : r[i] = s[i + k]
    BY DEF Ending
  <1>2. Len(s) \in Nat /\ Len(r) \in Nat /\ (r # <<>> => Len(r) > 0) /\ (s = <<>> => Len(s) = 0)
    BY Positions
  <1>3. \A i \in 1..Len(r) : i + k \in 1..Len(s) /\ (i < Len(r) => i + k < Len(s))
    BY <1>1, <1>2
  <1>4. r # <<>> => s # <<>> /\ r[Len(r)] = s[Len(s)]
    BY <1>1, <1>2
  <1>5. (\A d : Without(s, d) => Without(r, d)) /\ (NoDevice(s) => NoDevice(r))
    BY <1>1, <1>3 DEF Without, NoDevice
  <1>6. \A x : r # <<>> /\ Due(s, x) => Due(r, x)
    BY <1>1, <1>3, <1>4 DEF Due
  <1>7. ASSUME r # <<>>, DiscoveryDue(s) PROVE DiscoveryDue(r)
    <2>1. \A i, j \in 1..Len(r) : i # j /\ r[i].src = r[j].src => r[i].src \notin Devices
      <3>1. \A i, j \in 1..Len(r) : i # j => i + k # j + k
        BY <1>1, <1>2
      <3>2. QED
        BY <1>1, <1>3, <1>7, <3>1 DEF DiscoveryDue
    <2>2. QED
      BY <1>4, <1>7, <2>1 DEF DiscoveryDue
  <1>8. QED
    BY <1>5, <1>6, <1>7

LEMMA TailEnds == ASSUME NEW S, NEW s \in Seq(S), s # <<>> PROVE Tail(s) \in Seq(S) /\ Ending(Tail(s), s)
  <1>1. /\ Tail(s) \in Seq(S) /\ Len(Tail(s)) = Len(s) - 1 /\ \A i \in 1..Len(Tail(s)) : Tail(s)[i] = s[i + 1]
    BY HeadTailProperties
  <1>2. QED
    BY <1>1 DEF Ending

LEMMA RecentEnds ==
    ASSUME NEW S, NEW s \in Seq(S), s # <<>> PROVE Recent(s) \in Seq(S) /\ Recent(s) # <<>> /\ Ending(Recent(s), s)
  <1>1. Len(s) \in Nat /\ Len(s) > 0 /\ MaxAir \in Nat /\ MaxAir > 0
    BY Positions, PairingAssumption
  <1> DEFINE m == Larger(1, Len(s) - MaxAir + 1)
  <1>2. m \in Nat /\ m >= 1 /\ m <= Len(s)
    BY <1>1 DEF Larger
  <1>3. Recent(s) = SubSeq(s, m, Len(s))
    BY DEF Recent
  <1> HIDE DEF m
  <1>4. Recent(s) \in Seq(S)
    BY Keeping
  <1>5. /\ Len(Recent(s)) = Len(s) - m + 1
        /\ \A i \in 1..Len(s) - m + 1 : Recent(s)[i] = s[m + i - 1]
    BY <1>1, <1>2, <1>3, SubSeqProperties
  <1>6. m - 1 \in Nat /\ Len(Recent(s)) = Len(s) - (m - 1) /\ \A i \in 1..Len(Recent(s)) : Recent(s)[i] = s[i + (m - 1)]
    BY <1>1, <1>2, <1>5
  <1>7. Ending(Recent(s), s)
    BY <1>6 DEF Ending
  <1>8. Recent(s) # <<>>
    BY <1>1, <1>2, <1>4, <1>5, Positions
  <1>9. QED
    BY <1>4, <1>7, <1>8

\* An answer of d that reaches the air is due if nothing of d was under way.
LEMMA ArrivalDue ==
    ASSUME NEW S, NEW s \in Seq(S), NEW x \in S, Without(s, x.src), ~x.late
    PROVE  Due(Recent(s \o <<x>>), x)
  <1> DEFINE r == s \o <<x>>
  <1>1. <<x>> \in Seq(S) /\ Len(<<x>>) = 1 /\ <<x>>[1] = x
    OBVIOUS
  <1>2. /\ r \in Seq(S) /\ Len(r) = Len(s) + 1
        /\ \A i \in 1..Len(s) + 1 : r[i] = IF i <= Len(s) THEN s[i] ELSE <<x>>[i - Len(s)]
    BY <1>1, ConcatProperties
  <1>3. Len(s) \in Nat
    BY Positions
  <1>4. r[Len(s) + 1] = x /\ \A i \in 1..Len(s) : r[i] = s[i]
    BY <1>1, <1>2, <1>3
  <1>5. r # <<>>
    BY <1>2, <1>3, Positions
  <1> HIDE DEF r
  <1>6. Due(r, x)
    BY <1>2, <1>3, <1>4, <1>5 DEF Due, Without
  <1>7. Recent(r) \in Seq(S) /\ Recent(r) # <<>> /\ Ending(Recent(r), r)
    BY <1>2, <1>5, RecentEnds
  <1>8. QED
    BY <1>2, <1>6, <1>7, EndingSenders DEF r

\* The answers to a discovery request, of one device or of two, are due.
LEMMA ResponsesDue ==
    ASSUME NEW K, NEW s \in Seq(Answers(K)), NoDevice(s), NEW d \in Devices, NEW e \in Devices,
           NEW q, q = IF d = e THEN <<Reply("DISCOVER_RESP", d, 0)>>
                      ELSE Append(<<Reply("DISCOVER_RESP", d, 0)>>, Reply("DISCOVER_RESP", e, 0))
    PROVE  DiscoveryDue(Recent(s \o q))
  <1>0. \A z \in Devices : LET x == Reply("DISCOVER_RESP", z, 0) IN
          x \in Answers(K) /\ x.src = z /\ x.late = FALSE /\ x.cmd = "DISCOVER_RESP"
    BY DEF Reply, Answers, AnswerType
  <1>1. PICK x \in Answers(K), y \in Answers(K) :
          /\ x = Reply("DISCOVER_RESP", d, 0) /\ y = Reply("DISCOVER_RESP", e, 0)
          /\ x.src = d /\ y.src = e /\ x.late = FALSE /\ y.late = FALSE /\ x.cmd = "DISCOVER_RESP" /\ y.cmd = "DISCOVER_RESP"
    BY <1>0
  <1>2. q = IF d = e THEN <<x>> ELSE Append(<<x>>, y)
    BY <1>1
  <1> DEFINE r == s \o q
  <1>3. /\ q \in Seq(Answers(K)) /\ Len(q) = (IF d = e THEN 1 ELSE 2) /\ q[1] = x /\ (d # e => q[2] = y)
    BY <1>2
  <1>4. /\ r \in Seq(Answers(K)) /\ Len(r) = Len(s) + Len(q)
        /\ \A i \in 1..Len(s) + Len(q) : r[i] = IF i <= Len(s) THEN s[i] ELSE q[i - Len(s)]
    BY <1>3, ConcatProperties
  <1>5. Len(s) \in Nat
    BY Positions
  <1>6. /\ \A i \in 1..Len(s) : r[i] = s[i]
        /\ r[Len(s) + 1] = x /\ (d # e => r[Len(s) + 2] = y)
    BY <1>3, <1>4, <1>5
  <1>7. r # <<>>
    BY <1>3, <1>4, <1>5, Positions
  <1> HIDE DEF r
  <1>8. ~r[Len(r)].late /\ r[Len(r)].cmd = "DISCOVER_RESP"
    BY <1>1, <1>3, <1>4, <1>5, <1>6
  <1>9. ASSUME NEW i \in 1..Len(r), NEW j \in 1..Len(r), i # j, r[i].src = r[j].src, r[i].src \in Devices
        PROVE  FALSE
    <2>1. i \notin 1..Len(s) /\ j \notin 1..Len(s)
      BY <1>6, <1>9 DEF NoDevice
    <2>2. d # e /\ {i, j} = {Len(s) + 1, Len(s) + 2}
      BY <1>3, <1>4, <1>5, <1>9, <2>1
    <2>3. QED
      BY <1>1, <1>6, <1>9, <2>2
  <1>10. DiscoveryDue(r)
    BY <1>7, <1>8, <1>9 DEF DiscoveryDue
  <1>11. Recent(r) \in Seq(Answers(K)) /\ Recent(r) # <<>> /\ Ending(Recent(r), r)
    BY <1>4, <1>7, RecentEnds
  <1>12. QED
    BY <1>4, <1>10, <1>11, EndingSenders DEF r

\* The oldest answer is read: it is the one that is due, and then the last, or another's.
LEMMA HeadDue ==
    ASSUME NEW S, NEW s \in Seq(S), NEW x, Due(s, x)
    PROVE  /\ Head(s).src = x.src => Head(s) = x /\ Without(Tail(s), x.src)
           /\ Head(s).src # x.src => Due(Tail(s), x)
  <1>1. Len(s) \in Nat /\ Len(s) > 0 /\ s # <<>> /\ Head(s) = s[1]
    BY Positions DEF Due
  <1>2. /\ Tail(s) \in Seq(S) /\ Len(Tail(s)) = Len(s) - 1 /\ \A i \in 1..Len(Tail(s)) : Tail(s)[i] = s[i + 1]
        /\ Ending(Tail(s), s)
    BY <1>1, TailEnds, HeadTailProperties
  <1>3. CASE Head(s).src = x.src
    <2>1. 1 \in 1..Len(s) /\ (1 < Len(s) => s[1].src # x.src) /\ s[Len(s)] = x
      BY <1>1 DEF Due
    <2>2. Len(s) = 1 /\ Head(s) = x /\ Len(Tail(s)) = 0
      BY <1>1, <1>2, <1>3, <2>1
    <2>3. 1..Len(Tail(s)) = {}
      BY <2>2
    <2>4. QED
      BY <2>2, <2>3 DEF Without
  <1>4. CASE Head(s).src # x.src
    <2>1. Len(s) # 1
      BY <1>1, <1>4 DEF Due
    <2>0. Len(Tail(s)) > 0
      BY <1>1, <1>2, <2>1
    <2>2. Tail(s) # <<>>
      BY <1>2, <2>0, Positions
    <2>3. QED
      BY <1>2, <1>4, <2>2, EndingSenders
  <1>5. QED
    BY <1>3, <1>4

LEMMA HeadDiscovery ==
    ASSUME NEW S, NEW s \in Seq(S), s # <<>>,
           DiscoveryDue(s) \/ NoDevice(s)
    PROVE  /\ Head(s).src \in Devices => Without(Tail(s), Head(s).src)
           /\ NoDevice(s) => NoDevice(Tail(s))
           /\ DiscoveryDue(s) /\ Head(s).cmd # "DISCOVER_RESP" => DiscoveryDue(Tail(s))
  <1>1. Len(s) \in Nat /\ Len(s) > 0 /\ Head(s) = s[1]
    BY Positions
  <1>2. /\ Tail(s) \in Seq(S) /\ Len(Tail(s)) = Len(s) - 1 /\ \A i \in 1..Len(Tail(s)) : Tail(s)[i] = s[i + 1]
        /\ Ending(Tail(s), s)
    BY TailEnds, HeadTailProperties
  <1>3. NoDevice(s) => NoDevice(Tail(s))
    BY <1>2, EndingSenders
  <1>4. ASSUME Head(s).src \in Devices PROVE Without(Tail(s), Head(s).src)
    <2>1. DiscoveryDue(s)
      BY <1>1, <1>4 DEF NoDevice
    <2>2. \A i \in 1..Len(Tail(s)) : i + 1 \in 1..Len(s) /\ i + 1 # 1
      BY <1>1, <1>2
    <2>3. \A i \in 1..Len(Tail(s)) : s[i + 1].src # s[1].src
      BY <1>1, <1>4, <2>1, <2>2 DEF DiscoveryDue
    <2>4. QED
      BY <1>1, <1>2, <2>3 DEF Without
  <1>5. ASSUME DiscoveryDue(s), Head(s).cmd # "DISCOVER_RESP" PROVE DiscoveryDue(Tail(s))
    <2>1. Len(s) # 1
      BY <1>1, <1>5 DEF DiscoveryDue
    <2>0. Len(Tail(s)) > 0
      BY <1>1, <1>2, <2>1
    <2>2. Tail(s) # <<>>
      BY <1>2, <2>0, Positions
    <2>3. QED
      BY <1>2, <1>5, <2>2, EndingSenders
  <1>6. QED
    BY <1>3, <1>4, <1>5

\* An old frame of a stranger comes first.
LEMMA StrangerFirst ==
    ASSUME NEW S, NEW s \in Seq(S), NEW p \in Seq(S), Len(p) = 1, p[1].src = "stranger"
    PROVE  /\ \A d \in Devices : Without(s, d) => Without(p \o s, d)
           /\ NoDevice(s) => NoDevice(p \o s)
           /\ DiscoveryDue(s) => DiscoveryDue(p \o s)
           /\ \A x : x.src \in Devices /\ Due(s, x) => Due(p \o s, x)
  <1> DEFINE r == p \o s
  <1>0. /\ r \in Seq(S) /\ Len(r) = Len(p) + Len(s)
        /\ \A i \in 1..Len(p) + Len(s) : r[i] = IF i <= Len(p) THEN p[i] ELSE s[i - Len(p)]
    BY ConcatProperties
  <1>1. /\ r \in Seq(S) /\ Len(r) = 1 + Len(s)
        /\ \A i \in 1..1 + Len(s) : r[i] = IF i <= 1 THEN p[i] ELSE s[i - 1]
    BY <1>0
  <1>2. Len(s) \in Nat /\ (s # <<>> => Len(s) > 0) /\ "stranger" \notin Devices
    BY Positions, PairingAssumption
  <1>3. r[1].src = "stranger" /\ \A i \in 2..Len(r) : i - 1 \in 1..Len(s) /\ r[i] = s[i - 1]
    BY <1>1, <1>2
  <1>4. r # <<>> /\ (s # <<>> => r[Len(r)] = s[Len(s)])
    BY <1>1, <1>2, <1>3, Positions
  <1>5. \A i \in 1..Len(r) : i = 1 \/ i \in 2..Len(r)
    BY <1>1, <1>2
  <1> HIDE DEF r
  <1>6. (\A d \in Devices : Without(s, d) => Without(r, d)) /\ (NoDevice(s) => NoDevice(r))
    BY <1>2, <1>3, <1>5 DEF Without, NoDevice
  <1>7. ASSUME DiscoveryDue(s) PROVE DiscoveryDue(r)
    <2>1. ASSUME NEW i \in 1..Len(r), NEW j \in 1..Len(r), i # j, r[i].src = r[j].src, r[i].src \in Devices PROVE FALSE
      <3>1. i \in 2..Len(r) /\ j \in 2..Len(r)
        BY <1>2, <1>3, <1>5, <2>1
      <3>2. i - 1 # j - 1 /\ i - 1 \in 1..Len(s) /\ j - 1 \in 1..Len(s) /\ s[i - 1].src = s[j - 1].src /\ s[i - 1].src \in Devices
        BY <1>3, <2>1, <3>1
      <3>3. QED
        BY <1>7, <3>2 DEF DiscoveryDue
    <2>2. QED
      BY <1>4, <1>7, <2>1 DEF DiscoveryDue
  <1>8. ASSUME NEW x, x.src \in Devices, Due(s, x) PROVE Due(r, x)
    <2>1. \A i \in 1..Len(r) : i < Len(r) => r[i].src # x.src
      <3>1. \A i \in 2..Len(r) : i < Len(r) => i - 1 < Len(s)
        BY <1>1, <1>2
      <3>2. QED
        BY <1>2, <1>3, <1>5, <1>8, <3>1 DEF Due
    <2>2. QED
      BY <1>4, <1>8, <2>1 DEF Due
  <1>9. QED
    BY <1>6, <1>7, <1>8 DEF r

-----------------------------------------------------------------------------
(* What a step costs.                                                      *)

\* The step does nothing to the attempt that it need not survive, beyond what h says.
Unharmed(h) == hist'.late = h.late /\ hist'.txFails = h.txFails /\ hist'.refused = h.refused

LEMMA SendCost ==
    ASSUME NEW h \in HistoryType, NEW q, Send(q, h)
    PROVE  /\ Unharmed(h) /\ hist'.losses \in Nat /\ hist'.losses >= h.losses
           /\ air' = Recent(air \o q) \/ (air' = air /\ hist'.losses = h.losses + 1)
  BY DEF Send, Unharmed, HistoryType

LEMMA UnheardCost ==
    ASSUME NEW h \in HistoryType, Unheard(h)
    PROVE  /\ Unharmed(h) /\ hist'.losses = h.losses + 1 /\ h.losses \in Nat
           /\ UNCHANGED <<keyed, nonce, air>>
  BY DEF Unheard, Unharmed, HistoryType, world

LEMMA DeferralCost ==
    ASSUME TypeInv, NEW k \in {0, 1}, NEW h, h = [hist EXCEPT !.defers = @ + k]
    PROVE  /\ h \in HistoryType /\ h.losses = hist.losses /\ h.losses \in Nat
           /\ h.late = hist.late /\ h.txFails = hist.txFails /\ h.refused = hist.refused
  BY DEF TypeInv, HistoryType

\* A window that closes on an answer makes it late; otherwise nothing is due.
LEMMA ExpiryCost ==
    ASSUME TypeInv, Expires
    PROVE  /\ UNCHANGED <<keyed, nonce>> /\ air' = Late(air)
           /\ hist'.txFails = hist.txFails /\ hist'.refused = hist.refused
           /\ hist'.losses \in Nat /\ hist'.losses >= hist.losses
           /\ ~hist'.late => ~hist.late /\ \A i \in DOMAIN air : air[i].late
  <1> DEFINE missed == \E i \in DOMAIN air : ~air[i].late
             n == hist.losses + (IF missed THEN 1 ELSE 0)
             l == hist.late \/ missed
  <1>1. hist \in HistoryType /\ hist.losses \in Nat
    BY DEF TypeInv, HistoryType
  <1>2. hist' = [hist EXCEPT !.losses = n, !.late = l]
    BY DEF Expires
  <1>3. UNCHANGED <<keyed, nonce>> /\ air' = Late(air)
    BY DEF Expires
  <1>4. n \in Nat /\ n >= hist.losses
    BY <1>1
  <1>5. l \in BOOLEAN /\ (~l => ~hist.late /\ \A i \in DOMAIN air : air[i].late)
    OBVIOUS
  <1> HIDE DEF n, l
  <1>6. hist'.losses = n /\ hist'.late = l /\ hist'.txFails = hist.txFails /\ hist'.refused = hist.refused
    BY <1>1, <1>2 DEF HistoryType
  <1>7. QED
    BY <1>3, <1>4, <1>5, <1>6

\* The transmitter's failures are counted.
LEMMA RefusalCost ==
    ASSUME TypeInv, hist' = [hist EXCEPT !.txFails = @ + 1], UNCHANGED world
    PROVE  ~Clean' /\ UNCHANGED <<keyed, nonce, air>> /\ hist'.txFails # 0
  BY DEF TypeInv, HistoryType, Clean, world

\* An attempt that is not clean, or does not end, has nothing to tolerate.
LEMMA Spoilt ==
    ASSUME LedgerInv, ~Clean', nonce' \in [Devices -> Nonces \cup {0}]
    PROVE  LedgerInv'
  BY DEF LedgerInv, Clean, ToleratesLosses

\* The attempt goes on.
LEMMA GoesOn ==
    ASSUME pc' # "idle", nonce' \in [Devices -> Nonces \cup {0}], Clean' => Ledger'
    PROVE  LedgerInv'
  BY DEF LedgerInv, ToleratesLosses

\* The attempt ends.
LEMMA Ends ==
    ASSUME pc' = "idle", nonce' \in [Devices -> Nonces \cup {0}],
           Clean' /\ hist'.losses <= Tolerated => tel'.outcome \in {"PAIRED", "CONFIG_FAILED"}
    PROVE  LedgerInv'
  <1>1. Ledger'
    BY DEF Ledger
  <1>2. ToleratesLosses'
    BY DEF Clean, ToleratesLosses
  <1>3. QED
    BY <1>1, <1>2 DEF LedgerInv

\* The discovery transmissions of all commands, and of one more attempt or command.
LEMMA Counts ==
    /\ Before(1, 1) = 0
    /\ \A c, a \in Nat : Before(c, a) \in Int /\ Before(c, a + 1) = Before(c, a) + 1
    /\ \A c \in Nat : Before(c + 1, 1) = Before(c, PAIRING_DISCOVERY_MAX_ATTEMPTS) + 1
    /\ \A c \in Nat : Before(c, PAIRING_DISCOVERY_MAX_ATTEMPTS) + 1 = c * PAIRING_DISCOVERY_MAX_ATTEMPTS
  <1> DEFINE m == PAIRING_DISCOVERY_MAX_ATTEMPTS
  <1>1. m \in Nat
    BY PairingAssumption
  <1>2. \A c \in Nat : c * m \in Int /\ (c - 1) * m = c * m - m /\ (c - 1) * m \in Int
    BY <1>1
  <1> HIDE DEF m
  <1>3. \A c, a \in Nat : Before(c, a) = c * m - m + (a - 1)
    BY <1>1, <1>2 DEF Before, m
  <1>4. \A c \in Nat : (c + 1) * m = c * m + m
    BY <1>1
  <1>5. 1 * m = m
    BY <1>1
  <1>6. QED
    BY <1>1, <1>2, <1>3, <1>4, <1>5 DEF m

-----------------------------------------------------------------------------
(* The steps and the ledger.                                               *)

LEMMA StartPays == ASSUME IInv, LedgerInv, Start PROVE LedgerInv'
  <1>1. /\ pc' = "discover" /\ cx' = FreshContext /\ hist' = FreshHistory /\ air' = <<>> /\ nonce' = nonce
    BY DEF Start, world
  <1>2. FreshContext.command = 1 /\ FreshContext.attempt = 1 /\ FreshHistory.losses = 0
    BY DEF FreshContext, FreshHistory
  <1>6. FreshContext.ke = 1
    BY DEF FreshContext
  <1>3. NoDevice(<<>>)
    BY DEF NoDevice
  <1>4. Ledger'
    BY <1>1, <1>2, <1>3, <1>6, Counts DEF Ledger
  <1>5. QED
    BY <1>1, <1>4, GoesOn DEF LedgerInv

LEMMA DiscoverTxPays == ASSUME IInv, LedgerInv, DiscoverTx PROVE LedgerInv'
  <1>1. /\ TypeInv /\ pc = "discover" /\ air \in Seq(Answers(keyed)) /\ cx \in ContextType
        /\ nonce \in [Devices -> Nonces \cup {0}]
        /\ Clean => NoDevice(air) /\ hist.losses >= Before(cx.command, cx.attempt) /\ cx.ke = 1
    BY DEF IInv, TypeInv, LedgerInv, Ledger, DiscoverTx
  <1>2. ASSUME NEW k \in {0, 1}, NEW h, h = [hist EXCEPT !.defers = @ + k], DevicesHearDiscovery(h) \/ Unheard(h),
               NEW t, Go("waitDiscover", [cx EXCEPT !.sawTraffic = FALSE], t)
        PROVE  LedgerInv'
    <2>1. pc' = "waitDiscover" /\ cx'.command = cx.command /\ cx'.attempt = cx.attempt /\ cx'.ke = cx.ke
      BY <1>1, <1>2 DEF Go, ContextType
    <2>2. /\ h \in HistoryType /\ h.losses = hist.losses /\ h.losses \in Nat
          /\ h.late = hist.late /\ h.txFails = hist.txFails /\ h.refused = hist.refused
      BY <1>1, <1>2, DeferralCost
    <2>3. /\ Unharmed(h) /\ nonce' = nonce /\ hist'.losses \in Nat /\ hist'.losses >= hist.losses
          /\ \/ air' = air /\ hist'.losses = hist.losses + 1
             \/ \E d, e \in Devices : \E q :
                  /\ air' = Recent(air \o q)
                  /\ q = IF d = e THEN <<Reply("DISCOVER_RESP", d, 0)>>
                         ELSE Append(<<Reply("DISCOVER_RESP", d, 0)>>, Reply("DISCOVER_RESP", e, 0))
      <3>1. CASE Unheard(h)
        BY <2>2, <3>1, UnheardCost
      <3>2. CASE DevicesHearDiscovery(h)
        <4>1. PICK d \in Devices, e \in Devices :
                Send(IF d = e THEN <<Reply("DISCOVER_RESP", d, 0)>>
                     ELSE Append(<<Reply("DISCOVER_RESP", d, 0)>>, Reply("DISCOVER_RESP", e, 0)), h)
          BY <3>2 DEF DevicesHearDiscovery
        <4>2. nonce' = nonce
          BY <3>2 DEF DevicesHearDiscovery
        <4>3. PICK q : /\ q = IF d = e THEN <<Reply("DISCOVER_RESP", d, 0)>>
                              ELSE Append(<<Reply("DISCOVER_RESP", d, 0)>>, Reply("DISCOVER_RESP", e, 0))
                       /\ Send(q, h)
          BY <4>1
        <4>4. /\ Unharmed(h) /\ hist'.losses \in Nat /\ hist'.losses >= h.losses
              /\ air' = Recent(air \o q) \/ (air' = air /\ hist'.losses = h.losses + 1)
          BY <2>2, <4>3, SendCost
        <4>5. QED
          BY <2>2, <4>2, <4>3, <4>4
      <3>3. QED
        BY <1>2, <3>1, <3>2
    <2>4. Clean' => Clean
      BY <2>2, <2>3 DEF Clean, Unharmed
    <2>5. ASSUME Clean' PROVE DiscoveryDue(air') \/ (NoDevice(air') /\ hist'.losses > Before(cx.command, cx.attempt))
      <3>1. NoDevice(air) /\ hist.losses >= Before(cx.command, cx.attempt) /\ Before(cx.command, cx.attempt) \in Int
        BY <1>1, <2>4, <2>5, Counts DEF ContextType
      <3>2. CASE air' = air /\ hist'.losses = hist.losses + 1
        BY <2>2, <3>1, <3>2
      <3>3. CASE ~(air' = air /\ hist'.losses = hist.losses + 1)
        BY <1>1, <2>3, <3>1, <3>3, ResponsesDue
      <3>4. QED
        BY <3>2, <3>3
    <2>6. ASSUME Clean' PROVE hist'.losses >= Before(cx.command, cx.attempt)
      <3>1. hist.losses >= Before(cx.command, cx.attempt) /\ Before(cx.command, cx.attempt) \in Int
        BY <1>1, <2>4, <2>6, Counts DEF ContextType
      <3>2. QED
        BY <2>2, <2>3, <3>1
    <2>7. Clean' => Ledger'
      BY <1>1, <2>1, <2>4, <2>5, <2>6 DEF Ledger
    <2>8. QED
      BY <1>1, <2>1, <2>3, <2>7, GoesOn
  <1>3. ASSUME TransmitFails(DiscoveryPhase, LAMBDA t : Finish("NO_RESPONSE", t, registry)) PROVE LedgerInv'
    <2>1. hist' = [hist EXCEPT !.txFails = @ + 1] /\ UNCHANGED world
      BY <1>3 DEF TransmitFails
    <2>2. QED
      BY <1>1, <2>1, RefusalCost, Spoilt
  <1>4. QED
    BY <1>2, <1>3 DEF DiscoverTx, Transmit

LEMMA DiscoveryReceivesPays == ASSUME IInv, LedgerInv, DiscoveryReceives PROVE LedgerInv'
  <1> DEFINE f == Head(air)
  <1>1. /\ TypeInv /\ pc = "waitDiscover" /\ air \in Seq(Answers(keyed)) /\ air # <<>> /\ cx \in ContextType
        /\ nonce \in [Devices -> Nonces \cup {0}] /\ nonce' = nonce /\ keyed' = keyed /\ hist \in HistoryType /\ HeardIn
    BY DEF IInv, TypeInv, LedgerInv, DiscoveryReceives, Receives
  <1>2. hist'.losses = hist.losses /\ (Clean' => Clean) /\ hist.losses \in Nat
    BY <1>1 DEF HeardIn, HistoryType, Clean
  <1>3. Clean => /\ hist.losses >= Before(cx.command, cx.attempt)
                 /\ DiscoveryDue(air) \/ (NoDevice(air) /\ hist.losses > Before(cx.command, cx.attempt))
                 /\ cx.ke = 1
    BY <1>1 DEF LedgerInv, Ledger
  <1>4. f \in Answers(keyed) /\ Tail(air) \in Seq(Answers(keyed))
    BY <1>1, Ageing
  <1>5. CASE is_discovery_response(f)
    <2>1. f.src \in Devices
      BY <1>4, <1>5 DEF is_discovery_response, Answers
    <2>2. pc' = "keyInit" /\ cx'.target = f.src /\ cx'.ke = cx.ke /\ air' = Late(Tail(air))
      BY <1>1, <1>5, <2>1 DEF DiscoveryReceives, Go, ContextType
    <2>3. ASSUME Clean' PROVE Without(air', f.src)
      <3>1. Without(Tail(air), f.src)
        BY <1>1, <1>2, <1>3, <2>1, <2>3, HeadDiscovery
      <3>2. QED
        BY <1>4, <2>2, <3>1, AgedSenders
    <2>4. Clean => cx.ke - 1 <= hist.losses
      BY <1>2, <1>3
    <2>5. Clean' => Ledger'
      BY <1>2, <2>2, <2>3, <2>4 DEF Ledger
    <2>6. QED
      BY <1>1, <2>2, <2>5, GoesOn
  <1>6. CASE ~is_discovery_response(f)
    <2>1. /\ pc' = "waitDiscover" /\ cx'.command = cx.command /\ cx'.attempt = cx.attempt /\ cx'.ke = cx.ke
          /\ air' = Tail(air)
      BY <1>1, <1>6 DEF DiscoveryReceives, Go, ContextType, Take
    <2>2. f.cmd # "DISCOVER_RESP"
      BY <1>6 DEF is_discovery_response
    <2>3. ASSUME Clean' PROVE DiscoveryDue(air') \/ (NoDevice(air') /\ hist.losses > Before(cx.command, cx.attempt))
      BY <1>1, <1>2, <1>3, <2>1, <2>2, <2>3, HeadDiscovery
    <2>4. Clean' => Ledger'
      BY <1>2, <1>3, <2>1, <2>3 DEF Ledger
    <2>5. QED
      BY <1>1, <2>1, <2>4, GoesOn
  <1>7. QED
    BY <1>5, <1>6

LEMMA DiscoveryTimeoutPays == ASSUME IInv, LedgerInv, DiscoveryTimeout PROVE LedgerInv'
  <1> DEFINE c == [cx EXCEPT !.sawInvalid = @ \/ cx.sawTraffic]
  <1>1. /\ TypeInv /\ pc = "waitDiscover" /\ air \in Seq(Answers(keyed)) /\ cx \in ContextType /\ Expires
        /\ nonce \in [Devices -> Nonces \cup {0}]
    BY DEF IInv, TypeInv, LedgerInv, DiscoveryTimeout
  <1>2. /\ nonce' = nonce /\ air' = Late(air)
        /\ hist'.losses \in Nat /\ hist'.losses >= hist.losses
        /\ Clean' => Clean /\ \A i \in DOMAIN air : air[i].late
    BY <1>1, ExpiryCost DEF Clean
  <1>3. Clean => /\ DiscoveryDue(air) \/ (NoDevice(air) /\ hist.losses > Before(cx.command, cx.attempt))
                 /\ cx.ke = 1
    BY <1>1 DEF LedgerInv, Ledger
  <1>4. ASSUME Clean' PROVE ~DiscoveryDue(air)
    <2>1. Len(air) \in Nat /\ (air # <<>> => Len(air) > 0) /\ DOMAIN air = 1..Len(air)
      BY <1>1, Positions
    <2>2. QED
      BY <1>2, <1>4, <2>1 DEF DiscoveryDue
  <1>5. hist.losses \in Nat /\ cx.command \in Nat /\ cx.attempt \in Nat /\ Before(cx.command, cx.attempt) \in Int
    BY <1>1, Counts DEF TypeInv, HistoryType, ContextType
  <1>6. ASSUME Clean' PROVE NoDevice(air') /\ cx.ke = 1 /\ hist'.losses >= Before(cx.command, cx.attempt) + 1
    <2>1. NoDevice(air) /\ hist.losses > Before(cx.command, cx.attempt) /\ cx.ke = 1
      BY <1>2, <1>3, <1>4, <1>6
    <2>2. NoDevice(air')
      BY <1>1, <1>2, <2>1, AgedSenders
    <2>3. QED
      BY <1>2, <1>5, <2>1, <2>2
  <1>7. c.command = cx.command /\ c.attempt = cx.attempt /\ c.ke = cx.ke /\ c \in ContextType
    <2> DEFINE i == cx.sawInvalid \/ cx.sawTraffic
    <2>1. i \in BOOLEAN
      OBVIOUS
    <2> HIDE DEF i
    <2>2. /\ [cx EXCEPT !.sawInvalid = i] \in ContextType /\ [cx EXCEPT !.sawInvalid = i].command = cx.command
          /\ [cx EXCEPT !.sawInvalid = i].attempt = cx.attempt /\ [cx EXCEPT !.sawInvalid = i].ke = cx.ke
      BY <1>1, <2>1 DEF ContextType
    <2>3. QED
      BY <2>2 DEF i
  <1> HIDE DEF c
  <1>8. CASE Go("discover", [c EXCEPT !.attempt = @ + 1], tel)
    <2>1. pc' = "discover" /\ cx'.command = cx.command /\ cx'.attempt = cx.attempt + 1 /\ cx'.ke = cx.ke
      BY <1>7, <1>8 DEF Go, ContextType
    <2>2. Before(cx.command, cx.attempt + 1) = Before(cx.command, cx.attempt) + 1
      BY <1>5, Counts
    <2>3. Clean' => Ledger'
      BY <1>6, <2>1, <2>2 DEF Ledger
    <2>4. QED
      BY <1>1, <1>2, <2>1, <2>3, GoesOn
  <1>9. CASE /\ cx.attempt = PAIRING_DISCOVERY_MAX_ATTEMPTS
             /\ Go("discover", [c EXCEPT !.command = @ + 1, !.attempt = 1], tel)
    <2>1. pc' = "discover" /\ cx'.command = cx.command + 1 /\ cx'.attempt = 1 /\ cx'.ke = cx.ke
      BY <1>7, <1>9 DEF Go, ContextType
    <2>2. Before(cx.command + 1, 1) = Before(cx.command, cx.attempt) + 1
      BY <1>5, <1>9, Counts
    <2>3. Clean' => Ledger'
      BY <1>6, <2>1, <2>2 DEF Ledger
    <2>4. QED
      BY <1>1, <1>2, <2>1, <2>3, GoesOn
  <1>10. CASE /\ cx.attempt = PAIRING_DISCOVERY_MAX_ATTEMPTS /\ cx.command = DiscoveryCommands
              /\ Finish(IF c.sawInvalid THEN "INVALID_RESPONSE" ELSE "NO_RESPONSE", tel, registry)
    <2>1. pc' = "idle"
      BY <1>10 DEF Finish
    <2>2. Before(cx.command, cx.attempt) + 1 = DiscoveryCommands * PAIRING_DISCOVERY_MAX_ATTEMPTS
      BY <1>5, <1>10, Counts
    <2>3. DiscoveryCommands * PAIRING_DISCOVERY_MAX_ATTEMPTS \in Int /\ Tolerated \in Nat
          /\ Tolerated < DiscoveryCommands * PAIRING_DISCOVERY_MAX_ATTEMPTS
      BY <1>5, <2>2, PairingAssumption, TolerationAssumption
    <2>4. Clean' => ~(hist'.losses <= Tolerated)
      BY <1>2, <1>6, <2>2, <2>3
    <2>5. QED
      BY <1>1, <1>2, <2>1, <2>4, Ends
  <1>11. QED
    BY <1>8, <1>9, <1>10 DEF DiscoveryTimeout, c

\* What the end of a wait of the key exchange needs: the loss was paid for.
Missed ==
    /\ TypeInv /\ UNCHANGED <<keyed, nonce>> /\ nonce \in [Devices -> Nonces \cup {0}] /\ hist'.losses \in Nat
    /\ Clean' => Without(air', cx.target) /\ hist'.losses >= cx.ke

LEMMA PhaseFailsPays == ASSUME Missed, NEW t, KeyPhaseFails(t) PROVE LedgerInv'
  <1>1. cx \in ContextType /\ cx.ke \in Nat /\ nonce' \in [Devices -> Nonces \cup {0}]
    BY DEF Missed, TypeInv, ContextType
  <1>2. CASE cx.ke < pairing_key_exchange_retries
    <2>1. Go("keyInit", [cx EXCEPT !.ke = @ + 1, !.re = 0], t)
      BY <1>2 DEF KeyPhaseFails
    <2>2. pc' = "keyInit" /\ cx'.target = cx.target /\ cx'.ke = cx.ke + 1
      BY <1>1, <2>1 DEF Go, ContextType
    <2>3. Clean' => Ledger'
      BY <1>1, <2>2 DEF Missed, Ledger
    <2>4. QED
      BY <1>1, <2>2, <2>3, GoesOn
  <1>3. CASE ~(cx.ke < pairing_key_exchange_retries)
    <2>1. pc' = "idle"
      BY <1>3 DEF KeyPhaseFails, Finish
    <2>2. pairing_key_exchange_retries \in Nat /\ Tolerated \in Nat /\ Tolerated < pairing_key_exchange_retries
      BY PairingAssumption, TolerationAssumption
    <2>3. Clean' => ~(hist'.losses <= Tolerated)
      BY <1>1, <1>3, <2>2 DEF Missed
    <2>4. QED
      BY <1>1, <2>1, <2>3, Ends
  <1>4. QED
    BY <1>2, <1>3

LEMMA KeyMissedPays == ASSUME Missed, NEW t, KeyMissed(t) \/ NoChallenge(t) PROVE LedgerInv'
  <1>1. cx \in ContextType /\ cx.ke \in Nat /\ nonce' \in [Devices -> Nonces \cup {0}]
    BY DEF Missed, TypeInv, ContextType
  <1>2. CASE Go("keyInit", [cx EXCEPT !.re = @ + 1], t)
    <2>1. pc' = "keyInit" /\ cx'.target = cx.target /\ cx'.ke = cx.ke
      BY <1>1, <1>2 DEF Go, ContextType
    <2>2. Clean' => Ledger'
      BY <1>1, <2>1 DEF Missed, Ledger
    <2>3. QED
      BY <1>1, <2>1, <2>2, GoesOn
  <1>3. Go("keyInit", [cx EXCEPT !.re = @ + 1], t) \/ KeyPhaseFails(t)
    BY DEF KeyMissed, NoChallenge
  <1>4. QED
    BY <1>2, <1>3, PhaseFailsPays

LEMMA NextTryPays == ASSUME Missed, Clean' => Understood, NEW t, NextTry(t) \/ OutOfTime(t) PROVE LedgerInv'
  <1>1. cx \in ContextType /\ cx.ke \in Nat /\ nonce' \in [Devices -> Nonces \cup {0}]
    BY DEF Missed, TypeInv, ContextType
  <1>2. CASE Go("sendKey", [cx EXCEPT !.tries = @ + 1], t)
    <2>1. pc' = "sendKey" /\ cx'.target = cx.target /\ cx'.ke = cx.ke /\ cx'.challenge = cx.challenge
      BY <1>1, <1>2 DEF Go, ContextType
    <2>2. Clean' => Understood'
      BY <2>1 DEF Understood, Missed
    <2>3. Clean' => Ledger'
      BY <1>1, <2>1, <2>2 DEF Missed, Ledger
    <2>4. QED
      BY <1>1, <2>1, <2>3, GoesOn
  <1>3. Go("sendKey", [cx EXCEPT !.tries = @ + 1], t) \/ KeyMissed(t)
    BY DEF NextTry, OutOfTime
  <1>4. QED
    BY <1>2, <1>3, KeyMissedPays

\* A window of the key exchange that closes.
LEMMA WindowMissed ==
    ASSUME IInv, LedgerInv, pc \in {"waitChallenge", "waitConfirm", "waitFinal"}, Expires
    PROVE  Missed /\ (Clean' => Clean)
  <1>1. /\ TypeInv /\ air \in Seq(Answers(keyed)) /\ cx \in ContextType /\ nonce \in [Devices -> Nonces \cup {0}]
        /\ hist.losses \in Nat /\ cx.ke \in Nat
    BY DEF IInv, TypeInv, LedgerInv, ContextType, HistoryType
  <1>2. /\ UNCHANGED <<keyed, nonce>> /\ air' = Late(air)
        /\ hist'.losses \in Nat /\ hist'.losses >= hist.losses
        /\ Clean' => Clean /\ \A i \in DOMAIN air : air[i].late
    BY <1>1, ExpiryCost DEF Clean
  <1>3. Clean => OwesChallenge \/ OwesConfirmation \/ Paid
    BY DEF LedgerInv, Ledger
  <1>4. ASSUME Clean' PROVE ~OwesChallenge /\ ~OwesConfirmation
    <2>1. Len(air) \in Nat /\ (air # <<>> => Len(air) > 0) /\ DOMAIN air = 1..Len(air)
      BY <1>1, Positions
    <2>2. \A x : ~Due(air, x)
      BY <1>2, <1>4, <2>1 DEF Due
    <2>3. QED
      BY <2>2 DEF OwesChallenge, OwesConfirmation
  <1>5. ASSUME Clean' PROVE Without(air', cx.target) /\ hist'.losses >= cx.ke
    <2>1. Without(air, cx.target) /\ hist.losses >= cx.ke
      BY <1>2, <1>3, <1>4, <1>5 DEF Paid
    <2>2. QED
      BY <1>1, <1>2, <2>1, AgedSenders
  <1>6. QED
    BY <1>1, <1>2, <1>5 DEF Missed

LEMMA ChallengeTimeoutPays == ASSUME IInv, LedgerInv, ChallengeTimeout PROVE LedgerInv'
  <1>1. pc = "waitChallenge" /\ Expires /\ NoChallenge(tel)
    BY DEF ChallengeTimeout
  <1>2. QED
    BY <1>1, WindowMissed, KeyMissedPays

LEMMA ConfirmTimeoutPays == ASSUME IInv, LedgerInv, ConfirmTimeout PROVE LedgerInv'
  <1>1. pc \in {"waitConfirm", "waitFinal"} /\ Expires /\ (NextTry(tel) \/ OutOfTime(tel))
    BY DEF ConfirmTimeout
  <1>2. Missed /\ (Clean' => Clean)
    BY <1>1, WindowMissed
  <1>3. Clean => Understood
    BY <1>1 DEF LedgerInv, Ledger
  <1>4. QED
    BY <1>1, <1>2, <1>3, NextTryPays

\* The answer of the target reaches the air.
LEMMA AnswerArrives ==
    ASSUME TypeInv, Without(air, cx.target), UNCHANGED cx, keyed \subseteq keyed', NEW x \in Answers(keyed'),
           x.src = cx.target, x.late = FALSE, air' = Recent(air \o <<x>>)
    PROVE  Due(air', x) /\ x.src = cx'.target
  <1>1. air \in Seq(Answers(keyed'))
    BY MoreAnswers DEF TypeInv
  <1>2. QED
    BY <1>1, ArrivalDue

LEMMA KeyInitTxPays == ASSUME IInv, LedgerInv, KeyInitTx PROVE LedgerInv'
  <1> DEFINE p == InPhase(tel, "TX_KEY_INIT")
             d == cx.target
  <1>1. /\ TypeInv /\ pc = "keyInit" /\ air \in Seq(Answers(keyed)) /\ cx \in ContextType /\ cx.ke \in Nat
        /\ nonce \in [Devices -> Nonces \cup {0}] /\ cx.target \in Devices /\ keyed \subseteq Devices
        /\ Clean => Without(air, cx.target) /\ hist.losses >= cx.ke - 1
    BY DEF IInv, TypeInv, TargetInv, LedgerInv, Ledger, KeyInitTx, Exchanging, ContextType
  <1> HIDE DEF p
  <1>2. ASSUME NEW k \in {0, 1}, NEW h, h = [hist EXCEPT !.defers = @ + k], DeviceHearsKeyInit(cx.target, h) \/ Unheard(h),
               NEW t, Go("waitChallenge", cx, t)
        PROVE  LedgerInv'
    <2>1. pc' = "waitChallenge" /\ cx' = cx
      BY <1>2 DEF Go
    <2>2. /\ h \in HistoryType /\ h.losses = hist.losses /\ h.losses \in Nat
          /\ h.late = hist.late /\ h.txFails = hist.txFails /\ h.refused = hist.refused
      BY <1>1, <1>2, DeferralCost
    <2>3. /\ Unharmed(h) /\ keyed' = keyed /\ nonce' \in [Devices -> Nonces \cup {0}]
          /\ hist'.losses \in Nat /\ hist'.losses >= hist.losses
          /\ \/ air' = air /\ hist'.losses = hist.losses + 1
             \/ \E x \in Answers(keyed) : /\ air' = Recent(air \o <<x>>) /\ x.src = d /\ x.late = FALSE
                                          /\ x.cmd = "KEY_CONFIRM" \/ (x.cmd = "CHALLENGE_REQ" /\ x.nonce = nonce'[d])
      <3>1. CASE Unheard(h)
        BY <1>1, <2>2, <3>1, UnheardCost
      <3>2. CASE DeviceHearsKeyInit(d, h) /\ d \in keyed
        <4>1. Send(<<Reply("KEY_CONFIRM", d, 0)>>, h) /\ UNCHANGED <<keyed, nonce>>
          BY <3>2 DEF DeviceHearsKeyInit
        <4>2. PICK x \in Answers(keyed) : x = Reply("KEY_CONFIRM", d, 0) /\ x.src = d /\ x.late = FALSE /\ x.cmd = "KEY_CONFIRM"
          <5>1. Reply("KEY_CONFIRM", d, 0) \in Answers(keyed)
            BY <1>1, <3>2, Replying
          <5>2. QED
            BY <5>1 DEF Reply
        <4>3. Send(<<x>>, h)
          BY <4>1, <4>2
        <4>4. QED
          BY <1>1, <2>2, <4>1, <4>2, <4>3, SendCost
      <3>3. CASE DeviceHearsKeyInit(d, h) /\ d \notin keyed
        <4>1. /\ FreshNonce \in Nonces /\ nonce' = [nonce EXCEPT ![d] = FreshNonce]
              /\ Send(<<Reply("CHALLENGE_REQ", d, FreshNonce)>>, h) /\ UNCHANGED keyed
          BY <3>3 DEF DeviceHearsKeyInit
        <4> DEFINE n == FreshNonce
        <4> HIDE DEF n
        <4>2. n \in Nonces /\ nonce' = [nonce EXCEPT ![d] = n] /\ Send(<<Reply("CHALLENGE_REQ", d, n)>>, h)
          BY <4>1 DEF n
        <4>3. nonce' \in [Devices -> Nonces \cup {0}] /\ nonce'[d] = n
          BY <1>1, <4>2
        <4>4. PICK x \in Answers(keyed) :
                /\ x = Reply("CHALLENGE_REQ", d, n) /\ x.src = d /\ x.late = FALSE /\ x.cmd = "CHALLENGE_REQ" /\ x.nonce = n
          <5>1. Reply("CHALLENGE_REQ", d, n) \in Answers(keyed)
            BY <1>1, <4>2, Replying
          <5>2. QED
            BY <5>1 DEF Reply
        <4>5. Send(<<x>>, h)
          BY <4>2, <4>4
        <4>6. QED
          BY <1>1, <2>2, <4>1, <4>3, <4>4, <4>5, SendCost
      <3>4. QED
        BY <1>2, <3>1, <3>2, <3>3
    <2>4. Clean' => Clean
      BY <2>2, <2>3 DEF Clean, Unharmed
    <2>5. ASSUME Clean' PROVE OwesChallenge' \/ Paid'
      <3>1. CASE air' = air /\ hist'.losses = hist.losses + 1
        BY <1>1, <2>1, <2>2, <2>4, <2>5, <3>1 DEF Paid
      <3>2. CASE \E x \in Answers(keyed) : /\ air' = Recent(air \o <<x>>) /\ x.src = d /\ x.late = FALSE
                                           /\ x.cmd = "KEY_CONFIRM" \/ (x.cmd = "CHALLENGE_REQ" /\ x.nonce = nonce'[d])
        <4>1. PICK x \in Answers(keyed) : /\ air' = Recent(air \o <<x>>) /\ x.src = d /\ x.late = FALSE
                                          /\ x.cmd = "KEY_CONFIRM" \/ (x.cmd = "CHALLENGE_REQ" /\ x.nonce = nonce'[d])
          BY <3>2
        <4>2. Due(air', x) /\ x \in Answers(keyed')
          BY <1>1, <2>1, <2>3, <2>4, <2>5, <4>1, AnswerArrives
        <4>3. (Challenges(x) \/ Confirms(x))'
          BY <2>1, <4>1 DEF Challenges, Confirms
        <4>4. QED
          BY <2>1, <4>1, <4>2, <4>3 DEF OwesChallenge
      <3>3. QED
        BY <2>3, <3>1, <3>2
    <2>6. Clean' => hist'.losses >= cx.ke - 1
      BY <1>1, <2>2, <2>3, <2>4
    <2>7. Clean' => Ledger'
      BY <2>1, <2>5, <2>6 DEF Ledger
    <2>8. QED
      BY <2>1, <2>3, <2>7, GoesOn
  <1>3. ASSUME TransmitFails(p, NoChallenge) PROVE LedgerInv'
    <2>1. hist' = [hist EXCEPT !.txFails = @ + 1] /\ UNCHANGED world
      BY <1>3 DEF TransmitFails
    <2>2. QED
      BY <1>1, <2>1, RefusalCost, Spoilt
  <1>4. QED
    BY <1>2, <1>3 DEF KeyInitTx, Transmit, p

LEMMA ChallengeReceivesPays == ASSUME IInv, LedgerInv, ChallengeReceives PROVE LedgerInv'
  <1> DEFINE f == Head(air)
             t == record_rx(tel, Heard(f))
  <1>1. /\ TypeInv /\ pc = "waitChallenge" /\ air \in Seq(Answers(keyed)) /\ air # <<>> /\ cx \in ContextType /\ cx.ke \in Nat
        /\ nonce \in [Devices -> Nonces \cup {0}] /\ nonce' = nonce /\ keyed' = keyed /\ hist \in HistoryType /\ HeardIn
    BY DEF IInv, TypeInv, LedgerInv, ChallengeReceives, Receives, ContextType
  <1>2. hist'.losses = hist.losses /\ (Clean' => Clean) /\ hist.losses \in Nat
    BY <1>1 DEF HeardIn, HistoryType, Clean
  <1>3. Clean => hist.losses >= cx.ke - 1 /\ (OwesChallenge \/ Paid)
    BY <1>1 DEF LedgerInv, Ledger
  <1>4. f \in Answers(keyed) /\ Tail(air) \in Seq(Answers(keyed)) /\ Ending(Tail(air), air)
    BY <1>1, Ageing, TailEnds
  <1>5. Len(air) \in Nat /\ Len(air) > 0 /\ f = air[1]
    BY <1>1, Positions
  <1> HIDE DEF t
  <1>6. CASE Go("config", cx, t)
    <2>1. pc' = "config"
      BY <1>6 DEF Go
    <2>2. Ledger'
      BY <2>1 DEF Ledger
    <2>3. QED
      BY <1>1, <2>1, <2>2, GoesOn
  <1>7. CASE is_key_challenge(f) /\ TransferKey(f, t) /\ air' = Late(Tail(air))
    <2>1. pc' = "sendKey" /\ cx'.target = cx.target /\ cx'.ke = cx.ke /\ cx'.challenge = f.nonce
      BY <1>1, <1>7 DEF TransferKey, Go, ContextType
    <2>2. f.src = cx.target /\ f.cmd = "CHALLENGE_REQ"
      BY <1>7 DEF is_key_challenge
    <2>3. ASSUME Clean' PROVE Without(air', cx.target) /\ f.nonce = nonce[cx.target]
      <3>1. ~Without(air, cx.target)
        BY <1>5, <2>2 DEF Without
      <3>2. PICK x \in Answers(keyed) : Due(air, x) /\ x.src = cx.target /\ (Challenges(x) \/ Confirms(x))
        BY <1>2, <1>3, <2>3, <3>1 DEF OwesChallenge, Paid
      <3>3. f = x /\ Without(Tail(air), cx.target)
        BY <1>1, <2>2, <3>2, HeadDue
      <3>4. Without(air', cx.target)
        BY <1>4, <1>7, <3>3, AgedSenders
      <3>5. QED
        BY <2>2, <3>2, <3>3, <3>4 DEF Challenges, Confirms
    <2>4. Clean' => Understood'
      BY <1>1, <2>1, <2>3 DEF Understood
    <2>5. Clean' => Ledger'
      BY <1>2, <1>3, <2>1, <2>3, <2>4 DEF Ledger
    <2>6. QED
      BY <1>1, <2>1, <2>5, GoesOn
  <1>8. CASE /\ f.src # cx.target \/ f.cmd \notin {"KEY_CONFIRM", "CHALLENGE_REQ"}
             /\ Go(pc, cx, record_rx_reject(tel, Heard(f))) /\ Take
    <2>1. pc' = "waitChallenge" /\ cx' = cx /\ air' = Tail(air)
      BY <1>1, <1>8 DEF Go, Take
    <2>2. ASSUME Clean' PROVE OwesChallenge' \/ Paid'
      <3>1. CASE Paid
        <4>1. Without(Tail(air), cx.target)
          BY <1>1, <1>4, <3>1, EndingSenders DEF Paid
        <4>2. QED
          BY <1>2, <2>1, <3>1, <4>1 DEF Paid
      <3>2. CASE OwesChallenge
        <4>1. PICK x \in Answers(keyed) : Due(air, x) /\ x.src = cx.target /\ (Challenges(x) \/ Confirms(x))
          BY <3>2 DEF OwesChallenge
        <4>2. f.src # x.src
          BY <1>1, <1>8, <4>1, HeadDue DEF Challenges, Confirms
        <4>3. Due(air', x)
          BY <1>1, <2>1, <4>1, <4>2, HeadDue
        <4>4. (Challenges(x) \/ Confirms(x))'
          BY <1>1, <2>1, <4>1 DEF Challenges, Confirms
        <4>5. QED
          BY <1>1, <2>1, <4>1, <4>3, <4>4 DEF OwesChallenge
      <3>3. QED
        BY <1>2, <1>3, <2>2, <3>1, <3>2
    <2>3. Clean' => Ledger'
      BY <1>2, <1>3, <2>1, <2>2 DEF Ledger
    <2>4. QED
      BY <1>1, <2>1, <2>3, GoesOn
  <1>9. QED
    BY <1>6, <1>7, <1>8 DEF ChallengeReceives, t

\* What a key on the air costs: a key that is understood is confirmed, unless a frame is lost or the device refuses.
LEMMA KeyHeardCost ==
    ASSUME TypeInv, NEW h \in HistoryType, DeviceHearsKey(cx.target, h), cx.target \in Devices, Understood \/ h.refused
    PROVE  /\ UNCHANGED nonce /\ hist'.losses \in Nat /\ hist'.losses >= h.losses /\ keyed \subseteq keyed'
           /\ hist'.late = h.late /\ hist'.txFails = h.txFails /\ (~hist'.refused => ~h.refused)
           /\ ~hist'.refused =>
                \/ air' = air /\ hist'.losses = h.losses + 1
                \/ \E x \in Answers(keyed') : /\ air' = Recent(air \o <<x>>) /\ x.src = cx.target /\ x.late = FALSE
                                              /\ x.cmd = "KEY_CONFIRM"
  <1> DEFINE d == cx.target
  <1>1. UNCHANGED nonce /\ keyed \subseteq keyed' /\ h.losses \in Nat
    BY DEF DeviceHearsKey, HistoryType
  <1>2. CASE keyed' = keyed \cup {d} /\ Send(<<Reply("KEY_CONFIRM", d, 0)>>, h)
    <2>1. PICK x \in Answers(keyed') : x = Reply("KEY_CONFIRM", d, 0) /\ x.src = d /\ x.late = FALSE /\ x.cmd = "KEY_CONFIRM"
      <3>1. Reply("KEY_CONFIRM", d, 0) \in Answers(keyed')
        BY <1>2, Replying
      <3>2. QED
        BY <3>1 DEF Reply
    <2>2. Send(<<x>>, h)
      BY <1>2, <2>1
    <2>3. QED
      BY <1>1, <2>1, <2>2, SendCost DEF Unharmed
  <1>3. CASE d \notin keyed /\ Send(<<Reply("ERROR_RESP", d, 0)>>, [h EXCEPT !.refused = @ \/ cx.challenge = nonce[d]])
    <2> DEFINE r == h.refused \/ cx.challenge = nonce[d]
               g == [h EXCEPT !.refused = r]
    <2>1. r = TRUE
      BY <1>3 DEF Understood
    <2>2. Send(<<Reply("ERROR_RESP", d, 0)>>, g)
      BY <1>3
    <2> HIDE DEF r
    <2>3. /\ g \in HistoryType /\ g.losses = h.losses /\ g.late = h.late /\ g.txFails = h.txFails /\ g.refused = TRUE
      BY <2>1 DEF HistoryType
    <2> HIDE DEF g
    <2>4. Unharmed(g) /\ hist'.losses \in Nat /\ hist'.losses >= g.losses
      BY <2>2, <2>3, SendCost
    <2>5. QED
      BY <1>1, <2>3, <2>4 DEF Unharmed
  <1>4. CASE d \notin keyed /\ cx.challenge # nonce[d] /\ hist' = h
    BY <1>1, <1>4 DEF Understood
  <1>5. QED
    BY <1>2, <1>3, <1>4 DEF DeviceHearsKey

LEMMA KeyTxPays == ASSUME IInv, LedgerInv, KeyTx PROVE LedgerInv'
  <1>1. /\ TypeInv /\ pc = "sendKey" /\ air \in Seq(Answers(keyed)) /\ cx \in ContextType /\ cx.ke \in Nat
        /\ nonce \in [Devices -> Nonces \cup {0}] /\ cx.target \in Devices /\ keyed \subseteq Devices
        /\ Clean => Without(air, cx.target) /\ hist.losses >= cx.ke - 1 /\ Understood
    BY DEF IInv, TypeInv, TargetInv, LedgerInv, Ledger, KeyTx, Exchanging, ContextType
  <1>2. ASSUME NEW k \in {0, 1}, NEW h, h = [hist EXCEPT !.defers = @ + k], DeviceHearsKey(cx.target, h) \/ Unheard(h),
               NEW t, Go("waitConfirm", cx, t)
        PROVE  LedgerInv'
    <2>1. pc' = "waitConfirm" /\ cx' = cx
      BY <1>2 DEF Go
    <2>2. /\ h \in HistoryType /\ h.losses = hist.losses /\ h.losses \in Nat
          /\ h.late = hist.late /\ h.txFails = hist.txFails /\ h.refused = hist.refused
      BY <1>1, <1>2, DeferralCost
    <2>3. nonce' = nonce
      BY <1>2 DEF DeviceHearsKey, Unheard, world
    <2>4. ASSUME Clean' PROVE Clean /\ Understood
      <3>1. hist'.late = hist.late /\ hist'.txFails = hist.txFails /\ (~hist'.refused => ~hist.refused)
        <4>1. CASE Unheard(h)
          BY <2>2, <4>1, UnheardCost DEF Unharmed
        <4>2. CASE DeviceHearsKey(cx.target, h)
          BY <2>2, <4>2 DEF DeviceHearsKey, Send, HistoryType
        <4>3. QED
          BY <1>2, <4>1, <4>2
      <3>2. Clean
        BY <2>4, <3>1 DEF Clean
      <3>3. QED
        BY <1>1, <3>2
    <2>5. ASSUME Clean'
          PROVE  /\ hist'.losses \in Nat /\ hist'.losses >= hist.losses /\ keyed \subseteq keyed'
                 /\ \/ air' = air /\ hist'.losses = hist.losses + 1
                    \/ \E x \in Answers(keyed') : /\ air' = Recent(air \o <<x>>) /\ x.src = cx.target /\ x.late = FALSE
                                                  /\ x.cmd = "KEY_CONFIRM"
      <3>1. CASE Unheard(h)
        BY <2>2, <3>1, UnheardCost
      <3>2. CASE DeviceHearsKey(cx.target, h)
        <4>1. ~hist'.refused
          BY <2>5 DEF Clean
        <4>2. QED
          BY <1>1, <2>2, <2>4, <2>5, <3>2, <4>1, KeyHeardCost
      <3>3. QED
        BY <1>2, <3>1, <3>2
    <2>6. ASSUME Clean' PROVE OwesConfirmation' \/ Paid'
      <3>1. CASE air' = air /\ hist'.losses = hist.losses + 1
        BY <1>1, <2>1, <2>2, <2>4, <2>6, <3>1 DEF Paid
      <3>2. CASE \E x \in Answers(keyed') : /\ air' = Recent(air \o <<x>>) /\ x.src = cx.target /\ x.late = FALSE
                                            /\ x.cmd = "KEY_CONFIRM"
        <4>1. PICK x \in Answers(keyed') : /\ air' = Recent(air \o <<x>>) /\ x.src = cx.target /\ x.late = FALSE
                                           /\ x.cmd = "KEY_CONFIRM"
          BY <3>2
        <4>2. Due(air', x)
          BY <1>1, <2>1, <2>4, <2>5, <2>6, <4>1, AnswerArrives
        <4>3. Confirms(x)'
          BY <4>1 DEF Confirms
        <4>4. QED
          BY <2>1, <4>1, <4>2, <4>3 DEF OwesConfirmation
      <3>3. QED
        BY <2>5, <2>6, <3>1, <3>2
    <2>7. ASSUME Clean' PROVE Understood' /\ hist'.losses >= cx.ke - 1
      BY <1>1, <2>1, <2>2, <2>3, <2>4, <2>5, <2>7 DEF Understood
    <2>8. Clean' => Ledger'
      BY <2>1, <2>6, <2>7 DEF Ledger
    <2>9. QED
      BY <1>1, <2>1, <2>3, <2>8, GoesOn
  <1>3. ASSUME TransmitFails(tel, LAMBDA t : NextTry(t) \/ OutOfTime(t)) PROVE LedgerInv'
    <2>1. hist' = [hist EXCEPT !.txFails = @ + 1] /\ UNCHANGED world
      BY <1>3 DEF TransmitFails
    <2>2. QED
      BY <1>1, <2>1, RefusalCost, Spoilt
  <1>4. QED
    BY <1>2, <1>3 DEF KeyTx, Transmit

\* Another node's frame comes while the confirmation is waited for.
LEMMA StillWaiting ==
    ASSUME IInv, LedgerInv, pc = "waitConfirm", air # <<>>, UNCHANGED <<keyed, nonce, hist>>,
           Head(air).src # cx.target /\ Go(pc, cx, tel) /\ Take
    PROVE  LedgerInv'
  <1>1. /\ air \in Seq(Answers(keyed)) /\ nonce \in [Devices -> Nonces \cup {0}] /\ pc' = "waitConfirm" /\ cx' = cx
        /\ air' = Tail(air)
    BY DEF IInv, TypeInv, LedgerInv, Go, Take
  <1>2. Clean => hist.losses >= cx.ke - 1 /\ (OwesConfirmation \/ Paid) /\ Understood
    BY DEF LedgerInv, Ledger
  <1>3. Tail(air) \in Seq(Answers(keyed)) /\ Ending(Tail(air), air)
    BY <1>1, TailEnds
  <1>4. ASSUME Paid PROVE Paid'
    <2>1. Without(Tail(air), cx.target)
      BY <1>1, <1>3, <1>4, EndingSenders DEF Paid
    <2>2. QED
      BY <1>1, <1>4, <2>1 DEF Paid
  <1>5. ASSUME OwesConfirmation PROVE OwesConfirmation'
    <2>1. PICK x \in Answers(keyed) : Due(air, x) /\ x.src = cx.target /\ Confirms(x)
      BY <1>5 DEF OwesConfirmation
    <2>2. Due(air', x)
      BY <1>1, <2>1, HeadDue
    <2>3. Confirms(x)'
      BY <2>1 DEF Confirms
    <2>4. QED
      BY <1>1, <2>1, <2>2, <2>3 DEF OwesConfirmation
  <1>6. Understood => Understood'
    BY <1>1 DEF Understood
  <1>7. Clean' => Clean
    BY DEF Clean
  <1>8. Clean' => Ledger'
    BY <1>1, <1>2, <1>4, <1>5, <1>6, <1>7 DEF Ledger
  <1>9. QED
    BY <1>1, <1>8, GoesOn

\* The target says something else than what is due: the attempt is not clean.
LEMMA Contradicted ==
    ASSUME IInv, LedgerInv, pc \in {"waitConfirm", "waitFinal"}, air # <<>>, UNCHANGED <<keyed, nonce, hist>>,
           Head(air).src = cx.target, ~frame_is_key_confirm(Head(air))
    PROVE  LedgerInv'
  <1>1. air \in Seq(Answers(keyed)) /\ nonce \in [Devices -> Nonces \cup {0}]
    BY DEF IInv, TypeInv, LedgerInv
  <1>2. Len(air) \in Nat /\ Len(air) > 0 /\ Head(air) = air[1]
    BY <1>1, Positions
  <1>3. ~Without(air, cx.target)
    BY <1>2 DEF Without
  <1>4. ~OwesConfirmation
    <2>1. SUFFICES ASSUME NEW x \in Answers(keyed), Due(air, x), x.src = cx.target, Confirms(x) PROVE FALSE
      BY DEF OwesConfirmation
    <2>2. Head(air) = x
      BY <1>1, <2>1, HeadDue
    <2>3. QED
      BY <2>1, <2>2 DEF Confirms, frame_is_key_confirm
  <1>5. ~Clean
    BY <1>3, <1>4 DEF LedgerInv, Ledger, Paid
  <1>6. ~Clean'
    BY <1>5 DEF Clean
  <1>7. QED
    BY <1>1, <1>6, Spoilt

\* The device is configured: no more frames are needed.
LEMMA ConfigPays ==
    ASSUME LedgerInv, UNCHANGED nonce, NEW t, Go("config", cx, t) PROVE LedgerInv'
  <1>1. pc' = "config"
    BY DEF Go
  <1>2. Ledger'
    BY <1>1 DEF Ledger
  <1>3. QED
    BY <1>1, <1>2, GoesOn DEF LedgerInv

LEMMA ConfirmReceivesSlowPays == ASSUME IInv, LedgerInv, ConfirmReceivesSlow PROVE LedgerInv'
  <1> DEFINE f == Head(air)
  <1>1. pc = "waitConfirm" /\ air # <<>> /\ UNCHANGED <<keyed, nonce, hist>>
    BY DEF ConfirmReceivesSlow, Receives
  <1>2. CASE f.src = cx.target /\ frame_is_key_confirm(f)
    <2>1. Go("config", cx, record_rx(tel, Heard(f)))
      BY <1>2 DEF ConfirmReceivesSlow
    <2>2. QED
      BY <1>1, <2>1, ConfigPays
  <1>3. CASE f.src = cx.target /\ ~frame_is_key_confirm(f)
    BY <1>1, <1>3, Contradicted
  <1>4. CASE f.src # cx.target
    <2>1. Go(pc, cx, tel) /\ Take
      BY <1>4 DEF ConfirmReceivesSlow
    <2>2. QED
      BY <1>1, <1>4, <2>1, StillWaiting
  <1>5. QED
    BY <1>2, <1>3, <1>4

LEMMA ConfirmReceivesFastPays == ASSUME IInv, LedgerInv, ConfirmReceivesFast PROVE LedgerInv'
  <1> DEFINE f == Head(air)
  <1>1. pc \in {"waitConfirm", "waitFinal"} /\ air # <<>> /\ UNCHANGED <<keyed, nonce, hist>>
    BY DEF ConfirmReceivesFast, Receives
  <1>2. CASE f.src = cx.target /\ frame_is_key_confirm(f)
    <2>1. Go("config", cx, tel)
      BY <1>2 DEF ConfirmReceivesFast
    <2>2. QED
      BY <1>1, <2>1, ConfigPays
  <1>3. CASE f.src = cx.target /\ ~frame_is_key_confirm(f)
    BY <1>1, <1>3, Contradicted
  <1>4. CASE f.src # cx.target
    <2>1. Go(pc, cx, tel) /\ Take
      BY <1>4 DEF ConfirmReceivesFast
    <2>2. CASE pc = "waitConfirm"
      BY <1>1, <1>4, <2>1, <2>2, StillWaiting
    <2>3. CASE pc = "waitFinal"
      <3>1. ~Clean'
        BY <1>1, <2>3 DEF LedgerInv, Ledger, Clean
      <3>2. QED
        BY <1>1, <3>1, Spoilt DEF LedgerInv
    <2>4. QED
      BY <1>1, <2>2, <2>3
  <1>5. QED
    BY <1>2, <1>3, <1>4

LEMMA AuthenticationFailsPays == ASSUME IInv, LedgerInv, AuthenticationFails PROVE LedgerInv'
  <1>1. hist \in HistoryType /\ hist' = [hist EXCEPT !.txFails = @ + 1] /\ nonce' = nonce
    BY DEF IInv, TypeInv, AuthenticationFails
  <1>2. ~Clean'
    BY <1>1 DEF HistoryType, Clean
  <1>3. QED
    BY <1>1, <1>2, Spoilt DEF LedgerInv

LEMMA RegisterDevicePays == ASSUME IInv, LedgerInv, RegisterDevice PROVE LedgerInv'
  <1>1. PICK sent \in BOOLEAN, config_ok \in BOOLEAN :
          LET t == set_phase(IF sent THEN record_tx(tel, "SET_CONFIG1") ELSE tel, "REGISTER_DEVICE")
          IN  Finish(IF config_ok THEN "PAIRED" ELSE "CONFIG_FAILED",
                     set_phase(set_paired_device(t, cx.target), "COMPLETE"), registry \cup {cx.target})
    BY DEF RegisterDevice
  <1> DEFINE s == IF sent THEN record_tx(tel, "SET_CONFIG1") ELSE tel
             t == set_phase(s, "REGISTER_DEVICE")
             p == set_paired_device(t, cx.target)
             u == set_phase(p, "COMPLETE")
             o == IF config_ok THEN "PAIRED" ELSE "CONFIG_FAILED"
  <1>2. tel \in TelemetryType /\ cx.target \in Devices /\ "SET_CONFIG1" \in Commands
        /\ "REGISTER_DEVICE" \in Phases /\ "COMPLETE" \in Phases /\ o \in Outcomes /\ o \in {"PAIRED", "CONFIG_FAILED"}
    BY DEF IInv, TypeInv, TargetInv, Exchanging, RegisterDevice, Commands, Phases, Outcomes
  <1>3. s \in TelemetryType
    BY <1>2, Sent DEF Follows
  <1>4. t \in TelemetryType
    <2> HIDE DEF s
    <2>1. QED
      BY <1>2, <1>3, Phasing DEF Follows
  <1>5. p \in TelemetryType
    <2> HIDE DEF t
    <2>1. QED
      BY <1>2, <1>4 DEF set_paired_device, TelemetryType
  <1>6. u \in TelemetryType
    <2> HIDE DEF p
    <2>1. QED
      BY <1>2, <1>5, Phasing DEF Follows
  <1>7. Finish(o, u, registry \cup {cx.target})
    BY <1>1
  <1> HIDE DEF s, t, p, u, o
  <1>8. pc' = "idle" /\ tel' = finish(u, o, "hub")
    BY <1>7 DEF Finish
  <1>9. tel'.outcome = o
    BY <1>2, <1>6, <1>8, Finishing
  <1>10. nonce' \in [Devices -> Nonces \cup {0}]
    BY DEF LedgerInv, RegisterDevice
  <1>11. QED
    BY <1>2, <1>8, <1>9, <1>10, Ends

\* The ledger does not look at the rest of the state.
LEMMA NothingPaid ==
    ASSUME LedgerInv, pc' = pc, tel'.outcome = tel.outcome, UNCHANGED <<keyed, nonce, air>>,
           cx'.command = cx.command, cx'.attempt = cx.attempt, cx'.ke = cx.ke, cx'.target = cx.target,
           cx'.challenge = cx.challenge, Unharmed(hist), hist'.losses = hist.losses
    PROVE  LedgerInv'
  <1>1. Clean' <=> Clean
    BY DEF Clean, Unharmed
  <1>2. Understood' <=> Understood
    BY DEF Understood
  <1>3. Paid' <=> Paid
    BY DEF Paid
  <1>4. \A x : (Challenges(x)' <=> Challenges(x)) /\ (Confirms(x)' <=> Confirms(x))
    BY DEF Challenges, Confirms
  <1>5. (OwesChallenge' <=> OwesChallenge) /\ (OwesConfirmation' <=> OwesConfirmation)
    BY <1>4 DEF OwesChallenge, OwesConfirmation
  <1>6. Ledger' <=> Ledger
    BY <1>2, <1>3, <1>5 DEF Ledger
  <1>7. ToleratesLosses' <=> ToleratesLosses
    BY DEF ToleratesLosses, Unharmed
  <1>8. QED
    BY <1>1, <1>6, <1>7 DEF LedgerInv

LEMMA HopPays == ASSUME IInv, LedgerInv, Hop PROVE LedgerInv'
  <1>1. /\ pc' = pc /\ cx' = cx /\ tel' = record_hop(tel) /\ UNCHANGED <<keyed, nonce, air>> /\ hist' = hist
        /\ tel \in TelemetryType
    BY DEF IInv, TypeInv, Hop, Go, world
  <1>2. tel'.outcome = tel.outcome
    BY <1>1, Deferral DEF Follows
  <1>3. QED
    BY <1>1, <1>2, NothingPaid DEF Unharmed

LEMMA NoisePays == ASSUME IInv, LedgerInv, Noise PROVE LedgerInv'
  <1> DEFINE h == [hist EXCEPT !.noise = @ + 1, !.packet = TRUE]
             g == [h EXCEPT !.parsed = TRUE]
             c == IF pc = "waitDiscover" THEN [cx EXCEPT !.sawTraffic = TRUE] ELSE cx
  <1>1. /\ pc \in {"waitDiscover", "waitChallenge"} /\ UNCHANGED <<keyed, nonce, air>>
        /\ pc' = pc /\ cx' = c /\ hist' \in {h, g} /\ cx \in ContextType /\ hist \in HistoryType
        /\ nonce \in [Devices -> Nonces \cup {0}]
    BY DEF IInv, TypeInv, LedgerInv, Noise, Go, world
  <1>2. /\ c.command = cx.command /\ c.attempt = cx.attempt /\ c.ke = cx.ke /\ c.target = cx.target
        /\ c.challenge = cx.challenge
    BY <1>1 DEF ContextType
  <1>3. /\ h.losses = hist.losses /\ h.late = hist.late /\ h.txFails = hist.txFails /\ h.refused = hist.refused
        /\ g.losses = hist.losses /\ g.late = hist.late /\ g.txFails = hist.txFails /\ g.refused = hist.refused
    BY <1>1 DEF HistoryType
  <1> HIDE DEF c, h, g
  <1>4. Unharmed(hist) /\ hist'.losses = hist.losses
    BY <1>1, <1>3 DEF Unharmed
  <1>5. Clean' => Clean
    BY <1>4 DEF Clean, Unharmed
  <1>6. (Paid' <=> Paid) /\ (OwesChallenge' <=> OwesChallenge)
    <2>1. Paid' <=> Paid
      BY <1>1, <1>2, <1>4 DEF Paid
    <2>2. \A x : (Challenges(x)' <=> Challenges(x)) /\ (Confirms(x)' <=> Confirms(x))
      BY <1>1, <1>2 DEF Challenges, Confirms
    <2>3. QED
      BY <1>1, <1>2, <2>1, <2>2 DEF OwesChallenge
  <1>7. Ledger => Ledger'
    BY <1>1, <1>2, <1>4, <1>6 DEF Ledger
  <1>8. Clean' => Ledger'
    BY <1>5, <1>7 DEF LedgerInv
  <1>9. QED
    BY <1>1, <1>8, GoesOn

\* What was late anyway, or of a device that is owed nothing, is gone.
LEMMA AnswerLostPays == ASSUME IInv, LedgerInv, AnswerLost PROVE LedgerInv'
  <1>1. /\ air \in Seq(Answers(keyed)) /\ air # <<>> /\ air' = Tail(air) /\ UNCHANGED <<pc, cx, tel, keyed, nonce, hist>>
        /\ pc \in {"idle", "discover", "keyInit", "sendKey"}
    BY DEF IInv, TypeInv, AnswerLost, Receives, Take, hub
  <1>2. /\ \A d : Without(air, d) => Without(air', d)
        /\ NoDevice(air) => NoDevice(air')
    BY <1>1, TailEnds, EndingSenders
  <1>3. (Clean' <=> Clean) /\ (Understood' <=> Understood) /\ (ToleratesLosses' <=> ToleratesLosses)
    BY <1>1 DEF Clean, Understood, ToleratesLosses
  <1>4. Ledger => Ledger'
    BY <1>1, <1>2, <1>3 DEF Ledger
  <1>5. QED
    BY <1>1, <1>3, <1>4 DEF LedgerInv

LEMMA OtherAnswersPays == ASSUME IInv, LedgerInv, OtherAnswers PROVE LedgerInv'
  <1>1. /\ air \in Seq(Answers(keyed)) /\ UNCHANGED <<pc, cx, tel, keyed, nonce>> /\ hist' = [hist EXCEPT !.noise = @ + 1]
        /\ pc \in {"waitDiscover", "waitChallenge", "waitConfirm", "waitFinal"} /\ hist \in HistoryType
        /\ nonce \in [Devices -> Nonces \cup {0}]
    BY DEF IInv, TypeInv, LedgerInv, OtherAnswers, hub
  <1>2. Unharmed(hist) /\ hist'.losses = hist.losses
    BY <1>1 DEF HistoryType, Unharmed
  <1>3. PICK p \in Seq(Answers(keyed)) : air' = p \o air /\ Len(p) = 1 /\ p[1].src = "stranger"
    <2>1. PICK cmd \in {"KEY_CONFIRM", "CHALLENGE_REQ"} : air' = Late(<<Reply(cmd, "stranger", 0)>>) \o air
      BY DEF OtherAnswers
    <2>2. PICK x \in Answers(keyed) : x = Reply(cmd, "stranger", 0) /\ x.src = "stranger"
      <3>1. Reply(cmd, "stranger", 0) \in Answers(keyed)
        BY DEF Reply, Answers, AnswerType
      <3>2. QED
        BY <3>1 DEF Reply
    <2>3. <<x>> \in Seq(Answers(keyed)) /\ Len(<<x>>) = 1 /\ <<x>>[1] = x /\ DOMAIN <<x>> = {1}
      OBVIOUS
    <2>4. Late(<<x>>) \in Seq(Answers(keyed))
      BY <2>3, Aging
    <2>5. DOMAIN Late(<<x>>) = {1} /\ Late(<<x>>)[1].src = "stranger"
      <3>1. [x EXCEPT !.late = TRUE].src = "stranger"
        BY <2>2 DEF Answers, AnswerType
      <3>2. QED
        BY <2>3, <3>1 DEF Late
    <2>6. Len(Late(<<x>>)) = 1
      <3>1. Len(Late(<<x>>)) \in Nat /\ DOMAIN Late(<<x>>) = 1..Len(Late(<<x>>))
        BY <2>4, Positions
      <3>2. 1..Len(Late(<<x>>)) = 1..1
        BY <2>5, <3>1
      <3>3. QED
        BY <3>1, <3>2, SameLength
    <2>7. QED
      BY <2>1, <2>2, <2>4, <2>5, <2>6
  <1>4. /\ \A d \in Devices : Without(air, d) => Without(air', d)
        /\ NoDevice(air) => NoDevice(air')
        /\ DiscoveryDue(air) => DiscoveryDue(air')
        /\ \A x : x.src \in Devices /\ Due(air, x) => Due(air', x)
    BY <1>1, <1>3, StrangerFirst
  <1>5. ASSUME pc # "waitDiscover"
        PROVE  (Paid => Paid') /\ (OwesChallenge => OwesChallenge') /\ (OwesConfirmation => OwesConfirmation')
    <2>1. cx.target \in Devices
      BY <1>1, <1>5 DEF IInv, TargetInv, Exchanging
    <2>2. \A x : (Challenges(x)' <=> Challenges(x)) /\ (Confirms(x)' <=> Confirms(x))
      BY <1>1 DEF Challenges, Confirms
    <2>3. Paid => Paid'
      BY <1>1, <1>2, <1>4, <2>1 DEF Paid
    <2>4. QED
      BY <1>1, <1>4, <2>1, <2>2, <2>3 DEF OwesChallenge, OwesConfirmation
  <1>6. (Clean' => Clean) /\ (Understood' <=> Understood)
    BY <1>1, <1>2 DEF Clean, Unharmed, Understood
  <1>7. Ledger => Ledger'
    BY <1>1, <1>2, <1>4, <1>5, <1>6 DEF Ledger
  <1>8. Clean' => Ledger'
    BY <1>6, <1>7 DEF LedgerInv
  <1>9. QED
    BY <1>1, <1>8, GoesOn

LEMMA LedgerOpens == Init => LedgerInv
  <1> SUFFICES ASSUME Init PROVE LedgerInv
    OBVIOUS
  <1>1. nonce \in [Devices -> Nonces \cup {0}]
    BY DEF Init
  <1>2. Ledger
    BY DEF Init, Ledger
  <1>3. ToleratesLosses
    BY DEF Init, begin, ToleratesLosses
  <1>4. QED
    BY <1>1, <1>2, <1>3 DEF LedgerInv

LEMMA EveryStepPays == ASSUME IInv, LedgerInv, [Next]_vars PROVE LedgerInv'
  <1>1. CASE HubSteps
    BY <1>1, DiscoverTxPays, DiscoveryReceivesPays, DiscoveryTimeoutPays, KeyInitTxPays, ChallengeReceivesPays,
       ChallengeTimeoutPays, KeyTxPays, ConfirmReceivesSlowPays, ConfirmReceivesFastPays, AuthenticationFailsPays, ConfirmTimeoutPays,
       RegisterDevicePays DEF HubSteps
  <1>2. CASE UNCHANGED vars
    <2>1. UNCHANGED <<pc, cx, tel, keyed, nonce, air, hist>>
      BY <1>2 DEF vars, hub, world
    <2>2. QED
      BY <2>1, NothingPaid DEF Unharmed
  <1>3. QED
    BY <1>1, <1>2, StartPays, HopPays, AnswerLostPays, NoisePays, OtherAnswersPays DEF Next

(***************************************************************************)
(* An attempt survives as many lost frames as Tolerated says, if these are *)
(* fewer than the key exchanges the engine makes and than the discovery    *)
(* requests it sends: it ends with the device registered, whatever else is *)
(* heard, and on both kinds of radio.                                      *)
(***************************************************************************)
THEOREM SurvivesLosses == Spec => []ToleratesLosses
  <1>1. LedgerInv => ToleratesLosses
    BY DEF LedgerInv
  <1>2. IInv /\ LedgerInv /\ [Next]_vars => LedgerInv'
    BY EveryStepPays
  <1>3. QED
    BY <1>1, <1>2, LedgerOpens, Invariance, PTL DEF Spec

-----------------------------------------------------------------------------
(* What the end of an attempt rests on: an attempt can only run down.      *)

\* The loop counters are in range.
InRange(c) ==
    /\ c.command \in 1..DiscoveryCommands /\ c.attempt \in 1..PAIRING_DISCOVERY_MAX_ATTEMPTS
    /\ c.ke \in 1..pairing_key_exchange_retries /\ c.re \in 0..Retriggers /\ c.tries \in 1..EXCHANGE_RETRY_COUNT

\* Discovery requests after this one.
RequestsLeft(c) ==
    (DiscoveryCommands - c.command) * PAIRING_DISCOVERY_MAX_ATTEMPTS + (PAIRING_DISCOVERY_MAX_ATTEMPTS - c.attempt)

\* Key-inits after this one.
InitsLeft(c) == (pairing_key_exchange_retries - c.ke) * (Retriggers + 1) + (Retriggers - c.re)

\* The most transmissions and windows from a key-init to the next, and what is left of them.
Round == 3 * EXCHANGE_RETRY_COUNT + 2
RoundLeft(p, c) ==
    CASE p = "keyInit" -> Round
      [] p = "waitChallenge" -> Round - 1
      [] p = "sendKey" -> 3 * (EXCHANGE_RETRY_COUNT - c.tries) + 3
      [] p = "waitConfirm" -> 3 * (EXCHANGE_RETRY_COUNT - c.tries) + 2
      [] OTHER -> 3 * (EXCHANGE_RETRY_COUNT - c.tries) + 1

\* The most transmissions and windows from a place p in discover_and_pair to its end.
Calls(p, c) ==
    CASE p = "idle" -> 0
      [] p = "config" -> 1
      [] p = "discover" -> 2 * RequestsLeft(c) + 2 + (InitsLeft(FreshContext) + 1) * Round + 1
      [] p = "waitDiscover" -> 2 * RequestsLeft(c) + 1 + (InitsLeft(FreshContext) + 1) * Round + 1
      [] OTHER -> InitsLeft(c) * Round + RoundLeft(p, c) + 1

\* An attempt comes nearer to its end with every step of the hub but a frame that is
\* received and ignored, and nothing that happens on the air puts the end off.
AttemptRunsDown ==
    [][/\ HubSteps => \/ Calls(pc', cx') < Calls(pc, cx)
                      \/ pc' = pc /\ Calls(pc', cx') = Calls(pc, cx) /\ Len(air') < Len(air)
       /\ pc # "idle" => Calls(pc', cx') <= Calls(pc, cx)]_vars

\* Between two places of the key exchange, or of discovery.
Same(c, d) == d.command = c.command /\ d.attempt = c.attempt /\ d.ke = c.ke /\ d.re = c.re /\ d.tries = c.tries
SameRequest(c, d) == d.ke = c.ke /\ d.re = c.re /\ d.tries = c.tries
SamePhase(c, d) == d.command = c.command /\ d.attempt = c.attempt

\* Where a step takes the hub that does not stay: on, to the next repetition, or out.
ToNextRequest(c, d) ==
    /\ SameRequest(c, d)
    /\ \/ c.attempt < PAIRING_DISCOVERY_MAX_ATTEMPTS /\ d.attempt = c.attempt + 1 /\ d.command = c.command
       \/ /\ c.attempt = PAIRING_DISCOVERY_MAX_ATTEMPTS /\ d.attempt = 1
          /\ c.command < DiscoveryCommands /\ d.command = c.command + 1
ToNextInit(c, d) ==
    /\ SamePhase(c, d) /\ d.tries = c.tries
    /\ \/ c.re < Retriggers /\ d.re = c.re + 1 /\ d.ke = c.ke
       \/ c.ke < pairing_key_exchange_retries /\ d.ke = c.ke + 1 /\ d.re = 0
ToNextTry(c, d) == SamePhase(c, d) /\ d.ke = c.ke /\ d.re = c.re /\ c.tries < EXCHANGE_RETRY_COUNT /\ d.tries = c.tries + 1

Leads(p, c, q, d) ==
    \/ q = "idle" /\ d = FreshContext
    \/ p = "discover" /\ q = "waitDiscover" /\ Same(c, d)
    \/ p = "waitDiscover" /\ q = "discover" /\ ToNextRequest(c, d)
    \/ p = "waitDiscover" /\ q = "keyInit" /\ Same(c, d)
    \/ p = "keyInit" /\ q = "waitChallenge" /\ Same(c, d)
    \/ p = "waitChallenge" /\ q = "sendKey" /\ SamePhase(c, d) /\ d.ke = c.ke /\ d.re = c.re /\ d.tries = 1
    \/ p = "sendKey" /\ q = "waitConfirm" /\ Same(c, d)
    \/ p = "waitConfirm" /\ q = "waitFinal" /\ Same(c, d)
    \/ p \in Exchanging \ {"config"} /\ q = "config" /\ Same(c, d)
    \/ p \in {"sendKey", "waitConfirm", "waitFinal"} /\ q = "sendKey" /\ ToNextTry(c, d)
    \/ p \in Exchanging \ {"config"} /\ q = "keyInit" /\ ToNextInit(c, d)

\* Fewer rounds to go outweigh whatever is left of this one.
LEMMA Outweighs ==
    ASSUME NEW a \in Nat, NEW b \in Nat, NEW m \in Nat, NEW r \in Nat, NEW s \in Nat, a < b, r < m + s
    PROVE  a * m + r < b * m + s
  <1>1. PICK k \in Nat : b = a + 1 + k
    <2>1. b - a - 1 \in Nat /\ b = a + 1 + (b - a - 1)
      OBVIOUS
    <2>2. QED
      BY <2>1
  <1>2. a * m \in Nat /\ k * m \in Nat
    OBVIOUS
  <1>3. b * m = a * m + m + k * m
    BY <1>1
  <1> DEFINE x == a * m
             y == k * m
             z == b * m
  <1>4. x \in Nat /\ y \in Nat /\ z = x + m + y
    BY <1>2, <1>3
  <1> HIDE DEF x, y, z
  <1>5. x + r < z + s
    BY <1>4
  <1>6. QED
    BY <1>5 DEF x, z

LEMMA Repetitions ==
    /\ EXCHANGE_RETRY_COUNT \in Nat /\ EXCHANGE_RETRY_COUNT > 0 /\ pairing_key_exchange_retries \in Nat /\ Retriggers \in Nat
    /\ DiscoveryCommands \in Nat /\ PAIRING_DISCOVERY_MAX_ATTEMPTS \in Nat /\ PAIRING_DISCOVERY_MAX_ATTEMPTS > 0
    /\ Round \in Nat /\ Round = 3 * EXCHANGE_RETRY_COUNT + 2
  <1>1. /\ EXCHANGE_RETRY_COUNT \in Nat /\ EXCHANGE_RETRY_COUNT > 0 /\ pairing_key_exchange_retries \in Nat /\ Retriggers \in Nat
        /\ DiscoveryCommands \in Nat /\ PAIRING_DISCOVERY_MAX_ATTEMPTS \in Nat /\ PAIRING_DISCOVERY_MAX_ATTEMPTS > 0
    BY PairingAssumption
  <1>2. QED
    BY <1>1 DEF Round

\* What is left in range, and where.
LEMMA LeftInRange ==
    ASSUME NEW c, InRange(c)
    PROVE  /\ RequestsLeft(c) \in Nat /\ InitsLeft(c) \in Nat
           /\ (DiscoveryCommands - c.command) * PAIRING_DISCOVERY_MAX_ATTEMPTS \in Nat
           /\ (pairing_key_exchange_retries - c.ke) * (Retriggers + 1) \in Nat
  <1>1. /\ DiscoveryCommands - c.command \in Nat /\ PAIRING_DISCOVERY_MAX_ATTEMPTS - c.attempt \in Nat
        /\ pairing_key_exchange_retries - c.ke \in Nat /\ Retriggers - c.re \in Nat
        /\ PAIRING_DISCOVERY_MAX_ATTEMPTS \in Nat /\ Retriggers + 1 \in Nat
    BY Repetitions DEF InRange
  <1>2. \A k, m \in Nat : k * m \in Nat
    OBVIOUS
  <1>3. /\ (DiscoveryCommands - c.command) * PAIRING_DISCOVERY_MAX_ATTEMPTS \in Nat
        /\ (pairing_key_exchange_retries - c.ke) * (Retriggers + 1) \in Nat
    BY <1>1, <1>2
  <1>4. QED
    BY <1>1, <1>3 DEF RequestsLeft, InitsLeft

\* Each repetition leaves fewer.
LEMMA RequestsRunDown ==
    ASSUME NEW c, NEW d, InRange(c), ToNextRequest(c, d)
    PROVE  InRange(d) /\ RequestsLeft(d) < RequestsLeft(c)
  <1>1. InRange(d)
    BY Repetitions DEF InRange, ToNextRequest, SameRequest
  <1>2. CASE c.attempt < PAIRING_DISCOVERY_MAX_ATTEMPTS /\ d.attempt = c.attempt + 1 /\ d.command = c.command
    <2> DEFINE x == (DiscoveryCommands - c.command) * PAIRING_DISCOVERY_MAX_ATTEMPTS
    <2>1. x \in Nat /\ c.attempt \in Nat /\ PAIRING_DISCOVERY_MAX_ATTEMPTS \in Nat
      BY LeftInRange, Repetitions DEF InRange
    <2>2. /\ RequestsLeft(c) = x + (PAIRING_DISCOVERY_MAX_ATTEMPTS - c.attempt)
          /\ RequestsLeft(d) = x + (PAIRING_DISCOVERY_MAX_ATTEMPTS - (c.attempt + 1))
      BY <1>2 DEF RequestsLeft
    <2> HIDE DEF x
    <2>3. QED
      BY <1>1, <2>1, <2>2
  <1>3. CASE c.attempt = PAIRING_DISCOVERY_MAX_ATTEMPTS /\ d.attempt = 1 /\ c.command < DiscoveryCommands /\ d.command = c.command + 1
    <2> DEFINE a == DiscoveryCommands - (c.command + 1)
               b == DiscoveryCommands - c.command
               m == PAIRING_DISCOVERY_MAX_ATTEMPTS
    <2>1. a \in Nat /\ b \in Nat /\ a < b /\ m \in Nat /\ m - 1 \in Nat /\ m - 1 < m + 0
      BY <1>3, Repetitions DEF InRange
    <2>2. RequestsLeft(c) = b * m + (m - m) /\ RequestsLeft(d) = a * m + (m - 1)
      BY <1>3 DEF RequestsLeft
    <2> HIDE DEF a, b, m
    <2>3. m - m = 0 /\ 0 \in Nat
      BY <2>1
    <2>4. a * m + (m - 1) < b * m + 0
      BY <2>1, <2>3, Outweighs
    <2>5. QED
      BY <1>1, <2>2, <2>3, <2>4
  <1>4. QED
    BY <1>2, <1>3 DEF ToNextRequest

LEMMA InitsRunDown ==
    ASSUME NEW c, NEW d, InRange(c), ToNextInit(c, d)
    PROVE  InRange(d) /\ InitsLeft(d) < InitsLeft(c)
  <1>1. InRange(d)
    BY Repetitions DEF InRange, ToNextInit, SamePhase
  <1>2. CASE c.re < Retriggers /\ d.re = c.re + 1 /\ d.ke = c.ke
    <2> DEFINE x == (pairing_key_exchange_retries - c.ke) * (Retriggers + 1)
    <2>1. x \in Nat /\ c.re \in Nat /\ Retriggers \in Nat
      BY LeftInRange, Repetitions DEF InRange
    <2>2. InitsLeft(c) = x + (Retriggers - c.re) /\ InitsLeft(d) = x + (Retriggers - (c.re + 1))
      BY <1>2 DEF InitsLeft
    <2> HIDE DEF x
    <2>3. QED
      BY <1>1, <2>1, <2>2
  <1>3. CASE c.ke < pairing_key_exchange_retries /\ d.ke = c.ke + 1 /\ d.re = 0
    <2> DEFINE a == pairing_key_exchange_retries - (c.ke + 1)
               b == pairing_key_exchange_retries - c.ke
               m == Retriggers + 1
               s == Retriggers - c.re
    <2>1. a \in Nat /\ b \in Nat /\ a < b /\ m \in Nat /\ s \in Nat /\ Retriggers \in Nat /\ Retriggers < m + s
      BY <1>3, Repetitions DEF InRange
    <2>2. InitsLeft(c) = b * m + s /\ InitsLeft(d) = a * m + (Retriggers - 0)
      BY <1>3 DEF InitsLeft
    <2> HIDE DEF a, b, m, s
    <2>3. a * m + Retriggers < b * m + s
      BY <2>1, Outweighs
    <2>4. QED
      BY <1>1, <2>1, <2>2, <2>3
  <1>4. QED
    BY <1>2, <1>3 DEF ToNextInit

\* What is left of a round is no more than a round.
LEMMA RoundInRange ==
    ASSUME NEW c, InRange(c), NEW p \in Exchanging \ {"config"}
    PROVE  RoundLeft(p, c) \in 1..Round
  <1>1. c.tries \in 1..EXCHANGE_RETRY_COUNT /\ EXCHANGE_RETRY_COUNT \in Nat /\ Round = 3 * EXCHANGE_RETRY_COUNT + 2
    BY Repetitions DEF InRange
  <1>2. EXCHANGE_RETRY_COUNT - c.tries \in Nat /\ EXCHANGE_RETRY_COUNT - c.tries <= EXCHANGE_RETRY_COUNT - 1
    BY <1>1
  <1>3. QED
    BY <1>1, <1>2 DEF RoundLeft, Exchanging

LEMMA FreshInRange == InRange(FreshContext)
  <1>1. /\ FreshContext.command = 1 /\ FreshContext.attempt = 1 /\ FreshContext.ke = 1 /\ FreshContext.re = 0
        /\ FreshContext.tries = 1
    BY DEF FreshContext
  <1>2. QED
    BY <1>1, PairingAssumption DEF InRange

\* The key exchange has the most before it at its beginning.
LEMMA InitsBounded == ASSUME NEW c, InRange(c) PROVE InitsLeft(c) <= InitsLeft(FreshContext)
  <1> DEFINE a == pairing_key_exchange_retries - c.ke
             b == pairing_key_exchange_retries - 1
             m == Retriggers + 1
             r == Retriggers - c.re
  <1>1. a \in Nat /\ b \in Nat /\ m \in Nat /\ r \in Nat /\ Retriggers \in Nat /\ a <= b /\ r <= Retriggers /\ r < m + Retriggers
    BY Repetitions DEF InRange
  <1>2. FreshContext.ke = 1 /\ FreshContext.re = 0
    BY DEF FreshContext
  <1>3. InitsLeft(c) = a * m + r /\ InitsLeft(FreshContext) = b * m + (Retriggers - 0)
    BY <1>2 DEF InitsLeft
  <1>4. InitsLeft(c) \in Nat /\ InitsLeft(FreshContext) \in Nat
    BY FreshInRange, LeftInRange
  <1> HIDE DEF a, b, m, r
  <1>5. CASE a < b
    <2>1. a * m + r < b * m + Retriggers
      BY <1>1, <1>5, Outweighs
    <2>2. QED
      BY <1>1, <1>3, <1>4, <2>1
  <1>6. CASE a = b
    <2>1. a * m \in Nat
      BY <1>1
    <2>2. QED
      BY <1>1, <1>3, <1>6, <2>1
  <1>7. QED
    BY <1>1, <1>5, <1>6

\* The calls that are left at each place.
KeyCalls == (InitsLeft(FreshContext) + 1) * Round
LEMMA CallsLeft ==
    ASSUME NEW c, InRange(c)
    PROVE  /\ RequestsLeft(c) \in Nat /\ InitsLeft(c) \in Nat /\ InitsLeft(c) * Round \in Nat
           /\ Round \in Nat /\ KeyCalls \in Nat /\ InitsLeft(c) * Round + Round <= KeyCalls
           /\ Calls("idle", c) = 0 /\ Calls("config", c) = 1
           /\ Calls("discover", c) = 2 * RequestsLeft(c) + 2 + KeyCalls + 1
           /\ Calls("waitDiscover", c) = 2 * RequestsLeft(c) + 1 + KeyCalls + 1
           /\ \A p \in Exchanging \ {"config"} :
                /\ RoundLeft(p, c) \in 1..Round
                /\ Calls(p, c) = InitsLeft(c) * Round + RoundLeft(p, c) + 1
  <1>1. /\ RequestsLeft(c) \in Nat /\ InitsLeft(c) \in Nat /\ Round \in Nat
        /\ InitsLeft(FreshContext) \in Nat /\ InitsLeft(c) <= InitsLeft(FreshContext)
    BY LeftInRange, FreshInRange, InitsBounded, Repetitions
  <1>2. \A k, m \in Nat : k * m \in Nat
    OBVIOUS
  <1>3. InitsLeft(c) * Round \in Nat /\ KeyCalls \in Nat
    <2>1. InitsLeft(FreshContext) + 1 \in Nat
      BY <1>1
    <2>2. QED
      BY <1>1, <1>2, <2>1 DEF KeyCalls
  <1>4. InitsLeft(c) * Round + Round <= KeyCalls
    <2> DEFINE x == InitsLeft(c)
               y == InitsLeft(FreshContext) + 1
    <2>1. x \in Nat /\ y \in Nat /\ x + 1 <= y
      BY <1>1
    <2> HIDE DEF x, y
    <2>2. (x + 1) * Round = x * Round + Round
      BY <1>1, <2>1
    <2>3. x * Round \in Nat /\ (x + 1) * Round \in Nat /\ y * Round \in Nat /\ x + 1 \in Nat
      BY <1>1, <1>2, <2>1
    <2>4. CASE x + 1 = y
      BY <2>2, <2>3, <2>4 DEF KeyCalls, x, y
    <2>5. CASE x + 1 < y
      <3>1. (x + 1) * Round + 0 < y * Round + 1
        BY <1>1, <2>1, <2>3, <2>5, Outweighs
      <3>2. (x + 1) * Round <= y * Round
        BY <2>3, <3>1
      <3>3. QED
        BY <2>2, <2>3, <3>2 DEF KeyCalls, x, y
    <2>6. QED
      BY <2>1, <2>4, <2>5
  <1>5. \A p \in Exchanging \ {"config"} :
          RoundLeft(p, c) \in 1..Round /\ Calls(p, c) = InitsLeft(c) * Round + RoundLeft(p, c) + 1
    BY RoundInRange DEF Calls, Exchanging
  <1>6. QED
    BY <1>1, <1>3, <1>4, <1>5 DEF Calls, KeyCalls

\* Another key-init outweighs whatever its answers take.
LEMMA RoundsRunDown ==
    ASSUME NEW c, NEW d, InRange(c), InRange(d), InitsLeft(d) < InitsLeft(c),
           NEW p \in Exchanging \ {"config"}, NEW q \in Exchanging \ {"config"}
    PROVE  Calls(q, d) < Calls(p, c)
  <1>1. /\ InitsLeft(c) \in Nat /\ InitsLeft(d) \in Nat /\ Round \in Nat
        /\ RoundLeft(p, c) \in 1..Round /\ RoundLeft(q, d) \in 1..Round
        /\ Calls(p, c) = InitsLeft(c) * Round + RoundLeft(p, c) + 1
        /\ Calls(q, d) = InitsLeft(d) * Round + RoundLeft(q, d) + 1
        /\ InitsLeft(c) * Round \in Nat /\ InitsLeft(d) * Round \in Nat
    BY CallsLeft
  <1>2. RoundLeft(q, d) \in Nat /\ RoundLeft(p, c) \in Nat /\ RoundLeft(q, d) < Round + RoundLeft(p, c)
    BY <1>1
  <1>3. InitsLeft(d) * Round + RoundLeft(q, d) < InitsLeft(c) * Round + RoundLeft(p, c)
    BY <1>1, <1>2, Outweighs
  <1> DEFINE x == InitsLeft(c) * Round
             y == InitsLeft(d) * Round
  <1>4. x \in Nat /\ y \in Nat /\ y + RoundLeft(q, d) < x + RoundLeft(p, c)
    BY <1>1, <1>3
  <1>5. Calls(p, c) = x + RoundLeft(p, c) + 1 /\ Calls(q, d) = y + RoundLeft(q, d) + 1
    BY <1>1
  <1> HIDE DEF x, y
  <1>6. QED
    BY <1>2, <1>4, <1>5

\* Every way on brings the end nearer.
LEMMA LeadsOn ==
    ASSUME NEW p \in Searching \cup Exchanging, NEW c, NEW q, NEW d, InRange(c), Leads(p, c, q, d)
    PROVE  InRange(d) /\ Calls(q, d) < Calls(p, c)
  <1> DEFINE x == InitsLeft(c) * Round
  <1>1. /\ RequestsLeft(c) \in Nat /\ x \in Nat /\ Round \in Nat /\ KeyCalls \in Nat /\ x + Round <= KeyCalls
        /\ p = "config" => Calls(p, c) = 1
        /\ p = "discover" => Calls(p, c) = 2 * RequestsLeft(c) + 2 + KeyCalls + 1
        /\ p = "waitDiscover" => Calls(p, c) = 2 * RequestsLeft(c) + 1 + KeyCalls + 1
        /\ p \in Exchanging \ {"config"} => RoundLeft(p, c) \in 1..Round /\ Calls(p, c) = x + RoundLeft(p, c) + 1
    BY CallsLeft
  <1>2. Searching \cup Exchanging = {"config", "discover", "waitDiscover"} \cup (Exchanging \ {"config"})
    BY DEF Searching, Exchanging
  <1>3. Calls(p, c) \in Nat /\ Calls(p, c) > 0
    <2> HIDE DEF x
    <2>1. QED
      BY <1>1, <1>2
  <1>4. ASSUME Same(c, d) PROVE InRange(d) /\ InitsLeft(d) = InitsLeft(c) /\ RequestsLeft(d) = RequestsLeft(c)
    BY <1>4 DEF Same, InRange, InitsLeft, RequestsLeft
  <1>5. ASSUME InRange(d), InitsLeft(d) = InitsLeft(c), p \in Exchanging \ {"config"}, q \in Exchanging \ {"config"},
               RoundLeft(q, d) < RoundLeft(p, c)
        PROVE  InRange(d) /\ Calls(q, d) < Calls(p, c)
    <2>1. RoundLeft(q, d) \in 1..Round /\ Calls(q, d) = x + RoundLeft(q, d) + 1
      BY <1>5, CallsLeft
    <2> HIDE DEF x
    <2>2. QED
      BY <1>1, <1>5, <2>1
  <1>6. EXCHANGE_RETRY_COUNT \in Nat /\ c.tries \in 1..EXCHANGE_RETRY_COUNT /\ Round = 3 * EXCHANGE_RETRY_COUNT + 2
    BY Repetitions DEF InRange
  <1>7. CASE q = "idle" /\ d = FreshContext
    BY <1>3, <1>7, FreshInRange, CallsLeft
  <1>8. CASE p = "discover" /\ q = "waitDiscover" /\ Same(c, d)
    <2>1. Calls(q, d) = 2 * RequestsLeft(c) + 1 + KeyCalls + 1 /\ InRange(d)
      BY <1>4, <1>8, CallsLeft
    <2>2. QED
      BY <1>1, <1>8, <2>1
  <1>9. CASE p = "waitDiscover" /\ q = "discover" /\ ToNextRequest(c, d)
    <2>1. InRange(d) /\ RequestsLeft(d) < RequestsLeft(c)
      BY <1>9, RequestsRunDown
    <2>2. Calls(q, d) = 2 * RequestsLeft(d) + 2 + KeyCalls + 1 /\ RequestsLeft(d) \in Nat
      BY <1>9, <2>1, CallsLeft
    <2>3. QED
      BY <1>1, <1>9, <2>1, <2>2
  <1>10. CASE p = "waitDiscover" /\ q = "keyInit" /\ Same(c, d)
    <2>1. q \in Exchanging \ {"config"}
      BY <1>10 DEF Exchanging
    <2>2. Calls(q, d) = x + RoundLeft(q, d) + 1 /\ RoundLeft(q, d) \in 1..Round /\ InRange(d)
      BY <1>4, <1>10, <2>1, CallsLeft
    <2> HIDE DEF x
    <2>3. QED
      BY <1>1, <1>10, <2>2
  <1>11. CASE p = "keyInit" /\ q = "waitChallenge" /\ Same(c, d)
    <2>1. RoundLeft(q, d) < RoundLeft(p, c) /\ p \in Exchanging \ {"config"} /\ q \in Exchanging \ {"config"}
      BY <1>6, <1>11 DEF RoundLeft, Exchanging
    <2>2. QED
      BY <1>4, <1>5, <1>11, <2>1
  <1>12. CASE p = "waitChallenge" /\ q = "sendKey" /\ SamePhase(c, d) /\ d.ke = c.ke /\ d.re = c.re /\ d.tries = 1
    <2>1. InRange(d) /\ InitsLeft(d) = InitsLeft(c)
      BY <1>6, <1>12 DEF SamePhase, InRange, InitsLeft
    <2>2. RoundLeft(q, d) < RoundLeft(p, c) /\ p \in Exchanging \ {"config"} /\ q \in Exchanging \ {"config"}
      BY <1>6, <1>12 DEF RoundLeft, Exchanging
    <2>3. QED
      BY <1>5, <1>12, <2>1, <2>2
  <1>13. CASE p = "sendKey" /\ q = "waitConfirm" /\ Same(c, d)
    <2>1. RoundLeft(q, d) < RoundLeft(p, c) /\ p \in Exchanging \ {"config"} /\ q \in Exchanging \ {"config"}
      BY <1>6, <1>13 DEF RoundLeft, Exchanging, Same
    <2>2. QED
      BY <1>4, <1>5, <1>13, <2>1
  <1>14. CASE p = "waitConfirm" /\ q = "waitFinal" /\ Same(c, d)
    <2>1. RoundLeft(q, d) < RoundLeft(p, c) /\ p \in Exchanging \ {"config"} /\ q \in Exchanging \ {"config"}
      BY <1>6, <1>14 DEF RoundLeft, Exchanging, Same
    <2>2. QED
      BY <1>4, <1>5, <1>14, <2>1
  <1>15. CASE p \in Exchanging \ {"config"} /\ q = "config" /\ Same(c, d)
    <2>1. Calls(q, d) = 1 /\ InRange(d)
      BY <1>4, <1>15, CallsLeft
    <2> HIDE DEF x
    <2>2. QED
      BY <1>1, <1>15, <2>1
  <1>16. CASE p \in {"sendKey", "waitConfirm", "waitFinal"} /\ q = "sendKey" /\ ToNextTry(c, d)
    <2>1. InRange(d) /\ InitsLeft(d) = InitsLeft(c)
      BY <1>6, <1>16 DEF ToNextTry, SamePhase, InRange, InitsLeft
    <2>2. RoundLeft(q, d) < RoundLeft(p, c) /\ p \in Exchanging \ {"config"} /\ q \in Exchanging \ {"config"}
      BY <1>6, <1>16 DEF RoundLeft, Exchanging, ToNextTry
    <2>3. QED
      BY <1>5, <1>16, <2>1, <2>2
  <1>17. CASE p \in Exchanging \ {"config"} /\ q = "keyInit" /\ ToNextInit(c, d)
    <2>1. InRange(d) /\ InitsLeft(d) < InitsLeft(c) /\ q \in Exchanging \ {"config"}
      BY <1>17, InitsRunDown DEF Exchanging
    <2>2. QED
      BY <1>17, <2>1, RoundsRunDown
  <1>18. QED
    BY <1>7, <1>8, <1>9, <1>10, <1>11, <1>12, <1>13, <1>14, <1>15, <1>16, <1>17 DEF Leads

-----------------------------------------------------------------------------
(* The steps lead on, or wait for another frame.                           *)

\* A frame was received and ignored.
Waits == pc' = pc /\ Same(cx, cx') /\ Len(air') < Len(air)

\* What changes in the context, as far as it counts.
LEMMA ContextChanges ==
    ASSUME cx \in ContextType
    PROVE  /\ \A b : Same(cx, [cx EXCEPT !.sawTraffic = b]) /\ Same(cx, [cx EXCEPT !.sawInvalid = b])
           /\ \A d : Same(cx, [cx EXCEPT !.target = d])
           /\ \A n : LET c == [cx EXCEPT !.challenge = n, !.tries = 1]
                     IN  SamePhase(cx, c) /\ c.ke = cx.ke /\ c.re = cx.re /\ c.tries = 1
           /\ Same(cx, cx)
  <1>1. \A b : Same(cx, [cx EXCEPT !.sawTraffic = b]) /\ Same(cx, [cx EXCEPT !.sawInvalid = b])
    BY DEF Same, ContextType
  <1>2. \A d : Same(cx, [cx EXCEPT !.target = d])
    BY DEF Same, ContextType
  <1>3. ASSUME NEW n
        PROVE  LET c == [cx EXCEPT !.challenge = n, !.tries = 1]
               IN  SamePhase(cx, c) /\ c.ke = cx.ke /\ c.re = cx.re /\ c.tries = 1
    BY DEF SamePhase, ContextType
  <1>4. Same(cx, cx)
    BY DEF Same
  <1>5. QED
    BY <1>1, <1>2, <1>3, <1>4

LEMMA OverLeads == ASSUME NEW o, NEW t, NEW reg, Finish(o, t, reg) PROVE Leads(pc, cx, pc', cx')
  BY DEF Finish, Leads

\* The ends of a wait in the key exchange.
LEMMA MissedLeads ==
    ASSUME cx \in ContextType, pc \in Exchanging \ {"config"}, NEW t, KeyPhaseFails(t) \/ KeyMissed(t) \/ NoChallenge(t)
    PROVE  Leads(pc, cx, pc', cx')
  <1>1. CASE KeyPhaseFails(t)
    <2>1. CASE cx.ke < pairing_key_exchange_retries
      <3>1. pc' = "keyInit" /\ cx' = [cx EXCEPT !.ke = @ + 1, !.re = 0]
        BY <1>1, <2>1 DEF KeyPhaseFails, Go
      <3>2. ToNextInit(cx, cx')
        BY <2>1, <3>1 DEF ToNextInit, SamePhase, ContextType
      <3>3. QED
        BY <3>1, <3>2 DEF Leads
    <2>2. CASE ~(cx.ke < pairing_key_exchange_retries)
      BY <1>1, <2>2, OverLeads DEF KeyPhaseFails
    <2>3. QED
      BY <2>1, <2>2
  <1>2. CASE ~fast /\ cx.re < Retriggers /\ Go("keyInit", [cx EXCEPT !.re = @ + 1], t)
    <2>1. pc' = "keyInit" /\ cx' = [cx EXCEPT !.re = @ + 1]
      BY <1>2 DEF Go
    <2>2. ToNextInit(cx, cx')
      BY <1>2, <2>1 DEF ToNextInit, SamePhase, ContextType
    <2>3. QED
      BY <2>1, <2>2 DEF Leads
  <1>3. QED
    BY <1>1, <1>2 DEF KeyMissed, NoChallenge

LEMMA NextTryLeads ==
    ASSUME cx \in ContextType, pc \in {"sendKey", "waitConfirm", "waitFinal"}, NEW t, NextTry(t) \/ OutOfTime(t)
    PROVE  Leads(pc, cx, pc', cx')
  <1>1. CASE KeyMissed(t)
    BY <1>1, MissedLeads DEF Exchanging
  <1>2. CASE cx.tries < EXCHANGE_RETRY_COUNT /\ Go("sendKey", [cx EXCEPT !.tries = @ + 1], t)
    <2>1. pc' = "sendKey" /\ cx' = [cx EXCEPT !.tries = @ + 1]
      BY <1>2 DEF Go
    <2>2. ToNextTry(cx, cx')
      BY <1>2, <2>1 DEF ToNextTry, SamePhase, ContextType
    <2>3. QED
      BY <2>1, <2>2 DEF Leads
  <1>3. QED
    BY <1>1, <1>2 DEF NextTry, OutOfTime

LEMMA DiscoverTxLeads == ASSUME cx \in ContextType, DiscoverTx PROVE Leads(pc, cx, pc', cx')
  <1>1. pc = "discover"
    BY DEF DiscoverTx
  <1>2. ASSUME NEW t, Go("waitDiscover", [cx EXCEPT !.sawTraffic = FALSE], t) PROVE Leads(pc, cx, pc', cx')
    <2>1. pc' = "waitDiscover" /\ cx' = [cx EXCEPT !.sawTraffic = FALSE]
      BY <1>2 DEF Go
    <2>2. QED
      BY <1>1, <2>1, ContextChanges DEF Leads
  <1>3. QED
    BY <1>2, OverLeads DEF DiscoverTx, Transmit, TransmitFails

\* The head of the air is taken.
LEMMA TakenShortens == ASSUME TypeInv, Receives, Take PROVE Len(air') < Len(air)
  <1>1. air \in Seq(Answers(keyed)) /\ air # <<>>
    BY DEF TypeInv, Receives
  <1>2. Len(air) \in Nat /\ Len(air) # 0 /\ Len(Tail(air)) = Len(air) - 1
    BY <1>1, HeadTailProperties, LenProperties, EmptySeq
  <1>3. QED
    BY <1>2 DEF Take

LEMMA DiscoveryReceivesLeads == ASSUME TypeInv, DiscoveryReceives PROVE Leads(pc, cx, pc', cx') \/ Waits
  <1>1. pc = "waitDiscover" /\ cx \in ContextType /\ Receives
    BY DEF DiscoveryReceives, TypeInv
  <1>2. CASE is_discovery_response(Head(air))
    <2>1. pc' = "keyInit" /\ cx' = [cx EXCEPT !.target = Head(air).src]
      BY <1>2 DEF DiscoveryReceives, Go
    <2>2. QED
      BY <1>1, <2>1, ContextChanges DEF Leads
  <1>3. CASE ~is_discovery_response(Head(air))
    <2>1. pc' = pc /\ cx' = [cx EXCEPT !.sawTraffic = TRUE] /\ Take
      BY <1>3 DEF DiscoveryReceives, Go
    <2>2. QED
      BY <1>1, <2>1, ContextChanges, TakenShortens DEF Waits
  <1>4. QED
    BY <1>2, <1>3

LEMMA DiscoveryTimeoutLeads == ASSUME cx \in ContextType, DiscoveryTimeout PROVE Leads(pc, cx, pc', cx')
  <1> DEFINE b == cx.sawInvalid \/ cx.sawTraffic
             c == [cx EXCEPT !.sawInvalid = b]
  <1>1. pc = "waitDiscover" /\ [cx EXCEPT !.sawInvalid = @ \/ cx.sawTraffic] = c
    BY DEF DiscoveryTimeout
  <1>2. c \in ContextType /\ Same(cx, c)
    <2>1. b \in BOOLEAN
      BY DEF ContextType
    <2> HIDE DEF b
    <2>2. c \in ContextType
      BY <2>1 DEF ContextType
    <2>3. QED
      BY <2>2, ContextChanges
  <1>3. \/ cx.attempt < PAIRING_DISCOVERY_MAX_ATTEMPTS /\ Go("discover", [c EXCEPT !.attempt = @ + 1], tel)
        \/ /\ cx.attempt = PAIRING_DISCOVERY_MAX_ATTEMPTS /\ cx.command < DiscoveryCommands
           /\ Go("discover", [c EXCEPT !.command = @ + 1, !.attempt = 1], tel)
        \/ \E o : Finish(o, tel, registry)
    BY <1>1 DEF DiscoveryTimeout
  <1> HIDE DEF c
  <1>4. CASE cx.attempt < PAIRING_DISCOVERY_MAX_ATTEMPTS /\ Go("discover", [c EXCEPT !.attempt = @ + 1], tel)
    <2>1. pc' = "discover" /\ cx' = [c EXCEPT !.attempt = @ + 1]
      BY <1>4 DEF Go
    <2>2. cx'.attempt = cx.attempt + 1 /\ cx'.command = cx.command /\ SameRequest(cx, cx')
      BY <1>2, <2>1 DEF SameRequest, Same, ContextType
    <2>3. QED
      BY <1>1, <1>4, <2>1, <2>2 DEF Leads, ToNextRequest
  <1>5. CASE /\ cx.attempt = PAIRING_DISCOVERY_MAX_ATTEMPTS /\ cx.command < DiscoveryCommands
             /\ Go("discover", [c EXCEPT !.command = @ + 1, !.attempt = 1], tel)
    <2>1. pc' = "discover" /\ cx' = [c EXCEPT !.command = @ + 1, !.attempt = 1]
      BY <1>5 DEF Go
    <2>2. cx'.attempt = 1 /\ cx'.command = cx.command + 1 /\ SameRequest(cx, cx')
      BY <1>2, <2>1 DEF SameRequest, Same, ContextType
    <2>3. QED
      BY <1>1, <1>5, <2>1, <2>2 DEF Leads, ToNextRequest
  <1>6. QED
    BY <1>3, <1>4, <1>5, OverLeads

LEMMA KeyInitTxLeads == ASSUME cx \in ContextType, KeyInitTx PROVE Leads(pc, cx, pc', cx')
  <1>1. pc = "keyInit" /\ pc \in Exchanging \ {"config"}
    BY DEF KeyInitTx, Exchanging
  <1>2. ASSUME NEW t, Go("waitChallenge", cx, t) PROVE Leads(pc, cx, pc', cx')
    BY <1>1, <1>2, ContextChanges DEF Go, Leads
  <1>3. ASSUME NEW t, NoChallenge(t) PROVE Leads(pc, cx, pc', cx')
    BY <1>1, <1>3, MissedLeads
  <1>4. QED
    BY <1>2, <1>3 DEF KeyInitTx, Transmit, TransmitFails

LEMMA ChallengeReceivesLeads == ASSUME TypeInv, ChallengeReceives PROVE Leads(pc, cx, pc', cx') \/ Waits
  <1>1. pc = "waitChallenge" /\ pc \in Exchanging \ {"config"} /\ cx \in ContextType /\ Receives
    BY DEF ChallengeReceives, TypeInv, Exchanging
  <1>2. ASSUME NEW t, Go("config", cx, t) PROVE Leads(pc, cx, pc', cx')
    BY <1>1, <1>2, ContextChanges DEF Go, Leads
  <1>3. ASSUME NEW t, TransferKey(Head(air), t) PROVE Leads(pc, cx, pc', cx')
    <2>1. pc' = "sendKey" /\ cx' = [cx EXCEPT !.challenge = Head(air).nonce, !.tries = 1]
      BY <1>3 DEF TransferKey, Go
    <2>2. SamePhase(cx, cx') /\ cx'.ke = cx.ke /\ cx'.re = cx.re /\ cx'.tries = 1
      BY <1>1, <2>1, ContextChanges
    <2>3. QED
      BY <1>1, <2>1, <2>2 DEF Leads
  <1>4. ASSUME NEW t, Go(pc, cx, t), Take PROVE Waits
    BY <1>1, <1>4, ContextChanges, TakenShortens DEF Go, Waits
  <1>5. QED
    BY <1>2, <1>3, <1>4 DEF ChallengeReceives

LEMMA KeyTxLeads == ASSUME cx \in ContextType, KeyTx PROVE Leads(pc, cx, pc', cx')
  <1>1. pc = "sendKey"
    BY DEF KeyTx
  <1>2. ASSUME NEW t, Go("waitConfirm", cx, t) PROVE Leads(pc, cx, pc', cx')
    BY <1>1, <1>2, ContextChanges DEF Go, Leads
  <1>3. ASSUME NEW t, NextTry(t) \/ OutOfTime(t) PROVE Leads(pc, cx, pc', cx')
    BY <1>1, <1>3, NextTryLeads
  <1>4. QED
    BY <1>2, <1>3 DEF KeyTx, Transmit, TransmitFails

LEMMA ConfirmReceivesLeads ==
    ASSUME TypeInv, ConfirmReceivesSlow \/ ConfirmReceivesFast PROVE Leads(pc, cx, pc', cx') \/ Waits
  <1>1. pc \in {"waitConfirm", "waitFinal"} /\ pc \in Exchanging \ {"config"} /\ cx \in ContextType /\ Receives
    BY DEF ConfirmReceivesSlow, ConfirmReceivesFast, TypeInv, Exchanging
  <1>2. ASSUME NEW t, Go("config", cx, t) PROVE Leads(pc, cx, pc', cx')
    BY <1>1, <1>2, ContextChanges DEF Go, Leads
  <1>3. ASSUME NEW t, KeyMissed(t) PROVE Leads(pc, cx, pc', cx')
    BY <1>1, <1>3, MissedLeads
  <1>4. ASSUME NEW t, Go("waitFinal", cx, t), pc = "waitConfirm" PROVE Leads(pc, cx, pc', cx')
    BY <1>1, <1>4, ContextChanges DEF Go, Leads
  <1>5. ASSUME NEW t, Go(pc, cx, t), Take PROVE Waits
    BY <1>1, <1>5, ContextChanges, TakenShortens DEF Go, Waits
  <1>6. CASE ConfirmReceivesSlow
    BY <1>2, <1>3, <1>5, <1>6 DEF ConfirmReceivesSlow
  <1>7. CASE ConfirmReceivesFast
    BY <1>2, <1>3, <1>4, <1>5, <1>7 DEF ConfirmReceivesFast
  <1>8. QED
    BY <1>6, <1>7

LEMMA HubLeads == ASSUME TypeInv, HubSteps PROVE pc # "idle" /\ (Leads(pc, cx, pc', cx') \/ Waits)
  <1>1. cx \in ContextType
    BY DEF TypeInv
  <1>2. pc # "idle"
    BY DEF HubSteps, DiscoverTx, DiscoveryReceives, DiscoveryTimeout, KeyInitTx, ChallengeReceives, ChallengeTimeout, KeyTx,
       ConfirmReceivesSlow, ConfirmReceivesFast, AuthenticationFails, ConfirmTimeout, RegisterDevice
  <1>3. CASE ChallengeTimeout
    BY <1>1, <1>3, MissedLeads DEF ChallengeTimeout, Exchanging
  <1>4. CASE ConfirmTimeout \/ AuthenticationFails
    BY <1>1, <1>4, NextTryLeads DEF ConfirmTimeout, AuthenticationFails
  <1>5. CASE RegisterDevice
    <2>1. \E o, t : Finish(o, t, registry \cup {cx.target})
      BY <1>5 DEF RegisterDevice
    <2>2. PICK o, t : Finish(o, t, registry \cup {cx.target})
      BY <2>1
    <2>3. Leads(pc, cx, pc', cx')
      BY <2>2, OverLeads
    <2>4. QED
      BY <1>2, <2>3
  <1>6. QED
    BY <1>1, <1>2, <1>3, <1>4, <1>5, DiscoverTxLeads, DiscoveryReceivesLeads, DiscoveryTimeoutLeads, KeyInitTxLeads,
       ChallengeReceivesLeads, KeyTxLeads, ConfirmReceivesLeads DEF HubSteps

\* The others leave the place alone, unless an attempt begins.
LEMMA OthersStay ==
    ASSUME TypeInv, Hop \/ AnswerLost \/ Noise \/ OtherAnswers \/ UNCHANGED vars
    PROVE  pc' = pc /\ Same(cx, cx')
  <1>1. cx \in ContextType
    BY DEF TypeInv
  <1>2. CASE Noise
    <2>1. pc' = pc /\ (cx' = cx \/ cx' = [cx EXCEPT !.sawTraffic = TRUE])
      BY <1>2 DEF Noise, Go
    <2>2. QED
      BY <1>1, <2>1, ContextChanges
  <1>3. CASE Hop \/ AnswerLost \/ OtherAnswers \/ UNCHANGED vars
    <2>1. pc' = pc /\ cx' = cx
      BY <1>3 DEF Hop, AnswerLost, OtherAnswers, Go, hub, vars
    <2>2. QED
      BY <1>1, <2>1, ContextChanges
  <1>4. QED
    BY <1>2, <1>3

LEMMA SameCalls ==
    ASSUME NEW c, NEW d, Same(c, d), InRange(c) PROVE InRange(d) /\ \A p : Calls(p, d) = Calls(p, c)
  BY DEF Same, InRange, Calls, RequestsLeft, InitsLeft, RoundLeft

\* What is left is a number.
LEMMA CallsAreCounted ==
    ASSUME NEW p \in {"idle"} \cup Searching \cup Exchanging, NEW c, InRange(c) PROVE Calls(p, c) \in Nat
  <1>1. p \in {"idle", "config", "discover", "waitDiscover"} \cup (Exchanging \ {"config"})
    BY DEF Searching, Exchanging
  <1> DEFINE x == InitsLeft(c) * Round
  <1>2. /\ RequestsLeft(c) \in Nat /\ x \in Nat /\ Round \in Nat /\ KeyCalls \in Nat
        /\ p = "idle" => Calls(p, c) = 0
        /\ p = "config" => Calls(p, c) = 1
        /\ p = "discover" => Calls(p, c) = 2 * RequestsLeft(c) + 2 + KeyCalls + 1
        /\ p = "waitDiscover" => Calls(p, c) = 2 * RequestsLeft(c) + 1 + KeyCalls + 1
        /\ p \in Exchanging \ {"config"} => RoundLeft(p, c) \in 1..Round /\ Calls(p, c) = x + RoundLeft(p, c) + 1
    BY CallsLeft
  <1> HIDE DEF x
  <1>3. QED
    BY <1>1, <1>2

\* Each step, and what is left of the attempt.
LEMMA StepsRunDown ==
    ASSUME TypeInv, InRange(cx), [Next]_vars
    PROVE  /\ InRange(cx)'
           /\ HubSteps => \/ Calls(pc', cx') < Calls(pc, cx)
                          \/ pc' = pc /\ Calls(pc', cx') = Calls(pc, cx) /\ Len(air') < Len(air)
           /\ pc # "idle" => Calls(pc', cx') <= Calls(pc, cx)
  <1> DEFINE b == Calls(pc, cx)
             a == Calls(pc', cx')
  <1>0. pc \in {"idle"} \cup Searching \cup Exchanging /\ b \in Nat
    BY CallsAreCounted DEF TypeInv, Searching, Exchanging
  <1>1. CASE HubSteps
    <2>1. pc \in Searching \cup Exchanging /\ (Leads(pc, cx, pc', cx') \/ Waits)
      BY <1>1, HubLeads DEF TypeInv
    <2>2. CASE Leads(pc, cx, pc', cx')
      <3>1. InRange(cx') /\ Calls(pc', cx') < Calls(pc, cx)
        BY <2>1, <2>2, LeadsOn
      <3>2. pc' \in {"idle"} \cup Searching \cup Exchanging
        BY <2>2 DEF Leads, Searching, Exchanging
      <3>3. a \in Nat /\ a < b
        BY <3>1, <3>2, CallsAreCounted
      <3> HIDE DEF a, b
      <3>4. a <= b
        BY <1>0, <3>3
      <3>5. QED
        BY <3>1, <3>3, <3>4 DEF a, b, InRange
    <2>3. CASE Waits
      <3>1. pc' = pc /\ InRange(cx') /\ Calls(pc', cx') = Calls(pc, cx) /\ Len(air') < Len(air)
        BY <2>3, SameCalls DEF Waits
      <3>2. a = b
        BY <3>1
      <3> HIDE DEF a, b
      <3>3. a <= b
        BY <1>0, <3>2
      <3>4. QED
        BY <3>1, <3>3 DEF a, b, InRange
    <2>4. QED
      BY <2>1, <2>2, <2>3
  <1>2. CASE Start
    <2>1. pc = "idle" /\ InRange(cx') /\ ~HubSteps
      BY <1>2, FreshInRange DEF Start, HubSteps, DiscoverTx, DiscoveryReceives, DiscoveryTimeout, KeyInitTx, ChallengeReceives,
         ChallengeTimeout, KeyTx, ConfirmReceivesSlow, ConfirmReceivesFast, AuthenticationFails, ConfirmTimeout, RegisterDevice
    <2>2. QED
      BY <2>1 DEF InRange
  <1>3. CASE ~HubSteps /\ (Hop \/ AnswerLost \/ Noise \/ OtherAnswers \/ UNCHANGED vars)
    <2>1. pc' = pc /\ InRange(cx') /\ Calls(pc', cx') = Calls(pc, cx)
      BY <1>3, OthersStay, SameCalls
    <2>2. a = b
      BY <2>1
    <2> HIDE DEF a, b
    <2>3. a <= b
      BY <1>0, <2>2
    <2>4. QED
      BY <1>3, <2>1, <2>3 DEF a, b, InRange
  <1>4. QED
    BY <1>1, <1>2, <1>3 DEF Next

(***************************************************************************)
(* discover_and_pair comes to its end: the transmissions and windows that  *)
(* its loops still allow are a number, which every step of the hub lowers  *)
(* unless it receives and ignores a frame, of which one is left less on    *)
(* the air.  Nothing that is heard, lost, late or answered by strangers    *)
(* makes it larger.  This is what the liveness of HandsOver rests on, for  *)
(* any numbers of devices, requests, exchanges and tries.                  *)
(***************************************************************************)
THEOREM AttemptsRunDown == Spec => [](Calls(pc, cx) \in Nat) /\ AttemptRunsDown
  <1>1. IInv => TypeInv
    BY DEF IInv
  <1>2. Init => InRange(cx)
    BY FreshInRange DEF Init
  <1>3. TypeInv /\ InRange(cx) => Calls(pc, cx) \in Nat
    BY CallsAreCounted DEF TypeInv, Searching, Exchanging
  <1>4. TypeInv /\ InRange(cx) /\ [Next]_vars => InRange(cx)'
    BY StepsRunDown
  <1>5. ASSUME TypeInv, InRange(cx), [Next]_vars
        PROVE  [/\ HubSteps => \/ Calls(pc', cx') < Calls(pc, cx)
                               \/ pc' = pc /\ Calls(pc', cx') = Calls(pc, cx) /\ Len(air') < Len(air)
                /\ pc # "idle" => Calls(pc', cx') <= Calls(pc, cx)]_vars
    BY <1>5, StepsRunDown
  <1>6. QED
    BY <1>1, <1>2, <1>3, <1>4, <1>5, Invariance, PTL DEF Spec, AttemptRunsDown
=============================================================================
