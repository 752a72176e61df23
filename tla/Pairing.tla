------------------------------- MODULE Pairing --------------------------------
(***************************************************************************)
(* PairingEngine::discover_and_pair (pairing_engine.cpp) under the hub's   *)
(* wrapper (hub_pairing.cpp): discovery, key exchange with its retries on  *)
(* radios with a fast and a slow turnaround, configuration, registration.  *)
(*                                                                         *)
(* Devices and air are external.  A device that holds the key confirms a   *)
(* key-init at once, one that does not answers it with a fresh challenge.  *)
(* Any frame may be lost; an answer may miss its window and turn up in a   *)
(* later one; other nodes are heard in between.                            *)
(***************************************************************************)
EXTENDS PairingTelemetry

CONSTANTS
    Devices,                          \* devices in pairing mode
    DiscoveryCommands,                \* length of tuning_->pairing_discovery_commands
    PAIRING_DISCOVERY_MAX_ATTEMPTS,
    pairing_key_exchange_retries,
    EXCHANGE_RETRY_COUNT,
    Retriggers,                       \* key-inits repeated on a slow radio (the literal 2)
    Nonces,                           \* challenges devices draw from
    Tolerated,                        \* losses an attempt must survive
    MaxLosses, MaxNoise, MaxTxFails, MaxDefers, MaxAir   \* bounds of the model

ASSUME PairingAssumption ==
    /\ Nobody \notin Devices /\ "stranger" \notin Devices
    /\ {DiscoveryCommands, PAIRING_DISCOVERY_MAX_ATTEMPTS, pairing_key_exchange_retries,
        EXCHANGE_RETRY_COUNT} \subseteq Nat \ {0}
    /\ {Retriggers, Tolerated, MaxLosses, MaxNoise, MaxTxFails, MaxDefers} \subseteq Nat
    /\ MaxAir \in Nat \ {0, 1}

\* Fewer losses than key exchanges, and than discovery requests: as many as the repetitions can make up for.
ASSUME TolerationAssumption ==
    /\ Tolerated < pairing_key_exchange_retries
    /\ Tolerated < DiscoveryCommands * PAIRING_DISCOVERY_MAX_ATTEMPTS

VARIABLES
    pc,         \* where discover_and_pair is; "idle" outside of it (busy_ false)
    fast,       \* has_fast_tx_rx_turnaround() of the radio
    cx,         \* PairingContext and the loop counters
    tel,        \* the telemetry
    attached,   \* engine_.pairing_telemetry_ is set
    registry,   \* devices registered by pairing
    keyed,      \* devices that store the system key
    nonce,      \* devices: the open challenge
    air,        \* answers on their way to the hub
    hist        \* history: what befell this attempt

hub == <<pc, fast, cx, tel, attached, registry>>
world == <<keyed, nonce, air>>
vars == <<hub, world, hist>>

FreshContext ==
    [command |-> 1, attempt |-> 1, sawInvalid |-> FALSE, sawTraffic |-> FALSE,
     target |-> Nobody, challenge |-> 0, ke |-> 1, re |-> 0, tries |-> 1]
FreshHistory ==
    [losses |-> 0, txFails |-> 0, defers |-> 0, noise |-> 0, late |-> FALSE,
     refused |-> FALSE, parsed |-> FALSE, packet |-> FALSE]

Init ==
    /\ pc = "idle" /\ fast \in BOOLEAN /\ cx = FreshContext
    /\ tel = begin /\ attached = FALSE /\ registry = {}
    /\ keyed = {} /\ nonce = [d \in Devices |-> 0] /\ air = <<>>
    /\ hist = FreshHistory

-----------------------------------------------------------------------------
(* Devices and air (external).                                             *)

Larger(a, b) == IF a <= b THEN b ELSE a
Reply(cmd, d, n) == [cmd |-> cmd, src |-> d, nonce |-> n, late |-> FALSE]

Late(s) == [i \in DOMAIN s |-> [s[i] EXCEPT !.late = TRUE]]

\* At most MaxAir answers are on their way; the oldest, which are late, never arrive.
Recent(s) == SubSeq(s, Larger(1, Len(s) - MaxAir + 1), Len(s))

\* The answers q reach the air, or are lost.
Send(q, h) ==
    \/ air' = Recent(air \o q) /\ hist' = h
    \/ h.losses < MaxLosses /\ hist' = [h EXCEPT !.losses = @ + 1] /\ UNCHANGED air

Unheard(h) == h.losses < MaxLosses /\ hist' = [h EXCEPT !.losses = @ + 1] /\ UNCHANGED world

DevicesHearDiscovery(h) ==
    /\ \E d, e \in Devices :
         LET q == <<Reply("DISCOVER_RESP", d, 0)>>
         IN  Send(IF d = e THEN q ELSE Append(q, Reply("DISCOVER_RESP", e, 0)), h)
    /\ UNCHANGED <<keyed, nonce>>

FreshNonce == CHOOSE n \in Nonces : n \notin {nonce[d] : d \in Devices} \cup {air[i].nonce : i \in DOMAIN air} \cup {cx.challenge, 0}

DeviceHearsKeyInit(d, h) ==
    IF d \in keyed
    THEN Send(<<Reply("KEY_CONFIRM", d, 0)>>, h) /\ UNCHANGED <<keyed, nonce>>
    ELSE /\ FreshNonce \in Nonces
         /\ nonce' = [nonce EXCEPT ![d] = FreshNonce]
         /\ Send(<<Reply("CHALLENGE_REQ", d, FreshNonce)>>, h)
         /\ UNCHANGED keyed

\* A key encrypted for the open challenge is stored, or refused; another is not understood.
DeviceHearsKey(d, h) ==
    /\ UNCHANGED nonce
    /\ \/ /\ d \in keyed \/ cx.challenge = nonce[d]
          /\ keyed' = keyed \cup {d}
          /\ Send(<<Reply("KEY_CONFIRM", d, 0)>>, h)
       \/ /\ d \notin keyed /\ UNCHANGED keyed
          /\ Send(<<Reply("ERROR_RESP", d, 0)>>, [h EXCEPT !.refused = @ \/ cx.challenge = nonce[d]])
       \/ d \notin keyed /\ cx.challenge # nonce[d] /\ UNCHANGED <<keyed, air>> /\ hist' = h

-----------------------------------------------------------------------------
(* Sending, and the ends of a wait.                                        *)

\* transmit_frame: listen-before-talk may defer, the radio may refuse.
Deferred(t, k) == IF k = 0 THEN t ELSE record_lbt_defer(t)

Transmit(t, cmd, Heard(_), Then(_)) ==
    \E k \in {0, 1} :
      /\ hist.defers + k <= MaxDefers
      /\ LET h == [hist EXCEPT !.defers = @ + k] IN Heard(h) \/ Unheard(h)
      /\ Then(record_tx(Deferred(t, k), cmd))

TransmitFails(t, Then(_)) ==
    /\ hist.txFails < MaxTxFails
    /\ hist' = [hist EXCEPT !.txFails = @ + 1]
    /\ UNCHANGED world
    /\ Then(t)

Go(next, c, t) == pc' = next /\ cx' = c /\ tel' = t /\ UNCHANGED <<fast, attached, registry>>

\* finish_pairing_attempt_, and the wrapper clearing busy_.
Finish(outcome, t, reg) ==
    /\ pc' = "idle" /\ cx' = FreshContext
    /\ tel' = finish(t, outcome, "hub")
    /\ attached' = FALSE
    /\ registry' = reg
    /\ UNCHANGED fast

\* listen() hands the next frame to its handler.
Receives == air # <<>>
Take == air' = Tail(air)

\* The window closes: what was about to arrive in it is late.
Expires ==
    /\ air' = Late(air)
    /\ LET missed == \E i \in DOMAIN air : ~air[i].late
       IN  /\ missed => hist.losses < MaxLosses
           /\ hist' = [hist EXCEPT !.losses = @ + (IF missed THEN 1 ELSE 0), !.late = @ \/ missed]
    /\ UNCHANGED <<keyed, nonce>>

Heard(f) == Frame(f.cmd, f.src, "hub", FALSE)
HeardIn == hist' = [hist EXCEPT !.parsed = TRUE, !.packet = TRUE]

\* Attempts are started by hand: nothing of the one before is still under way.
Start ==
    /\ pc = "idle" /\ air = <<>>
    /\ pc' = "discover" /\ cx' = FreshContext
    /\ tel' = begin
    /\ attached' = TRUE
    /\ hist' = FreshHistory
    /\ UNCHANGED <<fast, registry, world>>

-----------------------------------------------------------------------------
(* Phase 1: discovery.                                                     *)

DiscoveryPhase == set_phase(increment_discovery_attempt(tel), "TX_DISCOVER")

DiscoverTx ==
    /\ pc = "discover"
    /\ \/ Transmit(DiscoveryPhase, "DISCOVER_REQ", DevicesHearDiscovery,
                   LAMBDA t : Go("waitDiscover", [cx EXCEPT !.sawTraffic = FALSE],
                                 record_hop(set_phase(t, "WAIT_DISCOVER_RESPONSE"))))
       \/ TransmitFails(DiscoveryPhase, LAMBDA t : Finish("NO_RESPONSE", t, registry))

\* classify_pairing_discovery_response.
is_discovery_response(f) == f.cmd = "DISCOVER_RESP"

DiscoveryReceives ==
    /\ pc = "waitDiscover" /\ Receives
    /\ LET f == Head(air)
       IN  IF is_discovery_response(f)
           THEN /\ Go("keyInit", [cx EXCEPT !.target = f.src], record_rx(tel, Heard(f)))
                /\ air' = Late(Tail(air))
           ELSE /\ Go(pc, [cx EXCEPT !.sawTraffic = TRUE], record_hop(record_rx_reject(tel, Heard(f))))
                /\ Take
    /\ HeardIn
    /\ UNCHANGED <<keyed, nonce>>

\* The next attempt of this command, the next command, or none is left.
DiscoveryTimeout ==
    /\ pc = "waitDiscover"
    /\ Expires
    /\ LET c == [cx EXCEPT !.sawInvalid = @ \/ cx.sawTraffic]
       IN  \/ cx.attempt < PAIRING_DISCOVERY_MAX_ATTEMPTS /\ Go("discover", [c EXCEPT !.attempt = @ + 1], tel)
           \/ /\ cx.attempt = PAIRING_DISCOVERY_MAX_ATTEMPTS /\ cx.command < DiscoveryCommands
              /\ Go("discover", [c EXCEPT !.command = @ + 1, !.attempt = 1], tel)
           \/ /\ cx.attempt = PAIRING_DISCOVERY_MAX_ATTEMPTS /\ cx.command = DiscoveryCommands
              /\ Finish(IF c.sawInvalid THEN "INVALID_RESPONSE" ELSE "NO_RESPONSE", tel, registry)

\* The dwell on a channel ends without a packet: the radio hops.
Hop ==
    /\ pc = "waitDiscover" /\ ~tel.truncated
    /\ Go(pc, cx, record_hop(tel))
    /\ UNCHANGED <<world, hist>>

-----------------------------------------------------------------------------
(* Phase 2: key exchange.                                                  *)

\* Faulty variant: the key exchange is run once.
KeyPhaseFails_once(t) == Finish("KEY_EXCHANGE_FAILED", t, registry)

\* run_key_exchange_phase_ returned false.
KeyPhaseFails(t) ==
    IF cx.ke < pairing_key_exchange_retries
    THEN Go("keyInit", [cx EXCEPT !.ke = @ + 1, !.re = 0], t)
    ELSE Finish("KEY_EXCHANGE_FAILED", t, registry)

\* No confirmation: a slow radio repeats the key-init to have the device confirm again.
KeyMissed(t) ==
    IF ~fast /\ cx.re < Retriggers
    THEN Go("keyInit", [cx EXCEPT !.re = @ + 1], t)
    ELSE KeyPhaseFails(t)

\* Only the first key-init of a phase sets the phases; a missed repetition starts the next one.
InPhase(t, phase) == IF cx.re = 0 THEN set_phase(t, phase) ELSE t
NoChallenge(t) == IF cx.re = 0 THEN KeyPhaseFails(t) ELSE KeyMissed(t)

KeyInitTx ==
    /\ pc = "keyInit"
    /\ \/ Transmit(InPhase(tel, "TX_KEY_INIT"), "KEY_INIT", LAMBDA h : DeviceHearsKeyInit(cx.target, h),
                   LAMBDA t : Go("waitChallenge", cx, InPhase(t, "WAIT_KEY_CHALLENGE")))
       \/ TransmitFails(InPhase(tel, "TX_KEY_INIT"), NoChallenge)

\* classify_pairing_key_challenge.
is_key_challenge(f) == f.cmd = "CHALLENGE_REQ" /\ f.src = cx.target
frame_is_key_confirm(f) == f.cmd = "KEY_CONFIRM"

\* transfer_key_and_wait_confirm_ on the challenge just received.
TransferKey(f, t) ==
    Go("sendKey", [cx EXCEPT !.challenge = f.nonce, !.tries = 1],
       set_phase(set_phase(t, "TX_KEY_TRANSFER"), "WAIT_KEY_CONFIRM"))

\* Faulty variant: the sender of a confirmation is not compared.
ChallengeReceives_any_sender ==
    /\ pc = "waitChallenge" /\ Receives
    /\ LET f == Head(air)
           t == record_rx(tel, Heard(f))
       IN  \/ frame_is_key_confirm(f) /\ Go("config", cx, t) /\ air' = Late(Tail(air))
           \/ is_key_challenge(f) /\ TransferKey(f, t) /\ air' = Late(Tail(air))
           \/ /\ f.cmd # "KEY_CONFIRM" /\ ~is_key_challenge(f)
              /\ Go(pc, cx, record_rx_reject(tel, Heard(f))) /\ Take
    /\ HeardIn
    /\ UNCHANGED <<keyed, nonce>>

\* wait_for_key_challenge_: a challenge, or at once the confirmation.
ChallengeReceives ==
    /\ pc = "waitChallenge" /\ Receives
    /\ LET f == Head(air)
           t == record_rx(tel, Heard(f))
       IN  \/ /\ frame_is_key_confirm(f) /\ f.src = cx.target
              /\ Go("config", cx, t) /\ air' = Late(Tail(air))
           \/ is_key_challenge(f) /\ TransferKey(f, t) /\ air' = Late(Tail(air))
           \/ /\ f.src # cx.target \/ f.cmd \notin {"KEY_CONFIRM", "CHALLENGE_REQ"}
              /\ Go(pc, cx, record_rx_reject(tel, Heard(f))) /\ Take
    /\ HeardIn
    /\ UNCHANGED <<keyed, nonce>>

ChallengeTimeout == pc = "waitChallenge" /\ Expires /\ NoChallenge(tel)

\* Faulty variant: the tries are not counted.
NextTry_uncounted(t) == Go("sendKey", cx, t)

\* The next transmission of the key, or none is left.
NextTry(t) ==
    IF cx.tries < EXCHANGE_RETRY_COUNT THEN Go("sendKey", [cx EXCEPT !.tries = @ + 1], t) ELSE KeyMissed(t)

\* send_and_receive of a fast radio may also find its time budget used up.
OutOfTime(t) == fast /\ KeyMissed(t)

KeyTx ==
    /\ pc = "sendKey"
    /\ \/ Transmit(tel, "KEY_TRANSFER", LAMBDA h : DeviceHearsKey(cx.target, h), LAMBDA t : Go("waitConfirm", cx, t))
       \/ TransmitFails(tel, LAMBDA t : NextTry(t) \/ OutOfTime(t))

\* wait_for_key_confirm_: another answer of the device is a refusal and ends the wait.
ConfirmReceivesSlow ==
    /\ pc = "waitConfirm" /\ ~fast /\ Receives
    /\ LET f == Head(air)
       IN  IF f.src = cx.target
           THEN /\ IF frame_is_key_confirm(f)
                   THEN Go("config", cx, record_rx(tel, Heard(f)))
                   ELSE KeyMissed(record_rx_reject(tel, Heard(f)))
                /\ air' = Late(Tail(air))
           ELSE Go(pc, cx, tel) /\ Take
    /\ UNCHANGED <<keyed, nonce, hist>>

\* send_and_receive: a challenge is answered, anything else of the device is the response.
ConfirmReceivesFast ==
    /\ pc \in {"waitConfirm", "waitFinal"} /\ fast /\ Receives
    /\ LET f == Head(air)
       IN  \/ f.src # cx.target /\ Go(pc, cx, tel) /\ Take
           \/ /\ f.src = cx.target /\ air' = Late(Tail(air))
              /\ IF frame_is_key_confirm(f) THEN Go("config", cx, tel)
                 ELSE IF f.cmd = "CHALLENGE_REQ" /\ pc = "waitConfirm"
                 THEN Go("waitFinal", cx, record_tx(tel, "CHALLENGE_RESP"))
                 ELSE KeyMissed(tel)
    /\ UNCHANGED <<keyed, nonce, hist>>

\* handle_authentication_ cannot send the CHALLENGE_RESP: this try has failed.
AuthenticationFails ==
    /\ pc = "waitConfirm" /\ fast /\ Receives
    /\ Head(air).src = cx.target /\ Head(air).cmd = "CHALLENGE_REQ" /\ air' = Late(Tail(air))
    /\ hist.txFails < MaxTxFails /\ hist' = [hist EXCEPT !.txFails = @ + 1]
    /\ NextTry(tel) \/ OutOfTime(tel)
    /\ UNCHANGED <<keyed, nonce>>

ConfirmTimeout ==
    /\ pc \in {"waitConfirm", "waitFinal"}
    /\ Expires
    /\ NextTry(tel) \/ OutOfTime(tel)

-----------------------------------------------------------------------------
(* Phase 3: SetConfig1, best effort, then the registration.                *)

\* Faulty variant: the outcome decides what is registered, not what is reported.
RegisterDevice_if_configured ==
    /\ pc = "config"
    /\ \E config_ok \in BOOLEAN :
         LET t == set_phase(set_paired_device(tel, cx.target), "COMPLETE")
         IN  Finish(IF config_ok THEN "PAIRED" ELSE "CONFIG_FAILED", t,
                    IF config_ok THEN registry \cup {cx.target} ELSE registry)
    /\ UNCHANGED <<world, hist>>

RegisterDevice ==
    /\ pc = "config"
    /\ \E sent, config_ok \in BOOLEAN, n \in 0..Len(air) :
         LET t == set_phase(IF sent THEN record_tx(tel, "SET_CONFIG1") ELSE tel, "REGISTER_DEVICE")
         IN  /\ config_ok => sent
             /\ Finish(IF config_ok THEN "PAIRED" ELSE "CONFIG_FAILED",
                       set_phase(set_paired_device(t, cx.target), "COMPLETE"), registry \cup {cx.target})
             /\ air' = SubSeq(air, n + 1, Len(air))
    /\ UNCHANGED <<keyed, nonce, hist>>

-----------------------------------------------------------------------------
\* A late answer arrives while nothing listens.
AnswerLost ==
    /\ pc \in {"idle", "discover", "keyInit", "sendKey"} /\ Receives
    /\ Take
    /\ UNCHANGED <<hub, keyed, nonce, hist>>

ForeignFrames ==
    {Frame("DISCOVER_RESP", "stranger", "other", FALSE), Frame("WRITE_PRIVATE", "stranger", "BROADCAST", TRUE)}

\* Another node is heard: a frame that is logged and ignored, or one that does not parse.
Noise ==
    /\ pc \in {"waitDiscover", "waitChallenge"} /\ hist.noise < MaxNoise
    /\ LET c == IF pc = "waitDiscover" THEN [cx EXCEPT !.sawTraffic = TRUE] ELSE cx
           moved(t) == IF pc = "waitDiscover" THEN record_hop(t) ELSE t
           h == [hist EXCEPT !.noise = @ + 1, !.packet = TRUE]
       IN  \/ \E f \in ForeignFrames : Go(pc, c, moved(record_rx_reject(tel, f))) /\ hist' = [h EXCEPT !.parsed = TRUE]
           \/ Go(pc, c, moved(tel)) /\ hist' = h
    /\ UNCHANGED world

\* Another device answers the hub, as if it were being paired.
OtherAnswers ==
    /\ pc \in {"waitDiscover", "waitChallenge", "waitConfirm", "waitFinal"}
    /\ hist.noise < MaxNoise /\ Len(air) < MaxAir
    /\ \E cmd \in {"KEY_CONFIRM", "CHALLENGE_REQ"} : air' = Late(<<Reply(cmd, "stranger", 0)>>) \o air
    /\ hist' = [hist EXCEPT !.noise = @ + 1]
    /\ UNCHANGED <<hub, keyed, nonce>>

HubSteps ==
    \/ DiscoverTx \/ DiscoveryReceives \/ DiscoveryTimeout
    \/ KeyInitTx \/ ChallengeReceives \/ ChallengeTimeout
    \/ KeyTx \/ ConfirmReceivesSlow \/ ConfirmReceivesFast
    \/ AuthenticationFails \/ ConfirmTimeout
    \/ RegisterDevice

Next == Start \/ HubSteps \/ Hop \/ AnswerLost \/ Noise \/ OtherAnswers

Spec == Init /\ [][Next]_vars

\* discover_and_pair is a blocking call: the hub's code keeps running.
FairSpec == Spec /\ WF_vars(HubSteps)
-----------------------------------------------------------------------------

(***************************************************************************)
(* A device the hub registers holds the system key: whatever was lost,     *)
(* late or refused, no other frame passes for the confirmation.            *)
(***************************************************************************)
RegisteredIsKeyed == registry \subseteq keyed

(***************************************************************************)
(* An attempt survives lost frames: with at most Tolerated of them, none   *)
(* late, a working transmitter and a device that does not refuse, it ends  *)
(* with the device registered, also when an earlier attempt failed after   *)
(* the device had stored the key.  This is what repeating 0x31, and 0x32   *)
(* on a fresh challenge, is for.                                           *)
(***************************************************************************)
ToleratesLosses ==
    /\ pc = "idle" /\ tel.outcome # "NONE"
    /\ hist.losses <= Tolerated /\ ~hist.late /\ hist.txFails = 0 /\ ~hist.refused
    => tel.outcome \in {"PAIRED", "CONFIG_FAILED"}

(***************************************************************************)
(* The reported outcome is what happened: a device is named exactly on the *)
(* two successful outcomes, and it is registered; INVALID_RESPONSE means   *)
(* something was received; the advice "nothing heard" is never given when  *)
(* a frame came in the discovery or challenge windows, not even after the  *)
(* event log was full.  The engine's log is detached.                      *)
(***************************************************************************)
OutcomeTruthful ==
    pc = "idle" =>
        /\ tel.outcome \in {"PAIRED", "CONFIG_FAILED"} <=> tel.paired # Nobody
        /\ tel.paired # Nobody => tel.paired \in registry
        /\ tel.outcome = "INVALID_RESPONSE" => hist.packet
        /\ "rf_silent" \in tel.advice => ~hist.parsed
        /\ ~attached

(***************************************************************************)
(* The engine keeps the promise of KeyHandover, its end included.          *)
(***************************************************************************)
Handover == INSTANCE KeyHandover WITH open <- pc # "idle", holders <- keyed, paired <- registry
HandsOver == Handover!Spec
=============================================================================
