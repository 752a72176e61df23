---------------------------- MODULE KeyExtraction -----------------------------
(***************************************************************************)
(* "Accept foreign pairing": the hub plays an unpaired device so that a    *)
(* foreign hub hands over its system key.  The decisions are               *)
(* pairing_responder.cpp's, the timers, the switch and the channel hold    *)
(* hub_key_extraction.cpp's.                                               *)
(*                                                                         *)
(* Foreign hubs and the air are external: any hub may send any step it has *)
(* the data for, in any order and as often as it likes, and may miss an    *)
(* answer.  Keys are named by the hub they belong to.  Reply builders      *)
(* cannot fail: their payloads have a fixed size.  Timers count down in    *)
(* ticks and a due one fires before the next tick.                         *)
(***************************************************************************)
EXTENDS Integers, FiniteSets

CONSTANTS
    Hubs,                     \* foreign hubs in range
    Nobody,                   \* hub_node_id before a 0x31
    Ids,                      \* node IDs esp_random can draw
    Taken,                    \* ours, the broadcast addresses, registered devices
    Challenges,               \* what generate_challenge draws from
    AUTO_OFF,                 \* KEY_EXTRACTION_AUTO_OFF_MS, in ticks
    GRACE,                    \* KEY_EXTRACTION_POST_EXTRACT_GRACE_MS
    MID_ATTEMPT               \* KEY_EXTRACTION_MID_ATTEMPT_TIMEOUT_MS

None == 0                     \* no ID, no challenge
Off == -1                     \* a timer that is not pending

ASSUME KeyExtractionAssumption ==
    /\ {Nobody, "noise"} \cap Hubs = {} /\ None \notin Ids \cup Challenges
    /\ IsFiniteSet(Hubs) /\ IsFiniteSet(Challenges)
    /\ {AUTO_OFF, GRACE, MID_ATTEMPT} \subseteq Nat \ {0}
    /\ Cardinality(Challenges) > Cardinality(Hubs) + 1
    /\ Cardinality(Ids \ Taken) > 1

VARIABLES
    ctx,          \* key_extraction_ctx_
    hold,         \* ticks to key_extraction_hold_deadline_ms_
    timers,       \* the two named set_timeout callbacks
    shown,        \* what the switch entity shows
    know,         \* external: the throwaway ID each hub has learnt
    heard,        \* external: the challenge each hub will encrypt its key for
    hist          \* history: ticks since arming and since progress, reports, who sent 0x31

vars == <<ctx, hold, timers, shown, know, heard, hist>>

States == {"DISARMED", "ARMED_IDLE", "SENT_DISCOVER_RESP", "SENT_CONFIRM_ACK",
           "SENT_CHALLENGE", "EXTRACTED", "SENT_ADDRESS_RESP"}
Extracted == {"EXTRACTED", "SENT_ADDRESS_RESP"}
Attempting == States \ ({"DISARMED", "ARMED_IDLE"} \cup Extracted)

ResponderContext ==
    [state |-> "DISARMED", throwaway_id |-> None, challenge |-> None,
     hub_node_id |-> Nobody, recovered_key |-> Nobody]
FreshHistory == [armed |-> 0, quiet |-> 0, replied |-> 0, log |-> {}, inits |-> {}]

Init ==
    /\ ctx = ResponderContext /\ hold = 0
    /\ timers = [auto_off |-> Off, grace |-> Off]
    /\ shown = FALSE
    /\ know = [h \in Hubs |-> None] /\ heard = [h \in Hubs |-> None]
    /\ hist = FreshHistory

-----------------------------------------------------------------------------
(* pairing_responder.cpp: the new context, or {} where the frame is        *)
(* ignored.                                                                *)

\* Faulty variant: any hub may start a completed attempt over.
on_discover_request_any(c, hub) ==
    IF c.state \in {"ARMED_IDLE", "SENT_DISCOVER_RESP"} \cup Extracted
    THEN {[c EXCEPT !.state = "SENT_DISCOVER_RESP"]} ELSE {}

on_discover_request(c, hub) ==
    IF \/ c.state \in {"ARMED_IDLE", "SENT_DISCOVER_RESP"}
       \/ c.state \in Extracted /\ hub = c.hub_node_id
    THEN {[c EXCEPT !.state = "SENT_DISCOVER_RESP"]} ELSE {}

on_discover_confirm(c) ==
    IF c.state \in {"SENT_DISCOVER_RESP", "SENT_CONFIRM_ACK"}
    THEN {[c EXCEPT !.state = "SENT_CONFIRM_ACK"]} ELSE {}

\* Faulty variant: a repeated key-init gets a challenge of its own.
on_key_init_anew(c, candidate, hub) ==
    IF c.state \in {"SENT_DISCOVER_RESP", "SENT_CONFIRM_ACK", "SENT_CHALLENGE"}
    THEN {[c EXCEPT !.state = "SENT_CHALLENGE", !.challenge = candidate, !.hub_node_id = hub]}
    ELSE {}

\* A repeated key-init gets the challenge already sent, whoever asks.
on_key_init(c, candidate, hub) ==
    CASE c.state \in {"SENT_DISCOVER_RESP", "SENT_CONFIRM_ACK"} ->
           {[c EXCEPT !.state = "SENT_CHALLENGE", !.challenge = candidate, !.hub_node_id = hub]}
      [] c.state = "SENT_CHALLENGE" -> {c}
      [] OTHER -> {}

\* The payload is a hub's key under a challenge; under another it decrypts to noise.
Recovered(payload, challenge) == IF payload.challenge = challenge THEN payload.key ELSE "noise"

on_key_transfer(c, payload) ==
    IF c.state = "SENT_CHALLENGE"
    THEN {[c EXCEPT !.state = "EXTRACTED", !.recovered_key = Recovered(payload, c.challenge)]}
    ELSE {}

on_address_req(c) ==
    IF c.state \in Extracted THEN {[c EXCEPT !.state = "SENT_ADDRESS_RESP"]} ELSE {}

on_address_challenge(c) == IF c.state = "SENT_ADDRESS_RESP" THEN {c} ELSE {}

-----------------------------------------------------------------------------
(* Arming, disarming and the timers (hub_key_extraction.cpp).              *)

\* set_key_extraction_armed(false): the timers stay pending, the callback shows it.
Disarm ==
    /\ ctx' = ResponderContext
    /\ shown' = IF ctx.state = "DISARMED" THEN shown ELSE FALSE
    /\ hist' = FreshHistory

\* generate_key_extraction_throwaway_id_; two cycles are taken to draw different IDs.
ThrowawayIds == Ids \ (Taken \cup {ctx.throwaway_id} \cup {know[h] : h \in Hubs})

Arm ==
    /\ \E id \in ThrowawayIds :
         ctx' = [ResponderContext EXCEPT !.state = "ARMED_IDLE", !.throwaway_id = id]
    /\ timers' = [timers EXCEPT !.auto_off = AUTO_OFF]
    /\ shown' = TRUE
    /\ hist' = FreshHistory
    /\ UNCHANGED <<hold, know, heard>>

\* The switch entity's write_state.
TurnOff == Disarm /\ UNCHANGED <<hold, timers, know, heard>>

\* The auto-off callback.
AutoOffFires ==
    /\ timers.auto_off = 0
    /\ timers' = [timers EXCEPT !.auto_off = Off]
    /\ IF ctx.state # "DISARMED" THEN Disarm ELSE UNCHANGED <<ctx, shown, hist>>
    /\ UNCHANGED <<hold, know, heard>>

\* Faulty variant: the guard of the auto-off callback.
GraceApplies_armed(c) == c.state # "DISARMED"

\* The grace callback acts only on a cycle that is past extraction.
GraceApplies(c) == c.state \in Extracted

GraceFires ==
    /\ timers.grace = 0
    /\ timers' = [timers EXCEPT !.grace = Off]
    /\ IF GraceApplies(ctx) THEN Disarm ELSE UNCHANGED <<ctx, shown, hist>>
    /\ UNCHANGED <<hold, know, heard>>

Less(n) == IF n > 0 THEN n - 1 ELSE n
More(n, top) == IF n < top THEN n + 1 ELSE n

Tick ==
    /\ timers.auto_off # 0 /\ timers.grace # 0
    /\ timers' = [auto_off |-> Less(timers.auto_off), grace |-> Less(timers.grace)]
    /\ hold' = Less(hold)
    /\ hist' = IF ctx.state = "DISARMED" THEN hist
               ELSE [hist EXCEPT !.armed = More(@, AUTO_OFF + 1), !.quiet = More(@, GRACE),
                                 !.replied = More(@, GRACE)]
    /\ UNCHANGED <<ctx, shown, know, heard>>

-----------------------------------------------------------------------------
(* try_handle_key_extraction_frame_ and its handlers.  Every reply holds   *)
(* the channel for a while.  A key transfer or an address challenge whose  *)
(* payload is too short (data_len) is logged and dropped before anything   *)
(* changes: a stuttering step, which no action stands for.                 *)

Progress == [hist EXCEPT !.quiet = 0, !.replied = 0]
Replied == [hist EXCEPT !.replied = 0]

\* Faulty variant: progress pushes the auto-off out as well.
arm_post_extraction_grace_extends ==
    timers' = [auto_off |-> AUTO_OFF, grace |-> GRACE] /\ hold' = GRACE

\* arm_post_extraction_grace_
arm_post_extraction_grace ==
    /\ timers' = [timers EXCEPT !.grace = GRACE]
    /\ hold' = GRACE

\* loop() holds channel 2 and background polls wait while this holds.
key_extraction_awaiting_reply == ctx.state \notin {"DISARMED", "ARMED_IDLE"} /\ hold > 0

Addressed(h) == ctx.state # "DISARMED" /\ know[h] = ctx.throwaway_id

\* 0x28 is a broadcast: the destination filter does not apply.  It starts a hub afresh.
Discover(h) ==
    /\ ctx.state # "DISARMED"
    /\ ctx' \in on_discover_request(ctx, h)
    /\ hold' = MID_ATTEMPT /\ hist' = Replied
    /\ know' \in {[know EXCEPT ![h] = i] : i \in {ctx.throwaway_id, None}}
    /\ heard' = [heard EXCEPT ![h] = None]
    /\ UNCHANGED <<timers, shown>>

DiscoverConfirm(h) ==
    /\ Addressed(h)
    /\ ctx' \in on_discover_confirm(ctx)
    /\ hold' = MID_ATTEMPT /\ hist' = Replied
    /\ UNCHANGED <<timers, shown, know, heard>>

FreshChallenge == CHOOSE n \in Challenges : n \notin {heard[h] : h \in Hubs} \cup {ctx.challenge}

KeyInit(h) ==
    /\ Addressed(h)
    /\ ctx' \in on_key_init(ctx, FreshChallenge, h)
    /\ hold' = MID_ATTEMPT
    /\ hist' = [Replied EXCEPT !.inits = @ \cup {h}]
    /\ heard' \in {heard, [heard EXCEPT ![h] = ctx'.challenge]}
    /\ UNCHANGED <<timers, shown, know>>

KeyTransfer(h) ==
    /\ Addressed(h) /\ heard[h] # None
    /\ ctx' \in on_key_transfer(ctx, [key |-> h, challenge |-> heard[h]])
    /\ hist' = [Progress EXCEPT !.log = @ \cup {[hub |-> ctx'.hub_node_id, key |-> ctx'.recovered_key]}]
    /\ arm_post_extraction_grace
    /\ UNCHANGED <<shown, know, heard>>

AddressReq(h) ==
    /\ Addressed(h) /\ h = ctx.hub_node_id
    /\ ctx' \in on_address_req(ctx)
    /\ arm_post_extraction_grace /\ hist' = Progress
    /\ UNCHANGED <<shown, know, heard>>

AddressChallenge(h) ==
    /\ Addressed(h) /\ h = ctx.hub_node_id
    /\ ctx' \in on_address_challenge(ctx)
    /\ arm_post_extraction_grace /\ hist' = Progress
    /\ UNCHANGED <<shown, know, heard>>

\* A hub starts its pairing over and its 0x28 is missed or ignored.
StartOver(h) ==
    /\ heard[h] # None \/ know[h] # None
    /\ heard' = [heard EXCEPT ![h] = None] /\ know' = [know EXCEPT ![h] = None]
    /\ UNCHANGED <<ctx, hold, timers, shown, hist>>

Step(h) ==
    \/ Discover(h) \/ DiscoverConfirm(h) \/ KeyInit(h) \/ KeyTransfer(h)
    \/ AddressReq(h) \/ AddressChallenge(h) \/ StartOver(h)

Next == Arm \/ TurnOff \/ AutoOffFires \/ GraceFires \/ Tick \/ \E h \in Hubs : Step(h)

Spec == Init /\ [][Next]_vars

-----------------------------------------------------------------------------
(* Properties.                                                             *)

Contexts ==
    [state : States, throwaway_id : Ids \cup {None}, challenge : Challenges \cup {None},
     hub_node_id : Hubs \cup {Nobody}, recovered_key : Hubs \cup {Nobody, "noise"}]
Histories ==
    [armed : 0 .. AUTO_OFF + 1, quiet : 0 .. GRACE, replied : 0 .. GRACE,
     log : SUBSET [hub : Hubs, key : Hubs \cup {"noise"}], inits : SUBSET Hubs]

\* Types, and the switch entity shows whether the responder is armed: the armed callback
\* runs on every path that changes it.
TypeOK ==
    /\ ctx \in Contexts
    /\ hold \in 0 .. (GRACE + MID_ATTEMPT)
    /\ timers \in [auto_off : Off .. AUTO_OFF, grace : Off .. GRACE]
    /\ shown = (ctx.state # "DISARMED")
    /\ know \in [Hubs -> Ids \cup {None}] /\ heard \in [Hubs -> Challenges \cup {None}]
    /\ hist \in Histories

\* "no amount of grace-window re-arming can keep the responder listening past the 10
\* minutes the switch entity documents": whatever hubs send and whenever the timers of
\* earlier cycles fire, a cycle is over when its window is.
\* And the channel is held only while a hub that was answered lately may go on: one that went
\* silent before the key exchange pins it for the mid-attempt timeout and no longer.
WindowBounded ==
    /\ ctx.state # "DISARMED" => hist.armed <= AUTO_OFF
    /\ key_extraction_awaiting_reply =>
        hist.replied < (IF ctx.state \in Attempting THEN MID_ATTEMPT ELSE GRACE)

\* The grace timer of an earlier cycle, or of an earlier extraction of this one, never ends
\* a cycle: only the user, the window, or a full grace period without progress does.
EndsForAReason ==
    [][(ctx.state # "DISARMED" /\ ctx'.state = "DISARMED") =>
          \/ timers' = timers                                 \* the user
          \/ hist.armed = AUTO_OFF
          \/ ctx.state \in Extracted /\ hist.quiet = GRACE]_vars

\* Where one hub pairs, every key reported is that hub's, under its node ID: however the
\* hub repeats its key-init, and whichever answers it misses, the key is decrypted with
\* the challenge it was encrypted for.
OneHubOneKey == Cardinality(hist.inits) <= 1 => \A e \in hist.log : e.key = e.hub

\* A foreign hub's traffic does not disturb a completed attempt: while the hub of the
\* attempt does nothing and no cycle ends, the context stands still.
OthersDoNotDisturb ==
    [][\A h \in Hubs : (Step(h) /\ ctx.state \in Extracted /\ h # ctx.hub_node_id) => ctx' = ctx]_vars

=============================================================================
