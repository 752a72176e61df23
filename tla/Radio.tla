------------------------------- MODULE Radio -------------------------------
(***************************************************************************)
(* The receive path from the chip to the hub: the SX1262 and LR1121        *)
(* soft-PHY drivers and the SX1276 driver, the edge-triggered interrupt    *)
(* latch between chip and hub, the idle hop of loop() with its holdoff,    *)
(* the length-driven early read, transmission, and the blocking listen     *)
(* window of the exchange engine with its channel rotation.                *)
(*                                                                         *)
(* One Tick is about 3 ms.  Steps of the hub that wait for nothing take no *)
(* time: Tick is disabled while the hub is between them.                   *)
(***************************************************************************)
EXTENDS Integers, FiniteSets

CONSTANTS Chips,      \* the chips a board may carry, among those of Kinds
          Channels,   \* 1 .. 3: FREQ_CH1, FREQ_CH2, FREQ_CH3
          Lead,       \* ticks of preamble before a sync word
          Body,       \* ticks from the sync word to the end of the frame
          Fixed,      \* ticks from the sync word to a soft-PHY RX_DONE
          Holdoff,    \* RX_HOP_HOLDOFF_US
          Dwell,      \* hop_dwell_ms: one slice of a rotating window
          Linger,     \* PREAMBLE_LINGER_DWELL_MS
          EarlyMin,   \* SOFT_PHY_EARLY_MIN_WINDOW_MS
          Window      \* a listen window

ASSUME RadioAssumption ==
    /\ {Lead, Body, Fixed, Holdoff, Dwell, Linger, EarlyMin, Window} \subseteq Nat \ {0}
    /\ Body <= Fixed /\ Fixed <= Holdoff
    /\ Channels = {1, 2, 3}

VARIABLES chip,     \* what the chip is and what it is doing
          rx,       \* the reception the chip is in the middle of, or NoRx
          air,      \* the frame on air, or NoAir
          latch,    \* dio_fired_: a rising edge of the interrupt pin
          hold,     \* rx_hold_since_us_ as an age, Off when not armed
          hopAge,   \* time since last_hop_us_
          pc,       \* where the hub is in its loop
          spec,     \* the ListenSpec of the open window, what is left of it and, as history,
                    \* whether SpinClears has dropped the flags of a frame on this channel
          early,    \* ticks try_early_completion_ has waited
          heard,    \* preamble_latched_at_timeout_
          got,      \* the last packet handed to the hub
          sent      \* what the last send_packet returned

vars == <<chip, rx, air, latch, hold, hopAge, pc, spec, early, heard, got, sent>>
hub == <<hold, hopAge, spec, early, heard, got, sent>>

Off == -1
NoRx == [age |-> Off, kind |-> "none", noted |-> FALSE]
NoAir == [chan |-> 0, kind |-> "none", age |-> 0]
NoSpec == [skip |-> 0, rotating |-> FALSE, rehop |-> FALSE, linger |-> FALSE, lingering |-> FALSE, left |-> 0, slice |-> 0, full |-> 0, dropped |-> FALSE]

\* A plain frame decodes at one of the ten bit offsets, a garbled one has a header that reads at
\* one and no CRC that holds, noise has neither.
FrameKinds == {"plain", "garbled", "noise"}

SoftPhy == chip.kind # "sx1276"

\* Mutant: the SX1262 routes its preamble interrupt to the pin too.
DioMask_preamble == {"tx", "done", "sync", "preamble"}

\* The interrupt bits routed to the pin the ISR watches.
DioMask == CASE chip.kind = "sx1262" -> {"tx", "done", "sync"}
             [] chip.kind = "lr1121" -> {"tx", "done", "sync", "preamble"}
             [] chip.kind = "sx1276" -> {"tx", "done"}

activity_irq_mask == {"tx", "done", "sync"}

\* The pin is the OR of the routed bits; only its rising edge reaches mark_dio_fired_from_isr.
\* det: the preamble detector has fired for the frame being waited for.
Raise(bits) ==
    /\ chip' = [chip EXCEPT !.irq = @ \cup bits, !.det = "sync" \notin bits /\ (@ \/ "preamble" \in bits)]
    /\ latch' = (latch \/ (chip.irq \cap DioMask = {} /\ bits \cap DioMask # {}))

-----------------------------------------------------------------------------
(* The chip's receive buffer, at the offset try_early_completion_ reads.    *)

\* What the abandoned or finished reception rx leaves there.
Residue == IF ~chip.lands \/ rx.age < 1 THEN chip.buf
           ELSE IF rx.kind = "plain" /\ rx.age >= Body THEN "earlier" ELSE "blank"

\* What the early read makes of the buffer: find_uart_probe searches every bit offset and the
\* CRC decides.
EarlyRead == IF chip.lands /\ rx.age >= Body
                THEN IF rx.kind = "plain" THEN "this" ELSE "invalid"
                ELSE IF chip.buf = "blank" THEN "invalid" ELSE chip.buf

\* soft_phy_peek_frame_length: the header reads at some bit offset.
PeekLength == IF chip.lands /\ rx.age >= 1 THEN rx.kind # "noise" ELSE chip.buf # "blank"

\* find_uart_probe over the captured packet; an undecodable one is handed over raw.
ProbeRead == IF rx.kind = "plain" THEN "this" ELSE "raw"

-----------------------------------------------------------------------------
(* Driver primitives: each gives the chip's and the driver's next state.    *)

\* standby, clear every interrupt, RX again
reset_rx_state ==
    /\ chip' = [chip EXCEPT !.irq = {}, !.det = FALSE, !.mode = "rx", !.buf = Residue]
    /\ rx' = NoRx
    /\ hold' = Off

\* Mutant: the shared buffer keeps the transmission.
rearm_rx_after_tx_keeps ==
    /\ chip' = [chip EXCEPT !.irq = {}, !.det = FALSE, !.mode = "rx"]
    /\ hold' = Off

\* rearm_rx_after_tx_, with the LR1121's invalidate_stale_rx_content_after_tx
rearm_rx_after_tx ==
    /\ chip' = [chip EXCEPT !.irq = {}, !.det = FALSE, !.mode = "rx",
                            !.buf = IF chip.kind = "lr1121" THEN "blank" ELSE @]
    /\ hold' = Off

\* The soft PHY leaves and re-enters RX; the SX1276 retunes under the receiver.
change_frequency(f) ==
    IF SoftPhy
       THEN /\ chip' = [chip EXCEPT !.chan = f, !.irq = {}, !.det = FALSE, !.mode = "rx",
                                   !.buf = Residue]
            /\ rx' = NoRx
            /\ latch' = FALSE
       ELSE /\ chip' = [chip EXCEPT !.chan = f]
            /\ rx' = IF rx = NoRx \/ "done" \in chip.irq THEN rx ELSE [rx EXCEPT !.kind = "noise"]
            /\ UNCHANGED latch

\* CH1 -> CH2 -> CH3 -> CH1, passing over skip (0: none)
After(c) == (c % 3) + 1
hop_target(skip) == IF After(chip.chan) = skip THEN After(skip) ELSE After(chip.chan)

hop_frequency(skip) == change_frequency(hop_target(skip)) /\ hopAge' = 0

-----------------------------------------------------------------------------
(* Time, and the air.                                                       *)

\* A blocking listen window is open.
Blocking == spec # NoSpec
Waiting == pc \in {"check", "early", "wait", "spin", "tx"}
Bounded(n, max) == IF n = Off THEN Off ELSE IF n < max THEN n + 1 ELSE max

FrameStarts ==
    /\ Waiting /\ air = NoAir
    /\ \E c \in Channels, k \in FrameKinds : air' = [chan |-> c, kind |-> k, age |-> -Lead]
    /\ UNCHANGED <<chip, rx, latch, pc>> /\ UNCHANGED hub

Tuned == chip.mode = "rx" /\ air.chan = chip.chan /\ rx = NoRx

\* SX1276: PayloadReady at the end of a frame its CRC accepts; soft PHY: RX_DONE
\* after a fixed length, whatever came.
DoneAt(r) == IF SoftPhy THEN r.age = Fixed ELSE r.kind = "plain" /\ r.age = Body

Tick ==
    LET aged == [air EXCEPT !.age = @ + 1]
        next == IF rx = NoRx THEN NoRx ELSE [rx EXCEPT !.age = IF @ < Fixed THEN @ + 1 ELSE Fixed]
        syncs == air # NoAir /\ aged.age = 0 /\ Tuned
    IN
    /\ Waiting
    /\ pc \in {"wait", "spin", "early"} /\ Blocking => spec.slice >= 0
    /\ pc = "early" => early < Body
    /\ air' = IF air = NoAir \/ aged.age = Body THEN NoAir ELSE aged
    /\ rx' = IF syncs THEN [age |-> 0, kind |-> air.kind, noted |-> FALSE] ELSE next
    /\ Raise((IF SoftPhy /\ air # NoAir /\ aged.age <= 0 /\ Tuned /\ ~chip.det THEN {"preamble"} ELSE {})
              \cup (IF SoftPhy /\ syncs THEN {"sync"} ELSE {})
              \cup (IF next # rx /\ DoneAt(next) THEN {"done"} ELSE {}))
    /\ hold' = Bounded(hold, Holdoff)
    /\ hopAge' = Bounded(hopAge, 2)
    /\ early' = IF pc = "early" THEN early + 1 ELSE early
    /\ spec' = IF spec = NoSpec \/ pc = "tx" THEN spec
               ELSE [spec EXCEPT !.left = @ - 1, !.slice = @ - 1]
    /\ UNCHANGED <<pc, heard, got, sent>>

\* The SX1276 gives up a false reception when its CRC or length fails.
ChipDrops ==
    /\ Waiting /\ ~SoftPhy /\ rx # NoRx /\ "done" \notin chip.irq
    /\ rx' = NoRx
    /\ UNCHANGED <<chip, air, latch, pc>> /\ UNCHANGED hub

-----------------------------------------------------------------------------
(* loop(): check_for_packet, one pending operation, maybe_hop.              *)

\* read_rx_packet: hand the packet over and start afresh; the SX1276 empties its FIFO
TakePacket == /\ got' = ProbeRead
              /\ IF SoftPhy THEN reset_rx_state
                 ELSE chip' = [chip EXCEPT !.irq = {}] /\ rx' = NoRx /\ UNCHANGED hold

CheckNothing ==
    /\ pc = "check" /\ ~latch /\ pc' = "pend"
    /\ UNCHANGED <<chip, rx, air, latch>> /\ UNCHANGED hub

\* Only bits outside activity_irq_mask: clear what was read, keep receiving.
CheckInactive ==
    /\ pc = "check" /\ latch /\ SoftPhy /\ chip.irq \cap activity_irq_mask = {}
    /\ latch' = FALSE /\ pc' = "pend"
    /\ chip' = [chip EXCEPT !.irq = {}]
    /\ UNCHANGED <<rx, air>> /\ UNCHANGED hub

\* A sync word without RX_DONE: arm the holdoff, drop the bit, try the early read.
CheckSync ==
    /\ pc = "check" /\ latch /\ SoftPhy /\ "sync" \in chip.irq /\ "done" \notin chip.irq
    /\ latch' = FALSE /\ hold' = 0
    /\ chip' = [chip EXCEPT !.irq = @ \ {"sync"}]
    /\ rx' = [rx EXCEPT !.noted = TRUE]
    /\ early' = 0 /\ pc' = "early"
    /\ UNCHANGED <<air, hopAge, spec, heard, got, sent>>

CheckDone ==
    /\ pc = "check" /\ latch /\ "done" \in chip.irq
    /\ latch' = FALSE /\ pc' = "pend"
    /\ TakePacket
    /\ UNCHANGED <<air, hopAge, spec, early, heard, sent>>

\* The latch fired for something already gone.
CheckStale ==
    /\ pc = "check" /\ latch /\ ~SoftPhy /\ "done" \notin chip.irq
    /\ latch' = FALSE /\ pc' = "pend"
    /\ UNCHANGED <<chip, rx, air>> /\ UNCHANGED hub

\* reception_in_progress of the soft PHYs: the recorded holdoff, which expires by itself
InProgress == hold # Off /\ hold < Holdoff

MaybeHop ==
    /\ SoftPhy /\ hold' = IF hopAge >= 2 /\ ~InProgress THEN Off ELSE hold
    /\ IF hopAge >= 2 /\ ~InProgress THEN hop_frequency(0) ELSE UNCHANGED <<chip, rx, latch, hopAge>>

\* RadioSX1276::reception_in_progress reads the chip: a sync flag holds the hop
\* for the holdoff from its first sighting, then the receiver is restarted.
MaybeHop1276 ==
    /\ ~SoftPhy
    /\ IF hopAge < 2 THEN UNCHANGED <<chip, rx, latch, hold, hopAge>>
       ELSE IF rx = NoRx THEN hold' = Off /\ hop_frequency(0)
       ELSE IF hold = Off THEN hold' = 0 /\ UNCHANGED <<chip, rx, latch, hopAge>>
       ELSE IF hold < Holdoff THEN UNCHANGED <<chip, rx, latch, hold, hopAge>>
       ELSE /\ hold' = Off /\ hopAge' = 0
            /\ chip' = [chip EXCEPT !.chan = hop_target(0), !.irq = {}] /\ rx' = NoRx
            /\ UNCHANGED latch

Hop ==
    /\ pc \in {"pend", "hop"} /\ pc' = "check"
    /\ MaybeHop \/ MaybeHop1276
    /\ got' = "none"
    /\ UNCHANGED <<air, spec, early, heard, sent>>

-----------------------------------------------------------------------------
(* try_early_completion_, from the idle path and from a blocking wait.      *)

\* Failure only reads: the idle path re-arms the holdoff, a wait spins for RX_DONE.
EarlyFails ==
    /\ pc' = IF Blocking THEN "spin" ELSE "pend"
    /\ hold' = IF Blocking THEN hold ELSE 0
    /\ UNCHANGED <<chip, rx, latch, got>>

EarlySucceeds ==
    /\ got' = EarlyRead
    /\ latch' = FALSE
    /\ reset_rx_state
    /\ pc' = IF Blocking THEN "frame" ELSE "pend"

TooShort == Blocking /\ spec.full < EarlyMin

Expired == Blocking /\ spec.slice < 0

try_early_completion ==
    /\ pc = "early" /\ early' = 0
    /\ IF TooShort THEN EarlyFails
       ELSE IF early < 1 THEN Expired /\ EarlyFails
       ELSE IF ~PeekLength THEN EarlyFails
       ELSE IF early < Body THEN Expired /\ EarlyFails
       ELSE IF EarlyRead = "invalid" THEN EarlyFails ELSE EarlySucceeds
    /\ UNCHANGED <<air, hopAge, spec, heard, sent>>

-----------------------------------------------------------------------------
(* send_packet, and the window ExchangeEngine::listen opens after it.       *)

Slice(sp, n) == [sp EXCEPT !.slice = n, !.full = n]
MinOf(a, b) == IF a < b THEN a ELSE b
NextSlice(sp) == Slice([sp EXCEPT !.lingering = FALSE], IF sp.rotating THEN MinOf(sp.left, Dwell) ELSE sp.left)
\* Mutant: the extension ignores the deadline.
LingerSlice_full(sp) == Slice([sp EXCEPT !.lingering = TRUE], Linger)
LingerSlice(sp) == Slice([sp EXCEPT !.lingering = TRUE], MinOf(sp.left, Linger))

\* After a request on f: an exchange holds the channel, discovery rotates over all of
\* them, the roll-call over the other two.  A 1W press opens no window (NoSpec).
Rotating == [NoSpec EXCEPT !.rotating = TRUE, !.linger = TRUE, !.left = Window]
ListenSpecs(f) == {NoSpec, [NoSpec EXCEPT !.left = Window], [Rotating EXCEPT !.rehop = TRUE], [Rotating EXCEPT !.skip = f]}

\* A pending operation transmits whatever the receiver was doing.
Transmit ==
    /\ pc = "pend" /\ pc' = "tx"
    /\ \E f \in Channels :
         /\ chip' = [chip EXCEPT !.mode = "tx", !.chan = f, !.irq = {},
                                 !.buf = IF chip.kind = "lr1121" THEN "own" ELSE Residue]
         /\ spec' \in ListenSpecs(f)
    /\ rx' = NoRx /\ latch' = FALSE /\ got' = "none"
    /\ UNCHANGED <<air, hold, hopAge, early, heard, sent>>

\* listen(): a window that skips the request channel starts with a hop off it.
StartsWithHop == spec.skip # 0

\* The SX1276's own TX_DONE is an edge too: the wait that opens a window clears it, a
\* frame sent without a window leaves it to check_for_packet.
TxDone ==
    /\ pc = "tx" /\ sent' = "done"
    /\ latch' = (~SoftPhy /\ ~Blocking)
    /\ IF SoftPhy THEN rearm_rx_after_tx ELSE chip' = [chip EXCEPT !.mode = "rx"] /\ UNCHANGED hold
    /\ spec' = IF Blocking THEN NextSlice(spec) ELSE NoSpec
    /\ pc' = IF ~Blocking THEN "hop" ELSE IF StartsWithHop THEN "first" ELSE "wait"
    /\ UNCHANGED <<rx, air, hopAge, early, heard, got>>

\* No TX_DONE for four seconds: standby, and the exchange ends without listening.
TxTimeout ==
    /\ pc = "tx" /\ sent' = "timeout"
    /\ chip' = [chip EXCEPT !.mode = "standby"]
    /\ spec' = NoSpec /\ pc' = "hop"
    /\ UNCHANGED <<rx, air, latch, hold, hopAge, early, heard, got>>

FirstHop ==
    /\ pc = "first" /\ pc' = "wait"
    /\ hop_frequency(spec.skip)
    /\ UNCHANGED <<air, hold, spec, early, heard, got, sent>>

\* poll_until_activity_: the status word itself is polled, the latch is not needed.  A
\* sync word that falls between the look at the latch and the status read leaves it set.
WaitSync ==
    /\ pc = "wait" /\ SoftPhy /\ "sync" \in chip.irq /\ "done" \notin chip.irq
    /\ latch' \in {FALSE, "preamble" \notin DioMask} /\ heard' = FALSE
    /\ chip' = [chip EXCEPT !.irq = @ \ {"sync"}]
    /\ early' = 0 /\ pc' = "early"
    /\ UNCHANGED <<rx, air, hold, hopAge, spec, got, sent>>

WaitDone ==
    /\ pc \in {"wait", "spin"} /\ "done" \in chip.irq
    /\ latch' = FALSE /\ pc' = "frame"
    /\ heard' = IF SoftPhy /\ pc = "wait" THEN FALSE ELSE heard
    /\ TakePacket
    /\ UNCHANGED <<air, hopAge, spec, early, sent>>

\* Mutant: the reset forgets the preamble.
WaitTimesOut_forgets ==
    /\ pc = "wait" /\ spec.slice < 0 /\ chip.irq \cap activity_irq_mask = {} /\ pc' = "dwell"
    /\ IF SoftPhy THEN heard' = FALSE /\ latch' = FALSE /\ reset_rx_state
       ELSE UNCHANGED <<heard, latch, chip, rx, hold>>
    /\ UNCHANGED <<air, hopAge, spec, early, got, sent>>

\* A slice without activity: remember a preamble, then reset the receiver.
WaitTimesOut ==
    /\ pc = "wait" /\ spec.slice < 0 /\ chip.irq \cap activity_irq_mask = {} /\ pc' = "dwell"
    /\ IF SoftPhy
          THEN heard' = ("preamble" \in chip.irq) /\ latch' = FALSE /\ reset_rx_state
          ELSE UNCHANGED <<heard, latch, chip, rx, hold>>
    /\ UNCHANGED <<air, hopAge, spec, early, got, sent>>

\* A latch found set while waiting for RX_DONE: every other bit is cleared.
SpinClears ==
    /\ pc = "spin" /\ latch /\ "done" \notin chip.irq
    /\ latch' = FALSE /\ chip' = [chip EXCEPT !.irq = {}]
    /\ spec' = [spec EXCEPT !.dropped = TRUE]
    /\ UNCHANGED <<rx, air, hold, hopAge, pc, early, heard, got, sent>>

\* resolve_sync_race_ runs out of time and leaves the receiver as it is.
SpinTimesOut ==
    /\ pc = "spin" /\ spec.slice < 0 /\ "done" \notin chip.irq /\ pc' = "dwell"
    /\ UNCHANGED <<chip, rx, air, latch>> /\ UNCHANGED hub

\* is_preamble_detected || is_sync_detected; the snapshot is read once
Incoming == IF SoftPhy THEN heard \/ chip.irq \cap {"preamble", "sync"} # {}
            ELSE rx # NoRx \/ (Tuned /\ air # NoAir /\ air.age < 0)
preamble_or_sync_incoming == spec.linger /\ Incoming

EndListen == spec' = NoSpec /\ pc' = "hop"
ListenHop == /\ hop_frequency(spec.skip) /\ pc' = "wait"
             /\ spec' = [NextSlice(spec) EXCEPT !.dropped = FALSE]

\* A packet arrived: accepted or aborted, or ignored and maybe hopped away from.
HopsAfterIgnored == /\ spec.rotating /\ spec.rehop /\ ~spec.lingering
                    /\ ~preamble_or_sync_incoming

Dispatch ==
    /\ pc = "frame"
    /\ \/ EndListen /\ UNCHANGED <<chip, rx, latch, hopAge>>
       \/ spec.left > 0 /\ HopsAfterIgnored /\ ListenHop
       \/ /\ spec.left > 0 /\ ~HopsAfterIgnored
          /\ spec' = NextSlice(spec) /\ pc' = "wait" /\ UNCHANGED <<chip, rx, latch, hopAge>>
    /\ UNCHANGED <<air, hold, early, heard, got, sent>>

\* A slice without a packet: hop on, or stay for a frame that has begun to arrive.
\* After the extension the loop waits once more before it asks again.
DwellEnds ==
    LET asks == spec.left > 0 /\ spec.rotating /\ ~spec.lingering
        stays == asks /\ preamble_or_sync_incoming
    IN
    /\ pc = "dwell"
    /\ heard' = (heard /\ ~(asks /\ spec.linger))
    /\ IF spec.left <= 0 THEN EndListen ELSE pc' = "wait"
    /\ IF asks /\ ~stays THEN ListenHop
       ELSE /\ spec.left > 0 => spec' = IF stays THEN LingerSlice(spec) ELSE NextSlice(spec)
            /\ UNCHANGED <<chip, rx, latch, hopAge>>
    /\ UNCHANGED <<air, hold, early, got, sent>>

-----------------------------------------------------------------------------
(* init(): configured, interrupts cleared, in continuous receive on CH2.    *)

PowerOn(kind, lands) == [kind |-> kind, lands |-> lands, mode |-> "rx", chan |-> 2, irq |-> {}, det |-> FALSE, buf |-> "blank"]
RadioSX1262_init == {PowerOn("sx1262", TRUE)}
\* LR1121_RX_BUFFER_BASE is a guess: the chip may write a reception elsewhere.
RadioLR1121_init == {PowerOn("lr1121", lands) : lands \in BOOLEAN}
RadioSX1276_init == {PowerOn("sx1276", TRUE)}

Init ==
    /\ chip \in {c \in RadioSX1262_init \cup RadioLR1121_init \cup RadioSX1276_init : c.kind \in Chips}
    /\ rx = NoRx /\ air = NoAir /\ latch = FALSE /\ hold = Off /\ hopAge = 0
    /\ pc = "check" /\ spec = NoSpec /\ early = 0 /\ heard = FALSE
    /\ got = "none" /\ sent = "none"

Check == CheckNothing \/ CheckInactive \/ CheckSync \/ CheckDone \/ CheckStale
Listen == FirstHop \/ WaitSync \/ WaitDone \/ WaitTimesOut \/ SpinClears \/ SpinTimesOut \/ Dispatch \/ DwellEnds

Next == \/ FrameStarts \/ Tick \/ ChipDrops
        \/ Check \/ Hop \/ try_early_completion
        \/ Transmit \/ TxDone \/ TxTimeout \/ Listen

Spec == Init /\ [][Next]_vars

-----------------------------------------------------------------------------
(* Properties.                                                              *)

Noted == SoftPhy /\ rx.noted
IdleRetune == pc \in {"pend", "hop"} /\ pc' = "check" /\ (chip').chan # chip.chan

\* The idle hop never retunes under a frame whose sync word check_for_packet saw.
\* Only an LR1121, whose pin also carries the preamble, may hop away from one that
\* has been received and not read.  (maybe_hop, the holdoff, and the interrupt edge)
IdleHopSparesFrame ==
    [][IdleRetune /\ Noted => (chip.kind = "lr1121" /\ "done" \in chip.irq)]_vars

\* "Falling through here is not a lost frame": what the early read gives up on is
\* still read at its RX_DONE.  (check_for_packet)
FallThroughKeepsFrame ==
    [][IdleRetune => ~Noted]_vars

\* A packet handed to the hub is the one just received: never the previous one left in
\* the buffer, and never the hub's own transmission unless that one never reported
\* TX_DONE.  (try_early_completion_, invalidate_stale_rx_content_after_tx)
FreshOnly == got # "earlier" /\ (got = "own" => sent = "timeout")

\* A listen window keeps to its spec: it is never on the request channel it skips, and it
\* overruns its deadline by no more than one poll, whatever arrives.  (listen)
WindowKept ==
    /\ pc \in {"wait", "early", "spin"} /\ spec.skip # 0 => chip.chan # spec.skip
    /\ Blocking => spec.left >= -1

\* A lingering window does not hop off a channel on which a frame is beginning to arrive,
\* although the timeout has just reset the receiver, nor off one on which a frame is being
\* received; except on an SX1262 whose latch, left set, has made SpinClears drop the flags
\* that would have told.  (preamble_latched_at_timeout_)
LingersOnPreamble ==
    [][pc = "dwell" /\ spec.linger /\ (chip').chan # chip.chan
          => \/ chip.kind = "sx1262" /\ spec.dropped
             \/ rx = NoRx /\ ~(air.chan = chip.chan /\ air.age \in (1 - Lead) .. -1)]_vars
=============================================================================
