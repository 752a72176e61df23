----------------------------- MODULE Radio_proofs -----------------------------
(***************************************************************************)
(* Proofs about Radio, for every choice of the parameters: what the hub    *)
(* reads is the packet just received (FreshOnly), a listen window keeps to *)
(* its specification (WindowKept), and neither the idle hop nor a          *)
(* lingering window leaves a channel under a frame (IdleHopSparesFrame,    *)
(* LingersOnPreamble).  Then about Tuning, whose driver copy Radio runs    *)
(* on: every view of the configuration agrees (OneTruth), and a snapshot   *)
(* pasted back keeps what the program acts on (PasteKeepsTuning).          *)
(***************************************************************************)
EXTENDS Radio, Tuning, SequenceTheorems, TLAPS

ChipType ==
    [kind : {"sx1262", "lr1121", "sx1276"}, lands : BOOLEAN, mode : {"rx", "tx", "standby"}, chan : 1..3,
     irq : SUBSET {"done", "sync", "preamble"}, det : BOOLEAN, buf : {"blank", "own", "earlier"}]
RxType == [age : Off..Fixed, kind : FrameKinds \cup {"none"}, noted : BOOLEAN]
AirType == [chan : 0..3, kind : FrameKinds \cup {"none"}, age : (-Lead)..(Body - 1)]
SpecType ==
    [skip : 0..3, rotating : BOOLEAN, rehop : BOOLEAN, linger : BOOLEAN, lingering : BOOLEAN,
     left : Int, slice : Int, full : Int, dropped : BOOLEAN]

TypeInv ==
    /\ chip \in ChipType /\ rx \in RxType /\ air \in AirType /\ spec \in SpecType
    /\ latch \in BOOLEAN /\ hold \in Off..Holdoff /\ hopAge \in 0..2 /\ early \in 0..Body /\ heard \in BOOLEAN
    /\ pc \in {"check", "pend", "hop", "early", "tx", "first", "wait", "spin", "frame", "dwell"}

\* The hub is inside a listen window.
Windowed == pc \in {"first", "wait", "spin", "frame", "dwell"} \/ (pc = "early" /\ Blocking)

\* A window has a spec, loop() has none; a slice ends with the window at the latest.
SpecInv ==
    /\ pc \in {"check", "pend", "hop"} => spec = NoSpec
    /\ pc = "tx" /\ Blocking => spec.left > 0
    /\ Windowed => spec.full > 0 /\ -1 <= spec.slice /\ spec.slice <= spec.left
    /\ pc = "first" => spec.slice = spec.full
    /\ pc \in {"wait", "early", "spin", "frame", "dwell"} /\ spec.skip # 0 => chip.chan # spec.skip

\* Only an LR1121 writes what it sends where it reads, and only one whose receptions land
\* elsewhere is ever read without a new one.
BufInv ==
    /\ chip.kind # "lr1121" => chip.lands /\ chip.buf # "own"
    /\ ~chip.lands => chip.buf # "earlier"
    /\ chip.buf = "own" => pc = "tx" \/ sent = "timeout"
    /\ pc = "tx" => got = "none"
    /\ FreshOnly

\* A sync bit belongs to a reception, which lasts at least as long as an early read waits.
SyncInv ==
    /\ rx = NoRx \/ rx.age >= 0
    /\ pc = "early" => SoftPhy /\ rx.age >= early
    /\ SoftPhy => ("sync" \in chip.irq => rx # NoRx) /\ (rx.age = Fixed => "done" \in chip.irq)

\* A reception that loop() knows of is younger than its holdoff, or complete; and then
\* the SX1262's latch is set, and check_for_packet still to come.
NoteInv ==
    rx.noted =>
        /\ SoftPhy /\ pc \in {"check", "early", "pend"} /\ spec = NoSpec /\ rx # NoRx
        /\ hold >= 0 /\ (rx.age >= hold \/ rx.age = Fixed)
        /\ chip.kind = "sx1262" /\ chip.irq \cap {"done", "sync"} # {} => latch
        /\ chip.kind = "sx1262" /\ "done" \in chip.irq /\ pc = "pend" => hold = 0

PreambleOnAir == air.chan = chip.chan /\ air.age \in (1 - Lead) .. -1

\* In a window the preamble bit says whether a frame is arriving: of a soft PHY in receive
\* mode it is set from the second tick of the preamble, and only SpinClears clears it,
\* which the LR1121, whose pin carries the preamble too, never comes to.
ListenInv ==
    /\ pc = "tx" => chip.mode = "tx" /\ rx = NoRx
    /\ Windowed => chip.mode = "rx"
    /\ SoftPhy /\ rx # NoRx => ~chip.det
    /\ SoftPhy /\ Windowed /\ chip.det => "preamble" \in chip.irq
    /\ pc = "spin" => SoftPhy /\ rx # NoRx
    /\ chip.kind # "sx1262" => ~spec.dropped
    /\ chip.kind = "lr1121" /\ Windowed /\ pc \in {"early", "spin"} => ~latch
    /\ SoftPhy /\ Windowed /\ rx # NoRx => "preamble" \in chip.irq \/ spec.dropped
    /\ SoftPhy /\ rx = NoRx /\ PreambleOnAir =>
          /\ pc = "wait" /\ spec.slice < spec.full => "preamble" \in chip.irq
          /\ pc = "dwell" => heard \/ spec.dropped

IInv == TypeInv /\ SpecInv /\ BufInv /\ SyncInv /\ NoteInv /\ ListenInv

-----------------------------------------------------------------------------
(* The parameters, and what the driver's primitives do.                    *)

LEMMA Parameters ==
    /\ Lead \in Nat /\ Lead > 0 /\ Body \in Nat /\ Body > 0 /\ Fixed \in Nat /\ Fixed > 0
    /\ Holdoff \in Nat /\ Holdoff > 0 /\ Dwell \in Nat /\ Dwell > 0 /\ Linger \in Nat /\ Linger > 0
    /\ Window \in Nat /\ Window > 0 /\ Body <= Fixed /\ Fixed <= Holdoff /\ Channels = 1..3
  BY RadioAssumption

LEMMA NoReception == NoRx \in RxType /\ NoRx.age = -1 /\ ~NoRx.noted
  BY Parameters DEF NoRx, RxType, Off

\* What a reset leaves in the buffer is no transmission that was not there before.
LEMMA Leftover ==
    ASSUME chip \in ChipType
    PROVE  /\ Residue \in {"blank", "own", "earlier"}
           /\ Residue = "own" => chip.buf = "own"
           /\ ~chip.lands => Residue = chip.buf
  BY DEF ChipType, Residue

LEMMA ResetStep ==
    ASSUME chip \in ChipType, reset_rx_state
    PROVE  /\ chip' \in ChipType /\ rx' = NoRx /\ hold' = Off
           /\ chip'.kind = chip.kind /\ chip'.lands = chip.lands /\ chip'.chan = chip.chan
           /\ chip'.mode = "rx" /\ chip'.irq = {} /\ ~chip'.det /\ chip'.buf = Residue
  BY Leftover DEF ChipType, reset_rx_state

LEMMA RetuneStep ==
    ASSUME chip \in ChipType, rx \in RxType, NEW f \in 1..3, change_frequency(f)
    PROVE  /\ chip' \in ChipType /\ rx' \in RxType
           /\ chip'.kind = chip.kind /\ chip'.lands = chip.lands /\ chip'.chan = f
           /\ SoftPhy => /\ rx' = NoRx /\ ~latch' /\ chip'.buf = Residue
                         /\ chip'.mode = "rx" /\ chip'.irq = {} /\ ~chip'.det
           /\ ~SoftPhy => /\ chip'.mode = chip.mode /\ chip'.irq = chip.irq /\ chip'.buf = chip.buf /\ latch' = latch
                          /\ rx' # NoRx <=> rx # NoRx
                          /\ rx'.age = rx.age /\ rx'.noted = rx.noted
  <1>1. CASE SoftPhy
    <2>1. chip' = [chip EXCEPT !.chan = f, !.irq = {}, !.det = FALSE, !.mode = "rx", !.buf = Residue] /\ rx' = NoRx /\ ~latch'
      BY <1>1 DEF change_frequency
    <2>2. QED
      BY <1>1, <2>1, Leftover, NoReception DEF ChipType
  <1>2. CASE ~SoftPhy
    <2>1. /\ chip' = [chip EXCEPT !.chan = f] /\ latch' = latch
          /\ rx' = IF rx = NoRx \/ "done" \in chip.irq THEN rx ELSE [rx EXCEPT !.kind = "noise"]
      BY <1>2 DEF change_frequency
    <2>2. rx' \in RxType /\ (rx' # NoRx <=> rx # NoRx) /\ rx'.age = rx.age /\ rx'.noted = rx.noted
      BY <2>1 DEF RxType, NoRx, FrameKinds
    <2>3. QED
      BY <1>2, <2>1, <2>2 DEF ChipType
  <1>3. QED
    BY <1>1, <1>2

LEMMA HopTarget ==
    ASSUME chip \in ChipType, NEW skip \in 0..3
    PROVE  hop_target(skip) \in 1..3 /\ hop_target(skip) # skip
  <1>1. chip.chan \in 1..3
    BY DEF ChipType
  <1>2. QED
    BY <1>1 DEF hop_target, After

LEMMA HopStep ==
    ASSUME chip \in ChipType, rx \in RxType, latch \in BOOLEAN, NEW skip \in 0..3, hop_frequency(skip)
    PROVE  /\ chip' \in ChipType /\ rx' \in RxType /\ latch' \in BOOLEAN /\ hopAge' = 0
           /\ chip'.kind = chip.kind /\ chip'.lands = chip.lands /\ chip'.chan # skip /\ chip'.buf \in {chip.buf, Residue}
           /\ SoftPhy => rx' = NoRx /\ ~latch' /\ chip'.mode = "rx" /\ chip'.irq = {} /\ ~chip'.det
           /\ ~SoftPhy => /\ chip'.mode = chip.mode /\ chip'.irq = chip.irq /\ (rx' # NoRx <=> rx # NoRx)
                          /\ rx'.age = rx.age /\ rx'.noted = rx.noted
  <1>1. PICK f \in 1..3 : f = hop_target(skip) /\ f # skip
    BY HopTarget
  <1>2. change_frequency(f) /\ hopAge' = 0
    BY <1>1 DEF hop_frequency
  <1>3. SoftPhy \/ latch' = latch
    BY <1>2, RetuneStep
  <1>4. latch' \in BOOLEAN
    BY <1>2, <1>3 DEF change_frequency
  <1>5. QED
    BY <1>1, <1>2, <1>4, RetuneStep

LEMMA SliceFields ==
    ASSUME spec \in SpecType, spec.left > 0, NEW sp, sp \in {NextSlice(spec), LingerSlice(spec)}
    PROVE  /\ sp \in SpecType /\ sp.skip = spec.skip /\ sp.left = spec.left /\ sp.dropped = spec.dropped
           /\ sp.full > 0 /\ sp.slice = sp.full /\ sp.slice <= sp.left
  <1>1. spec.left \in Nat
    BY DEF SpecType
  <1>2. PICK n \in Int, b \in BOOLEAN : sp = Slice([spec EXCEPT !.lingering = b], n) /\ 0 < n /\ n <= spec.left
    <2>1. CASE sp = NextSlice(spec)
      <3>1. \E n \in Int : sp = Slice([spec EXCEPT !.lingering = FALSE], n) /\ 0 < n /\ n <= spec.left
        BY <1>1, <2>1, Parameters DEF NextSlice, MinOf
      <3>2. QED
        BY <3>1
    <2>2. CASE sp = LingerSlice(spec)
      <3>1. \E n \in Int : sp = Slice([spec EXCEPT !.lingering = TRUE], n) /\ 0 < n /\ n <= spec.left
        BY <1>1, <2>2, Parameters DEF LingerSlice, MinOf
      <3>2. QED
        BY <3>1
    <2>3. QED
      BY <2>1, <2>2
  <1>3. sp \in SpecType /\ sp.skip = spec.skip /\ sp.left = spec.left /\ sp.slice = n /\ sp.full = n /\ sp.dropped = spec.dropped
    BY <1>2 DEF Slice, SpecType
  <1>4. QED
    BY <1>2, <1>3

LEMMA SliceStep ==
    ASSUME spec \in SpecType, spec.left > 0,
           NEW sp, sp \in {NextSlice(spec), [NextSlice(spec) EXCEPT !.dropped = FALSE], LingerSlice(spec)}
    PROVE  /\ sp \in SpecType /\ sp.skip = spec.skip /\ sp.left = spec.left
           /\ sp.full > 0 /\ sp.slice = sp.full /\ sp.slice <= sp.left
           /\ sp.dropped \in {spec.dropped, FALSE}
  <1>1. CASE sp \in {NextSlice(spec), LingerSlice(spec)}
    BY <1>1, SliceFields
  <1>2. CASE sp = [NextSlice(spec) EXCEPT !.dropped = FALSE]
    <2>1. PICK s : s = NextSlice(spec)
      OBVIOUS
    <2>2. /\ s \in SpecType /\ s.skip = spec.skip /\ s.left = spec.left
          /\ s.full > 0 /\ s.slice = s.full /\ s.slice <= s.left
      BY <2>1, SliceFields
    <2>3. sp = [s EXCEPT !.dropped = FALSE]
      BY <1>2, <2>1
    <2>4. /\ sp \in SpecType /\ sp.skip = s.skip /\ sp.left = s.left /\ sp.full = s.full /\ sp.slice = s.slice
          /\ sp.dropped = FALSE
      BY <2>2, <2>3 DEF SpecType
    <2>5. QED
      BY <2>2, <2>4
  <1>3. QED
    BY <1>1, <1>2

LEMMA RaiseStep ==
    ASSUME chip \in ChipType, NEW bits \in SUBSET {"done", "sync", "preamble"}, Raise(bits)
    PROVE  /\ chip' \in ChipType /\ chip'.kind = chip.kind /\ chip'.lands = chip.lands /\ chip'.mode = chip.mode
           /\ chip'.chan = chip.chan /\ chip'.buf = chip.buf /\ chip'.irq = chip.irq \cup bits
           /\ chip'.det = ("sync" \notin bits /\ (chip.det \/ "preamble" \in bits))
           /\ latch' = (latch \/ (chip.irq \cap DioMask = {} /\ bits \cap DioMask # {}))
  BY DEF ChipType, Raise

LEMMA BoundedStep ==
    ASSUME NEW n \in Int, NEW max \in Nat, n \in Off..max
    PROVE  Bounded(n, max) \in Off..max /\ (n >= 0 => Bounded(n, max) >= 0 /\ Bounded(n, max) <= n + 1)
  BY DEF Bounded, Off

-----------------------------------------------------------------------------
(* Each action preserves the invariant.                                    *)

LEMMA FrameStartsPreserves == ASSUME IInv, FrameStarts PROVE IInv'
  <1>1. TypeInv'
    BY NoReception, Parameters DEF IInv, TypeInv, ChipType, RxType, AirType, SpecType, Off, FrameStarts, hub, Waiting
  <1>2. SpecInv'
    BY DEF IInv, SpecInv, Windowed, Blocking, FrameStarts, hub, Waiting
  <1>3. BufInv'
    BY DEF IInv, BufInv, FreshOnly, FrameStarts, hub, Waiting
  <1>4. SyncInv'
    BY DEF IInv, SyncInv, SoftPhy, FrameStarts, hub, Waiting
  <1>5. NoteInv'
    BY DEF IInv, NoteInv, SoftPhy, FrameStarts, hub, Waiting
  <1>6. ListenInv'
    BY NoReception, Parameters DEF IInv, TypeInv, ListenInv, Windowed, Blocking, SoftPhy, PreambleOnAir, FrameStarts, hub,
       Waiting
  <1>7. QED
    BY <1>1, <1>2, <1>3, <1>4, <1>5, <1>6 DEF IInv

LEMMA ChipDropsPreserves == ASSUME IInv, ChipDrops PROVE IInv'
  <1>1. TypeInv'
    BY NoReception, Parameters DEF IInv, TypeInv, ChipDrops, hub, Waiting
  <1>2. SpecInv'
    BY DEF IInv, SpecInv, Windowed, Blocking, ChipDrops, hub, Waiting
  <1>3. BufInv'
    BY DEF IInv, BufInv, FreshOnly, ChipDrops, hub, Waiting
  <1>4. SyncInv'
    BY DEF IInv, SyncInv, SoftPhy, ChipDrops, hub, Waiting
  <1>5. NoteInv'
    BY NoReception, Parameters DEF IInv, TypeInv, NoteInv, SoftPhy, ChipDrops, hub, Waiting
  <1>6. ListenInv'
    BY DEF IInv, ListenInv, Windowed, Blocking, SoftPhy, PreambleOnAir, ChipDrops, hub, Waiting
  <1>7. QED
    BY <1>1, <1>2, <1>3, <1>4, <1>5, <1>6 DEF IInv

LEMMA CheckStalePreserves == ASSUME IInv, CheckStale PROVE IInv'
  <1>1. TypeInv'
    BY DEF IInv, TypeInv, CheckStale, hub
  <1>2. SpecInv'
    BY DEF IInv, SpecInv, Windowed, Blocking, CheckStale, hub
  <1>3. BufInv'
    BY DEF IInv, BufInv, FreshOnly, CheckStale, hub
  <1>4. SyncInv'
    BY DEF IInv, SyncInv, SoftPhy, CheckStale, hub
  <1>5. NoteInv'
    BY DEF IInv, NoteInv, SoftPhy, CheckStale, hub
  <1>6. ListenInv'
    BY DEF IInv, ListenInv, Windowed, Blocking, SoftPhy, PreambleOnAir, CheckStale, hub
  <1>7. QED
    BY <1>1, <1>2, <1>3, <1>4, <1>5, <1>6 DEF IInv

LEMMA CheckNothingPreserves == ASSUME IInv, CheckNothing PROVE IInv'
  <1>1. TypeInv'
    BY DEF IInv, TypeInv, CheckNothing, hub
  <1>2. SpecInv'
    BY DEF IInv, SpecInv, Windowed, Blocking, CheckNothing, hub
  <1>3. BufInv'
    BY DEF IInv, BufInv, FreshOnly, CheckNothing, hub
  <1>4. SyncInv'
    BY DEF IInv, SyncInv, SoftPhy, CheckNothing, hub
  <1>5. NoteInv'
    BY DEF IInv, NoteInv, SoftPhy, CheckNothing, hub
  <1>6. ListenInv'
    BY DEF IInv, ListenInv, Windowed, Blocking, SoftPhy, PreambleOnAir, CheckNothing, hub
  <1>7. QED
    BY <1>1, <1>2, <1>3, <1>4, <1>5, <1>6 DEF IInv

LEMMA SpinClearsPreserves == ASSUME IInv, SpinClears PROVE IInv'
  <1>1. TypeInv'
    BY NoReception, Parameters DEF IInv, TypeInv, ChipType, RxType, AirType, SpecType, Off, SpinClears, hub
  <1>2. SpecInv'
    BY DEF IInv, SpecInv, Windowed, Blocking, SpinClears, hub
  <1>3. BufInv'
    BY DEF IInv, BufInv, FreshOnly, SpinClears, hub
  <1>4. SyncInv'
    BY DEF IInv, SyncInv, SoftPhy, SpinClears, hub
  <1>5. NoteInv'
    BY DEF IInv, NoteInv, SoftPhy, SpinClears, hub
  <1>6. ListenInv'
    BY NoReception, Parameters DEF IInv, TypeInv, ChipType, RxType, AirType, SpecType, Off, ListenInv, Windowed, Blocking,
       SoftPhy, PreambleOnAir, SpinClears, hub
  <1>7. QED
    BY <1>1, <1>2, <1>3, <1>4, <1>5, <1>6 DEF IInv

LEMMA SpinTimesOutPreserves == ASSUME IInv, SpinTimesOut PROVE IInv'
  <1>1. TypeInv'
    BY DEF IInv, TypeInv, SpinTimesOut, hub
  <1>2. SpecInv'
    BY DEF IInv, SpecInv, Windowed, Blocking, SpinTimesOut, hub
  <1>3. BufInv'
    BY DEF IInv, BufInv, FreshOnly, SpinTimesOut, hub
  <1>4. SyncInv'
    BY DEF IInv, SyncInv, SoftPhy, SpinTimesOut, hub
  <1>5. NoteInv'
    BY DEF IInv, NoteInv, SoftPhy, SpinTimesOut, hub
  <1>6. ListenInv'
    BY DEF IInv, ListenInv, Windowed, Blocking, SoftPhy, PreambleOnAir, SpinTimesOut, hub
  <1>7. QED
    BY <1>1, <1>2, <1>3, <1>4, <1>5, <1>6 DEF IInv

LEMMA CheckInactivePreserves == ASSUME IInv, CheckInactive PROVE IInv'
  <1>1. TypeInv'
    <2>1. UNCHANGED <<rx, air, hold, hopAge, spec, early, heard>> /\ latch' = FALSE /\ pc' = "pend"
      BY DEF CheckInactive, hub
    <2>2. chip' \in ChipType
      BY DEF IInv, TypeInv, ChipType, CheckInactive
    <2>3. QED
      BY <2>1, <2>2, Parameters DEF IInv, TypeInv, Off
  <1>2. SpecInv'
    BY DEF IInv, SpecInv, Windowed, Blocking, CheckInactive, hub, activity_irq_mask
  <1>3. BufInv'
    BY DEF IInv, BufInv, FreshOnly, CheckInactive, hub, activity_irq_mask
  <1>4. SyncInv'
    BY DEF IInv, SyncInv, SoftPhy, CheckInactive, hub, activity_irq_mask
  <1>5. NoteInv'
    BY DEF IInv, NoteInv, SoftPhy, CheckInactive, hub, activity_irq_mask
  <1>6. ListenInv'
    BY DEF IInv, ListenInv, Windowed, Blocking, SoftPhy, PreambleOnAir, CheckInactive, hub, activity_irq_mask
  <1>7. QED
    BY <1>1, <1>2, <1>3, <1>4, <1>5, <1>6 DEF IInv

LEMMA CheckSyncPreserves == ASSUME IInv, CheckSync PROVE IInv'
  <1>1. /\ pc = "check" /\ pc' = "early" /\ latch' = FALSE /\ hold' = 0 /\ early' = 0 /\ SoftPhy /\ spec = NoSpec
        /\ chip' = [chip EXCEPT !.irq = @ \ {"sync"}] /\ rx' = [rx EXCEPT !.noted = TRUE]
        /\ "sync" \in chip.irq /\ "done" \notin chip.irq
        /\ UNCHANGED <<air, hopAge, spec, heard, got, sent>>
    BY DEF IInv, SpecInv, CheckSync
  <1>2. rx # NoRx /\ rx.age >= 0 /\ rx.age # Fixed
    BY <1>1 DEF IInv, SyncInv
  <1>3. /\ chip' \in ChipType /\ chip'.kind = chip.kind /\ chip'.irq = chip.irq \ {"sync"} /\ chip'.buf = chip.buf
        /\ chip'.lands = chip.lands /\ chip'.chan = chip.chan /\ chip'.mode = chip.mode /\ chip'.det = chip.det
    BY <1>1 DEF IInv, TypeInv, ChipType
  <1>4. rx' \in RxType /\ rx'.age = rx.age /\ rx'.noted /\ rx' # NoRx
    BY <1>1, NoReception DEF IInv, TypeInv, RxType
  <1>5. TypeInv'
    <2>1. chip' \in ChipType /\ rx' \in RxType /\ hold' \in Off..Holdoff /\ early' \in 0..Body
      BY <1>1, <1>3, <1>4, Parameters DEF Off
    <2>2. UNCHANGED <<air, hopAge, spec, heard>> /\ latch' = FALSE /\ pc' = "early"
      BY <1>1
    <2>3. QED
      BY <2>1, <2>2 DEF IInv, TypeInv
  <1>6. UNCHANGED <<air, hopAge, spec, heard, got, sent>> /\ pc = "check" /\ pc' = "early" /\ latch' = FALSE /\ hold' = 0 /\ early' = 0
    BY <1>1
  <1>7. SpecInv' /\ BufInv'
    BY <1>1, <1>3, <1>6 DEF IInv, SpecInv, BufInv, FreshOnly, Windowed, Blocking, NoSpec
  <1>8. SyncInv'
    BY <1>2, <1>3, <1>4, <1>6, <1>1 DEF IInv, SyncInv, SoftPhy
  <1>9. NoteInv'
    BY <1>1, <1>2, <1>3, <1>4, <1>6 DEF IInv, NoteInv, SoftPhy
  <1>10. ListenInv'
    BY <1>1, <1>2, <1>3, <1>4, <1>6 DEF IInv, ListenInv, Windowed, Blocking, SoftPhy
  <1>11. QED
    BY <1>5, <1>7, <1>8, <1>9, <1>10 DEF IInv

LEMMA CheckDonePreserves == ASSUME IInv, CheckDone PROVE IInv'
  <1>1. chip' \in ChipType /\ chip'.kind = chip.kind /\ chip'.lands = chip.lands /\ chip'.chan = chip.chan /\ chip'.irq = {}
        /\ rx' = NoRx /\ hold' \in {hold, Off} /\ got' \in {"raw", "this"} /\ chip'.buf \in {chip.buf, Residue}
    <2>1. CASE SoftPhy
      BY <2>1, ResetStep DEF IInv, TypeInv, CheckDone, TakePacket, ProbeRead
    <2>2. CASE ~SoftPhy
      BY <2>2 DEF IInv, TypeInv, ChipType, CheckDone, TakePacket, ProbeRead
    <2>3. QED
      BY <2>1, <2>2
  <1>2. TypeInv'
    <2>1. UNCHANGED <<air, hopAge, spec, early, heard>> /\ latch' = FALSE /\ pc' = "pend"
      BY DEF CheckDone
    <2>2. chip' \in ChipType /\ rx' \in RxType /\ hold' \in Off..Holdoff
      BY <1>1, NoReception, Parameters DEF IInv, TypeInv, Off
    <2>3. QED
      BY <2>1, <2>2, Parameters DEF IInv, TypeInv, Off
  <1>3. SpecInv'
    BY <1>1, Leftover DEF IInv, SpecInv, Windowed, Blocking, CheckDone, hub
  <1>4. BufInv'
    BY <1>1, Leftover, NoReception, Parameters DEF IInv, TypeInv, BufInv, FreshOnly, CheckDone, hub
  <1>5. SyncInv'
    BY <1>1, Leftover, NoReception, Parameters DEF IInv, TypeInv, SyncInv, SoftPhy, CheckDone, hub
  <1>6. NoteInv'
    BY <1>1, Leftover, NoReception, Parameters DEF IInv, TypeInv, NoteInv, SoftPhy, CheckDone, hub
  <1>7. ListenInv'
    BY <1>1, Leftover DEF IInv, ListenInv, Windowed, Blocking, SoftPhy, PreambleOnAir, CheckDone, hub
  <1>8. QED
    BY <1>2, <1>3, <1>4, <1>5, <1>6, <1>7 DEF IInv

LEMMA TickPreserves == ASSUME IInv, Tick PROVE IInv'
  <1> DEFINE age == air.age + 1
             syncs == air # NoAir /\ age = 0 /\ Tuned
             next == IF rx = NoRx THEN NoRx ELSE [rx EXCEPT !.age = IF @ < Fixed THEN @ + 1 ELSE Fixed]
             bits == (IF SoftPhy /\ air # NoAir /\ age <= 0 /\ Tuned /\ ~chip.det THEN {"preamble"} ELSE {})
                     \cup (IF SoftPhy /\ syncs THEN {"sync"} ELSE {})
                     \cup (IF next # rx /\ DoneAt(next) THEN {"done"} ELSE {})
  <1>1. /\ Waiting /\ (pc \in {"wait", "spin", "early"} /\ Blocking => spec.slice >= 0) /\ (pc = "early" => early < Body)
        /\ hold' = Bounded(hold, Holdoff) /\ hopAge' = Bounded(hopAge, 2) /\ early' = (IF pc = "early" THEN early + 1 ELSE early)
        /\ UNCHANGED <<pc, heard, got, sent>>
    BY DEF Tick
  <1>2. [air EXCEPT !.age = @ + 1].age = age /\ age \in (1 - Lead)..Body
    BY Parameters DEF IInv, TypeInv, AirType
  <1>3. /\ air' = (IF air = NoAir \/ age = Body THEN NoAir ELSE [air EXCEPT !.age = @ + 1])
        /\ rx' = (IF syncs THEN [age |-> 0, kind |-> air.kind, noted |-> FALSE] ELSE next)
        /\ Raise(bits)
    BY <1>2 DEF Tick
  <1>4. /\ air' \in AirType
        /\ PreambleOnAir' => air # NoAir /\ air.chan = (chip').chan /\ age <= 0
    BY <1>2, <1>3, Parameters DEF IInv, TypeInv, AirType, NoAir, PreambleOnAir
  <1>5. /\ rx' \in RxType
        /\ syncs => rx = NoRx /\ rx' # NoRx /\ rx'.age = 0 /\ ~rx'.noted
        /\ ~syncs => /\ rx'.noted = rx.noted /\ rx' = next /\ (rx = NoRx <=> rx' = NoRx)
                     /\ rx # NoRx => rx'.age = IF rx.age < Fixed THEN rx.age + 1 ELSE Fixed
    <2>1. CASE syncs
      BY <1>3, <2>1, Parameters DEF IInv, TypeInv, AirType, RxType, NoRx, Off, Tuned
    <2>2. CASE ~syncs /\ rx = NoRx
      BY <1>3, <2>2, NoReception
    <2>3. CASE ~syncs /\ rx # NoRx
      <3>1. rx \in RxType /\ rx.age \in Nat
        BY <2>3 DEF IInv, TypeInv, RxType, SyncInv
      <3>2. rx' = [rx EXCEPT !.age = IF rx.age < Fixed THEN rx.age + 1 ELSE Fixed]
        BY <1>3, <2>3
      <3>3. rx' \in RxType /\ rx'.noted = rx.noted /\ rx'.age = (IF rx.age < Fixed THEN rx.age + 1 ELSE Fixed)
        BY <3>1, <3>2, Parameters DEF RxType, Off
      <3>4. rx' # NoRx
        BY <3>1, <3>3, NoReception, Parameters
      <3>5. QED
        BY <1>3, <2>3, <3>3, <3>4
    <2>4. QED
      BY <2>1, <2>2, <2>3
  <1>6. /\ chip' \in ChipType /\ chip'.kind = chip.kind /\ chip'.lands = chip.lands /\ chip'.mode = chip.mode
        /\ chip'.chan = chip.chan /\ chip'.buf = chip.buf /\ chip'.irq = chip.irq \cup bits
        /\ chip'.det = ("sync" \notin bits /\ (chip.det \/ "preamble" \in bits))
        /\ latch' = (latch \/ (chip.irq \cap DioMask = {} /\ bits \cap DioMask # {}))
    BY <1>3, RaiseStep DEF IInv, TypeInv
  <1>7. /\ "preamble" \in bits <=> SoftPhy /\ air # NoAir /\ age <= 0 /\ Tuned /\ ~chip.det
        /\ "sync" \in bits <=> SoftPhy /\ syncs
        /\ "done" \in bits <=> next # rx /\ DoneAt(next)
    OBVIOUS
  <1>8. /\ spec' \in SpecType /\ spec'.skip = spec.skip /\ spec'.full = spec.full /\ spec'.dropped = spec.dropped
        /\ spec = NoSpec => spec' = NoSpec
        /\ spec = NoSpec \/ pc = "tx" => spec' = spec
        /\ spec # NoSpec /\ pc # "tx" => spec'.left = spec.left - 1 /\ spec'.slice = spec.slice - 1
    <2>1. spec' = IF spec = NoSpec \/ pc = "tx" THEN spec ELSE [spec EXCEPT !.left = @ - 1, !.slice = @ - 1]
      BY DEF Tick
    <2>2. spec \in SpecType
      BY DEF IInv, TypeInv
    <2>3. CASE spec = NoSpec \/ pc = "tx"
      BY <2>1, <2>2, <2>3
    <2>4. CASE spec # NoSpec /\ pc # "tx"
      <3>1. spec.left - 1 \in Int /\ spec.slice - 1 \in Int
        BY <2>2 DEF SpecType
      <3>2. spec' = [spec EXCEPT !.left = spec.left - 1, !.slice = spec.slice - 1]
        BY <2>1, <2>4, Zenon
      <3>3. /\ spec' \in SpecType /\ spec'.skip = spec.skip /\ spec'.full = spec.full /\ spec'.dropped = spec.dropped
            /\ spec'.left = spec.left - 1 /\ spec'.slice = spec.slice - 1
        BY <2>2, <3>1, <3>2 DEF SpecType
      <3>4. QED
        BY <2>4, <3>3
    <2>5. QED
      BY <2>3, <2>4
  <1>9. hold' \in Off..Holdoff /\ (hold >= 0 => hold' >= 0 /\ hold' <= hold + 1) /\ hopAge' \in 0..2 /\ early' \in 0..Body
    <2>1. hold \in Int /\ hopAge \in Int /\ hold \in Off..Holdoff /\ hopAge \in Off..2 /\ hopAge >= 0 /\ early \in 0..Body
      BY Parameters DEF IInv, TypeInv, Off
    <2>2. hold' \in Off..Holdoff /\ (hold >= 0 => hold' >= 0 /\ hold' <= hold + 1)
      BY <1>1, <2>1, BoundedStep, Parameters
    <2>3. hopAge' \in Off..2 /\ hopAge' >= 0
      BY <1>1, <2>1, BoundedStep
    <2>4. QED
      BY <1>1, <2>1, <2>2, <2>3, Parameters DEF Off
  <1> HIDE DEF next, bits
  <1>10. TypeInv'
    <2>1. chip' \in ChipType /\ rx' \in RxType /\ air' \in AirType /\ spec' \in SpecType /\ latch' \in BOOLEAN
      BY <1>4, <1>5, <1>6, <1>8
    <2>2. QED
      BY <1>1, <1>9, <2>1 DEF IInv, TypeInv
  <1>11. SpecInv'
    BY <1>1, <1>6, <1>8 DEF IInv, TypeInv, SpecType, SpecInv, Windowed, Blocking, Waiting, NoSpec
  <1>12. BufInv'
    BY <1>1, <1>6 DEF IInv, BufInv, FreshOnly
  <1>13. SyncInv'
    <2>1. SoftPhy /\ rx'.age = Fixed => "done" \in (chip').irq
      BY <1>5, <1>6, <1>7, Parameters DEF IInv, TypeInv, RxType, SyncInv, DoneAt, Off, NoRx, SoftPhy
    <2>2. QED
      BY <1>1, <1>5, <1>6, <1>7, <1>9, <2>1, NoReception, Parameters DEF IInv, TypeInv, RxType, SyncInv, SoftPhy, Waiting
  <1>14. NoteInv'
    <2>1. SUFFICES ASSUME rx'.noted PROVE NoteInv'
      BY DEF NoteInv
    <2>2. ~syncs /\ rx.noted /\ rx # NoRx /\ rx' # NoRx
      BY <1>5, <2>1 DEF IInv, NoteInv
    <2>3. chip.kind = "sx1262" /\ (chip').irq \cap {"done", "sync"} # {} => latch'
      <3>1. chip.kind = "sx1262" => DioMask = {"tx", "done", "sync"}
        BY DEF DioMask
      <3>2. "sync" \notin bits
        BY <1>7, <2>2
      <3>3. chip.irq \subseteq {"done", "sync", "preamble"}
        BY DEF IInv, TypeInv, ChipType
      <3>4. QED
        BY <1>6, <2>2, <3>1, <3>2, <3>3 DEF IInv, NoteInv
    <2>4. QED
      BY <1>1, <1>5, <1>6, <1>8, <1>9, <2>2, <2>3, Parameters DEF IInv, TypeInv, RxType, NoteInv, SoftPhy, Waiting
  <1>15. ListenInv'
    <2>1. Windowed' <=> Windowed
      BY <1>1, <1>8 DEF IInv, SpecInv, Windowed, Blocking, NoSpec
    <2>2. SoftPhy /\ rx' # NoRx => ~(chip').det
      BY <1>5, <1>6, <1>7 DEF IInv, ListenInv, Tuned
    <2>3. SoftPhy /\ Windowed /\ (chip').det => "preamble" \in (chip').irq
      BY <1>6, <1>7 DEF IInv, ListenInv
    <2>4. SoftPhy /\ Windowed /\ rx' # NoRx => "preamble" \in (chip').irq \/ spec.dropped
      BY <1>5, <1>6, <1>7, <2>3 DEF IInv, ListenInv
    <2>5. chip.kind = "lr1121" /\ Windowed /\ pc \in {"early", "spin"} => ~latch'
      BY <1>6, NoReception, Parameters DEF IInv, TypeInv, SyncInv, ListenInv, DioMask, SoftPhy
    <2>6. SoftPhy /\ rx' = NoRx /\ PreambleOnAir' /\ pc = "wait" => "preamble" \in (chip').irq
      BY <1>4, <1>5, <1>6, <1>7 DEF IInv, ListenInv, Windowed, Tuned
    <2>7. (pc = "tx" => (chip').mode = "tx" /\ rx' = NoRx) /\ (pc = "spin" => SoftPhy /\ rx' # NoRx)
      BY <1>5, <1>6 DEF IInv, ListenInv, Tuned
    <2>8. pc # "dwell" /\ UNCHANGED pc
      BY <1>1 DEF Waiting
    <2>9. QED
      BY <1>6, <1>8, <2>7, <2>8, <2>1, <2>2, <2>3, <2>4, <2>5, <2>6 DEF IInv, ListenInv, SoftPhy
  <1>16. QED
    BY <1>10, <1>11, <1>12, <1>13, <1>14, <1>15 DEF IInv

LEMMA TxTimeoutPreserves == ASSUME IInv, TxTimeout PROVE IInv'
  <1>1. /\ pc = "tx" /\ pc' = "hop" /\ sent' = "timeout" /\ spec' = NoSpec /\ UNCHANGED <<rx, air, latch, hold, hopAge, early, heard, got>>
    BY DEF TxTimeout
  <1>2. /\ chip' \in ChipType /\ chip'.kind = chip.kind /\ chip'.lands = chip.lands /\ chip'.chan = chip.chan
        /\ chip'.irq = chip.irq /\ chip'.det = chip.det /\ chip'.buf = chip.buf
    BY DEF IInv, TypeInv, ChipType, TxTimeout
  <1>3. NoSpec \in SpecType /\ NoSpec.dropped = FALSE
    BY DEF NoSpec, SpecType
  <1>4. TypeInv'
    <2>1. chip' \in ChipType /\ spec' \in SpecType
      BY <1>1, <1>2, <1>3
    <2>2. QED
      BY <1>1, <2>1 DEF IInv, TypeInv
  <1>5. SpecInv'
    BY <1>1, <1>2, <1>3 DEF IInv, TypeInv, RxType, SpecInv, Windowed, Blocking, SoftPhy, NoSpec
  <1>6. BufInv'
    BY <1>1, <1>2, <1>3 DEF IInv, TypeInv, RxType, BufInv, FreshOnly, SoftPhy, NoSpec
  <1>7. SyncInv'
    BY <1>1, <1>2, <1>3 DEF IInv, TypeInv, RxType, SyncInv, SoftPhy, NoSpec
  <1>8. NoteInv'
    BY <1>1, <1>2, <1>3 DEF IInv, TypeInv, RxType, NoteInv, SoftPhy, NoSpec
  <1>9. ListenInv'
    BY <1>1, <1>2, <1>3 DEF IInv, TypeInv, RxType, ListenInv, Windowed, Blocking, SoftPhy, PreambleOnAir, NoSpec
  <1>10. QED
    BY <1>4, <1>5, <1>6, <1>7, <1>8, <1>9 DEF IInv

LEMMA HopPreserves == ASSUME IInv, Hop PROVE IInv'
  <1>1. pc \in {"pend", "hop"} /\ pc' = "check" /\ got' = "none" /\ spec = NoSpec /\ UNCHANGED <<air, spec, early, heard, sent>>
    BY DEF IInv, SpecInv, Hop
  <1>2. chip \in ChipType /\ rx \in RxType /\ latch \in BOOLEAN /\ hold \in Off..Holdoff
    BY DEF IInv, TypeInv
  <1>3. /\ chip' \in ChipType /\ rx' \in RxType /\ latch' \in BOOLEAN /\ hold' \in Off..Holdoff /\ hopAge' \in {hopAge, 0}
        /\ chip'.kind = chip.kind /\ chip'.lands = chip.lands /\ chip'.buf \in {chip.buf, Residue}
        /\ SoftPhy => \/ UNCHANGED <<chip, rx, latch, hold>>
                      \/ rx' = NoRx /\ (chip').irq = {} /\ ~(chip').det
        /\ ~SoftPhy => rx' = NoRx \/ (rx # NoRx /\ rx'.age = rx.age /\ rx'.noted = rx.noted)
    <2>1. CASE MaybeHop
      <3>1. CASE hopAge >= 2 /\ ~InProgress
        <4>1. hop_frequency(0) /\ hold' = Off /\ SoftPhy
          BY <2>1, <3>1 DEF MaybeHop
        <4>2. hold' \in Off..Holdoff
          BY <4>1, Parameters DEF Off
        <4>3. QED
          BY <1>2, <4>1, <4>2, HopStep
      <3>2. CASE ~(hopAge >= 2 /\ ~InProgress)
        BY <1>2, <2>1, <3>2 DEF MaybeHop
      <3>3. QED
        BY <3>1, <3>2
    <2>2. CASE MaybeHop1276
      <3>1. CASE UNCHANGED <<chip, rx, latch>> /\ hold' \in {hold, 0} /\ UNCHANGED hopAge
        <4>1. ~SoftPhy /\ hold' \in Off..Holdoff
          BY <1>2, <2>2, <3>1, Parameters DEF Off, MaybeHop1276
        <4>2. QED
          BY <1>2, <3>1, <4>1
      <3>2. CASE hold' = Off /\ hop_frequency(0)
        <4>1. hold' \in Off..Holdoff /\ ~SoftPhy
          BY <2>2, <3>2, Parameters DEF Off, MaybeHop1276
        <4>2. QED
          BY <1>2, <3>2, <4>1, HopStep
      <3>3. CASE hold' = Off /\ hopAge' = 0 /\ chip' = [chip EXCEPT !.chan = hop_target(0), !.irq = {}] /\ rx' = NoRx /\ UNCHANGED latch
        <4>1. hold' \in Off..Holdoff /\ ~SoftPhy
          BY <2>2, <3>3, Parameters DEF Off, MaybeHop1276
        <4>2. PICK f \in 1..3 : f = hop_target(0)
          BY <1>2, HopTarget
        <4>3. /\ chip' \in ChipType /\ chip'.kind = chip.kind /\ chip'.lands = chip.lands /\ chip'.buf = chip.buf
          BY <1>2, <3>3, <4>2 DEF ChipType
        <4>4. QED
          BY <1>2, <3>3, <4>1, <4>3, NoReception
      <3>4. QED
        BY <2>2, <3>1, <3>2, <3>3 DEF MaybeHop1276
    <2>3. QED
      BY <2>1, <2>2 DEF Hop
  <1>4. TypeInv'
    <2>1. hopAge' \in 0..2
      BY <1>3 DEF IInv, TypeInv
    <2>2. chip' \in ChipType /\ rx' \in RxType /\ latch' \in BOOLEAN /\ hold' \in Off..Holdoff
      BY <1>3
    <2>3. QED
      BY <1>1, <2>1, <2>2 DEF IInv, TypeInv
  <1>5. SpecInv'
    BY <1>1 DEF SpecInv, Windowed, Blocking, NoSpec
  <1>6. BufInv'
    BY <1>1, <1>2, <1>3, Leftover, NoReception, Parameters DEF IInv, TypeInv, RxType, BufInv, FreshOnly, SoftPhy, NoSpec
  <1>7. SyncInv'
    <2>1. CASE SoftPhy
      BY <1>1, <1>3, <2>1, NoReception, Parameters DEF IInv, SyncInv, SoftPhy
    <2>2. CASE ~SoftPhy
      BY <1>1, <1>3, <2>2, NoReception DEF IInv, SyncInv, SoftPhy
    <2>3. QED
      BY <2>1, <2>2
  <1>8. NoteInv'
    BY <1>1, <1>2, <1>3, Leftover, NoReception, Parameters DEF IInv, TypeInv, RxType, NoteInv, SoftPhy, NoSpec
  <1>9. ListenInv'
    BY <1>1, <1>2, <1>3, Leftover, NoReception, Parameters DEF IInv, TypeInv, RxType, ListenInv, Windowed, Blocking, SoftPhy,
       PreambleOnAir, NoSpec
  <1>10. QED
    BY <1>4, <1>5, <1>6, <1>7, <1>8, <1>9 DEF IInv

LEMMA try_early_completionPreserves == ASSUME IInv, try_early_completion PROVE IInv'
  <1>1. pc = "early" /\ early' = 0 /\ UNCHANGED <<air, hopAge, spec, heard, sent>>
    BY DEF try_early_completion
  <1>2. chip \in ChipType /\ rx \in RxType /\ rx # NoRx /\ rx.age >= 0 /\ SoftPhy
    BY <1>1, NoReception, Parameters DEF IInv, TypeInv, SyncInv
  <1>3. \/ EarlyFails
        \/ EarlySucceeds /\ EarlyRead # "invalid" /\ rx.age >= Body
    BY <1>1, Parameters DEF IInv, TypeInv, RxType, SyncInv, try_early_completion
  <1>4. /\ chip' \in ChipType /\ rx' \in RxType /\ latch' \in BOOLEAN /\ hold' \in Off..Holdoff
        /\ chip'.kind = chip.kind /\ chip'.lands = chip.lands /\ chip'.chan = chip.chan /\ chip'.buf \in {chip.buf, Residue}
        /\ \/ /\ EarlyFails /\ UNCHANGED <<chip, rx, latch, got>>
              /\ pc' = (IF Blocking THEN "spin" ELSE "pend") /\ hold' = (IF Blocking THEN hold ELSE 0)
           \/ /\ pc' = (IF Blocking THEN "frame" ELSE "pend") /\ chip'.mode = "rx" /\ rx' = NoRx /\ chip'.irq = {} /\ ~chip'.det
              /\ got' # "earlier" /\ (got' = "own" => sent = "timeout")
    <2>1. CASE EarlyFails
      <3>1. hold' \in Off..Holdoff
        BY <2>1, Parameters DEF IInv, TypeInv, EarlyFails, Off
      <3>2. QED
        BY <1>2, <2>1, <3>1 DEF IInv, TypeInv, EarlyFails
    <2>2. CASE EarlySucceeds /\ EarlyRead # "invalid" /\ rx.age >= Body
      <3>1. EarlyRead # "earlier" /\ (EarlyRead = "own" => sent = "timeout")
        BY <1>1, <2>2 DEF IInv, BufInv, EarlyRead
      <3>2. hold' \in Off..Holdoff
        BY <1>2, <2>2, ResetStep, Parameters DEF EarlySucceeds, Off
      <3>3. got' = EarlyRead /\ ~latch' /\ latch' \in BOOLEAN /\ pc' = (IF Blocking THEN "frame" ELSE "pend") /\ reset_rx_state
        BY <2>2 DEF EarlySucceeds
      <3>4. QED
        BY <1>2, <3>1, <3>2, <3>3, ResetStep, NoReception
    <2>3. QED
      BY <1>3, <2>1, <2>2
  <1>5. TypeInv'
    <2>1. chip' \in ChipType /\ rx' \in RxType /\ latch' \in BOOLEAN /\ hold' \in Off..Holdoff
      BY <1>4
    <2>2. pc' \in {"spin", "pend", "frame"}
      BY <1>4
    <2>3. QED
      BY <1>1, <2>1, <2>2, Parameters DEF IInv, TypeInv
  <1>6. SpecInv'
    BY <1>1, <1>2, <1>4, Leftover, NoReception, Parameters DEF IInv, TypeInv, RxType, SpecInv, Windowed, Blocking, SoftPhy
  <1>7. BufInv'
    BY <1>1, <1>2, <1>4, Leftover, NoReception, Parameters DEF IInv, TypeInv, RxType, BufInv, FreshOnly, SoftPhy
  <1>8. SyncInv'
    BY <1>1, <1>2, <1>4, Leftover, NoReception, Parameters DEF IInv, TypeInv, RxType, SyncInv, SoftPhy
  <1>9. NoteInv'
    BY <1>1, <1>2, <1>4, NoReception DEF IInv, NoteInv, Blocking, SoftPhy
  <1>10. ListenInv'
    BY <1>1, <1>2, <1>4, Leftover, NoReception, Parameters DEF IInv, TypeInv, RxType, ListenInv, Windowed, Blocking, SoftPhy,
       PreambleOnAir
  <1>11. QED
    BY <1>5, <1>6, <1>7, <1>8, <1>9, <1>10 DEF IInv

LEMMA SpecFields ==
    ASSUME NEW s \in SpecType, NEW l \in Int, NEW f \in 0..3
    PROVE  /\ [s EXCEPT !.left = l] \in SpecType
           /\ [s EXCEPT !.left = l].left = l /\ [s EXCEPT !.left = l].dropped = s.dropped
           /\ [s EXCEPT !.rotating = TRUE, !.linger = TRUE, !.left = l] \in SpecType
           /\ [s EXCEPT !.rotating = TRUE, !.linger = TRUE, !.left = l].left = l
           /\ [s EXCEPT !.rotating = TRUE, !.linger = TRUE, !.left = l].dropped = s.dropped
           /\ [s EXCEPT !.rehop = TRUE] \in SpecType
           /\ [s EXCEPT !.rehop = TRUE].left = s.left /\ [s EXCEPT !.rehop = TRUE].dropped = s.dropped
           /\ [s EXCEPT !.skip = f] \in SpecType
           /\ [s EXCEPT !.skip = f].left = s.left /\ [s EXCEPT !.skip = f].dropped = s.dropped
  BY DEF SpecType

LEMMA TransmitPreserves == ASSUME IInv, Transmit PROVE IInv'
  <1>1. /\ pc = "pend" /\ pc' = "tx" /\ rx' = NoRx /\ latch' = FALSE /\ got' = "none"
        /\ UNCHANGED <<air, hold, hopAge, early, heard, sent>>
    BY DEF Transmit
  <1>2. PICK f \in Channels :
          /\ chip' = [chip EXCEPT !.mode = "tx", !.chan = f, !.irq = {},
                                  !.buf = IF chip.kind = "lr1121" THEN "own" ELSE Residue]
          /\ spec' \in ListenSpecs(f)
    BY DEF Transmit
  <1>3. /\ chip' \in ChipType /\ chip'.kind = chip.kind /\ chip'.lands = chip.lands /\ chip'.irq = {} /\ chip'.mode = "tx"
        /\ chip'.buf = IF chip.kind = "lr1121" THEN "own" ELSE Residue
    BY <1>2, Leftover, Parameters DEF IInv, TypeInv, ChipType
  <1>4. spec' \in SpecType /\ (spec' # NoSpec => spec'.left > 0) /\ ~spec'.dropped
    <2>1. ListenSpecs(f) \subseteq {NoSpec} \cup {s \in SpecType : s.left = Window /\ ~s.dropped}
      <3>1. NoSpec \in SpecType /\ NoSpec.dropped = FALSE
        BY DEF NoSpec, SpecType
      <3>2. Rotating \in SpecType /\ Rotating.dropped = FALSE /\ Rotating.left = Window
        <4>1. Window \in Int /\ f \in 0..3
          BY Parameters
        <4>2. QED
          BY <3>1, <4>1, SpecFields, Zenon DEF Rotating
      <3>3. /\ [NoSpec EXCEPT !.left = Window] \in {s \in SpecType : s.left = Window /\ ~s.dropped}
            /\ [Rotating EXCEPT !.rehop = TRUE] \in {s \in SpecType : s.left = Window /\ ~s.dropped}
            /\ [Rotating EXCEPT !.skip = f] \in {s \in SpecType : s.left = Window /\ ~s.dropped}
        <4>1. Window \in Int /\ f \in 0..3
          BY Parameters
        <4>2. QED
          BY <3>1, <3>2, <4>1, SpecFields, Zenon
      <3>4. QED
        BY <3>3, Zenon DEF ListenSpecs
    <2>2. NoSpec \in SpecType /\ NoSpec.dropped = FALSE
      BY DEF NoSpec, SpecType
    <2>3. QED
      BY <1>2, <2>1, <2>2, Parameters
  <1>5. TypeInv'
    <2>1. chip' \in ChipType /\ rx' \in RxType /\ latch' \in BOOLEAN /\ spec' \in SpecType
      BY <1>1, <1>3, <1>4, NoReception
    <2>2. QED
      BY <1>1, <2>1 DEF IInv, TypeInv
  <1>6. SpecInv'
    BY <1>1, <1>3, <1>4, Leftover, NoReception, Parameters DEF IInv, TypeInv, RxType, SpecInv, Windowed, Blocking, SoftPhy
  <1>7. BufInv'
    BY <1>1, <1>3, <1>4, Leftover, NoReception, Parameters DEF IInv, TypeInv, RxType, BufInv, FreshOnly, SoftPhy
  <1>8. SyncInv'
    BY <1>1, <1>3, <1>4, Leftover, NoReception, Parameters DEF IInv, TypeInv, RxType, SyncInv, SoftPhy
  <1>9. NoteInv'
    BY <1>1, <1>3, <1>4, Leftover, NoReception, Parameters DEF IInv, TypeInv, RxType, NoteInv, SoftPhy
  <1>10. ListenInv'
    BY <1>1, <1>3, <1>4, Leftover, NoReception, Parameters DEF IInv, TypeInv, RxType, ListenInv, Windowed, Blocking, SoftPhy,
       PreambleOnAir
  <1>11. QED
    BY <1>5, <1>6, <1>7, <1>8, <1>9, <1>10 DEF IInv

LEMMA TxDonePreserves == ASSUME IInv, TxDone PROVE IInv'
  <1>1. /\ pc = "tx" /\ sent' = "done" /\ latch' = (~SoftPhy /\ ~Blocking)
        /\ spec' = (IF Blocking THEN NextSlice(spec) ELSE NoSpec)
        /\ pc' = (IF ~Blocking THEN "hop" ELSE IF spec.skip # 0 THEN "first" ELSE "wait")
        /\ UNCHANGED <<rx, air, hopAge, early, heard, got>> /\ rx = NoRx
    BY DEF IInv, ListenInv, TxDone, StartsWithHop
  <1>2. /\ chip' \in ChipType /\ chip'.kind = chip.kind /\ chip'.lands = chip.lands /\ chip'.mode = "rx" /\ chip'.chan = chip.chan
        /\ SoftPhy => chip'.irq = {} /\ ~chip'.det
        /\ chip'.buf = IF chip.kind = "lr1121" THEN "blank" ELSE chip.buf
    <2>1. CASE SoftPhy
      <3>1. chip' = [chip EXCEPT !.irq = {}, !.det = FALSE, !.mode = "rx",
                                 !.buf = IF chip.kind = "lr1121" THEN "blank" ELSE @]
        BY <2>1 DEF TxDone, rearm_rx_after_tx
      <3>2. QED
        BY <3>1 DEF IInv, TypeInv, ChipType
    <2>2. CASE ~SoftPhy
      BY <2>2 DEF IInv, TypeInv, ChipType, TxDone, SoftPhy
    <2>3. QED
      BY <2>1, <2>2
  <1>3. hold' \in Off..Holdoff
    BY Parameters DEF IInv, TypeInv, TxDone, rearm_rx_after_tx, Off
  <1>4. spec \in SpecType /\ (Blocking => spec.left > 0)
    BY <1>1 DEF IInv, TypeInv, SpecInv
  <1>5. CASE Blocking
    <2>1. /\ spec' \in SpecType /\ spec'.skip = spec.skip /\ spec'.left = spec.left
          /\ spec'.full > 0 /\ spec'.slice = spec'.full /\ spec'.slice <= spec'.left /\ spec'.dropped = spec.dropped
      BY <1>1, <1>4, <1>5, SliceFields
    <2>2. TypeInv'
      <3>1. chip' \in ChipType /\ latch' \in BOOLEAN /\ spec' \in SpecType /\ pc' \in {"first", "wait"}
        BY <1>1, <1>2, <1>5, <2>1
      <3>2. QED
        BY <1>1, <1>3, <3>1 DEF IInv, TypeInv
    <2>3. SpecInv'
      BY <1>1, <1>2, <1>5, <2>1, Leftover, NoReception, Parameters DEF IInv, TypeInv, RxType, SpecInv, Windowed, Blocking,
         SoftPhy, SpecType
    <2>4. BufInv'
      BY <1>1, <1>2, <1>5, <2>1, Leftover, NoReception, Parameters DEF IInv, TypeInv, RxType, BufInv, FreshOnly, SoftPhy,
         SpecType
    <2>5. SyncInv'
      BY <1>1, <1>2, <1>5, <2>1, Leftover, NoReception, Parameters DEF IInv, TypeInv, RxType, SyncInv, SoftPhy, SpecType
    <2>6. NoteInv'
      BY <1>1, <1>2, <1>5, <2>1, Leftover, NoReception, Parameters DEF IInv, TypeInv, RxType, NoteInv, SoftPhy, SpecType
    <2>7. ListenInv'
      BY <1>1, <1>2, <1>5, <2>1, Leftover, NoReception, Parameters DEF IInv, TypeInv, RxType, ListenInv, Windowed, Blocking,
         SoftPhy, PreambleOnAir, SpecType
    <2>8. QED
      BY <2>2, <2>3, <2>4, <2>5, <2>6, <2>7 DEF IInv
  <1>6. CASE ~Blocking
    <2>1. spec' = NoSpec /\ spec' = spec /\ pc' = "hop" /\ latch' \in BOOLEAN
      BY <1>1, <1>6 DEF Blocking
    <2>2. spec'.dropped = FALSE /\ spec'.skip = 0
      BY <2>1 DEF NoSpec
    <2>3. TypeInv'
      BY <1>1, <1>2, <1>3, <2>1 DEF IInv, TypeInv
    <2>4. SpecInv'
      BY <1>2, <2>1, <2>2 DEF SpecInv, Windowed, Blocking
    <2>5. BufInv'
      BY <1>1, <1>2, <2>1 DEF IInv, BufInv, FreshOnly
    <2>6. SyncInv'
      BY <1>1, <1>2, <2>1, NoReception, Leftover, Parameters DEF IInv, TypeInv, RxType, SyncInv, SoftPhy
    <2>7. NoteInv'
      BY <1>1, <1>2, <2>1, NoReception DEF IInv, NoteInv, SoftPhy
    <2>8. ListenInv'
      BY <1>1, <1>2, <2>1, <2>2, NoReception DEF IInv, ListenInv, Windowed, Blocking, SoftPhy, PreambleOnAir
    <2>9. QED
      BY <2>3, <2>4, <2>5, <2>6, <2>7, <2>8 DEF IInv
  <1>7. QED
    BY <1>5, <1>6

LEMMA FirstHopPreserves == ASSUME IInv, FirstHop PROVE IInv'
  <1>1. pc = "first" /\ pc' = "wait" /\ hop_frequency(spec.skip) /\ UNCHANGED <<air, hold, spec, early, heard, got, sent>>
    BY DEF FirstHop
  <1>2. chip \in ChipType /\ rx \in RxType /\ latch \in BOOLEAN /\ spec \in SpecType /\ spec.skip \in 0..3
    BY DEF IInv, TypeInv, SpecType
  <1>3. /\ chip' \in ChipType /\ rx' \in RxType /\ latch' \in BOOLEAN /\ hopAge' = 0
        /\ chip'.kind = chip.kind /\ chip'.lands = chip.lands /\ chip'.chan # spec.skip /\ chip'.buf \in {chip.buf, Residue}
        /\ SoftPhy => rx' = NoRx /\ ~latch' /\ chip'.mode = "rx" /\ chip'.irq = {} /\ ~chip'.det
        /\ ~SoftPhy => /\ chip'.mode = chip.mode /\ chip'.irq = chip.irq /\ (rx' # NoRx <=> rx # NoRx)
                       /\ rx'.age = rx.age /\ rx'.noted = rx.noted
    BY <1>1, <1>2, HopStep
  <1>4. TypeInv'
    <2>1. chip' \in ChipType /\ rx' \in RxType /\ latch' \in BOOLEAN /\ hopAge' \in 0..2
      BY <1>3
    <2>2. QED
      BY <1>1, <2>1 DEF IInv, TypeInv
  <1>5. SpecInv'
    BY <1>1, <1>2, <1>3, Leftover, NoReception, Parameters DEF IInv, TypeInv, RxType, SpecInv, Windowed, Blocking, SoftPhy,
       SpecType
  <1>6. BufInv'
    BY <1>1, <1>2, <1>3, Leftover, NoReception, Parameters DEF IInv, TypeInv, RxType, BufInv, FreshOnly, SoftPhy, SpecInv,
       SpecType
  <1>7. SyncInv'
    BY <1>1, <1>2, <1>3, Leftover, NoReception, Parameters DEF IInv, TypeInv, RxType, SyncInv, SoftPhy, SpecInv, SpecType
  <1>8. NoteInv'
    BY <1>1, <1>2, <1>3, Leftover, NoReception, Parameters DEF IInv, TypeInv, RxType, NoteInv, SoftPhy, SpecInv, SpecType
  <1>9. ListenInv'
    BY <1>1, <1>2, <1>3, Leftover, NoReception, Parameters DEF IInv, TypeInv, RxType, ListenInv, Windowed, Blocking, SoftPhy,
       PreambleOnAir, SpecInv, SpecType
  <1>10. QED
    BY <1>4, <1>5, <1>6, <1>7, <1>8, <1>9 DEF IInv

LEMMA WaitSyncPreserves == ASSUME IInv, WaitSync PROVE IInv'
  <1>1. /\ pc = "wait" /\ SoftPhy /\ "sync" \in chip.irq /\ latch' \in {FALSE, "preamble" \notin DioMask} /\ heard' = FALSE
        /\ early' = 0 /\ pc' = "early" /\ UNCHANGED <<rx, air, hold, hopAge, spec, got, sent>>
    BY DEF WaitSync
  <1>2. /\ chip' \in ChipType /\ chip'.kind = chip.kind /\ chip'.lands = chip.lands /\ chip'.mode = chip.mode
        /\ chip'.chan = chip.chan /\ chip'.irq = chip.irq \ {"sync"} /\ chip'.det = chip.det /\ chip'.buf = chip.buf
    BY DEF IInv, TypeInv, ChipType, WaitSync
  <1>3. /\ rx # NoRx /\ rx.age >= 0 /\ Blocking
        /\ chip.kind = "lr1121" => ~latch'
    <2>1. rx # NoRx /\ rx.age >= 0 /\ Blocking
      BY <1>1 DEF IInv, SyncInv, SpecInv, Windowed, Blocking, NoSpec
    <2>2. chip.kind = "lr1121" => "preamble" \in DioMask
      BY DEF DioMask
    <2>3. QED
      BY <1>1, <2>1, <2>2
  <1>4. TypeInv'
    <2>1. chip' \in ChipType /\ early' \in 0..Body
      BY <1>1, <1>2, Parameters
    <2>2. latch' \in BOOLEAN
      BY <1>1
    <2>3. QED
      BY <1>1, <2>1, <2>2 DEF IInv, TypeInv
  <1>5. SpecInv'
    BY <1>1, <1>2, <1>3, Leftover, NoReception, Parameters DEF IInv, TypeInv, RxType, SpecInv, Windowed, Blocking, SoftPhy
  <1>6. BufInv'
    BY <1>1, <1>2, <1>3, Leftover, NoReception, Parameters DEF IInv, TypeInv, RxType, BufInv, FreshOnly, SoftPhy
  <1>7. SyncInv'
    BY <1>1, <1>2, <1>3, Leftover, NoReception, Parameters DEF IInv, TypeInv, RxType, SyncInv, SoftPhy
  <1>8. NoteInv'
    BY <1>1, <1>2, <1>3, Leftover, NoReception, Parameters DEF IInv, TypeInv, RxType, NoteInv, SoftPhy
  <1>9. ListenInv'
    BY <1>1, <1>2, <1>3, Leftover, NoReception, Parameters DEF IInv, TypeInv, RxType, ListenInv, Windowed, Blocking, SoftPhy,
       PreambleOnAir
  <1>10. QED
    BY <1>4, <1>5, <1>6, <1>7, <1>8, <1>9 DEF IInv

LEMMA WaitDonePreserves == ASSUME IInv, WaitDone PROVE IInv'
  <1>1. /\ pc \in {"wait", "spin"} /\ latch' = FALSE /\ pc' = "frame" /\ heard' \in {heard, FALSE}
        /\ UNCHANGED <<air, hopAge, spec, early, sent>>
    BY DEF WaitDone
  <1>2. /\ chip' \in ChipType /\ chip'.kind = chip.kind /\ chip'.lands = chip.lands /\ chip'.chan = chip.chan /\ chip'.irq = {}
        /\ chip'.mode = "rx" /\ (SoftPhy => ~chip'.det) /\ rx' = NoRx /\ hold' \in {hold, Off}
        /\ got' \in {"raw", "this"} /\ chip'.buf \in {chip.buf, Residue}
    <2>1. CASE SoftPhy
      BY <2>1, ResetStep DEF IInv, TypeInv, WaitDone, TakePacket, ProbeRead
    <2>2. CASE ~SoftPhy
      BY <1>1, <2>2 DEF IInv, TypeInv, ChipType, ListenInv, Windowed, WaitDone, TakePacket, ProbeRead
    <2>3. QED
      BY <2>1, <2>2
  <1>3. TypeInv'
    <2>1. chip' \in ChipType /\ rx' \in RxType
      BY <1>2, NoReception
    <2>2. heard' \in BOOLEAN
      BY <1>1 DEF IInv, TypeInv
    <2>3. hold' \in Off..Holdoff
      BY <1>2, Parameters DEF IInv, TypeInv, Off
    <2>4. QED
      BY <1>1, <2>1, <2>2, <2>3 DEF IInv, TypeInv
  <1>4. SpecInv'
    BY <1>1, <1>2, Leftover, NoReception, Parameters DEF IInv, TypeInv, RxType, SpecInv, Windowed, Blocking, SoftPhy
  <1>5. BufInv'
    BY <1>1, <1>2, Leftover, NoReception, Parameters DEF IInv, TypeInv, RxType, BufInv, FreshOnly, SoftPhy
  <1>6. SyncInv'
    BY <1>1, <1>2, Leftover, NoReception, Parameters DEF IInv, TypeInv, RxType, SyncInv, SoftPhy
  <1>7. NoteInv'
    BY <1>1, <1>2, Leftover, NoReception, Parameters DEF IInv, TypeInv, RxType, NoteInv, SoftPhy
  <1>8. ListenInv'
    BY <1>1, <1>2, Leftover, NoReception, Parameters DEF IInv, TypeInv, RxType, ListenInv, Windowed, Blocking, SoftPhy,
       PreambleOnAir
  <1>9. QED
    BY <1>3, <1>4, <1>5, <1>6, <1>7, <1>8 DEF IInv

LEMMA WaitTimesOutPreserves == ASSUME IInv, WaitTimesOut PROVE IInv'
  <1>1. /\ pc = "wait" /\ spec.slice < 0 /\ pc' = "dwell" /\ UNCHANGED <<air, hopAge, spec, early, got, sent>>
    BY DEF WaitTimesOut
  <1>2. CASE SoftPhy
    <2>1. heard' = ("preamble" \in chip.irq) /\ latch' = FALSE /\ reset_rx_state
      BY <1>2 DEF WaitTimesOut
    <2>2. /\ chip' \in ChipType /\ rx' = NoRx /\ hold' = Off
          /\ chip'.kind = chip.kind /\ chip'.lands = chip.lands /\ chip'.chan = chip.chan
          /\ chip'.mode = "rx" /\ chip'.irq = {} /\ ~chip'.det /\ chip'.buf = Residue
      BY <2>1, ResetStep DEF IInv, TypeInv
    <2>3. TypeInv'
      <3>1. chip' \in ChipType /\ rx' \in RxType /\ heard' \in BOOLEAN /\ hold' \in Off..Holdoff
        BY <2>1, <2>2, NoReception, Parameters DEF Off
      <3>2. QED
        BY <1>1, <2>1, <3>1 DEF IInv, TypeInv
    <2>4. SpecInv'
      BY <1>1, <2>2 DEF IInv, SpecInv, Windowed, Blocking
    <2>5. BufInv'
      BY <1>1, <2>2, Leftover DEF IInv, TypeInv, BufInv, FreshOnly
    <2>6. SyncInv' /\ NoteInv'
      BY <1>1, <2>2, NoReception, Parameters DEF SyncInv, NoteInv
    <2>7. ListenInv'
      <3>1. SoftPhy /\ PreambleOnAir => heard' \/ spec.dropped
        <4>1. spec.slice < spec.full
          BY <1>1 DEF IInv, TypeInv, SpecType, SpecInv, Windowed
        <4>2. QED
          BY <1>1, <2>1, <4>1 DEF IInv, ListenInv, Windowed
      <3>2. QED
        BY <1>1, <2>2, <3>1 DEF IInv, ListenInv, Windowed, SoftPhy, PreambleOnAir
    <2>8. QED
      BY <2>3, <2>4, <2>5, <2>6, <2>7 DEF IInv
  <1>3. CASE ~SoftPhy
    <2>1. UNCHANGED <<heard, latch, chip, rx, hold>>
      BY <1>3 DEF WaitTimesOut
    <2>2. TypeInv' /\ BufInv'
      BY <1>1, <2>1 DEF IInv, TypeInv, BufInv, FreshOnly
    <2>3. SpecInv' /\ SyncInv' /\ NoteInv'
      BY <1>1, <1>3, <2>1 DEF IInv, SpecInv, SyncInv, NoteInv, Windowed, Blocking, SoftPhy
    <2>4. ListenInv'
      BY <1>1, <1>3, <2>1 DEF IInv, ListenInv, Windowed, SoftPhy
    <2>5. QED
      BY <2>2, <2>3, <2>4 DEF IInv
  <1>4. QED
    BY <1>2, <1>3

(* What ends a slice: the window closes, hops on, or stays on its channel.  *)

LEMMA EndListenPreserves ==
    ASSUME IInv, pc \in {"frame", "dwell"}, EndListen, UNCHANGED <<chip, rx, air, latch, hold, hopAge, early, heard, got, sent>>
    PROVE  IInv'
  <1>1. pc' = "hop" /\ spec' = NoSpec /\ UNCHANGED <<chip, rx, air, latch, hold, hopAge, early, heard, got, sent>>
    BY DEF EndListen
  <1>2. NoSpec \in SpecType /\ NoSpec.dropped = FALSE
    BY DEF NoSpec, SpecType
  <1>3. TypeInv'
    BY <1>1, <1>2 DEF IInv, TypeInv
  <1>4. SpecInv'
    BY <1>1, <1>2 DEF IInv, TypeInv, RxType, SpecInv, Windowed, Blocking, SoftPhy
  <1>5. BufInv'
    BY <1>1, <1>2 DEF IInv, TypeInv, RxType, BufInv, FreshOnly, SoftPhy
  <1>6. SyncInv'
    BY <1>1, <1>2 DEF IInv, TypeInv, RxType, SyncInv, SoftPhy
  <1>7. NoteInv'
    BY <1>1, <1>2 DEF IInv, TypeInv, RxType, NoteInv, SoftPhy
  <1>8. ListenInv'
    BY <1>1, <1>2 DEF IInv, TypeInv, RxType, ListenInv, Windowed, Blocking, SoftPhy, PreambleOnAir
  <1>9. QED
    BY <1>3, <1>4, <1>5, <1>6, <1>7, <1>8 DEF IInv

LEMMA ListenHopPreserves ==
    ASSUME IInv, pc \in {"frame", "dwell"}, spec.left > 0, ListenHop, heard' \in {heard, FALSE},
           UNCHANGED <<air, hold, early, got, sent>>
    PROVE  IInv'
  <1>1. pc' = "wait" /\ hop_frequency(spec.skip) /\ spec' = [NextSlice(spec) EXCEPT !.dropped = FALSE]
    BY DEF ListenHop
  <1>2. chip \in ChipType /\ rx \in RxType /\ latch \in BOOLEAN /\ spec \in SpecType /\ spec.skip \in 0..3
    BY DEF IInv, TypeInv, SpecType
  <1>3. /\ chip' \in ChipType /\ rx' \in RxType /\ latch' \in BOOLEAN /\ hopAge' = 0
        /\ chip'.kind = chip.kind /\ chip'.lands = chip.lands /\ chip'.chan # spec.skip /\ chip'.buf \in {chip.buf, Residue}
        /\ SoftPhy => rx' = NoRx /\ ~latch' /\ chip'.mode = "rx" /\ chip'.irq = {} /\ ~chip'.det
        /\ ~SoftPhy => /\ chip'.mode = chip.mode /\ chip'.irq = chip.irq /\ (rx' # NoRx <=> rx # NoRx)
                       /\ rx'.age = rx.age /\ rx'.noted = rx.noted
    BY <1>1, <1>2, HopStep
  <1>4. /\ spec' \in SpecType /\ spec'.skip = spec.skip /\ spec'.left = spec.left
        /\ spec'.full > 0 /\ spec'.slice = spec'.full /\ spec'.slice <= spec'.left /\ spec'.dropped \in {spec.dropped, FALSE}
    BY <1>1, <1>2, SliceStep
  <1>5. TypeInv'
    <2>1. chip' \in ChipType /\ rx' \in RxType /\ latch' \in BOOLEAN /\ hopAge' \in 0..2 /\ spec' \in SpecType
      BY <1>3, <1>4
    <2>2. heard' \in BOOLEAN
      BY DEF IInv, TypeInv
    <2>3. QED
      BY <1>1, <2>1, <2>2 DEF IInv, TypeInv
  <1>6. SpecInv'
    BY <1>1, <1>2, <1>3, <1>4, Leftover, NoReception, Parameters DEF IInv, TypeInv, RxType, SpecInv, Windowed, Blocking,
       SoftPhy, SpecType
  <1>7. BufInv'
    BY <1>1, <1>2, <1>3, <1>4, Leftover, NoReception, Parameters DEF IInv, TypeInv, RxType, BufInv, FreshOnly, SoftPhy,
       SpecInv, SpecType
  <1>8. SyncInv'
    BY <1>1, <1>2, <1>3, <1>4, Leftover, NoReception, Parameters DEF IInv, TypeInv, RxType, SyncInv, SoftPhy, SpecInv, SpecType
  <1>9. NoteInv'
    BY <1>1, <1>2, <1>3, <1>4, Leftover, NoReception, Parameters DEF IInv, TypeInv, RxType, NoteInv, SoftPhy, SpecInv, SpecType
  <1>10. ListenInv'
    BY <1>1, <1>2, <1>3, <1>4, Leftover, NoReception, Parameters DEF IInv, TypeInv, RxType, ListenInv, Windowed, Blocking,
       SoftPhy, PreambleOnAir, SpecInv, SpecType
  <1>11. QED
    BY <1>5, <1>6, <1>7, <1>8, <1>9, <1>10 DEF IInv

LEMMA StayPreserves ==
    ASSUME IInv, pc \in {"frame", "dwell"}, spec.left > 0, spec' \in {NextSlice(spec), LingerSlice(spec)}, pc' = "wait",
           heard' \in {heard, FALSE}, UNCHANGED <<chip, rx, air, latch, hold, hopAge, early, got, sent>>
    PROVE  IInv'
  <1>1. spec \in SpecType
    BY DEF IInv, TypeInv
  <1>2. /\ spec' \in SpecType /\ spec'.skip = spec.skip /\ spec'.left = spec.left
        /\ spec'.full > 0 /\ spec'.slice = spec'.full /\ spec'.slice <= spec'.left /\ spec'.dropped = spec.dropped
    BY <1>1, SliceFields
  <1>3. TypeInv'
    <2>1. heard' \in BOOLEAN
      BY DEF IInv, TypeInv
    <2>2. QED
      BY <1>2, <2>1 DEF IInv, TypeInv
  <1>4. SpecInv'
    BY <1>2 DEF IInv, TypeInv, RxType, SpecInv, Windowed, Blocking, SoftPhy, SpecType
  <1>5. BufInv'
    BY <1>2 DEF IInv, TypeInv, RxType, BufInv, FreshOnly, SoftPhy, SpecType
  <1>6. SyncInv'
    BY <1>2 DEF IInv, TypeInv, RxType, SyncInv, SoftPhy, SpecType
  <1>7. NoteInv'
    BY <1>2 DEF IInv, TypeInv, RxType, NoteInv, SoftPhy, SpecType
  <1>8. ListenInv'
    BY <1>2 DEF IInv, TypeInv, RxType, ListenInv, Windowed, Blocking, SoftPhy, PreambleOnAir, SpecType
  <1>9. QED
    BY <1>3, <1>4, <1>5, <1>6, <1>7, <1>8 DEF IInv

LEMMA DispatchPreserves == ASSUME IInv, Dispatch PROVE IInv'
  <1>1. pc = "frame" /\ UNCHANGED <<air, hold, early, heard, got, sent>>
    BY DEF Dispatch
  <1>2. chip \in ChipType /\ rx \in RxType /\ latch \in BOOLEAN /\ spec \in SpecType /\ spec.skip \in 0..3
    BY DEF IInv, TypeInv, SpecType
  <1>3. CASE EndListen /\ UNCHANGED <<chip, rx, latch, hopAge>>
    BY <1>1, <1>3, EndListenPreserves
  <1>4. CASE spec.left > 0 /\ ListenHop
    BY <1>1, <1>4, ListenHopPreserves
  <1>5. CASE spec.left > 0 /\ spec' = NextSlice(spec) /\ pc' = "wait" /\ UNCHANGED <<chip, rx, latch, hopAge>>
    BY <1>1, <1>5, StayPreserves
  <1>6. QED
    BY <1>3, <1>4, <1>5 DEF Dispatch

LEMMA DwellEndsPreserves == ASSUME IInv, DwellEnds PROVE IInv'
  <1> DEFINE asks == spec.left > 0 /\ spec.rotating /\ ~spec.lingering
             stays == asks /\ preamble_or_sync_incoming
  <1>1. pc = "dwell" /\ UNCHANGED <<air, hold, early, got, sent>> /\ heard' \in {heard, FALSE}
    BY DEF DwellEnds
  <1>2. CASE spec.left <= 0
    <2>1. EndListen /\ UNCHANGED <<chip, rx, latch, hopAge, heard>>
      BY <1>2 DEF IInv, TypeInv, SpecType, DwellEnds
    <2>2. QED
      BY <1>1, <2>1, EndListenPreserves
  <1>3. CASE spec.left > 0 /\ asks /\ ~stays
    <2>1. ListenHop
      BY <1>3 DEF DwellEnds
    <2>2. QED
      BY <1>1, <1>3, <2>1, ListenHopPreserves
  <1>4. CASE spec.left > 0 /\ ~(asks /\ ~stays)
    <2>1. spec' \in {NextSlice(spec), LingerSlice(spec)} /\ pc' = "wait" /\ UNCHANGED <<chip, rx, latch, hopAge>>
      BY <1>4 DEF IInv, TypeInv, SpecType, DwellEnds
    <2>2. QED
      BY <1>1, <1>4, <2>1, StayPreserves
  <1>5. QED
    BY <1>2, <1>3, <1>4 DEF IInv, TypeInv, SpecType

-----------------------------------------------------------------------------
(* The invariant holds, and what follows from it.                          *)

LEMMA InitInv == ASSUME Init PROVE IInv
  <1>1. PICK kind \in {"sx1262", "lr1121", "sx1276"}, lands \in BOOLEAN :
          chip = PowerOn(kind, lands) /\ (kind # "lr1121" => lands)
    BY DEF Init, RadioSX1262_init, RadioLR1121_init, RadioSX1276_init
  <1>2. /\ chip \in ChipType /\ chip.kind = kind /\ chip.lands = lands /\ chip.mode = "rx" /\ chip.irq = {} /\ ~chip.det
        /\ chip.buf = "blank"
    BY <1>1 DEF PowerOn, ChipType
  <1>3. NoSpec \in SpecType /\ NoSpec.dropped = FALSE /\ NoAir \in AirType
    BY Parameters DEF NoSpec, SpecType, NoAir, AirType
  <1>4. /\ rx = NoRx /\ air = NoAir /\ latch = FALSE /\ hold = Off /\ hopAge = 0 /\ pc = "check" /\ spec = NoSpec /\ early = 0
        /\ heard = FALSE /\ got = "none" /\ sent = "none"
    BY DEF Init
  <1>5. TypeInv
    <2>1. chip \in ChipType /\ rx \in RxType /\ air \in AirType /\ spec \in SpecType
      BY <1>2, <1>3, <1>4, NoReception
    <2>2. hold \in Off..Holdoff /\ hopAge \in 0..2 /\ early \in 0..Body
      BY <1>4, Parameters DEF Off
    <2>3. QED
      BY <1>4, <2>1, <2>2 DEF TypeInv
  <1>6. SpecInv /\ BufInv
    BY <1>1, <1>2, <1>4 DEF SpecInv, Windowed, Blocking, BufInv, FreshOnly
  <1>7. SyncInv /\ NoteInv
    BY <1>2, <1>4, NoReception, Parameters DEF SyncInv, NoteInv
  <1>8. ListenInv
    BY <1>2, <1>3, <1>4 DEF ListenInv, Windowed, Blocking
  <1>9. QED
    BY <1>5, <1>6, <1>7, <1>8 DEF IInv

LEMMA StutterPreserves == ASSUME IInv, UNCHANGED vars PROVE IInv'
  <1>1. UNCHANGED <<chip, rx, air, latch, hold, hopAge, pc, spec, early, heard, got, sent>>
    BY DEF vars
  <1>2. TypeInv'
    BY <1>1 DEF IInv, TypeInv
  <1>3. SpecInv' /\ BufInv'
    BY <1>1 DEF IInv, SpecInv, Windowed, Blocking, BufInv, FreshOnly
  <1>4. SyncInv' /\ NoteInv'
    BY <1>1 DEF IInv, SyncInv, NoteInv, SoftPhy
  <1>5. ListenInv'
    BY <1>1 DEF IInv, ListenInv, Windowed, Blocking, SoftPhy, PreambleOnAir
  <1>6. QED
    BY <1>2, <1>3, <1>4, <1>5 DEF IInv

\* The inductive invariant: what the chip, its interrupt line, the holdoff and the listen window
\* know of the frame on air, between any two steps of the hub.
THEOREM Invariance == Spec => []IInv
  <1>1. ASSUME IInv, Next PROVE IInv'
    <2>1. CASE FrameStarts \/ Tick \/ ChipDrops
      BY <1>1, <2>1, FrameStartsPreserves, TickPreserves, ChipDropsPreserves
    <2>2. CASE Check
      BY <1>1, <2>2, CheckNothingPreserves, CheckInactivePreserves, CheckSyncPreserves, CheckDonePreserves,
         CheckStalePreserves DEF Check
    <2>3. CASE Hop \/ try_early_completion
      BY <1>1, <2>3, HopPreserves, try_early_completionPreserves
    <2>4. CASE Transmit \/ TxDone \/ TxTimeout
      BY <1>1, <2>4, TransmitPreserves, TxDonePreserves, TxTimeoutPreserves
    <2>5. CASE Listen
      BY <1>1, <2>5, FirstHopPreserves, WaitSyncPreserves, WaitDonePreserves, WaitTimesOutPreserves, SpinClearsPreserves,
         SpinTimesOutPreserves, DispatchPreserves, DwellEndsPreserves DEF Listen
    <2>6. QED
      BY <1>1, <2>1, <2>2, <2>3, <2>4, <2>5 DEF Next
  <1>2. QED
    BY <1>1, InitInv, StutterPreserves, PTL DEF Spec

\* No early read, no transmission and no retune lets the hub read a packet it has read already,
\* or its own transmission, unless that one never reported TX_DONE.
THEOREM OnlyFreshPackets == Spec => []FreshOnly
  <1>1. IInv => FreshOnly
    BY DEF IInv, BufInv
  <1>2. QED
    BY <1>1, Invariance, PTL

\* A listen window never sits on the channel it skips and never outlasts its deadline by more
\* than a poll, whatever it hears and however it rotates.
THEOREM WindowsKeepToTheirSpec == Spec => []WindowKept
  <1>1. IInv => WindowKept
    BY DEF IInv, TypeInv, SpecType, SpecInv, Windowed, WindowKept, Blocking
  <1>2. QED
    BY <1>1, Invariance, PTL

\* The idle hop leaves no frame whose sync word loop() has seen, but one that an LR1121 has
\* received completely: by the time the holdoff expires RX_DONE is up, and of the SX1262, whose
\* pin then still has to rise, check_for_packet reads it first.
THEOREM IdleHopIsSafe == Spec => IdleHopSparesFrame
  <1>1. ASSUME IInv, Next, IdleRetune, Noted
        PROVE  chip.kind = "lr1121" /\ "done" \in chip.irq
    <2>1. Hop /\ pc = "pend" /\ SoftPhy /\ rx.noted
      BY <1>1 DEF IInv, NoteInv, IdleRetune, Noted, Next, FrameStarts, Tick, ChipDrops, Waiting, Check, CheckNothing,
         CheckInactive,
         CheckSync, CheckDone, CheckStale, try_early_completion, Transmit, TxDone, TxTimeout, Listen, FirstHop,
         WaitSync, WaitDone, WaitTimesOut, SpinClears, SpinTimesOut, Dispatch, DwellEnds
    <2>2. ~InProgress
      BY <1>1, <2>1 DEF Hop, MaybeHop, MaybeHop1276, IdleRetune
    <2>3. hold >= Holdoff
      BY <1>1, <2>1, <2>2, Parameters DEF IInv, TypeInv, NoteInv, InProgress, Off
    <2>4. rx.age = Fixed
      BY <1>1, <2>1, <2>3, Parameters DEF IInv, TypeInv, RxType, NoteInv
    <2>5. "done" \in chip.irq
      BY <1>1, <2>1, <2>4 DEF IInv, SyncInv
    <2>6. chip.kind # "sx1262"
      BY <1>1, <2>1, <2>3, <2>5, Parameters DEF IInv, NoteInv
    <2>7. QED
      BY <1>1, <2>1, <2>5, <2>6 DEF IInv, TypeInv, ChipType, SoftPhy
  <1>2. ASSUME IInv, [Next]_vars
        PROVE  [IdleRetune /\ Noted => (chip.kind = "lr1121" /\ "done" \in chip.irq)]_vars
    BY <1>1, <1>2
  <1>3. QED
    BY <1>2, Invariance, PTL DEF Spec, IdleHopSparesFrame

\* A lingering window hops off a channel only when nothing is arriving there and nothing is
\* being received, the latch of SpinClears excepted: the preamble bit tells, and the driver
\* remembers it across the reset that its timeout makes.
THEOREM LingeringIsSafe == Spec => LingersOnPreamble
  <1>1. ASSUME IInv, Next, pc = "dwell", spec.linger, (chip').chan # chip.chan
        PROVE  \/ chip.kind = "sx1262" /\ spec.dropped
               \/ rx = NoRx /\ ~(air.chan = chip.chan /\ air.age \in (1 - Lead) .. -1)
    <2>1. DwellEnds
      BY <1>1 DEF Next, FrameStarts, Tick, ChipDrops, Waiting, Check, CheckNothing, CheckInactive,
         CheckSync, CheckDone, CheckStale, Hop, try_early_completion, Transmit, TxDone, TxTimeout, Listen, FirstHop,
         WaitSync, WaitDone, WaitTimesOut, SpinClears, SpinTimesOut, Dispatch
    <2>2. ~Incoming
      BY <1>1, <2>1 DEF DwellEnds, preamble_or_sync_incoming
    <2>3. CASE SoftPhy
      BY <1>1, <2>2, <2>3 DEF IInv, ListenInv, Windowed, Incoming, PreambleOnAir
    <2>4. CASE ~SoftPhy
      <3>1. rx = NoRx /\ chip.mode = "rx"
        BY <1>1, <2>2, <2>4 DEF IInv, ListenInv, Windowed, Incoming
      <3>2. air.chan = chip.chan /\ air.age \in (1 - Lead) .. -1 => Tuned /\ air # NoAir /\ air.age < 0
        BY <3>1, Parameters DEF Tuned, NoAir
      <3>3. QED
        BY <2>2, <2>4, <3>1, <3>2 DEF Incoming
    <2>5. QED
      BY <2>3, <2>4
  <1>2. ASSUME IInv, [Next]_vars
        PROVE  [pc = "dwell" /\ spec.linger /\ (chip').chan # chip.chan
                 => \/ chip.kind = "sx1262" /\ spec.dropped
                    \/ rx = NoRx /\ ~(air.chan = chip.chan /\ air.age \in (1 - Lead) .. -1)]_vars
    BY <1>1, <1>2
  <1>3. QED
    BY <1>2, Invariance, PTL DEF Spec, LingersOnPreamble

-----------------------------------------------------------------------------
(* The tuning layer: one truth, and a snapshot that brings it back.        *)

Bandwidth == {"sx1262_rx_bandwidth", "sx1276_rx_bandwidth", "lr1121_rx_bandwidth"}
Spoken == {<<40>>, <<46>>, <<40, 46>>}

\* What a field of the configuration may hold.
Values(p) ==
    CASE p \in Numbers -> NUMBER_PARAMS[p].lo..NUMBER_PARAMS[p].hi
      [] p \in Bandwidth -> {Bandwidths[p][khz] : khz \in DOMAIN Bandwidths[p]}
      [] p = "pairing_discovery_commands" -> Seq({40, 46}) \ {<<>>}
      [] p = "pairing_discovery_destination" ->
            [auto : {TRUE}, bytes : {<<0, 0, 0>>, <<0, 0, 59>>, <<0, 0, 63>>}] \cup [auto : {FALSE}, bytes : {<<0, 0, 59>>, <<0, 0, 63>>}]
      [] p = "pairing_discovery_payload" -> [enabled : BOOLEAN, byte : {0}]
      [] p = "pairing_discovery_low_power" -> BOOLEAN

Fields(c) == DOMAIN c = Names /\ \A p \in Names : c[p] \in Values(p)

LEMMA TuningTables ==
    /\ Numbers =
         {"sx1262_response_preamble", "sx1262_post_tx_settle_us", "sx1276_response_preamble", "sx1276_discovery_hop_slice_ms",
          "sx1262_discovery_hop_slice_ms", "lr1121_response_preamble", "lr1121_post_tx_settle_us",
          "lr1121_discovery_hop_slice_ms", "cold_broadcast_reply_preamble", "normal_start_preamble", "lbt_max_retries",
          "lbt_rssi_threshold_dbm", "exchange_start_response_wait_ms", "exchange_response_wait_ms",
          "exchange_total_budget_ms", "pairing_discovery_wait_ms", "pairing_discovery_initial_dwell_ms",
          "pairing_key_exchange_retries"}
    /\ Selects =
         {"sx1262_rx_bandwidth", "sx1276_rx_bandwidth", "lr1121_rx_bandwidth", "pairing_discovery_commands",
          "pairing_discovery_destination", "pairing_discovery_payload", "pairing_discovery_low_power"}
    /\ DOMAIN Bandwidths = Bandwidth
  <1>1. DOMAIN Bandwidths = Bandwidth
    BY DEF Bandwidths, Bandwidth
  <1>2. Selects = {"sx1262_rx_bandwidth", "sx1276_rx_bandwidth", "lr1121_rx_bandwidth", "pairing_discovery_commands",
          "pairing_discovery_destination", "pairing_discovery_payload", "pairing_discovery_low_power"}
    BY DEF Selects, SELECT_OPTIONS
  <1>3. QED
    BY <1>1, <1>2 DEF Numbers, NUMBER_PARAMS

LEMMA Apart == \A p \in Selects : p \notin Numbers
  BY TuningTables

\* The range of a number, and its default, fit in its field.
LEMMA NumbersFit ==
    ASSUME NEW p \in Numbers
    PROVE  /\ NUMBER_PARAMS[p].lo \in Int /\ NUMBER_PARAMS[p].hi \in Int
           /\ NUMBER_PARAMS[p].lo <= NUMBER_PARAMS[p].hi
           /\ NUMBER_PARAMS[p].default \in NUMBER_PARAMS[p].lo..NUMBER_PARAMS[p].hi
           /\ \A v \in NUMBER_PARAMS[p].lo..NUMBER_PARAMS[p].hi : Narrowed(p, v) = v
  <1> DEFINE n == NUMBER_PARAMS[p]
  <1>1. /\ n.lo \in Int /\ n.hi \in Int /\ n.default \in Int /\ n.lo <= n.default /\ n.default <= n.hi
        /\ \/ n.bits = 8 /\ n.lo >= 0 /\ n.hi < 256
           \/ n.bits = 16 /\ n.lo >= 0 /\ n.hi < 65536
           \/ n.bits = 16 /\ n.lo >= -95 /\ n.hi < 0 /\ n.lo < 0
    BY TuningTables DEF NUMBER_PARAMS, Number
  <1>2. 2 ^ 8 = 256 /\ 2 ^ 16 = 65536
    OBVIOUS
  <1>3. ASSUME NEW v \in n.lo..n.hi PROVE Narrowed(p, v) = v
    <2>1. v \in Int
      BY <1>1
    <2>2. CASE n.bits = 8 /\ n.lo >= 0 /\ n.hi < 256
      BY <1>1, <1>2, <1>3, <2>1, <2>2 DEF Narrowed
    <2>3. CASE n.bits = 16 /\ n.lo >= 0 /\ n.hi < 65536
      BY <1>1, <1>2, <1>3, <2>1, <2>3 DEF Narrowed
    <2>4. CASE n.bits = 16 /\ n.lo >= -95 /\ n.hi < 0 /\ n.lo < 0
      BY <1>1, <1>2, <1>3, <2>1, <2>4 DEF Narrowed
    <2>5. QED
      BY <1>1, <2>2, <2>3, <2>4
  <1>4. QED
    BY <1>1, <1>3

\* No two options of a table stand for the same register byte, or address.
LEMMA Keys ==
    /\ \A p \in Bandwidth : \A khz \in DOMAIN Bandwidths[p] : KeyOf(Bandwidths[p], Bandwidths[p][khz]) = khz
    /\ \A p \in Bandwidth : SELECT_OPTIONS[p] = DOMAIN Bandwidths[p]
    /\ \A v \in {"0x00003B", "0x00003F"} : KeyOf(Destinations, Destinations[v]) = v
    /\ KeyOf(discovery_command_from_string, 40) = "0x28" /\ KeyOf(discovery_command_from_string, 46) = "0x2E"
  <1>1. ASSUME NEW k \in DOMAIN SEMTECH_BANDWIDTHS PROVE KeyOf(SEMTECH_BANDWIDTHS, SEMTECH_BANDWIDTHS[k]) = k
    <2>1. \A l \in DOMAIN SEMTECH_BANDWIDTHS : SEMTECH_BANDWIDTHS[l] = SEMTECH_BANDWIDTHS[k] => l = k
      BY DEF SEMTECH_BANDWIDTHS
    <2>2. QED
      BY <2>1 DEF KeyOf
  <1>2. ASSUME NEW k \in DOMAIN SX1276_BANDWIDTHS PROVE KeyOf(SX1276_BANDWIDTHS, SX1276_BANDWIDTHS[k]) = k
    <2>1. \A l \in DOMAIN SX1276_BANDWIDTHS : SX1276_BANDWIDTHS[l] = SX1276_BANDWIDTHS[k] => l = k
      BY DEF SX1276_BANDWIDTHS
    <2>2. QED
      BY <2>1 DEF KeyOf
  <1>3. \A p \in Bandwidth : Bandwidths[p] \in {SEMTECH_BANDWIDTHS, SX1276_BANDWIDTHS}
    BY DEF Bandwidth, Bandwidths
  <1>4. \A p \in Bandwidth : SELECT_OPTIONS[p] = DOMAIN Bandwidths[p]
    BY DEF Bandwidth, Bandwidths, SELECT_OPTIONS
  <1>5. ASSUME NEW v \in {"0x00003B", "0x00003F"} PROVE KeyOf(Destinations, Destinations[v]) = v
    <2>1. v \in DOMAIN Destinations /\ \A w \in DOMAIN Destinations : Destinations[w] = Destinations[v] => w = v
      BY DEF Destinations
    <2>2. QED
      BY <2>1 DEF KeyOf
  <1>6. /\ DOMAIN discovery_command_from_string = {"0x28", "0x2A", "0x2E"}
        /\ discovery_command_from_string["0x28"] = 40 /\ discovery_command_from_string["0x2A"] = 42
        /\ discovery_command_from_string["0x2E"] = 46
    BY DEF discovery_command_from_string, DISCOVERY_COMMAND_OPTIONS
  <1>7. KeyOf(discovery_command_from_string, 40) = "0x28" /\ KeyOf(discovery_command_from_string, 46) = "0x2E"
    BY <1>6 DEF KeyOf
  <1>8. QED
    BY <1>1, <1>2, <1>3, <1>4, <1>5, <1>7

\* The commands the hub holds and the tokens that stand for them.
Spelled(s, v) == DOMAIN s = DOMAIN v /\ \A i \in DOMAIN s : (s[i] = 40 /\ v[i] = "0x28") \/ (s[i] = 46 /\ v[i] = "0x2E")

LEMMA Spelling ==
    ASSUME NEW s, NEW v, Spelled(s, v), s = [i \in DOMAIN s |-> s[i]], v = [i \in DOMAIN v |-> v[i]]
    PROVE  /\ [i \in DOMAIN v |-> discovery_command_from_string[v[i]]] = s
           /\ [i \in DOMAIN v |-> DISCOVERY_COMMAND_OPTIONS[v[i]]] = s
           /\ discovery_commands_to_csv(s) = v
  <1>1. /\ discovery_command_from_string["0x28"] = 40 /\ discovery_command_from_string["0x2E"] = 46
        /\ DISCOVERY_COMMAND_OPTIONS["0x28"] = 40 /\ DISCOVERY_COMMAND_OPTIONS["0x2E"] = 46
    BY DEF discovery_command_from_string, DISCOVERY_COMMAND_OPTIONS
  <1>2. \A i \in DOMAIN v : discovery_command_from_string[v[i]] = s[i] /\ DISCOVERY_COMMAND_OPTIONS[v[i]] = s[i]
    BY <1>1 DEF Spelled
  <1>3. \A i \in DOMAIN s : KeyOf(discovery_command_from_string, s[i]) = v[i]
    BY Keys DEF Spelled
  <1>4. DOMAIN s = DOMAIN v
    BY DEF Spelled
  <1>5. discovery_commands_to_csv(s) = [i \in DOMAIN s |-> KeyOf(discovery_command_from_string, s[i])]
    BY DEF discovery_commands_to_csv
  <1>6. QED
    BY <1>2, <1>3, <1>4, <1>5

LEMMA EmptySeqDomain == ASSUME NEW S, NEW s \in Seq(S) PROVE s = <<>> <=> DOMAIN s = {}
  <1>1. Len(s) \in Nat /\ DOMAIN s = 1..Len(s)
    BY LenProperties
  <1>2. s = <<>> <=> Len(s) = 0
    BY EmptySeq
  <1>3. 1..0 = {} /\ (Len(s) # 0 => 1 \in 1..Len(s))
    BY <1>1
  <1>4. QED
    BY <1>1, <1>2, <1>3

\* Every list of commands is spelled somehow, and every list of tokens spells one.
LEMMA Spellings ==
    /\ \A s \in Seq({40, 46}) : \E v \in Seq({"0x28", "0x2E"}) : Spelled(s, v) /\ (v = <<>> <=> s = <<>>)
    /\ \A v \in Seq({"0x28", "0x2E"}) : \E s \in Seq({40, 46}) : Spelled(s, v) /\ (v = <<>> <=> s = <<>>)
  <1>1. ASSUME NEW s \in Seq({40, 46}) PROVE \E v \in Seq({"0x28", "0x2E"}) : Spelled(s, v) /\ (v = <<>> <=> s = <<>>)
    <2> DEFINE v == [i \in 1..Len(s) |-> IF s[i] = 40 THEN "0x28" ELSE "0x2E"]
    <2>1. Len(s) \in Nat /\ DOMAIN s = 1..Len(s) /\ \A i \in 1..Len(s) : s[i] \in {40, 46}
      BY LenProperties, ElementOfSeq
    <2>2. v \in [1..Len(s) -> {"0x28", "0x2E"}]
      OBVIOUS
    <2>3. v \in Seq({"0x28", "0x2E"})
      BY <2>1, <2>2, SeqDef
    <2>4. Spelled(s, v)
      BY <2>1 DEF Spelled
    <2>5. v = <<>> <=> s = <<>>
      <3>1. DOMAIN v = DOMAIN s
        BY <2>1
      <3> HIDE DEF v
      <3>2. (s = <<>> <=> DOMAIN s = {}) /\ (v = <<>> <=> DOMAIN v = {})
        BY <2>3, EmptySeqDomain
      <3>3. QED
        BY <3>1, <3>2
    <2>6. QED
      BY <2>3, <2>4, <2>5
  <1>2. ASSUME NEW v \in Seq({"0x28", "0x2E"}) PROVE \E s \in Seq({40, 46}) : Spelled(s, v) /\ (v = <<>> <=> s = <<>>)
    <2> DEFINE s == [i \in 1..Len(v) |-> IF v[i] = "0x28" THEN 40 ELSE 46]
    <2>1. Len(v) \in Nat /\ DOMAIN v = 1..Len(v) /\ \A i \in 1..Len(v) : v[i] \in {"0x28", "0x2E"}
      BY LenProperties, ElementOfSeq
    <2>2. s \in [1..Len(v) -> {40, 46}]
      OBVIOUS
    <2>3. s \in Seq({40, 46})
      BY <2>1, <2>2, SeqDef
    <2>4. Spelled(s, v)
      BY <2>1 DEF Spelled
    <2>5. v = <<>> <=> s = <<>>
      <3>1. DOMAIN v = DOMAIN s
        BY <2>1
      <3> HIDE DEF s
      <3>2. (s = <<>> <=> DOMAIN s = {}) /\ (v = <<>> <=> DOMAIN v = {})
        BY <2>1, <2>3, EmptySeqDomain
      <3>3. QED
        BY <3>1, <3>2
    <2>6. QED
      BY <2>3, <2>4, <2>5
  <1>3. QED
    BY <1>1, <1>2

\* What the UI sets is what it reads back.
LEMMA SetGet ==
    ASSUME NEW p \in Selects, NEW old \in Values(p), NEW v \in SELECT_OPTIONS[p], NEW c, c[p] = Set(p, old, v)
    PROVE  c[p] \in Values(p) /\ Get(p, c) = v
  <1>1. p \notin Numbers
    BY Apart
  <1>2. CASE p \in Bandwidth
    <2>0. /\ p \in DOMAIN Bandwidths
          /\ p \notin {"pairing_discovery_commands", "pairing_discovery_destination", "pairing_discovery_payload",
                       "pairing_discovery_low_power"}
      BY <1>2, TuningTables DEF Bandwidth
    <2>1. c[p] = Bandwidths[p][v] /\ v \in DOMAIN Bandwidths[p]
      BY <1>1, <1>2, <2>0, Keys DEF Set
    <2>2. Get(p, c) = KeyOf(Bandwidths[p], c[p])
      BY <1>1, <2>0 DEF Get
    <2>3. Values(p) = {Bandwidths[p][khz] : khz \in DOMAIN Bandwidths[p]}
      BY <1>1, <1>2, <2>0 DEF Values
    <2>4. QED
      BY <1>2, <2>1, <2>2, <2>3, Keys
  <1>3. CASE p = "pairing_discovery_commands"
    <2>1. p \notin DOMAIN Bandwidths
      BY <1>3, TuningTables DEF Bandwidth
    <2>2. v \in {<<"0x28">>, <<"0x2E">>, <<"0x28", "0x2E">>}
      BY <1>3 DEF SELECT_OPTIONS
    <2>3. v \in Seq({"0x28", "0x2E"}) /\ v # <<>>
      <3>1. \A a, b \in {"0x28", "0x2E"} : <<a>> \in Seq({"0x28", "0x2E"}) /\ <<a, b>> \in Seq({"0x28", "0x2E"})
        OBVIOUS
      <3>2. \A a, b \in {"0x28", "0x2E"} : <<a>> # <<>> /\ <<a, b>> # <<>>
        OBVIOUS
      <3>3. QED
        BY <2>2, <3>1, <3>2
    <2>4. PICK s \in Seq({40, 46}) : Spelled(s, v) /\ s # <<>>
      BY <2>3, Spellings
    <2>5. s = [i \in DOMAIN s |-> s[i]] /\ v = [i \in DOMAIN v |-> v[i]]
      BY <2>3, <2>4
    <2>6. c[p] = [i \in DOMAIN v |-> discovery_command_from_string[v[i]]]
      BY <1>1, <1>3, <2>1 DEF Set
    <2>7. c[p] = s
      BY <2>4, <2>5, <2>6, Spelling
    <2>8. Get(p, c) = v
      BY <1>1, <1>3, <2>1, <2>4, <2>5, <2>7, Spelling DEF Get
    <2>9. s \in Values(p)
      BY <1>1, <1>3, <2>4 DEF Values, Bandwidth
    <2>10. QED
      BY <2>7, <2>8, <2>9
  <1>4. CASE p = "pairing_discovery_destination"
    <2>1. v \in {"auto", "0x00003B", "0x00003F"} /\ p \notin Bandwidth /\ p \notin DOMAIN Bandwidths
      BY <1>4, TuningTables DEF SELECT_OPTIONS, Bandwidth
    <2>2. Values(p) = [auto : {TRUE}, bytes : {<<0, 0, 0>>, <<0, 0, 59>>, <<0, 0, 63>>}]
                      \cup [auto : {FALSE}, bytes : {<<0, 0, 59>>, <<0, 0, 63>>}]
      BY <1>1, <1>4, <2>1 DEF Values
    <2>3. c[p] = SetDestination(old, v) /\ Get(p, c) = discovery_destination_to_string(c[p])
      BY <1>1, <1>4, <2>1 DEF Set, Get
    <2>4. CASE v = "auto"
      <3>1. old.bytes \in {<<0, 0, 0>>, <<0, 0, 59>>, <<0, 0, 63>>} /\ c[p] = [old EXCEPT !.auto = TRUE]
        BY <2>2, <2>3, <2>4 DEF SetDestination
      <3>2. c[p] = [auto |-> TRUE, bytes |-> old.bytes]
        BY <2>2, <3>1
      <3>3. QED
        BY <2>2, <2>3, <2>4, <3>1, <3>2 DEF discovery_destination_to_string
    <2>5. CASE v # "auto"
      <3>1. c[p] = [auto |-> FALSE, bytes |-> Destinations[v]] /\ v \in {"0x00003B", "0x00003F"}
        BY <2>1, <2>3, <2>5 DEF SetDestination
      <3>2. Destinations[v] \in {<<0, 0, 59>>, <<0, 0, 63>>}
        BY <3>1 DEF Destinations
      <3>3. Get(p, c) = v
        BY <2>3, <3>1, Keys DEF discovery_destination_to_string
      <3>4. QED
        BY <2>2, <3>1, <3>2, <3>3
    <2>6. QED
      BY <2>4, <2>5
  <1>5. CASE p = "pairing_discovery_payload"
    <2>1. v \in {"none", "0x00"} /\ p \notin Bandwidth /\ p \notin DOMAIN Bandwidths
      BY <1>5, TuningTables DEF SELECT_OPTIONS, Bandwidth
    <2>2. Values(p) = [enabled : BOOLEAN, byte : {0}]
      BY <1>1, <1>5, <2>1 DEF Values
    <2>3. c[p] = SetPayload(old, v) /\ Get(p, c) = discovery_payload_to_string(c[p])
      BY <1>1, <1>5, <2>1 DEF Set, Get
    <2>4. CASE v = "none"
      <3>1. c[p] = [old EXCEPT !.enabled = FALSE]
        BY <2>3, <2>4 DEF SetPayload
      <3>2. c[p] \in Values(p) /\ c[p].enabled = FALSE
        <4>1. PICK o \in [enabled : BOOLEAN, byte : {0}] : o = old
          BY <2>2
        <4>2. [o EXCEPT !.enabled = FALSE] \in [enabled : BOOLEAN, byte : {0}] /\ [o EXCEPT !.enabled = FALSE].enabled = FALSE
          OBVIOUS
        <4>3. QED
          BY <2>2, <3>1, <4>1, <4>2
      <3>3. QED
        BY <2>3, <2>4, <3>2 DEF discovery_payload_to_string
    <2>5. CASE v = "0x00"
      <3>1. c[p] = [enabled |-> TRUE, byte |-> 0]
        BY <2>3, <2>5 DEF SetPayload
      <3>2. c[p] \in Values(p) /\ c[p].enabled
        BY <2>2, <3>1
      <3>3. QED
        BY <2>3, <2>5, <3>2 DEF discovery_payload_to_string
    <2>6. QED
      BY <2>1, <2>4, <2>5
  <1>6. CASE p = "pairing_discovery_low_power"
    <2>1. v \in {"Off", "On"} /\ p \notin Bandwidth /\ p \notin DOMAIN Bandwidths
      BY <1>6, TuningTables DEF SELECT_OPTIONS, Bandwidth
    <2>2. Values(p) = BOOLEAN
      BY <1>1, <1>6, <2>1 DEF Values
    <2>3. c[p] = (v = "On") /\ Get(p, c) = IF c[p] THEN "On" ELSE "Off"
      BY <1>1, <1>6, <2>1 DEF Set, Get
    <2>4. QED
      BY <2>1, <2>2, <2>3
  <1>7. QED
    BY <1>2, <1>3, <1>4, <1>5, <1>6, TuningTables DEF Bandwidth

LEMMA DefaultsFit == ASSUME NEW p \in Names PROVE DEFAULTS[p] \in Values(p)
  <1>1. CASE p \in Numbers
    <2>1. DEFAULTS[p] = NUMBER_PARAMS[p].default
      BY <1>1 DEF DEFAULTS
    <2>2. Values(p) = NUMBER_PARAMS[p].lo..NUMBER_PARAMS[p].hi
      BY <1>1, TuningTables DEF Values, Bandwidth
    <2>3. QED
      BY <1>1, <2>1, <2>2, NumbersFit
  <1>2. CASE p \in Selects
    <2>1. p \notin Numbers /\ DEFAULTS[p] = SELECT_DEFAULTS[p]
      BY <1>2, Apart DEF DEFAULTS
    <2>2. CASE p \in Bandwidth
      <3>1. SELECT_DEFAULTS[p] \in {Bandwidths[p][khz] : khz \in DOMAIN Bandwidths[p]}
        BY <2>2 DEF SELECT_DEFAULTS, Bandwidth, Bandwidths, SEMTECH_BANDWIDTHS, SX1276_BANDWIDTHS
      <3>2. Values(p) = {Bandwidths[p][khz] : khz \in DOMAIN Bandwidths[p]}
        BY <2>1, <2>2 DEF Values, Bandwidth
      <3>3. QED
        BY <2>1, <3>1, <3>2
    <2>3. CASE p = "pairing_discovery_commands"
      <3>1. <<40>> \in Seq({40, 46}) /\ <<40>> # <<>>
        OBVIOUS
      <3>2. QED
        BY <2>1, <2>3, <3>1 DEF Values, Bandwidth, SELECT_DEFAULTS
    <2>4. CASE p = "pairing_discovery_destination"
      <3>1. SELECT_DEFAULTS[p] = [auto |-> TRUE, bytes |-> <<0, 0, 0>>]
        BY <2>4 DEF SELECT_DEFAULTS
      <3>2. QED
        BY <2>1, <2>4, <3>1 DEF Values, Bandwidth
    <2>5. CASE p = "pairing_discovery_payload"
      <3>1. SELECT_DEFAULTS[p] = [enabled |-> FALSE, byte |-> 0]
        BY <2>5 DEF SELECT_DEFAULTS
      <3>2. QED
        BY <2>1, <2>5, <3>1 DEF Values, Bandwidth
    <2>6. CASE p = "pairing_discovery_low_power"
      <3>1. SELECT_DEFAULTS[p] = FALSE
        BY <2>6 DEF SELECT_DEFAULTS
      <3>2. QED
        BY <2>1, <2>6, <3>1 DEF Values, Bandwidth
    <2>7. QED
      BY <1>2, <2>2, <2>3, <2>4, <2>5, <2>6, TuningTables DEF Bandwidth
  <1>3. QED
    BY <1>1, <1>2 DEF Names

\* What the generated code assigns of a validated block.
LEMMA SchemaFits == ASSUME NEW p \in Names, NEW v, InSchema(p, v) PROVE GeneratedValue(p, v) \in Values(p)
  <1>1. CASE p \in Numbers
    <2>1. /\ p \notin Bandwidth
          /\ p \notin {"pairing_discovery_commands", "pairing_discovery_destination", "pairing_discovery_payload",
                       "pairing_discovery_low_power"}
      BY <1>1, TuningTables DEF Bandwidth
    <2>2. QED
      BY <1>1, <2>1 DEF InSchema, GeneratedValue, Values
  <1>2. CASE p = "pairing_discovery_commands"
    <2>1. p \notin Numbers /\ p \notin Bandwidth
      BY <1>2, TuningTables DEF Bandwidth
    <2>2. DOMAIN DISCOVERY_COMMAND_OPTIONS = {"0x28", "0x2E"}
      BY DEF DISCOVERY_COMMAND_OPTIONS
    <2>3. v \in Seq({"0x28", "0x2E"}) \ {<<>>}
      BY <1>2, <2>1, <2>2 DEF InSchema
    <2>4. PICK s \in Seq({40, 46}) : Spelled(s, v) /\ s # <<>>
      BY <2>3, Spellings
    <2>5. s = [i \in DOMAIN s |-> s[i]] /\ v = [i \in DOMAIN v |-> v[i]]
      BY <2>3, <2>4
    <2>6. GeneratedValue(p, v) = s
      BY <1>2, <2>1, <2>4, <2>5, Spelling DEF GeneratedValue
    <2>7. QED
      BY <1>2, <2>1, <2>4, <2>6 DEF Values
  <1>3. CASE p \in Selects /\ p # "pairing_discovery_commands"
    <2>1. p \notin Numbers
      BY <1>3, Apart
    <2>2. v \in SELECT_OPTIONS[p] /\ GeneratedValue(p, v) = Set(p, DEFAULTS[p], v)
      BY <1>3, <2>1 DEF InSchema, GeneratedValue
    <2>3. PICK c : c = [q \in {p} |-> Set(p, DEFAULTS[p], v)]
      OBVIOUS
    <2>4. c[p] = Set(p, DEFAULTS[p], v)
      BY <2>3
    <2>5. QED
      BY <1>3, <2>2, <2>4, DefaultsFit, SetGet
  <1>4. QED
    BY <1>1, <1>2, <1>3 DEF Names

\* What the getters give could have come from the YAML, and does so again from the snapshot.
LEMMA ReadBack ==
    ASSUME NEW p \in Names, NEW c, c[p] \in Values(p)
    PROVE  /\ InSchema(p, Get(p, c))
           /\ p \in Selects /\ p # "pairing_discovery_commands" => Get(p, c) \in SELECT_OPTIONS[p]
           /\ InSnapshot(p, c) => GeneratedValue(p, Get(p, c)) = c[p]
  <1>1. CASE p \in Numbers
    <2>1. /\ p \notin Bandwidth /\ p \notin DOMAIN Bandwidths /\ p \notin Selects
          /\ p \notin {"pairing_discovery_commands", "pairing_discovery_destination", "pairing_discovery_payload",
                       "pairing_discovery_low_power"}
      BY <1>1, TuningTables, Apart DEF Bandwidth
    <2>2. Get(p, c) = c[p]
      BY <1>1, <2>1 DEF Get
    <2>3. c[p] \in NUMBER_PARAMS[p].lo..NUMBER_PARAMS[p].hi
      BY <1>1, <2>1 DEF Values
    <2>4. QED
      BY <1>1, <2>1, <2>2, <2>3 DEF InSchema, GeneratedValue
  <1>2. CASE p = "pairing_discovery_commands"
    <2>1. p \notin Numbers /\ p \notin Bandwidth /\ p \notin DOMAIN Bandwidths
      BY <1>2, TuningTables DEF Bandwidth
    <2>2. c[p] \in Seq({40, 46}) /\ c[p] # <<>>
      BY <1>2, <2>1 DEF Values
    <2>3. PICK v \in Seq({"0x28", "0x2E"}) : Spelled(c[p], v) /\ v # <<>>
      BY <2>2, Spellings
    <2>4. c[p] = [i \in DOMAIN c[p] |-> c[p][i]] /\ v = [i \in DOMAIN v |-> v[i]]
      BY <2>2, <2>3
    <2>5. Get(p, c) = v
      BY <1>2, <2>1, <2>3, <2>4, Spelling DEF Get
    <2>6. GeneratedValue(p, v) = c[p]
      BY <1>2, <2>1, <2>3, <2>4, Spelling DEF GeneratedValue
    <2>7. DOMAIN DISCOVERY_COMMAND_OPTIONS = {"0x28", "0x2E"}
      BY DEF DISCOVERY_COMMAND_OPTIONS
    <2>8. InSchema(p, v)
      BY <1>2, <2>1, <2>3, <2>7 DEF InSchema
    <2>9. QED
      BY <1>2, <2>5, <2>6, <2>8
  <1>3. ASSUME p \in Selects, p # "pairing_discovery_commands", Get(p, c) \in SELECT_OPTIONS[p],
               InSnapshot(p, c) => Set(p, DEFAULTS[p], Get(p, c)) = c[p]
        PROVE  /\ InSchema(p, Get(p, c))
               /\ InSnapshot(p, c) => GeneratedValue(p, Get(p, c)) = c[p]
    <2>1. p \notin Numbers
      BY <1>3, Apart
    <2>2. QED
      BY <1>3, <2>1 DEF InSchema, GeneratedValue
  <1>4. CASE p \in Bandwidth
    <2>1. /\ p \in DOMAIN Bandwidths /\ p \notin Numbers /\ p \in Selects
          /\ p \notin {"pairing_discovery_commands", "pairing_discovery_destination", "pairing_discovery_payload",
                       "pairing_discovery_low_power"}
      BY <1>4, TuningTables DEF Bandwidth
    <2>2. PICK khz \in DOMAIN Bandwidths[p] : c[p] = Bandwidths[p][khz]
      BY <1>4, <2>1 DEF Values
    <2>3. Get(p, c) = KeyOf(Bandwidths[p], c[p])
      BY <2>1 DEF Get
    <2>4. Get(p, c) = khz
      BY <1>4, <2>2, <2>3, Keys
    <2>5. Get(p, c) \in SELECT_OPTIONS[p]
      BY <1>4, <2>4, Keys
    <2>6. Set(p, DEFAULTS[p], khz) = Bandwidths[p][khz]
      BY <2>1 DEF Set
    <2>7. QED
      BY <1>3, <2>1, <2>2, <2>4, <2>5, <2>6
  <1>5. CASE p = "pairing_discovery_destination"
    <2>1. p \notin Bandwidth /\ p \notin DOMAIN Bandwidths /\ p \notin Numbers /\ p \in Selects
      BY <1>5, TuningTables DEF Bandwidth
    <2>2. c[p] \in [auto : {TRUE}, bytes : {<<0, 0, 0>>, <<0, 0, 59>>, <<0, 0, 63>>}]
                   \cup [auto : {FALSE}, bytes : {<<0, 0, 59>>, <<0, 0, 63>>}]
      BY <1>5, <2>1 DEF Values
    <2>3. Get(p, c) = discovery_destination_to_string(c[p]) /\ SELECT_OPTIONS[p] = {"auto", "0x00003B", "0x00003F"}
      BY <1>5, <2>1 DEF Get, SELECT_OPTIONS
    <2>4. InSnapshot(p, c) => ~c[p].auto
      BY <1>5 DEF InSnapshot
    <2>5. CASE c[p].auto
      <3>1. Get(p, c) = "auto"
        BY <2>3, <2>5 DEF discovery_destination_to_string
      <3>2. QED
        BY <1>3, <1>5, <2>1, <2>3, <2>4, <2>5, <3>1
    <2>6. CASE ~c[p].auto
      <3>1. c[p] \in [auto : {FALSE}, bytes : {<<0, 0, 59>>, <<0, 0, 63>>}]
        BY <2>2, <2>6
      <3>2. PICK v \in {"0x00003B", "0x00003F"} : c[p].bytes = Destinations[v]
        BY <3>1 DEF Destinations
      <3>3. Get(p, c) = v
        BY <2>3, <2>6, <3>2, Keys DEF discovery_destination_to_string
      <3>4. Set(p, DEFAULTS[p], v) = [auto |-> FALSE, bytes |-> Destinations[v]]
        BY <1>5, <2>1, <3>2 DEF Set, SetDestination
      <3>5. c[p] = [auto |-> FALSE, bytes |-> Destinations[v]]
        BY <3>1, <3>2
      <3>6. QED
        BY <1>3, <1>5, <2>1, <2>3, <3>3, <3>4, <3>5
    <2>7. QED
      BY <2>5, <2>6
  <1>6. CASE p = "pairing_discovery_payload"
    <2>1. p \notin Bandwidth /\ p \notin DOMAIN Bandwidths /\ p \notin Numbers /\ p \in Selects /\ p \in Names
      BY <1>6, TuningTables DEF Bandwidth
    <2>2. c[p] \in [enabled : BOOLEAN, byte : {0}]
      BY <1>6, <2>1 DEF Values
    <2>3. Get(p, c) = discovery_payload_to_string(c[p]) /\ SELECT_OPTIONS[p] = {"none", "0x00"}
      BY <1>6, <2>1 DEF Get, SELECT_OPTIONS
    <2>4. Get(p, c) \in SELECT_OPTIONS[p]
      BY <2>3 DEF discovery_payload_to_string
    <2>5. DEFAULTS[p] = [enabled |-> FALSE, byte |-> 0]
      BY <1>6, <2>1 DEF DEFAULTS, SELECT_DEFAULTS
    <2>6. CASE c[p].enabled
      <3>1. Get(p, c) = "0x00"
        BY <2>3, <2>6 DEF discovery_payload_to_string
      <3>2. Set(p, DEFAULTS[p], "0x00") = [enabled |-> TRUE, byte |-> 0]
        BY <1>6, <2>1 DEF Set, SetPayload
      <3>3. c[p] = [enabled |-> TRUE, byte |-> 0]
        BY <2>2, <2>6
      <3>4. QED
        BY <1>3, <1>6, <2>1, <2>4, <3>1, <3>2, <3>3
    <2>7. CASE ~c[p].enabled
      <3>1. c[p] = DEFAULTS[p]
        BY <2>2, <2>5, <2>7
      <3>2. ~InSnapshot(p, c)
        BY <1>6, <3>1 DEF InSnapshot
      <3>3. QED
        BY <1>3, <1>6, <2>1, <2>4, <3>2
    <2>8. QED
      BY <2>6, <2>7
  <1>7. CASE p = "pairing_discovery_low_power"
    <2>1. p \notin Bandwidth /\ p \notin DOMAIN Bandwidths /\ p \notin Numbers /\ p \in Selects /\ p \in Names
      BY <1>7, TuningTables DEF Bandwidth
    <2>2. c[p] \in BOOLEAN
      BY <1>7, <2>1 DEF Values
    <2>3. Get(p, c) = (IF c[p] THEN "On" ELSE "Off") /\ SELECT_OPTIONS[p] = {"Off", "On"}
      BY <1>7, <2>1 DEF Get, SELECT_OPTIONS
    <2>4. DEFAULTS[p] = FALSE
      BY <1>7, <2>1 DEF DEFAULTS, SELECT_DEFAULTS
    <2>5. \A v : Set(p, DEFAULTS[p], v) = (v = "On")
      BY <1>7, <2>1 DEF Set
    <2>6. QED
      BY <1>3, <1>7, <2>1, <2>2, <2>3, <2>5
  <1>8. QED
    BY <1>1, <1>2, <1>4, <1>5, <1>6, <1>7, TuningTables DEF Names, Bandwidth

\* A getter reads its own field.
LEMMA OwnField == ASSUME NEW p, NEW c, NEW d, c[p] = d[p] PROVE Get(p, c) = Get(p, d)
  BY DEF Get

\* The driver reads these.
Copied ==
    {"sx1262_rx_bandwidth", "sx1262_response_preamble", "sx1262_post_tx_settle_us", "lr1121_rx_bandwidth",
     "lr1121_response_preamble", "lr1121_post_tx_settle_us", "sx1276_rx_bandwidth", "sx1276_response_preamble"}

LEMMA SameCopy == ASSUME NEW c, NEW d, \A p \in Copied : c[p] = d[p] PROVE apply_tuning(c) = apply_tuning(d)
  <1>1. /\ c["sx1262_rx_bandwidth"] = d["sx1262_rx_bandwidth"] /\ c["sx1262_response_preamble"] = d["sx1262_response_preamble"]
        /\ c["sx1262_post_tx_settle_us"] = d["sx1262_post_tx_settle_us"] /\ c["lr1121_rx_bandwidth"] = d["lr1121_rx_bandwidth"]
        /\ c["lr1121_response_preamble"] = d["lr1121_response_preamble"]
        /\ c["lr1121_post_tx_settle_us"] = d["lr1121_post_tx_settle_us"]
        /\ c["sx1276_rx_bandwidth"] = d["sx1276_rx_bandwidth"] /\ c["sx1276_response_preamble"] = d["sx1276_response_preamble"]
    BY DEF Copied
  <1>2. QED
    BY <1>1 DEF apply_tuning

\* Every number the driver reads is flagged so.
LEMMA Flagged == \A p \in Numbers : ~NUMBER_PARAMS[p].to_radio => p \notin Copied
  BY DEF Numbers, NUMBER_PARAMS, Number, Copied

TuningInv ==
    /\ radio_type \in RadioTypes
    /\ cfg = [p \in Names |-> cfg[p]] /\ Fields(cfg)
    /\ Validated(yaml)
    /\ DOMAIN shown \subseteq Names
    /\ OneTruth

LEMMA GeneratedFits == ASSUME NEW b, Validated(b) PROVE Generated(b) = [p \in Names |-> Generated(b)[p]] /\ Fields(Generated(b))
  <1>1. \A p \in Names : (IF p \in DOMAIN b THEN GeneratedValue(p, b[p]) ELSE DEFAULTS[p]) \in Values(p)
    BY SchemaFits, DefaultsFit DEF Validated
  <1>2. QED
    BY <1>1 DEF Generated, Fields

LEMMA PublishedAll ==
    ASSUME NEW c, Fields(c)
    PROVE  /\ DOMAIN Published(c) \subseteq Names /\ \A p \in DOMAIN Published(c) : Published(c)[p] = Get(p, c)
           /\ Names \ DOMAIN Published(c) \subseteq {"pairing_discovery_commands"}
  <1>1. \A p \in Names : p # "pairing_discovery_commands" => Publishes(p, c)
    BY ReadBack DEF Publishes, Fields, Names
  <1>2. DOMAIN Published(c) = {p \in Names : Publishes(p, c)}
    BY DEF Published
  <1>3. \A p \in DOMAIN Published(c) : Published(c)[p] = Get(p, c)
    BY DEF Published
  <1>4. QED
    BY <1>1, <1>2, <1>3

LEMMA SnapshotPastes == ASSUME NEW c, Fields(c) PROVE Validated(tuning_config_snapshot(c))
  <1>1. DOMAIN tuning_config_snapshot(c) \subseteq Names
    BY DEF tuning_config_snapshot
  <1>2. \A p \in DOMAIN tuning_config_snapshot(c) : tuning_config_snapshot(c)[p] = Get(p, c)
    BY DEF tuning_config_snapshot
  <1>3. QED
    BY <1>1, <1>2, ReadBack DEF Validated, Fields

LEMMA Booting == ASSUME TuningInv, NEW b, Validated(b), Booted(b) PROVE TuningInv'
  <1>1. /\ yaml' = b /\ cfg' = Generated(b) /\ radio' \in {apply_tuning(cfg'), NoRadio} /\ shown' = Published(cfg')
        /\ radio_type' = radio_type
    BY DEF Booted
  <1>2. cfg' = [p \in Names |-> cfg'[p]] /\ Fields(cfg')
    BY <1>1, GeneratedFits
  <1>3. /\ DOMAIN shown' \subseteq Names /\ \A p \in DOMAIN shown' : shown'[p] = Get(p, cfg')
        /\ Names \ DOMAIN shown' \subseteq {"pairing_discovery_commands"}
    BY <1>1, <1>2, PublishedAll
  <1>4. radio' # NoRadio => radio' = apply_tuning(cfg)'
    BY <1>1 DEF apply_tuning
  <1>5. OneTruth'
    BY <1>3, <1>4 DEF OneTruth
  <1>6. QED
    BY <1>1, <1>2, <1>3, <1>5 DEF TuningInv, Fields

\* One field is set and shown; the driver has a copy of the new value if it reads it.
LEMMA Changing ==
    ASSUME TuningInv, NEW p \in Names, NEW v, Changed(p, v), Set(p, cfg[p], v) \in Values(p),
           \A c : c[p] = Set(p, cfg[p], v) => Get(p, c) = v,
           apply_tuning_to_radio(cfg') \/ (UNCHANGED radio /\ p \notin Copied)
    PROVE  TuningInv'
  <1> DEFINE x == Set(p, cfg[p], v)
  <1>1. /\ cfg' = [cfg EXCEPT ![p] = x] /\ shown' = [q \in DOMAIN shown \cup {p} |-> IF q = p THEN v ELSE shown[q]]
        /\ yaml' = yaml /\ radio_type' = radio_type
    BY DEF Changed
  <1> HIDE DEF x
  <1>2. /\ cfg = [q \in Names |-> cfg[q]] /\ DOMAIN cfg = Names /\ \A q \in Names : cfg[q] \in Values(q)
    BY DEF TuningInv, Fields
  <1>3. /\ DOMAIN cfg' = Names /\ cfg'[p] = x /\ \A q \in Names : q # p => cfg'[q] = cfg[q]
        /\ cfg' = [q \in Names |-> cfg'[q]]
    BY <1>1, <1>2
  <1>4. Fields(cfg')
    BY <1>2, <1>3 DEF Fields, x
  <1>5. /\ DOMAIN shown' = DOMAIN shown \cup {p} /\ shown'[p] = v /\ \A q \in DOMAIN shown : q # p => shown'[q] = shown[q]
    BY <1>1
  <1>6. /\ DOMAIN shown \subseteq Names /\ \A q \in DOMAIN shown : shown[q] = Get(q, cfg)
        /\ Names \ DOMAIN shown \subseteq {"pairing_discovery_commands"} /\ (radio # NoRadio => radio = apply_tuning(cfg))
    BY DEF TuningInv, OneTruth
  <1>7. \A q \in DOMAIN shown' : shown'[q] = Get(q, cfg')
    <2>1. Get(p, cfg') = v
      BY <1>3 DEF x
    <2>2. \A q \in DOMAIN shown : q # p => Get(q, cfg') = Get(q, cfg)
      BY <1>3, <1>6, OwnField
    <2>3. QED
      BY <1>5, <1>6, <2>1, <2>2
  <1>8. radio' # NoRadio => radio' = apply_tuning(cfg')
    <2>1. CASE apply_tuning_to_radio(cfg')
      BY <2>1 DEF apply_tuning_to_radio
    <2>2. CASE UNCHANGED radio /\ p \notin Copied
      <3>1. Copied \subseteq Names
        BY TuningTables DEF Copied, Names
      <3>2. apply_tuning(cfg') = apply_tuning(cfg)
        BY <1>3, <2>2, <3>1, SameCopy
      <3>3. QED
        BY <1>6, <2>2, <3>2
    <2>3. QED
      BY <2>1, <2>2
  <1>9. radio' # NoRadio => radio' = apply_tuning(cfg)'
    BY <1>1, <1>8 DEF apply_tuning
  <1>10. OneTruth'
    BY <1>5, <1>6, <1>7, <1>9 DEF OneTruth
  <1>11. QED
    BY <1>1, <1>3, <1>4, <1>5, <1>6, <1>10 DEF TuningInv, Fields

LEMMA NumberChanging ==
    ASSUME TuningInv, NEW p \in Numbers, NEW v \in {NUMBER_PARAMS[p].lo, NUMBER_PARAMS[p].hi}, update_tuning_number(p, v)
    PROVE  TuningInv'
  <1>1. v \in NUMBER_PARAMS[p].lo..NUMBER_PARAMS[p].hi /\ Narrowed(p, v) = v
    <2>1. v \in NUMBER_PARAMS[p].lo..NUMBER_PARAMS[p].hi
      BY NumbersFit
    <2>2. QED
      BY <2>1, NumbersFit
  <1>2. /\ p \in Names /\ p \notin Bandwidth /\ p \notin DOMAIN Bandwidths
        /\ p \notin {"pairing_discovery_commands", "pairing_discovery_destination", "pairing_discovery_payload",
                     "pairing_discovery_low_power"}
    BY TuningTables DEF Names, Bandwidth
  <1>3. Set(p, cfg[p], v) = v
    BY <1>1, <1>2 DEF Set
  <1>4. v \in Values(p) /\ \A c : c[p] = v => Get(p, c) = v
    BY <1>1, <1>2 DEF Values, Get
  <1>5. Changed(p, v) /\ (apply_tuning_to_radio(cfg') \/ (UNCHANGED radio /\ p \notin Copied))
    BY Flagged DEF update_tuning_number
  <1>6. QED
    BY <1>2, <1>3, <1>4, <1>5, Changing

LEMMA SelectChanging ==
    ASSUME TuningInv, NEW p \in Selects, NEW v \in SELECT_OPTIONS[p], update_tuning_select(p, v)
    PROVE  TuningInv'
  <1>1. p \in Names /\ cfg[p] \in Values(p)
    BY DEF Names, TuningInv, Fields
  <1>2. p \notin DOMAIN Bandwidths => p \notin Copied
    BY TuningTables DEF Bandwidth, Copied
  <1>3. Changed(p, v) /\ (apply_tuning_to_radio(cfg') \/ (UNCHANGED radio /\ p \notin Copied))
    BY <1>2 DEF update_tuning_select
  <1>4. \A c : c[p] = Set(p, cfg[p], v) => c[p] \in Values(p) /\ Get(p, c) = v
    BY <1>1, SetGet
  <1>5. Set(p, cfg[p], v) \in Values(p)
    <2>1. PICK c : c = [q \in {p} |-> Set(p, cfg[p], v)]
      OBVIOUS
    <2>2. c[p] = Set(p, cfg[p], v)
      BY <2>1
    <2>3. QED
      BY <1>4, <2>2
  <1>6. QED
    BY <1>1, <1>3, <1>4, <1>5, Changing

LEMMA TuningInitially == TuningInit => TuningInv
  <1> SUFFICES ASSUME TuningInit PROVE TuningInv
    OBVIOUS
  <1>1. /\ radio_type \in RadioTypes /\ Validated(yaml) /\ cfg = Generated(yaml)
        /\ radio \in {apply_tuning(cfg), NoRadio} /\ shown = Published(cfg)
    BY TuningAssumption DEF TuningInit
  <1>2. cfg = [p \in Names |-> cfg[p]] /\ Fields(cfg)
    BY <1>1, GeneratedFits
  <1>3. /\ DOMAIN shown \subseteq Names /\ \A p \in DOMAIN shown : shown[p] = Get(p, cfg)
        /\ Names \ DOMAIN shown \subseteq {"pairing_discovery_commands"}
    BY <1>1, <1>2, PublishedAll
  <1>4. OneTruth
    BY <1>1, <1>3 DEF OneTruth
  <1>5. QED
    BY <1>1, <1>2, <1>3, <1>4 DEF TuningInv

\* A snapshot that is not accepted changes nothing but the count of edits.
LEMMA Pasting ==
    ASSUME Paste PROVE Booted(tuning_config_snapshot(cfg)) \/ UNCHANGED <<radio_type, yaml, cfg, radio, shown>>
  BY DEF Paste

LEMMA Rejected == ASSUME TuningInv, UNCHANGED <<radio_type, yaml, cfg, radio, shown>> PROVE TuningInv'
  BY DEF TuningInv, Fields, OneTruth, apply_tuning

LEMMA EveryTuningStep == ASSUME TuningInv, [TuningNext]_tuningVars PROVE TuningInv'
  <1>1. CASE Reboot
    BY <1>1, Booting DEF Reboot, TuningInv
  <1>2. CASE Paste
    BY <1>2, Pasting, Rejected, SnapshotPastes, Booting DEF TuningInv
  <1>3. CASE UNCHANGED tuningVars
    BY <1>3 DEF tuningVars, TuningInv, Fields, OneTruth, apply_tuning
  <1>4. QED
    BY <1>1, <1>2, <1>3, NumberChanging, SelectChanging DEF TuningNext

\* The pasted configuration and the one it was read from: the same field by field, but for the exchange windows and a
\* destination that is not used.
LEMMA Pasted ==
    ASSUME NEW c, Fields(c), NEW d, d = Generated(tuning_config_snapshot(c))
    PROVE  /\ \A p \in Names \ Unlogged : p # "pairing_discovery_destination" => d[p] = c[p]
           /\ \/ d["pairing_discovery_destination"] = c["pairing_discovery_destination"]
              \/ d["pairing_discovery_destination"].auto /\ c["pairing_discovery_destination"].auto
  <1>1. /\ DOMAIN tuning_config_snapshot(c) = {p \in Names : InSnapshot(p, c)}
        /\ \A p \in DOMAIN tuning_config_snapshot(c) : tuning_config_snapshot(c)[p] = Get(p, c)
    BY DEF tuning_config_snapshot
  <1>2. \A p \in Names : InSnapshot(p, c) => d[p] = c[p]
    BY <1>1, ReadBack DEF Generated, Fields
  <1>3. \A p \in Names : ~InSnapshot(p, c) => d[p] = DEFAULTS[p]
    BY <1>1 DEF Generated
  <1>4. ASSUME NEW p \in Names \ Unlogged, p # "pairing_discovery_destination" PROVE d[p] = c[p]
    <2>1. ~InSnapshot(p, c) => c[p] = DEFAULTS[p]
      BY <1>4 DEF InSnapshot
    <2>2. QED
      BY <1>2, <1>3, <1>4, <2>1
  <1>5. \/ d["pairing_discovery_destination"] = c["pairing_discovery_destination"]
        \/ d["pairing_discovery_destination"].auto /\ c["pairing_discovery_destination"].auto
    <2> DEFINE p == "pairing_discovery_destination"
    <2>1. p \in Names /\ p \notin Unlogged /\ p \notin Numbers
      BY TuningTables DEF Names, Unlogged
    <2>2. CASE InSnapshot(p, c)
      BY <1>2, <2>1, <2>2
    <2>3. CASE ~InSnapshot(p, c)
      <3>1. c[p].auto
        BY <2>1, <2>3 DEF InSnapshot
      <3>2. DEFAULTS[p].auto
        BY <2>1 DEF DEFAULTS, SELECT_DEFAULTS
      <3>3. QED
        BY <1>3, <2>1, <2>3, <3>1, <3>2
    <2>4. QED
      BY <2>2, <2>3
  <1>6. QED
    BY <1>4, <1>5

\* What is in force of two configurations that differ in no more than that.
LEMMA SameInForce ==
    ASSUME NEW c, NEW d, radio_type \in RadioTypes,
           \A p \in Names \ Unlogged : p # "pairing_discovery_destination" => d[p] = c[p],
           \/ d["pairing_discovery_destination"] = c["pairing_discovery_destination"]
           \/ d["pairing_discovery_destination"].auto /\ c["pairing_discovery_destination"].auto
    PROVE  InForce(d) = InForce(c)
  <1>1. /\ Copied \subseteq Names \ Unlogged /\ "pairing_discovery_destination" \notin Copied
        /\ {"sx1262_discovery_hop_slice_ms", "lr1121_discovery_hop_slice_ms", "sx1276_discovery_hop_slice_ms",
            "pairing_discovery_commands", "pairing_discovery_payload", "pairing_discovery_low_power"} \subseteq Names \ Unlogged
        /\ Numbers \subseteq Names /\ "pairing_discovery_destination" \notin Numbers
    BY TuningTables DEF Copied, Names, Unlogged
  <1>2. [p \in Numbers \ Unlogged |-> d[p]] = [p \in Numbers \ Unlogged |-> c[p]]
    BY <1>1
  <1>3. apply_tuning(d) = apply_tuning(c)
    <2>1. \A p \in Copied : d[p] = c[p]
      BY <1>1
    <2>2. QED
      BY <2>1, SameCopy
  <1>4. hop_dwell_ms(d) = hop_dwell_ms(c)
    <2>1. /\ d["sx1262_discovery_hop_slice_ms"] = c["sx1262_discovery_hop_slice_ms"]
          /\ d["lr1121_discovery_hop_slice_ms"] = c["lr1121_discovery_hop_slice_ms"]
          /\ d["sx1276_discovery_hop_slice_ms"] = c["sx1276_discovery_hop_slice_ms"]
      BY <1>1
    <2>2. QED
      BY <2>1 DEF hop_dwell_ms, RadioTypes
  <1>5. DiscoveryRequests(d) = DiscoveryRequests(c)
    <2>1. /\ d["pairing_discovery_commands"] = c["pairing_discovery_commands"]
          /\ d["pairing_discovery_payload"] = c["pairing_discovery_payload"]
          /\ d["pairing_discovery_low_power"] = c["pairing_discovery_low_power"]
      BY <1>1
    <2>2. \A k : resolve_discovery_destination(k, d["pairing_discovery_destination"])
                   = resolve_discovery_destination(k, c["pairing_discovery_destination"])
      BY DEF resolve_discovery_destination
    <2>3. QED
      BY <2>1, <2>2 DEF DiscoveryRequests
  <1>6. QED
    BY <1>2, <1>3, <1>4, <1>5 DEF InForce

(***************************************************************************)
(* After any YAML block that passes validation, any changes from the UI    *)
(* and any reboots, the entities, the hub and the driver agree on all 25   *)
(* parameters (the 18 update_tuning_number and 7 update_tuning_select      *)
(* know).                                                                  *)
(***************************************************************************)
THEOREM OneTruthHolds == TuningSpec => []OneTruth
  <1>1. TuningInv => OneTruth
    BY DEF TuningInv
  <1>2. QED
    BY <1>1, TuningInitially, EveryTuningStep, PTL DEF TuningSpec

(***************************************************************************)
(* Pasting what tuning_config_snapshot logged brings back everything in    *)
(* force, but for the exchange windows it leaves out.                      *)
(***************************************************************************)
THEOREM SnapshotBringsBack == TuningSpec => PasteKeepsTuning
  <1>1. TuningInv /\ Paste => InForce(cfg') = InForce(cfg)
    <2> SUFFICES ASSUME TuningInv, Paste PROVE InForce(cfg') = InForce(cfg)
      OBVIOUS
    <2>1. Fields(cfg) /\ radio_type \in RadioTypes
      BY DEF TuningInv
    <2>2. CASE Booted(tuning_config_snapshot(cfg))
      <3>1. cfg' = Generated(tuning_config_snapshot(cfg))
        BY <2>2 DEF Booted
      <3>2. QED
        BY <2>1, <3>1, Pasted, SameInForce
    <2>3. CASE UNCHANGED <<radio_type, yaml, cfg, radio, shown>>
      BY <2>3 DEF InForce, apply_tuning, hop_dwell_ms
    <2>4. QED
      BY <2>2, <2>3, Pasting
  <1>2. TuningInv /\ [TuningNext]_tuningVars => [Paste => InForce(cfg') = InForce(cfg)]_tuningVars
    BY <1>1
  <1>3. QED
    BY <1>2, TuningInitially, EveryTuningStep, PTL DEF TuningSpec, PasteKeepsTuning

==============================================================================
