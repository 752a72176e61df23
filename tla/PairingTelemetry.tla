--------------------------- MODULE PairingTelemetry ---------------------------
(***************************************************************************)
(* The log a pairing attempt keeps (pairing_telemetry.cpp) and the advice  *)
(* drawn from it at the end (pairing_advisor.cpp).                         *)
(*                                                                         *)
(* Operators only: a telemetry is a record, each operation returns the new *)
(* one.  Time stamps, signal strengths and wording are left out.           *)
(***************************************************************************)
EXTENDS Integers, Sequences

CONSTANTS
    PAIRING_TELEMETRY_MAX_EVENTS,
    LBT_MAX_RETRIES,
    COUNTER_SATURATION_MAX,   \* where the counters of the log stop counting
    Nobody                    \* the zero node ID of an event without a node

ASSUME TelemetryAssumption ==
    /\ {PAIRING_TELEMETRY_MAX_EVENTS, LBT_MAX_RETRIES} \subseteq Nat
    /\ COUNTER_SATURATION_MAX \in Nat \ {0}

\* A frame that parsed, as the log sees it.
Frame(cmd, src, dst, oneway) == [cmd |-> cmd, src |-> src, dst |-> dst, oneway |-> oneway]
NoFrame == Frame("NONE", Nobody, Nobody, FALSE)

begin ==
    [events |-> <<>>, heard |-> 0, truncated |-> FALSE, phase |-> "IDLE", outcome |-> "NONE",
     attempts |-> 0, lbt |-> 0, paired |-> Nobody, advice |-> {}]

is_rx_kind(kind) == kind \in {"RX", "RX_REJECT"}

Count(n) == IF n < COUNTER_SATURATION_MAX THEN n + 1 ELSE n

\* The first events are kept; frames are counted also when the log is full.
record(t, kind, frame) ==
    LET counted == [t EXCEPT !.heard = IF is_rx_kind(kind) THEN Count(@) ELSE @]
    IN  IF Len(t.events) >= PAIRING_TELEMETRY_MAX_EVENTS
        THEN [counted EXCEPT !.truncated = TRUE]
        ELSE [counted EXCEPT !.events = Append(@, [kind |-> kind, frame |-> frame])]

record_tx(t, cmd) == record(t, "TX", [NoFrame EXCEPT !.cmd = cmd])
record_rx(t, frame) == record(t, "RX", frame)
record_rx_reject(t, frame) == record(t, "RX_REJECT", frame)
record_lbt_defer(t) == record([t EXCEPT !.lbt = Count(@)], "LBT_DEFER", NoFrame)
record_hop(t) == record(t, "HOP", NoFrame)
set_phase(t, phase) == record([t EXCEPT !.phase = phase], "PHASE", NoFrame)
set_outcome(t, outcome) == [t EXCEPT !.outcome = outcome]
set_paired_device(t, node) == [t EXCEPT !.paired = node]
increment_discovery_attempt(t) == [t EXCEPT !.attempts = Count(@)]

-----------------------------------------------------------------------------
(* The advisor.                                                            *)

heard_frames(t) == {i \in DOMAIN t.events : is_rx_kind(t.events[i].kind)}

is_oneway_pairing_frame(f) ==
    f.oneway /\ f.dst = "BROADCAST" /\ f.cmd \in {"WRITE_PRIVATE", "ONEWAY_REMOVE", "DISCOVER_ALT_REQ"}

one_way_pairing_advice(t) == \E i \in heard_frames(t) : is_oneway_pairing_frame(t.events[i].frame)

channel_busy_advice(t) ==
    /\ t.lbt >= LBT_MAX_RETRIES
    /\ \E i, j \in heard_frames(t) : i # j /\ t.events[i].frame.src = t.events[j].frame.src

foreign_controller_advice(t, own) ==
    /\ own # Nobody
    /\ \E i \in heard_frames(t) : t.events[i].frame.cmd = "DISCOVER_RESP" /\ t.events[i].frame.dst # own

analyze_pairing_telemetry(t, own) ==
    LET found == (IF one_way_pairing_advice(t) THEN {"1w_traffic"} ELSE {})
                 \cup (IF channel_busy_advice(t) THEN {"channel_busy"} ELSE {})
                 \cup (IF foreign_controller_advice(t, own) THEN {"foreign_controller"} ELSE {})
    IN  IF found = {} /\ t.heard = 0 THEN {"rf_silent"} ELSE found

\* finish_pairing_attempt_: the outcome, then the advice.
finish(t, outcome, own) ==
    LET done == set_outcome(t, outcome) IN [done EXCEPT !.advice = analyze_pairing_telemetry(done, own)]
=============================================================================
