------------------------------- MODULE Tuning -------------------------------
(* The tuning layer: the YAML `tuning:` block and the code generated from  *)
(* it (tuning.py), the hub's TuningConfig, the number and select entities  *)
(* that show and change it at run time (tuning_entities.cpp, through the   *)
(* tables of tuning_registry.cpp), the part of it the radio driver holds a *)
(* copy of, and the one-line snapshot that is meant to be copied from the  *)
(* log back into the YAML (tuning_config.cpp).                             *)
(*                                                                         *)
(* Two code paths write the same fields - generated assignments at boot,   *)
(* setters by name at run time - and three read them back: the getters,    *)
(* the snapshot, the driver.  Nothing but agreement of the tables keeps    *)
(* them together.                                                          *)
EXTENDS Integers, Sequences

CONSTANTS
    Blocks,      \* the tuning: blocks a user may write, name -> value
    MaxEdits     \* bound: changes made from the UI, and pastes

VARIABLES
    radio_type,  \* radio_type_
    yaml,        \* the block the running image was generated from
    cfg,         \* tuning_
    radio,       \* what the driver copied from it; NoRadio when init failed
    shown,       \* what each entity last published; no entry: no state yet
    edits

tuningVars == <<radio_type, yaml, cfg, radio, shown, edits>>

RadioTypes == {"sx1262", "sx1276", "lr1121"}
NoRadio == [chip |-> "none"]

----------------------------------------------------------------------------
(* The tables.                                                             *)

Number(lo, hi, default, bits, to_radio) ==
    [lo |-> lo, hi |-> hi, default |-> default, bits |-> bits, to_radio |-> to_radio]

NUMBER_PARAMS ==
    [sx1262_response_preamble |-> Number(8, 256, 8, 16, TRUE),
     sx1262_post_tx_settle_us |-> Number(0, 2000, 500, 16, TRUE),
     sx1276_response_preamble |-> Number(8, 256, 12, 16, TRUE),
     sx1276_discovery_hop_slice_ms |-> Number(5, 200, 5, 16, FALSE),
     sx1262_discovery_hop_slice_ms |-> Number(0, 500, 7, 16, FALSE),
     lr1121_response_preamble |-> Number(8, 256, 8, 16, TRUE),
     lr1121_post_tx_settle_us |-> Number(0, 2000, 500, 16, TRUE),
     lr1121_discovery_hop_slice_ms |-> Number(0, 500, 7, 16, FALSE),
     cold_broadcast_reply_preamble |-> Number(8, 256, 80, 16, FALSE),
     normal_start_preamble |-> Number(8, 256, 32, 16, FALSE),
     lbt_max_retries |-> Number(0, 10, 5, 8, FALSE),
     lbt_rssi_threshold_dbm |-> Number(-95, -70, -90, 16, FALSE),
     exchange_start_response_wait_ms |-> Number(200, 4000, 400, 16, FALSE),
     exchange_response_wait_ms |-> Number(200, 4000, 500, 16, FALSE),
     exchange_total_budget_ms |-> Number(500, 12000, 2500, 16, FALSE),
     pairing_discovery_wait_ms |-> Number(500, 5000, 2000, 16, FALSE),
     pairing_discovery_initial_dwell_ms |-> Number(0, 500, 300, 16, FALSE),
     pairing_key_exchange_retries |-> Number(1, 5, 3, 8, FALSE)]

Numbers == DOMAIN NUMBER_PARAMS

(* A setter that casts to the wrong width.                                 *)
Narrowed_byte(p, v) == ((v + 128) % 256) - 128

(* static_cast to the field's type; the one signed field is the only one   *)
(* whose range starts below zero.                                          *)
Narrowed(p, v) ==
    LET size == 2 ^ NUMBER_PARAMS[p].bits
        bias == IF NUMBER_PARAMS[p].lo < 0 THEN size \div 2 ELSE 0
    IN  ((v + bias) % size) - bias

(* The register byte behind each kHz option, chip by chip.                 *)
SEMTECH_BANDWIDTHS ==
    [khz \in {"39.0", "46.9", "58.6", "78.2", "117.3", "156.2", "187.2"} |->
        CASE khz = "39.0" -> 28 [] khz = "46.9" -> 20 [] khz = "58.6" -> 12 [] khz = "78.2" -> 27
          [] khz = "117.3" -> 11 [] khz = "156.2" -> 26 [] khz = "187.2" -> 18]
SX1276_BANDWIDTHS ==
    [khz \in {"20.8", "41.7", "62.5", "83.3", "125.0"} |->
        CASE khz = "20.8" -> 20 [] khz = "41.7" -> 19 [] khz = "62.5" -> 3 [] khz = "83.3" -> 18
          [] khz = "125.0" -> 2]

Bandwidths ==
    [sx1262_rx_bandwidth |-> SEMTECH_BANDWIDTHS, sx1276_rx_bandwidth |-> SX1276_BANDWIDTHS,
     lr1121_rx_bandwidth |-> SEMTECH_BANDWIDTHS]

(* Command tokens and bytes; a comma-separated option is a sequence of     *)
(* tokens here.  The UI's parser knows one more than the YAML offers.      *)
DISCOVERY_COMMAND_OPTIONS == [token \in {"0x28", "0x2E"} |-> IF token = "0x28" THEN 40 ELSE 46]
discovery_command_from_string ==
    [token \in {"0x28", "0x2A", "0x2E"} |-> IF token = "0x2A" THEN 42 ELSE DISCOVERY_COMMAND_OPTIONS[token]]

Destinations == [v \in {"0x00003B", "0x00003F"} |-> IF v = "0x00003B" THEN <<0, 0, 59>> ELSE <<0, 0, 63>>]

SELECT_OPTIONS ==
    [pairing_discovery_commands |-> {<<"0x28">>, <<"0x2E">>, <<"0x28", "0x2E">>},
     pairing_discovery_destination |-> {"auto", "0x00003B", "0x00003F"},
     pairing_discovery_payload |-> {"none", "0x00"},
     pairing_discovery_low_power |-> {"Off", "On"},
     sx1262_rx_bandwidth |-> DOMAIN SEMTECH_BANDWIDTHS,
     sx1276_rx_bandwidth |-> DOMAIN SX1276_BANDWIDTHS,
     lr1121_rx_bandwidth |-> DOMAIN SEMTECH_BANDWIDTHS]

Selects == DOMAIN SELECT_OPTIONS
Names == Numbers \cup Selects

(* TUNING_SCHEMA: what a parameter may be set to in the YAML.  Commands    *)
(* may come in any order and number there.                                 *)
InSchema(p, v) ==
    CASE p \in Numbers -> v \in NUMBER_PARAMS[p].lo..NUMBER_PARAMS[p].hi
      [] p = "pairing_discovery_commands" -> v \in Seq(DOMAIN DISCOVERY_COMMAND_OPTIONS) \ {<<>>}
      [] OTHER -> v \in SELECT_OPTIONS[p]

Validated(block) == DOMAIN block \subseteq Names /\ \A p \in DOMAIN block : InSchema(p, block[p])

ASSUME TuningAssumption == \A block \in Blocks : Validated(block)

SELECT_DEFAULTS ==
    [sx1262_rx_bandwidth |-> 12, sx1276_rx_bandwidth |-> 19, lr1121_rx_bandwidth |-> 11,
     pairing_discovery_commands |-> <<40>>,
     pairing_discovery_destination |-> [auto |-> TRUE, bytes |-> <<0, 0, 0>>],
     pairing_discovery_payload |-> [enabled |-> FALSE, byte |-> 0],
     pairing_discovery_low_power |-> FALSE]
DEFAULTS == [p \in Names |-> IF p \in Numbers THEN NUMBER_PARAMS[p].default ELSE SELECT_DEFAULTS[p]]

----------------------------------------------------------------------------
(* Writing: by generated code, and by the setters of SELECT_PARAMS.        *)

KeyOf(table, value) == CHOOSE key \in DOMAIN table : table[key] = value

SetDestination(old, v) ==
    IF v = "auto" THEN [old EXCEPT !.auto = TRUE]
    ELSE [auto |-> FALSE, bytes |-> Destinations[v]]

SetPayload(old, v) ==
    IF v = "none" THEN [old EXCEPT !.enabled = FALSE] ELSE [enabled |-> TRUE, byte |-> 0]

Set(p, old, v) ==
    CASE p \in Numbers -> Narrowed(p, v)
      [] p \in DOMAIN Bandwidths -> Bandwidths[p][v]
      [] p = "pairing_discovery_commands" ->
            [i \in DOMAIN v |-> discovery_command_from_string[v[i]]]   \* options hold no token it does not know
      [] p = "pairing_discovery_destination" -> SetDestination(old, v)
      [] p = "pairing_discovery_payload" -> SetPayload(old, v)
      [] p = "pairing_discovery_low_power" -> v = "On"

(* _apply_tuning_config: keys absent from the block keep the default.      *)
GeneratedValue(p, v) ==
    CASE p \in Numbers -> v
      [] p = "pairing_discovery_commands" -> [i \in DOMAIN v |-> DISCOVERY_COMMAND_OPTIONS[v[i]]]
      [] OTHER -> Set(p, DEFAULTS[p], v)

Generated(block) ==
    [p \in Names |-> IF p \in DOMAIN block THEN GeneratedValue(p, block[p]) ELSE DEFAULTS[p]]

----------------------------------------------------------------------------
(* Reading: the getters, the snapshot, the driver, pairing.                *)

discovery_commands_to_csv(commands) ==
    [i \in DOMAIN commands |-> KeyOf(discovery_command_from_string, commands[i])]

discovery_destination_to_string(d) == IF d.auto THEN "auto" ELSE KeyOf(Destinations, d.bytes)

discovery_payload_to_string(d) == IF d.enabled THEN "0x00" ELSE "none"

Get(p, c) ==
    CASE p \in Numbers -> c[p]
      [] p \in DOMAIN Bandwidths -> KeyOf(Bandwidths[p], c[p])
      [] p = "pairing_discovery_commands" -> discovery_commands_to_csv(c[p])
      [] p = "pairing_discovery_destination" -> discovery_destination_to_string(c[p])
      [] p = "pairing_discovery_payload" -> discovery_payload_to_string(c[p])
      [] p = "pairing_discovery_low_power" -> IF c[p] THEN "On" ELSE "Off"

(* The fields tuning_config_snapshot has a line for.                       *)
Unlogged == {"exchange_start_response_wait_ms", "exchange_response_wait_ms",
             "exchange_total_budget_ms"}

(* A snapshot that takes a payload of 0x00 for no payload.                 *)
InSnapshot_zero(p, c) ==
    /\ p \notin Unlogged
    /\ CASE p = "pairing_discovery_destination" -> ~c[p].auto
         [] p = "pairing_discovery_payload" -> c[p].byte # 0
         [] OTHER -> c[p] # DEFAULTS[p]

InSnapshot(p, c) ==
    /\ p \notin Unlogged
    /\ IF p = "pairing_discovery_destination" THEN ~c[p].auto ELSE c[p] # DEFAULTS[p]

tuning_config_snapshot(c) == [p \in {q \in Names : InSnapshot(q, c)} |-> Get(p, c)]

apply_tuning(c) ==
    CASE radio_type = "sx1262" -> [chip |-> radio_type, bandwidth |-> c.sx1262_rx_bandwidth,
                             response_preamble |-> c.sx1262_response_preamble,
                             post_tx_settle_us |-> c.sx1262_post_tx_settle_us]
      [] radio_type = "lr1121" -> [chip |-> radio_type, bandwidth |-> c.lr1121_rx_bandwidth,
                             response_preamble |-> c.lr1121_response_preamble,
                             post_tx_settle_us |-> c.lr1121_post_tx_settle_us]
      [] radio_type = "sx1276" -> [chip |-> radio_type, bandwidth |-> c.sx1276_rx_bandwidth,
                             response_preamble |-> c.sx1276_response_preamble]

apply_tuning_to_radio(c) == radio' = IF radio = NoRadio THEN NoRadio ELSE apply_tuning(c)

(* hop_dwell_ms of the driver in use.                                      *)
hop_dwell_ms(c) ==
    CASE radio_type = "sx1262" -> c.sx1262_discovery_hop_slice_ms
      [] radio_type = "lr1121" -> c.lr1121_discovery_hop_slice_ms
      [] radio_type = "sx1276" -> c.sx1276_discovery_hop_slice_ms

resolve_discovery_destination(command, d) ==
    IF ~d.auto THEN d.bytes
    ELSE IF command = 46 THEN <<0, 0, 63>> ELSE <<0, 0, 59>>

(* What pairing puts on the air, command by command.                       *)
DiscoveryRequests(c) ==
    LET commands == c.pairing_discovery_commands
        payload == c.pairing_discovery_payload
    IN  [i \in DOMAIN commands |->
            [command |-> commands[i],
             dst |-> resolve_discovery_destination(commands[i], c.pairing_discovery_destination),
             payload |-> IF commands[i] = 46 /\ payload.enabled THEN <<payload.byte>> ELSE <<>>,
             low_power |-> c.pairing_discovery_low_power]]

(* Everything in a config that the program acts on.                        *)
InForce(c) ==
    [numbers |-> [p \in Numbers \ Unlogged |-> c[p]], radio |-> apply_tuning(c),
     dwell |-> hop_dwell_ms(c), discovery |-> DiscoveryRequests(c)]

----------------------------------------------------------------------------
(* setup(): the driver takes its copy, then each entity publishes; a       *)
(* select without such an option publishes nothing.                        *)

Publishes(p, c) == p \in Numbers \/ Get(p, c) \in SELECT_OPTIONS[p]
Published(c) == [p \in {q \in Names : Publishes(q, c)} |-> Get(p, c)]

Booted(block) ==
    /\ yaml' = block
    /\ cfg' = Generated(block)
    /\ radio' \in {apply_tuning(cfg'), NoRadio}
    /\ shown' = Published(cfg')
    /\ UNCHANGED radio_type

TuningInit ==
    /\ radio_type \in RadioTypes /\ yaml \in Blocks /\ edits = 0
    /\ cfg = Generated(yaml)
    /\ radio \in {apply_tuning(cfg), NoRadio}
    /\ shown = Published(cfg)

Reboot == edits > 0 /\ Booted(yaml) /\ UNCHANGED edits

Changed(p, v) ==
    /\ edits < MaxEdits /\ edits' = edits + 1
    /\ shown' = [q \in DOMAIN shown \cup {p} |-> IF q = p THEN v ELSE shown[q]]
    /\ cfg' = [cfg EXCEPT ![p] = Set(p, cfg[p], v)]
    /\ UNCHANGED <<radio_type, yaml>>

update_tuning_number(p, v) ==
    /\ Changed(p, v)
    /\ IF NUMBER_PARAMS[p].to_radio THEN apply_tuning_to_radio(cfg') ELSE UNCHANGED radio

update_tuning_select(p, v) ==
    /\ Changed(p, v)
    /\ IF p \in DOMAIN Bandwidths THEN apply_tuning_to_radio(cfg') ELSE UNCHANGED radio

(* The snapshot prints these without quotes: taken verbatim, YAML reads    *)
(* integers where the schema insists on strings.                           *)
HexTokens == {"pairing_discovery_commands", "pairing_discovery_destination", "pairing_discovery_payload"}
Accepted(block, quoted) == quoted \/ DOMAIN block \cap HexTokens = {}

(* The user copies the logged snapshot into the YAML, with quotes added or *)
(* not, and flashes it if it validates.                                    *)
Paste ==
    /\ edits < MaxEdits /\ edits' = edits + 1
    /\ \E quoted \in BOOLEAN :
         LET block == tuning_config_snapshot(cfg)
         IN  \/ Accepted(block, quoted) /\ Booted(block)
             \/ ~Accepted(block, quoted) /\ UNCHANGED <<radio_type, yaml, cfg, radio, shown>>

TuningNext ==
    \/ \E p \in Numbers : \E v \in {NUMBER_PARAMS[p].lo, NUMBER_PARAMS[p].hi} :
            update_tuning_number(p, v)
    \/ \E p \in Selects : \E v \in SELECT_OPTIONS[p] : update_tuning_select(p, v)
    \/ Reboot
    \/ Paste

TuningSpec == TuningInit /\ [][TuningNext]_tuningVars

----------------------------------------------------------------------------
(* After any mixture of YAML, UI changes and reboots there is one truth:   *)
(* each entity shows the value in force - nothing only where the YAML put  *)
(* the commands in an order the dropdown does not offer - and a live       *)
(* driver runs on exactly the configuration the hub holds.  The setters,   *)
(* the getters, the generated code and the applies_to_radio flags all have *)
(* to agree for it.                                                        *)
OneTruth ==
    /\ \A p \in DOMAIN shown : shown[p] = Get(p, cfg)
    /\ Names \ DOMAIN shown \subseteq {"pairing_discovery_commands"}
    /\ radio # NoRadio => radio = apply_tuning(cfg)

(* What tuning_config_snapshot is for: a combination found from the UI and *)
(* pasted into the YAML runs the same, the exchange windows aside, which   *)
(* the snapshot leaves out.                                                *)
PasteKeepsTuning == [][Paste => InForce(cfg') = InForce(cfg)]_tuningVars

=============================================================================
