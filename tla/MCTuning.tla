------------------------------ MODULE MCTuning ------------------------------
(* Tuning with a few representative blocks: none, command orders the UI    *)
(* has no option for, and values of each kind.                             *)
EXTENDS Tuning

MCBlocks ==
    {<<>>,
     [pairing_discovery_commands |-> <<"0x2E", "0x28">>, lbt_rssi_threshold_dbm |-> -70],
     [pairing_discovery_commands |-> <<"0x28", "0x28", "0x2E">>,
      pairing_discovery_destination |-> "0x00003F", pairing_discovery_payload |-> "0x00"],
     [sx1262_rx_bandwidth |-> "187.2", lr1121_rx_bandwidth |-> "39.0",
      sx1276_rx_bandwidth |-> "125.0", sx1276_response_preamble |-> 24,
      exchange_total_budget_ms |-> 12000, pairing_discovery_low_power |-> "On"]}
=============================================================================
