----------------------------- MODULE DeviceModel -----------------------------
(***************************************************************************)
(* What the hub keeps of a device and what its Home Assistant entity shows *)
(* (proto_device_model, device_registry.cpp, platform_cover.cpp, _light,   *)
(* _lock and _switch): IoDevice records with their prediction overlay, the *)
(* operations of DeviceRegistry on them and the entities' callbacks, as    *)
(* operators.  Positions are those on the wire, 0 open and 100 closed; an  *)
(* inverted entity shows the same ones under other names.                  *)
(***************************************************************************)
EXTENDS Integers

UNKNOWN == 212     \* UNKNOWN_POSITION, also the marker in a reported target
BINARY_ENTITY_ON_POSITION == 0
BINARY_ENTITY_OFF_POSITION == 100
BINARY_ENTITY_ON_POSITION_THRESHOLD == 50

-----------------------------------------------------------------------------
(* Device types and what they can do.                                      *)

device_supports_tilt(type) == type \in {"VENETIAN_BLIND", "BLIND", "EXTERNAL_VENETIAN_BLIND", "LOUVRE_BLIND"}

device_capability_class(type) ==
    CASE type = "LIGHT" -> "LIGHT"
      [] type = "LOCK" -> "LOCK"
      [] type \in {"ON_OFF_SWITCH", "VENTILATION_POINT"} -> "SWITCH"
      [] type \in {"HEATING_TEMPERATURE_INTERFACE", "EXTERIOR_HEATING", "HEAT_PUMP"} -> "CLIMATE"
      [] type = "BEACON" -> "BEACON"
      [] type = "INTRUSION_ALARM" -> "SENSOR"
      [] device_supports_tilt(type) \/ type \in {"ROLLER_SHUTTER", "SCREEN", "AWNING", "WINDOW_OPENER",
            "GARAGE_OPENER", "GATE_OPENER", "ROLLING_DOOR_OPENER", "DUAL_SHUTTER", "HORIZONTAL_AWNING",
            "CURTAIN_TRACK", "SWINGING_SHUTTER"} -> "COVER"
      [] OTHER -> "UNKNOWN"

\* A device whose type is not known yet is given the benefit of the doubt, except for tilt.
known_device_matches_entity_class(v, class) == v.type = "UNKNOWN" \/ device_capability_class(v.type) = class

known_device_supports_status_requests(v) ==
    v.type = "UNKNOWN" \/ device_capability_class(v.type) \in {"COVER", "LIGHT", "SWITCH", "LOCK"}

known_device_accepts_execute_tilt(v) == device_supports_tilt(v.type)

-----------------------------------------------------------------------------
(***************************************************************************)
(* The records as they are constructed.  A device carries the entity bound *)
(* to it and what that entity shows: a position (on or off for binary      *)
(* ones), a movement, and the slats.                                       *)
(***************************************************************************)
OptimisticState == [target |-> UNKNOWN, tilt |-> UNKNOWN, motion |-> "NONE"]

Shown == [position |-> UNKNOWN, operation |-> "IDLE", tilt |-> UNKNOWN]

IoDevice(entity, type, optimistic_state) ==
    [entity |-> entity, type |-> type, optimistic_state |-> optimistic_state,
     position |-> UNKNOWN, tilt |-> UNKNOWN, target |-> UNKNOWN, is_stopped |-> TRUE,
     optimistic |-> OptimisticState, shown |-> Shown]

clear_position(o) == [o EXCEPT !.target = UNKNOWN, !.motion = "NONE"]

effective_target(v) == IF v.optimistic.target # UNKNOWN THEN v.optimistic.target ELSE v.target
effective_tilt(v) == IF v.optimistic.tilt # UNKNOWN THEN v.optimistic.tilt ELSE v.tilt

effective_is_stopped(v) ==
    CASE v.optimistic.motion = "MOVING" -> FALSE
      [] v.optimistic.motion = "STOPPED" -> TRUE
      [] OTHER -> v.is_stopped

-----------------------------------------------------------------------------
(* What the entities publish when the registry notifies them.              *)

operation_toward(from, to) ==
    CASE UNKNOWN \in {from, to} \/ from = to -> "IDLE"
      [] to < from -> "OPENING"
      [] OTHER -> "CLOSING"

\* Without a position of its own to compare with, the cover goes by the last one it showed.
CoverOperation(v) ==
    LET goal    == effective_target(v)
        useless == goal \in {UNKNOWN, v.position}
    IN  IF effective_is_stopped(v) THEN "IDLE"
        ELSE IF useless /\ v.position = UNKNOWN THEN v.shown.operation
        ELSE operation_toward(IF useless \/ v.position = UNKNOWN THEN v.shown.position ELSE v.position,
                              IF useless THEN v.position ELSE goal)

CoverShows(v) ==
    [position  |-> IF v.position # UNKNOWN THEN v.position ELSE v.shown.position,
     operation |-> CoverOperation(v),
     tilt      |-> IF device_supports_tilt(v.type) /\ effective_tilt(v) # UNKNOWN
                   THEN effective_tilt(v) ELSE v.shown.tilt]

OnOff(position) ==
    IF position < BINARY_ENTITY_ON_POSITION_THRESHOLD
    THEN BINARY_ENTITY_ON_POSITION ELSE BINARY_ENTITY_OFF_POSITION

\* A lock shows that it is moving instead of a position; unlocked is ON.
LockShows(v) ==
    IF v.position = UNKNOWN \/ (~effective_is_stopped(v) /\ effective_target(v) = UNKNOWN)
    THEN v.shown
    ELSE IF effective_is_stopped(v)
    THEN [Shown EXCEPT !.position = OnOff(v.position)]
    ELSE [Shown EXCEPT !.operation = IF OnOff(effective_target(v)) = BINARY_ENTITY_ON_POSITION
                                     THEN "UNLOCKING" ELSE "LOCKING"]

passes_binary_update_filter(v) == v.position # UNKNOWN /\ effective_is_stopped(v)

LightShows(v) ==
    IF ~passes_binary_update_filter(v) THEN v.shown
    ELSE [Shown EXCEPT !.position = IF v.entity = "dimmable light" THEN v.position ELSE OnOff(v.position)]

SwitchShows(v) ==
    IF ~passes_binary_update_filter(v) THEN v.shown
    ELSE [Shown EXCEPT !.position = OnOff(v.position)]

notify(v) ==
    [v EXCEPT !.shown = CASE v.entity = "cover" -> CoverShows(v)
                          [] v.entity = "lock" -> LockShows(v)
                          [] v.entity = "switch" -> SwitchShows(v)
                          [] OTHER -> LightShows(v)]

\* What the entity shows of a device at rest, its slats aside.
ShowsAtRest(v, position) ==
    /\ v.shown.operation = "IDLE"
    /\ v.shown.position = IF v.entity \in {"cover", "dimmable light"} THEN position ELSE OnOff(position)

-----------------------------------------------------------------------------
(* Predictions (DeviceRegistry).                                           *)

apply_optimistic_target(v, position) ==
    IF v.optimistic_state
    THEN notify([v EXCEPT !.optimistic.target = position, !.optimistic.motion = "MOVING"])
    ELSE v

apply_optimistic_stop(v) ==
    IF v.optimistic_state
    THEN notify([v EXCEPT !.optimistic.target = UNKNOWN, !.optimistic.motion = "STOPPED"])
    ELSE v

apply_optimistic_tilt(v, tilt) ==
    IF v.optimistic_state /\ device_supports_tilt(v.type)
    THEN notify([v EXCEPT !.optimistic.tilt = tilt])
    ELSE v

\* Faulty variant: the guess stays when the command failed.
rollback_optimistic_forgotten(v) == v

rollback_optimistic(v) ==
    IF v.optimistic = OptimisticState THEN v ELSE notify([v EXCEPT !.optimistic = OptimisticState])

-----------------------------------------------------------------------------
(* Observations (hub_status.cpp).                                          *)

\* Faulty variant: "stopped" is believed while target and current differ.
normalize_stopped_state_trusting(v) == v

normalize_stopped_state(v) ==
    IF v.is_stopped /\ v.target # UNKNOWN /\ v.position # UNKNOWN /\ v.target # v.position
    THEN [v EXCEPT !.is_stopped = FALSE]
    ELSE v

\* Of a stopped device, the target and the current position each stand in for the other.
decode_position_report(v, r) ==
    [v EXCEPT !.target = IF r.target = UNKNOWN /\ r.stopped THEN r.current ELSE r.target,
              !.position = IF r.current = UNKNOWN /\ r.stopped THEN r.target ELSE r.current]

\* An observation supersedes the prediction; the slats have one of their own, in extended replies only.
decode_status_fields(v, r) ==
    LET placed == normalize_stopped_state(decode_position_report([v EXCEPT !.is_stopped = r.stopped], r))
        seen   == [placed EXCEPT !.optimistic = clear_position(@)]
    IN  IF r.extended /\ device_supports_tilt(v.type)
        THEN [seen EXCEPT !.tilt = r.tilt, !.optimistic.tilt = UNKNOWN]
        ELSE seen
=============================================================================
