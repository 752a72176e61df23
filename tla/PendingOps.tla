------------------------------ MODULE PendingOps ------------------------------
(***************************************************************************)
(* The deque of class OperationQueue (operation_queue.h / .cpp), and its   *)
(* operations as operators on a sequence of PendingOperation records.      *)
(* OperationQueue makes a state machine of them, with any caller; Hub is   *)
(* the caller there is.                                                    *)
(***************************************************************************)
EXTENDS Integers, Sequences, FiniteSets

CONSTANTS
    Devices,      \* device ids of the registry
    Positions,    \* position and tilt values callers pass
    MaxLen        \* bound of the model: callers stop enqueueing at this length

VARIABLE
    queue         \* queue_

\* The empty device_id of DISCOVER_AND_PAIR.
NoDevice == 0

(***************************************************************************)
(* PendingOperationType, by band.                                          *)
(***************************************************************************)
OneWayTypes == {"ONEWAY_COMMAND", "ONEWAY_POSITION", "ONEWAY_ENROLL", "ONEWAY_UNENROLL"}
DeviceControlTypes ==
    {"SET_POSITION", "SET_TILT", "SET_POSITION_AND_TILT", "DEVICE_COMMAND",
     "SET_LIGHT_STATE", "SET_LOCK_STATE", "SET_SWITCH_STATE"}
BackgroundTypes == {"REQUEST_STATUS", "REQUEST_NAME"}

\* struct PendingOperation, with its default member values filled in.
Op(type, id, position) ==
    [type |-> type, id |-> id, position |-> position, tilt |-> 0, command |-> "STOP"]

is_background_op(op) == op.type \in BackgroundTypes
IsOneway(op) == op.type \in OneWayTypes

\* Faulty variant: the id of a 1W operation is taken for a device id.
addresses_a_device_always(op) == TRUE

addresses_a_device(op) == ~IsOneway(op)

IsStatusOf(op, d) == op.type = "REQUEST_STATUS" /\ op.id = d

(***************************************************************************)
(* First index in q of an operation of one of the types for id, and        *)
(* whether there is one.                                                   *)
(***************************************************************************)
Pending(q, types, id) == {i \in DOMAIN q : q[i].type \in types /\ q[i].id = id}
First(S) == CHOOSE i \in S : \A j \in S : i <= j

\* The queue without the entries whose index is not in kept (std::remove_if, erase).
Select(q, kept) ==
    [n \in 1..Cardinality(kept) |-> q[CHOOSE i \in kept : Cardinality({j \in kept : j <= i}) = n]]

\* Faulty variant: control operations queue up behind the polls.
push_control_at_back(q, op) == Append(q, op)

(***************************************************************************)
(* push_control_: drop the status poll the command makes stale, then       *)
(* insert before the first background operation.                           *)
(***************************************************************************)
push_control(q, op) ==
    LET fresh == {i \in DOMAIN q : ~IsStatusOf(q[i], op.id)}
        kept  == IF addresses_a_device(op) THEN Select(q, fresh) ELSE q
        bg    == {i \in DOMAIN kept : is_background_op(kept[i])}
        at    == IF bg = {} THEN Len(kept) + 1 ELSE First(bg)
    IN  SubSeq(kept, 1, at - 1) \o <<op>> \o SubSeq(kept, at, Len(kept))

\* Faulty variant: the merge forgets where the pending tilt is kept.
enqueue_set_position_losing_tilt(q, d, position) ==
    LET tilts == Pending(q, {"SET_TILT"}, d)
        i     == First(tilts)
    IN  IF tilts # {}
        THEN [q EXCEPT ![i].type = "SET_POSITION_AND_TILT", ![i].position = position]
        ELSE push_control(q, Op("SET_POSITION", d, position))

\* A pending SET_TILT keeps its tilt in the position field.
enqueue_set_position(q, d, position) ==
    LET tilts == Pending(q, {"SET_TILT"}, d)
        i     == First(tilts)
    IN  IF tilts # {}
        THEN [q EXCEPT ![i].type = "SET_POSITION_AND_TILT",
                       ![i].position = position,
                       ![i].tilt = q[i].position]
        ELSE push_control(q, Op("SET_POSITION", d, position))

enqueue_set_tilt(q, d, tilt) ==
    LET positions == Pending(q, {"SET_POSITION"}, d)
        i         == First(positions)
    IN  IF positions # {}
        THEN [q EXCEPT ![i].type = "SET_POSITION_AND_TILT", ![i].tilt = tilt]
        ELSE push_control(q, Op("SET_TILT", d, tilt))

enqueue_set_position_and_tilt(q, d, position, tilt) ==
    push_control(q, [Op("SET_POSITION_AND_TILT", d, position) EXCEPT !.tilt = tilt])

enqueue_device_command(q, d, cmd) ==
    push_control(q, [Op("DEVICE_COMMAND", d, 0) EXCEPT !.command = cmd])

\* Lights, locks and switches: binary ON is position 0, OFF is position 100.
enqueue_set_light_position(q, d, position) == push_control(q, Op("SET_LIGHT_STATE", d, position))
enqueue_set_lock_state(q, d, locked) ==
    push_control(q, Op("SET_LOCK_STATE", d, IF locked THEN 100 ELSE 0))
enqueue_set_switch_state(q, d, on) ==
    push_control(q, Op("SET_SWITCH_STATE", d, IF on THEN 0 ELSE 100))

enqueue_oneway_command(q, c, cmd) ==
    push_control(q, [Op("ONEWAY_COMMAND", c, 0) EXCEPT !.command = cmd])
enqueue_oneway_position(q, c, position) == push_control(q, Op("ONEWAY_POSITION", c, position))

\* Faulty variant: a second press is taken for a duplicate.
enqueue_oneway_enroll_once(q, c) ==
    IF Pending(q, {"ONEWAY_ENROLL"}, c) # {} THEN q ELSE push_control(q, Op("ONEWAY_ENROLL", c, 0))

enqueue_oneway_enroll(q, c) == push_control(q, Op("ONEWAY_ENROLL", c, 0))
enqueue_oneway_unenroll(q, c) == push_control(q, Op("ONEWAY_UNENROLL", c, 0))

enqueue_request_status(q, d) ==
    IF Pending(q, {"REQUEST_STATUS"}, d) # {} THEN q ELSE Append(q, Op("REQUEST_STATUS", d, 0))

enqueue_request_name(q, d) ==
    IF Pending(q, {"REQUEST_NAME"}, d) # {} THEN q ELSE Append(q, Op("REQUEST_NAME", d, 0))

\* Pairing flushes every background poll and jumps the whole queue.
enqueue_discover_and_pair(q) ==
    LET foreground == {i \in DOMAIN q : ~is_background_op(q[i])}
    IN  IF \E i \in DOMAIN q : q[i].type = "DISCOVER_AND_PAIR"
        THEN q
        ELSE <<Op("DISCOVER_AND_PAIR", NoDevice, 0)>> \o Select(q, foreground)
=============================================================================
