---------------------------- MODULE OperationQueue ----------------------------
(***************************************************************************)
(* The hub's pending-operation deque (operation_queue.h / .cpp).           *)
(*                                                                         *)
(* Every radio transaction of the hub blocks the single ESPHome loop, so   *)
(* whatever entities, buttons, polls and API actions want goes through     *)
(* this queue and is popped one at a time by loop().  Here any caller may  *)
(* enqueue anything and loop() may pop at any moment.                      *)
(***************************************************************************)
EXTENDS PendingOps

CONSTANTS
    Controllers,  \* handles of 1W controller identities; may collide with Devices
    Commands      \* named cover commands callers pass

ASSUME QueueAssumption ==
    /\ Positions \subseteq 0..255
    /\ {0, 100} \subseteq Positions
    /\ "STOP" \in Commands
    /\ MaxLen \in Nat

VARIABLES
    presses,  \* history: 1W presses enqueued and not yet popped, in order
    intent,   \* history: the last position and tilt asked of each device
    plain     \* history: FALSE while an operation that coalescing may overtake is pending

queueVars == <<queue, presses, intent, plain>>

QueueInit ==
    /\ queue = <<>>
    /\ presses = <<>>
    /\ intent = [d \in Devices |-> [position |-> 0, tilt |-> 0]]
    /\ plain = [d \in Devices |-> TRUE]

Room == Len(queue) < MaxLen

EnqueueSetPosition(d, p) ==
    /\ Room
    /\ queue' = enqueue_set_position(queue, d, p)
    /\ intent' = [intent EXCEPT ![d].position = p]
    /\ UNCHANGED <<presses, plain>>

EnqueueSetTilt(d, t) ==
    /\ Room
    /\ queue' = enqueue_set_tilt(queue, d, t)
    /\ intent' = [intent EXCEPT ![d].tilt = t]
    /\ UNCHANGED <<presses, plain>>

EnqueueSetPositionAndTilt(d, p, t) ==
    /\ Room
    /\ queue' = enqueue_set_position_and_tilt(queue, d, p, t)
    /\ intent' = [intent EXCEPT ![d] = [position |-> p, tilt |-> t]]
    /\ plain' = [plain EXCEPT ![d] = FALSE]
    /\ UNCHANGED presses

EnqueueDeviceCommand(d, cmd) ==
    /\ Room
    /\ queue' = enqueue_device_command(queue, d, cmd)
    /\ plain' = [plain EXCEPT ![d] = FALSE]
    /\ UNCHANGED <<presses, intent>>

EnqueueSetLightPosition(d, p) ==
    /\ Room
    /\ queue' = enqueue_set_light_position(queue, d, p)
    /\ UNCHANGED <<presses, intent, plain>>

EnqueueSetLockState(d, locked) ==
    /\ Room
    /\ queue' = enqueue_set_lock_state(queue, d, locked)
    /\ UNCHANGED <<presses, intent, plain>>

EnqueueSetSwitchState(d, on) ==
    /\ Room
    /\ queue' = enqueue_set_switch_state(queue, d, on)
    /\ UNCHANGED <<presses, intent, plain>>

Press(q, op) == queue' = q /\ presses' = Append(presses, op)

EnqueueOneway(c) ==
    /\ Room
    /\ \/ \E cmd \in Commands : Press(enqueue_oneway_command(queue, c, cmd), <<"ONEWAY_COMMAND", c, cmd>>)
       \/ \E p \in Positions : Press(enqueue_oneway_position(queue, c, p), <<"ONEWAY_POSITION", c, p>>)
       \/ Press(enqueue_oneway_enroll(queue, c), <<"ONEWAY_ENROLL", c, 0>>)
       \/ Press(enqueue_oneway_unenroll(queue, c), <<"ONEWAY_UNENROLL", c, 0>>)
    /\ UNCHANGED <<intent, plain>>

EnqueueRequestStatus(d) ==
    /\ Room
    /\ queue' = enqueue_request_status(queue, d)
    /\ UNCHANGED <<presses, intent, plain>>

EnqueueRequestName(d) ==
    /\ Room
    /\ queue' = enqueue_request_name(queue, d)
    /\ UNCHANGED <<presses, intent, plain>>

EnqueueDiscoverAndPair ==
    /\ Room
    /\ queue' = enqueue_discover_and_pair(queue)
    /\ UNCHANGED <<presses, intent, plain>>

\* loop() takes the head; a device with nothing of its own left is plain again.
Pop ==
    /\ queue # <<>>
    /\ queue' = Tail(queue)
    /\ presses' = IF IsOneway(Head(queue)) THEN Tail(presses) ELSE presses
    /\ plain' = [d \in Devices |-> plain[d] \/ Pending(queue', DeviceControlTypes, d) = {}]
    /\ UNCHANGED intent

QueueNext ==
    \/ \E d \in Devices :
         \/ \E p \in Positions :
              \/ EnqueueSetPosition(d, p)
              \/ EnqueueSetTilt(d, p)
              \/ \E t \in Positions : EnqueueSetPositionAndTilt(d, p, t)
              \/ EnqueueSetLightPosition(d, p)
         \/ \E cmd \in Commands : EnqueueDeviceCommand(d, cmd)
         \/ \E b \in BOOLEAN : EnqueueSetLockState(d, b) \/ EnqueueSetSwitchState(d, b)
         \/ EnqueueRequestStatus(d)
         \/ EnqueueRequestName(d)
    \/ \E c \in Controllers : EnqueueOneway(c)
    \/ EnqueueDiscoverAndPair
    \/ Pop

QueueSpec == QueueInit /\ [][QueueNext]_queueVars
-----------------------------------------------------------------------------

Band(op) == CASE op.type = "DISCOVER_AND_PAIR" -> 1
              [] is_background_op(op) -> 3
              [] OTHER -> 2

(***************************************************************************)
(* operation_queue.h: "DISCOVER_AND_PAIR > control operations > background *)
(* polls".  Whatever was enqueued, coalesced, dropped and popped, the deque *)
(* never holds an operation behind one of a lower band.                    *)
(***************************************************************************)
BandOrder == \A i, j \in DOMAIN queue : i <= j => Band(queue[i]) <= Band(queue[j])

(***************************************************************************)
(* 1W presses are "neither coalesced nor deduplicated": the 1W operations  *)
(* in the deque are exactly the presses not yet sent, in press order, no   *)
(* matter which controls, polls and pairings were enqueued around them.    *)
(***************************************************************************)
OnewayPressesKept ==
    LET oneway == Select(queue, {i \in DOMAIN queue : IsOneway(queue[i])})
        Press1(o) == <<o.type, o.id, IF o.type = "ONEWAY_COMMAND" THEN o.command ELSE o.position>>
    IN  presses = [i \in DOMAIN oneway |-> Press1(oneway[i])]

Last(S) == CHOOSE i \in S : \A j \in S : j <= i

(***************************************************************************)
(* Coalescing does not change where a cover ends up: the last position and *)
(* the last tilt the pending operations of a device will send are the last *)
(* ones that were asked for.  Holds for devices whose pending operations   *)
(* are SET_POSITION, SET_TILT and merges of the two (plain); a combined    *)
(* call or a named command in between can be overtaken by a merge.         *)
(***************************************************************************)
LatestIntentWins ==
    \A d \in Devices : plain[d] =>
        LET ps == Pending(queue, {"SET_POSITION", "SET_POSITION_AND_TILT"}, d)
            ts == Pending(queue, {"SET_TILT", "SET_POSITION_AND_TILT"}, d)
            TiltOf(o) == IF o.type = "SET_TILT" THEN o.position ELSE o.tilt
        IN  /\ ps # {} => queue[Last(ps)].position = intent[d].position
            /\ ts # {} => TiltOf(queue[Last(ts)]) = intent[d].tilt

HasStatus(q, d) == Pending(q, {"REQUEST_STATUS"}, d) # {}

ControlFor(d) ==
    \/ \E p \in Positions :
         \/ EnqueueSetPosition(d, p) \/ EnqueueSetTilt(d, p) \/ EnqueueSetLightPosition(d, p)
         \/ \E t \in Positions : EnqueueSetPositionAndTilt(d, p, t)
    \/ \E cmd \in Commands : EnqueueDeviceCommand(d, cmd)
    \/ \E b \in BOOLEAN : EnqueueSetLockState(d, b) \/ EnqueueSetSwitchState(d, b)

(***************************************************************************)
(* Nothing is lost without a cause: a queued status poll disappears only   *)
(* by being popped, by a pairing request, or by a control operation for    *)
(* that same device, not by a 1W press whose handle equals its id; and     *)
(* every step but Pop keeps at least as many control operations for each   *)
(* device as there were, if merged ones.                                   *)
(***************************************************************************)
NothingLostWithoutCause ==
    [][/\ \A d \in Devices : HasStatus(queue, d) /\ ~HasStatus(queue', d)
            => Pop \/ EnqueueDiscoverAndPair \/ ControlFor(d)
       /\ Pop \/ \A d \in Devices \cup Controllers :
            \E f \in [Pending(queue, DeviceControlTypes \cup OneWayTypes, d) ->
                      Pending(queue', DeviceControlTypes \cup OneWayTypes, d)] :
                \A i, j \in DOMAIN f : f[i] = f[j] => i = j]_queueVars
=============================================================================
