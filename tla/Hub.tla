--------------------------------- MODULE Hub ---------------------------------
(***************************************************************************)
(* The controller's follow-up loop: IOHomeControlComponent (hub_core.cpp,  *)
(* hub_operations.cpp, hub_status.cpp) with its OperationQueue, its        *)
(* StatusPollPolicy, its DeviceRegistry and the entities bound to the      *)
(* devices, next to the devices themselves and the remotes it overhears.   *)
(*                                                                         *)
(* loop() runs on one thread: it looks at one received packet, dispatches  *)
(* at most one queued operation (a blocking exchange) and queues at most   *)
(* one due poll.  Between two runs of loop() entities may issue commands   *)
(* and set_timeout callbacks may fire.  An exchange is represented by its  *)
(* outcome; ExchangeEngine models how the outcome comes about.             *)
(***************************************************************************)
EXTENDS StatusPollPolicy, PendingOps, DeviceModel, FiniteSets

CONSTANTS
    Bindings,      \* how a device may be configured: [entity, type, optimistic]
    Interval,      \* configured status_poll_interval of each device, 0 when absent
    Parked,        \* the positions devices may be at when the hub starts
    Tilts,         \* slat angles
    Hints,         \* settle hints a status reply may carry, 0 when absent
    REMOTE_ACTIVITY_STATUS_POLL_DELAY_MS,
    ONEWAY_QUIET_PERIOD_MS,
    ONEWAY_POLL_DEFER_CAP_MS,
    ONEWAY_DEDUP_WINDOW_MS,
    ExchangeTime,  \* the longest an exchange blocks loop()
    Strangers,     \* whether 1W remotes that are not linked are on the air
    Boot,          \* the clock at the first run of loop()
    MaxClock,      \* bound of the model: last instant
    Budget         \* bound of the model: commands, presses and pairings together

ASSUME HubAssumption ==
    /\ Devices \subseteq Nat \ {0}
    /\ \A b \in Bindings : b.entity \in {"cover", "light", "dimmable light", "lock", "switch"}
                         /\ b.optimistic \in BOOLEAN
    /\ Interval \in [Devices -> Nat]
    /\ Positions \cup Parked \cup Tilts \subseteq 0..100
    /\ Hints \subseteq Nat
    /\ {REMOTE_ACTIVITY_STATUS_POLL_DELAY_MS, ONEWAY_QUIET_PERIOD_MS, ONEWAY_POLL_DEFER_CAP_MS,
        ONEWAY_DEDUP_WINDOW_MS, ExchangeTime, Boot, MaxClock, Budget, MaxLen} \subseteq Nat
    /\ Strangers \in BOOLEAN

POS_STOP == 210    \* the main position that means stop
Never == -1

VARIABLES
    clock,      \* time since power-up; millis() is clock % Wrap
    pc,         \* where loop() is: "idle" between two runs
    budget,
    tracking,   \* poll_policy_.tracking_
    timer,      \* set_timeout("remote_poll_<id>"): when it fires, or Never
    dev,        \* registry_: the IoDevice of each device, with what its entity shows
    first_1w,   \* first_1w_activity_ms_ and last_1w_activity_ms_, 0 when none
    last_1w,
    last_1w_logged,  \* dedup state: <<sender, intent, time>>, or <<>>
    phys,       \* the devices themselves: where each one is and where it is going
    excused,    \* history: TRUE when the hub has no reason to know the device's state
    backed      \* history: the prediction rests on an accepted command or a heard press

loopVars == <<clock, pc, budget>>
oneway == <<first_1w, last_1w, last_1w_logged>>
vars == <<clock, pc, budget, queue, tracking, timer, dev, first_1w, last_1w, last_1w_logged,
          phys, excused, backed>>

millis == clock % Wrap
-----------------------------------------------------------------------------
(***************************************************************************)
(* What a device says of itself.  Some devices say "stopped" before target *)
(* and current have converged; the target may be a marker (UNKNOWN).       *)
(***************************************************************************)
Reports(d) ==
    {r \in [stopped : BOOLEAN, target : {phys[d].goal, UNKNOWN}, current : {phys[d].at},
            extended : {device_supports_tilt(dev[d].type)}, tilt : Tilts, hint : Hints] :
        /\ phys[d].at = phys[d].goal => r.stopped
        /\ r.target = UNKNOWN => (r.stopped <=> phys[d].at = phys[d].goal)}

\* The reply to CMD_EXECUTE may echo pre-command positions: only its stopped flag is taken.
apply_private_response_status(v, r, trust_position) ==
    IF trust_position THEN decode_status_fields(v, r)
    ELSE normalize_stopped_state([v EXCEPT !.is_stopped = r.stopped])

(***************************************************************************)
(* Poll bookkeeping after a status frame (v is the device after decoding). *)
(***************************************************************************)
PolicyAfterReply(t, v, hint, now) ==
    LET new == Plus(now, settle_delay_ms(t.interval, hint, FALSE))
    IN  IF effective_is_stopped(v) \/ ~is_tracking_active(t, now)
        THEN clear(t)
        ELSE set_next_update(t, IF t.next_update # 0 /\ t.next_update < new THEN t.next_update ELSE new)

PolicyAfterStatusUpdate(t, v, now) ==
    IF effective_is_stopped(v) \/ ~is_tracking_active(t, now)
    THEN clear(t)
    ELSE set_next_update(t, Plus(now, settle_delay_ms(t.interval, 0, FALSE)))

\* Faulty variant: the confirmation poll is left to whatever the reply scheduled.
arm_execute_confirmation_poll_skipped(t, for_stop, now) == t

arm_execute_confirmation_poll(t, for_stop, now) ==
    LET delay == settle_delay_ms(t.interval, 0, for_stop)
        armed == begin_tracking(t, delay, now)
    IN  IF t.next_update # 0 /\ t.next_update < Plus(now, delay)
        THEN set_next_update(armed, t.next_update)
        ELSE armed

-----------------------------------------------------------------------------
StatusQueued(q, d) == Pending(q, {"REQUEST_STATUS"}, d) # {}
ControlQueued(q, d) == Pending(q, DeviceControlTypes, d) # {}

\* Something the hub has in hand will make it ask the device again.
FollowUp(q, t, tm, d) ==
    \/ ControlQueued(q, d)
    \/ is_tracking_active(t, millis) /\ (t.next_update # 0 \/ StatusQueued(q, d) \/ tm # Never)

Init ==
    /\ clock = Boot
    /\ pc = "idle"
    /\ budget = Budget
    /\ queue = <<>>
    /\ tracking = [d \in Devices |-> [interval |-> Interval[d], next_update |-> 0, poll_deadline |-> 0,
                                      status_poll_failures |-> 0, auth_poll_failures |-> 0]]
    /\ timer = [d \in Devices |-> Never]
    /\ \E b \in [Devices -> Bindings] :
         dev = [d \in Devices |-> IoDevice(b[d].entity, b[d].type, b[d].optimistic)]
    /\ first_1w = 0 /\ last_1w = 0 /\ last_1w_logged = <<>>
    /\ \E p \in Parked : phys = [d \in Devices |-> [at |-> p, goal |-> p]]
    /\ excused = [d \in Devices |-> TRUE]
    /\ backed = [d \in Devices |-> FALSE]

Spend ==
    /\ pc = "idle" /\ clock < MaxClock /\ budget > 0 /\ Len(queue) < MaxLen
    /\ budget' = budget - 1
    /\ UNCHANGED <<clock, pc>>

-----------------------------------------------------------------------------
(* Entities, buttons and API actions between two runs of loop().           *)

queue_guard_rejects(d, guard) ==
    ~CASE guard = "TILT" -> known_device_accepts_execute_tilt(dev[d])
       [] guard = "STATUS" -> known_device_supports_status_requests(dev[d])
       [] OTHER -> known_device_matches_entity_class(dev[d], guard)

\* IOHomeCover::control: predict, then queue; a refused command is rolled back at once.
Control(d, predicted, guard, queued) ==
    /\ Spend
    /\ dev[d].entity = "cover"
    /\ \/ /\ ~queue_guard_rejects(d, guard)
          /\ dev' = [dev EXCEPT ![d] = predicted]
          /\ queue' = queued
          /\ UNCHANGED backed
       \/ /\ queue_guard_rejects(d, guard)
          /\ dev' = [dev EXCEPT ![d] = rollback_optimistic(predicted)]
          /\ backed' = [backed EXCEPT ![d] = FALSE]
          /\ UNCHANGED queue
    /\ UNCHANGED <<tracking, timer, oneway, phys, excused>>

SetPosition(d, p) ==
    Control(d, apply_optimistic_target(dev[d], p), "COVER", enqueue_set_position(queue, d, p))

SetTilt(d, t) ==
    Control(d, apply_optimistic_tilt(dev[d], t), "TILT", enqueue_set_tilt(queue, d, t))

SetPositionAndTilt(d, p, t) ==
    /\ device_supports_tilt(dev[d].type)
    /\ Control(d, apply_optimistic_tilt(apply_optimistic_target(dev[d], p), t), "TILT",
               enqueue_set_position_and_tilt(queue, d, p, t))

Stop(d) ==
    Control(d, apply_optimistic_stop(dev[d]), "COVER", enqueue_device_command(queue, d, "STOP"))

\* Lights, locks and switches queue without predicting; a refusal changes nothing.
Write(d, entities, class, queued) ==
    /\ Spend
    /\ dev[d].entity \in entities
    /\ queue' = IF queue_guard_rejects(d, class) THEN queue ELSE queued
    /\ UNCHANGED <<tracking, timer, oneway, phys, backed>>

\* A light shows what it was told, and is not told of a refusal.
SetLight(d, p) ==
    /\ Write(d, {"light", "dimmable light"}, "LIGHT", enqueue_set_light_position(queue, d, p))
    /\ dev' = [dev EXCEPT ![d].shown.position = p]
    /\ excused' = [excused EXCEPT ![d] = @ \/ queue_guard_rejects(d, "LIGHT")]

SetLock(d, locked) ==
    /\ Write(d, {"lock"}, "LOCK", enqueue_set_lock_state(queue, d, locked))
    /\ UNCHANGED <<dev, excused>>

SetSwitch(d, on) ==
    /\ Write(d, {"switch"}, "SWITCH", enqueue_set_switch_state(queue, d, on))
    /\ UNCHANGED <<dev, excused>>

\* The entity's poll after boot, or a refresh.
queue_request_device_status(d) ==
    queue' = IF queue_guard_rejects(d, "STATUS") THEN queue ELSE enqueue_request_status(queue, d)

RequestStatus(d) ==
    /\ Spend
    /\ queue_request_device_status(d)
    /\ UNCHANGED <<tracking, timer, dev, oneway, phys, excused, backed>>

RequestName(d) ==
    /\ Spend
    /\ queue' = enqueue_request_name(queue, d)
    /\ UNCHANGED <<tracking, timer, dev, oneway, phys, excused, backed>>

\* A 1W command button of one of the hub's own controller identities.
PressOneway ==
    /\ Spend
    /\ queue' = enqueue_oneway_command(queue, NoDevice, "STOP")
    /\ UNCHANGED <<tracking, timer, dev, oneway, phys, excused, backed>>

\* queue_discover_and_pair flushes polls whose next_update is already consumed.
Pair ==
    /\ Spend
    /\ queue' = enqueue_discover_and_pair(queue)
    /\ excused' = [d \in Devices |-> excused[d] \/ (StatusQueued(queue, d) /\ ~StatusQueued(queue', d))]
    /\ UNCHANGED <<tracking, timer, dev, oneway, phys, backed>>

\* The set_timeout callback of schedule_status_poll_.
TimeoutFires(d) ==
    /\ pc = "idle"
    /\ timer[d] # Never /\ timer[d] <= clock
    /\ timer' = [timer EXCEPT ![d] = Never]
    /\ queue_request_device_status(d)
    /\ excused' = [excused EXCEPT ![d] = @ \/ queue_guard_rejects(d, "STATUS")]
    /\ UNCHANGED <<loopVars, tracking, dev, oneway, phys, backed>>

-----------------------------------------------------------------------------
(* The world: devices move, and someone may use a remote the hub misses.  *)

Arrive(d) ==
    /\ pc = "idle"
    /\ phys[d].at # phys[d].goal
    /\ phys' = [phys EXCEPT ![d].at = phys[d].goal]
    /\ UNCHANGED <<loopVars, queue, tracking, timer, dev, oneway, excused, backed>>

\* The press happens while the hub is deaf (in an exchange) or out of range.
UnheardPress(d, p) ==
    /\ Spend
    /\ phys' = [phys EXCEPT ![d].goal = p]
    /\ excused' = [excused EXCEPT ![d] = @ \/ ~FollowUp(queue, tracking[d], timer[d], d)]
    /\ UNCHANGED <<queue, tracking, timer, dev, oneway, backed>>

-----------------------------------------------------------------------------
(* loop(), first part: process_received_packet_ of one packet, or none.    *)

ReceiveNothing ==
    /\ pc = "idle" /\ clock < MaxClock
    /\ pc' = "dispatch"
    /\ UNCHANGED <<clock, budget, queue, tracking, timer, dev, oneway, phys, excused, backed>>

oneway_burst_started_fresh(now) == last_1w = 0 \/ (now - last_1w) % Wrap >= ONEWAY_QUIET_PERIOD_MS

record_1w_activity(now) ==
    /\ first_1w' = IF oneway_burst_started_fresh(now) THEN now ELSE first_1w
    /\ last_1w' = now

is_duplicate_1w_frame(sender, intent) ==
    /\ last_1w_logged # <<>>
    /\ last_1w_logged[1] = sender /\ last_1w_logged[2] = intent
    /\ (millis - last_1w_logged[3]) % Wrap < ONEWAY_DEDUP_WINDOW_MS

Receive ==
    /\ pc = "idle" /\ clock < MaxClock /\ budget > 0
    /\ pc' = "dispatch"
    /\ budget' = budget - 1
    /\ UNCHANGED clock

GoalOf(d, intent) == IF intent = POS_STOP THEN phys[d].at ELSE intent

\* A frame of a 1W remote that is not linked to any device.
ReceiveStranger ==
    /\ Strangers
    /\ Receive
    /\ record_1w_activity(millis)
    /\ last_1w_logged' = IF is_duplicate_1w_frame("stranger", POS_STOP)
                         THEN last_1w_logged ELSE <<"stranger", POS_STOP, millis>>
    /\ UNCHANGED <<queue, tracking, timer, dev, phys, excused, backed>>

(***************************************************************************)
(* A frame of a linked 1W remote, which every device obeys.  Unless it is  *)
(* a repeat: predict, track, and schedule a poll of every linked device.   *)
(***************************************************************************)
ReceiveLinkedRemote(intent) ==
    /\ Receive
    /\ record_1w_activity(millis)
    /\ phys' = [d \in Devices |-> [phys[d] EXCEPT !.goal = GoalOf(d, intent)]]
    /\ IF is_duplicate_1w_frame("linked", intent)
       THEN /\ excused' = [d \in Devices |->
                excused[d] \/ (phys'[d] # phys[d] /\ ~FollowUp(queue, tracking[d], timer[d], d))]
            /\ UNCHANGED <<last_1w_logged, dev, tracking, timer, backed>>
       ELSE /\ last_1w_logged' = <<"linked", intent, millis>>
            /\ dev' = [d \in Devices |->
                        IF intent = POS_STOP THEN apply_optimistic_stop(dev[d])
                        ELSE apply_optimistic_target(dev[d], intent)]
            /\ backed' = [d \in Devices |-> TRUE]
            /\ tracking' = [d \in Devices |-> begin_tracking(tracking[d], 0, millis)]
            /\ timer' = [d \in Devices |->
                            clock + IF intent = POS_STOP THEN 0 ELSE REMOTE_ACTIVITY_STATUS_POLL_DELAY_MS]
            /\ excused' = [d \in Devices |-> FALSE]
    /\ UNCHANGED <<queue>>

\* A 2W frame of another controller to a registered device: track and poll it.
ReceiveRemoteActivity(d, p) ==
    /\ Receive
    /\ phys' = [phys EXCEPT ![d].goal = p]
    /\ tracking' = [tracking EXCEPT ![d] = begin_tracking(@, 0, millis)]
    /\ timer' = [timer EXCEPT ![d] = clock + REMOTE_ACTIVITY_STATUS_POLL_DELAY_MS]
    /\ excused' = [excused EXCEPT ![d] = FALSE]
    /\ UNCHANGED <<queue, dev, oneway, backed>>

\* CMD_STATUS_UPDATE to this hub that passes authenticate_request_ (the others are ignored).
ReceiveStatusUpdate(d, r) ==
    /\ Receive
    /\ LET v == decode_status_fields(dev[d], [r EXCEPT !.extended = FALSE])
       IN  /\ dev' = [dev EXCEPT ![d] = notify(v)]
           /\ tracking' = [tracking EXCEPT ![d] = PolicyAfterStatusUpdate(@, v, millis)]
           /\ excused' = [excused EXCEPT ![d] = @ \/ (~effective_is_stopped(v) /\ tracking'[d].poll_deadline = 0)]
           /\ backed' = [backed EXCEPT ![d] = @ /\ v.optimistic.tilt # UNKNOWN]
    /\ UNCHANGED <<queue, timer, oneway, phys>>

-----------------------------------------------------------------------------
(* loop(), second part: process_pending_operation_ unless deferred.        *)

defer_background_poll ==
    /\ queue # <<>> /\ is_background_op(Head(queue))
    /\ last_1w # 0
    /\ (millis - first_1w) % Wrap < ONEWAY_POLL_DEFER_CAP_MS
    /\ (millis - last_1w) % Wrap < ONEWAY_QUIET_PERIOD_MS

DispatchNothing ==
    /\ pc = "dispatch"
    /\ queue = <<>> \/ defer_background_poll
    /\ pc' = "due"
    /\ UNCHANGED <<clock, budget, queue, tracking, timer, dev, oneway, phys, excused, backed>>

\* Pop the head and block in an exchange for some time.
Dispatch(types) ==
    /\ pc = "dispatch"
    /\ queue # <<>> /\ ~defer_background_poll
    /\ Head(queue).type \in types
    /\ pc' = "due"
    /\ queue' = Tail(queue)
    /\ \E spent \in 0..ExchangeTime : clock' = clock + spent
    /\ UNCHANGED budget

Target == Head(queue).id
Started == begin_tracking(tracking[Target], Interval[Target], millis)

\* set_lock_state and set_switch_state take the position for a state and turn it back into one.
BinarySent(op) ==
    IF \/ op.type = "SET_LOCK_STATE" /\ op.position = BINARY_ENTITY_OFF_POSITION
       \/ op.type = "SET_SWITCH_STATE" /\ op.position # BINARY_ENTITY_ON_POSITION
    THEN BINARY_ENTITY_OFF_POSITION ELSE BINARY_ENTITY_ON_POSITION

\* What the EXECUTE frame says of the main axis; UNKNOWN for a tilt alone.
MainSent(op) ==
    CASE op.type = "DEVICE_COMMAND" -> POS_STOP
      [] op.type = "SET_TILT" -> UNKNOWN
      [] op.type \in {"SET_LOCK_STATE", "SET_SWITCH_STATE"} -> BinarySent(op)
      [] OTHER -> op.position

IsStop == MainSent(Head(queue)) = POS_STOP

Obeyed ==
    [phys EXCEPT ![Target].goal = IF MainSent(Head(queue)) = UNKNOWN THEN @
                                  ELSE GoalOf(Target, MainSent(Head(queue)))]

(***************************************************************************)
(* run_execute_operation_ when the exchange FAILED or was refused with     *)
(* CMD_ERROR_RESP: withdraw the prediction, retry the poll later.          *)
(***************************************************************************)
ExecuteFails ==
    /\ Dispatch(DeviceControlTypes)
    /\ \E auth_like \in BOOLEAN :
         tracking' = [tracking EXCEPT ![Target] = on_exchange_failed(Started, auth_like, millis')]
    /\ dev' = [dev EXCEPT ![Target] = rollback_optimistic(notify(@))]
    /\ backed' = [backed EXCEPT ![Target] = FALSE]
    /\ excused' = [excused EXCEPT ![Target] = tracking'[Target].poll_deadline = 0]
    /\ UNCHANGED <<timer, oneway, phys>>

\* SUCCESS_UNCONFIRMED: the device may or may not have taken the command.
ExecuteUnconfirmed ==
    /\ Dispatch(DeviceControlTypes)
    /\ phys' \in {phys, Obeyed}
    /\ tracking' = [tracking EXCEPT ![Target] = arm_execute_confirmation_poll(Started, IsStop, millis')]
    /\ dev' = [dev EXCEPT ![Target] = notify(@)]
    /\ backed' = [backed EXCEPT ![Target] = TRUE]
    /\ excused' = [excused EXCEPT ![Target] = FALSE]
    /\ UNCHANGED <<timer, oneway>>

\* SUCCESS_WITH_RESPONSE: a status reply whose positions are not trusted.
ExecuteAcknowledged ==
    /\ Dispatch(DeviceControlTypes)
    /\ phys' = Obeyed
    /\ \E stopped \in BOOLEAN, hint \in Hints :
         LET v == apply_private_response_status(dev[Target], [stopped |-> stopped], FALSE)
         IN  /\ dev' = [dev EXCEPT ![Target] = notify(v)]
             /\ tracking' = [tracking EXCEPT ![Target] =
                    arm_execute_confirmation_poll(PolicyAfterReply(Started, v, hint, millis'), IsStop, millis')]
    /\ backed' = [backed EXCEPT ![Target] = TRUE]
    /\ excused' = [excused EXCEPT ![Target] = FALSE]
    /\ UNCHANGED <<timer, oneway>>

Managed == is_tracking_active(tracking[Target], millis)

\* request_device_status without a usable answer: back off only inside a window.
StatusFails ==
    /\ Dispatch({"REQUEST_STATUS"})
    /\ \E auth_like \in BOOLEAN :
         tracking' = [tracking EXCEPT ![Target] = IF Managed THEN on_exchange_failed(@, auth_like, millis') ELSE @]
    /\ dev' = [dev EXCEPT ![Target] = notify(@)]
    /\ excused' = [excused EXCEPT ![Target] = @ \/ tracking'[Target].poll_deadline = 0]
    /\ UNCHANGED <<timer, oneway, phys, backed>>

StatusReported ==
    /\ Dispatch({"REQUEST_STATUS"})
    /\ \E r \in Reports(Target) :
         LET v == apply_private_response_status(dev[Target], r, TRUE)
             t == IF Managed THEN clear_failure_streaks(tracking[Target]) ELSE tracking[Target]
         IN  /\ dev' = [dev EXCEPT ![Target] = notify(v)]
             /\ tracking' = [tracking EXCEPT ![Target] = PolicyAfterReply(t, v, r.hint, millis')]
             /\ excused' = [excused EXCEPT ![Target] =
                    @ \/ (~effective_is_stopped(v) /\ tracking'[Target].poll_deadline = 0)]
             /\ backed' = [backed EXCEPT ![Target] = @ /\ v.optimistic.tilt # UNKNOWN]
    /\ UNCHANGED <<timer, oneway, phys>>

\* An answer that is too short, or no status frame, counts as success; a name is shown.
StatusUnusable ==
    /\ Dispatch({"REQUEST_STATUS"})
    /\ tracking' = [tracking EXCEPT ![Target] = IF Managed THEN clear_failure_streaks(@) ELSE @]
    /\ dev' \in {dev, [dev EXCEPT ![Target] = notify(@)]}
    /\ excused' = [excused EXCEPT ![Target] = TRUE]
    /\ UNCHANGED <<timer, oneway, phys, backed>>

\* The outcome, whichever it is, is told to the entities, but for a reply too short to hold a name.
NameAsked ==
    /\ Dispatch({"REQUEST_NAME"})
    /\ dev' \in {dev, [dev EXCEPT ![Target] = notify(@)]}
    /\ UNCHANGED <<tracking, timer, oneway, phys, excused, backed>>

\* Pairing brings in another device.
Paired ==
    /\ Dispatch({"DISCOVER_AND_PAIR"})
    /\ UNCHANGED <<tracking, timer, dev, oneway, phys, excused, backed>>

\* execute_oneway_: the hub's own burst counts as 1W activity.
SendOneway ==
    /\ Dispatch({"ONEWAY_COMMAND"})
    /\ record_1w_activity(millis')
    /\ UNCHANGED <<tracking, timer, dev, last_1w_logged, phys, excused, backed>>

(* loop(), last part: queue the first due poll.  The next run of loop()    *)
(* comes one tick later.                                                   *)
QueueDue ==
    /\ pc = "due"
    /\ pc' = "idle"
    /\ clock' = clock + 1
    /\ tracking' = pop_due_device(tracking, millis)
    /\ LET due == DueDevices(tracking, millis)
       IN  queue' = IF due = {} THEN queue ELSE enqueue_request_status(queue, CHOOSE d \in due : TRUE)
    /\ excused' = [d \in Devices |->
            excused[d] \/ (tracking[d].poll_deadline # 0 /\ ~is_tracking_active(tracking[d], millis'))]
    /\ UNCHANGED <<budget, timer, dev, oneway, phys, backed>>

\* Bound of the model: nothing is started after MaxClock.
Horizon ==
    /\ pc = "idle" /\ clock >= MaxClock
    /\ UNCHANGED vars

Next ==
    \/ \E d \in Devices :
         \/ \E p \in Positions :
              \/ SetPosition(d, p) \/ SetLight(d, p) \/ UnheardPress(d, p) \/ ReceiveRemoteActivity(d, p)
              \/ \E t \in Tilts : SetPositionAndTilt(d, p, t)
         \/ \E t \in Tilts : SetTilt(d, t)
         \/ \E b \in BOOLEAN : SetLock(d, b) \/ SetSwitch(d, b)
         \/ Stop(d) \/ RequestStatus(d) \/ RequestName(d)
         \/ TimeoutFires(d) \/ Arrive(d)
         \/ \E r \in Reports(d) : ReceiveStatusUpdate(d, r)
    \/ PressOneway \/ Pair
    \/ ReceiveNothing \/ ReceiveStranger
    \/ \E intent \in Positions \cup {POS_STOP} : ReceiveLinkedRemote(intent)
    \/ DispatchNothing \/ ExecuteFails \/ ExecuteUnconfirmed \/ ExecuteAcknowledged
    \/ StatusFails \/ StatusReported \/ StatusUnusable \/ NameAsked \/ Paired \/ SendOneway
    \/ QueueDue \/ Horizon

Spec == Init /\ [][Next]_vars
-----------------------------------------------------------------------------

(***************************************************************************)
(* While a device is tracked something always remains to be done for it: a *)
(* scheduled poll, a queued one, a pending timeout or a queued command.    *)
(* begin_tracking with delay 0, consumed next_update fields, deduplicated  *)
(* and dropped polls and cleared streaks never leave a window open with    *)
(* nothing in it, except after a pairing flush or an unusable answer.      *)
(***************************************************************************)
FollowUpNeverLost ==
    pc = "idle" => \A d \in Devices :
        is_tracking_active(tracking[d], millis) /\ ~excused[d] => FollowUp(queue, tracking[d], timer[d], d)

(***************************************************************************)
(* A device at rest of which its entity shows another position, or that it *)
(* moves, is still being followed up, however commands, presses, acks with *)
(* stale flags, early "stopped" reports and failures were interleaved and  *)
(* whatever the entity's callback makes of each; unless the hub could not  *)
(* know (missed press, window expired, device unreachable).                *)
(***************************************************************************)
NoSilentStaleness ==
    pc = "idle" => \A d \in Devices :
        ~excused[d] /\ phys[d].at = phys[d].goal /\ ~ShowsAtRest(dev[d], phys[d].at)
        => FollowUp(queue, tracking[d], timer[d], d)

(***************************************************************************)
(* ADR 0030: a prediction is withdrawn when the command that produced it   *)
(* fails.  One that stands, of movement, target or slats, is that of a     *)
(* command still queued, of a command the device accepted, or of an        *)
(* overheard press.                                                        *)
(***************************************************************************)
PredictionsBacked ==
    pc = "idle" => \A d \in Devices :
        dev[d].optimistic # OptimisticState => backed[d] \/ ControlQueued(queue, d)

(***************************************************************************)
(* ADR 0017: the configured interval (or the default) is a ceiling on the  *)
(* follow-up cadence; only back-off after failures goes beyond it, which a *)
(* reply too short to use leaves in place when it resets their count (the  *)
(* device is excused then).  Times are compared on the ring: more than     *)
(* half of it ahead is overdue.                                            *)
(***************************************************************************)
CadenceCeiling ==
    \A d \in Devices :
        /\ tracking[d].status_poll_failures = 0 /\ tracking[d].auth_poll_failures = 0
        /\ tracking[d].next_update # 0 /\ ~excused[d]
        => LET ahead == (tracking[d].next_update - millis) % Wrap
           IN  2 * ahead < Wrap => ahead <= settle_delay_ms(Interval[d], 0, FALSE)

(***************************************************************************)
(* An accepted STOP is confirmed by a poll within the STOP cap, whatever   *)
(* its acknowledgement said about movement and hints.                      *)
(***************************************************************************)
StopConfirmedPromptly ==
    [][(ExecuteUnconfirmed \/ ExecuteAcknowledged) /\ IsStop =>
          tracking'[Target].next_update \in 1..(millis' + STOP_SETTLE_POLL_CAP_MS)]_vars
=============================================================================
