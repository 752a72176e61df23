------------------------------ MODULE Hub_proofs ------------------------------
(***************************************************************************)
(* Proofs about Hub, for any devices, bindings, delays and bounds, as long *)
(* as millis() is in the first half of its range: no follow-up is lost     *)
(* (FollowUpNeverLost), no entity is silently stale (NoSilentStaleness),   *)
(* predictions are backed (PredictionsBacked), polls keep to the ceiling   *)
(* (CadenceCeiling) and an accepted STOP is confirmed promptly             *)
(* (StopConfirmedPromptly).  And, whatever the time, commands go before    *)
(* the polls (CommandsFirst).                                              *)
(***************************************************************************)
EXTENDS Hub, OperationQueue_proofs, FiniteSetTheorems, FunctionTheorems, SequenceTheorems, TLAPS

-----------------------------------------------------------------------------
(* The invariant.                                                          *)

\* The last instant: an exchange begun before MaxClock ends by it.
LastClock == MaxClock + ExchangeTime

\* Everything the policy ever adds to the clock.
Spans == {MAX_TRACKED_STATUS_POLL_WINDOW_MS, DEFAULT_SETTLE_POLL_DELAY_MS, STOP_SETTLE_POLL_CAP_MS}
         \cup {Interval[d] : d \in Devices}
         \cup {SilentBackoff[i] : i \in DOMAIN SilentBackoff} \cup {AuthBackoff[i] : i \in DOMAIN AuthBackoff}

(***************************************************************************)
(* millis() has wrapped neither at the last instant nor at anything the    *)
(* policy adds to it, and cannot be mistaken for a time half a lap ahead.  *)
(* Around the wrap the code's plain comparisons are wrong, and so would    *)
(* the theorems be.                                                        *)
(***************************************************************************)
FirstHalfLap == Boot <= MaxClock /\ \A span \in Spans : 2 * (LastClock + span) < Wrap

\* The operations there are; all but 1W operations and pairing are for a device.
Operations ==
    {o \in [type : OneWayTypes \cup DeviceControlTypes \cup BackgroundTypes \cup {"DISCOVER_AND_PAIR"},
            id : Devices \cup {NoDevice}, position : 0..100, tilt : 0..100, command : {"STOP"}] :
        o.type \in DeviceControlTypes \cup BackgroundTypes => o.id \in Devices}

\* What a position field may hold.
Degrees == 0..100 \cup {UNKNOWN}

\* Prediction overlays, what entities show, device records and poll trackings.
Overlays == [target : Degrees, tilt : Degrees, motion : {"NONE", "MOVING", "STOPPED"}]
Displays ==
    [position : Degrees, operation : {"IDLE", "OPENING", "CLOSING", "UNLOCKING", "LOCKING"}, tilt : Degrees]
Records ==
    [entity : {b.entity : b \in Bindings}, type : {b.type : b \in Bindings}, optimistic_state : BOOLEAN,
     position : Degrees, tilt : Degrees, target : Degrees, is_stopped : BOOLEAN,
     optimistic : Overlays, shown : Displays]

Trackings ==
    [interval : Nat, next_update : Nat, poll_deadline : Nat, status_poll_failures : Nat, auth_poll_failures : Nat]

\* Times are within the bound, and loop() starts nothing after MaxClock.
ClockInv ==
    /\ clock \in Nat /\ pc \in {"idle", "dispatch", "due"}
    /\ clock <= LastClock /\ (pc = "dispatch" => clock < MaxClock) /\ (pc = "due" => clock < LastClock)

\* The types of the variables.
TypeInv ==
    /\ ClockInv
    /\ queue \in Seq(Operations)
    /\ tracking \in [Devices -> Trackings]
    /\ timer \in [Devices -> Nat \cup {Never}]
    /\ dev \in [Devices -> Records]
    /\ phys \in [Devices -> [at : 0..100, goal : 0..100]]
    /\ excused \in [Devices -> BOOLEAN] /\ backed \in [Devices -> BOOLEAN]

\* The configured interval, or the default: what CadenceCeiling allows.
Ceiling(d) == IF Interval[d] # 0 THEN Interval[d] ELSE DEFAULT_SETTLE_POLL_DELAY_MS

\* Known, and shown, to rest at a position, with no movement predicted.
AtRest(v, position) ==
    /\ ShowsAtRest(v, position)
    /\ v.position = position /\ v.is_stopped = TRUE /\ v.optimistic.motion = "NONE"

\* The device rests where the hub has it.
Settled(d) == phys[d].at = phys[d].goal /\ AtRest(dev[d], phys[d].at)

\* The device is tracked (is_tracking_active, before the wrap).
InWindow(d) == tracking[d].poll_deadline # 0 /\ clock <= tracking[d].poll_deadline

(***************************************************************************)
(* What holds of a device's follow-up between any two steps: a poll that   *)
(* is scheduled is within the ceiling, unless retried after failures; an   *)
(* open window has something in it; a window that is set is open, but for  *)
(* loop()'s last part, which comes after the exchange and before what ran  *)
(* out is cleared; a prediction is backed; and the device is settled,      *)
(* tracked or about to be commanded.                                       *)
(***************************************************************************)
DeviceInv(d) ==
    /\ tracking[d].interval = Interval[d]
    /\ tracking[d].status_poll_failures = 0 /\ tracking[d].auth_poll_failures = 0 /\ ~excused[d]
       => tracking[d].next_update <= clock + Ceiling(d)
    /\ InWindow(d) /\ ~excused[d]
       => \/ tracking[d].next_update # 0 \/ timer[d] # Never
          \/ ControlQueued(queue, d) \/ StatusQueued(queue, d)
    /\ pc # "due" /\ tracking[d].poll_deadline # 0 /\ ~excused[d] => InWindow(d)
    /\ dev[d].optimistic # OptimisticState => backed[d] \/ ControlQueued(queue, d)
    /\ ~excused[d] => Settled(d) \/ tracking[d].poll_deadline # 0 \/ ControlQueued(queue, d)

\* The inductive invariant.
IInv == TypeInv /\ \A d \in Devices : DeviceInv(d)

-----------------------------------------------------------------------------
(* The queue.                                                              *)

\* Whether something is queued depends on what the queue holds, not on where.
LEMMA Queued ==
    ASSUME NEW q, NEW d
    PROVE  /\ ControlQueued(q, d) <=> \E o \in Held(q) : o.type \in DeviceControlTypes /\ o.id = d
           /\ StatusQueued(q, d) <=> \E o \in Held(q) : o.type = "REQUEST_STATUS" /\ o.id = d
  BY DEF ControlQueued, StatusQueued, Pending, Held

\* What one queue has of the operations for a device another has too.
KeepsControls(q, r) == \A d \in Devices : ControlQueued(q, d) => ControlQueued(r, d)
KeepsPolls(q, r, D) == \A d \in D : StatusQueued(q, d) => StatusQueued(r, d)

\* A queue that holds whatever another one holds, whatever it holds besides.
LEMMA MoreKeeps ==
    ASSUME NEW q, NEW r, Held(q) \subseteq Held(r)
    PROVE  KeepsControls(q, r) /\ KeepsPolls(q, r, Devices)
  BY Queued DEF KeepsControls, KeepsPolls

\* A pushed control operation is queued; at most the polls of its device are gone.
LEMMA ControlPush ==
    ASSUME NEW q \in Seq(Operations), NEW op \in Operations, op.type \in DeviceControlTypes
    PROVE  LET r == push_control(q, op) IN
           /\ r \in Seq(Operations)
           /\ KeepsControls(q, r) /\ KeepsPolls(q, r, Devices \ {op.id}) /\ ControlQueued(r, op.id)
  <1> DEFINE r == push_control(q, op)
  <1>1. /\ r \in Seq(Operations)
        /\ Held(r) = {op} \cup {o \in Held(q) : addresses_a_device(op) => ~IsStatusOf(o, op.id)}
    BY PushHolds
  <1> HIDE DEF r
  <1>2. \A o \in Held(q) : o.type \in DeviceControlTypes => o \in Held(r)
    BY <1>1 DEF IsStatusOf, DeviceControlTypes
  <1>3. \A o \in Held(q) : o.type = "REQUEST_STATUS" /\ o.id # op.id => o \in Held(r)
    BY <1>1 DEF IsStatusOf
  <1>4. op \in Held(r)
    BY <1>1
  <1>5. ControlQueued(r, op.id)
    BY <1>4, Queued
  <1>6. KeepsControls(q, r)
    BY <1>2, Queued DEF KeepsControls
  <1>7. KeepsPolls(q, r, Devices \ {op.id})
    BY <1>3, Queued DEF KeepsPolls
  <1>8. QED
    BY <1>1, <1>5, <1>6, <1>7 DEF r

\* A pushed 1W operation drops nothing.
LEMMA OnewayPush ==
    ASSUME NEW q \in Seq(Operations), NEW op \in Operations, IsOneway(op)
    PROVE  LET r == push_control(q, op) IN
           r \in Seq(Operations) /\ KeepsControls(q, r) /\ KeepsPolls(q, r, Devices)
  <1>1. /\ push_control(q, op) \in Seq(Operations)
        /\ Held(push_control(q, op)) =
             {op} \cup {o \in Held(q) : addresses_a_device(op) => ~IsStatusOf(o, op.id)}
    BY PushHolds
  <1>2. Held(q) \subseteq Held(push_control(q, op))
    BY <1>1 DEF addresses_a_device
  <1>3. QED
    BY <1>1, <1>2, MoreKeeps

\* An appended operation drops nothing.
LEMMA AppendKeeps ==
    ASSUME NEW q \in Seq(Operations), NEW op \in Operations
    PROVE  LET r == Append(q, op) IN
           /\ r \in Seq(Operations) /\ KeepsControls(q, r) /\ KeepsPolls(q, r, Devices)
           /\ op.type = "REQUEST_STATUS" => StatusQueued(r, op.id)
  <1> DEFINE r == Append(q, op)
  <1>1. /\ r \in Seq(Operations) /\ Len(r) = Len(q) + 1 /\ r[Len(q) + 1] = op
        /\ \A i \in 1..Len(q) : r[i] = q[i]
    BY AppendProperties
  <1>2. /\ Len(q) \in Nat /\ DOMAIN q = 1..Len(q) /\ DOMAIN r = 1..Len(q) + 1
    BY <1>1, QueueIndices
  <1> HIDE DEF r
  <1>3. Held(q) \subseteq Held(r) /\ op \in Held(r)
    <2>1. \A i \in DOMAIN q : i \in DOMAIN r /\ r[i] = q[i]
      BY <1>1, <1>2
    <2>2. Len(q) + 1 \in DOMAIN r
      BY <1>2
    <2>3. QED
      BY <1>1, <2>1, <2>2 DEF Held
  <1>4. op.type = "REQUEST_STATUS" => StatusQueued(r, op.id)
    BY <1>3, Queued
  <1>5. KeepsControls(q, r) /\ KeepsPolls(q, r, Devices)
    BY <1>3, MoreKeeps
  <1>6. QED
    BY <1>1, <1>4, <1>5 DEF r

\* A command merged into a queued one of the same device drops nothing.
LEMMA MergeKeepsAll ==
    ASSUME NEW q \in Seq(Operations), NEW i \in DOMAIN q, NEW o \in Operations,
           q[i].type \in DeviceControlTypes, o.type \in DeviceControlTypes, o.id = q[i].id
    PROVE  LET r == [q EXCEPT ![i] = o] IN
           /\ r \in Seq(Operations)
           /\ KeepsControls(q, r) /\ KeepsPolls(q, r, Devices) /\ ControlQueued(r, o.id)
  <1> DEFINE r == [q EXCEPT ![i] = o]
  <1>1. r \in Seq(Operations)
    BY ExceptSeq
  <1>2. DOMAIN r = DOMAIN q /\ \A j \in DOMAIN q : r[j] = IF j = i THEN o ELSE q[j]
    OBVIOUS
  <1> HIDE DEF r
  <1>3. o \in Held(r)
    BY <1>2 DEF Held
  <1>4. \A p \in Held(q) : p \in Held(r) \/ p = q[i]
    BY <1>2 DEF Held
  <1>5. ControlQueued(r, o.id)
    BY <1>3, Queued
  <1>6. KeepsControls(q, r)
    BY <1>4, <1>5, Queued DEF KeepsControls
  <1>7. q[i].type # "REQUEST_STATUS"
    BY DEF DeviceControlTypes
  <1>8. KeepsPolls(q, r, Devices)
    BY <1>4, <1>7, Queued DEF KeepsPolls
  <1>9. QED
    BY <1>1, <1>5, <1>6, <1>8 DEF r

\* Pairing flushes polls, never commands.
LEMMA PairKeeps ==
    ASSUME NEW q \in Seq(Operations)
    PROVE  enqueue_discover_and_pair(q) \in Seq(Operations) /\ KeepsControls(q, enqueue_discover_and_pair(q))
  <1> DEFINE foreground == {i \in DOMAIN q : ~is_background_op(q[i])}
             op   == Op("DISCOVER_AND_PAIR", NoDevice, 0)
             kept == Select(q, foreground)
             r    == <<op>> \o kept
  <1>1. CASE \E i \in DOMAIN q : q[i].type = "DISCOVER_AND_PAIR"
    BY <1>1 DEF enqueue_discover_and_pair, KeepsControls
  <1>2. CASE ~\E i \in DOMAIN q : q[i].type = "DISCOVER_AND_PAIR"
    <2>1. kept \in Seq(Operations) /\ Held(kept) = {q[i] : i \in foreground}
      BY SelectHolds
    <2>2. op \in Operations
      BY DEF Op, Operations, OneWayTypes, DeviceControlTypes, BackgroundTypes, NoDevice
    <2>3. <<op>> \in Seq(Operations) /\ Len(<<op>>) = 1
      BY <2>2
    <2>4. Held(q) \cap {o \in Operations : ~is_background_op(o)} \subseteq Held(kept)
      BY <2>1 DEF Held
    <2> HIDE DEF kept, op
    <2>5. /\ r \in Seq(Operations) /\ Len(r) = Len(<<op>>) + Len(kept)
          /\ \A i \in 1..Len(<<op>>) + Len(kept) :
                r[i] = IF i <= Len(<<op>>) THEN <<op>>[i] ELSE kept[i - Len(<<op>>)]
      BY <2>1, <2>3, ConcatProperties
    <2>6. Len(kept) \in Nat /\ DOMAIN kept = 1..Len(kept) /\ DOMAIN r = 1..1 + Len(kept)
      BY <2>1, <2>3, <2>5, QueueIndices
    <2> HIDE DEF r
    <2>7. ASSUME NEW i \in DOMAIN kept PROVE i + 1 \in DOMAIN r /\ r[i + 1] = kept[i]
      BY <2>3, <2>5, <2>6
    <2>8. Held(kept) \subseteq Held(r)
      BY <2>7 DEF Held
    <2>9. Held(q) \subseteq Operations
      BY QueueIndices DEF Held
    <2>10. \A o \in Held(q) : o.type \in DeviceControlTypes => o \in Held(r)
      BY <2>4, <2>8, <2>9 DEF is_background_op, DeviceControlTypes, BackgroundTypes
    <2>11. KeepsControls(q, r)
      BY <2>10, Queued DEF KeepsControls
    <2>12. enqueue_discover_and_pair(q) = r
      BY <1>2 DEF enqueue_discover_and_pair, r, kept, op
    <2>13. QED
      BY <2>5, <2>11, <2>12
  <1>3. QED
    BY <1>1, <1>2

\* The operation that is popped is all that leaves the queue.
LEMMA TailKeeps ==
    ASSUME NEW q \in Seq(Operations), q # <<>>
    PROVE  /\ Head(q) \in Operations /\ Tail(q) \in Seq(Operations)
           /\ \A d \in Devices :
                /\ ControlQueued(q, d) /\ ~(Head(q).type \in DeviceControlTypes /\ Head(q).id = d)
                   => ControlQueued(Tail(q), d)
                /\ StatusQueued(q, d) /\ ~(Head(q).type = "REQUEST_STATUS" /\ Head(q).id = d)
                   => StatusQueued(Tail(q), d)
  <1> DEFINE r == Tail(q)
  <1>1. /\ Head(q) \in Operations /\ r \in Seq(Operations) /\ Len(r) = Len(q) - 1
        /\ \A i \in 1..Len(r) : r[i] = q[i + 1]
    BY HeadTailProperties
  <1>2. Head(q) = q[1] /\ Len(q) \in Nat /\ DOMAIN q = 1..Len(q) /\ DOMAIN r = 1..Len(r)
    BY <1>1, QueueIndices
  <1> HIDE DEF r
  <1>3. ASSUME NEW i \in DOMAIN q PROVE q[i] = Head(q) \/ q[i] \in Held(r)
    <2>1. CASE i = 1
      BY <1>2, <2>1
    <2>2. CASE i # 1
      <3>1. i - 1 \in 1..Len(r) /\ (i - 1) + 1 = i
        BY <1>1, <1>2, <2>2
      <3>2. r[i - 1] = q[i]
        BY <1>1, <3>1
      <3>3. QED
        BY <1>2, <3>1, <3>2 DEF Held
    <2>3. QED
      BY <2>1, <2>2
  <1>4. \A o \in Held(q) : o = Head(q) \/ o \in Held(r)
    BY <1>3 DEF Held
  <1>5. ASSUME NEW d \in Devices
        PROVE  /\ ControlQueued(q, d) /\ ~(Head(q).type \in DeviceControlTypes /\ Head(q).id = d)
                  => ControlQueued(r, d)
               /\ StatusQueued(q, d) /\ ~(Head(q).type = "REQUEST_STATUS" /\ Head(q).id = d)
                  => StatusQueued(r, d)
    BY <1>4, Queued
  <1>6. QED
    BY <1>1, <1>5 DEF r

-----------------------------------------------------------------------------
(* The enqueue operations.                                                 *)

\* What a command leaves in the queue.
Commanded(q, r, d) ==
    /\ r \in Seq(Operations)
    /\ KeepsControls(q, r) /\ KeepsPolls(q, r, Devices \ {d}) /\ ControlQueued(r, d)

\* A command that is pushed.
LEMMA PushCommands ==
    ASSUME NEW q \in Seq(Operations), NEW op \in Operations, op.type \in DeviceControlTypes
    PROVE  Commanded(q, push_control(q, op), op.id)
  BY ControlPush DEF Commanded

\* A command that is merged.
LEMMA MergeCommands ==
    ASSUME NEW q \in Seq(Operations), NEW i \in DOMAIN q, NEW o \in Operations,
           q[i].type \in DeviceControlTypes, o.type \in DeviceControlTypes, o.id = q[i].id
    PROVE  Commanded(q, [q EXCEPT ![i] = o], o.id)
  BY MergeKeepsAll DEF Commanded, KeepsPolls

\* The queued operation a command is merged into.
LEMMA FirstPending ==
    ASSUME NEW q \in Seq(Operations), NEW types, NEW d, Pending(q, types, d) # {}
    PROVE  LET i == First(Pending(q, types, d)) IN i \in DOMAIN q /\ q[i].type \in types /\ q[i].id = d
  <1>1. Len(q) \in Nat /\ Pending(q, types, d) \subseteq 1..Len(q)
    BY QueueIndices DEF Pending
  <1>2. First(Pending(q, types, d)) \in Pending(q, types, d)
    BY <1>1, FirstIsFirst
  <1>3. QED
    BY <1>2 DEF Pending

\* enqueue_set_position, pushed or merged into a tilt.
LEMMA SetPositionCommands ==
    ASSUME NEW q \in Seq(Operations), NEW d \in Devices, NEW position \in 0..100
    PROVE  Commanded(q, enqueue_set_position(q, d, position), d)
  <1> DEFINE tilts == Pending(q, {"SET_TILT"}, d)
             i == First(tilts)
             o == [q[i] EXCEPT !.type = "SET_POSITION_AND_TILT", !.position = position, !.tilt = q[i].position]
  <1>1. CASE tilts # {}
    <2>1. i \in DOMAIN q /\ q[i].type = "SET_TILT" /\ q[i].id = d
      BY <1>1, FirstPending
    <2>2. q[i] \in Operations
      BY <2>1, QueueIndices
    <2> HIDE DEF i
    <2>3. o \in Operations /\ o.type = "SET_POSITION_AND_TILT" /\ o.id = d
      BY <2>1, <2>2 DEF Operations, DeviceControlTypes
    <2>4. [q EXCEPT ![i].type = "SET_POSITION_AND_TILT", ![i].position = position, ![i].tilt = q[i].position]
          = [q EXCEPT ![i] = o]
      BY <2>1, <2>2 DEF Operations
    <2>5. enqueue_set_position(q, d, position) = [q EXCEPT ![i] = o]
      BY <1>1, <2>4 DEF enqueue_set_position, i
    <2> HIDE DEF o
    <2>6. Commanded(q, [q EXCEPT ![i] = o], d)
      BY <2>1, <2>3, MergeCommands DEF DeviceControlTypes
    <2>7. QED
      BY <2>5, <2>6
  <1>2. CASE tilts = {}
    <2>1. Op("SET_POSITION", d, position) \in Operations
          /\ Op("SET_POSITION", d, position).type \in DeviceControlTypes
          /\ Op("SET_POSITION", d, position).id = d
      BY DEF Op, Operations, DeviceControlTypes
    <2>2. QED
      BY <1>2, <2>1, PushCommands DEF enqueue_set_position
  <1>3. QED
    BY <1>1, <1>2

\* enqueue_set_tilt, pushed or merged into a position.
LEMMA SetTiltCommands ==
    ASSUME NEW q \in Seq(Operations), NEW d \in Devices, NEW tilt \in 0..100
    PROVE  Commanded(q, enqueue_set_tilt(q, d, tilt), d)
  <1> DEFINE positions == Pending(q, {"SET_POSITION"}, d)
             i == First(positions)
             o == [q[i] EXCEPT !.type = "SET_POSITION_AND_TILT", !.tilt = tilt]
  <1>1. CASE positions # {}
    <2>1. i \in DOMAIN q /\ q[i].type = "SET_POSITION" /\ q[i].id = d
      BY <1>1, FirstPending
    <2>2. q[i] \in Operations
      BY <2>1, QueueIndices
    <2> HIDE DEF i
    <2>3. o \in Operations /\ o.type = "SET_POSITION_AND_TILT" /\ o.id = d
      BY <2>1, <2>2 DEF Operations, DeviceControlTypes
    <2>4. [q EXCEPT ![i].type = "SET_POSITION_AND_TILT", ![i].tilt = tilt] = [q EXCEPT ![i] = o]
      BY <2>1, <2>2 DEF Operations
    <2>5. enqueue_set_tilt(q, d, tilt) = [q EXCEPT ![i] = o]
      BY <1>1, <2>4 DEF enqueue_set_tilt, i
    <2> HIDE DEF o
    <2>6. Commanded(q, [q EXCEPT ![i] = o], d)
      BY <2>1, <2>3, MergeCommands DEF DeviceControlTypes
    <2>7. QED
      BY <2>5, <2>6
  <1>2. CASE positions = {}
    <2>1. Op("SET_TILT", d, tilt) \in Operations
          /\ Op("SET_TILT", d, tilt).type \in DeviceControlTypes
          /\ Op("SET_TILT", d, tilt).id = d
      BY DEF Op, Operations, DeviceControlTypes
    <2>2. QED
      BY <1>2, <2>1, PushCommands DEF enqueue_set_tilt
  <1>3. QED
    BY <1>1, <1>2

\* The other commands are always operations of their own.
LEMMA OtherCommands ==
    ASSUME NEW q \in Seq(Operations), NEW d \in Devices, NEW p \in 0..100, NEW t \in 0..100, NEW b \in BOOLEAN
    PROVE  /\ Commanded(q, enqueue_set_position_and_tilt(q, d, p, t), d)
           /\ Commanded(q, enqueue_device_command(q, d, "STOP"), d)
           /\ Commanded(q, enqueue_set_light_position(q, d, p), d)
           /\ Commanded(q, enqueue_set_lock_state(q, d, b), d)
           /\ Commanded(q, enqueue_set_switch_state(q, d, b), d)
  <1>1. ASSUME NEW type \in DeviceControlTypes, NEW x \in 0..100
        PROVE  Commanded(q, push_control(q, Op(type, d, x)), d)
    <2>1. Op(type, d, x) \in Operations /\ Op(type, d, x).type = type /\ Op(type, d, x).id = d
      BY DEF Op, Operations
    <2>2. QED
      BY <2>1, PushCommands
  <1>2. Commanded(q, enqueue_set_position_and_tilt(q, d, p, t), d)
    <2> DEFINE op == [Op("SET_POSITION_AND_TILT", d, p) EXCEPT !.tilt = t]
    <2>1. op \in Operations /\ op.type \in DeviceControlTypes /\ op.id = d
      BY DEF Op, Operations, DeviceControlTypes
    <2>2. QED
      BY <2>1, PushCommands DEF enqueue_set_position_and_tilt
  <1>3. Commanded(q, enqueue_device_command(q, d, "STOP"), d)
    <2> DEFINE op == [Op("DEVICE_COMMAND", d, 0) EXCEPT !.command = "STOP"]
    <2>1. op \in Operations /\ op.type \in DeviceControlTypes /\ op.id = d
      BY DEF Op, Operations, DeviceControlTypes
    <2>2. QED
      BY <2>1, PushCommands DEF enqueue_device_command
  <1>4. {"SET_LIGHT_STATE", "SET_LOCK_STATE", "SET_SWITCH_STATE"} \subseteq DeviceControlTypes
    BY DEF DeviceControlTypes
  <1>5. Commanded(q, enqueue_set_light_position(q, d, p), d)
    BY <1>1, <1>4 DEF enqueue_set_light_position
  <1>6. Commanded(q, enqueue_set_lock_state(q, d, b), d)
    <2>1. PICK x \in 0..100 : x = IF b THEN 100 ELSE 0
      OBVIOUS
    <2>2. QED
      BY <1>1, <1>4, <2>1 DEF enqueue_set_lock_state
  <1>7. Commanded(q, enqueue_set_switch_state(q, d, b), d)
    <2>1. PICK x \in 0..100 : x = IF b THEN 0 ELSE 100
      OBVIOUS
    <2>2. QED
      BY <1>1, <1>4, <2>1 DEF enqueue_set_switch_state
  <1>8. QED
    BY <1>2, <1>3, <1>5, <1>6, <1>7

\* enqueue_request_status leaves a poll of the device in the queue, and what was there.
LEMMA PollsQueued ==
    ASSUME NEW q \in Seq(Operations), NEW d \in Devices
    PROVE  LET r == enqueue_request_status(q, d) IN
           r \in Seq(Operations) /\ KeepsControls(q, r) /\ KeepsPolls(q, r, Devices) /\ StatusQueued(r, d)
  <1>1. CASE Pending(q, {"REQUEST_STATUS"}, d) # {}
    BY <1>1 DEF enqueue_request_status, StatusQueued, KeepsControls, KeepsPolls
  <1>2. CASE Pending(q, {"REQUEST_STATUS"}, d) = {}
    <2>1. Op("REQUEST_STATUS", d, 0) \in Operations
          /\ Op("REQUEST_STATUS", d, 0).type = "REQUEST_STATUS" /\ Op("REQUEST_STATUS", d, 0).id = d
      BY DEF Op, Operations, BackgroundTypes, DeviceControlTypes
    <2>2. QED
      BY <1>2, <2>1, AppendKeeps DEF enqueue_request_status
  <1>3. QED
    BY <1>1, <1>2

\* enqueue_request_name leaves what was there.
LEMMA NamesQueued ==
    ASSUME NEW q \in Seq(Operations), NEW d \in Devices
    PROVE  LET r == enqueue_request_name(q, d) IN
           r \in Seq(Operations) /\ KeepsControls(q, r) /\ KeepsPolls(q, r, Devices)
  <1>1. CASE Pending(q, {"REQUEST_NAME"}, d) # {}
    BY <1>1 DEF enqueue_request_name, KeepsControls, KeepsPolls
  <1>2. CASE Pending(q, {"REQUEST_NAME"}, d) = {}
    <2>1. Op("REQUEST_NAME", d, 0) \in Operations
      BY DEF Op, Operations, BackgroundTypes, DeviceControlTypes
    <2>2. QED
      BY <1>2, <2>1, AppendKeeps DEF enqueue_request_name
  <1>3. QED
    BY <1>1, <1>2

\* enqueue_oneway_command leaves what was there.
LEMMA PressKeeps ==
    ASSUME NEW q \in Seq(Operations)
    PROVE  LET r == enqueue_oneway_command(q, NoDevice, "STOP") IN
           r \in Seq(Operations) /\ KeepsControls(q, r) /\ KeepsPolls(q, r, Devices)
  <1> DEFINE op == [Op("ONEWAY_COMMAND", NoDevice, 0) EXCEPT !.command = "STOP"]
  <1>1. op \in Operations /\ IsOneway(op)
    BY DEF Op, Operations, OneWayTypes, BackgroundTypes, DeviceControlTypes, IsOneway
  <1>2. QED
    BY <1>1, OnewayPush DEF enqueue_oneway_command

-----------------------------------------------------------------------------
(* The poll policy.                                                        *)

\* The last instant is an instant.
LEMMA LastClockType == LastClock \in Nat /\ 0..LastClock \subseteq Nat
  <1>1. MaxClock \in Nat /\ ExchangeTime \in Nat
    BY HubAssumption
  <1>2. QED
    BY <1>1 DEF LastClock

\* The ceiling is one of the spans the policy adds to the clock.
LEMMA CeilingType == ASSUME NEW d \in Devices PROVE Ceiling(d) \in Nat /\ Ceiling(d) \in Spans
  BY HubAssumption, PolicyAssumption DEF Ceiling, Spans

\* Up to the last instant nothing the policy adds up reaches the wrap.
LEMMA NoWrap ==
    ASSUME FirstHalfLap, NEW now \in 0..LastClock, NEW s \in Nat, NEW span \in Spans, s <= span
    PROVE  Plus(now, s) = now + s /\ 2 * (now + s) < Wrap /\ now % Wrap = now
  <1>1. LastClock \in Nat /\ Wrap \in Nat \ {0}
    BY LastClockType, PolicyAssumption
  <1>2. span \in Nat
    <2>1. \A i \in DOMAIN SilentBackoff : SilentBackoff[i] \in Nat
      BY PolicyAssumption, ElementOfSeq, LenProperties
    <2>2. \A i \in DOMAIN AuthBackoff : AuthBackoff[i] \in Nat
      BY PolicyAssumption, ElementOfSeq, LenProperties
    <2>3. QED
      BY <2>1, <2>2, PolicyAssumption, HubAssumption DEF Spans
  <1>3. 2 * (LastClock + span) < Wrap
    BY DEF FirstHalfLap
  <1>4. 2 * (now + s) < Wrap
    BY <1>1, <1>2, <1>3
  <1>5. now + s \in 0..Wrap - 1 /\ now \in 0..Wrap - 1
    BY <1>1, <1>4
  <1>6. (now + s) % Wrap = now + s /\ now % Wrap = now
    BY <1>1, <1>5
  <1>7. QED
    BY <1>4, <1>6 DEF Plus

\* Every settle delay is positive and within the ceiling; one for a STOP, within its cap.
LEMMA Settles ==
    ASSUME FirstHalfLap, NEW d \in Devices, NEW hint \in Nat, NEW cap \in BOOLEAN, NEW now \in 0..LastClock
    PROVE  LET s == settle_delay_ms(Interval[d], hint, cap) IN
           /\ s \in 1..Ceiling(d) /\ (cap => s <= STOP_SETTLE_POLL_CAP_MS)
           /\ Plus(now, s) = now + s
  <1> DEFINE s == settle_delay_ms(Interval[d], hint, cap)
  <1>1. Interval[d] \in Nat /\ DEFAULT_SETTLE_POLL_DELAY_MS \in Nat \ {0} /\ STOP_SETTLE_POLL_CAP_MS \in Nat \ {0}
    BY HubAssumption, PolicyAssumption
  <1>2. s \in 1..Ceiling(d) /\ (cap => s <= STOP_SETTLE_POLL_CAP_MS)
    BY <1>1 DEF settle_delay_ms, Smaller, Ceiling
  <1>3. Ceiling(d) \in Spans /\ Ceiling(d) \in Nat
    BY <1>1 DEF Ceiling, Spans
  <1> HIDE DEF s
  <1>4. s \in Nat /\ s <= Ceiling(d)
    BY <1>2, <1>3
  <1>5. Plus(now, s) = now + s
    BY <1>3, <1>4, NoWrap
  <1>6. QED
    BY <1>2, <1>5 DEF s

\* What an operation of the policy may make of a record: tracking ended, a poll is due in time, or a retry.
Ended(t, r) ==
    r \in Trackings /\ r.interval = t.interval /\ r.next_update = 0 /\ r.poll_deadline = 0
Scheduled(t, r, d, now) ==
    /\ r \in Trackings /\ r.interval = t.interval
    /\ r.next_update \in 1..now + Ceiling(d)
    /\ r.poll_deadline # 0 /\ now <= r.poll_deadline
Retried(t, r, now) ==
    /\ r \in Trackings /\ r.interval = t.interval
    /\ r.next_update # 0
    /\ r.poll_deadline # 0 /\ now <= r.poll_deadline
    /\ r.status_poll_failures # 0 \/ r.auth_poll_failures # 0

\* clear() ends tracking.
LEMMA Clears == ASSUME NEW t \in Trackings PROVE Ended(t, clear(t))
  BY DEF Ended, Trackings, clear

\* begin_tracking opens a window that has not passed yet.
LEMMA Begins ==
    ASSUME FirstHalfLap, NEW t \in Trackings, NEW d \in Devices, NEW delay \in Nat, delay <= Ceiling(d),
           NEW now \in 0..LastClock
    PROVE  LET r == begin_tracking(t, delay, now) IN
           /\ r \in Trackings /\ r.interval = t.interval
           /\ r.poll_deadline # 0 /\ now <= r.poll_deadline
           /\ r.next_update = IF delay = 0 THEN 0 ELSE now + delay
  <1> DEFINE W == MAX_TRACKED_STATUS_POLL_WINDOW_MS
  <1>1. W \in Spans /\ W \in Nat \ {0} /\ W <= W
    BY PolicyAssumption DEF Spans
  <1>2. Plus(now, delay) = now + delay /\ Plus(now, W) = now + W
    <2>1. Plus(now, delay) = now + delay
      BY CeilingType, NoWrap
    <2> HIDE DEF W
    <2>2. Plus(now, W) = now + W
      BY <1>1, NoWrap
    <2>3. QED
      BY <2>1, <2>2
  <1>3. LastClock \in Nat
    BY LastClockType
  <1>4. begin_tracking(t, delay, now) =
          [t EXCEPT !.poll_deadline = now + W, !.next_update = IF delay = 0 THEN 0 ELSE now + delay,
                    !.status_poll_failures = 0, !.auth_poll_failures = 0]
    BY <1>2 DEF begin_tracking
  <1>5. PICK deadline \in Nat, next \in Nat :
          /\ deadline = now + W /\ deadline # 0 /\ now <= deadline
          /\ next = IF delay = 0 THEN 0 ELSE now + delay
    BY <1>1, <1>3
  <1>6. begin_tracking(t, delay, now) =
          [t EXCEPT !.poll_deadline = deadline, !.next_update = next,
                    !.status_poll_failures = 0, !.auth_poll_failures = 0]
    BY <1>4, <1>5
  <1> DEFINE r == begin_tracking(t, delay, now)
  <1> HIDE DEF r
  <1>7. r = [t EXCEPT !.poll_deadline = deadline, !.next_update = next,
                      !.status_poll_failures = 0, !.auth_poll_failures = 0]
    BY <1>6 DEF r
  <1>8. /\ r \in Trackings /\ r.interval = t.interval
        /\ r.poll_deadline = deadline /\ r.next_update = next
    BY <1>7 DEF Trackings
  <1>9. QED
    BY <1>5, <1>8 DEF r

\* After a status reply tracking ends or a poll is scheduled within the ceiling.
LEMMA Replies ==
    ASSUME FirstHalfLap, NEW t \in Trackings, NEW d \in Devices, t.interval = Interval[d],
           NEW v, NEW hint \in Nat, NEW now \in 0..LastClock
    PROVE  LET r == PolicyAfterReply(t, v, hint, now) IN
           IF effective_is_stopped(v) \/ ~is_tracking_active(t, now)
           THEN Ended(t, r) ELSE Scheduled(t, r, d, now)
  <1> DEFINE new == Plus(now, settle_delay_ms(t.interval, hint, FALSE))
             next == IF t.next_update # 0 /\ t.next_update < new THEN t.next_update ELSE new
  <1>1. CASE effective_is_stopped(v) \/ ~is_tracking_active(t, now)
    BY <1>1, Clears DEF PolicyAfterReply
  <1>2. CASE ~(effective_is_stopped(v) \/ ~is_tracking_active(t, now))
    <2>1. PICK s \in 1..Ceiling(d) : s = settle_delay_ms(t.interval, hint, FALSE) /\ Plus(now, s) = now + s
      BY Settles
    <2>2. new = now + s
      BY <2>1
    <2> HIDE DEF new
    <2>3. t.next_update \in Nat
      BY DEF Trackings
    <2>4. Ceiling(d) \in Nat /\ now \in Nat
      BY LastClockType, CeilingType
    <2>5. new = now + s /\ Ceiling(d) \in Nat /\ now \in Nat /\ s \in Nat /\ s # 0 /\ s <= Ceiling(d) /\ t.next_update \in Nat
      BY <2>2, <2>3, <2>4
    <2>6. next \in 1..now + Ceiling(d)
      BY <2>5
    <2> HIDE DEF next
    <2>7. PolicyAfterReply(t, v, hint, now) = [t EXCEPT !.next_update = next]
      BY <1>2 DEF PolicyAfterReply, set_next_update, next, new
    <2>8. now <= t.poll_deadline /\ t.poll_deadline # 0
      BY <1>2 DEF is_tracking_active
    <2>9. QED
      BY <1>2, <2>5, <2>6, <2>7, <2>8 DEF Scheduled, Trackings
  <1>3. QED
    BY <1>1, <1>2

\* So it does after a status update.
LEMMA Updates ==
    ASSUME FirstHalfLap, NEW t \in Trackings, NEW d \in Devices, t.interval = Interval[d],
           NEW v, NEW now \in 0..LastClock
    PROVE  LET r == PolicyAfterStatusUpdate(t, v, now) IN
           IF effective_is_stopped(v) \/ ~is_tracking_active(t, now)
           THEN Ended(t, r) ELSE Scheduled(t, r, d, now)
  <1>1. CASE effective_is_stopped(v) \/ ~is_tracking_active(t, now)
    BY <1>1, Clears DEF PolicyAfterStatusUpdate
  <1>2. CASE ~(effective_is_stopped(v) \/ ~is_tracking_active(t, now))
    <2>1. PICK s \in 1..Ceiling(d) : s = settle_delay_ms(t.interval, 0, FALSE) /\ Plus(now, s) = now + s
      BY Settles
    <2>2. Ceiling(d) \in Nat /\ now \in Nat
      BY LastClockType, CeilingType
    <2>3. Ceiling(d) \in Nat /\ now \in Nat /\ s \in Nat /\ s # 0 /\ s <= Ceiling(d)
      BY <2>2
    <2>4. now + s \in 1..now + Ceiling(d)
      BY <2>3
    <2>5. PolicyAfterStatusUpdate(t, v, now) = [t EXCEPT !.next_update = now + s]
      BY <1>2, <2>1 DEF PolicyAfterStatusUpdate, set_next_update
    <2>6. now <= t.poll_deadline /\ t.poll_deadline # 0
      BY <1>2 DEF is_tracking_active
    <2>7. QED
      BY <1>2, <2>3, <2>4, <2>5, <2>6 DEF Scheduled, Trackings
  <1>3. QED
    BY <1>1, <1>2

\* The confirmation poll of a command is scheduled within the ceiling, that of a STOP within its cap.
LEMMA Arms ==
    ASSUME FirstHalfLap, NEW t \in Trackings, NEW d \in Devices, t.interval = Interval[d],
           NEW for_stop \in BOOLEAN, NEW now \in 0..LastClock
    PROVE  LET r == arm_execute_confirmation_poll(t, for_stop, now) IN
           /\ Scheduled(t, r, d, now)
           /\ for_stop => r.next_update <= now + STOP_SETTLE_POLL_CAP_MS
  <1>1. PICK delay \in 1..Ceiling(d) :
          /\ delay = settle_delay_ms(t.interval, 0, for_stop) /\ Plus(now, delay) = now + delay
          /\ for_stop => delay <= STOP_SETTLE_POLL_CAP_MS
    BY Settles
  <1> DEFINE armed == begin_tracking(t, delay, now)
  <1>2. /\ Ceiling(d) \in Nat /\ now \in Nat /\ delay \in Nat /\ delay # 0 /\ t.next_update \in Nat
        /\ STOP_SETTLE_POLL_CAP_MS \in Nat
    BY LastClockType, CeilingType, PolicyAssumption DEF Trackings
  <1>3. /\ armed \in Trackings /\ armed.interval = t.interval
        /\ armed.poll_deadline # 0 /\ now <= armed.poll_deadline
        /\ armed.next_update = now + delay
    BY <1>1, <1>2, Begins
  <1> HIDE DEF armed
  <1>4. arm_execute_confirmation_poll(t, for_stop, now) =
          IF t.next_update # 0 /\ t.next_update < now + delay
          THEN [armed EXCEPT !.next_update = t.next_update] ELSE armed
    BY <1>1 DEF arm_execute_confirmation_poll, set_next_update, armed
  <1>5. CASE t.next_update # 0 /\ t.next_update < now + delay
    <2>1. t.next_update \in 1..now + Ceiling(d) /\ (for_stop => t.next_update <= now + STOP_SETTLE_POLL_CAP_MS)
      BY <1>1, <1>2, <1>5
    <2>2. QED
      BY <1>2, <1>3, <1>4, <1>5, <2>1 DEF Scheduled, Trackings
  <1>6. CASE ~(t.next_update # 0 /\ t.next_update < now + delay)
    <2>1. now + delay \in 1..now + Ceiling(d) /\ (for_stop => now + delay <= now + STOP_SETTLE_POLL_CAP_MS)
      BY <1>1, <1>2
    <2>2. QED
      BY <1>3, <1>4, <1>6, <2>1 DEF Scheduled
  <1>7. QED
    BY <1>5, <1>6

\* After a failed exchange tracking ends or a retry is scheduled inside the window.
LEMMA Fails ==
    ASSUME FirstHalfLap, NEW t \in Trackings, NEW auth_like \in BOOLEAN, NEW now \in 0..LastClock
    PROVE  LET r == on_exchange_failed(t, auth_like, now) IN Ended(t, r) \/ Retried(t, r, now)
  <1> DEFINE counted == CountFailure(t, auth_like)
             backoff == BackoffAfter(counted, auth_like)
             retry   == Plus(now, backoff)
  <1>1. /\ counted \in Trackings /\ counted.interval = t.interval
        /\ counted.poll_deadline = t.poll_deadline
        /\ counted.status_poll_failures # 0 \/ counted.auth_poll_failures # 0
    <2> DEFINE Bump(n) == IF n < MaxFailures THEN n + 1 ELSE n
    <2>1. t.status_poll_failures \in Nat /\ t.auth_poll_failures \in Nat
      BY DEF Trackings
    <2>2. PICK s \in Nat, a \in Nat :
            s # 0 /\ a # 0 /\ s = Bump(t.status_poll_failures) /\ a = Bump(t.auth_poll_failures)
      BY <2>1 DEF MaxFailures
    <2>3. counted = [t EXCEPT !.status_poll_failures = IF auth_like THEN 0 ELSE s,
                              !.auth_poll_failures = IF auth_like THEN a ELSE 0]
      BY <2>2 DEF CountFailure
    <2> HIDE DEF counted
    <2>4. QED
      BY <2>2, <2>3 DEF Trackings
  <1> HIDE DEF counted
  <1>2. backoff \in Nat \ {0} /\ backoff \in Spans
    <2>1. ASSUME NEW f \in Nat, NEW steps \in Seq(Nat \ {0}), Len(steps) > 0
          PROVE  LET step == Smaller(f, Len(steps)) IN (IF step = 0 THEN 1 ELSE step) \in DOMAIN steps
      BY <2>1, LenProperties DEF Smaller
    <2>2. counted.status_poll_failures \in Nat /\ counted.auth_poll_failures \in Nat
      BY <1>1 DEF Trackings
    <2>3. \E i \in DOMAIN SilentBackoff : ~auth_like => backoff = SilentBackoff[i]
      BY <2>1, <2>2, PolicyAssumption DEF BackoffAfter, retry_delay_ms
    <2>4. \E i \in DOMAIN AuthBackoff : auth_like => backoff = AuthBackoff[i]
      BY <2>1, <2>2, PolicyAssumption DEF BackoffAfter, retry_delay_ms
    <2>5. \A i \in DOMAIN SilentBackoff : SilentBackoff[i] \in Nat \ {0}
      BY PolicyAssumption, ElementOfSeq, LenProperties
    <2>6. \A i \in DOMAIN AuthBackoff : AuthBackoff[i] \in Nat \ {0}
      BY PolicyAssumption, ElementOfSeq, LenProperties
    <2> HIDE DEF backoff
    <2>7. QED
      BY <2>3, <2>4, <2>5, <2>6 DEF Spans
  <1>3. retry = now + backoff
    BY <1>2, NoWrap
  <1>4. retry \in Nat /\ retry # 0
    BY <1>2, <1>3, LastClockType
  <1> HIDE DEF retry
  <1>5. on_exchange_failed(t, auth_like, now) =
          IF is_tracking_active(counted, now) /\ retry <= counted.poll_deadline
          THEN [counted EXCEPT !.next_update = retry] ELSE clear(counted)
    BY DEF on_exchange_failed, counted, retry
  <1>6. CASE is_tracking_active(counted, now) /\ retry <= counted.poll_deadline
    <2>1. now <= counted.poll_deadline /\ counted.poll_deadline # 0
      BY <1>6 DEF is_tracking_active
    <2>2. QED
      BY <1>1, <1>4, <1>5, <1>6, <2>1 DEF Retried, Trackings
  <1>7. CASE ~(is_tracking_active(counted, now) /\ retry <= counted.poll_deadline)
    BY <1>1, <1>5, <1>7, Clears DEF Ended
  <1>8. QED
    BY <1>6, <1>7

-----------------------------------------------------------------------------
(* Devices and what entities show of them.                                 *)

\* The positions and markers a field may hold.
LEMMA DegreesType ==
    /\ 0..100 \subseteq Degrees /\ UNKNOWN \in Degrees /\ UNKNOWN \notin 0..100
    /\ BINARY_ENTITY_ON_POSITION \in Degrees /\ BINARY_ENTITY_OFF_POSITION \in Degrees
  BY DEF Degrees, UNKNOWN, BINARY_ENTITY_ON_POSITION, BINARY_ENTITY_OFF_POSITION

\* The two positions of a binary entity.
LEMMA OnOffType == \A p : OnOff(p) \in Degrees
  BY DegreesType DEF OnOff

\* What an entity shows before it was told anything.
LEMMA ShownType == Shown \in Displays
  BY DegreesType DEF Shown, Displays

\* What a cover publishes.
LEMMA CoverDisplay == ASSUME NEW v \in Records PROVE CoverShows(v) \in Displays
  <1>1. v.position \in Degrees /\ v.tilt \in Degrees /\ v.shown \in Displays /\ v.optimistic \in Overlays
    BY DEF Records
  <1>2. /\ v.shown.position \in Degrees /\ v.shown.tilt \in Degrees
        /\ v.shown.operation \in {"IDLE", "OPENING", "CLOSING", "UNLOCKING", "LOCKING"}
        /\ v.optimistic.tilt \in Degrees
    BY <1>1 DEF Displays, Overlays
  <1>3. CoverOperation(v) \in {"IDLE", "OPENING", "CLOSING", "UNLOCKING", "LOCKING"}
    <2>1. \A from, to : operation_toward(from, to) \in {"IDLE", "OPENING", "CLOSING"}
      BY DEF operation_toward
    <2>2. QED
      BY <1>2, <2>1 DEF CoverOperation
  <1>4. PICK p \in Degrees, t \in Degrees :
          /\ p = IF v.position # UNKNOWN THEN v.position ELSE v.shown.position
          /\ t = IF device_supports_tilt(v.type) /\ effective_tilt(v) # UNKNOWN
                 THEN effective_tilt(v) ELSE v.shown.tilt
    BY <1>1, <1>2 DEF effective_tilt
  <1>5. CoverShows(v) = [position |-> p, operation |-> CoverOperation(v), tilt |-> t]
    BY <1>4 DEF CoverShows
  <1>6. QED
    BY <1>3, <1>5 DEF Displays

\* What the binary entities publish.
LEMMA BinaryDisplay ==
    ASSUME NEW v \in Records
    PROVE  LockShows(v) \in Displays /\ LightShows(v) \in Displays /\ SwitchShows(v) \in Displays
  <1>1. v.position \in Degrees /\ v.shown \in Displays
    BY DEF Records
  <1>2. \A p \in Degrees : [Shown EXCEPT !.position = p] \in Displays
    BY ShownType DEF Displays
  <1>3. \A op \in {"UNLOCKING", "LOCKING"} : [Shown EXCEPT !.operation = op] \in Displays
    BY ShownType DEF Displays
  <1>4. LockShows(v) \in Displays
    <2>1. LockShows(v) \in {v.shown, [Shown EXCEPT !.position = OnOff(v.position)],
                            [Shown EXCEPT !.operation = "UNLOCKING"], [Shown EXCEPT !.operation = "LOCKING"]}
      BY DEF LockShows
    <2>2. QED
      BY <1>1, <1>2, <1>3, <2>1, OnOffType
  <1>5. LightShows(v) \in Displays
    <2>1. LightShows(v) \in {v.shown, [Shown EXCEPT !.position = OnOff(v.position)],
                             [Shown EXCEPT !.position = v.position]}
      BY DEF LightShows
    <2>2. QED
      BY <1>1, <1>2, <2>1, OnOffType
  <1>6. SwitchShows(v) \in Displays
    <2>1. SwitchShows(v) \in {v.shown, [Shown EXCEPT !.position = OnOff(v.position)]}
      BY DEF SwitchShows
    <2>2. QED
      BY <1>1, <1>2, <2>1, OnOffType
  <1>7. QED
    BY <1>4, <1>5, <1>6

\* What the device said of itself, and how it is configured.
Observed(v) == <<v.entity, v.type, v.optimistic_state, v.position, v.tilt, v.target, v.is_stopped>>

\* notify only changes what the entity shows.
LEMMA NotifyShows ==
    ASSUME NEW v \in Records
    PROVE  \E s \in Displays :
             /\ notify(v) = [v EXCEPT !.shown = s]
             /\ s = CASE v.entity = "cover" -> CoverShows(v)
                      [] v.entity = "lock" -> LockShows(v)
                      [] v.entity = "switch" -> SwitchShows(v)
                      [] OTHER -> LightShows(v)
  BY CoverDisplay, BinaryDisplay DEF notify

\* notify changes neither what was observed nor what is predicted.
LEMMA Notifies ==
    ASSUME NEW v \in Records
    PROVE  /\ notify(v) \in Records
           /\ Observed(notify(v)) = Observed(v) /\ notify(v).optimistic = v.optimistic
  <1>1. PICK s \in Displays : notify(v) = [v EXCEPT !.shown = s]
    BY NotifyShows
  <1>2. QED
    BY <1>1 DEF Records, Observed

\* The entities there are.
LEMMA EntityNames ==
    ASSUME NEW v \in Records
    PROVE  v.entity \in {"cover", "light", "dimmable light", "lock", "switch"}
  BY HubAssumption DEF Records

\* Of a device that rests where it says, every entity shows that.
LEMMA NotifyRests ==
    ASSUME NEW v \in Records, NEW p \in 0..100, v.position = p, v.is_stopped = TRUE, v.optimistic.motion = "NONE"
    PROVE  AtRest(notify(v), p)
  <1>1. PICK s \in Displays :
             /\ notify(v) = [v EXCEPT !.shown = s]
             /\ s = CASE v.entity = "cover" -> CoverShows(v)
                      [] v.entity = "lock" -> LockShows(v)
                      [] v.entity = "switch" -> SwitchShows(v)
                      [] OTHER -> LightShows(v)
    BY NotifyShows
  <1>2. effective_is_stopped(v) /\ v.position # UNKNOWN
    BY DegreesType DEF effective_is_stopped
  <1>3. Shown.operation = "IDLE" /\ \A x : [Shown EXCEPT !.position = x].operation = "IDLE"
                                          /\ [Shown EXCEPT !.position = x].position = x
    BY DEF Shown
  <1>4. /\ s.operation = "IDLE"
        /\ s.position = IF v.entity \in {"cover", "dimmable light"} THEN p ELSE OnOff(p)
    <2>1. CASE v.entity = "cover"
      <3>1. CoverShows(v).operation = "IDLE" /\ CoverShows(v).position = p
        BY <1>2 DEF CoverShows, CoverOperation
      <3>2. s = CoverShows(v)
        BY <1>1, <2>1, Zenon
      <3>3. QED
        BY <2>1, <3>1, <3>2
    <2>2. CASE v.entity = "lock"
      <3>1. LockShows(v) = [Shown EXCEPT !.position = OnOff(p)]
        BY <1>2 DEF LockShows
      <3>2. QED
        BY <1>1, <1>3, <2>2, <3>1
    <2>3. CASE v.entity = "switch"
      <3>1. SwitchShows(v) = [Shown EXCEPT !.position = OnOff(p)]
        BY <1>2 DEF SwitchShows, passes_binary_update_filter
      <3>2. QED
        BY <1>1, <1>3, <2>3, <3>1
    <2>4. CASE v.entity \in {"light", "dimmable light"}
      <3>1. LightShows(v) = [Shown EXCEPT !.position = IF v.entity = "dimmable light" THEN p ELSE OnOff(p)]
        BY <1>2 DEF LightShows, passes_binary_update_filter
      <3>2. s = LightShows(v)
        BY <1>1, <2>4, Zenon
      <3>3. s.operation = "IDLE" /\ s.position = IF v.entity = "dimmable light" THEN p ELSE OnOff(p)
        BY <1>3, <3>1, <3>2
      <3>4. QED
        BY <2>4, <3>3
    <2>5. QED
      BY <2>1, <2>2, <2>3, <2>4, EntityNames
  <1>5. /\ notify(v).shown = s /\ notify(v).entity = v.entity /\ notify(v).position = v.position
        /\ notify(v).is_stopped = v.is_stopped /\ notify(v).optimistic = v.optimistic
    BY <1>1 DEF Records
  <1>6. QED
    BY <1>4, <1>5 DEF AtRest, ShowsAtRest

\* A prediction leaves what was observed, and is shown, or changes nothing.
Predicts(v, w) ==
    /\ w \in Records /\ Observed(w) = Observed(v)
    /\ w = v \/ \E x \in Records : Observed(x) = Observed(v) /\ w = notify(x)

\* A record with another overlay.
LEMMA OverlayChanges ==
    ASSUME NEW v \in Records, NEW o \in Overlays
    PROVE  LET x == [v EXCEPT !.optimistic = o] IN
           x \in Records /\ Observed(x) = Observed(v) /\ x.optimistic = o
  BY DEF Records, Observed

\* The three predictions, each a change of the overlay the entity is told of.
LEMMA Predictions ==
    ASSUME NEW v \in Records, NEW p \in 0..100
    PROVE  /\ Predicts(v, apply_optimistic_target(v, p))
           /\ Predicts(v, apply_optimistic_stop(v))
           /\ Predicts(v, apply_optimistic_tilt(v, p))
  <1>1. v.optimistic \in Overlays /\ p \in Degrees /\ UNKNOWN \in Degrees
    BY DegreesType DEF Records
  <1>2. ASSUME NEW o \in Overlays PROVE Predicts(v, notify([v EXCEPT !.optimistic = o]))
    <2> DEFINE x == [v EXCEPT !.optimistic = o]
    <2>1. x \in Records /\ Observed(x) = Observed(v)
      BY OverlayChanges
    <2> HIDE DEF x
    <2>2. notify(x) \in Records /\ Observed(notify(x)) = Observed(x)
      BY <2>1, Notifies
    <2>3. Predicts(v, notify(x))
      BY <2>1, <2>2 DEF Predicts
    <2>4. QED
      BY <2>3 DEF x
  <1>3. Predicts(v, v)
    BY DEF Predicts
  <1>4. Predicts(v, apply_optimistic_target(v, p))
    <2> DEFINE o == [v.optimistic EXCEPT !.target = p, !.motion = "MOVING"]
    <2>1. o \in Overlays
      BY <1>1 DEF Overlays
    <2>2. [v EXCEPT !.optimistic.target = p, !.optimistic.motion = "MOVING"] = [v EXCEPT !.optimistic = o]
      BY <1>1 DEF Records, Overlays
    <2>3. apply_optimistic_target(v, p) \in {v, notify([v EXCEPT !.optimistic = o])}
      BY <2>2, Zenon DEF apply_optimistic_target
    <2> HIDE DEF o
    <2>4. QED
      BY <1>2, <1>3, <2>1, <2>3
  <1>5. Predicts(v, apply_optimistic_stop(v))
    <2> DEFINE o == [v.optimistic EXCEPT !.target = UNKNOWN, !.motion = "STOPPED"]
    <2>1. o \in Overlays
      BY <1>1 DEF Overlays
    <2>2. [v EXCEPT !.optimistic.target = UNKNOWN, !.optimistic.motion = "STOPPED"] = [v EXCEPT !.optimistic = o]
      BY <1>1 DEF Records, Overlays
    <2>3. apply_optimistic_stop(v) \in {v, notify([v EXCEPT !.optimistic = o])}
      BY <2>2, Zenon DEF apply_optimistic_stop
    <2> HIDE DEF o
    <2>4. QED
      BY <1>2, <1>3, <2>1, <2>3
  <1>6. Predicts(v, apply_optimistic_tilt(v, p))
    <2> DEFINE o == [v.optimistic EXCEPT !.tilt = p]
    <2>1. o \in Overlays
      BY <1>1 DEF Overlays
    <2>2. [v EXCEPT !.optimistic.tilt = p] = [v EXCEPT !.optimistic = o]
      BY <1>1 DEF Records, Overlays
    <2>3. apply_optimistic_tilt(v, p) \in {v, notify([v EXCEPT !.optimistic = o])}
      BY <2>2, Zenon DEF apply_optimistic_tilt
    <2> HIDE DEF o
    <2>4. QED
      BY <1>2, <1>3, <2>1, <2>3
  <1>7. QED
    BY <1>4, <1>5, <1>6

\* A combined command predicts twice.
LEMMA PredictsTwice ==
    ASSUME NEW v, NEW w, NEW x, Predicts(v, w), Predicts(w, x)
    PROVE  Predicts(v, x)
  BY DEF Predicts

\* Without its prediction a device is shown as it was observed.
LEMMA Withdraws ==
    ASSUME NEW v \in Records, NEW w, Predicts(v, w)
    PROVE  LET r == rollback_optimistic(w) IN
           /\ r \in Records /\ Observed(r) = Observed(v) /\ r.optimistic = OptimisticState
           /\ \A p \in 0..100 : AtRest(v, p) => AtRest(r, p)
  <1> DEFINE r == rollback_optimistic(w)
             x == [w EXCEPT !.optimistic = OptimisticState]
  <1>1. w \in Records /\ Observed(w) = Observed(v)
    BY DEF Predicts
  <1>2. OptimisticState \in Overlays /\ OptimisticState.motion = "NONE"
    BY DegreesType DEF OptimisticState, Overlays
  <1>3. ASSUME NEW y \in Records, Observed(y) = Observed(v), y.optimistic = OptimisticState,
               NEW p \in 0..100, AtRest(v, p)
        PROVE  AtRest(notify(y), p)
    <2>1. y.position = p /\ y.is_stopped = TRUE
      BY <1>3 DEF Observed, AtRest
    <2>2. y.optimistic.motion = "NONE"
      BY <1>2, <1>3
    <2>3. QED
      BY <2>1, <2>2, NotifyRests
  <1>4. CASE w.optimistic = OptimisticState
    <2>1. r = w
      BY <1>4 DEF rollback_optimistic
    <2>2. ASSUME NEW p \in 0..100, AtRest(v, p) PROVE AtRest(w, p)
      <3>1. CASE w = v
        BY <2>2, <3>1
      <3>2. CASE \E y \in Records : Observed(y) = Observed(v) /\ w = notify(y)
        <4>1. PICK y \in Records : Observed(y) = Observed(v) /\ w = notify(y)
          BY <3>2
        <4>2. y.optimistic = OptimisticState
          BY <1>4, <4>1, Notifies
        <4>3. QED
          BY <1>3, <2>2, <4>1, <4>2
      <3>3. QED
        BY <3>1, <3>2 DEF Predicts
    <2> HIDE DEF r
    <2>3. QED
      BY <1>1, <1>4, <2>1, <2>2 DEF r
  <1>5. CASE w.optimistic # OptimisticState
    <2>1. r = notify(x)
      BY <1>5 DEF rollback_optimistic
    <2>2. x \in Records /\ Observed(x) = Observed(v) /\ x.optimistic = OptimisticState
      BY <1>1, <1>2, OverlayChanges
    <2> HIDE DEF x
    <2>3. notify(x) \in Records /\ Observed(notify(x)) = Observed(v) /\ notify(x).optimistic = OptimisticState
      BY <2>2, Notifies
    <2>4. \A p \in 0..100 : AtRest(v, p) => AtRest(notify(x), p)
      BY <1>3, <2>2
    <2> HIDE DEF r
    <2>5. QED
      BY <2>1, <2>3, <2>4 DEF r
  <1>6. QED
    BY <1>4, <1>5

\* normalize_stopped_state_ only denies "stopped", where target and current differ.
LEMMA Normalizes ==
    ASSUME NEW v \in Records
    PROVE  LET w == normalize_stopped_state(v) IN
           /\ w \in Records /\ w.entity = v.entity /\ w.type = v.type
           /\ w.target = v.target /\ w.position = v.position /\ w.tilt = v.tilt
           /\ w.optimistic = v.optimistic /\ w.optimistic_state = v.optimistic_state
           /\ w.is_stopped = IF v.target # UNKNOWN /\ v.position # UNKNOWN /\ v.target # v.position
                             THEN FALSE ELSE v.is_stopped
  <1>1. CASE v.is_stopped /\ v.target # UNKNOWN /\ v.position # UNKNOWN /\ v.target # v.position
    <2>1. normalize_stopped_state(v) = [v EXCEPT !.is_stopped = FALSE]
      BY <1>1 DEF normalize_stopped_state
    <2>2. QED
      BY <1>1, <2>1 DEF Records
  <1>2. CASE ~(v.is_stopped /\ v.target # UNKNOWN /\ v.position # UNKNOWN /\ v.target # v.position)
    <2>1. normalize_stopped_state(v) = v
      BY <1>2 DEF normalize_stopped_state
    <2>2. v.is_stopped \in BOOLEAN
      BY DEF Records
    <2>3. QED
      BY <1>2, <2>1, <2>2
  <1>3. QED
    BY <1>1, <1>2

\* A status report, as Reports gives it, of a device that is at one place and on its way to another.
Plausible(r, at, goal) ==
    /\ r.stopped \in BOOLEAN /\ r.extended \in BOOLEAN /\ r.tilt \in 0..100
    /\ at \in 0..100 /\ goal \in 0..100
    /\ r.current = at /\ r.target \in {goal, UNKNOWN}
    /\ at = goal => r.stopped
    /\ r.target = UNKNOWN => (r.stopped <=> at = goal)

(***************************************************************************)
(* An observation replaces the prediction, but for the slats a short reply *)
(* says nothing of; and a device taken for stopped really is where it says. *)
(***************************************************************************)
LEMMA Decodes ==
    ASSUME NEW v \in Records, NEW r, NEW at, NEW goal, Plausible(r, at, goal)
    PROVE  LET w == decode_status_fields(v, r) IN
           /\ w \in Records
           /\ w.optimistic # OptimisticState => v.optimistic # OptimisticState /\ w.optimistic.tilt # UNKNOWN
           /\ effective_is_stopped(w) => at = goal /\ AtRest(notify(w), at)
  <1> DEFINE heard  == [v EXCEPT !.is_stopped = r.stopped]
             placed == decode_position_report(heard, r)
             normal == normalize_stopped_state(placed)
             o      == clear_position(v.optimistic)
             seen   == [normal EXCEPT !.optimistic = o]
             w      == decode_status_fields(v, r)
  <1>1. heard \in Records /\ heard.is_stopped = r.stopped /\ heard.optimistic = v.optimistic
    BY DEF Plausible, Records
  <1>2. PICK goes \in Degrees, is \in Degrees :
          /\ goes = (IF r.target = UNKNOWN /\ r.stopped THEN r.current ELSE r.target)
          /\ is = at
          /\ placed = [heard EXCEPT !.target = goes, !.position = is]
    <2>1. r.current # UNKNOWN /\ r.current \in Degrees /\ r.target \in Degrees /\ r.current = at
      BY DegreesType DEF Plausible
    <2>2. QED
      BY <2>1 DEF decode_position_report
  <1> HIDE DEF heard
  <1>3. /\ placed \in Records /\ placed.optimistic = v.optimistic /\ placed.is_stopped = r.stopped
        /\ placed.target = goes /\ placed.position = is
    BY <1>1, <1>2 DEF Records
  <1> HIDE DEF placed
  <1>4. /\ normal \in Records /\ normal.optimistic = v.optimistic /\ normal.position = is
        /\ normal.is_stopped = IF goes # UNKNOWN /\ is # UNKNOWN /\ goes # is THEN FALSE ELSE r.stopped
    BY <1>3, Normalizes
  <1> HIDE DEF normal
  <1>5. o \in Overlays /\ o.motion = "NONE" /\ o.tilt = v.optimistic.tilt /\ o.target = UNKNOWN
    BY DegreesType DEF Records, Overlays, clear_position
  <1> HIDE DEF o
  <1>6. /\ seen \in Records /\ seen.optimistic = o /\ seen.position = is
        /\ seen.is_stopped = normal.is_stopped
    BY <1>4, <1>5 DEF Records
  <1>7. seen = [normal EXCEPT !.optimistic = clear_position(@)]
    BY <1>4 DEF o, Records
  <1>8. w \in {seen, [seen EXCEPT !.tilt = r.tilt, !.optimistic.tilt = UNKNOWN]}
    BY <1>7, Zenon DEF decode_status_fields, normal, placed, heard
  <1> HIDE DEF seen, w
  <1>9. /\ w \in Records /\ w.position = is /\ w.is_stopped = normal.is_stopped
        /\ w.optimistic.motion = "NONE" /\ w.optimistic.target = UNKNOWN
        /\ w.optimistic.tilt \in {v.optimistic.tilt, UNKNOWN}
    <2>1. CASE w = seen
      BY <1>5, <1>6, <2>1
    <2>2. CASE w = [seen EXCEPT !.tilt = r.tilt, !.optimistic.tilt = UNKNOWN]
      <3>1. r.tilt \in Degrees /\ UNKNOWN \in Degrees
        BY DegreesType DEF Plausible
      <3> DEFINE p == [o EXCEPT !.tilt = UNKNOWN]
      <3>2. p \in Overlays /\ p.motion = "NONE" /\ p.target = UNKNOWN /\ p.tilt = UNKNOWN
        BY <1>5, <3>1 DEF Overlays
      <3>3. w = [seen EXCEPT !.tilt = r.tilt, !.optimistic = p]
        BY <1>6, <2>2, <3>2 DEF Records
      <3>4. QED
        BY <1>6, <3>1, <3>2, <3>3 DEF Records
    <2>3. QED
      BY <1>8, <2>1, <2>2
  <1>10. w.optimistic # OptimisticState => v.optimistic # OptimisticState /\ w.optimistic.tilt # UNKNOWN
    <2>1. \A p \in Overlays : p.target = UNKNOWN /\ p.tilt = UNKNOWN /\ p.motion = "NONE" => p = OptimisticState
      BY DEF Overlays, OptimisticState
    <2>2. w.optimistic \in Overlays /\ OptimisticState.tilt = UNKNOWN
      BY <1>9 DEF Records, OptimisticState
    <2>3. QED
      BY <1>9, <2>1, <2>2
  <1>11. ASSUME effective_is_stopped(w) PROVE at = goal /\ AtRest(notify(w), at)
    <2>1. w.is_stopped = TRUE
      BY <1>9, <1>11 DEF effective_is_stopped, Records
    <2>2. r.stopped = TRUE /\ (goes = UNKNOWN \/ goes = is)
      BY <1>2, <1>4, <1>9, <2>1, DegreesType DEF Plausible
    <2>3. at = goal
      BY <1>2, <2>2, DegreesType DEF Plausible
    <2>4. at \in 0..100 /\ w.position = at
      BY <1>2, <1>9 DEF Plausible
    <2>5. QED
      BY <1>9, <2>1, <2>3, <2>4, NotifyRests
  <1>12. QED
    BY <1>9, <1>10, <1>11 DEF w

\* What is taken of the reply to a command.
LEMMA Acknowledges ==
    ASSUME NEW v \in Records, NEW stopped \in BOOLEAN
    PROVE  apply_private_response_status(v, [stopped |-> stopped], FALSE) \in Records
  <1>1. [v EXCEPT !.is_stopped = stopped] \in Records
    BY DEF Records
  <1>2. apply_private_response_status(v, [stopped |-> stopped], FALSE)
        = normalize_stopped_state([v EXCEPT !.is_stopped = stopped])
    BY DEF apply_private_response_status
  <1>3. QED
    BY <1>1, <1>2, Normalizes

-----------------------------------------------------------------------------
(* A step and a device.                                                    *)

\* In the first half of the ring millis() has not wrapped.
LEMMA Times ==
    ASSUME FirstHalfLap, NEW now \in 0..LastClock
    PROVE  now % Wrap = now
  <1>1. MAX_TRACKED_STATUS_POLL_WINDOW_MS \in Spans /\ MAX_TRACKED_STATUS_POLL_WINDOW_MS \in Nat /\ 0 \in Nat
    BY PolicyAssumption DEF Spans
  <1>2. QED
    BY <1>1, NoWrap

\* The constants have their types, and the last instant is not before MaxClock.
LEMMA Constants ==
    /\ {Boot, MaxClock, ExchangeTime, Budget, MaxLen, REMOTE_ACTIVITY_STATUS_POLL_DELAY_MS} \subseteq Nat
    /\ Devices \subseteq Nat \ {0} /\ Interval \in [Devices -> Nat]
    /\ Positions \subseteq 0..100 /\ Parked \subseteq 0..100 /\ Tilts \subseteq 0..100 /\ Hints \subseteq Nat
    /\ LastClock \in Nat /\ MaxClock <= LastClock
  <1>1. {Boot, MaxClock, ExchangeTime, Budget, MaxLen, REMOTE_ACTIVITY_STATUS_POLL_DELAY_MS} \subseteq Nat
    BY HubAssumption
  <1>2. LastClock \in Nat /\ MaxClock <= LastClock
    BY <1>1 DEF LastClock
  <1>3. QED
    BY <1>1, <1>2, HubAssumption

\* What a step that is not about a device leaves of its follow-up.
Carried(d) ==
    /\ tracking'[d] = tracking[d]
    /\ ~excused'[d] => ~excused[d]
    /\ timer[d] # Never => timer'[d] # Never \/ StatusQueued(queue', d) \/ excused'[d]
    /\ ControlQueued(queue, d) => ControlQueued(queue', d)
    /\ StatusQueued(queue, d) => StatusQueued(queue', d) \/ ControlQueued(queue', d) \/ excused'[d]
    /\ dev'[d].optimistic # OptimisticState
       => ControlQueued(queue', d) \/ (dev[d].optimistic # OptimisticState /\ (backed[d] => backed'[d]))
    /\ Settled(d) => Settled(d)' \/ ControlQueued(queue', d) \/ excused'[d] \/ tracking[d].poll_deadline # 0

\* A device whose follow-up is carried over keeps its invariant.
LEMMA CarriedInv ==
    ASSUME TypeInv, NEW d \in Devices, DeviceInv(d), Carried(d), clock' \in Nat, clock <= clock',
           \/ pc' = "due"
           \/ pc # "due" /\ clock' = clock
           \/ tracking[d].poll_deadline = 0 \/ clock' <= tracking[d].poll_deadline \/ excused'[d]
    PROVE  DeviceInv(d)'
  <1>1. clock \in Nat /\ tracking[d] \in Trackings /\ tracking'[d] = tracking[d]
    BY DEF TypeInv, ClockInv, Carried
  <1>2. tracking[d].poll_deadline \in Nat /\ tracking[d].next_update \in Nat /\ Ceiling(d) \in Nat
    BY <1>1, CeilingType DEF Trackings
  <1>3. tracking'[d].interval = Interval[d]
    BY <1>1 DEF DeviceInv
  <1>4. tracking'[d].status_poll_failures = 0 /\ tracking'[d].auth_poll_failures = 0 /\ ~excused'[d]
        => tracking'[d].next_update <= clock' + Ceiling(d)
    BY <1>1, <1>2 DEF DeviceInv, Carried
  <1>5. InWindow(d)' => InWindow(d)
    BY <1>1, <1>2 DEF InWindow
  <1>6. InWindow(d)' /\ ~excused'[d]
        => \/ tracking'[d].next_update # 0 \/ timer'[d] # Never
           \/ ControlQueued(queue', d) \/ StatusQueued(queue', d)
    BY <1>1, <1>5 DEF DeviceInv, Carried
  <1>7. pc' # "due" /\ tracking'[d].poll_deadline # 0 /\ ~excused'[d] => InWindow(d)'
    BY <1>1, <1>2 DEF DeviceInv, Carried, InWindow
  <1>8. dev'[d].optimistic # OptimisticState => backed'[d] \/ ControlQueued(queue', d)
    BY DEF DeviceInv, Carried
  <1>9. ~excused'[d] => Settled(d)' \/ tracking'[d].poll_deadline # 0 \/ ControlQueued(queue', d)
    BY <1>1 DEF DeviceInv, Carried
  <1>10. Ceiling(d)' = Ceiling(d) /\ Interval' = Interval
    BY DEF Ceiling
  <1>11. QED
    BY <1>3, <1>4, <1>6, <1>7, <1>8, <1>9, <1>10 DEF DeviceInv

\* What a step about a device makes of its tracking.
Placed(d) ==
    /\ tracking'[d] \in Trackings /\ tracking'[d].interval = Interval[d]
    /\ dev'[d].optimistic # OptimisticState => backed'[d] \/ ControlQueued(queue', d)
    /\ \/ excused'[d]
       \/ Ended(tracking[d], tracking'[d]) /\ (Settled(d)' \/ ControlQueued(queue', d))
       \/ Scheduled(tracking[d], tracking'[d], d, clock')
       \/ Retried(tracking[d], tracking'[d], clock')
       \/ /\ tracking'[d].next_update = 0 /\ tracking'[d].poll_deadline # 0
          /\ clock' <= tracking'[d].poll_deadline
          /\ timer'[d] # Never

\* A device whose tracking was placed anew has its invariant.
LEMMA PlacedInv ==
    ASSUME NEW d \in Devices, Placed(d), clock' \in Nat
    PROVE  DeviceInv(d)'
  <1>1. tracking'[d].next_update \in Nat /\ Ceiling(d) \in Nat
    BY CeilingType DEF Placed, Trackings
  <1>2. Ceiling(d)' = Ceiling(d) /\ Interval' = Interval
    BY DEF Ceiling
  <1>3. tracking'[d].interval = Interval[d]
        /\ (dev'[d].optimistic # OptimisticState => backed'[d] \/ ControlQueued(queue', d))
    BY DEF Placed
  <1>4. CASE excused'[d]
    BY <1>2, <1>3, <1>4 DEF DeviceInv
  <1>5. CASE Ended(tracking[d], tracking'[d]) /\ (Settled(d)' \/ ControlQueued(queue', d))
    <2>1. tracking'[d].next_update = 0 /\ tracking'[d].poll_deadline = 0
      BY <1>5 DEF Ended
    <2>2. ~InWindow(d)'
      BY <2>1 DEF InWindow
    <2>3. tracking'[d].next_update <= clock' + Ceiling(d)
      BY <1>1, <2>1
    <2>4. QED
      BY <1>2, <1>3, <1>5, <2>1, <2>2, <2>3 DEF DeviceInv
  <1>6. ASSUME tracking'[d].poll_deadline # 0, clock' <= tracking'[d].poll_deadline,
               \/ tracking'[d].status_poll_failures # 0 \/ tracking'[d].auth_poll_failures # 0
               \/ tracking'[d].next_update <= clock' + Ceiling(d),
               tracking'[d].next_update # 0 \/ timer'[d] # Never
        PROVE  DeviceInv(d)'
    <2>1. InWindow(d)'
      BY <1>6 DEF InWindow
    <2>2. QED
      BY <1>2, <1>3, <1>6, <2>1 DEF DeviceInv
  <1>7. CASE Scheduled(tracking[d], tracking'[d], d, clock')
    <2>1. tracking'[d].next_update # 0 /\ tracking'[d].next_update <= clock' + Ceiling(d)
      BY <1>1, <1>7 DEF Scheduled
    <2>2. QED
      BY <1>6, <1>7, <2>1 DEF Scheduled
  <1>8. CASE Retried(tracking[d], tracking'[d], clock')
    BY <1>6, <1>8 DEF Retried
  <1>9. CASE /\ tracking'[d].next_update = 0 /\ tracking'[d].poll_deadline # 0
             /\ clock' <= tracking'[d].poll_deadline
             /\ timer'[d] # Never
    <2>1. tracking'[d].next_update <= clock' + Ceiling(d)
      BY <1>1, <1>9
    <2>2. QED
      BY <1>6, <1>9, <2>1
  <1>10. QED
    BY <1>4, <1>5, <1>7, <1>8, <1>9 DEF Placed

-----------------------------------------------------------------------------
(* Where the steps leave loop() and the clock.                             *)

\* A step between two runs of loop(), or a received packet, takes no time.
LEMMA IdleTimes ==
    ASSUME ClockInv, Spend \/ Receive \/ (pc = "idle" /\ UNCHANGED loopVars)
    PROVE  ClockInv' /\ clock \in 0..LastClock /\ clock' = clock /\ pc # "due" /\ pc' # "due"
  BY Constants DEF ClockInv, Spend, Receive, loopVars

\* A dispatched operation takes time, and loop() goes on to the due polls.
LEMMA DispatchTimes ==
    ASSUME ClockInv, NEW types, Dispatch(types)
    PROVE  /\ ClockInv' /\ clock \in 0..LastClock /\ clock' \in 0..LastClock /\ clock <= clock'
           /\ pc = "dispatch" /\ pc' = "due"
  <1>1. PICK spent \in 0..ExchangeTime : clock' = clock + spent
    BY DEF Dispatch
  <1>2. pc = "dispatch" /\ pc' = "due"
    BY DEF Dispatch
  <1>3. ExchangeTime \in Nat /\ MaxClock \in Nat /\ LastClock = MaxClock + ExchangeTime
    BY Constants DEF LastClock
  <1>4. clock \in Nat /\ clock < MaxClock
    BY <1>2 DEF ClockInv
  <1>5. clock' \in Nat /\ clock <= clock' /\ clock' < LastClock
    BY <1>1, <1>3, <1>4
  <1>6. QED
    BY <1>2, <1>3, <1>4, <1>5 DEF ClockInv

\* What a dispatched operation leaves in the queue.
LEMMA DispatchTakes ==
    ASSUME queue \in Seq(Operations), NEW types, Dispatch(types)
    PROVE  /\ Head(queue) \in Operations /\ Head(queue).type \in types /\ queue' \in Seq(Operations)
           /\ types \subseteq DeviceControlTypes \cup BackgroundTypes => Target \in Devices
           /\ \A d \in Devices :
                /\ ControlQueued(queue, d) /\ ~(Head(queue).type \in DeviceControlTypes /\ Target = d)
                   => ControlQueued(queue', d)
                /\ StatusQueued(queue, d) /\ ~(Head(queue).type = "REQUEST_STATUS" /\ Target = d)
                   => StatusQueued(queue', d)
  <1>1. queue # <<>> /\ Head(queue).type \in types /\ queue' = Tail(queue)
    BY DEF Dispatch
  <1>2. Head(queue) \in Operations
    BY <1>1, TailKeeps
  <1>3. types \subseteq DeviceControlTypes \cup BackgroundTypes => Target \in Devices
    BY <1>1, <1>2 DEF Operations, Target
  <1>4. QED
    BY <1>1, <1>2, <1>3, TailKeeps DEF Target

\* A device that is left alone while another one's operation is dispatched.
LEMMA Undisturbed ==
    ASSUME NEW d \in Devices,
           tracking'[d] = tracking[d], timer'[d] = timer[d], dev'[d] = dev[d], phys'[d] = phys[d],
           backed'[d] = backed[d], ~excused'[d] => ~excused[d],
           ControlQueued(queue, d) => ControlQueued(queue', d),
           StatusQueued(queue, d) => StatusQueued(queue', d) \/ ControlQueued(queue', d) \/ excused'[d]
    PROVE  Carried(d)
  <1>1. Settled(d)' = Settled(d)
    BY DEF Settled
  <1>2. QED
    BY <1>1 DEF Carried

-----------------------------------------------------------------------------
(* Entities, buttons and API actions.                                      *)

\* A device stays settled as long as it is shown as before.
LEMMA SettledShown ==
    ASSUME TypeInv, NEW d \in Devices, phys'[d] = phys[d],
           \A p \in 0..100 : AtRest(dev[d], p) => AtRest(dev'[d], p)
    PROVE  Settled(d) => Settled(d)'
  <1>1. phys[d].at \in 0..100
    BY DEF TypeInv
  <1>2. QED
    BY <1>1 DEF Settled

\* A step that takes no time and carries every device over.
LEMMA IdleInv ==
    ASSUME TypeInv, \A d \in Devices : DeviceInv(d) /\ Carried(d),
           Spend \/ Receive \/ (pc = "idle" /\ UNCHANGED loopVars)
    PROVE  \A d \in Devices : DeviceInv(d)'
  <1>1. ClockInv' /\ clock \in Nat /\ clock' = clock /\ pc # "due"
    BY IdleTimes, LastClockType DEF TypeInv
  <1>2. clock' \in Nat /\ clock <= clock'
    BY <1>1
  <1>3. QED
    BY <1>1, <1>2, CarriedInv

\* A cover command: queued, or its prediction withdrawn at once.
LEMMA ControlInv ==
    ASSUME IInv, NEW d \in Devices, NEW predicted, NEW guard, NEW queued,
           Predicts(dev[d], predicted), Commanded(queue, queued, d), Control(d, predicted, guard, queued)
    PROVE  IInv'
  <1>1. /\ Spend /\ UNCHANGED <<tracking, timer, phys, excused>>
        /\ \/ dev' = [dev EXCEPT ![d] = predicted] /\ queue' = queued /\ backed' = backed
           \/ /\ dev' = [dev EXCEPT ![d] = rollback_optimistic(predicted)]
              /\ backed' = [backed EXCEPT ![d] = FALSE] /\ queue' = queue
    BY DEF Control
  <1>2. TypeInv /\ ClockInv' /\ \A e \in Devices : DeviceInv(e)
    BY <1>1, IdleTimes DEF IInv, TypeInv
  <1>3. CASE dev' = [dev EXCEPT ![d] = predicted] /\ queue' = queued /\ backed' = backed
    <2>1. predicted \in Records
      BY DEF Predicts
    <2>2. TypeInv'
      BY <1>1, <1>2, <1>3, <2>1 DEF TypeInv, Commanded
    <2>3. /\ KeepsControls(queue, queue') /\ KeepsPolls(queue, queue', Devices \ {d})
          /\ ControlQueued(queue', d)
      BY <1>3 DEF Commanded
    <2>4. ASSUME NEW e \in Devices PROVE Carried(e)
      <3>1. CASE e = d
        BY <1>1, <2>3, <3>1 DEF Carried, KeepsControls
      <3>2. CASE e # d
        <4>1. dev'[e] = dev[e]
          BY <1>2, <1>3, <3>2 DEF TypeInv
        <4>2. QED
          BY <1>1, <1>3, <2>3, <3>2, <4>1, Undisturbed DEF KeepsControls, KeepsPolls
      <3>3. QED
        BY <3>1, <3>2
    <2>5. QED
      BY <1>1, <1>2, <2>2, <2>4, IdleInv DEF IInv
  <1>4. CASE /\ dev' = [dev EXCEPT ![d] = rollback_optimistic(predicted)]
             /\ backed' = [backed EXCEPT ![d] = FALSE] /\ queue' = queue
    <2>1. PICK w \in Records :
            /\ w = rollback_optimistic(predicted) /\ w.optimistic = OptimisticState
            /\ \A p \in 0..100 : AtRest(dev[d], p) => AtRest(w, p)
      BY <1>2, Withdraws DEF TypeInv
    <2>2. dev' = [dev EXCEPT ![d] = w]
      BY <1>4, <2>1
    <2>3. TypeInv'
      BY <1>1, <1>2, <1>4, <2>1, <2>2 DEF TypeInv
    <2>4. ASSUME NEW e \in Devices PROVE Carried(e)
      <3>1. CASE e = d
        <4>1. dev'[d] = w
          BY <1>2, <2>2 DEF TypeInv
        <4>2. Settled(d) => Settled(d)'
          BY <1>1, <1>2, <2>1, <4>1, SettledShown
        <4>3. QED
          BY <1>1, <1>4, <2>1, <3>1, <4>1, <4>2 DEF Carried
      <3>2. CASE e # d
        <4>1. dev'[e] = dev[e] /\ backed'[e] = backed[e]
          BY <1>2, <1>4, <2>2, <3>2 DEF TypeInv
        <4>2. QED
          BY <1>1, <1>4, <4>1, Undisturbed
      <3>3. QED
        BY <3>1, <3>2
    <2>5. QED
      BY <1>1, <1>2, <2>3, <2>4, IdleInv DEF IInv
  <1>5. QED
    BY <1>1, <1>3, <1>4

\* The four commands of a cover.
LEMMA CoverInv ==
    ASSUME IInv, NEW d \in Devices
    PROVE  /\ \A p \in Positions : SetPosition(d, p) => IInv'
           /\ \A t \in Tilts : SetTilt(d, t) => IInv'
           /\ \A p \in Positions, t \in Tilts : SetPositionAndTilt(d, p, t) => IInv'
           /\ Stop(d) => IInv'
  <1>1. dev[d] \in Records /\ queue \in Seq(Operations)
    BY DEF IInv, TypeInv
  <1>2. ASSUME NEW p \in Positions, SetPosition(d, p) PROVE IInv'
    <2>1. Predicts(dev[d], apply_optimistic_target(dev[d], p))
          /\ Commanded(queue, enqueue_set_position(queue, d, p), d)
      BY <1>1, Constants, Predictions, SetPositionCommands
    <2>2. QED
      BY <1>2, <2>1, ControlInv DEF SetPosition
  <1>3. ASSUME NEW t \in Tilts, SetTilt(d, t) PROVE IInv'
    <2>1. Predicts(dev[d], apply_optimistic_tilt(dev[d], t))
          /\ Commanded(queue, enqueue_set_tilt(queue, d, t), d)
      BY <1>1, Constants, Predictions, SetTiltCommands
    <2>2. QED
      BY <1>3, <2>1, ControlInv DEF SetTilt
  <1>4. ASSUME NEW p \in Positions, NEW t \in Tilts, SetPositionAndTilt(d, p, t) PROVE IInv'
    <2> DEFINE w == apply_optimistic_target(dev[d], p)
    <2>1. Predicts(dev[d], w) /\ w \in Records
      BY <1>1, Constants, Predictions DEF Predicts
    <2> HIDE DEF w
    <2>2. Predicts(w, apply_optimistic_tilt(w, t))
      BY <2>1, Constants, Predictions
    <2>3. Predicts(dev[d], apply_optimistic_tilt(w, t))
      BY <2>1, <2>2, PredictsTwice
    <2>4. Commanded(queue, enqueue_set_position_and_tilt(queue, d, p, t), d)
      BY <1>1, Constants, OtherCommands
    <2>5. QED
      BY <1>4, <2>3, <2>4, ControlInv DEF SetPositionAndTilt, w
  <1>5. ASSUME Stop(d) PROVE IInv'
    <2>1. 0 \in 0..100 /\ TRUE \in BOOLEAN
      OBVIOUS
    <2>2. Predicts(dev[d], apply_optimistic_stop(dev[d]))
      BY <1>1, <2>1, Predictions
    <2>3. Commanded(queue, enqueue_device_command(queue, d, "STOP"), d)
      BY <1>1, <2>1, OtherCommands
    <2>4. QED
      BY <1>5, <2>2, <2>3, ControlInv DEF Stop
  <1>6. QED
    BY <1>2, <1>3, <1>4, <1>5

\* A light, lock or switch that is written to.
LEMMA WriteInv ==
    ASSUME IInv, NEW d \in Devices, NEW entities, NEW class, NEW queued,
           Commanded(queue, queued, d), Write(d, entities, class, queued)
    PROVE  /\ dev' = dev /\ excused' = excused => IInv'
           /\ \A p \in Positions :
                /\ dev' = [dev EXCEPT ![d].shown.position = p]
                /\ excused' = [excused EXCEPT ![d] = @ \/ queue_guard_rejects(d, class)]
                => IInv'
  <1>1. /\ Spend /\ UNCHANGED <<tracking, timer, phys, backed>>
        /\ queue' = queue \/ queue' = queued
        /\ ~queue_guard_rejects(d, class) => queue' = queued
    BY DEF Write
  <1>2. TypeInv /\ ClockInv' /\ \A e \in Devices : DeviceInv(e)
    BY <1>1, IdleTimes DEF IInv, TypeInv
  <1>3. /\ queue' \in Seq(Operations) /\ KeepsControls(queue, queue') /\ KeepsPolls(queue, queue', Devices \ {d})
        /\ StatusQueued(queue, d) => StatusQueued(queue', d) \/ ControlQueued(queue', d)
        /\ ~queue_guard_rejects(d, class) => ControlQueued(queue', d)
    BY <1>1, <1>2 DEF Commanded, TypeInv, KeepsControls, KeepsPolls
  <1>4. ASSUME dev' = dev, excused' = excused PROVE IInv'
    <2>1. TypeInv'
      BY <1>1, <1>2, <1>3, <1>4 DEF TypeInv
    <2>2. ASSUME NEW e \in Devices PROVE Carried(e)
      BY <1>1, <1>3, <1>4, Undisturbed DEF KeepsControls, KeepsPolls
    <2>3. QED
      BY <1>1, <1>2, <2>1, <2>2, IdleInv DEF IInv
  <1>5. ASSUME NEW p \in Positions, dev' = [dev EXCEPT ![d].shown.position = p],
               excused' = [excused EXCEPT ![d] = @ \/ queue_guard_rejects(d, class)]
        PROVE  IInv'
    <2>1. dev[d] \in Records /\ dev[d].shown \in Displays /\ p \in Degrees
      BY <1>2, Constants, DegreesType DEF TypeInv, Records
    <2>2. PICK s \in Displays : s = [dev[d].shown EXCEPT !.position = p]
      BY <2>1 DEF Displays
    <2>3. PICK w \in Records : w = [dev[d] EXCEPT !.shown = s] /\ w.optimistic = dev[d].optimistic
      <3>1. ASSUME NEW v \in Records PROVE [v EXCEPT !.shown = s] \in Records /\ [v EXCEPT !.shown = s].optimistic = v.optimistic
        BY DEF Records
      <3>2. QED
        BY <2>1, <3>1
    <2>4. dev' = [dev EXCEPT ![d] = w]
      BY <1>2, <1>5, <2>2, <2>3 DEF TypeInv, Records
    <2>5. PICK x \in BOOLEAN : x = (excused[d] \/ queue_guard_rejects(d, class))
      OBVIOUS
    <2>6. excused' = [excused EXCEPT ![d] = x]
      BY <1>5, <2>5
    <2>7. TypeInv'
      BY <1>1, <1>2, <1>3, <2>4, <2>6 DEF TypeInv
    <2>8. ASSUME NEW e \in Devices PROVE Carried(e)
      <3>1. CASE e = d
        <4>1. dev'[d] = w /\ excused'[d] = x
          BY <1>2, <2>4, <2>6 DEF TypeInv
        <4>2. ~excused'[d] => ~excused[d] /\ ControlQueued(queue', d)
          BY <1>3, <2>5, <4>1
        <4>3. QED
          BY <1>1, <1>3, <2>3, <3>1, <4>1, <4>2 DEF Carried, KeepsControls
      <3>2. CASE e # d
        <4>1. dev'[e] = dev[e] /\ excused'[e] = excused[e]
          BY <1>2, <2>4, <2>6, <3>2 DEF TypeInv
        <4>2. QED
          BY <1>1, <1>3, <3>2, <4>1, Undisturbed DEF KeepsControls, KeepsPolls
      <3>3. QED
        BY <3>1, <3>2
    <2>9. QED
      BY <1>1, <1>2, <2>7, <2>8, IdleInv DEF IInv
  <1>6. QED
    BY <1>4, <1>5

\* The commands of lights, locks and switches.
LEMMA BinaryInv ==
    ASSUME IInv, NEW d \in Devices
    PROVE  /\ \A p \in Positions : SetLight(d, p) => IInv'
           /\ \A b \in BOOLEAN : SetLock(d, b) \/ SetSwitch(d, b) => IInv'
  <1>1. queue \in Seq(Operations)
    BY DEF IInv, TypeInv
  <1>2. 0 \in 0..100 /\ TRUE \in BOOLEAN /\ Positions \subseteq 0..100
    BY Constants
  <1>3. ASSUME NEW p \in Positions, SetLight(d, p) PROVE IInv'
    <2>1. Commanded(queue, enqueue_set_light_position(queue, d, p), d)
      BY <1>1, <1>2, OtherCommands
    <2>2. QED
      BY <1>3, <2>1, WriteInv DEF SetLight
  <1>4. ASSUME NEW b \in BOOLEAN, SetLock(d, b) \/ SetSwitch(d, b) PROVE IInv'
    <2>1. Commanded(queue, enqueue_set_lock_state(queue, d, b), d)
          /\ Commanded(queue, enqueue_set_switch_state(queue, d, b), d)
      BY <1>1, <1>2, OtherCommands
    <2>2. QED
      BY <1>4, <2>1, WriteInv DEF SetLock, SetSwitch
  <1>5. QED
    BY <1>3, <1>4

\* What only adds to the queue is no business of any device's follow-up.
LEMMA AddInv ==
    ASSUME IInv, Spend, UNCHANGED <<tracking, timer, dev, phys, excused, backed>>,
           queue' \in Seq(Operations), KeepsControls(queue, queue'), KeepsPolls(queue, queue', Devices)
    PROVE  IInv'
  <1>1. TypeInv /\ ClockInv' /\ \A e \in Devices : DeviceInv(e)
    BY IdleTimes DEF IInv, TypeInv
  <1>2. TypeInv'
    BY <1>1 DEF TypeInv
  <1>3. ASSUME NEW e \in Devices PROVE Carried(e)
    BY Undisturbed DEF KeepsControls, KeepsPolls
  <1>4. QED
    BY <1>1, <1>2, <1>3, IdleInv DEF IInv

\* Polls asked for by entities, and 1W buttons.
LEMMA RequestsInv ==
    ASSUME IInv
    PROVE  /\ \A d \in Devices : RequestStatus(d) \/ RequestName(d) => IInv'
           /\ PressOneway => IInv'
  <1>1. queue \in Seq(Operations) /\ KeepsControls(queue, queue) /\ KeepsPolls(queue, queue, Devices)
    BY DEF IInv, TypeInv, KeepsControls, KeepsPolls
  <1>2. ASSUME NEW d \in Devices, RequestStatus(d) PROVE IInv'
    <2>1. queue' \in {queue, enqueue_request_status(queue, d)}
      BY <1>2 DEF RequestStatus, queue_request_device_status
    <2>2. queue' \in Seq(Operations) /\ KeepsControls(queue, queue') /\ KeepsPolls(queue, queue', Devices)
      BY <1>1, <2>1, PollsQueued
    <2>3. QED
      BY <1>2, <2>2, AddInv DEF RequestStatus, oneway
  <1>3. ASSUME NEW d \in Devices, RequestName(d) PROVE IInv'
    <2>1. queue' \in Seq(Operations) /\ KeepsControls(queue, queue') /\ KeepsPolls(queue, queue', Devices)
      BY <1>1, <1>3, NamesQueued DEF RequestName
    <2>2. QED
      BY <1>3, <2>1, AddInv DEF RequestName
  <1>4. ASSUME PressOneway PROVE IInv'
    <2>1. queue' \in Seq(Operations) /\ KeepsControls(queue, queue') /\ KeepsPolls(queue, queue', Devices)
      BY <1>1, <1>4, PressKeeps DEF PressOneway
    <2>2. QED
      BY <1>4, <2>1, AddInv DEF PressOneway
  <1>5. QED
    BY <1>2, <1>3, <1>4

\* Polls that pairing flushes are excused.
LEMMA PairInv == ASSUME IInv, Pair PROVE IInv'
  <1>1. /\ Spend /\ UNCHANGED <<tracking, timer, dev, phys, backed>>
        /\ excused' = [d \in Devices |-> excused[d] \/ (StatusQueued(queue, d) /\ ~StatusQueued(queue', d))]
    BY DEF Pair
  <1>2. TypeInv /\ ClockInv' /\ \A e \in Devices : DeviceInv(e)
    BY <1>1, IdleTimes DEF IInv, TypeInv
  <1>3. queue' \in Seq(Operations) /\ KeepsControls(queue, queue')
    BY <1>2, PairKeeps DEF Pair, TypeInv
  <1>4. excused' \in [Devices -> BOOLEAN]
    BY <1>1
  <1>5. TypeInv'
    BY <1>1, <1>2, <1>3, <1>4 DEF TypeInv
  <1>6. ASSUME NEW e \in Devices PROVE Carried(e)
    <2>1. excused'[e] = (excused[e] \/ (StatusQueued(queue, e) /\ ~StatusQueued(queue', e)))
      BY <1>1
    <2>2. QED
      BY <1>1, <1>3, <2>1, Undisturbed DEF KeepsControls
  <1>7. QED
    BY <1>1, <1>2, <1>5, <1>6, IdleInv DEF IInv

\* The timeout of a remote's press becomes a queued poll, unless the device cannot be polled.
LEMMA TimeoutInv == ASSUME IInv, NEW d \in Devices, TimeoutFires(d) PROVE IInv'
  <1>1. /\ pc = "idle" /\ UNCHANGED loopVars /\ UNCHANGED <<tracking, dev, phys, backed>>
        /\ timer' = [timer EXCEPT ![d] = Never]
    BY DEF TimeoutFires
  <1>2. TypeInv /\ ClockInv' /\ \A e \in Devices : DeviceInv(e)
    BY <1>1, IdleTimes DEF IInv, TypeInv
  <1>3. PICK x \in BOOLEAN :
          /\ x = (excused[d] \/ queue_guard_rejects(d, "STATUS"))
          /\ excused' = [excused EXCEPT ![d] = x]
          /\ queue' = queue \/ queue' = enqueue_request_status(queue, d)
          /\ x \/ queue' = enqueue_request_status(queue, d)
    BY DEF TimeoutFires, queue_request_device_status
  <1>4. /\ queue' \in Seq(Operations) /\ KeepsControls(queue, queue') /\ KeepsPolls(queue, queue', Devices)
        /\ x \/ StatusQueued(queue', d)
    BY <1>2, <1>3, PollsQueued DEF TypeInv, KeepsControls, KeepsPolls
  <1>5. TypeInv'
    BY <1>1, <1>2, <1>3, <1>4 DEF TypeInv
  <1>6. ASSUME NEW e \in Devices PROVE Carried(e)
    <2>1. CASE e = d
      <3>1. excused'[d] = x
        BY <1>2, <1>3 DEF TypeInv
      <3>2. Settled(d)' = Settled(d)
        BY <1>1 DEF Settled
      <3>3. QED
        BY <1>1, <1>3, <1>4, <2>1, <3>1, <3>2 DEF Carried, KeepsControls, KeepsPolls
    <2>2. CASE e # d
      <3>1. timer'[e] = timer[e] /\ excused'[e] = excused[e]
        BY <1>1, <1>2, <1>3, <2>2 DEF TypeInv
      <3>2. QED
        BY <1>1, <1>4, <3>1, Undisturbed DEF KeepsControls, KeepsPolls
    <2>3. QED
      BY <2>1, <2>2
  <1>7. QED
    BY <1>1, <1>2, <1>5, <1>6, IdleInv DEF IInv

-----------------------------------------------------------------------------
(* The world, and what is heard of it.                                     *)

\* A device goes from one place to another.
LEMMA Moves ==
    ASSUME TypeInv, NEW d \in Devices, NEW p \in 0..100
    PROVE  /\ [phys EXCEPT ![d].goal = p] \in [Devices -> [at : 0..100, goal : 0..100]]
           /\ [phys EXCEPT ![d].at = p] \in [Devices -> [at : 0..100, goal : 0..100]]
  <1> DEFINE Places == [at : 0..100, goal : 0..100]
  <1>1. phys \in [Devices -> Places] /\ phys[d] \in Places
    BY DEF TypeInv
  <1>2. PICK x \in Places, y \in Places : x = [phys[d] EXCEPT !.goal = p] /\ y = [phys[d] EXCEPT !.at = p]
    BY <1>1
  <1>3. [phys EXCEPT ![d].goal = p] = [phys EXCEPT ![d] = x] /\ [phys EXCEPT ![d].at = p] = [phys EXCEPT ![d] = y]
    BY <1>2
  <1> HIDE DEF Places
  <1>4. [phys EXCEPT ![d] = x] \in [Devices -> Places] /\ [phys EXCEPT ![d] = y] \in [Devices -> Places]
    BY <1>1
  <1>5. QED
    BY <1>3, <1>4 DEF Places

\* A device that arrives was not settled before.
LEMMA ArriveInv == ASSUME IInv, NEW d \in Devices, Arrive(d) PROVE IInv'
  <1>1. /\ pc = "idle" /\ UNCHANGED loopVars /\ UNCHANGED <<queue, tracking, timer, dev, excused, backed>>
        /\ phys[d].at # phys[d].goal /\ phys' = [phys EXCEPT ![d].at = phys[d].goal]
    BY DEF Arrive
  <1>2. TypeInv /\ ClockInv' /\ \A e \in Devices : DeviceInv(e)
    BY <1>1, IdleTimes DEF IInv, TypeInv
  <1>3. phys' \in [Devices -> [at : 0..100, goal : 0..100]]
    <2>1. phys[d].goal \in 0..100
      BY <1>2 DEF TypeInv
    <2>2. QED
      BY <1>1, <1>2, <2>1, Moves
  <1>4. TypeInv'
    BY <1>1, <1>2, <1>3 DEF TypeInv
  <1>5. ASSUME NEW e \in Devices PROVE Carried(e)
    <2>1. CASE e = d
      BY <1>1, <2>1 DEF Carried, Settled
    <2>2. CASE e # d
      <3>1. phys'[e] = phys[e]
        BY <1>1, <1>2, <2>2 DEF TypeInv
      <3>2. QED
        BY <1>1, <3>1, Undisturbed
    <2>3. QED
      BY <2>1, <2>2
  <1>6. QED
    BY <1>1, <1>2, <1>4, <1>5, IdleInv DEF IInv

\* A follow-up is in hand because a command is queued or a window is open.
LEMMA HandHasCause ==
    ASSUME NEW d \in Devices, FollowUp(queue, tracking[d], timer[d], d)
    PROVE  ControlQueued(queue, d) \/ tracking[d].poll_deadline # 0
  BY DEF FollowUp, is_tracking_active

\* A press nobody heard moves a device that is followed up, or excuses it.
LEMMA UnheardInv == ASSUME IInv, NEW d \in Devices, NEW p \in Positions, UnheardPress(d, p) PROVE IInv'
  <1>1. /\ Spend /\ UNCHANGED <<queue, tracking, timer, dev, backed>>
        /\ phys' = [phys EXCEPT ![d].goal = p]
    BY DEF UnheardPress
  <1>2. TypeInv /\ ClockInv' /\ (\A e \in Devices : DeviceInv(e)) /\ p \in 0..100
    BY <1>1, IdleTimes, Constants DEF IInv, TypeInv
  <1>3. phys' \in [Devices -> [at : 0..100, goal : 0..100]]
    BY <1>1, <1>2, Moves
  <1>4. PICK x \in BOOLEAN :
          /\ x = (excused[d] \/ ~FollowUp(queue, tracking[d], timer[d], d))
          /\ excused' = [excused EXCEPT ![d] = x]
    BY DEF UnheardPress
  <1>5. x \/ (~excused[d] /\ (ControlQueued(queue, d) \/ tracking[d].poll_deadline # 0))
    BY <1>4, HandHasCause
  <1>6. TypeInv'
    BY <1>1, <1>2, <1>3, <1>4 DEF TypeInv
  <1>7. ASSUME NEW e \in Devices PROVE Carried(e)
    <2>1. CASE e = d
      <3>1. excused'[d] = x
        BY <1>2, <1>4 DEF TypeInv
      <3>2. QED
        BY <1>1, <1>5, <2>1, <3>1 DEF Carried
    <2>2. CASE e # d
      <3>1. phys'[e] = phys[e] /\ excused'[e] = excused[e]
        BY <1>1, <1>2, <1>4, <2>2 DEF TypeInv
      <3>2. QED
        BY <1>1, <3>1, Undisturbed
    <2>3. QED
      BY <2>1, <2>2
  <1>8. QED
    BY <1>1, <1>2, <1>6, <1>7, IdleInv DEF IInv

\* loop() with nothing to receive, or nothing to dispatch.
LEMMA QuietInv ==
    ASSUME IInv, ReceiveNothing \/ DispatchNothing
    PROVE  IInv'
  <1>1. /\ pc \in {"idle", "dispatch"} /\ clock < MaxClock /\ pc' \in {"dispatch", "due"} /\ clock' = clock
        /\ pc' = "dispatch" \/ pc' = "due"
        /\ UNCHANGED <<queue, tracking, timer, dev, phys, excused, backed>>
    BY DEF ReceiveNothing, DispatchNothing, IInv, TypeInv, ClockInv
  <1>2. TypeInv /\ \A e \in Devices : DeviceInv(e)
    BY DEF IInv
  <1>3. ClockInv' /\ clock \in Nat /\ clock' \in Nat /\ clock <= clock' /\ pc # "due"
    BY <1>1, <1>2, Constants DEF TypeInv, ClockInv
  <1>4. TypeInv'
    BY <1>1, <1>2, <1>3 DEF TypeInv
  <1>5. ASSUME NEW e \in Devices PROVE DeviceInv(e)'
    <2>1. Carried(e)
      BY <1>1, Undisturbed
    <2>2. QED
      BY <1>1, <1>2, <1>3, <2>1, CarriedInv
  <1>6. QED
    BY <1>4, <1>5 DEF IInv

\* A 1W frame that is nobody's.
LEMMA StrangerInv == ASSUME IInv, ReceiveStranger PROVE IInv'
  <1>1. Receive /\ UNCHANGED <<queue, tracking, timer, dev, phys, excused, backed>>
    BY DEF ReceiveStranger
  <1>2. TypeInv /\ ClockInv' /\ \A e \in Devices : DeviceInv(e)
    BY <1>1, IdleTimes DEF IInv, TypeInv
  <1>3. TypeInv'
    BY <1>1, <1>2 DEF TypeInv
  <1>4. ASSUME NEW e \in Devices PROVE Carried(e)
    BY <1>1, Undisturbed
  <1>5. QED
    BY <1>1, <1>2, <1>3, <1>4, IdleInv DEF IInv

\* Where a remote may send a device.
LEMMA Goals ==
    ASSUME TypeInv, NEW d \in Devices, NEW what \in Positions \cup {POS_STOP}
    PROVE  [phys[d] EXCEPT !.goal = GoalOf(d, what)] \in [at : 0..100, goal : 0..100]
  <1>1. phys[d] \in [at : 0..100, goal : 0..100]
    BY DEF TypeInv
  <1>2. GoalOf(d, what) \in 0..100
    BY <1>1, Constants DEF GoalOf
  <1>3. QED
    BY <1>1, <1>2

\* A linked remote: tracked and to be polled; a repeat changes nothing but where devices go.
LEMMA RemoteInv ==
    ASSUME FirstHalfLap, IInv, NEW what \in Positions \cup {POS_STOP}, ReceiveLinkedRemote(what)
    PROVE  IInv'
  <1>1. /\ Receive /\ queue' = queue
        /\ phys' = [d \in Devices |-> [phys[d] EXCEPT !.goal = GoalOf(d, what)]]
    BY DEF ReceiveLinkedRemote
  <1>2. TypeInv /\ ClockInv' /\ (\A e \in Devices : DeviceInv(e)) /\ clock' = clock /\ clock \in 0..LastClock
    BY <1>1, IdleTimes DEF IInv, TypeInv
  <1>3. phys' \in [Devices -> [at : 0..100, goal : 0..100]]
    BY <1>1, <1>2, Goals
  <1>4. CASE /\ excused' = [d \in Devices |->
                  excused[d] \/ (phys'[d] # phys[d] /\ ~FollowUp(queue, tracking[d], timer[d], d))]
             /\ UNCHANGED <<dev, tracking, timer, backed>>
    <2>1. excused' \in [Devices -> BOOLEAN]
      BY <1>4
    <2>2. TypeInv'
      BY <1>1, <1>2, <1>3, <1>4, <2>1 DEF TypeInv
    <2>3. ASSUME NEW e \in Devices PROVE Carried(e)
      <3>1. \/ excused'[e] \/ phys'[e] = phys[e]
            \/ ControlQueued(queue, e) \/ tracking[e].poll_deadline # 0
        BY <1>4, HandHasCause
      <3>2. ~excused'[e] => ~excused[e]
        BY <1>4
      <3>3. phys'[e] = phys[e] => Settled(e)' = Settled(e)
        BY <1>4 DEF Settled
      <3>4. QED
        BY <1>1, <1>4, <3>1, <3>2, <3>3 DEF Carried
    <2>4. QED
      BY <1>1, <1>2, <2>2, <2>3, IdleInv DEF IInv
  <1>5. CASE /\ dev' = [d \in Devices |->
                  IF what = POS_STOP THEN apply_optimistic_stop(dev[d])
                  ELSE apply_optimistic_target(dev[d], what)]
             /\ backed' = [d \in Devices |-> TRUE]
             /\ tracking' = [d \in Devices |-> begin_tracking(tracking[d], 0, millis)]
             /\ timer' = [d \in Devices |->
                            clock + IF what = POS_STOP THEN 0 ELSE REMOTE_ACTIVITY_STATUS_POLL_DELAY_MS]
             /\ excused' = [d \in Devices |-> FALSE]
    <2>1. dev' \in [Devices -> Records]
      <3>1. ASSUME NEW d \in Devices
            PROVE  (IF what = POS_STOP THEN apply_optimistic_stop(dev[d])
                    ELSE apply_optimistic_target(dev[d], what)) \in Records
        <4>1. dev[d] \in Records /\ 0 \in 0..100
          BY <1>2 DEF TypeInv
        <4>2. apply_optimistic_stop(dev[d]) \in Records
          BY <4>1, Predictions DEF Predicts
        <4>3. what # POS_STOP => apply_optimistic_target(dev[d], what) \in Records
          BY <4>1, Constants, Predictions DEF Predicts
        <4>4. QED
          BY <4>2, <4>3
      <3>2. QED
        BY <1>5, <3>1
    <2>2. ASSUME NEW d \in Devices
          PROVE  /\ tracking'[d] \in Trackings /\ tracking'[d].interval = Interval[d]
                 /\ tracking'[d].next_update = 0 /\ tracking'[d].poll_deadline # 0
                 /\ clock' <= tracking'[d].poll_deadline
      <3>1. tracking[d] \in Trackings /\ tracking[d].interval = Interval[d]
        BY <1>2 DEF TypeInv, DeviceInv
      <3>2. tracking'[d] = begin_tracking(tracking[d], 0, clock)
        BY <1>2, <1>5, Times DEF millis
      <3>3. 0 \in Nat /\ 0 <= Ceiling(d)
        BY CeilingType
      <3>4. QED
        BY <1>2, <3>1, <3>2, <3>3, Begins
    <2>3. ASSUME NEW d \in Devices PROVE timer'[d] \in Nat /\ timer'[d] # Never
      <3>1. REMOTE_ACTIVITY_STATUS_POLL_DELAY_MS \in Nat /\ clock \in Nat
        BY <1>2, Constants
      <3>2. QED
        BY <1>5, <3>1 DEF Never
    <2>4. tracking' \in [Devices -> Trackings] /\ timer' \in [Devices -> Nat \cup {Never}]
      BY <1>5, <2>2, <2>3
    <2>5. TypeInv'
      BY <1>1, <1>2, <1>3, <1>5, <2>1, <2>4 DEF TypeInv
    <2>6. ASSUME NEW d \in Devices PROVE Placed(d)
      BY <1>5, <2>2, <2>3 DEF Placed
    <2>7. clock' \in Nat
      BY <1>2, Constants
    <2>8. QED
      BY <2>5, <2>6, <2>7, PlacedInv DEF IInv
  <1>6. QED
    BY <1>4, <1>5 DEF ReceiveLinkedRemote

\* A step about one device.
LEMMA OneInv ==
    ASSUME IInv, TypeInv', NEW d \in Devices, Placed(d), \A e \in Devices \ {d} : Carried(e), clock <= clock',
           pc' = "due" \/ (pc # "due" /\ clock' = clock)
    PROVE  IInv'
  <1>1. TypeInv /\ (\A e \in Devices : DeviceInv(e)) /\ clock' \in Nat
    BY DEF IInv, TypeInv, ClockInv
  <1>2. ASSUME NEW e \in Devices PROVE DeviceInv(e)'
    <2>1. CASE e = d
      BY <1>1, <2>1, PlacedInv
    <2>2. CASE e # d
      BY <1>1, <2>2, CarriedInv
    <2>3. QED
      BY <2>1, <2>2
  <1>3. QED
    BY <1>2 DEF IInv

\* Another controller's frame: tracked and to be polled.
LEMMA ActivityInv ==
    ASSUME FirstHalfLap, IInv, NEW d \in Devices, NEW p \in Positions, ReceiveRemoteActivity(d, p)
    PROVE  IInv'
  <1>1. /\ Receive /\ UNCHANGED <<queue, dev, backed>>
        /\ phys' = [phys EXCEPT ![d].goal = p]
        /\ tracking' = [tracking EXCEPT ![d] = begin_tracking(tracking[d], 0, millis)]
        /\ timer' = [timer EXCEPT ![d] = clock + REMOTE_ACTIVITY_STATUS_POLL_DELAY_MS]
        /\ excused' = [excused EXCEPT ![d] = FALSE]
    BY DEF ReceiveRemoteActivity
  <1>2. /\ TypeInv /\ ClockInv' /\ DeviceInv(d) /\ p \in 0..100
        /\ clock' = clock /\ clock \in 0..LastClock /\ pc # "due"
    BY <1>1, IdleTimes, Constants DEF IInv, TypeInv
  <1>3. phys' \in [Devices -> [at : 0..100, goal : 0..100]]
    BY <1>1, <1>2, Moves
  <1>4. PICK r \in Trackings :
          /\ r = begin_tracking(tracking[d], 0, millis) /\ r.interval = Interval[d]
          /\ r.next_update = 0 /\ r.poll_deadline # 0 /\ clock <= r.poll_deadline
    <2>1. tracking[d] \in Trackings /\ tracking[d].interval = Interval[d]
      BY <1>2 DEF TypeInv, DeviceInv
    <2>2. millis = clock
      BY <1>2, Times DEF millis
    <2>3. 0 \in Nat /\ 0 <= Ceiling(d)
      BY CeilingType
    <2>4. QED
      BY <1>2, <2>1, <2>2, <2>3, Begins
  <1>5. PICK t \in Nat : t = clock + REMOTE_ACTIVITY_STATUS_POLL_DELAY_MS /\ t # Never
    BY <1>2, Constants DEF Never
  <1>6. tracking' = [tracking EXCEPT ![d] = r] /\ timer' = [timer EXCEPT ![d] = t]
    BY <1>1, <1>4, <1>5
  <1>7. TypeInv'
    BY <1>1, <1>2, <1>3, <1>6 DEF TypeInv
  <1>8. tracking'[d] = r /\ timer'[d] = t
    BY <1>2, <1>6 DEF TypeInv
  <1>9. Placed(d)
    BY <1>1, <1>2, <1>4, <1>5, <1>8 DEF Placed, DeviceInv
  <1>10. ASSUME NEW e \in Devices \ {d} PROVE Carried(e)
    <2>1. tracking'[e] = tracking[e] /\ timer'[e] = timer[e] /\ phys'[e] = phys[e] /\ excused'[e] = excused[e]
      BY <1>1, <1>2, <1>6 DEF TypeInv
    <2>2. QED
      BY <1>1, <2>1, Undisturbed
  <1>11. clock <= clock'
    BY <1>2, Constants
  <1>12. QED
    BY <1>2, <1>7, <1>9, <1>10, <1>11, OneInv

\* The reports of a device tell where it is, and whether it has arrived.
LEMMA ReportsPlausible ==
    ASSUME TypeInv, NEW d \in Devices, NEW r \in Reports(d)
    PROVE  /\ Plausible(r, phys[d].at, phys[d].goal) /\ r.hint \in Nat
           /\ Plausible([r EXCEPT !.extended = FALSE], phys[d].at, phys[d].goal)
  <1>1. phys[d] \in [at : 0..100, goal : 0..100]
    BY DEF TypeInv
  <1>2. device_supports_tilt(dev[d].type) \in BOOLEAN
    BY DEF device_supports_tilt
  <1>3. /\ r \in [stopped : BOOLEAN, target : {phys[d].goal, UNKNOWN}, current : {phys[d].at},
                  extended : {device_supports_tilt(dev[d].type)}, tilt : Tilts, hint : Hints]
        /\ phys[d].at = phys[d].goal => r.stopped
        /\ r.target = UNKNOWN => (r.stopped <=> phys[d].at = phys[d].goal)
    BY DEF Reports
  <1>4. r.tilt \in 0..100 /\ r.hint \in Nat /\ r.stopped \in BOOLEAN /\ r.extended \in BOOLEAN
        /\ r.current = phys[d].at /\ r.target \in {phys[d].goal, UNKNOWN}
    BY <1>2, <1>3, Constants
  <1>5. Plausible(r, phys[d].at, phys[d].goal)
    BY <1>1, <1>3, <1>4 DEF Plausible
  <1> DEFINE s == [r EXCEPT !.extended = FALSE]
  <1>6. /\ s.stopped = r.stopped /\ s.target = r.target /\ s.current = r.current
        /\ s.extended = FALSE /\ s.tilt = r.tilt
    BY <1>3
  <1> HIDE DEF s
  <1>7. Plausible(s, phys[d].at, phys[d].goal)
    BY <1>1, <1>3, <1>4, <1>6 DEF Plausible
  <1>8. QED
    BY <1>4, <1>5, <1>7 DEF s

\* A status update: settled, or polled again, or excused with its window closed.
LEMMA UpdateInv ==
    ASSUME FirstHalfLap, IInv, NEW d \in Devices, NEW r \in Reports(d), ReceiveStatusUpdate(d, r)
    PROVE  IInv'
  <1> DEFINE v == decode_status_fields(dev[d], [r EXCEPT !.extended = FALSE])
  <1>1. /\ Receive /\ UNCHANGED <<queue, timer, phys>>
        /\ dev' = [dev EXCEPT ![d] = notify(v)]
        /\ tracking' = [tracking EXCEPT ![d] = PolicyAfterStatusUpdate(tracking[d], v, millis)]
        /\ excused' = [excused EXCEPT ![d] = @ \/ (~effective_is_stopped(v) /\ tracking'[d].poll_deadline = 0)]
        /\ backed' = [backed EXCEPT ![d] = @ /\ v.optimistic.tilt # UNKNOWN]
    BY DEF ReceiveStatusUpdate
  <1>2. /\ TypeInv /\ ClockInv' /\ DeviceInv(d)
        /\ clock' = clock /\ clock \in 0..LastClock /\ pc # "due"
    BY <1>1, IdleTimes DEF IInv, TypeInv
  <1>3. /\ v \in Records
        /\ v.optimistic # OptimisticState => dev[d].optimistic # OptimisticState /\ v.optimistic.tilt # UNKNOWN
        /\ effective_is_stopped(v) => phys[d].at = phys[d].goal /\ AtRest(notify(v), phys[d].at)
    <2>1. dev[d] \in Records /\ Plausible([r EXCEPT !.extended = FALSE], phys[d].at, phys[d].goal)
      BY <1>2, ReportsPlausible DEF TypeInv
    <2>2. QED
      BY <2>1, Decodes
  <1> HIDE DEF v
  <1>4. PICK w \in Records : w = notify(v) /\ w.optimistic = v.optimistic
    BY <1>3, Notifies
  <1>5. PICK t \in Trackings :
          /\ t = PolicyAfterStatusUpdate(tracking[d], v, millis) /\ t.interval = Interval[d]
          /\ Ended(tracking[d], t) \/ Scheduled(tracking[d], t, d, clock)
    <2>1. tracking[d] \in Trackings /\ tracking[d].interval = Interval[d] /\ millis = clock
      BY <1>2, Times DEF TypeInv, DeviceInv, millis
    <2>2. QED
      BY <1>2, <2>1, Updates DEF Ended, Scheduled
  <1>6. dev' = [dev EXCEPT ![d] = w] /\ tracking' = [tracking EXCEPT ![d] = t]
    BY <1>1, <1>4, <1>5
  <1>7. dev'[d] = w /\ tracking'[d] = t /\ phys'[d] = phys[d]
    BY <1>1, <1>2, <1>6 DEF TypeInv
  <1>8. PICK x \in BOOLEAN, b \in BOOLEAN :
          /\ x = (excused[d] \/ (~effective_is_stopped(v) /\ t.poll_deadline = 0))
          /\ b = (backed[d] /\ v.optimistic.tilt # UNKNOWN)
          /\ excused' = [excused EXCEPT ![d] = x] /\ backed' = [backed EXCEPT ![d] = b]
    BY <1>1, <1>7
  <1>9. TypeInv'
    BY <1>1, <1>2, <1>6, <1>8 DEF TypeInv
  <1>10. excused'[d] = x /\ backed'[d] = b
    BY <1>2, <1>8 DEF TypeInv
  <1>11. w.optimistic # OptimisticState => b \/ ControlQueued(queue', d)
    BY <1>1, <1>2, <1>3, <1>4, <1>8 DEF DeviceInv
  <1>12. Ended(tracking[d], t) => x \/ Settled(d)'
    BY <1>3, <1>4, <1>7, <1>8 DEF Ended, Settled
  <1>13. Placed(d)
    BY <1>2, <1>5, <1>7, <1>10, <1>11, <1>12 DEF Placed
  <1>14. ASSUME NEW e \in Devices \ {d} PROVE Carried(e)
    <2>1. /\ tracking'[e] = tracking[e] /\ dev'[e] = dev[e]
          /\ excused'[e] = excused[e] /\ backed'[e] = backed[e]
      BY <1>2, <1>6, <1>8 DEF TypeInv
    <2>2. QED
      BY <1>1, <2>1, Undisturbed
  <1>15. clock <= clock'
    BY <1>2, Constants
  <1>16. QED
    BY <1>2, <1>9, <1>13, <1>14, <1>15, OneInv

-----------------------------------------------------------------------------
(* Dispatched operations.                                                  *)

\* An operation about one device, whatever its outcome.
LEMMA TargetInv ==
    ASSUME IInv, NEW types, Dispatch(types), NEW d \in Devices, d = Target,
           NEW t \in Trackings, NEW w \in Records, NEW x \in BOOLEAN, NEW b \in BOOLEAN,
           tracking' = [tracking EXCEPT ![d] = t], dev' = [dev EXCEPT ![d] = w],
           excused' = [excused EXCEPT ![d] = x], backed' = [backed EXCEPT ![d] = b],
           timer' = timer, phys' \in [Devices -> [at : 0..100, goal : 0..100]],
           \A e \in Devices \ {d} : phys'[e] = phys[e],
           t.interval = Interval[d],
           w.optimistic # OptimisticState => b \/ ControlQueued(queue', d),
           \/ x
           \/ Ended(tracking[d], t) /\ phys' = phys /\ phys[d].at = phys[d].goal /\ AtRest(w, phys[d].at)
           \/ Scheduled(tracking[d], t, d, clock')
           \/ Retried(tracking[d], t, clock')
    PROVE  IInv'
  <1>1. TypeInv /\ \A e \in Devices : DeviceInv(e)
    BY DEF IInv
  <1>2. /\ ClockInv' /\ clock \in Nat /\ clock' \in Nat /\ clock <= clock' /\ pc' = "due"
    BY <1>1, DispatchTimes DEF TypeInv, ClockInv
  <1>3. /\ queue' \in Seq(Operations)
        /\ \A e \in Devices \ {d} : /\ ControlQueued(queue, e) => ControlQueued(queue', e)
                                    /\ StatusQueued(queue, e) => StatusQueued(queue', e)
    BY <1>1, DispatchTakes DEF TypeInv
  <1>4. TypeInv'
    BY <1>1, <1>2, <1>3 DEF TypeInv
  <1>5. tracking'[d] = t /\ dev'[d] = w /\ excused'[d] = x /\ backed'[d] = b
    BY <1>1 DEF TypeInv
  <1>6. phys' = phys /\ phys[d].at = phys[d].goal /\ AtRest(w, phys[d].at) => Settled(d)'
    BY <1>5 DEF Settled
  <1>7. Placed(d)
    BY <1>5, <1>6 DEF Placed
  <1>8. ASSUME NEW e \in Devices \ {d} PROVE Carried(e)
    <2>1. tracking'[e] = tracking[e] /\ dev'[e] = dev[e] /\ excused'[e] = excused[e] /\ backed'[e] = backed[e]
      BY <1>1 DEF TypeInv
    <2>2. QED
      BY <1>3, <2>1, Undisturbed
  <1>9. QED
    BY <1>2, <1>4, <1>7, <1>8, OneInv

\* The device a command is for, and its tracking as the command begins.
LEMMA ExecuteTarget ==
    ASSUME FirstHalfLap, IInv, Dispatch(DeviceControlTypes)
    PROVE  /\ Target \in Devices
           /\ Started \in Trackings /\ Started.interval = Interval[Target]
           /\ tracking[Target] \in Trackings /\ tracking[Target].interval = Interval[Target]
           /\ dev[Target] \in Records /\ clock' \in 0..LastClock /\ millis' = clock'
  <1>1. TypeInv /\ \A e \in Devices : DeviceInv(e)
    BY DEF IInv
  <1>2. clock \in 0..LastClock /\ clock' \in 0..LastClock
    BY <1>1, DispatchTimes DEF TypeInv
  <1>3. Target \in Devices
    BY <1>1, DispatchTakes DEF TypeInv
  <1>4. tracking[Target] \in Trackings /\ tracking[Target].interval = Interval[Target] /\ dev[Target] \in Records
    BY <1>1, <1>3 DEF TypeInv, DeviceInv
  <1>5. millis = clock /\ millis' = clock'
    BY <1>2, Times DEF millis
  <1>6. Interval[Target] \in Nat /\ Interval[Target] <= Ceiling(Target)
    BY <1>3, Constants, PolicyAssumption DEF Ceiling
  <1>7. Started \in Trackings /\ Started.interval = Interval[Target]
    BY <1>2, <1>3, <1>4, <1>5, <1>6, Begins DEF Started
  <1>8. QED
    BY <1>2, <1>3, <1>4, <1>5, <1>7

\* A failed command: its prediction is withdrawn, its window closed or a retry scheduled.
LEMMA ExecuteFailsInv == ASSUME FirstHalfLap, IInv, ExecuteFails PROVE IInv'
  <1>1. Dispatch(DeviceControlTypes) /\ UNCHANGED <<timer, phys>>
    BY DEF ExecuteFails
  <1>2. PICK auth_like \in BOOLEAN :
          tracking' = [tracking EXCEPT ![Target] = on_exchange_failed(Started, auth_like, millis')]
    BY DEF ExecuteFails
  <1>3. PICK d \in Devices :
          /\ d = Target
          /\ Started \in Trackings /\ Started.interval = Interval[d]
          /\ tracking[d] \in Trackings /\ tracking[d].interval = Interval[d]
          /\ dev[d] \in Records /\ clock' \in 0..LastClock /\ millis' = clock'
    BY <1>1, ExecuteTarget
  <1>4. PICK t \in Trackings :
          /\ t = on_exchange_failed(Started, auth_like, millis') /\ t.interval = Interval[d]
          /\ Ended(tracking[d], t) \/ Retried(tracking[d], t, clock')
    BY <1>3, Fails DEF Ended, Retried
  <1>5. PICK w \in Records : w = rollback_optimistic(notify(dev[d])) /\ w.optimistic = OptimisticState
    <2>1. Predicts(dev[d], notify(dev[d]))
      BY <1>3, Notifies DEF Predicts
    <2>2. QED
      BY <1>3, <2>1, Withdraws
  <1>6. tracking' = [tracking EXCEPT ![d] = t] /\ dev' = [dev EXCEPT ![d] = w]
        /\ backed' = [backed EXCEPT ![d] = FALSE]
    BY <1>2, <1>3, <1>4, <1>5 DEF ExecuteFails
  <1>7. tracking'[d] = t /\ phys' = phys /\ phys \in [Devices -> [at : 0..100, goal : 0..100]]
    BY <1>1, <1>6 DEF IInv, TypeInv
  <1>8. PICK x \in BOOLEAN : x = (t.poll_deadline = 0) /\ excused' = [excused EXCEPT ![d] = x]
    BY <1>3, <1>7 DEF ExecuteFails
  <1>9. Ended(tracking[d], t) => x
    BY <1>8 DEF Ended
  <1>10. QED
    BY <1>1, <1>3, <1>4, <1>5, <1>6, <1>7, <1>8, <1>9, TargetInv

\* Whatever the answer, the confirmation poll is armed.
LEMMA ExecuteArmed ==
    ASSUME FirstHalfLap, IInv, Dispatch(DeviceControlTypes), NEW t \in Trackings, NEW w \in Records,
           t.interval = Interval[Target],
           tracking' = [tracking EXCEPT ![Target] = arm_execute_confirmation_poll(t, IsStop, millis')],
           dev' = [dev EXCEPT ![Target] = w],
           phys' = phys \/ phys' = Obeyed,
           backed' = [backed EXCEPT ![Target] = TRUE], excused' = [excused EXCEPT ![Target] = FALSE],
           timer' = timer
    PROVE  /\ IInv'
           /\ IsStop => tracking'[Target].next_update \in 1..millis' + STOP_SETTLE_POLL_CAP_MS
  <1>1. PICK d \in Devices :
          /\ d = Target
          /\ tracking[d] \in Trackings /\ tracking[d].interval = Interval[d]
          /\ clock' \in 0..LastClock /\ millis' = clock'
    BY ExecuteTarget
  <1>2. Head(queue) \in Operations /\ Head(queue).type \in DeviceControlTypes
    BY DispatchTakes DEF IInv, TypeInv
  <1>3. IsStop \in BOOLEAN
    BY DEF IsStop
  <1>4. PICK s \in Trackings :
          /\ s = arm_execute_confirmation_poll(t, IsStop, millis') /\ s.interval = Interval[d]
          /\ Scheduled(tracking[d], s, d, clock')
          /\ IsStop => s.next_update <= clock' + STOP_SETTLE_POLL_CAP_MS
    BY <1>1, <1>3, Arms DEF Scheduled
  <1>5. /\ phys' \in [Devices -> [at : 0..100, goal : 0..100]]
        /\ \A e \in Devices \ {d} : phys'[e] = phys[e]
    <2>1. phys \in [Devices -> [at : 0..100, goal : 0..100]]
      BY DEF IInv, TypeInv
    <2>2. CASE phys' = phys
      BY <2>1, <2>2
    <2>3. CASE phys' = Obeyed
      <3>1. phys[d] \in [at : 0..100, goal : 0..100]
        BY <2>1
      <3>2. MainSent(Head(queue)) \in 0..100 \cup {POS_STOP, UNKNOWN}
        BY <1>2 DEF MainSent, BinarySent, Operations, BINARY_ENTITY_ON_POSITION, BINARY_ENTITY_OFF_POSITION
      <3>3. PICK g \in 0..100 : g = IF MainSent(Head(queue)) = UNKNOWN THEN phys[d].goal
                                    ELSE GoalOf(d, MainSent(Head(queue)))
        BY <3>1, <3>2 DEF GoalOf
      <3>4. phys' = [phys EXCEPT ![d].goal = g]
        BY <1>1, <2>3, <3>3 DEF Obeyed
      <3>5. QED
        BY <2>1, <3>1, <3>4
    <2>4. QED
      BY <2>2, <2>3
  <1>6. tracking' = [tracking EXCEPT ![d] = s] /\ dev' = [dev EXCEPT ![d] = w]
        /\ backed' = [backed EXCEPT ![d] = TRUE] /\ excused' = [excused EXCEPT ![d] = FALSE]
    BY <1>1, <1>4
  <1>7. IInv'
    <2>1. \E x, b \in BOOLEAN : backed' = [backed EXCEPT ![d] = b] /\ excused' = [excused EXCEPT ![d] = x] /\ b
      BY <1>6
    <2>2. PICK x, b \in BOOLEAN : backed' = [backed EXCEPT ![d] = b] /\ excused' = [excused EXCEPT ![d] = x] /\ b
      BY <2>1
    <2>3. s.interval = Interval[d] /\ Scheduled(tracking[d], s, d, clock') /\ (w.optimistic # OptimisticState => b)
      BY <1>4, <2>2
    <2>4. d = Target
      BY <1>1
    <2>5. QED
      BY <1>5, <1>6, <2>2, <2>3, <2>4, TargetInv
  <1>8. tracking'[Target] = s
    BY <1>1, <1>6 DEF IInv, TypeInv
  <1>9. IsStop => s.next_update \in 1..clock' + STOP_SETTLE_POLL_CAP_MS
    <2>1. s.next_update \in Nat /\ s.next_update \in 1..clock' + Ceiling(d)
      BY <1>4 DEF Scheduled, Trackings
    <2>2. clock' \in Nat /\ Ceiling(d) \in Nat /\ STOP_SETTLE_POLL_CAP_MS \in Nat
      BY <1>1, LastClockType, CeilingType, PolicyAssumption
    <2>3. s.next_update >= 1
      BY <2>1, <2>2
    <2>4. IsStop => s.next_update <= clock' + STOP_SETTLE_POLL_CAP_MS
      BY <1>4
    <2>5. QED
      BY <2>1, <2>2, <2>3, <2>4
  <1>10. QED
    BY <1>1, <1>7, <1>8, <1>9

\* A command that was sent, confirmed or not: its poll is armed.
LEMMA ExecuteAnsweredInv ==
    ASSUME FirstHalfLap, IInv, ExecuteUnconfirmed \/ ExecuteAcknowledged
    PROVE  /\ IInv'
           /\ IsStop => tracking'[Target].next_update \in 1..millis' + STOP_SETTLE_POLL_CAP_MS
  <1>1. Dispatch(DeviceControlTypes) /\ timer' = timer
        /\ backed' = [backed EXCEPT ![Target] = TRUE] /\ excused' = [excused EXCEPT ![Target] = FALSE]
    BY DEF ExecuteUnconfirmed, ExecuteAcknowledged
  <1>2. /\ Target \in Devices
        /\ Started \in Trackings /\ Started.interval = Interval[Target]
        /\ dev[Target] \in Records /\ clock' \in 0..LastClock /\ millis' = clock'
    BY <1>1, ExecuteTarget
  <1>3. CASE ExecuteUnconfirmed
    <2>1. /\ phys' = phys \/ phys' = Obeyed
          /\ tracking' = [tracking EXCEPT ![Target] = arm_execute_confirmation_poll(Started, IsStop, millis')]
          /\ dev' = [dev EXCEPT ![Target] = notify(dev[Target])]
      BY <1>3 DEF ExecuteUnconfirmed
    <2>2. notify(dev[Target]) \in Records
      BY <1>2, Notifies
    <2>3. QED
      BY <1>1, <1>2, <2>1, <2>2, ExecuteArmed
  <1>4. CASE ExecuteAcknowledged
    <2>1. phys' = Obeyed
      BY <1>4 DEF ExecuteAcknowledged
    <2>2. PICK stopped \in BOOLEAN, hint \in Hints :
            LET v == apply_private_response_status(dev[Target], [stopped |-> stopped], FALSE)
            IN  /\ dev' = [dev EXCEPT ![Target] = notify(v)]
                /\ tracking' = [tracking EXCEPT ![Target] =
                      arm_execute_confirmation_poll(PolicyAfterReply(Started, v, hint, millis'), IsStop, millis')]
      BY <1>4 DEF ExecuteAcknowledged
    <2> DEFINE v == apply_private_response_status(dev[Target], [stopped |-> stopped], FALSE)
               t == PolicyAfterReply(Started, v, hint, millis')
    <2>3. v \in Records
      BY <1>2, Acknowledges
    <2>4. dev' = [dev EXCEPT ![Target] = notify(v)]
          /\ tracking' = [tracking EXCEPT ![Target] = arm_execute_confirmation_poll(t, IsStop, millis')]
      BY <2>2
    <2> HIDE DEF v
    <2>5. notify(v) \in Records
      BY <2>3, Notifies
    <2>6. t \in Trackings /\ t.interval = Interval[Target]
      <3>1. hint \in Nat
        BY Constants
      <3>2. Ended(Started, t) \/ Scheduled(Started, t, Target, clock')
        BY <1>2, <3>1, Replies
      <3>3. QED
        BY <1>2, <3>2 DEF Ended, Scheduled
    <2> HIDE DEF t
    <2>7. QED
      BY <1>1, <2>1, <2>4, <2>5, <2>6, ExecuteArmed
  <1>5. QED
    BY <1>3, <1>4

\* The device a poll is for.
LEMMA StatusTarget ==
    ASSUME FirstHalfLap, IInv, Dispatch({"REQUEST_STATUS"})
    PROVE  \E d \in Devices :
             /\ d = Target /\ TypeInv /\ DeviceInv(d)
             /\ tracking[d] \in Trackings /\ tracking[d].interval = Interval[d]
             /\ dev[d] \in Records /\ excused[d] \in BOOLEAN /\ backed[d] \in BOOLEAN
             /\ clock \in 0..LastClock /\ clock' \in 0..LastClock /\ clock <= clock' /\ pc = "dispatch"
             /\ millis = clock /\ millis' = clock'
             /\ ControlQueued(queue, d) => ControlQueued(queue', d)
  <1>1. TypeInv /\ \A e \in Devices : DeviceInv(e)
    BY DEF IInv
  <1>2. clock \in 0..LastClock /\ clock' \in 0..LastClock /\ clock <= clock' /\ pc = "dispatch"
    BY <1>1, DispatchTimes DEF TypeInv
  <1>3. {"REQUEST_STATUS"} \subseteq DeviceControlTypes \cup BackgroundTypes
        /\ "REQUEST_STATUS" \notin DeviceControlTypes
    BY DEF DeviceControlTypes, BackgroundTypes
  <1>4. Target \in Devices /\ (ControlQueued(queue, Target) => ControlQueued(queue', Target))
    BY <1>1, <1>3, DispatchTakes DEF TypeInv
  <1>5. millis = clock /\ millis' = clock'
    BY <1>2, Times DEF millis
  <1>6. tracking[Target] \in Trackings /\ dev[Target] \in Records
        /\ excused[Target] \in BOOLEAN /\ backed[Target] \in BOOLEAN
    BY <1>1, <1>4 DEF TypeInv
  <1>7. tracking[Target].interval = Interval[Target]
    BY <1>1, <1>4 DEF DeviceInv
  <1>8. QED
    BY <1>1, <1>2, <1>4, <1>5, <1>6, <1>7

\* A poll without an answer: a retry inside the window, or excused.
LEMMA StatusFailsInv == ASSUME FirstHalfLap, IInv, StatusFails PROVE IInv'
  <1>1. Dispatch({"REQUEST_STATUS"}) /\ timer' = timer /\ phys' = phys /\ backed' = backed
    BY DEF StatusFails
  <1>2. PICK d \in Devices :
          /\ d = Target /\ TypeInv /\ DeviceInv(d)
          /\ tracking[d] \in Trackings /\ tracking[d].interval = Interval[d]
          /\ dev[d] \in Records /\ excused[d] \in BOOLEAN /\ backed[d] \in BOOLEAN
          /\ clock \in 0..LastClock /\ clock' \in 0..LastClock /\ clock <= clock' /\ pc = "dispatch"
          /\ millis = clock /\ millis' = clock'
          /\ ControlQueued(queue, d) => ControlQueued(queue', d)
    BY <1>1, StatusTarget
  <1>3. PICK auth_like \in BOOLEAN :
          tracking' = [tracking EXCEPT ![d] =
              IF Managed THEN on_exchange_failed(tracking[d], auth_like, millis') ELSE tracking[d]]
    BY <1>2 DEF StatusFails
  <1>4. PICK t \in Trackings :
          /\ t = (IF Managed THEN on_exchange_failed(tracking[d], auth_like, millis') ELSE tracking[d])
          /\ t.interval = Interval[d]
          /\ excused[d] \/ t.poll_deadline = 0 \/ Retried(tracking[d], t, clock')
    <2>1. CASE Managed
      BY <1>2, <2>1, Fails DEF Ended, Retried
    <2>2. CASE ~Managed
      <3>1. ~(tracking[d].poll_deadline # 0 /\ clock <= tracking[d].poll_deadline)
        BY <1>2, <2>2 DEF Managed, is_tracking_active
      <3>2. excused[d] \/ tracking[d].poll_deadline = 0
        BY <1>2, <3>1 DEF DeviceInv, InWindow
      <3>3. QED
        BY <1>2, <2>2, <3>2
    <2>3. QED
      BY <2>1, <2>2
  <1>5. PICK w \in Records : w = notify(dev[d]) /\ w.optimistic = dev[d].optimistic
    BY <1>2, Notifies
  <1>6. tracking' = [tracking EXCEPT ![d] = t] /\ dev' = [dev EXCEPT ![d] = w]
    BY <1>2, <1>3, <1>4, <1>5 DEF StatusFails
  <1>7. tracking'[d] = t
    BY <1>2, <1>6 DEF TypeInv
  <1>8. PICK x \in BOOLEAN :
          x = (excused[d] \/ t.poll_deadline = 0) /\ excused' = [excused EXCEPT ![d] = x]
    BY <1>2, <1>7 DEF StatusFails
  <1>9. PICK b \in BOOLEAN : b = backed[d] /\ backed' = [backed EXCEPT ![d] = b]
    BY <1>1, <1>2 DEF TypeInv
  <1>10. w.optimistic # OptimisticState => b \/ ControlQueued(queue', d)
    BY <1>2, <1>5, <1>9 DEF DeviceInv
  <1>11. x \/ Retried(tracking[d], t, clock')
    BY <1>4, <1>8
  <1>12. phys' \in [Devices -> [at : 0..100, goal : 0..100]] /\ \A e \in Devices \ {d} : phys'[e] = phys[e]
    BY <1>1, <1>2 DEF TypeInv
  <1>13. QED
    BY <1>1, <1>2, <1>4, <1>6, <1>8, <1>9, <1>10, <1>11, <1>12, TargetInv

\* A poll with an answer: settled, or polled again, or excused with its window closed.
LEMMA StatusReportedInv == ASSUME FirstHalfLap, IInv, StatusReported PROVE IInv'
  <1>1. Dispatch({"REQUEST_STATUS"}) /\ timer' = timer /\ phys' = phys
    BY DEF StatusReported
  <1>2. PICK d \in Devices :
          /\ d = Target /\ TypeInv /\ DeviceInv(d)
          /\ tracking[d] \in Trackings /\ tracking[d].interval = Interval[d]
          /\ dev[d] \in Records /\ excused[d] \in BOOLEAN /\ backed[d] \in BOOLEAN
          /\ clock \in 0..LastClock /\ clock' \in 0..LastClock /\ clock <= clock' /\ pc = "dispatch"
          /\ millis = clock /\ millis' = clock'
          /\ ControlQueued(queue, d) => ControlQueued(queue', d)
    BY <1>1, StatusTarget
  <1> DEFINE s == IF Managed THEN clear_failure_streaks(tracking[d]) ELSE tracking[d]
  <1>3. PICK r \in Reports(d) :
          LET v == apply_private_response_status(dev[d], r, TRUE)
          IN  /\ dev' = [dev EXCEPT ![d] = notify(v)]
              /\ tracking' = [tracking EXCEPT ![d] = PolicyAfterReply(s, v, r.hint, millis')]
              /\ excused' = [excused EXCEPT ![d] =
                     excused[d] \/ (~effective_is_stopped(v) /\ tracking'[d].poll_deadline = 0)]
              /\ backed' = [backed EXCEPT ![d] = backed[d] /\ v.optimistic.tilt # UNKNOWN]
    BY <1>2 DEF StatusReported
  <1> DEFINE v == apply_private_response_status(dev[d], r, TRUE)
  <1>4. /\ v \in Records
        /\ v.optimistic # OptimisticState => dev[d].optimistic # OptimisticState /\ v.optimistic.tilt # UNKNOWN
        /\ effective_is_stopped(v) => phys[d].at = phys[d].goal /\ AtRest(notify(v), phys[d].at)
    <2>1. Plausible(r, phys[d].at, phys[d].goal)
      BY <1>2, ReportsPlausible
    <2>2. v = decode_status_fields(dev[d], r)
      BY DEF apply_private_response_status
    <2>3. QED
      BY <1>2, <2>1, <2>2, Decodes
  <1>5. s \in Trackings /\ s.interval = Interval[d]
    BY <1>2 DEF Trackings, clear_failure_streaks
  <1> HIDE DEF v, s
  <1>6. PICK w \in Records : w = notify(v) /\ w.optimistic = v.optimistic
    BY <1>4, Notifies
  <1>7. PICK t \in Trackings :
          /\ t = PolicyAfterReply(s, v, r.hint, millis') /\ t.interval = Interval[d]
          /\ Ended(tracking[d], t) \/ Scheduled(tracking[d], t, d, clock')
    <2>1. r.hint \in Nat
      BY <1>2, ReportsPlausible
    <2> DEFINE t == PolicyAfterReply(s, v, r.hint, millis')
    <2>2. Ended(s, t) \/ Scheduled(s, t, d, clock')
      BY <1>2, <1>5, <2>1, Replies
    <2>3. QED
      BY <1>2, <1>5, <2>2 DEF Ended, Scheduled
  <1>8. dev' = [dev EXCEPT ![d] = w] /\ tracking' = [tracking EXCEPT ![d] = t]
    BY <1>3, <1>6, <1>7 DEF v
  <1>9. tracking'[d] = t
    BY <1>2, <1>8 DEF TypeInv
  <1>10. PICK x \in BOOLEAN, b \in BOOLEAN :
          /\ x = (excused[d] \/ (~effective_is_stopped(v) /\ t.poll_deadline = 0))
          /\ b = (backed[d] /\ v.optimistic.tilt # UNKNOWN)
          /\ excused' = [excused EXCEPT ![d] = x] /\ backed' = [backed EXCEPT ![d] = b]
    BY <1>3, <1>9 DEF v
  <1>11. w.optimistic # OptimisticState => b \/ ControlQueued(queue', d)
    BY <1>2, <1>4, <1>6, <1>10 DEF DeviceInv
  <1>12. \/ x
         \/ Ended(tracking[d], t) /\ phys' = phys /\ phys[d].at = phys[d].goal /\ AtRest(w, phys[d].at)
         \/ Scheduled(tracking[d], t, d, clock')
    BY <1>1, <1>4, <1>6, <1>7, <1>10 DEF Ended
  <1>13. phys' \in [Devices -> [at : 0..100, goal : 0..100]] /\ \A e \in Devices \ {d} : phys'[e] = phys[e]
    BY <1>1, <1>2 DEF TypeInv
  <1>14. QED
    BY <1>1, <1>2, <1>7, <1>8, <1>10, <1>11, <1>12, <1>13, TargetInv

\* An answer that says nothing excuses the device.
LEMMA StatusUnusableInv == ASSUME FirstHalfLap, IInv, StatusUnusable PROVE IInv'
  <1>1. /\ Dispatch({"REQUEST_STATUS"}) /\ timer' = timer /\ phys' = phys /\ backed' = backed
        /\ excused' = [excused EXCEPT ![Target] = TRUE]
    BY DEF StatusUnusable
  <1>2. PICK d \in Devices :
          /\ d = Target /\ TypeInv /\ DeviceInv(d)
          /\ tracking[d] \in Trackings /\ tracking[d].interval = Interval[d]
          /\ dev[d] \in Records /\ excused[d] \in BOOLEAN /\ backed[d] \in BOOLEAN
          /\ ControlQueued(queue, d) => ControlQueued(queue', d)
    BY <1>1, StatusTarget
  <1>3. PICK t \in Trackings :
          /\ t = (IF Managed THEN clear_failure_streaks(tracking[d]) ELSE tracking[d])
          /\ t.interval = Interval[d]
    <2>1. /\ clear_failure_streaks(tracking[d]) \in Trackings
          /\ clear_failure_streaks(tracking[d]).interval = Interval[d]
      BY <1>2 DEF Trackings, clear_failure_streaks
    <2>2. QED
      BY <1>2, <2>1
  <1>4. tracking' = [tracking EXCEPT ![d] = t]
    BY <1>2, <1>3 DEF StatusUnusable
  <1>5. PICK w \in Records : dev' = [dev EXCEPT ![d] = w] /\ w.optimistic = dev[d].optimistic
    <2>1. CASE dev' = dev
      BY <1>2, <2>1 DEF TypeInv
    <2>2. CASE dev' = [dev EXCEPT ![d] = notify(dev[d])]
      BY <1>2, <2>2, Notifies
    <2>3. QED
      BY <1>2, <2>1, <2>2 DEF StatusUnusable
  <1>6. PICK b \in BOOLEAN : b = backed[d] /\ backed' = [backed EXCEPT ![d] = b]
    BY <1>1, <1>2 DEF TypeInv
  <1>7. w.optimistic # OptimisticState => b \/ ControlQueued(queue', d)
    BY <1>2, <1>5, <1>6 DEF DeviceInv
  <1>8. phys' \in [Devices -> [at : 0..100, goal : 0..100]] /\ \A e \in Devices \ {d} : phys'[e] = phys[e]
    BY <1>1, <1>2 DEF TypeInv
  <1>9. QED
    BY <1>1, <1>2, <1>3, <1>4, <1>5, <1>6, <1>7, <1>8, TargetInv

\* Operations that have nothing to do with any device's follow-up.
LEMMA OtherDispatchInv ==
    ASSUME FirstHalfLap, IInv, NameAsked \/ Paired \/ SendOneway
    PROVE  IInv'
  <1>1. PICK types : /\ types \in {{"REQUEST_NAME"}, {"DISCOVER_AND_PAIR"}, {"ONEWAY_COMMAND"}}
                     /\ Dispatch(types)
    BY DEF NameAsked, Paired, SendOneway
  <1>2. UNCHANGED <<tracking, timer, phys, excused, backed>>
    BY DEF NameAsked, Paired, SendOneway
  <1>3. TypeInv /\ \A e \in Devices : DeviceInv(e)
    BY DEF IInv
  <1>4. /\ ClockInv' /\ clock \in Nat /\ clock' \in Nat /\ clock <= clock' /\ pc' = "due"
    BY <1>1, <1>3, DispatchTimes DEF TypeInv, ClockInv
  <1>5. Head(queue).type \notin DeviceControlTypes /\ Head(queue).type # "REQUEST_STATUS"
    <2>1. Head(queue).type \in types
      BY <1>1 DEF Dispatch
    <2>2. QED
      BY <1>1, <2>1 DEF DeviceControlTypes
  <1>6. queue' \in Seq(Operations) /\ KeepsControls(queue, queue') /\ KeepsPolls(queue, queue', Devices)
    BY <1>1, <1>3, <1>5, DispatchTakes DEF TypeInv, KeepsControls, KeepsPolls
  <1>7. \/ dev' = dev
        \/ \E d \in Devices : dev' = [dev EXCEPT ![d] = notify(dev[d])]
    <2>1. CASE NameAsked
      <3>1. Dispatch({"REQUEST_NAME"}) /\ dev' \in {dev, [dev EXCEPT ![Target] = notify(dev[Target])]}
        BY <2>1 DEF NameAsked
      <3>2. {"REQUEST_NAME"} \subseteq DeviceControlTypes \cup BackgroundTypes
        BY DEF BackgroundTypes
      <3>3. Target \in Devices
        BY <1>3, <3>1, <3>2, DispatchTakes DEF TypeInv
      <3>4. QED
        BY <3>1, <3>3
    <2>2. CASE Paired \/ SendOneway
      BY <2>2 DEF Paired, SendOneway
    <2>3. QED
      BY <2>1, <2>2
  <1>8. /\ dev' \in [Devices -> Records]
        /\ \A e \in Devices : /\ dev'[e].optimistic = dev[e].optimistic
                              /\ \A p \in 0..100 : AtRest(dev[e], p) => AtRest(dev'[e], p)
    <2>1. CASE dev' = dev
      BY <1>3, <2>1 DEF TypeInv
    <2>2. ASSUME NEW d \in Devices, dev' = [dev EXCEPT ![d] = notify(dev[d])]
          PROVE  /\ dev' \in [Devices -> Records]
                 /\ \A e \in Devices : /\ dev'[e].optimistic = dev[e].optimistic
                                       /\ \A p \in 0..100 : AtRest(dev[e], p) => AtRest(dev'[e], p)
      <3>1. dev \in [Devices -> Records] /\ dev[d] \in Records
        BY <1>3 DEF TypeInv
      <3>2. PICK w \in Records :
              /\ w = notify(dev[d]) /\ w.optimistic = dev[d].optimistic
              /\ \A p \in 0..100 : AtRest(dev[d], p) => AtRest(w, p)
        BY <3>1, Notifies, NotifyRests DEF AtRest
      <3>3. dev' = [dev EXCEPT ![d] = w]
        BY <2>2, <3>2
      <3>4. QED
        BY <3>1, <3>2, <3>3
    <2>3. QED
      BY <1>7, <2>1, <2>2
  <1>9. TypeInv'
    BY <1>2, <1>3, <1>4, <1>6, <1>8 DEF TypeInv
  <1>10. ASSUME NEW e \in Devices PROVE DeviceInv(e)'
    <2>1. Settled(e) => Settled(e)'
      BY <1>2, <1>3, <1>8, SettledShown
    <2>2. Carried(e)
      BY <1>2, <1>6, <1>8, <2>1 DEF Carried, KeepsControls, KeepsPolls
    <2>3. QED
      BY <1>3, <1>4, <2>2, CarriedInv
  <1>11. QED
    BY <1>9, <1>10 DEF IInv

-----------------------------------------------------------------------------
(* The poll that is queued when it is due.                                 *)

\* At most one device is due, and none before it was cleared that was live.
LEMMA DueFirst ==
    ASSUME NEW now \in Nat, tracking \in [Devices -> Trackings]
    PROVE  LET due == DueDevices(tracking, now) IN
           /\ due \subseteq Devices
           /\ due # {} => (CHOOSE e \in due : TRUE) \in due
           /\ \A d \in due : d = CHOOSE e \in due : TRUE
           /\ \A d \in Devices \ due :
                IsDue(tracking[d], now) /\ (\A e \in due : d < e) => ~is_tracking_active(tracking[d], now)
  <1> DEFINE live == {d \in DOMAIN tracking : IsDue(tracking[d], now) /\ is_tracking_active(tracking[d], now)}
             due  == DueDevices(tracking, now)
  <1>1. /\ due = {d \in live : \A e \in live : d <= e} /\ live \subseteq Devices /\ Devices \subseteq Nat \ {0}
        /\ live = {d \in Devices : IsDue(tracking[d], now) /\ is_tracking_active(tracking[d], now)}
    BY Constants DEF DueDevices
  <1> HIDE DEF live, due
  <1>2. due \subseteq Devices
    BY <1>1
  <1>3. \A d, e \in due : d = e
    <2>1. ASSUME NEW d \in due, NEW e \in due PROVE d = e
      <3>1. d \in live /\ e \in live /\ d <= e /\ e <= d
        BY <1>1
      <3>2. d \in Nat /\ e \in Nat
        BY <1>1, <3>1
      <3>3. QED
        BY <3>1, <3>2
    <2>2. QED
      BY <2>1
  <1>4. ASSUME NEW d \in Devices \ due, \A e \in due : d < e, d \in live PROVE FALSE
    <2> DEFINE small == {e \in live : e <= d}
               f == First(small)
    <2>1. live \subseteq Nat \ {0} /\ d \in Nat
      BY <1>1, <1>4
    <2>2. d \in small /\ small \subseteq 1..d
      <3>1. ASSUME NEW e \in small PROVE e \in 1..d
        <4>1. e \in Nat \ {0} /\ e <= d
          BY <2>1
        <4>2. QED
          BY <2>1, <4>1
      <3>2. d <= d
        BY <2>1
      <3>3. QED
        BY <1>4, <3>1, <3>2
    <2>3. f \in small /\ \A e \in small : f <= e
      BY <2>1, <2>2, FirstIsFirst
    <2> HIDE DEF f
    <2>4. f \in live /\ f <= d
      BY <2>3
    <2>5. ASSUME NEW e \in live PROVE f <= e
      <3>1. CASE e <= d
        BY <2>3, <3>1
      <3>2. CASE ~(e <= d)
        BY <1>1, <2>1, <2>4, <3>2
      <3>3. QED
        BY <3>1, <3>2
    <2>6. f \in due
      BY <1>1, <2>4, <2>5
    <2>7. QED
      BY <1>1, <1>4, <2>1, <2>4, <2>6
  <1>5. \A d \in Devices \ due :
          IsDue(tracking[d], now) /\ (\A e \in due : d < e) => ~is_tracking_active(tracking[d], now)
    BY <1>1, <1>4
  <1>6. (due # {} => (CHOOSE e \in due : TRUE) \in due) /\ \A d \in due : d = CHOOSE e \in due : TRUE
    BY <1>3
  <1>7. QED
    BY <1>2, <1>5, <1>6 DEF due

\* The due device's poll is queued; what is cleared had run out.
LEMMA QueueDueInv == ASSUME FirstHalfLap, IInv, QueueDue PROVE IInv'
  <1> DEFINE due == DueDevices(tracking, millis)
             first == CHOOSE e \in due : TRUE
  <1>1. /\ pc = "due" /\ pc' = "idle" /\ clock' = clock + 1
        /\ UNCHANGED <<timer, dev, phys, backed>>
        /\ tracking' = pop_due_device(tracking, millis)
        /\ queue' = IF due = {} THEN queue ELSE enqueue_request_status(queue, first)
        /\ excused' = [d \in Devices |->
              excused[d] \/ (tracking[d].poll_deadline # 0 /\ ~is_tracking_active(tracking[d], millis'))]
    BY DEF QueueDue
  <1>2. TypeInv /\ (\A e \in Devices : DeviceInv(e)) /\ tracking \in [Devices -> Trackings]
    BY DEF IInv, TypeInv
  <1>3. /\ clock \in 0..LastClock /\ clock' \in 0..LastClock /\ ClockInv'
        /\ clock \in Nat /\ clock' \in Nat /\ clock <= clock'
    BY <1>1, <1>2, Constants DEF TypeInv, ClockInv
  <1>4. millis = clock /\ millis' = clock'
    BY <1>3, Times DEF millis
  <1>5. /\ due \subseteq Devices
        /\ due # {} => first \in due
        /\ \A d \in due : d = first
        /\ \A d \in Devices \ due :
             IsDue(tracking[d], clock) /\ (\A e \in due : d < e) => ~is_tracking_active(tracking[d], clock)
    BY <1>2, <1>3, <1>4, DueFirst
  <1> HIDE DEF first
  <1>6. /\ queue' \in Seq(Operations) /\ KeepsControls(queue, queue') /\ KeepsPolls(queue, queue', Devices)
        /\ \A d \in due : StatusQueued(queue', d)
    <2>1. queue \in Seq(Operations)
      BY <1>2 DEF TypeInv
    <2>2. CASE due = {}
      BY <1>1, <2>1, <2>2 DEF KeepsControls, KeepsPolls
    <2>3. CASE due # {}
      <3>1. first \in Devices /\ queue' = enqueue_request_status(queue, first)
        BY <1>1, <1>5, <2>3
      <3>2. QED
        BY <1>5, <2>1, <3>1, PollsQueued
    <2>4. QED
      BY <2>2, <2>3
  <1>7. ASSUME NEW d \in Devices
        PROVE  tracking'[d] = IF d \in due THEN set_next_update(tracking[d], 0)
                              ELSE IF IsDue(tracking[d], clock) /\ \A e \in due : d < e THEN clear(tracking[d])
                              ELSE tracking[d]
    BY <1>1, <1>2, <1>4 DEF pop_due_device
  <1>8. DOMAIN tracking' = Devices /\ tracking' = [d \in Devices |-> tracking'[d]]
    BY <1>1, <1>2 DEF pop_due_device
  <1>9. ASSUME NEW d \in Devices
        PROVE  excused'[d] = (excused[d] \/ (tracking[d].poll_deadline # 0 /\ ~(clock' <= tracking[d].poll_deadline)))
    BY <1>1, <1>4 DEF is_tracking_active
  <1> HIDE DEF due
  <1>10. ASSUME NEW d \in Devices PROVE tracking'[d] \in Trackings /\ DeviceInv(d)'
    <2>1. /\ tracking[d] \in Trackings /\ tracking[d].poll_deadline \in Nat /\ DeviceInv(d)
          /\ Settled(d)' = Settled(d) /\ Ceiling(d)' = Ceiling(d) /\ Ceiling(d) \in Nat
      BY <1>1, <1>2, CeilingType DEF Trackings, Settled, Ceiling
    <2>2. CASE tracking'[d] = tracking[d]
      <3>1. Carried(d)
        BY <1>1, <1>6, <1>9, <2>2, Undisturbed DEF KeepsControls, KeepsPolls
      <3>2. tracking[d].poll_deadline = 0 \/ clock' <= tracking[d].poll_deadline \/ excused'[d]
        BY <1>9
      <3>3. QED
        BY <1>2, <1>3, <2>1, <2>2, <3>1, <3>2, CarriedInv
    <2>3. CASE d \in due
      <3>1. tracking'[d] = [tracking[d] EXCEPT !.next_update = 0]
        BY <1>7, <2>3 DEF set_next_update
      <3>2. /\ tracking'[d] \in Trackings /\ tracking'[d].interval = Interval[d]
            /\ tracking'[d].next_update = 0 /\ tracking'[d].poll_deadline = tracking[d].poll_deadline
        BY <2>1, <3>1 DEF Trackings, DeviceInv
      <3>3. tracking'[d].next_update <= clock' + Ceiling(d)
        BY <1>3, <2>1, <3>2
      <3>4. StatusQueued(queue', d) /\ (ControlQueued(queue, d) => ControlQueued(queue', d))
        BY <1>6, <2>3 DEF KeepsControls
      <3>5. tracking'[d].poll_deadline # 0 /\ ~excused'[d] => InWindow(d)'
        BY <1>9, <3>2 DEF InWindow
      <3>6. dev'[d].optimistic # OptimisticState => backed'[d] \/ ControlQueued(queue', d)
        BY <1>1, <2>1, <3>4 DEF DeviceInv
      <3>7. ~excused'[d] => Settled(d)' \/ tracking'[d].poll_deadline # 0 \/ ControlQueued(queue', d)
        BY <1>9, <2>1, <3>2, <3>4 DEF DeviceInv
      <3>8. QED
        BY <2>1, <3>2, <3>3, <3>4, <3>5, <3>6, <3>7 DEF DeviceInv
    <2>4. CASE d \notin due /\ IsDue(tracking[d], clock) /\ \A e \in due : d < e
      <3>1. tracking'[d] = clear(tracking[d]) /\ ~is_tracking_active(tracking[d], clock)
        BY <1>5, <1>7, <2>4
      <3>2. tracking[d].poll_deadline = 0 \/ ~(clock <= tracking[d].poll_deadline)
        BY <3>1 DEF is_tracking_active
      <3>3. tracking[d].poll_deadline = 0 \/ excused'[d]
        <4>1. ~(clock <= tracking[d].poll_deadline) => ~(clock' <= tracking[d].poll_deadline)
          BY <1>3, <2>1
        <4>2. QED
          BY <1>9, <3>2, <4>1
      <3>4. Ended(tracking[d], tracking'[d])
        BY <2>1, <3>1, Clears
      <3>5. ControlQueued(queue, d) => ControlQueued(queue', d)
        BY <1>6 DEF KeepsControls
      <3>6. excused'[d] \/ Settled(d)' \/ ControlQueued(queue', d)
        BY <1>9, <2>1, <3>3, <3>5 DEF DeviceInv
      <3>7. Placed(d)
        BY <1>1, <2>1, <3>4, <3>5, <3>6 DEF Placed, Ended, DeviceInv
      <3>8. QED
        BY <1>3, <3>7, PlacedInv DEF Placed
    <2>5. QED
      BY <1>7, <2>1, <2>2, <2>3, <2>4
  <1>11. tracking' \in [Devices -> Trackings] /\ excused' \in [Devices -> BOOLEAN]
    BY <1>1, <1>8, <1>10
  <1>12. TypeInv'
    BY <1>1, <1>2, <1>3, <1>6, <1>11 DEF TypeInv
  <1>13. QED
    BY <1>10, <1>12 DEF IInv

\* Nothing is known and nothing is tracked at first.
LEMMA InitInv == ASSUME FirstHalfLap, Init PROVE IInv
  <1>1. clock = Boot /\ pc = "idle" /\ queue = <<>>
        /\ timer = [d \in Devices |-> Never] /\ excused = [d \in Devices |-> TRUE]
        /\ backed = [d \in Devices |-> FALSE]
        /\ tracking = [d \in Devices |-> [interval |-> Interval[d], next_update |-> 0, poll_deadline |-> 0,
                                          status_poll_failures |-> 0, auth_poll_failures |-> 0]]
    BY DEF Init
  <1>2. ClockInv
    BY <1>1, Constants DEF ClockInv, FirstHalfLap
  <1>3. tracking \in [Devices -> Trackings]
    BY <1>1, Constants DEF Trackings
  <1>4. PICK b \in [Devices -> Bindings] :
          dev = [d \in Devices |-> IoDevice(b[d].entity, b[d].type, b[d].optimistic)]
    BY DEF Init
  <1>5. ASSUME NEW x \in Bindings
        PROVE  /\ IoDevice(x.entity, x.type, x.optimistic) \in Records
               /\ IoDevice(x.entity, x.type, x.optimistic).optimistic = OptimisticState
    <2>1. OptimisticState \in Overlays
      BY DegreesType DEF OptimisticState, Overlays
    <2>2. x.optimistic \in BOOLEAN
      BY HubAssumption
    <2>3. QED
      BY <2>1, <2>2, ShownType, DegreesType DEF IoDevice, Records
  <1>6. dev \in [Devices -> Records] /\ \A d \in Devices : dev[d].optimistic = OptimisticState
    BY <1>4, <1>5
  <1>7. phys \in [Devices -> [at : 0..100, goal : 0..100]]
    <2>1. PICK p \in Parked : phys = [d \in Devices |-> [at |-> p, goal |-> p]]
      BY DEF Init
    <2>2. QED
      BY <2>1, Constants
  <1>8. queue \in Seq(Operations) /\ timer \in [Devices -> Nat \cup {Never}]
    BY <1>1
  <1>9. TypeInv
    BY <1>1, <1>2, <1>3, <1>6, <1>7, <1>8 DEF TypeInv
  <1>10. ASSUME NEW d \in Devices PROVE DeviceInv(d)
    BY <1>1, <1>6 DEF DeviceInv
  <1>11. QED
    BY <1>9, <1>10 DEF IInv

\* Nothing changes when nothing happens.
LEMMA StutterInv == ASSUME IInv, UNCHANGED vars PROVE IInv'
  <1>1. ClockInv' = ClockInv /\ TypeInv
    BY DEF vars, ClockInv, IInv
  <1>2. TypeInv'
    BY <1>1 DEF vars, TypeInv
  <1>3. ASSUME NEW d \in Devices PROVE DeviceInv(d)'
    <2>1. DeviceInv(d) /\ Ceiling(d)' = Ceiling(d)
      BY DEF IInv, Ceiling
    <2>2. Settled(d)' = Settled(d) /\ InWindow(d)' = InWindow(d)
      BY DEF vars, Settled, InWindow
    <2>3. QED
      BY <2>1, <2>2 DEF vars, DeviceInv
  <1>4. QED
    BY <1>2, <1>3 DEF IInv

\* Every step keeps the invariant.
LEMMA NextInv == ASSUME FirstHalfLap, IInv, [Next]_vars PROVE IInv'
  <1>1. ASSUME NEW d \in Devices, NEW p \in Positions,
               \/ SetPosition(d, p) \/ SetLight(d, p) \/ UnheardPress(d, p) \/ ReceiveRemoteActivity(d, p)
               \/ \E t \in Tilts : SetPositionAndTilt(d, p, t)
        PROVE  IInv'
    BY <1>1, CoverInv, BinaryInv, UnheardInv, ActivityInv
  <1>2. ASSUME NEW d \in Devices,
               \/ \E t \in Tilts : SetTilt(d, t)
               \/ \E b \in BOOLEAN : SetLock(d, b) \/ SetSwitch(d, b)
               \/ Stop(d) \/ RequestStatus(d) \/ RequestName(d) \/ TimeoutFires(d) \/ Arrive(d)
        PROVE  IInv'
    BY <1>2, CoverInv, BinaryInv, RequestsInv, TimeoutInv, ArriveInv
  <1>3. ASSUME NEW d \in Devices, NEW r \in Reports(d), ReceiveStatusUpdate(d, r) PROVE IInv'
    BY <1>3, UpdateInv
  <1>4. CASE PressOneway \/ Pair \/ ReceiveNothing \/ ReceiveStranger \/ DispatchNothing
    BY <1>4, RequestsInv, PairInv, QuietInv, StrangerInv
  <1>5. ASSUME NEW what \in Positions \cup {POS_STOP}, ReceiveLinkedRemote(what) PROVE IInv'
    BY <1>5, RemoteInv
  <1>6. CASE ExecuteFails \/ ExecuteUnconfirmed \/ ExecuteAcknowledged
    BY <1>6, ExecuteFailsInv, ExecuteAnsweredInv
  <1>7. CASE StatusFails \/ StatusReported \/ StatusUnusable
    BY <1>7, StatusFailsInv, StatusReportedInv, StatusUnusableInv
  <1>8. CASE NameAsked \/ Paired \/ SendOneway
    BY <1>8, OtherDispatchInv
  <1>9. CASE QueueDue
    BY <1>9, QueueDueInv
  <1>10. CASE Horizon \/ UNCHANGED vars
    BY <1>10, StutterInv DEF Horizon
  <1>11. QED
    BY <1>1, <1>2, <1>3, <1>4, <1>5, <1>6, <1>7, <1>8, <1>9, <1>10 DEF Next

\* Whatever is queued, received, answered or lost, the invariant holds of every device.
THEOREM Invariance == FirstHalfLap => (Spec => []IInv)
  <1> SUFFICES ASSUME FirstHalfLap PROVE Spec => []IInv
    OBVIOUS
  <1>1. Init => IInv
    BY InitInv
  <1>2. IInv /\ [Next]_vars => IInv'
    BY NextInv
  <1>3. QED
    BY <1>1, <1>2, PTL DEF Spec

\* millis() is the time since power-up.
LEMMA NowIsClock == ASSUME FirstHalfLap, IInv PROVE millis = clock /\ clock \in 0..LastClock
  <1>1. clock \in 0..LastClock
    BY Constants DEF IInv, TypeInv, ClockInv
  <1>2. QED
    BY <1>1, Times DEF millis

\* By the invariant, a device that is tracked or commanded is followed up.
LEMMA InHand ==
    ASSUME FirstHalfLap, IInv, NEW d \in Devices, ~excused[d],
           is_tracking_active(tracking[d], millis) \/ ControlQueued(queue, d)
    PROVE  FollowUp(queue, tracking[d], timer[d], d)
  <1>1. millis = clock /\ DeviceInv(d)
    BY NowIsClock DEF IInv
  <1>2. is_tracking_active(tracking[d], millis) <=> InWindow(d)
    BY <1>1 DEF is_tracking_active, InWindow
  <1>3. QED
    BY <1>1, <1>2 DEF DeviceInv, FollowUp

(***************************************************************************)
(* A tracked device has a poll scheduled or queued, a timeout pending or a *)
(* command queued, unless it is excused: loop(), StatusPollPolicy and      *)
(* OperationQueue never drop the last of them.                             *)
(***************************************************************************)
THEOREM FollowUpSafe == FirstHalfLap => (Spec => []FollowUpNeverLost)
  <1> SUFFICES ASSUME FirstHalfLap PROVE Spec => []FollowUpNeverLost
    OBVIOUS
  <1>1. IInv => FollowUpNeverLost
    BY InHand DEF FollowUpNeverLost
  <1>2. QED
    BY <1>1, Invariance, PTL

(***************************************************************************)
(* A device at rest that its entity shows otherwise is being followed up,  *)
(* unless it is excused: it is settled, tracked or about to be commanded.  *)
(***************************************************************************)
THEOREM NothingStale == FirstHalfLap => (Spec => []NoSilentStaleness)
  <1> SUFFICES ASSUME FirstHalfLap PROVE Spec => []NoSilentStaleness
    OBVIOUS
  <1>1. ASSUME IInv, pc = "idle", NEW d \in Devices, ~excused[d], phys[d].at = phys[d].goal,
               ~ShowsAtRest(dev[d], phys[d].at)
        PROVE  FollowUp(queue, tracking[d], timer[d], d)
    <2>1. DeviceInv(d) /\ millis = clock
      BY <1>1, NowIsClock DEF IInv
    <2>2. ~Settled(d)
      BY <1>1 DEF Settled, AtRest
    <2>3. tracking[d].poll_deadline # 0 \/ ControlQueued(queue, d)
      BY <1>1, <2>1, <2>2 DEF DeviceInv
    <2>4. tracking[d].poll_deadline # 0 => is_tracking_active(tracking[d], millis)
      BY <1>1, <2>1 DEF DeviceInv, InWindow, is_tracking_active
    <2>5. QED
      BY <1>1, <2>3, <2>4, InHand
  <1>2. IInv => NoSilentStaleness
    BY <1>1 DEF NoSilentStaleness
  <1>3. QED
    BY <1>2, Invariance, PTL

(***************************************************************************)
(* A prediction that stands is that of a queued command, of one that was   *)
(* accepted, or of an overheard press: a failure or refusal withdraws it.  *)
(***************************************************************************)
THEOREM PredictionsSafe == FirstHalfLap => (Spec => []PredictionsBacked)
  <1> SUFFICES ASSUME FirstHalfLap PROVE Spec => []PredictionsBacked
    OBVIOUS
  <1>1. IInv => PredictionsBacked
    BY DEF IInv, DeviceInv, PredictionsBacked
  <1>2. QED
    BY <1>1, Invariance, PTL

(***************************************************************************)
(* Without failures no poll is scheduled later than the configured         *)
(* interval, or the default, from now.                                     *)
(***************************************************************************)
THEOREM CadenceSafe == FirstHalfLap => (Spec => []CadenceCeiling)
  <1> SUFFICES ASSUME FirstHalfLap PROVE Spec => []CadenceCeiling
    OBVIOUS
  <1>1. ASSUME IInv, NEW d \in Devices,
               tracking[d].status_poll_failures = 0, tracking[d].auth_poll_failures = 0, ~excused[d]
        PROVE  LET ahead == (tracking[d].next_update - millis) % Wrap
               IN  2 * ahead < Wrap => ahead <= settle_delay_ms(Interval[d], 0, FALSE)
    <2>1. millis = clock /\ clock \in 0..LastClock /\ LastClock \in Nat /\ Wrap \in Nat
      BY <1>1, NowIsClock, LastClockType, PolicyAssumption
    <2>2. settle_delay_ms(Interval[d], 0, FALSE) = Ceiling(d) /\ Ceiling(d) \in Nat
      BY CeilingType DEF settle_delay_ms, Ceiling
    <2>3. tracking[d].next_update \in Nat /\ tracking[d].next_update <= clock + Ceiling(d)
      BY <1>1 DEF IInv, TypeInv, Trackings, DeviceInv
    <2>4. PICK next \in Nat : next = tracking[d].next_update /\ next <= clock + Ceiling(d)
      BY <2>3
    <2>5. 2 * (clock + Ceiling(d)) < Wrap
      <3>1. 2 * (LastClock + Ceiling(d)) < Wrap
        BY CeilingType DEF FirstHalfLap
      <3>2. QED
        BY <2>1, <2>2, <3>1
    <2>6. CASE next >= clock
      <3>1. next - clock \in 0..Wrap - 1 /\ next - clock <= Ceiling(d)
        BY <2>1, <2>2, <2>4, <2>5, <2>6
      <3>2. (next - clock) % Wrap = next - clock
        BY <2>1, <3>1
      <3>3. QED
        BY <2>1, <2>2, <2>4, <3>1, <3>2
    <2>7. CASE next < clock
      <3>1. (next - clock) + Wrap \in 0..Wrap - 1 /\ next - clock \in Int
        BY <2>1, <2>2, <2>4, <2>5, <2>7
      <3>2. (next - clock) % Wrap = (next - clock) + Wrap
        BY <2>1, <3>1
      <3>3. ~(2 * ((next - clock) + Wrap) < Wrap)
        BY <2>1, <2>2, <2>4, <2>5, <2>7
      <3>4. QED
        BY <2>1, <2>4, <3>2, <3>3
    <2>8. next >= clock \/ next < clock
      BY <2>1, <2>4
    <2>9. QED
      BY <2>6, <2>7, <2>8
  <1>2. IInv => CadenceCeiling
    BY <1>1 DEF CadenceCeiling
  <1>3. QED
    BY <1>2, Invariance, PTL

(***************************************************************************)
(* The poll that confirms an accepted STOP is scheduled within the cap,    *)
(* whatever the acknowledgement said and whatever was scheduled before.    *)
(***************************************************************************)
THEOREM StopSafe == FirstHalfLap => (Spec => StopConfirmedPromptly)
  <1> SUFFICES ASSUME FirstHalfLap PROVE Spec => StopConfirmedPromptly
    OBVIOUS
  <1>1. IInv /\ [Next]_vars
        => [(ExecuteUnconfirmed \/ ExecuteAcknowledged) /\ IsStop =>
              tracking'[Target].next_update \in 1..(millis' + STOP_SETTLE_POLL_CAP_MS)]_vars
    BY ExecuteAnsweredInv
  <1>2. QED
    BY <1>1, Invariance, PTL DEF Spec, StopConfirmedPromptly

-----------------------------------------------------------------------------
(* The queue inside the hub keeps what OperationQueue promises of it.      *)

\* The queue is in order of bands, and every tracked device is one of Devices.
Orderly == queue \in Seq(Operations) /\ Banded(queue) /\ DOMAIN tracking = Devices

\* push_control_.
LEMMA PushOrderly ==
    ASSUME NEW q \in Seq(Operations), Banded(q), NEW op \in Operations, Band(op) = 2
    PROVE  push_control(q, op) \in Seq(Operations) /\ Banded(push_control(q, op))
  <1> DEFINE r == push_control(q, op)
  <1>1. r \in Seq(Operations) /\ \E goes, before : Pushed(q, r, op, goes, before)
    BY PushCarries
  <1> HIDE DEF r
  <1>2. PICK goes, before : Pushed(q, r, op, goes, before)
    BY <1>1
  <1>3. Banded(r)
    BY <1>1, <1>2, PushBands
  <1>4. QED
    BY <1>1, <1>3 DEF r

\* A merge into a queued operation of the same band.
LEMMA MergeOrderly ==
    ASSUME NEW q \in Seq(Operations), Banded(q), NEW i \in DOMAIN q, NEW o \in Operations, Band(o) = Band(q[i])
    PROVE  [q EXCEPT ![i] = o] \in Seq(Operations) /\ Banded([q EXCEPT ![i] = o])
  <1> DEFINE r == [q EXCEPT ![i] = o]
  <1>1. r \in Seq(Operations) /\ DOMAIN r = DOMAIN q /\ \A j \in DOMAIN q : Band(r[j]) = Band(q[j])
    <2>1. DOMAIN r = DOMAIN q /\ \A j \in DOMAIN q : r[j] = IF j = i THEN o ELSE q[j]
      OBVIOUS
    <2>2. q \in [1..Len(q) -> Operations] /\ Len(q) \in Nat /\ DOMAIN q = 1..Len(q)
      BY QueueIndices
    <2>3. r \in [1..Len(q) -> Operations]
      BY <2>2
    <2>4. r \in Seq(Operations)
      BY <2>2, <2>3, SeqDef
    <2>5. QED
      BY <2>1, <2>4
  <1> HIDE DEF r
  <1>2. Banded(r)
    BY <1>1 DEF Banded
  <1>3. QED
    BY <1>1, <1>2 DEF r

\* The commands of entities, pushed or merged.
LEMMA CommandsOrderly ==
    ASSUME NEW q \in Seq(Operations), Banded(q), NEW d \in Devices, NEW p \in 0..100, NEW t \in 0..100, NEW b \in BOOLEAN
    PROVE  /\ Banded(enqueue_set_position(q, d, p)) /\ Banded(enqueue_set_tilt(q, d, t))
           /\ Banded(enqueue_set_position_and_tilt(q, d, p, t)) /\ Banded(enqueue_device_command(q, d, "STOP"))
           /\ Banded(enqueue_set_light_position(q, d, p)) /\ Banded(enqueue_set_lock_state(q, d, b))
           /\ Banded(enqueue_set_switch_state(q, d, b))
  <1>1. ASSUME NEW op \in Operations, op.type \in DeviceControlTypes PROVE Banded(push_control(q, op))
    BY <1>1, BandOf, PushOrderly
  <1>2. ASSUME NEW type \in DeviceControlTypes, NEW x \in 0..100 PROVE Banded(push_control(q, Op(type, d, x)))
    <2>1. Op(type, d, x) \in Operations /\ Op(type, d, x).type \in DeviceControlTypes
      BY DEF Op, Operations
    <2>2. QED
      BY <1>1, <2>1
  <1>3. {"SET_POSITION", "SET_TILT", "SET_LIGHT_STATE", "SET_LOCK_STATE", "SET_SWITCH_STATE"} \subseteq DeviceControlTypes
    BY DEF DeviceControlTypes
  <1>4. ASSUME NEW i \in DOMAIN q, NEW o \in Operations, o.type = "SET_POSITION_AND_TILT", q[i].type \in {"SET_POSITION", "SET_TILT"}
        PROVE  Banded([q EXCEPT ![i] = o])
    <2>1. o.type \in DeviceControlTypes /\ q[i].type \in DeviceControlTypes
      BY <1>4 DEF DeviceControlTypes
    <2>2. Band(o) = Band(q[i])
      BY <2>1, BandOf
    <2>3. QED
      BY <2>2, MergeOrderly
  <1>5. Banded(enqueue_set_position(q, d, p))
    <2> DEFINE i == First(Pending(q, {"SET_TILT"}, d))
               o == [q[i] EXCEPT !.type = "SET_POSITION_AND_TILT", !.position = p, !.tilt = q[i].position]
    <2>1. CASE Pending(q, {"SET_TILT"}, d) # {}
      <3>1. i \in DOMAIN q /\ q[i].type = "SET_TILT"
        BY <2>1, FirstPending
      <3>2. q[i] \in Operations
        BY <3>1, QueueIndices
      <3>3. enqueue_set_position(q, d, p)
            = [q EXCEPT ![i].type = "SET_POSITION_AND_TILT", ![i].position = p, ![i].tilt = q[i].position]
        BY <2>1 DEF enqueue_set_position
      <3> HIDE DEF i
      <3>4. o \in Operations /\ o.type = "SET_POSITION_AND_TILT"
        BY <3>1, <3>2 DEF Operations, DeviceControlTypes
      <3>5. [q EXCEPT ![i].type = "SET_POSITION_AND_TILT", ![i].position = p, ![i].tilt = q[i].position] = [q EXCEPT ![i] = o]
        BY <3>1, <3>2 DEF Operations
      <3> HIDE DEF o
      <3>6. q[i].type \in {"SET_POSITION", "SET_TILT"}
        BY <3>1
      <3>7. Banded([q EXCEPT ![i] = o])
        BY <1>4, <3>1, <3>4, <3>6
      <3>8. QED
        BY <3>3, <3>5, <3>7
    <2>2. CASE Pending(q, {"SET_TILT"}, d) = {}
      BY <1>2, <1>3, <2>2 DEF enqueue_set_position
    <2>3. QED
      BY <2>1, <2>2
  <1>6. Banded(enqueue_set_tilt(q, d, t))
    <2> DEFINE i == First(Pending(q, {"SET_POSITION"}, d))
               o == [q[i] EXCEPT !.type = "SET_POSITION_AND_TILT", !.tilt = t]
    <2>1. CASE Pending(q, {"SET_POSITION"}, d) # {}
      <3>1. i \in DOMAIN q /\ q[i].type = "SET_POSITION"
        BY <2>1, FirstPending
      <3>2. q[i] \in Operations
        BY <3>1, QueueIndices
      <3>3. enqueue_set_tilt(q, d, t) = [q EXCEPT ![i].type = "SET_POSITION_AND_TILT", ![i].tilt = t]
        BY <2>1 DEF enqueue_set_tilt
      <3> HIDE DEF i
      <3>4. o \in Operations /\ o.type = "SET_POSITION_AND_TILT"
        BY <3>1, <3>2 DEF Operations, DeviceControlTypes
      <3>5. [q EXCEPT ![i].type = "SET_POSITION_AND_TILT", ![i].tilt = t] = [q EXCEPT ![i] = o]
        BY <3>1, <3>2 DEF Operations
      <3> HIDE DEF o
      <3>6. q[i].type \in {"SET_POSITION", "SET_TILT"}
        BY <3>1
      <3>7. Banded([q EXCEPT ![i] = o])
        BY <1>4, <3>1, <3>4, <3>6
      <3>8. QED
        BY <3>3, <3>5, <3>7
    <2>2. CASE Pending(q, {"SET_POSITION"}, d) = {}
      BY <1>2, <1>3, <2>2 DEF enqueue_set_tilt
    <2>3. QED
      BY <2>1, <2>2
  <1>7. Banded(enqueue_set_position_and_tilt(q, d, p, t))
    <2> DEFINE op == [Op("SET_POSITION_AND_TILT", d, p) EXCEPT !.tilt = t]
    <2>1. op \in Operations /\ op.type \in DeviceControlTypes
      BY DEF Op, Operations, DeviceControlTypes
    <2>2. QED
      BY <1>1, <2>1 DEF enqueue_set_position_and_tilt
  <1>8. Banded(enqueue_device_command(q, d, "STOP"))
    <2> DEFINE op == [Op("DEVICE_COMMAND", d, 0) EXCEPT !.command = "STOP"]
    <2>1. op \in Operations /\ op.type \in DeviceControlTypes
      BY DEF Op, Operations, DeviceControlTypes
    <2>2. QED
      BY <1>1, <2>1 DEF enqueue_device_command
  <1>9. Banded(enqueue_set_light_position(q, d, p))
    BY <1>2, <1>3 DEF enqueue_set_light_position
  <1>10. Banded(enqueue_set_lock_state(q, d, b))
    <2>1. PICK x \in 0..100 : x = IF b THEN 100 ELSE 0
      OBVIOUS
    <2>2. QED
      BY <1>2, <1>3, <2>1 DEF enqueue_set_lock_state
  <1>11. Banded(enqueue_set_switch_state(q, d, b))
    <2>1. PICK x \in 0..100 : x = IF b THEN 0 ELSE 100
      OBVIOUS
    <2>2. QED
      BY <1>2, <1>3, <2>1 DEF enqueue_set_switch_state
  <1>12. QED
    BY <1>5, <1>6, <1>7, <1>8, <1>9, <1>10, <1>11

\* A poll goes to the back, where the polls are.
LEMMA PollOrderly ==
    ASSUME NEW q \in Seq(Operations), Banded(q), NEW op \in Operations, op.type \in BackgroundTypes
    PROVE  Banded(Append(q, op))
  <1> DEFINE r == Append(q, op)
             n == Len(q) + 1
  <1>1. /\ r \in Seq(Operations) /\ n \in DOMAIN r /\ r[n] = op /\ \A m \in DOMAIN r : m <= n
        /\ \E goes : Carries(q, r, goes, {n}) /\ DOMAIN goes = DOMAIN q
    BY AppendCarries
  <1>2. DOMAIN r \subseteq Int /\ n \in Int
    BY <1>1, QueueIndices
  <1> HIDE DEF r, n
  <1>3. PICK goes : Carries(q, r, goes, {n})
    BY <1>1
  <1>4. \A i, j \in DOMAIN r \ {n} : i <= j => Band(r[i]) <= Band(r[j])
    BY <1>1, <1>3, CarriedBands
  <1>5. Band(r[n]) = 3 /\ \A i \in DOMAIN r : Band(r[i]) \in {1, 2, 3}
    BY <1>1, BandOf DEF is_background_op
  <1>6. ASSUME NEW i \in DOMAIN r, NEW j \in DOMAIN r, i <= j PROVE Band(r[i]) <= Band(r[j])
    <2>1. CASE j = n
      BY <1>5, <2>1
    <2>2. CASE j # n
      <3>1. i # n
        BY <1>1, <1>2, <1>6, <2>2
      <3>2. QED
        BY <1>4, <1>6, <2>2, <3>1
    <2>3. QED
      BY <2>1, <2>2
  <1>7. QED
    BY <1>6 DEF Banded, r

\* The requests for a status or a name.
LEMMA RequestsOrderly ==
    ASSUME NEW q \in Seq(Operations), Banded(q), NEW d \in Devices
    PROVE  Banded(enqueue_request_status(q, d)) /\ Banded(enqueue_request_name(q, d))
  <1>1. ASSUME NEW type \in BackgroundTypes PROVE Banded(Append(q, Op(type, d, 0)))
    <2>1. Op(type, d, 0) \in Operations /\ Op(type, d, 0).type \in BackgroundTypes
      BY DEF Op, Operations, BackgroundTypes, DeviceControlTypes
    <2>2. QED
      BY <2>1, PollOrderly
  <1>2. "REQUEST_STATUS" \in BackgroundTypes /\ "REQUEST_NAME" \in BackgroundTypes
    BY DEF BackgroundTypes
  <1>3. QED
    BY <1>1, <1>2 DEF enqueue_request_status, enqueue_request_name

\* Pairing goes to the front.
LEMMA PairingOrderly ==
    ASSUME NEW q \in Seq(Operations), Banded(q)
    PROVE  Banded(enqueue_discover_and_pair(q))
  <1> DEFINE op == Op("DISCOVER_AND_PAIR", NoDevice, 0)
             r == Flushed(q, op)
  <1>1. op \in Operations /\ op.type = "DISCOVER_AND_PAIR"
    BY DEF Op, Operations, DeviceControlTypes, BackgroundTypes
  <1> HIDE DEF op
  <1>2. /\ r \in Seq(Operations) /\ 1 \in DOMAIN r /\ r[1] = op
        /\ \E goes : Carries(q, r, goes, {1}) /\ DOMAIN goes = NotPolls(q)
    BY <1>1, DiscoverCarries
  <1> HIDE DEF r
  <1>3. PICK goes : Carries(q, r, goes, {1})
    BY <1>2
  <1>4. \A i, j \in DOMAIN r \ {1} : i <= j => Band(r[i]) <= Band(r[j])
    BY <1>2, <1>3, CarriedBands
  <1>5. Band(r[1]) = 1 /\ \A i \in DOMAIN r : Band(r[i]) \in {1, 2, 3}
    BY <1>1, <1>2, BandOf
  <1>6. ASSUME NEW i \in DOMAIN r, NEW j \in DOMAIN r, i <= j PROVE Band(r[i]) <= Band(r[j])
    <2>1. i \in Nat \ {0} /\ j \in Nat \ {0}
      BY <1>2, QueueIndices
    <2>2. CASE i = 1
      BY <1>5, <2>2
    <2>3. CASE i # 1
      <3>1. j # 1
        BY <1>6, <2>1, <2>3
      <3>2. QED
        BY <1>4, <1>6, <2>3, <3>1
    <2>4. QED
      BY <2>2, <2>3
  <1>7. Banded(r)
    BY <1>6 DEF Banded
  <1>8. QED
    BY <1>7 DEF enqueue_discover_and_pair, Flushed, NotPolls, r, op

\* loop() takes the first.
LEMMA TailOrderly ==
    ASSUME NEW q \in Seq(Operations), Banded(q), q # <<>>
    PROVE  Tail(q) \in Seq(Operations) /\ Banded(Tail(q))
  <1> DEFINE r == Tail(q)
  <1>1. r \in Seq(Operations) /\ \E goes : Carries(q, r, goes, {})
    BY TailCarries
  <1> HIDE DEF r
  <1>2. PICK goes : Carries(q, r, goes, {})
    BY <1>1
  <1>3. DOMAIN r \ {} = DOMAIN r
    OBVIOUS
  <1>4. \A i, j \in DOMAIN r : i <= j => Band(r[i]) <= Band(r[j])
    BY <1>1, <1>2, <1>3, CarriedBands
  <1>5. QED
    BY <1>1, <1>4 DEF Banded, r

\* Entities, timeouts and buttons enqueue.
LEMMA EnqueuingOrderly ==
    ASSUME Orderly, NEW d \in Devices
    PROVE  /\ (\/ \E p \in Positions : SetPosition(d, p) \/ SetLight(d, p) \/ \E t \in Tilts : SetPositionAndTilt(d, p, t)
               \/ \E t \in Tilts : SetTilt(d, t)
               \/ \E b \in BOOLEAN : SetLock(d, b) \/ SetSwitch(d, b)
               \/ Stop(d)) => Orderly'
           /\ RequestStatus(d) \/ RequestName(d) \/ TimeoutFires(d) => Orderly'
  <1>1. queue \in Seq(Operations) /\ Banded(queue) /\ DOMAIN tracking = Devices
    BY DEF Orderly
  <1>2. Positions \subseteq 0..100 /\ Tilts \subseteq 0..100
    BY Constants
  <1>3. ASSUME NEW r, Commanded(queue, r, d), Banded(r), queue' \in {queue, r}, tracking' = tracking PROVE Orderly'
    BY <1>1, <1>3 DEF Commanded, Orderly
  <1> DEFINE Kept(r) == Commanded(queue, r, d) /\ Banded(r)
  <1>4. ASSUME NEW p \in 0..100, NEW t \in 0..100, NEW b \in BOOLEAN
        PROVE  /\ Kept(enqueue_set_position(queue, d, p)) /\ Kept(enqueue_set_tilt(queue, d, t))
               /\ Kept(enqueue_set_position_and_tilt(queue, d, p, t)) /\ Kept(enqueue_device_command(queue, d, "STOP"))
               /\ Kept(enqueue_set_light_position(queue, d, p)) /\ Kept(enqueue_set_lock_state(queue, d, b))
               /\ Kept(enqueue_set_switch_state(queue, d, b))
    <2>1. /\ Commanded(queue, enqueue_set_position(queue, d, p), d) /\ Commanded(queue, enqueue_set_tilt(queue, d, t), d)
          /\ Commanded(queue, enqueue_set_position_and_tilt(queue, d, p, t), d)
          /\ Commanded(queue, enqueue_device_command(queue, d, "STOP"), d)
          /\ Commanded(queue, enqueue_set_light_position(queue, d, p), d)
          /\ Commanded(queue, enqueue_set_lock_state(queue, d, b), d)
          /\ Commanded(queue, enqueue_set_switch_state(queue, d, b), d)
      <3>1. Commanded(queue, enqueue_set_position(queue, d, p), d) /\ Commanded(queue, enqueue_set_tilt(queue, d, t), d)
        BY <1>1, SetPositionCommands, SetTiltCommands
      <3>2. QED
        BY <1>1, <3>1, OtherCommands
    <2>2. /\ Banded(enqueue_set_position(queue, d, p)) /\ Banded(enqueue_set_tilt(queue, d, t))
          /\ Banded(enqueue_set_position_and_tilt(queue, d, p, t)) /\ Banded(enqueue_device_command(queue, d, "STOP"))
          /\ Banded(enqueue_set_light_position(queue, d, p)) /\ Banded(enqueue_set_lock_state(queue, d, b))
          /\ Banded(enqueue_set_switch_state(queue, d, b))
      BY <1>1, CommandsOrderly
    <2>3. QED
      BY <2>1, <2>2
  <1>5. ASSUME NEW p \in Positions, SetPosition(d, p) PROVE Orderly'
    <2>1. queue' \in {queue, enqueue_set_position(queue, d, p)} /\ tracking' = tracking
      BY <1>5 DEF SetPosition, Control
    <2>2. QED
      BY <1>2, <1>3, <1>4, <2>1
  <1>6. ASSUME NEW p \in Positions, SetLight(d, p) PROVE Orderly'
    <2>1. queue' \in {queue, enqueue_set_light_position(queue, d, p)} /\ tracking' = tracking
      BY <1>6 DEF SetLight, Write
    <2>2. QED
      BY <1>2, <1>3, <1>4, <2>1
  <1>7. ASSUME NEW p \in Positions, NEW t \in Tilts, SetPositionAndTilt(d, p, t) PROVE Orderly'
    <2>1. queue' \in {queue, enqueue_set_position_and_tilt(queue, d, p, t)} /\ tracking' = tracking
      BY <1>7 DEF SetPositionAndTilt, Control
    <2>2. QED
      BY <1>2, <1>3, <1>4, <2>1
  <1>8. ASSUME NEW t \in Tilts, SetTilt(d, t) PROVE Orderly'
    <2>1. queue' \in {queue, enqueue_set_tilt(queue, d, t)} /\ tracking' = tracking
      BY <1>8 DEF SetTilt, Control
    <2>2. QED
      BY <1>2, <1>3, <1>4, <2>1
  <1>9. ASSUME NEW b \in BOOLEAN, SetLock(d, b) \/ SetSwitch(d, b) PROVE Orderly'
    <2>1. /\ queue' \in {queue, enqueue_set_lock_state(queue, d, b)} \/ queue' \in {queue, enqueue_set_switch_state(queue, d, b)}
          /\ tracking' = tracking
      BY <1>9 DEF SetLock, SetSwitch, Write
    <2>2. 0 \in 0..100
      OBVIOUS
    <2>3. QED
      BY <1>3, <1>4, <2>1, <2>2
  <1>10. ASSUME Stop(d) PROVE Orderly'
    <2>1. queue' \in {queue, enqueue_device_command(queue, d, "STOP")} /\ tracking' = tracking
      BY <1>10 DEF Stop, Control
    <2>2. 0 \in 0..100
      OBVIOUS
    <2>3. QED
      BY <1>3, <1>4, <2>1, <2>2
  <1>11. ASSUME RequestStatus(d) \/ RequestName(d) \/ TimeoutFires(d) PROVE Orderly'
    <2>1. queue' \in {queue, enqueue_request_status(queue, d), enqueue_request_name(queue, d)} /\ tracking' = tracking
      BY <1>11 DEF RequestStatus, RequestName, TimeoutFires, queue_request_device_status
    <2>2. QED
      BY <1>1, <2>1, PollsQueued, NamesQueued, RequestsOrderly DEF Orderly
  <1>12. QED
    BY <1>5, <1>6, <1>7, <1>8, <1>9, <1>10, <1>11

\* loop() takes the head, and its last part may add a poll.
LEMMA LoopOrderly ==
    ASSUME Orderly
    PROVE  /\ ExecuteFails \/ ExecuteUnconfirmed \/ ExecuteAcknowledged => Orderly'
           /\ StatusFails \/ StatusReported \/ StatusUnusable => Orderly'
           /\ NameAsked \/ Paired \/ SendOneway => Orderly'
           /\ QueueDue => Orderly'
  <1>1. queue \in Seq(Operations) /\ Banded(queue) /\ DOMAIN tracking = Devices
    BY DEF Orderly
  <1>2. ASSUME NEW types, Dispatch(types), DOMAIN tracking' = Devices PROVE Orderly'
    <2>1. queue # <<>> /\ queue' = Tail(queue)
      BY <1>2 DEF Dispatch
    <2>2. QED
      BY <1>1, <1>2, <2>1, TailOrderly DEF Orderly
  <1>3. ASSUME ExecuteFails \/ ExecuteUnconfirmed \/ ExecuteAcknowledged PROVE Orderly'
    <2>1. Dispatch(DeviceControlTypes) /\ DOMAIN tracking' = DOMAIN tracking
      BY <1>3 DEF ExecuteFails, ExecuteUnconfirmed, ExecuteAcknowledged
    <2>2. QED
      BY <1>1, <1>2, <2>1
  <1>4. ASSUME StatusFails \/ StatusReported \/ StatusUnusable PROVE Orderly'
    <2>1. Dispatch({"REQUEST_STATUS"}) /\ DOMAIN tracking' = DOMAIN tracking
      BY <1>4 DEF StatusFails, StatusReported, StatusUnusable
    <2>2. QED
      BY <1>1, <1>2, <2>1
  <1>5. ASSUME NameAsked \/ Paired \/ SendOneway PROVE Orderly'
    <2>1. tracking' = tracking /\ (Dispatch({"REQUEST_NAME"}) \/ Dispatch({"DISCOVER_AND_PAIR"}) \/ Dispatch({"ONEWAY_COMMAND"}))
      BY <1>5 DEF NameAsked, Paired, SendOneway
    <2>2. QED
      BY <1>1, <1>2, <2>1
  <1>6. ASSUME QueueDue PROVE Orderly'
    <2> DEFINE due == DueDevices(tracking, millis)
    <2>1. queue' = (IF due = {} THEN queue ELSE enqueue_request_status(queue, CHOOSE d \in due : TRUE))
          /\ tracking' = pop_due_device(tracking, millis)
      BY <1>6 DEF QueueDue
    <2>2. DOMAIN tracking' = DOMAIN tracking
      BY <2>1 DEF pop_due_device
    <2>3. due \subseteq Devices
      BY <1>1 DEF DueDevices
    <2> HIDE DEF due
    <2>4. CASE due = {}
      BY <1>1, <2>1, <2>2, <2>4 DEF Orderly
    <2>5. CASE due # {}
      <3>1. PICK d \in Devices : d = CHOOSE x \in due : TRUE
        BY <2>3, <2>5
      <3>2. queue' = enqueue_request_status(queue, d)
        BY <2>1, <2>5, <3>1
      <3>3. QED
        BY <1>1, <2>2, <3>2, PollsQueued, RequestsOrderly DEF Orderly
    <2>6. QED
      BY <2>4, <2>5
  <1>7. QED
    BY <1>3, <1>4, <1>5, <1>6

\* Every step of the hub keeps the queue in order.
LEMMA OrderlyNext == Orderly /\ [Next]_vars => Orderly'
  <1> SUFFICES ASSUME Orderly, [Next]_vars PROVE Orderly'
    OBVIOUS
  <1>1. queue \in Seq(Operations) /\ Banded(queue) /\ DOMAIN tracking = Devices
    BY DEF Orderly
  <1>2. ASSUME queue' = queue, DOMAIN tracking' = Devices PROVE Orderly'
    BY <1>1, <1>2 DEF Orderly
  <1>3. ASSUME NEW d \in Devices, NEW p \in Positions,
               \/ SetPosition(d, p) \/ SetLight(d, p) \/ UnheardPress(d, p) \/ ReceiveRemoteActivity(d, p)
               \/ \E t \in Tilts : SetPositionAndTilt(d, p, t)
        PROVE  Orderly'
    <2>1. CASE UnheardPress(d, p) \/ ReceiveRemoteActivity(d, p)
      BY <1>1, <1>2, <2>1 DEF UnheardPress, ReceiveRemoteActivity
    <2>2. QED
      BY <1>3, <2>1, EnqueuingOrderly
  <1>4. ASSUME NEW d \in Devices,
               \/ \E t \in Tilts : SetTilt(d, t)
               \/ \E b \in BOOLEAN : SetLock(d, b) \/ SetSwitch(d, b)
               \/ Stop(d) \/ RequestStatus(d) \/ RequestName(d) \/ TimeoutFires(d) \/ Arrive(d)
        PROVE  Orderly'
    <2>1. CASE Arrive(d)
      BY <1>1, <1>2, <2>1 DEF Arrive
    <2>2. QED
      BY <1>4, <2>1, EnqueuingOrderly
  <1>5. ASSUME NEW d \in Devices, NEW r \in Reports(d), ReceiveStatusUpdate(d, r) PROVE Orderly'
    BY <1>1, <1>2, <1>5 DEF ReceiveStatusUpdate
  <1>6. CASE PressOneway
    <2>1. enqueue_oneway_command(queue, NoDevice, "STOP") \in Seq(Operations) /\ Banded(enqueue_oneway_command(queue, NoDevice, "STOP"))
      <3> DEFINE op == [Op("ONEWAY_COMMAND", NoDevice, 0) EXCEPT !.command = "STOP"]
      <3>1. op \in Operations /\ IsOneway(op)
        BY DEF Op, Operations, OneWayTypes, BackgroundTypes, DeviceControlTypes, IsOneway
      <3>2. Band(op) = 2
        BY <3>1, BandOf
      <3>3. QED
        BY <1>1, <3>1, <3>2, PushOrderly DEF enqueue_oneway_command
    <2>2. queue' = enqueue_oneway_command(queue, NoDevice, "STOP") /\ tracking' = tracking
      BY <1>6 DEF PressOneway
    <2>3. QED
      BY <1>1, <2>1, <2>2 DEF Orderly
  <1>7. CASE Pair
    <2>1. queue' = enqueue_discover_and_pair(queue) /\ tracking' = tracking
      BY <1>7 DEF Pair
    <2>2. QED
      BY <1>1, <2>1, PairKeeps, PairingOrderly DEF Orderly
  <1>8. CASE ReceiveNothing \/ ReceiveStranger \/ DispatchNothing \/ Horizon \/ UNCHANGED vars
    <2>1. queue' = queue /\ tracking' = tracking
      BY <1>8 DEF ReceiveNothing, ReceiveStranger, DispatchNothing, Horizon, vars
    <2>2. QED
      BY <1>1, <1>2, <2>1
  <1>9. ASSUME NEW what \in Positions \cup {POS_STOP}, ReceiveLinkedRemote(what) PROVE Orderly'
    BY <1>1, <1>2, <1>9 DEF ReceiveLinkedRemote
  <1>10. CASE \/ ExecuteFails \/ ExecuteUnconfirmed \/ ExecuteAcknowledged \/ StatusFails \/ StatusReported \/ StatusUnusable
              \/ NameAsked \/ Paired \/ SendOneway \/ QueueDue
    BY <1>10, LoopOrderly
  <1>11. QED
    BY <1>3, <1>4, <1>5, <1>6, <1>7, <1>8, <1>9, <1>10 DEF Next

\* loop() blocks in an exchange of its own making only when no request of a user waits.
CommandsFirst ==
    [][StatusFails \/ StatusReported \/ StatusUnusable \/ NameAsked
        => \A i \in DOMAIN queue : is_background_op(queue[i])]_vars

(***************************************************************************)
(* Whatever entities, timers, remotes and the poll policy put into it, and *)
(* however long exchanges block loop(), process_pending_operation_ starts  *)
(* a status or name request only when no command, 1W press or pairing is   *)
(* waiting.  The queue's band order is the invariant; unlike the theorems  *)
(* above this one has no hypothesis on the clock.                          *)
(***************************************************************************)
THEOREM PollsYield == Spec => []BandOrder /\ CommandsFirst
  <1>1. Init => Orderly
    <2> SUFFICES ASSUME Init PROVE Orderly
      OBVIOUS
    <2>1. queue = <<>> /\ DOMAIN tracking = Devices
      BY DEF Init
    <2>2. QED
      BY <2>1 DEF Orderly, Banded
  <1>2. Orderly => BandOrder
    BY DEF Orderly, Banded, BandOrder
  <1>3. ASSUME Orderly, [Next]_vars
        PROVE  [StatusFails \/ StatusReported \/ StatusUnusable \/ NameAsked
                 => \A i \in DOMAIN queue : is_background_op(queue[i])]_vars
    <2> SUFFICES ASSUME StatusFails \/ StatusReported \/ StatusUnusable \/ NameAsked, NEW i \in DOMAIN queue
                 PROVE  is_background_op(queue[i])
      OBVIOUS
    <2>1. queue # <<>> /\ Head(queue).type \in BackgroundTypes
      BY DEF StatusFails, StatusReported, StatusUnusable, NameAsked, Dispatch, BackgroundTypes
    <2>2. queue \in Seq(Operations) /\ Banded(queue)
      BY <1>3 DEF Orderly
    <2>3. 1 \in DOMAIN queue /\ Head(queue) = queue[1]
      BY <2>1, <2>2, HeadTailProperties, TailCarries
    <2>4. i \in Nat \ {0}
      BY <2>2, QueueIndices
    <2>5. Band(queue[1]) <= Band(queue[i])
      BY <2>2, <2>3, <2>4 DEF Banded
    <2>6. Band(queue[1]) = 3 /\ Band(queue[i]) \in {1, 2, 3}
      BY <2>1, <2>3, BandOf DEF is_background_op
    <2>7. QED
      BY <2>5, <2>6, BandOf
  <1>4. QED
    BY <1>1, <1>2, <1>3, OrderlyNext, PTL DEF Spec, CommandsFirst

=============================================================================
