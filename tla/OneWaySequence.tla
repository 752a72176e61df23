---------------------------- MODULE OneWaySequence ----------------------------
(***************************************************************************)
(* The 1W rolling sequence: OneWaySequenceStore and the transmissions of   *)
(* OneWayTransmitter that consume it, across reboots and flash failures.   *)
(*                                                                         *)
(* A device remembers the highest sequence it accepted from a transmitter  *)
(* and silently ignores anything at or below it, so the hub must never     *)
(* send an old sequence, also after a power loss at any moment.            *)
(***************************************************************************)
EXTENDS Integers, Sequences

CONSTANTS
    Identities,  \* the controller identities of the configuration
    Velux,       \* the ones with EnrollGesture::VELUX_KLI
    Ring,        \* size of the uint16_t ring
    ONEWAY_SEQUENCE_STRIDE,
    ONEWAY_SEQUENCE_REBOOT_HEADROOM,
    ONEWAY_SEQUENCE_ACCEPTANCE_WINDOW,
    Initials,    \* the values of initial_sequence the configuration may hold
    Seeds,       \* the values seed() may be called with
    None,        \* no value
    MaxBoots,    \* bound of the model: reboots between two transmissions of an identity
    MaxWasted    \* bound of the model: failed transmissions in between

\* The product is the static_assert of oneway_sequence_store.h.
ASSUME SequenceAssumption ==
    /\ Ring \in Nat
    /\ ONEWAY_SEQUENCE_STRIDE \in 1..(Ring - 1)
    /\ ONEWAY_SEQUENCE_REBOOT_HEADROOM \in Nat /\ ONEWAY_SEQUENCE_ACCEPTANCE_WINDOW \in Nat
    /\ Initials \subseteq 0..(Ring - 1) /\ Initials # {} /\ Seeds \subseteq 0..(Ring - 1)
    /\ ONEWAY_SEQUENCE_STRIDE * ONEWAY_SEQUENCE_REBOOT_HEADROOM < ONEWAY_SEQUENCE_ACCEPTANCE_WINDOW
    /\ None \notin Nat
    /\ MaxBoots \in Nat /\ MaxWasted \in Nat

VARIABLES
    flash,      \* the preference of each identity as committed to flash
    staged,     \* a value save() took that no sync() committed yet
    next,       \* Counter::next
    reserved,   \* Counter::reserved
    sender,     \* the identity a job runs for
    job,        \* frames the running job has still to send; empty when idle
    inflight,   \* the sequence handed out for the frame being built and sent, or None
    last,       \* history: the last sequence of each identity on the air, None after a seed()
    boots,      \* history: reboots since then
    wasted,     \* history: sequences handed out since then and not sent
    disputed,   \* history: the identities whose flash a failed seed() may have touched
    wrapped     \* history: the identities with a reservation past the end of the ring

counters == <<flash, staged, next, reserved>>
history == <<last, boots, wasted, disputed, wrapped>>
vars == <<flash, staged, next, reserved, sender, job, inflight, last, boots, wasted, disputed, wrapped>>

Seq16 == 0..(Ring - 1)

\* uint16_t addition of two values of the ring.
RingPlus(a, b) == IF a + b < Ring THEN a + b ELSE a + b - Ring
RingDistance(a, b) == IF a <= b THEN b - a ELSE b - a + Ring

\* Faulty variant: a reboot trusts the configuration over the flash.
add_identity_initial_first(persisted, initial) == initial

\* The value add_identity resumes from: the higher of the two, as plain numbers.
add_identity(persisted, initial) ==
    IF persisted = None THEN initial ELSE IF persisted > initial THEN persisted ELSE initial

Init ==
    /\ flash = [i \in Identities |-> None]
    /\ staged = [i \in Identities |-> None]
    /\ next \in [Identities -> Initials]
    /\ reserved = next
    /\ sender \in Identities
    /\ job = <<>>
    /\ inflight = None
    /\ last = [i \in Identities |-> None]
    /\ boots = [i \in Identities |-> 0]
    /\ wasted = [i \in Identities |-> 0]
    /\ disputed = {}
    /\ wrapped = {}

-----------------------------------------------------------------------------
(* ESPHome preferences: save() stages a value, sync() commits what is      *)
(* staged and reports success when nothing failed.                         *)

Pendings(stage) == {i \in Identities : stage[i] # None}

\* The values of stage that belong to S reach the flash.
Commit(stage, S) ==
    /\ flash' = [i \in Identities |-> IF i \in S THEN stage[i] ELSE flash[i]]
    /\ staged' = [i \in Identities |-> IF i \in S THEN None ELSE stage[i]]

\* ESPHome's own periodic sync.
BackgroundSync ==
    /\ \E S \in SUBSET Pendings(staged) : S # {} /\ Commit(staged, S)
    /\ UNCHANGED <<next, reserved, sender, job, inflight, history>>

\* persist(): both halves succeed.
Persist(i, value) ==
    LET stage == [staged EXCEPT ![i] = value]
    IN  Commit(stage, Pendings(stage))

\* persist(): save() refuses, or sync() fails for at least one preference.
PersistFails(i, value) ==
    LET stage == [staged EXCEPT ![i] = value]
    IN  \/ UNCHANGED <<flash, staged>>
        \/ \E S \in SUBSET Pendings(stage) : S # Pendings(stage) /\ Commit(stage, S)

-----------------------------------------------------------------------------
(* OneWayTransmitter.                                                      *)

Frames == {"EXECUTE", "REMOVE", "ADD", "SWEEP"}
SomfyEnrollment == <<"REMOVE", "ADD">>
VeluxEnrollment == <<"REMOVE", "SWEEP", "EXECUTE", "EXECUTE">>

JobsOf(i) == {<<"EXECUTE">>, <<"REMOVE">>, IF i \in Velux THEN VeluxEnrollment ELSE SomfyEnrollment}

\* send_command, send_position, send_unenrollment or send_enrollment.
Start(i) ==
    /\ job = <<>>
    /\ sender' = i
    /\ job' \in JobsOf(i)
    /\ UNCHANGED <<counters, inflight, history>>

\* Only an enroll sweep that reached nobody ends the job early.
AfterFrame(sent) == job' = IF Head(job) = "SWEEP" /\ ~sent THEN <<>> ELSE Tail(job)

Asking == job # <<>> /\ inflight = None
NewReservation(i) == RingPlus(next[i], ONEWAY_SEQUENCE_STRIDE)
NoteWrap(i) == wrapped' = IF NewReservation(i) < next[i] THEN wrapped \cup {i} ELSE wrapped

\* Faulty variant: every copy of the burst takes a sequence.
HandOut_per_copy(i) ==
    /\ inflight' = RingPlus(next[i], 1)
    /\ next' = [next EXCEPT ![i] = RingPlus(@, 2)]

HandOut(i) ==
    /\ inflight' = next[i]
    /\ next' = [next EXCEPT ![i] = RingPlus(@, 1)]

\* next() inside the reserved block.
NextInBlock ==
    /\ Asking
    /\ next[sender] # reserved[sender]
    /\ HandOut(sender)
    /\ UNCHANGED <<flash, staged, reserved, sender, job, history>>

\* Faulty variant: the reservation is written after the sequence went out.
NextReserves_late ==
    /\ Asking
    /\ next[sender] = reserved[sender]
    /\ reserved' = [reserved EXCEPT ![sender] = NewReservation(sender)]
    /\ staged' = [staged EXCEPT ![sender] = NewReservation(sender)]
    /\ NoteWrap(sender)
    /\ disputed' = disputed \ {sender}
    /\ HandOut(sender)
    /\ UNCHANGED <<flash, sender, job, last, boots, wasted>>

\* next() with the block used up: the reservation is durable first.
NextReserves ==
    /\ Asking
    /\ next[sender] = reserved[sender]
    /\ Persist(sender, NewReservation(sender))
    /\ reserved' = [reserved EXCEPT ![sender] = NewReservation(sender)]
    /\ NoteWrap(sender)
    /\ disputed' = disputed \ {sender}
    /\ HandOut(sender)
    /\ UNCHANGED <<sender, job, last, boots, wasted>>

\* next() that cannot reserve hands nothing out; the frame is given up.
NextRefuses ==
    /\ Asking
    /\ next[sender] = reserved[sender]
    /\ PersistFails(sender, NewReservation(sender))
    /\ NoteWrap(sender)
    /\ AfterFrame(FALSE)
    /\ UNCHANGED <<next, reserved, sender, inflight, last, boots, wasted, disputed>>

\* At least one copy of the burst (or of a class of the sweep) was transmitted.
Transmit ==
    /\ inflight # None
    /\ inflight' = None
    /\ last' = [last EXCEPT ![sender] = IF sender \in disputed THEN None ELSE inflight]
    /\ boots' = [boots EXCEPT ![sender] = 0]
    /\ wasted' = [wasted EXCEPT ![sender] = 0]
    /\ AfterFrame(TRUE)
    /\ UNCHANGED <<counters, sender, disputed, wrapped>>

\* The frame could not be built or no copy left the radio: the sequence is gone.
TransmitFails ==
    /\ inflight # None
    /\ wasted[sender] < MaxWasted
    /\ inflight' = None
    /\ wasted' = [wasted EXCEPT ![sender] = @ + 1]
    /\ AfterFrame(FALSE)
    /\ UNCHANGED <<counters, sender, last, boots, disputed, wrapped>>

-----------------------------------------------------------------------------
\* seed() with a durable write: the counter may go back on purpose.
Seed(i, value) ==
    /\ job = <<>>
    /\ Persist(i, value)
    /\ next' = [next EXCEPT ![i] = value]
    /\ reserved' = [reserved EXCEPT ![i] = value]
    /\ last' = [last EXCEPT ![i] = None]
    /\ boots' = [boots EXCEPT ![i] = 0]
    /\ wasted' = [wasted EXCEPT ![i] = 0]
    /\ disputed' = disputed \ {i}
    /\ wrapped' = wrapped \ {i}
    /\ UNCHANGED <<sender, job, inflight>>

\* seed() returns false; what it staged may still reach the flash.
SeedFails(i, value) ==
    /\ job = <<>>
    /\ PersistFails(i, value)
    /\ disputed' = disputed \cup {i}
    /\ last' = [last EXCEPT ![i] = None]
    /\ UNCHANGED <<next, reserved, sender, job, inflight, boots, wasted, wrapped>>

(***************************************************************************)
(* Power loss or restart at any moment, possibly with an edited            *)
(* configuration: OneWayTransmitter::setup registers every identity anew.  *)
(***************************************************************************)
Reboot ==
    /\ \A i \in Identities : boots[i] < MaxBoots
    /\ \E initial \in [Identities -> Initials] :
         next' = [i \in Identities |-> add_identity(flash[i], initial[i])]
    /\ reserved' = next'
    /\ staged' = [i \in Identities |-> None]
    /\ job' = <<>>
    /\ inflight' = None
    /\ boots' = [i \in Identities |-> boots[i] + 1]
    /\ disputed' = {}
    /\ UNCHANGED <<flash, sender, last, wasted, wrapped>>

Next ==
    \/ \E i \in Identities :
         Start(i) \/ \E v \in Seeds : Seed(i, v) \/ SeedFails(i, v)
    \/ NextInBlock \/ NextReserves \/ NextRefuses
    \/ Transmit \/ TransmitFails
    \/ BackgroundSync \/ Reboot

Spec == Init /\ [][Next]_vars
-----------------------------------------------------------------------------
\* Type invariant: counters are values of the ring, a sequence is out only during a job.
TypeOK ==
    /\ flash \in [Identities -> Seq16 \cup {None}]
    /\ staged \in [Identities -> Seq16 \cup {None}]
    /\ next \in [Identities -> Seq16]
    /\ reserved \in [Identities -> Seq16]
    /\ sender \in Identities
    /\ job \in Seq(Frames)
    /\ inflight \in Seq16 \cup {None} /\ (inflight # None => job # <<>>)
    /\ last \in [Identities -> Seq16 \cup {None}]
    /\ boots \in [Identities -> Nat] /\ wasted \in [Identities -> Nat]
    /\ disputed \subseteq Identities /\ wrapped \subseteq Identities

(***************************************************************************)
(* "A caller can never transmit a value the hub has not already committed  *)
(* to never reusing": until the ring wraps, a sequence about to be sent is *)
(* above every one sent before, whatever reboots, lost or late flash       *)
(* commits, radio failures and configuration edits happened in between.    *)
(***************************************************************************)
NoReplay ==
    inflight # None /\ last[sender] # None /\ sender \notin wrapped => last[sender] < inflight

(***************************************************************************)
(* A sequence is handed out only below the value in flash, which is where  *)
(* a reboot resumes (unless a failed seed() disturbed it).                 *)
(***************************************************************************)
ReservedBeforeUse ==
    inflight # None /\ sender \notin disputed /\ sender \notin wrapped =>
        flash[sender] # None /\ inflight < flash[sender]

(***************************************************************************)
(* The bound behind the static_assert, also across the end of the ring:    *)
(* the sequence about to be sent is ahead of the last one sent by at most  *)
(* a stride per reboot, plus one for each sequence the radio failed to     *)
(* send.  A configured initial_sequence may jump ahead once, and after the  *)
(* ring wrapped, again.                                                    *)
(***************************************************************************)
SkipBounded ==
    /\ inflight # None /\ last[sender] # None
    /\ Initials = {0} \/ (sender \notin wrapped /\ \A initial \in Initials : initial <= last[sender])
    => RingDistance(last[sender], inflight)
            \in 1..(1 + ONEWAY_SEQUENCE_STRIDE * boots[sender] + wasted[sender])
=============================================================================
