--------------------------- MODULE OneWayAdoption ---------------------------
(***************************************************************************)
(* Taking over a 1W network: the armed listener that recovers the key from *)
(* a remote's key-copy gesture (hub_oneway_key_adoption.cpp), the report   *)
(* it prints, the oneway_controllers: entry the user makes of it, its      *)
(* validation (__init__.py), and the frames the hub then sends as the new  *)
(* identity.  Every frame passes proto_commands' builders, serialize, the  *)
(* soft PHY's probe and parse.                                             *)
(*                                                                         *)
(* Remotes, the user and the air are external.  A CRC that matches by      *)
(* accident and a failing AES are left out; sequences are OneWaySequence's *)
(* subject.  A wrapped key is the record of what went into the wrapping.   *)
(***************************************************************************)
EXTENDS Integers, Sequences

CONSTANTS
    Remotes,      \* records: addr, key, class, manufacturer, with_mac, wrap, add_len
    HubNode,      \* the hub's own node_id
    HubKey,       \* the hub's system_key
    Declared,     \* io_device_id: and linked_remotes: of the entities
    Addresses,    \* what a node_id: or a derived one may be
    Window,       \* ONEWAY_KEY_ADOPTION_AUTO_OFF_MS, in ticks
    MaxEntries    \* bound: entries of oneway_controllers:

ASSUME AdoptionAssumption ==
    /\ Window \in Nat \ {0} /\ MaxEntries \in Nat
    /\ Declared \cup {HubNode} \subseteq Addresses
    /\ \A r \in Remotes : r.class \in Nat

VARIABLES
    armed,        \* oneway_key_adoption_armed_
    timers,       \* ticks left of each pending set_timeout
    shown,        \* the switch entity's state
    observed,     \* oneway_last_observed_class_; UNKNOWN type: not valid
    report,       \* the last report printed
    running,      \* the identities of the flashed image
    age,          \* history: ticks since the switch was last turned on
    overheard     \* history: sender and class of every typed frame heard since then

hub == <<armed, timers, shown, observed, report, age, overheard>>
adoptionVars == <<hub, running>>

Nothing == [none |-> TRUE]
Absent == -1                  \* a key the entry does not have
UNKNOWN == 0
SWINGING_SHUTTER == 24
VELUX == 1                    \* MANUFACTURER_VELUX
VELUX_KLI_ENROLLMENT_CLASSES == {2, 3, 13}
EXECUTE == 0
ADD_CONTROLLER == 48
REMOVE == 57

HMAC_SIZE == 6
FRAME_MIN_SIZE == 9
FRAME_MAX_DECLARED_SIZE == 32
ADD_PAYLOAD_SIZE == 20

-----------------------------------------------------------------------------
(* Frames.                                                                 *)

encode_broadcast_address(type) == <<0, type \div 4, ((type * 64) % 256) + 63>>

broadcast_target_type(dst) ==
    LET raw == dst[2] * 4 + dst[3] \div 64
    IN  IF dst[1] # 0 \/ raw > SWINGING_SHUTTER THEN UNKNOWN ELSE raw

\* set_cmd: the 1W frame with its declared length in the five bits of ctrl0.
Frame(src, type, cmd, data_len, body) ==
    [src |-> src, dst |-> encode_broadcast_address(type), cmd |-> cmd, data_len |-> data_len,
     declared |-> ((FRAME_MIN_SIZE + data_len - 1) % FRAME_MAX_DECLARED_SIZE) + 1, has_mac |-> FALSE, body |-> body]

crypt_1w_key(src, key, wrap) == [src |-> src, key |-> key, wrap |-> wrap]
create_1w_hmac(key, span) == [key |-> key, span |-> span]

create_1w_execute(src, type, key, broadcast_all) ==
    Frame(src, IF broadcast_all THEN UNKNOWN ELSE type, EXECUTE, 14,
          [mac |-> create_1w_hmac(key, "execute")])

create_1w_remove_controller(src, type, key) ==
    Frame(src, type, REMOVE, 9, [mac |-> create_1w_hmac(key, "remove")])

create_1w_add_controller(src, type, manufacturer, key, with_mac, wrap, len) ==
    LET enc == crypt_1w_key(src, key, wrap)
    IN  [Frame(src, type, ADD_CONTROLLER, len,
               [enc |-> enc, manufacturer |-> manufacturer, mac |-> create_1w_hmac(key, enc)])
            EXCEPT !.has_mac = with_mac]

frame_carries_mac_trailer(cmd) == cmd = ADD_CONTROLLER

\* Bytes on the wire; 0 when the frame is refused.
serialize(f) ==
    IF \/ FRAME_MIN_SIZE + f.data_len # f.declared
       \/ f.has_mac /\ ~frame_carries_mac_trailer(f.cmd)
    THEN 0
    ELSE f.declared + (IF f.has_mac THEN HMAC_SIZE ELSE 0)

\* The lengths parse() takes for a buffer that starts with this header.
ParsedLengths(f) ==
    {f.declared} \cup (IF frame_carries_mac_trailer(f.cmd) THEN {f.declared + HMAC_SIZE} ELSE {})

\* find_crc_valid_frame, then parse: a plausible frame whose CRC fits at the
\* length it was sent with.  1W frames need no known command.
Received(f) ==
    IF serialize(f) \in ParsedLengths(f)
    THEN [f EXCEPT !.has_mac = serialize(f) # f.declared]
    ELSE Nothing

-----------------------------------------------------------------------------
(* Remotes and the hub as transmitters.                                    *)

VeluxClasses(manufacturer, type) ==
    IF manufacturer = VELUX THEN VELUX_KLI_ENROLLMENT_CLASSES ELSE {type}

\* What a remote sends: its buttons, and the frames of its PROG or key-copy
\* gesture as the corpus holds them: typed for a KLI or an Izymo, to all for a Smoove.
FramesOf(r) ==
    {create_1w_execute(r.addr, r.class, r.key, all) : all \in BOOLEAN}
        \cup {create_1w_add_controller(r.addr, type, r.manufacturer, r.key, r.with_mac, r.wrap, r.add_len) :
                type \in VeluxClasses(r.manufacturer, UNKNOWN)}

effective_enrollment_classes(i) ==
    IF i.enrollment_classes # {} THEN i.enrollment_classes ELSE VELUX_KLI_ENROLLMENT_CLASSES

\* The 0x39 to everyone, the 0x30 sweep, and STOP and DOWN to everyone.
VeluxAddFrames(i) ==
    {create_1w_remove_controller(i.node, UNKNOWN, i.key), create_1w_execute(i.node, i.type, i.key, TRUE)}
        \cup {create_1w_add_controller(i.node, type, i.manufacturer, i.key, i.with_mac, "standard",
                                       ADD_PAYLOAD_SIZE) : type \in effective_enrollment_classes(i)}

SomfyAddFrames(i) ==
    {create_1w_remove_controller(i.node, i.type, i.key),
     create_1w_add_controller(i.node, i.type, i.manufacturer, i.key, i.with_mac, "standard", ADD_PAYLOAD_SIZE)}

send_enrollment(i) == IF i.manufacturer = VELUX THEN VeluxAddFrames(i) ELSE SomfyAddFrames(i)

SentAs(i) ==
    {create_1w_execute(i.node, i.type, i.key, i.broadcast_all), create_1w_remove_controller(i.node, i.type, i.key)}
        \cup (IF i.enrollment THEN send_enrollment(i) ELSE {})

-----------------------------------------------------------------------------
(* The armed listener.                                                     *)

Unarmed == armed' = FALSE /\ shown' = FALSE

\* Disarming leaves the timer running; its callback finds armed_ false.
TurnOff == shown /\ Unarmed /\ UNCHANGED <<timers, observed, report, age, overheard>>

\* Faulty variant: an anonymous timeout, which a second arming does not replace.
set_timeout_anonymous(ticks) == timers' = timers \cup {ticks}
set_timeout(ticks) == timers' = {ticks}

TurnOn ==
    /\ armed' = TRUE /\ shown' = TRUE /\ age' = 0 /\ overheard' = {}
    /\ observed' = [node |-> HubNode, type |-> UNKNOWN]
    /\ set_timeout(Window)
    /\ UNCHANGED report

Tick ==
    /\ timers # {}
    /\ timers' = {t - 1 : t \in timers} \ {0}
    /\ age' = IF age < Window THEN age + 1 ELSE age
    /\ IF 1 \in timers /\ armed THEN Unarmed ELSE UNCHANGED <<armed, shown>>
    /\ UNCHANGED <<observed, report, overheard>>

record_oneway_observed_class(f) ==
    observed' = IF armed /\ broadcast_target_type(f.dst) # UNKNOWN
                THEN [node |-> f.src, type |-> broadcast_target_type(f.dst)]
                ELSE observed

Unwrapped(f) == IF f.body.enc.wrap = "standard" THEN f.body.enc.key ELSE "noise"

\* Faulty variant: a trailer is taken for a proof.
mac_status_present(f) == IF f.has_mac THEN "VERIFIED" ELSE "NOT_PRESENT"

mac_status(f) ==
    IF ~f.has_mac THEN "NOT_PRESENT"
    ELSE IF f.body.mac = create_1w_hmac(Unwrapped(f), f.body.enc) THEN "VERIFIED" ELSE "FAILED"

decode_1w_add_controller(f) == f.cmd = ADD_CONTROLLER /\ f.data_len = ADD_PAYLOAD_SIZE

AdoptionReport(f) ==
    [sender |-> f.src, key |-> Unwrapped(f), manufacturer |-> f.body.manufacturer, mac |-> mac_status(f),
     type |-> IF observed'.node = f.src THEN observed'.type ELSE UNKNOWN, witnessed |-> overheard']

try_adopt_oneway_key(f) ==
    IF armed /\ decode_1w_add_controller(f)
    THEN report' = AdoptionReport(f) /\ Unarmed
    ELSE UNCHANGED <<report, armed, shown>>

\* process_received_packet_, on a 1W frame; the class is recorded first.
process_received(f) ==
    /\ overheard' = IF armed /\ broadcast_target_type(f.dst) # UNKNOWN
                    THEN overheard \cup {<<f.src, broadcast_target_type(f.dst)>>} ELSE overheard
    /\ record_oneway_observed_class(f)
    /\ try_adopt_oneway_key(f)
    /\ UNCHANGED <<timers, age>>

RemoteSends ==
    \E r \in Remotes : \E f \in FramesOf(r) :
        /\ \/ Received(f) # Nothing /\ process_received(Received(f))
           \/ UNCHANGED hub
        /\ UNCHANGED running

-----------------------------------------------------------------------------
(* oneway_controllers:, its validation, and the image built from it.       *)

\* The block of build_oneway_adoption_report: a class only if one was observed, and no
\* node_id.  derive_oneway_node_id hashes the id: any address may come out.
ReportedEntry(rep, derived) ==
    [id |-> <<"adopted", rep.sender>>, node |-> derived, key |-> rep.key, manufacturer |-> rep.manufacturer,
     type |-> IF rep.type = UNKNOWN THEN Absent ELSE rep.type,
     enrollment |-> FALSE, enrollment_classes |-> {}, with_mac |-> FALSE, broadcast_all |-> FALSE]

\* As pasted, or with the class and the enrollment flag filled in.
FilledIn(e, type) == [e EXCEPT !.type = IF @ = Absent THEN type ELSE @, !.enrollment = TRUE]

ReportedEntries ==
    IF report = Nothing THEN {} ELSE
    {ReportedEntry(report, derived) : derived \in Addresses}
        \cup {FilledIn(ReportedEntry(report, derived), type) : derived \in Addresses, type \in {UNKNOWN, 2}}

\* An entry the user writes for the hub's own network, its node_id given or derived; no
\* enrollment_classes: stands for the sweep of the manufacturer, some narrow it.
WrittenEntry(node, m, classes) ==
    [id |-> <<"own", HubNode>>, node |-> node, key |-> HubKey, manufacturer |-> m, type |-> SWINGING_SHUTTER,
     enrollment |-> TRUE, enrollment_classes |-> classes, with_mac |-> classes # {}, broadcast_all |-> classes # {}]

WrittenEntries ==
    {WrittenEntry(node, m, classes) : node \in Addresses, m \in {Absent, VELUX}, classes \in {{}, {2}, {UNKNOWN}}}

\* Faulty variant: only the hub's own block is searched for the address.
ValidConfig_own_block(entries) ==
    /\ \A n \in DOMAIN entries : entries[n].type # Absent
    /\ \A m, n \in DOMAIN entries : m < n => entries[m].node # entries[n].node
    /\ \A n \in DOMAIN entries : entries[n].node # HubNode

\* The schema, _validate_oneway_controllers and _final_validate_oneway_controller_addresses.
ValidConfig(entries) ==
    /\ \A n \in DOMAIN entries :
        /\ entries[n].type # Absent
        /\ UNKNOWN \notin entries[n].enrollment_classes
        /\ entries[n].enrollment => entries[n].manufacturer # Absent
        /\ entries[n].node \notin Declared \cup {HubNode}
    /\ \A m, n \in DOMAIN entries : m < n =>
        entries[m].id # entries[n].id /\ entries[m].node # entries[n].node

oneway_controller(e) == [e EXCEPT !.manufacturer = IF @ = Absent THEN UNKNOWN ELSE @]

\* A boot leaves the switch ALWAYS_OFF and the listener's RAM clear.
Restart ==
    /\ Unarmed /\ timers' = {} /\ observed' = [node |-> HubNode, type |-> UNKNOWN]
    /\ UNCHANGED <<report, age, overheard, running>>

\* Compile and flash, which ends in a boot: an invalid configuration is refused.
Flash ==
    /\ timers = {}
    /\ \E size \in 0 .. MaxEntries : \E entries \in [1 .. size -> WrittenEntries \cup ReportedEntries] :
        /\ ValidConfig(entries)
        /\ running' = {oneway_controller(entries[n]) : n \in 1 .. size}
    /\ UNCHANGED hub

AdoptionInit ==
    /\ armed = FALSE /\ timers = {} /\ shown = FALSE
    /\ observed = [node |-> HubNode, type |-> UNKNOWN]
    /\ report = Nothing /\ running = {}
    /\ age = 0 /\ overheard = {}

Listening == TurnOn \/ TurnOff \/ Tick

AdoptionNext == (Listening /\ UNCHANGED running) \/ RemoteSends \/ Restart \/ Flash

AdoptionSpec == AdoptionInit /\ [][AdoptionNext]_adoptionVars

-----------------------------------------------------------------------------
(* The switch tells the truth, the window is ten minutes from the last     *)
(* time it was turned on, and only its end, the user, a reboot or an       *)
(* adoption closes it - one adoption per arming.                           *)
WindowHolds ==
    [][/\ armed' => shown' /\ age' < Window
       /\ armed /\ ~armed' => age' = Window \/ TurnOff \/ Restart \/ (RemoteSends /\ report' # Nothing)
       /\ report' # report => armed /\ ~armed']_adoptionVars

(* A report that says the MAC verified carries the sender's own key, and   *)
(* the class it prefills was named by that sender since the switch was     *)
(* turned on.                                                              *)
ReportIsTrue ==
    report # Nothing =>
        /\ report.mac = "VERIFIED" => \E r \in Remotes : r.addr = report.sender /\ r.key = report.key
        /\ report.type # UNKNOWN => <<report.sender, report.type>> \in report.witnessed

(* The hub speaks under addresses of its own: never its 2W address, one    *)
(* the configuration knows, or one two identities would share a sequence   *)
(* counter under - whatever the derivation yields - and its frames arrive  *)
(* as they were built.                                                     *)
OwnVoice ==
    \A i \in running :
        /\ i.node \notin Declared \cup {HubNode}
        /\ \A j \in running : j.node = i.node => j = i
        /\ \A f \in SentAs(i) :
            /\ Received(f) = f
            /\ broadcast_target_type(f.dst) \in {UNKNOWN, i.type} \cup effective_enrollment_classes(i)

=============================================================================
