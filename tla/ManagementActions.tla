-------------------------- MODULE ManagementActions ---------------------------
(***************************************************************************)
(* The Home Assistant actions of management_actions.cpp: rename with       *)
(* read-back, identify, force-open, 1W position and un-enrollment, the     *)
(* roll-call over three channels, single probes and sweeps.                *)
(*                                                                         *)
(* An action blocks loop() until its result is published; devices and      *)
(* other controllers (external) go on meanwhile.  An exchange keeps the    *)
(* contract of ExchangeEngine: it fails, is accepted without an answer, or *)
(* returns a frame the device sent to us - which need not be the answer    *)
(* to this request (classify_exchange_first_response checks only the       *)
(* endpoints).                                                             *)
(***************************************************************************)
EXTENDS Integers, FiniteSets

CONSTANTS
    Devices,                    \* registered devices
    Covers,                     \* those of them that accept cover commands
    Strangers,                  \* devices with our key that are not registered
    Controllers,                \* oneway_controllers identities
    Names,                      \* names that can be encoded
    Channels,                   \* SCAN_CHANNEL_COUNT
    SCAN_MAX_REPLIES,
    PROBE_SWEEP_MAX_INDICES,
    MaxByte,                    \* the largest index, 255 in the code
    IndexedProbes, PlainProbes  \* PROBE_TABLE by needs_index

ASSUME ManagementAssumption ==
    /\ Covers \subseteq Devices /\ Devices \cap Strangers = {}
    /\ {Channels, SCAN_MAX_REPLIES, PROBE_SWEEP_MAX_INDICES, MaxByte} \subseteq Nat \ {0}
    /\ IndexedProbes \cap PlainProbes = {}

VARIABLES
    initialized, probes_enabled,    \* hub set-up, fixed by the configuration
    registry,                       \* cached name and movement of the devices
    actual,                         \* external: their name and movement
    job,                            \* the action under way
    result,                         \* the last result published
    queued,                         \* what the last action handed to the queue
    hist                            \* history of the action under way

config == <<initialized, probes_enabled>>
actionVars == <<config, registry, actual, job, result, queued, hist>>

Idle == [action |-> "none"]
NoResult == [action |-> "none", success |-> FALSE, verified |-> FALSE, code |-> FALSE]
Result(a, s) == [NoResult EXCEPT !.action = a, !.success = s]
FreshHistory == [cached |-> "", had |-> "", probed |-> {}, answered |-> {}]

ActionsInit ==
    /\ initialized \in BOOLEAN /\ probes_enabled \in BOOLEAN
    /\ actual \in [Devices -> [name : Names, moving : {FALSE}]]
    /\ registry = [d \in Devices |-> [name |-> "", moving |-> FALSE]]
    /\ job = Idle /\ result = NoResult /\ queued = "nothing" /\ hist = FreshHistory

-----------------------------------------------------------------------------
(* Every action ends in publish_result.                                    *)

publish_result(res) == result' = res /\ job' = Idle

Unsent == queued' = "nothing" /\ hist' = FreshHistory /\ UNCHANGED <<registry, actual>>
Refuse(action) == publish_result(Result(action, FALSE)) /\ Unsent

StartJob(j) == job' = j /\ result' = NoResult /\ queued' = "nothing" /\ UNCHANGED <<registry, actual>>

\* resolve_device_: the hub is set up, the ID is well-formed and registered.
resolve_device(id) == initialized /\ id \in Devices

\* register_actions: the probe actions exist only where probes are enabled.
Registered(diagnostic_only) == diagnostic_only => probes_enabled

Call == job = Idle /\ UNCHANGED config

-----------------------------------------------------------------------------
(* send_and_receive to device d, with the frames that may end it.  Whether *)
(* or not an answer arrives the request may have been carried out, in this *)
(* try or an earlier one.                                                  *)

Outcomes(answer) == {"FAILED", "SUCCESS_UNCONFIRMED", answer, "ERROR_RESP", "EMPTY_ERROR_RESP", "other frame"}

\* send_authenticated_request_
Answered(o) == o \notin {"FAILED", "SUCCESS_UNCONFIRMED"}
IsError(o) == o \in {"ERROR_RESP", "EMPTY_ERROR_RESP"}

\* apply_error_response
apply_error_response(o, res) == [res EXCEPT !.code = (o = "ERROR_RESP")]

-----------------------------------------------------------------------------
(* rename_device                                                           *)

ApiRename(id, name) ==
    /\ Call
    /\ IF resolve_device(id) /\ name \in Names
       THEN /\ StartJob([action |-> "rename", d |-> id, name |-> name, step |-> "request"])
            /\ hist' = [FreshHistory EXCEPT !.cached = registry[id].name]
       ELSE Refuse("rename")

RenameRequest ==
    /\ job.action = "rename" /\ job.step = "request"
    /\ \E o \in Outcomes("SET_NAME_RESP"), done \in BOOLEAN :
         /\ o = "SET_NAME_RESP" => done
         /\ actual' = IF done THEN [actual EXCEPT ![job.d].name = job.name] ELSE actual
         /\ CASE o = "SET_NAME_RESP" -> job' = [job EXCEPT !.step = "readback"] /\ UNCHANGED result
              [] IsError(o) -> publish_result(apply_error_response(o, Result("rename", FALSE)))
              [] OTHER -> publish_result(Result("rename", FALSE))
    /\ UNCHANGED <<registry, queued, hist>>

\* request_device_name: any frame of the device that is no error counts as read back; only
\* a name response changes the cached name.
ReadBack(d, o) ==
    registry' = IF o = "GET_NAME_RESP" THEN [registry EXCEPT ![d].name = actual[d].name] ELSE registry

\* Faulty variant: the acknowledgement is taken for a verification.
Verified_acknowledged(o, cached, name) == TRUE

Verified(o, cached, name) == Answered(o) /\ ~IsError(o) /\ cached = name

RenameReadback ==
    /\ job.action = "rename" /\ job.step = "readback"
    /\ \E o \in Outcomes("GET_NAME_RESP") :
         /\ ReadBack(job.d, o)
         /\ publish_result([action |-> "rename", success |-> TRUE, code |-> FALSE, name |-> job.name,
                            verified |-> Verified(o, registry'[job.d].name, job.name)])
         /\ hist' = [hist EXCEPT !.had = actual[job.d].name]
    /\ UNCHANGED <<actual, queued>>

-----------------------------------------------------------------------------
(* identify_device, force_open_device and the 1W actions                   *)

ApiIdentify(id) ==
    /\ Call
    /\ IF resolve_device(id)
       THEN \E o \in Outcomes("other frame") :
              /\ publish_result(IF IsError(o) THEN apply_error_response(o, Result("identify", TRUE))
                                ELSE Result("identify", Answered(o)))
              /\ Unsent
       ELSE Refuse("identify")

Queue(action, op) == publish_result(Result(action, TRUE)) /\ queued' = op /\ hist' = FreshHistory /\ UNCHANGED <<registry, actual>>

ApiForceOpen(id) ==
    /\ Call
    /\ IF resolve_device(id) /\ id \in Covers THEN Queue("force_open", "FORCE_OPEN") ELSE Refuse("force_open")

ApiOnewayPosition(c, position) ==
    /\ Call
    /\ IF c \in Controllers /\ position \in 0 .. 100
       THEN Queue("oneway_set_position", position) ELSE Refuse("oneway_set_position")

ApiOnewayRemove(c) ==
    /\ Call
    /\ IF c \in Controllers THEN Queue("oneway_remove_controller", "unenroll") ELSE Refuse("oneway_remove_controller")

-----------------------------------------------------------------------------
(* scan_paired_devices                                                     *)

ApiScan ==
    /\ Call
    /\ IF initialized
       THEN /\ StartJob([action |-> "scan", attempt |-> 1, responders |-> {}, truncated |-> FALSE])
            /\ hist' = FreshHistory
       ELSE Refuse("scan")

\* Faulty variant: the capacity is looked at first, so a repeated reply counts as one too many.
add_scan_responder_full_first(j, x) ==
    IF Cardinality(j.responders) >= SCAN_MAX_REPLIES THEN [j EXCEPT !.truncated = TRUE]
    ELSE IF x \in j.responders THEN j ELSE [j EXCEPT !.responders = @ \cup {x}]

\* add_scan_responder and the handler around it.
add_scan_responder(j, x) ==
    CASE x \in j.responders -> j
      [] x \notin j.responders /\ Cardinality(j.responders) >= SCAN_MAX_REPLIES -> [j EXCEPT !.truncated = TRUE]
      [] OTHER -> [j EXCEPT !.responders = @ \cup {x}]

\* collect_broadcast_responses hands over every reply of the window, repeated ones too.
ScanReply(x) ==
    /\ job.action = "scan"
    /\ job' = add_scan_responder(job, x)
    /\ hist' = [hist EXCEPT !.answered = @ \cup {x}]
    /\ UNCHANGED <<registry, actual, result, queued>>

ScanWindowEnds ==
    /\ job.action = "scan" /\ UNCHANGED <<registry, actual, queued, hist>>
    /\ IF job.attempt < Channels
       THEN job' = [job EXCEPT !.attempt = @ + 1] /\ UNCHANGED result
       ELSE publish_result([action |-> "scan", success |-> TRUE, verified |-> FALSE, code |-> FALSE,
                            known |-> job.responders \cap Devices, unknown |-> job.responders \ Devices,
                            truncated |-> job.truncated])

-----------------------------------------------------------------------------
(* probe_device and probe_sweep                                            *)

\* parse_probe_index: {} for text that is no byte.
parse_probe_index(text) == IF text \in 0 .. MaxByte THEN {text} ELSE {}

\* probe_device up to the exchange: why it sends nothing, if it does not.
terminal_refusal(d) == ~probes_enabled \/ registry[d].moving
find_probe_descriptor(probe) == probe \in IndexedProbes \cup PlainProbes

ProbeAnswered(o) == IF IsError(o) THEN apply_error_response(o, Result("probe", TRUE)) ELSE Result("probe", Answered(o))

ApiProbe(id, probe, text) ==
    /\ Call /\ Registered(TRUE)
    /\ IF /\ resolve_device(id) /\ ~terminal_refusal(id) /\ find_probe_descriptor(probe)
          /\ probe \in IndexedProbes => parse_probe_index(text) # {}
       THEN \E o \in Outcomes("other frame") : publish_result(ProbeAnswered(o)) /\ Unsent
       ELSE Refuse("probe")

\* The range checks of probe_sweep.
SweepRange(first, last) == last >= first /\ last - first + 1 <= PROBE_SWEEP_MAX_INDICES

ApiSweep(id, probe, first, last) ==
    /\ Call /\ Registered(TRUE)
    /\ IF /\ resolve_device(id) /\ probe \in IndexedProbes
          /\ {first, last} \subseteq 0 .. MaxByte /\ SweepRange(first, last)
       THEN /\ StartJob([action |-> "sweep", d |-> id, first |-> first, last |-> last, idx |-> first])
            /\ hist' = FreshHistory
       ELSE Refuse("sweep")

NextIndex(i) == i + 1

\* One index: refused for good, or asked, whatever comes back.
SweepStep ==
    /\ job.action = "sweep" /\ job.idx <= job.last
    /\ UNCHANGED <<registry, actual, queued>>
    /\ IF terminal_refusal(job.d)
       THEN publish_result(Result("sweep", FALSE)) /\ UNCHANGED hist
       ELSE /\ job' = [job EXCEPT !.idx = NextIndex(@)]
            /\ hist' = [hist EXCEPT !.probed = @ \cup {job.idx}]
            /\ UNCHANGED result

SweepEnds ==
    /\ job.action = "sweep" /\ job.idx > job.last
    /\ publish_result([action |-> "sweep", success |-> TRUE, verified |-> FALSE, code |-> FALSE,
                       first |-> job.first, last |-> job.last])
    /\ UNCHANGED <<registry, actual, queued, hist>>

-----------------------------------------------------------------------------
(* The world, and what loop() learns of it between actions.                *)

OtherControllerRenames(d, name) ==
    /\ actual' = [actual EXCEPT ![d].name = name]
    /\ UNCHANGED <<registry, job, result, queued, hist>>

DeviceMoves(d) ==
    /\ actual' = [actual EXCEPT ![d].moving = ~@]
    /\ UNCHANGED <<registry, job, result, queued, hist>>

StatusHeard(d) ==
    /\ job = Idle /\ UNCHANGED <<actual, job, result, queued, hist>>
    /\ registry' \in {[registry EXCEPT ![d].moving = actual[d].moving], [registry EXCEPT ![d].name = actual[d].name]}

World == UNCHANGED config /\ \E d \in Devices :
    (\E n \in Names : OtherControllerRenames(d, n)) \/ DeviceMoves(d) \/ StatusHeard(d)

Ids == Devices \cup {"unregistered"}
Calls ==
    \/ \E id \in Ids : ApiIdentify(id) \/ ApiForceOpen(id) \/ \E n \in Names \cup {"unencodable"} : ApiRename(id, n)
    \/ \E c \in Controllers \cup {"unknown"} : ApiOnewayRemove(c) \/ \E p \in {0, 100, 101} : ApiOnewayPosition(c, p)
    \/ ApiScan
    \/ \E id \in Ids, probe \in IndexedProbes \cup PlainProbes \cup {"unknown probe"}, i \in 0 .. MaxByte + 1 :
         ApiProbe(id, probe, i) \/ \E k \in 0 .. MaxByte : ApiSweep(id, probe, i, k)

Proceeds == UNCHANGED config /\ (RenameRequest \/ RenameReadback \/ ScanWindowEnds \/ SweepStep \/ SweepEnds)
Replies == UNCHANGED config /\ \E x \in Devices \cup Strangers : ScanReply(x)

ActionsNext == Calls \/ Proceeds \/ Replies \/ World
ActionsSpec == ActionsInit /\ [][ActionsNext]_actionVars

-----------------------------------------------------------------------------
(* Properties.                                                             *)

\* A rename is reported as verified only if the device had the new name when it was read
\* back - lost answers, frames of other exchanges and other controllers notwithstanding -
\* provided the hub did not have that name for the device before.
RenameHonest ==
    (result.action = "rename" /\ result.verified /\ job = Idle /\ hist.cached # result.name)
        => hist.had = result.name

\* The roll-call reports every device that answered exactly once, whatever channels and
\* however often it answered on, as known or unknown; if they are too many for the list it
\* says so, and it says so only then.  A sweep asks the indices of its range in turn and no
\* others - up to the largest index there is - and claims success only for all of them.
ReportsTrue ==
    /\ (result.action = "scan" /\ result.success /\ job = Idle) =>
           LET listed == result.known \cup result.unknown
           IN  /\ listed \subseteq hist.answered /\ result.known \cap result.unknown = {}
               /\ IF result.truncated
                  THEN Cardinality(listed) = SCAN_MAX_REPLIES /\ listed # hist.answered
                  ELSE listed = hist.answered
    /\ job.action = "sweep" => hist.probed = job.first .. (job.idx - 1) /\ job.idx - 1 <= job.last
    /\ (result.action = "sweep" /\ result.success /\ job = Idle) => hist.probed = result.first .. result.last

=============================================================================
