---------------------------- MODULE FirmwareUpdate -----------------------------
(***************************************************************************)
(* Flashing the LR1121 transceiver (hub_lr1121_firmware_update.cpp): what  *)
(* setup() learns about the chip, the button and its verdicts, the flash   *)
(* sequence and the three-stage bootloader rewrite, with BUSY timeouts and *)
(* power loss at every step.                                               *)
(*                                                                         *)
(* The chip is external.  It outlives a restart of the ESP32, boots the    *)
(* image in its flash if its bootloader accepts it, and otherwise stays in *)
(* the bootloader, which the BUSY strap also reaches.  A sequence blocks   *)
(* loop(): only power loss comes between its steps.                        *)
(***************************************************************************)
EXTENDS Integers

CONSTANTS
    Versions,           \* transceiver versions there are, 0 = not given
    Requirements        \* LR1121_KNOWN_BOOTLOADER_REQUIREMENTS: version -> bootloader

\* Bootloader versions (lr1121_firmware_decisions.h), in decimal digits; Writing and
\* Broken stand for a bootloader in the middle of 0x8100 and one that was interrupted.
BL2100 == 2100
BL2101 == 2101
BL2001 == 2001
Writing == -1
Broken == -2

\* GetVersion `type` bytes.
LR1121 == 3
LR1120 == 2
LOADER_TYPE == 222
BOOTLOADER_TYPE == 223

ASSUME FirmwareAssumption ==
    /\ Versions \subseteq Nat /\ 0 \in Versions
    /\ Requirements \in [DOMAIN Requirements -> {BL2100, BL2101}] /\ DOMAIN Requirements \subseteq Versions \ {0}

VARIABLES
    build,      \* what the YAML configured: target version, the image itself, bootloader: block
    chip,       \* external: family, bootloader, image, mode, configured by init()
    hub,        \* lr1121_... members of the hub, lost on restart
    pc          \* where setup(), the loop or a sequence is

vars == <<build, chip, hub, pc>>

Image(kind, version) == [kind |-> kind, version |-> version]
NoImage == Image("none", 0)
Loader == Image("loader", BL2100)

-----------------------------------------------------------------------------
(* The build (lr1121_firmware.py).                                         *)

\* LR1121_KNOWN_BOOTLOADER_REQUIREMENTS, 0 when the target is not in it.
lr1121_required_bootloader_for(v) == IF v \in DOMAIN Requirements THEN Requirements[v] ELSE 0

\* resolve_target_version: the configured version, else the one in the file name, else 0.
resolve_target_version(named, configured) == IF configured # 0 THEN configured ELSE named

classify_bootloader_upgrade_class(v) ==
    CASE lr1121_required_bootloader_for(v) = 0 -> "unknown"
      [] lr1121_required_bootloader_for(v) = BL2101 -> "accept"
      [] OTHER -> "hard_error"

\* Files are named for what is in them; one whose name tells nothing may hold any version.
Builds ==
    {b \in [target : Versions, image : {Image("transceiver", v) : v \in Versions \ {0}}, block : BOOLEAN] :
        /\ b.block => classify_bootloader_upgrade_class(b.target) # "hard_error"
        /\ \E named \in {0, b.image.version}, configured \in Versions :
             b.target = resolve_target_version(named, configured)}

-----------------------------------------------------------------------------
(* The chip (external, as the driver and the updater use it).              *)

Accepts(c) ==
    \/ c.image.kind = "loader" /\ c.bl = BL2100
    \/ c.image.kind = "transceiver" /\ lr1121_required_bootloader_for(c.image.version) \in {0, c.bl}
    \/ c.image.kind = "transceiver" /\ c.family = LR1120

\* A rewrite that was cut short leaves any of three bootloaders behind.
Settled(c) == IF c.bl = Writing THEN {[c EXCEPT !.bl = b] : b \in {BL2100, BL2101, Broken}} ELSE {c}

Booted(c) == [c EXCEPT !.mode = IF Accepts(c) THEN "image" ELSE "bootloader", !.configured = FALSE]
Resets(c) == {Booted(d) : d \in Settled(c)}
Straps(c) == {[d EXCEPT !.mode = "bootloader", !.configured = FALSE] : d \in Settled(c)}

\* enter_bootloader pulses RST with BUSY strapped: a chip that misses the strap boots its image.
Entered(c) == Straps(c) \cup Resets(c)

\* A reboot command that was sent need not have been acted on.
Rebooted(c) == {c, Booted(c)}

Answers(c) == c.bl \notin {Broken, Writing}
GetVersion(c) ==
    IF c.mode = "bootloader" THEN [type |-> BOOTLOADER_TYPE, version |-> c.bl]
    ELSE IF c.image.kind = "loader" THEN [type |-> LOADER_TYPE, version |-> BL2100]
    ELSE [type |-> c.family, version |-> c.image.version]

-----------------------------------------------------------------------------
(* The decisions (lr1121_firmware_decisions.h).                            *)

lr1121_bootloader_is_lr1121(b) == b \in {BL2100, BL2101}

Supports(target, b) ==
    CASE lr1121_required_bootloader_for(target) = 0 -> "UNKNOWN_TARGET"
      [] lr1121_required_bootloader_for(target) = b -> "SUPPORTED"
      [] OTHER -> "UNSUPPORTED"

\* Faulty variant: the normal-mode type is judged before it is known to have been read.
lr1121_flash_decision_unread(device_type, bl_type, bl, installed, target) ==
    IF bl = 0 THEN "NEEDS_CONFIRMATION"
    ELSE IF bl_type # BOOTLOADER_TYPE \/ ~lr1121_bootloader_is_lr1121(bl) THEN "REJECT_WRONG_CHIP"
    ELSE IF device_type # LR1121 THEN "REJECT_WRONG_CHIP"
    ELSE IF Supports(target, bl) = "UNSUPPORTED" THEN "REJECT_BOOTLOADER_TOO_OLD" ELSE "NEEDS_CONFIRMATION"

\* lr1121_flash_decision, whose layers are tried in this order.
lr1121_flash_decision(device_type, bl_type, bl, installed, target) ==
    IF bl = 0 THEN "NEEDS_CONFIRMATION"
    ELSE IF bl_type # BOOTLOADER_TYPE \/ ~lr1121_bootloader_is_lr1121(bl) THEN "REJECT_WRONG_CHIP"
    ELSE IF device_type = 0 THEN "NEEDS_CONFIRMATION"
    ELSE IF device_type # LR1121 THEN "REJECT_WRONG_CHIP"
    ELSE IF Supports(target, bl) = "UNSUPPORTED" THEN "REJECT_BOOTLOADER_TOO_OLD"
    ELSE IF Supports(target, bl) = "UNKNOWN_TARGET" \/ installed = 0 THEN "NEEDS_CONFIRMATION"
    ELSE IF target = installed THEN "ALREADY_INSTALLED"
    ELSE IF target > installed THEN "PROCEED" ELSE "NEEDS_CONFIRMATION"

\* lr1121_bootloader_upgrade_path = AVAILABLE; the other outcomes differ in their message only.
UpgradeAvailable(block, known, bl, target) ==
    /\ block /\ known /\ lr1121_bootloader_is_lr1121(bl) /\ bl = Loader.version
    /\ lr1121_required_bootloader_for(target) > bl

\* Faulty variant: a bootloader that boot could not read is adopted unseen.
lr1121_check_bootloader_sanity_adopts(known, known_bl, type, bl) ==
    type = BOOTLOADER_TYPE /\ (known => bl = known_bl)

\* lr1121_check_bootloader_sanity = OK
lr1121_check_bootloader_sanity(known, known_bl, type, bl) ==
    /\ type = BOOTLOADER_TYPE
    /\ IF known THEN bl = known_bl ELSE lr1121_bootloader_is_lr1121(bl)

-----------------------------------------------------------------------------
(* setup()                                                                 *)

Fresh == [updater |-> FALSE, known |-> FALSE, type |-> 0, bl |-> 0, verdict_known |-> FALSE,
          verdict |-> "NEEDS_CONFIRMATION", initialized |-> FALSE, armed |-> FALSE, allowed |-> FALSE]

Init ==
    /\ build \in Builds
    /\ chip \in {[family |-> f, bl |-> b, image |-> Image("transceiver", v), mode |-> "image", configured |-> FALSE] :
                   f \in {LR1121, LR1120}, b \in {BL2100, BL2101, BL2001}, v \in Versions \ {0}}
    /\ (chip.family = LR1120) = (chip.bl = BL2001)
    /\ Accepts(chip)
    /\ hub = Fresh /\ pc = "boot"

\* run_lr1121_boot_time_bootloader_read_
BootTimeBootloaderRead ==
    /\ pc = "boot" /\ pc' = "init" /\ UNCHANGED build
    /\ \/ hub' = Fresh /\ UNCHANGED chip            \* no memory for the updater
       \/ \E c \in Entered(chip) :
            \/ hub' = [Fresh EXCEPT !.updater = TRUE] /\ chip' = c      \* BUSY timeout
            \/ /\ Answers(c)
               /\ hub' = [Fresh EXCEPT !.updater = TRUE, !.known = TRUE, !.type = GetVersion(c).type, !.bl = GetVersion(c).version]
               /\ chip' \in Rebooted(c)             \* reboot(false), which may also time out

\* cache_lr1121_flash_verdict_
cache_lr1121_flash_verdict(h, device_type, installed) ==
    [h EXCEPT !.verdict_known = TRUE,
              !.verdict = lr1121_flash_decision(device_type, h.type, h.bl, installed, build.target)]

\* radio_->init() and the verdict after it; the version read may time out as well.
RadioInit ==
    /\ pc = "init" /\ pc' = "idle" /\ UNCHANGED build
    /\ \E c \in Resets(chip) :
         \/ /\ Answers(c) /\ GetVersion(c).type = LR1121
            /\ chip' = [c EXCEPT !.configured = TRUE]
            /\ \E v \in {[type |-> 0, version |-> 0]} \cup (IF hub.updater THEN {GetVersion(c)} ELSE {}) :
                 hub' = [cache_lr1121_flash_verdict(hub, v.type, v.version) EXCEPT !.initialized = TRUE]
         \/ chip' = c /\ hub' = cache_lr1121_flash_verdict(hub, 0, 0)

-----------------------------------------------------------------------------
(* The button, its confirmation window and the arming switch.              *)

Sequence(first, h) == pc' = first /\ hub' = h
Refused == UNCHANGED <<hub, pc>>

\* trigger_lr1121_firmware_update
Press ==
    /\ pc = "idle" /\ hub.updater /\ hub.verdict_known /\ UNCHANGED <<build, chip>>
    /\ IF hub.verdict = "REJECT_WRONG_CHIP" THEN Refused
       ELSE IF hub.verdict = "REJECT_BOOTLOADER_TOO_OLD"
       THEN IF UpgradeAvailable(build.block, hub.known, hub.bl, build.target) /\ hub.allowed
            THEN Sequence("1a enter", hub) ELSE Refused
       ELSE IF hub.verdict = "PROCEED" \/ hub.armed THEN Sequence("enter", [hub EXCEPT !.armed = FALSE])
       ELSE hub' = [hub EXCEPT !.armed = TRUE] /\ UNCHANGED pc

\* arm_lr1121_flash_confirmation_: sixty seconds without a second press.
ConfirmationExpires ==
    pc = "idle" /\ hub.armed /\ hub' = [hub EXCEPT !.armed = FALSE] /\ UNCHANGED <<build, chip, pc>>

set_bootloader_rewrite_allowed(on) ==
    /\ pc = "idle" /\ build.block /\ on # hub.allowed
    /\ hub' = [hub EXCEPT !.allowed = on] /\ UNCHANGED <<build, chip, pc>>

-----------------------------------------------------------------------------
(* Steps the sequences share.  safe_reboot restarts the ESP32, not the chip.*)

safe_reboot == pc' = "boot" /\ hub' = Fresh

\* Faulty variant: an aborted sequence returns to the loop.
Abort_returns == pc' = "idle" /\ UNCHANGED hub

Abort == safe_reboot

\* enter_bootloader and the check of what it read.
Enter(at, Sane(_), next) ==
    /\ pc = at /\ UNCHANGED build
    /\ \E c \in Entered(chip) :
         \/ chip' = c /\ Abort                      \* not confirmed in time
         \/ /\ Answers(c) /\ Sane(GetVersion(c)) /\ chip' = c /\ pc' = next
            /\ hub' = [hub EXCEPT !.known = TRUE, !.type = GetVersion(c).type, !.bl = GetVersion(c).version]
         \/ Answers(c) /\ ~Sane(GetVersion(c)) /\ chip' \in Rebooted(c) /\ Abort

EntrySane(v) == lr1121_check_bootloader_sanity(hub.known, hub.bl, v.type, v.version)

\* Flash commands are bootloader commands; a chip in another mode ignores them.
Flashed(image) == IF chip.mode = "bootloader" THEN [chip EXCEPT !.image = image] ELSE chip

\* erase_flash, then write_image chunk by chunk; nothing reads the flash back.
Erase(at, next) ==
    /\ pc = at /\ UNCHANGED build
    /\ \/ chip' = Flashed(NoImage) /\ pc' = next /\ UNCHANGED hub
       \/ chip' \in {chip, Flashed(NoImage)} /\ Abort

WriteImage(at, image, next) ==
    /\ pc = at /\ UNCHANGED build
    /\ \/ chip' = Flashed(Image("partial", image.version)) /\ UNCHANGED <<hub, pc>>     \* a chunk
       \/ chip' \in {Flashed(image), Flashed(Image("partial", image.version))} /\ pc' = next /\ UNCHANGED hub
       \/ UNCHANGED chip /\ Abort

\* reboot(false) and the version read back, which is only logged.
Finish(at) == pc = at /\ chip' \in Rebooted(chip) /\ safe_reboot /\ UNCHANGED build

\* run_lr1121_flash_sequence_
FlashSequence ==
    \/ Enter("enter", EntrySane, "erase")
    \/ Erase("erase", "write")
    \/ WriteImage("write", build.image, "finish")
    \/ Finish("finish")

-----------------------------------------------------------------------------
(* run_lr1121_bootloader_upgrade_sequence_                                 *)

Step(at, next) == pc = at /\ pc' = next /\ UNCHANGED <<build, hub>>

RebootIntoLoader ==
    \/ Step("1b reboot", "1b check") /\ chip' \in Rebooted(chip)
    \/ pc = "1b reboot" /\ Abort /\ UNCHANGED <<build, chip>>

\* Faulty variant: the checkpoint compares the version only.
Checkpoint_version(v) == v.version = Loader.version

Checkpoint(v) == v.type = LOADER_TYPE /\ v.version = Loader.version

LoaderCheckpoint ==
    \/ Step("1b check", "2 update") /\ Checkpoint(GetVersion(chip)) /\ UNCHANGED chip
    \/ pc = "1b check" /\ Abort /\ UNCHANGED <<build, chip>>        \* also: not read in time

\* 0x8100: accepted by the loader, or not; BUSY may outlast the wait.
UpdateBootloader ==
    \/ Step("2 update", "2 busy") /\ UNCHANGED chip
    \/ Step("2 update", "2 busy") /\ chip' = [chip EXCEPT !.bl = Writing]
    \/ pc = "2 update" /\ Abort /\ UNCHANGED <<build, chip>>

UpdateEnds ==
    \/ Step("2 busy", "2 verify") /\ chip' = [chip EXCEPT !.bl = IF @ = Writing THEN BL2101 ELSE @]
    \/ pc = "2 busy" /\ Abort /\ UNCHANGED <<build, chip>>

\* verify_bootloader.all_checks_passed
VerifyBootloader ==
    \/ Step("2 verify", "2 reboot") /\ chip.bl = BL2101 /\ UNCHANGED chip
    \/ pc = "2 verify" /\ Abort /\ UNCHANGED <<build, chip>>

\* updater_reboot: the new bootloader refuses the loader and stays; or the loader still runs.
RebootUpdater ==
    \/ Step("2 reboot", "2 read") /\ chip' \in Rebooted(chip)
    \/ pc = "2 reboot" /\ Abort /\ UNCHANGED <<build, chip>>

Is2101(v) == v.type = BOOTLOADER_TYPE /\ v.version = BL2101

ReadUpdatedVersion ==
    /\ pc = "2 read" /\ UNCHANGED <<build, chip>>
    /\ \/ /\ Is2101(GetVersion(chip)) /\ pc' = "3 enter"
          /\ hub' = [hub EXCEPT !.type = BOOTLOADER_TYPE, !.bl = BL2101]
       \/ Abort

RewriteSequence ==
    \/ Enter("1a enter", EntrySane, "1a erase")
    \/ Erase("1a erase", "1a write")
    \/ WriteImage("1a write", Loader, "1b reboot")
    \/ RebootIntoLoader \/ LoaderCheckpoint
    \/ UpdateBootloader \/ UpdateEnds \/ VerifyBootloader \/ RebootUpdater \/ ReadUpdatedVersion
    \/ Enter("3 enter", Is2101, "3 erase")
    \/ Erase("3 erase", "3 write")
    \/ WriteImage("3 write", build.image, "finish")

-----------------------------------------------------------------------------
(* Power loss and restart, at any moment.                                  *)

PowerLoss == chip' \in Resets(chip) /\ safe_reboot /\ UNCHANGED build
Restart == pc = "idle" /\ safe_reboot /\ UNCHANGED <<build, chip>>

Next ==
    \/ BootTimeBootloaderRead \/ RadioInit
    \/ Press \/ ConfirmationExpires \/ \E on \in BOOLEAN : set_bootloader_rewrite_allowed(on)
    \/ FlashSequence \/ RewriteSequence
    \/ PowerLoss \/ Restart

Spec == Init /\ [][Next]_vars

-----------------------------------------------------------------------------
(* Properties.                                                             *)

\* The image of a chip that is no LR1121 is never touched, whatever could be read of it
\* and whenever the power fails.
OnlyLR1121Flashed == chip.family = LR1120 => chip.image.kind = "transceiver" /\ Accepts(chip)

\* A hub that is set up and not flashing has a radio that init() configured: no path out of
\* a bootloader excursion leaves one that answers but does not work.
NeverSilentlyDeaf == (pc = "idle" /\ hub.initialized) => chip.configured

\* 0x8100 starts only with the switch on, for a target known to need the new bootloader, on
\* a chip that runs the loader on the old one - however often earlier attempts were cut short.
RewriteGuarded ==
    [][(chip'.bl = Writing /\ chip.bl # Writing) =>
         /\ hub.allowed /\ build.block /\ classify_bootloader_upgrade_class(build.target) = "accept"
         /\ chip.family = LR1121 /\ chip.bl = BL2100 /\ chip.mode = "image" /\ chip.image = Loader]_vars

\* After whatever failure of a flash, as long as the bootloader is whole, the button can
\* flash again: a dead radio is never taken for a wrong chip or a wrong bootloader.
ButtonRecovers ==
    (pc = "idle" /\ chip.family = LR1121 /\ Answers(chip) /\ ~Accepts(chip))
        => hub.verdict \notin {"REJECT_WRONG_CHIP", "REJECT_BOOTLOADER_TOO_OLD"}

=============================================================================
