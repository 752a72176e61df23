------------------------- MODULE FirmwareUpdate_proofs --------------------------
(***************************************************************************)
(* Proofs that flashing touches nothing but an LR1121, that 0x8100 is sent *)
(* only where it may be, that no path leaves a deaf radio behind and that  *)
(* the button can always flash again, for every compatibility table and    *)
(* every set of versions.                                                  *)
(***************************************************************************)
EXTENDS FirmwareUpdate, TLAPS

Images == [kind : {"transceiver"}, version : Nat \ {0}] \cup [kind : {"partial", "none"}, version : Nat] \cup {Loader}
Bootloaders == {BL2100, BL2101, BL2001}
Chips == [family : {LR1121, LR1120}, bl : Bootloaders \cup {Writing, Broken}, image : Images,
          mode : {"image", "bootloader"}, configured : BOOLEAN]

Verdicts == {"NEEDS_CONFIRMATION", "REJECT_WRONG_CHIP", "REJECT_BOOTLOADER_TOO_OLD", "ALREADY_INSTALLED", "PROCEED"}

Hubs == [updater : BOOLEAN, known : BOOLEAN, type : Nat, bl : Nat, verdict_known : BOOLEAN, verdict : Verdicts,
         initialized : BOOLEAN, armed : BOOLEAN, allowed : BOOLEAN]

Waiting == {"boot", "init", "idle", "finish"}
Entering == {"enter", "1a enter"}
Checked == {"1b check", "2 update"}
BeforeRewrite == {"1a enter", "1a erase", "1a write", "1b reboot"} \cup Checked
Flashing == {"erase", "write", "1a erase", "1a write", "1b reboot", "2 busy", "2 verify", "2 reboot", "2 read",
             "3 enter", "3 erase", "3 write"} \cup Checked

TypeInv ==
    /\ build \in Builds /\ chip \in Chips
    /\ hub \in Hubs
    /\ pc \in Waiting \cup Entering \cup Flashing

\* The other family keeps its own bootloader and a whole image.
FamilyInv ==
    /\ chip.family = LR1120 => chip.bl = BL2001 /\ chip.image.kind = "transceiver"
    /\ chip.family = LR1121 => chip.bl # BL2001

\* enter_bootloader has missed the bootloader and read the image that runs instead.
Missed == hub.known /\ hub.type # BOOTLOADER_TYPE

\* What the hub has read of the bootloader, and the verdict it drew from it.
ReadInv ==
    /\ hub.bl = 0 \/ (hub.type = BOOTLOADER_TYPE /\ hub.bl \in Bootloaders) \/ Missed
    /\ hub.known => hub.bl # 0
    /\ Missed => pc \in {"init", "idle"} /\ chip.bl # Writing /\ Accepts(chip)
    /\ Missed /\ pc = "idle" => hub.verdict = "REJECT_WRONG_CHIP"
    /\ chip.family = LR1121 /\ hub.type = BOOTLOADER_TYPE => hub.bl # BL2001
    /\ chip.family = LR1120 /\ hub.known /\ hub.type = BOOTLOADER_TYPE => hub.bl = BL2001
    /\ chip.family = LR1120 /\ hub.known /\ hub.verdict_known => hub.verdict = "REJECT_WRONG_CHIP"
    /\ pc = "idle" /\ chip.family = LR1121 /\ hub.verdict \in {"REJECT_WRONG_CHIP", "REJECT_BOOTLOADER_TOO_OLD"}
         => Accepts(chip)

DeafInv ==
    /\ pc \in {"boot", "init"} => ~hub.initialized
    /\ pc = "idle" /\ hub.initialized => chip.configured

\* Only an LR1121 gets past the check of what enter_bootloader read.
FlashInv ==
    /\ pc \in Entering /\ chip.family = LR1120 => ~hub.known
    /\ pc \in Flashing => chip.family = LR1121

\* Erasing and writing: the chip is in its bootloader.
Loading == {"erase", "write", "1a erase", "1a write", "1b reboot", "3 erase", "3 write"}

RewriteInv ==
    /\ pc \in Loading => chip.mode = "bootloader"
    /\ pc \in BeforeRewrite =>
         hub.allowed /\ build.block /\ classify_bootloader_upgrade_class(build.target) = "accept"
    /\ pc \in Checked /\ chip.mode = "image" => Accepts(chip)
    /\ pc = "2 update" => Checkpoint(GetVersion(chip))

IInv == TypeInv /\ FamilyInv /\ ReadInv /\ DeafInv /\ FlashInv /\ RewriteInv

-----------------------------------------------------------------------------
(* The chip.                                                               *)

LEMMA TwoFamilies == LR1121 # LR1120
  BY DEF LR1121, LR1120

LEMMA DistinctBootloaders == BL2101 # BL2001 /\ Writing # BL2001 /\ BL2101 \in Bootloaders /\ BL2101 # 0
  BY DEF BL2101, BL2001, Writing, Bootloaders

LEMMA BootloaderWritten ==
    ASSUME NEW c \in Chips, NEW b \in Bootloaders \cup {Writing, Broken}
    PROVE  /\ [c EXCEPT !.bl = b] \in Chips /\ [c EXCEPT !.bl = b].family = c.family /\ [c EXCEPT !.bl = b].bl = b
           /\ c.bl \in Bootloaders \cup {Writing, Broken}
  BY DEF Chips

\* A chip that was reset or strapped is the same one, with a bootloader that is whole or broken.
LEMMA SettledChip ==
    ASSUME NEW c \in Chips, NEW d \in Settled(c)
    PROVE  /\ d \in Chips /\ d.family = c.family /\ d.image = c.image /\ d.mode = c.mode
           /\ d.configured = c.configured /\ d.bl # Writing
           /\ d.bl = c.bl \/ (c.bl = Writing /\ d.bl \in {BL2100, BL2101, Broken})
  BY DEF Settled, Chips, Bootloaders, Writing, Broken, BL2100, BL2101, BL2001

LEMMA BootedChip ==
    ASSUME NEW c \in Chips
    PROVE  /\ Booted(c) \in Chips /\ Booted(c).family = c.family /\ Booted(c).image = c.image /\ Booted(c).bl = c.bl
           /\ Booted(c).mode = "image" => Accepts(Booted(c))
           /\ Accepts(c) => Accepts(Booted(c))
  BY DEF Booted, Chips, Accepts

LEMMA StrappedChip ==
    ASSUME NEW c \in Chips, NEW d \in Straps(c)
    PROVE  /\ d \in Chips /\ d.family = c.family /\ d.image = c.image /\ d.mode = "bootloader" /\ d.bl # Writing
           /\ d.bl = c.bl \/ (c.bl = Writing /\ d.bl \in {BL2100, BL2101, Broken})
           /\ GetVersion(d) = [type |-> BOOTLOADER_TYPE, version |-> d.bl]
  <1>1. PICK e \in Settled(c) : d = [e EXCEPT !.mode = "bootloader", !.configured = FALSE]
    BY DEF Straps
  <1>2. QED
    BY <1>1, SettledChip DEF Chips, GetVersion

LEMMA ResetChip ==
    ASSUME NEW c \in Chips, NEW d \in Resets(c)
    PROVE  /\ d \in Chips /\ d.family = c.family /\ d.image = c.image /\ d.bl # Writing
           /\ d.bl = c.bl \/ (c.bl = Writing /\ d.bl \in {BL2100, BL2101, Broken})
           /\ d.mode = "image" => Accepts(d)
  <1>1. PICK e \in Settled(c) : d = Booted(e)
    BY DEF Resets
  <1>2. QED
    BY <1>1, SettledChip, BootedChip

\* So neither is taken for the other family.
LEMMA SameFamily ==
    ASSUME NEW c \in Chips, NEW d \in Resets(c) \cup Straps(c),
           c.family = LR1120 => c.bl = BL2001 /\ c.image.kind = "transceiver",
           c.family = LR1121 => c.bl # BL2001
    PROVE  /\ d.family = LR1120 => d.bl = BL2001 /\ d.image.kind = "transceiver"
           /\ d.family = LR1121 => d.bl # BL2001
  BY ResetChip, StrappedChip DEF BL2100, BL2101, BL2001, Writing, Broken

\* Only a bootloader that answers is read, and an answer names a bootloader.
LEMMA AnswerIsBootloader ==
    ASSUME NEW c \in Chips, Answers(c)
    PROVE  c.bl \in Bootloaders /\ c.bl \in Nat /\ c.bl # 0
  BY DEF Answers, Chips, Bootloaders, BL2100, BL2101, BL2001, Writing, Broken

\* GetVersion names the bootloader, or the image of a chip that runs one.
LEMMA Reading ==
    ASSUME NEW c \in Chips, Answers(c), c.mode = "image" => Accepts(c)
    PROVE  /\ GetVersion(c).type \in Nat /\ GetVersion(c).version \in Nat /\ GetVersion(c).version # 0
           /\ GetVersion(c).type = BOOTLOADER_TYPE => GetVersion(c).version = c.bl /\ c.bl \in Bootloaders
                                                     /\ c.mode = "bootloader"
           /\ GetVersion(c).type # BOOTLOADER_TYPE => Accepts(c)
  <1>1. c.bl \in Bootloaders /\ c.bl \in Nat /\ c.bl # 0
    BY AnswerIsBootloader
  <1>2. c.mode \in {"image", "bootloader"} /\ c.family \in {LR1121, LR1120} /\ c.image \in Images
    BY DEF Chips
  <1>3. CASE c.mode = "bootloader"
    BY <1>1, <1>3 DEF GetVersion, BOOTLOADER_TYPE
  <1>4. CASE c.mode = "image" /\ c.image.kind = "loader"
    BY <1>4 DEF GetVersion, LOADER_TYPE, BOOTLOADER_TYPE, BL2100
  <1>5. CASE c.mode = "image" /\ c.image.kind # "loader"
    <2>1. GetVersion(c) = [type |-> c.family, version |-> c.image.version]
      BY <1>5 DEF GetVersion
    <2>2. c.image.kind = "transceiver"
      BY <1>5 DEF Accepts
    <2>3. c.image.version \in Nat /\ c.image.version # 0
      BY <1>2, <2>2 DEF Images, Loader, Image
    <2>4. QED
      BY <1>2, <1>5, <2>1, <2>3 DEF LR1121, LR1120, BOOTLOADER_TYPE
  <1>6. QED
    BY <1>2, <1>3, <1>4, <1>5

\* The transceiver's own type byte is its family's, and it is read in image mode only.
LEMMA ReadsLR1121 ==
    ASSUME NEW c \in Chips, GetVersion(c).type = LR1121
    PROVE  c.family = LR1121 /\ c.mode = "image" /\ GetVersion(c).version \in Nat
  <1>1. c.mode # "bootloader" /\ c.image.kind # "loader"
    BY DEF GetVersion, LR1121, BOOTLOADER_TYPE, LOADER_TYPE
  <1>2. GetVersion(c) = [type |-> c.family, version |-> c.image.version]
    BY <1>1 DEF GetVersion
  <1>3. c.image \in Images /\ c.mode \in {"image", "bootloader"}
    BY DEF Chips
  <1>4. c.image.version \in Nat
    BY <1>3 DEF Images, Loader, Image, BL2100
  <1>5. QED
    BY <1>1, <1>2, <1>3, <1>4

\* A checkpoint passed in the loader's image leaves the chip running it, on the old bootloader.
LEMMA CheckpointIsLoader ==
    ASSUME NEW c \in Chips, Checkpoint(GetVersion(c)), c.mode = "image" => Accepts(c)
    PROVE  c.mode = "image" /\ c.image = Loader /\ c.bl = BL2100
  <1>1. c.mode = "image" /\ c.image.kind = "loader"
    BY DEF Checkpoint, GetVersion, Chips, LR1121, LR1120, BOOTLOADER_TYPE, LOADER_TYPE
  <1>2. c.image = Loader
    BY <1>1 DEF Chips, Images
  <1>3. QED
    BY <1>1, <1>2 DEF Accepts

-----------------------------------------------------------------------------
(* The decisions.                                                          *)

\* The table gives a bootloader or nothing, and a build has an image of the given versions.
LEMMA BuildFacts ==
    ASSUME build \in Builds
    PROVE  /\ build.image.kind = "transceiver" /\ build.image \in Images /\ build.target \in Versions
           /\ build.target \in Nat /\ build.image.version \in Nat
           /\ build.block => classify_bootloader_upgrade_class(build.target) # "hard_error"
           /\ lr1121_required_bootloader_for(build.target) \in {0, BL2100, BL2101}
  BY FirmwareAssumption DEF Builds, Images, Image, lr1121_required_bootloader_for

\* No verdict but REJECT_WRONG_CHIP for a bootloader that is not an LR1121's.
LEMMA VerdictForeign ==
    ASSUME NEW t, NEW installed
    PROVE  lr1121_flash_decision(t, BOOTLOADER_TYPE, BL2001, installed, build.target) = "REJECT_WRONG_CHIP"
  BY DEF lr1121_flash_decision, lr1121_bootloader_is_lr1121, BL2001, BL2100, BL2101

\* With nothing read of the normal mode, the only rejection is for a foreign bootloader.
LEMMA VerdictUnread ==
    ASSUME NEW bl, bl \in {0, BL2100, BL2101}, NEW type, bl = 0 \/ type = BOOTLOADER_TYPE, NEW installed
    PROVE  lr1121_flash_decision(0, type, bl, installed, build.target) = "NEEDS_CONFIRMATION"
  BY DEF lr1121_flash_decision, lr1121_bootloader_is_lr1121, BL2001, BL2100, BL2101

\* What was read outside the bootloader is taken for a wrong chip.
LEMMA VerdictMissed ==
    ASSUME NEW t, NEW type, type # BOOTLOADER_TYPE, NEW bl, bl # 0, NEW installed
    PROVE  lr1121_flash_decision(t, type, bl, installed, build.target) = "REJECT_WRONG_CHIP"
  BY DEF lr1121_flash_decision

LEMMA VerdictType ==
    ASSUME NEW t, NEW type, NEW bl, NEW installed
    PROVE  lr1121_flash_decision(t, type, bl, installed, build.target) \in Verdicts
  BY DEF lr1121_flash_decision, Verdicts

-----------------------------------------------------------------------------
(* The hub.                                                                *)

LEMMA TypeByte == BOOTLOADER_TYPE \in Nat
  BY DEF BOOTLOADER_TYPE

LEMMA FreshHub ==
    /\ Fresh \in Hubs /\ Fresh.bl = 0 /\ ~Fresh.known /\ ~Fresh.verdict_known /\ ~Fresh.initialized
    /\ Fresh.verdict = "NEEDS_CONFIRMATION" /\ Fresh.type # BOOTLOADER_TYPE
  BY DEF Fresh, Hubs, Verdicts, BOOTLOADER_TYPE

LEMMA HubUpdater ==
    ASSUME NEW h \in Hubs, NEW u \in BOOLEAN, NEW r, r = [h EXCEPT !.updater = u]
    PROVE  /\ r \in Hubs /\ r.known = h.known /\ r.type = h.type /\ r.bl = h.bl /\ r.allowed = h.allowed
           /\ r.verdict_known = h.verdict_known /\ r.verdict = h.verdict /\ r.initialized = h.initialized
  BY DEF Hubs

\* What init() changes.
LEMMA HubVerdict ==
    ASSUME NEW h \in Hubs, NEW t, NEW n, NEW r, r = cache_lr1121_flash_verdict(h, t, n)
    PROVE  /\ r \in Hubs /\ r.known = h.known /\ r.type = h.type /\ r.bl = h.bl /\ r.initialized = h.initialized
           /\ r.verdict = lr1121_flash_decision(t, h.type, h.bl, n, build.target)
  <1>1. lr1121_flash_decision(t, h.type, h.bl, n, build.target) \in Verdicts
    BY VerdictType
  <1>2. QED
    BY <1>1 DEF cache_lr1121_flash_verdict, Hubs

LEMMA HubInitialized ==
    ASSUME NEW h \in Hubs, NEW r, r = [h EXCEPT !.initialized = TRUE]
    PROVE  /\ r \in Hubs /\ r.known = h.known /\ r.type = h.type /\ r.bl = h.bl /\ r.initialized
           /\ r.verdict = h.verdict
  BY DEF Hubs

-----------------------------------------------------------------------------
(* One step per action.                                                    *)

LEMMA Initially == ASSUME Init PROVE IInv
  <1>1. chip \in Chips /\ chip.image.kind = "transceiver" /\ chip.mode = "image"
    <2>1. PICK f \in {LR1121, LR1120}, b \in Bootloaders, v \in Versions \ {0} :
            chip = [family |-> f, bl |-> b, image |-> Image("transceiver", v), mode |-> "image", configured |-> FALSE]
      BY DEF Init, Bootloaders
    <2>2. Image("transceiver", v) \in Images /\ Image("transceiver", v).kind = "transceiver"
      BY FirmwareAssumption DEF Image, Images
    <2>3. QED
      BY <2>1, <2>2 DEF Chips
  <1>2. TypeInv
    BY <1>1, FreshHub DEF Init, TypeInv, Waiting
  <1>3. FamilyInv
    BY <1>1 DEF Init, FamilyInv, LR1121, LR1120, BL2100, BL2101, BL2001
  <1>4. ReadInv /\ DeafInv
    BY FreshHub DEF Init, ReadInv, Missed, DeafInv
  <1>5. FlashInv /\ RewriteInv
    BY FreshHub DEF Init, FlashInv, RewriteInv, Entering, Flashing, BeforeRewrite, Checked, Loading
  <1>6. QED
    BY <1>2, <1>3, <1>4, <1>5 DEF IInv

\* Every way back to setup() is safe, with the chip as it was or reset.
LEMMA BackToSetup ==
    ASSUME IInv, safe_reboot, UNCHANGED build, chip' \in Chips, chip'.family = chip.family, FamilyInv'
    PROVE  IInv'
  <1>1. pc' = "boot" /\ hub' = Fresh /\ build' = build
    BY DEF safe_reboot
  <1>2. TypeInv'
    BY <1>1, FreshHub DEF IInv, TypeInv, Waiting
  <1>3. ReadInv' /\ DeafInv'
    BY <1>1, FreshHub DEF ReadInv, Missed, DeafInv
  <1>4. FlashInv' /\ RewriteInv'
    BY <1>1 DEF FlashInv, RewriteInv, Entering, Flashing, BeforeRewrite, Checked, Loading
  <1>5. QED
    BY <1>2, <1>3, <1>4 DEF IInv

\* What enter_bootloader can bring out of a chip.
LEMMA EnteredChip ==
    ASSUME chip \in Chips, FamilyInv, NEW c \in Entered(chip)
    PROVE  /\ c \in Chips /\ c.family = chip.family /\ c.image = chip.image /\ c.bl # Writing
           /\ c.mode = "image" => Accepts(c)
           /\ c.family = LR1120 => c.bl = BL2001 /\ c.image.kind = "transceiver"
           /\ c.family = LR1121 => c.bl # BL2001
           /\ Booted(c) \in Chips /\ Booted(c).family = c.family /\ Booted(c).image = c.image /\ Booted(c).bl = c.bl
           /\ Accepts(c) => Accepts(Booted(c))
  <1>1. /\ c \in Chips /\ c.family = chip.family /\ c.image = chip.image /\ c.bl # Writing
        /\ c.mode = "image" => Accepts(c)
    BY StrappedChip, ResetChip DEF Entered
  <1>2. /\ c.family = LR1120 => c.bl = BL2001 /\ c.image.kind = "transceiver"
        /\ c.family = LR1121 => c.bl # BL2001
    BY SameFamily DEF FamilyInv, Entered
  <1>3. /\ Booted(c) \in Chips /\ Booted(c).family = c.family /\ Booted(c).image = c.image /\ Booted(c).bl = c.bl
        /\ Accepts(c) => Accepts(Booted(c))
    BY <1>1, BootedChip
  <1>4. QED
    BY <1>1, <1>2, <1>3

LEMMA ReadPreserves == ASSUME IInv, BootTimeBootloaderRead PROVE IInv'
  <1>1. pc = "boot" /\ pc' = "init" /\ build' = build /\ chip \in Chips /\ FamilyInv
    BY DEF BootTimeBootloaderRead, IInv, TypeInv
  <1>2. /\ chip' \in Chips /\ chip'.family = chip.family /\ FamilyInv'
        /\ hub' \in Hubs /\ ~hub'.verdict_known /\ ~hub'.initialized /\ hub'.verdict = "NEEDS_CONFIRMATION"
        /\ \/ hub'.bl = 0 /\ ~hub'.known /\ hub'.type # BOOTLOADER_TYPE
           \/ /\ hub'.bl # 0 /\ chip'.bl # Writing
              /\ hub'.type = BOOTLOADER_TYPE => hub'.bl = chip'.bl /\ chip'.bl \in Bootloaders
              /\ hub'.type # BOOTLOADER_TYPE => hub'.known /\ Accepts(chip')
    <2>1. CASE hub' = Fresh /\ UNCHANGED chip
      BY <2>1, <1>1, FreshHub DEF FamilyInv
    <2>2. CASE \E c \in Entered(chip) : hub' = [Fresh EXCEPT !.updater = TRUE] /\ chip' = c
      <3>2. hub' \in Hubs /\ hub'.bl = 0 /\ ~hub'.known /\ ~hub'.verdict_known /\ ~hub'.initialized
            /\ hub'.verdict = "NEEDS_CONFIRMATION" /\ hub'.type # BOOTLOADER_TYPE
        <4>1. hub' = [Fresh EXCEPT !.updater = TRUE]
          BY <2>2
        <4>2. Fresh \in Hubs /\ TRUE \in BOOLEAN
          BY FreshHub
        <4>3. /\ hub' \in Hubs /\ hub'.known = Fresh.known /\ hub'.bl = Fresh.bl /\ hub'.initialized = Fresh.initialized
              /\ hub'.verdict_known = Fresh.verdict_known /\ hub'.verdict = Fresh.verdict /\ hub'.type = Fresh.type
          BY <4>1, <4>2, HubUpdater
        <4>4. QED
          BY <4>3, FreshHub
      <3>3. chip' \in Chips /\ chip'.family = chip.family /\ FamilyInv'
        <4>1. chip' \in Entered(chip) /\ chip \in Chips /\ FamilyInv
          BY <1>1, <2>2
        <4>2. /\ chip' \in Chips /\ chip'.family = chip.family
              /\ chip'.family = LR1120 => chip'.bl = BL2001 /\ chip'.image.kind = "transceiver"
              /\ chip'.family = LR1121 => chip'.bl # BL2001
          BY <4>1, EnteredChip
        <4>3. QED
          BY <4>2 DEF FamilyInv
      <3>4. QED
        BY <3>2, <3>3
    <2>3. ASSUME NEW c \in Entered(chip), Answers(c), chip' \in Rebooted(c),
                 hub' = [Fresh EXCEPT !.updater = TRUE, !.known = TRUE, !.type = GetVersion(c).type,
                                      !.bl = GetVersion(c).version]
          PROVE  /\ chip' \in Chips /\ chip'.family = chip.family /\ FamilyInv'
                 /\ hub' \in Hubs /\ ~hub'.verdict_known /\ ~hub'.initialized /\ hub'.verdict = "NEEDS_CONFIRMATION"
                 /\ hub'.bl # 0 /\ chip'.bl # Writing
                 /\ hub'.type = BOOTLOADER_TYPE => hub'.bl = chip'.bl /\ chip'.bl \in Bootloaders
                 /\ hub'.type # BOOTLOADER_TYPE => hub'.known /\ Accepts(chip')
      <3>1. c \in Chips /\ (c.mode = "image" => Accepts(c)) /\ Answers(c)
        BY <1>1, <2>3, EnteredChip
      <3>2. /\ chip' \in Chips /\ chip'.family = chip.family /\ chip'.bl = c.bl /\ chip'.bl # Writing /\ FamilyInv'
            /\ Accepts(c) => Accepts(chip')
        BY <1>1, <2>3, EnteredChip DEF FamilyInv, Rebooted
      <3>3. /\ GetVersion(c).type \in Nat /\ GetVersion(c).version \in Nat /\ GetVersion(c).version # 0
            /\ GetVersion(c).type = BOOTLOADER_TYPE => GetVersion(c).version = c.bl /\ c.bl \in Bootloaders
            /\ GetVersion(c).type # BOOTLOADER_TYPE => Accepts(c)
        BY <3>1, Reading
      <3>4. ASSUME NEW t \in Nat, NEW n \in Nat,
                   hub' = [Fresh EXCEPT !.updater = TRUE, !.known = TRUE, !.type = t, !.bl = n]
            PROVE  /\ hub' \in Hubs /\ hub'.known /\ hub'.type = t /\ hub'.bl = n /\ ~hub'.verdict_known
                   /\ ~hub'.initialized /\ hub'.verdict = "NEEDS_CONFIRMATION"
        BY <3>4, FreshHub DEF Hubs
      <3>5. /\ hub' \in Hubs /\ hub'.known /\ hub'.type = GetVersion(c).type /\ hub'.bl = GetVersion(c).version
            /\ ~hub'.verdict_known /\ ~hub'.initialized /\ hub'.verdict = "NEEDS_CONFIRMATION"
        BY <2>3, <3>3, <3>4
      <3>6. QED
        BY <3>2, <3>3, <3>5
    <2>4. QED
      BY <2>1, <2>2, <2>3 DEF BootTimeBootloaderRead
  <1>3. TypeInv'
    BY <1>1, <1>2 DEF IInv, TypeInv, Waiting
  <1>4. DeafInv'
    BY <1>1, <1>2 DEF DeafInv
  <1>5. ReadInv'
    BY <1>1, <1>2 DEF ReadInv, Missed, FamilyInv, Bootloaders, BL2100, BL2101, BL2001
  <1>6. FlashInv' /\ RewriteInv'
    BY <1>1 DEF FlashInv, RewriteInv, Entering, Flashing, BeforeRewrite, Checked, Loading
  <1>7. QED
    BY <1>2, <1>3, <1>4, <1>5, <1>6 DEF IInv

LEMMA InitPreserves == ASSUME IInv, RadioInit PROVE IInv'
  <1>1. /\ pc = "init" /\ pc' = "idle" /\ build' = build /\ chip \in Chips /\ hub \in Hubs /\ FamilyInv /\ ReadInv
        /\ ~hub.initialized
    BY DEF RadioInit, IInv, TypeInv, DeafInv
  <1>2. PICK c \in Resets(chip) :
         \/ /\ Answers(c) /\ GetVersion(c).type = LR1121
            /\ chip' = [c EXCEPT !.configured = TRUE]
            /\ \E v \in {[type |-> 0, version |-> 0]} \cup (IF hub.updater THEN {GetVersion(c)} ELSE {}) :
                 hub' = [cache_lr1121_flash_verdict(hub, v.type, v.version) EXCEPT !.initialized = TRUE]
         \/ chip' = c /\ hub' = cache_lr1121_flash_verdict(hub, 0, 0)
    BY DEF RadioInit
  <1>3. /\ c \in Chips /\ c.family = chip.family /\ (c.mode = "image" => Accepts(c)) /\ c.bl # Writing
        /\ c.family = LR1120 => c.bl = BL2001 /\ c.image.kind = "transceiver"
        /\ c.family = LR1121 => c.bl # BL2001
    BY <1>1, ResetChip, SameFamily DEF FamilyInv
  <1>4. Missed => hub.bl # 0 /\ Accepts(c)
    <2>1. chip.bl # Writing => c.bl = chip.bl /\ c.image = chip.image
      BY <1>1, ResetChip
    <2>2. QED
      BY <1>1, <1>3, <2>1 DEF ReadInv, Missed, Accepts
  <1>5. CASE /\ Answers(c) /\ GetVersion(c).type = LR1121
             /\ chip' = [c EXCEPT !.configured = TRUE]
             /\ \E v \in {[type |-> 0, version |-> 0]} \cup (IF hub.updater THEN {GetVersion(c)} ELSE {}) :
                  hub' = [cache_lr1121_flash_verdict(hub, v.type, v.version) EXCEPT !.initialized = TRUE]
    <2>1. c.family = LR1121 /\ c.mode = "image" /\ Accepts(c)
      BY <1>3, <1>5, ReadsLR1121
    <2>2. PICK t \in {0, LR1121}, n \in Nat : hub' = [cache_lr1121_flash_verdict(hub, t, n) EXCEPT !.initialized = TRUE]
      <3>1. PICK v \in {[type |-> 0, version |-> 0]} \cup {GetVersion(c)} :
              hub' = [cache_lr1121_flash_verdict(hub, v.type, v.version) EXCEPT !.initialized = TRUE]
        BY <1>5
      <3>2. v.type \in {0, LR1121} /\ v.version \in Nat
        BY <1>3, <1>5, <3>1, ReadsLR1121
      <3>3. QED
        BY <3>1, <3>2
    <2>3. Missed => lr1121_flash_decision(t, hub.type, hub.bl, n, build.target) = "REJECT_WRONG_CHIP"
      BY <1>4, VerdictMissed DEF Missed
    <2>5. /\ chip' \in Chips /\ chip'.family = LR1121 /\ chip'.bl = c.bl /\ chip'.image = c.image /\ chip'.configured
          /\ Accepts(chip')
      <3>1. /\ chip' \in Chips /\ chip'.family = c.family /\ chip'.bl = c.bl /\ chip'.image = c.image
            /\ chip'.configured
        <4>1. c \in Chips /\ chip' = [c EXCEPT !.configured = TRUE]
          BY <1>3, <1>5
        <4>2. QED
          BY <4>1 DEF Chips
      <3>2. QED
        BY <2>1, <3>1 DEF Accepts
    <2>6. /\ hub' \in Hubs /\ hub'.bl = hub.bl /\ hub'.type = hub.type /\ hub'.known = hub.known
          /\ Missed => hub'.verdict = "REJECT_WRONG_CHIP"
      <3>1. PICK h : h = cache_lr1121_flash_verdict(hub, t, n)
        OBVIOUS
      <3>2. /\ h \in Hubs /\ h.bl = hub.bl /\ h.type = hub.type /\ h.known = hub.known
            /\ h.verdict = lr1121_flash_decision(t, hub.type, hub.bl, n, build.target)
        BY <1>1, <3>1, HubVerdict
      <3>3. hub' = [h EXCEPT !.initialized = TRUE]
        BY <2>2, <3>1
      <3>4. QED
        BY <2>3, <3>2, <3>3, HubInitialized
    <2>7. TypeInv' /\ FamilyInv' /\ DeafInv'
      BY <1>1, <1>3, <2>1, <2>5, <2>6 DEF IInv, TypeInv, FamilyInv, DeafInv, Waiting, LR1121, LR1120
    <2>8. ReadInv'
      BY <1>1, <1>3, <2>1, <2>5, <2>6, TwoFamilies DEF ReadInv, Missed
    <2>9. FlashInv' /\ RewriteInv'
      BY <1>1 DEF FlashInv, RewriteInv, Entering, Flashing, BeforeRewrite, Checked, Loading
    <2>10. QED
      BY <2>7, <2>8, <2>9 DEF IInv
  <1>6. CASE chip' = c /\ hub' = cache_lr1121_flash_verdict(hub, 0, 0)
    <2>1. /\ hub' \in Hubs /\ hub'.bl = hub.bl /\ hub'.type = hub.type /\ hub'.known = hub.known
          /\ hub'.verdict = lr1121_flash_decision(0, hub.type, hub.bl, 0, build.target)
          /\ hub'.initialized = hub.initialized
      BY <1>1, <1>6, HubVerdict
    <2>2. TypeInv' /\ FamilyInv' /\ DeafInv'
      BY <1>1, <1>3, <1>6, <2>1 DEF IInv, TypeInv, FamilyInv, DeafInv, Waiting
    <2>3. chip.family = LR1121 /\ ~Missed => hub'.verdict = "NEEDS_CONFIRMATION"
      <3>1. SUFFICES ASSUME chip.family = LR1121, ~Missed PROVE hub'.verdict = "NEEDS_CONFIRMATION"
        OBVIOUS
      <3>2. hub.bl \in {0, BL2100, BL2101} /\ (hub.bl = 0 \/ hub.type = BOOTLOADER_TYPE)
        BY <1>1, <3>1 DEF ReadInv, Bootloaders
      <3>3. lr1121_flash_decision(0, hub.type, hub.bl, 0, build.target) = "NEEDS_CONFIRMATION"
        BY <3>2, VerdictUnread
      <3>4. QED
        BY <2>1, <3>3
    <2>4. Missed => hub'.verdict = "REJECT_WRONG_CHIP"
      BY <1>4, <2>1, VerdictMissed DEF Missed
    <2>5. chip.family = LR1120 /\ hub.known => hub'.verdict = "REJECT_WRONG_CHIP"
      BY <1>1, <2>1, <2>4, VerdictForeign DEF ReadInv, Missed
    <2>6. ReadInv'
      BY <1>1, <1>3, <1>4, <1>6, <2>1, <2>3, <2>4, <2>5, TwoFamilies DEF ReadInv, Missed
    <2>7. FlashInv' /\ RewriteInv'
      BY <1>1 DEF FlashInv, RewriteInv, Entering, Flashing, BeforeRewrite, Checked, Loading
    <2>8. QED
      BY <2>2, <2>6, <2>7 DEF IInv
  <1>7. QED
    BY <1>2, <1>5, <1>6

\* The operator's buttons touch neither the chip nor what is known of it.
LEMMA OperatorPreserves ==
    ASSUME IInv, Press \/ ConfirmationExpires \/ \E on \in BOOLEAN : set_bootloader_rewrite_allowed(on)
    PROVE  IInv'
  <1>1. /\ pc = "idle" /\ build' = build /\ chip' = chip /\ pc' \in {"idle", "enter", "1a enter"}
        /\ hub \in Hubs /\ build \in Builds
        /\ \E b \in BOOLEAN : hub' = hub \/ hub' = [hub EXCEPT !.armed = b] \/ hub' = [hub EXCEPT !.allowed = b]
    BY DEF Press, ConfirmationExpires, set_bootloader_rewrite_allowed, Sequence, Refused, IInv, TypeInv
  <1>2. /\ hub' \in Hubs /\ hub'.bl = hub.bl /\ hub'.type = hub.type /\ hub'.known = hub.known
        /\ hub'.verdict = hub.verdict /\ hub'.verdict_known = hub.verdict_known /\ hub'.initialized = hub.initialized
    BY <1>1 DEF Hubs
  <1>3. TypeInv' /\ FamilyInv' /\ DeafInv'
    BY <1>1, <1>2 DEF IInv, TypeInv, FamilyInv, DeafInv, Waiting, Entering
  <1>4. ReadInv'
    <2>1. Missed => pc' = "idle"
      BY <1>1 DEF Press, ConfirmationExpires, set_bootloader_rewrite_allowed, Sequence, Refused, IInv, ReadInv
    <2>2. Missed' = Missed
      BY <1>2 DEF Missed
    <2>3. QED
      BY <1>1, <1>2, <2>1, <2>2 DEF IInv, ReadInv, Accepts
  <1>5. FlashInv'
    <2>1. pc' \in Entering /\ chip.family = LR1120 => ~hub.known
      BY <1>1 DEF Press, ConfirmationExpires, set_bootloader_rewrite_allowed, Sequence, Refused, Entering, IInv, ReadInv
    <2>2. pc' \notin Flashing
      BY <1>1 DEF Flashing, Checked
    <2>3. QED
      BY <1>1, <1>2, <2>1, <2>2 DEF FlashInv
  <1>6. RewriteInv'
    <2>1. pc' = "1a enter" => hub'.allowed /\ UpgradeAvailable(build.block, hub.known, hub.bl, build.target)
      BY <1>1 DEF Press, ConfirmationExpires, set_bootloader_rewrite_allowed, Sequence, Refused
    <2>2. UpgradeAvailable(build.block, hub.known, hub.bl, build.target)
            => build.block /\ classify_bootloader_upgrade_class(build.target) = "accept"
      <3>1. lr1121_required_bootloader_for(build.target) \in {0, BL2100, BL2101}
        BY <1>1, BuildFacts
      <3>2. QED
        BY <3>1 DEF UpgradeAvailable, classify_bootloader_upgrade_class, Loader, Image, BL2100, BL2101
    <2>3. QED
      BY <1>1, <2>1, <2>2 DEF RewriteInv, BeforeRewrite, Checked, Loading, classify_bootloader_upgrade_class
  <1>7. QED
    BY <1>3, <1>4, <1>5, <1>6 DEF IInv

\* A bootloader entry that is confirmed and checked leads on, with an LR1121 only; any other
\* end of it leads back to setup().
LEMMA EnterPreserves ==
    ASSUME IInv, UNCHANGED build, pc \in Entering \cup Flashing, NEW next \in {"erase", "1a erase", "3 erase"},
           next = "1a erase" => pc \in BeforeRewrite,
           \E c \in Entered(chip) :
             \/ chip' \in Rebooted(c) /\ safe_reboot
             \/ /\ Answers(c) /\ chip.family = LR1121 /\ GetVersion(c).type = BOOTLOADER_TYPE /\ chip' = c /\ pc' = next
                /\ hub' = [hub EXCEPT !.known = TRUE, !.type = GetVersion(c).type, !.bl = GetVersion(c).version]
    PROVE  IInv'
  <1>1. build' = build /\ chip \in Chips /\ hub \in Hubs /\ FamilyInv
    BY DEF IInv, TypeInv
  <1>2. PICK c \in Entered(chip) :
             \/ chip' \in Rebooted(c) /\ safe_reboot
             \/ /\ Answers(c) /\ chip.family = LR1121 /\ GetVersion(c).type = BOOTLOADER_TYPE /\ chip' = c /\ pc' = next
                /\ hub' = [hub EXCEPT !.known = TRUE, !.type = GetVersion(c).type, !.bl = GetVersion(c).version]
    OBVIOUS
  <1>3. /\ c \in Chips /\ c.family = chip.family /\ c.image = chip.image /\ (c.mode = "image" => Accepts(c))
        /\ c.family = LR1120 => c.bl = BL2001 /\ c.image.kind = "transceiver"
        /\ c.family = LR1121 => c.bl # BL2001
        /\ Booted(c) \in Chips /\ Booted(c).family = c.family /\ Booted(c).image = c.image /\ Booted(c).bl = c.bl
    BY <1>1, EnteredChip
  <1>4. CASE chip' \in Rebooted(c) /\ safe_reboot
    BY <1>1, <1>3, <1>4, BackToSetup DEF FamilyInv, Rebooted
  <1>5. CASE /\ Answers(c) /\ chip.family = LR1121 /\ GetVersion(c).type = BOOTLOADER_TYPE /\ chip' = c /\ pc' = next
             /\ hub' = [hub EXCEPT !.known = TRUE, !.type = GetVersion(c).type, !.bl = GetVersion(c).version]
    <2>1. chip'.family = LR1121 /\ chip.family = LR1121
      BY <1>3, <1>5
    <2>2. /\ c.bl \in Bootloaders /\ c.bl \in Nat /\ c.bl # 0 /\ BOOTLOADER_TYPE \in Nat
          /\ GetVersion(c).version = c.bl /\ c.mode = "bootloader"
      <3>1. c \in Chips /\ Answers(c) /\ (c.mode = "image" => Accepts(c))
        BY <1>3, <1>5
      <3>2. QED
        BY <1>5, <3>1, TypeByte, AnswerIsBootloader, Reading
    <2>3. /\ hub' \in Hubs /\ hub'.known /\ hub'.type = BOOTLOADER_TYPE /\ hub'.bl = c.bl /\ hub'.allowed = hub.allowed
      <3>1. hub \in Hubs /\ c.bl \in Nat /\ BOOTLOADER_TYPE \in Nat
            /\ hub' = [hub EXCEPT !.known = TRUE, !.type = BOOTLOADER_TYPE, !.bl = c.bl]
        BY <1>1, <1>3, <1>5, <2>2
      <3>2. QED
        BY <3>1 DEF Hubs
    <2>4. TypeInv' /\ FamilyInv' /\ DeafInv'
      BY <1>1, <1>3, <1>5, <2>1, <2>3 DEF IInv, TypeInv, FamilyInv, DeafInv, Flashing
    <2>5. ReadInv'
      BY <1>3, <1>5, <2>1, <2>2, <2>3, TwoFamilies DEF ReadInv, Missed
    <2>6. FlashInv' /\ RewriteInv'
      BY <1>1, <1>5, <2>1, <2>2, <2>3 DEF IInv, FlashInv, RewriteInv, Entering, Flashing, Checked, BeforeRewrite, Loading,
         classify_bootloader_upgrade_class
    <2>7. QED
      BY <2>4, <2>5, <2>6 DEF IInv
  <1>6. QED
    BY <1>2, <1>4, <1>5

\* What a bootloader must be for the entry check to pass.
LEMMA EntrySaneIsLR1121 ==
    ASSUME IInv, pc \in Entering, NEW c \in Entered(chip), Answers(c), EntrySane(GetVersion(c))
    PROVE  chip.family = LR1121 /\ GetVersion(c).type = BOOTLOADER_TYPE
  <1>1. chip \in Chips /\ FamilyInv /\ GetVersion(c).type = BOOTLOADER_TYPE
    BY DEF IInv, TypeInv, EntrySane, lr1121_check_bootloader_sanity
  <1>2. /\ c \in Chips /\ c.family = chip.family /\ GetVersion(c).version = c.bl
        /\ c.family = LR1120 => c.bl = BL2001
    BY <1>1, EnteredChip, Reading
  <1>3. chip.family = LR1120 => ~hub.known
    BY DEF IInv, FlashInv
  <1>4. chip.family # LR1120
    BY <1>2, <1>3 DEF EntrySane, lr1121_check_bootloader_sanity, lr1121_bootloader_is_lr1121, BL2100, BL2101, BL2001
  <1>5. QED
    BY <1>1, <1>4 DEF Chips

\* A step that writes an LR1121, or looks at it, and stays in its sequence.
LEMMA SequencePreserves ==
    ASSUME IInv, pc \in Flashing, UNCHANGED <<build, hub>>, chip' \in Chips, chip'.family = chip.family,
           chip'.bl # BL2001, pc' \in Flashing \cup {"finish"}, pc' \in BeforeRewrite => pc \in BeforeRewrite,
           pc' \in Checked /\ chip'.mode = "image" => Accepts(chip'), pc' = "2 update" => Checkpoint(GetVersion(chip')),
           pc' \in Loading => chip'.mode = "bootloader"
    PROVE  IInv'
  <1>1. chip.family = LR1121 /\ chip'.family = LR1121 /\ build' = build /\ hub' = hub
    BY DEF IInv, FlashInv
  <1>2. TypeInv' /\ FamilyInv'
    BY <1>1 DEF IInv, TypeInv, FamilyInv, Waiting, LR1121, LR1120
  <1>3. ReadInv' /\ DeafInv'
    BY <1>1, TwoFamilies DEF IInv, ReadInv, Missed, DeafInv, Flashing, Checked
  <1>4. FlashInv'
    BY <1>1, TwoFamilies DEF FlashInv
  <1>5. RewriteInv'
    BY <1>1 DEF IInv, RewriteInv, classify_bootloader_upgrade_class
  <1>6. QED
    BY <1>2, <1>3, <1>4, <1>5 DEF IInv

LEMMA FlashedChip ==
    ASSUME chip \in Chips, NEW image \in Images
    PROVE  /\ Flashed(image) \in Chips /\ Flashed(image).family = chip.family /\ Flashed(image).bl = chip.bl
           /\ Flashed(image).mode = chip.mode
  BY DEF Flashed, Chips

LEMMA ErasePreserves ==
    ASSUME IInv, NEW at \in Loading, NEW next \in Loading, Erase(at, next), next \in BeforeRewrite => at \in BeforeRewrite
    PROVE  IInv'
  <1>1. /\ pc \in Flashing /\ build' = build /\ chip \in Chips /\ chip.family = LR1121 /\ chip.bl # BL2001
        /\ chip.mode = "bootloader" /\ next \in Flashing \ Checked
    BY DEF Erase, IInv, TypeInv, FlashInv, FamilyInv, RewriteInv, Loading, Flashing, Checked
  <1>2. NoImage \in Images
    BY DEF NoImage, Image, Images
  <1>3. chip' \in Chips /\ chip'.family = chip.family /\ chip'.bl = chip.bl /\ chip'.mode = "bootloader"
    BY <1>1, <1>2, FlashedChip DEF Erase
  <1>4. CASE safe_reboot
    BY <1>1, <1>3, <1>4, BackToSetup DEF FamilyInv, LR1121, LR1120
  <1>5. CASE pc' = next /\ UNCHANGED hub
    BY <1>1, <1>3, <1>5, SequencePreserves DEF Erase, Checked
  <1>6. QED
    BY <1>4, <1>5 DEF Erase, Abort

LEMMA WritePreserves ==
    ASSUME IInv, NEW at \in Loading, NEW next \in Loading \cup {"finish"}, NEW image \in Images,
           WriteImage(at, image, next), next \in BeforeRewrite => at \in BeforeRewrite
    PROVE  IInv'
  <1>1. /\ pc = at /\ build' = build /\ chip \in Chips /\ chip.family = LR1121 /\ chip.bl # BL2001
        /\ chip.mode = "bootloader" /\ at \in Flashing \ Checked /\ next \in (Flashing \ Checked) \cup {"finish"}
    BY DEF WriteImage, IInv, TypeInv, FlashInv, FamilyInv, RewriteInv, Loading, Flashing, Checked
  <1>2. Image("partial", image.version) \in Images
    BY DEF Image, Images, Loader, BL2100
  <1>3. chip' \in Chips /\ chip'.family = chip.family /\ chip'.bl = chip.bl /\ chip'.mode = "bootloader"
    BY <1>1, <1>2, FlashedChip DEF WriteImage
  <1>4. CASE safe_reboot
    BY <1>1, <1>3, <1>4, BackToSetup DEF FamilyInv, LR1121, LR1120
  <1>5. CASE pc' \in {pc, next} /\ UNCHANGED hub
    BY <1>1, <1>3, <1>5, SequencePreserves DEF Checked
  <1>6. QED
    BY <1>1, <1>4, <1>5 DEF WriteImage, Abort

LEMMA FlashPreserves == ASSUME IInv, FlashSequence PROVE IInv'
  <1>1. CASE Enter("enter", EntrySane, "erase")
    <2>1. pc \in Entering
      BY <1>1 DEF Enter, Entering
    <2>2. \A c \in Entered(chip) : Answers(c) /\ EntrySane(GetVersion(c))
                                    => chip.family = LR1121 /\ GetVersion(c).type = BOOTLOADER_TYPE
      BY <2>1, EntrySaneIsLR1121
    <2>3. QED
      BY <1>1, <2>1, <2>2, EnterPreserves DEF Enter, Abort, Rebooted, Entering
  <1>2. CASE Erase("erase", "write")
    BY <1>2, ErasePreserves DEF Loading, BeforeRewrite, Checked
  <1>3. CASE WriteImage("write", build.image, "finish")
    <2>1. build.image \in Images
      BY BuildFacts DEF IInv, TypeInv
    <2>2. QED
      BY <1>3, <2>1, WritePreserves DEF Loading, BeforeRewrite, Checked
  <1>4. CASE Finish("finish")
    <2>1. chip \in Chips /\ FamilyInv
      BY DEF IInv, TypeInv
    <2>2. chip' \in Chips /\ chip'.family = chip.family /\ chip'.bl = chip.bl /\ chip'.image = chip.image
      BY <1>4, <2>1, BootedChip DEF Finish, Rebooted
    <2>3. QED
      BY <1>4, <2>1, <2>2, BackToSetup DEF Finish, FamilyInv
  <1>5. QED
    BY <1>1, <1>2, <1>3, <1>4 DEF FlashSequence

\* The steps of the rewrite that abort leave the chip as it is.
LEMMA AbortPreserves == ASSUME IInv, Abort, UNCHANGED <<build, chip>> PROVE IInv'
  BY BackToSetup DEF IInv, TypeInv, FamilyInv, Abort

\* The steps between the loader and the new bootloader, when they do what they should.
LEMMA RewriteStepPreserves ==
    ASSUME IInv, NEW at, NEW next, Step(at, next), at \in Flashing, next \in Flashing \ Loading,
           next \in BeforeRewrite => at \in BeforeRewrite,
           chip' \in Chips, chip'.family = chip.family, chip'.bl # BL2001,
           next \in Checked /\ chip'.mode = "image" => Accepts(chip'), next = "2 update" => Checkpoint(GetVersion(chip'))
    PROVE  IInv'
  BY SequencePreserves DEF Step

LEMMA RewritePreserves == ASSUME IInv, RewriteSequence PROVE IInv'
  <1>1. chip \in Chips /\ build \in Builds /\ hub \in Hubs /\ FlashInv
    BY DEF IInv, TypeInv
  <1>2. CASE Enter("1a enter", EntrySane, "1a erase")
    <2>1. pc \in Entering
      BY <1>2 DEF Enter, Entering
    <2>2. \A c \in Entered(chip) : Answers(c) /\ EntrySane(GetVersion(c))
                                    => chip.family = LR1121 /\ GetVersion(c).type = BOOTLOADER_TYPE
      BY <2>1, EntrySaneIsLR1121
    <2>3. QED
      BY <1>2, <2>1, <2>2, EnterPreserves DEF Enter, Abort, Rebooted, Entering, BeforeRewrite
  <1>3. CASE Erase("1a erase", "1a write")
    BY <1>3, ErasePreserves DEF Loading, BeforeRewrite, Checked
  <1>4. CASE WriteImage("1a write", Loader, "1b reboot")
    <2>1. Loader \in Images
      BY DEF Images
    <2>2. QED
      BY <1>4, <2>1, WritePreserves DEF Loading, BeforeRewrite, Checked
  <1>5. CASE RebootIntoLoader
    <2>1. /\ Booted(chip) \in Chips /\ Booted(chip).family = chip.family /\ Booted(chip).bl = chip.bl
          /\ Booted(chip).mode = "image" => Accepts(Booted(chip))
      BY <1>1, BootedChip
    <2>2. CASE Step("1b reboot", "1b check") /\ chip' \in {chip, Booted(chip)}
      <3>1. chip.bl # BL2001 /\ chip.mode = "bootloader"
        BY <2>2 DEF Step, IInv, FlashInv, FamilyInv, RewriteInv, Flashing, Loading
      <3>2. QED
        BY <1>1, <2>1, <2>2, <3>1, RewriteStepPreserves DEF Flashing, Checked, BeforeRewrite, Loading
    <2>3. QED
      BY <1>5, <2>2, AbortPreserves DEF RebootIntoLoader, Rebooted
  <1>6. CASE LoaderCheckpoint
    <2>1. CASE Step("1b check", "2 update") /\ Checkpoint(GetVersion(chip)) /\ UNCHANGED chip
      <3>1. chip.bl # BL2001 /\ (chip.mode = "image" => Accepts(chip))
        BY <2>1 DEF Step, IInv, FlashInv, FamilyInv, RewriteInv, Flashing, Checked
      <3>2. QED
        BY <1>1, <2>1, <3>1, RewriteStepPreserves DEF Flashing, Checked, BeforeRewrite, Loading
    <2>2. QED
      BY <1>6, <2>1, AbortPreserves DEF LoaderCheckpoint
  <1>7. CASE UpdateBootloader
    <2>1. CASE Step("2 update", "2 busy") /\ (UNCHANGED chip \/ chip' = [chip EXCEPT !.bl = Writing])
      <3>1. chip.bl # BL2001
        BY <2>1 DEF Step, IInv, FlashInv, FamilyInv, Flashing, Checked
      <3>2. chip' \in Chips /\ chip'.family = chip.family /\ chip'.bl # BL2001
        <4>1. CASE UNCHANGED chip
          BY <1>1, <3>1, <4>1
        <4>2. CASE chip' = [chip EXCEPT !.bl = Writing]
          BY <1>1, <4>2, DistinctBootloaders, BootloaderWritten
        <4>3. QED
          BY <2>1, <4>1, <4>2
      <3>3. QED
        BY <2>1, <3>2, RewriteStepPreserves DEF Flashing, Checked, BeforeRewrite, Loading
    <2>2. QED
      BY <1>7, <2>1, AbortPreserves DEF UpdateBootloader
  <1>8. CASE UpdateEnds
    <2>1. CASE Step("2 busy", "2 verify") /\ chip' = [chip EXCEPT !.bl = IF @ = Writing THEN BL2101 ELSE @]
      <3>1. chip.bl # BL2001
        BY <2>1 DEF Step, IInv, FlashInv, FamilyInv, Flashing
      <3>2. chip' \in Chips /\ chip'.family = chip.family /\ chip'.bl # BL2001
        <4>1. PICK b \in Bootloaders \cup {Writing, Broken} : chip' = [chip EXCEPT !.bl = b] /\ b # BL2001
          BY <1>1, <2>1, <3>1, DistinctBootloaders, BootloaderWritten
        <4>2. QED
          BY <1>1, <4>1, BootloaderWritten
      <3>3. QED
        BY <2>1, <3>2, RewriteStepPreserves DEF Flashing, Checked, BeforeRewrite, Loading
    <2>2. QED
      BY <1>8, <2>1, AbortPreserves DEF UpdateEnds
  <1>9. CASE VerifyBootloader
    <2>1. CASE Step("2 verify", "2 reboot") /\ chip.bl = BL2101 /\ UNCHANGED chip
      BY <1>1, <2>1, DistinctBootloaders, RewriteStepPreserves DEF Flashing, Checked, BeforeRewrite, Loading
    <2>2. QED
      BY <1>9, <2>1, AbortPreserves DEF VerifyBootloader
  <1>10. CASE RebootUpdater
    <2>1. Booted(chip) \in Chips /\ Booted(chip).family = chip.family /\ Booted(chip).bl = chip.bl
      BY <1>1, BootedChip
    <2>2. CASE Step("2 reboot", "2 read") /\ chip' \in {chip, Booted(chip)}
      <3>1. chip.bl # BL2001
        BY <2>2 DEF Step, IInv, FlashInv, FamilyInv, Flashing
      <3>2. QED
        BY <1>1, <2>1, <2>2, <3>1, RewriteStepPreserves DEF Flashing, Checked, BeforeRewrite, Loading
    <2>3. QED
      BY <1>10, <2>2, AbortPreserves DEF RebootUpdater, Rebooted
  <1>11. CASE ReadUpdatedVersion
    <2>1. CASE pc = "2 read" /\ pc' = "3 enter" /\ hub' = [hub EXCEPT !.type = BOOTLOADER_TYPE, !.bl = BL2101]
      <3>1. build' = build /\ chip' = chip /\ chip.family = LR1121
        BY <1>11, <1>1, <2>1 DEF ReadUpdatedVersion, FlashInv, Flashing
      <3>2. hub' \in Hubs /\ hub'.type = BOOTLOADER_TYPE /\ hub'.bl = BL2101
        <4>1. BOOTLOADER_TYPE \in Nat /\ BL2101 \in Nat
          BY DEF BOOTLOADER_TYPE, BL2101
        <4>2. QED
          BY <1>1, <2>1, <4>1 DEF Hubs
      <3>3. TypeInv' /\ FamilyInv' /\ DeafInv'
        BY <2>1, <3>1, <3>2 DEF IInv, TypeInv, FamilyInv, DeafInv, Flashing
      <3>4. ReadInv'
        BY <2>1, <3>1, <3>2, TwoFamilies, DistinctBootloaders DEF ReadInv, Missed, Bootloaders
      <3>5. FlashInv' /\ RewriteInv'
        BY <2>1, <3>1, TwoFamilies DEF FlashInv, RewriteInv, Entering, BeforeRewrite, Checked, Loading
      <3>6. QED
        BY <3>3, <3>4, <3>5 DEF IInv
    <2>2. QED
      BY <1>11, <2>1, AbortPreserves DEF ReadUpdatedVersion
  <1>12. CASE Enter("3 enter", Is2101, "3 erase")
    <2>1. chip.family = LR1121
      BY <1>1, <1>12 DEF Enter, FlashInv, Flashing
    <2>2. QED
      BY <1>12, <2>1, EnterPreserves DEF Enter, Abort, Rebooted, Is2101, Flashing
  <1>13. CASE Erase("3 erase", "3 write")
    BY <1>13, ErasePreserves DEF Loading, BeforeRewrite, Checked
  <1>14. CASE WriteImage("3 write", build.image, "finish")
    <2>1. build.image \in Images
      BY <1>1, BuildFacts
    <2>2. QED
      BY <1>14, <2>1, WritePreserves DEF Loading, BeforeRewrite, Checked
  <1>15. QED
    BY <1>2, <1>3, <1>4, <1>5, <1>6, <1>7, <1>8, <1>9, <1>10, <1>11, <1>12, <1>13, <1>14 DEF RewriteSequence

LEMMA PowerPreserves == ASSUME IInv, PowerLoss \/ Restart PROVE IInv'
  <1>1. chip \in Chips /\ FamilyInv /\ build' = build /\ safe_reboot /\ chip' \in Resets(chip) \cup {chip}
    BY DEF IInv, TypeInv, PowerLoss, Restart
  <1>2. chip' \in Chips /\ chip'.family = chip.family /\ FamilyInv'
    BY <1>1, ResetChip, SameFamily DEF FamilyInv
  <1>3. QED
    BY <1>1, <1>2, BackToSetup

LEMMA Invariance == Spec => []IInv
  <1>1. Init => IInv
    BY Initially
  <1>2. IInv /\ [Next]_vars => IInv'
    <2>1. ASSUME IInv, UNCHANGED vars PROVE IInv'
      <3>1. build' = build /\ chip' = chip /\ hub' = hub /\ pc' = pc
        BY <2>1 DEF vars
      <3>2. TypeInv' /\ FamilyInv' /\ DeafInv' /\ FlashInv'
        BY <2>1, <3>1 DEF IInv, TypeInv, FamilyInv, DeafInv, FlashInv
      <3>3. ReadInv'
        BY <2>1, <3>1 DEF IInv, ReadInv, Missed, Accepts
      <3>4. RewriteInv'
        BY <2>1, <3>1 DEF IInv, RewriteInv, Accepts
      <3>5. QED
        BY <3>2, <3>3, <3>4 DEF IInv
    <2>2. QED
      BY <2>1, ReadPreserves, InitPreserves, OperatorPreserves, FlashPreserves, RewritePreserves, PowerPreserves DEF Next
  <1>3. QED
    BY <1>1, <1>2, PTL DEF Spec

-----------------------------------------------------------------------------
(* The theorems.                                                           *)

\* The image of another chip of the family survives every press of the button, every failed
\* read and every power loss (the checks in run_lr1121_flash_sequence_ and around it).
THEOREM OtherChipsUntouched == Spec => []OnlyLR1121Flashed
  <1>1. IInv => OnlyLR1121Flashed
    BY DEF IInv, FamilyInv, OnlyLR1121Flashed, Accepts
  <1>2. QED
    BY <1>1, Invariance, PTL

\* No path out of a bootloader excursion leaves a hub that thinks itself set up in front of a
\* radio that init() did not configure.
THEOREM NeverDeaf == Spec => []NeverSilentlyDeaf
  <1>1. IInv => NeverSilentlyDeaf
    BY DEF IInv, DeafInv, NeverSilentlyDeaf
  <1>2. QED
    BY <1>1, Invariance, PTL

\* Whatever a failed flash leaves on the chip, trigger_lr1121_firmware_update can flash it again.
THEOREM FlashableAgain == Spec => []ButtonRecovers
  <1>1. IInv => ButtonRecovers
    BY DEF IInv, ReadInv, ButtonRecovers
  <1>2. QED
    BY <1>1, Invariance, PTL

\* Only 0x8100 itself begins to rewrite a bootloader.
LEMMA OnlyUpdateRewrites ==
    ASSUME IInv, Next, chip'.bl = Writing, chip.bl # Writing
    PROVE  pc = "2 update"
  <1>1. chip \in Chips
    BY DEF IInv, TypeInv
  <1>2. /\ \A c \in Entered(chip) : c.bl # Writing /\ Booted(c).bl # Writing
        /\ \A c \in Resets(chip) : c.bl # Writing /\ [c EXCEPT !.configured = TRUE].bl # Writing
    <2>1. \A c \in Entered(chip) : c.bl # Writing /\ Booted(c).bl # Writing
      BY <1>1, StrappedChip, ResetChip, BootedChip DEF Entered
    <2>2. \A c \in Resets(chip) : c \in Chips /\ c.bl # Writing
      BY <1>1, ResetChip
    <2>3. QED
      BY <2>1, <2>2 DEF Chips
  <1>3. \A image \in Images : Flashed(image).bl # Writing
    BY <1>1, FlashedChip
  <1>4. NoImage \in Images /\ \A image \in Images : Image("partial", image.version) \in Images
    BY DEF NoImage, Image, Images, Loader, BL2100
  <1>5. Booted(chip).bl # Writing
    BY <1>1, BootedChip
  <1>6. build.image \in Images /\ Loader \in Images
    BY BuildFacts DEF IInv, TypeInv, Images
  <1>7. ~BootTimeBootloaderRead /\ ~RadioInit /\ ~PowerLoss
    BY <1>2 DEF BootTimeBootloaderRead, RadioInit, PowerLoss, Rebooted
  <1>8. ~Press /\ ~ConfirmationExpires /\ ~Restart /\ ~\E on \in BOOLEAN : set_bootloader_rewrite_allowed(on)
    BY DEF Press, ConfirmationExpires, Restart, set_bootloader_rewrite_allowed
  <1>9. \A at, next : ~Erase(at, next)
    BY <1>3, <1>4 DEF Erase
  <1>10. \A at, next : \A image \in Images : ~WriteImage(at, image, next)
    BY <1>3, <1>4 DEF WriteImage
  <1>11. ~FlashSequence
    BY <1>2, <1>5, <1>6, <1>9, <1>10 DEF FlashSequence, Enter, Finish, Rebooted
  <1>12. RewriteSequence => UpdateBootloader \/ UpdateEnds
    BY <1>2, <1>5, <1>6, <1>9, <1>10
    DEF RewriteSequence, Enter, Rebooted, RebootIntoLoader, LoaderCheckpoint, VerifyBootloader, RebootUpdater, ReadUpdatedVersion
  <1>13. ~UpdateEnds
    <2>1. /\ BL2101 \in Bootloaders \cup {Writing, Broken} /\ BL2101 # Writing
          /\ chip.bl \in Bootloaders \cup {Writing, Broken}
      BY <1>1 DEF Chips, Bootloaders, BL2101, Writing
    <2>2. [chip EXCEPT !.bl = BL2101].bl # Writing /\ [chip EXCEPT !.bl = chip.bl].bl # Writing
      BY <1>1, <2>1, BootloaderWritten
    <2>3. QED
      BY <2>2 DEF UpdateEnds
  <1>14. UpdateBootloader
    BY <1>7, <1>8, <1>11, <1>12, <1>13 DEF Next
  <1>15. QED
    BY <1>14 DEF UpdateBootloader, Step

\* The irreversible step is taken only by an operator's leave, for a build that wants it, from
\* the loader on the old bootloader (run_lr1121_bootloader_upgrade_sequence_).
THEOREM RewriteOnlyWhereItMay == Spec => RewriteGuarded
  <1>1. ASSUME IInv, [Next]_vars
        PROVE  (chip'.bl = Writing /\ chip.bl # Writing) =>
                 /\ hub.allowed /\ build.block /\ classify_bootloader_upgrade_class(build.target) = "accept"
                 /\ chip.family = LR1121 /\ chip.bl = BL2100 /\ chip.mode = "image" /\ chip.image = Loader
    <2>1. SUFFICES ASSUME chip'.bl = Writing, chip.bl # Writing
                   PROVE  /\ hub.allowed /\ build.block /\ classify_bootloader_upgrade_class(build.target) = "accept"
                          /\ chip.family = LR1121 /\ chip.bl = BL2100 /\ chip.mode = "image" /\ chip.image = Loader
      OBVIOUS
    <2>2. Next
      BY <1>1, <2>1 DEF vars
    <2>3. pc = "2 update"
      BY <1>1, <2>1, <2>2, OnlyUpdateRewrites
    <2>4. hub.allowed /\ build.block /\ classify_bootloader_upgrade_class(build.target) = "accept"
      BY <1>1, <2>3 DEF IInv, RewriteInv, BeforeRewrite, Checked
    <2>5. chip.mode = "image" /\ chip.image = Loader /\ chip.bl = BL2100
      BY <1>1, <2>3, CheckpointIsLoader DEF IInv, TypeInv, RewriteInv, Checked
    <2>6. chip.family = LR1121
      BY <1>1, <2>3 DEF IInv, FlashInv, Flashing, Checked
    <2>7. QED
      BY <2>4, <2>5, <2>6
  <1>2. QED
    BY <1>1, Invariance, PTL DEF Spec, RewriteGuarded

=============================================================================
