SPECIFICATION Spec
CONSTANTS
    Identities = {somfy, velux}
    Velux = {velux}
    Ring = 5
    ONEWAY_SEQUENCE_STRIDE = 2
    ONEWAY_SEQUENCE_REBOOT_HEADROOM = 2
    ONEWAY_SEQUENCE_ACCEPTANCE_WINDOW = 5
    Initials = {0, 1}
    Seeds = {1}
    None = None
    MaxBoots = 1
    MaxWasted = 1
INVARIANTS NoReplay ReservedBeforeUse SkipBounded
