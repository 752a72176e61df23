CONSTANTS
    Devices = {d1, d2}
    Covers = {d1}
    Strangers = {s1, s2}
    Controllers = {c1}
    Names = {"kitchen", "attic"}
    Channels = 3
    SCAN_MAX_REPLIES = 2
    PROBE_SWEEP_MAX_INDICES = 3
    MaxByte = 3
    IndexedProbes = {"private_fn"}
    PlainProbes = {"get_info1"}
SPECIFICATION ActionsSpec
INVARIANTS RenameHonest ReportsTrue
