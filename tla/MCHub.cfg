SPECIFICATION Spec
CONSTANTS
    Wrap = 1000
    MAX_TRACKED_STATUS_POLL_WINDOW_MS = 4
    SilentBackoff <- MCSilent
    AuthBackoff <- MCAuth
    DEFAULT_SETTLE_POLL_DELAY_MS = 2
    STOP_SETTLE_POLL_CAP_MS = 1
    Devices = {1}
    Bindings <- MCBindings
    Interval <- MCInterval
    Positions = {0, 100}
    Parked = {0}
    Tilts = {50}
    Hints = {0, 4}
    REMOTE_ACTIVITY_STATUS_POLL_DELAY_MS = 2
    ONEWAY_QUIET_PERIOD_MS = 1
    ONEWAY_POLL_DEFER_CAP_MS = 3
    ONEWAY_DEDUP_WINDOW_MS = 2
    ExchangeTime = 1
    Strangers = TRUE
    Boot = 1
    MaxClock = 6
    Budget = 3
    MaxLen = 3
INVARIANTS FollowUpNeverLost NoSilentStaleness PredictionsBacked CadenceCeiling
PROPERTY StopConfirmedPromptly
