CONSTANTS
    Devices = {d1}
    Nobody = Nobody
    DiscoveryCommands = 1
    PAIRING_DISCOVERY_MAX_ATTEMPTS = 2
    pairing_key_exchange_retries = 2
    EXCHANGE_RETRY_COUNT = 2
    Retriggers = 2
    PAIRING_TELEMETRY_MAX_EVENTS = 6
    LBT_MAX_RETRIES = 1
    COUNTER_SATURATION_MAX = 2
    Nonces = {1, 2, 3, 4, 5, 6}
    Tolerated = 1
    MaxLosses = 2
    MaxNoise = 1
    MaxTxFails = 1
    MaxDefers = 1
    MaxAir = 2
SPECIFICATION FairSpec
INVARIANTS RegisteredIsKeyed ToleratesLosses OutcomeTruthful
PROPERTY HandsOver
