SPECIFICATION FairSpec
CONSTANTS
    EXCHANGE_RETRY_COUNT = 3
    EXCHANGE_RETRY_DELAY_MS = 1
    exchange_total_budget_ms = 6
    exchange_start_response_wait_ms = 2
    exchange_response_wait_ms = 3
    TxTime = 1
    TxTimeout = 8
    MaxTries <- MCMaxTries
    Exchanges = 2
    MaxAir = 2
    Horizon = 25
INVARIANT AtMostOneExecution
INVARIANT FailedMeansNotExecuted
INVARIANT ReadsSpendTheirTries
INVARIANT BlockingBounded
PROPERTY Termination
