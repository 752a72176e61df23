SPECIFICATION QueueSpec
CONSTANTS
    d1 = d1
    d2 = d2
    Devices <- MCDevices
    Controllers <- MCControllers
    Positions = {0, 100}
    Commands = {"STOP"}
    MaxLen = 3
INVARIANTS BandOrder OnewayPressesKept LatestIntentWins
PROPERTY NothingLostWithoutCause
