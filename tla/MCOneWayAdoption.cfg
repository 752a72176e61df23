CONSTANTS
    Remotes <- MCRemotes
    HubNode <- MCHubNode
    HubKey = "hub"
    Declared <- MCDeclared
    Addresses <- MCAddresses
    Window = 3
    MaxEntries = 2
SPECIFICATION AdoptionSpec
INVARIANTS ReportIsTrue OwnVoice
PROPERTY WindowHolds
