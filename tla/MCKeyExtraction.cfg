CONSTANTS
    Hubs = {a, b}
    Nobody = Nobody
    FreeIds = {i1, i2, i3, i4}
    OwnId = OwnId
    Ids <- MCIds
    Taken <- MCTaken
    Challenges = {1, 2, 3, 4}
    AUTO_OFF = 3
    GRACE = 2
    MID_ATTEMPT = 1
SPECIFICATION Spec
SYMMETRY Symmetry
INVARIANTS WindowBounded OneHubOneKey
PROPERTIES EndsForAReason OthersDoNotDisturb
