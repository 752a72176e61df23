CONSTANTS
    Versions <- MCVersions
    Requirements <- MCRequirements
SPECIFICATION Spec
INVARIANTS OnlyLR1121Flashed NeverSilentlyDeaf ButtonRecovers
PROPERTY RewriteGuarded
