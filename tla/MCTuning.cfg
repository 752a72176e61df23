CONSTANTS
    Blocks <- MCBlocks
    MaxEdits = 3
SPECIFICATION TuningSpec
INVARIANT OneTruth
PROPERTY PasteKeepsTuning
