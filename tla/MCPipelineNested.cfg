SPECIFICATION Spec
CONSTANTS
    Registered <- AllConverters
    Sources <- Pictures
    MaxDecodeRounds = 1
    MaxTableWidth = 2
    MaxArtifacts = 2
    Unspeakable = {"foul"}
    Bracketed = {"book (2)"}
    Alphabet = {"letter", "slash", "dot", "space"}
    Lengths = 1
    Coded = 2
    Lines = 4
    Images = 3
INVARIANTS SupportedFilesAreProcessed
CHECK_DEADLOCK FALSE
