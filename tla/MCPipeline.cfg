SPECIFICATION Spec
CONSTANTS
    Registered <- AllConverters
    Sources <- Requests
    MaxDecodeRounds = 1
    MaxTableWidth = 2
    MaxArtifacts = 2
    Unspeakable = {"foul"}
    Bracketed = {"book (2)"}
    Alphabet = {"letter", "slash", "dot", "space"}
    Lengths = 4
    Coded = 2
    Lines = 4
    Images = 3
INVARIANTS FirstAbleConverterWins ReferencesResolve MembersAreAccountedFor LocationsStayInside IngestFailsForCause TablesAreRuns PartsAreAccountedFor
CHECK_DEADLOCK FALSE
