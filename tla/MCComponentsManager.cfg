SPECIFICATION ManagerSpec
CONSTANTS
    b1 = b1
    b2 = b2
    Bundles = {b1, b2}
    Processes = {p1, p2, p3}
    Provider <- Providers
    Missing = Missing
    Empty = Empty
    Garbled = Garbled
    MaxActive = 2
SYMMETRY Interchangeable
INVARIANT SelectedIsSound
PROPERTY LoneCommandsKeepTheirWord
