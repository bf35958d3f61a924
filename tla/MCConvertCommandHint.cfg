SPECIFICATION Spec
CONSTANTS
    MaxSourceBytes = 2
    MaxHTTPBytes = 1
    typeA = typeA
    typeB = typeB
    setA = setA
    setB = setB
    extA = extA
    extB = extB
    nameA = nameA
    nameB = nameB
    nameC = nameC
    bad = bad
    empty = empty
    None = empty
    Unsafe = {bad}
    Suffix <- Suffixes
    TypeByExtension <- Extensions
    DetectContentType <- Contents
    ExtensionsByType <- Types
    Calls <- Hinted
INVARIANT CallerHintsWin
