\* Three handlers on two CVs; a parse may take all the time a claim lasts.
SPECIFICATION FairSpec
CONSTANTS
    c1 = c1
    c2 = c2
    x1 = x1
    x2 = x2
    h1 = h1
    h2 = h2
    h3 = h3
    None = None
    Cvs <- MCCvs
    Handlers <- MCHandlers
    Contents <- MCContents
    Stale = 2
    MaxParse = 2
INVARIANTS
    TypeOK
    OneParser
    EditKept
    CompletedHasData
PROPERTIES
    CompletedIsFinal
    NeverStuck
