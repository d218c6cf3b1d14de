SPECIFICATION Spec
CONSTANTS
    NameOrder <- Names
    Beginnings <- Starts
    Matches <- Globs
    Root = 1
    Nowhere = 0
    Home <- H
    Orderings = {"-d", "-a", "-p"}
    Sortings = {"-w"}
    FileSystems <- TheSystems
    Lines <- SomeLines
    Characters <- AllCharacters
    MaxTyped = 4
    Masks <- AllMasks
INVARIANTS GivenOneCommand ListingSound ShowsTheListing RepeatChangesNothing
PROPERTIES OrderKept RestrictedOnlyByClick
CHECK_DEADLOCK FALSE
