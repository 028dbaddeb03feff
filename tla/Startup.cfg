SPECIFICATION FairSpec
CONSTANTS
    Texts <- MCTexts
    Numerals <- MCNumerals
    Canonical <- MCCanonical
    CommandLines <- MCCommandLines
    Builtins <- MCBuiltins
    Plugins = {"shadowing", "json"}
    Taken = {"json"}
    Contents <- MCContents
    NameOf <- MCNameOf
    Listings <- MCListings
    Split <- MCSplit
    Normal <- MCNormal
    MaxPicks = 2
    QuitCodes = {0, 3}
INVARIANTS
    TypeOK
    ReadByGrammar
    RegistryIsLastLoaded
    FailureContained
    PathRestored
    RunsWhatWasAsked
PROPERTIES
    StartupEnds
