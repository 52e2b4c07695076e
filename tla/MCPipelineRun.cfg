CONSTANTS
    Commands <- MCCommands
    GivenModes <- MCGivenModes
    Configured <- MCConfigured
    Kinds <- MCKinds
    Strays <- MCStrays
    StoreLimit <- MCStoreLimit
    NoRecord = NoRecord
SPECIFICATION Spec
INVARIANTS VerifyIsRight RedeliverIsRight SteadyRunsAreRight RunIsHonest
PROPERTIES RunEnds
