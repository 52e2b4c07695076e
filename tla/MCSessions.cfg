CONSTANTS
    Full = 40
    Place = 2
    DEFAULT_COUNT = 2
    DEFAULT_MIX <- MCDefaultMix
    CaseCategory <- MCCaseCategory
    Requests <- MCRequests
    Configured <- MCConfigured
    Answers <- MCAnswers
    OldFiles <- MCOldFiles
    LoadFiles <- MCLoadFiles
    Second = 20
    P99MinMs = 2
    Window = 1
    MaxRuns = 2
    Pauses = {0, 1}
    MaxClock = 3
    MaxFaults = 1
    Commands <- MCCommands
    P = 23
    A = 20
    B = 15
    N = 17
    G <- MCG
    Bits = 4
    MaxLength = 8
    Drills <- MCDrills
SPECIFICATION Spec
INVARIANTS BlastIsHonest ReplaysAreFaithful QuietCompareIsEarned LoadCompareIsRight SigcheckIsRight SignaturesAreRight
CHECK_DEADLOCK FALSE
