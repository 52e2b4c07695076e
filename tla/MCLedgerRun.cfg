CONSTANTS
    NTags = 2
    Records <- MCRecords
    Contents <- MCContents
    Evolves <- MCEvolves
    Answers <- MCAnswers
    Correct <- MCCorrect
    CanEnumerate = TRUE
    QuietWindow = 2
    MaxWait = 3
    PollInterval = 1
    Horizon = 3
SPECIFICATION FairLedgerSpec
INVARIANTS ExitIsEarned UnseenIsNotLost
PROPERTIES RunEnds
