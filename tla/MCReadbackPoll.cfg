CONSTANTS
    NTags = 2
    Records <- MCRecords
    Contents <- MCContents
    Evolves <- MCEvolves
    Answers <- MCAnswers
    QuietWindow = 2
    MaxWait = 3
    PollInterval = 1
    Horizon = 4
SPECIFICATION FairSpec
INVARIANTS SettledIsQuiet ChangingWasSeen UnsettledIsOutOfTime WrongUrlIsNoticed
PROPERTIES Terminates
