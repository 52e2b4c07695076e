CONSTANTS
    Token = 2
    Capacity = 4
    Rates <- MCRates
    MinWaitInverse = 2
    MaxMeter = 12
SPECIFICATION MeteredSpec
INVARIANTS NeverOverIssued
