SPECIFICATION SenderSpec
CONSTANTS
    Threads = {a, b}  Requests = {r1, r2, r3}  None = None
INVARIANTS TwiceOnlyOnAReusedConnection ReportsAreTrue
PROPERTIES EveryRequestEnds
