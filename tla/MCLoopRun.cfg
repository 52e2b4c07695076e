SPECIFICATION Spec
CONSTANTS
    Count = 1
    Policies <- TicketPolicies
    Sinks <- SinkKinds
    Reaches <- ListingReaches
    MailLimit = 2
    TicketLimit = 2
    TicketsEach = 1
INVARIANTS LoopRunIsHonest LoopsAreReal
PROPERTIES RunEnds
CHECK_DEADLOCK FALSE
