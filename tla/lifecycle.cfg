\* Two exchanges, a timeout equal to the TTL (both 300 s in the shipped
\* config): the safety of the lifecycle, the refinement of Exchange and what
\* the timers guarantee.
SPECIFICATION FairSpec
CONSTANTS
    Requests = {r1, r2}
    RequestTimeout = 3
    TTL = 3
    FailClosed = TRUE
    RiEnabled = TRUE
    JournalOpen = TRUE
INVARIANTS
    TypeOK
    NoRawText
    MappingOutlivesWait
    JournalIsTrue
PROPERTIES
    ImplementsExchange
    HandlerEnds
    StoreDrains
