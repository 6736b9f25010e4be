\* A timeout longer than the TTL, which no validation of the config excludes.
SPECIFICATION Spec
CONSTANTS
    Requests = {r1}
    RequestTimeout = 3
    TTL = 2
    FailClosed = TRUE
    RiEnabled = FALSE
    JournalOpen = TRUE
INVARIANT NoRawText
