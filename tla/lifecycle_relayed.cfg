\* A stream of lines without text, with a timeout shorter than the TTL.
SPECIFICATION Spec
CONSTANTS
    Requests = {r1}
    RequestTimeout = 2
    TTL = 3
    FailClosed = TRUE
    RiEnabled = FALSE
    JournalOpen = TRUE
INVARIANT NoRawReply
