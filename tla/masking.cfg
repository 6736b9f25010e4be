SPECIFICATION Spec
CHECK_DEADLOCK FALSE
CONSTANTS
    Fields <- PlainFields
    FieldCells <- TwoAndOne
    Values = {"phone", "email", "iban", "person", "place"}
    Kind <- MCKind
    Numeric = {"phone"}
    FailModes = {"open", "closed"}
    Attachments <- MCAttachments
    Hashes = {"h", "k"}
    Letters <- MCLetters
    AnswerItems = 2
INVARIANTS
    TypeOK
    MaskedOrCounted
    CleanedIsSent
    RoundTrip
