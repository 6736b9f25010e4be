SPECIFICATION Spec
CHECK_DEADLOCK FALSE
CONSTANTS
    Fields <- DottedFields
    FieldCells <- TwoAndOne
    Values = {"phone", "email", "iban", "person", "place"}
    Kind <- MCKind
    Numeric = {"phone"}
    FailModes = {"closed"}
    Attachments <- MCAttachments
    Hashes = {"h", "k"}
    Letters <- MCLetters
    AnswerItems = 1
INVARIANTS
    ClosedHidesAll
