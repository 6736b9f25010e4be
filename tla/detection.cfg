SPECIFICATION DetectionSpec
CONSTANTS
    HasMappings = TRUE
    HasScanner = TRUE
    MaxText = 2
    MaxPieces = 4
    MaxLines = 4
    MaxChunk = 4
    Overlap = 2
    MaxBytes = 7
    MaxChunks = 4
    Spans <- ChainedSpans
    Scores = {45, 90}
    MinConfidence = 50
    Bonus = 15
    Bodies <- SmallBodies
    MaxChars = 3
    NerLimit = 2
    Phrases <- SmallDictionary
    Vocabulary = {"a", "b"}
    MaxWords = 4
    Articles = {"deceptive", "age"}
    R2Scores = {20, 40, 95}
    Threshold = 55
    EarlyExit = 30
    WindowWords = 2
    MinFlags = 2
    TagTypes <- TwoTypes
    Weighings <- SmallWeighings
    Transitions <- SmallTransitions
    Cutoff = 1
    MaxTags = 3
    Terms <- SmallTerms
    FirstNames = {"ann", "lee"}
    Surnames = {"lee", "roe"}
    Lexicon = {"ann", "lee", "roe", "of"}
    MaxSentence = 5
    MaxHits = 3
    Extent = 5
    Characters = {"1", "a", "A", "-", "@"}
    MaxValue = 5
    Tweaks = {1, 2}
    Ff1 <- ShiftOn
    Ff1Inv <- ShiftBack
    MapWidth = 4
    MapHeight = 3
    Sizes <- SomeSizes
    ScreenSizes <- SomeScreens
    BarSide = 4
    ClearSets <- SomeClearSets
    MinRegion = 1
    Readings <- SomeReadings
    Confidences = {60, 90}
    Dictionary = 2
    Secrets <- SomeSecrets
    Frames <- SomeFrames
    LargeSide = 10
    Looks <- SomeLooks
    TileLooks <- SomeTileLooks
    FaceThreshold = 60
    MediaBodies <- SomeBodies
    Fates <- SomeFates
    ArrayIndices = {"0", "1"}
    PointerParts <- SlashParts
    PathParts <- DotParts
    Markdowns <- SomeMarkdowns
    KnownWords <- SomeKnownWords
    KnownNames <- SomeKnownNames
    MaxLetters = 4
    ModelDirs <- SomeDirs
    Passages <- SomePassages
    MaxLength = 6
    LabelCount = 4
    Sureness = {40, 90}
    NerThreshold = 60
    Providers <- SomeProviders
    CallPaths <- SomePaths
    HeaderLists <- SomeHeaders
    CallTexts <- SomeTexts
    AnswerHeads <- SomeHeads
    AnswerLines <- SomeLines
INVARIANTS
    DetectionTypeOK
    StreamIsWhole
    EntitiesAreReported
    FindingsAreAnswered
    AsciiIsRedacted
    EvidenceCounts
    LabelsAreBest
    FindingsSurvive
    TokenTellsValue
    TextIsHidden
    FacesAreHidden
    MediaFindsItsBlock
    OffsetsAddressText
    TokensAreReported
    ForwardedWhole
CHECK_DEADLOCK FALSE
