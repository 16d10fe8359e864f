CONSTANTS
    None = None
    Shapes <- SomeShapes
    Columns <- SomeColumns
    MaxStrokes = 3
    Pieces <- SomePieces
    GUTTER_MIN_LINES = 2
    Lines <- SomeLines
    MaxLines = 5
    MAX_SENTENCE_REACH = 2
    Marks <- SomeMarks
    MaxDrawn = 3
    RunTexts <- SomeRuns
    Styles = {3, 4}
    TextWidth = 4
    MaxRuns = 3
    FileBlocks <- SomeBlocks
    MaxBlocks = 5
    MaxBad = 1
    MAX_INK_PARTS = 2
    p1 = p1
    p2 = p2
    p3 = p3
    b1 = b1
    off = off
    PageIds = {p1, p2, p3}
    StartOrder <- TwoPages
    Anchored = {p1}
    Faint = {p3}
    Backends = {b1, off}
    Off = off
    FailsAfterShuffle = FALSE
    Changes = 3
    DeviceTags = {"t1", "?"}
    Folders = {"f"}
    Papers = {"p"}
    TagName <- SomeTagNames
    Unknown = Unknown
    MayCrash = TRUE
    MaxMoves = 5
    s1 = s1
    s2 = s2
    s3 = s3
    added1 = added1
    added2 = added2
    Sheets = {s1, s2, s3, added1, added2}
    SourceOf <- SomeSources
    StartSheets <- SomeOrders
    StartContents <- SomeContents
    Places <- SomePlaces
    Outline <- SomeOutline
    TwoColumned = {1}
    Scanned = {3}
    TitlePlace <- AtTheTop
    DocChanges = 1
SPECIFICATION MCSpec

INVARIANTS QuotesStandOnce
CHECK_DEADLOCK FALSE
