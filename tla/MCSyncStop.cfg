CONSTANTS
    d1 = d1
    d2 = d2
    p1 = p1
    a = a
    b = b
    F = F
    G = G
    Docs = {d1, d2}
    PdfDocs = {}
    Pages = {p1}
    NoPage = NoPage
    Tags = {a}
    Folders = {F}
    NoFolder = NoFolder
    Title <- OneName
    Copies = 2
    InitDevices <- Tagged
    InitMappings <- SameFolder
    OwnFiles = {}
    Ops = {"draw", "tag", "trash", "stop"}
    MidRun = {"draw", "stop"}
    Changes = 4
SPECIFICATION StopSpec
INVARIANTS NoStrays ActivePathsDistinct
PROPERTIES Converges
