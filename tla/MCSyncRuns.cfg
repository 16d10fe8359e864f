CONSTANTS
    d1 = d1
    d2 = d2
    p1 = p1
    a = a
    b = b
    F = F
    G = G
    Docs = {d1}
    PdfDocs = {d1}
    Pages = {p1}
    NoPage = NoPage
    Tags = {a, b}
    Folders = {F}
    NoFolder = NoFolder
    Title <- OneName
    Copies = 4
    InitDevices <- AnyTagged
    InitMappings <- SameFolder
    OwnFiles = {}
    Ops = {"draw", "tag", "trash", "edit", "undo", "unfence", "delete", "rename", "crash", "fail", "keep", "unreadable"}
    MidRun = {"draw", "delete", "crash", "fail", "keep", "unreadable"}
    Changes = 4
SPECIFICATION MCSpec
INVARIANTS HashesAreTrue NothingIsPassedBy
PROPERTIES UserWordsKept OrphanedForAReason
