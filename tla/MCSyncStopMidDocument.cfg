CONSTANTS
    d1 = d1
    d2 = d2
    p1 = p1
    a = a
    b = b
    F = F
    G = G
    Docs = {d1}
    PdfDocs = {}
    Pages = {p1}
    NoPage = NoPage
    Tags = {a, b}
    Folders = {F, G}
    NoFolder = NoFolder
    Title <- OneName
    Copies = 2
    InitDevices <- TwiceTagged
    InitMappings <- SameFolder
    OwnFiles = {}
    Ops = {"draw", "stop"}
    MidRun = {"stop"}
    Changes = 2
SPECIFICATION Spec
INVARIANTS StoppedRunIsCarriedOn
