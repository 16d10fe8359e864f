CONSTANTS
    f1 = f1
    f2 = f2
    c = c
    Flows = {f1, f2}
    Kinds = {"sync", "auto", "all", "note", "pass"}
    UserOps = {"stop", "dialog", "setting", "unload"}
    Units = 1
    Changes = {c}
    None = None
    Work <- SomeWork
    SCAN_PARALLELISM = 2
    StatusMoves = 3
SPECIFICATION MCSpec
INVARIANTS OneRunAtATime StopsAreAsked 
PROPERTIES NothingForgotten IsOneWriter LockIsFreed
CHECK_DEADLOCK FALSE
