SPECIFICATION MCSpec
CONSTANTS
    t1 = t1
    t2 = t2
    a1 = a1
    a2 = a2
    d1 = d1
    d2 = d2
    k1 = k1
    None = None
    Gone = Gone
    Tokens = {t1, t2}
    Docs = {d1}
    Keys = {k1, k2}
    Texts = {x, bad}
    Refusable = {bad}
    Accounts = {a1}
    AccountOf <- OneAccount
    Batch = 2
    Ops = {"mark", "erase", "part", "deleteBook", "rename", "switch", "token", "again", "stop", "fail"}
    Changes = 3
INVARIANTS OneAccountIsRemembered
PROPERTIES DeletedStaysDeleted EndsSettled
