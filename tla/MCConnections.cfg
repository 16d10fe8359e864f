SPECIFICATION MCSpec
CONSTANTS
  Tablets = {t1, t2}
  MaxPairings = 1
  Docs = {d1}
  Versions = {0, 2}
  MaxTime = 3
  HashSeconds = 1
  Skew = 0
  Window = 2
  None = None
  Missing = Missing
  Order <- LocalFirst
  Groups <- OneGroup
  Shelves <- SomeShelves
  PAGE_SIZE = 2
  MAX_PAGES = 3
  MAX_BATCH = 1
  Statuses = {0, 403, 500, 503, 4030}
  Clicks = {"once", "always", "deny"}
  Bodies = 2
  MaxEdits = 1
  MaxCalls = 2
  Garbled = Garbled
  Rows = {r1, r2}
  TagOf <- OneTag
  VaultFolders = {"f", "g"}
  FINGERPRINT_VERSION = 3
  SettingsMoves = 2
  Ladder <- OneModel
  Fits = {"big"}
  Chunks <- SomeChunks
  Vaults = {v1, v2}
  Fetches = {k1}
  ModelOps = {"press", "ignored", "wrong", "pick", "reload", "antivirus", "engine", "extract", "full", "lose", "crash"}
  ModelChanges = 4
  MAX_FRUITLESS_ATTEMPTS = 1
INVARIANTS TrustIsKept FilesAreAsIndexed AnswersAreWhole
PROPERTIES OnlyWhatWasReadIsPatched UpgradesKeepPlaces ModelIsWhole
CHECK_DEADLOCK FALSE
