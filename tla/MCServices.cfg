SPECIFICATION MCSpec
CONSTANTS
  None = None
  MAX_REQUESTS_IN_FLIGHT = 2
  JobItems = 3
  JobLimit = 2
  ReadCalls = {}
  PoliteCalls = {p1}
  PlainCalls = {q1}
  OutageRetries = 1
  Bought = "bought"
  Typo = "typo"
  SLOTS = 1
  TRIAL_DAYS = 2
  CHECK_INTERVAL_DAYS = 1
  MaxDay = 3
  MaxActivations = 3
  Overlap = FALSE
  Ladder <- TwoModels
  Fits = {"big", "small"}
  Chunks <- SomeChunks
  Vaults = {v1}
  Fetches = {k1}
  ModelOps = {"press", "ignored", "wrong", "pick", "reload", "antivirus", "engine", "extract", "full", "lose", "crash"}
  ModelChanges = 3
  MAX_FRUITLESS_ATTEMPTS = 2
  p1 = p1
  q1 = q1
  v1 = v1
  k1 = k1
  b1 = b1
  b2 = b2
  Readers = {b1, b2}
  OffReader = OffReader
  NotReady = NotReady
  MostNotes = 2
  Verdicts <- SomeVerdicts
  DigestChanges = 3
  Scripts <- SomeScripts
  Parallelism = 2
  MaxAttempts = 3
  MaxInk = 2
  VisionUnits <- SomeSheaves
  CropWords <- SomeCropWords
  AlikeWords <- SomeAlike
  BatchSize = 2
  MaxProcesses = 2
  MostUnreadable = 1
INVARIANTS SlotsExact TranscriptionIsHonest
PROPERTIES ProIsHonest LostNotesAreRead WhatIsBegunEnds
CHECK_DEADLOCK FALSE
