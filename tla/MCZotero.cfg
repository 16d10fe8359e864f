SPECIFICATION MCSpec
CONSTANTS
  None = None
  NumMarks = 2
  Values = {a, b}
  MaxItems = 3
  MarkChanges = 2
  NumAdded = 2
  Texts = {"a"}
  Parents = {"p", "q"}
  NoteKeys = {1, 2, 3}
  NoteChanges = 2
  MaxRenders = 3
  MaxAttachments = 3
  RenderChanges = 3
  Papers = {"a", "b"}
  MaxDocs = 2
  UserMoves = 2
  Alone = TRUE
SYMMETRY Symmetry
INVARIANTS ZoteroMirrorsTheTablet OneOfEach
PROPERTIES UsersWordsStand DeletedIsNotRemade RenderIsTheirs PapersAreKnown
CHECK_DEADLOCK FALSE
