\* One card and two reviewers over three days; two databases, fields and rows; two
\* objects of two types; two notes, folders and tags; three audit entries; three
\* blocks of two notes; three canvas nodes with two edges; two
\* notes to index, one tag within the other; two sealed notes and two passwords.
SPECIFICATION StorePartsSpec
CONSTANTS
    f1 = f1
    f2 = f2
    f3 = f3
    k1 = k1
    k2 = k2
    t1 = t1
    t2 = t2
    Decks = {d1}
    Cards = {c1}
    Reviewers = {r1, r2}
    Qualities = {2, 5}
    RetentionDays = 0
    LastDay = 2
    MaxReviews = 3
    DatabaseIds = {d1, d2}
    FieldIds = {f1, f2, f3}
    RowIds = {r1, r2}
    Values <- SomeValues
    EmptyValue = 0
    CellLists <- SomeCells
    CellUpdates <- SomeUpdates
    ViewSettings <- SomeSettings
    TypeIds = {t1, t2}
    PropertyIds = {k1, k2}
    RelationIds = {r1}
    ObjectIds = {o1, o2}
    Updaters = {u1, u2}
    MaxWrites = 2
    PropertyLists <- SomeProperties
    NoteIds = {n1, n2}
    FolderIds = {f1, f2}
    TagIds = {t1, t2}
    AttachmentIds = {a1}
    WorkspaceIds = {w1}
    MemberIds = {m1}
    TagLists <- SomeTags
    NoTopFolder = top
    AuditUsers = {u1, u2}
    AuditTimes = {1, 2, 3}
    PageLimit = 1
    MaxEntries = 3
    Notes = {n1, n2}
    MaxBlocks = 3
    MaxPlace = 2
    CanvasNodes = {n1, n2, n3}
    Places = {0, 1, 2, 3}
    Widths = {1}
    MaxEdges = 2
    SearchNotes = {n1, n2}
    Words = {w1, w2}
    SearchFolders = {f1}
    NoSearchFolder = top
    SearchTags = {t1, t2}
    TagWithin <- SomeTagWithin
    MaxIndexCalls = 3
    Passwords = {p1, p2}
    SealedNotes = {n1, n2}
    SealedTexts = {x1}
    VaultReaders = {r1}
    VaultKeepers = {k1}
    MaxSalts = 2
    MaxSeals = 4
INVARIANTS
    StorePartsTypeOK
    NothingLeftBehind
    ObjectsHold
    AnswersHold
    SearchesFind
    OrdersHold
PROPERTIES
    CallsComplete
CHECK_DEADLOCK FALSE
