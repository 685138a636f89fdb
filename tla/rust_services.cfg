\* Two peers, three commands; two machines, three commits; three notes and two
\* algorithms; two plugins; documents of three lines; formulas of up to three tokens
\* and their growths.
SPECIFICATION ServicesSpec
CONSTANTS
    n1 = n1
    n2 = n2
    n3 = n3
    t1 = t1
    Peers = {p1, p2}
    Payloads = {x1}
    MaxLinks = 2
    MaxCommands = 3
    MaxEvents = 3
    Machines = {m1, m2}
    MaxCommits = 3
    Nodes = {n1, n2, n3}
    Builds <- SomeBuilds
    GraphCallers = {g1}
    Computers = {c1}
    Algorithms = {degree, pagerank}
    Asked = {degree, pagerank, closeness}
    Weights = {1, 3}
    MaxChanges = 2
    Plugins = {p1, p2}
    Permissions = {read, write}
    Modules = {w1, w2}
    BadModules = {w2}
    LineKinds = {"text", "blank", "heading", "quote", "task", "item", "numbered",
                 "subtask", "row1", "row2", "half", "bar", "fence", "audio", "colons", "maths", "maths1"}
    MaxLines = 3
    Leaves <- SomeLeaves
    MaxSize = 3
    RowValues <- OneRow
    AllRows <- TwoRows
INVARIANTS
    ServicesTypeOK
    TwoSidesAgree
    CacheFresh
    SearchesExact
    MarkdownFaithful
    FormulasFaithful
PROPERTIES
    CommandsTaken
    WorkKept
CHECK_DEADLOCK FALSE
