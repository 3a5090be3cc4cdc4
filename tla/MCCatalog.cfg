SPECIFICATION Spec
SYMMETRY Symmetry
CONSTRAINT OneEdit
CONSTANTS
    Game = {g1, g2}
    t1 = t1
    t2 = t2
    Tag = {t1, t2}
    TagLists <- BothOrders
    NoRow = NoRow
    Proc = {p1, p2}
    MaxVersion = 1
    Title = {"t1", "t2"}
    Summary = {"s1", "s2"}
    Cover = {"c1", ""}
    ParentId = {"p1", "p2"}
    Seconds <- Instants
    GameType = {"DLC", "Mod", "Brand New Type"}
    kindSlugs <- TwoKnownKinds
    ListOfTags <- TagListsOfId1
    Stored <- FullAndEmpty
    Missing = Missing
    Blank = ""
    SecondsPerDay = 2
INVARIANTS
    TypeOK
    WholeImports
    AnsweredIdsHold
PROPERTIES
    ReadsAsAnswered
    NeverBehindItsStart
    KeepsCatalogTable
