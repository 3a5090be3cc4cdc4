SPECIFICATION Spec
SYMMETRY Symmetry
VIEW View
CONSTRAINT BeginsPlain
CONSTANTS
    Game = {r1, r2}
    Id = {r1, r2}
    Version = {0, 1}
    Name = {0, 1}
    Tag = {t1}
    NoRow = NoRow
    User = {u1, u2}
    Proc = {p1, p2}
    MaxPosted = 2
    MaxReaders = 1
    MaxCommits = 1
    Nobody = Nobody
    NoId = NoId
    NoList = NoList
INVARIANTS
    TypeOK
    EntriesAreAsked
PROPERTIES
    ListIsCurrent
