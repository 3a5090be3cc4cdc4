SPECIFICATION Spec
SYMMETRY Symmetry
VIEW View
CONSTANTS
    User = {u1, u2}
    Game = {g1}
    Score = {s1}
    Unrated = Unrated
    Proc = {p1, p2}
    MaxRows = 3
INVARIANTS
    TypeOK
    RatedWasFinished
PROPERTIES
    RatingKept
