SPECIFICATION Spec
SYMMETRY Symmetry
CONSTRAINT SmallCache
CONSTANTS
    Photo = {x, y}
    MaxImagePixels = 5
    MaxInt = 7
    Name = {n1, n2, n3}
    Id = {u1, u2}
    Visitor = {v1}
    NoId = NoId
    NoName = NoName
    NoVersion = NoVersion
    NoPhoto = NoPhoto
INVARIANTS
    TypeOK
    OnlyPublicListed
    PhotoIsCurrent
PROPERTIES
    DecodesAreBounded
