SPECIFICATION Spec
SYMMETRY Symmetry
CONSTANTS
    Jti = {j1, j2, j3}
    Family = {f1}
    Proc = {p1, p2}
    NoJti = NoJti
    NoRow = NoRow
    RefreshTokenExpiry = 3
    RefreshGrace = 1
    Second = 1
    MaxTime = 3
INVARIANT EndedFamilyIsDead
