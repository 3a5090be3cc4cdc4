SPECIFICATION Spec
SYMMETRY Symmetry
VIEW View
CONSTRAINT FewTokens
CONSTANTS
    Jti = {j1, j2, j3}
    Family = {f1, f2}
    Proc = {p1, p2}
    NoJti = NoJti
    NoRow = NoRow
    RefreshTokenExpiry = 2
    RefreshGrace = 0
    Second = 1
    MaxTime = 3
INVARIANTS
    TypeOK
    LateReplayRefused
    TokenInHandHasRow
    RotationLeavesSuccessor
PROPERTIES
    RevocationIsFinal
    OverStaysOver
    KeepsSessionLife
