SPECIFICATION GateSpec
SYMMETRY Symmetry
VIEW View
CONSTANTS
    Ip = {i1}
    Email = {e1}
    Proc = {p1, p2}
    IpMax = 2
    IpWindow = 3
    EmailMax = 2
    EmailWindow = 2
    Second = 2
    MaxTime = 5
    SweepThreshold = 2
    MaxResets = 1
CONSTRAINT FewResets
INVARIANTS
    GateTypeOK
    EachClientIsHeld
PROPERTY
    WaitIsEnough
