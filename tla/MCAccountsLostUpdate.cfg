SPECIFICATION Spec
SYMMETRY Symmetry
CONSTANTS
    Name = {n1, n2}
    Address = {a1, a2}
    Text = {t1}
    NoBio = NoBio
    NoUser = NoUser
    Absent = Absent
    Proc = {p1, p2}
    MaxUsers = 2
PROPERTY AbsentFieldsKept
