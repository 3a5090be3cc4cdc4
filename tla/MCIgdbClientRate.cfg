SPECIFICATION Spec
SYMMETRY Symmetry
CONSTANTS
    Proc = {p1, p2, p3}
    Cancellable = {p3}
    Token = {t1, t2}
    NoToken = NoToken
    Free = Free
    PerSecond = 2
    Margin = 1
    Lifetime = {3}
    HttpTimeout = 1
    MaxAhead = 2
    SearchMinRunes = 2
    SearchMaxRunes = 4
    SearchDefaultLimit = 1
    SearchMaxLimit = 2
    MaxTerm = 5
    NoLimit = NoLimit
    NotANumber = NotANumber
INVARIANT WithinRateLimit
