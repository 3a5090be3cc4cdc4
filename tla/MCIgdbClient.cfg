SPECIFICATION Spec
CONSTANTS
    Proc = {p1, p2}
    Cancellable = {p2}
    Token = {t1, t2}
    NoToken = NoToken
    Free = Free
    PerSecond = 1
    Margin = 1
    Lifetime = {1, 3}
    HttpTimeout = 1
    MaxAhead = 2
    SearchMinRunes = 2
    SearchMaxRunes = 4
    SearchDefaultLimit = 1
    SearchMaxLimit = 2
    MaxTerm = 5
    NoLimit = NoLimit
    NotANumber = NotANumber
INVARIANTS
    TypeOK
    RefusedTokenNotRepeated
    TokenOutlivesRequest
PROPERTIES
    TermStaysInItsLiteral
    OneCallerPerInterval
    TokenReplacedForCause
    EveryCallReturns
