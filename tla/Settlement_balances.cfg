SPECIFICATION Spec
CONSTANTS
    b1 = b1
    v1 = v1
    v2 = v2
    p1 = p1
    p2 = p2
    c1 = c1
    c2 = c2
    None = None
    Bills = {b1}
    Sales = {v1, v2}
    Payments = {p1, p2, c1, c2}
    PayFor <- MCPayFor
    Amount <- MCAmount
    Total <- MCTotal
    Upfront <- MCUpfront
    BodyAmounts <- MCBodyAmounts
    LegacyAmounts = {1}
    MaxLegacy = 2
    Workers = {w1, w2}
SYMMETRY Sym
CHECK_DEADLOCK FALSE
INVARIANTS
    PaidIsPayments
    
    JournalsFollowPayments
    VoidedCarriesOnlyLate
