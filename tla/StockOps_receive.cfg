SPECIFICATION Spec
CONSTANTS
    kt = kt
    wh = wh
    onu = onu
    cable = cable
    s1 = s1
    s2 = s2
    NoOp = NoOp
    NoRequest = NoRequest
    Branches = {kt, wh}
    Products = {onu, cable}
    Serials = {s1, s2}
    SerialTracked = {onu}
    ProductOf <- MCProductOf
    StockAtStart <- MCStock
    DamagedAtStart <- MCDamaged
    BranchAtStart <- MCBranch
    Ops = {o1, o2, o3}
    Workers = {w1, w2}
    Requests <- AllRequests
    ReverseTypes <- AllReversible
    ReceiveTypes <- PulloutOnly
SYMMETRY Symm
CONSTRAINT Apart
CHECK_DEADLOCK FALSE
INVARIANTS
    StockFollowsOperations
    RegisterMatchesStock
