SPECIFICATION Spec
CONSTANTS
    kt = kt
    wh = wh
    onu = onu
    cable = cable
    s1 = s1
    s2 = s2
    NoOp = NoOp
    NoRequest = NoRequest
    Branches = {kt, wh}
    Products = {onu, cable}
    Serials = {s1, s2}
    SerialTracked = {onu}
    ProductOf <- MCProductOf
    StockAtStart <- MCStock
    DamagedAtStart <- MCDamaged
    BranchAtStart <- MCBranch
    Ops = {o1, o2, o3, o4}
    Workers = {w1}
    Requests <- ReversalRequests
    ReverseTypes <- AllReversible
    ReceiveTypes <- None
SYMMETRY OpsSymm
CHECK_DEADLOCK FALSE
INVARIANTS
    StockFollowsOperations
    LedgerExplainsStock
    RegisterMatchesStock
    JournalsFollowOperations
