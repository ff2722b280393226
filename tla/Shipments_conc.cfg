SPECIFICATION Spec
CONSTANTS
    kt = kt
    wh = wh
    pk = pk
    onu = onu
    cable = cable
    s1 = s1
    s2 = s2
    h1 = h1
    h2 = h2
    NoShip = NoShip
    NoReceipt = NoReceipt
    Branches = {kt, wh, pk}
    Products = {onu, cable}
    Serials = {s1, s2}
    SerialTracked = {onu}
    ProductOf <- MCProductOf
    StockAtStart <- MCStock
    BranchAtStart <- MCBranch
    Ships = {h1, h2}
    Workers = {w1, w2}
    Manifest <- Overlap
    ReceiptsOf <- CarefulReceipts
    Asks <- DirectRoutes
    MaxJournals = 2
CHECK_DEADLOCK FALSE
INVARIANTS
    NoUnitStranded
