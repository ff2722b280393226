SPECIFICATION Spec
CONSTANTS
    kt = kt
    wh = wh
    pk = pk
    onu = onu
    cable = cable
    s1 = s1
    s2 = s2
    h1 = h1
    h2 = h2
    NoShip = NoShip
    NoReceipt = NoReceipt
    Branches = {kt, wh, pk}
    Products = {onu, cable}
    Serials = {s1, s2}
    SerialTracked = {onu}
    ProductOf <- MCProductOf
    StockAtStart <- MCStock
    BranchAtStart <- MCBranch
    Ships = {h1, h2}
    Workers = {w1, w2}
    Manifest <- Mixed
    ReceiptsOf <- FullReceipts
    Asks <- EveryRoute
    MaxJournals = 5
CONSTRAINT Apart
CHECK_DEADLOCK FALSE
INVARIANTS
    StockFollowsShipments
    IncomingMatchesTransit
    RegisterMatchesStock
    JournalsFollowShipments
    LedgerExplainsStock
