SPECIFICATION Spec
CONSTANTS
    None = None
    Serials = {s1, s2}
    Assets = {a1, a2}
    Workers = {w1, w2}
    Places = {"CUSTOMER_ASSIGNED", "POP_LOCATION_ASSIGNED"}
    PostStatuses = {"ASSIGNED", "IN_STOCK", "COLLECTED", "EXCHANGED"}
    PatchStatuses = {"ASSIGNED", "IN_STOCK", "COLLECTED", "EXCHANGED"}
    AssetStatuses = {"DEPLOYED", "DISPOSED"}
    Dispositions = {"RESTOCK", "DAMAGE"}
    MaxStock = 3
SYMMETRY Sym
CONSTRAINTS UntilStruck FewRows
CHECK_DEADLOCK FALSE
INVARIANTS
    ValueFollowsStock
    LedgerExplainsStock
    RegisterMatchesStock
    AssetNamesUnitOut
