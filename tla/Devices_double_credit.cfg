SPECIFICATION Spec
CONSTANTS
    None = None
    Serials = {s1, s2}
    Assets = {a1, a2}
    Workers = {w1}
    Places = {"CUSTOMER_ASSIGNED"}
    PostStatuses = {}
    PatchStatuses = {"COLLECTED"}
    AssetStatuses = {}
    Dispositions = {"RESTOCK"}
    MaxStock = 3
CHECK_DEADLOCK FALSE
INVARIANT
    NeverCreditedTwice
