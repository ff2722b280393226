SPECIFICATION Spec
CONSTANTS
    onu = onu
    cable = cable
    s1 = s1
    o1 = o1
    b1 = b1
    b2 = b2
    v1 = v1
    v2 = v2
    q1 = q1
    r1 = r1
    r2 = r2
    NoDoc = NoDoc
    Products = {onu, cable}
    Serials = {s1}
    SerialTracked = {onu}
    ProductOf <- MCProductOf
    Orders = {o1}
    Bills = {b1, b2}
    Sales = {v1, v2}
    PurchaseReturns = {q1}
    SalesReturns = {r1, r2}
    Workers = {w1, w2}
    Line <- MCLine
    BillLines <- MCBillLines
    Original <- MCOriginal
    OrderOf <- MCOrderOf
    OrderedProduct <- MCOrdered
    OrderQuantities = {1}
    Restockable = {r1}
    Held = {r1}
    StockAtStart <- MCStock
SYMMETRY Sym
CONSTRAINT FewJournals
CHECK_DEADLOCK FALSE
INVARIANTS
    AssignedByLiveSale
    ReturnedByLiveReturn
    StockFollowsDocuments
    LedgerExplainsStock
    RegisterMatchesStock
    JournalsFollowDocuments
