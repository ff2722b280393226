---------------------------- MODULE TradeProofs ----------------------------
(***************************************************************************)
(* Proofs about Trade, for any set of products, units, orders, documents   *)
(* and concurrent requests: the types, that no stock row goes below zero,  *)
(* who holds a unit that is out, and that stock, movement rows, register   *)
(* and journals follow the documents that stand.                           *)
(***************************************************************************)
EXTENDS TradeConservation, Sums, TLAPS

(* The state in parts, none of which a step disturbs through another. *)
StockTyped == qoh \in [Products -> Int] /\ moved \in [Products -> Int]

OrdersTyped == /\ incoming \in [Products -> Nat]
               /\ order \in [Orders -> [status : OrderStatuses, qty : Nat]]

RegisterTyped == reg \in [Serials -> Register]

DocsTyped ==
    /\ bill \in [Bills -> {"NONE", "POSTED", "DELETED"}]
    /\ items \in [Bills -> Lines]
    /\ sale \in [Sales -> {"NONE", "POSTED", "CANCELLED"}]
    /\ ret \in [Returns -> {"NONE", "DRAFT", "POSTED", "CANCELLED"}]
    /\ damage \subseteq SalesReturns

JournalTyped == journal \in [Docs -> [post : Nat, contra : Nat]]

RequestsTyped == req \in [Workers -> Requests]

KnownTyped == known \in [stock : SUBSET Products, register : SUBSET Products,
                         rows : SUBSET Products]

LEMMA TypeParts ==
    TypeOK <=> /\ StockTyped /\ OrdersTyped /\ RegisterTyped /\ DocsTyped
               /\ JournalTyped /\ RequestsTyped /\ KnownTyped
  BY DEF TypeOK, StockTyped, OrdersTyped, RegisterTyped, DocsTyped, JournalTyped,
         RequestsTyped, KnownTyped

LEMMA LineFields ==
    ASSUME NEW l \in Lines
    PROVE  /\ l.product \in Products
           /\ l.qty \in Nat
           /\ l.serials \in SUBSET Serials
           /\ \A x \in l.serials : ProductOf[x] = l.product
           /\ l.product \in SerialTracked => Cardinality(l.serials) = l.qty
  BY DEF Lines, OneSerialPerUnit

(* Every document has a line, and only a bill's is in the state. *)
LEMMA LineTyped ==
    /\ \A d \in Sales \cup Returns : Line[d] \in Lines
    /\ \A d \in Sales \cup Returns : LineOf(d) = Line[d] /\ LineOf(d)' = Line[d]
    /\ \A d \in Bills : LineOf(d) = items[d] /\ LineOf(d)' = items'[d]
    /\ DocsTyped => \A d \in Docs : LineOf(d) \in Lines
  <1>1. \A d \in Sales \cup Returns : Line[d] \in Lines /\ d \notin Bills
    BY LineAssumption, TradeAssumption
  <1> QED BY <1>1 DEF LineOf, DocsTyped, Docs

LEMMA RequestFields ==
    ASSUME RequestsTyped, NEW w \in Workers
    PROVE  /\ req[w].kind \in {"bill", "deleteBill"} =>
                 req[w].doc \in Bills /\ req[w].line \in Lines
           /\ req[w].kind = "deleteOrder" => req[w].doc \in Orders /\ req[w].saw \in Nat
           /\ req[w].kind \in {"return", "approve", "cancelReturn"} => req[w].doc \in Returns
  <1> DEFINE r == req[w]
             OfBill == [kind : {"bill", "deleteBill"}, doc : Bills, saw : {"NONE", "POSTED"},
                        line : Lines]
             OfOrder == [kind : {"deleteOrder"}, doc : Orders, saw : Nat]
             OfReturn == [kind : {"return", "approve", "cancelReturn"}, doc : Returns,
                          saw : {"NONE", "DRAFT", "POSTED"}]
  <1>1. r = Idle \/ r \in OfBill \/ r \in OfOrder \/ r \in OfReturn
    BY Zenon DEF RequestsTyped, Requests
  <1>2. CASE r = Idle
    BY <1>2 DEF Idle
  <1>3. CASE r \in OfBill
    BY <1>3
  <1>4. CASE r \in OfOrder
    BY <1>4
  <1>5. CASE r \in OfReturn
    BY <1>5
  <1> QED BY <1>1, <1>2, <1>3, <1>4, <1>5

-----------------------------------------------------------------------------
(* What a step may do to the stock: nothing, take a document's quantity    *)
(* after the check that it is there, or add it.                            *)
StockStep ==
    \/ UNCHANGED <<qoh, moved>>
    \/ \E l \in Lines : \/ Restore(l)
                        \/ Deduct(l)
                        \/ /\ Covers(l)
                           /\ qoh' = Add(qoh, l, -l.qty)
                           /\ moved' = Add(moved, l, l.qty)

LEMMA StockStepTyped ==
    ASSUME StockTyped, StockStep
    PROVE  StockTyped'
  <1>1. ASSUME NEW l \in Lines, NEW f \in [Products -> Int], NEW n \in Int
        PROVE  Add(f, l, n) \in [Products -> Int]
    BY LineFields DEF Add
  <1>2. \A l \in Lines : l.qty \in Int /\ -l.qty \in Int
    BY LineFields
  <1> QED BY <1>1, <1>2 DEF StockTyped, StockStep, Restore, Deduct

LEMMA StockStepKeepsFloor ==
    ASSUME StockTyped, NoNegativeStock, StockStep
    PROVE  NoNegativeStock'
  <1> SUFFICES ASSUME NEW p \in Products PROVE qoh'[p] >= 0
    BY DEF NoNegativeStock
  <1>1. CASE UNCHANGED qoh
    BY <1>1 DEF NoNegativeStock
  <1>2. ASSUME NEW l \in Lines, qoh' = Add(qoh, l, l.qty) PROVE qoh'[p] >= 0
    BY <1>2, LineFields DEF Add, NoNegativeStock, StockTyped
  <1>3. ASSUME NEW l \in Lines, Covers(l), qoh' = Add(qoh, l, -l.qty)
        PROVE  qoh'[p] >= 0
    BY <1>3, LineFields DEF Add, Covers, NoNegativeStock, StockTyped
  <1> QED BY <1>1, <1>2, <1>3 DEF StockStep, Restore, Deduct

(* Posting and undoing a return. *)
LEMMA ReturnStock ==
    ASSUME NEW r \in Returns
    PROVE  /\ applyPurchaseReturnEffects(r) => StockStep
           /\ applySalesReturnEffects(r) => StockStep
           /\ undoPurchaseReturn(r) => StockStep
           /\ undoSalesReturn(r) => StockStep
  BY LineTyped DEF applyPurchaseReturnEffects, applySalesReturnEffects, undoPurchaseReturn,
         undoSalesReturn, StockStep

LEMMA EveryStockStep ==
    ASSUME RequestsTyped, [Next]_vars
    PROVE  StockStep
  <1>1. ASSUME NEW w \in Workers, post_purchaseInvoices(w) PROVE StockStep
    BY <1>1, RequestFields DEF post_purchaseInvoices, StockStep
  <1>2. ASSUME NEW w \in Workers, delete_Id2(w) PROVE StockStep
    BY <1>2, RequestFields DEF delete_Id2, StockStep
  <1>3. ASSUME NEW v \in Sales, post_salesInvoices(v) \/ post_salesInvoiceCancel(v)
        PROVE  StockStep
    BY <1>3, LineTyped DEF post_salesInvoices, post_salesInvoiceCancel, StockStep
  <1>4. ASSUME NEW w \in Workers,
               post_returns(w) \/ post_returnApprove(w) \/ post_returnCancel(w)
        PROVE  StockStep
    <2>1. req[w].doc \in Returns
      BY <1>4, RequestFields DEF post_returns, post_returnApprove, post_returnCancel
    <2>2. UNCHANGED <<qoh, moved>> => StockStep
      BY DEF StockStep
    <2>3. PostReturn(req[w].doc) => StockStep
      BY <2>1, ReturnStock DEF PostReturn
    <2> QED BY <1>4, <2>1, <2>2, <2>3, ReturnStock
            DEF post_returns, post_returnApprove, post_returnCancel
  <1>5. ASSUME UNCHANGED <<qoh, moved>> PROVE StockStep
    BY <1>5 DEF StockStep
  <1> QED
    BY <1>1, <1>2, <1>3, <1>4, <1>5
    DEF Next, vars, post_purchaseOrders, put_Id, patch_status, CheckDeleteOrder, Ask,
        CheckBill, CheckDeleteBill, CheckReturn, CheckApprove, CheckCancelReturn,
        delete_Id, Abandon

-----------------------------------------------------------------------------
(* Types, part by part. *)

LEMMA FlipTyped ==
    ASSUME RegisterTyped, NEW l, NEW from, NEW to \in UnitStatuses,
           SerialFlip(l, from, to)
    PROVE  RegisterTyped'
  BY DEF RegisterTyped, Register, SerialFlip

LEMMA ReturnEffects ==
    ASSUME RegisterTyped, DocsTyped, NEW r \in Returns,
           \/ r \in PurchaseReturns /\ applyPurchaseReturnEffects(r)
           \/ r \in SalesReturns /\ applySalesReturnEffects(r)
           \/ r \in PurchaseReturns /\ undoPurchaseReturn(r)
           \/ r \in SalesReturns /\ undoSalesReturn(r)
    PROVE  RegisterTyped' /\ damage' \subseteq SalesReturns
  <1>2. {"RETURNED_TO_VENDOR", "IN_STOCK", "SOLD"} \subseteq UnitStatuses
    BY DEF UnitStatuses
  <1>3. RegisterTyped'
    BY <1>2, FlipTyped
    DEF applyPurchaseReturnEffects, applySalesReturnEffects, undoPurchaseReturn,
        undoSalesReturn
  <1>4. damage' \subseteq SalesReturns
    BY DEF DocsTyped, applyPurchaseReturnEffects, applySalesReturnEffects,
           undoPurchaseReturn, undoSalesReturn
  <1> QED BY <1>3, <1>4

LEMMA JournalStep ==
    ASSUME JournalTyped, NEW d \in Docs, post(d) \/ reverse(d)
    PROVE  JournalTyped'
  BY DEF JournalTyped, post, reverse

LEMMA KnownStep ==
    ASSUME KnownTyped, NEW S \in SUBSET Products, SpoilStock(S) \/ SpoilRegister(S)
    PROVE  KnownTyped'
  BY DEF KnownTyped, SpoilStock, SpoilRegister

LEMMA KnownByDeletion ==
    ASSUME KnownTyped, DocsTyped, NEW b \in Bills, NEW l \in Lines, SpoilByDeletion(b, l)
    PROVE  KnownTyped'
  BY LineFields DEF KnownTyped, DocsTyped, SpoilByDeletion

LEMMA MarkedOrder ==
    ASSUME OrdersTyped, NEW b, NEW st \in OrderStatuses, markOrder(b, st)
    PROVE  order' \in [Orders -> [status : OrderStatuses, qty : Nat]]
  BY DEF OrdersTyped, markOrder

LEMMA Finishing ==
    ASSUME RequestsTyped, NEW w \in Workers, Done(w)
    PROVE  RequestsTyped'
  BY DEF RequestsTyped, Done, Requests

LEMMA PostReturnTyped ==
    ASSUME TypeOK, NEW r \in Returns, PostReturn(r)
    PROVE  /\ RegisterTyped' /\ damage' \subseteq SalesReturns
           /\ ret' \in [Returns -> {"NONE", "DRAFT", "POSTED", "CANCELLED"}]
           /\ JournalTyped' /\ KnownTyped'
  <1>0. /\ RegisterTyped /\ DocsTyped /\ JournalTyped /\ KnownTyped
        /\ r \in Docs /\ Line[r].product \in Products
    BY TypeParts, LineTyped, LineFields DEF Docs
  <1>1. RegisterTyped' /\ damage' \subseteq SalesReturns
    BY <1>0, ReturnEffects DEF PostReturn, Returns
  <1>2. ret' \in [Returns -> {"NONE", "DRAFT", "POSTED", "CANCELLED"}]
    BY <1>0 DEF PostReturn, DocsTyped
  <1>3. JournalTyped'
    BY <1>0, JournalStep DEF PostReturn
  <1>4. {Line[r].product} \in SUBSET Products
    BY <1>0
  <1>5. KnownTyped'
    <2>1. SpoilRegister({Line[r].product}) \/ UNCHANGED known
      BY DEF PostReturn
    <2>2. CASE UNCHANGED known
      BY <1>0, <2>2 DEF KnownTyped
    <2>3. CASE SpoilRegister({Line[r].product})
      BY <1>0, <1>4, <2>3, KnownStep
    <2> QED BY <2>1, <2>2, <2>3
  <1> QED BY <1>1, <1>2, <1>3, <1>5

-----------------------------------------------------------------------------
(* Orders, bills, sales and returns keep every row's type; in particular   *)
(* incoming_qty stays a natural number although an order is deleted with   *)
(* the quantity read before its transaction.                               *)
THEOREM TypeCorrect == Spec => []TypeOK
  <1>1. Init => TypeOK
    <2> SUFFICES ASSUME Init PROVE TypeOK
      OBVIOUS
    <2>1. \A b \in Bills : items[b] \in Lines
      BY LineAssumption, Zenon DEF Init
    <2>2. items \in [Bills -> Lines]
      BY <2>1 DEF Init
    <2>3. DocsTyped
      BY <2>2 DEF Init, DocsTyped
    <2>4. RequestsTyped
      BY DEF Init, RequestsTyped, Requests
    <2>5. StockTyped /\ OrdersTyped /\ RegisterTyped /\ JournalTyped /\ KnownTyped
      BY TradeAssumption
      DEF Init, StockTyped, OrdersTyped, RegisterTyped, JournalTyped, KnownTyped,
          Register, NoRow, UnitStatuses, OrderStatuses
    <2> QED BY <2>3, <2>4, <2>5, TypeParts
  <1>2. TypeOK /\ [Next]_vars => TypeOK'
    <2> SUFFICES ASSUME TypeOK, [Next]_vars PROVE TypeOK'
      OBVIOUS
    <2>0. /\ StockTyped /\ OrdersTyped /\ RegisterTyped /\ DocsTyped
          /\ JournalTyped /\ RequestsTyped /\ KnownTyped
      BY TypeParts
    <2>18. StockTyped'
      BY <2>0, EveryStockStep, StockStepTyped
    <2> DEFINE Rest == /\ OrdersTyped /\ RegisterTyped /\ DocsTyped
                       /\ JournalTyped /\ RequestsTyped /\ KnownTyped
    <2>1. ASSUME NEW o \in Orders, NEW n \in OrderQuantities, post_purchaseOrders(o, n)
          PROVE  Rest'
      <3>1. n \in Nat /\ OrderedProduct[o] \in Products
        BY TradeAssumption
      <3>2. OrdersTyped'
        BY <2>0, <2>1, <3>1 DEF post_purchaseOrders, OrdersTyped, OrderStatuses
      <3> QED BY <2>0, <2>1, <3>2
              DEF post_purchaseOrders, RegisterTyped, DocsTyped, JournalTyped,
                  RequestsTyped, KnownTyped
    <2>2. ASSUME NEW o \in Orders, NEW st \in {"APPROVED", "RECEIVED", "CANCELLED"},
                 NEW n \in Nat, put_Id(o, st, n)
          PROVE  Rest'
      <3>1. OrdersTyped'
        BY <2>0, <2>2 DEF put_Id, OrdersTyped, OrderStatuses
      <3> QED BY <2>0, <2>2, <3>1
              DEF put_Id, RegisterTyped, DocsTyped, JournalTyped, RequestsTyped, KnownTyped
    <2>3. ASSUME NEW w \in Workers, NEW request \in Requests, Ask(w, request)
          PROVE  Rest'
      <3>1. RequestsTyped'
        BY <2>0, <2>3 DEF Ask, RequestsTyped
      <3> QED BY <2>0, <2>3, <3>1
              DEF Ask, OrdersTyped, RegisterTyped, DocsTyped, JournalTyped, KnownTyped
    <2>4. ASSUME NEW w \in Workers, NEW o \in Orders, CheckDeleteOrder(w, o) PROVE Rest'
      <3>1. [kind |-> "deleteOrder", doc |-> o, saw |-> order[o].qty] \in Requests
        BY <2>0 DEF OrdersTyped, Requests
      <3> QED BY <2>3, <2>4, <3>1 DEF CheckDeleteOrder
    <2>5. ASSUME NEW w \in Workers, NEW b \in Bills, NEW l \in BillLines[b],
                 CheckBill(w, b, l) \/ CheckDeleteBill(w, b)
          PROVE  Rest'
      <3>1. ASSUME NEW k \in {"bill", "deleteBill"}, NEW saw \in {"NONE", "POSTED"},
                   NEW i \in Lines
            PROVE  [kind |-> k, doc |-> b, saw |-> saw, line |-> i] \in Requests
        BY DEF Requests
      <3>2. /\ bill[b] # "DELETED" => bill[b] \in {"NONE", "POSTED"}
            /\ items[b] \in Lines /\ l \in Lines
        BY <2>0, LineAssumption DEF DocsTyped
      <3> QED BY <2>3, <2>5, <3>1, <3>2 DEF CheckBill, CheckDeleteBill
    <2>6. ASSUME NEW w \in Workers, NEW r \in Returns,
                 CheckReturn(w, r) \/ CheckApprove(w, r) \/ CheckCancelReturn(w, r)
          PROVE  Rest'
      <3>1. ASSUME NEW k \in {"return", "approve", "cancelReturn"},
                   NEW saw \in {"NONE", "DRAFT", "POSTED"}
            PROVE  [kind |-> k, doc |-> r, saw |-> saw] \in Requests
        BY DEF Requests
      <3> QED BY <2>3, <2>6, <3>1 DEF CheckReturn, CheckApprove, CheckCancelReturn
    <2>7. ASSUME NEW w \in Workers, delete_Id(w) PROVE Rest'
      <3>1. req[w].doc \in Orders /\ req[w].saw \in Nat
        BY <2>0, <2>7, RequestFields DEF delete_Id
      <3>2. order' \in [Orders -> [status : OrderStatuses, qty : Nat]]
        BY <2>0, <2>7, <3>1 DEF delete_Id, OrdersTyped, OrderStatuses
      <3>3. incoming' \in [Products -> Nat]
        <4>1. /\ OrderedProduct[req[w].doc] \in Products
              /\ incoming[OrderedProduct[req[w].doc]] \in Nat
          BY <2>0, <3>1, TradeAssumption DEF OrdersTyped
        <4>2. Release(OrderedProduct[req[w].doc], req[w].saw) \in [Products -> Nat]
          BY <2>0, <3>1, <4>1 DEF Release, OrdersTyped
        <4> QED BY <2>7, <4>2 DEF delete_Id
      <3> QED BY <2>0, <2>7, <3>2, <3>3, Finishing
              DEF delete_Id, OrdersTyped, RegisterTyped, DocsTyped, JournalTyped, KnownTyped
    <2>8. ASSUME NEW w \in Workers, post_purchaseInvoices(w) PROVE Rest'
      <3> DEFINE b == req[w].doc
                 l == req[w].line
                 S == {l.product, items[b].product}
      <3>1. b \in Bills /\ b \in Docs /\ l \in Lines /\ S \in SUBSET Products
        BY <2>0, <2>8, RequestFields, LineFields DEF post_purchaseInvoices, Docs, DocsTyped
      <3>2. "RECEIVED" \in OrderStatuses /\ "IN_STOCK" \in UnitStatuses
        BY DEF OrderStatuses, UnitStatuses
      <3>3. OrdersTyped'
        BY <2>0, <2>8, <3>2, MarkedOrder DEF post_purchaseInvoices, OrdersTyped
      <3>4. RegisterTyped'
        BY <2>0, <2>8, <3>1, <3>2
        DEF post_purchaseInvoices, registerPurchaseSerials, RegisterTyped, Register
      <3>5. DocsTyped'
        BY <2>0, <2>8, <3>1 DEF post_purchaseInvoices, DocsTyped
      <3>6. JournalTyped'
        BY <2>0, <2>8, <3>1, JournalStep DEF post_purchaseInvoices, JournalTyped
      <3>7. SpoilStock(S) \/ UNCHANGED known
        BY <2>8 DEF post_purchaseInvoices
      <3>8. KnownTyped'
        BY <2>0, <3>1, <3>7, KnownStep DEF KnownTyped
      <3> QED BY <2>0, <2>8, <3>3, <3>4, <3>5, <3>6, <3>8, Finishing
              DEF post_purchaseInvoices
    <2>9. ASSUME NEW w \in Workers, delete_Id2(w) PROVE Rest'
      <3> DEFINE b == req[w].doc
                 l == req[w].line
      <3>1. b \in Bills /\ b \in Docs /\ l \in Lines
        BY <2>0, <2>9, RequestFields DEF delete_Id2, Docs
      <3>2. "APPROVED" \in OrderStatuses /\ NoRow \in Register
        BY DEF OrderStatuses, UnitStatuses, NoRow, Register
      <3>3. OrdersTyped'
        BY <2>0, <2>9, <3>2, MarkedOrder DEF delete_Id2, OrdersTyped
      <3>4. RegisterTyped'
        BY <2>0, <2>9, <3>1, <3>2 DEF delete_Id2, deleteRegisterRows, RegisterTyped
      <3>5. DocsTyped'
        BY <2>0, <2>9, <3>1 DEF delete_Id2, DocsTyped
      <3>6. JournalTyped'
        BY <2>0, <2>9, <3>1, JournalStep DEF delete_Id2
      <3>8. KnownTyped'
        BY <2>0, <2>9, <3>1, KnownByDeletion DEF delete_Id2
      <3> QED BY <2>0, <2>9, <3>3, <3>4, <3>5, <3>6, <3>8, Finishing DEF delete_Id2
    <2>10. ASSUME NEW v \in Sales, post_salesInvoices(v) PROVE Rest'
      <3>1. v \in Docs /\ "CUSTOMER_ASSIGNED" \in UnitStatuses
        BY DEF Docs, UnitStatuses
      <3>2. RegisterTyped'
        BY <2>0, <2>10, <3>1 DEF post_salesInvoices, RegisterTyped, Register
      <3>3. DocsTyped' /\ OrdersTyped' /\ RequestsTyped' /\ KnownTyped'
        BY <2>0, <2>10
        DEF post_salesInvoices, DocsTyped, OrdersTyped, RequestsTyped, KnownTyped
      <3> QED BY <2>0, <2>10, <3>1, <3>2, <3>3, JournalStep DEF post_salesInvoices
    <2>11. ASSUME NEW v \in Sales, post_salesInvoiceCancel(v) PROVE Rest'
      <3>1. v \in Docs /\ "IN_STOCK" \in UnitStatuses /\ {Line[v].product} \in SUBSET Products
        BY LineTyped, LineFields DEF Docs, UnitStatuses
      <3>2. RegisterTyped'
        BY <2>0, <2>11, <3>1
        DEF post_salesInvoiceCancel, releaseSerials, RegisterTyped, Register
      <3>3. DocsTyped' /\ OrdersTyped' /\ RequestsTyped'
        BY <2>0, <2>11 DEF post_salesInvoiceCancel, DocsTyped, OrdersTyped, RequestsTyped
      <3>4. SpoilRegister({Line[v].product}) \/ UNCHANGED known
        BY <2>11 DEF post_salesInvoiceCancel
      <3>5. KnownTyped'
        BY <2>0, <3>1, <3>4, KnownStep DEF KnownTyped
      <3> QED BY <2>0, <2>11, <3>1, <3>2, <3>3, <3>5, JournalStep
              DEF post_salesInvoiceCancel
    <2>12. ASSUME NEW w \in Workers, post_returns(w) \/ post_returnApprove(w) PROVE Rest'
      <3> DEFINE r == req[w].doc
      <3>1. r \in Returns
        BY <2>0, <2>12, RequestFields DEF post_returns, post_returnApprove
      <3>2. /\ Done(w) /\ UNCHANGED <<incoming, order, bill, items, sale>>
            /\ \/ PostReturn(r)
               \/ /\ ret' = [ret EXCEPT ![r] = "DRAFT"]
                  /\ UNCHANGED <<qoh, moved, reg, damage, journal, known>>
        BY <2>12 DEF post_returns, post_returnApprove
      <3>3. /\ RegisterTyped' /\ damage' \subseteq SalesReturns
            /\ ret' \in [Returns -> {"NONE", "DRAFT", "POSTED", "CANCELLED"}]
            /\ JournalTyped' /\ KnownTyped'
        <4>1. CASE PostReturn(r)
          BY <3>1, <4>1, PostReturnTyped
        <4>2. CASE /\ ret' = [ret EXCEPT ![r] = "DRAFT"]
                   /\ UNCHANGED <<qoh, moved, reg, damage, journal, known>>
          BY <2>0, <3>1, <4>2 DEF RegisterTyped, DocsTyped, JournalTyped, KnownTyped
        <4> QED BY <3>2, <4>1, <4>2
      <3> QED BY <2>0, <3>2, <3>3, Finishing DEF DocsTyped, OrdersTyped
    <2>13. ASSUME NEW w \in Workers, post_returnCancel(w) PROVE Rest'
      <3> DEFINE r == req[w].doc
      <3>1. r \in Returns /\ r \in Docs
        BY <2>0, <2>13, RequestFields DEF post_returnCancel, Docs
      <3>2. RegisterTyped' /\ damage' \subseteq SalesReturns
        BY <2>0, <2>13, <3>1, ReturnEffects
        DEF post_returnCancel, RegisterTyped, DocsTyped, Returns
      <3>3. JournalTyped'
        BY <2>0, <2>13, <3>1, JournalStep DEF post_returnCancel, JournalTyped
      <3>4. ret' \in [Returns -> {"NONE", "DRAFT", "POSTED", "CANCELLED"}]
        BY <2>0, <2>13, <3>1 DEF post_returnCancel, DocsTyped
      <3> QED BY <2>0, <2>13, <3>2, <3>3, <3>4, Finishing
              DEF post_returnCancel, DocsTyped, OrdersTyped, KnownTyped
    <2>14. ASSUME NEW w \in Workers, Abandon(w) PROVE Rest'
      BY <2>0, <2>14, Finishing
      DEF Abandon, OrdersTyped, RegisterTyped, DocsTyped, JournalTyped, KnownTyped
    <2>15. CASE UNCHANGED vars
      BY <2>15, TypeOK DEF vars, TypeOK
    <2>16. \A o \in Orders, n \in OrderQuantities : n \in Nat /\ order[o].qty \in Nat
      BY <2>0, TradeAssumption DEF OrdersTyped
    <2>19. \A b \in Bills : BillLines[b] # {}
      BY LineAssumption
    <2>17. Rest' \/ TypeOK'
      BY <2>1, <2>2, <2>19, <2>4, <2>5, <2>6, <2>7, <2>8, <2>9, <2>10, <2>11, <2>12, <2>13,
         <2>14, <2>15, <2>16
      DEF Next, patch_status
    <2> QED BY <2>18, <2>17
            DEF TypeOK, StockTyped, OrdersTyped, RegisterTyped, DocsTyped, JournalTyped,
                RequestsTyped, KnownTyped
  <1> QED BY <1>1, <1>2, PTL DEF Spec

(* No interleaving of bills, deletions, sales, voids and returns takes a   *)
(* stock row below zero: every deduction compares and subtracts in one     *)
(* guarded UPDATE.                                                         *)
THEOREM StockNeverNegative == Spec => []NoNegativeStock
  <1>1. Init => NoNegativeStock
    BY TradeAssumption DEF Init, NoNegativeStock
  <1>2. TypeOK /\ NoNegativeStock /\ [Next]_vars => NoNegativeStock'
    BY TypeParts, EveryStockStep, StockStepKeepsFloor
  <1> QED BY <1>1, <1>2, TypeCorrect, PTL DEF Spec


-----------------------------------------------------------------------------
(* What a step may do to one unit of the register and to the documents     *)
(* that vouch for a unit that is out.                                      *)
LEMMA ReturnUnits ==
    ASSUME RegisterTyped, NEW r \in Returns, NEW s \in Serials,
           \/ r \in PurchaseReturns /\ applyPurchaseReturnEffects(r)
           \/ applySalesReturnEffects(r)
           \/ r \in PurchaseReturns /\ undoPurchaseReturn(r)
           \/ undoSalesReturn(r)
    PROVE  /\ reg'[s].status = "CUSTOMER_ASSIGNED" => reg'[s] = reg[s]
           /\ reg'[s].status = "RETURNED_TO_VENDOR" =>
                 \/ reg'[s] = reg[s]
                 \/ r \in PurchaseReturns /\ s \in Line[r].serials
  BY DEF RegisterTyped, Register, SerialFlip, applyPurchaseReturnEffects,
         applySalesReturnEffects, undoPurchaseReturn, undoSalesReturn

LEMMA OtherSteps ==
    ASSUME [Next]_vars
    PROVE  \/ UNCHANGED <<reg, sale, ret>>
           \/ \E w \in Workers :
                 \/ post_purchaseInvoices(w) \/ delete_Id2(w)
                 \/ post_returns(w) \/ post_returnApprove(w) \/ post_returnCancel(w)
           \/ \E v \in Sales : post_salesInvoices(v) \/ post_salesInvoiceCancel(v)
  BY DEF Next, vars, post_purchaseOrders, put_Id, patch_status, CheckDeleteOrder, Ask,
         CheckBill, CheckDeleteBill, CheckReturn, CheckApprove, CheckCancelReturn,
         delete_Id, Abandon

(* Bills and their deletion never send a unit to a customer or a vendor.   *)
LEMMA BillUnits ==
    ASSUME RegisterTyped, NEW w \in Workers, post_purchaseInvoices(w) \/ delete_Id2(w),
           NEW s \in Serials
    PROVE  /\ reg'[s].status \in {"CUSTOMER_ASSIGNED", "RETURNED_TO_VENDOR"}
                => reg'[s] = reg[s]
           /\ UNCHANGED <<sale, ret>>
  <1>1. CASE post_purchaseInvoices(w)
    BY <1>1 DEF post_purchaseInvoices, registerPurchaseSerials, RegisterTyped
  <1>2. CASE delete_Id2(w)
    BY <1>2 DEF delete_Id2, deleteRegisterRows, NoRow, RegisterTyped
  <1> QED BY <1>1, <1>2

(* The three transactions that post or cancel a return.                    *)
LEMMA ReturnSteps ==
    ASSUME TypeOK, NEW w \in Workers,
           post_returns(w) \/ post_returnApprove(w) \/ post_returnCancel(w)
    PROVE  /\ UNCHANGED sale
           /\ req[w].doc \in Returns
           /\ \/ /\ UNCHANGED reg
                 /\ ret[req[w].doc] # "POSTED"
                 /\ \E st \in {"DRAFT", "CANCELLED"} :
                       ret' = [ret EXCEPT ![req[w].doc] = st]
              \/ /\ PostReturn(req[w].doc)
                 /\ ret[req[w].doc] # "POSTED"
              \/ /\ ret' = [ret EXCEPT ![req[w].doc] = "CANCELLED"]
                 /\ IF req[w].doc \in PurchaseReturns THEN undoPurchaseReturn(req[w].doc)
                                                      ELSE undoSalesReturn(req[w].doc)
  <1>1. RequestsTyped
    BY TypeParts
  <1>2. CASE post_returns(w)
    BY <1>1, <1>2, RequestFields DEF post_returns
  <1>3. CASE post_returnApprove(w)
    BY <1>1, <1>3, RequestFields DEF post_returnApprove
  <1>4. CASE post_returnCancel(w)
    BY <1>1, <1>4, RequestFields DEF post_returnCancel, StillAsSeen
  <1> QED BY <1>2, <1>3, <1>4

(* A unit with a customer is carried by a sale that is not void, whatever  *)
(* order its bill, sale, void and returns take.                            *)
THEOREM AssignedByLive == Spec => []AssignedByLiveSale
  <1>1. Init => AssignedByLiveSale
    BY DEF Init, AssignedByLiveSale, NoRow
  <1>2. TypeOK /\ AssignedByLiveSale /\ [Next]_vars => AssignedByLiveSale'
    <2> SUFFICES ASSUME TypeOK, AssignedByLiveSale, [Next]_vars, NEW s \in Serials,
                        reg'[s].status = "CUSTOMER_ASSIGNED"
                 PROVE  \E v \in Sales : /\ reg'[s].source = v
                                         /\ sale'[v] = "POSTED"
                                         /\ s \in Line[v].serials
      BY DEF AssignedByLiveSale
    <2>0. RegisterTyped /\ DocsTyped /\ Returns \subseteq Docs
      BY TypeParts DEF Docs
    <2>1. CASE reg'[s] = reg[s] /\ UNCHANGED sale
      BY <2>1 DEF AssignedByLiveSale
    <2>2. ASSUME NEW w \in Workers, post_purchaseInvoices(w) \/ delete_Id2(w)
          PROVE  reg'[s] = reg[s] /\ UNCHANGED sale
      BY <2>0, <2>2, BillUnits
    <2>3. ASSUME NEW w \in Workers,
                 post_returns(w) \/ post_returnApprove(w) \/ post_returnCancel(w)
          PROVE  reg'[s] = reg[s] /\ UNCHANGED sale
      BY <2>0, <2>3, ReturnSteps, ReturnUnits DEF PostReturn
    <2>4. ASSUME NEW v \in Sales, post_salesInvoices(v)
          PROVE  \E u \in Sales : /\ reg'[s].source = u
                                  /\ sale'[u] = "POSTED"
                                  /\ s \in Line[u].serials
      <3>1. CASE s \in Line[v].serials
        BY <2>0, <2>4, <3>1 DEF post_salesInvoices, RegisterTyped, DocsTyped
      <3>2. CASE s \notin Line[v].serials
        BY <2>0, <2>4, <3>2
        DEF post_salesInvoices, RegisterTyped, DocsTyped, AssignedByLiveSale
      <3> QED BY <3>1, <3>2
    <2>5. ASSUME NEW v \in Sales, post_salesInvoiceCancel(v)
          PROVE  \E u \in Sales : /\ reg'[s].source = u
                                  /\ sale'[u] = "POSTED"
                                  /\ s \in Line[u].serials
      <3>1. reg'[s] = reg[s] /\ reg[s].source # v
        BY <2>0, <2>5
        DEF post_salesInvoiceCancel, releaseSerials, RegisterTyped, Register
      <3> QED BY <2>0, <2>5, <3>1
              DEF post_salesInvoiceCancel, DocsTyped, AssignedByLiveSale
    <2> QED BY <2>1, <2>2, <2>3, <2>4, <2>5, OtherSteps
  <1> QED BY <1>1, <1>2, TypeCorrect, PTL DEF Spec

(* A unit the register holds as returned to the vendor is on a posted      *)
(* return, whatever order bills, returns and cancellations take.           *)
THEOREM ReturnedByLive == Spec => []ReturnedByLiveReturn
  <1>1. Init => ReturnedByLiveReturn
    BY DEF Init, ReturnedByLiveReturn, NoRow
  <1>2. TypeOK /\ ReturnedByLiveReturn /\ [Next]_vars => ReturnedByLiveReturn'
    <2> SUFFICES ASSUME TypeOK, ReturnedByLiveReturn, [Next]_vars, NEW s \in Serials,
                        reg'[s].status = "RETURNED_TO_VENDOR"
                 PROVE  \E r \in PurchaseReturns :
                           ret'[r] = "POSTED" /\ s \in Line[r].serials
      BY DEF ReturnedByLiveReturn
    <2>0. RegisterTyped /\ DocsTyped /\ PurchaseReturns \subseteq Returns
      BY TypeParts DEF Returns
    <2>1. CASE reg'[s] = reg[s] /\ UNCHANGED ret
      BY <2>1 DEF ReturnedByLiveReturn
    <2>2. ASSUME NEW w \in Workers, post_purchaseInvoices(w) \/ delete_Id2(w)
          PROVE  reg'[s] = reg[s] /\ UNCHANGED ret
      BY <2>0, <2>2, BillUnits
    <2>3. ASSUME NEW v \in Sales, post_salesInvoices(v) \/ post_salesInvoiceCancel(v)
          PROVE  reg'[s] = reg[s] /\ UNCHANGED ret
      BY <2>0, <2>3
      DEF post_salesInvoices, post_salesInvoiceCancel, releaseSerials, RegisterTyped,
          Register
    <2>4. ASSUME NEW w \in Workers,
                 post_returns(w) \/ post_returnApprove(w) \/ post_returnCancel(w)
          PROVE  \E r \in PurchaseReturns :
                    ret'[r] = "POSTED" /\ s \in Line[r].serials
      <3> DEFINE d == req[w].doc
      <3>1. d \in Returns
        BY <2>4, ReturnSteps
      <3>2. ASSUME ret[d] # "POSTED", NEW st, ret' = [ret EXCEPT ![d] = st],
                   reg'[s] = reg[s]
            PROVE  \E r \in PurchaseReturns :
                      ret'[r] = "POSTED" /\ s \in Line[r].serials
        BY <2>0, <3>1, <3>2 DEF DocsTyped, ReturnedByLiveReturn
      <3>3. CASE PostReturn(d) /\ ret[d] # "POSTED"
        <4>1. ret'[d] = "POSTED" /\ ret' = [ret EXCEPT ![d] = "POSTED"]
          BY <2>0, <3>1, <3>3 DEF PostReturn, DocsTyped
        <4>2. \/ reg'[s] = reg[s]
              \/ d \in PurchaseReturns /\ s \in Line[d].serials
          BY <2>0, <3>1, <3>3, ReturnUnits DEF PostReturn
        <4> QED BY <3>2, <3>3, <4>1, <4>2
      <3>4. CASE /\ ret' = [ret EXCEPT ![d] = "CANCELLED"]
                 /\ IF d \in PurchaseReturns THEN undoPurchaseReturn(d)
                                              ELSE undoSalesReturn(d)
        <4>1. CASE d \in PurchaseReturns
          <5>1. reg'[s] = reg[s] /\ s \notin Line[d].serials
            BY <2>0, <3>4, <4>1
            DEF undoPurchaseReturn, SerialFlip, RegisterTyped, Register
          <5> QED BY <2>0, <3>1, <3>4, <5>1 DEF DocsTyped, ReturnedByLiveReturn
        <4>2. CASE d \notin PurchaseReturns
          <5>1. reg'[s] = reg[s]
            BY <2>0, <3>1, <3>4, <4>2, ReturnUnits
          <5> QED BY <2>0, <3>1, <3>4, <4>2, <5>1 DEF DocsTyped, ReturnedByLiveReturn
        <4> QED BY <4>1, <4>2
      <3> QED BY <2>4, <3>2, <3>3, <3>4, ReturnSteps
    <2> QED BY <2>1, <2>2, <2>3, <2>4, OtherSteps
  <1> QED BY <1>1, <1>2, TypeCorrect, PTL DEF Spec

-----------------------------------------------------------------------------
(* Conservation.  A cancellation in flight has seen a return that had been *)
(* entered: the one fact about requests that the sums need.                *)
CancelSaw == \A w \in Workers : req[w].kind = "cancelReturn" =>
                 req[w].saw \in {"DRAFT", "POSTED"}

LEMMA CancelSawKept ==
    ASSUME TypeOK, CancelSaw, [Next]_vars
    PROVE  CancelSaw'
  <1>0. RequestsTyped /\ DocsTyped
    BY TypeParts
  <1>1. ASSUME NEW w \in Workers, Done(w) PROVE CancelSaw'
    BY <1>0, <1>1 DEF CancelSaw, Done, Idle, RequestsTyped
  <1>2. ASSUME NEW w \in Workers, NEW request, Ask(w, request),
               request.kind = "cancelReturn" => request.saw \in {"DRAFT", "POSTED"}
        PROVE  CancelSaw'
    BY <1>0, <1>2 DEF CancelSaw, Ask, RequestsTyped
  <1>3. ASSUME UNCHANGED req PROVE CancelSaw'
    BY <1>3 DEF CancelSaw
  <1>4. ASSUME NEW w \in Workers, NEW r \in Returns, CheckCancelReturn(w, r)
        PROVE  CancelSaw'
    BY <1>2, <1>4 DEF CheckCancelReturn
  <1>5. ASSUME NEW w \in Workers, NEW r \in Returns, CheckReturn(w, r) \/ CheckApprove(w, r)
        PROVE  CancelSaw'
    BY <1>2, <1>5 DEF CheckReturn, CheckApprove
  <1>6. ASSUME NEW w \in Workers, NEW b \in Bills, NEW l,
               CheckBill(w, b, l) \/ CheckDeleteBill(w, b)
        PROVE  CancelSaw'
    BY <1>2, <1>6 DEF CheckBill, CheckDeleteBill
  <1>7. ASSUME NEW w \in Workers, NEW o \in Orders, CheckDeleteOrder(w, o)
        PROVE  CancelSaw'
    BY <1>2, <1>7 DEF CheckDeleteOrder
  <1>8. ASSUME NEW w \in Workers,
               \/ delete_Id(w) \/ post_purchaseInvoices(w) \/ delete_Id2(w)
               \/ post_returns(w) \/ post_returnApprove(w) \/ post_returnCancel(w)
               \/ Abandon(w)
        PROVE  Done(w)
    BY <1>8, Zenon DEF delete_Id, post_purchaseInvoices, delete_Id2, post_returns,
                post_returnApprove, post_returnCancel, Abandon
  <1>9. ASSUME NEW v \in Sales, post_salesInvoices(v) \/ post_salesInvoiceCancel(v)
        PROVE  UNCHANGED req
    BY <1>9, Zenon DEF post_salesInvoices, post_salesInvoiceCancel
  <1>10. ASSUME NEW o, NEW st, NEW n, post_purchaseOrders(o, n) \/ put_Id(o, st, n)
         PROVE  UNCHANGED req
    BY <1>10, Zenon DEF post_purchaseOrders, put_Id
  <1> QED BY <1>1, <1>3, <1>4, <1>5, <1>6, <1>7, <1>8, <1>9, <1>10
          DEF Next, vars, patch_status

-----------------------------------------------------------------------------
(* What a step may do to the documents that stand, their stock and their   *)
(* journals: touch one document at most, and that one either takes effect, *)
(* loses its effect, or is struck by a known defect.                       *)
NoDocument ==
    /\ UNCHANGED <<qoh, journal>> /\ known'.stock = known.stock
    /\ \A e \in Docs : (Live(e)' <=> Live(e)) /\ LineOf(e)' = LineOf(e)

OnlyThis(d) ==
    \A e \in Docs \ {d} : /\ Live(e)' <=> Live(e)
                          /\ LineOf(e)' = LineOf(e)
                          /\ journal'[e] = journal[e]

(* The quantity a line of the document stands for. *)
Worth(d, l) == IF d \in Bills \cup Restockable THEN l.qty
               ELSE IF d \in SalesReturns THEN 0 ELSE -l.qty

OnlyStock(p) == \A q \in Products \ {p} : qoh'[q] = qoh[q]

TakesEffect(d, l) ==
    /\ ~Live(d) /\ Live(d)' /\ LineOf(d)' = l
    /\ LineOf(d) = l \/ (d \in Bills /\ bill[d] = "NONE")
    /\ journal'[d] = [journal[d] EXCEPT !.post = @ + 1]
    /\ qoh'[l.product] = qoh[l.product] + Worth(d, l) /\ OnlyStock(l.product)
    /\ known'.stock = known.stock

LosesEffect(d, l) ==
    /\ Live(d) /\ ~Live(d)' /\ LineOf(d) = l /\ LineOf(d)' = l
    /\ journal'[d] = [journal[d] EXCEPT !.contra = @ + 1]
    /\ qoh'[l.product] = qoh[l.product] - Worth(d, l) /\ OnlyStock(l.product)
    /\ known'.stock = known.stock

Struck(d, l) ==
    /\ known'.stock = known.stock \cup {l.product, LineOf(d).product}
    /\ LineOf(d)' \in {l, LineOf(d)}
    /\ \A q \in Products \ {l.product, LineOf(d).product} : qoh'[q] = qoh[q]

DocumentStep ==
    \/ NoDocument
    \/ \E d \in Docs, l \in Lines :
          /\ OnlyThis(d)
          /\ TakesEffect(d, l) \/ LosesEffect(d, l) \/ Struck(d, l)

(* A document is of one kind. *)
LEMMA Kinds ==
    ASSUME NEW d \in Docs
    PROVE  /\ d \in Bills => d \notin Sales /\ d \notin Returns
           /\ d \in Sales => d \notin Bills /\ d \notin Returns
           /\ d \in Returns => d \notin Bills /\ d \notin Sales
           /\ d \in PurchaseReturns => d \notin SalesReturns
  BY LineAssumption, TradeAssumption DEF Returns

LEMMA EffectOf ==
    ASSUME NEW d \in Docs, NEW l \in Lines
    PROVE  /\ d \in Bills \cup Restockable => Worth(d, l) = l.qty
           /\ d \in Sales \cup PurchaseReturns => Worth(d, l) = -l.qty
           /\ d \in SalesReturns \ Restockable => Worth(d, l) = 0
           /\ Worth(d, l) \in Int
           /\ Effect[d] = Worth(d, LineOf(d))
  BY LineFields, Kinds, TradeAssumption DEF Effect, Worth, Returns

LEMMA JournalEntry ==
    ASSUME JournalTyped, NEW d \in Docs
    PROVE  /\ post(d) => /\ journal'[d] = [journal[d] EXCEPT !.post = @ + 1]
                         /\ \A e \in Docs \ {d} : journal'[e] = journal[e]
           /\ reverse(d) => /\ journal'[d] = [journal[d] EXCEPT !.contra = @ + 1]
                            /\ \A e \in Docs \ {d} : journal'[e] = journal[e]
  BY DEF JournalTyped, post, reverse

LEMMA StockEntry ==
    ASSUME StockTyped, NEW l \in Lines
    PROVE  /\ Restore(l) => qoh'[l.product] = qoh[l.product] + l.qty /\ OnlyStock(l.product)
           /\ qoh' = Add(qoh, l, -l.qty) =>
                 qoh'[l.product] = qoh[l.product] - l.qty /\ OnlyStock(l.product)
  BY LineFields DEF StockTyped, Restore, Add, OnlyStock

LEMMA BillStep ==
    ASSUME TypeOK, NEW w \in Workers, post_purchaseInvoices(w),
           NEW b, b = req[w].doc, NEW l, l = req[w].line
    PROVE  DocumentStep
  <1>0. StockTyped /\ DocsTyped /\ JournalTyped /\ KnownTyped
    BY TypeParts
  <1>1. b \in Bills /\ b \in Docs /\ l \in Lines
    BY TypeParts, RequestFields DEF post_purchaseInvoices, Docs
  <1>2. /\ \A e \in Docs \ {b} : (Live(e)' <=> Live(e)) /\ LineOf(e)' = LineOf(e)
        /\ LineOf(b) = items[b] /\ LineOf(b)' = l
    BY <1>0, <1>1, LineTyped DEF post_purchaseInvoices, Live, LineOf, DocsTyped
  <1>3. Live(b)'
    BY <1>0, <1>1 DEF post_purchaseInvoices, Live, DocsTyped
  <1>4. Live(b) <=> bill[b] = "POSTED"
    BY <1>1, Kinds DEF Live
  <1>5. \/ req[w].saw = "NONE" /\ Restore(l) /\ post(b)
        \/ req[w].saw = "POSTED" /\ UNCHANGED <<qoh, journal>>
    BY DEF post_purchaseInvoices
  <1>6. OnlyThis(b) /\ OnlyStock(l.product)
    BY <1>0, <1>1, <1>2, <1>5, JournalEntry, StockEntry DEF OnlyThis, OnlyStock
  <1>7. CASE bill[b] = req[w].saw /\ (bill[b] = "NONE" \/ items[b] = l)
    <2>1. UNCHANGED known
      BY <1>7 DEF post_purchaseInvoices
    <2>2. CASE bill[b] = "NONE"
      <3>1. TakesEffect(b, l)
        BY <1>0, <1>1, <1>2, <1>3, <1>4, <1>5, <1>7, <2>1, <2>2, JournalEntry, StockEntry,
           EffectOf DEF TakesEffect
      <3> QED BY <1>1, <1>6, <3>1 DEF DocumentStep
    <2>3. CASE bill[b] # "NONE"
      <3>1. bill[b] = "POSTED" /\ UNCHANGED <<qoh, journal>> /\ LineOf(b)' = LineOf(b)
        BY <1>2, <1>5, <1>7, <2>3
      <3> QED BY <1>2, <1>3, <1>4, <2>1, <3>1 DEF DocumentStep, NoDocument
    <2> QED BY <2>2, <2>3
  <1>8. CASE ~(bill[b] = req[w].saw /\ (bill[b] = "NONE" \/ items[b] = l))
    <2>1. SpoilStock({l.product, items[b].product})
      BY <1>8 DEF post_purchaseInvoices
    <2>2. Struck(b, l)
      BY <1>0, <1>2, <1>6, <2>1 DEF Struck, OnlyStock, SpoilStock, KnownTyped
    <2> QED BY <1>1, <1>6, <2>2 DEF DocumentStep
  <1> QED BY <1>7, <1>8

LEMMA DeletionStep ==
    ASSUME TypeOK, NEW w \in Workers, delete_Id2(w),
           NEW b, b = req[w].doc, NEW l, l = req[w].line
    PROVE  DocumentStep
  <1>0. StockTyped /\ DocsTyped /\ JournalTyped /\ KnownTyped
    BY TypeParts
  <1>1. b \in Bills /\ b \in Docs /\ l \in Lines
    BY TypeParts, RequestFields DEF delete_Id2, Docs
  <1>2. /\ \A e \in Docs \ {b} : (Live(e)' <=> Live(e)) /\ LineOf(e)' = LineOf(e)
        /\ LineOf(b) = items[b] /\ LineOf(b)' = items[b]
    BY <1>0, <1>1, LineTyped DEF delete_Id2, Live, LineOf, DocsTyped
  <1>3. ~Live(b)'
    BY <1>0, <1>1, Kinds DEF delete_Id2, Live, DocsTyped
  <1>4. Live(b) <=> bill[b] = "POSTED"
    BY <1>1, Kinds DEF Live
  <1>5. qoh' = Add(qoh, l, -l.qty) /\ reverse(b) /\ SpoilByDeletion(b, l)
    BY DEF delete_Id2
  <1>6. OnlyThis(b) /\ OnlyStock(l.product)
    BY <1>0, <1>1, <1>2, <1>5, JournalEntry, StockEntry DEF OnlyThis
  <1>7. CASE bill[b] # "POSTED" \/ items[b] # l \/ PostedReturns(b) # {}
    <2>1. known'.stock = known.stock \cup {l.product, items[b].product}
      BY <1>5, <1>7 DEF SpoilByDeletion
    <2>2. Struck(b, l)
      BY <1>2, <1>6, <2>1 DEF Struck, OnlyStock
    <2> QED BY <1>1, <1>6, <2>2 DEF DocumentStep
  <1>8. CASE ~(bill[b] # "POSTED" \/ items[b] # l \/ PostedReturns(b) # {})
    <2>1. known'.stock = known.stock
      BY <1>5, <1>8 DEF SpoilByDeletion
    <2>2. l.qty \in Nat /\ qoh[l.product] \in Int
      BY <1>0, <1>1, LineFields DEF StockTyped
    <2>3. LosesEffect(b, l)
      BY <1>0, <1>1, <1>2, <1>3, <1>4, <1>5, <1>6, <1>8, <2>1, <2>2, JournalEntry,
         StockEntry, EffectOf
      DEF LosesEffect
    <2> QED BY <1>1, <1>6, <2>3 DEF DocumentStep
  <1> QED BY <1>7, <1>8

LEMMA SaleStep ==
    ASSUME TypeOK, NEW v \in Sales, post_salesInvoices(v) \/ post_salesInvoiceCancel(v)
    PROVE  DocumentStep
  <1>0. /\ StockTyped /\ DocsTyped /\ JournalTyped /\ KnownTyped
        /\ v \in Docs /\ Line[v] \in Lines
        /\ LineOf(v) = Line[v] /\ LineOf(v)' = Line[v]
        /\ Line[v].qty \in Nat /\ qoh[Line[v].product] \in Int
    BY TypeParts, LineTyped, LineFields DEF Docs, StockTyped
  <1>1. Live(v) <=> sale[v] = "POSTED"
    BY <1>0, Kinds DEF Live
  <1>2. CASE post_salesInvoices(v)
    <2>1. \A e \in Docs \ {v} : (Live(e)' <=> Live(e)) /\ LineOf(e)' = LineOf(e)
      BY <1>0, <1>2 DEF post_salesInvoices, Live, LineOf, DocsTyped
    <2>2. ~Live(v) /\ Live(v)'
      BY <1>0, <1>1, <1>2 DEF post_salesInvoices, Live, DocsTyped
    <2>3. qoh' = Add(qoh, Line[v], -Line[v].qty) /\ post(v) /\ UNCHANGED known
      BY <1>2 DEF post_salesInvoices, Deduct
    <2>4. OnlyThis(v)
      BY <1>0, <2>1, <2>3, JournalEntry DEF OnlyThis
    <2>5. TakesEffect(v, Line[v])
      BY <1>0, <2>2, <2>3, JournalEntry, StockEntry, EffectOf DEF TakesEffect
    <2> QED BY <1>0, <2>4, <2>5 DEF DocumentStep
  <1>3. CASE post_salesInvoiceCancel(v)
    <2>1. \A e \in Docs \ {v} : (Live(e)' <=> Live(e)) /\ LineOf(e)' = LineOf(e)
      BY <1>0, <1>3 DEF post_salesInvoiceCancel, Live, LineOf, DocsTyped
    <2>2. Live(v) /\ ~Live(v)'
      BY <1>0, <1>1, <1>3, Kinds DEF post_salesInvoiceCancel, Live, DocsTyped
    <2>3. /\ Restore(Line[v]) /\ reverse(v)
          /\ UNCHANGED known \/ SpoilRegister({Line[v].product})
      BY <1>3 DEF post_salesInvoiceCancel
    <2>4. known'.stock = known.stock
      BY <1>0, <2>3 DEF SpoilRegister, KnownTyped
    <2>5. OnlyThis(v)
      BY <1>0, <2>1, <2>3, JournalEntry DEF OnlyThis
    <2>6. LosesEffect(v, Line[v])
      <3>1. /\ qoh'[Line[v].product] = qoh[Line[v].product] - Worth(v, Line[v])
            /\ OnlyStock(Line[v].product)
        BY <1>0, <2>3, StockEntry, EffectOf
      <3> QED BY <1>0, <2>2, <2>3, <2>4, <3>1, JournalEntry DEF LosesEffect
    <2> QED BY <1>0, <2>5, <2>6 DEF DocumentStep
  <1> QED BY <1>2, <1>3

LEMMA ReturnStep ==
    ASSUME TypeOK, CancelSaw, NEW w \in Workers,
           post_returns(w) \/ post_returnApprove(w) \/ post_returnCancel(w),
           NEW r, r = req[w].doc
    PROVE  DocumentStep
  <1>0. StockTyped /\ DocsTyped /\ JournalTyped /\ KnownTyped
    BY TypeParts
  <1>1. r \in Returns /\ r \in Docs /\ UNCHANGED <<bill, items, sale>>
    <2>1. UNCHANGED <<bill, items, sale>>
      BY DEF post_returns, post_returnApprove, post_returnCancel
    <2> QED BY <2>1, ReturnSteps DEF Docs
  <1>2. /\ Line[r] \in Lines /\ LineOf(r) = Line[r] /\ LineOf(r)' = Line[r]
        /\ Line[r].qty \in Nat /\ qoh[Line[r].product] \in Int
        /\ Live(r) <=> ret[r] = "POSTED"
    BY <1>0, <1>1, LineTyped, LineFields, Kinds DEF StockTyped, Live
  <1>7. \A e \in Docs : LineOf(e)' = LineOf(e)
    BY <1>1 DEF LineOf
  <1>3. ASSUME NEW st \in {"DRAFT", "POSTED", "CANCELLED"}, ret' = [ret EXCEPT ![r] = st]
        PROVE  /\ \A e \in Docs \ {r} : Live(e)' <=> Live(e)
               /\ Live(r)' <=> st = "POSTED"
    BY <1>0, <1>1, <1>3, Kinds DEF Live, DocsTyped
  <1>4. CASE PostReturn(r) /\ ret[r] # "POSTED"
    <2>1. post(r) /\ ret' = [ret EXCEPT ![r] = "POSTED"]
      BY <1>4 DEF PostReturn
    <2>2. known'.stock = known.stock
      BY <1>0, <1>4 DEF PostReturn, SpoilRegister, KnownTyped
    <2>3. /\ qoh'[Line[r].product] = qoh[Line[r].product] + Worth(r, Line[r])
          /\ OnlyStock(Line[r].product)
      <3>1. CASE r \in PurchaseReturns
        BY <1>0, <1>1, <1>2, <1>4, <3>1, StockEntry, EffectOf
        DEF PostReturn, applyPurchaseReturnEffects, Deduct
      <3>2. CASE r \in Restockable
        BY <1>0, <1>1, <1>2, <1>4, <3>2, StockEntry, EffectOf, Kinds, TradeAssumption
        DEF PostReturn, applySalesReturnEffects
      <3>3. CASE r \in SalesReturns \ Restockable
        BY <1>0, <1>1, <1>2, <1>4, <3>3, EffectOf, Kinds
        DEF PostReturn, applySalesReturnEffects, OnlyStock
      <3> QED BY <1>1, <3>1, <3>2, <3>3 DEF Returns
    <2>4. OnlyThis(r)
      BY <1>0, <1>1, <1>3, <1>7, <2>1, JournalEntry DEF OnlyThis
    <2>5. TakesEffect(r, Line[r])
      BY <1>0, <1>1, <1>2, <1>3, <1>4, <2>1, <2>2, <2>3, JournalEntry DEF TakesEffect
    <2> QED BY <1>1, <1>2, <2>4, <2>5 DEF DocumentStep
  <1>5. CASE /\ post_returns(w) \/ post_returnApprove(w)
             /\ ~(PostReturn(r) /\ ret[r] # "POSTED")
    <2>1. /\ ret' = [ret EXCEPT ![r] = "DRAFT"]
          /\ UNCHANGED <<qoh, journal, known>>
          /\ ret[r] # "POSTED"
      BY <1>5 DEF post_returns, post_returnApprove
    <2> QED BY <1>1, <1>2, <1>3, <1>7, <2>1 DEF DocumentStep, NoDocument
  <1>6. CASE post_returnCancel(w)
    <2>1. /\ ret' = [ret EXCEPT ![r] = "CANCELLED"] /\ UNCHANGED known
          /\ ret[r] = req[w].saw /\ req[w].saw \in {"DRAFT", "POSTED"}
      BY <1>6 DEF post_returnCancel, StillAsSeen, CancelSaw
    <2>2. CASE req[w].saw = "DRAFT"
      <3>1. UNCHANGED <<qoh, journal>>
        BY <1>6, <2>2 DEF post_returnCancel
      <3> QED BY <1>1, <1>2, <1>3, <1>7, <2>1, <2>2, <3>1 DEF DocumentStep, NoDocument
    <2>3. CASE req[w].saw = "POSTED"
      <3>1. /\ reverse(r)
            /\ IF r \in PurchaseReturns THEN undoPurchaseReturn(r) ELSE undoSalesReturn(r)
        BY <1>6, <2>3 DEF post_returnCancel
      <3>2. /\ qoh'[Line[r].product] = qoh[Line[r].product] - Worth(r, Line[r])
            /\ OnlyStock(Line[r].product)
        <4>1. CASE r \in PurchaseReturns
          BY <1>0, <1>1, <1>2, <3>1, <4>1, StockEntry, EffectOf DEF undoPurchaseReturn
        <4>2. CASE r \in Restockable
          BY <1>0, <1>1, <1>2, <3>1, <4>2, StockEntry, EffectOf, Kinds, TradeAssumption
          DEF undoSalesReturn, Deduct
        <4>3. CASE r \in SalesReturns \ Restockable
          BY <1>0, <1>1, <1>2, <3>1, <4>3, EffectOf, Kinds
          DEF undoSalesReturn, OnlyStock
        <4> QED BY <1>1, <4>1, <4>2, <4>3 DEF Returns
      <3>3. OnlyThis(r)
        BY <1>0, <1>1, <1>3, <1>7, <2>1, <3>1, JournalEntry DEF OnlyThis
      <3>4. LosesEffect(r, Line[r])
        BY <1>0, <1>1, <1>2, <1>3, <2>1, <2>3, <3>1, <3>2, JournalEntry DEF LosesEffect
      <3> QED BY <1>1, <1>2, <3>3, <3>4 DEF DocumentStep
    <2> QED BY <2>1, <2>2, <2>3
  <1> QED BY <1>4, <1>5, <1>6

LEMMA EveryDocumentStep ==
    ASSUME TypeOK, CancelSaw, [Next]_vars
    PROVE  DocumentStep
  <1>1. ASSUME UNCHANGED <<qoh, journal, known, bill, items, sale, ret>> PROVE DocumentStep
    BY <1>1 DEF DocumentStep, NoDocument, Live, LineOf
  <1>2. \/ UNCHANGED <<qoh, journal, known, bill, items, sale, ret>>
        \/ \E w \in Workers :
              \/ post_purchaseInvoices(w) \/ delete_Id2(w)
              \/ post_returns(w) \/ post_returnApprove(w) \/ post_returnCancel(w)
        \/ \E v \in Sales : post_salesInvoices(v) \/ post_salesInvoiceCancel(v)
    BY DEF Next, vars, post_purchaseOrders, put_Id, patch_status, CheckDeleteOrder, Ask,
           CheckBill, CheckDeleteBill, CheckReturn, CheckApprove, CheckCancelReturn,
           delete_Id, Abandon
  <1> QED BY <1>1, <1>2, BillStep, DeletionStep, SaleStep, ReturnStep

-----------------------------------------------------------------------------
(* A bill that never was has no journals. *)
FreshBill == \A b \in Bills : bill[b] = "NONE" => journal[b] = [post |-> 0, contra |-> 0]

LEMMA FreshBillKept ==
    ASSUME TypeOK, FreshBill, [Next]_vars
    PROVE  FreshBill'
  <1>0. DocsTyped /\ JournalTyped /\ RequestsTyped /\ Bills \subseteq Docs
    BY TypeParts DEF Docs
  <1>1. ASSUME NEW d \in Docs, post(d) \/ reverse(d) \/ UNCHANGED journal,
               \A b \in Bills : bill'[b] = "NONE" => bill[b] = "NONE" /\ b # d
        PROVE  FreshBill'
    BY <1>0, <1>1, JournalEntry DEF FreshBill
  <1>2. ASSUME NEW w \in Workers, post_purchaseInvoices(w) \/ delete_Id2(w)
        PROVE  FreshBill'
    <2>1. req[w].doc \in Bills
      BY <1>0, <1>2, RequestFields DEF post_purchaseInvoices, delete_Id2
    <2>2. \A b \in Bills : bill'[b] = "NONE" => bill[b] = "NONE" /\ b # req[w].doc
      BY <1>0, <1>2, <2>1 DEF post_purchaseInvoices, delete_Id2, DocsTyped
    <2>3. post(req[w].doc) \/ reverse(req[w].doc) \/ UNCHANGED journal
      BY <1>2, Zenon DEF post_purchaseInvoices, delete_Id2
    <2> QED BY <1>0, <1>1, <2>1, <2>2, <2>3
  <1>3. ASSUME NEW v \in Sales, post_salesInvoices(v) \/ post_salesInvoiceCancel(v)
        PROVE  FreshBill'
    <2>1. v \in Docs /\ v \notin Bills
      BY TradeAssumption DEF Docs
    <2>2. UNCHANGED bill /\ (post(v) \/ reverse(v))
      BY <1>3, Zenon DEF post_salesInvoices, post_salesInvoiceCancel
    <2> QED BY <1>1, <2>1, <2>2
  <1>4. ASSUME NEW w \in Workers,
               post_returns(w) \/ post_returnApprove(w) \/ post_returnCancel(w)
        PROVE  FreshBill'
    <2>1. req[w].doc \in Docs /\ req[w].doc \notin Bills
      BY <1>4, ReturnSteps, TradeAssumption DEF Docs
    <2>2. UNCHANGED bill
      BY <1>4, Zenon DEF post_returns, post_returnApprove, post_returnCancel
    <2>3. post(req[w].doc) \/ reverse(req[w].doc) \/ UNCHANGED journal
      BY <1>4, Zenon DEF post_returns, post_returnApprove, post_returnCancel, PostReturn
    <2> QED BY <1>1, <2>1, <2>2, <2>3
  <1>5. UNCHANGED <<bill, journal>> => FreshBill'
    BY DEF FreshBill
  <1> QED BY <1>2, <1>3, <1>4, <1>5
          DEF Next, vars, post_purchaseOrders, put_Id, patch_status, CheckDeleteOrder, Ask,
              CheckBill, CheckDeleteBill, CheckReturn, CheckApprove, CheckCancelReturn,
              delete_Id, Abandon

(* Every void, deletion and cancellation of a document has its contra, and *)
(* no document is posted twice, outside the products where a bill was      *)
(* received or deleted by two requests or under a posted return.           *)
THEOREM BooksFollowDocuments == Spec => []JournalsFollowDocuments
  <1>1. Init => JournalsFollowDocuments /\ CancelSaw /\ FreshBill
    BY DEF Init, JournalsFollowDocuments, CancelSaw, FreshBill, Live, Idle, Docs
  <1>2. TypeOK /\ CancelSaw /\ FreshBill /\ JournalsFollowDocuments /\ [Next]_vars
            => JournalsFollowDocuments' /\ CancelSaw' /\ FreshBill'
    <2> SUFFICES ASSUME TypeOK, CancelSaw, FreshBill, JournalsFollowDocuments, [Next]_vars
                 PROVE  JournalsFollowDocuments'
      BY CancelSawKept, FreshBillKept
    <2>0. JournalTyped /\ DocumentStep
      BY TypeParts, EveryDocumentStep
    <2> SUFFICES ASSUME NEW d \in Docs, LineOf(d)'.product \notin known'.stock
                 PROVE  journal'[d].post - journal'[d].contra = IF Live(d)' THEN 1 ELSE 0
      BY DEF JournalsFollowDocuments
    <2>1. /\ journal[d].post \in Nat /\ journal[d].contra \in Nat
          /\ LineOf(d).product \notin known.stock =>
                journal[d].post - journal[d].contra = IF Live(d) THEN 1 ELSE 0
      BY <2>0 DEF JournalTyped, JournalsFollowDocuments
    <2>2. CASE NoDocument
      BY <2>1, <2>2 DEF NoDocument
    <2>3. ASSUME NEW e \in Docs, NEW l \in Lines, OnlyThis(e),
                 TakesEffect(e, l) \/ LosesEffect(e, l) \/ Struck(e, l), e # d
          PROVE  journal'[d].post - journal'[d].contra = IF Live(d)' THEN 1 ELSE 0
      BY <2>1, <2>3 DEF OnlyThis, TakesEffect, LosesEffect, Struck
    <2>4. ASSUME NEW l \in Lines, TakesEffect(d, l)
          PROVE  journal'[d].post - journal'[d].contra = IF Live(d)' THEN 1 ELSE 0
      <3>1. /\ journal'[d].post = journal[d].post + 1
            /\ journal'[d].contra = journal[d].contra
        BY <2>0, <2>4 DEF TakesEffect, JournalTyped
      <3>2. journal[d].post - journal[d].contra = 0
        BY <2>1, <2>4 DEF TakesEffect, FreshBill
      <3> QED BY <2>1, <2>4, <3>1, <3>2 DEF TakesEffect
    <2>5. ASSUME NEW l \in Lines, LosesEffect(d, l)
          PROVE  journal'[d].post - journal'[d].contra = IF Live(d)' THEN 1 ELSE 0
      <3>1. /\ journal'[d].contra = journal[d].contra + 1
            /\ journal'[d].post = journal[d].post
        BY <2>0, <2>5 DEF LosesEffect, JournalTyped
      <3> QED BY <2>1, <2>5, <3>1 DEF LosesEffect
    <2>6. \A l \in Lines : ~Struck(d, l)
      BY DEF Struck
    <2> QED BY <2>0, <2>2, <2>3, <2>4, <2>5, <2>6 DEF DocumentStep
  <1> QED BY <1>1, <1>2, TypeCorrect, PTL DEF Spec

(* The stock row is the opening stock plus the bills, sales and returns    *)
(* that stand, for any number of documents and of requests in flight, with *)
(* the same exception.                                                     *)
THEOREM StockIsDocuments == Spec => []StockFollowsDocuments
  <1>0. \A S \in SUBSET Docs : IsFiniteSet(S)
    BY FS_Subset, TradeAssumption
  <1>1. Init => StockFollowsDocuments /\ CancelSaw
    <2> SUFFICES ASSUME Init PROVE StockFollowsDocuments /\ CancelSaw
      OBVIOUS
    <2>1. \A p \in Products : LiveOf(p) = {}
      BY DEF Init, LiveOf, Live
    <2>2. ASSUME NEW p \in Products
          PROVE  qoh[p] = StockAtStart[p] + SumFunctionOnSet(Effect, LiveOf(p))
      <3>1. SumFunctionOnSet(Effect, LiveOf(p)) = 0
        BY <2>1, SumEmpty
      <3>2. StockAtStart[p] \in Nat /\ qoh[p] = StockAtStart[p]
        BY TradeAssumption DEF Init
      <3> QED BY <3>1, <3>2
    <2> QED BY <2>2 DEF Init, CancelSaw, Idle, StockFollowsDocuments
  <1>2. TypeOK /\ TypeOK' /\ CancelSaw /\ StockFollowsDocuments /\ [Next]_vars
            => StockFollowsDocuments' /\ CancelSaw'
    <2> SUFFICES ASSUME TypeOK, TypeOK', CancelSaw, StockFollowsDocuments, [Next]_vars
                 PROVE  StockFollowsDocuments'
      BY CancelSawKept
    <2>0. StockTyped /\ DocumentStep
      BY TypeParts, EveryDocumentStep
    <2> SUFFICES ASSUME NEW p \in Products, p \notin known'.stock
                 PROVE  qoh'[p] = StockAtStart[p] + SumFunctionOnSet(Effect, LiveOf(p))'
      BY DEF StockFollowsDocuments
    <2> DEFINE F == Effect
               G == Effect'
               L == LiveOf(p)
               M == LiveOf(p)'
    <2>1. /\ p \notin known.stock => qoh[p] = StockAtStart[p] + SumFunctionOnSet(F, L)
          /\ L \in SUBSET Docs /\ M \in SUBSET Docs /\ StockAtStart[p] \in Int
      BY TradeAssumption DEF StockFollowsDocuments, LiveOf
    <2>2. /\ \A d \in Docs : F[d] \in Int /\ F[d] = Worth(d, LineOf(d))
          /\ \A d \in Docs : G[d] \in Int /\ G[d] = Worth(d, LineOf(d)')
          /\ \A d \in Docs : LineOf(d)' = LineOf(d) => G[d] = F[d]
      <3>1. \A d \in Docs : LineOf(d) \in Lines /\ LineOf(d)' \in Lines
        <4>1. DocsTyped /\ items' \in [Bills -> Lines]
          BY TypeParts DEF TypeOK
        <4> QED BY <4>1, LineTyped DEF Docs
      <3>2. \A d \in Docs : F[d] = Worth(d, LineOf(d)) /\ G[d] = Worth(d, LineOf(d)')
        BY DEF Effect, Worth
      <3>3. \A d \in Docs, l \in Lines : Worth(d, l) \in Int
        BY EffectOf
      <3> HIDE DEF F, G
      <3> QED BY <3>1, <3>2, <3>3
    <2>3. SumFunctionOnSet(F, L) \in Int
      <3> HIDE DEF F, L
      <3>1. \A d \in L : F[d] \in Int
        BY <2>1, <2>2
      <3> QED BY <1>0, <2>1, <3>1, SumType
    (* Documents outside the step keep their line, their effect and, as far *)
    (* as p goes, their place in the sum.                                    *)
    <2>4. ASSUME M = L, \A x \in L : G[x] = F[x], qoh'[p] = qoh[p], p \notin known.stock
          PROVE  qoh'[p] = StockAtStart[p] + SumFunctionOnSet(G, M)
      <3> HIDE DEF F, G, L, M
      <3>1. SumFunctionOnSet(F, L) = SumFunctionOnSet(G, L)
        BY <1>0, <2>1, <2>4, SumSame
      <3> QED BY <2>1, <2>4, <3>1
    <2>5. CASE NoDocument
      <3>1. M = L /\ \A x \in L : LineOf(x)' = LineOf(x)
        BY <2>5 DEF NoDocument, LiveOf
      <3>2. \A x \in L : G[x] = F[x]
        <4> HIDE DEF F, G, L
        <4> QED BY <2>1, <2>2, <3>1
      <3>3. qoh'[p] = qoh[p] /\ p \notin known.stock
        BY <2>5 DEF NoDocument
      <3> HIDE DEF F, G, L, M
      <3> QED BY <2>4, <3>1, <3>2, <3>3 DEF F, G, L, M
    <2>6. ASSUME NEW d \in Docs, NEW l \in Lines, OnlyThis(d),
                 \/ (TakesEffect(d, l) \/ LosesEffect(d, l)) /\ l.product # p
                 \/ Struck(d, l)
          PROVE  qoh'[p] = StockAtStart[p] + SumFunctionOnSet(G, M)
      <3>1. d \notin L /\ d \notin M
        BY <2>6 DEF TakesEffect, LosesEffect, Struck, LiveOf
      <3>2. M = L /\ \A x \in L : LineOf(x)' = LineOf(x)
        BY <2>6, <3>1 DEF OnlyThis, LiveOf
      <3>3. \A x \in L : G[x] = F[x]
        <4> HIDE DEF F, G, L
        <4> QED BY <2>1, <2>2, <3>2
      <3>4. qoh'[p] = qoh[p] /\ p \notin known.stock
        BY <2>6 DEF TakesEffect, LosesEffect, Struck, OnlyStock
      <3> HIDE DEF F, G, L, M
      <3> QED BY <2>4, <3>2, <3>3, <3>4
    <2>7. ASSUME NEW d \in Docs, NEW l \in Lines, OnlyThis(d), TakesEffect(d, l),
                 l.product = p
          PROVE  qoh'[p] = StockAtStart[p] + SumFunctionOnSet(G, M)
      <3>1. /\ d \notin L /\ M = L \cup {d}
            /\ \A x \in L : LineOf(x)' = LineOf(x)
        BY <2>7 DEF OnlyThis, TakesEffect, LiveOf
      <3>2. qoh'[p] = qoh[p] + Worth(d, l) /\ p \notin known.stock /\ LineOf(d)' = l
        BY <2>7 DEF TakesEffect
      <3> HIDE DEF F, G, L, M
      <3>3. \A x \in L : G[x] = F[x] /\ G[x] \in Int
        BY <2>1, <2>2, <3>1
      <3>4. SumFunctionOnSet(F, L) = SumFunctionOnSet(G, L)
        BY <1>0, <2>1, <3>3, SumSame
      <3>5. G[d] \in Int /\ G[d] = Worth(d, l)
        BY <2>2, <3>2
      <3>6. SumFunctionOnSet(G, L \cup {d}) = SumFunctionOnSet(G, L) + G[d]
        BY <1>0, <2>1, <3>1, <3>3, <3>5, SumAdd
      <3> QED BY <2>1, <2>3, <3>1, <3>2, <3>4, <3>5, <3>6
    <2>8. ASSUME NEW d \in Docs, NEW l \in Lines, OnlyThis(d), LosesEffect(d, l),
                 l.product = p
          PROVE  qoh'[p] = StockAtStart[p] + SumFunctionOnSet(G, M)
      <3>1. /\ d \in L /\ M = L \ {d}
            /\ \A x \in L \ {d} : LineOf(x)' = LineOf(x)
        BY <2>8 DEF OnlyThis, LosesEffect, LiveOf
      <3>2. qoh'[p] = qoh[p] - Worth(d, l) /\ p \notin known.stock /\ LineOf(d) = l
        BY <2>8 DEF LosesEffect
      <3> HIDE DEF F, G, L, M
      <3>3. \A x \in L \ {d} : F[x] = G[x]
        BY <2>1, <2>2, <3>1
      <3>4. SumFunctionOnSet(F, L \ {d}) = SumFunctionOnSet(G, L \ {d})
        BY <1>0, <2>1, <3>3, SumSame
      <3>5. F[d] \in Int /\ F[d] = Worth(d, l)
        BY <2>2, <3>2
      <3>6. \A x \in L : F[x] \in Int
        BY <2>1, <2>2
      <3>7. SumFunctionOnSet(F, L) = F[d] + SumFunctionOnSet(F, L \ {d})
        BY <1>0, <2>1, <3>1, <3>6, SumRemove
      <3>8. SumFunctionOnSet(F, L \ {d}) \in Int
        <4>1. L \ {d} \in SUBSET Docs
          BY <2>1
        <4> QED BY <1>0, <3>6, <4>1, SumType
      <3> QED BY <2>1, <3>1, <3>2, <3>4, <3>5, <3>7, <3>8
    <2> QED BY <2>0, <2>5, <2>6, <2>7, <2>8 DEF DocumentStep
  <1> QED BY <1>1, <1>2, TypeCorrect, PTL DEF Spec

(* The exceptions only grow. *)
LEMMA KnownGrows ==
    ASSUME KnownTyped, [Next]_vars
    PROVE  /\ known.stock \subseteq known'.stock /\ known.register \subseteq known'.register
           /\ known.rows \subseteq known'.rows
  <1> DEFINE Grows == \/ UNCHANGED known
                      \/ \E S : SpoilStock(S) \/ SpoilRegister(S)
                      \/ \E b, l : SpoilByDeletion(b, l)
             Larger == /\ known.stock \subseteq known'.stock
                       /\ known.register \subseteq known'.register
                       /\ known.rows \subseteq known'.rows
  <1>1. ASSUME NEW S, SpoilStock(S) \/ SpoilRegister(S) PROVE Larger
    BY <1>1 DEF KnownTyped, SpoilStock, SpoilRegister
  <1>2. ASSUME NEW b, NEW l, SpoilByDeletion(b, l) PROVE Larger
    BY <1>2 DEF SpoilByDeletion
  <1>3. Grows
    <2>1. ASSUME NEW w \in Workers, post_purchaseInvoices(w) \/ delete_Id2(w) PROVE Grows
      BY <2>1, Zenon DEF post_purchaseInvoices, delete_Id2
    <2>2. ASSUME NEW v \in Sales, post_salesInvoices(v) \/ post_salesInvoiceCancel(v)
          PROVE  Grows
      BY <2>2, Zenon DEF post_salesInvoices, post_salesInvoiceCancel
    <2>3. ASSUME NEW w \in Workers,
                 post_returns(w) \/ post_returnApprove(w) \/ post_returnCancel(w)
          PROVE  Grows
      BY <2>3, Zenon DEF post_returns, post_returnApprove, post_returnCancel, PostReturn
    <2>4. UNCHANGED known => Grows
      OBVIOUS
    <2> HIDE DEF Grows
    <2> QED BY <2>1, <2>2, <2>3, <2>4
            DEF Next, vars, post_purchaseOrders, put_Id, patch_status, CheckDeleteOrder,
                Ask, CheckBill, CheckDeleteBill, CheckReturn, CheckApprove,
                CheckCancelReturn, delete_Id, Abandon
  <1> QED BY <1>1, <1>2, <1>3

(* The movement rows of a product explain its stock row as long as none of *)
(* its bills was deleted.                                                  *)
THEOREM RowsExplainStock == Spec => []LedgerExplainsStock
  <1>1. Init => LedgerExplainsStock
    BY TradeAssumption DEF Init, LedgerExplainsStock
  <1>2. TypeOK /\ LedgerExplainsStock /\ [Next]_vars => LedgerExplainsStock'
    <2> SUFFICES ASSUME TypeOK, LedgerExplainsStock, [Next]_vars,
                        NEW p \in Products, p \notin known'.rows
                 PROVE  qoh'[p] = StockAtStart[p] + moved'[p]
      BY DEF LedgerExplainsStock
    <2>0. StockTyped /\ RequestsTyped /\ KnownTyped /\ StockAtStart[p] \in Int
      BY TypeParts, TradeAssumption
    <2>1. ASSUME NEW w \in Workers, delete_Id2(w)
          PROVE  qoh'[p] = qoh[p] /\ moved'[p] = moved[p]
      <3>1. req[w].line \in Lines
        BY <2>0, <2>1, RequestFields DEF delete_Id2
      <3>2. req[w].line.product # p
        BY <2>1 DEF delete_Id2, SpoilByDeletion
      <3> QED BY <2>0, <2>1, <3>1, <3>2, LineFields DEF delete_Id2, StockTyped, Add
    <2>2. ASSUME NEW l \in Lines, Restore(l) \/ Deduct(l)
          PROVE  qoh'[p] - moved'[p] = qoh[p] - moved[p]
      BY <2>0, <2>2, LineFields DEF Restore, Deduct, StockTyped, Add
    <2>3. \/ UNCHANGED <<qoh, moved>>
          \/ \E l \in Lines : Restore(l) \/ Deduct(l)
          \/ \E w \in Workers : delete_Id2(w)
      <3>1. ASSUME NEW w \in Workers, post_purchaseInvoices(w)
            PROVE  UNCHANGED <<qoh, moved>> \/ \E l \in Lines : Restore(l)
        BY <2>0, <3>1, RequestFields DEF post_purchaseInvoices
      <3>2. ASSUME NEW v \in Sales, post_salesInvoices(v) \/ post_salesInvoiceCancel(v)
            PROVE  \E l \in Lines : Restore(l) \/ Deduct(l)
        BY <3>2, LineTyped DEF post_salesInvoices, post_salesInvoiceCancel
      <3>3. ASSUME NEW w \in Workers,
                   post_returns(w) \/ post_returnApprove(w) \/ post_returnCancel(w)
            PROVE  UNCHANGED <<qoh, moved>> \/ \E l \in Lines : Restore(l) \/ Deduct(l)
        <4>1. Line[req[w].doc] \in Lines
          BY <3>3, ReturnSteps, LineTyped
        <4> QED BY <3>3, <4>1
                DEF post_returns, post_returnApprove, post_returnCancel, PostReturn,
                    applyPurchaseReturnEffects, applySalesReturnEffects,
                    undoPurchaseReturn, undoSalesReturn
      <3> QED BY <3>1, <3>2, <3>3
              DEF Next, vars, post_purchaseOrders, put_Id, patch_status,
                  CheckDeleteOrder, Ask, CheckBill, CheckDeleteBill, CheckReturn,
                  CheckApprove, CheckCancelReturn, delete_Id, Abandon
    <2>4. p \notin known.rows
      BY <2>0, KnownGrows
    <2>5. qoh[p] = StockAtStart[p] + moved[p]
      BY <2>4 DEF LedgerExplainsStock
    <2>6. qoh[p] \in Int /\ moved[p] \in Int /\ qoh'[p] \in Int /\ moved'[p] \in Int
      <3>1. StockTyped'
        BY <2>0, EveryStockStep, StockStepTyped
      <3> QED BY <2>0, <3>1 DEF StockTyped
    <2>7. qoh'[p] - moved'[p] = qoh[p] - moved[p]
      BY <2>1, <2>2, <2>3
    <2> QED BY <2>0, <2>5, <2>6, <2>7
  <1> QED BY <1>1, <1>2, TypeCorrect, PTL DEF Spec

-----------------------------------------------------------------------------
(* What a step may do to the units on the shelf: those of a document come  *)
(* or go with its quantity, or its product is one a known defect struck.   *)
Arrives(l) ==
    /\ \A s \in l.serials : reg[s].status # "IN_STOCK"
    /\ \A s \in Serials : reg'[s].status = "IN_STOCK" <=>
                             s \in l.serials \/ reg[s].status = "IN_STOCK"

Leaves(l) ==
    /\ \A s \in l.serials : reg[s].status = "IN_STOCK"
    /\ \A s \in Serials : reg'[s].status = "IN_STOCK" <=>
                             s \notin l.serials /\ reg[s].status = "IN_STOCK"

Spoilt(l) ==
    /\ l.product \in known'.stock \cup known'.register
    /\ \A s \in Serials : ProductOf[s] # l.product =>
                             (reg'[s].status = "IN_STOCK" <=> reg[s].status = "IN_STOCK")
    /\ OnlyStock(l.product)

ShelfStep ==
    \/ UNCHANGED <<reg, qoh>>
    \/ \E l \in Lines : \/ Arrives(l) /\ qoh' = Add(qoh, l, l.qty)
                        \/ Leaves(l) /\ qoh' = Add(qoh, l, -l.qty)
                        \/ Spoilt(l)

LEMMA ShelfCount ==
    ASSUME StockTyped, KnownTyped, KnownTyped', RegisterMatchesStock, ShelfStep,
           known.stock \subseteq known'.stock, known.register \subseteq known'.register
    PROVE  RegisterMatchesStock'
  <1> DEFINE Shelf(p) == {s \in Serials : ProductOf[s] = p /\ reg[s].status = "IN_STOCK"}
             After(p) == {s \in Serials : ProductOf[s] = p /\ reg'[s].status = "IN_STOCK"}
  <1> SUFFICES ASSUME NEW p \in SerialTracked, p \notin known'.stock \cup known'.register
               PROVE  Cardinality(After(p)) = qoh'[p]
    BY DEF RegisterMatchesStock
  <1>1. /\ p \in Products /\ qoh[p] \in Int
        /\ Cardinality(Shelf(p)) = qoh[p]
        /\ IsFiniteSet(Shelf(p)) /\ IsFiniteSet(Serials)
    <2>1. p \in Products /\ qoh[p] \in Int /\ IsFiniteSet(Serials)
      BY TradeAssumption DEF StockTyped
    <2>2. IsFiniteSet(Shelf(p))
      BY <2>1, FS_Subset
    <2>3. Cardinality(Shelf(p)) = qoh[p]
      BY DEF RegisterMatchesStock
    <2> QED BY <2>1, <2>2, <2>3
  <1>2. ASSUME After(p) = Shelf(p), qoh'[p] = qoh[p] PROVE Cardinality(After(p)) = qoh'[p]
    BY <1>1, <1>2
  <1>3. CASE UNCHANGED <<reg, qoh>>
    <2>1. After(p) = Shelf(p) /\ qoh'[p] = qoh[p]
      BY <1>3
    <2> QED BY <1>2, <2>1
  <1>4. ASSUME NEW l \in Lines, l.product # p,
               \/ Arrives(l) /\ qoh' = Add(qoh, l, l.qty)
               \/ Leaves(l) /\ qoh' = Add(qoh, l, -l.qty)
               \/ Spoilt(l)
        PROVE  Cardinality(After(p)) = qoh'[p]
    <2>1. \A s \in Serials : ProductOf[s] = p =>
              s \notin l.serials /\ ProductOf[s] # l.product
      BY <1>4, LineFields
    <2>2. \A s \in Serials : ProductOf[s] = p =>
              (reg'[s].status = "IN_STOCK" <=> reg[s].status = "IN_STOCK")
      BY <1>4, <2>1 DEF Arrives, Leaves, Spoilt
    <2>3. qoh'[p] = qoh[p]
      BY <1>1, <1>4, LineFields DEF StockTyped, Add, Spoilt, OnlyStock
    <2>4. After(p) = Shelf(p)
      BY <2>2
    <2> QED BY <1>2, <2>3, <2>4
  <1>5. ASSUME NEW l \in Lines, l.product = p
        PROVE  /\ IsFiniteSet(l.serials)
               /\ Cardinality(l.serials) = l.qty /\ l.qty \in Nat
               /\ \A s \in l.serials : s \in Serials /\ ProductOf[s] = p
    <2>1. l.serials \in SUBSET Serials /\ l.qty \in Nat
      BY LineFields
    <2>2. IsFiniteSet(l.serials)
      BY <1>1, <2>1, FS_Subset
    <2> QED BY <1>5, <2>1, <2>2, LineFields
  <1>6. ASSUME NEW l \in Lines, l.product = p,
               Arrives(l), qoh' = Add(qoh, l, l.qty)
        PROVE  Cardinality(After(p)) = qoh'[p]
    <2> DEFINE L == l.serials
    <2>1. After(p) = Shelf(p) \cup L /\ Shelf(p) \cap L = {}
      BY <1>5, <1>6 DEF Arrives
    <2>2. Cardinality(Shelf(p) \cup L) = Cardinality(Shelf(p)) + Cardinality(L)
      <3> HIDE DEF Shelf, L
      <3>1. IsFiniteSet(Shelf(p)) /\ IsFiniteSet(L)
        BY <1>1, <1>5, <1>6 DEF L
      <3>2. /\ Cardinality(Shelf(p) \cup L) =
                  Cardinality(Shelf(p)) + Cardinality(L) - Cardinality(Shelf(p) \cap L)
            /\ Cardinality(Shelf(p) \cap L) = 0
        BY <2>1, <3>1, FS_Union, FS_EmptySet
      <3>3. Cardinality(Shelf(p)) \in Nat /\ Cardinality(L) \in Nat
        BY <3>1, FS_CardinalityType
      <3> QED BY <3>2, <3>3
    <2>3. qoh'[p] = qoh[p] + l.qty
      BY <1>1, <1>5, <1>6 DEF StockTyped, Add
    <2>4. Cardinality(L) = l.qty
      BY <1>5, <1>6
    <2> HIDE DEF Shelf, After, L
    <2> QED BY <1>1, <2>1, <2>2, <2>3, <2>4
  <1>7. ASSUME NEW l \in Lines, l.product = p,
               Leaves(l), qoh' = Add(qoh, l, -l.qty)
        PROVE  Cardinality(After(p)) = qoh'[p]
    <2> DEFINE L == l.serials
    <2>1. Shelf(p) = After(p) \cup L /\ After(p) \cap L = {}
      BY <1>5, <1>7 DEF Leaves
    <2>0. IsFiniteSet(After(p)) /\ IsFiniteSet(L)
      BY <1>1, <1>5, <1>7, FS_Subset
    <2>2. /\ Cardinality(After(p) \cup L) = Cardinality(After(p)) + Cardinality(L)
          /\ Cardinality(After(p)) \in Nat
      <3> HIDE DEF After, L
      <3>2. /\ Cardinality(After(p) \cup L) =
                  Cardinality(After(p)) + Cardinality(L) - Cardinality(After(p) \cap L)
            /\ Cardinality(After(p) \cap L) = 0
        BY <2>0, <2>1, FS_Union, FS_EmptySet
      <3>3. Cardinality(After(p)) \in Nat /\ Cardinality(L) \in Nat
        BY <2>0, FS_CardinalityType
      <3> QED BY <3>2, <3>3
    <2>3. qoh'[p] = qoh[p] - l.qty
      BY <1>1, <1>5, <1>7 DEF StockTyped, Add
    <2>4. Cardinality(L) = l.qty /\ l.qty \in Nat
      BY <1>5, <1>7
    <2> HIDE DEF Shelf, After, L
    <2> QED BY <1>1, <2>1, <2>2, <2>3, <2>4
  <1>8. ASSUME NEW l \in Lines, l.product = p, Spoilt(l) PROVE FALSE
    BY <1>8 DEF Spoilt
  <1> HIDE DEF After, Shelf
  <1> QED BY <1>3, <1>4, <1>6, <1>7, <1>8 DEF ShelfStep

(* A posted return that is not restockable has struck its product: in the  *)
(* register its units are on the shelf, in the stock row they are not.     *)
DamagedIsKnown ==
    \A r \in SalesReturns \ Restockable : ret[r] = "POSTED" =>
        Line[r].product \in known.register

LEMMA FlipMoves ==
    ASSUME RegisterTyped, NEW l \in Lines, NEW from, NEW to, SerialFlip(l, from, to)
    PROVE  /\ from # "IN_STOCK" /\ to = "IN_STOCK" => Arrives(l)
           /\ from = "IN_STOCK" /\ to # "IN_STOCK" => Leaves(l)
           /\ \A s \in Serials : ProductOf[s] # l.product => reg'[s] = reg[s]
  BY LineFields DEF RegisterTyped, Register, SerialFlip, Arrives, Leaves

LEMMA ReturnShelf ==
    ASSUME TypeOK, CancelSaw, DamagedIsKnown, [Next]_vars, NEW w \in Workers,
           post_returns(w) \/ post_returnApprove(w) \/ post_returnCancel(w)
    PROVE  ShelfStep /\ DamagedIsKnown'
  <1> DEFINE r == req[w].doc
  <1>0. /\ StockTyped /\ RegisterTyped /\ DocsTyped /\ KnownTyped
        /\ known.register \subseteq known'.register
        /\ r \in Returns /\ Line[r] \in Lines /\ Line[r].product \in Products
        /\ r \in PurchaseReturns => r \notin SalesReturns
        /\ r \notin PurchaseReturns => r \in SalesReturns
        /\ Restockable \subseteq SalesReturns /\ SalesReturns \subseteq Returns
    <2>1. r \in Returns
      BY ReturnSteps
    <2>2. r \in Docs /\ Line[r] \in Lines
      BY <2>1, LineTyped DEF Docs
    <2> QED BY <2>1, <2>2, TypeParts, KnownGrows, Kinds, LineFields, TradeAssumption DEF Returns
  <1>1. ASSUME UNCHANGED <<qoh, reg>>, NEW st \in {"DRAFT", "CANCELLED"},
               ret' = [ret EXCEPT ![r] = st]
        PROVE  ShelfStep /\ DamagedIsKnown'
    <2>1. ShelfStep
      BY <1>1 DEF ShelfStep
    <2>2. \A x \in Returns : ret'[x] = "POSTED" => ret[x] = "POSTED"
      BY <1>0, <1>1 DEF DocsTyped
    <2> QED BY <1>0, <2>1, <2>2 DEF DamagedIsKnown
  <1>2. ASSUME PostReturn(r) PROVE ShelfStep /\ DamagedIsKnown'
    <2>1. \A x \in Returns : ret'[x] = "POSTED" => x = r \/ ret[x] = "POSTED"
      BY <1>0, <1>2 DEF PostReturn, DocsTyped
    <2>2. r \in SalesReturns \ Restockable => Line[r].product \in known'.register
      BY <1>0, <1>2 DEF PostReturn, SpoilRegister, KnownTyped
    <2>3. DamagedIsKnown'
      BY <1>0, <2>1, <2>2 DEF DamagedIsKnown
    <2>4. CASE r \in PurchaseReturns
      <3>1. Deduct(Line[r]) /\ SerialFlip(Line[r], "IN_STOCK", "RETURNED_TO_VENDOR")
        BY <1>2, <2>4 DEF PostReturn, applyPurchaseReturnEffects
      <3>2. Leaves(Line[r])
        BY <1>0, <3>1, FlipMoves
      <3> QED BY <1>0, <2>3, <3>1, <3>2 DEF ShelfStep, Deduct
    <2>5. CASE r \in Restockable
      <3>1. Restore(Line[r]) /\ SerialFlip(Line[r], "CUSTOMER_ASSIGNED", "IN_STOCK")
        BY <1>0, <1>2, <2>5 DEF PostReturn, applySalesReturnEffects
      <3>2. Arrives(Line[r])
        BY <1>0, <3>1, FlipMoves
      <3> QED BY <1>0, <2>3, <3>1, <3>2 DEF ShelfStep, Restore
    <2>6. CASE r \in SalesReturns \ Restockable
      <3>1. UNCHANGED qoh /\ SerialFlip(Line[r], "CUSTOMER_ASSIGNED", "IN_STOCK")
        BY <1>0, <1>2, <2>6 DEF PostReturn, applySalesReturnEffects
      <3>2. \A s \in Serials : ProductOf[s] # Line[r].product => reg'[s] = reg[s]
        BY <1>0, <3>1, FlipMoves
      <3>3. Spoilt(Line[r])
        BY <2>2, <2>6, <3>1, <3>2 DEF Spoilt, OnlyStock
      <3> QED BY <1>0, <2>3, <3>3 DEF ShelfStep
    <2> QED BY <1>0, <2>4, <2>5, <2>6
  <1>3. ASSUME ret[r] = "POSTED", ret' = [ret EXCEPT ![r] = "CANCELLED"],
               IF r \in PurchaseReturns THEN undoPurchaseReturn(r) ELSE undoSalesReturn(r)
        PROVE  ShelfStep /\ DamagedIsKnown'
    <2>1. \A x \in Returns : ret'[x] = "POSTED" => ret[x] = "POSTED"
      BY <1>0, <1>3 DEF DocsTyped
    <2>2. DamagedIsKnown'
      BY <1>0, <2>1 DEF DamagedIsKnown
    <2>3. CASE r \in PurchaseReturns
      <3>1. Restore(Line[r]) /\ SerialFlip(Line[r], "RETURNED_TO_VENDOR", "IN_STOCK")
        BY <1>3, <2>3 DEF undoPurchaseReturn
      <3>2. Arrives(Line[r])
        BY <1>0, <3>1, FlipMoves
      <3> QED BY <1>0, <2>2, <3>1, <3>2 DEF ShelfStep, Restore
    <2>4. CASE r \in Restockable
      <3>1. Deduct(Line[r]) /\ SerialFlip(Line[r], "IN_STOCK", "SOLD")
        BY <1>0, <1>3, <2>4 DEF undoSalesReturn
      <3>2. Leaves(Line[r])
        BY <1>0, <3>1, FlipMoves
      <3> QED BY <1>0, <2>2, <3>1, <3>2 DEF ShelfStep, Deduct
    <2>5. CASE r \in SalesReturns \ Restockable
      <3>1. UNCHANGED qoh /\ SerialFlip(Line[r], "IN_STOCK", "SOLD")
        BY <1>0, <1>3, <2>5 DEF undoSalesReturn
      <3>2. \A s \in Serials : ProductOf[s] # Line[r].product => reg'[s] = reg[s]
        BY <1>0, <3>1, FlipMoves
      <3>3. Line[r].product \in known'.register
        BY <1>0, <1>3, <2>5 DEF DamagedIsKnown
      <3>4. Spoilt(Line[r])
        BY <3>1, <3>2, <3>3 DEF Spoilt, OnlyStock
      <3> QED BY <1>0, <2>2, <3>4 DEF ShelfStep
    <2> QED BY <1>0, <2>3, <2>4, <2>5
  <1>4. CASE post_returns(w)
    BY <1>1, <1>2, <1>4, Zenon DEF post_returns
  <1>5. CASE post_returnApprove(w)
    BY <1>2, <1>5, Zenon DEF post_returnApprove
  <1>6. CASE post_returnCancel(w)
    <2>1. req[w].saw \in {"DRAFT", "POSTED"} /\ ret[r] = req[w].saw
      BY <1>6 DEF post_returnCancel, StillAsSeen, CancelSaw
    <2>2. ret' = [ret EXCEPT ![r] = "CANCELLED"]
      BY <1>6, Zenon DEF post_returnCancel
    <2>3. CASE req[w].saw = "DRAFT"
      BY <1>1, <1>6, <2>2, <2>3, Zenon DEF post_returnCancel
    <2>4. CASE req[w].saw = "POSTED"
      BY <1>3, <1>6, <2>1, <2>2, <2>4 DEF post_returnCancel
    <2> QED BY <2>1, <2>3, <2>4
  <1> QED BY <1>4, <1>5, <1>6

LEMMA BillShelf ==
    ASSUME TypeOK, NEW w \in Workers, post_purchaseInvoices(w) \/ delete_Id2(w),
           NEW b, b = req[w].doc, NEW l, l = req[w].line
    PROVE  ShelfStep
  <1>0. StockTyped /\ RegisterTyped /\ KnownTyped /\ l \in Lines
    BY TypeParts, RequestFields DEF post_purchaseInvoices, delete_Id2
  <1>1. ASSUME Restore(l), registerPurchaseSerials(b, l) PROVE ShelfStep
    <2>1. Arrives(l)
      BY <1>0, <1>1, LineFields DEF registerPurchaseSerials, Arrives, RegisterTyped
    <2> QED BY <1>0, <1>1, <2>1 DEF ShelfStep, Restore
  <1>2. CASE post_purchaseInvoices(w)
    <2>1. \/ Restore(l) /\ registerPurchaseSerials(b, l)
          \/ UNCHANGED <<qoh, reg>>
      BY <1>2, Zenon DEF post_purchaseInvoices
    <2> QED BY <1>1, <2>1 DEF ShelfStep
  <1>3. CASE delete_Id2(w)
    <2>1. qoh' = Add(qoh, l, -l.qty) /\ deleteRegisterRows(l) /\ SpoilByDeletion(b, l)
      BY <1>3, Zenon DEF delete_Id2
    <2>2. CASE \E s \in l.serials : reg[s].status = "ABSENT"
      <3>1. l.product \in known'.stock \cup known'.register
        BY <2>1, <2>2 DEF SpoilByDeletion
      <3>2. \A s \in Serials : ProductOf[s] # l.product => reg'[s] = reg[s]
        BY <1>0, <2>1, LineFields DEF deleteRegisterRows, RegisterTyped
      <3>3. OnlyStock(l.product)
        BY <1>0, <2>1, StockEntry
      <3>4. Spoilt(l)
        BY <3>1, <3>2, <3>3 DEF Spoilt
      <3> QED BY <1>0, <3>4 DEF ShelfStep
    <2>3. CASE ~ \E s \in l.serials : reg[s].status = "ABSENT"
      <3>1. Leaves(l)
        BY <1>0, <2>1, <2>3, LineFields DEF deleteRegisterRows, Leaves, RegisterTyped, NoRow
      <3> QED BY <1>0, <2>1, <3>1 DEF ShelfStep
    <2> QED BY <2>2, <2>3
  <1> QED BY <1>2, <1>3

LEMMA SaleShelf ==
    ASSUME TypeOK, AssignedByLiveSale, NEW v \in Sales,
           post_salesInvoices(v) \/ post_salesInvoiceCancel(v)
    PROVE  ShelfStep
  <1>0. /\ StockTyped /\ RegisterTyped /\ KnownTyped
        /\ Line[v] \in Lines /\ Line[v].product \in Products
    BY TypeParts, LineTyped, LineFields
  <1>1. CASE post_salesInvoices(v)
    <2>1. Leaves(Line[v])
      BY <1>0, <1>1, LineFields DEF post_salesInvoices, Leaves, RegisterTyped
    <2> QED BY <1>0, <1>1, <2>1 DEF ShelfStep, post_salesInvoices, Deduct
  <1>2. CASE post_salesInvoiceCancel(v)
    <2>1. Restore(Line[v]) /\ releaseSerials(v)
      BY <1>2 DEF post_salesInvoiceCancel
    <2>2. \A s \in Serials : reg[s].source = v /\ reg[s].status = "CUSTOMER_ASSIGNED" =>
              s \in Line[v].serials
      BY DEF AssignedByLiveSale
    <2>3. CASE \A s \in Line[v].serials : /\ reg[s].status = "CUSTOMER_ASSIGNED"
                                          /\ reg[s].source = v
      <3>1. Arrives(Line[v])
        BY <1>0, <2>1, <2>2, <2>3, LineFields
        DEF releaseSerials, Arrives, RegisterTyped, Register
      <3> QED BY <1>0, <2>1, <3>1 DEF ShelfStep, Restore
    <2>4. CASE ~ \A s \in Line[v].serials : /\ reg[s].status = "CUSTOMER_ASSIGNED"
                                            /\ reg[s].source = v
      <3>1. Line[v].product \in known'.stock \cup known'.register
        BY <1>0, <1>2, <2>4 DEF post_salesInvoiceCancel, SpoilRegister, KnownTyped
      <3>2. \A s \in Serials : ProductOf[s] # Line[v].product => reg'[s] = reg[s]
        BY <1>0, <2>1, <2>2, LineFields DEF releaseSerials, RegisterTyped
      <3>3. OnlyStock(Line[v].product)
        BY <1>0, <2>1, StockEntry
      <3>4. Spoilt(Line[v])
        BY <3>1, <3>2, <3>3 DEF Spoilt
      <3> QED BY <1>0, <3>4 DEF ShelfStep
    <2> QED BY <2>3, <2>4
  <1> QED BY <1>1, <1>2

(* The register holds as many units on the shelf as the stock row says,    *)
(* for any number of units, documents and requests in flight, but for the  *)
(* products a known defect has struck.  The proof needs who holds a unit   *)
(* that is out: a void releases exactly the units of its own line.         *)
THEOREM RegisterFollowsStock == Spec => []RegisterMatchesStock
  <1> DEFINE Inv == RegisterMatchesStock /\ CancelSaw /\ DamagedIsKnown
  <1>1. Init => Inv
    <2> SUFFICES ASSUME Init PROVE Inv
      OBVIOUS
    <2>1. \A p \in SerialTracked :
             {s \in Serials : ProductOf[s] = p /\ reg[s].status = "IN_STOCK"} = {}
      BY DEF Init, NoRow
    <2>2. RegisterMatchesStock
      BY <2>1, FS_EmptySet, TradeAssumption DEF RegisterMatchesStock, Init
    <2>3. CancelSaw /\ DamagedIsKnown
      BY TradeAssumption DEF Init, CancelSaw, Idle, DamagedIsKnown, Returns
    <2> QED BY <2>2, <2>3
  <1>2. TypeOK /\ TypeOK' /\ AssignedByLiveSale /\ Inv /\ [Next]_vars => Inv'
    <2> SUFFICES ASSUME TypeOK, TypeOK', AssignedByLiveSale, Inv, [Next]_vars PROVE Inv'
      OBVIOUS
    <2>0. /\ StockTyped /\ KnownTyped /\ KnownTyped'
          /\ known.stock \subseteq known'.stock /\ known.register \subseteq known'.register
      BY TypeParts, KnownGrows DEF KnownTyped, TypeOK
    <2>1. CancelSaw'
      BY CancelSawKept
    <2>2. UNCHANGED ret => DamagedIsKnown'
      BY <2>0 DEF DamagedIsKnown
    <2>3. ShelfStep /\ DamagedIsKnown'
      <3>1. ASSUME NEW w \in Workers, post_purchaseInvoices(w) \/ delete_Id2(w)
            PROVE  ShelfStep /\ UNCHANGED ret
        BY <3>1, BillShelf DEF post_purchaseInvoices, delete_Id2
      <3>2. ASSUME NEW v \in Sales, post_salesInvoices(v) \/ post_salesInvoiceCancel(v)
            PROVE  ShelfStep /\ UNCHANGED ret
        BY <3>2, SaleShelf DEF post_salesInvoices, post_salesInvoiceCancel
      <3>3. ASSUME NEW w \in Workers,
                   post_returns(w) \/ post_returnApprove(w) \/ post_returnCancel(w)
            PROVE  ShelfStep /\ DamagedIsKnown'
        BY <3>3, ReturnShelf
      <3>4. UNCHANGED <<reg, qoh, ret>> => ShelfStep /\ DamagedIsKnown'
        BY <2>2 DEF ShelfStep
      <3> QED BY <2>2, <3>1, <3>2, <3>3, <3>4
              DEF Next, vars, post_purchaseOrders, put_Id, patch_status, CheckDeleteOrder,
                  Ask, CheckBill, CheckDeleteBill, CheckReturn, CheckApprove,
                  CheckCancelReturn, delete_Id, Abandon
    <2> QED BY <2>0, <2>1, <2>3, ShelfCount
  <1> QED BY <1>1, <1>2, TypeCorrect, AssignedByLive, PTL DEF Spec

=============================================================================
