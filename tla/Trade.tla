------------------------------- MODULE Trade -------------------------------
(***************************************************************************)
(* Goods bought and sold: purchase orders, vendor bills, sales invoices    *)
(* and the returns of both (server/src/controllers/procurement.controller  *)
(* and sales.controller with the SQL of models/procurement.repo.ts and     *)
(* models/sales.repo.ts), over the stock rows and the serial register.     *)
(*                                                                         *)
(* Most handlers validate on reads made before their transaction: those    *)
(* are two steps, a check that leaves an entry in req and the transaction, *)
(* with other requests in between.  A sale claims and deducts under its    *)
(* own guards, and the void of a sale decides again under the invoice's    *)
(* row lock: these are one step.                                           *)
(*                                                                         *)
(* A document has one line and all name the same branch: lines are treated *)
(* one after the other and rolled back together.  Line and Original are    *)
(* what the requests say; the line of a bill is in the state, because a    *)
(* bill that is posted again may carry another.  Unit cost is positive and *)
(* constant, so a journal is a count.  Payments are in Settlement: the     *)
(* sales voided here are unpaid.                                           *)
(***************************************************************************)
EXTENDS Integers, FiniteSets, FiniteSetsExt

CONSTANTS
    Products, Serials, SerialTracked, ProductOf,
    Orders, Bills, Sales, PurchaseReturns, SalesReturns,
    Workers,       \* requests the server handles at the same time
    Line,          \* the line of each sale and return
    BillLines,     \* the lines a request may carry for a bill
    Original,      \* the bill or sale a return refers to
    OrderOf,       \* the order a bill refers to, or NoDoc
    OrderedProduct,
    OrderQuantities,   \* what the order screen may enter
    Restockable,   \* sales returns that go back on the shelf
    Held,          \* returns above RETURNS_APPROVAL_THRESHOLD_NPR
    StockAtStart, NoDoc

Returns == PurchaseReturns \cup SalesReturns
Docs == Bills \cup Sales \cup Returns

(* planPurchaseSerialEntries, planSerialGateEntries and                    *)
(* validateReturnSerialCounts: one serial of the product per unit of a     *)
(* serial-tracked product.                                                 *)
OneSerialPerUnit(l) ==
    /\ \A s \in l.serials : ProductOf[s] = l.product
    /\ IF l.product \in SerialTracked THEN Cardinality(l.serials) = l.qty
                                      ELSE l.serials = {}

Lines == {l \in [product : Products, qty : Nat \ {0}, serials : SUBSET Serials] :
             OneSerialPerUnit(l)}

ASSUME LineAssumption ==
    /\ Line \in [Sales \cup Returns -> Lines]
    /\ BillLines \in [Bills -> SUBSET Lines] /\ \A b \in Bills : BillLines[b] # {}
    /\ Original \in [Returns -> Bills \cup Sales]
    /\ \A r \in Returns : /\ r \in PurchaseReturns <=> Original[r] \in Bills
                          /\ r \in SalesReturns <=> Original[r] \in Sales

ASSUME TradeAssumption ==
    /\ ProductOf \in [Serials -> Products] /\ SerialTracked \subseteq Products
    /\ StockAtStart \in [Products -> Nat]
    /\ OrderOf \in [Bills -> Orders \cup {NoDoc}]
    /\ OrderedProduct \in [Orders -> Products]
    /\ OrderQuantities \subseteq Nat \ {0}
    /\ Restockable \subseteq SalesReturns /\ Held \subseteq Returns
    /\ NoDoc \notin Docs \cup Orders
    /\ Bills \cap Sales = {} /\ Returns \cap (Bills \cup Sales) = {}
    /\ IsFiniteSet(Docs) /\ IsFiniteSet(Serials)
    /\ \A p \in SerialTracked : StockAtStart[p] = 0   \* the register starts empty

VARIABLES
    qoh,       \* inventory_stock.quantity_on_hand
    incoming,  \* inventory_stock.incoming_qty
    reg,       \* serial_log: status ("ABSENT": no row) and source document
    order,     \* purchase_orders: status and ordered quantity
    bill,      \* purchase_invoices ("NONE": never, "DELETED": no longer)
    items,     \* purchase_invoices.items, once there has been a row
    sale,      \* sales_invoices.status
    ret,       \* purchase_returns.status and sales_returns.status
    moved,     \* sum of the product's transaction_logs rows
    damage,    \* sales returns with an IDENTIFIED damage record
    journal,   \* gl_journals by document, and their contras
    req,       \* requests between their check and their transaction
    known      \* history: where a known defect has struck

vars == <<qoh, incoming, reg, order, bill, items, sale, ret, moved, damage,
          journal, req, known>>

-----------------------------------------------------------------------------
UnitStatuses == {"ABSENT", "IN_STOCK", "CUSTOMER_ASSIGNED", "SOLD",
                 "RETURNED_TO_VENDOR"}

Register == [status : UnitStatuses, source : Bills \cup Sales \cup {NoDoc}]
NoRow == [status |-> "ABSENT", source |-> NoDoc]

OrderStatuses == {"NONE", "APPROVED", "RECEIVED", "CANCELLED", "DELETED"}

Idle == [kind |-> "idle", doc |-> NoDoc, saw |-> "NONE"]
Requests == {Idle} \cup
    [kind : {"bill", "deleteBill"}, doc : Bills, saw : {"NONE", "POSTED"},
     line : Lines] \cup
    [kind : {"deleteOrder"}, doc : Orders, saw : Nat] \cup
    [kind : {"return", "approve", "cancelReturn"}, doc : Returns,
     saw : {"NONE", "DRAFT", "POSTED"}]

TypeOK ==
    /\ qoh \in [Products -> Int]
    /\ incoming \in [Products -> Nat]
    /\ reg \in [Serials -> Register]
    /\ order \in [Orders -> [status : OrderStatuses, qty : Nat]]
    /\ bill \in [Bills -> {"NONE", "POSTED", "DELETED"}]
    /\ items \in [Bills -> Lines]
    /\ sale \in [Sales -> {"NONE", "POSTED", "CANCELLED"}]
    /\ ret \in [Returns -> {"NONE", "DRAFT", "POSTED", "CANCELLED"}]
    /\ moved \in [Products -> Int]
    /\ damage \subseteq SalesReturns
    /\ journal \in [Docs -> [post : Nat, contra : Nat]]
    /\ req \in [Workers -> Requests]
    /\ known \in [stock : SUBSET Products, register : SUBSET Products,
                  rows : SUBSET Products]

Init ==
    /\ qoh = StockAtStart
    /\ incoming = [p \in Products |-> 0]
    /\ reg = [s \in Serials |-> NoRow]
    /\ order = [o \in Orders |-> [status |-> "NONE", qty |-> 0]]
    /\ bill = [b \in Bills |-> "NONE"]
    /\ items = [b \in Bills |-> CHOOSE l \in BillLines[b] : TRUE]
    /\ sale = [v \in Sales |-> "NONE"]
    /\ ret = [r \in Returns |-> "NONE"]
    /\ moved = [p \in Products |-> 0]
    /\ damage = {}
    /\ journal = [d \in Docs |-> [post |-> 0, contra |-> 0]]
    /\ req = [w \in Workers |-> Idle]
    /\ known = [stock |-> {}, register |-> {}, rows |-> {}]

-----------------------------------------------------------------------------
(* Building blocks. *)

LineOf(d) == IF d \in Bills THEN items[d] ELSE Line[d]

Add(f, l, n) == [f EXCEPT ![l.product] = @ + n]

Covers(l) == l.qty <= qoh[l.product]

(* A guarded UPDATE of quantity_on_hand and the movement row beside it.    *)
Deduct(l) ==
    /\ Covers(l)
    /\ qoh' = Add(qoh, l, -l.qty)
    /\ moved' = Add(moved, l, -l.qty)

Restore(l) ==
    /\ qoh' = Add(qoh, l, l.qty)
    /\ moved' = Add(moved, l, l.qty)

post(d) == journal' = [journal EXCEPT ![d].post = @ + 1]

\* Mutant: the original's journal is left standing.
NoContra(d) == UNCHANGED journal

(* reverseSourceJournal: an earlier contra is not looked for.              *)
reverse(d) == journal' = [journal EXCEPT ![d].contra = @ + 1]

(* SR_SERIAL_FLIP_SQL and PR_SERIAL_FLIP_SQL with the check of their row   *)
(* count: units of the line by name, in one status; source_id stays.       *)
SerialFlip(l, from, to) ==
    /\ \A s \in l.serials : reg[s].status = from
    /\ reg' = [s \in Serials |-> IF s \in l.serials
                                 THEN [reg[s] EXCEPT !.status = to] ELSE reg[s]]

Ask(w, request) ==
    /\ req[w] = Idle
    /\ req' = [req EXCEPT ![w] = request]
    /\ UNCHANGED <<qoh, incoming, reg, order, bill, items, sale, ret, moved,
                   damage, journal, known>>

Done(w) == req' = [req EXCEPT ![w] = Idle]

SpoilStock(S) == known' = [known EXCEPT !.stock = @ \cup S]
SpoilRegister(S) == known' = [known EXCEPT !.register = @ \cup S]

-----------------------------------------------------------------------------
(* Purchase orders. *)

(* The header and the reservation commit together.                         *)
post_purchaseOrders(o, n) ==
    LET p == OrderedProduct[o] IN
    /\ order[o].status = "NONE"
    /\ order' = [order EXCEPT ![o] = [status |-> "APPROVED", qty |-> n]]
    /\ incoming' = [incoming EXCEPT ![p] = @ + n]
    /\ UNCHANGED <<qoh, reg, bill, items, sale, ret, moved, damage, journal, req,
                   known>>

(* Status and lines are written over, whatever they were; the reservation  *)
(* is left as it is.                                                       *)
put_Id(o, st, n) ==
    /\ order[o].status \notin {"NONE", "DELETED"}
    /\ order' = [order EXCEPT ![o] = [status |-> st, qty |-> n]]
    /\ UNCHANGED <<qoh, incoming, reg, bill, items, sale, ret, moved, damage,
                   journal, req, known>>

patch_status(o, st) == put_Id(o, st, order[o].qty)

Linked(o) == \E b \in Bills : OrderOf[b] = o /\ bill[b] = "POSTED"

CheckDeleteOrder(w, o) ==
    /\ order[o].status \in {"APPROVED", "CANCELLED"} /\ ~Linked(o)
    /\ Ask(w, [kind |-> "deleteOrder", doc |-> o, saw |-> order[o].qty])

(* PO_RELEASE_INCOMING_SQL: GREATEST(0, incoming_qty - n)                  *)
Release(p, n) == [incoming EXCEPT ![p] = IF n <= @ THEN @ - n ELSE 0]

(* Nothing of the check is repeated in the transaction, which releases the *)
(* quantity it read.                                                       *)
delete_Id(w) ==
    LET o == req[w].doc IN
    /\ req[w].kind = "deleteOrder"
    /\ incoming' = Release(OrderedProduct[o], req[w].saw)
    /\ order' = [order EXCEPT ![o].status = "DELETED"]
    /\ Done(w)
    /\ UNCHANGED <<qoh, reg, bill, items, sale, ret, moved, damage, journal, known>>

(* PO_MARK_STATUS_SQL updates no row when the order is gone.               *)
markOrder(b, st) ==
    order' = [o \in Orders |->
                 IF o = OrderOf[b] /\ order[o].status \notin {"NONE", "DELETED"}
                 THEN [order[o] EXCEPT !.status = st] ELSE order[o]]

-----------------------------------------------------------------------------
(* Vendor bills. *)

MatchesOrder(b, l) ==
    OrderOf[b] # NoDoc =>
        /\ order[OrderOf[b]].status \notin {"NONE", "DELETED"}
        /\ order[OrderOf[b]].qty = l.qty
        /\ OrderedProduct[OrderOf[b]] = l.product

(* PI_EXISTS_SQL is asked before the transaction; ids are not used again   *)
(* after a deletion.                                                       *)
CheckBill(w, b, l) ==
    /\ bill[b] # "DELETED"
    /\ MatchesOrder(b, l)
    /\ Ask(w, [kind |-> "bill", doc |-> b, saw |-> bill[b], line |-> l])

(* registerPurchaseSerials: a new row, or a unit the vendor had back.      *)
registerPurchaseSerials(b, l) ==
    /\ \A s \in l.serials : reg[s].status \in {"ABSENT", "RETURNED_TO_VENDOR"}
    /\ reg' = [s \in Serials |-> IF s \in l.serials
                                 THEN [status |-> "IN_STOCK", source |-> b]
                                 ELSE reg[s]]

(* A bill that the check did not find is received, one that it did find is *)
(* only written over, lines included (PI_UPSERT_SQL): neither stock nor    *)
(* register follows them.  The row may have come or gone since the check.  *)
post_purchaseInvoices(w) ==
    LET b == req[w].doc  l == req[w].line IN
    /\ req[w].kind = "bill"
    /\ bill' = [bill EXCEPT ![b] = "POSTED"]
    /\ items' = [items EXCEPT ![b] = l]
    /\ \/ /\ req[w].saw = "NONE"
          /\ Restore(l)
          /\ registerPurchaseSerials(b, l)
          /\ post(b)
       \/ /\ req[w].saw = "POSTED"
          /\ UNCHANGED <<qoh, moved, reg, journal>>
    /\ IF bill[b] = req[w].saw /\ (bill[b] = "NONE" \/ items[b] = l)
       THEN UNCHANGED known ELSE SpoilStock({l.product, items[b].product})
    /\ markOrder(b, "RECEIVED")
    /\ Done(w)
    /\ UNCHANGED <<incoming, sale, ret, damage>>

CheckDeleteBill(w, b) ==
    /\ bill[b] = "POSTED"
    /\ Ask(w, [kind |-> "deleteBill", doc |-> b, saw |-> "POSTED", line |-> items[b]])

(* SERIAL_LOG_MOVED_BY_INVOICE_SERIALS_SQL and                             *)
(* SERIAL_LOG_DELETE_BY_INVOICE_SERIALS_SQL                                *)
deleteRegisterRows(l) ==
    /\ \A s \in l.serials : reg[s].status \in {"ABSENT", "IN_STOCK"}
    /\ reg' = [s \in Serials |-> IF s \in l.serials THEN NoRow ELSE reg[s]]

PostedReturns(d) == {r \in Returns : Original[r] = d /\ ret[r] = "POSTED"}

(* History: the bill was gone, had other lines by then, or had goods       *)
(* returned; units without a register row; movement rows of wrong sign.    *)
SpoilByDeletion(b, l) ==
    known' = [stock |-> known.stock \cup
                 IF bill[b] # "POSTED" \/ items[b] # l \/ PostedReturns(b) # {}
                 THEN {l.product, items[b].product} ELSE {},
              register |-> known.register \cup
                 IF \E s \in l.serials : reg[s].status = "ABSENT"
                 THEN {l.product} ELSE {},
              rows |-> known.rows \cup {l.product}]

(* The bill is not read again (the lines are those the check read), its    *)
(* returns are not asked for, PI_DELETE_SQL may find no row; the           *)
(* compensating movement row is a positive one, and a unit whose row is    *)
(* gone is taken off the stock all the same.                               *)
delete_Id2(w) ==
    LET b == req[w].doc  l == req[w].line IN
    /\ req[w].kind = "deleteBill"
    /\ Covers(l)
    /\ qoh' = Add(qoh, l, -l.qty)
    /\ moved' = Add(moved, l, l.qty)
    /\ deleteRegisterRows(l)
    /\ bill' = [bill EXCEPT ![b] = "DELETED"]
    /\ reverse(b)
    /\ markOrder(b, "APPROVED")
    /\ Done(w)
    /\ SpoilByDeletion(b, l)
    /\ UNCHANGED <<incoming, items, sale, ret, damage>>

-----------------------------------------------------------------------------
(* Sales invoices. *)

(* claimInvoiceSerials, then the guarded deduction.                        *)
post_salesInvoices(v) ==
    /\ sale[v] = "NONE"
    /\ \A s \in Line[v].serials : reg[s].status = "IN_STOCK"
    /\ reg' = [s \in Serials |-> IF s \in Line[v].serials
                                 THEN [status |-> "CUSTOMER_ASSIGNED", source |-> v]
                                 ELSE reg[s]]
    /\ Deduct(Line[v])
    /\ sale' = [sale EXCEPT ![v] = "POSTED"]
    /\ post(v)
    /\ UNCHANGED <<incoming, order, bill, items, ret, damage, req, known>>

\* Mutant: the units of a voided invoice stay with the customer.
KeepClaim(v) == UNCHANGED reg

(* SI_CLAIMED_SERIALS_SQL, SI_RELEASE_SERIAL_SQL: the units that are still *)
(* CUSTOMER_ASSIGNED by this invoice.                                      *)
releaseSerials(v) ==
    reg' = [s \in Serials |->
               IF reg[s].source = v /\ reg[s].status = "CUSTOMER_ASSIGNED"
               THEN [reg[s] EXCEPT !.status = "IN_STOCK"] ELSE reg[s]]

(* Under the invoice's lock: refused while a return is not cancelled.      *)
post_salesInvoiceCancel(v) ==
    /\ sale[v] = "POSTED"
    /\ \A r \in SalesReturns : Original[r] = v => ret[r] \in {"NONE", "CANCELLED"}
    /\ sale' = [sale EXCEPT ![v] = "CANCELLED"]
    /\ Restore(Line[v])
    /\ releaseSerials(v)
    /\ reverse(v)
    /\ IF \A s \in Line[v].serials : /\ reg[s].status = "CUSTOMER_ASSIGNED"
                                     /\ reg[s].source = v
       THEN UNCHANGED known ELSE SpoilRegister({Line[v].product})
    /\ UNCHANGED <<incoming, order, bill, items, ret, damage, req>>

-----------------------------------------------------------------------------
(* Returns to the vendor and from the customer. *)

(* A deleted bill is gone (ON DELETE SET NULL on its returns), a voided    *)
(* sale is still found and its status is not looked at.                    *)
Found(d) == IF d \in Bills THEN bill[d] = "POSTED" ELSE sale[d] # "NONE"

Returned(d) == MapThenSumSet(LAMBDA r : Line[r].qty, PostedReturns(d))

(* prValidateAgainstInvoice and srValidateAgainstInvoice                   *)
Returnable(r) ==
    /\ LineOf(Original[r]).product = Line[r].product
    /\ Line[r].qty <= LineOf(Original[r]).qty - Returned(Original[r])

requiredStatus(r) == IF r \in SalesReturns THEN "CUSTOMER_ASSIGNED" ELSE "IN_STOCK"

(* validateReturnSerialsAgainstRegister                                    *)
UnitsReturnable(r) ==
    \A s \in Line[r].serials : /\ s \in LineOf(Original[r]).serials
                               /\ reg[s].status = requiredStatus(r)

CheckReturn(w, r) ==
    /\ ret[r] = "NONE" /\ Found(Original[r])
    /\ UnitsReturnable(r)
    /\ Returnable(r)
    /\ Ask(w, [kind |-> "return", doc |-> r, saw |-> "NONE"])

CheckApprove(w, r) ==
    /\ ret[r] = "DRAFT" /\ Found(Original[r])
    /\ Returnable(r)
    /\ Ask(w, [kind |-> "approve", doc |-> r, saw |-> "DRAFT"])

CheckCancelReturn(w, r) ==
    /\ ret[r] \in {"POSTED", "DRAFT"}
    /\ Ask(w, [kind |-> "cancelReturn", doc |-> r, saw |-> ret[r]])

applyPurchaseReturnEffects(r) ==
    /\ Deduct(Line[r])
    /\ SerialFlip(Line[r], "IN_STOCK", "RETURNED_TO_VENDOR")
    /\ UNCHANGED damage

\* Mutant: a return that is not restockable also writes a movement row.
RestockedRow(r) ==
    /\ moved' = Add(moved, Line[r], Line[r].qty)
    /\ IF r \in Restockable
       THEN qoh' = Add(qoh, Line[r], Line[r].qty) /\ UNCHANGED damage
       ELSE UNCHANGED qoh /\ damage' = damage \cup {r}
    /\ SerialFlip(Line[r], "CUSTOMER_ASSIGNED", "IN_STOCK")

(* A unit that is not restockable goes to the damage register; in the      *)
(* serial register it is IN_STOCK either way.                              *)
applySalesReturnEffects(r) ==
    /\ IF r \in Restockable
       THEN Restore(Line[r]) /\ UNCHANGED damage
       ELSE UNCHANGED <<qoh, moved>> /\ damage' = damage \cup {r}
    /\ SerialFlip(Line[r], "CUSTOMER_ASSIGNED", "IN_STOCK")

(* History: units that are on the shelf for the register only.             *)
PostReturn(r) ==
    /\ ret' = [ret EXCEPT ![r] = "POSTED"]
    /\ IF r \in PurchaseReturns THEN applyPurchaseReturnEffects(r)
                                ELSE applySalesReturnEffects(r)
    /\ post(r)
    /\ IF r \in SalesReturns \ Restockable THEN SpoilRegister({Line[r].product})
                                            ELSE UNCHANGED known

(* The foreign key refuses a return of a bill that is gone by now.         *)
post_returns(w) ==
    LET r == req[w].doc IN
    /\ req[w].kind = "return"
    /\ ret[r] = "NONE"
    /\ Found(Original[r])
    /\ IF r \in Held
       THEN /\ ret' = [ret EXCEPT ![r] = "DRAFT"]
            /\ UNCHANGED <<qoh, moved, reg, damage, journal, known>>
       ELSE PostReturn(r)
    /\ Done(w)
    /\ UNCHANGED <<incoming, order, bill, items, sale>>

post_returnApprove(w) ==
    LET r == req[w].doc IN
    /\ req[w].kind = "approve"
    /\ ret[r] = "DRAFT"
    /\ PostReturn(r)
    /\ Done(w)
    /\ UNCHANGED <<incoming, order, bill, items, sale>>

\* Mutant: the returned units are not claimed back from the vendor.
LeaveWithVendor(r) ==
    /\ Restore(Line[r])
    /\ UNCHANGED <<reg, damage>>

undoPurchaseReturn(r) ==
    /\ Restore(Line[r])
    /\ SerialFlip(Line[r], "RETURNED_TO_VENDOR", "IN_STOCK")
    /\ UNCHANGED damage

\* Mutant: the unit that goes out again stays IN_STOCK in the register.
LeaveOnShelf(r) ==
    /\ IF r \in Restockable
       THEN Deduct(Line[r]) /\ UNCHANGED damage
       ELSE UNCHANGED <<qoh, moved>> /\ damage' = damage \ {r}
    /\ UNCHANGED reg

undoSalesReturn(r) ==
    /\ IF r \in Restockable
       THEN Deduct(Line[r]) /\ UNCHANGED damage
       ELSE UNCHANGED <<qoh, moved>> /\ damage' = damage \ {r}
    /\ SerialFlip(Line[r], "IN_STOCK", "SOLD")

\* Mutant: the cancel's UPDATE has no condition on the status.
CancelAnyway(w) == ret[req[w].doc] # "NONE"

(* PR_CANCEL_SQL, PR_CANCEL_DRAFT_SQL and their twins for sales            *)
StillAsSeen(w) == ret[req[w].doc] = req[w].saw

post_returnCancel(w) ==
    LET r == req[w].doc IN
    /\ req[w].kind = "cancelReturn"
    /\ StillAsSeen(w)
    /\ ret' = [ret EXCEPT ![r] = "CANCELLED"]
    /\ IF req[w].saw = "DRAFT"
       THEN UNCHANGED <<qoh, moved, reg, damage, journal>>
       ELSE /\ IF r \in PurchaseReturns THEN undoPurchaseReturn(r)
                                        ELSE undoSalesReturn(r)
            /\ reverse(r)
    /\ Done(w)
    /\ UNCHANGED <<incoming, order, bill, items, sale, known>>

(* The transaction throws and rolls back, or the process stops before it.  *)
Abandon(w) ==
    /\ req[w] # Idle
    /\ Done(w)
    /\ UNCHANGED <<qoh, incoming, reg, order, bill, items, sale, ret, moved,
                   damage, journal, known>>

Next ==
    \/ \E o \in Orders, n \in OrderQuantities :
          \/ post_purchaseOrders(o, n)
          \/ \E st \in {"APPROVED", "RECEIVED", "CANCELLED"} :
                put_Id(o, st, n) \/ patch_status(o, st)
    \/ \E w \in Workers :
          \/ \E o \in Orders : CheckDeleteOrder(w, o)
          \/ \E b \in Bills : \/ \E l \in BillLines[b] : CheckBill(w, b, l)
                             \/ CheckDeleteBill(w, b)
          \/ \E r \in Returns :
                CheckReturn(w, r) \/ CheckApprove(w, r) \/ CheckCancelReturn(w, r)
          \/ delete_Id(w) \/ post_purchaseInvoices(w) \/ delete_Id2(w)
          \/ post_returns(w) \/ post_returnApprove(w) \/ post_returnCancel(w)
          \/ Abandon(w)
    \/ \E v \in Sales : post_salesInvoices(v) \/ post_salesInvoiceCancel(v)

Spec == Init /\ [][Next]_vars

-----------------------------------------------------------------------------
(* However requests interleave, no stock row goes below zero.              *)
NoNegativeStock == \A p \in Products : qoh[p] >= 0

(* A unit is with a customer exactly through one posted sale: the invoice  *)
(* that claimed it last carries it and is not void.  A void, a return and  *)
(* a resale racing on the unit never leave it assigned by a dead invoice.  *)
AssignedByLiveSale ==
    \A s \in Serials : reg[s].status = "CUSTOMER_ASSIGNED" =>
        \E v \in Sales : /\ reg[s].source = v
                         /\ sale[v] = "POSTED"
                         /\ s \in Line[v].serials

(* A unit the register holds as returned to the vendor is on a posted      *)
(* return: cancelling a return, re-buying the unit and returning it again  *)
(* never leave it with the vendor without the document that sent it.       *)
ReturnedByLiveReturn ==
    \A s \in Serials : reg[s].status = "RETURNED_TO_VENDOR" =>
        \E r \in PurchaseReturns : ret[r] = "POSTED" /\ s \in Line[r].serials

=============================================================================
