------------------------ MODULE StockOpsConservation ------------------------
(***************************************************************************)
(* What the quantities, the movement ledger, the serial register and the   *)
(* journals of StockOps owe to each other: every balance is a sum over the *)
(* operations or over the ledger.                                          *)
(***************************************************************************)
EXTENDS StockOps, Functions

Posted(o) == status[o] # "NONE"

Open(o) == status[o] \notin {"NONE", "CANCELLED"}

(* What operation o leaves in the usable pool of branch b, by its status:  *)
(* an open one has drawn its lines, a received pullout has delivered them, *)
(* a cancelled one has left no trace.                                      *)
UsableEffect(o, b, p) ==
    IF ~Open(o) THEN 0
    ELSE (IF body[o].branch = b THEN UsableChange(body[o], p) ELSE 0)
       + (IF status[o] = "RECEIVED" /\ body[o].dest = b
          THEN ReceivedQty(body[o], p) ELSE 0)

DamagedEffect(o, b, p) ==
    IF Open(o) /\ body[o].branch = b THEN DamagedChange(body[o], p) ELSE 0

(* Both pools of every branch are the opening balance plus the effect of   *)
(* the operations as their status records it: reversing gives back exactly *)
(* what was drawn, a receipt delivers exactly once.                        *)
StockFollowsOperations ==
    \A b \in Branches, p \in Products :
        /\ qoh[b][p] = StockAtStart[b][p]
                       + SumFunctionOnSet([o \in Ops |-> UsableEffect(o, b, p)], Ops)
        /\ dmg[b][p] = DamagedAtStart[b][p]
                       + SumFunctionOnSet([o \in Ops |-> DamagedEffect(o, b, p)], Ops)

LedgerSum(b, p, pool) ==
    SumFunctionOnSet([row \in ledger |-> row.change],
        {row \in ledger : row.branch = b /\ row.product = p /\ row.pool = pool})

(* "Keep the movement ledger authoritative": quantity_on_hand is the       *)
(* opening balance plus the ledger rows of the branch and product.         *)
LedgerExplainsStock ==
    \A b \in Branches, p \in Products :
        qoh[b][p] = StockAtStart[b][p] + LedgerSum(b, p, "USABLE")

(* Serial-tracked stock agrees with the register: as many units IN_STOCK   *)
(* at a branch as its quantity_on_hand says.                               *)
RegisterMatchesStock ==
    \A b \in Branches, p \in SerialTracked :
        Cardinality({s \in Serials : /\ ProductOf[s] = p
                                     /\ reg[s].branch = b
                                     /\ reg[s].status = "IN_STOCK"}) = qoh[b][p]

(* Stock and general ledger agree: a valued operation carries one journal, *)
(* one contra exactly when it is cancelled, one receipt journal exactly    *)
(* when it is received.                                                    *)
JournalsFollowOperations ==
    \A o \in Ops :
        journal[o] =
            IF Posted(o) /\ MovesValue(body[o])
            THEN [post    |-> 1,
                  contra  |-> IF status[o] = "CANCELLED" THEN 1 ELSE 0,
                  receipt |-> IF status[o] = "RECEIVED" THEN 1 ELSE 0]
            ELSE [post |-> 0, contra |-> 0, receipt |-> 0]

-----------------------------------------------------------------------------
(* How far these go.  The pre-check of a reversal or a receipt is not      *)
(* repeated in its transaction (but for RECEIVED), so the sums hold as     *)
(* long as nothing overtakes it.                                           *)

(* No request in flight shares its operation with a reversal, and none     *)
(* receives what was cancelled.                                            *)
Apart ==
    \A w \in Workers :
        /\ req[w].kind = "reverse" =>
              \A v \in Workers \ {w} : req[v].op # req[w].op
        /\ req[w].kind = "receive" => status[req[w].op] # "CANCELLED"

(* Receipt rows have one id per product, so only the first is kept: of two *)
(* receipts, and of a usable and a damaged line of one receipt.            *)
OneReceiptLinePerProduct ==
    \A o \in Ops : status[o] = "RECEIVED" =>
        /\ \A p \in Products : body[o].usable[p] = 0 \/ body[o].damaged[p] = 0
        /\ \A x \in Ops \ {o} : status[x] = "RECEIVED" =>
              \A p \in Products : ReceivedQty(body[o], p) = 0 \/ ReceivedQty(body[x], p) = 0

(* What moves a serial-tracked quantity names its units.  The server lets  *)
(* a manual adjustment through without, and credits a received damaged     *)
(* line whose unit never left.                                             *)
UnitsNamed ==
    \A r \in Requests, p \in SerialTracked :
        /\ r.credit[p] = 0
        /\ r.type \notin SerialValidatedTypes => r.usable[p] = 0
        /\ ReceiveTypes # {} => r.damaged[p] = 0

=============================================================================
