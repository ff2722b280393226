----------------------- MODULE ShipmentsConservation -----------------------
(***************************************************************************)
(* What stock, reservations, register, journals and movement ledger of     *)
(* Shipments owe to the status of the shipments.                           *)
(***************************************************************************)
EXTENDS Shipments, Functions

Delivered(sh) == status[sh] \in {"RECEIVED", "DISCREPANCY"}

Sold(b, p) ==
    Cardinality({s \in Serials : /\ ProductOf[s] = p
                                 /\ reg[s].branch = b
                                 /\ reg[s].status = "CUSTOMER_ASSIGNED"})

(* What shipment sh leaves in the stock of branch b, by its status. *)
Effect(sh, b, p) ==
    IF Manifest[sh].product # p THEN 0
    ELSE (IF Manifest[sh].source = b /\ status[sh] \notin {"NONE", "CANCELLED"}
          THEN -Manifest[sh].sent ELSE 0)
       + (IF Manifest[sh].dest = b /\ Delivered(sh) THEN got[sh].qty ELSE 0)

(* Every branch's stock is its opening balance, less what was sold there,  *)
(* plus the effect of the shipments as their status records it: a receipt  *)
(* counts once, its undo and a cancellation give back what was taken.      *)
StockFollowsShipments ==
    \A b \in Branches, p \in Products :
        qoh[b][p] = StockAtStart[b][p] - Sold(b, p)
                    + SumFunctionOnSet([sh \in Ships |-> Effect(sh, b, p)], Ships)

OnTheRoad(sh, b, p) ==
    IF /\ Manifest[sh].dest = b /\ Manifest[sh].product = p
       /\ status[sh] = "IN_TRANSIT"
    THEN Manifest[sh].sent ELSE 0

(* incoming_qty is what is still expected: everything on the road to the   *)
(* branch.                                                                 *)
IncomingMatchesTransit ==
    \A b \in Branches, p \in Products :
        incoming[b][p] =
            SumFunctionOnSet([sh \in Ships |-> OnTheRoad(sh, b, p)], Ships)

(* Serial-tracked stock agrees with the register. *)
RegisterMatchesStock ==
    \A b \in Branches, p \in SerialTracked :
        Cardinality({s \in Serials : /\ ProductOf[s] = p
                                     /\ reg[s].branch = b
                                     /\ reg[s].status = "IN_STOCK"}) = qoh[b][p]

(* The standing journals, originals less contras, are one dispatch while   *)
(* the shipment is not cancelled and one receipt while it is received.     *)
JournalsFollowShipments ==
    \A sh \in Ships :
        /\ journal[sh].out - journal[sh].outContra =
              IF status[sh] \in {"NONE", "CANCELLED"} THEN 0 ELSE 1
        /\ journal[sh].in - journal[sh].inContra =
              IF Delivered(sh) /\ got[sh].qty > 0 THEN 1 ELSE 0

(* A row id is used up by the first receipt, and approvals write no row.   *)
RowsComplete(sh) ==
    journal[sh].in <= 1 /\ Asks[sh] \subseteq {"receive", "cancel", "cancelReceive"}

(* The movement ledger explains every balance (less the sales, whose rows  *)
(* the invoices write) through receipt, undo and cancellation: "before +   *)
(* changed = after always reconciles with inventory_stock"                 *)
(* (buildTransferTxn).  Excepted: a second receipt, and approvals.         *)
LedgerExplainsStock ==
    \A b \in Branches, p \in Products :
        (\A sh \in Ships : Manifest[sh].product = p => RowsComplete(sh)) =>
            qoh[b][p] = StockAtStart[b][p] - Sold(b, p)
                        + SumFunctionOnSet([row \in ledger |-> row.change],
                              {row \in ledger : row.branch = b /\ row.product = p})

-----------------------------------------------------------------------------
(* How far these go.  A receipt and an approval act on a status they read  *)
(* before their transaction, so the sums hold as long as nothing overtakes *)
(* them.                                                                   *)

(* No two requests in flight are about the same shipment. *)
Apart ==
    \A w, v \in Workers :
        w # v /\ req[w].kind # "idle" => req[v].ship # req[w].ship

(* Every receipt counts the quantity that was sent: a short one leaves the *)
(* shipment open to a second receipt and to a cancellation that gives the  *)
(* whole quantity back to the source.                                      *)
WholeReceipts ==
    \A sh \in Ships : \A r \in ReceiptsOf[sh] : r.qty = Manifest[sh].sent

(* An approval moves no serial. *)
SerialsGoDirect ==
    \A sh \in Ships : Manifest[sh].serials # {} =>
        Asks[sh] \subseteq {"receive", "cancel", "cancelReceive"}

(* Undoing a receipt counts quantity and takes the units that are left;    *)
(* where the destination has the quantity, these units make it up.         *)
UndoFindsUnits ==
    \A w \in Workers :
        LET sh == req[w].ship  m == Manifest[sh] IN
        req[w].kind = "cancelReceive" =>
            (MayUndo(sh) /\ m.sent <= qoh[m.dest][m.product] =>
                Gate(m.serials, "IN_STOCK", m.dest))

=============================================================================
