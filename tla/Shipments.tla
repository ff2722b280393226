----------------------------- MODULE Shipments -----------------------------
(***************************************************************************)
(* Inter-branch transfers: dispatch, receipt, cancellation and the undo of *)
(* a receipt (server/src/controllers/shipments.controller.ts with the SQL  *)
(* of server/src/models/shipments.repo.ts), the approval workflow that     *)
(* cancels a transfer or undoes a receipt on its own path                  *)
(* (misc.controller.ts, post_process), and the sale of a unit, which       *)
(* competes for the same stock.                                            *)
(*                                                                         *)
(* A dispatch locks all it depends on inside one transaction: one step.    *)
(* The other requests read the shipment before they hold any lock; the     *)
(* transaction that acts on the read is a second step.  Cancel and undo    *)
(* read the status again FOR UPDATE, receive and the approvals do not.     *)
(*                                                                         *)
(* A shipment has one line: the code treats lines one after the other and  *)
(* rolls all of them back together.  A line's serials are a set; which of  *)
(* them a receipt names is part of the request.  Unit cost is constant and *)
(* positive, so a journal is a count.                                      *)
(***************************************************************************)
EXTENDS Integers, FiniteSets

CONSTANTS
    Branches, Products, Serials, Ships,
    Workers,        \* requests the server handles at the same time
    Manifest,       \* what a shipment's create request says
    ReceiptsOf,     \* what the receive screen may send for a shipment
    Asks,           \* kinds of request the clients make for a shipment
    MaxJournals,    \* bound: no further request on a shipment with that many
    ProductOf, SerialTracked, StockAtStart, BranchAtStart,
    NoShip, NoReceipt

VARIABLES
    qoh,       \* inventory_stock.quantity_on_hand
    incoming,  \* inventory_stock.incoming_qty
    reg,       \* serial_log: status, branch and source shipment of a unit
    status,    \* shipments.status ("NONE": no such row)
    got,       \* quantityReceived and receivedSerials on the shipment's line
    ledger,    \* transaction_logs rows, keyed by id
    journal,   \* gl_journals by shipment and leg, and their contras
    req        \* requests between their read and their transaction

vars == <<qoh, incoming, reg, status, got, ledger, journal, req>>

-----------------------------------------------------------------------------
Statuses == {"NONE", "IN_TRANSIT", "RECEIVED", "DISCREPANCY", "CANCELLED"}

SerialStatuses == {"IN_STOCK", "IN_TRANSIT", "CUSTOMER_ASSIGNED"}

RequestKinds == {"receive", "cancel", "cancelReceive",
                 "CANCEL_TRANSFER", "CANCEL_RECEIVE_TRANSFER"}

ManifestType == [source : Branches, dest : Branches, product : Products,
                 sent : Nat \ {0}, serials : SUBSET Serials]

Receipt == [qty : Nat, serials : SUBSET Serials]

(* planSerialGateEntries: one serial of the product per dispatched unit of *)
(* a serial-tracked product.                                               *)
planSerialGateEntries(m) ==
    /\ \A s \in m.serials : ProductOf[s] = m.product
    /\ IF m.product \in SerialTracked THEN Cardinality(m.serials) = m.sent
                                      ELSE m.serials = {}

ASSUME ManifestAssumption ==
    /\ Manifest \in [Ships -> ManifestType]
    /\ \A sh \in Ships : /\ planSerialGateEntries(Manifest[sh])
                         /\ Manifest[sh].source # Manifest[sh].dest

(* The screen lists the dispatched serials to tick; the handler keeps at   *)
(* most as many ticked ones as the quantity entered, and takes the first   *)
(* of the dispatched list when none is ticked.  Nothing ties the quantity  *)
(* and the ticks closer together.                                          *)
ASSUME ReceiptsAssumption ==
    /\ ReceiptsOf \in [Ships -> SUBSET Receipt]
    /\ \A sh \in Ships : \A r \in ReceiptsOf[sh] :
          /\ r.serials \subseteq Manifest[sh].serials
          /\ Cardinality(r.serials) <= r.qty
          /\ r.serials = {} => r.qty = 0 \/ Manifest[sh].serials = {}

ASSUME ConstantsAssumption ==
    /\ Asks \in [Ships -> SUBSET RequestKinds]
    /\ MaxJournals \in Nat
    /\ ProductOf \in [Serials -> Products]
    /\ SerialTracked \subseteq Products
    /\ StockAtStart \in [Branches -> [Products -> Nat]]
    /\ BranchAtStart \in [Serials -> Branches]
    /\ NoShip \notin Ships
    /\ NoReceipt \notin Receipt
    /\ IsFiniteSet(Ships) /\ IsFiniteSet(Serials)

(* Stock and register agree when the shipments start. *)
ASSUME OpeningAssumption ==
    \A b \in Branches, p \in SerialTracked :
        Cardinality({s \in Serials : ProductOf[s] = p /\ BranchAtStart[s] = b})
            = StockAtStart[b][p]

Register == [status : SerialStatuses, branch : Branches,
             source : Ships \cup {NoShip}]

Idle == [kind |-> "idle", ship |-> NoShip, receipt |-> NoReceipt]

Pending == {Idle} \cup
           [kind : {"receive", "cancel", "cancelReceive",
                    "approvedCancel", "approvedUndo"},
            ship : Ships, receipt : Receipt \cup {NoReceipt}]

ChangeTypes == {"TRANSFER_OUT", "TRANSFER_IN", "TRANSFER_CANCELLED",
                "TRANSFER_RECEIPT_CANCELLED"}

Rows == [id : Ships \X ChangeTypes, branch : Branches, product : Products,
         change : Int]

JournalCounts == [out : Nat, outContra : Nat, in : Nat, inContra : Nat]

TypeOK ==
    /\ qoh \in [Branches -> [Products -> Int]]
    /\ incoming \in [Branches -> [Products -> Nat]]
    /\ reg \in [Serials -> Register]
    /\ status \in [Ships -> Statuses]
    /\ got \in [Ships -> Receipt \cup {NoReceipt}]
    /\ ledger \subseteq Rows
    /\ journal \in [Ships -> JournalCounts]
    /\ req \in [Workers -> Pending]
    /\ \A sh \in Ships : status[sh] \in {"RECEIVED", "DISCREPANCY"} =>
                             got[sh] \in ReceiptsOf[sh]
    /\ \A w \in Workers :
          /\ req[w].kind # "idle" => status[req[w].ship] # "NONE"
          /\ req[w].kind \in {"receive", "approvedUndo"} =>
                req[w].receipt \in ReceiptsOf[req[w].ship]

Init ==
    /\ qoh = StockAtStart
    /\ incoming = [b \in Branches |-> [p \in Products |-> 0]]
    /\ reg = [s \in Serials |-> [status |-> "IN_STOCK",
                                 branch |-> BranchAtStart[s], source |-> NoShip]]
    /\ status = [sh \in Ships |-> "NONE"]
    /\ got = [sh \in Ships |-> NoReceipt]
    /\ ledger = {}
    /\ journal = [sh \in Ships |-> [out |-> 0, outContra |-> 0,
                                    in |-> 0, inContra |-> 0]]
    /\ req = [w \in Workers |-> Idle]

-----------------------------------------------------------------------------
(* Building blocks. *)

Add(f, b, p, n) == [f EXCEPT ![b][p] = @ + n]

(* GREATEST(0, incoming_qty - n) *)
Release(b, p, n) == [incoming EXCEPT ![b][p] = IF n <= @ THEN @ - n ELSE 0]

(* SERIAL_LOG_TRANSFER_FLIP_SQL: moves the units of S that are in status   *)
(* `from`; the others update no row.                                       *)
flip(S, from, to, b, sh) ==
    [s \in Serials |->
        IF s \in S /\ reg[s].status = from
        THEN [status |-> to, branch |-> b, source |-> sh]
        ELSE reg[s]]

\* Mutant: the change type is left out of the id.
IdByShipment(sh, type, b, n) ==
    IF \E row \in ledger : row.id[1] = sh THEN ledger
    ELSE ledger \cup {[id |-> <<sh, type>>, branch |-> b,
                       product |-> Manifest[sh].product, change |-> n]}

(* INSERT ... ON CONFLICT (id) DO NOTHING of the row whose id is built     *)
(* from the shipment, the change type and the line index.                  *)
insertTransferTxn(sh, type, b, n) ==
    IF \E row \in ledger : row.id = <<sh, type>> THEN ledger
    ELSE ledger \cup {[id |-> <<sh, type>>, branch |-> b,
                       product |-> Manifest[sh].product, change |-> n]}

\* Mutant: the dispatch journal is left standing.
OutNotReversed(sh) == journal

(* reverseSourceJournal: a contra of the shipment's latest journal of that *)
(* leg, if there is one; an earlier contra is not looked for.              *)
reverseOut(sh) ==
    IF journal[sh].out > 0 THEN [journal EXCEPT ![sh].outContra = @ + 1]
                           ELSE journal

reverseIn(sh) ==
    IF journal[sh].in > 0 THEN [journal EXCEPT ![sh].inContra = @ + 1]
                          ELSE journal

Gate(S, st, b) == \A s \in S : reg[s].status = st /\ reg[s].branch = b

-----------------------------------------------------------------------------
(* Dispatch: post_shipments. *)

post_shipments(sh) ==
    LET m == Manifest[sh] IN
    /\ status[sh] = "NONE"
    /\ Gate(m.serials, "IN_STOCK", m.source)
    /\ m.sent <= qoh[m.source][m.product]
    /\ reg' = flip(m.serials, "IN_STOCK", "IN_TRANSIT", m.source, sh)
    /\ status' = [status EXCEPT ![sh] = "IN_TRANSIT"]
    /\ qoh' = Add(qoh, m.source, m.product, -m.sent)
    /\ incoming' = Add(incoming, m.dest, m.product, m.sent)
    /\ ledger' = insertTransferTxn(sh, "TRANSFER_OUT", m.source, -m.sent)
    /\ journal' = [journal EXCEPT ![sh].out = @ + 1]
    /\ UNCHANGED <<got, req>>

-----------------------------------------------------------------------------
(* Requests on a dispatched shipment: the read that lets them pass. *)

Start(w, kind, sh, r) ==
    /\ req[w] = Idle
    /\ journal[sh].in + journal[sh].inContra + journal[sh].outContra < MaxJournals
    /\ req' = [req EXCEPT ![w] = [kind |-> kind, ship |-> sh, receipt |-> r]]
    /\ UNCHANGED <<qoh, incoming, reg, status, got, ledger, journal>>

MayCancel(sh) == status[sh] \in {"IN_TRANSIT", "DISCREPANCY"}

MayUndo(sh) == status[sh] \in {"RECEIVED", "DISCREPANCY"}

CheckReceive(w, sh, r) ==
    /\ "receive" \in Asks[sh]
    /\ status[sh] \notin {"NONE", "RECEIVED", "CANCELLED"}
    /\ Start(w, "receive", sh, r)

CheckCancel(w, sh) ==
    /\ "cancel" \in Asks[sh]
    /\ MayCancel(sh)
    /\ Start(w, "cancel", sh, NoReceipt)

CheckCancelReceive(w, sh) ==
    /\ "cancelReceive" \in Asks[sh]
    /\ MayUndo(sh)
    /\ Start(w, "cancelReceive", sh, NoReceipt)

(* Approving a request reads the shipment row without a lock and decides   *)
(* there: a CANCEL_RECEIVE_TRANSFER on a shipment that is no longer        *)
(* received cancels the transfer itself.                                   *)
CheckApproval(w, sh, type) ==
    /\ type \in Asks[sh] \cap {"CANCEL_TRANSFER", "CANCEL_RECEIVE_TRANSFER"}
    /\ IF type = "CANCEL_RECEIVE_TRANSFER" /\ MayUndo(sh)
       THEN Start(w, "approvedUndo", sh, got[sh])
       ELSE MayCancel(sh) /\ Start(w, "approvedCancel", sh, NoReceipt)

-----------------------------------------------------------------------------
(* Receipt: post_receive. *)

\* Mutant: the received units stay booked at the branch that sent them.
ReceiveAtSource(sh, r) ==
    flip(r.serials, "IN_TRANSIT", "IN_STOCK", Manifest[sh].source, sh)

receiveSerials(sh, r) ==
    flip(r.serials, "IN_TRANSIT", "IN_STOCK", Manifest[sh].dest, sh)

\* Mutant: the reservation outlives the receipt.
KeepReservation(sh, n) == incoming

(* SHIPMENT_RECEIVE_STOCK_SQL and SHIPMENT_CANCEL_RELEASE_DEST_SQL *)
releaseDest(sh, n) == Release(Manifest[sh].dest, Manifest[sh].product, n)

(* SHIPMENT_RECEIVE_UPDATE_SQL has no condition on the status. *)
post_receive(w) ==
    LET sh == req[w].ship  m == Manifest[sh]  r == req[w].receipt IN
    /\ req[w].kind = "receive"
    /\ Gate(r.serials, "IN_TRANSIT", m.source)
    /\ status' = [status EXCEPT ![sh] = IF r.qty < m.sent THEN "DISCREPANCY"
                                                          ELSE "RECEIVED"]
    /\ got' = [got EXCEPT ![sh] = r]
    /\ reg' = receiveSerials(sh, r)
    /\ qoh' = Add(qoh, m.dest, m.product, r.qty)
    /\ incoming' = releaseDest(sh, r.qty)
    /\ ledger' = insertTransferTxn(sh, "TRANSFER_IN", m.dest, r.qty)
    /\ journal' = IF r.qty > 0 THEN [journal EXCEPT ![sh].in = @ + 1] ELSE journal
    /\ req' = [req EXCEPT ![w] = Idle]

-----------------------------------------------------------------------------
(* Cancellation: post_cancel. *)

\* Mutant: only the units of an earlier receipt are looked at.
CancelSkipsSerials(sh) ==
    flip(IF got[sh] = NoReceipt THEN {} ELSE got[sh].serials,
         "IN_TRANSIT", "IN_STOCK", Manifest[sh].source, sh)

(* Every serial of the line that is IN_TRANSIT, whichever shipment it is   *)
(* travelling on.                                                          *)
cancelSerials(sh) ==
    flip(Manifest[sh].serials, "IN_TRANSIT", "IN_STOCK", Manifest[sh].source, sh)

\* Mutant: the cancelled quantity is given to the destination.
RestoreAtDest(sh) ==
    Add(qoh, Manifest[sh].dest, Manifest[sh].product, Manifest[sh].sent)

(* SHIPMENT_CANCEL_RESTORE_SOURCE_SQL *)
restoreSource(sh) ==
    Add(qoh, Manifest[sh].source, Manifest[sh].product, Manifest[sh].sent)

post_cancel(w) ==
    LET sh == req[w].ship  m == Manifest[sh] IN
    /\ req[w].kind = "cancel"
    /\ MayCancel(sh)
    /\ status' = [status EXCEPT ![sh] = "CANCELLED"]
    /\ qoh' = restoreSource(sh)
    /\ incoming' = releaseDest(sh, m.sent)
    /\ ledger' = insertTransferTxn(sh, "TRANSFER_CANCELLED", m.source, m.sent)
    /\ journal' = reverseOut(sh)
    /\ reg' = cancelSerials(sh)
    /\ req' = [req EXCEPT ![w] = Idle]
    /\ UNCHANGED got

-----------------------------------------------------------------------------
(* Undoing a receipt: post_cancelReceive. *)

(* SHIPMENT_UNDO_RECEIVE_STOCK_SQL and the check of its row count *)
undoReceiveStock(sh, n) ==
    /\ n <= qoh[Manifest[sh].dest][Manifest[sh].product]
    /\ qoh' = Add(qoh, Manifest[sh].dest, Manifest[sh].product, -n)
    /\ incoming' = Add(incoming, Manifest[sh].dest, Manifest[sh].product, n)

(* The serials the receipt recorded, or all of them if it recorded none;   *)
(* the line keeps them afterwards.                                         *)
undoSerials(sh, r) == IF r.serials # {} THEN r.serials ELSE Manifest[sh].serials

post_cancelReceive(w) ==
    LET sh == req[w].ship  m == Manifest[sh]  r == got[sh] IN
    /\ req[w].kind = "cancelReceive"
    /\ MayUndo(sh)
    /\ undoReceiveStock(sh, r.qty)
    /\ ledger' = IF r.qty > 0
                 THEN insertTransferTxn(sh, "TRANSFER_RECEIPT_CANCELLED", m.dest, -r.qty)
                 ELSE ledger
    /\ journal' = reverseIn(sh)
    /\ reg' = flip(undoSerials(sh, r), "IN_STOCK", "IN_TRANSIT", m.source, sh)
    /\ status' = [status EXCEPT ![sh] = "IN_TRANSIT"]
    /\ req' = [req EXCEPT ![w] = Idle]
    /\ UNCHANGED got

-----------------------------------------------------------------------------
(* The approval workflow: the same stock and journal effects on the row it *)
(* read, no ledger row and no serial.                                      *)

approveUndo(w) ==
    LET sh == req[w].ship IN
    /\ req[w].kind = "approvedUndo"
    /\ undoReceiveStock(sh, req[w].receipt.qty)
    /\ journal' = reverseIn(sh)
    /\ status' = [status EXCEPT ![sh] = "IN_TRANSIT"]
    /\ req' = [req EXCEPT ![w] = Idle]
    /\ UNCHANGED <<reg, got, ledger>>

approveCancel(w) ==
    LET sh == req[w].ship IN
    /\ req[w].kind = "approvedCancel"
    /\ qoh' = restoreSource(sh)
    /\ incoming' = releaseDest(sh, Manifest[sh].sent)
    /\ journal' = reverseOut(sh)
    /\ status' = [status EXCEPT ![sh] = "CANCELLED"]
    /\ req' = [req EXCEPT ![w] = Idle]
    /\ UNCHANGED <<reg, got, ledger>>

(* The transaction throws and rolls back, or the process stops before it. *)
Abandon(w) ==
    /\ req[w] # Idle
    /\ req' = [req EXCEPT ![w] = Idle]
    /\ UNCHANGED <<qoh, incoming, reg, status, got, ledger, journal>>

(* A sales invoice claims a unit IN_STOCK at the branch and deducts it,    *)
(* under its own guards.  Its ledger row, and from now on the unit's       *)
(* source_id, belong to the invoice.                                       *)
claimInvoiceSerials(s) ==
    LET b == reg[s].branch  p == ProductOf[s] IN
    /\ reg[s].status = "IN_STOCK"
    /\ qoh[b][p] >= 1
    /\ reg' = [reg EXCEPT ![s] = [status |-> "CUSTOMER_ASSIGNED", branch |-> b,
                                  source |-> NoShip]]
    /\ qoh' = Add(qoh, b, p, -1)
    /\ UNCHANGED <<incoming, status, got, ledger, journal, req>>

Next ==
    \/ \E sh \in Ships : post_shipments(sh)
    \/ \E w \in Workers, sh \in Ships :
          \/ \E r \in ReceiptsOf[sh] : CheckReceive(w, sh, r)
          \/ CheckCancel(w, sh)
          \/ CheckCancelReceive(w, sh)
          \/ \E type \in RequestKinds : CheckApproval(w, sh, type)
    \/ \E w \in Workers : \/ post_receive(w)
                          \/ post_cancel(w)
                          \/ post_cancelReceive(w)
                          \/ approveUndo(w)
                          \/ approveCancel(w)
                          \/ Abandon(w)
    \/ \E s \in Serials : claimInvoiceSerials(s)

Spec == Init /\ [][Next]_vars

-----------------------------------------------------------------------------
(* However requests interleave, no branch's stock goes below zero: the     *)
(* guarded UPDATEs of dispatch and undo ("an undo can never overdraw the   *)
(* destination branch").                                                   *)
NoNegativeStock == \A b \in Branches, p \in Products : qoh[b][p] >= 0

(* A unit in transit is on a shipment that can still be received or        *)
(* cancelled: post_receive leaves the units that did not arrive IN_TRANSIT *)
(* "so they remain traceable and cancellable".                             *)
NoUnitStranded ==
    \A s \in Serials : reg[s].status = "IN_TRANSIT" =>
        \E sh \in Ships : /\ s \in Manifest[sh].serials
                          /\ status[sh] \in {"IN_TRANSIT", "DISCREPANCY"}

=============================================================================
