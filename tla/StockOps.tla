------------------------------ MODULE StockOps ------------------------------
(***************************************************************************)
(* Stock operations (damage, pullout, product sale, consumable issue,      *)
(* disposal, manual adjustment), their reversals and the receipt of a      *)
(* pullout: server/src/controllers/inventory.controller.ts with the        *)
(* services it calls (serial gate, serial lifecycle, damage, stock value   *)
(* posting) and the SQL of server/src/models/inventory.repo.ts.            *)
(*                                                                         *)
(* A create handler re-verifies everything under row locks inside one      *)
(* transaction, so it is one step.  A reversal or a receipt first reads    *)
(* the operation OUTSIDE its transaction and decides on that read; the     *)
(* transaction that follows is a second step, and other requests run in    *)
(* between.  A transaction is atomic: withTransaction commits everything   *)
(* or rolls everything back, and each one locks or updates the rows it     *)
(* depends on before it changes them.                                      *)
(*                                                                         *)
(* An operation's lines are aggregated per product and pool, as the        *)
(* availability check aggregates them; a request carries one line per      *)
(* product and pool.  Unit cost is constant, so a journal is a count.      *)
(***************************************************************************)
EXTENDS Integers, FiniteSets

CONSTANTS
    Branches, Products, Serials, Ops,
    Workers,          \* requests the server handles at the same time
    Requests,         \* bodies a create request may carry
    ReverseTypes,     \* operation types the clients ask to reverse
    ReceiveTypes,     \* operation types the clients ask to receive
    ProductOf,        \* the product a registered serial belongs to
    SerialTracked,    \* products that are not QUANTITY_ONLY
    StockAtStart, DamagedAtStart, BranchAtStart,
    NoOp, NoRequest

VARIABLES
    qoh,      \* inventory_stock.quantity_on_hand, per branch and product
    dmg,      \* inventory_stock.damaged_qty
    reg,      \* serial_log: status, branch and source operation of a serial
    status,   \* stock_operations.status ("NONE": no such row)
    body,     \* the rest of the stock_operations row
    ledger,   \* transaction_logs rows, keyed by id
    journal,  \* gl_journals by operation: originals, contras, receipts
    req       \* reversals and receipts between their pre-check and their
              \* transaction

vars == <<qoh, dmg, reg, status, body, ledger, journal, req>>

-----------------------------------------------------------------------------
(* Types. *)

OpTypes == {"DAMAGE", "PULLOUT", "STOCK_OUT", "CONSUMABLE_ISSUE",
            "DISPOSAL", "MANUAL_ADJUSTMENT"}

SerialValidatedTypes == {"DAMAGE", "PULLOUT", "STOCK_OUT", "CONSUMABLE_ISSUE"}

\* Types whose posting moves inventory value in the general ledger.
ValuedTypes == {"DAMAGE", "PULLOUT", "CONSUMABLE_ISSUE", "MANUAL_ADJUSTMENT"}

SerialStatuses == {"IN_STOCK", "IN_TRANSIT", "CONSUMED", "SOLD", "DAMAGED"}

OpStatuses == {"NONE", "LOGGED", "DISPATCHED", "RECEIVED", "CANCELLED"}

RequestType ==
    [type : OpTypes, branch : Branches, dest : Branches,
     usable : [Products -> Nat], damaged : [Products -> Nat],
     credit : [Products -> Nat],
     serials : SUBSET Serials, damagedSerials : SUBSET Serials]

UnitsOf(S, p) == {s \in S : ProductOf[s] = p}

(* What the shape checks and planSerialGateEntries let through: positive   *)
(* quantities from the pool the type draws on, and exactly one distinct    *)
(* serial per unit of a serial-tracked product.                            *)
planSerialGateEntries(r) ==
    \A p \in SerialTracked :
        /\ Cardinality(UnitsOf(r.serials, p)) = r.usable[p]
        /\ Cardinality(UnitsOf(r.damagedSerials, p)) = r.damaged[p]

WellFormed(r) ==
    /\ r.type \in SerialValidatedTypes => planSerialGateEntries(r)
    /\ r.type \notin SerialValidatedTypes =>
          r.serials = {} /\ r.damagedSerials = {}
    /\ r.serials \cap r.damagedSerials = {}
    /\ r.type \notin {"PULLOUT", "DISPOSAL"} => \A p \in Products : r.damaged[p] = 0
    /\ r.type = "DISPOSAL" => \A p \in Products : r.usable[p] = 0
    /\ r.type # "MANUAL_ADJUSTMENT" => \A p \in Products : r.credit[p] = 0

ASSUME RequestsAssumption ==
    /\ Requests \subseteq RequestType
    /\ \A r \in Requests : WellFormed(r)

\* The value of an adjustment is netted over its lines: they all go one way.
ASSUME OneWayAssumption ==
    \A r \in Requests : \/ \A p \in Products : r.credit[p] = 0
                        \/ \A p \in Products : r.usable[p] = 0

ASSUME ConstantsAssumption ==
    /\ ProductOf \in [Serials -> Products]
    /\ SerialTracked \subseteq Products
    /\ StockAtStart \in [Branches -> [Products -> Nat]]
    /\ DamagedAtStart \in [Branches -> [Products -> Nat]]
    /\ BranchAtStart \in [Serials -> Branches]
    /\ ReverseTypes \subseteq SerialValidatedTypes
    /\ NoOp \notin Ops
    /\ NoRequest \notin Requests
    /\ IsFiniteSet(Ops) /\ IsFiniteSet(Serials)

\* Stock and register agree when the operations begin.
ASSUME OpeningAssumption ==
    \A b \in Branches, p \in SerialTracked :
        Cardinality({s \in Serials : ProductOf[s] = p /\ BranchAtStart[s] = b})
            = StockAtStart[b][p]

\* The only screen that asks for a receipt lists pullouts (PulloutBinsPanel).
ASSUME ReceiveAssumption == ReceiveTypes \subseteq {"PULLOUT"}

Register == [status : SerialStatuses, branch : Branches, source : Ops \cup {NoOp}]

Idle == [kind |-> "idle", op |-> NoOp]

Pending == {Idle} \cup [kind : {"reverse", "receive"}, op : Ops]

RowIds == (Ops \cup {NoOp}) \X {"post", "rev", "recv"} \X Products

Rows == [id : RowIds, branch : Branches, product : Products,
         pool : {"USABLE", "DAMAGED"}, change : Int]

JournalCounts == [post : Nat, contra : Nat, receipt : Nat]

TypeOK ==
    /\ qoh \in [Branches -> [Products -> Int]]
    /\ dmg \in [Branches -> [Products -> Int]]
    /\ reg \in [Serials -> Register]
    /\ status \in [Ops -> OpStatuses]
    /\ body \in [Ops -> Requests \cup {NoRequest}]
    /\ ledger \subseteq Rows
    /\ journal \in [Ops -> JournalCounts]
    /\ req \in [Workers -> Pending]
    /\ \A o \in Ops : status[o] # "NONE" => body[o] \in Requests
    /\ \A w \in Workers : req[w].kind # "idle" => status[req[w].op] # "NONE"

-----------------------------------------------------------------------------
Init ==
    /\ qoh = StockAtStart
    /\ dmg = DamagedAtStart
    /\ reg = [s \in Serials |-> [status |-> "IN_STOCK",
                                 branch |-> BranchAtStart[s], source |-> NoOp]]
    /\ status = [o \in Ops |-> "NONE"]
    /\ body = [o \in Ops |-> NoRequest]
    /\ ledger = {}
    /\ journal = [o \in Ops |-> [post |-> 0, contra |-> 0, receipt |-> 0]]
    /\ req = [w \in Workers |-> Idle]

-----------------------------------------------------------------------------
(* Creating an operation: post_stockOperations. *)

(* The register status an operation of type t leaves its units in:         *)
(* issueStatusForOperation, and the quarantine of a damage operation.      *)
HeldStatus(t) ==
    CASE t = "PULLOUT"          -> "IN_TRANSIT"
      [] t = "CONSUMABLE_ISSUE" -> "CONSUMED"
      [] t = "STOCK_OUT"        -> "SOLD"
      [] t = "DAMAGE"           -> "DAMAGED"
      [] OTHER                  -> "IN_STOCK"

(* The locked rows cover what all lines of a product ask of each pool. *)
Available(r) ==
    \A p \in Products : /\ r.usable[p] <= qoh[r.branch][p]
                        /\ r.damaged[p] <= dmg[r.branch][p]

(* The shared gate, under FOR UPDATE on the register rows: every named     *)
(* unit, damaged-pool lines included, is IN_STOCK at the branch.           *)
findGateViolation(r) ==
    \E s \in r.serials \cup r.damagedSerials :
        \/ reg[s].status # "IN_STOCK"
        \/ reg[s].branch # r.branch

(* The units the operation takes: those on damaged-pool lines stay put. *)
issueOperationSerials(o, r) ==
    [s \in Serials |->
        IF s \in r.serials
        THEN [reg[s] EXCEPT !.status = HeldStatus(r.type), !.source = o]
        ELSE reg[s]]

(* INSERT ... ON CONFLICT (id) DO NOTHING *)
insertLedger(rows) ==
    ledger \cup {row \in rows : \A old \in ledger : old.id # row.id}

UsableChange(r, p) == r.credit[p] - r.usable[p]

(* One row per line that moves quantity_on_hand; a disposal row carries    *)
(* the damaged pool; a damaged-pool pullout line has no row.               *)
operationTransactions(o, r) ==
    IF r.type = "DISPOSAL"
    THEN {[id |-> <<o, "post", p>>, branch |-> r.branch, product |-> p,
           pool |-> "DAMAGED", change |-> -r.damaged[p]]
             : p \in {q \in Products : r.damaged[q] # 0}}
    ELSE {[id |-> <<o, "post", p>>, branch |-> r.branch, product |-> p,
           pool |-> "USABLE", change |-> UsableChange(r, p)]
             : p \in {q \in Products : UsableChange(r, q) # 0}}

MovesValue(r) ==
    /\ r.type \in ValuedTypes
    /\ \E p \in Products : UsableChange(r, p) # 0

postStockValueJournal(o, r) ==
    IF MovesValue(r) THEN [journal EXCEPT ![o].post = @ + 1] ELSE journal

(* A damage operation moves units between the pools; the others draw from  *)
(* the pool of each line.                                                  *)
DamagedChange(r, p) ==
    IF r.type = "DAMAGE" THEN r.usable[p] ELSE -r.damaged[p]

post_stockOperations(o, r) ==
    /\ status[o] = "NONE"
    /\ Available(r)
    /\ ~findGateViolation(r)
    /\ qoh' = [qoh EXCEPT ![r.branch] =
                  [p \in Products |-> @[p] + UsableChange(r, p)]]
    /\ dmg' = [dmg EXCEPT ![r.branch] =
                  [p \in Products |-> @[p] + DamagedChange(r, p)]]
    /\ reg' = issueOperationSerials(o, r)
    /\ status' = [status EXCEPT ![o] = IF r.type = "PULLOUT" THEN "DISPATCHED"
                                                             ELSE "LOGGED"]
    /\ body' = [body EXCEPT ![o] = r]
    /\ ledger' = insertLedger(operationTransactions(o, r))
    /\ journal' = postStockValueJournal(o, r)
    /\ UNCHANGED req

-----------------------------------------------------------------------------
(* Reversals and receipts: the pre-check reads the row, then the           *)
(* transaction runs on what was read.                                      *)

\* Mutant: the "already been reversed" check is missing.
MayReverseAgain(o) ==
    /\ status[o] # "NONE"
    /\ ~(body[o].type = "PULLOUT" /\ status[o] = "RECEIVED")

MayReverse(o) ==
    /\ status[o] \notin {"NONE", "CANCELLED"}
    /\ ~(body[o].type = "PULLOUT" /\ status[o] = "RECEIVED")

CheckReverse(w, o) ==
    /\ req[w] = Idle
    /\ MayReverse(o)
    /\ body[o].type \in ReverseTypes
    /\ req' = [req EXCEPT ![w] = [kind |-> "reverse", op |-> o]]
    /\ UNCHANGED <<qoh, dmg, reg, status, body, ledger, journal>>

CheckReceive(w, o) ==
    /\ req[w] = Idle
    /\ status[o] \notin {"NONE", "RECEIVED"}
    /\ body[o].type \in ReceiveTypes
    /\ req' = [req EXCEPT ![w] = [kind |-> "receive", op |-> o]]
    /\ UNCHANGED <<qoh, dmg, reg, status, body, ledger, journal>>

(* STOCK_OPERATION_CANCEL_SQL has no condition on the current status. *)
STOCK_OPERATION_CANCEL(o) == status' = [status EXCEPT ![o] = "CANCELLED"]

\* Mutant: the row repeats the draw instead of undoing it.
ReversalLedgerSameSign(o) ==
    {[id |-> <<o, "rev", p>>, branch |-> body[o].branch, product |-> p,
      pool |-> "USABLE", change |-> UsableChange(body[o], p)]
        : p \in {q \in Products : body[o].usable[q] # 0}}

(* Every reversal writes one row per product, with an id derived from the  *)
(* operation and the product.                                              *)
reversalLedger(o) ==
    {[id |-> <<o, "rev", p>>, branch |-> body[o].branch, product |-> p,
      pool |-> "USABLE", change |-> body[o].usable[p]]
        : p \in {q \in Products : body[o].usable[q] # 0}}

\* Mutant: the reversal leaves the general ledger alone.
NoContraJournal(o) == journal

(* reverseSourceJournal: a contra for the operation's journal, if it has   *)
(* one; the original stays POSTED and nothing looks for an earlier contra. *)
reverseStockOperationJournal(o) ==
    IF journal[o].post > 0 THEN [journal EXCEPT ![o].contra = @ + 1] ELSE journal

\* Mutant: quarantined units are not brought back.
LeaveQuarantined(o) == reg

(* Only rows still DAMAGED and still attributed to this operation. *)
restoreSerialsInDb(o) ==
    [s \in Serials |->
        IF /\ s \in body[o].serials
           /\ reg[s].status = "DAMAGED"
           /\ reg[s].source = o
        THEN [reg[s] EXCEPT !.status = "IN_STOCK", !.source = NoOp]
        ELSE reg[s]]

\* Mutant: the guarded UPDATE loses its damaged_qty >= quantity condition.
UnguardedDamageBatch(r) == TRUE

(* REVERSE_DAMAGE_BATCH updates a row only while its damaged pool covers   *)
(* the quantity, and the handler throws when a row was not updated.        *)
REVERSE_DAMAGE_BATCH(r) == \A p \in Products : r.usable[p] <= dmg[r.branch][p]

(* post_reverse: a damage operation gives its units back to usable stock   *)
(* when the damaged pool still holds them.                                 *)
post_reverse(w) ==
    LET o == req[w].op  r == body[o]  b == r.branch IN
    /\ req[w].kind = "reverse"
    /\ r.type = "DAMAGE"
    /\ REVERSE_DAMAGE_BATCH(r)
    /\ qoh' = [qoh EXCEPT ![b] = [p \in Products |-> @[p] + r.usable[p]]]
    /\ dmg' = [dmg EXCEPT ![b] = [p \in Products |-> @[p] - r.usable[p]]]
    /\ reg' = restoreSerialsInDb(o)
    /\ STOCK_OPERATION_CANCEL(o)
    /\ ledger' = insertLedger(reversalLedger(o))
    /\ journal' = reverseStockOperationJournal(o)
    /\ req' = [req EXCEPT ![w] = Idle]
    /\ UNCHANGED body

\* Mutant: the restore goes by the serials of the row, not by source_id.
RestoreByName(o) ==
    [s \in Serials |->
        IF s \in body[o].serials /\ reg[s].status = HeldStatus(body[o].type)
        THEN [reg[s] EXCEPT !.status = "IN_STOCK"]
        ELSE reg[s]]

(* Only units still in the status this operation put them in, still        *)
(* attributed to it and still at its branch.                               *)
restoreOperationSerialsInDb(o) ==
    [s \in Serials |->
        IF /\ reg[s].source = o
           /\ reg[s].status = HeldStatus(body[o].type)
           /\ reg[s].branch = body[o].branch
        THEN [reg[s] EXCEPT !.status = "IN_STOCK"]
        ELSE reg[s]]

(* Pullouts, product sales and consumable issues credit each line back to  *)
(* the pool it was drawn from.                                             *)
returnIssued(w, types) ==
    LET o == req[w].op  r == body[o]  b == r.branch IN
    /\ req[w].kind = "reverse"
    /\ r.type \in types
    /\ qoh' = [qoh EXCEPT ![b] = [p \in Products |-> @[p] + r.usable[p]]]
    /\ dmg' = [dmg EXCEPT ![b] = [p \in Products |-> @[p] + r.damaged[p]]]
    /\ reg' = restoreOperationSerialsInDb(o)
    /\ STOCK_OPERATION_CANCEL(o)
    /\ ledger' = insertLedger(reversalLedger(o))
    /\ journal' = reverseStockOperationJournal(o)
    /\ req' = [req EXCEPT ![w] = Idle]
    /\ UNCHANGED body

post_reverseConsumable(w) == returnIssued(w, {"CONSUMABLE_ISSUE"})

reverseIssuedOperation(w) == returnIssued(w, {"PULLOUT", "STOCK_OUT"})

\* Mutant: received units stay booked at the branch they left.
ReceiveAtSource(o) ==
    [s \in Serials |->
        IF reg[s].source = o /\ reg[s].status = "IN_TRANSIT"
        THEN [reg[s] EXCEPT !.status = "IN_STOCK"]
        ELSE reg[s]]

receivePulloutSerialsInDb(o) ==
    [s \in Serials |->
        IF reg[s].source = o /\ reg[s].status = "IN_TRANSIT"
        THEN [reg[s] EXCEPT !.status = "IN_STOCK", !.branch = body[o].dest]
        ELSE reg[s]]

(* Usable and damaged lines alike are credited to quantity_on_hand. *)
ReceivedQty(r, p) == r.usable[p] + r.damaged[p]

(* The first of a product's lines in the body: the damaged one for the     *)
(* products in df, if there are two.                                       *)
FirstLine(r, p, df) ==
    IF r.usable[p] = 0 \/ (p \in df /\ r.damaged[p] # 0) THEN r.damaged[p] ELSE r.usable[p]

(* One row per line.  The id is built from the row read FOR UPDATE, which  *)
(* has no id column: every receipt row of a product has the same id, and   *)
(* ON CONFLICT keeps the first of a statement as well.                     *)
buildReceiveTxn(o, df) ==
    {[id |-> <<NoOp, "recv", p>>, branch |-> body[o].dest, product |-> p,
      pool |-> "USABLE", change |-> FirstLine(body[o], p, df)]
        : p \in {q \in Products : ReceivedQty(body[o], q) # 0}}

\* Mutant: the status is not read again inside the transaction.
MayReceiveAgain(o) == TRUE

(* Inside the transaction only an operation already RECEIVED is refused. *)
MayReceive(o) == status[o] # "RECEIVED"

post_receive(w) ==
    LET o == req[w].op  r == body[o]  d == r.dest IN
    /\ req[w].kind = "receive"
    /\ MayReceive(o)
    /\ status' = [status EXCEPT ![o] = "RECEIVED"]
    /\ qoh' = [qoh EXCEPT ![d] = [p \in Products |-> @[p] + ReceivedQty(r, p)]]
    /\ reg' = receivePulloutSerialsInDb(o)
    /\ \E df \in SUBSET Products : ledger' = insertLedger(buildReceiveTxn(o, df))
    /\ journal' = IF MovesValue(r) THEN [journal EXCEPT ![o].receipt = @ + 1]
                                   ELSE journal
    /\ req' = [req EXCEPT ![w] = Idle]
    /\ UNCHANGED <<dmg, body>>

(* The transaction throws and rolls back, or the process stops before it:  *)
(* nothing of the request remains.                                         *)
Abandon(w) ==
    /\ req[w] # Idle
    /\ req' = [req EXCEPT ![w] = Idle]
    /\ UNCHANGED <<qoh, dmg, reg, status, body, ledger, journal>>

Next ==
    \/ \E o \in Ops, r \in Requests : post_stockOperations(o, r)
    \/ \E w \in Workers, o \in Ops : CheckReverse(w, o)
    \/ \E w \in Workers, o \in Ops : CheckReceive(w, o)
    \/ \E w \in Workers : post_reverse(w)
    \/ \E w \in Workers : post_reverseConsumable(w)
    \/ \E w \in Workers : reverseIssuedOperation(w)
    \/ \E w \in Workers : post_receive(w)
    \/ \E w \in Workers : Abandon(w)

Spec == Init /\ [][Next]_vars

-----------------------------------------------------------------------------
(* Properties that hold however requests interleave. *)

(* Neither pool of any branch goes below zero, although reversals act on   *)
(* reads that other requests may have overtaken (guarded UPDATEs and the   *)
(* re-check under STOCK_LOCK_FOR_UPDATE_SQL).                              *)
NoNegativeStock ==
    \A b \in Branches, p \in Products : qoh[b][p] >= 0 /\ dmg[b][p] >= 0

Holding(o) ==
    /\ status[o] \in {"LOGGED", "DISPATCHED"}
    /\ body[o].type \in SerialValidatedTypes

(* A unit is out of stock exactly while one open operation holds it, in    *)
(* the status of that operation's type and at its branch.  Two open        *)
(* operations never hold the same unit, and a late reversal never drags    *)
(* back a unit that has since moved: the attribution by source_id that     *)
(* issueOperationSerialsInDb writes and the restores filter on.            *)
UnitsHeldOnce ==
    \A s \in Serials :
        /\ reg[s].status # "IN_STOCK" =>
              \E o \in Ops : /\ reg[s].source = o
                            /\ Holding(o)
                            /\ s \in body[o].serials
                            /\ reg[s].status = HeldStatus(body[o].type)
                            /\ reg[s].branch = body[o].branch
        /\ \A o \in Ops : Holding(o) /\ s \in body[o].serials =>
                             reg[s].source = o /\ reg[s].status # "IN_STOCK"

=============================================================================
