--------------------------- MODULE StockOpsProofs ---------------------------
(***************************************************************************)
(* Proofs about StockOps, for every set of branches, products, serials,    *)
(* operations, concurrent requests and request bodies: the types, that no  *)
(* pool goes below zero, who holds a unit that is out, the refinement of   *)
(* Custody, and, within the limits that StockOpsConservation names, that   *)
(* stock, movement rows, register and journals follow the operations.      *)
(***************************************************************************)
EXTENDS StockOpsCustody, StockOpsConservation, Sums, TLAPS

-----------------------------------------------------------------------------
(* Helpers: what the building blocks return. *)

(* A request body has the fields of a stock_operations row with natural    *)
(* quantities (what the shape checks of post_stockOperations let through). *)
LEMMA RequestFields ==
    ASSUME NEW r \in Requests
    PROVE  /\ r.type \in OpTypes
           /\ r.branch \in Branches /\ r.dest \in Branches
           /\ \A p \in Products : /\ r.usable[p] \in Nat
                                  /\ r.damaged[p] \in Nat
                                  /\ r.credit[p] \in Nat
           /\ r.serials \subseteq Serials
           /\ r.type # "MANUAL_ADJUSTMENT" => \A p \in Products : r.credit[p] = 0
           /\ r.type \notin SerialValidatedTypes => r.serials = {}
  BY RequestsAssumption DEF RequestType, WellFormed

(* The register status an operation leaves its units in exists, and only   *)
(* the types without serials leave them in stock.                          *)
LEMMA HeldStatusFacts ==
    ASSUME NEW t \in OpTypes
    PROVE  /\ HeldStatus(t) \in SerialStatuses
           /\ t \in SerialValidatedTypes => HeldStatus(t) # "IN_STOCK"
  BY DEF HeldStatus, OpTypes, SerialStatuses, SerialValidatedTypes

(* The rows of a posting, a reversal and a receipt are ledger rows. *)
LEMMA RowsTyped ==
    ASSUME NEW o \in Ops, NEW r \in Requests
    PROVE  operationTransactions(o, r) \subseteq Rows
  <1>1. \A p \in Products : UsableChange(r, p) \in Int /\ -r.damaged[p] \in Int
    BY RequestFields DEF UsableChange
  <1>2. \A p \in Products : <<o, "post", p>> \in RowIds
    BY DEF RowIds
  <1>3. r.branch \in Branches
    BY RequestFields
  <1> QED BY <1>1, <1>2, <1>3 DEF operationTransactions, Rows

LEMMA ReversalRowsTyped ==
    ASSUME NEW o \in Ops, body[o] \in Requests
    PROVE  reversalLedger(o) \subseteq Rows /\ \A df : buildReceiveTxn(o, df) \subseteq Rows
  <1>1. \A p \in Products : body[o].usable[p] \in Int /\ \A df : FirstLine(body[o], p, df) \in Int
    BY RequestFields DEF FirstLine
  <1>2. \A p \in Products : <<o, "rev", p>> \in RowIds /\ <<NoOp, "recv", p>> \in RowIds
    BY DEF RowIds
  <1>3. body[o].branch \in Branches /\ body[o].dest \in Branches
    BY RequestFields
  <1>4. reversalLedger(o) \subseteq Rows
    <2> SUFFICES ASSUME NEW row \in reversalLedger(o) PROVE row \in Rows
      OBVIOUS
    <2> PICK p \in Products :
            row = [id |-> <<o, "rev", p>>, branch |-> body[o].branch, product |-> p,
                   pool |-> "USABLE", change |-> body[o].usable[p]]
      BY DEF reversalLedger
    <2> QED BY <1>1, <1>2, <1>3 DEF Rows
  <1>5. ASSUME NEW df PROVE buildReceiveTxn(o, df) \subseteq Rows
    <2> SUFFICES ASSUME NEW row \in buildReceiveTxn(o, df) PROVE row \in Rows
      OBVIOUS
    <2> PICK p \in Products :
            row = [id |-> <<NoOp, "recv", p>>, branch |-> body[o].dest, product |-> p,
                   pool |-> "USABLE", change |-> FirstLine(body[o], p, df)]
      BY DEF buildReceiveTxn
    <2> QED BY <1>1, <1>2, <1>3 DEF Rows
  <1> QED BY <1>4, <1>5

(* Counting one more journal keeps the counts natural. *)
LEMMA JournalTyped ==
    ASSUME NEW o \in Ops, journal \in [Ops -> JournalCounts]
    PROVE  /\ [journal EXCEPT ![o].post = @ + 1] \in [Ops -> JournalCounts]
           /\ [journal EXCEPT ![o].contra = @ + 1] \in [Ops -> JournalCounts]
           /\ [journal EXCEPT ![o].receipt = @ + 1] \in [Ops -> JournalCounts]
  <1>1. journal[o] \in JournalCounts
    OBVIOUS
  <1>2. /\ journal[o].post + 1 \in Nat
        /\ journal[o].contra + 1 \in Nat
        /\ journal[o].receipt + 1 \in Nat
    BY <1>1 DEF JournalCounts
  <1>3. /\ [journal[o] EXCEPT !.post = @ + 1] \in JournalCounts
        /\ [journal[o] EXCEPT !.contra = @ + 1] \in JournalCounts
        /\ [journal[o] EXCEPT !.receipt = @ + 1] \in JournalCounts
    BY <1>1, <1>2 DEF JournalCounts
  <1> QED BY <1>3

(* Adding rows to the ledger adds nothing but rows. *)
LEMMA InsertTyped ==
    ASSUME NEW R, R \subseteq Rows, ledger \subseteq Rows
    PROVE  insertLedger(R) \subseteq Rows
  BY DEF insertLedger

(* Both handlers that reverse an issue are the one step on its type. *)
IssuedTypes == {"PULLOUT", "STOCK_OUT", "CONSUMABLE_ISSUE"}

LEMMA IssueReturned ==
    ASSUME NEW w \in Workers
    PROVE  /\ reverseIssuedOperation(w) => returnIssued(w, IssuedTypes)
           /\ post_reverseConsumable(w) => returnIssued(w, IssuedTypes)
  BY DEF reverseIssuedOperation, post_reverseConsumable, returnIssued, IssuedTypes

-----------------------------------------------------------------------------
(* The type invariant. *)

(* The tables and the in-flight requests keep their types, a posted        *)
(* operation keeps its row, and a pending reversal or receipt names a      *)
(* posted operation.                                                       *)
THEOREM TypeCorrect == Spec => []TypeOK
  <1>1. Init => TypeOK
    <2> SUFFICES ASSUME Init PROVE TypeOK
      OBVIOUS
    <2>1. qoh \in [Branches -> [Products -> Int]] /\ dmg \in [Branches -> [Products -> Int]]
      BY ConstantsAssumption DEF Init
    <2>2. reg \in [Serials -> Register]
      BY ConstantsAssumption DEF Init, Register, SerialStatuses
    <2>3. QED
      BY <2>1, <2>2 DEF Init, TypeOK, OpStatuses, JournalCounts, Pending, Idle
  <1>2. TypeOK /\ [Next]_vars => TypeOK'
    <2> SUFFICES ASSUME TypeOK, [Next]_vars PROVE TypeOK'
      OBVIOUS
    <2>1. ASSUME NEW o \in Ops, NEW r \in Requests, post_stockOperations(o, r)
          PROVE  TypeOK'
      <3>1. qoh' \in [Branches -> [Products -> Int]] /\ dmg' \in [Branches -> [Products -> Int]]
        <4>1. \A p \in Products : UsableChange(r, p) \in Int /\ DamagedChange(r, p) \in Int
          BY RequestFields DEF UsableChange, DamagedChange
        <4>2. r.branch \in Branches
          BY RequestFields
        <4>3. /\ qoh' = [qoh EXCEPT ![r.branch] =
                             [p \in Products |-> qoh[r.branch][p] + UsableChange(r, p)]]
              /\ dmg' = [dmg EXCEPT ![r.branch] =
                             [p \in Products |-> dmg[r.branch][p] + DamagedChange(r, p)]]
          BY <2>1, <4>2 DEF TypeOK, post_stockOperations
        <4> QED BY <4>1, <4>2, <4>3 DEF TypeOK
      <3>2. reg' \in [Serials -> Register]
        <4>1. reg' = issueOperationSerials(o, r)
          BY <2>1 DEF post_stockOperations
        <4>2. HeldStatus(r.type) \in SerialStatuses
          BY RequestFields, HeldStatusFacts
        <4>3. ASSUME NEW s \in Serials
              PROVE  [reg[s] EXCEPT !.status = HeldStatus(r.type), !.source = o] \in Register
          BY <4>2 DEF TypeOK, Register
        <4> QED BY <4>1, <4>3 DEF TypeOK, issueOperationSerials
      <3>3. ledger' \subseteq Rows
        <4>1. ledger' = insertLedger(operationTransactions(o, r))
          BY <2>1 DEF post_stockOperations
        <4> QED BY <4>1, RowsTyped, InsertTyped DEF TypeOK
      <3>4. journal' \in [Ops -> JournalCounts]
        BY <2>1, JournalTyped DEF TypeOK, post_stockOperations, postStockValueJournal
      <3>5. /\ status' \in [Ops -> OpStatuses]
            /\ body' \in [Ops -> Requests \cup {NoRequest}]
            /\ \A x \in Ops : status'[x] # "NONE" => body'[x] \in Requests
        BY <2>1 DEF TypeOK, post_stockOperations, OpStatuses
      <3>6. \A w \in Workers : req'[w].kind # "idle" => status'[req'[w].op] # "NONE"
        BY <2>1 DEF TypeOK, post_stockOperations, OpStatuses, Pending, Idle
      <3> QED BY <2>1, <3>1, <3>2, <3>3, <3>4, <3>5, <3>6 DEF TypeOK, post_stockOperations
    <2>2. ASSUME NEW w \in Workers, NEW o \in Ops, CheckReverse(w, o)
          PROVE  TypeOK'
      BY <2>2 DEF TypeOK, CheckReverse, MayReverse, Pending
    <2>3. ASSUME NEW w \in Workers, NEW o \in Ops, CheckReceive(w, o)
          PROVE  TypeOK'
      BY <2>3 DEF TypeOK, CheckReceive, Pending
    <2>4. ASSUME NEW w \in Workers, req[w].kind # "idle"
          PROVE  req[w].op \in Ops /\ status[req[w].op] # "NONE" /\ body[req[w].op] \in Requests
      BY <2>4 DEF TypeOK, Pending, Idle
    <2>5. ASSUME NEW w \in Workers, post_reverse(w)
          PROVE  TypeOK'
      <3> DEFINE o == req[w].op
      <3>1. o \in Ops /\ status[o] # "NONE" /\ body[o] \in Requests
        BY <2>4, <2>5 DEF post_reverse
      <3>2. qoh' \in [Branches -> [Products -> Int]] /\ dmg' \in [Branches -> [Products -> Int]]
        BY <2>5, <3>1, RequestFields DEF TypeOK, post_reverse
      <3>3. reg' \in [Serials -> Register]
        BY <2>5, <3>1 DEF TypeOK, post_reverse, restoreSerialsInDb, Register, SerialStatuses
      <3>4. ledger' \subseteq Rows
        <4>1. ledger' = insertLedger(reversalLedger(o))
          BY <2>5 DEF post_reverse
        <4> QED BY <3>1, <4>1, ReversalRowsTyped, InsertTyped DEF TypeOK
      <3>5. journal' \in [Ops -> JournalCounts]
        BY <2>5, <3>1, JournalTyped DEF TypeOK, post_reverse, reverseStockOperationJournal
      <3> QED BY <2>5, <3>1, <3>2, <3>3, <3>4, <3>5
              DEF TypeOK, post_reverse, STOCK_OPERATION_CANCEL, OpStatuses, Pending, Idle
    <2>6. ASSUME NEW w \in Workers, returnIssued(w, IssuedTypes)
          PROVE  TypeOK'
      <3> DEFINE o == req[w].op
      <3>1. o \in Ops /\ status[o] # "NONE" /\ body[o] \in Requests
        BY <2>4, <2>6 DEF returnIssued
      <3>2. qoh' \in [Branches -> [Products -> Int]] /\ dmg' \in [Branches -> [Products -> Int]]
        BY <2>6, <3>1, RequestFields DEF TypeOK, returnIssued
      <3>3. reg' \in [Serials -> Register]
        BY <2>6, <3>1 DEF TypeOK, returnIssued, restoreOperationSerialsInDb,
                          Register, SerialStatuses
      <3>4. ledger' \subseteq Rows
        <4>1. ledger' = insertLedger(reversalLedger(o))
          BY <2>6 DEF returnIssued
        <4> QED BY <3>1, <4>1, ReversalRowsTyped, InsertTyped DEF TypeOK
      <3>5. journal' \in [Ops -> JournalCounts]
        BY <2>6, <3>1, JournalTyped DEF TypeOK, returnIssued, reverseStockOperationJournal
      <3> QED BY <2>6, <3>1, <3>2, <3>3, <3>4, <3>5
              DEF TypeOK, returnIssued, STOCK_OPERATION_CANCEL, OpStatuses, Pending, Idle
    <2>7. ASSUME NEW w \in Workers, post_receive(w)
          PROVE  TypeOK'
      <3> DEFINE o == req[w].op
      <3>1. o \in Ops /\ status[o] # "NONE" /\ body[o] \in Requests
        BY <2>4, <2>7 DEF post_receive
      <3>2. qoh' \in [Branches -> [Products -> Int]]
        <4>1. \A p \in Products : ReceivedQty(body[o], p) \in Int
          BY <3>1, RequestFields DEF ReceivedQty
        <4>2. body[o].dest \in Branches
          BY <3>1, RequestFields
        <4>3. qoh' = [qoh EXCEPT ![body[o].dest] =
                         [p \in Products |-> qoh[body[o].dest][p] + ReceivedQty(body[o], p)]]
          BY <2>7, <4>2 DEF TypeOK, post_receive
        <4> QED BY <4>1, <4>2, <4>3 DEF TypeOK
      <3>3. reg' \in [Serials -> Register]
        <4>1. reg' = receivePulloutSerialsInDb(o)
          BY <2>7 DEF post_receive
        <4>2. body[o].dest \in Branches
          BY <3>1, RequestFields
        <4>3. ASSUME NEW s \in Serials
              PROVE  [reg[s] EXCEPT !.status = "IN_STOCK", !.branch = body[o].dest] \in Register
          BY <4>2 DEF TypeOK, Register, SerialStatuses
        <4> QED BY <4>1, <4>3 DEF TypeOK, receivePulloutSerialsInDb
      <3>4. ledger' \subseteq Rows
        <4>1. \E df : ledger' = insertLedger(buildReceiveTxn(o, df))
          BY <2>7 DEF post_receive
        <4> QED BY <3>1, <4>1, ReversalRowsTyped, InsertTyped DEF TypeOK
      <3>5. journal' \in [Ops -> JournalCounts]
        BY <2>7, <3>1, JournalTyped DEF TypeOK, post_receive
      <3> QED BY <2>7, <3>1, <3>2, <3>3, <3>4, <3>5
              DEF TypeOK, post_receive, OpStatuses, Pending, Idle
    <2>8. ASSUME NEW w \in Workers, Abandon(w)
          PROVE  TypeOK'
      BY <2>8 DEF TypeOK, Abandon, Pending, Idle
    <2>9. CASE UNCHANGED vars
      BY <2>9 DEF TypeOK, vars
    <2> QED BY <2>1, <2>2, <2>3, <2>5, <2>6, <2>7, <2>8, <2>9, IssueReturned DEF Next
  <1> QED BY <1>1, <1>2, PTL DEF Spec

(* A pending reversal or receipt names a posted operation with a row. *)
LEMMA PendingFacts ==
    ASSUME TypeOK, NEW w \in Workers, req[w].kind # "idle"
    PROVE  /\ req[w].op \in Ops
           /\ status[req[w].op] # "NONE"
           /\ body[req[w].op] \in Requests
  BY DEF TypeOK, Pending, Idle

-----------------------------------------------------------------------------
(* Stock never goes negative. *)

(* No interleaving of postings, reversals and receipts takes a pool of a   *)
(* branch below zero: a posting re-checks under STOCK_LOCK_FOR_UPDATE_SQL, *)
(* a damage reversal draws on the damaged pool only under its guard.       *)
THEOREM StockNeverNegative == Spec => []NoNegativeStock
  <1>1. Init => NoNegativeStock
    BY ConstantsAssumption DEF Init, NoNegativeStock
  <1>2. TypeOK /\ NoNegativeStock /\ [Next]_vars => NoNegativeStock'
    <2> SUFFICES ASSUME TypeOK, NoNegativeStock, [Next]_vars,
                        NEW b \in Branches, NEW p \in Products
                 PROVE  qoh'[b][p] >= 0 /\ dmg'[b][p] >= 0
      BY DEF NoNegativeStock
    <2>0. /\ qoh[b][p] \in Int /\ qoh[b][p] >= 0
          /\ dmg[b][p] \in Int /\ dmg[b][p] >= 0
      BY DEF TypeOK, NoNegativeStock
    <2>1. ASSUME NEW o \in Ops, NEW r \in Requests, post_stockOperations(o, r)
          PROVE  qoh'[b][p] >= 0 /\ dmg'[b][p] >= 0
      <3>1. /\ r.branch \in Branches
            /\ r.usable[p] \in Nat /\ r.damaged[p] \in Nat /\ r.credit[p] \in Nat
        BY RequestFields
      <3>2. /\ qoh'[b][p] = IF b = r.branch THEN qoh[b][p] + UsableChange(r, p)
                                            ELSE qoh[b][p]
            /\ dmg'[b][p] = IF b = r.branch THEN dmg[b][p] + DamagedChange(r, p)
                                            ELSE dmg[b][p]
        BY <2>1, <3>1 DEF post_stockOperations, TypeOK
      <3>3. b = r.branch => r.usable[p] <= qoh[b][p] /\ r.damaged[p] <= dmg[b][p]
        BY <2>1 DEF post_stockOperations, Available
      <3>4. b = r.branch => /\ qoh[b][p] + UsableChange(r, p) >= 0
                            /\ dmg[b][p] + DamagedChange(r, p) >= 0
        BY <2>0, <3>1, <3>3 DEF UsableChange, DamagedChange
      <3> QED BY <2>0, <3>2, <3>4
    <2>2. ASSUME NEW w \in Workers, post_reverse(w)
          PROVE  qoh'[b][p] >= 0 /\ dmg'[b][p] >= 0
      <3> DEFINE r == body[req[w].op]
      <3>1. r \in Requests
        BY <2>2, PendingFacts DEF post_reverse
      <3>2. r.branch \in Branches /\ r.usable[p] \in Nat
        BY <3>1, RequestFields
      <3>3. /\ qoh'[b][p] = IF b = r.branch THEN qoh[b][p] + r.usable[p] ELSE qoh[b][p]
            /\ dmg'[b][p] = IF b = r.branch THEN dmg[b][p] - r.usable[p] ELSE dmg[b][p]
            /\ r.usable[p] <= dmg[r.branch][p]
        BY <2>2, <3>2 DEF post_reverse, REVERSE_DAMAGE_BATCH, TypeOK
      <3> QED BY <2>0, <3>2, <3>3
    <2>3. ASSUME NEW w \in Workers, returnIssued(w, IssuedTypes)
          PROVE  qoh'[b][p] >= 0 /\ dmg'[b][p] >= 0
      <3> DEFINE r == body[req[w].op]
      <3>1. r \in Requests
        BY <2>3, PendingFacts DEF returnIssued
      <3>2. r.branch \in Branches /\ r.usable[p] \in Nat /\ r.damaged[p] \in Nat
        BY <3>1, RequestFields
      <3>3. /\ qoh'[b][p] = IF b = r.branch THEN qoh[b][p] + r.usable[p] ELSE qoh[b][p]
            /\ dmg'[b][p] = IF b = r.branch THEN dmg[b][p] + r.damaged[p] ELSE dmg[b][p]
        BY <2>3, <3>2 DEF returnIssued, TypeOK
      <3> QED BY <2>0, <3>2, <3>3
    <2>4. ASSUME NEW w \in Workers, post_receive(w)
          PROVE  qoh'[b][p] >= 0 /\ dmg'[b][p] >= 0
      <3> DEFINE r == body[req[w].op]
      <3>1. r \in Requests
        BY <2>4, PendingFacts DEF post_receive
      <3>2. r.dest \in Branches /\ r.usable[p] \in Nat /\ r.damaged[p] \in Nat
        BY <3>1, RequestFields
      <3>3. /\ qoh'[b][p] = IF b = r.dest THEN qoh[b][p] + ReceivedQty(r, p) ELSE qoh[b][p]
            /\ dmg'[b][p] = dmg[b][p]
        BY <2>4, <3>2 DEF post_receive, TypeOK
      <3> QED BY <2>0, <3>2, <3>3 DEF ReceivedQty
    <2>5. CASE UNCHANGED <<qoh, dmg>>
      BY <2>0, <2>5
    <2> QED BY <2>1, <2>2, <2>3, <2>4, <2>5, IssueReturned
            DEF Next, vars, CheckReverse, CheckReceive, Abandon
  <1> QED BY <1>1, <1>2, TypeCorrect, PTL DEF Spec

-----------------------------------------------------------------------------
(* Custody of units. *)

(* Only pullouts are ever received: the screen that asks lists nothing     *)
(* else, and a row's type never changes.                                   *)
ReceivesPullouts ==
    \A w \in Workers : req[w].kind = "receive" => body[req[w].op].type = "PULLOUT"

(* The inductive invariant behind UnitsHeldOnce. *)
CustodyInv == TypeOK /\ ReceivesPullouts /\ UnitsHeldOnce

(* A unit leaves an operation's custody when the operation closes, and     *)
(* every other unit keeps its holder.                                      *)
LEMMA CloseKeepsCustody ==
    ASSUME CustodyInv, NEW o \in Ops, NEW st \in {"CANCELLED", "RECEIVED"},
           body' = body, status' = [status EXCEPT ![o] = st],
           \A s \in Serials :
               \/ reg'[s] = reg[s] /\ ~(reg[s].source = o /\ reg[s].status # "IN_STOCK"
                                        /\ Holding(o))
               \/ reg[s].source = o /\ reg'[s].status = "IN_STOCK"
    PROVE  UnitsHeldOnce'
  <1>1. ~Holding(o)' /\ \A x \in Ops \ {o} : Holding(x)' <=> Holding(x)
    BY DEF CustodyInv, TypeOK, Holding
  <1> SUFFICES ASSUME NEW s \in Serials
               PROVE  /\ reg'[s].status # "IN_STOCK" =>
                            \E x \in Ops : /\ reg'[s].source = x
                                           /\ Holding(x)'
                                           /\ s \in body[x].serials
                                           /\ reg'[s].status = HeldStatus(body[x].type)
                                           /\ reg'[s].branch = body[x].branch
                      /\ \A x \in Ops : Holding(x)' /\ s \in body[x].serials =>
                                            reg'[s].source = x /\ reg'[s].status # "IN_STOCK"
    BY DEF UnitsHeldOnce
  <1>2. ASSUME reg'[s].status # "IN_STOCK"
        PROVE  \E x \in Ops : /\ reg'[s].source = x
                              /\ Holding(x)'
                              /\ s \in body[x].serials
                              /\ reg'[s].status = HeldStatus(body[x].type)
                              /\ reg'[s].branch = body[x].branch
    <2>1. reg'[s] = reg[s] /\ reg[s].status # "IN_STOCK"
      BY <1>2
    <2>2. PICK x \in Ops : /\ reg[s].source = x
                           /\ Holding(x)
                           /\ s \in body[x].serials
                           /\ reg[s].status = HeldStatus(body[x].type)
                           /\ reg[s].branch = body[x].branch
      BY <2>1 DEF CustodyInv, UnitsHeldOnce
    <2>3. x # o
      BY <2>1, <2>2, <1>2
    <2> QED BY <1>1, <2>1, <2>2, <2>3
  <1>3. ASSUME NEW x \in Ops, Holding(x)', s \in body[x].serials
        PROVE  reg'[s].source = x /\ reg'[s].status # "IN_STOCK"
    <2>1. x # o /\ Holding(x)
      BY <1>1, <1>3
    <2>2. reg[s].source = x /\ reg[s].status # "IN_STOCK"
      BY <2>1, <1>3 DEF CustodyInv, UnitsHeldOnce
    <2> QED BY <2>1, <2>2
  <1> QED BY <1>2, <1>3

(* The inductive invariant holds: one step per action. *)
LEMMA CustodyInvariant == Spec => []CustodyInv
  <1>1. Init => ReceivesPullouts /\ UnitsHeldOnce
    BY DEF Init, ReceivesPullouts, UnitsHeldOnce, Holding, Idle
  <1>2. CustodyInv /\ [Next]_vars => ReceivesPullouts' /\ UnitsHeldOnce'
    <2> SUFFICES ASSUME CustodyInv, [Next]_vars
                 PROVE  ReceivesPullouts' /\ UnitsHeldOnce'
      OBVIOUS
    <2>0. TypeOK
      BY DEF CustodyInv
    <2>1. ReceivesPullouts'
      <3>1. ASSUME NEW o \in Ops, NEW r \in Requests, post_stockOperations(o, r)
            PROVE  ReceivesPullouts'
        <4> SUFFICES ASSUME NEW w \in Workers, req[w].kind = "receive"
                     PROVE  body'[req[w].op].type = "PULLOUT"
          BY <3>1 DEF post_stockOperations, ReceivesPullouts
        <4>1. req[w].op \in Ops /\ status[req[w].op] # "NONE"
          BY <2>0, PendingFacts
        <4> QED BY <2>0, <3>1, <4>1 DEF CustodyInv, ReceivesPullouts, TypeOK, post_stockOperations
      <3>2. ASSUME NEW w \in Workers, NEW o \in Ops, CheckReverse(w, o) \/ CheckReceive(w, o)
            PROVE  ReceivesPullouts'
        <4>1. CASE CheckReverse(w, o)
          BY <2>0, <4>1 DEF CustodyInv, ReceivesPullouts, TypeOK, CheckReverse
        <4>2. CASE CheckReceive(w, o)
          <5>1. /\ body[o].type = "PULLOUT" /\ body' = body
                /\ req' = [req EXCEPT ![w] = [kind |-> "receive", op |-> o]]
            BY <4>2, ReceiveAssumption DEF CheckReceive
          <5> QED BY <2>0, <5>1 DEF CustodyInv, ReceivesPullouts, TypeOK
        <4> QED BY <3>2, <4>1, <4>2
      <3>3. ASSUME NEW w \in Workers, body' = body, req' = [req EXCEPT ![w] = Idle]
            PROVE  ReceivesPullouts'
        BY <2>0, <3>3 DEF CustodyInv, ReceivesPullouts, TypeOK, Idle
      <3>4. CASE UNCHANGED vars
        BY <3>4 DEF CustodyInv, ReceivesPullouts, vars
      <3> QED BY <3>1, <3>2, <3>3, <3>4, IssueReturned
              DEF Next, post_reverse, returnIssued, post_receive, Abandon
    <2>2. UnitsHeldOnce'
      <3>1. ASSUME NEW o \in Ops, NEW r \in Requests, post_stockOperations(o, r)
            PROVE  UnitsHeldOnce'
        <4>1. /\ status[o] = "NONE" /\ ~Holding(o)
              /\ body' = [body EXCEPT ![o] = r] /\ body'[o] = r
              /\ status'[o] \in {"LOGGED", "DISPATCHED"}
              /\ reg' = issueOperationSerials(o, r)
              /\ ~findGateViolation(r)
              /\ \A x \in Ops \ {o} : /\ status'[x] = status[x]
                                      /\ body'[x] = body[x]
                                      /\ Holding(x)' <=> Holding(x)
          BY <2>0, <3>1 DEF post_stockOperations, TypeOK, Holding
        <4>2. Holding(o)' <=> r.type \in SerialValidatedTypes
          BY <4>1 DEF Holding
        <4>3. /\ r.serials \subseteq Serials
              /\ r.serials # {} => r.type \in SerialValidatedTypes
              /\ r.type \in SerialValidatedTypes => HeldStatus(r.type) # "IN_STOCK"
          BY RequestFields, HeldStatusFacts
        <4> SUFFICES ASSUME NEW s \in Serials
                     PROVE  /\ reg'[s].status # "IN_STOCK" =>
                                  \E x \in Ops : /\ reg'[s].source = x
                                                 /\ Holding(x)'
                                                 /\ s \in body'[x].serials
                                                 /\ reg'[s].status = HeldStatus(body'[x].type)
                                                 /\ reg'[s].branch = body'[x].branch
                            /\ \A x \in Ops : Holding(x)' /\ s \in body'[x].serials =>
                                  reg'[s].source = x /\ reg'[s].status # "IN_STOCK"
          BY DEF UnitsHeldOnce
        <4>4. CASE s \in r.serials
          <5>1. reg[s].status = "IN_STOCK" /\ reg[s].branch = r.branch
            BY <4>1, <4>4 DEF findGateViolation
          <5>2. /\ reg'[s].status = HeldStatus(r.type)
                /\ reg'[s].source = o
                /\ reg'[s].branch = r.branch
            BY <2>0, <4>1, <4>4, <5>1 DEF issueOperationSerials, TypeOK, Register
          <5>3. \A x \in Ops \ {o} : ~(Holding(x) /\ s \in body[x].serials)
            BY <5>1 DEF CustodyInv, UnitsHeldOnce
          <5> QED BY <4>1, <4>2, <4>3, <4>4, <5>2, <5>3
        <4>5. CASE s \notin r.serials
          <5>1. reg'[s] = reg[s]
            BY <4>1, <4>5 DEF issueOperationSerials
          <5>2. ASSUME reg[s].status # "IN_STOCK"
                PROVE  \E x \in Ops \ {o} : /\ reg[s].source = x
                                            /\ Holding(x)
                                            /\ s \in body[x].serials
                                            /\ reg[s].status = HeldStatus(body[x].type)
                                            /\ reg[s].branch = body[x].branch
            BY <5>2, <4>1 DEF CustodyInv, UnitsHeldOnce
          <5>3. \A x \in Ops \ {o} : Holding(x) /\ s \in body[x].serials =>
                    reg[s].source = x /\ reg[s].status # "IN_STOCK"
            BY DEF CustodyInv, UnitsHeldOnce
          <5> QED BY <4>1, <4>5, <5>1, <5>2, <5>3
        <4> QED BY <4>4, <4>5
      <3>2. ASSUME NEW w \in Workers, post_reverse(w)
            PROVE  UnitsHeldOnce'
        <4> DEFINE o == req[w].op
        <4>1. /\ o \in Ops /\ body' = body /\ body[o].type = "DAMAGE"
              /\ status' = [status EXCEPT ![o] = "CANCELLED"]
              /\ reg' = restoreSerialsInDb(o)
          BY <2>0, <3>2, PendingFacts DEF post_reverse, STOCK_OPERATION_CANCEL
        <4>2. ASSUME NEW s \in Serials
              PROVE  \/ reg'[s] = reg[s] /\ ~(reg[s].source = o /\ reg[s].status # "IN_STOCK"
                                              /\ Holding(o))
                     \/ reg[s].source = o /\ reg'[s].status = "IN_STOCK"
          <5>1. CASE s \in body[o].serials /\ reg[s].status = "DAMAGED" /\ reg[s].source = o
            BY <2>0, <4>1, <5>1 DEF restoreSerialsInDb, TypeOK, Register
          <5>2. CASE ~(s \in body[o].serials /\ reg[s].status = "DAMAGED" /\ reg[s].source = o)
            <6>1. reg'[s] = reg[s]
              BY <4>1, <5>2 DEF restoreSerialsInDb
            <6>2. reg[s].source = o /\ reg[s].status # "IN_STOCK" =>
                    s \in body[o].serials /\ reg[s].status = HeldStatus("DAMAGE")
              BY <4>1 DEF CustodyInv, UnitsHeldOnce
            <6> QED BY <5>2, <6>1, <6>2 DEF HeldStatus
          <5> QED BY <5>1, <5>2
        <4> HIDE DEF o
        <4> QED BY <4>1, <4>2, CloseKeepsCustody
      <3>3. ASSUME NEW w \in Workers, returnIssued(w, IssuedTypes)
            PROVE  UnitsHeldOnce'
        <4> DEFINE o == req[w].op
        <4>1. /\ o \in Ops /\ body' = body
              /\ status' = [status EXCEPT ![o] = "CANCELLED"]
              /\ reg' = restoreOperationSerialsInDb(o)
          BY <2>0, <3>3, PendingFacts DEF returnIssued, STOCK_OPERATION_CANCEL
        <4>2. ASSUME NEW s \in Serials
              PROVE  \/ reg'[s] = reg[s] /\ ~(reg[s].source = o /\ reg[s].status # "IN_STOCK"
                                              /\ Holding(o))
                     \/ reg[s].source = o /\ reg'[s].status = "IN_STOCK"
          <5> DEFINE restored == /\ reg[s].source = o
                                 /\ reg[s].status = HeldStatus(body[o].type)
                                 /\ reg[s].branch = body[o].branch
          <5>1. CASE restored
            BY <2>0, <4>1, <5>1 DEF restoreOperationSerialsInDb, TypeOK, Register
          <5>2. CASE ~restored
            <6>1. reg'[s] = reg[s]
              BY <4>1, <5>2 DEF restoreOperationSerialsInDb
            <6>2. reg[s].source = o /\ reg[s].status # "IN_STOCK" => restored
              BY <4>1 DEF CustodyInv, UnitsHeldOnce
            <6> QED BY <5>2, <6>1, <6>2
          <5> QED BY <5>1, <5>2
        <4> HIDE DEF o
        <4> QED BY <4>1, <4>2, CloseKeepsCustody
      <3>4. ASSUME NEW w \in Workers, post_receive(w)
            PROVE  UnitsHeldOnce'
        <4> DEFINE o == req[w].op
        <4>1. /\ o \in Ops /\ body' = body /\ body[o].type = "PULLOUT"
              /\ status' = [status EXCEPT ![o] = "RECEIVED"]
              /\ reg' = receivePulloutSerialsInDb(o)
          BY <2>0, <3>4, PendingFacts DEF post_receive, CustodyInv, ReceivesPullouts
        <4>2. ASSUME NEW s \in Serials
              PROVE  \/ reg'[s] = reg[s] /\ ~(reg[s].source = o /\ reg[s].status # "IN_STOCK"
                                              /\ Holding(o))
                     \/ reg[s].source = o /\ reg'[s].status = "IN_STOCK"
          <5>1. CASE reg[s].source = o /\ reg[s].status = "IN_TRANSIT"
            BY <2>0, <4>1, <5>1 DEF receivePulloutSerialsInDb, TypeOK, Register
          <5>2. CASE ~(reg[s].source = o /\ reg[s].status = "IN_TRANSIT")
            <6>1. reg'[s] = reg[s]
              BY <4>1, <5>2 DEF receivePulloutSerialsInDb
            <6>2. reg[s].source = o /\ reg[s].status # "IN_STOCK" =>
                    reg[s].status = HeldStatus("PULLOUT")
              BY <4>1 DEF CustodyInv, UnitsHeldOnce
            <6> QED BY <5>2, <6>1, <6>2 DEF HeldStatus
          <5> QED BY <5>1, <5>2
        <4> HIDE DEF o
        <4> QED BY <4>1, <4>2, CloseKeepsCustody
      <3>5. CASE UNCHANGED <<reg, status, body>>
        BY <3>5 DEF CustodyInv, UnitsHeldOnce, Holding
      <3> QED BY <3>1, <3>2, <3>3, <3>4, <3>5, IssueReturned
              DEF Next, vars, CheckReverse, CheckReceive, Abandon
    <2> QED BY <2>1, <2>2
  <1> QED BY <1>1, <1>2, TypeCorrect, PTL DEF Spec, CustodyInv

(* A unit is out of stock exactly while one open operation holds it,       *)
(* whatever reversals and receipts are in flight: the source_id that       *)
(* issueOperationSerialsInDb writes, and every restore filters on, makes   *)
(* late requests harmless to units that have moved on.                     *)
THEOREM UnitCustody == Spec => []UnitsHeldOnce
  <1>1. CustodyInv => UnitsHeldOnce
    BY DEF CustodyInv
  <1> QED BY <1>1, CustodyInvariant, PTL

-----------------------------------------------------------------------------
(* The register implements Custody. *)

(* Closing an operation lets go of exactly the units it holds: those the   *)
(* restore puts back in stock are those the mapping attributes to it.      *)
LEMMA CloseLetsGo ==
    ASSUME CustodyInv, NEW o \in Ops, status[o] # "NONE",
           NEW st \in {"CANCELLED", "RECEIVED"}, status' = [status EXCEPT ![o] = st],
           \A s \in Serials :
               IF reg[s].source = o /\ reg[s].status # "IN_STOCK"
               THEN reg'[s].status = "IN_STOCK"
               ELSE reg'[s].status = reg[s].status /\ reg'[s].source = reg[s].source
    PROVE  C!LetGo(o)
  <1>1. NoOp \notin Ops
    BY ConstantsAssumption
  <1>2. ASSUME NEW s \in Serials
        PROVE  holderOf'[s] = IF holderOf[s] = o THEN NoOp ELSE holderOf[s]
    BY <1>1 DEF holderOf
  <1>3. lifeOf[o] # "new" /\ lifeOf' = [lifeOf EXCEPT ![o] = "done"]
    BY DEF lifeOf, CustodyInv, TypeOK, OpStatuses
  <1> QED BY <1>2, <1>3 DEF C!LetGo, holderOf

(* The serial register implements the abstract custody of units: what      *)
(* post_stockOperations takes, a reversal gives back and a receipt         *)
(* delivers whole, and a request that comes too late touches nothing.      *)
THEOREM RegisterImplementsCustody == Spec => ImplementsCustody
  <1>1. Init => C!Init
    BY ConstantsAssumption DEF Init, C!Init, holderOf, placeOf, lifeOf
  <1>2. CustodyInv /\ [Next]_vars => [C!Next]_<<holderOf, placeOf, lifeOf>>
    <2> SUFFICES ASSUME CustodyInv, [Next]_vars
                 PROVE  C!Next \/ UNCHANGED <<holderOf, placeOf, lifeOf>>
      OBVIOUS
    <2>0. TypeOK /\ NoOp \notin Ops
      BY ConstantsAssumption DEF CustodyInv
    <2>1. ASSUME NEW o \in Ops, NEW r \in Requests, post_stockOperations(o, r)
          PROVE  C!Next
      <3>1. /\ r.serials \subseteq Serials /\ r.branch \in Branches
            /\ r.serials # {} => HeldStatus(r.type) # "IN_STOCK"
        BY RequestFields, HeldStatusFacts
      <3>2. /\ reg' = issueOperationSerials(o, r)
            /\ ~findGateViolation(r)
            /\ lifeOf[o] = "new"
        BY <2>1 DEF post_stockOperations, lifeOf
      <3>3. \A s \in r.serials : holderOf[s] = NoOp /\ placeOf[s] = r.branch
        BY <3>1, <3>2 DEF findGateViolation, holderOf, placeOf
      <3>4. ASSUME NEW s \in Serials
            PROVE  /\ s \in r.serials => /\ reg'[s].status = HeldStatus(r.type)
                                         /\ reg'[s].source = o
                                         /\ reg'[s].branch = reg[s].branch
                   /\ s \notin r.serials => reg'[s] = reg[s]
        <4>1. CASE s \in r.serials
          <5>1. reg[s] \in Register
            BY <2>0 DEF TypeOK
          <5>2. reg'[s] = [reg[s] EXCEPT !.status = HeldStatus(r.type), !.source = o]
            BY <3>2, <4>1 DEF issueOperationSerials
          <5> QED BY <4>1, <5>1, <5>2 DEF Register
        <4>2. CASE s \notin r.serials
          BY <3>2, <4>2 DEF issueOperationSerials
        <4> QED BY <4>1, <4>2
      <3>5. holderOf' = [s \in Serials |-> IF s \in r.serials THEN o ELSE holderOf[s]]
        <4>1. ASSUME NEW s \in Serials
              PROVE  holderOf'[s] = IF s \in r.serials THEN o ELSE holderOf[s]
          BY <3>1, <3>4 DEF holderOf
        <4> QED BY <4>1 DEF holderOf
      <3>6. placeOf' = placeOf
        BY <3>4 DEF placeOf
      <3>7. lifeOf' = [lifeOf EXCEPT ![o] = "holding"]
        BY <2>0, <2>1 DEF post_stockOperations, lifeOf, TypeOK
      <3>8. C!Take(o, r.serials)
        BY <3>1, <3>2, <3>3, <3>5, <3>6, <3>7 DEF C!Take
      <3> QED BY <3>1, <3>8 DEF C!Next
    <2>2. ASSUME NEW w \in Workers, post_reverse(w)
          PROVE  C!Next
      <3> DEFINE o == req[w].op
      <3>1. /\ o \in Ops /\ status[o] # "NONE" /\ body[o].type = "DAMAGE"
            /\ status' = [status EXCEPT ![o] = "CANCELLED"]
            /\ reg' = restoreSerialsInDb(o)
        BY <2>0, <2>2, PendingFacts DEF post_reverse, STOCK_OPERATION_CANCEL
      <3> HIDE DEF o
      <3>2. ASSUME NEW s \in Serials, reg[s].source = o, reg[s].status # "IN_STOCK"
            PROVE  s \in body[o].serials /\ reg[s].status = "DAMAGED"
        BY <3>1, <3>2 DEF CustodyInv, UnitsHeldOnce, HeldStatus
      <3>3. ASSUME NEW s \in Serials
            PROVE  /\ reg'[s].branch = reg[s].branch
                   /\ IF reg[s].source = o /\ reg[s].status # "IN_STOCK"
                      THEN reg'[s].status = "IN_STOCK"
                      ELSE reg'[s].status = reg[s].status /\ reg'[s].source = reg[s].source
        BY <2>0, <3>1, <3>2 DEF restoreSerialsInDb, TypeOK, Register
      <3>4. placeOf' = placeOf
        BY <3>3 DEF placeOf
      <3> QED BY <3>1, <3>3, <3>4, CloseLetsGo DEF C!Next, C!GiveBack
    <2>3. ASSUME NEW w \in Workers, returnIssued(w, IssuedTypes)
          PROVE  C!Next
      <3> DEFINE o == req[w].op
      <3>1. /\ o \in Ops /\ status[o] # "NONE" /\ body[o] \in Requests
            /\ body[o].type \in IssuedTypes
            /\ status' = [status EXCEPT ![o] = "CANCELLED"]
            /\ reg' = restoreOperationSerialsInDb(o)
        BY <2>0, <2>3, PendingFacts DEF returnIssued, STOCK_OPERATION_CANCEL
      <3> HIDE DEF o
      <3>2. ASSUME NEW s \in Serials, reg[s].source = o, reg[s].status # "IN_STOCK"
            PROVE  reg[s].status = HeldStatus(body[o].type) /\ reg[s].branch = body[o].branch
        BY <3>1, <3>2 DEF CustodyInv, UnitsHeldOnce
      <3>3. HeldStatus(body[o].type) # "IN_STOCK"
        BY <3>1 DEF HeldStatus, IssuedTypes
      <3>4. ASSUME NEW s \in Serials
            PROVE  /\ reg'[s].branch = reg[s].branch
                   /\ IF reg[s].source = o /\ reg[s].status # "IN_STOCK"
                      THEN reg'[s].status = "IN_STOCK"
                      ELSE reg'[s].status = reg[s].status /\ reg'[s].source = reg[s].source
        BY <2>0, <3>1, <3>2, <3>3 DEF restoreOperationSerialsInDb, TypeOK, Register
      <3>5. placeOf' = placeOf
        BY <3>4 DEF placeOf
      <3> QED BY <3>1, <3>4, <3>5, CloseLetsGo DEF C!Next, C!GiveBack
    <2>4. ASSUME NEW w \in Workers, post_receive(w)
          PROVE  C!Next
      <3> DEFINE o == req[w].op
      <3>1. /\ o \in Ops /\ status[o] # "NONE" /\ body[o] \in Requests
            /\ body[o].type = "PULLOUT"
            /\ status' = [status EXCEPT ![o] = "RECEIVED"]
            /\ reg' = receivePulloutSerialsInDb(o)
        BY <2>0, <2>4, PendingFacts DEF post_receive, CustodyInv, ReceivesPullouts
      <3> HIDE DEF o
      <3>2. body[o].dest \in Branches
        BY <3>1, RequestFields
      <3>3. ASSUME NEW s \in Serials, reg[s].source = o, reg[s].status # "IN_STOCK"
            PROVE  reg[s].status = "IN_TRANSIT"
        BY <3>1, <3>3 DEF CustodyInv, UnitsHeldOnce, HeldStatus
      <3>4. ASSUME NEW s \in Serials
            PROVE  IF reg[s].source = o /\ reg[s].status # "IN_STOCK"
                   THEN reg'[s].status = "IN_STOCK" /\ reg'[s].branch = body[o].dest
                   ELSE reg'[s] = reg[s]
        BY <2>0, <3>1, <3>3 DEF receivePulloutSerialsInDb, TypeOK, Register
      <3>5. C!LetGo(o)
        BY <3>1, <3>4, CloseLetsGo
      <3>6. placeOf' = [s \in Serials |-> IF holderOf[s] = o THEN body[o].dest ELSE placeOf[s]]
        <4>1. ASSUME NEW s \in Serials
              PROVE  placeOf'[s] = IF holderOf[s] = o THEN body[o].dest ELSE placeOf[s]
          BY <2>0, <3>1, <3>4 DEF placeOf, holderOf
        <4> QED BY <4>1 DEF placeOf
      <3> QED BY <3>1, <3>2, <3>5, <3>6 DEF C!Next, C!Deliver
    <2>5. CASE UNCHANGED <<reg, status>>
      BY <2>5 DEF holderOf, placeOf, lifeOf
    <2> QED BY <2>1, <2>2, <2>3, <2>4, <2>5, IssueReturned
            DEF Next, vars, CheckReverse, CheckReceive, Abandon
  <1> QED BY <1>1, <1>2, CustodyInvariant, PTL DEF Spec, ImplementsCustody, C!Spec

-----------------------------------------------------------------------------
(* While requests keep apart: what a step does. *)

(* A reversal in flight is still for an operation that may be reversed,    *)
(* and what was received is a pullout.                                     *)
InOrder ==
    /\ \A w \in Workers : req[w].kind = "reverse" => MayReverse(req[w].op)
    /\ \A w \in Workers : req[w].kind = "receive" => ReceiveTypes # {}
    /\ \A o \in Ops : status[o] = "RECEIVED" => body[o].type = "PULLOUT"

(* The shape of a closing step: one operation, open and holding its units, *)
(* gets another status.                                                    *)
Closes(o, st) ==
    /\ Holding(o) /\ body[o] \in Requests
    /\ body' = body
    /\ status' = [status EXCEPT ![o] = st]

Reverses(o) ==
    /\ Closes(o, "CANCELLED")
    /\ body[o].type \in IssuedTypes \cup {"DAMAGE"}
    /\ \A b \in Branches, p \in Products :
          /\ b # body[o].branch => qoh'[b][p] = qoh[b][p] /\ dmg'[b][p] = dmg[b][p]
          /\ b = body[o].branch => /\ qoh'[b][p] = qoh[b][p] + body[o].usable[p]
                                   /\ dmg'[b][p] = dmg[b][p] - DamagedChange(body[o], p)
    /\ \A s \in Serials :
          /\ s \in body[o].serials => /\ reg[s].status # "IN_STOCK"
                                      /\ reg'[s].status = "IN_STOCK"
                                      /\ reg'[s].branch = body[o].branch
          /\ s \notin body[o].serials => reg'[s] = reg[s]
    /\ ledger' = insertLedger(reversalLedger(o))
    /\ journal' = reverseStockOperationJournal(o)

Receives(o) ==
    /\ Closes(o, "RECEIVED")
    /\ body[o].type = "PULLOUT" /\ ReceiveTypes # {}
    /\ \A b \in Branches, p \in Products :
          /\ dmg'[b][p] = dmg[b][p]
          /\ b # body[o].dest => qoh'[b][p] = qoh[b][p]
          /\ b = body[o].dest => qoh'[b][p] = qoh[b][p] + ReceivedQty(body[o], p)
    /\ \A s \in Serials :
          /\ s \in body[o].serials => /\ reg[s].status # "IN_STOCK"
                                      /\ reg'[s].status = "IN_STOCK"
                                      /\ reg'[s].branch = body[o].dest
          /\ s \notin body[o].serials => reg'[s] = reg[s]
    /\ \E df : ledger' = insertLedger(buildReceiveTxn(o, df))
    /\ journal' = IF MovesValue(body[o]) THEN [journal EXCEPT ![o].receipt = @ + 1]
                                         ELSE journal

Posts(o, r) ==
    /\ status[o] = "NONE"
    /\ body' = [body EXCEPT ![o] = r]
    /\ status' = [status EXCEPT ![o] = IF r.type = "PULLOUT" THEN "DISPATCHED" ELSE "LOGGED"]
    /\ \A b \in Branches, p \in Products :
          /\ b # r.branch => qoh'[b][p] = qoh[b][p] /\ dmg'[b][p] = dmg[b][p]
          /\ b = r.branch => /\ qoh'[b][p] = qoh[b][p] + UsableChange(r, p)
                             /\ dmg'[b][p] = dmg[b][p] + DamagedChange(r, p)
    /\ \A s \in Serials :
          /\ s \in r.serials => /\ reg[s].status = "IN_STOCK" /\ reg[s].branch = r.branch
                                /\ reg'[s].status # "IN_STOCK"
          /\ s \notin r.serials => reg'[s] = reg[s]
    /\ ledger' = insertLedger(operationTransactions(o, r))
    /\ journal' = postStockValueJournal(o, r)

(* The units an open operation holds are exactly those it lists. *)
LEMMA HeldUnits ==
    ASSUME CustodyInv, NEW o \in Ops, Holding(o), NEW s \in Serials
    PROVE  /\ s \in body[o].serials <=> reg[s].source = o /\ reg[s].status # "IN_STOCK"
           /\ s \in body[o].serials => /\ reg[s].status = HeldStatus(body[o].type)
                                       /\ reg[s].branch = body[o].branch
  <1>1. s \in body[o].serials => reg[s].source = o /\ reg[s].status # "IN_STOCK"
    BY DEF CustodyInv, UnitsHeldOnce
  <1>2. reg[s].status # "IN_STOCK" =>
            \E x \in Ops : /\ reg[s].source = x /\ Holding(x) /\ s \in body[x].serials
                           /\ reg[s].status = HeldStatus(body[x].type)
                           /\ reg[s].branch = body[x].branch
    BY DEF CustodyInv, UnitsHeldOnce
  <1> QED BY <1>1, <1>2

LEMMA DamageReverses ==
    ASSUME CustodyInv, NEW w \in Workers, post_reverse(w), NEW o \in Ops, req[w].op = o, Holding(o)
    PROVE  Reverses(o)
  <1>1. body[o] \in Requests
    BY DEF CustodyInv, TypeOK, Holding
  <1>2. /\ body[o].branch \in Branches
        /\ \A p \in Products : body[o].usable[p] \in Nat /\ DamagedChange(body[o], p) = body[o].usable[p]
    BY <1>1, RequestFields DEF post_reverse, DamagedChange
  <1>3. \A b \in Branches, p \in Products :
          /\ b # body[o].branch => qoh'[b][p] = qoh[b][p] /\ dmg'[b][p] = dmg[b][p]
          /\ b = body[o].branch => /\ qoh'[b][p] = qoh[b][p] + body[o].usable[p]
                                   /\ dmg'[b][p] = dmg[b][p] - body[o].usable[p]
    BY <1>2 DEF post_reverse, CustodyInv, TypeOK
  <1>4. reg' = restoreSerialsInDb(o) /\ body[o].type = "DAMAGE"
    BY DEF post_reverse
  <1>5. HeldStatus(body[o].type) = "DAMAGED"
    BY <1>4 DEF HeldStatus
  <1>6. ASSUME NEW s \in Serials
        PROVE  /\ s \in body[o].serials => /\ reg[s].status # "IN_STOCK"
                                           /\ reg'[s].status = "IN_STOCK"
                                           /\ reg'[s].branch = body[o].branch
               /\ s \notin body[o].serials => reg'[s] = reg[s]
    <2>1. reg[s] \in Register
      BY DEF CustodyInv, TypeOK
    <2>2. s \in body[o].serials => /\ reg[s].source = o /\ reg[s].status = "DAMAGED"
                                   /\ reg[s].branch = body[o].branch
      BY <1>5, HeldUnits
    <2> QED BY <1>4, <2>1, <2>2 DEF restoreSerialsInDb, Register
  <1>7. Closes(o, "CANCELLED")
    BY <1>1 DEF Closes, post_reverse, STOCK_OPERATION_CANCEL
  <1> QED BY <1>2, <1>3, <1>4, <1>6, <1>7 DEF Reverses, post_reverse

LEMMA IssueReverses ==
    ASSUME CustodyInv, NEW w \in Workers, returnIssued(w, IssuedTypes),
           NEW o \in Ops, req[w].op = o, Holding(o)
    PROVE  Reverses(o)
  <1>1. body[o] \in Requests /\ body[o].type \in IssuedTypes
    BY DEF CustodyInv, TypeOK, Holding, returnIssued
  <1>2. /\ body[o].branch \in Branches
        /\ \A p \in Products : /\ body[o].usable[p] \in Nat /\ body[o].damaged[p] \in Nat
                               /\ DamagedChange(body[o], p) = -body[o].damaged[p]
    BY <1>1, RequestFields DEF DamagedChange, IssuedTypes
  <1>3. \A b \in Branches, p \in Products :
          /\ b # body[o].branch => qoh'[b][p] = qoh[b][p] /\ dmg'[b][p] = dmg[b][p]
          /\ b = body[o].branch => /\ qoh'[b][p] = qoh[b][p] + body[o].usable[p]
                                   /\ dmg'[b][p] = dmg[b][p] + body[o].damaged[p]
    BY <1>2 DEF returnIssued, CustodyInv, TypeOK
  <1>4. \A b \in Branches, p \in Products :
            dmg[b][p] + body[o].damaged[p] = dmg[b][p] - DamagedChange(body[o], p)
    <2>1. \A b \in Branches, p \in Products : dmg[b][p] \in Int
      BY DEF CustodyInv, TypeOK
    <2> QED BY <1>2, <2>1
  <1>5. reg' = restoreOperationSerialsInDb(o)
    BY DEF returnIssued
  <1>6. HeldStatus(body[o].type) # "IN_STOCK"
    BY <1>1 DEF HeldStatus, IssuedTypes
  <1>7. ASSUME NEW s \in Serials
        PROVE  /\ s \in body[o].serials => /\ reg[s].status # "IN_STOCK"
                                           /\ reg'[s].status = "IN_STOCK"
                                           /\ reg'[s].branch = body[o].branch
               /\ s \notin body[o].serials => reg'[s] = reg[s]
    <2>1. reg[s] \in Register
      BY DEF CustodyInv, TypeOK
    <2>2. /\ s \in body[o].serials <=> reg[s].source = o /\ reg[s].status # "IN_STOCK"
          /\ s \in body[o].serials => /\ reg[s].status = HeldStatus(body[o].type)
                                      /\ reg[s].branch = body[o].branch
      BY HeldUnits
    <2> QED BY <1>5, <1>6, <2>1, <2>2 DEF restoreOperationSerialsInDb, Register
  <1>8. Closes(o, "CANCELLED")
    BY <1>1 DEF Closes, returnIssued, STOCK_OPERATION_CANCEL
  <1> QED BY <1>1, <1>3, <1>4, <1>7, <1>8 DEF Reverses, returnIssued

LEMMA ReceiptReceives ==
    ASSUME CustodyInv, InOrder, NEW w \in Workers, post_receive(w),
           NEW o \in Ops, req[w].op = o, Holding(o)
    PROVE  Receives(o)
  <1>0. ReceiveTypes # {}
    BY DEF InOrder, post_receive
  <1>1. body[o] \in Requests /\ body[o].type = "PULLOUT"
    BY DEF CustodyInv, TypeOK, Holding, post_receive, ReceivesPullouts
  <1>2. body[o].dest \in Branches /\ \A p \in Products : ReceivedQty(body[o], p) \in Int
    BY <1>1, RequestFields DEF ReceivedQty
  <1>3. \A b \in Branches, p \in Products :
          /\ dmg'[b][p] = dmg[b][p]
          /\ b # body[o].dest => qoh'[b][p] = qoh[b][p]
          /\ b = body[o].dest => qoh'[b][p] = qoh[b][p] + ReceivedQty(body[o], p)
    BY <1>2 DEF post_receive, CustodyInv, TypeOK
  <1>4. reg' = receivePulloutSerialsInDb(o) /\ HeldStatus(body[o].type) = "IN_TRANSIT"
    BY <1>1 DEF post_receive, HeldStatus
  <1>5. ASSUME NEW s \in Serials
        PROVE  /\ s \in body[o].serials => /\ reg[s].status # "IN_STOCK"
                                           /\ reg'[s].status = "IN_STOCK"
                                           /\ reg'[s].branch = body[o].dest
               /\ s \notin body[o].serials => reg'[s] = reg[s]
    <2>1. reg[s] \in Register
      BY DEF CustodyInv, TypeOK
    <2>2. /\ s \in body[o].serials <=> reg[s].source = o /\ reg[s].status # "IN_STOCK"
          /\ s \in body[o].serials => reg[s].status = "IN_TRANSIT"
      BY <1>4, HeldUnits
    <2> QED BY <1>4, <2>1, <2>2 DEF receivePulloutSerialsInDb, Register
  <1>6. Closes(o, "RECEIVED")
    BY <1>1 DEF Closes, post_receive
  <1> QED BY <1>0, <1>1, <1>3, <1>5, <1>6 DEF Receives, post_receive

LEMMA CreatePosts ==
    ASSUME CustodyInv, NEW o \in Ops, NEW r \in Requests, post_stockOperations(o, r)
    PROVE  Posts(o, r)
  <1>1. /\ r.branch \in Branches
        /\ \A p \in Products : UsableChange(r, p) \in Int /\ DamagedChange(r, p) \in Int
    BY RequestFields DEF UsableChange, DamagedChange
  <1>2. \A b \in Branches, p \in Products :
          /\ b # r.branch => qoh'[b][p] = qoh[b][p] /\ dmg'[b][p] = dmg[b][p]
          /\ b = r.branch => /\ qoh'[b][p] = qoh[b][p] + UsableChange(r, p)
                             /\ dmg'[b][p] = dmg[b][p] + DamagedChange(r, p)
    BY <1>1 DEF post_stockOperations, CustodyInv, TypeOK
  <1>3. reg' = issueOperationSerials(o, r) /\ ~findGateViolation(r)
    BY DEF post_stockOperations
  <1>4. r.serials # {} => HeldStatus(r.type) # "IN_STOCK"
    BY RequestFields, HeldStatusFacts
  <1>5. ASSUME NEW s \in Serials
        PROVE  /\ s \in r.serials => /\ reg[s].status = "IN_STOCK" /\ reg[s].branch = r.branch
                                     /\ reg'[s].status # "IN_STOCK"
               /\ s \notin r.serials => reg'[s] = reg[s]
    <2>1. reg[s] \in Register
      BY DEF CustodyInv, TypeOK
    <2> QED BY <1>3, <1>4, <2>1 DEF issueOperationSerials, findGateViolation, Register
  <1> QED BY <1>2, <1>5 DEF Posts, post_stockOperations

(* While requests keep apart, every step that writes posts an operation,   *)
(* reverses one that holds its units, or receives one that does.           *)
Written == <<qoh, dmg, reg, status, body, ledger, journal>>

LEMMA ApartStep ==
    ASSUME CustodyInv, InOrder, Apart, [Next]_vars
    PROVE  \/ UNCHANGED Written
           \/ \E o \in Ops, r \in Requests : Posts(o, r)
           \/ \E o \in Ops : Reverses(o)
           \/ \E o \in Ops : Receives(o)
  <1>0. TypeOK
    BY DEF CustodyInv
  <1>1. ASSUME NEW o \in Ops, NEW r \in Requests, post_stockOperations(o, r) PROVE Posts(o, r)
    BY <1>1, CreatePosts
  <1>2. ASSUME NEW w \in Workers, req[w].kind = "reverse", NEW o, o = req[w].op,
               body[o].type \in IssuedTypes \cup {"DAMAGE"}
        PROVE  o \in Ops /\ Holding(o)
    <2>1. o \in Ops /\ status[o] \in OpStatuses /\ MayReverse(o)
      BY <1>0, <1>2, PendingFacts DEF InOrder, TypeOK
    <2>2. status[o] # "RECEIVED"
      BY <2>1 DEF InOrder, MayReverse
    <2> QED BY <1>2, <2>1, <2>2
            DEF Holding, MayReverse, OpStatuses, SerialValidatedTypes, IssuedTypes
  <1>3. ASSUME NEW w \in Workers, post_reverse(w) PROVE \E o \in Ops : Reverses(o)
    <2> DEFINE o == req[w].op
    <2>1. o \in Ops /\ Holding(o)
      BY <1>2, <1>3 DEF post_reverse
    <2> HIDE DEF o
    <2> QED BY <1>3, <2>1, DamageReverses DEF o
  <1>4. ASSUME NEW w \in Workers, returnIssued(w, IssuedTypes) PROVE \E o \in Ops : Reverses(o)
    <2> DEFINE o == req[w].op
    <2>1. o \in Ops /\ Holding(o)
      BY <1>2, <1>4 DEF returnIssued
    <2> HIDE DEF o
    <2> QED BY <1>4, <2>1, IssueReverses DEF o
  <1>5. ASSUME NEW w \in Workers, post_receive(w) PROVE \E o \in Ops : Receives(o)
    <2> DEFINE o == req[w].op
    <2>1. req[w].kind = "receive" /\ status[o] # "RECEIVED"
      BY <1>5 DEF post_receive, MayReceive
    <2>2. o \in Ops /\ status[o] \in OpStatuses /\ status[o] # "NONE"
      BY <1>0, <2>1, PendingFacts DEF TypeOK
    <2>3. Holding(o)
      BY <2>1, <2>2 DEF Apart, CustodyInv, ReceivesPullouts, Holding, OpStatuses, SerialValidatedTypes
    <2> HIDE DEF o
    <2> QED BY <1>5, <2>2, <2>3, ReceiptReceives DEF o
  <1>6. ASSUME NEW w \in Workers, NEW o, CheckReverse(w, o) \/ CheckReceive(w, o) \/ Abandon(w)
        PROVE  UNCHANGED Written
    BY <1>6 DEF CheckReverse, CheckReceive, Abandon, Written
  <1>7. UNCHANGED vars => UNCHANGED Written
    BY DEF vars, Written
  <1> QED BY <1>1, <1>3, <1>4, <1>5, <1>6, <1>7, IssueReturned DEF Next

(* A check that nothing overtakes still holds when its transaction runs. *)
LEMMA InOrderKept ==
    ASSUME CustodyInv, InOrder, Apart, [Next]_vars
    PROVE  InOrder'
  <1>0. TypeOK
    BY DEF CustodyInv
  <1>1. ASSUME NEW o \in Ops, NEW r \in Requests, post_stockOperations(o, r) PROVE InOrder'
    <2>1. /\ status[o] = "NONE" /\ req' = req /\ body' = [body EXCEPT ![o] = r]
          /\ status' = [status EXCEPT ![o] = IF r.type = "PULLOUT" THEN "DISPATCHED" ELSE "LOGGED"]
      BY <1>1 DEF post_stockOperations
    <2>2. \A w \in Workers : req[w].kind = "reverse" => req[w].op \in Ops \ {o}
      BY <1>0, <2>1, PendingFacts
    <2>3. \A x \in Ops \ {o} : status'[x] = status[x] /\ body'[x] = body[x]
      BY <1>0, <2>1 DEF TypeOK
    <2>4. status'[o] # "RECEIVED"
      BY <1>0, <2>1 DEF TypeOK
    <2> QED BY <2>1, <2>2, <2>3, <2>4 DEF InOrder, MayReverse
  <1>2. ASSUME NEW w \in Workers, req[w].kind # "idle", NEW o, o = req[w].op, NEW st,
               req[w].kind = "reverse" \/ body[o].type = "PULLOUT",
               st = IF req[w].kind = "reverse" THEN "CANCELLED" ELSE "RECEIVED",
               status' = [status EXCEPT ![o] = st], body' = body,
               req' = [req EXCEPT ![w] = Idle]
        PROVE  InOrder'
    <2>1. o \in Ops
      BY <1>0, <1>2, PendingFacts
    <2>2. \A x \in Ops \ {o} : status'[x] = status[x]
      BY <1>0, <1>2 DEF TypeOK
    <2>3. status'[o] = st
      BY <1>0, <1>2, <2>1 DEF TypeOK
    <2>4. \A x \in Ops : status'[x] = "RECEIVED" => body'[x].type = "PULLOUT"
      BY <1>2, <2>2, <2>3 DEF InOrder
    <2>5. ASSUME NEW v \in Workers, req'[v].kind = "reverse" PROVE MayReverse(req[v].op)' /\ req'[v] = req[v]
      <3>1. v # w /\ req'[v] = req[v]
        BY <1>0, <1>2, <2>5 DEF TypeOK, Idle
      <3>2. req[v].op # o /\ req[v].op \in Ops /\ MayReverse(req[v].op)
        BY <1>0, <1>2, <2>5, <3>1, PendingFacts DEF Apart, InOrder
      <3> QED BY <1>2, <2>2, <3>1, <3>2 DEF MayReverse
    <2>6. \A v \in Workers : req'[v].kind = "receive" => ReceiveTypes # {}
      BY <1>0, <1>2 DEF TypeOK, Idle, InOrder
    <2> QED BY <2>4, <2>5, <2>6 DEF InOrder
  <1>3. ASSUME NEW w \in Workers, post_reverse(w) \/ returnIssued(w, IssuedTypes) PROVE InOrder'
    <2>1. /\ req[w].kind = "reverse" /\ status' = [status EXCEPT ![req[w].op] = "CANCELLED"]
          /\ body' = body /\ req' = [req EXCEPT ![w] = Idle]
      BY <1>3 DEF post_reverse, returnIssued, STOCK_OPERATION_CANCEL
    <2> QED BY <1>2, <2>1
  <1>4. ASSUME NEW w \in Workers, post_receive(w) PROVE InOrder'
    <2>1. /\ req[w].kind = "receive" /\ status' = [status EXCEPT ![req[w].op] = "RECEIVED"]
          /\ body' = body /\ req' = [req EXCEPT ![w] = Idle]
      BY <1>4 DEF post_receive
    <2>2. body[req[w].op].type = "PULLOUT"
      BY <2>1 DEF CustodyInv, ReceivesPullouts
    <2> QED BY <1>2, <2>1, <2>2
  <1>5. ASSUME NEW w \in Workers, NEW o \in Ops, CheckReverse(w, o) PROVE InOrder'
    <2>1. /\ MayReverse(o) /\ status' = status /\ body' = body
          /\ req' = [req EXCEPT ![w] = [kind |-> "reverse", op |-> o]]
      BY <1>5 DEF CheckReverse
    <2>2. \A v \in Workers : req'[v] = IF v = w THEN [kind |-> "reverse", op |-> o] ELSE req[v]
      BY <1>0, <2>1 DEF TypeOK
    <2> QED BY <2>1, <2>2 DEF InOrder, MayReverse
  <1>6. ASSUME NEW w \in Workers, NEW o \in Ops, CheckReceive(w, o) PROVE InOrder'
    <2>1. /\ status' = status /\ body' = body /\ ReceiveTypes # {}
          /\ req' = [req EXCEPT ![w] = [kind |-> "receive", op |-> o]]
      BY <1>6 DEF CheckReceive
    <2>2. \A v \in Workers : req'[v] = IF v = w THEN [kind |-> "receive", op |-> o] ELSE req[v]
      BY <1>0, <2>1 DEF TypeOK
    <2> QED BY <2>1, <2>2 DEF InOrder, MayReverse
  <1>7. ASSUME NEW w \in Workers, Abandon(w) PROVE InOrder'
    <2>1. status' = status /\ body' = body /\ req' = [req EXCEPT ![w] = Idle]
      BY <1>7 DEF Abandon
    <2>2. \A v \in Workers : req'[v] = IF v = w THEN Idle ELSE req[v]
      BY <1>0, <2>1 DEF TypeOK
    <2> QED BY <2>1, <2>2 DEF InOrder, MayReverse, Idle
  <1>8. CASE UNCHANGED vars
    BY <1>8 DEF vars, InOrder, MayReverse
  <1> QED BY <1>1, <1>3, <1>4, <1>5, <1>6, <1>7, <1>8, IssueReturned DEF Next

LEMMA InOrderAlways == Spec /\ []Apart => []InOrder
  <1>1. Init => InOrder
    BY DEF Init, InOrder, Idle
  <1> QED BY <1>1, InOrderKept, CustodyInvariant, PTL DEF Spec

-----------------------------------------------------------------------------
(* The pools follow the operations. *)

LEMMA EffectsTyped ==
    ASSUME TypeOK, NEW o \in Ops, NEW b \in Branches, NEW p \in Products
    PROVE  UsableEffect(o, b, p) \in Int /\ DamagedEffect(o, b, p) \in Int
  <1>1. CASE Open(o)
    <2>1. body[o] \in Requests
      BY <1>1 DEF TypeOK, Open
    <2>2. /\ UsableChange(body[o], p) \in Int /\ DamagedChange(body[o], p) \in Int
          /\ ReceivedQty(body[o], p) \in Int
      BY <2>1, RequestFields DEF UsableChange, DamagedChange, ReceivedQty
    <2> QED BY <2>2 DEF UsableEffect, DamagedEffect
  <1>2. CASE ~Open(o)
    BY <1>2 DEF UsableEffect, DamagedEffect
  <1> QED BY <1>1, <1>2

EffectsAreNumbers ==
    \A o \in Ops, b \in Branches, p \in Products :
        UsableEffect(o, b, p) \in Int /\ DamagedEffect(o, b, p) \in Int

LEMMA EffectsTypedBefore == CustodyInv => EffectsAreNumbers
  BY EffectsTyped DEF CustodyInv, EffectsAreNumbers

LEMMA EffectsTypedAfter == CustodyInv' => EffectsAreNumbers'
  BY EffectsTypedBefore, PTL

(* A step on one operation moves a pool by the change of its effect, or    *)
(* not at all.                                                             *)
EffectStep(b, p) ==
    \/ /\ qoh'[b][p] = qoh[b][p] /\ dmg'[b][p] = dmg[b][p]
       /\ \A x \in Ops : /\ UsableEffect(x, b, p)' = UsableEffect(x, b, p)
                         /\ DamagedEffect(x, b, p)' = DamagedEffect(x, b, p)
    \/ \E o \in Ops :
          /\ qoh'[b][p] = qoh[b][p] + UsableEffect(o, b, p)' - UsableEffect(o, b, p)
          /\ dmg'[b][p] = dmg[b][p] + DamagedEffect(o, b, p)' - DamagedEffect(o, b, p)
          /\ \A x \in Ops \ {o} : /\ UsableEffect(x, b, p)' = UsableEffect(x, b, p)
                                  /\ DamagedEffect(x, b, p)' = DamagedEffect(x, b, p)

LEMMA EffectElsewhere ==
    ASSUME NEW x \in Ops, status'[x] = status[x], body'[x] = body[x], NEW b, NEW p
    PROVE  /\ UsableEffect(x, b, p)' = UsableEffect(x, b, p)
           /\ DamagedEffect(x, b, p)' = DamagedEffect(x, b, p)
  BY DEF UsableEffect, DamagedEffect, Open, UsableChange, DamagedChange, ReceivedQty

LEMMA EveryEffectStep ==
    ASSUME CustodyInv, InOrder, Apart, [Next]_vars, NEW b \in Branches, NEW p \in Products
    PROVE  EffectStep(b, p)
  <1>0. TypeOK /\ qoh[b][p] \in Int /\ dmg[b][p] \in Int
    BY DEF CustodyInv, TypeOK
  <1>1. ASSUME NEW o \in Ops, NEW r \in Requests, Posts(o, r) PROVE EffectStep(b, p)
    <2>1. \A x \in Ops \ {o} : status'[x] = status[x] /\ body'[x] = body[x]
      BY <1>0, <1>1 DEF Posts, TypeOK
    <2>2. status[o] = "NONE" /\ body'[o] = r /\ status'[o] \in {"DISPATCHED", "LOGGED"}
      BY <1>0, <1>1 DEF Posts, TypeOK
    <2>3. UsableChange(r, p) \in Int /\ DamagedChange(r, p) \in Int
      BY RequestFields DEF UsableChange, DamagedChange
    <2>4. UsableEffect(o, b, p) = 0 /\ DamagedEffect(o, b, p) = 0
      BY <2>2 DEF UsableEffect, DamagedEffect, Open
    <2>5. /\ UsableEffect(o, b, p)' = IF b = r.branch THEN UsableChange(r, p) ELSE 0
          /\ DamagedEffect(o, b, p)' = IF b = r.branch THEN DamagedChange(r, p) ELSE 0
      BY <2>2, <2>3 DEF UsableEffect, DamagedEffect, Open, UsableChange, DamagedChange
    <2>6. /\ qoh'[b][p] = qoh[b][p] + UsableEffect(o, b, p)' - UsableEffect(o, b, p)
          /\ dmg'[b][p] = dmg[b][p] + DamagedEffect(o, b, p)' - DamagedEffect(o, b, p)
      BY <1>0, <1>1, <2>3, <2>4, <2>5 DEF Posts
    <2> QED BY <2>1, <2>6, EffectElsewhere DEF EffectStep
  <1>2. ASSUME NEW o \in Ops, NEW st, Closes(o, st)
        PROVE  /\ \A x \in Ops \ {o} : status'[x] = status[x] /\ body'[x] = body[x]
               /\ status[o] \in {"LOGGED", "DISPATCHED"} /\ status'[o] = st
               /\ body'[o] = body[o] /\ body[o] \in Requests
               /\ body[o].type \in SerialValidatedTypes
               /\ UsableChange(body[o], p) = -body[o].usable[p]
               /\ body[o].usable[p] \in Int /\ DamagedChange(body[o], p) \in Int
               /\ ReceivedQty(body[o], p) \in Int
               /\ UsableEffect(o, b, p) =
                     IF b = body[o].branch THEN UsableChange(body[o], p) ELSE 0
               /\ DamagedEffect(o, b, p) =
                     IF b = body[o].branch THEN DamagedChange(body[o], p) ELSE 0
    <2>1. \A x \in Ops \ {o} : status'[x] = status[x] /\ body'[x] = body[x]
      BY <1>0, <1>2 DEF Closes, TypeOK
    <2>2. /\ status[o] \in {"LOGGED", "DISPATCHED"} /\ status'[o] = st
          /\ body'[o] = body[o] /\ body[o] \in Requests
          /\ body[o].type \in SerialValidatedTypes
      BY <1>0, <1>2 DEF Closes, TypeOK, Holding
    <2>3. /\ UsableChange(body[o], p) = -body[o].usable[p]
          /\ body[o].usable[p] \in Int /\ DamagedChange(body[o], p) \in Int
          /\ ReceivedQty(body[o], p) \in Int
      BY <2>2, RequestFields
         DEF UsableChange, DamagedChange, ReceivedQty, SerialValidatedTypes
    <2>4. /\ UsableEffect(o, b, p) = IF b = body[o].branch THEN UsableChange(body[o], p) ELSE 0
          /\ DamagedEffect(o, b, p) = IF b = body[o].branch THEN DamagedChange(body[o], p) ELSE 0
      <3>1. UsableChange(body[o], p) \in Int
        BY <2>3
      <3> QED BY <2>2, <3>1 DEF UsableEffect, DamagedEffect, Open
    <2> QED BY <2>1, <2>2, <2>3, <2>4
  <1>3. ASSUME NEW o \in Ops, Reverses(o) PROVE EffectStep(b, p)
    <2>0. Closes(o, "CANCELLED")
      BY <1>3 DEF Reverses
    <2>1. UsableEffect(o, b, p)' = 0 /\ DamagedEffect(o, b, p)' = 0
      BY <1>2, <2>0 DEF UsableEffect, DamagedEffect, Open
    <2>2. /\ qoh'[b][p] = qoh[b][p] + UsableEffect(o, b, p)' - UsableEffect(o, b, p)
          /\ dmg'[b][p] = dmg[b][p] + DamagedEffect(o, b, p)' - DamagedEffect(o, b, p)
      <3>1. CASE b = body[o].branch
        <4>1. /\ qoh'[b][p] = qoh[b][p] + body[o].usable[p]
              /\ dmg'[b][p] = dmg[b][p] - DamagedChange(body[o], p)
          BY <1>3, <3>1 DEF Reverses
        <4>2. /\ body[o].usable[p] \in Int /\ DamagedChange(body[o], p) \in Int
              /\ UsableEffect(o, b, p) = -body[o].usable[p]
              /\ DamagedEffect(o, b, p) = DamagedChange(body[o], p)
          BY <1>2, <2>0, <3>1
        <4> HIDE <1>2
        <4> QED BY <1>0, <2>1, <4>1, <4>2
      <3>2. CASE b # body[o].branch
        <4>1. qoh'[b][p] = qoh[b][p] /\ dmg'[b][p] = dmg[b][p]
          BY <1>3, <3>2 DEF Reverses
        <4>2. UsableEffect(o, b, p) = 0 /\ DamagedEffect(o, b, p) = 0
          BY <1>2, <2>0, <3>2
        <4> QED BY <1>0, <2>1, <4>1, <4>2
      <3> QED BY <3>1, <3>2
    <2> QED BY <1>2, <2>0, <2>2, EffectElsewhere DEF EffectStep
  <1>4. ASSUME NEW o \in Ops, Receives(o) PROVE EffectStep(b, p)
    <2>0. Closes(o, "RECEIVED")
      BY <1>4 DEF Receives
    <2>1. /\ UsableEffect(o, b, p)' =
                UsableEffect(o, b, p) + (IF b = body[o].dest THEN ReceivedQty(body[o], p) ELSE 0)
          /\ DamagedEffect(o, b, p)' = DamagedEffect(o, b, p)
      <3>1. /\ UsableEffect(o, b, p)' =
                  (IF body[o].branch = b THEN UsableChange(body[o], p) ELSE 0)
                  + (IF body[o].dest = b THEN ReceivedQty(body[o], p) ELSE 0)
            /\ DamagedEffect(o, b, p)' =
                  IF body[o].branch = b THEN DamagedChange(body[o], p) ELSE 0
        BY <1>2, <2>0
           DEF UsableEffect, DamagedEffect, Open, UsableChange, DamagedChange, ReceivedQty
      <3> QED BY <1>2, <2>0, <3>1
    <2>2. /\ UsableEffect(o, b, p) \in Int /\ DamagedEffect(o, b, p) \in Int
          /\ ReceivedQty(body[o], p) \in Int
      BY <1>0, <1>2, <2>0, EffectsTyped
    <2>3. /\ dmg'[b][p] = dmg[b][p]
          /\ b # body[o].dest => qoh'[b][p] = qoh[b][p]
          /\ b = body[o].dest => qoh'[b][p] = qoh[b][p] + ReceivedQty(body[o], p)
      BY <1>4 DEF Receives
    <2>4. /\ qoh'[b][p] = qoh[b][p] + UsableEffect(o, b, p)' - UsableEffect(o, b, p)
          /\ dmg'[b][p] = dmg[b][p] + DamagedEffect(o, b, p)' - DamagedEffect(o, b, p)
      BY <1>0, <2>1, <2>2, <2>3
    <2> QED BY <1>2, <2>0, <2>4, EffectElsewhere DEF EffectStep
  <1>5. CASE UNCHANGED Written
    <2>1. \A x \in Ops : status'[x] = status[x] /\ body'[x] = body[x]
      BY <1>5 DEF Written
    <2> QED BY <1>5, <2>1, EffectElsewhere DEF EffectStep, Written
  <1> QED BY <1>1, <1>3, <1>4, <1>5, ApartStep

(* A sum over the operations moves as the one operation that changed.      *)
LEMMA SumMoves ==
    ASSUME NEW f \in [Ops -> Int], NEW g \in [Ops -> Int]
    PROVE  /\ SumFunctionOnSet(f, Ops) \in Int
           /\ (\A x \in Ops : g[x] = f[x]) => SumFunctionOnSet(g, Ops) = SumFunctionOnSet(f, Ops)
           /\ \A o \in Ops : (\A x \in Ops \ {o} : g[x] = f[x]) =>
                  SumFunctionOnSet(g, Ops) = SumFunctionOnSet(f, Ops) + g[o] - f[o]
  <1>1. IsFiniteSet(Ops)
    BY ConstantsAssumption
  <1>2. SumFunctionOnSet(f, Ops) \in Int
    BY <1>1, SumType
  <1>3. (\A x \in Ops : g[x] = f[x]) => SumFunctionOnSet(g, Ops) = SumFunctionOnSet(f, Ops)
    BY <1>1, SumSame
  <1>4. ASSUME NEW o \in Ops, \A x \in Ops \ {o} : g[x] = f[x]
        PROVE  SumFunctionOnSet(g, Ops) = SumFunctionOnSet(f, Ops) + g[o] - f[o]
    BY <1>1, <1>4, SumChange
  <1> QED BY <1>2, <1>3, <1>4

LEMMA NoEffect ==
    ASSUME NEW f \in [Ops -> Int], \A x \in Ops : f[x] = 0
    PROVE  SumFunctionOnSet(f, Ops) = 0
  <1> DEFINE B == {u \in SUBSET Ops : SumFunctionOnSet(f, u) # 0}
  <1>0. IsFiniteSet(Ops)
    BY ConstantsAssumption
  <1> SUFFICES ASSUME B # {} PROVE FALSE
    OBVIOUS
  <1>1. PICK t \in B : \A u \in B : ~(u \subseteq t /\ u # t)
    <2>1. B \subseteq SUBSET Ops
      OBVIOUS
    <2> HIDE DEF B
    <2> QED BY <1>0, <2>1, MinimalSubset
  <1>2. IsFiniteSet(t) /\ t \subseteq Ops
    BY <1>0, <1>1, FS_Subset
  <1>3. t # {}
    BY <1>1, SumEmpty
  <1>4. Pick(t) \in t /\ SumFunctionOnSet(f, t) = f[Pick(t)] + SumFunctionOnSet(f, t \ {Pick(t)})
    BY <1>2, <1>3, SumStep
  <1>5. SumFunctionOnSet(f, t \ {Pick(t)}) = 0
    BY <1>1, <1>2, <1>4
  <1> QED BY <1>1, <1>2, <1>4, <1>5

(* Both pools of every branch are the opening balance plus what the        *)
(* operations have drawn, given back and delivered, for any number of      *)
(* operations and requests in flight, as long as no request overtakes a    *)
(* reversal and nothing cancelled is received: the transactions repeat     *)
(* only part of their pre-checks.                                          *)
THEOREM StockIsOperations == Spec /\ []Apart => []StockFollowsOperations
  <1>1. Init => StockFollowsOperations
    <2> SUFFICES ASSUME Init, NEW b \in Branches, NEW p \in Products
                 PROVE  /\ qoh[b][p] = StockAtStart[b][p]
                              + SumFunctionOnSet([o \in Ops |-> UsableEffect(o, b, p)], Ops)
                        /\ dmg[b][p] = DamagedAtStart[b][p]
                              + SumFunctionOnSet([o \in Ops |-> DamagedEffect(o, b, p)], Ops)
      BY DEF StockFollowsOperations
    <2> DEFINE f == [o \in Ops |-> UsableEffect(o, b, p)]
               g == [o \in Ops |-> DamagedEffect(o, b, p)]
    <2>1. f \in [Ops -> Int] /\ g \in [Ops -> Int] /\ \A o \in Ops : f[o] = 0 /\ g[o] = 0
      BY DEF Init, UsableEffect, DamagedEffect, Open
    <2>2. /\ StockAtStart[b][p] \in Nat /\ DamagedAtStart[b][p] \in Nat
          /\ qoh[b][p] = StockAtStart[b][p] /\ dmg[b][p] = DamagedAtStart[b][p]
      BY ConstantsAssumption DEF Init
    <2> HIDE DEF f, g
    <2>3. SumFunctionOnSet(f, Ops) = 0 /\ SumFunctionOnSet(g, Ops) = 0
      BY <2>1, NoEffect
    <2> QED BY <2>2, <2>3 DEF f, g
  <1>2. CustodyInv /\ CustodyInv' /\ InOrder /\ Apart /\ StockFollowsOperations /\ [Next]_vars
            => StockFollowsOperations'
    <2> SUFFICES ASSUME CustodyInv, CustodyInv', InOrder, Apart, StockFollowsOperations, [Next]_vars,
                        NEW b \in Branches, NEW p \in Products
                 PROVE  /\ qoh'[b][p] = StockAtStart[b][p]
                              + SumFunctionOnSet([o \in Ops |-> UsableEffect(o, b, p)'], Ops)
                        /\ dmg'[b][p] = DamagedAtStart[b][p]
                              + SumFunctionOnSet([o \in Ops |-> DamagedEffect(o, b, p)'], Ops)
      BY DEF StockFollowsOperations
    <2> DEFINE f == [o \in Ops |-> UsableEffect(o, b, p)]
               g == [o \in Ops |-> DamagedEffect(o, b, p)]
               fn == [o \in Ops |-> UsableEffect(o, b, p)']
               gn == [o \in Ops |-> DamagedEffect(o, b, p)']
    <2>1. f \in [Ops -> Int] /\ g \in [Ops -> Int]
      BY EffectsTyped DEF CustodyInv
    <2>2. \A o \in Ops : UsableEffect(o, b, p)' \in Int /\ DamagedEffect(o, b, p)' \in Int
      BY EffectsTypedAfter DEF EffectsAreNumbers
    <2>3. fn \in [Ops -> Int] /\ gn \in [Ops -> Int]
      BY <2>2
    <2>4. /\ qoh[b][p] = StockAtStart[b][p] + SumFunctionOnSet(f, Ops)
          /\ dmg[b][p] = DamagedAtStart[b][p] + SumFunctionOnSet(g, Ops)
      BY DEF StockFollowsOperations
    <2>5. StockAtStart[b][p] \in Int /\ DamagedAtStart[b][p] \in Int
      BY ConstantsAssumption
    <2>6. \A o \in Ops : /\ f[o] = UsableEffect(o, b, p) /\ fn[o] = UsableEffect(o, b, p)'
                         /\ g[o] = DamagedEffect(o, b, p) /\ gn[o] = DamagedEffect(o, b, p)'
      OBVIOUS
    <2> HIDE DEF f, g, fn, gn
    <2>7. EffectStep(b, p)
      BY EveryEffectStep
    <2>8. /\ SumFunctionOnSet(f, Ops) \in Int /\ SumFunctionOnSet(g, Ops) \in Int
          /\ (\A x \in Ops : fn[x] = f[x]) => SumFunctionOnSet(fn, Ops) = SumFunctionOnSet(f, Ops)
          /\ (\A x \in Ops : gn[x] = g[x]) => SumFunctionOnSet(gn, Ops) = SumFunctionOnSet(g, Ops)
          /\ \A o \in Ops : (\A x \in Ops \ {o} : fn[x] = f[x]) =>
                 SumFunctionOnSet(fn, Ops) = SumFunctionOnSet(f, Ops) + fn[o] - f[o]
          /\ \A o \in Ops : (\A x \in Ops \ {o} : gn[x] = g[x]) =>
                 SumFunctionOnSet(gn, Ops) = SumFunctionOnSet(g, Ops) + gn[o] - g[o]
      BY <2>1, <2>3, SumMoves
    <2>9. CASE /\ qoh'[b][p] = qoh[b][p] /\ dmg'[b][p] = dmg[b][p]
               /\ \A x \in Ops : fn[x] = f[x] /\ gn[x] = g[x]
      BY <2>4, <2>8, <2>9 DEF fn, gn
    <2>10. ASSUME NEW o \in Ops,
                  qoh'[b][p] = qoh[b][p] + fn[o] - f[o], dmg'[b][p] = dmg[b][p] + gn[o] - g[o],
                  \A x \in Ops \ {o} : fn[x] = f[x] /\ gn[x] = g[x]
           PROVE  /\ qoh'[b][p] = StockAtStart[b][p] + SumFunctionOnSet(fn, Ops)
                  /\ dmg'[b][p] = DamagedAtStart[b][p] + SumFunctionOnSet(gn, Ops)
      <3>1. /\ SumFunctionOnSet(fn, Ops) = SumFunctionOnSet(f, Ops) + fn[o] - f[o]
            /\ SumFunctionOnSet(gn, Ops) = SumFunctionOnSet(g, Ops) + gn[o] - g[o]
            /\ SumFunctionOnSet(f, Ops) \in Int /\ SumFunctionOnSet(g, Ops) \in Int
        BY <2>8, <2>10
      <3>2. f[o] \in Int /\ fn[o] \in Int /\ g[o] \in Int /\ gn[o] \in Int
        BY <2>1, <2>3
      <3> QED BY <2>4, <2>5, <2>10, <3>1, <3>2
    <2> QED BY <2>6, <2>7, <2>9, <2>10 DEF EffectStep, fn, gn
  <1> QED BY <1>1, <1>2, InOrderAlways, CustodyInvariant, PTL DEF Spec

-----------------------------------------------------------------------------
(* The journals follow the operations. *)

(* A valued operation has one journal, one contra exactly when it is       *)
(* cancelled and one receipt exactly when it is received, for any number   *)
(* of operations, as long as requests keep apart.                          *)
THEOREM BooksFollowOperations == Spec /\ []Apart => []JournalsFollowOperations
  <1>1. Init => JournalsFollowOperations
    BY DEF Init, JournalsFollowOperations, Posted
  <1>2. CustodyInv /\ InOrder /\ Apart /\ JournalsFollowOperations /\ [Next]_vars
            => JournalsFollowOperations'
    <2> SUFFICES ASSUME CustodyInv, InOrder, Apart, JournalsFollowOperations, [Next]_vars
                 PROVE  JournalsFollowOperations'
      OBVIOUS
    <2> DEFINE Row(st, r) ==
                   IF st # "NONE" /\ MovesValue(r)
                   THEN [post    |-> 1,
                         contra  |-> IF st = "CANCELLED" THEN 1 ELSE 0,
                         receipt |-> IF st = "RECEIVED" THEN 1 ELSE 0]
                   ELSE [post |-> 0, contra |-> 0, receipt |-> 0]
    <2>0. TypeOK /\ \A x \in Ops : journal[x] = Row(status[x], body[x])
      BY DEF CustodyInv, JournalsFollowOperations, Posted
    <2>1. (\A x \in Ops : journal'[x] = Row(status'[x], body'[x])) => JournalsFollowOperations'
      BY DEF JournalsFollowOperations, Posted, MovesValue, UsableChange
    <2>2. ASSUME NEW o \in Ops, \A x \in Ops \ {o} : /\ status'[x] = status[x] /\ body'[x] = body[x]
                                                     /\ journal'[x] = journal[x],
                 journal'[o] = Row(status'[o], body'[o])
          PROVE  JournalsFollowOperations'
      <3> HIDE DEF Row
      <3> QED BY <2>0, <2>1, <2>2
    <2>3. ASSUME NEW o \in Ops, NEW r \in Requests, Posts(o, r) PROVE JournalsFollowOperations'
      <3>1. /\ \A x \in Ops \ {o} : /\ status'[x] = status[x] /\ body'[x] = body[x]
                                    /\ journal'[x] = journal[x]
            /\ status[o] = "NONE" /\ status'[o] \in {"LOGGED", "DISPATCHED"} /\ body'[o] = r
        BY <2>0, <2>3 DEF Posts, TypeOK, postStockValueJournal
      <3>2. journal[o] = [post |-> 0, contra |-> 0, receipt |-> 0]
        BY <2>0, <3>1
      <3>3. journal'[o] = IF MovesValue(r) THEN [journal[o] EXCEPT !.post = @ + 1] ELSE journal[o]
        BY <2>0, <2>3 DEF Posts, TypeOK, postStockValueJournal
      <3>4. journal'[o] = Row(status'[o], body'[o])
        BY <3>1, <3>2, <3>3
      <3> QED BY <2>2, <3>1, <3>4
    <2>4. ASSUME NEW o \in Ops, NEW st, Closes(o, st)
          PROVE  /\ \A x \in Ops \ {o} : status'[x] = status[x] /\ body'[x] = body[x]
                 /\ status'[o] = st /\ body'[o] = body[o]
                 /\ journal[o] = [post |-> IF MovesValue(body[o]) THEN 1 ELSE 0,
                                  contra |-> 0, receipt |-> 0]
      <3>1. status[o] \in {"LOGGED", "DISPATCHED"}
        BY <2>4 DEF Closes, Holding
      <3> QED BY <2>0, <2>4, <3>1 DEF Closes, TypeOK
    <2>5. ASSUME NEW o \in Ops, Reverses(o) PROVE JournalsFollowOperations'
      <3>1. Closes(o, "CANCELLED") /\ journal' = reverseStockOperationJournal(o)
        BY <2>5 DEF Reverses
      <3>2. /\ \A x \in Ops \ {o} : journal'[x] = journal[x]
            /\ journal'[o] = IF journal[o].post > 0 THEN [journal[o] EXCEPT !.contra = @ + 1]
                                                    ELSE journal[o]
        BY <2>0, <3>1 DEF TypeOK, reverseStockOperationJournal
      <3>3. /\ status'[o] = "CANCELLED" /\ body'[o] = body[o]
            /\ journal[o] = [post |-> IF MovesValue(body[o]) THEN 1 ELSE 0,
                             contra |-> 0, receipt |-> 0]
        BY <2>4, <3>1
      <3>4. journal'[o] = Row(status'[o], body'[o])
        BY <3>2, <3>3
      <3> QED BY <2>2, <2>4, <3>1, <3>2, <3>4
    <2>6. ASSUME NEW o \in Ops, Receives(o) PROVE JournalsFollowOperations'
      <3>1. /\ Closes(o, "RECEIVED")
            /\ journal' = IF MovesValue(body[o]) THEN [journal EXCEPT ![o].receipt = @ + 1]
                                                 ELSE journal
        BY <2>6 DEF Receives
      <3>2. /\ \A x \in Ops \ {o} : journal'[x] = journal[x]
            /\ journal'[o] = IF MovesValue(body[o]) THEN [journal[o] EXCEPT !.receipt = @ + 1]
                                                    ELSE journal[o]
        BY <2>0, <3>1 DEF TypeOK
      <3>3. /\ status'[o] = "RECEIVED" /\ body'[o] = body[o]
            /\ journal[o] = [post |-> IF MovesValue(body[o]) THEN 1 ELSE 0,
                             contra |-> 0, receipt |-> 0]
        BY <2>4, <3>1
      <3>4. journal'[o] = Row(status'[o], body'[o])
        BY <3>2, <3>3
      <3> QED BY <2>2, <2>4, <3>1, <3>2, <3>4
    <2>7. CASE UNCHANGED Written
      BY <2>0, <2>1, <2>7 DEF Written
    <2> QED BY <2>3, <2>5, <2>6, <2>7, ApartStep
  <1> QED BY <1>1, <1>2, InOrderAlways, CustodyInvariant, PTL DEF Spec

-----------------------------------------------------------------------------
(* The movement ledger explains the stock. *)

UsableRows(b, p) ==
    {row \in ledger : row.branch = b /\ row.product = p /\ row.pool = "USABLE"}

(* A row's id tells the operation it stands for, and how far that is. *)
RowsNamed ==
    \A row \in ledger :
        \/ \E o \in Ops : row.id = <<o, "post", row.product>> /\ status[o] # "NONE"
        \/ \E o \in Ops : row.id = <<o, "rev", row.product>> /\ status[o] = "CANCELLED"
        \/ /\ row.id = <<NoOp, "recv", row.product>>
           /\ \E o \in Ops : status[o] = "RECEIVED" /\ ReceivedQty(body[o], row.product) # 0

RowsFinite == \A b \in Branches, p \in Products : IsFiniteSet(UsableRows(b, p))

(* Either no row of the branch and product was added and its stock stayed, *)
(* or one was, and it carries the change.                                  *)
RowStep(b, p) ==
    \/ UsableRows(b, p)' = UsableRows(b, p) /\ qoh'[b][p] = qoh[b][p]
    \/ \E e : /\ e \in ledger' \ ledger /\ e.change \in Int
              /\ UsableRows(b, p)' = UsableRows(b, p) \cup {e}
              /\ qoh'[b][p] = qoh[b][p] + e.change

LEMMA RowsAdd ==
    ASSUME TypeOK, RowsFinite, LedgerExplainsStock, ledger \subseteq ledger',
           NEW b \in Branches, NEW p \in Products, RowStep(b, p)
    PROVE  /\ IsFiniteSet(UsableRows(b, p)')
           /\ qoh'[b][p] = StockAtStart[b][p]
                           + SumFunctionOnSet([row \in ledger' |-> row.change], UsableRows(b, p)')
  <1> DEFINE f == [row \in ledger |-> row.change]
             g == [row \in ledger' |-> row.change]
             S == UsableRows(b, p)
  <1>1. /\ IsFiniteSet(S) /\ S \subseteq ledger
        /\ qoh[b][p] = StockAtStart[b][p] + SumFunctionOnSet(f, S)
    BY DEF RowsFinite, LedgerExplainsStock, LedgerSum, UsableRows
  <1>2. \A x \in S : f[x] = g[x] /\ f[x] \in Int
    BY <1>1 DEF TypeOK, Rows
  <1>3. StockAtStart[b][p] \in Int
    BY ConstantsAssumption
  <1>4. CASE UsableRows(b, p)' = S /\ qoh'[b][p] = qoh[b][p]
    <2> HIDE DEF f, g, S
    <2>1. SumFunctionOnSet(g, S) = SumFunctionOnSet(f, S)
      BY <1>1, <1>2, SumSame
    <2> QED BY <1>1, <1>4, <2>1 DEF g
  <1>5. ASSUME NEW e, e \in ledger' \ ledger, e.change \in Int,
               UsableRows(b, p)' = S \cup {e}, qoh'[b][p] = qoh[b][p] + e.change
        PROVE  /\ IsFiniteSet(UsableRows(b, p)')
               /\ qoh'[b][p] = StockAtStart[b][p] + SumFunctionOnSet(g, UsableRows(b, p)')
    <2>1. g[e] = e.change /\ e \notin S
      BY <1>1, <1>5
    <2> HIDE DEF f, g, S
    <2>2. SumFunctionOnSet(g, S) = SumFunctionOnSet(f, S) /\ SumFunctionOnSet(f, S) \in Int
      BY <1>1, <1>2, SumSame, SumType
    <2>3. SumFunctionOnSet(g, S \cup {e}) = SumFunctionOnSet(g, S) + g[e] /\ IsFiniteSet(S \cup {e})
      <3>1. \A x \in S : g[x] \in Int
        BY <1>2
      <3>2. g[e] \in Int
        BY <1>5, <2>1
      <3> QED BY <1>1, <2>1, <3>1, <3>2, SumAdd, FS_AddElement
    <2>4. qoh'[b][p] = (StockAtStart[b][p] + SumFunctionOnSet(f, S)) + e.change
      BY <1>1, <1>5
    <2> QED BY <1>3, <1>5, <2>1, <2>2, <2>3, <2>4
  <1> HIDE DEF f, g
  <1>6. /\ IsFiniteSet(UsableRows(b, p)')
        /\ qoh'[b][p] = StockAtStart[b][p] + SumFunctionOnSet(g, UsableRows(b, p)')
    BY <1>1, <1>4, <1>5 DEF RowStep, g
  <1> QED BY <1>6 DEF g

(* Rows with fresh ids are all inserted; at most one of them is for a      *)
(* given branch, product and pool.                                         *)
LEMMA InsertOne ==
    ASSUME NEW R, \A row \in R : \A old \in ledger : old.id # row.id,
           ledger' = insertLedger(R), NEW b \in Branches, NEW p \in Products, NEW n \in Int,
           NEW e, e.branch = b /\ e.product = p /\ e.pool = "USABLE" /\ e.change = n,
           n # 0 => e \in R,
           \A row \in R : row.branch = b /\ row.product = p /\ row.pool = "USABLE" =>
               n # 0 /\ row = e,
           qoh[b][p] \in Int, qoh'[b][p] = qoh[b][p] + n
    PROVE  RowStep(b, p)
  <1>1. ledger' = ledger \cup R /\ \A row \in R : row \notin ledger
    BY DEF insertLedger
  <1>2. CASE n = 0
    BY <1>1, <1>2 DEF RowStep, UsableRows
  <1>3. CASE n # 0
    <2>1. e \in ledger' \ ledger
      BY <1>1, <1>3
    <2>2. UsableRows(b, p)' = UsableRows(b, p) \cup {e}
      BY <1>1, <1>3 DEF UsableRows
    <2> QED BY <2>1, <2>2 DEF RowStep
  <1> QED BY <1>2, <1>3

LEMMA InsertNone ==
    ASSUME NEW R, \A row \in R : \A old \in ledger : old.id # row.id,
           ledger' = insertLedger(R), NEW b \in Branches, NEW p \in Products,
           \A row \in R : ~(row.branch = b /\ row.product = p /\ row.pool = "USABLE"),
           qoh'[b][p] = qoh[b][p]
    PROVE  RowStep(b, p)
  <1>1. ledger' = ledger \cup R
    BY DEF insertLedger
  <1> QED BY <1>1 DEF RowStep, UsableRows

(* The rows of each kind of step have fresh ids. *)
FreshRows(R) == \A row \in R : \A old \in ledger : old.id # row.id

LEMMA PostRows ==
    ASSUME CustodyInv, RowsNamed, NEW o \in Ops, NEW r \in Requests, Posts(o, r),
           NEW b \in Branches, NEW p \in Products
    PROVE  FreshRows(operationTransactions(o, r)) /\ RowStep(b, p)
  <1> DEFINE R == operationTransactions(o, r)
             n == IF b = r.branch THEN UsableChange(r, p) ELSE 0
             e == [id |-> <<o, "post", p>>, branch |-> b, product |-> p,
                   pool |-> "USABLE", change |-> n]
  <1>1. \A row \in R : row.id = <<o, "post", row.product>> /\ row.branch = r.branch
    BY DEF operationTransactions
  <1>2. FreshRows(R)
    <2>1. \A row \in ledger : row.id # <<o, "post", row.product>>
      BY DEF RowsNamed, Posts
    <2>2. ASSUME NEW row \in R, NEW old \in ledger, old.id = row.id PROVE FALSE
      <3>1. row.id = <<o, "post", row.product>>
        BY <1>1
      <3>2. \/ \E x \in Ops : old.id = <<x, "post", old.product>>
            \/ \E x \in Ops : old.id = <<x, "rev", old.product>>
            \/ old.id = <<NoOp, "recv", old.product>>
        BY DEF RowsNamed
      <3>3. old.product = row.product
        BY <2>2, <3>1, <3>2
      <3> QED BY <2>1, <2>2, <3>1, <3>3
    <2> QED BY <2>2 DEF FreshRows
  <1>3. UsableChange(r, p) \in Int /\ qoh[b][p] \in Int
    BY RequestFields DEF UsableChange, CustodyInv, TypeOK
  <1>4. r.type = "DISPOSAL" => UsableChange(r, p) = 0
    BY RequestsAssumption, RequestFields DEF WellFormed, UsableChange
  <1>5. qoh'[b][p] = qoh[b][p] + n /\ n \in Int
    BY <1>3 DEF Posts
  <1>6. n # 0 => e \in R
    BY <1>4 DEF operationTransactions
  <1>7. \A row \in R : row.branch = b /\ row.product = p /\ row.pool = "USABLE" => n # 0 /\ row = e
    BY <1>3 DEF operationTransactions
  <1>8. e.branch = b /\ e.product = p /\ e.pool = "USABLE" /\ e.change = n
    OBVIOUS
  <1>9. ledger' = insertLedger(R) /\ \A row \in R : \A old \in ledger : old.id # row.id
    BY <1>2 DEF Posts, FreshRows
  <1> HIDE DEF R, n, e
  <1>10. RowStep(b, p)
    BY <1>3, <1>5, <1>6, <1>7, <1>8, <1>9, InsertOne
  <1> QED BY <1>2, <1>10 DEF R

LEMMA ReversalRows ==
    ASSUME CustodyInv, RowsNamed, NEW o \in Ops, Reverses(o),
           NEW b \in Branches, NEW p \in Products
    PROVE  FreshRows(reversalLedger(o)) /\ RowStep(b, p)
  <1> DEFINE R == reversalLedger(o)
             n == IF b = body[o].branch THEN body[o].usable[p] ELSE 0
             e == [id |-> <<o, "rev", p>>, branch |-> b, product |-> p,
                   pool |-> "USABLE", change |-> n]
  <1>1. \A row \in R : row.id = <<o, "rev", row.product>>
    BY DEF reversalLedger
  <1>2. FreshRows(R)
    <2>1. status[o] # "CANCELLED"
      BY DEF Reverses, Closes, Holding
    <2>2. ASSUME NEW row \in R, NEW old \in ledger, old.id = row.id PROVE FALSE
      <3>1. row.id = <<o, "rev", row.product>>
        BY <1>1
      <3>2. \/ \E x \in Ops : old.id = <<x, "post", old.product>>
            \/ \E x \in Ops : old.id = <<x, "rev", old.product>> /\ status[x] = "CANCELLED"
            \/ old.id = <<NoOp, "recv", old.product>>
        BY DEF RowsNamed
      <3> QED BY <2>1, <2>2, <3>1, <3>2
    <2> QED BY <2>2 DEF FreshRows
  <1>3. body[o].usable[p] \in Int /\ qoh[b][p] \in Int
    BY RequestFields DEF CustodyInv, TypeOK, Reverses, Closes
  <1>5. qoh'[b][p] = qoh[b][p] + n /\ n \in Int
    BY <1>3 DEF Reverses
  <1>6. n # 0 => e \in R
    BY DEF reversalLedger
  <1>7. \A row \in R : row.branch = b /\ row.product = p /\ row.pool = "USABLE" => n # 0 /\ row = e
    BY <1>3 DEF reversalLedger
  <1>8. e.branch = b /\ e.product = p /\ e.pool = "USABLE" /\ e.change = n
    OBVIOUS
  <1>9. ledger' = insertLedger(R) /\ \A row \in R : \A old \in ledger : old.id # row.id
    BY <1>2 DEF Reverses, FreshRows
  <1> HIDE DEF R, n, e
  <1>10. RowStep(b, p)
    BY <1>3, <1>5, <1>6, <1>7, <1>8, <1>9, InsertOne
  <1> QED BY <1>2, <1>10 DEF R

LEMMA ReceiptRows ==
    ASSUME CustodyInv, RowsNamed, OneReceiptLinePerProduct', NEW o \in Ops, Receives(o),
           NEW b \in Branches, NEW p \in Products
    PROVE  RowStep(b, p)
  <1>0. PICK df : ledger' = insertLedger(buildReceiveTxn(o, df))
    BY DEF Receives
  <1> DEFINE R == buildReceiveTxn(o, df)
             n == IF b = body[o].dest THEN ReceivedQty(body[o], p) ELSE 0
             e == [id |-> <<NoOp, "recv", p>>, branch |-> b, product |-> p,
                   pool |-> "USABLE", change |-> n]
  <1>1. \A row \in R : /\ row.id = <<NoOp, "recv", row.product>> /\ row.product \in Products
                       /\ ReceivedQty(body[o], row.product) # 0
    BY DEF buildReceiveTxn
  <1>2. FreshRows(R)
    <2>1. /\ status'[o] = "RECEIVED" /\ status[o] # "RECEIVED" /\ body' = body
          /\ \A x \in Ops : status[x] = "RECEIVED" => status'[x] = "RECEIVED"
      BY DEF Receives, Closes, Holding, CustodyInv, TypeOK
    <2>2. ASSUME NEW row \in R, NEW old \in ledger, old.id = row.id PROVE FALSE
      <3>1. row.id = <<NoOp, "recv", row.product>>
        BY <1>1
      <3>2. \/ \E x \in Ops : old.id = <<x, "post", old.product>>
            \/ \E x \in Ops : old.id = <<x, "rev", old.product>>
            \/ /\ old.id = <<NoOp, "recv", old.product>>
               /\ \E x \in Ops : status[x] = "RECEIVED" /\ ReceivedQty(body[x], old.product) # 0
        BY DEF RowsNamed
      <3>3. /\ old.product = row.product
            /\ \E x \in Ops : status[x] = "RECEIVED" /\ ReceivedQty(body[x], row.product) # 0
        BY <2>2, <3>1, <3>2
      <3> QED BY <1>1, <2>1, <3>3 DEF OneReceiptLinePerProduct
    <2> QED BY <2>2 DEF FreshRows
  <1>3. ReceivedQty(body[o], p) \in Int /\ qoh[b][p] \in Int
    BY RequestFields DEF CustodyInv, TypeOK, Receives, Closes, ReceivedQty
  <1>5. qoh'[b][p] = qoh[b][p] + n /\ n \in Int
    BY <1>3 DEF Receives
  <1>4. FirstLine(body[o], p, df) = ReceivedQty(body[o], p)
    <2>1. body[o].usable[p] = 0 \/ body[o].damaged[p] = 0
      BY DEF OneReceiptLinePerProduct, Receives, Closes, CustodyInv, TypeOK
    <2>2. body[o].usable[p] \in Nat /\ body[o].damaged[p] \in Nat
      BY RequestFields DEF CustodyInv, TypeOK, Receives, Closes
    <2> QED BY <2>1, <2>2 DEF FirstLine, ReceivedQty
  <1>6. n # 0 => e \in R
    BY <1>4 DEF buildReceiveTxn
  <1>7. \A row \in R : row.branch = b /\ row.product = p /\ row.pool = "USABLE" => n # 0 /\ row = e
    BY <1>3, <1>4 DEF buildReceiveTxn
  <1>8. e.branch = b /\ e.product = p /\ e.pool = "USABLE" /\ e.change = n
    OBVIOUS
  <1>9. ledger' = insertLedger(R) /\ \A row \in R : \A old \in ledger : old.id # row.id
    BY <1>0, <1>2 DEF FreshRows
  <1> HIDE DEF R, n, e
  <1> QED BY <1>3, <1>5, <1>6, <1>7, <1>8, <1>9, InsertOne

LEMMA RowsNamedKept ==
    ASSUME CustodyInv, InOrder, Apart, RowsNamed, [Next]_vars
    PROVE  RowsNamed' /\ ledger \subseteq ledger'
  <1>0. TypeOK
    BY DEF CustodyInv
  <1>1. ASSUME NEW R, ledger' = insertLedger(R),
               \A row \in R : \/ \E o \in Ops : /\ row.id = <<o, "post", row.product>>
                                                /\ status'[o] # "NONE"
                              \/ \E o \in Ops : /\ row.id = <<o, "rev", row.product>>
                                                /\ status'[o] = "CANCELLED"
                              \/ /\ row.id = <<NoOp, "recv", row.product>>
                                 /\ \E o \in Ops : /\ status'[o] = "RECEIVED"
                                                   /\ ReceivedQty(body'[o], row.product) # 0,
               \A o \in Ops : /\ status[o] # "NONE" => status'[o] # "NONE" /\ body'[o] = body[o]
                              /\ status[o] \in {"CANCELLED", "RECEIVED"} => status'[o] = status[o]
        PROVE  RowsNamed' /\ ledger \subseteq ledger'
    <2>1. ledger \subseteq ledger' /\ ledger' \subseteq ledger \cup R
      BY <1>1 DEF insertLedger
    <2>2. ASSUME NEW row \in ledger
          PROVE  \/ \E o \in Ops : row.id = <<o, "post", row.product>> /\ status'[o] # "NONE"
                 \/ \E o \in Ops : row.id = <<o, "rev", row.product>> /\ status'[o] = "CANCELLED"
                 \/ /\ row.id = <<NoOp, "recv", row.product>>
                    /\ \E o \in Ops : status'[o] = "RECEIVED" /\ ReceivedQty(body'[o], row.product) # 0
      <3>1. \/ \E o \in Ops : row.id = <<o, "post", row.product>> /\ status[o] # "NONE"
            \/ \E o \in Ops : row.id = <<o, "rev", row.product>> /\ status[o] = "CANCELLED"
            \/ /\ row.id = <<NoOp, "recv", row.product>>
               /\ \E o \in Ops : status[o] = "RECEIVED" /\ ReceivedQty(body[o], row.product) # 0
        BY DEF RowsNamed
      <3>2. \A o \in Ops : status[o] = "RECEIVED" => status'[o] = "RECEIVED" /\ body'[o] = body[o]
        BY <1>1
      <3> QED BY <1>1, <3>1, <3>2
    <2>3. RowsNamed'
      BY <1>1, <2>1, <2>2 DEF RowsNamed, ReceivedQty
    <2> QED BY <2>1, <2>3
  <1>2. ASSUME NEW o \in Ops, NEW r \in Requests, Posts(o, r)
        PROVE  RowsNamed' /\ ledger \subseteq ledger'
    <2>1. /\ status'[o] # "NONE" /\ status[o] = "NONE"
          /\ \A x \in Ops \ {o} : status'[x] = status[x] /\ body'[x] = body[x]
      BY <1>0, <1>2 DEF Posts, TypeOK
    <2>2. \A row \in operationTransactions(o, r) : row.id = <<o, "post", row.product>>
      BY DEF operationTransactions
    <2>3. ledger' = insertLedger(operationTransactions(o, r))
      BY <1>2 DEF Posts
    <2> QED BY <1>1, <2>1, <2>2, <2>3
  <1>3. ASSUME NEW o \in Ops, NEW st, Closes(o, st), st # "NONE"
        PROVE  /\ status'[o] = st /\ body' = body
               /\ \A x \in Ops :
                     /\ status[x] # "NONE" => status'[x] # "NONE" /\ body'[x] = body[x]
                     /\ status[x] \in {"CANCELLED", "RECEIVED"} => status'[x] = status[x]
    BY <1>0, <1>3 DEF Closes, Holding, TypeOK
  <1>4. ASSUME NEW o \in Ops, Reverses(o) PROVE RowsNamed' /\ ledger \subseteq ledger'
    <2>1. Closes(o, "CANCELLED") /\ ledger' = insertLedger(reversalLedger(o))
      BY <1>4 DEF Reverses
    <2>2. \A row \in reversalLedger(o) : row.id = <<o, "rev", row.product>>
      BY DEF reversalLedger
    <2> QED BY <1>1, <1>3, <2>1, <2>2
  <1>5. ASSUME NEW o \in Ops, Receives(o) PROVE RowsNamed' /\ ledger \subseteq ledger'
    <2>1. PICK df : Closes(o, "RECEIVED") /\ ledger' = insertLedger(buildReceiveTxn(o, df))
      BY <1>5 DEF Receives
    <2>2. \A row \in buildReceiveTxn(o, df) : /\ row.id = <<NoOp, "recv", row.product>>
                                              /\ ReceivedQty(body[o], row.product) # 0
      BY DEF buildReceiveTxn
    <2>3. status'[o] = "RECEIVED" /\ body' = body
      BY <1>3, <2>1
    <2> QED BY <1>1, <1>3, <2>1, <2>2, <2>3
  <1>6. CASE UNCHANGED Written
    BY <1>6 DEF Written, RowsNamed, ReceivedQty
  <1> QED BY <1>2, <1>4, <1>5, <1>6, ApartStep

(* The movement rows explain the usable pool of every branch, for any      *)
(* number of operations, as long as requests keep apart and no product is  *)
(* received on two lines, of one receipt or of two (the id of a receipt    *)
(* row names neither the operation nor the line).                          *)
THEOREM RowsExplainStock ==
    Spec /\ []Apart /\ []OneReceiptLinePerProduct => []LedgerExplainsStock
  <1> DEFINE Inv == RowsNamed /\ RowsFinite /\ LedgerExplainsStock
  <1>1. Init => Inv
    <2> SUFFICES ASSUME Init PROVE Inv
      OBVIOUS
    <2>1. \A b, p : UsableRows(b, p) = {}
      BY DEF Init, UsableRows
    <2>2. RowsNamed /\ RowsFinite
      BY <2>1, FS_EmptySet DEF Init, RowsNamed, RowsFinite
    <2>3. ASSUME NEW b \in Branches, NEW p \in Products
          PROVE  qoh[b][p] = StockAtStart[b][p] + LedgerSum(b, p, "USABLE")
      <3>1. LedgerSum(b, p, "USABLE") = SumFunctionOnSet([row \in ledger |-> row.change], {})
        BY <2>1 DEF LedgerSum, UsableRows
      <3>2. qoh[b][p] = StockAtStart[b][p] /\ StockAtStart[b][p] \in Nat
        BY ConstantsAssumption DEF Init
      <3> QED BY <3>1, <3>2, SumEmpty
    <2> QED BY <2>2, <2>3 DEF LedgerExplainsStock
  <1>2. /\ CustodyInv /\ InOrder /\ Apart /\ OneReceiptLinePerProduct' /\ Inv /\ [Next]_vars
        => Inv'
    <2> SUFFICES ASSUME CustodyInv, InOrder, Apart, OneReceiptLinePerProduct', Inv, [Next]_vars
                 PROVE  Inv'
      OBVIOUS
    <2>1. RowsNamed' /\ ledger \subseteq ledger' /\ TypeOK
      BY RowsNamedKept DEF CustodyInv
    <2>2. ASSUME NEW b \in Branches, NEW p \in Products PROVE RowStep(b, p)
      <3>1. UNCHANGED Written => RowStep(b, p)
        BY DEF Written, RowStep, UsableRows
      <3> QED BY <3>1, ApartStep, PostRows, ReversalRows, ReceiptRows
    <2>3. \A b \in Branches, p \in Products :
              /\ IsFiniteSet(UsableRows(b, p)')
              /\ qoh'[b][p] = StockAtStart[b][p]
                     + SumFunctionOnSet([row \in ledger' |-> row.change], UsableRows(b, p)')
      BY <2>1, <2>2, RowsAdd
    <2>4. RowsFinite' /\ LedgerExplainsStock'
      BY <2>3 DEF RowsFinite, LedgerExplainsStock, LedgerSum, UsableRows
    <2> QED BY <2>1, <2>4
  <1>3. Inv => LedgerExplainsStock
    OBVIOUS
  <1> QED BY <1>1, <1>2, <1>3, InOrderAlways, CustodyInvariant, PTL DEF Spec

-----------------------------------------------------------------------------
(* The register agrees with the stock. *)

Shelf(b, p) ==
    {s \in Serials : ProductOf[s] = p /\ reg[s].branch = b /\ reg[s].status = "IN_STOCK"}

(* The units of a request are as many as it draws. *)
LEMMA UnitsCounted ==
    ASSUME UnitsNamed, NEW r \in Requests, NEW p \in SerialTracked
    PROVE  /\ IsFiniteSet(UnitsOf(r.serials, p)) /\ UnitsOf(r.serials, p) \subseteq Serials
           /\ Cardinality(UnitsOf(r.serials, p)) = r.usable[p]
           /\ UsableChange(r, p) = -r.usable[p] /\ r.usable[p] \in Nat
           /\ ReceiveTypes # {} => ReceivedQty(r, p) = r.usable[p]
  <1>1. p \in Products /\ r.serials \subseteq Serials /\ r.usable[p] \in Nat /\ r.damaged[p] \in Nat
    BY RequestFields, ConstantsAssumption
  <1>2. UnitsOf(r.serials, p) \subseteq Serials
    BY <1>1 DEF UnitsOf
  <1>3. IsFiniteSet(UnitsOf(r.serials, p))
    BY <1>2, FS_Subset, ConstantsAssumption
  <1>4. Cardinality(UnitsOf(r.serials, p)) = r.usable[p]
    <2>1. CASE r.type \in SerialValidatedTypes
      BY <2>1, RequestsAssumption DEF WellFormed, planSerialGateEntries
    <2>2. CASE r.type \notin SerialValidatedTypes
      <3>1. UnitsOf(r.serials, p) = {} /\ r.usable[p] = 0
        BY <2>2, RequestFields DEF UnitsOf, UnitsNamed
      <3> QED BY <3>1, FS_EmptySet
    <2> QED BY <2>1, <2>2
  <1>5. r.credit[p] = 0 /\ (ReceiveTypes # {} => r.damaged[p] = 0)
    BY DEF UnitsNamed
  <1>6. UsableChange(r, p) = -r.usable[p] /\ (ReceiveTypes # {} => ReceivedQty(r, p) = r.usable[p])
    BY <1>1, <1>5 DEF UsableChange, ReceivedQty
  <1> QED BY <1>1, <1>2, <1>3, <1>4, <1>6

LEMMA ShelfCounts ==
    ASSUME NEW S, NEW T, NEW L, IsFiniteSet(S), IsFiniteSet(L), S \cap L = {}, T = S \cup L
    PROVE  IsFiniteSet(T) /\ Cardinality(T) = Cardinality(S) + Cardinality(L)
  <1>1. IsFiniteSet(S \cup L) /\ Cardinality(S \cup L) =
            Cardinality(S) + Cardinality(L) - Cardinality(S \cap L)
    BY FS_Union
  <1>2. Cardinality(S \cap L) = 0
    BY FS_EmptySet
  <1>3. Cardinality(S) \in Nat /\ Cardinality(L) \in Nat
    BY FS_CardinalityType
  <1> QED BY <1>1, <1>2, <1>3

(* As many units are IN_STOCK at a branch as its quantity says, for any    *)
(* number of units and operations, as long as requests keep apart and what *)
(* moves a serial-tracked quantity names its units.                        *)
THEOREM RegisterFollowsStock ==
    ASSUME UnitsNamed
    PROVE  Spec /\ []Apart => []RegisterMatchesStock
  <1>0. \A b, p : Shelf(b, p) \subseteq Serials /\ IsFiniteSet(Shelf(b, p))
    <2>1. \A b, p : Shelf(b, p) \subseteq Serials
      BY DEF Shelf
    <2> QED BY <2>1, FS_Subset, ConstantsAssumption
  <1>1. Init => RegisterMatchesStock
    <2> SUFFICES ASSUME Init, NEW b \in Branches, NEW p \in SerialTracked
                 PROVE  Cardinality(Shelf(b, p)) = qoh[b][p]
      BY DEF RegisterMatchesStock, Shelf
    <2>1. Shelf(b, p) = {s \in Serials : ProductOf[s] = p /\ BranchAtStart[s] = b}
      BY DEF Init, Shelf
    <2>2. qoh[b][p] = StockAtStart[b][p]
      BY DEF Init
    <2> QED BY <2>1, <2>2, OpeningAssumption
  <1>2. CustodyInv /\ InOrder /\ Apart /\ RegisterMatchesStock /\ [Next]_vars
            => RegisterMatchesStock'
    <2> SUFFICES ASSUME CustodyInv, InOrder, Apart, RegisterMatchesStock, [Next]_vars,
                        NEW b \in Branches, NEW p \in SerialTracked
                 PROVE  Cardinality(Shelf(b, p)') = qoh'[b][p]
      BY DEF RegisterMatchesStock, Shelf
    <2>c. Cardinality(Shelf(b, p)) = qoh[b][p]
      BY DEF RegisterMatchesStock, Shelf
    <2>d. TypeOK /\ p \in Products
      BY ConstantsAssumption DEF CustodyInv
    <2>e. Cardinality(Shelf(b, p)) \in Int
      BY <1>0, FS_CardinalityType
    <2>0. /\ TypeOK /\ p \in Products /\ qoh[b][p] \in Int
          /\ Cardinality(Shelf(b, p)) = qoh[b][p]
          /\ IsFiniteSet(Shelf(b, p)) /\ IsFiniteSet(Serials)
      BY <1>0, <2>e, <2>d, <2>c, ConstantsAssumption
    <2>a. \A s : s \in Shelf(b, p) <=> /\ s \in Serials /\ ProductOf[s] = p
                                       /\ reg[s].branch = b /\ reg[s].status = "IN_STOCK"
      BY DEF Shelf
    <2>b. \A s : s \in Shelf(b, p)' <=> /\ s \in Serials /\ ProductOf[s] = p
                                        /\ reg'[s].branch = b /\ reg'[s].status = "IN_STOCK"
      BY DEF Shelf
    <2>1. ASSUME Shelf(b, p)' = Shelf(b, p), qoh'[b][p] = qoh[b][p]
          PROVE  Cardinality(Shelf(b, p)') = qoh'[b][p]
      BY <2>0, <2>1
    <2>2. ASSUME NEW o \in Ops, NEW r \in Requests, Posts(o, r)
          PROVE  Cardinality(Shelf(b, p)') = qoh'[b][p]
      <3> DEFINE L == UnitsOf(r.serials, p)
      <3>1. /\ IsFiniteSet(L) /\ L \subseteq Serials /\ Cardinality(L) = r.usable[p]
            /\ UsableChange(r, p) = -r.usable[p] /\ r.usable[p] \in Nat
        BY UnitsCounted
      <3>2. \A s : s \in L <=> s \in r.serials /\ ProductOf[s] = p
        BY DEF UnitsOf
      <3>3. \A s \in Serials :
                /\ s \in r.serials => /\ reg[s].status = "IN_STOCK" /\ reg[s].branch = r.branch
                                      /\ reg'[s].status # "IN_STOCK"
                /\ s \notin r.serials => reg'[s] = reg[s]
        BY <2>2 DEF Posts
      <3> HIDE DEF L
      <3>4. CASE b = r.branch
        <4>1. Shelf(b, p)' \cap L = {} /\ Shelf(b, p) = Shelf(b, p)' \cup L
          BY <2>a, <2>b, <3>1, <3>2, <3>3, <3>4
        <4>2. IsFiniteSet(Shelf(b, p)')
          BY <2>0, <4>1, FS_Subset
        <4>3. Cardinality(Shelf(b, p)) = Cardinality(Shelf(b, p)') + Cardinality(L)
          BY <3>1, <4>1, <4>2, ShelfCounts
        <4>4. Cardinality(Shelf(b, p)') \in Nat
          BY <4>2, FS_CardinalityType
        <4>5. qoh'[b][p] = qoh[b][p] + UsableChange(r, p)
          BY <2>0, <2>2, <3>4 DEF Posts
        <4>6. qoh[b][p] = Cardinality(Shelf(b, p)') + r.usable[p]
          BY <2>c, <3>1, <4>3
        <4>7. qoh'[b][p] = (Cardinality(Shelf(b, p)') + r.usable[p]) + (-r.usable[p])
          BY <3>1, <4>5, <4>6
        <4> QED BY <3>1, <4>4, <4>7
      <3>5. CASE b # r.branch
        <4>1. Shelf(b, p)' = Shelf(b, p)
          BY <2>a, <2>b, <3>3, <3>5
        <4> QED BY <2>0, <2>1, <2>2, <3>5, <4>1 DEF Posts
      <3> QED BY <3>4, <3>5
    <2>3. ASSUME NEW o \in Ops, NEW st, Closes(o, st), NEW to,
                 \A s \in Serials :
                    /\ s \in body[o].serials => /\ reg[s].status # "IN_STOCK"
                                                /\ reg'[s].status = "IN_STOCK"
                                                /\ reg'[s].branch = to
                    /\ s \notin body[o].serials => reg'[s] = reg[s],
                 b = to => qoh'[b][p] = qoh[b][p] + body[o].usable[p],
                 b # to => qoh'[b][p] = qoh[b][p]
          PROVE  Cardinality(Shelf(b, p)') = qoh'[b][p]
      <3> DEFINE L == UnitsOf(body[o].serials, p)
      <3>1. /\ IsFiniteSet(L) /\ L \subseteq Serials /\ Cardinality(L) = body[o].usable[p]
            /\ body[o].usable[p] \in Nat
        BY <2>3, UnitsCounted DEF Closes
      <3>2. \A s : s \in L <=> s \in body[o].serials /\ ProductOf[s] = p
        BY DEF UnitsOf
      <3> HIDE DEF L
      <3>3. CASE b = to
        <4>1. Shelf(b, p) \cap L = {} /\ Shelf(b, p)' = Shelf(b, p) \cup L
          BY <2>3, <2>a, <2>b, <3>1, <3>2, <3>3
        <4>2. Cardinality(Shelf(b, p)') = Cardinality(Shelf(b, p)) + Cardinality(L)
          BY <2>0, <3>1, <4>1, ShelfCounts
        <4> QED BY <2>0, <2>3, <3>1, <3>3, <4>2
      <3>4. CASE b # to
        <4>1. Shelf(b, p)' = Shelf(b, p)
          BY <2>3, <2>a, <2>b, <3>4
        <4> QED BY <2>1, <2>3, <3>4, <4>1
      <3> QED BY <3>3, <3>4
    <2>4. ASSUME NEW o \in Ops, Reverses(o) PROVE Cardinality(Shelf(b, p)') = qoh'[b][p]
      <3> DEFINE to == body[o].branch
      <3>1. /\ Closes(o, "CANCELLED")
            /\ b = to => qoh'[b][p] = qoh[b][p] + body[o].usable[p]
            /\ b # to => qoh'[b][p] = qoh[b][p]
            /\ \A s \in Serials :
                    /\ s \in body[o].serials => /\ reg[s].status # "IN_STOCK"
                                                /\ reg'[s].status = "IN_STOCK"
                                                /\ reg'[s].branch = to
                    /\ s \notin body[o].serials => reg'[s] = reg[s]
        BY <2>0, <2>4 DEF Reverses
      <3> HIDE DEF to
      <3> QED BY <2>3, <3>1
    <2>5. ASSUME NEW o \in Ops, Receives(o) PROVE Cardinality(Shelf(b, p)') = qoh'[b][p]
      <3> DEFINE to == body[o].dest
      <3>0. ReceivedQty(body[o], p) = body[o].usable[p]
        BY <2>5, UnitsCounted DEF Receives, Closes
      <3>1. /\ Closes(o, "RECEIVED")
            /\ b = to => qoh'[b][p] = qoh[b][p] + body[o].usable[p]
            /\ b # to => qoh'[b][p] = qoh[b][p]
            /\ \A s \in Serials :
                    /\ s \in body[o].serials => /\ reg[s].status # "IN_STOCK"
                                                /\ reg'[s].status = "IN_STOCK"
                                                /\ reg'[s].branch = to
                    /\ s \notin body[o].serials => reg'[s] = reg[s]
        BY <2>0, <2>5, <3>0 DEF Receives
      <3> HIDE DEF to
      <3> QED BY <2>3, <3>1
    <2>6. CASE UNCHANGED Written
      BY <2>1, <2>6 DEF Written, Shelf
    <2> QED BY <2>2, <2>4, <2>5, <2>6, ApartStep
  <1> QED BY <1>1, <1>2, InOrderAlways, CustodyInvariant, PTL DEF Spec

=============================================================================
