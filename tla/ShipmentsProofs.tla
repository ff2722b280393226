-------------------------- MODULE ShipmentsProofs --------------------------
(***************************************************************************)
(* Proofs about Shipments, for every set of branches, products, serials,   *)
(* shipments, concurrent requests, manifests and receipts: the types, that *)
(* no stock row goes below zero, that no unit is stranded in transit, and, *)
(* within the limits that ShipmentsConservation names, that stock,         *)
(* reservations, movement rows, register and journals follow the shipments.*)
(***************************************************************************)
EXTENDS ShipmentsConservation, Sums, TLAPS

-----------------------------------------------------------------------------
(* Helpers: what the building blocks return. *)

Balances == [Branches -> [Products -> Int]]

(* A manifest names branches, a product, a positive quantity and serials. *)
LEMMA ManifestFields ==
    ASSUME NEW sh \in Ships
    PROVE  /\ Manifest[sh].source \in Branches
           /\ Manifest[sh].dest \in Branches
           /\ Manifest[sh].product \in Products
           /\ Manifest[sh].sent \in Nat
           /\ Manifest[sh].sent > 0
           /\ Manifest[sh].serials \subseteq Serials
  BY ManifestAssumption DEF ManifestType

(* A receipt has a natural quantity and names units of its shipment. *)
LEMMA ReceiptFields ==
    ASSUME NEW sh \in Ships, NEW r \in ReceiptsOf[sh]
    PROVE  /\ r \in Receipt
           /\ r.qty \in Nat
           /\ r.serials \subseteq Manifest[sh].serials
  BY ReceiptsAssumption DEF Receipt

(* Adding to one balance changes that balance and no other. *)
LEMMA AddFacts ==
    ASSUME NEW f \in Balances, NEW b \in Branches, NEW p \in Products, NEW n \in Int
    PROVE  /\ Add(f, b, p, n) \in Balances
           /\ \A c \in Branches, q \in Products :
                 Add(f, b, p, n)[c][q] = IF c = b /\ q = p THEN f[c][q] + n ELSE f[c][q]
  BY DEF Add, Balances

(* A reservation added or released stays a natural number. *)
LEMMA IncomingTyped ==
    ASSUME incoming \in [Branches -> [Products -> Nat]],
           NEW b \in Branches, NEW p \in Products, NEW n \in Nat
    PROVE  /\ Add(incoming, b, p, n) \in [Branches -> [Products -> Nat]]
           /\ Release(b, p, n) \in [Branches -> [Products -> Nat]]
  <1>1. incoming[b][p] \in Nat /\ incoming[b] \in [Products -> Nat]
    OBVIOUS
  <1>2. incoming[b][p] + n \in Nat
    BY <1>1
  <1>3. (IF n <= incoming[b][p] THEN incoming[b][p] - n ELSE 0) \in Nat
    BY <1>1
  <1>4. Add(incoming, b, p, n) =
            [incoming EXCEPT ![b] = [incoming[b] EXCEPT ![p] = incoming[b][p] + n]]
    BY DEF Add
  <1>5. Release(b, p, n) =
            [incoming EXCEPT ![b] = [incoming[b] EXCEPT ![p] =
                IF n <= incoming[b][p] THEN incoming[b][p] - n ELSE 0]]
    BY DEF Release
  <1> QED BY <1>1, <1>2, <1>3, <1>4, <1>5

(* A flip keeps the register a register. *)
LEMMA FlipTyped ==
    ASSUME reg \in [Serials -> Register], NEW S, NEW from,
           NEW to \in SerialStatuses, NEW b \in Branches, NEW sh \in Ships
    PROVE  flip(S, from, to, b, sh) \in [Serials -> Register]
  BY DEF flip, Register

(* The ledger holds nothing but rows. *)
LEMMA InsertTyped ==
    ASSUME ledger \subseteq Rows, NEW sh \in Ships, NEW type \in ChangeTypes,
           NEW b \in Branches, NEW n \in Int
    PROVE  insertTransferTxn(sh, type, b, n) \subseteq Rows
  <1>1. [id |-> <<sh, type>>, branch |-> b, product |-> Manifest[sh].product,
         change |-> n] \in Rows
    BY ManifestFields DEF Rows
  <1> QED BY <1>1 DEF insertTransferTxn

(* Counting one more journal or contra keeps the counts natural. *)
LEMMA JournalTyped ==
    ASSUME NEW sh \in Ships, journal \in [Ships -> JournalCounts]
    PROVE  /\ [journal EXCEPT ![sh].out = @ + 1] \in [Ships -> JournalCounts]
           /\ [journal EXCEPT ![sh].in = @ + 1] \in [Ships -> JournalCounts]
           /\ reverseOut(sh) \in [Ships -> JournalCounts]
           /\ reverseIn(sh) \in [Ships -> JournalCounts]
  <1>1. journal[sh] \in JournalCounts
    OBVIOUS
  <1>2. /\ journal[sh].out + 1 \in Nat /\ journal[sh].outContra + 1 \in Nat
        /\ journal[sh].in + 1 \in Nat /\ journal[sh].inContra + 1 \in Nat
    BY <1>1 DEF JournalCounts
  <1>3. /\ [journal[sh] EXCEPT !.out = @ + 1] \in JournalCounts
        /\ [journal[sh] EXCEPT !.outContra = @ + 1] \in JournalCounts
        /\ [journal[sh] EXCEPT !.in = @ + 1] \in JournalCounts
        /\ [journal[sh] EXCEPT !.inContra = @ + 1] \in JournalCounts
    BY <1>1, <1>2 DEF JournalCounts
  <1> QED BY <1>3 DEF reverseOut, reverseIn

-----------------------------------------------------------------------------
(* The type invariant, in two parts: the stock tables, and the shipments   *)
(* with the requests on them.                                              *)

StockTyped ==
    /\ qoh \in Balances
    /\ incoming \in [Branches -> [Products -> Nat]]
    /\ reg \in [Serials -> Register]
    /\ ledger \subseteq Rows
    /\ journal \in [Ships -> JournalCounts]

ShipsTyped ==
    /\ status \in [Ships -> Statuses]
    /\ got \in [Ships -> Receipt \cup {NoReceipt}]
    /\ req \in [Workers -> Pending]
    /\ \A sh \in Ships : status[sh] \in {"RECEIVED", "DISCREPANCY"} =>
                             got[sh] \in ReceiptsOf[sh]
    /\ \A w \in Workers :
          /\ req[w].kind # "idle" => status[req[w].ship] # "NONE"
          /\ req[w].kind \in {"receive", "approvedUndo"} =>
                req[w].receipt \in ReceiptsOf[req[w].ship]

LEMMA TypeParts == TypeOK <=> StockTyped /\ ShipsTyped
  BY DEF TypeOK, StockTyped, ShipsTyped, Balances

(* A request in flight names a shipment that exists. *)
LEMMA PendingShip ==
    ASSUME ShipsTyped, NEW w \in Workers, req[w].kind # "idle"
    PROVE  req[w].ship \in Ships /\ status[req[w].ship] # "NONE"
  BY DEF ShipsTyped, Pending, Idle

(* Finishing a request: the worker is idle again and its shipment has a    *)
(* status other than "NONE".                                               *)
LEMMA FinishTyped ==
    ASSUME ShipsTyped, NEW w \in Workers, NEW sh \in Ships,
           NEW st \in Statuses \ {"NONE"},
           req' = [req EXCEPT ![w] = Idle],
           status' = [status EXCEPT ![sh] = st],
           got' \in [Ships -> Receipt \cup {NoReceipt}],
           \A x \in Ships : status'[x] \in {"RECEIVED", "DISCREPANCY"} =>
                                got'[x] \in ReceiptsOf[x]
    PROVE  ShipsTyped'
  <1>1. status' \in [Ships -> Statuses]
    BY DEF ShipsTyped
  <1>2. \A x \in Ships : status[x] # "NONE" => status'[x] # "NONE"
    BY DEF ShipsTyped
  <1>3. req' \in [Workers -> Pending]
    BY DEF ShipsTyped, Pending
  <1>4. ASSUME NEW v \in Workers
        PROVE  /\ req'[v].kind # "idle" => status'[req'[v].ship] # "NONE"
               /\ req'[v].kind \in {"receive", "approvedUndo"} =>
                     req'[v].receipt \in ReceiptsOf[req'[v].ship]
    <2>1. CASE v = w
      <3>1. req'[v] = Idle
        BY <2>1 DEF ShipsTyped
      <3>2. req'[v].kind = "idle"
        BY <3>1 DEF Idle
      <3> QED BY <3>2
    <2>2. CASE v # w
      <3>1. req'[v] = req[v]
        BY <2>2 DEF ShipsTyped
      <3>2. req[v].kind # "idle" => req[v].ship \in Ships
        BY DEF ShipsTyped, Pending, Idle
      <3> QED BY <1>2, <3>1, <3>2 DEF ShipsTyped
    <2> QED BY <2>1, <2>2
  <1> QED BY <1>1, <1>3, <1>4 DEF ShipsTyped

(* Starting a request on an existing shipment. *)
LEMMA StartTyped ==
    ASSUME TypeOK, NEW w \in Workers, NEW sh \in Ships, NEW kind, NEW r,
           status[sh] # "NONE",
           kind \in {"receive", "cancel", "cancelReceive",
                     "approvedCancel", "approvedUndo"},
           r \in Receipt \cup {NoReceipt},
           kind \in {"receive", "approvedUndo"} => r \in ReceiptsOf[sh],
           Start(w, kind, sh, r)
    PROVE  TypeOK'
  <1>1. [kind |-> kind, ship |-> sh, receipt |-> r] \in Pending
    BY DEF Pending
  <1>2. /\ req' = [req EXCEPT ![w] = [kind |-> kind, ship |-> sh, receipt |-> r]]
        /\ UNCHANGED <<qoh, incoming, reg, status, got, ledger, journal>>
    BY DEF Start
  <1>3. req' \in [Workers -> Pending]
    BY <1>1, <1>2 DEF TypeOK
  <1>4. ASSUME NEW v \in Workers
        PROVE  /\ req'[v].kind # "idle" => status[req'[v].ship] # "NONE"
               /\ req'[v].kind \in {"receive", "approvedUndo"} =>
                     req'[v].receipt \in ReceiptsOf[req'[v].ship]
    BY <1>2 DEF TypeOK
  <1> QED BY <1>2, <1>3, <1>4 DEF TypeOK

(* The transactions keep the stock tables typed. *)
LEMMA UndoTyped ==
    ASSUME StockTyped, NEW sh \in Ships, NEW n \in Nat, undoReceiveStock(sh, n)
    PROVE  /\ qoh' \in Balances
           /\ incoming' \in [Branches -> [Products -> Nat]]
  <1>1. -n \in Int
    OBVIOUS
  <1>2. /\ qoh' = Add(qoh, Manifest[sh].dest, Manifest[sh].product, -n)
        /\ incoming' = Add(incoming, Manifest[sh].dest, Manifest[sh].product, n)
    BY DEF undoReceiveStock
  <1> QED BY <1>1, <1>2, ManifestFields, AddFacts, IncomingTyped DEF StockTyped

LEMMA RestoreTyped ==
    ASSUME StockTyped, NEW sh \in Ships, NEW n \in Nat
    PROVE  /\ restoreSource(sh) \in Balances
           /\ releaseDest(sh, n) \in [Branches -> [Products -> Nat]]
  <1>1. Manifest[sh].sent \in Int
    BY ManifestFields
  <1>2. restoreSource(sh) \in Balances
    BY <1>1, ManifestFields, AddFacts DEF restoreSource, StockTyped
  <1>3. releaseDest(sh, n) \in [Branches -> [Products -> Nat]]
    BY ManifestFields, IncomingTyped DEF releaseDest, StockTyped
  <1> QED BY <1>2, <1>3

(* The tables and the requests in flight keep their types; incoming_qty    *)
(* never goes below zero; a received shipment records its receipt.         *)
THEOREM TypeCorrect == Spec => []TypeOK
  <1>1. Init => TypeOK
    <2> SUFFICES ASSUME Init PROVE TypeOK
      OBVIOUS
    <2>1. qoh \in Balances /\ reg \in [Serials -> Register]
      BY ConstantsAssumption DEF Init, Balances, Register, SerialStatuses
    <2>2. StockTyped
      BY <2>1 DEF Init, StockTyped, JournalCounts
    <2>3. ShipsTyped
      BY DEF Init, ShipsTyped, Statuses, Pending, Idle
    <2> QED BY <2>2, <2>3, TypeParts
  <1>2. TypeOK /\ [Next]_vars => TypeOK'
    <2> SUFFICES ASSUME TypeOK, [Next]_vars PROVE TypeOK'
      OBVIOUS
    <2>0. StockTyped /\ ShipsTyped
      BY TypeParts
    <2>1. ASSUME NEW sh \in Ships, post_shipments(sh) PROVE TypeOK'
      <3> DEFINE m == Manifest[sh]
      <3>1. m.sent \in Nat /\ -m.sent \in Int
        BY ManifestFields
      <3>2. qoh' \in Balances /\ incoming' \in [Branches -> [Products -> Nat]]
        BY <2>0, <2>1, <3>1, ManifestFields, AddFacts, IncomingTyped
        DEF post_shipments, StockTyped
      <3>3. reg' \in [Serials -> Register]
        BY <2>0, <2>1, ManifestFields, FlipTyped
        DEF post_shipments, StockTyped, SerialStatuses
      <3>4. ledger' \subseteq Rows /\ journal' \in [Ships -> JournalCounts]
        BY <2>0, <2>1, <3>1, ManifestFields, InsertTyped, JournalTyped
        DEF post_shipments, StockTyped, ChangeTypes
      <3>5. ShipsTyped'
        <4>1. status' = [status EXCEPT ![sh] = "IN_TRANSIT"] /\ UNCHANGED <<got, req>>
          BY <2>1 DEF post_shipments
        <4>2. status' \in [Ships -> Statuses]
          BY <2>0, <4>1 DEF ShipsTyped, Statuses
        <4>3. \A x \in Ships : status'[x] \in {status[x], "IN_TRANSIT"}
          BY <2>0, <4>1 DEF ShipsTyped
        <4>4. \A w \in Workers : req[w].kind # "idle" => req[w].ship \in Ships
          BY <2>0 DEF ShipsTyped, Pending, Idle
        <4> QED BY <2>0, <4>1, <4>2, <4>3, <4>4 DEF ShipsTyped
      <3> QED BY <3>2, <3>3, <3>4, <3>5, TypeParts DEF StockTyped, TypeOK, ShipsTyped, Balances
    <2>2. ASSUME NEW w \in Workers, NEW sh \in Ships, NEW r \in ReceiptsOf[sh],
                 CheckReceive(w, sh, r)
          PROVE  TypeOK'
      BY <2>2, ReceiptFields, StartTyped DEF CheckReceive
    <2>3. ASSUME NEW w \in Workers, NEW sh \in Ships, CheckCancel(w, sh)
          PROVE  TypeOK'
      BY <2>3, StartTyped DEF CheckCancel, MayCancel
    <2>4. ASSUME NEW w \in Workers, NEW sh \in Ships, CheckCancelReceive(w, sh)
          PROVE  TypeOK'
      BY <2>4, StartTyped DEF CheckCancelReceive, MayUndo
    <2>5. ASSUME NEW w \in Workers, NEW sh \in Ships, NEW type, CheckApproval(w, sh, type)
          PROVE  TypeOK'
      <3>1. CASE MayUndo(sh) /\ Start(w, "approvedUndo", sh, got[sh])
        <4>1. got[sh] \in ReceiptsOf[sh] /\ got[sh] \in Receipt /\ status[sh] # "NONE"
          BY <3>1, ReceiptFields DEF TypeOK, MayUndo
        <4> QED BY <3>1, <4>1, StartTyped
      <3>2. CASE MayCancel(sh) /\ Start(w, "approvedCancel", sh, NoReceipt)
        <4>1. status[sh] # "NONE"
          BY <3>2 DEF MayCancel
        <4> QED BY <3>2, <4>1, StartTyped
      <3> QED BY <2>5, <3>1, <3>2 DEF CheckApproval
    <2>6. ASSUME NEW w \in Workers, post_receive(w) PROVE TypeOK'
      <3> DEFINE sh == req[w].ship
                 r  == req[w].receipt
                 st == IF r.qty < Manifest[sh].sent THEN "DISCREPANCY" ELSE "RECEIVED"
      <3>1. sh \in Ships
        BY <2>0, <2>6, PendingShip DEF post_receive
      <3>2. r \in ReceiptsOf[sh]
        BY <2>0, <2>6 DEF post_receive, ShipsTyped
      <3>3. r \in Receipt /\ r.qty \in Nat /\ r.qty \in Int
        BY <3>1, <3>2, ReceiptFields
      <3>4. qoh' \in Balances /\ incoming' \in [Branches -> [Products -> Nat]]
        BY <2>0, <2>6, <3>1, <3>3, ManifestFields, AddFacts, RestoreTyped
        DEF post_receive, StockTyped
      <3>5. reg' \in [Serials -> Register]
        BY <2>0, <2>6, <3>1, ManifestFields, FlipTyped
        DEF post_receive, receiveSerials, StockTyped, SerialStatuses
      <3>6. ledger' \subseteq Rows /\ journal' \in [Ships -> JournalCounts]
        BY <2>0, <2>6, <3>1, <3>3, ManifestFields, InsertTyped, JournalTyped
        DEF post_receive, StockTyped, ChangeTypes
      <3>7. ShipsTyped'
        <4>1. st \in Statuses \ {"NONE"}
          BY DEF Statuses
        <4>2. /\ status' = [status EXCEPT ![sh] = st]
              /\ got' = [got EXCEPT ![sh] = r]
              /\ req' = [req EXCEPT ![w] = Idle]
          BY <2>6 DEF post_receive
        <4>3. got' \in [Ships -> Receipt \cup {NoReceipt}]
          BY <2>0, <3>3, <4>2 DEF ShipsTyped
        <4>4. \A x \in Ships : status'[x] \in {"RECEIVED", "DISCREPANCY"} =>
                                    got'[x] \in ReceiptsOf[x]
          BY <2>0, <3>1, <3>2, <4>2 DEF ShipsTyped
        <4> HIDE DEF sh, r, st
        <4> QED BY <2>0, <3>1, <4>1, <4>2, <4>3, <4>4, FinishTyped
      <3> QED BY <3>4, <3>5, <3>6, <3>7 DEF TypeOK, ShipsTyped, Balances
    <2>7. ASSUME NEW w \in Workers, post_cancel(w) PROVE TypeOK'
      <3> DEFINE sh == req[w].ship
      <3>1. sh \in Ships /\ Manifest[sh].sent \in Nat
        BY <2>0, <2>7, PendingShip, ManifestFields DEF post_cancel
      <3>2. qoh' \in Balances /\ incoming' \in [Branches -> [Products -> Nat]]
        BY <2>0, <2>7, <3>1, RestoreTyped DEF post_cancel
      <3>3. reg' \in [Serials -> Register]
        BY <2>0, <2>7, <3>1, ManifestFields, FlipTyped
        DEF post_cancel, cancelSerials, StockTyped, SerialStatuses
      <3>4. ledger' \subseteq Rows /\ journal' \in [Ships -> JournalCounts]
        <4>1. Manifest[sh].sent \in Int /\ Manifest[sh].source \in Branches
          BY <3>1, ManifestFields
        <4>2. ledger' = insertTransferTxn(sh, "TRANSFER_CANCELLED", Manifest[sh].source,
                                          Manifest[sh].sent)
          BY <2>7 DEF post_cancel
        <4>3. ledger' \subseteq Rows
          BY <2>0, <3>1, <4>1, <4>2, InsertTyped DEF StockTyped, ChangeTypes
        <4>4. journal' \in [Ships -> JournalCounts]
          BY <2>0, <2>7, <3>1, JournalTyped DEF post_cancel, StockTyped
        <4> QED BY <4>3, <4>4
      <3>5. ShipsTyped'
        <4>1. /\ status' = [status EXCEPT ![sh] = "CANCELLED"]
              /\ req' = [req EXCEPT ![w] = Idle]
              /\ got' = got
          BY <2>7 DEF post_cancel
        <4>2. \A x \in Ships : status'[x] \in {"RECEIVED", "DISCREPANCY"} =>
                                    got'[x] \in ReceiptsOf[x]
          BY <2>0, <3>1, <4>1 DEF ShipsTyped
        <4>3. got' \in [Ships -> Receipt \cup {NoReceipt}]
          BY <2>0, <4>1 DEF ShipsTyped
        <4>4. "CANCELLED" \in Statuses \ {"NONE"}
          BY DEF Statuses
        <4> HIDE DEF sh
        <4> QED BY <2>0, <3>1, <4>1, <4>2, <4>3, <4>4, FinishTyped
      <3> QED BY <3>2, <3>3, <3>4, <3>5 DEF TypeOK, ShipsTyped, Balances
    <2>8. ASSUME NEW w \in Workers, post_cancelReceive(w) PROVE TypeOK'
      <3> DEFINE sh == req[w].ship
                 r  == got[sh]
      <3>1. sh \in Ships
        BY <2>0, <2>8, PendingShip DEF post_cancelReceive
      <3>2. r \in ReceiptsOf[sh]
        BY <2>0, <2>8, <3>1 DEF post_cancelReceive, MayUndo, ShipsTyped
      <3>3. r.qty \in Nat /\ -r.qty \in Int
        BY <3>1, <3>2, ReceiptFields
      <3>4. qoh' \in Balances /\ incoming' \in [Branches -> [Products -> Nat]]
        BY <2>0, <2>8, <3>1, <3>3, UndoTyped DEF post_cancelReceive
      <3>5. reg' \in [Serials -> Register]
        BY <2>0, <2>8, <3>1, ManifestFields, FlipTyped
        DEF post_cancelReceive, StockTyped, SerialStatuses
      <3>6. ledger' \subseteq Rows /\ journal' \in [Ships -> JournalCounts]
        BY <2>0, <2>8, <3>1, <3>3, ManifestFields, InsertTyped, JournalTyped
        DEF post_cancelReceive, StockTyped, ChangeTypes
      <3>7. ShipsTyped'
        <4>1. /\ status' = [status EXCEPT ![sh] = "IN_TRANSIT"]
              /\ req' = [req EXCEPT ![w] = Idle]
              /\ got' = got
          BY <2>8 DEF post_cancelReceive
        <4>2. \A x \in Ships : status'[x] \in {"RECEIVED", "DISCREPANCY"} =>
                                    got'[x] \in ReceiptsOf[x]
          BY <2>0, <3>1, <4>1 DEF ShipsTyped
        <4>3. got' \in [Ships -> Receipt \cup {NoReceipt}]
          BY <2>0, <4>1 DEF ShipsTyped
        <4>4. "IN_TRANSIT" \in Statuses \ {"NONE"}
          BY DEF Statuses
        <4> HIDE DEF sh, r
        <4> QED BY <2>0, <3>1, <4>1, <4>2, <4>3, <4>4, FinishTyped
      <3> QED BY <3>4, <3>5, <3>6, <3>7 DEF TypeOK, ShipsTyped, Balances
    <2>9. ASSUME NEW w \in Workers, approveUndo(w) PROVE TypeOK'
      <3> DEFINE sh == req[w].ship
                 r  == req[w].receipt
      <3>1. sh \in Ships
        BY <2>0, <2>9, PendingShip DEF approveUndo
      <3>2. r \in ReceiptsOf[sh]
        BY <2>0, <2>9 DEF approveUndo, ShipsTyped
      <3>3. r.qty \in Nat
        BY <3>1, <3>2, ReceiptFields
      <3>4. qoh' \in Balances /\ incoming' \in [Branches -> [Products -> Nat]]
        BY <2>0, <2>9, <3>1, <3>3, UndoTyped DEF approveUndo
      <3>5. journal' \in [Ships -> JournalCounts]
        BY <2>0, <2>9, <3>1, JournalTyped DEF approveUndo, StockTyped
      <3>6. ShipsTyped'
        <4>1. /\ status' = [status EXCEPT ![sh] = "IN_TRANSIT"]
              /\ req' = [req EXCEPT ![w] = Idle]
              /\ got' = got
          BY <2>9 DEF approveUndo
        <4>2. \A x \in Ships : status'[x] \in {"RECEIVED", "DISCREPANCY"} =>
                                    got'[x] \in ReceiptsOf[x]
          BY <2>0, <3>1, <4>1 DEF ShipsTyped
        <4>3. got' \in [Ships -> Receipt \cup {NoReceipt}]
          BY <2>0, <4>1 DEF ShipsTyped
        <4>4. "IN_TRANSIT" \in Statuses \ {"NONE"}
          BY DEF Statuses
        <4> HIDE DEF sh, r
        <4> QED BY <2>0, <3>1, <4>1, <4>2, <4>3, <4>4, FinishTyped
      <3> QED BY <2>9, <3>4, <3>5, <3>6 DEF TypeOK, ShipsTyped, Balances, approveUndo
    <2>10. ASSUME NEW w \in Workers, approveCancel(w) PROVE TypeOK'
      <3> DEFINE sh == req[w].ship
      <3>1. sh \in Ships /\ Manifest[sh].sent \in Nat
        BY <2>0, <2>10, PendingShip, ManifestFields DEF approveCancel
      <3>2. qoh' \in Balances /\ incoming' \in [Branches -> [Products -> Nat]]
        BY <2>0, <2>10, <3>1, RestoreTyped DEF approveCancel
      <3>3. journal' \in [Ships -> JournalCounts]
        BY <2>0, <2>10, <3>1, JournalTyped DEF approveCancel, StockTyped
      <3>4. ShipsTyped'
        <4>1. /\ status' = [status EXCEPT ![sh] = "CANCELLED"]
              /\ req' = [req EXCEPT ![w] = Idle]
              /\ got' = got
          BY <2>10 DEF approveCancel
        <4>2. \A x \in Ships : status'[x] \in {"RECEIVED", "DISCREPANCY"} =>
                                    got'[x] \in ReceiptsOf[x]
          BY <2>0, <3>1, <4>1 DEF ShipsTyped
        <4>3. got' \in [Ships -> Receipt \cup {NoReceipt}]
          BY <2>0, <4>1 DEF ShipsTyped
        <4>4. "CANCELLED" \in Statuses \ {"NONE"}
          BY DEF Statuses
        <4> HIDE DEF sh
        <4> QED BY <2>0, <3>1, <4>1, <4>2, <4>3, <4>4, FinishTyped
      <3> QED BY <2>10, <3>2, <3>3, <3>4 DEF TypeOK, ShipsTyped, Balances, approveCancel
    <2>11. ASSUME NEW w \in Workers, Abandon(w) PROVE TypeOK'
      <3>1. req' = [req EXCEPT ![w] = Idle]
        BY <2>11 DEF Abandon
      <3>2. req' \in [Workers -> Pending]
        BY <3>1 DEF TypeOK, Pending
      <3>3. \A v \in Workers : req'[v] = req[v] \/ req'[v].kind = "idle"
        BY <3>1 DEF TypeOK, Idle
      <3> QED BY <2>11, <3>2, <3>3 DEF TypeOK, Abandon
    <2>12. ASSUME NEW s \in Serials, claimInvoiceSerials(s) PROVE TypeOK'
      <3>1. reg[s].branch \in Branches /\ ProductOf[s] \in Products
        BY ConstantsAssumption DEF TypeOK, Register
      <3>2. qoh' \in Balances
        BY <2>0, <2>12, <3>1, AddFacts DEF claimInvoiceSerials, StockTyped
      <3>3. [status |-> "CUSTOMER_ASSIGNED", branch |-> reg[s].branch, source |-> NoShip]
              \in Register
        BY <3>1 DEF Register, SerialStatuses
      <3>4. reg' \in [Serials -> Register]
        BY <2>12, <3>3 DEF TypeOK, claimInvoiceSerials
      <3> QED BY <2>12, <3>2, <3>4 DEF TypeOK, claimInvoiceSerials, Balances
    <2>13. CASE UNCHANGED vars
      BY <2>13 DEF TypeOK, vars
    <2> QED
      BY <2>1, <2>2, <2>3, <2>4, <2>5, <2>6, <2>7, <2>8, <2>9, <2>10, <2>11,
         <2>12, <2>13 DEF Next
  <1> QED BY <1>1, <1>2, PTL DEF Spec

-----------------------------------------------------------------------------
(* Stock never goes below zero. *)

(* Adding a natural number to a balance keeps balances non-negative. *)
LEMMA CreditKeepsNatural ==
    ASSUME qoh \in Balances, NoNegativeStock, NEW b \in Branches, NEW p \in Products,
           NEW n \in Nat, qoh' = Add(qoh, b, p, n)
    PROVE  NoNegativeStock'
  <1>1. n \in Int
    OBVIOUS
  <1>2. ASSUME NEW c \in Branches, NEW q \in Products PROVE qoh'[c][q] >= 0
    <2>1. qoh[c][q] \in Int /\ qoh[c][q] >= 0
      BY DEF Balances, NoNegativeStock
    <2>2. qoh'[c][q] = IF c = b /\ q = p THEN qoh[c][q] + n ELSE qoh[c][q]
      BY <1>1, AddFacts
    <2> QED BY <2>1, <2>2
  <1> QED BY <1>2 DEF NoNegativeStock

(* So does taking what the balance covers. *)
LEMMA DebitKeepsNatural ==
    ASSUME qoh \in Balances, NoNegativeStock, NEW b \in Branches, NEW p \in Products,
           NEW n \in Nat, n <= qoh[b][p], qoh' = Add(qoh, b, p, -n)
    PROVE  NoNegativeStock'
  <1>1. -n \in Int
    OBVIOUS
  <1>2. ASSUME NEW c \in Branches, NEW q \in Products PROVE qoh'[c][q] >= 0
    <2>1. qoh[c][q] \in Int /\ qoh[c][q] >= 0
      BY DEF Balances, NoNegativeStock
    <2>2. qoh'[c][q] = IF c = b /\ q = p THEN qoh[c][q] + -n ELSE qoh[c][q]
      BY <1>1, AddFacts
    <2> QED BY <2>1, <2>2
  <1> QED BY <1>2 DEF NoNegativeStock

(* No order of dispatches, receipts, cancellations, undone receipts,       *)
(* approvals and sales overdraws a branch.  TypeOK is the strengthening:   *)
(* the quantity an undo takes is the one a receipt recorded.               *)
THEOREM StockNeverNegative == Spec => []NoNegativeStock
  <1>1. Init => NoNegativeStock
    BY ConstantsAssumption DEF Init, NoNegativeStock
  <1>2. TypeOK /\ NoNegativeStock /\ [Next]_vars => NoNegativeStock'
    <2> SUFFICES ASSUME TypeOK, NoNegativeStock, [Next]_vars PROVE NoNegativeStock'
      OBVIOUS
    <2>0. StockTyped /\ ShipsTyped /\ qoh \in Balances
      BY TypeParts DEF StockTyped
    <2>1. ASSUME NEW sh \in Ships, post_shipments(sh) PROVE NoNegativeStock'
      <3>1. /\ Manifest[sh].sent <= qoh[Manifest[sh].source][Manifest[sh].product]
            /\ qoh' = Add(qoh, Manifest[sh].source, Manifest[sh].product, -Manifest[sh].sent)
        BY <2>1 DEF post_shipments
      <3> QED BY <2>0, <3>1, ManifestFields, DebitKeepsNatural
    <2>2. ASSUME NEW w \in Workers, post_receive(w) PROVE NoNegativeStock'
      <3> DEFINE sh == req[w].ship
                 r  == req[w].receipt
      <3>1. sh \in Ships
        BY <2>0, <2>2, PendingShip DEF post_receive
      <3>2. r \in ReceiptsOf[sh]
        BY <2>0, <2>2 DEF post_receive, ShipsTyped
      <3>3. r.qty \in Nat
        BY <3>1, <3>2, ReceiptFields
      <3>4. qoh' = Add(qoh, Manifest[sh].dest, Manifest[sh].product, r.qty)
        BY <2>2 DEF post_receive
      <3> QED BY <2>0, <3>1, <3>3, <3>4, ManifestFields, CreditKeepsNatural
    <2>3. ASSUME NEW w \in Workers, post_cancel(w) \/ approveCancel(w)
          PROVE  NoNegativeStock'
      <3> DEFINE sh == req[w].ship
      <3>1. sh \in Ships
        BY <2>0, <2>3, PendingShip DEF post_cancel, approveCancel
      <3>2. qoh' = Add(qoh, Manifest[sh].source, Manifest[sh].product, Manifest[sh].sent)
        BY <2>3 DEF post_cancel, approveCancel, restoreSource
      <3> QED BY <2>0, <3>1, <3>2, ManifestFields, CreditKeepsNatural
    <2>4. ASSUME NEW sh \in Ships, NEW n \in Nat, undoReceiveStock(sh, n)
          PROVE  NoNegativeStock'
      <3>1. /\ n <= qoh[Manifest[sh].dest][Manifest[sh].product]
            /\ qoh' = Add(qoh, Manifest[sh].dest, Manifest[sh].product, -n)
        BY <2>4 DEF undoReceiveStock
      <3> QED BY <2>0, <3>1, ManifestFields, DebitKeepsNatural
    <2>5. ASSUME NEW w \in Workers, post_cancelReceive(w) PROVE NoNegativeStock'
      <3>1. req[w].ship \in Ships
        BY <2>0, <2>5, PendingShip DEF post_cancelReceive
      <3>2. got[req[w].ship] \in ReceiptsOf[req[w].ship]
        BY <2>0, <2>5, <3>1 DEF post_cancelReceive, MayUndo, ShipsTyped
      <3>3. got[req[w].ship].qty \in Nat
        BY <3>1, <3>2, ReceiptFields
      <3>4. undoReceiveStock(req[w].ship, got[req[w].ship].qty)
        BY <2>5 DEF post_cancelReceive
      <3> QED BY <2>4, <3>1, <3>3, <3>4
    <2>6. ASSUME NEW w \in Workers, approveUndo(w) PROVE NoNegativeStock'
      <3>1. req[w].ship \in Ships
        BY <2>0, <2>6, PendingShip DEF approveUndo
      <3>2. req[w].receipt \in ReceiptsOf[req[w].ship]
        BY <2>0, <2>6 DEF approveUndo, ShipsTyped
      <3>3. req[w].receipt.qty \in Nat
        BY <3>1, <3>2, ReceiptFields
      <3>4. undoReceiveStock(req[w].ship, req[w].receipt.qty)
        BY <2>6 DEF approveUndo
      <3> QED BY <2>4, <3>1, <3>3, <3>4
    <2>7. ASSUME NEW s \in Serials, claimInvoiceSerials(s) PROVE NoNegativeStock'
      <3>1. reg[s].branch \in Branches /\ ProductOf[s] \in Products
        BY ConstantsAssumption DEF TypeOK, Register
      <3>2. /\ qoh[reg[s].branch][ProductOf[s]] >= 1
            /\ qoh' = Add(qoh, reg[s].branch, ProductOf[s], -1)
        BY <2>7 DEF claimInvoiceSerials
      <3>3. 1 \in Nat /\ 1 <= qoh[reg[s].branch][ProductOf[s]]
        BY <2>0, <3>1, <3>2 DEF Balances
      <3> QED BY <2>0, <3>1, <3>2, <3>3, DebitKeepsNatural
    <2>8. CASE UNCHANGED qoh
      BY <2>8 DEF NoNegativeStock
    <2> QED
      BY <2>1, <2>2, <2>3, <2>5, <2>6, <2>7, <2>8
      DEF Next, vars, CheckReceive, CheckCancel, CheckCancelReceive, CheckApproval,
          Start, Abandon
  <1> QED BY <1>1, <1>2, TypeCorrect, PTL DEF Spec

-----------------------------------------------------------------------------
(* No unit is left in transit on a closed shipment. *)

(* Whoever receives a whole shipment ticks all of its serials. *)
CarefulDesk ==
    \A sh \in Ships : \A r \in ReceiptsOf[sh] :
        r.qty >= Manifest[sh].sent => r.serials = Manifest[sh].serials

(* Transfers are cancelled by the direct route only. *)
DirectRoutesOnly ==
    \A sh \in Ships :
        "CANCEL_TRANSFER" \notin Asks[sh] /\ "CANCEL_RECEIVE_TRANSFER" \notin Asks[sh]

NoApprovedCancel == \A w \in Workers : req[w].kind # "approvedCancel"

(* While the desk is careful and no approval cancels a transfer, a unit in *)
(* transit always belongs to a shipment that can still be received or      *)
(* cancelled, although post_receive acts on a status it read before its    *)
(* transaction: the serial gate and the flips keep the units in step.      *)
THEOREM UnitsNeverStranded ==
    ASSUME CarefulDesk, DirectRoutesOnly
    PROVE  Spec => []NoUnitStranded
  <1> DEFINE Inv == NoApprovedCancel /\ NoUnitStranded
  <1>1. Init => Inv
    BY DEF Init, NoApprovedCancel, NoUnitStranded, Idle
  <1>2. TypeOK /\ Inv /\ [Next]_vars => Inv'
    <2> SUFFICES ASSUME TypeOK, Inv, [Next]_vars PROVE Inv'
      OBVIOUS
    <2>0. StockTyped /\ ShipsTyped
      BY TypeParts
    <2>1. NoApprovedCancel'
      <3>1. ASSUME NEW w \in Workers, req' = [req EXCEPT ![w] = Idle]
            PROVE  NoApprovedCancel'
        BY <2>0, <3>1 DEF NoApprovedCancel, Idle, ShipsTyped
      <3>2. ASSUME NEW w \in Workers, NEW k, NEW sh, NEW r, Start(w, k, sh, r),
                   k # "approvedCancel"
            PROVE  NoApprovedCancel'
        BY <2>0, <3>2 DEF NoApprovedCancel, Start, ShipsTyped
      <3>3. ASSUME UNCHANGED req PROVE NoApprovedCancel'
        BY <3>3 DEF NoApprovedCancel
      <3>4. \A w \in Workers, sh \in Ships, type \in RequestKinds : ~CheckApproval(w, sh, type)
        BY DEF CheckApproval, DirectRoutesOnly
      <3> QED
        BY <3>1, <3>2, <3>3, <3>4
        DEF Next, vars, post_shipments, CheckReceive, CheckCancel, CheckCancelReceive,
            post_receive, post_cancel, post_cancelReceive, approveUndo, approveCancel,
            Abandon, claimInvoiceSerials
    <2> DEFINE OnOpen(s) == \E sh \in Ships :
                                /\ s \in Manifest[sh].serials
                                /\ status[sh] \in {"IN_TRANSIT", "DISCREPANCY"}
    <2>2. SUFFICES ASSUME NEW s \in Serials, reg'[s].status = "IN_TRANSIT"
                   PROVE  OnOpen(s)'
      BY <2>1 DEF NoUnitStranded
    <2>3. reg[s].status = "IN_TRANSIT" => OnOpen(s)
      BY DEF NoUnitStranded
    <2>4. ASSUME NEW sh \in Ships, post_shipments(sh) PROVE OnOpen(s)'
      <3>1. /\ reg' = flip(Manifest[sh].serials, "IN_STOCK", "IN_TRANSIT",
                            Manifest[sh].source, sh)
            /\ status' = [status EXCEPT ![sh] = "IN_TRANSIT"]
        BY <2>4 DEF post_shipments
      <3>2. s \in Manifest[sh].serials \/ reg[s].status = "IN_TRANSIT"
        BY <2>2, <3>1 DEF flip
      <3> QED BY <2>0, <2>3, <3>1, <3>2 DEF ShipsTyped
    <2>5. ASSUME NEW w \in Workers, post_receive(w) PROVE OnOpen(s)'
      <3> DEFINE sh == req[w].ship
                 r  == req[w].receipt
      <3>1. sh \in Ships /\ r \in ReceiptsOf[sh]
        BY <2>0, <2>5, PendingShip DEF post_receive, ShipsTyped
      <3>2. /\ reg' = flip(r.serials, "IN_TRANSIT", "IN_STOCK", Manifest[sh].dest, sh)
            /\ status' = [status EXCEPT ![sh] = IF r.qty < Manifest[sh].sent
                                                THEN "DISCREPANCY" ELSE "RECEIVED"]
        BY <2>5 DEF post_receive, receiveSerials
      <3>3. reg[s].status = "IN_TRANSIT" /\ s \notin r.serials
        BY <2>2, <3>2 DEF flip
      <3>4. r.qty \in Nat /\ Manifest[sh].sent \in Nat
        BY <3>1, ReceiptFields, ManifestFields
      <3>5. s \in Manifest[sh].serials => r.qty < Manifest[sh].sent
        BY <3>1, <3>3, <3>4 DEF CarefulDesk
      <3>6. PICK x \in Ships : /\ s \in Manifest[x].serials
                               /\ status[x] \in {"IN_TRANSIT", "DISCREPANCY"}
        BY <2>3, <3>3
      <3>7. status'[x] \in {"IN_TRANSIT", "DISCREPANCY"}
        BY <2>0, <3>2, <3>5, <3>6 DEF ShipsTyped
      <3> QED BY <3>6, <3>7
    <2>6. ASSUME NEW w \in Workers, post_cancel(w) PROVE OnOpen(s)'
      <3> DEFINE sh == req[w].ship
      <3>1. /\ reg' = flip(Manifest[sh].serials, "IN_TRANSIT", "IN_STOCK",
                            Manifest[sh].source, sh)
            /\ status' = [status EXCEPT ![sh] = "CANCELLED"]
        BY <2>6 DEF post_cancel, cancelSerials
      <3>2. reg[s].status = "IN_TRANSIT" /\ s \notin Manifest[sh].serials
        BY <2>2, <3>1 DEF flip
      <3>3. PICK x \in Ships : /\ s \in Manifest[x].serials
                               /\ status[x] \in {"IN_TRANSIT", "DISCREPANCY"}
        BY <2>3, <3>2
      <3>4. x # sh
        BY <3>2, <3>3
      <3> QED BY <2>0, <3>1, <3>3, <3>4 DEF ShipsTyped
    <2>7. ASSUME NEW w \in Workers, post_cancelReceive(w) PROVE OnOpen(s)'
      <3> DEFINE sh == req[w].ship
                 r  == got[sh]
      <3>1. sh \in Ships
        BY <2>0, <2>7, PendingShip DEF post_cancelReceive
      <3>2. r \in ReceiptsOf[sh]
        BY <2>0, <2>7, <3>1 DEF post_cancelReceive, MayUndo, ShipsTyped
      <3>3. /\ reg' = flip(undoSerials(sh, r), "IN_STOCK", "IN_TRANSIT",
                            Manifest[sh].source, sh)
            /\ status' = [status EXCEPT ![sh] = "IN_TRANSIT"]
        BY <2>7 DEF post_cancelReceive
      <3>4. undoSerials(sh, r) \subseteq Manifest[sh].serials
        BY <3>1, <3>2, ReceiptFields DEF undoSerials
      <3>5. s \in Manifest[sh].serials \/ reg[s].status = "IN_TRANSIT"
        BY <2>2, <3>3, <3>4 DEF flip
      <3> HIDE DEF sh, r
      <3> QED BY <2>0, <2>3, <3>1, <3>3, <3>5 DEF ShipsTyped
    <2>8. ASSUME NEW w \in Workers, approveUndo(w) PROVE OnOpen(s)'
      <3>1. req[w].ship \in Ships
        BY <2>0, <2>8, PendingShip DEF approveUndo
      <3>2. reg' = reg /\ status' = [status EXCEPT ![req[w].ship] = "IN_TRANSIT"]
        BY <2>8 DEF approveUndo
      <3> QED BY <2>0, <2>2, <2>3, <3>1, <3>2 DEF ShipsTyped
    <2>9. ASSUME NEW w \in Workers PROVE ~approveCancel(w)
      BY DEF NoApprovedCancel, approveCancel
    <2>10. ASSUME NEW u \in Serials, claimInvoiceSerials(u) PROVE OnOpen(s)'
      <3>1. /\ reg' = [reg EXCEPT ![u] = [status |-> "CUSTOMER_ASSIGNED",
                                          branch |-> reg[u].branch, source |-> NoShip]]
            /\ status' = status
        BY <2>10 DEF claimInvoiceSerials
      <3>2. reg[s].status = "IN_TRANSIT"
        BY <2>0, <2>2, <3>1 DEF StockTyped, Register
      <3> QED BY <2>3, <3>1, <3>2
    <2>11. CASE UNCHANGED <<reg, status>>
      BY <2>2, <2>3, <2>11
    <2> HIDE DEF OnOpen
    <2> QED
      BY <2>4, <2>5, <2>6, <2>7, <2>8, <2>9, <2>10, <2>11
      DEF Next, vars, CheckReceive, CheckCancel, CheckCancelReceive, CheckApproval,
          Start, Abandon
  <1>3. Inv => NoUnitStranded
    OBVIOUS
  <1> QED BY <1>1, <1>2, <1>3, TypeCorrect, PTL DEF Spec

-----------------------------------------------------------------------------
(* From here on: requests that keep apart, and whole receipts.  What each  *)
(* transaction then does, on the direct route and through an approval.     *)

Written == <<qoh, incoming, reg, status, got, ledger, journal>>

(* No receipt was short, and what a request read still stands. *)
OnTrack ==
    /\ \A sh \in Ships : status[sh] # "DISCREPANCY"
    /\ \A w \in Workers :
          /\ req[w].kind \in {"receive", "approvedCancel"} =>
                status[req[w].ship] = "IN_TRANSIT"
          /\ req[w].kind = "approvedUndo" =>
                /\ status[req[w].ship] = "RECEIVED"
                /\ req[w].receipt = got[req[w].ship]
          /\ req[w].kind \in {"approvedCancel", "approvedUndo"} =>
                ~(Asks[req[w].ship] \subseteq {"receive", "cancel", "cancelReceive"})

Moves(sh, from, to) ==
    /\ status[sh] = from /\ status'[sh] = to
    /\ \A x \in Ships \ {sh} : /\ status'[x] = status[x] /\ got'[x] = got[x]
                               /\ journal'[x] = journal[x]

Credited(c, q, n) ==
    \A b \in Branches, p \in Products :
        qoh'[b][p] = IF b = c /\ p = q THEN qoh[b][p] + n ELSE qoh[b][p]

(* The direct route moves serials and writes a row, an approval neither. *)
ByRoute(sh, direct) ==
    \/ direct
    \/ /\ ~(Asks[sh] \subseteq {"receive", "cancel", "cancelReceive"})
       /\ reg' = reg /\ ledger' = ledger

Dispatches(sh) ==
    LET m == Manifest[sh] IN
    /\ Moves(sh, "NONE", "IN_TRANSIT")
    /\ got'[sh] = got[sh]
    /\ Credited(m.source, m.product, -m.sent)
    /\ incoming' = Add(incoming, m.dest, m.product, m.sent)
    /\ journal'[sh] = [journal[sh] EXCEPT !.out = @ + 1]
    /\ Gate(m.serials, "IN_STOCK", m.source)
    /\ reg' = flip(m.serials, "IN_STOCK", "IN_TRANSIT", m.source, sh)
    /\ ledger' = insertTransferTxn(sh, "TRANSFER_OUT", m.source, -m.sent)

Receives(sh) ==
    LET m == Manifest[sh] IN
    /\ Moves(sh, "IN_TRANSIT", "RECEIVED")
    /\ got'[sh] \in ReceiptsOf[sh] /\ got'[sh].qty = m.sent
    /\ Credited(m.dest, m.product, m.sent)
    /\ incoming' = releaseDest(sh, m.sent)
    /\ journal'[sh] = [journal[sh] EXCEPT !.in = @ + 1]
    /\ Gate(got'[sh].serials, "IN_TRANSIT", m.source)
    /\ reg' = flip(got'[sh].serials, "IN_TRANSIT", "IN_STOCK", m.dest, sh)
    /\ ledger' = insertTransferTxn(sh, "TRANSFER_IN", m.dest, m.sent)

Cancels(sh) ==
    LET m == Manifest[sh] IN
    /\ Moves(sh, "IN_TRANSIT", "CANCELLED")
    /\ got'[sh] = got[sh]
    /\ Credited(m.source, m.product, m.sent)
    /\ incoming' = releaseDest(sh, m.sent)
    /\ journal' = reverseOut(sh)
    /\ ByRoute(sh, /\ reg' = cancelSerials(sh)
                   /\ ledger' = insertTransferTxn(sh, "TRANSFER_CANCELLED", m.source, m.sent))

Undoes(sh) ==
    LET m == Manifest[sh] IN
    /\ Moves(sh, "RECEIVED", "IN_TRANSIT")
    /\ got'[sh] = got[sh] /\ got[sh] \in ReceiptsOf[sh] /\ got[sh].qty = m.sent
    /\ m.sent <= qoh[m.dest][m.product]
    /\ Credited(m.dest, m.product, -m.sent)
    /\ incoming' = Add(incoming, m.dest, m.product, m.sent)
    /\ journal' = reverseIn(sh)
    /\ ByRoute(sh, /\ \E w \in Workers : req[w].kind = "cancelReceive" /\ req[w].ship = sh
                   /\ reg' = flip(undoSerials(sh, got[sh]), "IN_STOCK", "IN_TRANSIT",
                                  m.source, sh)
                   /\ ledger' = insertTransferTxn(sh, "TRANSFER_RECEIPT_CANCELLED",
                                                  m.dest, -m.sent))

Sells(s) ==
    /\ reg[s].status = "IN_STOCK"
    /\ reg' = [reg EXCEPT ![s] = [status |-> "CUSTOMER_ASSIGNED", branch |-> reg[s].branch,
                                  source |-> NoShip]]
    /\ Credited(reg[s].branch, ProductOf[s], -1)
    /\ UNCHANGED <<incoming, status, got, ledger, journal>>

(* Adding to a balance credits it. *)
LEMMA AddCredits ==
    ASSUME qoh \in Balances, NEW b \in Branches, NEW p \in Products, NEW n \in Int,
           qoh' = Add(qoh, b, p, n)
    PROVE  Credited(b, p, n)
  BY AddFacts DEF Credited

LEMMA DispatchSteps ==
    ASSUME TypeOK, NEW sh \in Ships, post_shipments(sh)
    PROVE  Dispatches(sh)
  <1> DEFINE m == Manifest[sh]
  <1>1. /\ qoh \in Balances /\ status \in [Ships -> Statuses]
        /\ journal \in [Ships -> JournalCounts]
    BY DEF TypeOK, Balances
  <1>2. /\ status[sh] = "NONE" /\ Gate(m.serials, "IN_STOCK", m.source)
        /\ reg' = flip(m.serials, "IN_STOCK", "IN_TRANSIT", m.source, sh)
        /\ status' = [status EXCEPT ![sh] = "IN_TRANSIT"]
        /\ qoh' = Add(qoh, m.source, m.product, -m.sent)
        /\ incoming' = Add(incoming, m.dest, m.product, m.sent)
        /\ ledger' = insertTransferTxn(sh, "TRANSFER_OUT", m.source, -m.sent)
        /\ journal' = [journal EXCEPT ![sh].out = @ + 1]
        /\ got' = got
    BY DEF post_shipments
  <1>3. m.source \in Branches /\ m.product \in Products /\ -m.sent \in Int
    BY ManifestFields
  <1> HIDE DEF m
  <1>4. Credited(m.source, m.product, -m.sent)
    BY <1>1, <1>2, <1>3, AddCredits
  <1>5. Moves(sh, "NONE", "IN_TRANSIT") /\ journal'[sh] = [journal[sh] EXCEPT !.out = @ + 1]
    BY <1>1, <1>2 DEF Moves
  <1> QED BY <1>2, <1>4, <1>5 DEF Dispatches, m

LEMMA ReceiveSteps ==
    ASSUME WholeReceipts, TypeOK, OnTrack, NEW w \in Workers, post_receive(w)
    PROVE  Receives(req[w].ship)
  <1> DEFINE sh == req[w].ship
             m  == Manifest[sh]
             r  == req[w].receipt
  <1>1. /\ qoh \in Balances /\ status \in [Ships -> Statuses] /\ ShipsTyped
        /\ got \in [Ships -> Receipt \cup {NoReceipt}]
        /\ journal \in [Ships -> JournalCounts]
    BY TypeParts DEF TypeOK, Balances
  <1>2. /\ req[w].kind = "receive" /\ Gate(r.serials, "IN_TRANSIT", m.source)
        /\ status' = [status EXCEPT ![sh] = IF r.qty < m.sent THEN "DISCREPANCY"
                                                              ELSE "RECEIVED"]
        /\ got' = [got EXCEPT ![sh] = r]
        /\ reg' = flip(r.serials, "IN_TRANSIT", "IN_STOCK", m.dest, sh)
        /\ qoh' = Add(qoh, m.dest, m.product, r.qty)
        /\ incoming' = releaseDest(sh, r.qty)
        /\ ledger' = insertTransferTxn(sh, "TRANSFER_IN", m.dest, r.qty)
        /\ journal' = IF r.qty > 0 THEN [journal EXCEPT ![sh].in = @ + 1] ELSE journal
    BY DEF post_receive, receiveSerials
  <1>3. sh \in Ships /\ r \in ReceiptsOf[sh] /\ status[sh] = "IN_TRANSIT"
    BY <1>1, <1>2, PendingShip DEF ShipsTyped, OnTrack
  <1> HIDE DEF sh, r
  <1>4. r.qty = m.sent
    BY <1>3 DEF WholeReceipts
  <1>5. m.dest \in Branches /\ m.product \in Products /\ m.sent \in Int /\ m.sent > 0
    BY <1>3, ManifestFields
  <1> HIDE DEF m
  <1>6. Credited(m.dest, m.product, m.sent)
    BY <1>1, <1>2, <1>4, <1>5, AddCredits
  <1>7. ~(r.qty < m.sent) /\ r.qty > 0
    BY <1>4, <1>5
  <1>8. /\ Moves(sh, "IN_TRANSIT", "RECEIVED") /\ got'[sh] = r
        /\ journal'[sh] = [journal[sh] EXCEPT !.in = @ + 1]
    BY <1>1, <1>2, <1>3, <1>7 DEF Moves
  <1>9. /\ incoming' = releaseDest(sh, m.sent)
        /\ ledger' = insertTransferTxn(sh, "TRANSFER_IN", m.dest, m.sent)
    BY <1>2, <1>4
  <1>10. Receives(sh)
    BY <1>2, <1>3, <1>4, <1>6, <1>8, <1>9 DEF Receives, m
  <1> QED BY <1>10 DEF sh

(* Reversing a leg touches the journals of its shipment only. *)
LEMMA ReversalElsewhere ==
    ASSUME journal \in [Ships -> JournalCounts], NEW sh \in Ships
    PROVE  \A x \in Ships \ {sh} : reverseOut(sh)[x] = journal[x] /\ reverseIn(sh)[x] = journal[x]
  BY DEF reverseOut, reverseIn

LEMMA CancelSteps ==
    ASSUME TypeOK, OnTrack, NEW w \in Workers, post_cancel(w) \/ approveCancel(w)
    PROVE  Cancels(req[w].ship)
  <1> DEFINE sh == req[w].ship
             m  == Manifest[sh]
  <1>1. /\ qoh \in Balances /\ status \in [Ships -> Statuses] /\ ShipsTyped
        /\ journal \in [Ships -> JournalCounts]
    BY TypeParts DEF TypeOK, Balances
  <1>2. /\ req[w].kind \in {"cancel", "approvedCancel"}
        /\ req[w].kind = "cancel" => MayCancel(sh)
        /\ status' = [status EXCEPT ![sh] = "CANCELLED"] /\ got' = got
        /\ qoh' = Add(qoh, m.source, m.product, m.sent)
        /\ incoming' = releaseDest(sh, m.sent)
        /\ journal' = reverseOut(sh)
    BY DEF post_cancel, approveCancel, restoreSource
  <1>3. sh \in Ships
    BY <1>1, <1>2, PendingShip
  <1>4. status[sh] = "IN_TRANSIT"
    BY <1>2, <1>3 DEF OnTrack, MayCancel
  <1>5. ByRoute(sh, /\ reg' = cancelSerials(sh)
                    /\ ledger' = insertTransferTxn(sh, "TRANSFER_CANCELLED", m.source, m.sent))
    BY DEF ByRoute, post_cancel, approveCancel, OnTrack
  <1> HIDE DEF sh
  <1>6. m.source \in Branches /\ m.product \in Products /\ m.sent \in Int
    BY <1>3, ManifestFields
  <1>7. Credited(m.source, m.product, m.sent)
    BY <1>1, <1>2, <1>6, AddCredits
  <1>8. Moves(sh, "IN_TRANSIT", "CANCELLED") /\ got'[sh] = got[sh]
    BY <1>1, <1>2, <1>3, <1>4, ReversalElsewhere DEF Moves
  <1>9. Cancels(sh)
    BY <1>2, <1>5, <1>7, <1>8 DEF Cancels
  <1> QED BY <1>9 DEF sh

LEMMA UndoSteps ==
    ASSUME WholeReceipts, TypeOK, OnTrack, NEW w \in Workers,
           post_cancelReceive(w) \/ approveUndo(w)
    PROVE  Undoes(req[w].ship)
  <1> DEFINE sh == req[w].ship
             m  == Manifest[sh]
             n  == got[sh].qty
  <1>1. /\ qoh \in Balances /\ status \in [Ships -> Statuses] /\ ShipsTyped
        /\ journal \in [Ships -> JournalCounts]
    BY TypeParts DEF TypeOK, Balances
  <1>2. /\ req[w].kind \in {"cancelReceive", "approvedUndo"}
        /\ req[w].kind = "cancelReceive" => MayUndo(sh)
        /\ status' = [status EXCEPT ![sh] = "IN_TRANSIT"] /\ got' = got
        /\ journal' = reverseIn(sh)
    BY DEF post_cancelReceive, approveUndo
  <1>3. sh \in Ships
    BY <1>1, <1>2, PendingShip
  <1>4. status[sh] = "RECEIVED"
    BY <1>2, <1>3 DEF OnTrack, MayUndo
  <1>5. got[sh] \in ReceiptsOf[sh] /\ n = m.sent
    BY <1>1, <1>3, <1>4 DEF ShipsTyped, WholeReceipts
  <1>6. undoReceiveStock(sh, n)
    BY <1>2 DEF post_cancelReceive, approveUndo, OnTrack
  <1>7. /\ m.sent <= qoh[m.dest][m.product]
        /\ qoh' = Add(qoh, m.dest, m.product, -m.sent)
        /\ incoming' = Add(incoming, m.dest, m.product, m.sent)
    BY <1>5, <1>6 DEF undoReceiveStock
  <1>8. m.dest \in Branches /\ m.product \in Products /\ m.sent > 0 /\ -m.sent \in Int
    BY <1>3, ManifestFields
  <1>9. ByRoute(sh, /\ \E v \in Workers : req[v].kind = "cancelReceive" /\ req[v].ship = sh
                    /\ reg' = flip(undoSerials(sh, got[sh]), "IN_STOCK", "IN_TRANSIT",
                                   m.source, sh)
                    /\ ledger' = insertTransferTxn(sh, "TRANSFER_RECEIPT_CANCELLED",
                                                   m.dest, -m.sent))
    <2>1. CASE post_cancelReceive(w)
      <3>1. /\ req[w].kind = "cancelReceive"
            /\ ledger' = IF n > 0
                         THEN insertTransferTxn(sh, "TRANSFER_RECEIPT_CANCELLED", m.dest, -n)
                         ELSE ledger
            /\ reg' = flip(undoSerials(sh, got[sh]), "IN_STOCK", "IN_TRANSIT", m.source, sh)
        BY <2>1 DEF post_cancelReceive
      <3> HIDE DEF n, m
      <3>2. ledger' = insertTransferTxn(sh, "TRANSFER_RECEIPT_CANCELLED", m.dest, -m.sent)
        BY <1>5, <1>8, <3>1
      <3> QED BY <3>1, <3>2 DEF ByRoute
    <2>2. CASE approveUndo(w)
      BY <2>2 DEF ByRoute, approveUndo, OnTrack
    <2> QED BY <2>1, <2>2
  <1> HIDE DEF sh, n
  <1>10. Credited(m.dest, m.product, -m.sent)
    BY <1>1, <1>7, <1>8, AddCredits
  <1>11. Moves(sh, "RECEIVED", "IN_TRANSIT") /\ got'[sh] = got[sh]
    BY <1>1, <1>2, <1>3, <1>4, ReversalElsewhere DEF Moves
  <1>12. got[sh].qty = m.sent
    BY <1>5 DEF n
  <1>13. Undoes(sh)
    BY <1>2, <1>5, <1>7, <1>9, <1>10, <1>11, <1>12 DEF Undoes
  <1> QED BY <1>13 DEF sh

LEMMA SaleSteps ==
    ASSUME TypeOK, NEW s \in Serials, claimInvoiceSerials(s)
    PROVE  Sells(s)
  <1>1. reg[s].branch \in Branches /\ ProductOf[s] \in Products /\ qoh \in Balances
    BY ConstantsAssumption DEF TypeOK, Register, Balances
  <1>2. /\ reg[s].status = "IN_STOCK"
        /\ reg' = [reg EXCEPT ![s] = [status |-> "CUSTOMER_ASSIGNED",
                                      branch |-> reg[s].branch, source |-> NoShip]]
        /\ qoh' = Add(qoh, reg[s].branch, ProductOf[s], -1)
        /\ UNCHANGED <<incoming, status, got, ledger, journal>>
    BY DEF claimInvoiceSerials
  <1>3. Credited(reg[s].branch, ProductOf[s], -1)
    BY <1>1, <1>2, AddCredits
  <1> QED BY <1>2, <1>3 DEF Sells

(* Every step is one of these. *)
LEMMA ShipSteps ==
    ASSUME WholeReceipts, TypeOK, OnTrack, [Next]_vars
    PROVE  \/ \E sh \in Ships : \/ Dispatches(sh) \/ Receives(sh)
                                \/ Cancels(sh) \/ Undoes(sh)
           \/ \E s \in Serials : Sells(s)
           \/ UNCHANGED Written
  <1>1. \A w \in Workers : req[w].kind # "idle" => req[w].ship \in Ships
    BY DEF TypeOK, Pending, Idle
  <1>2. ASSUME NEW w \in Workers, post_receive(w) PROVE \E sh \in Ships : Receives(sh)
    BY <1>1, <1>2, ReceiveSteps DEF post_receive
  <1>3. ASSUME NEW w \in Workers, post_cancel(w) \/ approveCancel(w)
        PROVE  \E sh \in Ships : Cancels(sh)
    BY <1>1, <1>3, CancelSteps DEF post_cancel, approveCancel
  <1>4. ASSUME NEW w \in Workers, post_cancelReceive(w) \/ approveUndo(w)
        PROVE  \E sh \in Ships : Undoes(sh)
    BY <1>1, <1>4, UndoSteps DEF post_cancelReceive, approveUndo
  <1>5. ASSUME NEW w \in Workers, NEW k, NEW sh, NEW r, Start(w, k, sh, r)
        PROVE  UNCHANGED Written
    BY <1>5 DEF Start, Written
  <1>6. ASSUME NEW w \in Workers, Abandon(w) PROVE UNCHANGED Written
    BY <1>6 DEF Abandon, Written
  <1>7. CASE UNCHANGED vars
    BY <1>7 DEF vars, Written
  <1> QED
    BY <1>2, <1>3, <1>4, <1>5, <1>6, <1>7, DispatchSteps, SaleSteps
    DEF Next, CheckReceive, CheckCancel, CheckCancelReceive, CheckApproval

LEMMA OnTrackKept ==
    ASSUME WholeReceipts, TypeOK, OnTrack, Apart, [Next]_vars
    PROVE  OnTrack'
  <1> DEFINE Stands(q, st, g) ==
        /\ q.kind \in {"receive", "approvedCancel"} => st = "IN_TRANSIT"
        /\ q.kind = "approvedUndo" => st = "RECEIVED" /\ q.receipt = g
        /\ q.kind \in {"approvedCancel", "approvedUndo"} =>
              ~(Asks[q.ship] \subseteq {"receive", "cancel", "cancelReceive"})
  <1>0. /\ \A sh \in Ships : status[sh] # "DISCREPANCY"
        /\ \A w \in Workers : Stands(req[w], status[req[w].ship], got[req[w].ship])
        /\ \A w \in Workers : req[w].kind # "idle" =>
              req[w].ship \in Ships /\ status[req[w].ship] # "NONE"
        /\ \A w \in Workers : req[w] = Idle \/ req[w].kind # "idle"
    BY DEF OnTrack, TypeOK, Pending, Idle
  <1>1. ASSUME \A sh \in Ships : status'[sh] # "DISCREPANCY",
               \A w \in Workers : Stands(req'[w], status'[req'[w].ship], got'[req'[w].ship])
        PROVE  OnTrack'
    BY <1>1 DEF OnTrack
  <1>2. \A st, g : Stands(Idle, st, g)
    BY DEF Idle
  <1>3. ASSUME NEW w \in Workers, req' = [req EXCEPT ![w] = Idle], NEW st,
               Moves(req[w].ship, st, status'[req[w].ship]),
               status'[req[w].ship] # "DISCREPANCY", req[w].kind # "idle"
        PROVE  OnTrack'
    <2>1. \A sh \in Ships : status'[sh] # "DISCREPANCY"
      BY <1>0, <1>3 DEF Moves
    <2>2. ASSUME NEW v \in Workers
          PROVE  Stands(req'[v], status'[req'[v].ship], got'[req'[v].ship])
      <3>1. CASE v = w
        <4>1. req'[v] = Idle
          BY <1>3, <3>1 DEF TypeOK
        <4> HIDE DEF Stands
        <4> QED BY <1>2, <4>1
      <3>2. CASE v # w
        <4>1. req'[v] = req[v]
          BY <1>3, <3>2 DEF TypeOK
        <4>2. CASE req[v].kind = "idle"
          <5>1. req[v] = Idle
            BY <1>0, <4>2
          <5> HIDE DEF Stands
          <5> QED BY <1>2, <4>1, <5>1
        <4>3. CASE req[v].kind # "idle"
          <5>1. req[v].ship \in Ships \ {req[w].ship}
            BY <1>0, <1>3, <3>2, <4>3 DEF Apart
          <5>2. status'[req[v].ship] = status[req[v].ship] /\ got'[req[v].ship] = got[req[v].ship]
            BY <1>3, <5>1 DEF Moves
          <5>3. Stands(req[v], status[req[v].ship], got[req[v].ship])
            BY <1>0
          <5> HIDE DEF Stands
          <5> QED BY <4>1, <5>2, <5>3
        <4> QED BY <4>2, <4>3
      <3> QED BY <3>1, <3>2
    <2> HIDE DEF Stands
    <2> QED BY <1>1, <2>1, <2>2
  <1>4. ASSUME NEW w \in Workers, NEW k, NEW sh \in Ships, NEW r, Start(w, k, sh, r),
               Stands([kind |-> k, ship |-> sh, receipt |-> r], status[sh], got[sh])
        PROVE  OnTrack'
    <2>1. /\ UNCHANGED <<status, got>>
          /\ \A v \in Workers : req'[v] = IF v = w THEN [kind |-> k, ship |-> sh, receipt |-> r]
                                                   ELSE req[v]
      BY <1>4 DEF Start, TypeOK
    <2> HIDE DEF Stands
    <2>2. ASSUME NEW v \in Workers
          PROVE  Stands(req'[v], status'[req'[v].ship], got'[req'[v].ship])
      <3>1. CASE v = w
        <4>1. req'[v] = [kind |-> k, ship |-> sh, receipt |-> r] /\ req'[v].ship = sh
          BY <2>1, <3>1
        <4> QED BY <1>4, <2>1, <4>1
      <3>2. CASE v # w
        <4>1. req'[v] = req[v]
          BY <2>1, <3>2
        <4> QED BY <1>0, <2>1, <4>1
      <3> QED BY <3>1, <3>2
    <2> QED BY <1>0, <1>1, <2>1, <2>2
  <1>5. ASSUME NEW sh \in Ships, post_shipments(sh) PROVE OnTrack'
    <2>1. Dispatches(sh) /\ req' = req
      BY <1>5, DispatchSteps DEF post_shipments
    <2>2. /\ \A x \in Ships \ {sh} : status'[x] = status[x] /\ got'[x] = got[x]
          /\ status[sh] = "NONE" /\ status'[sh] = "IN_TRANSIT"
      BY <2>1 DEF Dispatches, Moves
    <2> HIDE DEF Stands
    <2>3. ASSUME NEW v \in Workers
          PROVE  Stands(req'[v], status'[req'[v].ship], got'[req'[v].ship])
      <3>1. CASE req[v].kind = "idle"
        <4>1. req[v] = Idle
          BY <1>0, <3>1
        <4> QED BY <1>2, <2>1, <4>1
      <3>2. CASE req[v].kind # "idle"
        <4>1. req[v].ship \in Ships \ {sh}
          BY <1>0, <2>2, <3>2
        <4>2. /\ status'[req[v].ship] = status[req[v].ship] /\ got'[req[v].ship] = got[req[v].ship]
              /\ req'[v] = req[v]
          BY <2>1, <2>2, <4>1
        <4> QED BY <1>0, <4>2
      <3> QED BY <3>1, <3>2
    <2> QED BY <1>0, <1>1, <2>2, <2>3
  <1>6. ASSUME NEW w \in Workers, NEW sh \in Ships, NEW r, CheckReceive(w, sh, r)
        PROVE  OnTrack'
    <2>1. status[sh] = "IN_TRANSIT" /\ Start(w, "receive", sh, r)
      BY <1>0, <1>6 DEF CheckReceive, TypeOK, Statuses
    <2> QED BY <1>4, <2>1
  <1>7. ASSUME NEW w \in Workers, NEW sh \in Ships, CheckCancel(w, sh) \/ CheckCancelReceive(w, sh)
        PROVE  OnTrack'
    <2>1. Start(w, "cancel", sh, NoReceipt) \/ Start(w, "cancelReceive", sh, NoReceipt)
      BY <1>7 DEF CheckCancel, CheckCancelReceive
    <2> QED BY <1>4, <2>1
  <1>8. ASSUME NEW w \in Workers, NEW sh \in Ships, NEW type, CheckApproval(w, sh, type)
        PROVE  OnTrack'
    <2>1. ~(Asks[sh] \subseteq {"receive", "cancel", "cancelReceive"})
      BY <1>8 DEF CheckApproval
    <2>2. \/ status[sh] = "RECEIVED" /\ Start(w, "approvedUndo", sh, got[sh])
          \/ status[sh] = "IN_TRANSIT" /\ Start(w, "approvedCancel", sh, NoReceipt)
      BY <1>0, <1>8 DEF CheckApproval, MayUndo, MayCancel
    <2> QED BY <1>4, <2>1, <2>2
  <1>9. ASSUME NEW w \in Workers, post_receive(w) PROVE OnTrack'
    BY <1>3, <1>9, ReceiveSteps DEF post_receive, Receives, Moves
  <1>10. ASSUME NEW w \in Workers, post_cancel(w) \/ approveCancel(w) PROVE OnTrack'
    BY <1>3, <1>10, CancelSteps DEF post_cancel, approveCancel, Cancels, Moves
  <1>11. ASSUME NEW w \in Workers, post_cancelReceive(w) \/ approveUndo(w) PROVE OnTrack'
    BY <1>3, <1>11, UndoSteps DEF post_cancelReceive, approveUndo, Undoes, Moves
  <1>12. ASSUME NEW w \in Workers, Abandon(w) PROVE OnTrack'
    <2>1. /\ UNCHANGED <<status, got>>
          /\ \A v \in Workers : req'[v] = IF v = w THEN Idle ELSE req[v]
      BY <1>12 DEF Abandon, TypeOK
    <2> HIDE DEF Stands
    <2> QED BY <1>0, <1>1, <1>2, <2>1
  <1>13. CASE UNCHANGED <<status, got, req>>
    <2> HIDE DEF Stands
    <2> QED BY <1>0, <1>1, <1>13
  <1> HIDE DEF Stands
  <1> QED
    BY <1>5, <1>6, <1>7, <1>8, <1>9, <1>10, <1>11, <1>12, <1>13
    DEF Next, vars, claimInvoiceSerials

LEMMA OnTrackAlways ==
    ASSUME WholeReceipts
    PROVE  Spec /\ []Apart => []OnTrack
  <1>1. Init => OnTrack
    BY DEF Init, OnTrack, Idle
  <1>2. TypeOK /\ OnTrack /\ Apart /\ [Next]_vars => OnTrack'
    BY OnTrackKept
  <1> QED BY <1>1, <1>2, TypeCorrect, PTL DEF Spec

-----------------------------------------------------------------------------
(* The journals follow the shipments. *)

(* The standing journals are one dispatch while a shipment is not          *)
(* cancelled and one receipt while it is received, for any number of       *)
(* shipments, branches and rounds of receipt and undo.                     *)
THEOREM BooksFollowShipments ==
    ASSUME WholeReceipts
    PROVE  Spec /\ []Apart => []JournalsFollowShipments
  <1>1. Init => JournalsFollowShipments
    BY DEF Init, JournalsFollowShipments, Delivered
  <1>2. TypeOK /\ OnTrack /\ JournalsFollowShipments /\ [Next]_vars => JournalsFollowShipments'
    <2> SUFFICES ASSUME TypeOK, OnTrack, JournalsFollowShipments, [Next]_vars
                 PROVE  JournalsFollowShipments'
      OBVIOUS
    <2> DEFINE Stand(j, st, g) ==
          /\ j.out - j.outContra = IF st \in {"NONE", "CANCELLED"} THEN 0 ELSE 1
          /\ j.in - j.inContra = IF st \in {"RECEIVED", "DISCREPANCY"} /\ g.qty > 0 THEN 1 ELSE 0
    <2>0. \A x \in Ships : Stand(journal[x], status[x], got[x]) /\ journal[x] \in JournalCounts
      BY DEF JournalsFollowShipments, Delivered, TypeOK
    <2>1. (\A x \in Ships : Stand(journal'[x], status'[x], got'[x])) => JournalsFollowShipments'
      BY DEF JournalsFollowShipments, Delivered
    <2>2. ASSUME NEW sh \in Ships, NEW from, NEW to, Moves(sh, from, to),
                 Stand(journal'[sh], to, got'[sh])
          PROVE  JournalsFollowShipments'
      <3> HIDE DEF Stand
      <3> QED BY <2>0, <2>1, <2>2 DEF Moves
    <2>3. ASSUME NEW sh \in Ships, Dispatches(sh) PROVE JournalsFollowShipments'
      <3>1. /\ Moves(sh, "NONE", "IN_TRANSIT") /\ status[sh] = "NONE"
            /\ journal'[sh] = [journal[sh] EXCEPT !.out = @ + 1]
        BY <2>3 DEF Dispatches, Moves
      <3>2. /\ journal'[sh].out = journal[sh].out + 1
            /\ journal'[sh].outContra = journal[sh].outContra
            /\ journal'[sh].in = journal[sh].in /\ journal'[sh].inContra = journal[sh].inContra
            /\ journal[sh].out \in Nat /\ journal[sh].outContra \in Nat
        BY <2>0, <3>1 DEF JournalCounts
      <3>3. Stand(journal'[sh], "IN_TRANSIT", got'[sh])
        BY <2>0, <3>1, <3>2
      <3> QED BY <2>2, <3>1, <3>3
    <2>4. ASSUME NEW sh \in Ships, Receives(sh) PROVE JournalsFollowShipments'
      <3>1. /\ Moves(sh, "IN_TRANSIT", "RECEIVED") /\ status[sh] = "IN_TRANSIT"
            /\ journal'[sh] = [journal[sh] EXCEPT !.in = @ + 1]
            /\ got'[sh].qty = Manifest[sh].sent
        BY <2>4 DEF Receives, Moves
      <3>2. got'[sh].qty > 0
        BY <3>1, ManifestFields
      <3>3. Stand(journal'[sh], "RECEIVED", got'[sh])
        BY <2>0, <3>1, <3>2 DEF JournalCounts
      <3> QED BY <2>2, <3>1, <3>3
    <2>5. ASSUME NEW sh \in Ships, Cancels(sh) PROVE JournalsFollowShipments'
      <3>1. /\ Moves(sh, "IN_TRANSIT", "CANCELLED") /\ status[sh] = "IN_TRANSIT"
            /\ journal' = reverseOut(sh)
        BY <2>5 DEF Cancels, Moves
      <3>2. journal[sh].out > 0
        BY <2>0, <3>1 DEF JournalCounts
      <3>3. journal'[sh] = [journal[sh] EXCEPT !.outContra = @ + 1]
        BY <3>1, <3>2 DEF reverseOut, TypeOK
      <3>4. Stand(journal'[sh], "CANCELLED", got'[sh])
        BY <2>0, <3>1, <3>3 DEF JournalCounts
      <3> QED BY <2>2, <3>1, <3>4
    <2>6. ASSUME NEW sh \in Ships, Undoes(sh) PROVE JournalsFollowShipments'
      <3>1. /\ Moves(sh, "RECEIVED", "IN_TRANSIT") /\ status[sh] = "RECEIVED"
            /\ journal' = reverseIn(sh)
            /\ got[sh].qty = Manifest[sh].sent
        BY <2>6 DEF Undoes, Moves
      <3>2. got[sh].qty > 0
        BY <3>1, ManifestFields
      <3>3. journal[sh].in > 0 /\ journal[sh].in - journal[sh].inContra = 1
        BY <2>0, <3>1, <3>2 DEF JournalCounts
      <3>4. journal'[sh] = [journal[sh] EXCEPT !.inContra = @ + 1]
        BY <3>1, <3>3 DEF reverseIn, TypeOK
      <3>5. Stand(journal'[sh], "IN_TRANSIT", got'[sh])
        BY <2>0, <3>1, <3>3, <3>4 DEF JournalCounts
      <3> QED BY <2>2, <3>1, <3>5
    <2>7. ASSUME UNCHANGED <<status, got, journal>> PROVE JournalsFollowShipments'
      <3> HIDE DEF Stand
      <3> QED BY <2>0, <2>1, <2>7
    <2> HIDE DEF Stand
    <2> QED BY <2>3, <2>4, <2>5, <2>6, <2>7, ShipSteps DEF Sells, Written
  <1> QED BY <1>1, <1>2, TypeCorrect, OnTrackAlways, PTL DEF Spec

-----------------------------------------------------------------------------
(* Stock and reservations follow the shipments. *)

(* A sum over the shipments follows a change of one of them. *)
LEMMA ShipSums ==
    ASSUME NEW f \in [Ships -> Int], NEW g \in [Ships -> Int]
    PROVE  /\ SumFunctionOnSet(f, Ships) \in Int
           /\ (\A x \in Ships : g[x] = f[x]) =>
                  SumFunctionOnSet(g, Ships) = SumFunctionOnSet(f, Ships)
           /\ \A sh \in Ships : (\A x \in Ships \ {sh} : g[x] = f[x]) =>
                  SumFunctionOnSet(g, Ships) = SumFunctionOnSet(f, Ships) + g[sh] - f[sh]
  <1>1. IsFiniteSet(Ships)
    BY ConstantsAssumption
  <1>2. SumFunctionOnSet(f, Ships) \in Int
    BY <1>1, SumType
  <1>3. ASSUME \A x \in Ships : g[x] = f[x]
        PROVE  SumFunctionOnSet(g, Ships) = SumFunctionOnSet(f, Ships)
    BY <1>1, <1>3, SumSame
  <1>4. ASSUME NEW sh \in Ships, \A x \in Ships \ {sh} : g[x] = f[x]
        PROVE  SumFunctionOnSet(g, Ships) = SumFunctionOnSet(f, Ships) + g[sh] - f[sh]
    BY <1>1, <1>4, SumChange
  <1> QED BY <1>2, <1>3, <1>4

LEMMA ZeroSum ==
    ASSUME NEW f \in [Ships -> Int], \A x \in Ships : f[x] = 0
    PROVE  SumFunctionOnSet(f, Ships) = 0
  <1> DEFINE B == {u \in SUBSET Ships : SumFunctionOnSet(f, u) # 0}
  <1> SUFFICES ASSUME B # {} PROVE FALSE
    OBVIOUS
  <1>1. PICK t \in B : \A u \in B : ~(u \subseteq t /\ u # t)
    <2>1. B \subseteq SUBSET Ships /\ IsFiniteSet(Ships)
      BY ConstantsAssumption
    <2> HIDE DEF B
    <2> QED BY <2>1, MinimalSubset
  <1>2. t # {} /\ IsFiniteSet(t)
    BY <1>1, SumEmpty, FS_Subset, ConstantsAssumption
  <1>3. Pick(t) \in t /\ SumFunctionOnSet(f, t) = f[Pick(t)] + SumFunctionOnSet(f, t \ {Pick(t)})
    BY <1>2, SumStep
  <1>4. SumFunctionOnSet(f, t \ {Pick(t)}) = 0
    BY <1>1, <1>3
  <1> QED BY <1>1, <1>3, <1>4

SoldUnits(b, p) ==
    {s \in Serials : /\ ProductOf[s] = p
                     /\ reg[s].branch = b
                     /\ reg[s].status = "CUSTOMER_ASSIGNED"}

(* A flip sells nothing. *)
LEMMA FlipSellsNone ==
    ASSUME NEW S, NEW from, NEW to, NEW c, NEW sh, from # "CUSTOMER_ASSIGNED",
           to # "CUSTOMER_ASSIGNED", reg' = flip(S, from, to, c, sh), NEW b, NEW p
    PROVE  SoldUnits(b, p)' = SoldUnits(b, p)
  <1>1. \A s \in Serials : \/ reg'[s] = reg[s]
                           \/ /\ reg[s].status # "CUSTOMER_ASSIGNED"
                              /\ reg'[s].status # "CUSTOMER_ASSIGNED"
    BY DEF flip
  <1> QED BY <1>1 DEF SoldUnits

(* Only a sale adds to the units sold, one at the branch it draws from. *)
LEMMA SoldSteps ==
    ASSUME WholeReceipts, TypeOK, OnTrack, [Next]_vars, NEW b \in Branches, NEW p \in Products
    PROVE  /\ Sold(b, p) \in Int
           /\ (\E sh \in Ships : Dispatches(sh) \/ Receives(sh) \/ Cancels(sh) \/ Undoes(sh))
              \/ UNCHANGED Written => Sold(b, p)' = Sold(b, p)
           /\ \A s \in Serials : Sells(s) =>
                 Sold(b, p)' = IF b = reg[s].branch /\ p = ProductOf[s] THEN Sold(b, p) + 1
                                                                        ELSE Sold(b, p)
  <1>1. Sold(b, p) = Cardinality(SoldUnits(b, p)) /\ Sold(b, p)' = Cardinality(SoldUnits(b, p)')
    BY DEF Sold, SoldUnits
  <1>2. IsFiniteSet(SoldUnits(b, p))
    BY FS_Subset, ConstantsAssumption DEF SoldUnits
  <1>3. Cardinality(SoldUnits(b, p)) \in Nat
    BY <1>2, FS_CardinalityType
  <1>4. ASSUME reg' = reg PROVE SoldUnits(b, p)' = SoldUnits(b, p)
    BY <1>4 DEF SoldUnits
  <1>5. ASSUME NEW sh \in Ships, Dispatches(sh) \/ Receives(sh) \/ Cancels(sh) \/ Undoes(sh)
        PROVE  SoldUnits(b, p)' = SoldUnits(b, p)
    <2>1. \/ reg' = reg
          \/ \E S, c : reg' = flip(S, "IN_STOCK", "IN_TRANSIT", c, sh)
          \/ \E S, c : reg' = flip(S, "IN_TRANSIT", "IN_STOCK", c, sh)
      BY <1>5 DEF Dispatches, Receives, Cancels, Undoes, ByRoute, cancelSerials
    <2> QED BY <1>4, <2>1, FlipSellsNone
  <1>6. UNCHANGED Written => SoldUnits(b, p)' = SoldUnits(b, p)
    BY <1>4 DEF Written
  <1>7. ASSUME NEW s \in Serials, Sells(s)
        PROVE  Sold(b, p)' = IF b = reg[s].branch /\ p = ProductOf[s] THEN Sold(b, p) + 1
                                                                      ELSE Sold(b, p)
    <2>1. /\ reg[s].status = "IN_STOCK" /\ reg'[s].status = "CUSTOMER_ASSIGNED"
          /\ reg'[s].branch = reg[s].branch
          /\ \A x \in Serials \ {s} : reg'[x] = reg[x]
      BY <1>7 DEF Sells, TypeOK
    <2>2. CASE b = reg[s].branch /\ p = ProductOf[s]
      <3>1. s \notin SoldUnits(b, p) /\ SoldUnits(b, p)' = SoldUnits(b, p) \cup {s}
        BY <2>1, <2>2 DEF SoldUnits
      <3> QED BY <1>1, <1>2, <2>2, <3>1, FS_AddElement
    <2>3. CASE ~(b = reg[s].branch /\ p = ProductOf[s])
      <3>1. SoldUnits(b, p)' = SoldUnits(b, p)
        BY <2>1, <2>3 DEF SoldUnits
      <3> QED BY <1>1, <2>3, <3>1
    <2> QED BY <2>2, <2>3
  <1> QED BY <1>1, <1>3, <1>5, <1>6, <1>7

NumbersOK ==
    \A sh \in Ships, b \in Branches, p \in Products :
        Effect(sh, b, p) \in Int /\ OnTheRoad(sh, b, p) \in Nat

LEMMA NumbersTyped == TypeOK => NumbersOK
  <1> SUFFICES ASSUME TypeOK, NEW sh \in Ships, NEW b \in Branches, NEW p \in Products
               PROVE  Effect(sh, b, p) \in Int /\ OnTheRoad(sh, b, p) \in Nat
    BY DEF NumbersOK
  <1>1. Manifest[sh].sent \in Nat
    BY ManifestFields
  <1>2. Delivered(sh) => got[sh].qty \in Nat
    BY ReceiptFields DEF Delivered, TypeOK
  <1> QED BY <1>1, <1>2 DEF Effect, OnTheRoad

LEMMA NumbersTypedAfter == TypeOK' => NumbersOK'
  BY NumbersTyped, PTL

LEMMA EffectElsewhere ==
    ASSUME NEW x \in Ships, status'[x] = status[x], got'[x] = got[x], NEW b, NEW p
    PROVE  /\ Effect(x, b, p)' = Effect(x, b, p)
           /\ OnTheRoad(x, b, p)' = OnTheRoad(x, b, p)
  BY DEF Effect, OnTheRoad, Delivered

(* A step moves the stock of a branch by the change in the effect of one   *)
(* shipment, or by a sale.                                                 *)
EffectStep(b, p) ==
    \/ /\ qoh'[b][p] = qoh[b][p] + Sold(b, p) - Sold(b, p)'
       /\ \A x \in Ships : Effect(x, b, p)' = Effect(x, b, p)
    \/ \E sh \in Ships :
          /\ Sold(b, p)' = Sold(b, p)
          /\ qoh'[b][p] = qoh[b][p] + Effect(sh, b, p)' - Effect(sh, b, p)
          /\ \A x \in Ships \ {sh} : Effect(x, b, p)' = Effect(x, b, p)

LEMMA EveryEffectStep ==
    ASSUME WholeReceipts, TypeOK, OnTrack, [Next]_vars, NEW b \in Branches, NEW p \in Products
    PROVE  EffectStep(b, p)
  <1>0. qoh[b][p] \in Int
    BY DEF TypeOK
  <1>1. ASSUME NEW sh \in Ships, NEW from, NEW to, Moves(sh, from, to)
        PROVE  \A x \in Ships \ {sh} : Effect(x, b, p)' = Effect(x, b, p)
    BY <1>1, EffectElsewhere DEF Moves
  <1>2. ASSUME NEW sh \in Ships, Dispatches(sh) \/ Receives(sh) \/ Cancels(sh) \/ Undoes(sh)
        PROVE  EffectStep(b, p)
    <2> DEFINE m == Manifest[sh]
    <2>1. m.source # m.dest /\ m.sent \in Int
      BY ManifestAssumption, ManifestFields
    <2>2. Sold(b, p)' = Sold(b, p)
      BY <1>2, SoldSteps
    <2>3. \A x \in Ships \ {sh} : Effect(x, b, p)' = Effect(x, b, p)
      BY <1>1, <1>2 DEF Dispatches, Receives, Cancels, Undoes
    <2>4. qoh'[b][p] = qoh[b][p] + Effect(sh, b, p)' - Effect(sh, b, p)
      <3>1. CASE Dispatches(sh)
        <4>1. /\ status[sh] = "NONE" /\ status'[sh] = "IN_TRANSIT"
              /\ qoh'[b][p] = IF b = m.source /\ p = m.product THEN qoh[b][p] + (-m.sent)
                                                               ELSE qoh[b][p]
          BY <3>1 DEF Dispatches, Moves, Credited
        <4>2. /\ Effect(sh, b, p) = 0
              /\ Effect(sh, b, p)' = IF b = m.source /\ p = m.product THEN -m.sent ELSE 0
          BY <2>1, <4>1 DEF Effect, Delivered
        <4> HIDE DEF m
        <4> QED BY <1>0, <2>1, <4>1, <4>2
      <3>2. CASE Receives(sh)
        <4>1. /\ status[sh] = "IN_TRANSIT" /\ status'[sh] = "RECEIVED" /\ got'[sh].qty = m.sent
              /\ qoh'[b][p] = IF b = m.dest /\ p = m.product THEN qoh[b][p] + m.sent
                                                             ELSE qoh[b][p]
          BY <3>2 DEF Receives, Moves, Credited
        <4>2. /\ Effect(sh, b, p) = IF b = m.source /\ p = m.product THEN -m.sent ELSE 0
              /\ Effect(sh, b, p)' = IF p # m.product THEN 0
                                     ELSE IF b = m.source THEN -m.sent
                                     ELSE IF b = m.dest THEN m.sent ELSE 0
          BY <2>1, <4>1 DEF Effect, Delivered
        <4> HIDE DEF m
        <4> QED BY <1>0, <2>1, <4>1, <4>2
      <3>3. CASE Cancels(sh)
        <4>1. /\ status[sh] = "IN_TRANSIT" /\ status'[sh] = "CANCELLED"
              /\ qoh'[b][p] = IF b = m.source /\ p = m.product THEN qoh[b][p] + m.sent
                                                               ELSE qoh[b][p]
          BY <3>3 DEF Cancels, Moves, Credited
        <4>2. /\ Effect(sh, b, p) = IF b = m.source /\ p = m.product THEN -m.sent ELSE 0
              /\ Effect(sh, b, p)' = 0
          BY <2>1, <4>1 DEF Effect, Delivered
        <4> HIDE DEF m
        <4> QED BY <1>0, <2>1, <4>1, <4>2
      <3>4. CASE Undoes(sh)
        <4>1. /\ status[sh] = "RECEIVED" /\ status'[sh] = "IN_TRANSIT" /\ got[sh].qty = m.sent
              /\ qoh'[b][p] = IF b = m.dest /\ p = m.product THEN qoh[b][p] + (-m.sent)
                                                             ELSE qoh[b][p]
          BY <3>4 DEF Undoes, Moves, Credited
        <4>2. /\ Effect(sh, b, p)' = IF b = m.source /\ p = m.product THEN -m.sent ELSE 0
              /\ Effect(sh, b, p) = IF p # m.product THEN 0
                                    ELSE IF b = m.source THEN -m.sent
                                    ELSE IF b = m.dest THEN m.sent ELSE 0
          BY <2>1, <4>1 DEF Effect, Delivered
        <4> HIDE DEF m
        <4> QED BY <1>0, <2>1, <4>1, <4>2
      <3> QED BY <1>2, <3>1, <3>2, <3>3, <3>4
    <2> QED BY <2>2, <2>3, <2>4 DEF EffectStep
  <1>3. ASSUME NEW s \in Serials, Sells(s) PROVE EffectStep(b, p)
    <2>1. \A x \in Ships : Effect(x, b, p)' = Effect(x, b, p)
      BY <1>3, EffectElsewhere DEF Sells
    <2>2. /\ Sold(b, p) \in Int
          /\ Sold(b, p)' = IF b = reg[s].branch /\ p = ProductOf[s] THEN Sold(b, p) + 1
                                                                    ELSE Sold(b, p)
      BY <1>3, SoldSteps
    <2>3. qoh'[b][p] = IF b = reg[s].branch /\ p = ProductOf[s] THEN qoh[b][p] + (-1)
                                                                ELSE qoh[b][p]
      BY <1>3 DEF Sells, Credited
    <2>4. qoh'[b][p] = qoh[b][p] + Sold(b, p) - Sold(b, p)'
      BY <1>0, <2>2, <2>3
    <2> QED BY <2>1, <2>4 DEF EffectStep
  <1>4. CASE UNCHANGED Written
    <2>1. Sold(b, p)' = Sold(b, p) /\ Sold(b, p) \in Int /\ qoh'[b][p] = qoh[b][p]
      BY <1>4, SoldSteps DEF Written
    <2>2. \A x \in Ships : Effect(x, b, p)' = Effect(x, b, p)
      BY <1>4, EffectElsewhere DEF Written
    <2>3. qoh'[b][p] = qoh[b][p] + Sold(b, p) - Sold(b, p)'
      BY <1>0, <2>1
    <2> QED BY <2>2, <2>3 DEF EffectStep
  <1> QED BY <1>2, <1>3, <1>4, ShipSteps

(* Every branch's stock is its opening balance, less the sales, plus the   *)
(* effect of the shipments as their status records it, for any number of   *)
(* branches, shipments and rounds of receipt and undo.                     *)
THEOREM StockIsShipments ==
    ASSUME WholeReceipts
    PROVE  Spec /\ []Apart => []StockFollowsShipments
  <1>1. Init => StockFollowsShipments
    <2> SUFFICES ASSUME Init, NEW b \in Branches, NEW p \in Products
                 PROVE  qoh[b][p] = StockAtStart[b][p] - Sold(b, p)
                            + SumFunctionOnSet([sh \in Ships |-> Effect(sh, b, p)], Ships)
      BY DEF StockFollowsShipments
    <2> DEFINE f == [sh \in Ships |-> Effect(sh, b, p)]
    <2>1. f \in [Ships -> Int] /\ \A x \in Ships : f[x] = 0
      BY DEF Init, Effect, Delivered
    <2>2. Sold(b, p) = 0
      <3>1. SoldUnits(b, p) = {}
        BY DEF Init, SoldUnits
      <3> QED BY <3>1, FS_EmptySet DEF Sold, SoldUnits
    <2>3. qoh[b][p] = StockAtStart[b][p] /\ StockAtStart[b][p] \in Int
      BY ConstantsAssumption DEF Init
    <2> HIDE DEF f
    <2>4. SumFunctionOnSet(f, Ships) = 0
      BY <2>1, ZeroSum
    <2> QED BY <2>2, <2>3, <2>4 DEF f
  <1>2. TypeOK /\ TypeOK' /\ OnTrack /\ StockFollowsShipments /\ [Next]_vars
            => StockFollowsShipments'
    <2> SUFFICES ASSUME TypeOK, TypeOK', OnTrack, StockFollowsShipments, [Next]_vars,
                        NEW b \in Branches, NEW p \in Products
                 PROVE  qoh'[b][p] = StockAtStart[b][p] - Sold(b, p)'
                            + SumFunctionOnSet([sh \in Ships |-> Effect(sh, b, p)'], Ships)
      BY DEF StockFollowsShipments
    <2> DEFINE f == [sh \in Ships |-> Effect(sh, b, p)]
               g == [sh \in Ships |-> Effect(sh, b, p)']
    <2>1. f \in [Ships -> Int] /\ g \in [Ships -> Int]
      BY NumbersTyped, NumbersTypedAfter DEF NumbersOK
    <2>2. qoh[b][p] = StockAtStart[b][p] - Sold(b, p) + SumFunctionOnSet(f, Ships)
      BY DEF StockFollowsShipments
    <2>3. StockAtStart[b][p] \in Int /\ Sold(b, p) \in Int
      BY ConstantsAssumption, SoldSteps
    <2>4. Sold(b, p)' \in Int
      <3>1. IsFiniteSet(SoldUnits(b, p)')
        BY FS_Subset, ConstantsAssumption DEF SoldUnits
      <3> QED BY <3>1, FS_CardinalityType DEF Sold, SoldUnits
    <2>5. \A x \in Ships : f[x] = Effect(x, b, p) /\ g[x] = Effect(x, b, p)'
      OBVIOUS
    <2> HIDE DEF f, g
    <2>6. /\ SumFunctionOnSet(f, Ships) \in Int
          /\ (\A x \in Ships : g[x] = f[x]) =>
                  SumFunctionOnSet(g, Ships) = SumFunctionOnSet(f, Ships)
          /\ \A sh \in Ships : (\A x \in Ships \ {sh} : g[x] = f[x]) =>
                  SumFunctionOnSet(g, Ships) = SumFunctionOnSet(f, Ships) + g[sh] - f[sh]
      BY <2>1, ShipSums
    <2>7. ASSUME qoh'[b][p] = qoh[b][p] + Sold(b, p) - Sold(b, p)', \A x \in Ships : g[x] = f[x]
          PROVE  qoh'[b][p] = StockAtStart[b][p] - Sold(b, p)' + SumFunctionOnSet(g, Ships)
      <3>1. SumFunctionOnSet(g, Ships) = SumFunctionOnSet(f, Ships)
        BY <2>6, <2>7
      <3> QED BY <2>2, <2>3, <2>4, <2>6, <2>7, <3>1
    <2>8. ASSUME NEW sh \in Ships, Sold(b, p)' = Sold(b, p),
                 qoh'[b][p] = qoh[b][p] + g[sh] - f[sh], \A x \in Ships \ {sh} : g[x] = f[x]
          PROVE  qoh'[b][p] = StockAtStart[b][p] - Sold(b, p)' + SumFunctionOnSet(g, Ships)
      <3>1. SumFunctionOnSet(g, Ships) = SumFunctionOnSet(f, Ships) + g[sh] - f[sh]
        BY <2>6, <2>8
      <3>2. g[sh] \in Int /\ f[sh] \in Int
        BY <2>1
      <3> QED BY <2>2, <2>3, <2>4, <2>6, <2>8, <3>1, <3>2
    <2>9. EffectStep(b, p)
      BY EveryEffectStep
    <2>10. qoh'[b][p] = StockAtStart[b][p] - Sold(b, p)' + SumFunctionOnSet(g, Ships)
      BY <2>5, <2>7, <2>8, <2>9 DEF EffectStep
    <2> QED BY <2>10 DEF g
  <1> QED BY <1>1, <1>2, TypeCorrect, OnTrackAlways, PTL DEF Spec

(* What is on the road to a branch is reserved there. *)
LEMMA RoadIsReserved ==
    ASSUME TypeOK, IncomingMatchesTransit, NEW sh \in Ships, status[sh] = "IN_TRANSIT"
    PROVE  Manifest[sh].sent <= incoming[Manifest[sh].dest][Manifest[sh].product]
  <1> DEFINE b == Manifest[sh].dest
             p == Manifest[sh].product
             f == [x \in Ships |-> OnTheRoad(x, b, p)]
  <1>1. b \in Branches /\ p \in Products /\ Manifest[sh].sent \in Nat
    BY ManifestFields
  <1>2. f \in [Ships -> Nat]
    BY <1>1, NumbersTyped DEF NumbersOK
  <1>3. f[sh] = Manifest[sh].sent
    BY DEF OnTheRoad
  <1>4. incoming[b][p] = SumFunctionOnSet(f, Ships)
    BY <1>1 DEF IncomingMatchesTransit
  <1> HIDE DEF f
  <1>5. IsFiniteSet(Ships) /\ IsFiniteSet(Ships \ {sh})
    BY ConstantsAssumption, FS_Subset
  <1>6. SumFunctionOnSet(f, Ships) = f[sh] + SumFunctionOnSet(f, Ships \ {sh})
    BY <1>2, <1>5, SumRemove
  <1>7. SumFunctionOnSet(f, Ships \ {sh}) \in Nat
    BY <1>2, <1>5, SumType
  <1> HIDE DEF b, p
  <1>8. Manifest[sh].sent <= incoming[b][p]
    BY <1>1, <1>3, <1>4, <1>6, <1>7
  <1> QED BY <1>8 DEF b, p

RoadStep(b, p) ==
    \/ /\ incoming'[b][p] = incoming[b][p]
       /\ \A x \in Ships : OnTheRoad(x, b, p)' = OnTheRoad(x, b, p)
    \/ \E sh \in Ships :
          /\ incoming'[b][p] = incoming[b][p] + OnTheRoad(sh, b, p)' - OnTheRoad(sh, b, p)
          /\ \A x \in Ships \ {sh} : OnTheRoad(x, b, p)' = OnTheRoad(x, b, p)

LEMMA EveryRoadStep ==
    ASSUME WholeReceipts, TypeOK, OnTrack, IncomingMatchesTransit, [Next]_vars,
           NEW b \in Branches, NEW p \in Products
    PROVE  RoadStep(b, p)
  <1>0. incoming[b][p] \in Nat /\ incoming \in [Branches -> [Products -> Nat]]
    BY DEF TypeOK
  <1>1. ASSUME NEW sh \in Ships, NEW from, NEW to, Moves(sh, from, to)
        PROVE  \A x \in Ships \ {sh} : OnTheRoad(x, b, p)' = OnTheRoad(x, b, p)
    BY <1>1, EffectElsewhere DEF Moves
  <1>2. ASSUME NEW sh \in Ships, Dispatches(sh) \/ Receives(sh) \/ Cancels(sh) \/ Undoes(sh)
        PROVE  RoadStep(b, p)
    <2> DEFINE m == Manifest[sh]
    <2>1. m.dest \in Branches /\ m.product \in Products /\ m.sent \in Nat
      BY ManifestFields
    <2>2. \A x \in Ships \ {sh} : OnTheRoad(x, b, p)' = OnTheRoad(x, b, p)
      BY <1>1, <1>2 DEF Dispatches, Receives, Cancels, Undoes
    <2>3. CASE Dispatches(sh) \/ Undoes(sh)
      <3>1. /\ status[sh] # "IN_TRANSIT" /\ status'[sh] = "IN_TRANSIT"
            /\ incoming' = Add(incoming, m.dest, m.product, m.sent)
        BY <2>3 DEF Dispatches, Undoes, Moves
      <3>2. /\ OnTheRoad(sh, b, p) = 0
            /\ OnTheRoad(sh, b, p)' = IF b = m.dest /\ p = m.product THEN m.sent ELSE 0
        BY <3>1 DEF OnTheRoad
      <3> HIDE DEF m
      <3>3. incoming'[b][p] = IF b = m.dest /\ p = m.product THEN incoming[b][p] + m.sent
                                                             ELSE incoming[b][p]
        BY <1>0, <2>1, <3>1 DEF Add
      <3>4. incoming'[b][p] = incoming[b][p] + OnTheRoad(sh, b, p)' - OnTheRoad(sh, b, p)
        BY <1>0, <2>1, <3>2, <3>3
      <3> QED BY <2>2, <3>4 DEF RoadStep
    <2>4. CASE Receives(sh) \/ Cancels(sh)
      <3>1. /\ status[sh] = "IN_TRANSIT" /\ status'[sh] # "IN_TRANSIT"
            /\ incoming' = Release(m.dest, m.product, m.sent)
        BY <2>4 DEF Receives, Cancels, Moves, releaseDest
      <3>2. /\ OnTheRoad(sh, b, p)' = 0
            /\ OnTheRoad(sh, b, p) = IF b = m.dest /\ p = m.product THEN m.sent ELSE 0
        BY <3>1 DEF OnTheRoad
      <3>3. m.sent <= incoming[m.dest][m.product]
        BY <3>1, RoadIsReserved
      <3> HIDE DEF m
      <3>4. incoming'[b][p] = IF b = m.dest /\ p = m.product THEN incoming[b][p] - m.sent
                                                             ELSE incoming[b][p]
        BY <1>0, <2>1, <3>1, <3>3 DEF Release
      <3>5. incoming'[b][p] = incoming[b][p] + OnTheRoad(sh, b, p)' - OnTheRoad(sh, b, p)
        BY <1>0, <2>1, <3>2, <3>4
      <3> QED BY <2>2, <3>5 DEF RoadStep
    <2> QED BY <1>2, <2>3, <2>4
  <1>3. ASSUME UNCHANGED <<incoming, status, got>> PROVE RoadStep(b, p)
    BY <1>3, EffectElsewhere DEF RoadStep
  <1> QED BY <1>2, <1>3, ShipSteps DEF Sells, Written

(* incoming_qty of every branch is what is on the road to it, for any      *)
(* number of branches and shipments: releasing a reservation never meets   *)
(* the GREATEST(0, ...) that would hide a wrong one.                       *)
THEOREM IncomingIsTransit ==
    ASSUME WholeReceipts
    PROVE  Spec /\ []Apart => []IncomingMatchesTransit
  <1>1. Init => IncomingMatchesTransit
    <2> SUFFICES ASSUME Init, NEW b \in Branches, NEW p \in Products
                 PROVE  incoming[b][p] =
                            SumFunctionOnSet([sh \in Ships |-> OnTheRoad(sh, b, p)], Ships)
      BY DEF IncomingMatchesTransit
    <2> DEFINE f == [sh \in Ships |-> OnTheRoad(sh, b, p)]
    <2>1. f \in [Ships -> Int] /\ \A x \in Ships : f[x] = 0
      BY DEF Init, OnTheRoad
    <2>2. incoming[b][p] = 0
      BY DEF Init
    <2> HIDE DEF f
    <2>3. SumFunctionOnSet(f, Ships) = 0
      BY <2>1, ZeroSum
    <2> QED BY <2>2, <2>3 DEF f
  <1>2. TypeOK /\ TypeOK' /\ OnTrack /\ IncomingMatchesTransit /\ [Next]_vars
            => IncomingMatchesTransit'
    <2> SUFFICES ASSUME TypeOK, TypeOK', OnTrack, IncomingMatchesTransit, [Next]_vars,
                        NEW b \in Branches, NEW p \in Products
                 PROVE  incoming'[b][p] =
                            SumFunctionOnSet([sh \in Ships |-> OnTheRoad(sh, b, p)'], Ships)
      BY DEF IncomingMatchesTransit
    <2> DEFINE f == [sh \in Ships |-> OnTheRoad(sh, b, p)]
               g == [sh \in Ships |-> OnTheRoad(sh, b, p)']
    <2>1. f \in [Ships -> Int] /\ g \in [Ships -> Int]
      BY NumbersTyped, NumbersTypedAfter DEF NumbersOK
    <2>2. incoming[b][p] = SumFunctionOnSet(f, Ships)
      BY DEF IncomingMatchesTransit
    <2>3. \A x \in Ships : f[x] = OnTheRoad(x, b, p) /\ g[x] = OnTheRoad(x, b, p)'
      OBVIOUS
    <2> HIDE DEF f, g
    <2>4. /\ (\A x \in Ships : g[x] = f[x]) =>
                  SumFunctionOnSet(g, Ships) = SumFunctionOnSet(f, Ships)
          /\ \A sh \in Ships : (\A x \in Ships \ {sh} : g[x] = f[x]) =>
                  SumFunctionOnSet(g, Ships) = SumFunctionOnSet(f, Ships) + g[sh] - f[sh]
      BY <2>1, ShipSums
    <2>5. RoadStep(b, p)
      BY EveryRoadStep
    <2>6. incoming'[b][p] = SumFunctionOnSet(g, Ships)
      BY <2>2, <2>3, <2>4, <2>5 DEF RoadStep
    <2> QED BY <2>6 DEF g
  <1> QED BY <1>1, <1>2, TypeCorrect, OnTrackAlways, PTL DEF Spec

-----------------------------------------------------------------------------
(* The movement ledger explains the stock. *)

RowsOf(b, p) == {row \in ledger : row.branch = b /\ row.product = p}

(* A row's id tells the shipment and the leg it stands for. *)
RowsNamed ==
    \A row \in ledger : \E x \in Ships :
        /\ row.product = Manifest[x].product
        /\ \/ row.id = <<x, "TRANSFER_OUT">> /\ status[x] # "NONE"
           \/ row.id = <<x, "TRANSFER_IN">> /\ journal[x].in > 0
           \/ row.id = <<x, "TRANSFER_CANCELLED">> /\ status[x] = "CANCELLED"
           \/ row.id = <<x, "TRANSFER_RECEIPT_CANCELLED">> /\ journal[x].inContra > 0

Complete(p) == \A sh \in Ships : Manifest[sh].product = p => RowsComplete(sh)

(* A fresh id: the row is inserted, and it is the only one. *)
LEMMA InsertFresh ==
    ASSUME NEW sh \in Ships, NEW type, NEW c, NEW n, ledger' = insertTransferTxn(sh, type, c, n),
           \A row \in ledger : row.id # <<sh, type>>
    PROVE  LET e == [id |-> <<sh, type>>, branch |-> c,
                     product |-> Manifest[sh].product, change |-> n]
           IN  ledger' = ledger \cup {e} /\ e \notin ledger
  BY DEF insertTransferTxn

RowStep(b, p) ==
    \/ RowsOf(b, p)' = RowsOf(b, p)
       /\ qoh'[b][p] = qoh[b][p] + Sold(b, p) - Sold(b, p)'
    \/ \E e : /\ e \in ledger' \ ledger /\ e.change \in Int
              /\ RowsOf(b, p)' = RowsOf(b, p) \cup {e}
              /\ qoh'[b][p] = qoh[b][p] + e.change /\ Sold(b, p)' = Sold(b, p)

(* A transaction whose row is fresh: the row carries the change of stock. *)
LEMMA FreshRowStep ==
    ASSUME TypeOK, NEW sh \in Ships, NEW type, NEW c \in Branches, NEW n \in Int,
           ledger' = insertTransferTxn(sh, type, c, n),
           \A row \in ledger : row.id # <<sh, type>>,
           Credited(c, Manifest[sh].product, n),
           NEW b \in Branches, NEW p \in Products, Sold(b, p)' = Sold(b, p), Sold(b, p) \in Int
    PROVE  RowStep(b, p)
  <1> DEFINE e == [id |-> <<sh, type>>, branch |-> c,
                   product |-> Manifest[sh].product, change |-> n]
  <1>1. ledger' = ledger \cup {e} /\ e \notin ledger
    BY InsertFresh
  <1>2. e.branch = c /\ e.product = Manifest[sh].product /\ e.change = n
    OBVIOUS
  <1>3. qoh[b][p] \in Int
    BY DEF TypeOK
  <1>4. qoh'[b][p] = IF b = c /\ p = Manifest[sh].product THEN qoh[b][p] + n ELSE qoh[b][p]
    BY DEF Credited
  <1> HIDE DEF e
  <1>5. CASE b = c /\ p = Manifest[sh].product
    <2>1. RowsOf(b, p)' = RowsOf(b, p) \cup {e}
      BY <1>1, <1>2, <1>5 DEF RowsOf
    <2> QED BY <1>1, <1>2, <1>4, <1>5, <2>1 DEF RowStep
  <1>6. CASE ~(b = c /\ p = Manifest[sh].product)
    <2>1. RowsOf(b, p)' = RowsOf(b, p)
      BY <1>1, <1>2, <1>6 DEF RowsOf
    <2>2. qoh'[b][p] = qoh[b][p] + Sold(b, p) - Sold(b, p)'
      BY <1>3, <1>4, <1>6
    <2> QED BY <2>1, <2>2 DEF RowStep
  <1> QED BY <1>5, <1>6

(* The counts of journals only grow, and a cancelled shipment stays so. *)
LEMMA Forward ==
    ASSUME WholeReceipts, TypeOK, OnTrack, [Next]_vars, NEW x \in Ships
    PROVE  /\ status[x] # "NONE" => status'[x] # "NONE"
           /\ status[x] = "CANCELLED" => status'[x] = "CANCELLED"
           /\ journal[x].in > 0 => journal'[x].in > 0
           /\ journal[x].inContra > 0 => journal'[x].inContra > 0
           /\ journal'[x].in <= 1 => journal[x].in <= 1
  <1>0. journal[x] \in JournalCounts /\ journal \in [Ships -> JournalCounts]
    BY DEF TypeOK
  <1>1. ASSUME NEW sh \in Ships, NEW from, NEW to, Moves(sh, from, to), x # sh
        PROVE  status'[x] = status[x] /\ journal'[x] = journal[x]
    BY <1>1 DEF Moves
  <1>2. ASSUME Dispatches(x) PROVE /\ status[x] = "NONE"
                                   /\ journal'[x] = [journal[x] EXCEPT !.out = @ + 1]
    BY <1>2 DEF Dispatches, Moves
  <1>3. ASSUME Receives(x) PROVE /\ status[x] = "IN_TRANSIT" /\ status'[x] = "RECEIVED"
                                 /\ journal'[x] = [journal[x] EXCEPT !.in = @ + 1]
    BY <1>3 DEF Receives, Moves
  <1>4. ASSUME Cancels(x)
        PROVE  /\ status[x] = "IN_TRANSIT" /\ status'[x] = "CANCELLED"
               /\ journal'[x].in = journal[x].in /\ journal'[x].inContra = journal[x].inContra
    BY <1>0, <1>4 DEF Cancels, Moves, reverseOut, JournalCounts
  <1>5. ASSUME Undoes(x)
        PROVE  /\ status[x] = "RECEIVED" /\ status'[x] = "IN_TRANSIT"
               /\ journal'[x].in = journal[x].in
               /\ journal'[x].inContra \in {journal[x].inContra, journal[x].inContra + 1}
    BY <1>0, <1>5 DEF Undoes, Moves, reverseIn, JournalCounts
  <1>6. \/ \E sh \in Ships \ {x} : \E from, to : Moves(sh, from, to)
        \/ Dispatches(x) \/ Receives(x) \/ Cancels(x) \/ Undoes(x)
        \/ UNCHANGED <<status, journal>>
    <2>1. ASSUME NEW sh \in Ships, Dispatches(sh) \/ Receives(sh) \/ Cancels(sh) \/ Undoes(sh)
          PROVE  \E from, to : Moves(sh, from, to)
      BY <2>1 DEF Dispatches, Receives, Cancels, Undoes
    <2>2. (\E s \in Serials : Sells(s)) \/ UNCHANGED Written => UNCHANGED <<status, journal>>
      BY DEF Sells, Written
    <2> QED BY <2>1, <2>2, ShipSteps
  <1>7. CASE status'[x] = status[x] /\ journal'[x] = journal[x]
    BY <1>7
  <1>8. CASE Dispatches(x)
    <2>1. status'[x] = "IN_TRANSIT"
      BY <1>8 DEF Dispatches, Moves
    <2> QED BY <1>0, <1>2, <1>8, <2>1 DEF JournalCounts
  <1>9. CASE Receives(x)
    BY <1>0, <1>3, <1>9 DEF JournalCounts
  <1>10. CASE Cancels(x)
    BY <1>0, <1>4, <1>10 DEF JournalCounts
  <1>11. CASE Undoes(x)
    BY <1>0, <1>5, <1>11 DEF JournalCounts
  <1> QED BY <1>1, <1>6, <1>7, <1>8, <1>9, <1>10, <1>11

(* The rows keep their names. *)
LEMMA RowsNamedKept ==
    ASSUME WholeReceipts, TypeOK, OnTrack, JournalsFollowShipments, RowsNamed, [Next]_vars
    PROVE  RowsNamed' /\ ledger \subseteq ledger' /\ (IsFiniteSet(ledger) => IsFiniteSet(ledger'))
  <1> DEFINE Named(row, x, st, j) ==
        /\ row.product = Manifest[x].product
        /\ \/ row.id = <<x, "TRANSFER_OUT">> /\ st # "NONE"
           \/ row.id = <<x, "TRANSFER_IN">> /\ j.in > 0
           \/ row.id = <<x, "TRANSFER_CANCELLED">> /\ st = "CANCELLED"
           \/ row.id = <<x, "TRANSFER_RECEIPT_CANCELLED">> /\ j.inContra > 0
  <1>1. (\A row \in ledger' : \E x \in Ships : Named(row, x, status'[x], journal'[x])) => RowsNamed'
    BY DEF RowsNamed
  <1>2. \A row \in ledger : \E x \in Ships : Named(row, x, status'[x], journal'[x])
    <2>1. \A row \in ledger : \E x \in Ships : Named(row, x, status[x], journal[x])
      BY DEF RowsNamed
    <2> QED BY <2>1, Forward
  <1>3. ASSUME NEW sh \in Ships, NEW type, NEW c, NEW n, ledger' = insertTransferTxn(sh, type, c, n),
               \/ type = "TRANSFER_OUT" /\ status'[sh] # "NONE"
               \/ type = "TRANSFER_IN" /\ journal'[sh].in > 0
               \/ type = "TRANSFER_CANCELLED" /\ status'[sh] = "CANCELLED"
               \/ type = "TRANSFER_RECEIPT_CANCELLED" /\ journal'[sh].inContra > 0
        PROVE  RowsNamed' /\ ledger \subseteq ledger' /\ (IsFiniteSet(ledger) => IsFiniteSet(ledger'))
    <2> DEFINE e == [id |-> <<sh, type>>, branch |-> c,
                     product |-> Manifest[sh].product, change |-> n]
    <2>1. ledger' = ledger \/ ledger' = ledger \cup {e}
      BY <1>3 DEF insertTransferTxn
    <2>2. Named(e, sh, status'[sh], journal'[sh])
      BY <1>3
    <2> HIDE DEF e, Named
    <2>3. \A row \in ledger' : \E x \in Ships : Named(row, x, status'[x], journal'[x])
      BY <1>2, <2>1, <2>2
    <2>4. ledger \subseteq ledger' /\ (IsFiniteSet(ledger) => IsFiniteSet(ledger'))
      BY <2>1, FS_AddElement
    <2> QED BY <1>1, <2>3, <2>4
  <1>4. ASSUME ledger' = ledger
        PROVE  RowsNamed' /\ ledger \subseteq ledger' /\ (IsFiniteSet(ledger) => IsFiniteSet(ledger'))
    <2> HIDE DEF Named
    <2> QED BY <1>1, <1>2, <1>4
  <1> HIDE DEF Named
  <1>5. ASSUME NEW sh \in Ships, Dispatches(sh)
        PROVE  RowsNamed' /\ ledger \subseteq ledger' /\ (IsFiniteSet(ledger) => IsFiniteSet(ledger'))
    BY <1>3, <1>5 DEF Dispatches, Moves
  <1>6. ASSUME NEW sh \in Ships, Receives(sh)
        PROVE  RowsNamed' /\ ledger \subseteq ledger' /\ (IsFiniteSet(ledger) => IsFiniteSet(ledger'))
    <2>1. journal'[sh] = [journal[sh] EXCEPT !.in = @ + 1] /\ journal[sh] \in JournalCounts
      BY <1>6 DEF Receives, TypeOK
    <2>2. journal'[sh].in > 0
      BY <2>1 DEF JournalCounts
    <2> QED BY <1>3, <1>6, <2>2 DEF Receives
  <1>7. ASSUME NEW sh \in Ships, Cancels(sh)
        PROVE  RowsNamed' /\ ledger \subseteq ledger' /\ (IsFiniteSet(ledger) => IsFiniteSet(ledger'))
    <2>1. status'[sh] = "CANCELLED"
      BY <1>7 DEF Cancels, Moves
    <2>2. \/ ledger' = ledger
          \/ ledger' = insertTransferTxn(sh, "TRANSFER_CANCELLED", Manifest[sh].source,
                                         Manifest[sh].sent)
      BY <1>7 DEF Cancels, ByRoute
    <2> QED BY <1>3, <1>4, <2>1, <2>2
  <1>8. ASSUME NEW sh \in Ships, Undoes(sh)
        PROVE  RowsNamed' /\ ledger \subseteq ledger' /\ (IsFiniteSet(ledger) => IsFiniteSet(ledger'))
    <2>1. /\ status[sh] = "RECEIVED" /\ journal' = reverseIn(sh) /\ got[sh].qty = Manifest[sh].sent
          /\ journal[sh] \in JournalCounts /\ journal \in [Ships -> JournalCounts]
      BY <1>8 DEF Undoes, Moves, TypeOK
    <2>2. got[sh].qty > 0
      BY <2>1, ManifestFields
    <2>3. journal[sh].in - journal[sh].inContra = 1
      BY <2>1, <2>2 DEF JournalsFollowShipments, Delivered
    <2>4. journal[sh].in > 0 /\ journal[sh].inContra \in Nat
      BY <2>1, <2>3 DEF JournalCounts
    <2>5. journal'[sh] = [journal[sh] EXCEPT !.inContra = @ + 1]
      BY <2>1, <2>4 DEF reverseIn
    <2>6. journal'[sh].inContra > 0
      BY <2>1, <2>4, <2>5 DEF JournalCounts
    <2>7. \/ ledger' = ledger
          \/ ledger' = insertTransferTxn(sh, "TRANSFER_RECEIPT_CANCELLED", Manifest[sh].dest,
                                         -Manifest[sh].sent)
      BY <1>8 DEF Undoes, ByRoute
    <2> QED BY <1>3, <1>4, <2>6, <2>7
  <1> QED BY <1>4, <1>5, <1>6, <1>7, <1>8, ShipSteps DEF Sells, Written

(* Before a transaction of a complete shipment its row does not exist. *)
LEMMA EveryRowStep ==
    ASSUME WholeReceipts, TypeOK, OnTrack, JournalsFollowShipments, RowsNamed, [Next]_vars,
           NEW b \in Branches, NEW p \in Products, Complete(p)'
    PROVE  RowStep(b, p)
  <1>0. Sold(b, p) \in Int /\ qoh[b][p] \in Int
    BY SoldSteps DEF TypeOK
  <1>1. ASSUME NEW sh \in Ships, NEW type, \E row \in ledger : row.id = <<sh, type>>
        PROVE  /\ type = "TRANSFER_OUT" => status[sh] # "NONE"
               /\ type = "TRANSFER_IN" => journal[sh].in > 0
               /\ type = "TRANSFER_CANCELLED" => status[sh] = "CANCELLED"
               /\ type = "TRANSFER_RECEIPT_CANCELLED" => journal[sh].inContra > 0
    BY <1>1 DEF RowsNamed
  <1>2. ASSUME NEW sh \in Ships, Dispatches(sh) \/ Receives(sh) \/ Cancels(sh) \/ Undoes(sh)
        PROVE  RowStep(b, p)
    <2> DEFINE m == Manifest[sh]
    <2>0. /\ m.source \in Branches /\ m.dest \in Branches /\ m.product \in Products
          /\ m.sent \in Int /\ -m.sent \in Int /\ m.sent > 0
      BY ManifestFields
    <2>1. Sold(b, p)' = Sold(b, p)
      BY <1>2, SoldSteps
    <2>2. journal[sh] \in JournalCounts /\ journal \in [Ships -> JournalCounts]
      BY DEF TypeOK
    <2>3. CASE p # m.product
      <3>1. qoh'[b][p] = qoh[b][p]
        BY <1>2, <2>3 DEF Dispatches, Receives, Cancels, Undoes, Credited
      <3>2. ledger' = ledger \/ \E type, c, n : ledger' = insertTransferTxn(sh, type, c, n)
        BY <1>2 DEF Dispatches, Receives, Cancels, Undoes, ByRoute
      <3>3. RowsOf(b, p)' = RowsOf(b, p)
        BY <2>3, <3>2 DEF RowsOf, insertTransferTxn
      <3>4. qoh'[b][p] = qoh[b][p] + Sold(b, p) - Sold(b, p)'
        BY <1>0, <2>1, <3>1
      <3> QED BY <3>3, <3>4 DEF RowStep
    <2>4. ASSUME p = m.product PROVE RowStep(b, p)
      <3>1. Asks[sh] \subseteq {"receive", "cancel", "cancelReceive"} /\ journal'[sh].in <= 1
        BY <2>4 DEF Complete, RowsComplete
      <3>2. CASE Dispatches(sh)
        <4>1. /\ Credited(m.source, m.product, -m.sent) /\ status[sh] = "NONE"
              /\ ledger' = insertTransferTxn(sh, "TRANSFER_OUT", m.source, -m.sent)
          BY <3>2 DEF Dispatches, Moves
        <4>2. \A row \in ledger : row.id # <<sh, "TRANSFER_OUT">>
          BY <1>1, <4>1
        <4> QED BY <1>0, <2>0, <2>1, <4>1, <4>2, FreshRowStep
      <3>3. CASE Receives(sh)
        <4>1. /\ Credited(m.dest, m.product, m.sent)
              /\ ledger' = insertTransferTxn(sh, "TRANSFER_IN", m.dest, m.sent)
              /\ journal'[sh] = [journal[sh] EXCEPT !.in = @ + 1]
          BY <3>3 DEF Receives
        <4>2. ~(journal[sh].in > 0)
          BY <2>2, <3>1, <4>1 DEF JournalCounts
        <4>3. \A row \in ledger : row.id # <<sh, "TRANSFER_IN">>
          BY <1>1, <4>2
        <4> QED BY <1>0, <2>0, <2>1, <4>1, <4>3, FreshRowStep
      <3>4. CASE Cancels(sh)
        <4>1. /\ Credited(m.source, m.product, m.sent) /\ status[sh] = "IN_TRANSIT"
              /\ ledger' = insertTransferTxn(sh, "TRANSFER_CANCELLED", m.source, m.sent)
          BY <3>1, <3>4 DEF Cancels, Moves, ByRoute
        <4>2. \A row \in ledger : row.id # <<sh, "TRANSFER_CANCELLED">>
          BY <1>1, <4>1
        <4> QED BY <1>0, <2>0, <2>1, <4>1, <4>2, FreshRowStep
      <3>5. CASE Undoes(sh)
        <4>1. /\ Credited(m.dest, m.product, -m.sent) /\ status[sh] = "RECEIVED"
              /\ ledger' = insertTransferTxn(sh, "TRANSFER_RECEIPT_CANCELLED", m.dest, -m.sent)
              /\ got[sh].qty = m.sent
          BY <3>1, <3>5 DEF Undoes, Moves, ByRoute
        <4>2. journal[sh].in <= 1
          BY <3>1, Forward
        <4>3. journal[sh].in - journal[sh].inContra = 1
          BY <2>0, <4>1 DEF JournalsFollowShipments, Delivered
        <4>4. ~(journal[sh].inContra > 0)
          BY <2>2, <4>2, <4>3 DEF JournalCounts
        <4>5. \A row \in ledger : row.id # <<sh, "TRANSFER_RECEIPT_CANCELLED">>
          BY <1>1, <4>4
        <4> QED BY <1>0, <2>0, <2>1, <4>1, <4>5, FreshRowStep
      <3> QED BY <1>2, <3>2, <3>3, <3>4, <3>5
    <2> QED BY <2>3, <2>4
  <1>3. ASSUME ledger' = ledger, qoh'[b][p] = qoh[b][p] + Sold(b, p) - Sold(b, p)'
        PROVE  RowStep(b, p)
    BY <1>3 DEF RowStep, RowsOf
  <1>4. ASSUME NEW s \in Serials, Sells(s) PROVE RowStep(b, p)
    <2>1. Sold(b, p)' = IF b = reg[s].branch /\ p = ProductOf[s] THEN Sold(b, p) + 1
                                                                 ELSE Sold(b, p)
      BY <1>4, SoldSteps
    <2>2. qoh'[b][p] = IF b = reg[s].branch /\ p = ProductOf[s] THEN qoh[b][p] + (-1)
                                                                ELSE qoh[b][p]
      BY <1>4 DEF Sells, Credited
    <2>3. qoh'[b][p] = qoh[b][p] + Sold(b, p) - Sold(b, p)'
      BY <1>0, <2>1, <2>2
    <2> QED BY <1>3, <1>4, <2>3 DEF Sells
  <1>5. ASSUME UNCHANGED Written PROVE RowStep(b, p)
    <2>1. Sold(b, p)' = Sold(b, p) /\ qoh'[b][p] = qoh[b][p] /\ ledger' = ledger
      BY <1>5, SoldSteps DEF Written
    <2>2. qoh'[b][p] = qoh[b][p] + Sold(b, p) - Sold(b, p)'
      BY <1>0, <2>1
    <2> QED BY <1>3, <2>1, <2>2
  <1> QED BY <1>2, <1>4, <1>5, ShipSteps

(* The movement rows explain the stock of every branch through receipt,    *)
(* undo and cancellation, for any number of shipments: of the products     *)
(* whose shipments were received at most once and met no approval.         *)
THEOREM RowsExplainStock ==
    ASSUME WholeReceipts
    PROVE  Spec /\ []Apart => []LedgerExplainsStock
  <1> DEFINE Inv == RowsNamed /\ IsFiniteSet(ledger) /\ LedgerExplainsStock
  <1>1. Init => Inv
    <2> SUFFICES ASSUME Init PROVE Inv
      OBVIOUS
    <2>1. \A b, p : RowsOf(b, p) = {}
      BY DEF Init, RowsOf
    <2>2. RowsNamed /\ IsFiniteSet(ledger)
      BY FS_EmptySet DEF Init, RowsNamed
    <2>3. ASSUME NEW b \in Branches, NEW p \in Products
          PROVE  qoh[b][p] = StockAtStart[b][p] - Sold(b, p)
                     + SumFunctionOnSet([row \in ledger |-> row.change], RowsOf(b, p))
      <3>1. SumFunctionOnSet([row \in ledger |-> row.change], RowsOf(b, p)) = 0
        BY <2>1, SumEmpty
      <3>2. SoldUnits(b, p) = {}
        BY DEF Init, SoldUnits
      <3>3. Sold(b, p) = 0
        BY <3>2, FS_EmptySet DEF Sold, SoldUnits
      <3>4. qoh[b][p] = StockAtStart[b][p] /\ StockAtStart[b][p] \in Int
        BY ConstantsAssumption DEF Init
      <3> QED BY <3>1, <3>3, <3>4
    <2> QED BY <2>2, <2>3 DEF LedgerExplainsStock, RowsOf
  <1>2. /\ TypeOK /\ OnTrack /\ JournalsFollowShipments /\ Inv /\ [Next]_vars => Inv'
    <2> SUFFICES ASSUME TypeOK, OnTrack, JournalsFollowShipments, Inv, [Next]_vars
                 PROVE  Inv'
      OBVIOUS
    <2>1. RowsNamed' /\ ledger \subseteq ledger' /\ IsFiniteSet(ledger')
      BY RowsNamedKept
    <2> DEFINE f == [row \in ledger |-> row.change]
               g == [row \in ledger' |-> row.change]
    <2>2. ASSUME NEW b \in Branches, NEW p \in Products, Complete(p)'
          PROVE  qoh'[b][p] = StockAtStart[b][p] - Sold(b, p)'
                     + SumFunctionOnSet(g, RowsOf(b, p)')
      <3> DEFINE S == RowsOf(b, p)
      <3>1. Complete(p)
        BY <2>2, Forward DEF Complete, RowsComplete
      <3>2. qoh[b][p] = StockAtStart[b][p] - Sold(b, p) + SumFunctionOnSet(f, S)
        BY <3>1 DEF LedgerExplainsStock, Complete, RowsOf
      <3>3. S \subseteq ledger /\ \A x \in S : f[x] = g[x] /\ f[x] \in Int
        BY <2>1 DEF RowsOf, TypeOK, Rows
      <3>4. IsFiniteSet(S)
        BY <3>3, FS_Subset
      <3>5. StockAtStart[b][p] \in Int /\ Sold(b, p) \in Int
        BY ConstantsAssumption, SoldSteps
      <3>6. Sold(b, p)' \in Int
        <4>1. IsFiniteSet(SoldUnits(b, p)')
          BY FS_Subset, ConstantsAssumption DEF SoldUnits
        <4> QED BY <4>1, FS_CardinalityType DEF Sold, SoldUnits
      <3>7. RowStep(b, p)
        BY <2>2, EveryRowStep
      <3>8. \A e \in ledger' : g[e] = e.change
        OBVIOUS
      <3> HIDE DEF f, g, S
      <3>9. SumFunctionOnSet(g, S) = SumFunctionOnSet(f, S) /\ SumFunctionOnSet(f, S) \in Int
        BY <3>3, <3>4, SumSame, SumType
      <3>10. CASE RowsOf(b, p)' = S /\ qoh'[b][p] = qoh[b][p] + Sold(b, p) - Sold(b, p)'
        BY <3>2, <3>5, <3>6, <3>9, <3>10
      <3>11. ASSUME NEW e, e \in ledger' \ ledger, e.change \in Int, RowsOf(b, p)' = S \cup {e},
                    qoh'[b][p] = qoh[b][p] + e.change, Sold(b, p)' = Sold(b, p)
             PROVE  qoh'[b][p] = StockAtStart[b][p] - Sold(b, p)'
                        + SumFunctionOnSet(g, RowsOf(b, p)')
        <4>1. e \notin S /\ g[e] = e.change /\ g[e] \in Int /\ \A x \in S : g[x] \in Int
          BY <3>3, <3>8, <3>11
        <4>2. SumFunctionOnSet(g, S \cup {e}) = SumFunctionOnSet(g, S) + g[e]
          BY <3>4, <4>1, SumAdd
        <4>3. qoh'[b][p] = (StockAtStart[b][p] - Sold(b, p) + SumFunctionOnSet(f, S)) + e.change
          BY <3>2, <3>11
        <4> QED BY <3>5, <3>9, <3>11, <4>1, <4>2, <4>3
      <3> QED BY <3>7, <3>10, <3>11 DEF RowStep, S
    <2>3. LedgerExplainsStock'
      BY <2>2 DEF LedgerExplainsStock, Complete, RowsOf
    <2> QED BY <2>1, <2>3
  <1>3. Inv => LedgerExplainsStock
    OBVIOUS
  <1> QED BY <1>1, <1>2, <1>3, TypeCorrect, OnTrackAlways, BooksFollowShipments, PTL DEF Spec

-----------------------------------------------------------------------------
(* The register agrees with the stock. *)

Shelf(b, p) ==
    {s \in Serials : /\ ProductOf[s] = p
                     /\ reg[s].branch = b
                     /\ reg[s].status = "IN_STOCK"}

(* The units of a shipment on the road are in transit, and on no other. *)
OnRoad ==
    \A sh \in Ships : status[sh] = "IN_TRANSIT" =>
        \A s \in Manifest[sh].serials :
            /\ reg[s].status = "IN_TRANSIT"
            /\ \A x \in Ships : status[x] = "IN_TRANSIT" /\ s \in Manifest[x].serials => x = sh

(* What a step on a shipment does to its units: all leave a branch, all    *)
(* arrive at one, or there are none.                                       *)
Leave(sh, c) ==
    /\ Credited(c, Manifest[sh].product, -Manifest[sh].sent)
    /\ \A s \in Serials :
          IF s \in Manifest[sh].serials
          THEN /\ reg[s].status = "IN_STOCK" /\ reg[s].branch = c
               /\ reg'[s].status = "IN_TRANSIT"
          ELSE reg'[s] = reg[s]

Arrive(sh, c) ==
    /\ Credited(c, Manifest[sh].product, Manifest[sh].sent)
    /\ \A s \in Serials :
          IF s \in Manifest[sh].serials
          THEN /\ reg[s].status # "IN_STOCK"
               /\ reg'[s].status = "IN_STOCK" /\ reg'[s].branch = c
          ELSE reg'[s] = reg[s]

Unitless(sh) ==
    /\ Manifest[sh].serials = {} /\ reg' = reg
    /\ \E c, n : Credited(c, Manifest[sh].product, n)

UnitStep(sh) ==
    /\ \A x \in Ships \ {sh} : status'[x] = status[x]
    /\ \/ \E c \in Branches : Leave(sh, c)
       \/ /\ status[sh] = "IN_TRANSIT" /\ status'[sh] # "IN_TRANSIT"
          /\ \E c \in Branches : Arrive(sh, c)
       \/ Unitless(sh)

LEMMA EveryUnitStep ==
    ASSUME WholeReceipts, CarefulDesk, SerialsGoDirect, TypeOK, OnTrack, OnRoad, UndoFindsUnits,
           NEW sh \in Ships, Dispatches(sh) \/ Receives(sh) \/ Cancels(sh) \/ Undoes(sh)
    PROVE  UnitStep(sh)
  <1> DEFINE m == Manifest[sh]
  <1>0. /\ m.source \in Branches /\ m.dest \in Branches /\ m.serials \subseteq Serials
        /\ m.sent \in Int
    BY ManifestFields
  <1>1. \A x \in Ships \ {sh} : status'[x] = status[x]
    BY DEF Dispatches, Receives, Cancels, Undoes, Moves
  <1>2. \A r \in ReceiptsOf[sh] : r.serials = m.serials
    BY <1>0 DEF CarefulDesk, WholeReceipts
  <1>3. CASE Dispatches(sh)
    <2>1. /\ Credited(m.source, m.product, -m.sent) /\ Gate(m.serials, "IN_STOCK", m.source)
          /\ reg' = flip(m.serials, "IN_STOCK", "IN_TRANSIT", m.source, sh)
      BY <1>3 DEF Dispatches
    <2>2. Leave(sh, m.source)
      BY <2>1 DEF Leave, Gate, flip
    <2> QED BY <1>0, <1>1, <2>2 DEF UnitStep
  <1>4. CASE Receives(sh)
    <2>1. /\ Credited(m.dest, m.product, m.sent)
          /\ status[sh] = "IN_TRANSIT" /\ status'[sh] = "RECEIVED"
          /\ got'[sh].serials = m.serials /\ Gate(got'[sh].serials, "IN_TRANSIT", m.source)
          /\ reg' = flip(got'[sh].serials, "IN_TRANSIT", "IN_STOCK", m.dest, sh)
      BY <1>2, <1>4 DEF Receives, Moves
    <2>2. Arrive(sh, m.dest)
      BY <2>1 DEF Arrive, Gate, flip
    <2> QED BY <1>0, <1>1, <2>1, <2>2 DEF UnitStep
  <1>5. ASSUME ~(Asks[sh] \subseteq {"receive", "cancel", "cancelReceive"}), reg' = reg,
               \E c, n : Credited(c, m.product, n)
        PROVE  UnitStep(sh)
    BY <1>1, <1>5 DEF SerialsGoDirect, UnitStep, Unitless
  <1>6. CASE Cancels(sh)
    <2>1. /\ Credited(m.source, m.product, m.sent)
          /\ status[sh] = "IN_TRANSIT" /\ status'[sh] = "CANCELLED"
      BY <1>6 DEF Cancels, Moves
    <2>2. CASE reg' = cancelSerials(sh)
      <3>1. reg' = flip(m.serials, "IN_TRANSIT", "IN_STOCK", m.source, sh)
        BY <2>2 DEF cancelSerials
      <3>2. \A s \in m.serials : reg[s].status = "IN_TRANSIT"
        BY <2>1 DEF OnRoad
      <3>3. Arrive(sh, m.source)
        BY <2>1, <3>1, <3>2 DEF Arrive, flip
      <3> QED BY <1>0, <1>1, <2>1, <3>3 DEF UnitStep
    <2> QED BY <1>5, <1>6, <2>1, <2>2 DEF Cancels, ByRoute
  <1>7. CASE Undoes(sh)
    <2>1. /\ Credited(m.dest, m.product, -m.sent) /\ got[sh].serials = m.serials
          /\ status[sh] = "RECEIVED" /\ m.sent <= qoh[m.dest][m.product]
      BY <1>2, <1>7 DEF Undoes, Moves
    <2>2. ASSUME NEW w \in Workers, req[w].kind = "cancelReceive", req[w].ship = sh,
                 reg' = flip(undoSerials(sh, got[sh]), "IN_STOCK", "IN_TRANSIT", m.source, sh)
          PROVE  UnitStep(sh)
      <3>1. Gate(m.serials, "IN_STOCK", m.dest)
        BY <2>1, <2>2 DEF UndoFindsUnits, MayUndo
      <3>2. undoSerials(sh, got[sh]) = m.serials
        BY <2>1 DEF undoSerials
      <3>3. Leave(sh, m.dest)
        BY <2>1, <2>2, <3>1, <3>2 DEF Leave, Gate, flip
      <3> QED BY <1>0, <1>1, <3>3 DEF UnitStep
    <2> QED BY <1>5, <1>7, <2>1, <2>2 DEF Undoes, ByRoute
  <1> QED BY <1>3, <1>4, <1>6, <1>7

LEMMA OnRoadKept ==
    ASSUME WholeReceipts, CarefulDesk, SerialsGoDirect, TypeOK, OnTrack, OnRoad, UndoFindsUnits,
           [Next]_vars
    PROVE  OnRoad'
  <1>0. \A sh \in Ships : Manifest[sh].serials \subseteq Serials
    BY ManifestFields
  <1>1. ASSUME NEW sh \in Ships, UnitStep(sh) PROVE OnRoad'
    <2>1. \A x \in Ships \ {sh} : status'[x] = status[x]
      BY <1>1 DEF UnitStep
    <2>2. CASE \E c \in Branches : Leave(sh, c)
      <3>1. /\ \A s \in Manifest[sh].serials : /\ reg[s].status = "IN_STOCK"
                                               /\ reg'[s].status = "IN_TRANSIT"
            /\ \A s \in Serials \ Manifest[sh].serials : reg'[s] = reg[s]
        BY <1>0, <2>2 DEF Leave
      <3>2. \A x \in Ships \ {sh} : status[x] = "IN_TRANSIT" =>
                Manifest[x].serials \cap Manifest[sh].serials = {}
        BY <3>1 DEF OnRoad
      <3> QED BY <1>0, <2>1, <3>1, <3>2 DEF OnRoad
    <2>3. CASE /\ status[sh] = "IN_TRANSIT" /\ status'[sh] # "IN_TRANSIT"
               /\ \E c \in Branches : Arrive(sh, c)
      <3>1. \A s \in Serials \ Manifest[sh].serials : reg'[s] = reg[s]
        BY <2>3 DEF Arrive
      <3>2. \A x \in Ships \ {sh} : status[x] = "IN_TRANSIT" =>
                Manifest[x].serials \cap Manifest[sh].serials = {}
        BY <2>3 DEF OnRoad
      <3> QED BY <1>0, <2>1, <2>3, <3>1, <3>2 DEF OnRoad
    <2>4. CASE Unitless(sh)
      <3>1. reg' = reg /\ Manifest[sh].serials = {}
        BY <2>4 DEF Unitless
      <3> QED BY <1>0, <2>1, <3>1 DEF OnRoad
    <2> QED BY <1>1, <2>2, <2>3, <2>4 DEF UnitStep
  <1>2. ASSUME NEW s \in Serials, Sells(s) PROVE OnRoad'
    <2>1. /\ status' = status /\ reg[s].status = "IN_STOCK"
          /\ \A x \in Serials \ {s} : reg'[x] = reg[x]
      BY <1>2 DEF Sells, TypeOK
    <2> QED BY <1>0, <2>1 DEF OnRoad
  <1>3. CASE UNCHANGED Written
    BY <1>3 DEF Written, OnRoad
  <1> QED BY <1>1, <1>2, <1>3, ShipSteps, EveryUnitStep

(* A set and what joins it. *)
LEMMA Joined ==
    ASSUME NEW S, NEW T, NEW L, IsFiniteSet(S), IsFiniteSet(L), S \cap L = {}, T = S \cup L
    PROVE  Cardinality(T) = Cardinality(S) + Cardinality(L)
  <1>1. Cardinality(S \cup L) = Cardinality(S) + Cardinality(L) - Cardinality(S \cap L)
    BY FS_Union
  <1>2. Cardinality(S \cap L) = 0
    BY FS_EmptySet
  <1>3. Cardinality(S) \in Nat /\ Cardinality(L) \in Nat
    BY FS_CardinalityType
  <1> QED BY <1>1, <1>2, <1>3

(* As many units are IN_STOCK at a branch as its quantity says, for any    *)
(* number of shipments and units: when receipts are whole and tick all     *)
(* serials, shipments with serials keep to the direct route, and an undo   *)
(* that finds the quantity also finds the units.                           *)
THEOREM RegisterFollowsStock ==
    ASSUME WholeReceipts, CarefulDesk, SerialsGoDirect
    PROVE  Spec /\ []Apart /\ []UndoFindsUnits => []RegisterMatchesStock
  <1> DEFINE Inv == OnRoad /\ RegisterMatchesStock
  <1>1. Init => Inv
    <2> SUFFICES ASSUME Init PROVE Inv
      OBVIOUS
    <2>1. OnRoad
      BY DEF Init, OnRoad
    <2>2. ASSUME NEW b \in Branches, NEW p \in SerialTracked
          PROVE  Cardinality(Shelf(b, p)) = qoh[b][p]
      <3>1. Shelf(b, p) = {s \in Serials : ProductOf[s] = p /\ BranchAtStart[s] = b}
        BY DEF Init, Shelf
      <3>2. qoh[b][p] = StockAtStart[b][p]
        BY DEF Init
      <3> QED BY <3>1, <3>2, OpeningAssumption
    <2> QED BY <2>1, <2>2 DEF RegisterMatchesStock, Shelf
  <1>2. TypeOK /\ OnTrack /\ UndoFindsUnits /\ Inv /\ [Next]_vars => Inv'
    <2> SUFFICES ASSUME TypeOK, OnTrack, UndoFindsUnits, Inv, [Next]_vars PROVE Inv'
      OBVIOUS
    <2>1. OnRoad'
      BY OnRoadKept
    <2>2. ASSUME NEW b \in Branches, NEW p \in SerialTracked
          PROVE  Cardinality(Shelf(b, p)') = qoh'[b][p]
      <3>0. p \in Products /\ Cardinality(Shelf(b, p)) = qoh[b][p] /\ qoh[b][p] \in Int
        BY ConstantsAssumption DEF TypeOK, RegisterMatchesStock, Shelf
      <3>1. IsFiniteSet(Shelf(b, p)) /\ IsFiniteSet(Shelf(b, p)')
        BY FS_Subset, ConstantsAssumption DEF Shelf
      <3>2. Cardinality(Shelf(b, p)') \in Nat
        BY <3>1, FS_CardinalityType
      <3>3. \A s : s \in Shelf(b, p) <=> /\ s \in Serials /\ ProductOf[s] = p
                                         /\ reg[s].branch = b /\ reg[s].status = "IN_STOCK"
        BY DEF Shelf
      <3>4. \A s : s \in Shelf(b, p)' <=> /\ s \in Serials /\ ProductOf[s] = p
                                          /\ reg'[s].branch = b /\ reg'[s].status = "IN_STOCK"
        BY DEF Shelf
      <3>5. ASSUME Shelf(b, p)' = Shelf(b, p), qoh'[b][p] = qoh[b][p]
            PROVE  Cardinality(Shelf(b, p)') = qoh'[b][p]
        BY <3>0, <3>5
      <3>6. ASSUME NEW sh \in Ships, UnitStep(sh)
            PROVE  Cardinality(Shelf(b, p)') = qoh'[b][p]
        <4> DEFINE m == Manifest[sh]
                   L == m.serials
        <4>1. /\ L \subseteq Serials /\ m.sent \in Nat /\ m.sent > 0
              /\ \A s \in L : ProductOf[s] = m.product
              /\ m.product \in SerialTracked => Cardinality(L) = m.sent
          BY ManifestFields, ManifestAssumption DEF planSerialGateEntries
        <4>2. IsFiniteSet(L)
          BY <4>1, FS_Subset, ConstantsAssumption
        <4> HIDE DEF L
        <4>3. ASSUME NEW c \in Branches, Leave(sh, c)
              PROVE  Cardinality(Shelf(b, p)') = qoh'[b][p]
          <5>1. qoh'[b][p] = IF b = c /\ p = m.product THEN qoh[b][p] + (-m.sent) ELSE qoh[b][p]
            BY <3>0, <4>3 DEF Leave, Credited
          <5>2. \A s \in Serials : IF s \in L
                                   THEN /\ reg[s].status = "IN_STOCK" /\ reg[s].branch = c
                                        /\ reg'[s].status = "IN_TRANSIT"
                                   ELSE reg'[s] = reg[s]
            BY <4>3 DEF Leave, L
          <5> HIDE DEF m
          <5>3. CASE b = c /\ p = m.product
            <6>1. Shelf(b, p)' \cap L = {} /\ Shelf(b, p) = Shelf(b, p)' \cup L
              BY <3>3, <3>4, <4>1, <5>2, <5>3
            <6>2. Cardinality(Shelf(b, p)) = Cardinality(Shelf(b, p)') + Cardinality(L)
              BY <3>1, <4>2, <6>1, Joined
            <6>3. qoh[b][p] = Cardinality(Shelf(b, p)') + m.sent
              BY <3>0, <4>1, <5>3, <6>2
            <6>4. qoh'[b][p] = (Cardinality(Shelf(b, p)') + m.sent) + (-m.sent)
              BY <5>1, <5>3, <6>3
            <6> QED BY <3>2, <4>1, <6>4
          <5>4. CASE ~(b = c /\ p = m.product)
            <6>1. Shelf(b, p)' = Shelf(b, p)
              BY <3>3, <3>4, <4>1, <5>2, <5>4
            <6> QED BY <3>5, <5>1, <5>4, <6>1
          <5> QED BY <5>3, <5>4
        <4>4. ASSUME NEW c \in Branches, Arrive(sh, c)
              PROVE  Cardinality(Shelf(b, p)') = qoh'[b][p]
          <5>1. qoh'[b][p] = IF b = c /\ p = m.product THEN qoh[b][p] + m.sent ELSE qoh[b][p]
            BY <3>0, <4>4 DEF Arrive, Credited
          <5>2. \A s \in Serials : IF s \in L
                                   THEN /\ reg[s].status # "IN_STOCK"
                                        /\ reg'[s].status = "IN_STOCK" /\ reg'[s].branch = c
                                   ELSE reg'[s] = reg[s]
            BY <4>4 DEF Arrive, L
          <5> HIDE DEF m
          <5>3. CASE b = c /\ p = m.product
            <6>1. Shelf(b, p) \cap L = {} /\ Shelf(b, p)' = Shelf(b, p) \cup L
              BY <3>3, <3>4, <4>1, <5>2, <5>3
            <6>2. Cardinality(Shelf(b, p)') = Cardinality(Shelf(b, p)) + Cardinality(L)
              BY <3>1, <4>2, <6>1, Joined
            <6> QED BY <3>0, <4>1, <5>1, <5>3, <6>2
          <5>4. CASE ~(b = c /\ p = m.product)
            <6>1. Shelf(b, p)' = Shelf(b, p)
              BY <3>3, <3>4, <4>1, <5>2, <5>4
            <6> QED BY <3>5, <5>1, <5>4, <6>1
          <5> QED BY <5>3, <5>4
        <4>5. ASSUME Unitless(sh) PROVE Cardinality(Shelf(b, p)') = qoh'[b][p]
          <5>1. L = {} /\ reg' = reg
            BY <4>5 DEF Unitless, L
          <5>2. PICK c, n : Credited(c, m.product, n)
            BY <4>5 DEF Unitless
          <5>3. p # m.product
            <6>1. Cardinality(L) = 0
              BY <5>1, FS_EmptySet
            <6> QED BY <4>1, <6>1
          <5>4. qoh'[b][p] = qoh[b][p]
            BY <3>0, <5>2, <5>3 DEF Credited
          <5>5. Shelf(b, p)' = Shelf(b, p)
            BY <5>1 DEF Shelf
          <5> QED BY <3>5, <5>4, <5>5
        <4> QED BY <3>6, <4>3, <4>4, <4>5 DEF UnitStep
      <3>7. ASSUME NEW s \in Serials, Sells(s) PROVE Cardinality(Shelf(b, p)') = qoh'[b][p]
        <4>1. /\ reg[s].status = "IN_STOCK" /\ reg'[s].status # "IN_STOCK"
              /\ \A x \in Serials \ {s} : reg'[x] = reg[x]
          BY <3>7 DEF Sells, TypeOK
        <4>2. qoh'[b][p] = IF b = reg[s].branch /\ p = ProductOf[s] THEN qoh[b][p] + (-1)
                                                                    ELSE qoh[b][p]
          BY <3>0, <3>7 DEF Sells, Credited
        <4>3. CASE b = reg[s].branch /\ p = ProductOf[s]
          <5>1. s \in Shelf(b, p) /\ Shelf(b, p)' = Shelf(b, p) \ {s}
            BY <3>3, <3>4, <4>1, <4>3
          <5>2. Cardinality(Shelf(b, p)') = Cardinality(Shelf(b, p)) - 1
            BY <3>1, <5>1, FS_RemoveElement
          <5> QED BY <3>0, <4>2, <4>3, <5>2
        <4>4. CASE ~(b = reg[s].branch /\ p = ProductOf[s])
          <5>0. s \notin Shelf(b, p) /\ s \notin Shelf(b, p)'
            BY <3>3, <3>4, <4>1, <4>4
          <5>1. Shelf(b, p)' = Shelf(b, p)
            BY <3>3, <3>4, <4>1, <5>0
          <5> QED BY <3>5, <4>2, <4>4, <5>1
        <4> QED BY <4>3, <4>4
      <3>8. ASSUME UNCHANGED Written PROVE Cardinality(Shelf(b, p)') = qoh'[b][p]
        <4>1. Shelf(b, p)' = Shelf(b, p) /\ qoh' = qoh
          BY <3>8 DEF Written, Shelf
        <4> QED BY <3>5, <4>1
      <3> QED BY <3>6, <3>7, <3>8, ShipSteps, EveryUnitStep
    <2>3. RegisterMatchesStock'
      BY <2>2 DEF RegisterMatchesStock, Shelf
    <2> QED BY <2>1, <2>3
  <1>3. Inv => RegisterMatchesStock
    OBVIOUS
  <1> QED BY <1>1, <1>2, <1>3, TypeCorrect, OnTrackAlways, PTL DEF Spec

=============================================================================
