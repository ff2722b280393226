-------------------------- MODULE SettlementProofs --------------------------
(***************************************************************************)
(* Proofs about Settlement: the types, the payment status, the journals of *)
(* a payment, and that a balance is the sum of its payments, for any       *)
(* number of invoices, payments and concurrent requests.                   *)
(***************************************************************************)
EXTENDS Settlement, Sums, TLAPS

(* What a step does to a balance keeps it a number, and its status one.    *)
LEMMA BalanceStep ==
    ASSUME TypeOK, NEW d \in Docs, NEW n \in Nat,
           recordPayment(d, n) \/ undoPayment(d, n)
    PROVE  /\ paid' \in [Docs -> Int]
           /\ settled' \in [Docs -> Statuses]
  <1>1. paid[d] + n \in Int /\ Less(paid[d], n) \in Int
    BY DEF TypeOK, Less
  <1>2. \A m \in Int : paymentStatus(d, m) \in Statuses
    BY DEF paymentStatus, Statuses
  <1>3. CASE recordPayment(d, n)
    BY <1>1, <1>2, <1>3 DEF recordPayment, TypeOK
  <1>4. CASE undoPayment(d, n)
    BY <1>1, <1>2, <1>4 DEF undoPayment, TypeOK
  <1> QED BY <1>3, <1>4

(* A reversal on its way names payments, and a bill when it is the bulk    *)
(* one.                                                                    *)
LEMMA RequestFields ==
    ASSUME TypeOK, NEW w \in Workers
    PROVE  /\ req[w].list \subseteq Payments
           /\ req[w].kind = "reverseAll" => req[w].doc \in Bills
  BY DEF TypeOK, Requests, Idle

LEMMA AmountFields ==
    ASSUME NEW p \in Payments
    PROVE  PayFor[p] \in Docs /\ Amount[p] \in Nat
  BY SettlementAssumption

-----------------------------------------------------------------------------
(* Every row keeps its type: whatever a request body states and whatever   *)
(* reversals race, a balance is a number and its status one of the three   *)
(* that the CHECK constraint of the column allows.                         *)
THEOREM TypeCorrect == Spec => []TypeOK
  <1>1. Init => TypeOK
    <2> SUFFICES ASSUME Init PROVE TypeOK
      OBVIOUS
    <2> QED BY SettlementAssumption DEF Init, TypeOK, Requests
  <1>2. TypeOK /\ [Next]_vars => TypeOK'
    <2> SUFFICES ASSUME TypeOK, [Next]_vars PROVE TypeOK'
      OBVIOUS
    <2> USE DEF Docs
    <2>1. ASSUME NEW b \in Bills, NEW n \in LegacyAmounts, post_pay(b, n) PROVE TypeOK'
      <3>1. n \in Nat /\ b \in Docs
        BY SettlementAssumption
      <3>2. direct' \in [Docs -> Int]
        BY <2>1, <3>1 DEF post_pay, TypeOK
      <3> QED BY <2>1, <3>1, <3>2, BalanceStep DEF post_pay, Derived, TypeOK
    <2>2. ASSUME NEW b \in Bills, delete_Id2(b) PROVE TypeOK'
      BY <2>2 DEF delete_Id2, TypeOK
    <2>3. ASSUME NEW b \in Bills, NEW n \in BodyAmounts, NEW s \in Statuses,
                 post_purchaseInvoices(b, n, s)
          PROVE  TypeOK'
      <3>1. n \in Int
        BY SettlementAssumption
      <3> QED BY <2>3, <3>1 DEF post_purchaseInvoices, TypeOK
    <2>4. ASSUME NEW w \in Workers, NEW b \in Bills, CheckReversePayments(w, b)
          PROVE  TypeOK'
      <3>1. PostedFor(b) \subseteq Payments
        BY DEF PostedFor
      <3>2. [kind |-> "reverseAll", doc |-> b, list |-> PostedFor(b)] \in Requests
        BY <3>1 DEF Requests
      <3> QED BY <2>4, <3>2 DEF CheckReversePayments, Ask, TypeOK
    <2>5. ASSUME NEW v \in Sales, post_salesInvoiceCancel(v) PROVE TypeOK'
      BY <2>5 DEF post_salesInvoiceCancel, TypeOK
    <2>6. ASSUME NEW p \in Payments, post_vendorPayments(p) \/ post_customerPayments(p)
          PROVE  TypeOK'
      <3>1. PostPayment(p) /\ UNCHANGED <<doc, req, direct, known>>
        BY <2>6 DEF post_vendorPayments, post_customerPayments
      <3>2. late' \subseteq Payments
        BY <2>6 DEF post_vendorPayments, post_customerPayments, TypeOK
      <3>3. /\ paid' \in [Docs -> Int]
            /\ settled' \in [Docs -> Statuses]
        BY <3>1, AmountFields, BalanceStep DEF PostPayment
      <3> QED BY <3>1, <3>2, <3>3 DEF PostPayment, Derived, TypeOK
    <2>7. ASSUME NEW w \in Workers, NEW p \in Payments, CheckReverse(w, p) PROVE TypeOK'
      <3>1. [kind |-> "reverse", doc |-> None, list |-> {p}] \in Requests
        BY DEF Requests
      <3> QED BY <2>7, <3>1 DEF CheckReverse, Ask, TypeOK
    <2>8. ASSUME NEW w \in Workers, post_reverse(w) PROVE TypeOK'
      <3>1. PICK p \in req[w].list : undoPayment(PayFor[p], Amount[p])
        BY <2>8 DEF post_reverse
      <3>2. /\ paid' \in [Docs -> Int]
            /\ settled' \in [Docs -> Statuses]
        BY <3>1, AmountFields, BalanceStep, RequestFields
      <3> QED BY <2>8, <3>2
              DEF post_reverse, markReversed, reverseJournals, Derived, Done, Requests, TypeOK
    <2>9. ASSUME NEW w \in Workers, post_reversePayments(w) PROVE TypeOK'
      <3>1. req[w].doc \in Docs /\ req[w].doc \in Bills
        BY <2>9, RequestFields DEF post_reversePayments
      <3>2. /\ paid' \in [Docs -> Int]
            /\ settled' \in [Docs -> Statuses]
            /\ direct' \in [Docs -> Int]
            /\ known' \subseteq Docs
        BY <2>9, <3>1 DEF post_reversePayments, Statuses, TypeOK
      <3> QED BY <2>9, <3>2
              DEF post_reversePayments, markReversed, reverseJournals, Derived, Done,
                  Requests, TypeOK
    <2>10. ASSUME NEW w \in Workers, Abandon(w) PROVE TypeOK'
      BY <2>10 DEF Abandon, Done, Requests, TypeOK
    <2>11. CASE UNCHANGED vars
      BY <2>11 DEF vars, TypeOK
    <2> QED
      BY <2>1, <2>2, <2>3, <2>4, <2>5, <2>6, <2>7, <2>8, <2>9, <2>10, <2>11 DEF Next
  <1> QED BY <1>1, <1>2, PTL DEF Spec

-----------------------------------------------------------------------------
(* The stored payment status of an invoice is the one its balance gives    *)
(* from the first payment, receipt or reversal on, whatever pair the body  *)
(* of the request that made the invoice stated; only a re-post of a bill   *)
(* brings a stated pair back.                                              *)
THEOREM StatusIsDerived == Spec => []StatusFollowsBalance
  <1>1. Init => StatusFollowsBalance
    BY DEF Init, StatusFollowsBalance
  <1>2. TypeOK /\ StatusFollowsBalance /\ [Next]_vars => StatusFollowsBalance'
    <2> SUFFICES ASSUME TypeOK, StatusFollowsBalance, [Next]_vars
                 PROVE  StatusFollowsBalance'
      OBVIOUS
    <2>1. ASSUME NEW d \in Docs, NEW n \in Nat, recordPayment(d, n) \/ undoPayment(d, n),
                 Derived(d), UNCHANGED doc
          PROVE  StatusFollowsBalance'
      BY <2>1 DEF recordPayment, undoPayment, Derived, StatusFollowsBalance, paymentStatus, TypeOK
    <2>2. ASSUME NEW b \in Bills, Derived(b), UNCHANGED doc,
                 \/ doc[b] = "DELETED" /\ UNCHANGED <<paid, settled>>
                 \/ /\ paid' = [paid EXCEPT ![b] = 0]
                    /\ settled' = [settled EXCEPT ![b] = "UNPAID"]
          PROVE  StatusFollowsBalance'
      <3>1. Total[b] \in Nat \ {0}
        BY SettlementAssumption DEF Docs
      <3> QED BY <2>2, <3>1 DEF StatusFollowsBalance, Derived, paymentStatus, TypeOK, Docs
    <2>3. ASSUME UNCHANGED <<paid, settled, stated>>,
                 \A d \in Docs : doc'[d] # "DELETED" => doc[d] # "DELETED"
          PROVE  StatusFollowsBalance'
      BY <2>3 DEF StatusFollowsBalance, paymentStatus
    <2>4. ASSUME NEW b \in Bills, NEW n \in LegacyAmounts, post_pay(b, n)
          PROVE  StatusFollowsBalance'
      BY <2>1, <2>4, SettlementAssumption DEF post_pay, Docs
    <2>5. ASSUME NEW p \in Payments, post_vendorPayments(p) \/ post_customerPayments(p)
          PROVE  StatusFollowsBalance'
      BY <2>1, <2>5, AmountFields DEF post_vendorPayments, post_customerPayments, PostPayment
    <2>6. ASSUME NEW w \in Workers, post_reverse(w) PROVE StatusFollowsBalance'
      BY <2>1, <2>6, AmountFields, RequestFields DEF post_reverse
    <2>7. ASSUME NEW w \in Workers, post_reversePayments(w) PROVE StatusFollowsBalance'
      BY <2>2, <2>7, RequestFields DEF post_reversePayments
    <2>8. ASSUME NEW b \in Bills, NEW n \in BodyAmounts, NEW s \in Statuses,
                 post_purchaseInvoices(b, n, s)
          PROVE  StatusFollowsBalance'
      BY <2>8 DEF post_purchaseInvoices, StatusFollowsBalance, paymentStatus, TypeOK
    <2>9. ASSUME NEW b \in Bills, delete_Id2(b) PROVE StatusFollowsBalance'
      BY <2>3, <2>9 DEF delete_Id2, TypeOK
    <2>10. ASSUME NEW v \in Sales, post_salesInvoiceCancel(v) PROVE StatusFollowsBalance'
      BY <2>3, <2>10 DEF post_salesInvoiceCancel, TypeOK
    <2> QED
      BY <2>3, <2>4, <2>5, <2>6, <2>7, <2>8, <2>9, <2>10
      DEF Next, vars, CheckReversePayments, CheckReverse, Ask, Abandon
  <1> QED BY <1>1, <1>2, TypeCorrect, PTL DEF Spec

-----------------------------------------------------------------------------
(* A payment's cash entry is posted once and reversed at most once, and    *)
(* exactly when the payment is: the status lock of both reversals is what  *)
(* keeps two of them from reversing it twice.                              *)
THEOREM JournalsReversedOnce == Spec => []JournalsFollowPayments
  <1>1. Init => JournalsFollowPayments
    BY DEF Init, JournalsFollowPayments
  <1>2. TypeOK /\ JournalsFollowPayments /\ [Next]_vars => JournalsFollowPayments'
    <2> SUFFICES ASSUME TypeOK, JournalsFollowPayments, [Next]_vars
                 PROVE  JournalsFollowPayments'
      OBVIOUS
    <2>1. ASSUME NEW L, stillPosted(L), markReversed(L), reverseJournals(L)
          PROVE  JournalsFollowPayments'
      BY <2>1 DEF JournalsFollowPayments, stillPosted, markReversed, reverseJournals, TypeOK
    <2>2. ASSUME NEW p \in Payments, PostPayment(p) PROVE JournalsFollowPayments'
      BY <2>2 DEF JournalsFollowPayments, PostPayment, TypeOK
    <2>3. ASSUME UNCHANGED <<pay, journal>> PROVE JournalsFollowPayments'
      BY <2>3 DEF JournalsFollowPayments
    <2> QED
      BY <2>1, <2>2, <2>3
      DEF Next, vars, post_pay, delete_Id2, post_purchaseInvoices, CheckReversePayments,
          post_salesInvoiceCancel, post_vendorPayments, post_customerPayments,
          CheckReverse, Ask, post_reverse, post_reversePayments, Abandon
  <1> QED BY <1>1, <1>2, TypeCorrect, PTL DEF Spec

-----------------------------------------------------------------------------
(* Balances.  What a reversal in flight carries: one payment, or payments  *)
(* of the bill it names.                                                   *)
ListsAreOfDoc ==
    \A w \in Workers :
        /\ req[w].kind = "reverse" => \E p \in Payments : req[w].list = {p}
        /\ req[w].kind = "reverseAll" => \A p \in req[w].list : PayFor[p] = req[w].doc

(* What was recorded without a row is not below zero, unless a request     *)
(* body said so.                                                           *)
RecordedIsNatural == \A d \in Docs \ known : direct[d] \in Nat

(* A voided sale has nothing recorded without a row, and no receipt from   *)
(* before.                                                                 *)
VoidedWasUnpaid ==
    \A v \in Sales \ known :
        doc[v] = "CANCELLED" => direct[v] = 0 /\ PostedFor(v) \subseteq late

LEMMA NaturalKept ==
    ASSUME TypeOK, RecordedIsNatural, [Next]_vars
    PROVE  RecordedIsNatural'
  <1>1. ASSUME NEW b \in Bills, NEW n \in LegacyAmounts, post_pay(b, n)
        PROVE  RecordedIsNatural'
    <2>1. n \in Nat
      BY SettlementAssumption
    <2> QED BY <1>1, <2>1 DEF post_pay, RecordedIsNatural, TypeOK
  <1>2. ASSUME NEW b \in Bills, NEW n \in BodyAmounts, NEW s \in Statuses,
               post_purchaseInvoices(b, n, s)
        PROVE  RecordedIsNatural'
    <2>1. n \in Int
      BY SettlementAssumption
    <2> QED BY <1>2, <2>1 DEF post_purchaseInvoices, RecordedIsNatural, TypeOK
  <1>3. ASSUME NEW w \in Workers, post_reversePayments(w) PROVE RecordedIsNatural'
    BY <1>3 DEF post_reversePayments, RecordedIsNatural, TypeOK
  <1>4. ASSUME UNCHANGED <<direct, known>> PROVE RecordedIsNatural'
    BY <1>4 DEF RecordedIsNatural
  <1> QED BY <1>1, <1>2, <1>3, <1>4
          DEF Next, vars, delete_Id2, post_salesInvoiceCancel, post_vendorPayments,
              post_customerPayments, post_reverse, CheckReversePayments, CheckReverse,
              Ask, Abandon

LEMMA ListsKept ==
    ASSUME TypeOK, ListsAreOfDoc, [Next]_vars
    PROVE  ListsAreOfDoc'
  <1>1. ASSUME NEW w \in Workers, Done(w) PROVE ListsAreOfDoc'
    BY <1>1 DEF ListsAreOfDoc, Done, Idle, TypeOK
  <1>2. ASSUME NEW w \in Workers, NEW p \in Payments, CheckReverse(w, p) PROVE ListsAreOfDoc'
    BY <1>2 DEF ListsAreOfDoc, CheckReverse, Ask, TypeOK
  <1>3. ASSUME NEW w \in Workers, NEW b \in Bills, CheckReversePayments(w, b)
        PROVE  ListsAreOfDoc'
    BY <1>3 DEF ListsAreOfDoc, CheckReversePayments, Ask, PostedFor, TypeOK
  <1>4. ASSUME UNCHANGED req PROVE ListsAreOfDoc'
    BY <1>4 DEF ListsAreOfDoc
  <1> QED BY <1>1, <1>2, <1>3, <1>4
          DEF Next, vars, post_pay, delete_Id2, post_purchaseInvoices,
              post_salesInvoiceCancel, post_vendorPayments, post_customerPayments,
              post_reverse, post_reversePayments, Abandon

(* Sums of posted payments. *)
LEMMA PostedSum ==
    ASSUME NEW S \in SUBSET Payments
    PROVE  /\ IsFiniteSet(S) /\ SumFunctionOnSet(Amount, S) \in Nat
           /\ \A p \in S : SumFunctionOnSet(Amount, S)
                              = Amount[p] + SumFunctionOnSet(Amount, S \ {p})
           /\ \A p \in Payments \ S : SumFunctionOnSet(Amount, S \cup {p})
                                         = SumFunctionOnSet(Amount, S) + Amount[p]
  <1>1. IsFiniteSet(S) /\ \A p \in Payments : Amount[p] \in Int /\ Amount[p] \in Nat
    BY FS_Subset, SettlementAssumption
  <1>2. \A x \in S : Amount[x] \in Int /\ Amount[x] \in Nat
    BY <1>1
  <1>3. SumFunctionOnSet(Amount, S) \in Nat
    BY <1>1, <1>2, SumType
  <1>4. \A p \in S : SumFunctionOnSet(Amount, S)
                        = Amount[p] + SumFunctionOnSet(Amount, S \ {p})
    BY <1>1, <1>2, SumRemove
  <1>5. \A p \in Payments \ S : SumFunctionOnSet(Amount, S \cup {p})
                                   = SumFunctionOnSet(Amount, S) + Amount[p]
    BY <1>1, <1>2, SumAdd
  <1> QED BY <1>1, <1>3, <1>4, <1>5

LEMMA PostingAddsUp ==
    ASSUME TypeOK, NEW p \in Payments, PostPayment(p), UNCHANGED direct, NEW d \in Docs,
           paid[d] = direct[d] + SumFunctionOnSet(Amount, PostedFor(d))
    PROVE  paid'[d] = direct'[d] + SumFunctionOnSet(Amount, PostedFor(d)')
  <1>0. /\ paid[d] \in Int /\ direct[d] \in Int /\ Amount[p] \in Nat
        /\ PostedFor(d) \in SUBSET Payments
        /\ SumFunctionOnSet(Amount, PostedFor(d)) \in Nat
    BY AmountFields, PostedSum DEF TypeOK, PostedFor
  <1>1. CASE PayFor[p] # d
    <2>1. PostedFor(d)' = PostedFor(d) /\ paid'[d] = paid[d]
      BY <1>1 DEF PostPayment, recordPayment, PostedFor, TypeOK
    <2> QED BY <2>1
  <1>2. CASE PayFor[p] = d
    <2>1. PostedFor(d)' = PostedFor(d) \cup {p} /\ p \notin PostedFor(d)
      BY <1>2 DEF PostPayment, PostedFor, TypeOK
    <2>2. paid'[d] = paid[d] + Amount[p]
      BY <1>2 DEF PostPayment, recordPayment, TypeOK
    <2>3. SumFunctionOnSet(Amount, PostedFor(d) \cup {p})
              = SumFunctionOnSet(Amount, PostedFor(d)) + Amount[p]
      BY <1>0, <2>1, PostedSum
    <2> QED BY <1>0, <2>1, <2>2, <2>3
  <1> QED BY <1>1, <1>2

LEMMA ReversalTakesOff ==
    ASSUME TypeOK, NEW p \in Payments, stillPosted({p}), markReversed({p}),
           undoPayment(PayFor[p], Amount[p]), UNCHANGED direct, NEW d \in Docs,
           doc[d] # "DELETED", direct[d] \in Nat,
           paid[d] = direct[d] + SumFunctionOnSet(Amount, PostedFor(d))
    PROVE  paid'[d] = direct'[d] + SumFunctionOnSet(Amount, PostedFor(d)')
  <1>0. /\ paid[d] \in Int /\ direct[d] \in Int /\ Amount[p] \in Nat
        /\ PostedFor(d) \in SUBSET Payments
        /\ SumFunctionOnSet(Amount, PostedFor(d)) \in Nat
    BY AmountFields, PostedSum DEF TypeOK, PostedFor
  <1>1. CASE PayFor[p] # d
    <2>1. PostedFor(d)' = PostedFor(d) /\ paid'[d] = paid[d]
      BY <1>1 DEF markReversed, undoPayment, PostedFor, TypeOK
    <2> QED BY <2>1
  <1>2. CASE PayFor[p] = d
    <2>1. PostedFor(d)' = PostedFor(d) \ {p} /\ p \in PostedFor(d)
      BY <1>2 DEF markReversed, stillPosted, PostedFor, TypeOK
    <2>2. SumFunctionOnSet(Amount, PostedFor(d))
              = Amount[p] + SumFunctionOnSet(Amount, PostedFor(d) \ {p})
      BY <1>0, <2>1, PostedSum
    <2>3. SumFunctionOnSet(Amount, PostedFor(d) \ {p}) \in Nat
      BY <1>0, PostedSum
    <2>4. Amount[p] <= paid[d]
      BY <1>0, <2>2, <2>3
    <2>5. paid'[d] = paid[d] - Amount[p]
      BY <1>2, <2>4 DEF undoPayment, Less, TypeOK
    <2> QED BY <1>0, <2>1, <2>2, <2>3, <2>5
  <1> QED BY <1>1, <1>2

LEMMA BulkReversal ==
    ASSUME TypeOK, ListsAreOfDoc, PaidIsPayments, NEW w \in Workers, post_reversePayments(w),
           NEW d \in Docs \ known', doc'[d] # "DELETED"
    PROVE  paid'[d] = direct'[d] + SumFunctionOnSet(Amount, PostedFor(d)')
  <1> DEFINE b == req[w].doc
             L == req[w].list
  <1>1. /\ b \in Bills /\ b \in Docs /\ L \subseteq Payments
        /\ \A p \in L : PayFor[p] = b
    BY RequestFields DEF post_reversePayments, ListsAreOfDoc, Docs
  <1>2. UNCHANGED doc /\ d \notin known
    BY DEF post_reversePayments
  <1>3. CASE b # d
    <2>1. PostedFor(d)' = PostedFor(d)
      BY <1>1, <1>3 DEF post_reversePayments, markReversed, PostedFor, TypeOK
    <2>2. paid'[d] = paid[d] /\ direct'[d] = direct[d]
      BY <1>1, <1>3 DEF post_reversePayments, TypeOK
    <2> QED BY <1>2, <2>1, <2>2 DEF PaidIsPayments
  <1>4. CASE b = d
    <2>1. doc[b] # "DELETED"
      BY <1>2, <1>4
    <2>2. PostedFor(b) = L /\ paid'[b] = 0 /\ direct'[b] = 0
      BY <1>1, <1>4, <2>1 DEF post_reversePayments, TypeOK
    <2>3. PostedFor(d)' = {}
      BY <1>4, <2>2 DEF post_reversePayments, markReversed, PostedFor, TypeOK
    <2> QED BY <1>4, <2>2, <2>3, SumEmpty
  <1> QED BY <1>3, <1>4

LEMMA BalancesKept ==
    ASSUME TypeOK, ListsAreOfDoc, RecordedIsNatural, PaidIsPayments, [Next]_vars
    PROVE  PaidIsPayments'
  <1> SUFFICES ASSUME NEW d \in Docs, d \notin known', doc'[d] # "DELETED"
               PROVE  paid'[d] = direct'[d] + SumFunctionOnSet(Amount, PostedFor(d)')
    BY DEF PaidIsPayments
  <1> DEFINE Goal == paid'[d] = direct'[d] + SumFunctionOnSet(Amount, PostedFor(d)')
  <1>0. d \notin known /\ doc[d] # "DELETED" =>
            paid[d] = direct[d] + SumFunctionOnSet(Amount, PostedFor(d))
    BY DEF PaidIsPayments
  <1>1. ASSUME UNCHANGED <<paid, direct, pay>>, d \notin known, doc[d] # "DELETED" PROVE Goal
    <2>1. PostedFor(d)' = PostedFor(d)
      BY <1>1 DEF PostedFor
    <2> QED BY <1>0, <1>1, <2>1
  <1>2. ASSUME NEW b \in Bills, NEW n \in LegacyAmounts, post_pay(b, n) PROVE Goal
    <2>1. PostedFor(d)' = PostedFor(d) /\ UNCHANGED <<doc, known>>
      BY <1>2 DEF post_pay, PostedFor
    <2>2. /\ paid[d] \in Int /\ direct[d] \in Int /\ n \in Nat /\ b \in Docs
          /\ SumFunctionOnSet(Amount, PostedFor(d)) \in Nat
      <3>1. PostedFor(d) \in SUBSET Payments
        BY DEF PostedFor
      <3> QED BY <3>1, PostedSum, SettlementAssumption DEF TypeOK, Docs
    <2>3. CASE b = d
      <3>1. paid'[d] = paid[d] + n /\ direct'[d] = direct[d] + n
        BY <1>2, <2>2, <2>3 DEF post_pay, recordPayment, TypeOK
      <3> QED BY <1>0, <2>1, <2>2, <3>1
    <2>4. CASE b # d
      <3>1. paid'[d] = paid[d] /\ direct'[d] = direct[d]
        BY <1>2, <2>2, <2>4 DEF post_pay, recordPayment, TypeOK
      <3> QED BY <1>0, <2>1, <3>1
    <2> QED BY <2>3, <2>4
  <1>3. ASSUME NEW p \in Payments, post_vendorPayments(p) \/ post_customerPayments(p)
        PROVE  Goal
    <2>1. PostPayment(p) /\ UNCHANGED <<doc, known, direct>>
      BY <1>3 DEF post_vendorPayments, post_customerPayments
    <2> QED BY <1>0, <2>1, PostingAddsUp
  <1>4. ASSUME NEW w \in Workers, post_reverse(w) PROVE Goal
    <2>1. PICK p \in Payments : req[w].list = {p}
      BY <1>4 DEF post_reverse, ListsAreOfDoc
    <2>2. /\ stillPosted({p}) /\ markReversed({p}) /\ undoPayment(PayFor[p], Amount[p])
          /\ UNCHANGED <<doc, known, direct>>
      BY <1>4, <2>1 DEF post_reverse
    <2>3. d \notin known => direct[d] \in Nat
      BY DEF RecordedIsNatural
    <2> QED BY <1>0, <2>2, <2>3, ReversalTakesOff
  <1>5. ASSUME NEW w \in Workers, post_reversePayments(w) PROVE Goal
    BY <1>5, BulkReversal
  <1>6. ASSUME NEW b \in Bills, NEW n \in BodyAmounts, NEW s \in Statuses,
               post_purchaseInvoices(b, n, s)
        PROVE  Goal
    <2>1. /\ PostedFor(d)' = PostedFor(d) /\ UNCHANGED doc /\ d \notin known
          /\ b = d => PostedFor(d) = {}
      BY <1>6 DEF post_purchaseInvoices, PostedFor
    <2>2. CASE b = d
      <3>1. paid'[d] = n /\ direct'[d] = n /\ n \in Int
        BY <1>6, <2>2, SettlementAssumption DEF post_purchaseInvoices, TypeOK, Docs
      <3> QED BY <2>1, <2>2, <3>1, SumEmpty
    <2>3. CASE b # d
      <3>1. paid'[d] = paid[d] /\ direct'[d] = direct[d]
        BY <1>6, <2>3 DEF post_purchaseInvoices, TypeOK, Docs
      <3> QED BY <1>0, <2>1, <3>1
    <2> QED BY <2>2, <2>3
  <1>7. ASSUME NEW b \in Bills, delete_Id2(b) PROVE Goal
    BY <1>1, <1>7 DEF delete_Id2, TypeOK, Docs
  <1>8. ASSUME NEW v \in Sales, post_salesInvoiceCancel(v) PROVE Goal
    BY <1>1, <1>8 DEF post_salesInvoiceCancel, TypeOK, Docs
  <1>9. ASSUME UNCHANGED <<paid, direct, pay, doc, known>> PROVE Goal
    BY <1>1, <1>9
  <1> QED BY <1>2, <1>3, <1>4, <1>5, <1>6, <1>7, <1>8, <1>9
          DEF Next, vars, CheckReversePayments, CheckReverse, Ask, Abandon

LEMMA VoidedKept ==
    ASSUME TypeOK, PaidIsPayments, RecordedIsNatural, VoidedWasUnpaid, ListsAreOfDoc,
           [Next]_vars
    PROVE  VoidedWasUnpaid'
  <1>1. known \subseteq known'
    BY DEF Next, vars, post_pay, delete_Id2, post_salesInvoiceCancel, post_purchaseInvoices,
           post_vendorPayments, post_customerPayments, post_reverse, post_reversePayments,
           CheckReversePayments, CheckReverse, Ask, Abandon
  <1> SUFFICES ASSUME NEW v \in Sales, v \notin known', doc'[v] = "CANCELLED"
               PROVE  direct'[v] = 0 /\ PostedFor(v)' \subseteq late'
    BY <1>1 DEF VoidedWasUnpaid
  <1> DEFINE Goal == direct'[v] = 0 /\ PostedFor(v)' \subseteq late'
  <1>0. /\ doc[v] = "CANCELLED" => direct[v] = 0 /\ PostedFor(v) \subseteq late
        /\ v \in Docs /\ v \notin Bills /\ v \notin known
    BY <1>1, SettlementAssumption DEF VoidedWasUnpaid, Docs
  <1>2. ASSUME doc'[v] = doc[v], direct'[v] = direct[v], late \subseteq late',
               \A p \in PostedFor(v)' : p \in PostedFor(v) \/ p \in late'
        PROVE  Goal
    BY <1>0, <1>2
  <1>3. ASSUME NEW p \in Payments, post_vendorPayments(p), PayFor[p] \in Bills PROVE Goal
    BY <1>0, <1>2, <1>3 DEF post_vendorPayments, PostPayment, PostedFor, TypeOK
  <1>4. ASSUME NEW p \in Payments, post_customerPayments(p) PROVE Goal
    <2>1. \A q \in PostedFor(v)' : q \in PostedFor(v) \/ (q = p /\ PayFor[p] = v)
      BY <1>4 DEF post_customerPayments, PostPayment, PostedFor, TypeOK
    <2>2. PayFor[p] = v => p \in late'
      BY <1>4 DEF post_customerPayments
    <2> QED BY <1>2, <1>4, <2>1, <2>2 DEF post_customerPayments
  <1>5. ASSUME NEW w \in Workers, post_reverse(w) \/ post_reversePayments(w) PROVE Goal
    <2>1. \A q \in PostedFor(v)' : q \in PostedFor(v)
      BY <1>5 DEF post_reverse, post_reversePayments, markReversed, PostedFor, TypeOK
    <2>2. direct'[v] = direct[v]
      BY <1>0, <1>5, RequestFields DEF post_reverse, post_reversePayments, TypeOK
    <2> QED BY <1>2, <1>5, <2>1, <2>2 DEF post_reverse, post_reversePayments
  <1>6. ASSUME NEW u \in Sales, post_salesInvoiceCancel(u) PROVE Goal
    <2>0. PostedFor(v)' = PostedFor(v)
      BY <1>6 DEF post_salesInvoiceCancel, PostedFor
    <2>1. CASE u = v
      <3>1. doc[v] # "DELETED" /\ PostedFor(v) = {} /\ paid[v] <= 0
        BY <1>6, <2>1 DEF post_salesInvoiceCancel, Unpaid
      <3>2. paid[v] = direct[v] + SumFunctionOnSet(Amount, PostedFor(v))
        BY <1>0, <3>1 DEF PaidIsPayments
      <3>3. direct[v] = 0
        BY <1>0, <3>1, <3>2, SumEmpty DEF TypeOK, RecordedIsNatural
      <3> QED BY <1>6, <2>0, <3>1, <3>3 DEF post_salesInvoiceCancel
    <2>2. CASE u # v
      BY <1>0, <1>2, <1>6, <2>0, <2>2 DEF post_salesInvoiceCancel, TypeOK
    <2> QED BY <2>1, <2>2
  <1>7. ASSUME NEW b \in Bills,
               \/ \E n \in LegacyAmounts : post_pay(b, n)
               \/ delete_Id2(b)
               \/ \E n \in BodyAmounts, s \in Statuses : post_purchaseInvoices(b, n, s)
        PROVE  Goal
    <2>1. PostedFor(v)' = PostedFor(v)
      BY <1>7 DEF post_pay, delete_Id2, post_purchaseInvoices, PostedFor
    <2>2. direct'[v] = direct[v] /\ doc'[v] = doc[v] /\ UNCHANGED late
      BY <1>0, <1>7 DEF post_pay, delete_Id2, post_purchaseInvoices, TypeOK, Docs
    <2> QED BY <1>2, <2>1, <2>2
  <1>8. ASSUME UNCHANGED <<doc, direct, late, pay>> PROVE Goal
    <2>1. PostedFor(v)' = PostedFor(v)
      BY <1>8 DEF PostedFor
    <2> QED BY <1>2, <1>8, <2>1
  <1> QED BY <1>3, <1>4, <1>5, <1>6, <1>7, <1>8
          DEF Next, vars, CheckReversePayments, CheckReverse, Ask, Abandon

LEMMA BalancesAtStart ==
    ASSUME Init
    PROVE  ListsAreOfDoc /\ RecordedIsNatural /\ PaidIsPayments /\ VoidedWasUnpaid
  <1>1. ListsAreOfDoc
    BY DEF Init, ListsAreOfDoc, Idle
  <1>2. ASSUME NEW d \in Docs PROVE paid[d] = direct[d] + SumFunctionOnSet(Amount, PostedFor(d))
    <2>1. PostedFor(d) = {}
      BY DEF Init, PostedFor
    <2>2. paid[d] = direct[d] /\ direct[d] \in Int
      BY SettlementAssumption DEF Init
    <2> QED BY <2>1, <2>2, SumEmpty
  <1>3. VoidedWasUnpaid
    BY DEF Init, VoidedWasUnpaid, Docs
  <1>4. RecordedIsNatural
    BY SettlementAssumption DEF Init, RecordedIsNatural
  <1> QED BY <1>1, <1>2, <1>3, <1>4 DEF PaidIsPayments

(* The balance of every invoice is the sum of its posted payments and of   *)
(* what was recorded without a row, for any number of payments and of      *)
(* reversals in flight: the clamp of a reversal never takes effect, because *)
(* the balance covers every posted payment unless a body began below zero. *)
THEOREM BalanceIsPayments == Spec => []PaidIsPayments
  <1>1. Init => PaidIsPayments /\ ListsAreOfDoc /\ RecordedIsNatural
    BY BalancesAtStart
  <1>2. TypeOK /\ PaidIsPayments /\ ListsAreOfDoc /\ RecordedIsNatural /\ [Next]_vars
            => PaidIsPayments' /\ ListsAreOfDoc' /\ RecordedIsNatural'
    BY ListsKept, NaturalKept, BalancesKept
  <1> QED BY <1>1, <1>2, TypeCorrect, PTL DEF Spec

(* A voided sale keeps no receipt from before the void, and its balance is *)
(* exactly the receipts that came after it.                                *)
THEOREM VoidKeepsOnlyLate == Spec => []VoidedCarriesOnlyLate
  <1> DEFINE Inv == PaidIsPayments /\ ListsAreOfDoc /\ RecordedIsNatural /\ VoidedWasUnpaid
  <1>1. Init => Inv
    BY BalancesAtStart
  <1>2. TypeOK /\ Inv /\ [Next]_vars => Inv'
    BY ListsKept, NaturalKept, BalancesKept, VoidedKept
  <1>3. TypeOK /\ Inv => VoidedCarriesOnlyLate
    <2> SUFFICES ASSUME TypeOK, Inv, NEW v \in Sales, v \notin known, doc[v] = "CANCELLED"
                 PROVE  /\ PostedFor(v) \subseteq late
                        /\ paid[v] = SumFunctionOnSet(Amount, PostedFor(v))
      BY DEF VoidedCarriesOnlyLate
    <2>1. v \in Docs /\ PostedFor(v) \in SUBSET Payments
      BY DEF Docs, PostedFor
    <2>2. paid[v] = direct[v] + SumFunctionOnSet(Amount, PostedFor(v))
      BY <2>1 DEF PaidIsPayments
    <2>3. direct[v] = 0 /\ PostedFor(v) \subseteq late
      BY DEF VoidedWasUnpaid
    <2>4. SumFunctionOnSet(Amount, PostedFor(v)) \in Nat
      BY <2>1, PostedSum
    <2> QED BY <2>2, <2>3, <2>4
  <1> QED BY <1>1, <1>2, <1>3, TypeCorrect, PTL DEF Spec

=============================================================================
