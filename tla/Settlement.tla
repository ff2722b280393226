----------------------------- MODULE Settlement -----------------------------
(***************************************************************************)
(* Settling bills and invoices: vendor payments and customer receipts with *)
(* their reversals, the bulk reversal of a bill's payments, the legacy     *)
(* balance-only payment, and what the deletion of a bill, its re-post and  *)
(* the void of a sale do to balances (procurement.controller,              *)
(* sales.controller, models/procurement.repo.ts, models/sales.repo.ts,     *)
(* services/paymentPosting.service.ts).                                    *)
(*                                                                         *)
(* A payment, its invoice's balance and its journal change in one          *)
(* transaction under row locks.  A reversal is preceded by a check on an   *)
(* unlocked read: the check leaves an entry in req, the transaction is a   *)
(* second step.  Where the transaction repeats the whole check, the two    *)
(* are one step.                                                           *)
(***************************************************************************)
EXTENDS Integers, FiniteSets, Functions

CONSTANTS
    Bills, Sales,      \* purchase and sales invoices
    Payments,          \* vendor payments and customer receipts
    PayFor,            \* the invoice a payment settles
    Amount, Total,     \* of a payment, of an invoice
    Upfront,           \* amountPaid in the request that created an invoice
    BodyAmounts,       \* amountPaid in the requests that post a bill again
    LegacyAmounts,     \* what POST /purchase-invoices/:id/pay may record
    MaxLegacy,         \* bound: at most so much per bill by that route
    Workers, None

Docs == Bills \cup Sales
Statuses == {"UNPAID", "PARTIAL", "PAID"}

ASSUME SettlementAssumption ==
    /\ IsFiniteSet(Payments)
    /\ PayFor \in [Payments -> Docs]
    /\ Amount \in [Payments -> Nat \ {0}]
    /\ Total \in [Docs -> Nat \ {0}]
    /\ Upfront \in [Docs -> Int] /\ BodyAmounts \subseteq Int
    /\ LegacyAmounts \subseteq Nat \ {0} /\ MaxLegacy \in Nat
    /\ Bills \cap Sales = {} /\ None \notin Docs \cup Payments

VARIABLES
    doc,       \* sales_invoices.status; "DELETED": no purchase_invoices row
    paid,      \* amount_paid
    settled,   \* payment_status
    pay,       \* status of the payment, "NONE": no row
    journal,   \* gl_journals of the payment, and their contras
    req,       \* reversals between their check and their transaction
    direct,    \* history: recorded without a payment row
    stated,    \* history: invoices whose status a request body gave
    late,      \* history: receipts posted on an invoice already void
    known      \* history: balances that a known defect has struck

vars == <<doc, paid, settled, pay, journal, req, direct, stated, late, known>>

Idle == [kind |-> "idle", doc |-> None, list |-> {}]
Requests == {Idle}
    \cup [kind : {"reverse"}, doc : {None}, list : SUBSET Payments]
    \cup [kind : {"reverseAll"}, doc : Bills, list : SUBSET Payments]

TypeOK ==
    /\ doc \in [Docs -> {"POSTED", "CANCELLED", "DELETED"}]
    /\ paid \in [Docs -> Int]
    /\ settled \in [Docs -> Statuses]
    /\ pay \in [Payments -> {"NONE", "POSTED", "REVERSED"}]
    /\ journal \in [Payments -> [post : Nat, contra : Nat]]
    /\ req \in [Workers -> Requests]
    /\ direct \in [Docs -> Int]
    /\ stated \subseteq Docs /\ late \subseteq Payments /\ known \subseteq Docs

(* The CASE of the four UPDATE statements.                                 *)
paymentStatus(d, n) == IF n >= Total[d] THEN "PAID"
                       ELSE IF n > 0 THEN "PARTIAL" ELSE "UNPAID"

(* Invoices as their requests made them: amountPaid and paymentStatus are  *)
(* the body's, neither is derived from the other, and an amount below zero *)
(* is not refused.                                                         *)
Init ==
    /\ doc = [d \in Docs |-> "POSTED"]
    /\ paid = Upfront
    /\ settled \in [Docs -> Statuses]
    /\ pay = [p \in Payments |-> "NONE"]
    /\ journal = [p \in Payments |-> [post |-> 0, contra |-> 0]]
    /\ req = [w \in Workers |-> Idle]
    /\ direct = Upfront
    /\ stated = Docs
    /\ late = {} /\ known = {d \in Docs : Upfront[d] < 0}

-----------------------------------------------------------------------------
\* Mutant: the amount replaces the balance instead of adding to it.
SetBalance(d, n) ==
    /\ paid' = [paid EXCEPT ![d] = n]
    /\ settled' = [settled EXCEPT ![d] = paymentStatus(d, n)]

(* PI_RECORD_PAYMENT_SQL, SI_RECORD_PAYMENT_SQL: no ceiling, and no look   *)
(* at the status of a sale.                                                *)
recordPayment(d, n) ==
    /\ paid' = [paid EXCEPT ![d] = @ + n]
    /\ settled' = [settled EXCEPT ![d] = paymentStatus(d, paid[d] + n)]

(* GREATEST(0, m - n)                                                      *)
Less(m, n) == IF n <= m THEN m - n ELSE 0

\* Mutant: payment_status is not derived again when the balance falls.
UndoBalanceOnly(d, n) ==
    /\ paid' = [paid EXCEPT ![d] = Less(@, n)]
    /\ UNCHANGED settled

(* PI_UNDO_PAYMENT_SQL, SI_UNDO_PAYMENT_SQL: no row of a deleted bill is   *)
(* left, and its payments are unlinked.                                    *)
undoPayment(d, n) ==
    IF doc[d] = "DELETED" THEN UNCHANGED <<paid, settled>>
    ELSE /\ paid' = [paid EXCEPT ![d] = Less(@, n)]
         /\ settled' = [settled EXCEPT ![d] = paymentStatus(d, Less(paid[d], n))]

(* reverseSourceJournal, once for each payment of the list.                *)
reverseJournals(L) ==
    journal' = [p \in Payments |-> IF p \in L
                  THEN [journal[p] EXCEPT !.contra = @ + 1] ELSE journal[p]]

(* VP_REVERSE_SQL, CP_REVERSE_SQL                                          *)
markReversed(L) ==
    pay' = [p \in Payments |-> IF p \in L THEN "REVERSED" ELSE pay[p]]

Ask(w, kind, d, L) ==
    /\ req[w] = Idle
    /\ req' = [req EXCEPT ![w] = [kind |-> kind, doc |-> d, list |-> L]]
    /\ UNCHANGED <<doc, paid, settled, pay, journal, direct, stated, late, known>>

(* The status is the UPDATE's from here on, no longer the body's.          *)
Derived(d) == stated' = stated \ {d}

Done(w) == req' = [req EXCEPT ![w] = Idle]

-----------------------------------------------------------------------------
(* Balance only: no payment row and no journal.                            *)
post_pay(b, n) ==
    /\ doc[b] = "POSTED"
    /\ direct[b] + n <= MaxLegacy
    /\ recordPayment(b, n)
    /\ Derived(b)
    /\ direct' = [direct EXCEPT ![b] = @ + n]
    /\ UNCHANGED <<doc, pay, journal, req, late, known>>

PostPayment(p) ==
    /\ pay[p] = "NONE"
    /\ pay' = [pay EXCEPT ![p] = "POSTED"]
    /\ recordPayment(PayFor[p], Amount[p])
    /\ Derived(PayFor[p])
    /\ journal' = [journal EXCEPT ![p].post = @ + 1]

(* The lock refuses a bill that is gone.                                   *)
post_vendorPayments(p) ==
    /\ doc[PayFor[p]] = "POSTED"
    /\ PostPayment(p)
    /\ UNCHANGED <<doc, req, direct, late, known>>

post_customerPayments(p) ==
    /\ PostPayment(p)
    /\ late' = IF doc[PayFor[p]] = "CANCELLED" THEN late \cup {p} ELSE late
    /\ UNCHANGED <<doc, req, direct, known>>

CheckReverse(w, p) == pay[p] = "POSTED" /\ Ask(w, "reverse", None, {p})

\* Mutant: the status that the unlocked read saw is relied on.
TrustTheRead(L) == TRUE

(* VP_LOCK_STATUS_SQL, CP_LOCK_STATUS_SQL: every payment of the list, under *)
(* its row lock.                                                           *)
stillPosted(L) == \A p \in L : pay[p] = "POSTED"

(* post_reverse of a vendor payment, post_customerPaymentReverse.          *)
post_reverse(w) ==
    LET L == req[w].list IN
    /\ req[w].kind = "reverse"
    /\ stillPosted(L)
    /\ markReversed(L)
    /\ \E p \in L : undoPayment(PayFor[p], Amount[p]) /\ Derived(PayFor[p])
    /\ reverseJournals(L)
    /\ Done(w)
    /\ UNCHANGED <<doc, direct, late, known>>

PostedFor(d) == {p \in Payments : PayFor[p] = d /\ pay[p] = "POSTED"}

(* Only a bill that is fully paid, and only with payments to reverse.      *)
CheckReversePayments(w, b) ==
    /\ doc[b] = "POSTED" /\ paid[b] >= Total[b]
    /\ PostedFor(b) # {}
    /\ Ask(w, "reverseAll", b, PostedFor(b))

(* The balance is set to zero, whatever was recorded since the list was    *)
(* read: a payment that is not on the list stays POSTED and is no longer   *)
(* in the balance, and payments without a row are gone.                    *)
post_reversePayments(w) ==
    LET b == req[w].doc  L == req[w].list IN
    /\ req[w].kind = "reverseAll"
    /\ stillPosted(L)
    /\ markReversed(L)
    /\ reverseJournals(L)
    /\ Derived(b)
    /\ IF doc[b] = "DELETED" THEN UNCHANGED <<paid, settled, direct, known>>
       ELSE /\ paid' = [paid EXCEPT ![b] = 0]
            /\ settled' = [settled EXCEPT ![b] = "UNPAID"]
            /\ direct' = [direct EXCEPT ![b] = 0]
            /\ known' = IF PostedFor(b) = L THEN known ELSE known \cup {b}
    /\ Done(w)
    /\ UNCHANGED <<doc, late>>

(* delete_Id2 does not ask for payments; ON DELETE SET NULL keeps them.    *)
delete_Id2(b) ==
    /\ doc[b] = "POSTED"
    /\ doc' = [doc EXCEPT ![b] = "DELETED"]
    /\ UNCHANGED <<paid, settled, pay, journal, req, direct, stated, late, known>>

(* A bill posted again with the same id: PI_UPSERT_SQL writes amount_paid  *)
(* and payment_status over with whatever the body n, s says.               *)
post_purchaseInvoices(b, n, s) ==
    /\ doc[b] = "POSTED"
    /\ paid' = [paid EXCEPT ![b] = n]
    /\ settled' = [settled EXCEPT ![b] = s]
    /\ direct' = [direct EXCEPT ![b] = n]
    /\ stated' = stated \cup {b}
    /\ known' = IF PostedFor(b) = {} /\ n >= 0 THEN known ELSE known \cup {b}
    /\ UNCHANGED <<doc, pay, journal, req, late>>

\* Mutant: only a fully paid invoice is protected from the void.
NotFullyPaid(v) == settled[v] # "PAID"

(* SI_BLOCKING_PAYMENTS_SQL and the balance, under the invoice's lock.     *)
Unpaid(v) == PostedFor(v) = {} /\ paid[v] <= 0

post_salesInvoiceCancel(v) ==
    /\ doc[v] = "POSTED"
    /\ Unpaid(v)
    /\ doc' = [doc EXCEPT ![v] = "CANCELLED"]
    /\ UNCHANGED <<paid, settled, pay, journal, req, direct, stated, late, known>>

(* The transaction throws and rolls back, or the process stops before it.  *)
Abandon(w) ==
    /\ req[w] # Idle
    /\ Done(w)
    /\ UNCHANGED <<doc, paid, settled, pay, journal, direct, stated, late, known>>

Next ==
    \/ \E b \in Bills :
          \/ \E n \in LegacyAmounts : post_pay(b, n)
          \/ delete_Id2(b)
          \/ \E n \in BodyAmounts, s \in Statuses : post_purchaseInvoices(b, n, s)
          \/ \E w \in Workers : CheckReversePayments(w, b)
    \/ \E v \in Sales : post_salesInvoiceCancel(v)
    \/ \E p \in Payments :
          \/ PayFor[p] \in Bills /\ post_vendorPayments(p)
          \/ PayFor[p] \in Sales /\ post_customerPayments(p)
          \/ \E w \in Workers : CheckReverse(w, p)
    \/ \E w \in Workers : post_reverse(w) \/ post_reversePayments(w) \/ Abandon(w)

Spec == Init /\ [][Next]_vars

-----------------------------------------------------------------------------
(* The balance of an invoice is what its posted payments and the payments  *)
(* without a row add up to, so no payment is counted twice, lost, or       *)
(* clamped away, whatever reversals and payments overlap.  Excepted: a     *)
(* payment recorded while all are being reversed, a bill posted again over *)
(* its payments, and an amount below zero in the request body.             *)
PaidIsPayments ==
    \A d \in Docs \ known : doc[d] # "DELETED" =>
        paid[d] = direct[d] + SumFunctionOnSet(Amount, PostedFor(d))

(* A payment, receipt or reversal heals whatever pair of amount and status *)
(* the request body stated: from then on, until the bill is posted again,  *)
(* payment_status agrees with the balance it is stored beside, also after  *)
(* the clamp of a reversal and with reversals racing.                      *)
StatusFollowsBalance ==
    \A d \in Docs \ stated : doc[d] # "DELETED" =>
        settled[d] = paymentStatus(d, paid[d])

(* A posted payment has one journal and no contra, a reversed one exactly  *)
(* one of each: a single and a bulk reversal that race for one payment     *)
(* never reverse its cash entry twice.                                     *)
JournalsFollowPayments ==
    \A p \in Payments : journal[p] =
        [post   |-> IF pay[p] = "NONE" THEN 0 ELSE 1,
         contra |-> IF pay[p] = "REVERSED" THEN 1 ELSE 0]

(* A voided invoice keeps no receipt from before the void: what is still   *)
(* posted on it came later (post_customerPayments does not look at the     *)
(* status), and is all its balance (unless it began below zero).           *)
VoidedCarriesOnlyLate ==
    \A v \in Sales \ known : doc[v] = "CANCELLED" =>
        /\ PostedFor(v) \subseteq late
        /\ paid[v] = SumFunctionOnSet(Amount, PostedFor(v))

=============================================================================
