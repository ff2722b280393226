------------------------- MODULE TradeConservation -------------------------
(***************************************************************************)
(* What stock, movement rows, register and journals of Trade owe to the    *)
(* documents.  Products that one of the known defects has struck (see      *)
(* `known` in Trade) are excepted: these invariants say that nothing else  *)
(* goes wrong, however requests interleave.                                *)
(***************************************************************************)
EXTENDS Trade, Functions

Live(d) == \/ d \in Bills /\ bill[d] = "POSTED"
           \/ d \in Sales /\ sale[d] = "POSTED"
           \/ d \in Returns /\ ret[d] = "POSTED"

Effect == [d \in Docs |-> IF d \in Bills \cup Restockable THEN LineOf(d).qty
                          ELSE IF d \in SalesReturns THEN 0
                          ELSE -LineOf(d).qty]

LiveOf(p) == {d \in Docs : Live(d) /\ LineOf(d).product = p}

(* Stock is the opening balance plus the bills, sales and returns that     *)
(* stand: whatever was deleted, voided, cancelled or held for approval has *)
(* left no trace, and nothing is counted twice.  Excepted: a bill received *)
(* or deleted by two requests, posted again with another line, or deleted  *)
(* under a posted return.                                                  *)
StockFollowsDocuments ==
    \A p \in Products \ known.stock :
        qoh[p] = StockAtStart[p] + SumFunctionOnSet(Effect, LiveOf(p))

(* The movement rows of a product add up to its stock, as long as no bill  *)
(* of it was deleted (PI_CANCEL_TXN_LOG_SQL adds what the deletion took).  *)
LedgerExplainsStock ==
    \A p \in Products \ known.rows : qoh[p] = StockAtStart[p] + moved[p]

(* As many units IN_STOCK in the register as in the stock row.  Excepted:  *)
(* returns that are not restockable, sales voided after a cancelled return *)
(* has left their unit SOLD, or another return has taken it, and bills     *)
(* deleted after the row of a unit has gone with another bill.             *)
RegisterMatchesStock ==
    \A p \in SerialTracked \ (known.stock \cup known.register) :
        Cardinality({s \in Serials : ProductOf[s] = p /\ reg[s].status = "IN_STOCK"})
            = qoh[p]

(* A document that stands has one journal more than it has contras, any    *)
(* other none: the books follow every void, deletion and cancellation.     *)
JournalsFollowDocuments ==
    \A d \in Docs : LineOf(d).product \notin known.stock =>
        journal[d].post - journal[d].contra = IF Live(d) THEN 1 ELSE 0

=============================================================================
