------------------------------ MODULE MCLedger ------------------------------
(* A year of two months.                                                   *)
EXTENDS Ledger, TLC

OneYear  == [m \in 1..2 |-> 1]

Symm == Permutations(Journals) \cup Permutations(Workers)

(* Bound: of the journals posted and being posted, one declares a source   *)
(* or an original of its own choice; the others are plain vouchers.        *)
Plain(e) == e.source = "MANUAL" /\ e.reversalOf = NoJournal

OneDeclared ==
    Cardinality({j \in byCaller : ~Plain(gl[j])})
        + Cardinality({w \in Workers : /\ tx[w].kind = "journal" /\ tx[w].route = "post"
                                       /\ ~Plain(tx[w].entry)}) <= 1

=============================================================================
