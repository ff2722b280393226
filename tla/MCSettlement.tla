---------------------------- MODULE MCSettlement ----------------------------
(* A bill of 3 settled by payments of 2 and 1 and by the legacy route, and *)
(* posted again with -1, 0 or 2 in the body; an invoice of 2 settled by    *)
(* two receipts; an invoice that came with an amount below zero.           *)
EXTENDS Settlement, TLC

CONSTANTS b1, v1, v2, p1, p2, c1, c2

MCPayFor == [p \in {p1, p2} |-> b1] @@ [p \in {c1, c2} |-> v1]
MCAmount == (p1 :> 2) @@ (p2 :> 1) @@ (c1 :> 1) @@ (c2 :> 2)
MCTotal == (b1 :> 3) @@ (v1 :> 2) @@ (v2 :> 1)
MCUpfront == (b1 :> 0) @@ (v1 :> 0) @@ (v2 :> -1)
MCBodyAmounts == {-1, 0, 2}

\* Workers are interchangeable.
Sym == Permutations(Workers)
=============================================================================
