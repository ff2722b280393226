------------------------------ MODULE MCTrade ------------------------------
(* One serial-tracked unit (s1) that is bought, sold, taken back and sold  *)
(* again or returned to the vendor, and one quantity-only product that is  *)
(* ordered and bought.                                                     *)
EXTENDS TradeConservation, TLC

CONSTANTS onu, cable, s1, o1, b1, b2, v1, v2, q1, r1, r2

MCProductOf == s1 :> onu
MCStock == (onu :> 0) @@ (cable :> 1)
MCOrdered == o1 :> cable

Unit == [product |-> onu, qty |-> 1, serials |-> {s1}]
Cable == [product |-> cable, qty |-> 1, serials |-> {}]

MCLine == [d \in Sales \cup Returns |-> Unit]
MCBillLines == (b1 :> {Unit, Cable}) @@ (b2 :> {Cable})
MCOriginal == (q1 :> b1) @@ (r1 :> v1) @@ (r2 :> v1)
MCOrderOf == (b1 :> NoDoc) @@ (b2 :> o1)

\* Bound: the journals of the documents, contras included.
MaxJournals == 7
FewJournals == MapThenSumSet(LAMBDA d : journal[d].post + journal[d].contra, Docs)
                   <= MaxJournals

\* Workers are interchangeable.
Sym == Permutations(Workers)
=============================================================================
