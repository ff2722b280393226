------------------------------ MODULE Custody -------------------------------
(***************************************************************************)
(* What the stock operations promise about serialised units, without the   *)
(* tables: every unit is free at a place or in the custody of one holder;  *)
(* a holder takes free units of one place in a single step and never       *)
(* again; when it is done it gives back or delivers everything it holds at *)
(* once, and nothing that it does not hold.                                *)
(***************************************************************************)
CONSTANTS Units, Places, Holders, Free, PlaceAtStart

VARIABLES holder, place, life

Init ==
    /\ holder = [u \in Units |-> Free]
    /\ place = PlaceAtStart
    /\ life = [h \in Holders |-> "new"]

Take(h, U) ==
    /\ life[h] = "new"
    /\ \A u \in U : holder[u] = Free
    /\ \E b \in Places : \A u \in U : place[u] = b
    /\ holder' = [u \in Units |-> IF u \in U THEN h ELSE holder[u]]
    /\ life' = [life EXCEPT ![h] = "holding"]
    /\ UNCHANGED place

LetGo(h) ==
    /\ life[h] # "new"
    /\ life' = [life EXCEPT ![h] = "done"]
    /\ holder' = [u \in Units |-> IF holder[u] = h THEN Free ELSE holder[u]]

GiveBack(h) ==
    /\ LetGo(h)
    /\ UNCHANGED place

Deliver(h, b) ==
    /\ LetGo(h)
    /\ place' = [u \in Units |-> IF holder[u] = h THEN b ELSE place[u]]

Next ==
    \/ \E h \in Holders, U \in SUBSET Units : Take(h, U)
    \/ \E h \in Holders : GiveBack(h)
    \/ \E h \in Holders, b \in Places : Deliver(h, b)

Spec == Init /\ [][Next]_<<holder, place, life>>

=============================================================================
