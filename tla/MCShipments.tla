---------------------------- MODULE MCShipments ----------------------------
(* Three branches, one serial-tracked product (onu) with two units and one *)
(* quantity-only product (cable).                                          *)
EXTENDS ShipmentsConservation, TLC

CONSTANTS kt, wh, pk, onu, cable, s1, s2, h1, h2

MCProductOf == (s1 :> onu) @@ (s2 :> onu)
MCBranch    == (s1 :> kt) @@ (s2 :> kt)
MCStock     == (kt :> ((onu :> 2) @@ (cable :> 2)))
               @@ (wh :> ((onu :> 0) @@ (cable :> 0)))
               @@ (pk :> ((onu :> 0) @@ (cable :> 0)))

Transfer(from, to, p, n, S) ==
    [source |-> from, dest |-> to, product |-> p, sent |-> n, serials |-> S]

\* Both units leave kt together; cable follows on a second shipment.
Mixed == (h1 :> Transfer(kt, wh, onu, 2, {s1, s2}))
         @@ (h2 :> Transfer(kt, wh, cable, 2, {}))

\* Two shipments out of one branch that could carry the same unit.
Overlap == (h1 :> Transfer(kt, wh, onu, 2, {s1, s2}))
           @@ (h2 :> Transfer(kt, pk, onu, 1, {s1}))

Full(sh) == {[qty |-> Manifest[sh].sent, serials |-> Manifest[sh].serials]}

FullReceipts == [sh \in Ships |-> Full(sh)]

\* One serial ticked for every unit counted.
CarefulReceipts ==
    [sh \in Ships |->
        {r \in [qty : 0..Manifest[sh].sent, serials : SUBSET Manifest[sh].serials] :
            Manifest[sh].serials # {} => Cardinality(r.serials) = r.qty}]

Direct == {"receive", "cancel", "cancelReceive"}

DirectRoutes == [sh \in Ships |-> Direct]

\* Approvals move no serial: a shipment without serials may use them too.
EveryRoute == [sh \in Ships |-> IF Manifest[sh].serials = {} THEN RequestKinds
                                                             ELSE Direct]

=============================================================================
