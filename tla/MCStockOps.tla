----------------------------- MODULE MCStockOps -----------------------------
(* Two branches, one serial-tracked product (onu) with two units and one   *)
(* quantity-only product (cable).                                          *)
EXTENDS StockOpsConservation, StockOpsCustody, TLC

CONSTANTS kt, wh, onu, cable, s1, s2

MCProductOf == (s1 :> onu) @@ (s2 :> onu)
MCStock     == (kt :> ((onu :> 2) @@ (cable :> 2))) @@ (wh :> ((onu :> 0) @@ (cable :> 0)))
MCDamaged   == (kt :> ((onu :> 0) @@ (cable :> 1))) @@ (wh :> ((onu :> 0) @@ (cable :> 0)))
MCBranch    == (s1 :> kt) @@ (s2 :> kt)

Qty(n, m) == (onu :> n) @@ (cable :> m)

Request(t, b, d, n, dam, cred, S) ==
    [type |-> t, branch |-> b, dest |-> d, usable |-> Qty(Cardinality(S), n),
     damaged |-> Qty(0, dam), credit |-> Qty(0, cred),
     serials |-> S, damagedSerials |-> {}]

\* Units named one by one; pullouts run both ways between the branches.
SerialRequests ==
    {Request(t, kt, wh, 0, 0, 0, {s})
        : t \in {"DAMAGE", "PULLOUT", "STOCK_OUT", "CONSUMABLE_ISSUE"}, s \in {s1, s2}}
    \cup {Request("PULLOUT", wh, kt, 0, 0, 0, {s}) : s \in {s1, s2}}

\* Quantity-only lines: both pools, several units, manual credits and draws.
QuantityRequests ==
    {Request(t, kt, kt, 1, 0, 0, {}) : t \in {"DAMAGE", "CONSUMABLE_ISSUE"}}
    \cup {Request("PULLOUT", kt, wh, 1, 1, 0, {}),
          Request("DISPOSAL", kt, kt, 0, 1, 0, {}),
          Request("MANUAL_ADJUSTMENT", kt, kt, 0, 0, 1, {}),
          Request("MANUAL_ADJUSTMENT", wh, wh, 1, 0, 0, {})}

AllRequests == SerialRequests \cup QuantityRequests

\* A pullout line from the damaged pool of the serial-tracked product: the
\* gate takes it only with a unit that is IN_STOCK.
ReversalRequests ==
    AllRequests \cup
    {[type |-> "PULLOUT", branch |-> kt, dest |-> wh, usable |-> Qty(0, 0),
      damaged |-> Qty(1, 0), credit |-> Qty(0, 0),
      serials |-> {}, damagedSerials |-> {s2}]}

AllReversible == SerialValidatedTypes
PulloutOnly   == {"PULLOUT"}
None          == {}

Symm     == Permutations(Ops) \cup Permutations(Workers)
OpsSymm  == Permutations(Ops)

=============================================================================
