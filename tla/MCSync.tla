------------------------------ MODULE MCSync ------------------------------
EXTENDS Sync, TLC

CONSTANTS orders, stock, posting, profile, purchase, deployment, approval

(* One handler of each kind.                                               *)
MCTouches == (posting :> {orders}) @@ (profile :> {stock}) @@ (purchase :> {orders, stock})
             @@ (deployment :> {stock}) @@ (approval :> {stock})

(* One listed handler, of any slice.                                       *)
MCOneTouches == purchase :> {orders, stock}
=============================================================================
