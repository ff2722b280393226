-------------------------- MODULE StockOpsCustody ---------------------------
(***************************************************************************)
(* The register of StockOps implements Custody: the holder of a unit is    *)
(* the operation its row is attributed to while the row is out of stock.   *)
(***************************************************************************)
EXTENDS StockOps

holderOf == [s \in Serials |-> IF reg[s].status = "IN_STOCK" THEN NoOp
                                                             ELSE reg[s].source]

placeOf == [s \in Serials |-> reg[s].branch]

lifeOf == [o \in Ops |-> CASE status[o] = "NONE" -> "new"
                           [] status[o] \in {"LOGGED", "DISPATCHED"} -> "holding"
                           [] OTHER -> "done"]

C == INSTANCE Custody
         WITH Units <- Serials, Places <- Branches, Holders <- Ops, Free <- NoOp,
              PlaceAtStart <- BranchAtStart,
              holder <- holderOf, place <- placeOf, life <- lifeOf

(* Late, repeated and interleaved reversals and receipts never free or     *)
(* move a unit that another operation holds, and never leave part of an    *)
(* operation's units behind (source_id attribution in serial_log).         *)
ImplementsCustody == C!Spec

=============================================================================
