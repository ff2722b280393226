----------------------------- MODULE MCDevices -----------------------------
(* Two units and two assets; units, assets and workers are interchangeable. *)
EXTENDS Devices, TLC

Sym == Permutations(Serials) \cup Permutations(Assets) \cup Permutations(Workers)

(* Bound: a behaviour is followed until a known defect has struck a unit.  *)
UntilStruck == known.units = {}

(* Bound: movement rows built from a key.                                  *)
MaxRows == 4
FewRows == Cardinality(rows) <= MaxRows
=============================================================================
