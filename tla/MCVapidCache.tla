----------------------------- MODULE MCVapidCache -----------------------------
(* Instances of VapidCache for TLC. *)
EXTENDS VapidCache, TLC

OriginSymmetry == Permutations(Origins)
===============================================================================
