--------------------------- MODULE MCTaskDelivery ---------------------------
(***************************************************************************)
(* Bounded instances of TaskDelivery.  Workers and images are              *)
(* interchangeable.                                                        *)
(***************************************************************************)
EXTENDS TaskDelivery, TLC

Symmetry == Permutations(Workers) \cup Permutations(Images)
=============================================================================
