------------------------- MODULE MCProcessRequests -------------------------
(***************************************************************************)
(* A bounded instance of ProcessRequests; requests, keys and images are    *)
(* interchangeable.                                                        *)
(***************************************************************************)
EXTENDS ProcessRequests, TLC

Symmetry == Permutations(Requests) \cup Permutations(Keys) \cup Permutations(Images)
=============================================================================
