------------------------ MODULE MCUploadIdempotency ------------------------
(***************************************************************************)
(* Bounded instances of UploadIdempotency.  Requests, keys, contents and   *)
(* fields are interchangeable, so safety runs use their permutations.      *)
(***************************************************************************)
EXTENDS UploadIdempotency, TLC

Symmetry ==
    Permutations(Requests) \cup Permutations(Keys)
        \cup Permutations(Contents) \cup Permutations(Fields)
=============================================================================
