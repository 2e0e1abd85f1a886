-------------------------- MODULE MCImageLifecycle --------------------------
(***************************************************************************)
(* Bounded instances of ImageLifecycle.  Processes, runs and payloads are  *)
(* interchangeable; images are when all or none of them have a TTL.        *)
(***************************************************************************)
EXTENDS ImageLifecycle, TLC

\* Every payload has a thumbnail of its own; images share it when they share the
\* payload.
OwnThumb == [c \in Payloads |-> <<"thumb", c>>]

ImageSymmetry == IF WithTtl \in {{}, Images} THEN Permutations(Images) ELSE {}

Symmetry ==
    ImageSymmetry \cup Permutations(Payloads) \cup Permutations(Procs) \cup Permutations(Runs)
=============================================================================
