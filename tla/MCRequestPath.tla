--------------------------- MODULE MCRequestPath ---------------------------
(***************************************************************************)
(* A bounded instance of RequestPath; requests, images and clients are     *)
(* interchangeable.                                                        *)
(***************************************************************************)
EXTENDS RequestPath, TLC

MCBuckets == LimiterNames \X Clients
MCMaxRequests ==
    [b \in MCBuckets |-> CASE b[1] = "process" -> 3 [] b[1] = "upload" -> 1 [] b[1] = "read" -> 2]
MCValues == [row : 0..9, marked : BOOLEAN]
MCWindow == [b \in MCBuckets |-> 1]

Symmetry == Permutations(Requests) \cup Permutations(Images) \cup Permutations(Clients)
=============================================================================
