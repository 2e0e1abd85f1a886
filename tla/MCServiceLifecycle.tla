------------------------- MODULE MCServiceLifecycle -------------------------
(***************************************************************************)
(* A bounded instance of ServiceLifecycle.  No symmetry: it is not sound   *)
(* for the temporal properties.                                            *)
(***************************************************************************)
EXTENDS ServiceLifecycle
=============================================================================
