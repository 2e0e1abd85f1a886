------------------------------- MODULE Clock -------------------------------
(***************************************************************************)
(* time.monotonic() of one process, in whole units of time: any number of  *)
(* calls may fall into one unit.  The rate limiter and the read cache      *)
(* share it.                                                               *)
(***************************************************************************)
EXTENDS Naturals

CONSTANT MaxTime    \* bound: how long the clock runs

ASSUME TimeAssumption == MaxTime \in Nat

VARIABLE now

Tick ==
    /\ now < MaxTime
    /\ now' = now + 1
=============================================================================
