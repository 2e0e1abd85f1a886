---------------------------- MODULE RateLimiter ----------------------------
(***************************************************************************)
(* The sliding-window RateLimiter.  A bucket is one limiter ("upload",     *)
(* "process" or "read") with one client address; __call__ holds a lock and *)
(* does not await, so a call is one step.                                  *)
(***************************************************************************)
EXTENDS Clock, Sequences

CONSTANTS
    Buckets,        \* limiter and client
    MaxRequests,    \* per bucket: rate_limit_*_max
    Window          \* per bucket: rate_limit_*_window

ASSUME LimitAssumption == MaxRequests \in [Buckets -> Nat] /\ Window \in [Buckets -> Nat]

VARIABLES
    stamps,         \* _requests: the times of the calls still remembered
    admitted        \* history: the times of all admitted calls

limiter == <<stamps, admitted>>

LimiterInit ==
    /\ stamps = [b \in Buckets |-> <<>>]
    /\ admitted = [b \in Buckets |-> <<>>]

\* timestamps[0] < cutoff, with cutoff = now - window_seconds.
MutOutdated(b, t) == t + Window[b] <= now
Outdated(b, t) == t + Window[b] < now

\* _cleanup pops n times from the front, until it meets one that is not outdated.
Pops(b, n) ==
    /\ \A j \in 1..n : Outdated(b, stamps[b][j])
    /\ n < Len(stamps[b]) => ~Outdated(b, stamps[b][n + 1])

Kept(b, n) == SubSeq(stamps[b], n + 1, Len(stamps[b]))

\* The call is let through and its time is remembered.
Admit(b) ==
    \E n \in 0..Len(stamps[b]) :
        /\ Pops(b, n)
        /\ Len(Kept(b, n)) < MaxRequests[b]
        /\ stamps' = [stamps EXCEPT ![b] = Append(Kept(b, n), now)]
        /\ admitted' = [admitted EXCEPT ![b] = Append(@, now)]

\* 429: nothing is remembered of a call that is turned away.
Reject(b) ==
    \E n \in 0..Len(stamps[b]) :
        /\ Pops(b, n)
        /\ Len(Kept(b, n)) >= MaxRequests[b]
        /\ stamps' = [stamps EXCEPT ![b] = Kept(b, n)]
        /\ UNCHANGED admitted

LimiterTypeOK ==
    /\ stamps \in [Buckets -> Seq(0..MaxTime)]
    /\ admitted \in [Buckets -> Seq(0..MaxTime)]

\* "Maximum number of requests allowed in the time window" (rate_limit.py:18): any
\* two admitted calls of a bucket with MaxRequests - 1 others between them are more
\* than a window apart, over the whole history and at the edges of the window.
WindowBound ==
    \A b \in Buckets : \A i \in 1..Len(admitted[b]) :
        i + MaxRequests[b] <= Len(admitted[b]) =>
            admitted[b][i] + Window[b] < admitted[b][i + MaxRequests[b]]
=============================================================================
