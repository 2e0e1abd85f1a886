---------------------------- MODULE KeyContract ----------------------------
(***************************************************************************)
(* What an idempotency key promises, seen from the table idempotency_keys: *)
(* a lock that outlives its holder.  A caller that inserts the record      *)
(* holds the key; it settles the record with a result, or releases it, or  *)
(* goes away and leaves it as it is.  Nobody else ever touches the record. *)
(*                                                                         *)
(* UploadIdempotency (scope "upload") and ProcessRequests (scope           *)
(* "process-image") implement this specification.                          *)
(***************************************************************************)
CONSTANTS
    Keys,       \* keys of one scope
    Callers,    \* requests that use them
    Results,    \* what a settled record names: an image
    None        \* no result

VARIABLES
    status,     \* per key: "absent", "in_progress" or "completed"
    result,     \* per key: what a completed record names
    holders     \* per key: the callers that may still change the record

vars == <<status, result, holders>>

Init ==
    /\ status = [k \in Keys |-> "absent"]
    /\ result = [k \in Keys |-> None]
    /\ holders = [k \in Keys |-> {}]

\* The record of k and its holders after a step; every other key is untouched.
Becomes(k, s, v, h) ==
    /\ status' = [status EXCEPT ![k] = s]
    /\ result' = [result EXCEPT ![k] = v]
    /\ holders' = [holders EXCEPT ![k] = h]

\* The record is inserted; its inserter holds the key, unless the
\* acknowledgement is lost and nobody knows that the insert took place.
Claim(k, c) ==
    /\ status[k] = "absent"
    /\ holders[k] = {}
    /\ \E h \in {{c}, {}} : Becomes(k, "in_progress", None, h)

\* The holder completes the record, and is done with it unless the
\* acknowledgement is lost.
Settle(k, c, v) ==
    /\ c \in holders[k]
    /\ status[k] = "in_progress"
    /\ \E h \in {{c}, {}} : Becomes(k, "completed", v, h)

Release(k, c) ==
    /\ c \in holders[k]
    /\ Becomes(k, "absent", None, {})

\* The holder fails or dies: the record stays as it is, for ever.
Leave(k, c) ==
    /\ c \in holders[k]
    /\ Becomes(k, status[k], result[k], {})

Next ==
    \E k \in Keys, c \in Callers :
        \/ Claim(k, c)
        \/ \E v \in Results : Settle(k, c, v)
        \/ Release(k, c)
        \/ Leave(k, c)

Spec == Init /\ [][Next]_vars
=============================================================================
