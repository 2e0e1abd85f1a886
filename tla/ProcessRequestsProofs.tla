----------------------- MODULE ProcessRequestsProofs -----------------------
(***************************************************************************)
(* Proofs about ProcessRequests, for any number of requests, images, keys, *)
(* failing calls and deaths, and any concurrency of the batch.             *)
(*                                                                         *)
(* Two inductive invariants.  KeyInv is about the records: it says who     *)
(* holds a key, that the record is then in progress, and that a key under  *)
(* which work has succeeded never becomes free again.  BatchInv is about   *)
(* the semaphore: it counts the members at work.  Neither takes the set of *)
(* requests to be finite: only finitely many can be at work or done.       *)
(***************************************************************************)
EXTENDS ProcessRequests, FiniteSetTheorems, TLAPS

Types ==
    /\ req \in [Requests -> [key : Keys \cup {None}, image : Images, batch : BOOLEAN]]
    /\ pc \in [Requests -> Calling \cup {"wait", "done", "dead"}]
    /\ reply \in [Requests -> Replies]
    /\ record \in [Keys -> Records]
    /\ rows \cup removed \subseteq Images
    /\ worked \subseteq Requests
    /\ faults \in Nat
    /\ deaths \in Nat

\* Only requests with a key touch the records, and a batch has none.
KeyedSteps ==
    \A r \in Requests :
        /\ pc[r] \in {"load", "claim", "reload", "forget", "undo", "complete"} => Key(r) \in Keys
        /\ r \in Batch => Key(r) = None /\ pc[r] \in {"wait", "get", "work", "failed", "done", "dead"}
        /\ pc[r] = "wait" => r \in Batch

\* The record of a claimed key is in progress, for its owner's image.
OwnerHoldsRecord ==
    \A r \in Requests :
        Key(r) \in Keys /\ pc[r] \in Owning =>
            record[Key(r)] = [status |-> "in_progress", image |-> Image(r)]

OneOwner ==
    \A r, q \in Requests :
        Key(r) \in Keys /\ Key(r) = Key(q) /\ pc[r] \in Owning /\ pc[q] \in Owning => r = q

\* Once work under a key has succeeded its record stays, and nobody but the
\* request that did it, on its way to the completion, may change the record.
WorkKeepsKey ==
    \A r \in worked :
        Key(r) \in Keys =>
            /\ record[Key(r)].status # "absent"
            /\ \A q \in Requests :
                  Key(q) = Key(r) /\ pc[q] \in Owning => q = r /\ pc[r] = "complete"

CompletesWork == \A r \in Requests : pc[r] = "complete" => r \in worked

RecordNamesWork ==
    \A k \in Keys :
        record[k].status = "completed" =>
            \E q \in worked : Key(q) = k /\ Image(q) = record[k].image

KeyInv ==
    /\ Types
    /\ KeyedSteps
    /\ OwnerHoldsRecord
    /\ OneOwner
    /\ WorkKeepsKey
    /\ CompletesWork
    /\ RecordNamesWork
    /\ WorkOncePerKey
    /\ ReplayedMeansDone
    /\ InProgressIsOwned

\* A member is answered when it ends, with "ok" exactly when it did the work.
MembersAnswered ==
    \A b \in Batch :
        /\ pc[b] \in Calling \cup {"wait"} => reply[b] = "none"
        /\ b \in worked <=> reply[b] = "ok"

DiesAsAWhole == \A b, c \in Batch : pc[b] = "dead" => pc[c] = "dead"

Ended == {b \in Batch : pc[b] = "done"}

BatchInv ==
    /\ IsFiniteSet(Running)
    /\ IsFiniteSet(Ended)
    /\ permits \in 0..Concurrency
    /\ PermitsBalance
    /\ MembersAnswered
    /\ DiesAsAWhole
    /\ counts # None => \A b \in Batch : pc[b] \in {"done", "dead"}
    /\ CountsAreTrue

-----------------------------------------------------------------------------
(* KeyInv: one lemma per way in which a step may touch a record.           *)

LEMMA InitKeyInv == Init => KeyInv
<1> SUFFICES ASSUME Init PROVE KeyInv
  OBVIOUS
<1> USE NoneAssumption DEF Init, Batch, Key, Keyed
<1>1. Types
  BY DEF Types, Calling, Owning, Replies, Records, Absent
<1>2. KeyedSteps
  BY DEF KeyedSteps
<1>3. OwnerHoldsRecord /\ OneOwner /\ CompletesWork
  BY DEF OwnerHoldsRecord, OneOwner, CompletesWork, Owning
<1>4. WorkKeepsKey /\ RecordNamesWork /\ WorkOncePerKey /\ ReplayedMeansDone /\ InProgressIsOwned
  BY DEF WorkKeepsKey, RecordNamesWork, WorkOncePerKey, ReplayedMeansDone, InProgressIsOwned, Absent
<1> QED
  BY <1>1, <1>2, <1>3, <1>4 DEF KeyInv

\* The counters and the table of images, which no part of KeyInv but Types is about.
Elsewhere ==
    /\ req' = req
    /\ rows' \cup removed' \subseteq Images
    /\ faults' \in Nat /\ faults' >= faults
    /\ deaths' \in Nat /\ deaths' >= deaths

\* A request moves on, or ends, and no record changes.
LEMMA MoveKeyInv ==
    ASSUME KeyInv, Elsewhere, NEW r \in Requests,
           NEW label \in Calling \cup {"done"}, NEW answer \in Replies,
           pc' = [pc EXCEPT ![r] = label],
           reply' = reply \/ reply' = [reply EXCEPT ![r] = answer],
           UNCHANGED <<record, worked>>,
           label # "complete",
           label \in {"load", "claim", "reload", "forget", "undo"} => Key(r) \in Keys,
           r \in Batch => label \in {"get", "work", "failed", "done"},
           label \in Owning /\ Key(r) \in Keys => pc[r] \in Owning \ {"complete"},
           Key(r) \in Keys /\ pc[r] \in Owning => label \in Owning \/ faults' > 0,
           label = "respond" \/ answer \in {"ok", "null"} =>
               \E q \in worked : q = r \/ (Keyed(r) /\ req[q] = req[r])
    PROVE  KeyInv'
<1> USE DEF KeyInv, Elsewhere
<1>0. Key(r)' = Key(r) /\ Batch' = Batch /\ (\A q \in Requests : pc'[q] = IF q = r THEN label ELSE pc[q])
  BY DEF Key, Batch, Types
<1>1. Types'
  BY DEF Types, Calling, Replies
<1>2. KeyedSteps'
  BY <1>0 DEF Types, KeyedSteps, Key, Calling, Owning
<1>3. OwnerHoldsRecord'
  BY <1>0 DEF Types, OwnerHoldsRecord, Key, Image
<1>4. OneOwner'
  BY <1>0 DEF Types, OneOwner, Key
<1>5. WorkKeepsKey'
  BY <1>0 DEF Types, WorkKeepsKey, Key
<1>6. CompletesWork' /\ RecordNamesWork' /\ WorkOncePerKey'
  BY <1>0 DEF Types, CompletesWork, RecordNamesWork, WorkOncePerKey, Key, Image, Keyed
<1>7. ReplayedMeansDone'
  BY <1>0 DEF Types, ReplayedMeansDone, Key, Keyed
<1>8. InProgressIsOwned'
  BY <1>0 DEF Types, InProgressIsOwned, Key
<1> QED
  BY <1>1, <1>2, <1>3, <1>4, <1>5, <1>6, <1>7, <1>8

\* A record is inserted; the inserter holds the key, or does not know of it.
LEMMA InsertKeyInv ==
    ASSUME KeyInv, Elsewhere, NEW r \in Requests,
           NEW label \in {"get", "done"},
           pc[r] = "claim",
           record[Key(r)].status = "absent",
           record' = [record EXCEPT ![Key(r)] = [status |-> "in_progress", image |-> Image(r)]],
           pc' = [pc EXCEPT ![r] = label],
           reply' = reply \/ reply' = [reply EXCEPT ![r] = "error"],
           worked' = worked,
           label = "done" => faults' > 0
    PROVE  KeyInv'
<1> USE DEF KeyInv, Elsewhere
<1>0. /\ Key(r)' = Key(r) /\ Batch' = Batch
      /\ \A q \in Requests : pc'[q] = IF q = r THEN label ELSE pc[q]
      /\ Key(r) \in Keys /\ r \notin Batch /\ Image(r) \in Images
  BY DEF Key, Batch, Types, KeyedSteps, Image
<1>1. \A k \in Keys : record'[k] = IF k = Key(r) THEN [status |-> "in_progress", image |-> Image(r)]
                                                ELSE record[k]
  BY DEF Types
<1>2. \A q \in Requests : Key(q) = Key(r) => pc[q] \notin Owning
  <2> SUFFICES ASSUME NEW q \in Requests, Key(q) = Key(r), pc[q] \in Owning PROVE FALSE
    OBVIOUS
  <2>1. record[Key(r)] = [status |-> "in_progress", image |-> Image(q)]
    BY <1>0 DEF OwnerHoldsRecord
  <2> QED
    BY <2>1
<1>3. \A q \in worked : Key(q) # Key(r)
  BY <1>0 DEF WorkKeepsKey, Types
<1>4. Types'
  BY <1>0 DEF Types, Calling, Owning, Replies, Records
<1>5. KeyedSteps'
  BY <1>0 DEF Types, KeyedSteps, Key
<1>6. OwnerHoldsRecord'
  BY <1>0, <1>1, <1>2 DEF Types, OwnerHoldsRecord, Key, Image
<1>7. OneOwner'
  BY <1>0, <1>2 DEF Types, OneOwner, Key
<1>8. WorkKeepsKey'
  BY <1>0, <1>1, <1>3 DEF Types, WorkKeepsKey, Key
<1>9. CompletesWork' /\ WorkOncePerKey'
  BY <1>0 DEF Types, CompletesWork, WorkOncePerKey, Key, Keyed
<1>10. RecordNamesWork'
  BY <1>0, <1>1 DEF RecordNamesWork, Key, Image
<1>11. ReplayedMeansDone'
  BY <1>0 DEF Types, ReplayedMeansDone, Key, Keyed
<1>12. InProgressIsOwned'
  <2> SUFFICES ASSUME NEW k \in Keys, record'[k].status = "in_progress", faults' = 0, deaths' = 0
               PROVE  \E q \in Requests : Key(q)' = k /\ pc'[q] \in Owning
    BY DEF InProgressIsOwned
  <2>1. CASE k = Key(r)
    BY <2>1, <1>0 DEF Owning
  <2>2. CASE k # Key(r)
    <3>1. PICK q \in Requests : Key(q) = k /\ pc[q] \in Owning
      BY <2>2, <1>1 DEF InProgressIsOwned, Types
    <3> QED
      BY <2>2, <3>1, <1>0 DEF Key
  <2> QED
    BY <2>1, <2>2
<1> QED
  BY <1>4, <1>5, <1>6, <1>7, <1>8, <1>9, <1>10, <1>11, <1>12

\* The owner deletes the record of a key under which nobody has worked.
LEMMA ReleaseKeyInv ==
    ASSUME KeyInv, Elsewhere, NEW r \in Requests,
           NEW answer \in {"not_found", "error"},
           pc[r] \in {"forget", "undo"},
           record' = [record EXCEPT ![Key(r)] = Absent],
           pc' = [pc EXCEPT ![r] = "done"],
           reply' = [reply EXCEPT ![r] = answer],
           worked' = worked
    PROVE  KeyInv'
<1> USE DEF KeyInv, Elsewhere
<1>0. /\ Key(r)' = Key(r) /\ Batch' = Batch
      /\ \A q \in Requests : pc'[q] = IF q = r THEN "done" ELSE pc[q]
      /\ Key(r) \in Keys /\ r \notin Batch /\ pc[r] \in Owning /\ pc[r] # "complete"
  BY DEF Key, Batch, Types, KeyedSteps, Owning
<1>1. \A k \in Keys : record'[k] = IF k = Key(r) THEN Absent ELSE record[k]
  BY DEF Types
<1>2. \A q \in Requests : Key(q) = Key(r) /\ pc[q] \in Owning => q = r
  BY <1>0 DEF OneOwner
<1>3. \A q \in worked : Key(q) # Key(r)
  BY <1>0 DEF WorkKeepsKey, Types
<1>4. Types'
  BY <1>0 DEF Types, Calling, Replies, Records, Absent
<1>5. KeyedSteps'
  BY <1>0 DEF Types, KeyedSteps, Key
<1>6. OwnerHoldsRecord'
  BY <1>0, <1>1, <1>2 DEF Types, OwnerHoldsRecord, Key, Image, Owning
<1>7. OneOwner'
  BY <1>0 DEF Types, OneOwner, Key, Owning
<1>8. WorkKeepsKey'
  BY <1>0, <1>1, <1>3 DEF Types, WorkKeepsKey, Key, Owning
<1>9. CompletesWork' /\ WorkOncePerKey'
  BY <1>0 DEF Types, CompletesWork, WorkOncePerKey, Key, Keyed
<1>10. RecordNamesWork'
  BY <1>0, <1>1 DEF RecordNamesWork, Key, Image, Absent
<1>11. ReplayedMeansDone'
  BY <1>0 DEF Types, ReplayedMeansDone, Key, Keyed
<1>12. InProgressIsOwned'
  <2> SUFFICES ASSUME NEW k \in Keys, record'[k].status = "in_progress", faults' = 0, deaths' = 0
               PROVE  \E q \in Requests : Key(q)' = k /\ pc'[q] \in Owning
    BY DEF InProgressIsOwned
  <2>1. k # Key(r)
    BY <1>1 DEF Absent
  <2>2. PICK q \in Requests : Key(q) = k /\ pc[q] \in Owning
    BY <2>1, <1>1 DEF InProgressIsOwned, Types
  <2> QED
    BY <2>1, <2>2, <1>0 DEF Key
<1> QED
  BY <1>4, <1>5, <1>6, <1>7, <1>8, <1>9, <1>10, <1>11, <1>12

\* The owner, whose work has succeeded, completes the record.
LEMMA SettleKeyInv ==
    ASSUME KeyInv, Elsewhere, NEW r \in Requests,
           NEW label \in {"respond", "done"},
           pc[r] = "complete",
           record' = [record EXCEPT ![Key(r)] = [status |-> "completed", image |-> Image(r)]],
           pc' = [pc EXCEPT ![r] = label],
           reply' = reply \/ reply' = [reply EXCEPT ![r] = "error"],
           worked' = worked
    PROVE  KeyInv'
<1> USE DEF KeyInv, Elsewhere
<1>0. /\ Key(r)' = Key(r) /\ Batch' = Batch
      /\ \A q \in Requests : pc'[q] = IF q = r THEN label ELSE pc[q]
      /\ Key(r) \in Keys /\ r \notin Batch /\ pc[r] \in Owning /\ Image(r) \in Images
      /\ r \in worked
  BY DEF Key, Batch, Types, KeyedSteps, Owning, CompletesWork, Image
<1>1. \A k \in Keys : record'[k] = IF k = Key(r) THEN [status |-> "completed", image |-> Image(r)]
                                                ELSE record[k]
  BY DEF Types
<1>2. \A q \in Requests : Key(q) = Key(r) /\ pc[q] \in Owning => q = r
  BY <1>0 DEF OneOwner
<1>4. Types'
  BY <1>0 DEF Types, Calling, Replies, Records
<1>5. KeyedSteps'
  BY <1>0 DEF Types, KeyedSteps, Key
<1>6. OwnerHoldsRecord'
  BY <1>0, <1>1, <1>2 DEF Types, OwnerHoldsRecord, Key, Image, Owning
<1>7. OneOwner'
  BY <1>0 DEF Types, OneOwner, Key, Owning
<1>8. WorkKeepsKey'
  BY <1>0, <1>1, <1>2 DEF Types, WorkKeepsKey, Key, Owning
<1>9. CompletesWork' /\ WorkOncePerKey'
  BY <1>0 DEF Types, CompletesWork, WorkOncePerKey, Key, Keyed
<1>10. RecordNamesWork'
  BY <1>0, <1>1 DEF RecordNamesWork, Key, Image
<1>11. ReplayedMeansDone'
  BY <1>0 DEF Types, ReplayedMeansDone, Key, Keyed
<1>12. InProgressIsOwned'
  <2> SUFFICES ASSUME NEW k \in Keys, record'[k].status = "in_progress", faults' = 0, deaths' = 0
               PROVE  \E q \in Requests : Key(q)' = k /\ pc'[q] \in Owning
    BY DEF InProgressIsOwned
  <2>1. k # Key(r)
    BY <1>1
  <2>2. PICK q \in Requests : Key(q) = k /\ pc[q] \in Owning
    BY <2>1, <1>1 DEF InProgressIsOwned, Types
  <2> QED
    BY <2>1, <2>2, <1>0 DEF Key
<1> QED
  BY <1>4, <1>5, <1>6, <1>7, <1>8, <1>9, <1>10, <1>11, <1>12

\* The work succeeds; no other request has worked under the key.
LEMMA WorkKeyInv ==
    ASSUME KeyInv, Elsewhere, NEW r \in Requests,
           NEW label \in {"complete", "respond", "done"},
           pc[r] = "work",
           label = "complete" <=> Keyed(r),
           r \in Batch => label = "done",
           pc' = [pc EXCEPT ![r] = label],
           reply' = reply \/ reply' = [reply EXCEPT ![r] = "ok"],
           worked' = worked \cup {r},
           record' = record
    PROVE  KeyInv'
<1> USE DEF KeyInv, Elsewhere
<1>0. /\ Key(r)' = Key(r) /\ Batch' = Batch
      /\ \A q \in Requests : pc'[q] = IF q = r THEN label ELSE pc[q]
      /\ pc[r] \in Owning
      /\ Keyed(r) <=> Key(r) \in Keys
  BY NoneAssumption DEF Key, Batch, Types, Owning, Keyed
<1>1. Key(r) \in Keys => \A q \in Requests : Key(q) = Key(r) /\ pc[q] \in Owning => q = r
  BY <1>0 DEF OneOwner
<1>2. Key(r) \in Keys => \A q \in worked : Key(q) # Key(r)
  BY <1>0 DEF WorkKeepsKey, Types
<1>3. Types'
  BY DEF Types, Calling, Owning, Replies
<1>4. KeyedSteps'
  BY <1>0 DEF Types, KeyedSteps, Key
<1>5. OwnerHoldsRecord' /\ OneOwner'
  BY <1>0 DEF Types, OwnerHoldsRecord, OneOwner, Key, Image, Owning
<1>6. WorkKeepsKey'
  <2>1. Key(r) \in Keys => record[Key(r)] = [status |-> "in_progress", image |-> Image(r)]
    BY <1>0 DEF OwnerHoldsRecord
  <2>2. Key(r) \in Keys => record[Key(r)].status # "absent"
    BY <2>1
  <2> QED
    BY <1>0, <1>1, <1>2, <2>2 DEF Types, WorkKeepsKey, Key, Owning
<1>7. CompletesWork' /\ RecordNamesWork'
  BY <1>0 DEF Types, CompletesWork, RecordNamesWork, Key, Image
<1>8. WorkOncePerKey'
  BY <1>0, <1>2 DEF Types, WorkOncePerKey, Key, Keyed
<1>9. ReplayedMeansDone'
  <2> SUFFICES ASSUME NEW p \in Requests, pc'[p] = "respond" \/ reply'[p] \in {"ok", "null"}
               PROVE  \E q \in worked' : q = p \/ (Keyed(p)' /\ req'[q] = req'[p])
    BY DEF ReplayedMeansDone
  <2>1. CASE p = r
    BY <2>1
  <2>2. CASE p # r
    BY <2>2, <1>0 DEF Types, ReplayedMeansDone, Key, Keyed
  <2> QED
    BY <2>1, <2>2
<1>10. InProgressIsOwned'
  BY <1>0 DEF Types, InProgressIsOwned, Key, Owning
<1> QED
  BY <1>3, <1>4, <1>5, <1>6, <1>7, <1>8, <1>9, <1>10

LEMMA DieKeyInv ==
    ASSUME KeyInv, NEW r \in Requests, Die(r)
    PROVE  KeyInv'
<1> USE BoundsAssumption DEF KeyInv, Die
<1>0. /\ Batch' = Batch /\ deaths' # 0
      /\ \A q \in Requests : pc'[q] = pc[q] \/ pc'[q] = "dead"
  BY DEF Batch, Types, tables
<1>1. Types'
  BY DEF Types, tables
<1>2. KeyedSteps'
  BY <1>0 DEF KeyedSteps, Key
<1>3. OwnerHoldsRecord' /\ OneOwner'
  BY <1>0 DEF OwnerHoldsRecord, OneOwner, Key, Image, Owning, tables
<1>4. WorkKeepsKey'
  BY <1>0 DEF Types, WorkKeepsKey, Key, Owning, tables
<1>5. CompletesWork' /\ RecordNamesWork' /\ WorkOncePerKey' /\ ReplayedMeansDone'
  BY <1>0 DEF CompletesWork, RecordNamesWork, WorkOncePerKey, ReplayedMeansDone, Key, Image, Keyed, tables
<1>6. InProgressIsOwned'
  BY <1>0 DEF InProgressIsOwned
<1> QED
  BY <1>1, <1>2, <1>3, <1>4, <1>5, <1>6

\* A step that leaves the requests and their records alone.
LEMMA IdleKeyInv ==
    ASSUME KeyInv, Elsewhere, UNCHANGED <<pc, reply, record, worked>>, faults' = faults, deaths' = deaths
    PROVE  KeyInv'
<1> USE DEF KeyInv, Elsewhere
<1>1. Types' /\ KeyedSteps' /\ OwnerHoldsRecord' /\ OneOwner' /\ WorkKeepsKey'
  BY DEF Types, KeyedSteps, OwnerHoldsRecord, OneOwner, WorkKeepsKey, Key, Image, Batch
<1>2. CompletesWork' /\ RecordNamesWork' /\ WorkOncePerKey' /\ ReplayedMeansDone' /\ InProgressIsOwned'
  BY DEF CompletesWork, RecordNamesWork, WorkOncePerKey, ReplayedMeansDone, InProgressIsOwned,
         Key, Image, Keyed
<1> QED
  BY <1>1, <1>2

\* A request with the key and the image of a completed record is not the first.
LEMMA CompletedMeansDone ==
    ASSUME KeyInv, NEW r \in Requests, pc[r] \in {"load", "reload"},
           record[Key(r)] = [status |-> "completed", image |-> Image(r)]
    PROVE  \E q \in worked : Keyed(r) /\ req[q] = req[r]
<1> USE DEF KeyInv
<1>1. Key(r) \in Keys /\ Keyed(r)
  BY NoneAssumption DEF KeyedSteps, Keyed
<1>2. PICK q \in worked : Key(q) = Key(r) /\ Image(q) = Image(r)
  BY <1>1 DEF RecordNamesWork
<1>3. q \in Requests /\ q \notin Batch /\ r \notin Batch
  BY <1>1, <1>2 DEF KeyedSteps, Types, Keyed
<1>4. req[q] = req[r]
  BY <1>2, <1>3 DEF Types, Key, Image, Batch
<1> QED
  BY <1>1, <1>4

LEMMA ExecuteKeyInv ==
    ASSUME KeyInv, NEW r \in Requests, Execute(r)
    PROVE  KeyInv'
<1> USE NoneAssumption DEF tables, bounds
<1>0. /\ Types /\ KeyedSteps
      /\ Keyed(r) <=> Key(r) \in Keys
      /\ Image(r) \in Images
  BY DEF KeyInv, Types, Keyed, Key, Image
<1>1. CASE Load(r)
  <2>1. Elsewhere
    BY <1>0, <1>1 DEF Load, Elsewhere, Types
  <2>2. Key(r) \in Keys /\ r \notin Batch /\ pc[r] \notin Owning
    BY <1>0, <1>1 DEF Load, KeyedSteps, Owning
  <2>3. PICK label \in {"claim", "respond", "done"}, answer \in {"in_progress", "conflict"} :
           /\ pc' = [pc EXCEPT ![r] = label]
           /\ reply' = reply \/ reply' = [reply EXCEPT ![r] = answer]
           /\ label = "respond" =>
                 record[Key(r)] = [status |-> "completed", image |-> Image(r)]
    BY <1>1 DEF Load, Goto, Finish
  <2>4. label = "respond" => \E q \in worked : q = r \/ (Keyed(r) /\ req[q] = req[r])
    BY <1>1, <2>3, CompletedMeansDone DEF Load
  <2>5. UNCHANGED <<record, worked>>
    BY <1>1 DEF Load
  <2> QED
    BY <2>1, <2>2, <2>3, <2>4, <2>5, MoveKeyInv DEF Calling, Owning, Replies
<1>2. CASE Claim(r)
  <2>1. Elsewhere
    BY <1>0, <1>2 DEF Claim, Elsewhere, Types
  <2>2. CASE record[Key(r)].status = "absent"
    BY <1>2, <2>1, <2>2, InsertKeyInv DEF Claim, Write, Goto
  <2>3. CASE record[Key(r)].status # "absent"
    <3>1. pc[r] = "claim" /\ Goto(r, "reload") /\ UNCHANGED <<record, worked>>
      BY <1>2, <2>3 DEF Claim
    <3>2. Key(r) \in Keys /\ r \notin Batch
      BY <1>0, <3>1 DEF KeyedSteps
    <3> QED
      BY <2>1, <3>1, <3>2, MoveKeyInv DEF Goto, Calling, Owning, Replies
  <2> QED
    BY <2>2, <2>3
<1>3. CASE Get(r)
  <2>1. Elsewhere
    BY <1>0, <1>3 DEF Get, Elsewhere, Types
  <2>2. \/ Goto(r, "work")
        \/ Keyed(r) /\ Goto(r, "forget")
        \/ ~Keyed(r) /\ Finish(r, "not_found")
    BY <1>3 DEF Get
  <2>3. pc[r] = "get" /\ UNCHANGED <<record, worked>>
    BY <1>3 DEF Get
  <2>4. r \in Batch => ~Keyed(r)
    BY <1>0 DEF KeyedSteps, Keyed
  <2> QED
    BY <1>0, <2>1, <2>2, <2>3, <2>4, MoveKeyInv DEF Goto, Finish, Calling, Owning, Replies
<1>4. CASE Forget(r)
  <2>1. Elsewhere
    BY <1>0, <1>4 DEF Forget, Elsewhere, Types
  <2> QED
    BY <1>4, <2>1, ReleaseKeyInv DEF Forget, Write, Finish
<1>5. CASE Work(r)
  <2>1. Elsewhere
    BY <1>0, <1>5 DEF Work, Elsewhere, Types
  <2>2. r \in Batch => ~Keyed(r)
    BY <1>0 DEF KeyedSteps, Keyed
  <2> QED
    BY <1>5, <2>1, <2>2, WorkKeyInv DEF Work, Return, Goto, Finish
<1>6. CASE WorkRaises(r)
  <2>1. Elsewhere
    BY <1>0, <1>6 DEF WorkRaises, Elsewhere, Types
  <2> QED
    BY <1>6, <2>1, MoveKeyInv DEF WorkRaises, Goto, Calling, Owning, Replies
<1>7. CASE SaveFailed(r)
  <2>1. Elsewhere
    BY <1>0, <1>7 DEF SaveFailed, Elsewhere, Types
  <2>2. r \in Batch => ~Keyed(r)
    BY <1>0 DEF KeyedSteps, Keyed
  <2> QED
    BY <1>0, <1>7, <2>1, <2>2, MoveKeyInv DEF SaveFailed, Goto, Finish, Calling, Owning, Replies
<1>8. CASE Undo(r)
  <2>1. Elsewhere
    BY <1>0, <1>8 DEF Undo, Elsewhere, Types
  <2> QED
    BY <1>8, <2>1, ReleaseKeyInv DEF Undo, Write, Finish
<1>9. CASE Complete(r)
  <2>1. Elsewhere
    BY <1>0, <1>9 DEF Complete, Elsewhere, Types
  <2>2. r \notin Batch
    BY <1>0, <1>9 DEF Complete, KeyedSteps
  <2> QED
    BY <1>9, <2>1, <2>2, SettleKeyInv DEF Complete, Write, Return, Goto
<1>10. CASE Respond(r)
  <2>1. Elsewhere
    BY <1>0, <1>10 DEF Respond, Elsewhere, Types
  <2>2. pc[r] = "respond" /\ UNCHANGED <<record, worked>>
    BY <1>10 DEF Respond
  <2>3. \E answer \in {"ok", "null"} : Finish(r, answer)
    BY <1>10 DEF Respond
  <2>4. \E q \in worked : q = r \/ (Keyed(r) /\ req[q] = req[r])
    BY <2>2 DEF KeyInv, ReplayedMeansDone
  <2> QED
    BY <1>0, <2>1, <2>2, <2>3, <2>4, MoveKeyInv DEF Finish, Calling, Owning, Replies
<1> QED
  BY <1>1, <1>2, <1>3, <1>4, <1>5, <1>6, <1>7, <1>8, <1>9, <1>10 DEF Execute

LEMMA FaultKeyInv ==
    ASSUME KeyInv, NEW r \in Requests, CallFails(r) \/ CallFailsLate(r)
    PROVE  KeyInv'
<1> USE NoneAssumption DEF tables, bounds
<1>0. /\ Types /\ KeyedSteps /\ Image(r) \in Images
      /\ Finish(r, "error") /\ worked' = worked
  BY DEF KeyInv, Types, Image, CallFails, CallFailsLate
<1>1. Elsewhere /\ faults' > 0
  BY <1>0, BoundsAssumption DEF CallFails, CallFailsLate, Fault, Elsewhere, Types
<1>2. CASE CallFails(r)
  BY <1>0, <1>1, <1>2, MoveKeyInv DEF CallFails, Finish, Calling, Owning, Replies
<1>3. CASE CallFailsLate(r)
  <2>1. CASE pc[r] = "claim"
    BY <1>0, <1>1, <1>3, <2>1, InsertKeyInv DEF CallFailsLate, Finish, Write
  <2>2. CASE pc[r] = "failed"
    BY <1>0, <1>1, <1>3, <2>2, MoveKeyInv DEF CallFailsLate, Finish, Calling, Owning, Replies
  <2>3. CASE pc[r] \in {"forget", "undo"}
    BY <1>0, <1>1, <1>3, <2>3, ReleaseKeyInv DEF CallFailsLate, Finish, Write
  <2>4. CASE pc[r] = "complete"
    BY <1>0, <1>1, <1>3, <2>4, SettleKeyInv DEF CallFailsLate, Finish, Write
  <2> QED
    BY <1>3, <2>1, <2>2, <2>3, <2>4 DEF CallFailsLate
<1> QED
  BY <1>2, <1>3

LEMMA NextKeyInv == KeyInv /\ [Next]_vars => KeyInv'
<1> SUFFICES ASSUME KeyInv, [Next]_vars PROVE KeyInv'
  OBVIOUS
<1>0. Types
  BY DEF KeyInv
<1>1. ASSUME NEW b \in Batch, Enter(b) PROVE KeyInv'
  <2>1. b \in Requests /\ Elsewhere
    BY <1>0, <1>1 DEF Enter, Elsewhere, Types, Batch, tables, bounds
  <2>2. Key(b) \notin Keys
    BY <2>1, NoneAssumption DEF KeyInv, KeyedSteps
  <2> QED
    BY <1>1, <2>1, <2>2, MoveKeyInv DEF Enter, Calling, Owning, Replies, tables
<1>2. ASSUME NEW i \in Images, Sweep(i) PROVE KeyInv'
  BY <1>0, <1>2, IdleKeyInv DEF Sweep, Elsewhere, Types, bounds
<1>3. CASE BatchReturns \/ Quiescent \/ UNCHANGED vars
  BY <1>0, <1>3, IdleKeyInv DEF BatchReturns, Quiescent, vars, Elsewhere, Types, tables, bounds
<1> QED
  BY <1>1, <1>2, <1>3, ExecuteKeyInv, FaultKeyInv, DieKeyInv DEF Next

LEMMA SpecKeyInv == Spec => []KeyInv
BY InitKeyInv, NextKeyInv, PTL DEF Spec

\* Per key an image is processed at most once: the record of a key under which
\* work has succeeded is never released, so no later request can claim the key.
THEOREM ProcessedOncePerKey == Spec => []WorkOncePerKey
BY SpecKeyInv, PTL DEF KeyInv

\* A replayed answer, and every answer "ok", is backed by work that succeeded for
\* the same key and the same image.
THEOREM ReplaysAreEarned == Spec => []ReplayedMeansDone
BY SpecKeyInv, PTL DEF KeyInv

\* Without a failing call and without a death no record is left in progress.
THEOREM NoStuckRecord == Spec => []InProgressIsOwned
BY SpecKeyInv, PTL DEF KeyInv

-----------------------------------------------------------------------------
(* BatchInv: what counting the members comes to.                           *)

\* Adding or removing one member changes the number of members at work by one.
LEMMA OneMore ==
    ASSUME NEW S, IsFiniteSet(S), NEW x, x \notin S
    PROVE  /\ IsFiniteSet(S \cup {x})
           /\ Cardinality(S \cup {x}) = Cardinality(S) + 1
           /\ Cardinality(S) \in Nat
BY FS_AddElement, FS_CardinalityType

LEMMA OneLess ==
    ASSUME NEW S, IsFiniteSet(S), NEW x \in S
    PROVE  /\ IsFiniteSet(S \ {x})
           /\ Cardinality(S \ {x}) = Cardinality(S) - 1
           /\ Cardinality(S) \in Nat \ {0}
<1>1. IsFiniteSet(S \ {x}) /\ Cardinality(S \ {x}) = Cardinality(S) - 1
  BY FS_RemoveElement
<1>2. Cardinality(S) \in Nat /\ Cardinality(S \ {x}) \in Nat
  BY <1>1, FS_CardinalityType
<1> QED
  BY <1>1, <1>2

LEMMA InitBatchInv == Init => BatchInv
<1> SUFFICES ASSUME Init PROVE BatchInv
  OBVIOUS
<1> USE DEF Init
<1>1. Running = {} /\ Ended = {}
  BY DEF Running, Ended, Batch, Calling, Owning
<1>2. IsFiniteSet({}) /\ Cardinality({}) = 0
  BY FS_EmptySet
<1>3. permits \in 0..Concurrency /\ PermitsBalance
  BY <1>1, <1>2, BoundsAssumption DEF PermitsBalance
<1>4. MembersAnswered /\ DiesAsAWhole /\ CountsAreTrue
  BY DEF MembersAnswered, DiesAsAWhole, CountsAreTrue, Batch
<1> QED
  BY <1>1, <1>2, <1>3, <1>4 DEF BatchInv

\* A step that neither admits nor ends a member.
LEMMA GoOnBatchInv ==
    ASSUME KeyInv, BatchInv, NEW r \in Requests, NEW label \in Calling \cup {"done", "dead"},
           pc' = [pc EXCEPT ![r] = label],
           r \in Batch => pc[r] \in Calling /\ label \in Calling,
           \A b \in Batch : reply'[b] = reply[b] /\ (b \in worked' <=> b \in worked),
           UNCHANGED <<req, permits, counts>>
    PROVE  BatchInv'
<1> USE DEF BatchInv
<1>0. Batch' = Batch /\ Batch \subseteq Requests
  BY DEF Batch
<1>1. \A b \in Batch : pc'[b] = IF b = r THEN label ELSE pc[b]
  BY <1>0 DEF KeyInv, Types
<1>2. /\ Running' = Running
      /\ Ended' = Ended
      /\ worked' \cap Batch' = worked \cap Batch
  BY <1>0, <1>1 DEF Running, Ended, Calling, Owning
<1>3. PermitsBalance'
  BY <1>0, <1>1, <1>2 DEF PermitsBalance, Calling, Owning
<1>4. MembersAnswered' /\ DiesAsAWhole'
  BY <1>0, <1>1 DEF MembersAnswered, DiesAsAWhole, Calling, Owning
<1>5. counts' # None => \A b \in Batch' : pc'[b] \in {"done", "dead"}
  BY <1>0, <1>1 DEF Calling, Owning
<1>6. CountsAreTrue'
  BY <1>0, <1>2 DEF CountsAreTrue
<1> QED
  BY <1>0, <1>2, <1>3, <1>4, <1>5, <1>6

\* A request that is at work ends and gives its permit back.
LEMMA EndBatchInv ==
    ASSUME KeyInv, BatchInv, NEW r \in Requests, NEW answer,
           pc[r] \in Calling, Finish(r, answer),
           worked' \in {worked, worked \cup {r}},
           r \in Batch => (answer = "ok" <=> worked' # worked),
           UNCHANGED <<req, counts>>
    PROVE  BatchInv'
<1> USE DEF BatchInv, Finish
<1>0. Batch' = Batch /\ Batch \subseteq Requests
  BY DEF Batch
<1>1. CASE r \notin Batch
  <2>1. \A b \in Batch : reply'[b] = reply[b] /\ (b \in worked' <=> b \in worked)
    BY <1>0, <1>1 DEF KeyInv, Types
  <2> QED
    BY <1>1, <2>1, GoOnBatchInv
<1>2. CASE r \in Batch
  <2>1. \A b \in Batch : /\ pc'[b] = IF b = r THEN "done" ELSE pc[b]
                         /\ reply'[b] = IF b = r THEN answer ELSE reply[b]
    BY <1>0, <1>2 DEF KeyInv, Types
  <2>2. r \in Running /\ Running' = Running \ {r}
    BY <1>0, <1>2, <2>1 DEF Running, Calling, Owning
  <2>3. r \notin Ended /\ Ended' = Ended \cup {r}
    BY <1>0, <1>2, <2>1 DEF Ended, Calling, Owning
  <2>4. /\ IsFiniteSet(Running')
        /\ Cardinality(Running') = Cardinality(Running) - 1
        /\ Cardinality(Running) \in Nat \ {0}
    BY <2>2, OneLess
  <2>12. IsFiniteSet(Ended')
    BY <2>3, OneMore
  <2>5. \A b \in Batch : pc[b] # "dead"
    BY <1>2 DEF DiesAsAWhole, Calling, Owning
  <2>6. permits + Cardinality(Running) = Concurrency
    BY <2>5 DEF PermitsBalance
  <2>7. permits' \in 0..Concurrency /\ PermitsBalance'
    BY <1>2, <2>4, <2>6, BoundsAssumption DEF PermitsBalance
  <2>8. reply[r] = "none" /\ r \notin worked
    BY <1>2 DEF MembersAnswered
  <2>9. MembersAnswered'
    BY <1>0, <1>2, <2>1, <2>8 DEF MembersAnswered, Calling, Owning
  <2>10. DiesAsAWhole'
    BY <1>0, <2>1, <2>5 DEF DiesAsAWhole
  <2>11. counts = None
    BY <1>2 DEF Calling, Owning
  <2> QED
    BY <2>4, <2>7, <2>9, <2>10, <2>11, <2>12 DEF CountsAreTrue
<1> QED
  BY <1>1, <1>2

LEMMA EnterBatchInv ==
    ASSUME KeyInv, BatchInv, NEW b \in Batch, Enter(b)
    PROVE  BatchInv'
<1> USE DEF BatchInv, Enter
<1>0. Batch' = Batch /\ b \in Requests
  BY DEF Batch
<1>1. \A c \in Batch : pc'[c] = IF c = b THEN "get" ELSE pc[c]
  BY DEF KeyInv, Types, Batch
<1>2. b \notin Running /\ Running' = Running \cup {b} /\ Ended' = Ended
  BY <1>0, <1>1 DEF Running, Ended, Calling, Owning
<1>3. /\ IsFiniteSet(Running')
      /\ Cardinality(Running') = Cardinality(Running) + 1
      /\ Cardinality(Running) \in Nat
  BY <1>2, OneMore
<1>4. \A c \in Batch : pc[c] # "dead"
  BY DEF DiesAsAWhole
<1>5. permits' \in 0..Concurrency /\ PermitsBalance'
  BY <1>3, <1>4, BoundsAssumption DEF PermitsBalance, Unlocked
<1>6. MembersAnswered' /\ DiesAsAWhole'
  BY <1>0, <1>1 DEF MembersAnswered, DiesAsAWhole, Calling, Owning
<1>7. counts = None
  OBVIOUS
<1> QED
  BY <1>2, <1>3, <1>5, <1>6, <1>7 DEF CountsAreTrue

\* gather returns: every member has ended, so the batch is finite, and the
\* answers "ok" are those of the members whose work was done.
LEMMA ReturnBatchInv ==
    ASSUME KeyInv, BatchInv, BatchReturns
    PROVE  BatchInv'
<1> USE DEF BatchInv, BatchReturns
<1> DEFINE Good == {b \in Batch : Succeeded(b)}
           Bad == {b \in Batch : ~Succeeded(b)}
<1>0. Batch' = Batch /\ Running' = Running /\ Ended' = Ended
  BY DEF Batch, Running, Ended
<1>1. Ended = Batch
  BY DEF Ended
<1>2. Good = worked \cap Batch
  BY DEF MembersAnswered, Succeeded
<1>3. Good \in SUBSET Batch /\ Bad = Batch \ Good /\ Batch \cap Good = Good
  OBVIOUS
<1>4. Cardinality(Bad) = Cardinality(Batch) - Cardinality(Good)
  <2> HIDE DEF Good, Bad
  <2> QED
    BY <1>1, <1>3, FS_Difference
<1>5. Cardinality(Batch) \in Nat /\ Cardinality(Good) \in Nat
  <2> HIDE DEF Good
  <2> QED
    BY <1>1, <1>3, FS_Subset, FS_CardinalityType
<1>6. counts'.success = Cardinality(Good) /\ counts'.failed = Cardinality(Bad)
  OBVIOUS
<1>7. CountsAreTrue'
  <2> HIDE DEF Good, Bad
  <2> QED
    BY <1>0, <1>2, <1>4, <1>5, <1>6 DEF CountsAreTrue
<1>8. PermitsBalance' /\ MembersAnswered' /\ DiesAsAWhole'
  BY <1>0 DEF PermitsBalance, MembersAnswered, DiesAsAWhole
<1> QED
  BY <1>0, <1>7, <1>8

\* A batch dies as a whole: its permits are never waited for again.
LEMMA DieBatchInv ==
    ASSUME KeyInv, BatchInv, NEW r \in Requests, Die(r)
    PROVE  BatchInv'
<1> USE DEF BatchInv, Die, tables
<1>0. Batch' = Batch /\ worked' \cap Batch' = worked \cap Batch /\ Batch \subseteq Requests
  BY DEF Batch
<1>1. CASE r \notin Batch
  <2>1. \A b \in Batch : pc'[b] = pc[b]
    BY <1>0, <1>1 DEF KeyInv, Types
  <2>2. Running' = Running /\ Ended' = Ended
    BY <1>0, <2>1 DEF Running, Ended
  <2> QED
    BY <1>0, <2>1, <2>2 DEF PermitsBalance, MembersAnswered, DiesAsAWhole, CountsAreTrue
<1>2. CASE r \in Batch
  <2>1. \A b \in Batch : pc'[b] = "dead"
    BY <1>0, <1>2 DEF KeyInv, Types
  <2>2. Running' = {} /\ Ended' = {}
    BY <1>0, <2>1 DEF Running, Ended, Calling, Owning
  <2>3. IsFiniteSet({})
    BY FS_EmptySet
  <2>4. PermitsBalance' /\ MembersAnswered' /\ DiesAsAWhole'
    BY <1>0, <1>2, <2>1 DEF PermitsBalance, MembersAnswered, DiesAsAWhole, Calling, Owning
  <2>5. CountsAreTrue'
    BY <1>0 DEF CountsAreTrue
  <2> QED
    BY <1>0, <2>1, <2>2, <2>3, <2>4, <2>5
<1> QED
  BY <1>1, <1>2

LEMMA ExecuteBatchInv ==
    ASSUME KeyInv, BatchInv, NEW r \in Requests, Execute(r)
    PROVE  BatchInv'
<1> USE DEF tables, bounds
<1>0. pc[r] \in Calling /\ UNCHANGED <<req, counts>>
  BY DEF Execute, Load, Claim, Get, Forget, Work, WorkRaises, SaveFailed, Undo, Complete, Respond,
         Calling, Owning
<1>1. r \in Batch => pc[r] \in {"get", "work", "failed"} /\ ~Keyed(r)
  BY <1>0 DEF KeyInv, KeyedSteps, Keyed, Calling, Owning
<1>2. CASE Work(r)
  <2>1. CASE r \in Batch
    <3>1. Finish(r, "ok") /\ worked' = worked \cup {r}
      BY <1>1, <1>2, <2>1 DEF Work, Return
    <3>2. r \notin worked
      BY <1>0, <2>1 DEF BatchInv, MembersAnswered
    <3> QED
      BY <1>0, <3>1, <3>2, EndBatchInv
  <2>2. CASE r \notin Batch
    <3>1. PICK label \in {"complete", "respond"} : Goto(r, label)
      BY <1>2, <2>2 DEF Work, Return
    <3> QED
      BY <1>0, <1>2, <2>2, <3>1, GoOnBatchInv DEF Work, Goto, Calling, Owning
  <2> QED
    BY <2>1, <2>2
<1>3. CASE ~Work(r)
  <2>0. worked' = worked
    BY <1>3 DEF Execute, Load, Claim, Get, Forget, WorkRaises, SaveFailed, Undo, Complete, Respond
  <2>1. \/ \E label \in Calling : Goto(r, label)
        \/ \E answer \in Replies : Finish(r, answer) /\ (r \in Batch => answer # "ok")
    <3>1. CASE Load(r)
      BY <3>1, <1>1 DEF Load, Calling, Owning, Replies
    <3>2. CASE Respond(r)
      BY <3>2, <1>1 DEF Respond, Replies
    <3>3. CASE Claim(r) \/ Get(r) \/ Forget(r) \/ WorkRaises(r) \/ SaveFailed(r) \/ Undo(r)
      BY <3>3 DEF Claim, Get, Forget, WorkRaises, SaveFailed, Undo, Calling, Owning, Replies
    <3>4. CASE Complete(r)
      BY <3>4, <1>1 DEF Complete, Return, Calling
    <3> QED
      BY <1>3, <3>1, <3>2, <3>3, <3>4 DEF Execute
  <2>2. CASE \E label \in Calling : Goto(r, label)
    BY <1>0, <2>0, <2>2, GoOnBatchInv DEF Goto
  <2>3. CASE \E answer \in Replies : Finish(r, answer) /\ (r \in Batch => answer # "ok")
    BY <1>0, <2>0, <2>3, EndBatchInv
  <2> QED
    BY <2>1, <2>2, <2>3
<1> QED
  BY <1>2, <1>3

LEMMA NextBatchInv == KeyInv /\ BatchInv /\ [Next]_vars => BatchInv'
<1> SUFFICES ASSUME KeyInv, BatchInv, [Next]_vars PROVE BatchInv'
  OBVIOUS
<1>1. ASSUME NEW r \in Requests, CallFails(r) \/ CallFailsLate(r) PROVE BatchInv'
  <2>1. /\ pc[r] \in Calling /\ Finish(r, "error")
        /\ worked' = worked /\ UNCHANGED <<req, counts>>
    BY <1>1 DEF CallFails, CallFailsLate, Calling, Owning
  <2> QED
    BY <2>1, EndBatchInv
<1>2. CASE Quiescent \/ UNCHANGED vars \/ \E i \in Images : Sweep(i)
  <2>1. UNCHANGED <<req, pc, reply, worked, permits, counts>>
    BY <1>2 DEF Quiescent, vars, Sweep
  <2>2. Batch' = Batch /\ Running' = Running /\ Ended' = Ended
    BY <2>1 DEF Batch, Running, Ended
  <2> QED
    BY <2>1, <2>2 DEF BatchInv, PermitsBalance, MembersAnswered, DiesAsAWhole, CountsAreTrue
<1> QED
  BY <1>1, <1>2, ExecuteBatchInv, DieBatchInv, EnterBatchInv, ReturnBatchInv DEF Next

LEMMA SpecBatchInv == Spec => []BatchInv
BY InitBatchInv, NextBatchInv, SpecKeyInv, PTL DEF Spec

\* Every table, program counter, answer and counter keeps its type; the semaphore
\* never holds more permits than it began with.
THEOREM TypesHold == Spec => []TypeOK
<1>1. KeyInv /\ BatchInv => TypeOK
  BY DEF KeyInv, BatchInv, Types, TypeOK
<1> QED
  BY <1>1, SpecKeyInv, SpecBatchInv, PTL

\* No exception of any member costs the batch a permit, and no more members than
\* its concurrency are ever at work.
THEOREM PermitsAreKept == Spec => []PermitsBalance
BY SpecBatchInv, PTL DEF BatchInv

\* The reply of a batch counts every member once, and as successes those whose
\* work was done.
THEOREM CountsHold == Spec => []CountsAreTrue
BY SpecBatchInv, PTL DEF BatchInv

-----------------------------------------------------------------------------
(* The records implement KeyContract.                                      *)

Holders(k) == {r \in Requests : Key(r) = k /\ pc[r] \in Owning}
Result(k) == IF record[k].status = "completed" THEN record[k].image ELSE None

\* A step that gives key k the status s, the result v and the holders h, and no
\* other key anything else.
LEMMA BecomesIntro ==
    ASSUME NEW k \in Keys, NEW s, NEW v, NEW h,
           record'[k].status = s, Result(k)' = v, Holders(k)' = h,
           \A l \in Keys \ {k} : record'[l] = record[l] /\ Holders(l)' = Holders(l)
    PROVE  Contract!Becomes(k, s, v, h)
<1>1. [l \in Keys |-> record'[l].status] = [[l \in Keys |-> record[l].status] EXCEPT ![k] = s]
  OBVIOUS
<1>2. \A l \in Keys \ {k} : Result(l)' = Result(l)
  BY DEF Result
<1>3. [l \in Keys |-> Result(l)'] = [[l \in Keys |-> Result(l)] EXCEPT ![k] = v]
  BY <1>2
<1>4. [l \in Keys |-> Holders(l)'] = [[l \in Keys |-> Holders(l)] EXCEPT ![k] = h]
  OBVIOUS
<1> QED
  BY <1>1, <1>3, <1>4 DEF Contract!Becomes, Result, Holders

\* A step that changes no record and no holder of a key.
LEMMA ContractStutters ==
    ASSUME UNCHANGED <<req, record>>,
           \A q \in Requests : Key(q) \in Keys => (pc'[q] \in Owning <=> pc[q] \in Owning)
    PROVE  UNCHANGED Contract!vars
<1>1. \A k \in Keys : Holders(k)' = Holders(k) /\ Result(k)' = Result(k)
  BY DEF Holders, Result, Key
<1>2. /\ [k \in Keys |-> Holders(k)]' = [k \in Keys |-> Holders(k)]
      /\ [k \in Keys |-> Result(k)]' = [k \in Keys |-> Result(k)]
      /\ [k \in Keys |-> record[k].status]' = [k \in Keys |-> record[k].status]
  BY <1>1
<1> QED
  BY <1>2 DEF Contract!vars, Holders, Result

\* Whose key a step of r can be about.
LEMMA OtherHolders ==
    ASSUME Types, NEW r \in Requests, NEW k \in Keys, Key(r) = k,
           NEW label, pc' = [pc EXCEPT ![r] = label], req' = req
    PROVE  /\ \A l \in Keys \ {k} : Holders(l)' = Holders(l)
           /\ Holders(k)' = IF label \in Owning THEN Holders(k) \cup {r} ELSE Holders(k) \ {r}
BY DEF Types, Holders, Key

LEMMA SoleHolder ==
    ASSUME KeyInv, NEW r \in Requests, NEW k \in Keys, Key(r) = k, pc[r] \in Owning
    PROVE  Holders(k) = {r}
BY DEF KeyInv, OneOwner, Holders

\* A request of the record's owner that ends without touching the record.
LEMMA ContractLeave ==
    ASSUME KeyInv, NEW r \in Requests, NEW k \in Keys, Key(r) = k, pc[r] \in Owning,
           UNCHANGED <<req, record>>,
           Holders(k)' = {}, \A l \in Keys \ {k} : Holders(l)' = Holders(l)
    PROVE  Contract!Next
<1>1. r \in Holders(k)
  BY DEF Holders
<1>2. PICK s, v : s = record[k].status /\ v = Result(k)
  OBVIOUS
<1>3. record'[k].status = s /\ Result(k)' = v
  BY <1>2 DEF Result
<1>4. Contract!Becomes(k, s, v, {})
  BY <1>3, BecomesIntro
<1>5. Contract!Leave(k, r)
  BY <1>1, <1>2, <1>4 DEF Contract!Leave, Contract!Becomes, Holders, Result
<1> QED
  BY <1>5 DEF Contract!Next

LEMMA ContractClaim ==
    ASSUME KeyInv, NEW r \in Requests, NEW k \in Keys, Key(r) = k, NEW label \in {"get", "done"},
           pc[r] = "claim",
           record[k].status = "absent",
           record' = [record EXCEPT ![k] = [status |-> "in_progress", image |-> Image(r)]],
           pc' = [pc EXCEPT ![r] = label],
           req' = req
    PROVE  Contract!Next
<1>0. Types
  BY DEF KeyInv
<1>1. record'[k] = [status |-> "in_progress", image |-> Image(r)]
  BY <1>0 DEF Types
<1>2. \A l \in Keys \ {k} : record'[l] = record[l]
  BY <1>0 DEF Types
<1>3. Holders(k) = {}
  <2> SUFFICES ASSUME NEW q \in Requests, Key(q) = Key(r), pc[q] \in Owning PROVE FALSE
    BY DEF Holders
  <2>1. record[k] = [status |-> "in_progress", image |-> Image(q)]
    BY <1>0 DEF KeyInv, OwnerHoldsRecord
  <2> QED
    BY <2>1
<1>4. /\ \A l \in Keys \ {k} : Holders(l)' = Holders(l)
      /\ Holders(k)' \in {{r}, {}}
  BY <1>0, <1>3, OtherHolders
<1>5. record'[k].status = "in_progress" /\ Result(k)' = None
  BY <1>1 DEF Result, Key
<1>6. \E h \in {{r}, {}} : Contract!Becomes(k, "in_progress", None, h)
  BY <1>0, <1>2, <1>4, <1>5, BecomesIntro
<1>7. Contract!Claim(k, r)
  BY <1>0, <1>3, <1>6 DEF Contract!Claim, Holders
<1> QED
  BY <1>0, <1>7 DEF Contract!Next

LEMMA ContractRelease ==
    ASSUME KeyInv, NEW r \in Requests, NEW k \in Keys, Key(r) = k,
           pc[r] \in {"forget", "undo"},
           record' = [record EXCEPT ![k] = Absent],
           pc' = [pc EXCEPT ![r] = "done"],
           req' = req
    PROVE  Contract!Next
<1>0. Types /\ pc[r] \in Owning
  BY DEF KeyInv, Owning
<1>1. record'[k] = Absent
  BY <1>0 DEF Types
<1>2. \A l \in Keys \ {k} : record'[l] = record[l]
  BY <1>0 DEF Types
<1>3. Holders(k) = {r}
  BY <1>0, SoleHolder
<1>4. Holders(k)' = {} /\ \A l \in Keys \ {k} : Holders(l)' = Holders(l)
  <2>1. "done" \notin Owning
    BY DEF Owning
  <2>2. Holders(k)' = Holders(k) \ {r} /\ \A l \in Keys \ {k} : Holders(l)' = Holders(l)
    BY <1>0, <2>1, OtherHolders
  <2> QED
    BY <1>3, <2>2
<1>5. record'[k].status = "absent" /\ Result(k)' = None
  BY <1>1 DEF Result, Absent, Key
<1>6. Contract!Becomes(k, "absent", None, {})
  BY <1>0, <1>2, <1>4, <1>5, BecomesIntro
<1>7. Contract!Release(k, r)
  BY <1>0, <1>3, <1>6 DEF Contract!Release, Holders
<1> QED
  BY <1>0, <1>7 DEF Contract!Next

LEMMA ContractSettle ==
    ASSUME KeyInv, NEW r \in Requests, NEW k \in Keys, Key(r) = k, NEW label \in {"respond", "done"},
           pc[r] = "complete",
           record' = [record EXCEPT ![k] = [status |-> "completed", image |-> Image(r)]],
           pc' = [pc EXCEPT ![r] = label],
           req' = req
    PROVE  Contract!Next
<1>0. Types /\ pc[r] \in Owning /\ Image(r) \in Images
  BY DEF KeyInv, Owning, Types, Image
<1>1. record'[k] = [status |-> "completed", image |-> Image(r)]
  BY <1>0 DEF Types
<1>2. \A l \in Keys \ {k} : record'[l] = record[l]
  BY <1>0 DEF Types
<1>3. Holders(k) = {r}
  BY <1>0, SoleHolder
<1>4. Holders(k)' = {} /\ \A l \in Keys \ {k} : Holders(l)' = Holders(l)
  <2>1. label \notin Owning
    BY DEF Owning
  <2>2. Holders(k)' = Holders(k) \ {r} /\ \A l \in Keys \ {k} : Holders(l)' = Holders(l)
    BY <1>0, <2>1, OtherHolders
  <2> QED
    BY <1>3, <2>2
<1>5. PICK v \in Images : v = Image(r)
  BY <1>0
<1>6. Contract!Becomes(k, "completed", v, {})
  <2>1. record'[k].status = "completed" /\ Result(k)' = v
    BY <1>1, <1>5 DEF Result
  <2> QED
    BY <1>2, <1>4, <2>1, BecomesIntro
<1>7. record[k] = [status |-> "in_progress", image |-> Image(r)]
  BY <1>0 DEF KeyInv, OwnerHoldsRecord
<1>8. record[k].status = "in_progress"
  BY <1>7
<1>9. Contract!Settle(k, r, v)
  BY <1>3, <1>6, <1>8 DEF Contract!Settle, Holders
<1> QED
  BY <1>0, <1>9 DEF Contract!Next

\* A request that moves on keeps or lacks its key as before.
LEMMA ContractMove ==
    ASSUME KeyInv, NEW r \in Requests, NEW label,
           pc' = [pc EXCEPT ![r] = label], UNCHANGED <<req, record>>,
           Key(r) \in Keys => (label \in Owning <=> pc[r] \in Owning)
    PROVE  UNCHANGED Contract!vars
<1>1. \A q \in Requests : Key(q) \in Keys => (pc'[q] \in Owning <=> pc[q] \in Owning)
  BY DEF KeyInv, Types
<1> QED
  BY <1>1, ContractStutters

\* A request that ends without touching its record.
LEMMA ContractEnd ==
    ASSUME KeyInv, NEW r \in Requests,
           pc' = [pc EXCEPT ![r] = "done"], UNCHANGED <<req, record>>
    PROVE  Contract!Next \/ UNCHANGED Contract!vars
<1>0. "done" \notin Owning /\ Types
  BY DEF Owning, KeyInv
<1>1. CASE Key(r) \in Keys /\ pc[r] \in Owning
  <2>1. PICK k \in Keys : Key(r) = k
    BY <1>1
  <2>2. Holders(k) = {r}
    BY <1>1, <2>1, SoleHolder
  <2>3. Holders(k)' = Holders(k) \ {r} /\ \A l \in Keys \ {k} : Holders(l)' = Holders(l)
    BY <1>0, <2>1, OtherHolders
  <2>4. Holders(k)' = {}
    BY <2>2, <2>3
  <2> QED
    BY <1>1, <2>1, <2>3, <2>4, ContractLeave
<1>2. CASE ~(Key(r) \in Keys /\ pc[r] \in Owning)
  BY <1>0, <1>2, ContractMove
<1> QED
  BY <1>1, <1>2

LEMMA ExecuteContract ==
    ASSUME KeyInv, NEW r \in Requests, Execute(r)
    PROVE  Contract!Next \/ UNCHANGED Contract!vars
<1> USE DEF tables
<1>0. Types /\ KeyedSteps /\ (Keyed(r) <=> Key(r) \in Keys)
  BY NoneAssumption DEF KeyInv, Types, Keyed, Key
<1>1. CASE Load(r) \/ Respond(r)
  <2>1. /\ pc[r] \notin Owning /\ UNCHANGED <<req, record>>
        /\ \E label \in {"claim", "respond", "done"} : pc' = [pc EXCEPT ![r] = label]
    BY <1>1 DEF Load, Respond, Goto, Finish, Owning
  <2>2. \A label \in {"claim", "respond", "done"} : label \notin Owning
    BY DEF Owning
  <2> QED
    BY <2>1, <2>2, ContractMove
<1>2. CASE Claim(r)
  <2>1. PICK k \in Keys : Key(r) = k
    BY <1>0, <1>2 DEF Claim, KeyedSteps
  <2>2. CASE record[k].status = "absent"
    BY <1>2, <2>1, <2>2, ContractClaim DEF Claim, Write, Goto
  <2>3. CASE record[k].status # "absent"
    <3>1. pc[r] \notin Owning /\ "reload" \notin Owning
      BY <1>2 DEF Claim, Owning
    <3>2. pc' = [pc EXCEPT ![r] = "reload"] /\ UNCHANGED <<req, record>>
      BY <1>2, <2>1, <2>3 DEF Claim, Goto
    <3> QED
      BY <3>1, <3>2, ContractMove
  <2> QED
    BY <2>2, <2>3
<1>3. CASE Get(r) \/ WorkRaises(r) \/ SaveFailed(r)
  <2>1. pc[r] \in Owning /\ UNCHANGED <<req, record>>
    BY <1>3 DEF Get, WorkRaises, SaveFailed, Owning
  <2>2. \/ pc' = [pc EXCEPT ![r] = "done"]
        \/ \E label \in Owning : pc' = [pc EXCEPT ![r] = label]
    BY <1>3 DEF Get, WorkRaises, SaveFailed, Goto, Finish, Owning
  <2> QED
    BY <2>1, <2>2, ContractEnd, ContractMove
<1>4. CASE Work(r)
  <2>1. pc[r] \in Owning /\ "complete" \in Owning /\ UNCHANGED <<req, record>>
    BY <1>4 DEF Work, Owning
  <2>2. CASE Keyed(r)
    BY <1>4, <2>1, <2>2, ContractMove DEF Work, Goto
  <2>3. CASE ~Keyed(r)
    <3>1. \E label \in {"respond", "done"} : pc' = [pc EXCEPT ![r] = label]
      BY <1>4, <2>3 DEF Work, Return, Goto, Finish
    <3> QED
      BY <1>0, <2>1, <2>3, <3>1, ContractMove
  <2> QED
    BY <2>2, <2>3
<1>5. CASE Forget(r) \/ Undo(r)
  <2>1. PICK k \in Keys : Key(r) = k
    BY <1>0, <1>5 DEF Forget, Undo, KeyedSteps
  <2> QED
    BY <1>5, <2>1, ContractRelease DEF Forget, Undo, Write, Finish
<1>6. CASE Complete(r)
  <2>1. PICK k \in Keys : Key(r) = k
    BY <1>0, <1>6 DEF Complete, KeyedSteps
  <2> QED
    BY <1>6, <2>1, ContractSettle DEF Complete, Write, Return, Goto, Finish
<1> QED
  BY <1>1, <1>2, <1>3, <1>4, <1>5, <1>6 DEF Execute

LEMMA FaultContract ==
    ASSUME KeyInv, NEW r \in Requests, CallFails(r) \/ CallFailsLate(r)
    PROVE  Contract!Next \/ UNCHANGED Contract!vars
<1>0. pc' = [pc EXCEPT ![r] = "done"] /\ req' = req
  BY DEF CallFails, CallFailsLate, Finish
<1>1. CASE record' = record
  BY <1>0, <1>1, ContractEnd
<1>2. CASE record' # record
  <2>1. CallFailsLate(r) /\ pc[r] \in {"claim", "forget", "undo", "complete"}
    BY <1>2 DEF CallFails, CallFailsLate, tables
  <2>2. PICK k \in Keys : Key(r) = k
    BY <2>1 DEF KeyInv, KeyedSteps
  <2>3. CASE pc[r] = "claim"
    BY <1>0, <2>1, <2>2, <2>3, ContractClaim DEF CallFailsLate, Write
  <2>4. CASE pc[r] \in {"forget", "undo"}
    BY <1>0, <2>1, <2>2, <2>4, ContractRelease DEF CallFailsLate, Write
  <2>5. CASE pc[r] = "complete"
    BY <1>0, <2>1, <2>2, <2>5, ContractSettle DEF CallFailsLate, Write
  <2> QED
    BY <2>1, <2>3, <2>4, <2>5
<1> QED
  BY <1>1, <1>2

LEMMA DieContract ==
    ASSUME KeyInv, NEW r \in Requests, Die(r)
    PROVE  Contract!Next \/ UNCHANGED Contract!vars
<1>0. /\ Types /\ "dead" \notin Owning /\ UNCHANGED <<req, record>>
      /\ \A q \in Batch : Key(q) \notin Keys
  BY NoneAssumption DEF KeyInv, KeyedSteps, Owning, Die, tables, Batch
<1>1. \A q \in Requests : Key(q) \in Keys => pc'[q] = IF q = r THEN "dead" ELSE pc[q]
  BY <1>0 DEF Die, Types
<1>2. CASE Key(r) \in Keys /\ pc[r] \in Owning
  <2>1. PICK k \in Keys : Key(r) = k
    BY <1>2
  <2>2. Holders(k)' = {} /\ \A l \in Keys \ {k} : Holders(l)' = Holders(l)
    BY <1>0, <1>1, <1>2, <2>1 DEF Holders, Key, KeyInv, OneOwner
  <2> QED
    BY <1>0, <1>2, <2>1, <2>2, ContractLeave
<1>3. CASE ~(Key(r) \in Keys /\ pc[r] \in Owning)
  BY <1>0, <1>1, <1>3, ContractStutters
<1> QED
  BY <1>2, <1>3

LEMMA NextContract == KeyInv /\ [Next]_vars => [Contract!Next]_(Contract!vars)
<1> SUFFICES ASSUME KeyInv, [Next]_vars PROVE Contract!Next \/ UNCHANGED Contract!vars
  OBVIOUS
<1>1. ASSUME NEW b \in Batch, Enter(b) PROVE UNCHANGED Contract!vars
  <2>1. b \in Requests /\ Key(b) \notin Keys
    BY NoneAssumption DEF KeyInv, KeyedSteps, Batch
  <2> QED
    BY <1>1, <2>1, ContractMove DEF Enter, tables
<1>2. CASE BatchReturns \/ Quiescent \/ UNCHANGED vars \/ \E i \in Images : Sweep(i)
  BY <1>2, ContractStutters DEF BatchReturns, Quiescent, vars, Sweep, tables
<1> QED
  BY <1>1, <1>2, ExecuteContract, FaultContract, DieContract DEF Next

LEMMA InitContract == Init => Contract!Init
<1> SUFFICES ASSUME Init PROVE Contract!Init
  OBVIOUS
<1>1. \A k \in Keys : Holders(k) = {} /\ record[k] = Absent
  BY NoneAssumption DEF Init, Holders, Key, Keyed, Batch, Owning
<1>2. \A k \in Keys : record[k].status = "absent"
  BY <1>1 DEF Absent
<1> QED
  BY <1>1, <1>2 DEF Contract!Init, Holders

\* The records of scope "process-image" implement KeyContract: every step of any
\* request inserts, settles, releases or abandons at most one record, and only
\* the request that inserted a record ever touches it again.
THEOREM RecordsImplementContract == Spec => KeepsContract
BY InitContract, NextContract, SpecKeyInv, PTL DEF Spec, KeepsContract, Contract!Spec

=============================================================================
