----------------------- MODULE UploadIdempotencyProofs -----------------------
(***************************************************************************)
(* Proofs about UploadIdempotency, for any number of requests, keys,       *)
(* contents, failing calls and deaths.                                     *)
(*                                                                         *)
(* OneOwner is not inductive by itself: nothing in it says that a second   *)
(* claim must fail.  IndInv adds that an owner's key has a record with the *)
(* owner's hash, and follows an image id from the row its request saved,   *)
(* through the completed record and the request that has read it, to the   *)
(* answer.  FixedInv adds what is true until a completion commits while    *)
(* its call raises: an owned record is in progress, and a key that has     *)
(* answered keeps its completed record.                                    *)
(***************************************************************************)
EXTENDS UploadIdempotency, TLAPS

\* Only requests with a key touch the table of idempotency records.
KeyedSteps ==
    \A r \in Requests :
        pc[r] \in {"load", "claim", "reload", "fetch", "complete", "undo"} => Key(r) \in Keys

\* The record of a claimed key is there, and carries its owner's hash.
OwnerHoldsRecord ==
    \A r \in Requests :
        Key(r) # None /\ pc[r] \in Owning =>
            record[Key(r)].status # "absent" /\ record[Key(r)].hash = Hash(r)

\* The row is committed before the task is published and the record completed.
SavedFirst == \A r \in Requests : pc[r] \in {"publish", "complete"} => r \in saved

\* Image i was uploaded under key k with the body that hashes to h.
UploadedAs(i, k, h) == i \in saved /\ Key(i) = k /\ Hash(i) = h

RecordNamesUpload ==
    \A k \in Keys :
        record[k].status = "completed" => UploadedAs(record[k].image, k, record[k].hash)

FoundNamesUpload ==
    \A r \in Requests : pc[r] = "fetch" => UploadedAs(found[r], Key(r), Hash(r))

IndInv ==
    /\ TypeOK
    /\ KeyedSteps
    /\ OwnerHoldsRecord
    /\ OneOwner
    /\ SavedFirst
    /\ RecordNamesUpload
    /\ FoundNamesUpload
    /\ AnswerMatchesRequest
    /\ TaskHasRow

\* Key k is settled on image i.
Settled(k, i) == record[k].status = "completed" /\ record[k].image = i

OwnedInProgress ==
    \A r \in Requests :
        Key(r) # None /\ pc[r] \in Owning => record[Key(r)].status = "in_progress"

FoundIsSettled == \A r \in Requests : pc[r] = "fetch" => Settled(Key(r), found[r])

AnswerIsSettled ==
    \A r \in Requests : Answered(r) /\ Key(r) # None => Settled(Key(r), outcome[r].image)

FixedInv == lateAcks = 0 => OwnedInProgress /\ FoundIsSettled /\ AnswerIsSettled

-----------------------------------------------------------------------------
\* The request hash tells bodies apart: _hash_upload_request covers the content
\* and every other field of the upload.
LEMMA HashInjective ==
    ASSUME NEW a \in Bodies, NEW b \in Bodies,
           HashUploadRequest(a) = HashUploadRequest(b)
    PROVE  a = b
BY DEF Bodies, HashUploadRequest

LEMMA HashType ==
    ASSUME NEW b \in Bodies
    PROVE  HashUploadRequest(b) \in Hashes
BY DEF Hashes

\* Requests with the same key and the same hash ask for the same thing.
LEMMA SameRequest ==
    ASSUME TypeOK, NEW r \in Requests, NEW q \in Requests,
           Key(r) = Key(q), Hash(r) = Hash(q)
    PROVE  req[r] = req[q]
<1>1. req[r].body \in Bodies /\ req[q].body \in Bodies
  BY DEF TypeOK
<1>2. req[r].body = req[q].body
  BY <1>1, HashInjective DEF Hash
<1> QED
  BY <1>2 DEF TypeOK, Key

\* Leaving execute keeps the types of the program counters and the outcomes.
LEMMA FinishType ==
    ASSUME TypeOK, NEW r \in Requests, NEW image \in Requests \cup {None},
           NEW kind \in {"none", "created", "replayed", "conflict", "in_progress", "error"},
           Finish(r, kind, image)
    PROVE  /\ pc' \in [Requests -> Waiting \cup {"done", "dead"}]
           /\ outcome' \in [Requests -> Outcomes]
<1>1. [kind |-> kind, image |-> image] \in Outcomes
  BY DEF Outcomes
<1> QED
  BY <1>1 DEF Finish, Goto, TypeOK

LEMMA GotoType ==
    ASSUME TypeOK, NEW r \in Requests, NEW label \in Waiting, Goto(r, label)
    PROVE  pc' \in [Requests -> Waiting \cup {"done", "dead"}]
BY DEF Goto, TypeOK

LEMMA InitIndInv == Init => IndInv
<1> SUFFICES ASSUME Init PROVE IndInv
  OBVIOUS
<1> USE DEF Init
<1>1. TypeOK
  BY DEF TypeOK, Waiting, Owning, Working, Outcomes, Records, Absent
<1>2. KeyedSteps
  BY DEF KeyedSteps, Key
<1>3. OwnerHoldsRecord /\ OneOwner
  BY DEF OwnerHoldsRecord, OneOwner, Owning, Working, Key
<1>4. SavedFirst /\ RecordNamesUpload /\ FoundNamesUpload /\ AnswerMatchesRequest /\ TaskHasRow
  BY DEF SavedFirst, RecordNamesUpload, FoundNamesUpload, AnswerMatchesRequest, TaskHasRow,
         Absent, Answered
<1> QED
  BY <1>1, <1>2, <1>3, <1>4 DEF IndInv

-----------------------------------------------------------------------------
(* One lemma per action of the use case.                                   *)

LEMMA LoadIndInv ==
    ASSUME IndInv, NEW r \in Requests, Load(r)
    PROVE  IndInv'
<1> USE DEF IndInv, Load, Goto, Finish, NoFault
<1>1. TypeOK'
  <2> HIDE DEF Goto, Finish
  <2>1. Key(r) \in Keys /\ record[Key(r)].image \in Requests \cup {None}
    BY DEF KeyedSteps, TypeOK, Records
  <2>2. pc' \in [Requests -> Waiting \cup {"done", "dead"}] /\ outcome' \in [Requests -> Outcomes]
    BY FinishType, GotoType DEF TypeOK, Waiting
  <2>3. found' \in [Requests -> Requests \cup {None}]
    BY <2>1 DEF TypeOK
  <2> QED
    BY <2>2, <2>3 DEF TypeOK
<1>2. KeyedSteps'
  BY DEF TypeOK, KeyedSteps, Key
<1>3. OwnerHoldsRecord' /\ OneOwner'
  BY DEF TypeOK, OwnerHoldsRecord, OneOwner, Owning, Working, Key, Hash
<1>4. SavedFirst' /\ RecordNamesUpload' /\ TaskHasRow'
  BY DEF TypeOK, SavedFirst, RecordNamesUpload, TaskHasRow, UploadedAs, Key, Hash
<1>5. FoundNamesUpload'
  BY DEF TypeOK, FoundNamesUpload, RecordNamesUpload, KeyedSteps, UploadedAs, Key, Hash
<1>6. AnswerMatchesRequest'
  <2>1. \A q \in Requests : Answered(q)' => Answered(q) /\ outcome'[q] = outcome[q]
    BY DEF TypeOK, Answered
  <2> QED
    BY <2>1 DEF AnswerMatchesRequest, Key
<1> QED
  BY <1>1, <1>2, <1>3, <1>4, <1>5, <1>6

LEMMA FetchReplayIndInv ==
    ASSUME IndInv, NEW r \in Requests, FetchReplay(r)
    PROVE  IndInv'
<1> USE DEF IndInv, FetchReplay, Goto, Finish, NoFault
<1>1. TypeOK'
  <2> HIDE DEF Goto, Finish
  <2>1. pc' \in [Requests -> Waiting \cup {"done", "dead"}] /\ outcome' \in [Requests -> Outcomes]
    BY FinishType DEF TypeOK
  <2> QED
    BY <2>1 DEF TypeOK
<1>2. KeyedSteps'
  BY DEF TypeOK, KeyedSteps, Key
<1>3. OwnerHoldsRecord' /\ OneOwner'
  BY DEF TypeOK, OwnerHoldsRecord, OneOwner, Owning, Working, Key, Hash
<1>4. SavedFirst' /\ RecordNamesUpload' /\ FoundNamesUpload' /\ TaskHasRow'
  BY DEF TypeOK, SavedFirst, RecordNamesUpload, FoundNamesUpload, TaskHasRow, UploadedAs, Key, Hash
<1>5. found[r] \in saved /\ req[found[r]] = req[r]
  BY SameRequest DEF TypeOK, FoundNamesUpload, UploadedAs
<1>6. AnswerMatchesRequest'
  BY <1>5 DEF TypeOK, AnswerMatchesRequest, Answered, Key, Outcomes
<1> QED
  BY <1>1, <1>2, <1>3, <1>4, <1>6

LEMMA ClaimIndInv ==
    ASSUME IndInv, NEW r \in Requests, Claim(r)
    PROVE  IndInv'
<1> USE DEF IndInv, Claim, CreateRecord, Goto, NoFault
<1>0. req[r].body \in Bodies /\ Hash(r) \in Hashes /\ Key(r) \in Keys
  BY HashType DEF TypeOK, Hash, KeyedSteps
<1>1. TypeOK'
  <2>1. pc' \in [Requests -> Waiting \cup {"done", "dead"}]
    BY DEF TypeOK, Waiting, Owning, Working
  <2>2. record' \in [Keys -> Records]
    BY <1>0 DEF TypeOK, Records
  <2> QED
    BY <2>1, <2>2 DEF TypeOK
<1>2. KeyedSteps'
  BY DEF TypeOK, KeyedSteps, Key
<1>3. OwnerHoldsRecord'
  BY <1>0 DEF TypeOK, OwnerHoldsRecord, Owning, Working, Key, Hash
<1>4. OneOwner'
  BY <1>0 DEF TypeOK, OwnerHoldsRecord, OneOwner, Owning, Working, Key
<1>5. SavedFirst' /\ FoundNamesUpload' /\ TaskHasRow'
  BY DEF TypeOK, SavedFirst, FoundNamesUpload, TaskHasRow, UploadedAs, Key, Hash
<1>6. RecordNamesUpload'
  <2>1. \A k \in Keys : record'[k].status = "completed" => record'[k] = record[k]
    BY <1>0 DEF TypeOK
  <2> QED
    BY <2>1 DEF RecordNamesUpload, UploadedAs, Key, Hash
<1>7. AnswerMatchesRequest'
  BY DEF TypeOK, AnswerMatchesRequest, Answered, Key, Outcomes
<1> QED
  BY <1>1, <1>2, <1>3, <1>4, <1>5, <1>6, <1>7

LEMMA StoreIndInv ==
    ASSUME IndInv, NEW r \in Requests, Store(r)
    PROVE  IndInv'
<1> USE DEF IndInv, Store, Goto, NoFault
<1>1. TypeOK'
  BY DEF TypeOK, Waiting, Owning, Working
<1>2. KeyedSteps' /\ SavedFirst' /\ TaskHasRow'
  BY DEF TypeOK, KeyedSteps, SavedFirst, TaskHasRow, Key
<1>3. OwnerHoldsRecord' /\ OneOwner'
  BY DEF TypeOK, OwnerHoldsRecord, OneOwner, Owning, Working, Key, Hash
<1>4. RecordNamesUpload' /\ FoundNamesUpload' /\ AnswerMatchesRequest'
  BY DEF TypeOK, RecordNamesUpload, FoundNamesUpload, AnswerMatchesRequest, UploadedAs,
         Answered, Key, Hash
<1> QED
  BY <1>1, <1>2, <1>3, <1>4

LEMMA SaveIndInv ==
    ASSUME IndInv, NEW r \in Requests, Save(r)
    PROVE  IndInv'
<1> USE DEF IndInv, Save, InsertRow, Goto, NoFault
<1>1. TypeOK'
  BY DEF TypeOK, Waiting, Owning, Working
<1>2. KeyedSteps' /\ SavedFirst' /\ TaskHasRow'
  BY DEF TypeOK, KeyedSteps, SavedFirst, TaskHasRow, Key
<1>3. OwnerHoldsRecord' /\ OneOwner'
  BY DEF TypeOK, OwnerHoldsRecord, OneOwner, Owning, Working, Key, Hash
<1>4. RecordNamesUpload' /\ FoundNamesUpload' /\ AnswerMatchesRequest'
  BY DEF TypeOK, RecordNamesUpload, FoundNamesUpload, AnswerMatchesRequest, UploadedAs,
         Answered, Key, Hash
<1> QED
  BY <1>1, <1>2, <1>3, <1>4

LEMMA PublishIndInv ==
    ASSUME IndInv, NEW r \in Requests, Publish(r)
    PROVE  IndInv'
<1> USE DEF IndInv, Publish, Goto, Finish, NoFault
<1>0. r \in saved
  BY DEF SavedFirst
<1>1. TypeOK'
  <2> HIDE DEF Goto, Finish
  <2>1. pc' \in [Requests -> Waiting \cup {"done", "dead"}] /\ outcome' \in [Requests -> Outcomes]
    BY FinishType, GotoType DEF TypeOK, Waiting, Owning, Working
  <2> QED
    BY <1>0, <2>1 DEF TypeOK
<1>2. KeyedSteps' /\ SavedFirst' /\ TaskHasRow'
  BY <1>0 DEF TypeOK, KeyedSteps, SavedFirst, TaskHasRow, Key
<1>3. OwnerHoldsRecord' /\ OneOwner'
  BY DEF TypeOK, OwnerHoldsRecord, OneOwner, Owning, Working, Key, Hash
<1>4. RecordNamesUpload' /\ FoundNamesUpload'
  BY DEF TypeOK, RecordNamesUpload, FoundNamesUpload, UploadedAs, Key, Hash
<1>5. AnswerMatchesRequest'
  BY <1>0 DEF TypeOK, AnswerMatchesRequest, Answered, Key, Outcomes
<1> QED
  BY <1>1, <1>2, <1>3, <1>4, <1>5

LEMMA CompleteRecordFacts ==
    ASSUME IndInv, NEW r \in Requests, pc[r] = "complete", CompleteRecord(r)
    PROVE  /\ record' \in [Keys -> Records]
           /\ record'[Key(r)].status = "completed"
           /\ record'[Key(r)].image = r
           /\ record'[Key(r)].hash = Hash(r)
           /\ \A k \in Keys \ {Key(r)} : record'[k] = record[k]
<1> USE DEF IndInv
<1>1. Key(r) \in Keys /\ Key(r) # None
  BY NoneAssumption DEF KeyedSteps
<1>2. record[Key(r)].status # "absent" /\ record[Key(r)].hash = Hash(r)
  BY <1>1 DEF OwnerHoldsRecord, Owning, Working
<1>3. record[Key(r)] \in Records
  BY <1>1 DEF TypeOK
<1> QED
  BY <1>1, <1>2, <1>3 DEF CompleteRecord, TypeOK, Records

LEMMA CompleteIndInv ==
    ASSUME IndInv, NEW r \in Requests, Complete(r)
    PROVE  IndInv'
<1> USE DEF IndInv
<1>0. /\ r \in saved
      /\ Key(r) \in Keys
      /\ pc[r] = "complete"
      /\ CompleteRecord(r)
  BY DEF SavedFirst, KeyedSteps, Complete
<1>1. /\ record' \in [Keys -> Records]
      /\ record'[Key(r)].status = "completed"
      /\ record'[Key(r)].image = r
      /\ record'[Key(r)].hash = Hash(r)
      /\ \A k \in Keys \ {Key(r)} : record'[k] = record[k]
  BY <1>0, CompleteRecordFacts
<1> HIDE DEF CompleteRecord
<1> USE DEF Complete, Goto, Finish, NoFault
<1>2. TypeOK'
  BY <1>1 DEF TypeOK, Waiting, Owning, Working, Outcomes
<1>3. KeyedSteps' /\ SavedFirst' /\ TaskHasRow'
  BY DEF TypeOK, KeyedSteps, SavedFirst, TaskHasRow, Key
<1>4. OneOwner'
  BY DEF TypeOK, OneOwner, Owning, Working, Key
<1>5. OwnerHoldsRecord'
  BY <1>0, <1>1 DEF TypeOK, OwnerHoldsRecord, OneOwner, Owning, Working, Key, Hash
<1>6. RecordNamesUpload'
  BY <1>0, <1>1 DEF TypeOK, RecordNamesUpload, UploadedAs, Key, Hash
<1>7. FoundNamesUpload'
  BY DEF TypeOK, FoundNamesUpload, UploadedAs, Key, Hash
<1>8. AnswerMatchesRequest'
  BY <1>0 DEF TypeOK, AnswerMatchesRequest, Answered, Key, Outcomes
<1> QED
  BY <1>2, <1>3, <1>4, <1>5, <1>6, <1>7, <1>8

\* Deleting the record of an owner that leaves the claim, for both forms of the
\* except block's delete.
LEMMA ReleaseIndInv ==
    ASSUME IndInv, NEW r \in Requests, pc[r] = "undo",
           record' = [record EXCEPT ![Key(r)] = Absent],
           Finish(r, "error", None),
           UNCHANGED <<req, found, rows, saved, tasks>>,
           faults' \in Nat, lateAcks' \in Nat, deaths' \in Nat
    PROVE  IndInv'
<1> USE DEF IndInv
<1>0. Key(r) \in Keys /\ Key(r) # None /\ Absent \in Records
  BY NoneAssumption DEF KeyedSteps, Absent, Records
<1>1. TypeOK'
  <2>1. pc' \in [Requests -> Waiting \cup {"done", "dead"}] /\ outcome' \in [Requests -> Outcomes]
    BY FinishType
  <2> QED
    BY <1>0, <2>1 DEF TypeOK
<1> USE DEF Goto, Finish
<1>2. KeyedSteps' /\ SavedFirst' /\ TaskHasRow'
  BY DEF TypeOK, KeyedSteps, SavedFirst, TaskHasRow, Key
<1>3. OneOwner'
  BY DEF TypeOK, OneOwner, Owning, Working, Key
<1>4. OwnerHoldsRecord'
  BY <1>0 DEF TypeOK, OwnerHoldsRecord, OneOwner, Owning, Working, Key, Hash
<1>5. RecordNamesUpload'
  BY <1>0 DEF TypeOK, RecordNamesUpload, UploadedAs, Key, Hash, Absent
<1>6. FoundNamesUpload'
  BY DEF TypeOK, FoundNamesUpload, UploadedAs, Key, Hash
<1>7. AnswerMatchesRequest'
  BY DEF TypeOK, AnswerMatchesRequest, Answered, Key, Outcomes
<1> QED
  BY <1>1, <1>2, <1>3, <1>4, <1>5, <1>6, <1>7

LEMMA UndoIndInv ==
    ASSUME IndInv, NEW r \in Requests, Undo(r)
    PROVE  IndInv'
BY ReleaseIndInv DEF Undo, NoFault, IndInv, TypeOK

\* What an exception does to a request: it enters the except block, still an
\* owner, or it is answered with an error.
LEMMA RaiseFacts ==
    ASSUME TypeOK, NEW r \in Requests, pc[r] \in Waiting, Raise(r)
    PROVE  /\ pc' \in [Requests -> Waiting \cup {"done", "dead"}]
           /\ outcome' \in [Requests -> Outcomes]
           /\ \A q \in Requests \ {r} : pc'[q] = pc[q]
           /\ \/ pc'[r] = "done"
              \/ pc'[r] = "undo" /\ pc[r] \in Working /\ Key(r) # None
           /\ \A q \in Requests : pc'[q] \in Owning => pc[q] \in Owning
           /\ \A q \in Requests :
                 outcome'[q].kind \in {"created", "replayed"} => outcome'[q] = outcome[q]
<1>1. CASE pc[r] \in Working /\ Key(r) # None
  BY <1>1, GotoType DEF Raise, Goto, TypeOK, Waiting, Owning
<1>2. CASE ~(pc[r] \in Working /\ Key(r) # None)
  <2>1. Finish(r, "error", None)
    BY <1>2 DEF Raise
  <2> QED
    BY <2>1, FinishType DEF Finish, Goto, TypeOK, Owning, Working
<1> QED
  BY <1>1, <1>2

LEMMA CallFailsIndInv ==
    ASSUME IndInv, NEW r \in Requests, CallFails(r)
    PROVE  IndInv'
<1> USE DEF IndInv
<1>0. Raise(r) /\ pc[r] \in Waiting
  BY DEF CallFails
<1>1. /\ pc' \in [Requests -> Waiting \cup {"done", "dead"}]
      /\ outcome' \in [Requests -> Outcomes]
      /\ \A q \in Requests \ {r} : pc'[q] = pc[q]
      /\ \/ pc'[r] = "done"
         \/ pc'[r] = "undo" /\ pc[r] \in Working /\ Key(r) # None
      /\ \A q \in Requests : pc'[q] \in Owning => pc[q] \in Owning
      /\ \A q \in Requests :
            outcome'[q].kind \in {"created", "replayed"} => outcome'[q] = outcome[q]
  BY <1>0, RaiseFacts
<1>2. UNCHANGED <<req, found, record, rows, saved, tasks, lateAcks, deaths>> /\ faults' = faults + 1
  BY DEF CallFails, Fault
<1>3. TypeOK'
  BY <1>1, <1>2 DEF TypeOK
<1>4. KeyedSteps' /\ SavedFirst' /\ TaskHasRow'
  BY <1>1, <1>2 DEF TypeOK, KeyedSteps, SavedFirst, TaskHasRow, Key
<1>5. OwnerHoldsRecord' /\ OneOwner'
  BY <1>1, <1>2 DEF OwnerHoldsRecord, OneOwner, Key, Hash
<1>6. RecordNamesUpload' /\ FoundNamesUpload'
  BY <1>1, <1>2 DEF RecordNamesUpload, FoundNamesUpload, UploadedAs, Key, Hash
<1>7. AnswerMatchesRequest'
  BY <1>1, <1>2 DEF AnswerMatchesRequest, Answered, Key
<1> QED
  BY <1>3, <1>4, <1>5, <1>6, <1>7

LEMMA CallFailsLateIndInv ==
    ASSUME IndInv, NEW r \in Requests, CallFailsLate(r)
    PROVE  IndInv'
<1> USE DEF IndInv
<1>0. /\ Raise(r)
      /\ pc[r] \in Waiting
      /\ UNCHANGED <<req, found, tasks>>
      /\ faults' \in Nat /\ deaths' \in Nat
  BY DEF CallFailsLate, Waiting, Owning, Working, Fault, TypeOK
<1>1. /\ pc' \in [Requests -> Waiting \cup {"done", "dead"}]
      /\ outcome' \in [Requests -> Outcomes]
      /\ \A q \in Requests \ {r} : pc'[q] = pc[q]
      /\ \/ pc'[r] = "done"
         \/ pc'[r] = "undo" /\ pc[r] \in Working /\ Key(r) # None
      /\ \A q \in Requests : pc'[q] \in Owning => pc[q] \in Owning
      /\ \A q \in Requests :
            outcome'[q].kind \in {"created", "replayed"} => outcome'[q] = outcome[q]
  BY <1>0, RaiseFacts
<1>2. CASE pc[r] = "claim"
  <2>0. /\ CreateRecord(r) /\ UNCHANGED <<rows, saved, lateAcks>>
        /\ pc'[r] = "done" /\ Key(r) \in Keys /\ Hash(r) \in Hashes
    BY <1>1, <1>2, HashType DEF CallFailsLate, KeyedSteps, Working, Hash, TypeOK
  <2>1. TypeOK'
    BY <1>0, <1>1, <2>0 DEF TypeOK, CreateRecord, Records
  <2>2. KeyedSteps' /\ SavedFirst' /\ TaskHasRow' /\ OneOwner'
    BY <1>0, <1>1, <2>0 DEF TypeOK, KeyedSteps, SavedFirst, TaskHasRow, OneOwner, Owning, Working, Key
  <2>3. OwnerHoldsRecord'
    BY <1>0, <1>1, <2>0 DEF TypeOK, OwnerHoldsRecord, CreateRecord, Owning, Working, Key, Hash
  <2>4. RecordNamesUpload'
    <3>1. \A k \in Keys : record'[k].status = "completed" => record'[k] = record[k]
      BY <2>0 DEF TypeOK, CreateRecord
    <3> QED
      BY <1>0, <2>0, <3>1 DEF RecordNamesUpload, UploadedAs, Key, Hash
  <2>5. FoundNamesUpload' /\ AnswerMatchesRequest'
    BY <1>0, <1>1, <2>0 DEF FoundNamesUpload, AnswerMatchesRequest, Answered, UploadedAs, Key, Hash
  <2> QED
    BY <2>1, <2>2, <2>3, <2>4, <2>5
<1>3. CASE pc[r] = "save"
  <2>0. InsertRow(r) /\ UNCHANGED <<record, lateAcks>>
    BY <1>3 DEF CallFailsLate
  <2>1. TypeOK'
    BY <1>0, <1>1, <2>0 DEF TypeOK, InsertRow
  <2>2. KeyedSteps' /\ SavedFirst' /\ TaskHasRow'
    BY <1>0, <1>1, <2>0 DEF TypeOK, KeyedSteps, SavedFirst, TaskHasRow, InsertRow, Key
  <2>3. OwnerHoldsRecord' /\ OneOwner'
    BY <1>0, <1>1, <2>0 DEF OwnerHoldsRecord, OneOwner, Key, Hash
  <2>4. RecordNamesUpload' /\ FoundNamesUpload' /\ AnswerMatchesRequest'
    BY <1>0, <1>1, <2>0 DEF RecordNamesUpload, FoundNamesUpload, AnswerMatchesRequest, Answered,
                            InsertRow, UploadedAs, Key, Hash
  <2> QED
    BY <2>1, <2>2, <2>3, <2>4
<1>4. CASE pc[r] = "complete"
  <2>0. CompleteRecord(r) /\ UNCHANGED <<rows, saved>> /\ lateAcks' \in Nat
    BY <1>4 DEF CallFailsLate, TypeOK
  <2>1. /\ record' \in [Keys -> Records]
        /\ record'[Key(r)].status = "completed"
        /\ record'[Key(r)].image = r
        /\ record'[Key(r)].hash = Hash(r)
        /\ \A k \in Keys \ {Key(r)} : record'[k] = record[k]
    BY <1>4, <2>0, CompleteRecordFacts
  <2>2. Key(r) \in Keys /\ r \in saved
    BY <1>4 DEF KeyedSteps, SavedFirst
  <2>3. TypeOK'
    BY <1>0, <1>1, <2>0, <2>1 DEF TypeOK
  <2>4. KeyedSteps' /\ SavedFirst' /\ TaskHasRow'
    BY <1>0, <1>1, <2>0, <2>2 DEF TypeOK, KeyedSteps, SavedFirst, TaskHasRow, Key
  <2>5. OneOwner'
    BY <1>0, <1>1 DEF OneOwner, Key
  <2>6. OwnerHoldsRecord'
    <3> SUFFICES ASSUME NEW q \in Requests, Key(q) # None, pc'[q] \in Owning
                 PROVE  record'[Key(q)].status # "absent" /\ record'[Key(q)].hash = Hash(q)
      BY <1>0 DEF OwnerHoldsRecord, Key, Hash
    <3>1. pc[q] \in Owning /\ Key(q) \in Keys
      BY <1>1 DEF TypeOK, Key
    <3>2. Key(q) = Key(r) => q = r
      BY <1>4, <2>2, <3>1 DEF OneOwner, Owning, Working
    <3> QED
      BY <2>1, <3>1, <3>2 DEF OwnerHoldsRecord
  <2>7. RecordNamesUpload'
    BY <1>0, <2>0, <2>1, <2>2 DEF RecordNamesUpload, UploadedAs, Key, Hash
  <2>8. FoundNamesUpload' /\ AnswerMatchesRequest'
    BY <1>0, <1>1, <2>0 DEF FoundNamesUpload, AnswerMatchesRequest, Answered, UploadedAs, Key, Hash
  <2> QED
    BY <2>3, <2>4, <2>5, <2>6, <2>7, <2>8
<1>5. CASE pc[r] = "undo"
  <2>1. Finish(r, "error", None)
    BY <1>0, <1>5 DEF Raise, Working
  <2> QED
    BY <1>0, <1>5, <2>1, ReleaseIndInv DEF CallFailsLate, TypeOK
<1> QED
  BY <1>2, <1>3, <1>4, <1>5 DEF CallFailsLate

LEMMA DieIndInv ==
    ASSUME IndInv, NEW r \in Requests, Die(r)
    PROVE  IndInv'
<1> USE DEF IndInv, Die, Goto
<1>1. TypeOK'
  BY DEF TypeOK
<1>2. KeyedSteps' /\ SavedFirst' /\ TaskHasRow'
  BY DEF TypeOK, KeyedSteps, SavedFirst, TaskHasRow, Key
<1>3. OwnerHoldsRecord' /\ OneOwner'
  BY DEF TypeOK, OwnerHoldsRecord, OneOwner, Owning, Working, Key, Hash
<1>4. RecordNamesUpload' /\ FoundNamesUpload' /\ AnswerMatchesRequest'
  BY DEF TypeOK, RecordNamesUpload, FoundNamesUpload, AnswerMatchesRequest, UploadedAs,
         Answered, Key, Hash
<1> QED
  BY <1>1, <1>2, <1>3, <1>4

LEMMA RemoveImageIndInv ==
    ASSUME IndInv, NEW r \in Requests, RemoveImage(r)
    PROVE  IndInv'
BY DEF IndInv, RemoveImage, TypeOK, KeyedSteps, OwnerHoldsRecord, OneOwner, SavedFirst,
       RecordNamesUpload, FoundNamesUpload, AnswerMatchesRequest, TaskHasRow, UploadedAs,
       Answered, Key, Hash

LEMMA StutterIndInv ==
    ASSUME IndInv, UNCHANGED vars
    PROVE  IndInv'
BY DEF IndInv, vars, TypeOK, KeyedSteps, OwnerHoldsRecord, OneOwner, SavedFirst,
       RecordNamesUpload, FoundNamesUpload, AnswerMatchesRequest, TaskHasRow, UploadedAs,
       Answered, Key, Hash

LEMMA NextIndInv == IndInv /\ [Next]_vars => IndInv'
<1> SUFFICES ASSUME IndInv, [Next]_vars PROVE IndInv'
  OBVIOUS
<1>1. ASSUME NEW r \in Requests, Execute(r) PROVE IndInv'
  BY <1>1, LoadIndInv, FetchReplayIndInv, ClaimIndInv, StoreIndInv, SaveIndInv, PublishIndInv,
     CompleteIndInv, UndoIndInv DEF Execute
<1>2. ASSUME NEW r \in Requests, CallFails(r) \/ CallFailsLate(r) PROVE IndInv'
  BY <1>2, CallFailsIndInv, CallFailsLateIndInv
<1>3. ASSUME NEW r \in Requests, Die(r) \/ RemoveImage(r) PROVE IndInv'
  BY <1>3, DieIndInv, RemoveImageIndInv
<1>4. CASE Quiescent \/ UNCHANGED vars
  BY <1>4, StutterIndInv DEF Quiescent
<1> QED
  BY <1>1, <1>2, <1>3, <1>4 DEF Next

-----------------------------------------------------------------------------
\* IndInv holds in every reachable state.
LEMMA SpecIndInv == Spec => []IndInv
<1> QED
  BY InitIndInv, NextIndInv, PTL DEF Spec

\* The tables and the requests stay in the states the code gives them.
THEOREM TypeCorrect == Spec => []TypeOK
<1>1. IndInv => TypeOK
  BY DEF IndInv
<1> QED
  BY <1>1, SpecIndInv, PTL

\* Mutual exclusion on a key: for any number of concurrent uploads, failing calls
\* and deaths, one request at most is between winning the claim of
\* create_idempotency_record and releasing it.
THEOREM Exclusion == Spec => []OneOwner
<1>1. IndInv => OneOwner
  BY DEF IndInv
<1> QED
  BY <1>1, SpecIndInv, PTL

\* No upload is ever answered with the image of a request that had another key,
\* another content or other fields, whatever fails.
THEOREM Faithful == Spec => []AnswerMatchesRequest
<1>1. IndInv => AnswerMatchesRequest
  BY DEF IndInv
<1> QED
  BY <1>1, SpecIndInv, PTL

\* A processing task is published only for an image whose row was committed.
THEOREM TasksHaveRows == Spec => []TaskHasRow
<1>1. IndInv => TaskHasRow
  BY DEF IndInv
<1> QED
  BY <1>1, SpecIndInv, PTL

-----------------------------------------------------------------------------
(* Until a completion commits late, a key that has answered is settled.    *)

\* A step that keeps every settled key settled, claims only absent records and
\* answers only with what is settled afterwards, preserves FixedInv.
LEMMA FixedStep ==
    ASSUME IndInv, IndInv', FixedInv, lateAcks' = 0 => lateAcks = 0,
           UNCHANGED req,
           lateAcks' = 0 =>
             /\ \A r \in Requests :
                  /\ pc'[r] \in Owning /\ Key(r) # None =>
                       record'[Key(r)].status = "in_progress"
                  /\ pc'[r] = "fetch" =>
                       \/ pc[r] = "fetch" /\ found'[r] = found[r]
                       \/ Settled(Key(r), found[r])'
                  /\ Answered(r)' /\ Key(r) # None =>
                       \/ Answered(r) /\ outcome'[r] = outcome[r]
                       \/ Settled(Key(r), outcome[r].image)'
             /\ \A k \in Keys : record[k].status = "completed" => record'[k] = record[k]
    PROVE  FixedInv'
<1> SUFFICES ASSUME lateAcks' = 0
             PROVE  OwnedInProgress' /\ FoundIsSettled' /\ AnswerIsSettled'
  BY DEF FixedInv
<1>0. \A r \in Requests : Key(r)' = Key(r) /\ (Key(r) # None => Key(r) \in Keys)
  BY DEF Key, IndInv, TypeOK
<1>1. OwnedInProgress'
  BY <1>0 DEF OwnedInProgress
<1>2. FoundIsSettled'
  <2> SUFFICES ASSUME NEW r \in Requests, pc'[r] = "fetch"
               PROVE  Settled(Key(r), found[r])'
    BY <1>0 DEF FoundIsSettled
  <2>1. CASE pc[r] = "fetch" /\ found'[r] = found[r]
    <3>1. Settled(Key(r), found[r]) /\ Key(r) \in Keys
      BY <2>1 DEF FixedInv, FoundIsSettled, IndInv, KeyedSteps
    <3> QED
      BY <1>0, <2>1, <3>1 DEF Settled
  <2> QED
    BY <1>0, <2>1
<1>3. AnswerIsSettled'
  <2> SUFFICES ASSUME NEW r \in Requests, Answered(r)', Key(r) # None
               PROVE  Settled(Key(r), outcome[r].image)'
    BY <1>0 DEF AnswerIsSettled
  <2>1. CASE Answered(r) /\ outcome'[r] = outcome[r]
    <3>1. Settled(Key(r), outcome[r].image) /\ Key(r) \in Keys
      BY <1>0, <2>1 DEF FixedInv, AnswerIsSettled
    <3> QED
      BY <1>0, <2>1, <3>1 DEF Settled
  <2> QED
    BY <1>0, <2>1
<1> QED
  BY <1>1, <1>2, <1>3

LEMMA InitFixedInv == Init => FixedInv
BY DEF Init, FixedInv, OwnedInProgress, FoundIsSettled, AnswerIsSettled, Owning, Working, Key,
       Answered

\* Load, FetchReplay, Store, Save, Publish, CallFails, Die and RemoveImage leave
\* the records alone.
LEMMA QuietFixedInv ==
    ASSUME IndInv, IndInv', FixedInv, NEW r \in Requests,
           \/ Load(r) \/ FetchReplay(r) \/ Store(r) \/ Save(r) \/ Publish(r)
           \/ CallFails(r) \/ Die(r) \/ RemoveImage(r)
    PROVE  FixedInv'
<1> DEFINE
      Owns == \A q \in Requests : pc'[q] \in Owning /\ Key(q) # None => pc[q] \in Owning
      Finds == \A q \in Requests : pc'[q] = "fetch" =>
                 \/ pc[q] = "fetch" /\ found'[q] = found[q]
                 \/ Settled(Key(q), found[q])'
      Answers == \A q \in Requests : Answered(q)' /\ Key(q) # None =>
                 \/ Answered(q) /\ outcome'[q] = outcome[q]
                 \/ lateAcks = 0 => Settled(Key(q), outcome[q].image)'
<1>0. UNCHANGED <<req, record, lateAcks>>
  BY DEF Load, FetchReplay, Store, Save, Publish, CallFails, Die, RemoveImage, NoFault
<1>1. Owns /\ Finds /\ Answers
  <2>1. CASE Load(r)
    BY <2>1 DEF Load, Goto, Finish, IndInv, TypeOK, Owning, Working, Settled, Answered, Key
  <2>2. CASE FetchReplay(r)
    <3>1. lateAcks = 0 => Settled(Key(r), found[r])
      BY <2>2 DEF FetchReplay, FixedInv, FoundIsSettled
    <3> QED
      BY <1>0, <2>2, <3>1 DEF FetchReplay, Goto, Finish, IndInv, TypeOK, Owning, Working, Settled,
                              Answered, Key
  <2>3. CASE Store(r) \/ Save(r)
    BY <2>3 DEF Store, Save, Goto, IndInv, TypeOK, Owning, Working, Answered, Key
  <2>4. CASE Publish(r)
    BY <2>4 DEF Publish, Goto, Finish, IndInv, TypeOK, Owning, Working, Answered, Key
  <2>5. CASE CallFails(r)
    BY <2>5, RaiseFacts DEF CallFails, IndInv, Answered
  <2>6. CASE Die(r) \/ RemoveImage(r)
    BY <2>6 DEF Die, RemoveImage, Goto, IndInv, TypeOK, Owning, Working, Answered, Key
  <2> QED
    BY <2>1, <2>2, <2>3, <2>4, <2>5, <2>6
<1>2. lateAcks = 0 => \A q \in Requests :
        pc[q] \in Owning /\ Key(q) # None => record[Key(q)].status = "in_progress"
  BY DEF FixedInv, OwnedInProgress
<1> QED
  BY <1>0, <1>1, <1>2, FixedStep

\* A new record does not touch a settled key.
LEMMA CreateFixed ==
    ASSUME IndInv, NEW r \in Requests, Key(r) \in Keys, CreateRecord(r)
    PROVE  /\ record'[Key(r)].status = "in_progress"
           /\ \A k \in Keys \ {Key(r)} : record'[k] = record[k]
           /\ \A k \in Keys : record[k].status = "completed" => record'[k] = record[k]
BY DEF IndInv, TypeOK, CreateRecord

LEMMA ClaimFixedInv ==
    ASSUME IndInv, IndInv', FixedInv, NEW r \in Requests, Claim(r)
    PROVE  FixedInv'
<1>0. /\ UNCHANGED <<req, found, outcome, lateAcks>>
      /\ Key(r) \in Keys
      /\ \A q \in Requests \ {r} : pc'[q] = pc[q]
      /\ pc'[r] \in {"store", "reload"}
  BY DEF Claim, NoFault, IndInv, TypeOK, KeyedSteps, Goto
<1>1. CASE CreateRecord(r)
  <2>1. \A q \in Requests : pc[q] \in Owning /\ Key(q) # None => Key(q) \in Keys \ {Key(r)}
    BY <1>1 DEF CreateRecord, IndInv, OwnerHoldsRecord, TypeOK, Key
  <2>2. lateAcks = 0 => \A q \in Requests :
          pc'[q] \in Owning /\ Key(q) # None => record'[Key(q)].status = "in_progress"
    BY <1>0, <1>1, <2>1, CreateFixed DEF FixedInv, OwnedInProgress
  <2> QED
    BY <1>0, <1>1, <2>2, CreateFixed, FixedStep DEF Answered
<1>2. CASE ~CreateRecord(r)
  <2>1. UNCHANGED record /\ pc'[r] = "reload"
    BY <1>2 DEF Claim, Goto, IndInv, TypeOK
  <2>2. lateAcks = 0 => \A q \in Requests :
          pc'[q] \in Owning /\ Key(q) # None => record'[Key(q)].status = "in_progress"
    BY <1>0, <2>1 DEF FixedInv, OwnedInProgress, Owning, Working
  <2> QED
    BY <1>0, <2>1, <2>2, FixedStep DEF Answered
<1> QED
  BY <1>1, <1>2

LEMMA CompleteFixedInv ==
    ASSUME IndInv, IndInv', FixedInv, NEW r \in Requests, Complete(r)
    PROVE  FixedInv'
<1>0. /\ UNCHANGED <<req, found, lateAcks>>
      /\ pc[r] = "complete" /\ pc'[r] = "done"
      /\ Key(r) \in Keys /\ Key(r) # None
      /\ \A q \in Requests \ {r} : pc'[q] = pc[q] /\ outcome'[q] = outcome[q]
      /\ outcome'[r].image = r
      /\ CompleteRecord(r)
  BY NoneAssumption DEF Complete, NoFault, Finish, Goto, IndInv, TypeOK, KeyedSteps
<1>1. /\ record'[Key(r)].status = "completed"
      /\ record'[Key(r)].image = r
      /\ \A k \in Keys \ {Key(r)} : record'[k] = record[k]
  BY <1>0, CompleteRecordFacts
<1>2. lateAcks = 0 => record[Key(r)].status = "in_progress"
  BY <1>0 DEF FixedInv, OwnedInProgress, Owning, Working
<1>3. \A q \in Requests : pc'[q] \in Owning /\ Key(q) # None =>
        pc[q] \in Owning /\ Key(q) \in Keys \ {Key(r)}
  BY <1>0 DEF IndInv, OneOwner, TypeOK, Owning, Working, Key
<1>4. lateAcks = 0 => \A q \in Requests :
        pc'[q] \in Owning /\ Key(q) # None => record'[Key(q)].status = "in_progress"
  BY <1>1, <1>3 DEF FixedInv, OwnedInProgress
<1>5. lateAcks = 0 => \A k \in Keys : record[k].status = "completed" => record'[k] = record[k]
  BY <1>1, <1>2
<1>6. Settled(Key(r), outcome[r].image)'
  BY <1>0, <1>1 DEF Settled, Key
<1>7. \A q \in Requests \ {r} : Answered(q)' => Answered(q)
  BY <1>0 DEF Answered
<1>8. \A q \in Requests : pc'[q] = "fetch" => pc[q] = "fetch" /\ found'[q] = found[q]
  BY <1>0
<1> QED
  BY <1>0, <1>4, <1>5, <1>6, <1>7, <1>8, FixedStep

LEMMA ReleaseFixedInv ==
    ASSUME IndInv, IndInv', FixedInv, NEW r \in Requests, pc[r] = "undo",
           record' = [record EXCEPT ![Key(r)] = Absent],
           Finish(r, "error", None), UNCHANGED <<req, found, lateAcks>>
    PROVE  FixedInv'
<1>0. /\ pc'[r] = "done"
      /\ Key(r) \in Keys /\ Key(r) # None
      /\ \A q \in Requests \ {r} : pc'[q] = pc[q] /\ outcome'[q] = outcome[q]
      /\ outcome'[r].kind = "error"
      /\ \A k \in Keys \ {Key(r)} : record'[k] = record[k]
  BY NoneAssumption DEF Finish, Goto, IndInv, TypeOK, KeyedSteps
<1>1. lateAcks = 0 => record[Key(r)].status = "in_progress"
  BY <1>0 DEF FixedInv, OwnedInProgress, Owning, Working
<1>2. \A q \in Requests : pc'[q] \in Owning /\ Key(q) # None =>
        pc[q] \in Owning /\ Key(q) \in Keys \ {Key(r)}
  BY <1>0 DEF IndInv, OneOwner, TypeOK, Owning, Working, Key
<1>3. lateAcks = 0 => \A q \in Requests :
        pc'[q] \in Owning /\ Key(q) # None => record'[Key(q)].status = "in_progress"
  BY <1>0, <1>2 DEF FixedInv, OwnedInProgress
<1>4. lateAcks = 0 => \A k \in Keys : record[k].status = "completed" => record'[k] = record[k]
  BY <1>0, <1>1
<1>5. \A q \in Requests : Answered(q)' => Answered(q) /\ outcome'[q] = outcome[q]
  BY <1>0 DEF Answered
<1>6. \A q \in Requests : pc'[q] = "fetch" => pc[q] = "fetch" /\ found'[q] = found[q]
  BY <1>0
<1> QED
  BY <1>3, <1>4, <1>5, <1>6, FixedStep

LEMMA CallFailsLateFixedInv ==
    ASSUME IndInv, IndInv', FixedInv, NEW r \in Requests, CallFailsLate(r)
    PROVE  FixedInv'
<1>0. Raise(r) /\ pc[r] \in Waiting /\ UNCHANGED <<req, found, tasks>> /\ TypeOK
  BY DEF CallFailsLate, Waiting, Owning, Working, IndInv
<1>1. /\ \A q \in Requests \ {r} : pc'[q] = pc[q]
      /\ pc'[r] \in {"done", "undo"}
      /\ \A q \in Requests : pc'[q] \in Owning => pc[q] \in Owning
      /\ \A q \in Requests :
            outcome'[q].kind \in {"created", "replayed"} => outcome'[q] = outcome[q]
  BY <1>0, RaiseFacts
<1>2. /\ \A q \in Requests : Answered(q)' => Answered(q) /\ outcome'[q] = outcome[q]
      /\ \A q \in Requests : pc'[q] = "fetch" => pc[q] = "fetch" /\ found'[q] = found[q]
  BY <1>0, <1>1 DEF Answered
<1>3. CASE pc[r] = "claim"
  <2>0. CreateRecord(r) /\ UNCHANGED lateAcks /\ Key(r) \in Keys
    BY <1>3 DEF CallFailsLate, IndInv, KeyedSteps
  <2>1. \A q \in Requests : pc[q] \in Owning /\ Key(q) # None => Key(q) \in Keys \ {Key(r)}
    BY <2>0 DEF CreateRecord, IndInv, OwnerHoldsRecord, TypeOK, Key
  <2>2. lateAcks = 0 => \A q \in Requests :
          pc'[q] \in Owning /\ Key(q) # None => record'[Key(q)].status = "in_progress"
    BY <1>1, <2>0, <2>1, CreateFixed DEF FixedInv, OwnedInProgress
  <2> QED
    BY <1>0, <1>2, <2>0, <2>2, CreateFixed, FixedStep
<1>4. CASE pc[r] = "save"
  <2>0. UNCHANGED <<record, lateAcks>>
    BY <1>4 DEF CallFailsLate
  <2>1. lateAcks = 0 => \A q \in Requests :
          pc'[q] \in Owning /\ Key(q) # None => record'[Key(q)].status = "in_progress"
    BY <1>1, <2>0 DEF FixedInv, OwnedInProgress
  <2> QED
    BY <1>0, <1>2, <2>0, <2>1, FixedStep
<1>5. CASE pc[r] = "complete"
  <2>1. lateAcks' # 0
    BY <1>0, <1>5 DEF CallFailsLate, TypeOK
  <2> QED
    BY <2>1 DEF FixedInv
<1>6. CASE pc[r] = "undo"
  <2>1. Finish(r, "error", None)
    BY <1>0, <1>6 DEF Raise, Working
  <2> QED
    BY <1>0, <1>6, <2>1, ReleaseFixedInv DEF CallFailsLate
<1> QED
  BY <1>3, <1>4, <1>5, <1>6 DEF CallFailsLate

LEMMA NextFixedInv == IndInv /\ IndInv' /\ FixedInv /\ [Next]_vars => FixedInv'
<1> SUFFICES ASSUME IndInv, IndInv', FixedInv, [Next]_vars PROVE FixedInv'
  OBVIOUS
<1>1. ASSUME NEW r \in Requests, Execute(r) PROVE FixedInv'
  <2>1. CASE Undo(r)
    BY <2>1, ReleaseFixedInv DEF Undo, NoFault
  <2> QED
    BY <1>1, <2>1, QuietFixedInv, ClaimFixedInv, CompleteFixedInv DEF Execute
<1>2. ASSUME NEW r \in Requests, CallFails(r) \/ CallFailsLate(r) \/ Die(r) \/ RemoveImage(r)
      PROVE  FixedInv'
  BY <1>2, QuietFixedInv, CallFailsLateFixedInv
<1>3. CASE Quiescent \/ UNCHANGED vars
  BY <1>3 DEF Quiescent, vars, FixedInv, OwnedInProgress, FoundIsSettled, AnswerIsSettled,
              Settled, Answered, Key
<1> QED
  BY <1>1, <1>2, <1>3 DEF Next

\* The idempotency guarantee: unless a completion commits while its call raises,
\* all successful answers under one key carry one image, for any number of
\* retries, races, plain failures, deaths and removals.
THEOREM Idempotent == Spec => []SameAnswerUnlessLateAck
<1>1. IndInv /\ FixedInv => SameAnswerUnlessLateAck
  BY DEF FixedInv, AnswerIsSettled, Settled, SameAnswerUnlessLateAck, SameAnswer
<1>2. Spec => []FixedInv
  BY InitFixedInv, NextFixedInv, SpecIndInv, PTL DEF Spec
<1> QED
  BY <1>1, <1>2, SpecIndInv, PTL
=============================================================================
