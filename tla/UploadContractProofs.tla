------------------------ MODULE UploadContractProofs ------------------------
(***************************************************************************)
(* More proofs about UploadIdempotency, on top of IndInv: that the upload  *)
(* implements KeyContract, that a key costs one image unless a call fails, *)
(* and that only failing calls and deaths leave a record in progress.      *)
(*                                                                         *)
(* KeepInv says what IndInv does not: inside the try block the owner's     *)
(* record is in progress (in the except block it may be completed, by a    *)
(* completion that committed while its call raised), the except block is   *)
(* entered only after a failing call, and until then a key that has        *)
(* produced an image keeps its record.                                     *)
(***************************************************************************)
EXTENDS UploadIdempotencyProofs

WorkingInProgress ==
    \A r \in Requests :
        Key(r) \in Keys /\ pc[r] \in Working => record[Key(r)].status = "in_progress"

UndoAfterFault == \A r \in Requests : pc[r] = "undo" => faults # 0

\* Nobody but the uploader itself, on its way to the completion, may change the
\* record of a key that has produced an image.
SavedKeepsKey ==
    faults = 0 =>
        \A r \in saved :
            Key(r) \in Keys =>
                /\ record[Key(r)].status # "absent"
                /\ \A q \in Requests :
                      Key(q) = Key(r) /\ pc[q] \in Owning => q = r /\ pc[r] \in {"publish", "complete"}

KeepInv ==
    /\ WorkingInProgress
    /\ UndoAfterFault
    /\ SavedKeepsKey
    /\ NoDuplicateWorkUnlessFault
    /\ InProgressIsOwned

-----------------------------------------------------------------------------
(* KeepInv: one lemma per way in which a step may touch a record.          *)

LEMMA InitKeepInv == Init => KeepInv
<1> SUFFICES ASSUME Init PROVE KeepInv
  OBVIOUS
<1>1. WorkingInProgress /\ UndoAfterFault
  BY NoneAssumption DEF Init, WorkingInProgress, UndoAfterFault, Key, Working
<1>2. SavedKeepsKey /\ NoDuplicateWorkUnlessFault /\ InProgressIsOwned
  BY DEF Init, SavedKeepsKey, NoDuplicateWorkUnlessFault, NoDuplicateWork, InProgressIsOwned, Absent
<1> QED
  BY <1>1, <1>2 DEF KeepInv

\* The counters only grow, and a request never changes what it asks for.
Onwards ==
    /\ req' = req
    /\ faults \in Nat /\ faults' \in Nat /\ faults' >= faults
    /\ deaths \in Nat /\ deaths' \in Nat /\ deaths' >= deaths

\* A request moves on, or ends, and no record and no row changes.
LEMMA MoveKeepInv ==
    ASSUME IndInv, KeepInv, Onwards, NEW r \in Requests, NEW label,
           pc' = [pc EXCEPT ![r] = label],
           UNCHANGED <<record, saved>>,
           label = "undo" => faults' # 0,
           Key(r) \in Keys /\ label \in Working => pc[r] \in Working,
           Key(r) \in Keys /\ label \in Owning => pc[r] \in Owning,
           Key(r) \in Keys /\ pc[r] \in Owning =>
               label \in Owning \/ faults' # 0 \/ deaths' # 0,
           pc[r] \in {"publish", "complete"} =>
               label = "complete" \/ label \notin Owning \/ faults' # 0
    PROVE  KeepInv'
<1> USE DEF KeepInv, Onwards
<1>0. /\ \A q \in Requests : Key(q)' = Key(q) /\ pc'[q] = IF q = r THEN label ELSE pc[q]
      /\ saved \subseteq Requests
  BY DEF Key, IndInv, TypeOK
<1>1. WorkingInProgress'
  BY <1>0 DEF WorkingInProgress
<1>2. UndoAfterFault'
  BY <1>0 DEF UndoAfterFault
<1>3. SavedKeepsKey'
  <2> SUFFICES ASSUME faults' = 0, NEW p \in saved, Key(p) \in Keys
               PROVE  /\ record[Key(p)].status # "absent"
                      /\ \A q \in Requests :
                            Key(q) = Key(p) /\ pc'[q] \in Owning => q = p /\ pc'[p] \in {"publish", "complete"}
    BY <1>0 DEF SavedKeepsKey
  <2>1. faults = 0
    OBVIOUS
  <2> QED
    BY <1>0, <2>1 DEF SavedKeepsKey
<1>4. NoDuplicateWorkUnlessFault'
  BY <1>0 DEF NoDuplicateWorkUnlessFault, NoDuplicateWork
<1>5. InProgressIsOwned'
  BY <1>0 DEF InProgressIsOwned
<1> QED
  BY <1>1, <1>2, <1>3, <1>4, <1>5

\* The image's row is inserted, by the only request that works under its key.
LEMMA SaveKeepInv ==
    ASSUME IndInv, KeepInv, Onwards, NEW r \in Requests, NEW label \in {"publish", "undo", "done"},
           pc[r] = "save",
           pc' = [pc EXCEPT ![r] = label],
           record' = record, saved' = saved \cup {r},
           label # "publish" => faults' # 0
    PROVE  KeepInv'
<1> USE DEF KeepInv, Onwards
<1>0. /\ \A q \in Requests : Key(q)' = Key(q) /\ pc'[q] = IF q = r THEN label ELSE pc[q]
      /\ saved \subseteq Requests
      /\ pc[r] \in Working /\ pc[r] \in Owning
      /\ \A q \in Requests : Key(q) # None <=> Key(q) \in Keys
  BY NoneAssumption DEF Key, IndInv, TypeOK, Working, Owning
<1>1. faults = 0 => \A q \in saved : Key(q) \in Keys => Key(q) # Key(r)
  BY <1>0 DEF SavedKeepsKey
<1>2. WorkingInProgress'
  BY <1>0 DEF WorkingInProgress
<1>3. UndoAfterFault'
  BY <1>0 DEF UndoAfterFault
<1>4. SavedKeepsKey'
  <2> SUFFICES ASSUME faults' = 0, NEW p \in saved \cup {r}, Key(p) \in Keys
               PROVE  /\ record[Key(p)].status # "absent"
                      /\ \A q \in Requests :
                            Key(q) = Key(p) /\ pc'[q] \in Owning => q = p /\ pc'[p] \in {"publish", "complete"}
    BY <1>0 DEF SavedKeepsKey
  <2>1. faults = 0
    OBVIOUS
  <2>2. CASE p = r
    BY <1>0, <2>2 DEF IndInv, OwnerHoldsRecord, OneOwner
  <2>3. CASE p # r
    BY <1>0, <1>1, <2>1, <2>3 DEF SavedKeepsKey
  <2> QED
    BY <2>2, <2>3
<1>5. NoDuplicateWorkUnlessFault'
  BY <1>0, <1>1 DEF NoDuplicateWorkUnlessFault, NoDuplicateWork
<1>6. InProgressIsOwned'
  BY <1>0 DEF InProgressIsOwned, Owning, Working
<1> QED
  BY <1>2, <1>3, <1>4, <1>5, <1>6

\* A record is inserted; the inserter holds the key, or does not know of it.
LEMMA InsertKeepInv ==
    ASSUME IndInv, KeepInv, Onwards, NEW r \in Requests, NEW label \in {"store", "done"},
           pc[r] = "claim",
           CreateRecord(r),
           pc' = [pc EXCEPT ![r] = label],
           saved' = saved,
           label = "done" => faults' # 0
    PROVE  KeepInv'
<1> USE DEF KeepInv, Onwards
<1>0. /\ \A q \in Requests : Key(q)' = Key(q) /\ pc'[q] = IF q = r THEN label ELSE pc[q]
      /\ saved \subseteq Requests
      /\ Key(r) \in Keys
      /\ \A q \in Requests : Key(q) # None <=> Key(q) \in Keys
  BY NoneAssumption DEF Key, IndInv, TypeOK, KeyedSteps
<1>1. /\ record'[Key(r)].status = "in_progress"
      /\ \A k \in Keys \ {Key(r)} : record'[k] = record[k]
  BY <1>0, CreateFixed
<1>2. \A q \in Requests : Key(q) = Key(r) => pc[q] \notin Owning /\ pc[q] \notin Working
  BY <1>0 DEF IndInv, OwnerHoldsRecord, CreateRecord, Owning
<1>3. faults = 0 => \A q \in saved : Key(q) # Key(r)
  BY <1>0 DEF SavedKeepsKey, CreateRecord
<1>4. WorkingInProgress'
  BY <1>0, <1>1, <1>2 DEF WorkingInProgress
<1>5. UndoAfterFault'
  BY <1>0 DEF UndoAfterFault
<1>6. SavedKeepsKey'
  <2> SUFFICES ASSUME faults' = 0, NEW p \in saved, Key(p) \in Keys
               PROVE  /\ record'[Key(p)].status # "absent"
                      /\ \A q \in Requests :
                            Key(q) = Key(p) /\ pc'[q] \in Owning => q = p /\ pc'[p] \in {"publish", "complete"}
    BY <1>0 DEF SavedKeepsKey
  <2>1. faults = 0
    OBVIOUS
  <2> QED
    BY <1>0, <1>1, <1>3, <2>1 DEF SavedKeepsKey
<1>7. NoDuplicateWorkUnlessFault'
  BY <1>0 DEF NoDuplicateWorkUnlessFault, NoDuplicateWork
<1>8. InProgressIsOwned'
  <2> SUFFICES ASSUME NEW k \in Keys, record'[k].status = "in_progress", faults' = 0, deaths' = 0
               PROVE  \E q \in Requests : Key(q)' = k /\ pc'[q] \in Owning
    BY DEF InProgressIsOwned
  <2>1. CASE k = Key(r)
    BY <1>0, <2>1 DEF Owning, Working
  <2>2. CASE k # Key(r)
    <3>1. PICK q \in Requests : Key(q) = k /\ pc[q] \in Owning
      BY <1>1, <2>2 DEF InProgressIsOwned
    <3> QED
      BY <1>0, <2>2, <3>1
  <2> QED
    BY <2>1, <2>2
<1> QED
  BY <1>4, <1>5, <1>6, <1>7, <1>8

\* The owner completes the record, and leaves unless the call raises.
LEMMA SettleKeepInv ==
    ASSUME IndInv, KeepInv, Onwards, NEW r \in Requests, NEW label \in {"undo", "done"},
           pc[r] = "complete",
           CompleteRecord(r),
           pc' = [pc EXCEPT ![r] = label],
           saved' = saved,
           label = "undo" => faults' # 0
    PROVE  KeepInv'
<1> USE DEF KeepInv, Onwards
<1>0. /\ \A q \in Requests : Key(q)' = Key(q) /\ pc'[q] = IF q = r THEN label ELSE pc[q]
      /\ saved \subseteq Requests
      /\ Key(r) \in Keys /\ pc[r] \in Owning
      /\ \A q \in Requests : Key(q) # None <=> Key(q) \in Keys
  BY NoneAssumption DEF Key, IndInv, TypeOK, KeyedSteps, Owning, Working
<1>1. /\ record'[Key(r)].status = "completed"
      /\ \A k \in Keys \ {Key(r)} : record'[k] = record[k]
  BY CompleteRecordFacts
<1>2. \A q \in Requests : Key(q) = Key(r) /\ pc[q] \in Owning => q = r
  BY <1>0 DEF IndInv, OneOwner
<1>3. WorkingInProgress'
  BY <1>0, <1>1, <1>2 DEF WorkingInProgress, Owning, Working
<1>4. UndoAfterFault'
  BY <1>0 DEF UndoAfterFault
<1>5. SavedKeepsKey'
  <2> SUFFICES ASSUME faults' = 0, NEW p \in saved, Key(p) \in Keys
               PROVE  /\ record'[Key(p)].status # "absent"
                      /\ \A q \in Requests :
                            Key(q) = Key(p) /\ pc'[q] \in Owning => q = p /\ pc'[p] \in {"publish", "complete"}
    BY <1>0 DEF SavedKeepsKey
  <2>1. faults = 0 /\ label \notin Owning
    BY DEF Owning, Working
  <2> QED
    BY <1>0, <1>1, <2>1 DEF SavedKeepsKey
<1>6. NoDuplicateWorkUnlessFault'
  BY <1>0 DEF NoDuplicateWorkUnlessFault, NoDuplicateWork
<1>7. InProgressIsOwned'
  BY <1>0, <1>1, <1>2 DEF InProgressIsOwned
<1> QED
  BY <1>3, <1>4, <1>5, <1>6, <1>7

\* The except block deletes the record; a call has failed by then.
LEMMA ReleaseKeepInv ==
    ASSUME IndInv, KeepInv, Onwards, NEW r \in Requests,
           pc[r] = "undo",
           record' = [record EXCEPT ![Key(r)] = Absent],
           pc' = [pc EXCEPT ![r] = "done"]
    PROVE  KeepInv'
<1> USE DEF KeepInv, Onwards
<1>0. /\ \A q \in Requests : Key(q)' = Key(q) /\ pc'[q] = IF q = r THEN "done" ELSE pc[q]
      /\ Key(r) \in Keys /\ Key(r) # None /\ pc[r] \in Owning
      /\ \A k \in Keys \ {Key(r)} : record'[k] = record[k]
      /\ faults' # 0
  BY NoneAssumption DEF Key, IndInv, TypeOK, KeyedSteps, Owning, UndoAfterFault
<1>1. \A q \in Requests : Key(q) = Key(r) /\ pc[q] \in Owning => q = r
  BY <1>0 DEF IndInv, OneOwner
<1>2. WorkingInProgress'
  BY <1>0, <1>1 DEF WorkingInProgress, Owning, Working
<1>3. UndoAfterFault' /\ SavedKeepsKey' /\ NoDuplicateWorkUnlessFault' /\ InProgressIsOwned'
  BY <1>0 DEF UndoAfterFault, SavedKeepsKey, NoDuplicateWorkUnlessFault, InProgressIsOwned
<1> QED
  BY <1>2, <1>3

LEMMA ExecuteKeepInv ==
    ASSUME IndInv, KeepInv, NEW r \in Requests, Execute(r)
    PROVE  KeepInv'
<1>0. Onwards
  BY DEF Execute, Load, FetchReplay, Claim, Store, Save, Publish, Complete, Undo, NoFault,
         Onwards, IndInv, TypeOK
<1>1. CASE Load(r) \/ FetchReplay(r)
  <2>1. pc[r] \notin Owning /\ UNCHANGED <<record, saved>>
    BY <1>1 DEF Load, FetchReplay, Owning, Working
  <2>2. PICK label \in {"claim", "fetch", "done"} : pc' = [pc EXCEPT ![r] = label]
    BY <1>1 DEF Load, FetchReplay, Goto, Finish
  <2>3. label \notin Owning /\ label \notin Working /\ pc[r] \notin {"publish", "complete"}
    BY <2>1 DEF Owning, Working
  <2> QED
    BY <1>0, <2>1, <2>2, <2>3, MoveKeepInv
<1>2. CASE Claim(r)
  <2>1. CASE CreateRecord(r)
    BY <1>0, <1>2, <2>1, InsertKeepInv DEF Claim, Goto, CreateRecord
  <2>2. CASE ~CreateRecord(r)
    <3>1. UNCHANGED <<record, saved>> /\ pc' = [pc EXCEPT ![r] = "reload"] /\ pc[r] = "claim"
      BY <1>2, <2>2 DEF Claim, Goto
    <3> QED
      BY <1>0, <3>1, MoveKeepInv DEF Owning, Working
  <2> QED
    BY <2>1, <2>2
<1>3. CASE Store(r)
  BY <1>0, <1>3, MoveKeepInv DEF Store, Goto, Owning, Working
<1>4. CASE Save(r)
  BY <1>0, <1>4, SaveKeepInv DEF Save, Goto, InsertRow
<1>5. CASE Publish(r)
  <2>1. CASE Key(r) = None
    BY <1>0, <1>5, <2>1, NoneAssumption, MoveKeepInv DEF Publish, Goto, Finish, Owning, Working
  <2>2. CASE Key(r) # None
    BY <1>0, <1>5, <2>2, MoveKeepInv DEF Publish, Goto, Owning, Working
  <2> QED
    BY <2>1, <2>2
<1>6. CASE Complete(r)
  BY <1>0, <1>6, SettleKeepInv DEF Complete, Goto, Finish
<1>7. CASE Undo(r)
  BY <1>0, <1>7, ReleaseKeepInv DEF Undo, Goto, Finish
<1> QED
  BY <1>1, <1>2, <1>3, <1>4, <1>5, <1>6, <1>7 DEF Execute

\* An exception sends a keyed request inside the try block to the except block,
\* and ends any other.
LEMMA RaiseLabel ==
    ASSUME NEW r \in Requests, Raise(r)
    PROVE  \/ pc' = [pc EXCEPT ![r] = "undo"] /\ pc[r] \in Working /\ Key(r) # None
           \/ pc' = [pc EXCEPT ![r] = "done"] /\ ~(pc[r] \in Working /\ Key(r) # None)
BY DEF Raise, Goto, Finish

LEMMA FaultKeepInv ==
    ASSUME IndInv, KeepInv, NEW r \in Requests, CallFails(r) \/ CallFailsLate(r)
    PROVE  KeepInv'
<1>0. Onwards /\ faults' # 0 /\ Raise(r)
  BY BoundsAssumption DEF CallFails, CallFailsLate, Fault, Onwards, IndInv, TypeOK
<1>1. PICK label \in {"undo", "done"} :
        /\ pc' = [pc EXCEPT ![r] = label]
        /\ label = "undo" <=> pc[r] \in Working /\ Key(r) # None
  BY <1>0, RaiseLabel
<1>2. CASE UNCHANGED <<record, saved>>
  BY <1>0, <1>1, <1>2, MoveKeepInv DEF Owning, Working
<1>3. CASE CallFailsLate(r)
  <2>1. CASE pc[r] = "claim"
    BY <1>0, <1>1, <1>3, <2>1, InsertKeepInv DEF CallFailsLate, Working
  <2>2. CASE pc[r] = "save"
    BY <1>0, <1>1, <1>3, <2>2, SaveKeepInv DEF CallFailsLate, InsertRow
  <2>3. CASE pc[r] = "complete"
    BY <1>0, <1>1, <1>3, <2>3, SettleKeepInv DEF CallFailsLate
  <2>4. CASE pc[r] = "undo"
    BY <1>0, <1>1, <1>3, <2>4, ReleaseKeepInv DEF CallFailsLate, Working
  <2> QED
    BY <1>3, <2>1, <2>2, <2>3, <2>4 DEF CallFailsLate
<1> QED
  BY <1>2, <1>3 DEF CallFails

LEMMA NextKeepInv == IndInv /\ KeepInv /\ [Next]_vars => KeepInv'
<1> SUFFICES ASSUME IndInv, KeepInv, [Next]_vars PROVE KeepInv'
  OBVIOUS
<1>1. ASSUME NEW r \in Requests, Die(r) PROVE KeepInv'
  <2>1. Onwards /\ deaths' # 0
    BY <1>1, BoundsAssumption DEF Die, Onwards, IndInv, TypeOK
  <2>2. "dead" \notin Owning /\ "dead" \notin Working
    BY DEF Owning, Working
  <2> QED
    BY <1>1, <2>1, <2>2, MoveKeepInv DEF Die, Goto
<1>2. CASE Quiescent \/ UNCHANGED vars \/ \E r \in Requests : RemoveImage(r)
  BY <1>2 DEF Quiescent, vars, RemoveImage, KeepInv, WorkingInProgress, UndoAfterFault,
              SavedKeepsKey, NoDuplicateWorkUnlessFault, NoDuplicateWork, InProgressIsOwned, Key
<1> QED
  BY <1>1, <1>2, ExecuteKeepInv, FaultKeepInv DEF Next

LEMMA SpecKeepInv == Spec => []KeepInv
BY InitKeepInv, NextKeepInv, SpecIndInv, PTL DEF Spec

\* Without a failing call a key costs one image at most, however many requests
\* race, die at any await, or come after the image was swept.
THEOREM NoDuplicates == Spec => []NoDuplicateWorkUnlessFault
BY SpecKeepInv, PTL DEF KeepInv

\* Only failing calls and deaths leave a record in progress with nobody at work.
THEOREM NoStuckUpload == Spec => []InProgressIsOwned
BY SpecKeepInv, PTL DEF KeepInv

-----------------------------------------------------------------------------
(* The records implement KeyContract.                                      *)

Holders(k) == {r \in Requests : Key(r) = k /\ pc[r] \in Owning}

\* A step that gives key k the status s, the result v and the holders h, and no
\* other key anything else.
LEMMA BecomesIntro ==
    ASSUME NEW k \in Keys, NEW s, NEW v, NEW h,
           record'[k].status = s, record'[k].image = v, Holders(k)' = h,
           \A l \in Keys \ {k} : record'[l] = record[l] /\ Holders(l)' = Holders(l)
    PROVE  Contract!Becomes(k, s, v, h)
<1>1. [l \in Keys |-> record'[l].status] = [[l \in Keys |-> record[l].status] EXCEPT ![k] = s]
  OBVIOUS
<1>2. [l \in Keys |-> record'[l].image] = [[l \in Keys |-> record[l].image] EXCEPT ![k] = v]
  OBVIOUS
<1>3. [l \in Keys |-> Holders(l)'] = [[l \in Keys |-> Holders(l)] EXCEPT ![k] = h]
  OBVIOUS
<1> QED
  BY <1>1, <1>2, <1>3 DEF Contract!Becomes, Holders

\* A step that changes no record and no holder of a key.
LEMMA ContractStutters ==
    ASSUME UNCHANGED <<req, record>>,
           \A q \in Requests : Key(q) \in Keys => (pc'[q] \in Owning <=> pc[q] \in Owning)
    PROVE  UNCHANGED Contract!vars
<1>1. \A k \in Keys : Holders(k)' = Holders(k)
  BY DEF Holders, Key
<1>2. /\ [k \in Keys |-> Holders(k)]' = [k \in Keys |-> Holders(k)]
      /\ [k \in Keys |-> record[k].image]' = [k \in Keys |-> record[k].image]
      /\ [k \in Keys |-> record[k].status]' = [k \in Keys |-> record[k].status]
  BY <1>1
<1> QED
  BY <1>2 DEF Contract!vars, Holders

LEMMA OtherHolders ==
    ASSUME TypeOK, NEW r \in Requests, NEW k \in Keys, Key(r) = k,
           NEW label, pc' = [pc EXCEPT ![r] = label], req' = req
    PROVE  /\ \A l \in Keys \ {k} : Holders(l)' = Holders(l)
           /\ Holders(k)' = IF label \in Owning THEN Holders(k) \cup {r} ELSE Holders(k) \ {r}
BY DEF TypeOK, Holders, Key

LEMMA SoleHolder ==
    ASSUME IndInv, NEW r \in Requests, NEW k \in Keys, Key(r) = k, pc[r] \in Owning
    PROVE  Holders(k) = {r}
BY NoneAssumption DEF IndInv, OneOwner, Holders

\* A request that moves on keeps or lacks its key as before.
LEMMA ContractMove ==
    ASSUME IndInv, NEW r \in Requests, NEW label,
           pc' = [pc EXCEPT ![r] = label], UNCHANGED <<req, record>>,
           Key(r) \in Keys => (label \in Owning <=> pc[r] \in Owning)
    PROVE  UNCHANGED Contract!vars
<1>1. \A q \in Requests : Key(q) \in Keys => (pc'[q] \in Owning <=> pc[q] \in Owning)
  BY DEF IndInv, TypeOK
<1> QED
  BY <1>1, ContractStutters

\* A request that ends, or dies, without touching its record.
LEMMA ContractEnd ==
    ASSUME IndInv, NEW r \in Requests, NEW label, label \notin Owning,
           pc' = [pc EXCEPT ![r] = label], UNCHANGED <<req, record>>
    PROVE  Contract!Next \/ UNCHANGED Contract!vars
<1>0. TypeOK
  BY DEF IndInv
<1>1. CASE Key(r) \in Keys /\ pc[r] \in Owning
  <2>1. PICK k \in Keys : Key(r) = k
    BY <1>1
  <2>2. Holders(k) = {r}
    BY <1>1, <2>1, SoleHolder
  <2>3. Holders(k)' = Holders(k) \ {r} /\ \A l \in Keys \ {k} : Holders(l)' = Holders(l)
    BY <1>0, <2>1, OtherHolders
  <2>4. Holders(k)' = {}
    BY <2>2, <2>3
  <2>5. PICK s, v : s = record[k].status /\ v = record[k].image
    OBVIOUS
  <2>6. record'[k].status = s /\ record'[k].image = v
    BY <2>5
  <2>7. Contract!Becomes(k, s, v, {})
    BY <2>3, <2>4, <2>6, BecomesIntro
  <2>8. Contract!Leave(k, r)
    BY <2>2, <2>5, <2>7 DEF Contract!Leave, Contract!Becomes, Holders
  <2> QED
    BY <2>8 DEF Contract!Next
<1>2. CASE ~(Key(r) \in Keys /\ pc[r] \in Owning)
  BY <1>2, ContractMove
<1> QED
  BY <1>1, <1>2

LEMMA ContractClaim ==
    ASSUME IndInv, NEW r \in Requests, NEW label \in {"store", "done"},
           pc[r] = "claim", CreateRecord(r),
           pc' = [pc EXCEPT ![r] = label], req' = req
    PROVE  Contract!Next
<1>0. PICK k \in Keys : Key(r) = k
  BY DEF IndInv, KeyedSteps
<1>1. /\ record'[k].status = "in_progress" /\ record'[k].image = None
      /\ \A l \in Keys \ {k} : record'[l] = record[l]
      /\ record[k].status = "absent"
      /\ TypeOK
  BY <1>0 DEF CreateRecord, IndInv, TypeOK
<1>2. Holders(k) = {}
  BY <1>1, NoneAssumption DEF Holders, IndInv, OwnerHoldsRecord
<1>3. \A l \in Keys \ {k} : Holders(l)' = Holders(l)
  BY <1>0, <1>1, OtherHolders
<1>4. Holders(k)' \in {{r}, {}}
  BY <1>0, <1>1, <1>2, OtherHolders
<1>5. \E h \in {{r}, {}} : Contract!Becomes(k, "in_progress", None, h)
  BY <1>1, <1>3, <1>4, BecomesIntro
<1>6. Contract!Claim(k, r)
  BY <1>1, <1>2, <1>5 DEF Contract!Claim, Holders
<1> QED
  BY <1>6 DEF Contract!Next

LEMMA ContractRelease ==
    ASSUME IndInv, NEW r \in Requests,
           pc[r] = "undo", record' = [record EXCEPT ![Key(r)] = Absent],
           pc' = [pc EXCEPT ![r] = "done"], req' = req
    PROVE  Contract!Next
<1>0. PICK k \in Keys : Key(r) = k
  BY DEF IndInv, KeyedSteps
<1>1. /\ record'[k] = Absent
      /\ \A l \in Keys \ {k} : record'[l] = record[l]
      /\ TypeOK /\ pc[r] \in Owning /\ "done" \notin Owning
  BY <1>0 DEF IndInv, TypeOK, Owning, Working
<1>2. record'[k].status = "absent" /\ record'[k].image = None
  BY <1>1 DEF Absent
<1>3. Holders(k) = {r}
  BY <1>0, <1>1, SoleHolder
<1>4. Holders(k)' = Holders(k) \ {r} /\ \A l \in Keys \ {k} : Holders(l)' = Holders(l)
  BY <1>0, <1>1, OtherHolders
<1>5. Holders(k)' = {}
  BY <1>3, <1>4
<1>6. Contract!Becomes(k, "absent", None, {})
  BY <1>1, <1>2, <1>4, <1>5, BecomesIntro
<1>7. Contract!Release(k, r)
  BY <1>3, <1>6 DEF Contract!Release, Holders
<1> QED
  BY <1>7 DEF Contract!Next

LEMMA ContractSettle ==
    ASSUME IndInv, KeepInv, NEW r \in Requests, NEW label \in {"undo", "done"},
           pc[r] = "complete", CompleteRecord(r),
           pc' = [pc EXCEPT ![r] = label], req' = req
    PROVE  Contract!Next
<1>0. PICK k \in Keys : Key(r) = k
  BY DEF IndInv, KeyedSteps
<1>1. /\ record'[k].status = "completed" /\ record'[k].image = r
      /\ \A l \in Keys \ {k} : record'[l] = record[l]
      /\ TypeOK /\ pc[r] \in Owning
  BY <1>0, CompleteRecordFacts DEF IndInv, Owning, Working
<1>2. record[k].status = "in_progress"
  BY <1>0 DEF KeepInv, WorkingInProgress, Working
<1>3. Holders(k) = {r}
  BY <1>0, <1>1, SoleHolder
<1>4. \A l \in Keys \ {k} : Holders(l)' = Holders(l)
  BY <1>0, <1>1, OtherHolders
<1>5. Holders(k)' \in {{r}, {}}
  <2>1. Holders(k)' \in {Holders(k) \cup {r}, Holders(k) \ {r}}
    BY <1>0, <1>1, OtherHolders
  <2> QED
    BY <1>3, <2>1
<1>6. \E h \in {{r}, {}} : Contract!Becomes(k, "completed", r, h)
  BY <1>1, <1>4, <1>5, BecomesIntro
<1>7. Contract!Settle(k, r, r)
  BY <1>2, <1>3, <1>6 DEF Contract!Settle, Holders
<1> QED
  BY <1>7 DEF Contract!Next

LEMMA ExecuteContract ==
    ASSUME IndInv, KeepInv, NEW r \in Requests, Execute(r)
    PROVE  Contract!Next \/ UNCHANGED Contract!vars
<1>0. req' = req
  BY DEF Execute, Load, FetchReplay, Claim, Store, Save, Publish, Complete, Undo
<1>1. CASE Load(r) \/ FetchReplay(r)
  <2>1. PICK label \in {"claim", "fetch", "done"} : pc' = [pc EXCEPT ![r] = label]
    BY <1>1 DEF Load, FetchReplay, Goto, Finish
  <2>2. label \notin Owning /\ record' = record
    BY <1>1 DEF Owning, Working, Load, FetchReplay
  <2> QED
    BY <1>0, <2>1, <2>2, ContractEnd
<1>2. CASE Claim(r)
  <2>1. CASE CreateRecord(r)
    BY <1>0, <1>2, <2>1, ContractClaim DEF Claim, Goto, CreateRecord
  <2>2. CASE ~CreateRecord(r)
    <3>1. record' = record /\ pc' = [pc EXCEPT ![r] = "reload"] /\ "reload" \notin Owning
      BY <1>2, <2>2 DEF Claim, Goto, Owning, Working
    <3> QED
      BY <1>0, <3>1, ContractEnd
  <2> QED
    BY <2>1, <2>2
<1>3. CASE Store(r) \/ Save(r)
  <2>1. PICK label \in {"save", "publish"} : pc' = [pc EXCEPT ![r] = label]
    BY <1>3 DEF Store, Save, Goto
  <2>2. label \in Owning /\ pc[r] \in Owning /\ record' = record
    BY <1>3 DEF Store, Save, Owning, Working
  <2> QED
    BY <1>0, <2>1, <2>2, ContractMove
<1>4. CASE Publish(r)
  <2>1. "complete" \in Owning /\ "done" \notin Owning /\ pc[r] \in Owning /\ record' = record
    BY <1>4 DEF Publish, Owning, Working
  <2>2. pc' = [pc EXCEPT ![r] = "complete"] \/ pc' = [pc EXCEPT ![r] = "done"]
    BY <1>4 DEF Publish, Goto, Finish
  <2> QED
    BY <1>0, <2>1, <2>2, ContractMove, ContractEnd
<1>5. CASE Complete(r)
  BY <1>0, <1>5, ContractSettle DEF Complete, Goto, Finish
<1>6. CASE Undo(r)
  BY <1>0, <1>6, ContractRelease DEF Undo, Goto, Finish
<1> QED
  BY <1>1, <1>2, <1>3, <1>4, <1>5, <1>6 DEF Execute

LEMMA FaultContract ==
    ASSUME IndInv, KeepInv, NEW r \in Requests, CallFails(r) \/ CallFailsLate(r)
    PROVE  Contract!Next \/ UNCHANGED Contract!vars
<1>0. req' = req /\ Raise(r)
  BY DEF CallFails, CallFailsLate
<1>1. PICK label \in {"undo", "done"} :
        /\ pc' = [pc EXCEPT ![r] = label]
        /\ label = "undo" <=> pc[r] \in Working /\ Key(r) # None
  BY <1>0, RaiseLabel
<1>2. CASE record' = record
  <2>1. CASE label = "undo"
    <3>1. label \in Owning /\ pc[r] \in Owning
      BY <1>1, <2>1 DEF Owning
    <3> QED
      BY <1>0, <1>1, <1>2, <3>1, ContractMove
  <2>2. CASE label = "done"
    <3>1. label \notin Owning
      BY <2>2 DEF Owning, Working
    <3> QED
      BY <1>0, <1>1, <1>2, <3>1, ContractEnd
  <2> QED
    BY <2>1, <2>2
<1>3. CASE record' # record
  <2>0. CallFailsLate(r)
    BY <1>3 DEF CallFails
  <2>1. CASE pc[r] = "claim"
    BY <1>0, <1>1, <2>0, <2>1, ContractClaim DEF CallFailsLate, Working
  <2>2. CASE pc[r] = "complete"
    BY <1>0, <1>1, <2>0, <2>2, ContractSettle DEF CallFailsLate
  <2>3. CASE pc[r] = "undo"
    BY <1>0, <1>1, <2>0, <2>3, ContractRelease DEF CallFailsLate, Working
  <2> QED
    BY <1>3, <2>0, <2>1, <2>2, <2>3 DEF CallFailsLate
<1> QED
  BY <1>2, <1>3

LEMMA NextContract == IndInv /\ KeepInv /\ [Next]_vars => [Contract!Next]_(Contract!vars)
<1> SUFFICES ASSUME IndInv, KeepInv, [Next]_vars PROVE Contract!Next \/ UNCHANGED Contract!vars
  OBVIOUS
<1>1. ASSUME NEW r \in Requests, Die(r) PROVE Contract!Next \/ UNCHANGED Contract!vars
  <2>1. "dead" \notin Owning
    BY DEF Owning, Working
  <2> QED
    BY <1>1, <2>1, ContractEnd DEF Die, Goto
<1>2. CASE Quiescent \/ UNCHANGED vars \/ \E r \in Requests : RemoveImage(r)
  BY <1>2, ContractStutters DEF Quiescent, vars, RemoveImage
<1> QED
  BY <1>1, <1>2, ExecuteContract, FaultContract DEF Next

LEMMA InitContract == Init => Contract!Init
<1> SUFFICES ASSUME Init PROVE Contract!Init
  OBVIOUS
<1>1. \A k \in Keys : Holders(k) = {} /\ record[k] = Absent
  BY NoneAssumption DEF Init, Holders, Key, Owning, Working
<1>2. \A k \in Keys : record[k].status = "absent" /\ record[k].image = None
  BY <1>1 DEF Absent
<1> QED
  BY <1>1, <1>2 DEF Contract!Init, Holders

\* The records of scope "upload" implement KeyContract: only the request that
\* inserted a record completes or deletes it, and a record nobody works on any
\* more never changes, for any number of requests, failing calls and deaths.
THEOREM UploadsImplementContract == Spec => KeepsContract
BY InitContract, NextContract, SpecIndInv, SpecKeepInv, PTL DEF Spec, KeepsContract, Contract!Spec

=============================================================================
