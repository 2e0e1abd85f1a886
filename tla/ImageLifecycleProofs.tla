------------------------ MODULE ImageLifecycleProofs ------------------------
(***************************************************************************)
(* Proofs about ImageLifecycle: the original of a live image stays on disk *)
(* and that of a swept one does not; runs that race on a row leave it      *)
(* neither PROCESSING nor COMPLETED without its thumbnail; the thumbnail   *)
(* a row names is on disk; a download meets a whole file.                  *)
(*                                                                         *)
(* Nothing is assumed about the numbers of images, processes and runs.     *)
(***************************************************************************)
EXTENDS ImageLifecycle, TLAPS

\* The labels of a processing run that has loaded its entity.
Working == {"select", "flush", "invalidate", "retrieve", "thumb", "write", "cleanup"}

\* A run works on an entity of its own process and image, loaded by a run that is
\* past "fill"; the cache holds only such entities.
RunsInv ==
    /\ \A r \in Runs :
         /\ pc[r] \in Working => job[r].kind = "process"
         /\ pc[r] \in {"read", "torn"} => job[r].kind # "process"
         /\ pc[r] \in {"get", "fill"} => phase[r] = "start" /\ ref[r] = r
         /\ pc[r] \in {"retrieve", "thumb", "write"} => phase[r] = "start"
         /\ Proc(ref[r]) = Proc(r) /\ Image(ref[r]) = Image(r)
         /\ ref[r] # r => pc[ref[r]] \notin {"get", "fill"}
    /\ \A p \in Procs, i \in Images :
         cache[p][i] # None =>
            /\ Proc(cache[p][i]) = p
            /\ Image(cache[p][i]) = i
            /\ pc[cache[p][i]] \notin {"get", "fill"}

\* Rows, runs, cached entities and sweeps belong to uploads that have ended well;
\* only the sweep of an expired image deletes a row.
RowsInv ==
    /\ \A i \in Images :
         /\ upload[i] # "saved" => ~Present(i) /\ i \notin expired
         /\ upload[i] = "saved" /\ i \notin expired => Present(i)
    /\ \A r \in Runs : Active(r) \/ pc[r] = "torn" => upload[Image(r)] = "saved"
    /\ \A p \in Procs, i \in Images : cache[p][i] # None => upload[i] = "saved"
    /\ \A s \in sweep : s.image \in expired
    /\ \A r \in Runs : pc[r] = "flush" /\ Image(r) \notin expired => ~pending[r].insert

\* With files of its own, a stored image that has not expired has its original,
\* and a sweep that has come to the thumbnail has deleted the original.
OriginalsKept ==
    /\ \A i \in Images \ expired :
         upload[i] \in {"stored", "saved"} => Original(i) \in disk
    /\ \A s \in sweep : s.step = "thumb" => Original(s.image) \notin disk

OriginalsInv == Unshared => OriginalsKept

\* No call has failed and no process has died.
Calm == faults = 0 /\ crashes = 0

\* The run is past its first save, and so has dropped its entity from the cache.
Past(r) == pc[r] \in {"retrieve", "thumb", "write"} \/ phase[r] # "start"

Final == {"completed", "failed"}

\* The run will yet write column c of its image's row, whatever is written before:
\* it has not made the last SELECT of its last save, or this one found a difference.
Closes(r, c) ==
    /\ pc[r] \in Working
    /\ ~(phase[r] # "start" /\ pc[r] = "invalidate")
    /\ phase[r] # "start" /\ pc[r] = "flush" => c \in pending[r].columns

\* Without faults nobody marks an entity PROCESSING again once a run that uses it is
\* past its first save, so the last save of a run never writes PROCESSING.
StatusOf(r) ==
    Image(r) \notin expired =>
        /\ pc[r] # "cleanup"
        /\ Past(r) => cache[Proc(r)][Image(r)] # ref[r]
        /\ phase[r] # "start" => obj[ref[r]].status \in Final
        /\ phase[r] # "start" /\ pc[r] = "flush" => pending[r].entity.status \in Final

StatusClosed(i) ==
    i \notin expired /\ rows[i].status = "processing" =>
        \E r \in Runs : Image(r) = i /\ Closes(r, "status")

StatusKept ==
    /\ \A r \in Runs : StatusOf(r)
    /\ \A i \in Images : StatusClosed(i)

StatusInv == Calm => StatusKept

\* A run is about to write nothing over the thumbnail column it found set.
Relies(r) == pc[r] = "flush" /\ pending[r].entity.thumb /\ "thumb" \notin pending[r].columns

\* Where nothing can fail, an entity that a run marked COMPLETED names the thumbnail,
\* and a row whose thumbnail column was reset under a run that relied on it will
\* have the column set again by another one.
ThumbOf(r) ==
    Image(r) \notin expired =>
        /\ phase[r] # "fail"
        /\ phase[r] = "finish" => obj[ref[r]].thumb
        /\ phase[r] = "finish" /\ pc[r] = "flush" => pending[r].entity.thumb
        /\ pc[r] \in Working /\ obj[ref[r]].status = "completed" => obj[ref[r]].thumb
        /\ pc[r] = "flush" /\ pending[r].entity.status = "completed" =>
               pending[r].entity.thumb

ThumbClosed(i) ==
    /\ i \notin expired /\ ~rows[i].thumb
    /\ rows[i].status = "completed" \/ \E r \in Runs : Image(r) = i /\ Relies(r)
    => \E r \in Runs : Image(r) = i /\ Closes(r, "thumb")

ThumbKept ==
    /\ \A r \in Runs : ThumbOf(r)
    /\ \A i \in Images : ThumbClosed(i)

ThumbInv == Unshared /\ Calm => ThumbKept

\* The run has failed, or died while it wrote the thumbnail; nothing undoes this.
GivenUp(r) == pc[r] = "dead" \/ phase[r] = "fail"

\* The thumbnail of image i is on disk, unless a run on i writes it or has given up.
OnDisk(i) == Thumbnail(i) \in disk \/ \E r \in Runs : Spoils(r, i)

\* An entity or a row that tells of a thumbnail.
Names(entity) == entity.status = "completed" \/ entity.thumb

\* Whatever tells of a thumbnail does so after it was stored.
FilesOf(r) ==
    Image(r) \notin expired =>
        /\ Names(obj[r]) => OnDisk(Image(r))
        /\ pc[r] = "flush" /\ Names(pending[r].entity) => OnDisk(Image(r))
        /\ pc[r] = "read" /\ job[r].kind = "thumbnail" => OnDisk(Image(r))

FilesKept ==
    /\ \A r \in Runs : FilesOf(r)
    /\ \A i \in Images \ expired : Names(rows[i]) => OnDisk(i)

FilesInv == Unshared => FilesKept

-----------------------------------------------------------------------------
(* Types.                                                                  *)

USE DEF Image, Proc, Present, Original, Thumbnail

\* The value a flush writes is a row.
LEMMA WrittenType ==
    ASSUME TypeOK, NEW r \in Runs, Flushable(r)
    PROVE  /\ Written(r) \in Entities
           /\ Written(r).status = IF pending[r].insert \/ "status" \in pending[r].columns
                                  THEN pending[r].entity.status ELSE rows[Image(r)].status
           /\ Written(r).thumb = IF pending[r].insert \/ "thumb" \in pending[r].columns
                                 THEN pending[r].entity.thumb ELSE rows[Image(r)].thumb
<1>1. /\ pending[r].entity \in Entities /\ pending[r].insert \in BOOLEAN
      /\ pending[r].columns \subseteq {"status", "thumb"}
      /\ Image(r) \in Images
      /\ rows[Image(r)] \in Entities \cup {Absent}
  BY DEF TypeOK
<1>2. CASE pending[r].insert
  BY <1>1, <1>2 DEF Written, Entities
<1>3. CASE ~pending[r].insert
  <2>0. rows[Image(r)].status # "absent"
    BY <1>3, Zenon DEF Flushable
  <2>1. rows[Image(r)] \in Entities
    BY <1>1, <2>0 DEF Absent
  <2>2. Written(r) = [c \in {"status", "thumb"} |->
             IF c \in pending[r].columns THEN pending[r].entity[c] ELSE rows[Image(r)][c]]
    BY <1>3 DEF Written
  <2>3. Written(r) = [status |-> Written(r).status, thumb |-> Written(r).thumb]
    BY <2>2
  <2>4. /\ Written(r).status = IF "status" \in pending[r].columns
                                  THEN pending[r].entity.status ELSE rows[Image(r)].status
        /\ Written(r).thumb = IF "thumb" \in pending[r].columns
                                 THEN pending[r].entity.thumb ELSE rows[Image(r)].thumb
    BY <2>2
  <2> QED
    BY <1>1, <1>3, <2>1, <2>3, <2>4 DEF Entities
<1> QED
  BY <1>2, <1>3

\* Entities as the marks leave them.
LEMMA EntityFacts ==
    /\ Uploaded \in Entities
    /\ Uploaded.status = "pending" /\ ~Uploaded.thumb
    /\ [status |-> "completed", thumb |-> TRUE] \in Entities
    /\ \A e \in Entities, st \in Statuses :
         /\ [e EXCEPT !.status = st] \in Entities
         /\ [e EXCEPT !.status = st].status = st
         /\ [e EXCEPT !.status = st].thumb = e.thumb
    /\ \A e \in Entities : e.status \in Statuses /\ e.thumb \in BOOLEAN
    /\ Statuses = {"pending", "processing", "completed", "failed"}
  BY DEF Uploaded, Entities, Statuses

LEMMA RowFacts ==
    ASSUME NEW e \in Entities \cup {Absent}
    PROVE  e.thumb \in BOOLEAN /\ (e.status # "absent" => e \in Entities)
<1>1. CASE e = Absent
  BY <1>1 DEF Absent
<1>2. CASE e \in Entities
  BY <1>2, EntityFacts
<1> QED
  BY <1>1, <1>2

Sweeps == [proc : Procs, image : Images, thumb : BOOLEAN,
           step : {"cache", "original", "thumb"}]

LEMMA SweepFacts ==
    ASSUME NEW s \in Sweeps, NEW st \in {"cache", "original", "thumb"}
    PROVE  /\ [s EXCEPT !.step = st] \in Sweeps
           /\ [s EXCEPT !.step = st].proc = s.proc
           /\ [s EXCEPT !.step = st].image = s.image
           /\ [s EXCEPT !.step = st].step = st
  BY DEF Sweeps

Labels == [Runs -> Working \cup {"get", "fill", "read", "torn", "done", "dead"}]
Phases == [Runs -> {"start", "finish", "fail"}]

LEMMA GotoType ==
    ASSUME TypeOK, NEW r \in Runs, NEW l \in {"read", "done", "cleanup"}, Goto(r, l)
    PROVE  pc' \in Labels
  BY DEF TypeOK, Goto, Labels, Working

LEMMA MarkType ==
    ASSUME TypeOK, NEW r \in Runs, NEW o \in Runs, NEW e \in Entities,
           NEW next \in {"start", "finish", "fail"}, Mark(r, o, e, next)
    PROVE  pc' \in Labels /\ phase' \in Phases /\ obj' \in [Runs -> Entities]
  BY DEF TypeOK, Mark, Goto, Labels, Phases, Working

\* A run that holds its entity ends, reads a file or marks the entity PROCESSING.
LEMMA BeginStep ==
    ASSUME TypeOK, NEW r \in Runs, NEW o \in Runs, Begin(r, o, obj[o])
    PROVE  \/ /\ job[r].kind # "process"
              /\ UNCHANGED <<obj, phase>>
              /\ \/ Goto(r, "done")
                 \/ Goto(r, "read") /\ (job[r].kind = "thumbnail" => obj[o].thumb)
           \/ /\ job[r].kind = "process"
              /\ \E e \in Entities :
                    /\ e.status = "processing" /\ e.thumb = obj[o].thumb
                    /\ Mark(r, o, e, "start")
<1>1. obj[o] \in Entities
  BY DEF TypeOK
<1>2. CASE job[r].kind # "process"
  BY <1>2 DEF Begin
<1>3. CASE job[r].kind = "process"
  <2>1. Mark(r, o, [obj[o] EXCEPT !.status = "processing"], "start")
    BY <1>3 DEF Begin
  <2> QED
    BY <1>1, <1>3, <2>1, EntityFacts
<1> QED
  BY <1>2, <1>3

LEMMA BeginType ==
    ASSUME TypeOK, NEW r \in Runs, NEW o \in Runs, Begin(r, o, obj[o])
    PROVE  pc' \in Labels /\ phase' \in Phases /\ obj' \in [Runs -> Entities]
<1>1. phase \in Phases /\ obj \in [Runs -> Entities]
  BY DEF TypeOK, Phases
<1>2. CASE UNCHANGED <<obj, phase>> /\ (Goto(r, "done") \/ Goto(r, "read"))
  BY <1>1, <1>2, GotoType
<1>3. CASE \E e \in Entities : Mark(r, o, e, "start")
  BY <1>3, MarkType
<1> QED
  BY <1>2, <1>3, BeginStep

\* The three ways get_by_id goes.
Hits(r, hit) ==
    /\ cache[Proc(r)][Image(r)] = hit
    /\ ref' = [ref EXCEPT ![r] = hit]
    /\ Begin(r, hit, obj[hit])

Misses(r) ==
    /\ Present(Image(r))
    /\ rows[Image(r)] \in Entities
    /\ obj' = [obj EXCEPT ![r] = rows[Image(r)]]
    /\ Goto(r, "fill")
    /\ UNCHANGED <<ref, phase>>

LEMMA GetStep ==
    ASSUME TypeOK, NEW r \in Runs, Get(r)
    PROVE  /\ pc[r] = "get"
           /\ UNCHANGED <<payload, upload, rows, expired, disk, job, pending, cache, sweep, bounds>>
           /\ \/ \E hit \in Runs : Hits(r, hit)
              \/ ~Present(Image(r)) /\ Goto(r, "done") /\ UNCHANGED <<obj, ref, phase>>
              \/ Misses(r)
<1>1. Proc(r) \in Procs /\ Image(r) \in Images
  BY DEF TypeOK
<1>2. cache[Proc(r)][Image(r)] \in Runs \cup {None}
  BY <1>1 DEF TypeOK
<1>3. Present(Image(r)) => rows[Image(r)] \in Entities
  BY <1>1, RowFacts DEF TypeOK
<1> QED
  BY <1>2, <1>3, Zenon DEF Get, Hits, Misses

\* Where a load leads.
LEMMA GetMoves ==
    ASSUME NEW r \in Runs, Get(r)
    PROVE  \E l \in {"done", "read", "select", "fill"} : pc' = [pc EXCEPT ![r] = l]
<1>1. \A o, e : Begin(r, o, e) =>
         \E l \in {"done", "read", "select"} : pc' = [pc EXCEPT ![r] = l]
  BY DEF Begin, Mark, Goto
<1>2. \/ \E o, e : Begin(r, o, e)
      \/ Goto(r, "done")
      \/ Goto(r, "fill")
  BY Zenon DEF Get
<1>3. CASE \E o, e : Begin(r, o, e)
  BY <1>1, <1>3
<1> QED
  BY <1>2, <1>3 DEF Goto

\* A run marks its entity FAILED and will save it.
LEMMA FailStep ==
    ASSUME TypeOK, NEW r \in Runs,
           Mark(r, ref[r], [obj[ref[r]] EXCEPT !.status = "failed"], "fail")
    PROVE  \E e \in Entities :
              /\ e.status = "failed" /\ e.thumb = obj[ref[r]].thumb
              /\ Mark(r, ref[r], e, "fail")
<1>1. obj[ref[r]] \in Entities
  BY DEF TypeOK
<1> QED
  BY <1>1, EntityFacts

LEMMA RaiseStep ==
    ASSUME TypeOK, NEW r \in Runs, Raise(r)
    PROVE  \/ /\ phase[r] = "start"
              /\ \E e \in Entities :
                    /\ e.status = "failed" /\ e.thumb = obj[ref[r]].thumb
                    /\ Mark(r, ref[r], e, "fail")
           \/ phase[r] = "finish" /\ Goto(r, "cleanup") /\ UNCHANGED <<obj, phase>>
           \/ phase[r] = "fail" /\ Goto(r, "done") /\ UNCHANGED <<obj, phase>>
  BY FailStep DEF Raise

LEMMA RaiseType ==
    ASSUME TypeOK, NEW r \in Runs, Raise(r)
    PROVE  pc' \in Labels /\ phase' \in Phases /\ obj' \in [Runs -> Entities]
<1>1. ref[r] \in Runs /\ phase \in Phases /\ obj \in [Runs -> Entities]
  BY DEF TypeOK, Phases
<1> QED
  BY <1>1, RaiseStep, MarkType, GotoType

\* The sweep keeps its images while it drops the cache entries.
LEMMA SweepInvalidateStep ==
    ASSUME TypeOK, NEW p \in Procs, SweepInvalidate(p)
    PROVE  /\ sweep' \subseteq Sweeps
           /\ \A s \in sweep' : s \in sweep \/ s.step = "original"
           /\ \A s \in sweep' : \E t \in sweep : t.image = s.image
           /\ \A t \in sweep : \E s \in sweep' : s.image = t.image
<1>1. sweep \subseteq Sweeps
  BY DEF TypeOK, Sweeps
<1>2. PICK taken : taken = {s \in sweep : s.proc = p /\ s.step = "cache"}
  OBVIOUS
<1>3. sweep' = (sweep \ taken) \cup {[s EXCEPT !.step = "original"] : s \in taken}
  BY <1>2, Zenon DEF SweepInvalidate
<1>4. taken \subseteq sweep
  BY <1>2
<1>5. \A s \in taken : /\ [s EXCEPT !.step = "original"] \in Sweeps
                       /\ [s EXCEPT !.step = "original"].image = s.image
                       /\ [s EXCEPT !.step = "original"].step = "original"
  BY <1>1, <1>4, SweepFacts
<1>6. \A s \in sweep' : s \in sweep \ taken \/ \E t \in taken : s = [t EXCEPT !.step = "original"]
  BY <1>3, Zenon
<1>7. \A t \in taken : [t EXCEPT !.step = "original"] \in sweep'
  BY <1>3, Zenon
<1>8. sweep \ taken \subseteq sweep'
  BY <1>3, Zenon
<1>9. \A t \in sweep : \E s \in sweep' : s.image = t.image
  BY <1>5, <1>7, <1>8, Zenon
<1>10. \A s \in sweep' : s \in Sweeps /\ (s \in sweep \/ s.step = "original")
                         /\ \E t \in sweep : t.image = s.image
  <2> TAKE s \in sweep'
  <2>1. CASE s \in sweep \ taken
    BY <1>1, <2>1, Zenon
  <2>2. CASE \E t \in taken : s = [t EXCEPT !.step = "original"]
    BY <1>4, <1>5, <2>2, Zenon
  <2> QED
    BY <1>6, <2>1, <2>2, Zenon
<1> QED
  BY <1>9, <1>10, Zenon

\* Every variable keeps the range the code gives it.
THEOREM LifecycleTypes == Spec => []TypeOK
<1>1. Init => TypeOK
  BY DEF Init, TypeOK, Uploaded, Entities, Statuses, NoStatement
<1>2. TypeOK /\ [Next]_vars => TypeOK'
  <2> SUFFICES ASSUME TypeOK, [Next]_vars PROVE TypeOK'
    OBVIOUS
  <2> USE DEF Working
  <2>1. ASSUME NEW i \in Images, UploadOpen(i) PROVE TypeOK'
    BY <2>1 DEF UploadOpen, TypeOK, entities, bounds, Goto
  <2>2. ASSUME NEW i \in Images, UploadStore(i) PROVE TypeOK'
    BY <2>2 DEF UploadStore, TypeOK, Paths, entities, bounds, Goto
  <2>3. ASSUME NEW i \in Images, UploadSave(i) PROVE TypeOK'
    BY <2>3, EntityFacts DEF UploadSave, TypeOK, entities, bounds, Goto
  <2>4. ASSUME NEW i \in Images, UploadFails(i) PROVE TypeOK'
    BY <2>4 DEF UploadFails, Fault, TypeOK, entities, bounds, Goto
  <2>5. ASSUME NEW i \in Images, Expire(i) PROVE TypeOK'
    BY <2>5, InputAssumption DEF Expire, TypeOK, entities, bounds, Goto
  <2>6. ASSUME NEW r \in Runs, Get(r) PROVE TypeOK'
    <3> USE <2>6, GetStep
    <3>1. CASE \E hit \in Runs : Hits(r, hit)
      <4> PICK hit \in Runs : Hits(r, hit)
        BY <3>1
      <4>1. pc' \in Labels /\ phase' \in Phases /\ obj' \in [Runs -> Entities]
        BY BeginType DEF Hits
      <4> QED
        BY <4>1, ZenonT(60) DEF Hits, Labels, Phases, TypeOK, bounds
    <3>2. CASE ~Present(Image(r)) /\ Goto(r, "done") /\ UNCHANGED <<obj, ref, phase>>
      BY <3>2, GotoType DEF Labels, TypeOK, bounds
    <3>3. CASE Misses(r)
      BY <3>3 DEF Misses, TypeOK, Goto, bounds
    <3> QED
      BY <3>1, <3>2, <3>3
  <2>7. ASSUME NEW r \in Runs, Fill(r) PROVE TypeOK'
    <3>1. pc' \in Labels /\ phase' \in Phases /\ obj' \in [Runs -> Entities]
      BY <2>7, BeginType DEF Fill
    <3> QED
      BY <2>7, <3>1 DEF Fill, Labels, Phases, TypeOK, bounds
  <2>8. ASSUME NEW r \in Runs, SaveSelect(r) PROVE TypeOK'
    BY <2>8 DEF SaveSelect, Changed, TypeOK, entities, bounds, Goto
  <2>9. ASSUME NEW r \in Runs, SaveFlush(r) PROVE TypeOK'
    BY <2>9, WrittenType DEF SaveFlush, TypeOK, entities, bounds, Goto
  <2>10. ASSUME NEW r \in Runs, Invalidate(r) PROVE TypeOK'
    BY <2>10 DEF Invalidate, TypeOK, entities, bounds, Goto
  <2>11. ASSUME NEW r \in Runs, Read(r) PROVE TypeOK'
    BY <2>11 DEF Read, TypeOK, entities, bounds, Goto
  <2>12. ASSUME NEW r \in Runs, Retrieve(r) PROVE TypeOK'
    BY <2>12 DEF Retrieve, TypeOK, entities, bounds, Goto
  <2>13. ASSUME NEW r \in Runs, OpenThumb(r) PROVE TypeOK'
    BY <2>13 DEF OpenThumb, TypeOK, entities, bounds, Goto
  <2>14. ASSUME NEW r \in Runs, StoreThumb(r) PROVE TypeOK'
    <3>1. pc' \in Labels /\ phase' \in Phases /\ obj' \in [Runs -> Entities]
      BY <2>14, EntityFacts, MarkType DEF StoreThumb, TypeOK, Phases
    <3> QED
      BY <2>14, <3>1 DEF StoreThumb, Labels, Phases, TypeOK, Paths, bounds
  <2>15. ASSUME NEW r \in Runs, Cleanup(r) PROVE TypeOK'
    <3>1. pc' \in Labels /\ phase' \in Phases /\ obj' \in [Runs -> Entities]
      BY <2>15, FailStep, MarkType DEF Cleanup, TypeOK, Phases
    <3> QED
      BY <2>15, <3>1 DEF Cleanup, Labels, Phases, TypeOK, bounds
  <2>16. ASSUME NEW r \in Runs, StepRaises(r) PROVE TypeOK'
    <3>1. pc' \in Labels /\ phase' \in Phases /\ obj' \in [Runs -> Entities]
      BY <2>16, RaiseType DEF StepRaises
    <3> QED
      BY <2>16, <3>1 DEF StepRaises, Labels, Phases, TypeOK, bounds
  <2>17. ASSUME NEW r \in Runs, CallFails(r) PROVE TypeOK'
    <3>1. CASE Goto(r, "done") /\ UNCHANGED <<obj, phase>>
      BY <2>17, <3>1, GotoType DEF CallFails, Fault, Labels, TypeOK
    <3>2. CASE Raise(r)
      <4>1. pc' \in Labels /\ phase' \in Phases /\ obj' \in [Runs -> Entities]
        BY <3>2, RaiseType
      <4> QED
        BY <2>17, <4>1 DEF CallFails, Fault, Labels, Phases, TypeOK
    <3>3. CASE Mark(r, ref[r], [obj[ref[r]] EXCEPT !.status = "failed"], "fail")
      <4>1. pc' \in Labels /\ phase' \in Phases /\ obj' \in [Runs -> Entities]
        BY <3>3, FailStep, MarkType DEF TypeOK, Phases
      <4> QED
        BY <2>17, <4>1 DEF CallFails, Fault, Labels, Phases, TypeOK
    <3> QED
      BY <2>17, <3>1, <3>2, <3>3 DEF CallFails
  <2>18. ASSUME NEW r \in Runs, FlushFailsLate(r) PROVE TypeOK'
    <3>1. pc' \in Labels /\ phase' \in Phases /\ obj' \in [Runs -> Entities]
      BY <2>18, RaiseType DEF FlushFailsLate
    <3> QED
      BY <2>18, <3>1, WrittenType DEF FlushFailsLate, Fault, Labels, Phases, TypeOK
  <2>19. ASSUME NEW p \in Procs, Crash(p) PROVE TypeOK'
    BY <2>19 DEF Crash, TypeOK, entities, bounds, Goto
  <2>20. ASSUME NEW p \in Procs, NEW i \in Images, CacheExpire(p, i) PROVE TypeOK'
    BY <2>20 DEF CacheExpire, TypeOK, entities, bounds, Goto
  <2>21. ASSUME NEW p \in Procs, NEW batch \in SUBSET Expirable, SweepRows(p, batch) PROVE TypeOK'
    <3>1. \A i \in batch : i \in Images /\ rows[i].thumb \in BOOLEAN
      BY InputAssumption, RowFacts DEF TypeOK, Expirable
    <3>2. sweep' \subseteq Sweeps
      BY <2>21, <3>1 DEF SweepRows, TypeOK, Sweeps
    <3> QED
      BY <2>21, <3>2 DEF SweepRows, DeleteRows, Sweeps, TypeOK, entities, bounds, Goto
  <2>22. ASSUME NEW p \in Procs, SweepInvalidate(p) PROVE TypeOK'
    <3>1. sweep' \subseteq Sweeps
      BY <2>22, SweepInvalidateStep
    <3>2. cache' \in [Procs -> [Images -> Runs \cup {None}]]
      BY <2>22 DEF SweepInvalidate, TypeOK
    <3> QED
      BY <2>22, <3>1, <3>2 DEF SweepInvalidate, Sweeps, TypeOK, entities, bounds, Goto
  <2>23. ASSUME NEW batch \in SUBSET Expirable, SweepRowsFailsLate(batch) PROVE TypeOK'
    BY <2>23
       DEF SweepRowsFailsLate, DeleteRows, Fault, Expirable, TypeOK, entities, bounds, Goto
  <2>24. ASSUME NEW s \in sweep, SweepOriginal(s) PROVE TypeOK'
    <3>1. sweep' \subseteq Sweeps
      BY <2>24, SweepFacts DEF SweepOriginal, TypeOK, Sweeps
    <3> QED
      BY <2>24, <3>1 DEF SweepOriginal, Sweeps, TypeOK, entities, bounds, Goto
  <2>25. ASSUME NEW s \in sweep, SweepThumb(s) PROVE TypeOK'
    BY <2>25 DEF SweepThumb, TypeOK, entities, bounds, Goto
  <2>26. ASSUME NEW s \in sweep, SweepFails(s) PROVE TypeOK'
    BY <2>26 DEF SweepFails, Fault, TypeOK, entities, bounds, Goto
  <2>27. CASE UNCHANGED vars
    BY <2>27 DEF vars, TypeOK
  <2> QED
    BY <2>1, <2>2, <2>3, <2>4, <2>5, <2>6, <2>7, <2>8, <2>9, <2>10, <2>11, <2>12, <2>13, <2>14,
       <2>15, <2>16, <2>17, <2>18, <2>19, <2>20, <2>21, <2>22, <2>23, <2>24, <2>25, <2>26, <2>27
       DEF Next, Execute
<1> QED
  BY <1>1, <1>2, PTL DEF Spec

-----------------------------------------------------------------------------
(* Runs, their entities and the cache.                                     *)

\* The except block moves the run on, and only a failing run changes its phase.
LEMMA RaiseMove ==
    ASSUME TypeOK, NEW r \in Runs, Raise(r)
    PROVE  \/ /\ phase[r] = "start"
              /\ pc' = [pc EXCEPT ![r] = "select"]
              /\ phase' = [phase EXCEPT ![r] = "fail"]
           \/ phase[r] = "finish" /\ pc' = [pc EXCEPT ![r] = "cleanup"] /\ phase' = phase
           \/ phase[r] = "fail" /\ pc' = [pc EXCEPT ![r] = "done"] /\ phase' = phase
  BY DEF Raise, Mark, Goto


LEMMA RunsStep == TypeOK /\ RunsInv /\ [Next]_vars => RunsInv'
<1> SUFFICES ASSUME TypeOK, RunsInv, [Next]_vars PROVE RunsInv'
  OBVIOUS
<1> USE DEF Working, TypeOK
<1>1. ASSUME NEW i \in Images, UploadOpen(i) PROVE RunsInv'
  BY <1>1 DEF UploadOpen, RunsInv, entities, bounds, Goto
<1>2. ASSUME NEW i \in Images, UploadStore(i) PROVE RunsInv'
  BY <1>2 DEF UploadStore, RunsInv, entities, bounds, Goto
<1>3. ASSUME NEW i \in Images, UploadSave(i) PROVE RunsInv'
  BY <1>3 DEF UploadSave, RunsInv, entities, bounds, Goto
<1>4. ASSUME NEW i \in Images, UploadFails(i) PROVE RunsInv'
  BY <1>4 DEF UploadFails, RunsInv, entities, bounds, Goto
<1>5. ASSUME NEW i \in Images, Expire(i) PROVE RunsInv'
  BY <1>5 DEF Expire, RunsInv, entities, bounds, Goto
<1>6. ASSUME NEW r \in Runs, Get(r) PROVE RunsInv'
  <2> USE <1>6, GetStep
  <2>1. CASE \E hit \in Runs : Hits(r, hit)
    <3> PICK hit \in Runs : Hits(r, hit)
      BY <2>1
    <3>0. hit # None /\ Proc(r) \in Procs /\ Image(r) \in Images
      BY NoneAssumption DEF TypeOK
    <3>1. Proc(hit) = Proc(r) /\ Image(hit) = Image(r) /\ pc[hit] \notin {"get", "fill"}
      BY <3>0 DEF Hits, RunsInv
    <3>2. ref' = [ref EXCEPT ![r] = hit] /\ UNCHANGED <<job, cache>>
      BY DEF Hits
    <3>3. CASE job[r].kind # "process" /\ UNCHANGED <<obj, phase>> /\ (Goto(r, "done") \/ Goto(r, "read"))
      BY <3>1, <3>2, <3>3 DEF RunsInv, Goto
    <3>4. CASE job[r].kind = "process" /\ \E e \in Entities : Mark(r, hit, e, "start")
      BY <3>1, <3>2, <3>4 DEF RunsInv, Goto, Mark
    <3> QED
      BY <3>3, <3>4, BeginStep DEF Hits
  <2>2. CASE ~Present(Image(r)) /\ Goto(r, "done") /\ UNCHANGED <<obj, ref, phase>>
    <3>1. /\ pc[r] = "get" /\ pc' = [pc EXCEPT ![r] = "done"]
          /\ UNCHANGED <<ref, phase, job, cache>>
      BY <2>2 DEF Goto
    <3> QED
      BY <3>1 DEF RunsInv
  <2>3. CASE Misses(r)
    <3>1. /\ pc[r] = "get" /\ pc' = [pc EXCEPT ![r] = "fill"]
          /\ UNCHANGED <<ref, phase, job, cache>>
      BY <2>3 DEF Misses, Goto
    <3> QED
      BY <3>1 DEF RunsInv
  <2> QED
    BY <2>1, <2>2, <2>3
<1>7. ASSUME NEW r \in Runs, Fill(r) PROVE RunsInv'
  <2>1. pc[r] = "fill" /\ UNCHANGED <<job, ref>> /\ cache' = [cache EXCEPT ![Proc(r)][Image(r)] = r]
    BY <1>7 DEF Fill
  <2>2. CASE job[r].kind # "process" /\ UNCHANGED <<obj, phase>> /\ (Goto(r, "done") \/ Goto(r, "read"))
    BY <2>1, <2>2 DEF RunsInv, Goto
  <2>3. CASE job[r].kind = "process" /\ \E e \in Entities : Mark(r, r, e, "start")
    BY <2>1, <2>3 DEF RunsInv, Goto, Mark
  <2> QED
    BY <1>7, <2>2, <2>3, BeginStep DEF Fill
<1>8. ASSUME NEW r \in Runs, SaveSelect(r) PROVE RunsInv'
  BY <1>8 DEF SaveSelect, RunsInv, entities, bounds, Goto
<1>9. ASSUME NEW r \in Runs, SaveFlush(r) PROVE RunsInv'
  BY <1>9 DEF SaveFlush, RunsInv, entities, bounds, Goto
<1>10. ASSUME NEW r \in Runs, Invalidate(r) PROVE RunsInv'
  BY <1>10 DEF Invalidate, RunsInv, entities, bounds, Goto
<1>11. ASSUME NEW r \in Runs, Read(r) PROVE RunsInv'
  BY <1>11 DEF Read, RunsInv, entities, bounds, Goto
<1>12. ASSUME NEW r \in Runs, Retrieve(r) PROVE RunsInv'
  BY <1>12 DEF Retrieve, RunsInv, entities, bounds, Goto
<1>13. ASSUME NEW r \in Runs, OpenThumb(r) PROVE RunsInv'
  BY <1>13 DEF OpenThumb, RunsInv, entities, bounds, Goto
<1>14. ASSUME NEW r \in Runs, StoreThumb(r) PROVE RunsInv'
  BY <1>14 DEF StoreThumb, Mark, RunsInv, entities, bounds, Goto
<1>15. ASSUME NEW r \in Runs, Cleanup(r) PROVE RunsInv'
  BY <1>15 DEF Cleanup, Mark, RunsInv, entities, bounds, Goto
<1>16. ASSUME NEW r \in Runs, StepRaises(r) PROVE RunsInv'
  <2>1. pc[r] \in Working /\ Raise(r) /\ UNCHANGED <<job, ref, cache>>
    BY <1>16 DEF StepRaises
  <2>2. CASE phase[r] = "start" /\ pc' = [pc EXCEPT ![r] = "select"]
              /\ phase' = [phase EXCEPT ![r] = "fail"]
    BY <2>1, <2>2 DEF RunsInv
  <2>3. CASE \E l \in {"cleanup", "done"} : pc' = [pc EXCEPT ![r] = l] /\ phase' = phase
    BY <2>1, <2>3 DEF RunsInv
  <2> QED
    BY <2>1, <2>2, <2>3, RaiseMove
<1>17. ASSUME NEW r \in Runs, CallFails(r) PROVE RunsInv'
  <2> USE <1>17 DEF CallFails
  <2>1. CASE Goto(r, "done") /\ UNCHANGED <<obj, phase>>
    BY <2>1 DEF RunsInv, Goto
  <2>2. CASE pc[r] \in {"select", "flush", "retrieve", "thumb", "write"} /\ Raise(r)
    BY <2>2, RaiseMove, SMTT(40) DEF RunsInv
  <2>3. CASE pc[r] = "cleanup" /\ Mark(r, ref[r], [obj[ref[r]] EXCEPT !.status = "failed"], "fail")
    BY <2>3 DEF RunsInv, Mark, Goto
  <2> QED
    BY <2>1, <2>2, <2>3
<1>18. ASSUME NEW r \in Runs, FlushFailsLate(r) PROVE RunsInv'
  <2>1. pc[r] = "flush" /\ Raise(r) /\ UNCHANGED <<job, ref, cache>>
    BY <1>18 DEF FlushFailsLate
  <2>2. CASE phase[r] = "start" /\ pc' = [pc EXCEPT ![r] = "select"]
              /\ phase' = [phase EXCEPT ![r] = "fail"]
    BY <2>1, <2>2 DEF RunsInv
  <2>3. CASE \E l \in {"cleanup", "done"} : pc' = [pc EXCEPT ![r] = l] /\ phase' = phase
    BY <2>1, <2>3 DEF RunsInv
  <2> QED
    BY <2>1, <2>2, <2>3, RaiseMove
<1>19. ASSUME NEW p \in Procs, Crash(p) PROVE RunsInv'
  BY <1>19 DEF Crash, RunsInv, entities, bounds, Goto
<1>20. ASSUME NEW p \in Procs, NEW i \in Images, CacheExpire(p, i) PROVE RunsInv'
  BY <1>20 DEF CacheExpire, RunsInv, entities, bounds, Goto
<1>21. ASSUME NEW p \in Procs, NEW batch \in SUBSET Expirable, SweepRows(p, batch) PROVE RunsInv'
  BY <1>21 DEF SweepRows, RunsInv, entities, bounds, Goto
<1>22. ASSUME NEW p \in Procs, SweepInvalidate(p) PROVE RunsInv'
  BY <1>22 DEF SweepInvalidate, RunsInv, entities, bounds, Goto
<1>23. ASSUME NEW batch \in SUBSET Expirable, SweepRowsFailsLate(batch) PROVE RunsInv'
  BY <1>23 DEF SweepRowsFailsLate, RunsInv, entities, bounds, Goto
<1>24. ASSUME NEW s \in sweep, SweepOriginal(s) PROVE RunsInv'
  BY <1>24 DEF SweepOriginal, RunsInv, entities, bounds, Goto
<1>25. ASSUME NEW s \in sweep, SweepThumb(s) PROVE RunsInv'
  BY <1>25 DEF SweepThumb, RunsInv, entities, bounds, Goto
<1>26. ASSUME NEW s \in sweep, SweepFails(s) PROVE RunsInv'
  BY <1>26 DEF SweepFails, RunsInv, entities, bounds, Goto
<1>27. CASE UNCHANGED vars
  BY <1>27 DEF vars, RunsInv
<1> QED
  BY <1>1, <1>2, <1>3, <1>4, <1>5, <1>6, <1>7, <1>8, <1>9, <1>10, <1>11, <1>12, <1>13, <1>14,
     <1>15, <1>16, <1>17, <1>18, <1>19, <1>20, <1>21, <1>22, <1>23, <1>24, <1>25, <1>26, <1>27
     DEF Next, Execute

-----------------------------------------------------------------------------
(* Rows, uploads and originals.                                            *)

LEMMA AbsentRow == Absent.status = "absent" /\ Absent.thumb = FALSE
  BY DEF Absent

\* A run goes on that is at work on a saved image, and touches no row.
LEMMA Moves ==
    ASSUME TypeOK, RowsInv, NEW r \in Runs,
           NEW l \in {"done", "read", "select", "fill", "cleanup"},
           upload[Image(r)] = "saved", pc' = [pc EXCEPT ![r] = l],
           UNCHANGED <<upload, rows, expired, job, pending, cache, sweep>>
    PROVE  RowsInv'
  BY DEF TypeOK, RowsInv, Active

LEMMA RowsStep == TypeOK /\ RowsInv /\ [Next]_vars => RowsInv'
<1> SUFFICES ASSUME TypeOK, RowsInv, [Next]_vars PROVE RowsInv'
  OBVIOUS
<1> USE DEF Working, TypeOK
<1>1. ASSUME NEW i \in Images, UploadOpen(i) PROVE RowsInv'
  BY <1>1 DEF UploadOpen, RowsInv, entities, bounds, Goto, Active
<1>2. ASSUME NEW i \in Images, UploadStore(i) PROVE RowsInv'
  BY <1>2 DEF UploadStore, RowsInv, entities, bounds, Goto, Active
<1>3. ASSUME NEW i \in Images, UploadSave(i) PROVE RowsInv'
  <2>1. /\ upload[i] = "stored" /\ upload' = [upload EXCEPT ![i] = "saved"]
        /\ rows' = [rows EXCEPT ![i] = Uploaded]
        /\ UNCHANGED <<expired, job, pc, pending, cache, sweep>>
    BY <1>3 DEF UploadSave, entities
  <2>2. Uploaded.status # "absent"
    BY EntityFacts
  <2> QED
    BY <2>1, <2>2 DEF RowsInv, Active
<1>4. ASSUME NEW i \in Images, UploadFails(i) PROVE RowsInv'
  BY <1>4 DEF UploadFails, RowsInv, entities, bounds, Goto, Active
<1>5. ASSUME NEW i \in Images, Expire(i) PROVE RowsInv'
  BY <1>5 DEF Expire, RowsInv, entities, bounds, Goto, Active
<1>6. ASSUME NEW r \in Runs, Get(r) PROVE RowsInv'
  <2> USE <1>6, GetStep
  <2>0. Proc(r) \in Procs /\ Image(r) \in Images
    BY DEF TypeOK
  <2>1. CASE \E hit \in Runs : Hits(r, hit)
    <3> PICK hit \in Runs : Hits(r, hit)
      BY <2>1
    <3>1. hit # None
      BY NoneAssumption
    <3>2. upload[Image(r)] = "saved"
      BY <2>0, <3>1 DEF Hits, RowsInv
    <3>3. \E l \in {"done", "read", "select"} : pc' = [pc EXCEPT ![r] = l]
      BY BeginStep DEF Hits, Goto, Mark
    <3>4. UNCHANGED <<upload, rows, expired, job, pending, cache, sweep>>
      OBVIOUS
    <3> QED
      BY <3>2, <3>3, <3>4, Moves
  <2>2. CASE ~Present(Image(r)) /\ Goto(r, "done") /\ UNCHANGED <<obj, ref, phase>>
    BY <2>2 DEF RowsInv, entities, bounds, Goto, Active
  <2>3. CASE Misses(r)
    <3>1. upload[Image(r)] = "saved"
      BY <2>0, <2>3 DEF Misses, RowsInv
    <3>2. pc' = [pc EXCEPT ![r] = "fill"]
      BY <2>3 DEF Misses, Goto
    <3>3. UNCHANGED <<upload, rows, expired, job, pending, cache, sweep>>
      OBVIOUS
    <3> QED
      BY <3>1, <3>2, <3>3, Moves
  <2> QED
    BY <2>1, <2>2, <2>3
<1>7. ASSUME NEW r \in Runs, Fill(r) PROVE RowsInv'
  <2>1. pc[r] = "fill" /\ UNCHANGED <<upload, rows, expired, job, pending, sweep>>
        /\ cache' = [cache EXCEPT ![Proc(r)][Image(r)] = r]
    BY <1>7 DEF Fill
  <2>2. \E l \in {"done", "read", "select"} : pc' = [pc EXCEPT ![r] = l]
    BY <1>7, BeginStep DEF Fill, Goto, Mark
  <2>3. upload[Image(r)] = "saved"
    BY <2>1 DEF RowsInv, Active
  <2> QED
    BY <2>1, <2>2, <2>3 DEF RowsInv, Active
<1>8. ASSUME NEW r \in Runs, SaveSelect(r) PROVE RowsInv'
  <2>1. upload[Image(r)] = "saved" /\ Image(r) \in Images
    BY <1>8 DEF SaveSelect, RowsInv, Active
  <2>2. Image(r) \notin expired => Present(Image(r))
    BY <2>1 DEF RowsInv
  <2>3. /\ Present(Image(r)) => ~pending'[r].insert
        /\ \A q \in Runs \ {r} : pending'[q] = pending[q]
    BY <1>8 DEF SaveSelect
  <2>4. UNCHANGED <<upload, rows, expired, job, cache, sweep>> /\ pc' = [pc EXCEPT ![r] = "flush"]
    BY <1>8 DEF SaveSelect, Goto
  <2> QED
    BY <2>1, <2>2, <2>3, <2>4 DEF RowsInv, Active
<1>9. ASSUME NEW r \in Runs, SaveFlush(r) PROVE RowsInv'
  <2>1. Written(r).status # "absent"
    BY <1>9, WrittenType, EntityFacts DEF SaveFlush
  <2>2. upload[Image(r)] = "saved" /\ Image(r) \in Images
    BY <1>9 DEF SaveFlush, RowsInv, Active
  <2> QED
    BY <1>9, <2>1, <2>2 DEF SaveFlush, RowsInv, entities, bounds, Goto, Active
<1>10. ASSUME NEW r \in Runs, Invalidate(r) PROVE RowsInv'
  BY <1>10 DEF Invalidate, RowsInv, entities, bounds, Goto, Active
<1>11. ASSUME NEW r \in Runs, Read(r) PROVE RowsInv'
  BY <1>11 DEF Read, RowsInv, entities, bounds, Goto, Active
<1>12. ASSUME NEW r \in Runs, Retrieve(r) PROVE RowsInv'
  BY <1>12 DEF Retrieve, RowsInv, entities, bounds, Goto, Active
<1>13. ASSUME NEW r \in Runs, OpenThumb(r) PROVE RowsInv'
  BY <1>13 DEF OpenThumb, RowsInv, entities, bounds, Goto, Active
<1>14. ASSUME NEW r \in Runs, StoreThumb(r) PROVE RowsInv'
  BY <1>14 DEF StoreThumb, Mark, RowsInv, entities, bounds, Goto, Active
<1>15. ASSUME NEW r \in Runs, Cleanup(r) PROVE RowsInv'
  BY <1>15 DEF Cleanup, Mark, RowsInv, entities, bounds, Goto, Active
<1>16. ASSUME NEW r \in Runs, StepRaises(r) PROVE RowsInv'
  <2>1. UNCHANGED <<upload, rows, expired, job, pending, cache, sweep>> /\ pc[r] \in Working
    BY <1>16 DEF StepRaises
  <2>2. \E l \in {"done", "cleanup", "select"} : pc' = [pc EXCEPT ![r] = l]
    BY <1>16, RaiseMove DEF StepRaises
  <2> QED
    BY <2>1, <2>2, Moves DEF RowsInv, Active
<1>17. ASSUME NEW r \in Runs, CallFails(r) PROVE RowsInv'
  <2>1. UNCHANGED <<upload, rows, expired, job, pending, cache, sweep>>
    BY <1>17 DEF CallFails
  <2>2. CASE Goto(r, "done")
    BY <2>1, <2>2 DEF RowsInv, Active, Goto
  <2>3. CASE pc[r] \in Working /\ \E l \in {"done", "cleanup", "select"} : pc' = [pc EXCEPT ![r] = l]
    BY <2>1, <2>3, Moves DEF RowsInv, Active
  <2> QED
    BY <1>17, <2>2, <2>3, RaiseMove DEF CallFails, Mark, Goto
<1>18. ASSUME NEW r \in Runs, FlushFailsLate(r) PROVE RowsInv'
  <2>1. Written(r).status # "absent"
    BY <1>18, WrittenType, EntityFacts DEF FlushFailsLate
  <2>2. upload[Image(r)] = "saved" /\ Image(r) \in Images
    BY <1>18 DEF FlushFailsLate, RowsInv, Active
  <2>3. \E l \in {"done", "cleanup", "select"} : pc' = [pc EXCEPT ![r] = l]
    BY <1>18, RaiseMove DEF FlushFailsLate
  <2>4. UNCHANGED <<upload, expired, job, pending, cache, sweep>>
        /\ rows' = [rows EXCEPT ![Image(r)] = Written(r)]
    BY <1>18 DEF FlushFailsLate
  <2> QED
    BY <2>1, <2>2, <2>3, <2>4 DEF RowsInv, Active
<1>19. ASSUME NEW p \in Procs, Crash(p) PROVE RowsInv'
  BY <1>19 DEF Crash, RowsInv, entities, bounds, Goto, Active
<1>20. ASSUME NEW p \in Procs, NEW i \in Images, CacheExpire(p, i) PROVE RowsInv'
  BY <1>20 DEF CacheExpire, RowsInv, entities, bounds, Goto, Active
<1>21. ASSUME NEW p \in Procs, NEW batch \in SUBSET Expirable, SweepRows(p, batch) PROVE RowsInv'
  BY <1>21, AbsentRow
     DEF SweepRows, DeleteRows, Expirable, RowsInv, entities, bounds, Goto, Active
<1>22. ASSUME NEW p \in Procs, SweepInvalidate(p) PROVE RowsInv'
  <2>1. \A s \in sweep' : s.image \in expired
    BY <1>22, SweepInvalidateStep DEF RowsInv
  <2>2. \A q \in Procs, i \in Images : cache'[q][i] # None => cache[q][i] # None
    BY <1>22 DEF SweepInvalidate
  <2>3. UNCHANGED <<upload, rows, expired, job, pc, pending>>
    BY <1>22 DEF SweepInvalidate, entities
  <2> QED
    BY <2>1, <2>2, <2>3 DEF RowsInv, Active
<1>23. ASSUME NEW batch \in SUBSET Expirable, SweepRowsFailsLate(batch) PROVE RowsInv'
  BY <1>23, AbsentRow
     DEF SweepRowsFailsLate, DeleteRows, Expirable, RowsInv, entities, bounds, Goto, Active
<1>24. ASSUME NEW s \in sweep, SweepOriginal(s) PROVE RowsInv'
  <2>1. \A t \in sweep' : \E u \in sweep : t.image = u.image
    BY <1>24 DEF SweepOriginal
  <2> QED
    BY <1>24, <2>1 DEF SweepOriginal, RowsInv, entities, bounds, Goto, Active
<1>25. ASSUME NEW s \in sweep, SweepThumb(s) PROVE RowsInv'
  BY <1>25 DEF SweepThumb, RowsInv, entities, bounds, Goto, Active
<1>26. ASSUME NEW s \in sweep, SweepFails(s) PROVE RowsInv'
  BY <1>26 DEF SweepFails, RowsInv, entities, bounds, Goto, Active
<1>27. CASE UNCHANGED vars
  BY <1>27 DEF vars, RowsInv, Active
<1> QED
  BY <1>1, <1>2, <1>3, <1>4, <1>5, <1>6, <1>7, <1>8, <1>9, <1>10, <1>11, <1>12, <1>13, <1>14,
     <1>15, <1>16, <1>17, <1>18, <1>19, <1>20, <1>21, <1>22, <1>23, <1>24, <1>25, <1>26, <1>27
     DEF Next, Execute

\* Payloads and jobs are fixed; images stay expired; faults and crashes are counted.
Forward ==
    /\ payload' = payload
    /\ job' = job
    /\ expired \subseteq expired'
    /\ Calm' => Calm

LEMMA Monotone ==
    ASSUME TypeOK, [Next]_vars
    PROVE  Forward
<1> USE DEF TypeOK, Calm, Forward
<1>1. ASSUME NEW i \in Images, UploadOpen(i) PROVE Forward
  BY <1>1 DEF UploadOpen, entities, bounds
<1>2. ASSUME NEW i \in Images, UploadStore(i) PROVE Forward
  BY <1>2 DEF UploadStore, entities, bounds
<1>3. ASSUME NEW i \in Images, UploadSave(i) PROVE Forward
  BY <1>3 DEF UploadSave, entities, bounds
<1>4. ASSUME NEW i \in Images, UploadFails(i) PROVE Forward
  BY <1>4 DEF UploadFails, Fault, entities, bounds
<1>5. ASSUME NEW i \in Images, Expire(i) PROVE Forward
  BY <1>5 DEF Expire, entities, bounds
<1>6. ASSUME NEW r \in Runs, Get(r) PROVE Forward
  BY <1>6 DEF Get, entities, bounds
<1>7. ASSUME NEW r \in Runs, Fill(r) PROVE Forward
  BY <1>7 DEF Fill, entities, bounds
<1>8. ASSUME NEW r \in Runs, SaveSelect(r) PROVE Forward
  BY <1>8 DEF SaveSelect, entities, bounds
<1>9. ASSUME NEW r \in Runs, SaveFlush(r) PROVE Forward
  BY <1>9 DEF SaveFlush, entities, bounds
<1>10. ASSUME NEW r \in Runs, Invalidate(r) PROVE Forward
  BY <1>10 DEF Invalidate, entities, bounds
<1>11. ASSUME NEW r \in Runs, Read(r) PROVE Forward
  BY <1>11 DEF Read, entities, bounds
<1>12. ASSUME NEW r \in Runs, Retrieve(r) PROVE Forward
  BY <1>12 DEF Retrieve, entities, bounds
<1>13. ASSUME NEW r \in Runs, OpenThumb(r) PROVE Forward
  BY <1>13 DEF OpenThumb, entities, bounds
<1>14. ASSUME NEW r \in Runs, StoreThumb(r) PROVE Forward
  BY <1>14 DEF StoreThumb, entities, bounds
<1>15. ASSUME NEW r \in Runs, Cleanup(r) PROVE Forward
  BY <1>15 DEF Cleanup, entities, bounds
<1>16. ASSUME NEW r \in Runs, StepRaises(r) PROVE Forward
  BY <1>16 DEF StepRaises, entities, bounds
<1>17. ASSUME NEW r \in Runs, CallFails(r) PROVE Forward
  BY <1>17 DEF CallFails, Fault, entities, bounds
<1>18. ASSUME NEW r \in Runs, FlushFailsLate(r) PROVE Forward
  BY <1>18 DEF FlushFailsLate, Fault, entities, bounds
<1>19. ASSUME NEW p \in Procs, Crash(p) PROVE Forward
  BY <1>19 DEF Crash, Fault, entities, bounds
<1>20. ASSUME NEW p \in Procs, NEW i \in Images, CacheExpire(p, i) PROVE Forward
  BY <1>20 DEF CacheExpire, entities, bounds
<1>21. ASSUME NEW p \in Procs, NEW batch \in SUBSET Expirable, SweepRows(p, batch) PROVE Forward
  BY <1>21 DEF SweepRows, entities, bounds
<1>22. ASSUME NEW p \in Procs, SweepInvalidate(p) PROVE Forward
  BY <1>22 DEF SweepInvalidate, entities, bounds
<1>23. ASSUME NEW batch \in SUBSET Expirable, SweepRowsFailsLate(batch) PROVE Forward
  BY <1>23 DEF SweepRowsFailsLate, Fault, entities, bounds
<1>24. ASSUME NEW s \in sweep, SweepOriginal(s) PROVE Forward
  BY <1>24 DEF SweepOriginal, entities, bounds
<1>25. ASSUME NEW s \in sweep, SweepThumb(s) PROVE Forward
  BY <1>25 DEF SweepThumb, entities, bounds
<1>26. ASSUME NEW s \in sweep, SweepFails(s) PROVE Forward
  BY <1>26 DEF SweepFails, Fault, entities, bounds
<1>27. CASE UNCHANGED vars
  BY <1>27 DEF vars
<1> QED
  BY <1>1, <1>2, <1>3, <1>4, <1>5, <1>6, <1>7, <1>8, <1>9, <1>10, <1>11, <1>12, <1>13, <1>14,
     <1>15, <1>16, <1>17, <1>18, <1>19, <1>20, <1>21, <1>22, <1>23, <1>24, <1>25, <1>26, <1>27
     DEF Next, Execute

\* Where no two images share a file, no two paths coincide.
Apart ==
    /\ \A i, j \in Images : Original(i) # Thumbnail(j)
    /\ \A i, j \in Images :
         i # j => Original(i) # Original(j) /\ Thumbnail(i) # Thumbnail(j)

LEMMA PathsApart ==
    ASSUME TypeOK, Unshared
    PROVE  Apart
<1>1. \A i \in Images : Original(i) # Thumbnail(i)
  BY ThumbAssumption DEF TypeOK
<1>2. \A i, j \in Images : i # j =>
         /\ Original(i) # Thumbnail(j)
         /\ Original(i) # Original(j)
         /\ Thumbnail(i) # Thumbnail(j)
  BY DEF Unshared, Footprint
<1> QED
  BY <1>1, <1>2 DEF Apart

LEMMA UnsharedBefore ==
    ASSUME payload' = payload, Unshared'
    PROVE  Unshared
  BY DEF Unshared, Footprint

LEMMA OriginalsStep == TypeOK /\ RowsInv /\ OriginalsInv /\ [Next]_vars => OriginalsInv'
<1> SUFFICES ASSUME TypeOK, RowsInv, OriginalsInv, [Next]_vars, Unshared' PROVE OriginalsKept'
  BY DEF OriginalsInv
<1> Unshared /\ OriginalsKept
  BY Monotone, UnsharedBefore DEF Forward, OriginalsInv
<1> Apart
  BY PathsApart
<1> USE DEF TypeOK
<1>1. ASSUME NEW i \in Images, UploadOpen(i) PROVE OriginalsKept'
  BY <1>1 DEF UploadOpen, Apart, OriginalsKept, entities, bounds
<1>2. ASSUME NEW i \in Images, UploadStore(i) PROVE OriginalsKept'
  BY <1>2 DEF UploadStore, Apart, RowsInv, OriginalsKept, entities, bounds
<1>3. ASSUME NEW i \in Images, UploadSave(i) PROVE OriginalsKept'
  BY <1>3 DEF UploadSave, OriginalsKept, entities, bounds
<1>4. ASSUME NEW i \in Images, UploadFails(i) PROVE OriginalsKept'
  BY <1>4 DEF UploadFails, OriginalsKept, entities, bounds
<1>5. ASSUME NEW i \in Images, Expire(i) PROVE OriginalsKept'
  BY <1>5 DEF Expire, OriginalsKept, entities, bounds
<1>6. ASSUME NEW r \in Runs, Get(r) PROVE OriginalsKept'
  BY <1>6 DEF Get, OriginalsKept, entities, bounds
<1>7. ASSUME NEW r \in Runs, Fill(r) PROVE OriginalsKept'
  BY <1>7 DEF Fill, OriginalsKept, entities, bounds
<1>8. ASSUME NEW r \in Runs, SaveSelect(r) PROVE OriginalsKept'
  BY <1>8 DEF SaveSelect, OriginalsKept, entities, bounds
<1>9. ASSUME NEW r \in Runs, SaveFlush(r) PROVE OriginalsKept'
  BY <1>9 DEF SaveFlush, OriginalsKept, entities, bounds
<1>10. ASSUME NEW r \in Runs, Invalidate(r) PROVE OriginalsKept'
  BY <1>10 DEF Invalidate, OriginalsKept, entities, bounds
<1>11. ASSUME NEW r \in Runs, Read(r) PROVE OriginalsKept'
  BY <1>11 DEF Read, OriginalsKept, entities, bounds
<1>12. ASSUME NEW r \in Runs, Retrieve(r) PROVE OriginalsKept'
  BY <1>12 DEF Retrieve, OriginalsKept, entities, bounds
<1>13. ASSUME NEW r \in Runs, OpenThumb(r) PROVE OriginalsKept'
  BY <1>13 DEF OpenThumb, Apart, OriginalsKept, entities, bounds
<1>14. ASSUME NEW r \in Runs, StoreThumb(r) PROVE OriginalsKept'
  BY <1>14 DEF StoreThumb, Apart, OriginalsKept, entities, bounds
<1>15. ASSUME NEW r \in Runs, Cleanup(r) PROVE OriginalsKept'
  BY <1>15 DEF Cleanup, Apart, OriginalsKept, entities, bounds
<1>16. ASSUME NEW r \in Runs, StepRaises(r) PROVE OriginalsKept'
  BY <1>16 DEF StepRaises, OriginalsKept, entities, bounds
<1>17. ASSUME NEW r \in Runs, CallFails(r) PROVE OriginalsKept'
  BY <1>17 DEF CallFails, OriginalsKept, entities, bounds
<1>18. ASSUME NEW r \in Runs, FlushFailsLate(r) PROVE OriginalsKept'
  BY <1>18 DEF FlushFailsLate, OriginalsKept, entities, bounds
<1>19. ASSUME NEW p \in Procs, Crash(p) PROVE OriginalsKept'
  BY <1>19 DEF Crash, OriginalsKept, entities, bounds
<1>20. ASSUME NEW p \in Procs, NEW i \in Images, CacheExpire(p, i) PROVE OriginalsKept'
  BY <1>20 DEF CacheExpire, OriginalsKept, entities, bounds
<1>21. ASSUME NEW p \in Procs, NEW batch \in SUBSET Expirable, SweepRows(p, batch)
       PROVE  OriginalsKept'
  BY <1>21 DEF SweepRows, OriginalsKept, entities, bounds
<1>22. ASSUME NEW p \in Procs, SweepInvalidate(p) PROVE OriginalsKept'
  <2>1. \A s \in sweep' : s \in sweep \/ s.step = "original"
    BY <1>22, SweepInvalidateStep
  <2> QED
    BY <1>22, <2>1 DEF SweepInvalidate, OriginalsKept, entities, bounds
<1>23. ASSUME NEW batch \in SUBSET Expirable, SweepRowsFailsLate(batch) PROVE OriginalsKept'
  BY <1>23 DEF SweepRowsFailsLate, OriginalsKept, entities, bounds
<1>24. ASSUME NEW s \in sweep, SweepOriginal(s) PROVE OriginalsKept'
  <2>1. s.image \in expired /\ \A t \in sweep' : t \in sweep \/ t.image = s.image
    BY <1>24 DEF SweepOriginal, RowsInv
  <2>2. /\ disk' = disk \ {Original(s.image)} /\ s.image \in Images
        /\ UNCHANGED <<payload, upload, expired>>
    BY <1>24 DEF SweepOriginal
  <2>3. \A t \in sweep' : t.step = "thumb" => Original(t.image)' \notin disk'
    BY <2>1, <2>2 DEF OriginalsKept
  <2> QED
    BY <2>1, <2>2, <2>3 DEF Apart, OriginalsKept
<1>25. ASSUME NEW s \in sweep, SweepThumb(s) PROVE OriginalsKept'
  BY <1>25 DEF SweepThumb, Apart, OriginalsKept, entities, bounds
<1>26. ASSUME NEW s \in sweep, SweepFails(s) PROVE OriginalsKept'
  BY <1>26 DEF SweepFails, OriginalsKept, entities, bounds
<1>27. CASE UNCHANGED vars
  BY <1>27 DEF vars, OriginalsKept
<1> QED
  BY <1>1, <1>2, <1>3, <1>4, <1>5, <1>6, <1>7, <1>8, <1>9, <1>10, <1>11, <1>12, <1>13, <1>14,
     <1>15, <1>16, <1>17, <1>18, <1>19, <1>20, <1>21, <1>22, <1>23, <1>24, <1>25, <1>26, <1>27
     DEF Next, Execute

\* The original of image i belongs to a row or to the sweep.
Owned(i) ==
    Original(i) \in disk /\ upload[i] = "saved" =>
        Present(i) \/ \E s \in sweep : s.image = i

LEMMA OrphansStep ==
    TypeOK /\ OriginalsInv /\ NoOrphanOriginal /\ [Next]_vars => NoOrphanOriginal'
<1> SUFFICES ASSUME TypeOK, OriginalsInv, NoOrphanOriginal, [Next]_vars,
                    Unshared', Calm', NEW j \in Images
             PROVE  Owned(j)'
  BY DEF NoOrphanOriginal, Calm, Owned
<1> Unshared /\ OriginalsKept /\ Calm
  BY Monotone, UnsharedBefore DEF Forward, OriginalsInv
<1> Apart
  BY PathsApart
<1> Owned(j)
  BY DEF NoOrphanOriginal, Calm, Owned
<1> USE DEF TypeOK
<1>1. ASSUME NEW i \in Images, UploadOpen(i) PROVE Owned(j)'
  BY <1>1 DEF UploadOpen, Apart, Owned, entities, bounds
<1>2. ASSUME NEW i \in Images, UploadStore(i) PROVE Owned(j)'
  BY <1>2 DEF UploadStore, Apart, Owned, entities, bounds
<1>3. ASSUME NEW i \in Images, UploadSave(i) PROVE Owned(j)'
  <2>1. /\ upload' = [upload EXCEPT ![i] = "saved"] /\ rows' = [rows EXCEPT ![i] = Uploaded]
        /\ UNCHANGED <<payload, disk, sweep>>
    BY <1>3 DEF UploadSave
  <2>2. Uploaded.status # "absent"
    BY EntityFacts
  <2> QED
    BY <2>1, <2>2 DEF Owned
<1>4. ASSUME NEW i \in Images, UploadFails(i) PROVE Owned(j)'
  BY <1>4 DEF UploadFails, Fault, Calm, TypeOK
<1>5. ASSUME NEW i \in Images, Expire(i) PROVE Owned(j)'
  BY <1>5 DEF Expire, Owned, entities, bounds
<1>6. ASSUME NEW r \in Runs, Get(r) PROVE Owned(j)'
  BY <1>6 DEF Get, Owned, entities, bounds
<1>7. ASSUME NEW r \in Runs, Fill(r) PROVE Owned(j)'
  BY <1>7 DEF Fill, Owned, entities, bounds
<1>8. ASSUME NEW r \in Runs, SaveSelect(r) PROVE Owned(j)'
  BY <1>8 DEF SaveSelect, Owned, entities, bounds
<1>9. ASSUME NEW r \in Runs, SaveFlush(r) PROVE Owned(j)'
  <2>1. Written(r).status # "absent"
    BY <1>9, WrittenType, EntityFacts DEF SaveFlush
  <2> QED
    BY <1>9, <2>1 DEF SaveFlush, Owned, entities, bounds
<1>10. ASSUME NEW r \in Runs, Invalidate(r) PROVE Owned(j)'
  BY <1>10 DEF Invalidate, Owned, entities, bounds
<1>11. ASSUME NEW r \in Runs, Read(r) PROVE Owned(j)'
  BY <1>11 DEF Read, Owned, entities, bounds
<1>12. ASSUME NEW r \in Runs, Retrieve(r) PROVE Owned(j)'
  BY <1>12 DEF Retrieve, Owned, entities, bounds
<1>13. ASSUME NEW r \in Runs, OpenThumb(r) PROVE Owned(j)'
  BY <1>13 DEF OpenThumb, Apart, Owned, entities, bounds
<1>14. ASSUME NEW r \in Runs, StoreThumb(r) PROVE Owned(j)'
  BY <1>14 DEF StoreThumb, Apart, Owned, entities, bounds
<1>15. ASSUME NEW r \in Runs, Cleanup(r) PROVE Owned(j)'
  BY <1>15 DEF Cleanup, Apart, Owned, entities, bounds
<1>16. ASSUME NEW r \in Runs, StepRaises(r) PROVE Owned(j)'
  BY <1>16 DEF StepRaises, Owned, entities, bounds
<1>17. ASSUME NEW r \in Runs, CallFails(r) PROVE Owned(j)'
  BY <1>17 DEF CallFails, Fault, Calm, TypeOK
<1>18. ASSUME NEW r \in Runs, FlushFailsLate(r) PROVE Owned(j)'
  BY <1>18 DEF FlushFailsLate, Fault, Calm, TypeOK
<1>19. ASSUME NEW p \in Procs, Crash(p) PROVE Owned(j)'
  BY <1>19 DEF Crash, Fault, Calm, TypeOK
<1>20. ASSUME NEW p \in Procs, NEW i \in Images, CacheExpire(p, i) PROVE Owned(j)'
  BY <1>20 DEF CacheExpire, Owned, entities, bounds
<1>21. ASSUME NEW p \in Procs, NEW batch \in SUBSET Expirable, SweepRows(p, batch) PROVE Owned(j)'
  <2>1. \A i \in batch : [proc |-> p, image |-> i, thumb |-> rows[i].thumb, step |-> "cache"] \in sweep'
    BY <1>21 DEF SweepRows
  <2>2. sweep \subseteq sweep' /\ \A i \in batch : \E s \in sweep' : s.image = i
    <3>1. sweep \subseteq sweep'
      BY <1>21 DEF SweepRows
    <3>2. \A i \in batch : \E s \in sweep' : s.image = i
      BY <2>1, ZenonT(60)
    <3> QED
      BY <3>1, <3>2
  <2>3. j \notin batch => rows'[j] = rows[j]
    BY <1>21 DEF SweepRows, DeleteRows
  <2>4. UNCHANGED <<payload, upload, disk>>
    BY <1>21 DEF SweepRows
  <2> QED
    BY <2>2, <2>3, <2>4 DEF Owned
<1>22. ASSUME NEW p \in Procs, SweepInvalidate(p) PROVE Owned(j)'
  <2>1. \A t \in sweep : \E s \in sweep' : s.image = t.image
    BY <1>22, SweepInvalidateStep
  <2>2. UNCHANGED <<payload, upload, rows, disk>>
    BY <1>22 DEF SweepInvalidate
  <2>3. (\E s \in sweep : s.image = j) => \E s \in sweep' : s.image = j
    BY <2>1, Zenon
  <2> QED
    BY <2>2, <2>3 DEF Owned
<1>23. ASSUME NEW batch \in SUBSET Expirable, SweepRowsFailsLate(batch) PROVE Owned(j)'
  BY <1>23 DEF SweepRowsFailsLate, Fault, Calm, TypeOK
<1>24. ASSUME NEW s \in sweep, SweepOriginal(s) PROVE Owned(j)'
  BY <1>24 DEF SweepOriginal, Owned, entities, bounds
<1>25. ASSUME NEW s \in sweep, SweepThumb(s) PROVE Owned(j)'
  <2>1. Original(s.image) \notin disk
    BY <1>25 DEF SweepThumb, Apart, OriginalsKept
  <2> QED
    BY <1>25, <2>1 DEF SweepThumb, Apart, Owned, entities, bounds
<1>26. ASSUME NEW s \in sweep, SweepFails(s) PROVE Owned(j)'
  BY <1>26 DEF SweepFails, Fault, Calm, TypeOK
<1>27. CASE UNCHANGED vars
  BY <1>27 DEF vars, Owned
<1> QED
  BY <1>1, <1>2, <1>3, <1>4, <1>5, <1>6, <1>7, <1>8, <1>9, <1>10, <1>11, <1>12, <1>13, <1>14,
     <1>15, <1>16, <1>17, <1>18, <1>19, <1>20, <1>21, <1>22, <1>23, <1>24, <1>25, <1>26, <1>27
     DEF Next, Execute

\* What holds of every run, row and original.
BaseInv == TypeOK /\ RunsInv /\ RowsInv /\ OriginalsInv

LEMMA BaseAlways == Spec => []BaseInv
<1>1. Init => RunsInv /\ RowsInv /\ OriginalsInv
  BY AbsentRow DEF Init, RunsInv, RowsInv, OriginalsInv, OriginalsKept, Active, Working
<1>2. TypeOK /\ RunsInv /\ RowsInv /\ OriginalsInv /\ [Next]_vars => (RunsInv /\ RowsInv /\ OriginalsInv)'
  BY RunsStep, RowsStep, OriginalsStep
<1> QED
  BY <1>1, <1>2, LifecycleTypes, PTL DEF Spec, BaseInv

\* FR-3.2: as long as no two images share a file, the original of an image
\* that has not expired stays on disk through every race of uploads, runs, caches
\* and sweeps, every failing call and every crash.
THEOREM OriginalsStay == Spec => []OriginalAvailableUnlessShared
<1>1. BaseInv => OriginalAvailableUnlessShared
  BY DEF BaseInv, RowsInv, OriginalsInv, OriginalsKept, OriginalAvailableUnlessShared,
         OriginalAvailable
<1> QED
  BY <1>1, BaseAlways, PTL

\* As long as nothing fails, the sweeps of any number of processes leave no original
\* behind whose row they have deleted.
THEOREM NoOriginalIsOrphaned == Spec => []NoOrphanOriginal
<1>1. Init => NoOrphanOriginal
  BY DEF Init, NoOrphanOriginal
<1>2. BaseInv /\ NoOrphanOriginal /\ [Next]_vars => NoOrphanOriginal'
  BY OrphansStep DEF BaseInv
<1> QED
  BY <1>1, <1>2, BaseAlways, PTL DEF Spec

-----------------------------------------------------------------------------
(* The status column.                                                      *)

\* The flush of a run on an image that has not expired finds the row.
LEMMA Flushes ==
    ASSUME TypeOK, RowsInv, NEW r \in Runs, pc[r] = "flush", Image(r) \notin expired
    PROVE  Flushable(r)
<1>1. Image(r) \in Images /\ pending[r].insert \in BOOLEAN
  BY DEF TypeOK
<1>2. Present(Image(r)) /\ ~pending[r].insert
  BY <1>1 DEF RowsInv, Active
<1> QED
  BY <1>1, <1>2 DEF Flushable

\* No run stops being the one that will close the row.
LEMMA StaysClosed ==
    ASSUME NEW i \in Images, StatusClosed(i), job' = job, expired \subseteq expired',
           rows'[i].status = "processing" => rows[i].status = "processing",
           \A q \in Runs : /\ Image(q) = i /\ i \notin expired
                           /\ rows[i].status = "processing"
                           /\ Closes(q, "status")
                           => Closes(q, "status")'
    PROVE  StatusClosed(i)'
  BY DEF StatusClosed

\* A run past its first save marks its entity for its last one.
LEMMA StatusMark ==
    ASSUME TypeOK, RunsInv, StatusKept, NEW r \in Runs, Past(r), NEW e \in Entities,
           e.status \in Final, NEW next \in {"finish", "fail"}, Mark(r, ref[r], e, next),
           UNCHANGED <<job, expired, rows, ref, pending, cache>>
    PROVE  StatusKept'
<1> USE DEF Mark, Goto, TypeOK, Working
<1>1. \A q \in Runs : StatusOf(q)'
  BY DEF StatusKept, StatusOf, Past
<1>2. \A q \in Runs : Closes(q, "status") => Closes(q, "status")'
  BY DEF Closes
<1> QED
  BY <1>1, <1>2, StaysClosed DEF StatusKept

\* What a run on an expired image does to its own entity.
LEMMA StatusElsewhere ==
    ASSUME TypeOK, RunsInv, StatusKept, NEW r \in Runs, Image(r) \in expired,
           \A q \in Runs \ {r} : pc'[q] = pc[q] /\ phase'[q] = phase[q],
           \A q \in Runs \ {ref[r]} : obj'[q] = obj[q],
           UNCHANGED <<job, expired, rows, ref, pending, cache>>
    PROVE  StatusKept'
<1> USE DEF TypeOK
<1>0. \A q \in Runs : Image(q) \notin expired => q # r /\ ref[q] \in Runs \ {ref[r]}
  BY DEF RunsInv
<1>1. \A q \in Runs : StatusOf(q)'
  BY <1>0 DEF StatusKept, StatusOf, Past
<1>2. \A q \in Runs : Image(q) \notin expired /\ Closes(q, "status") => Closes(q, "status")'
  BY <1>0 DEF Closes
<1> QED
  BY <1>1, <1>2, StaysClosed DEF StatusKept

LEMMA StatusStep ==
    TypeOK /\ RunsInv /\ RowsInv /\ StatusInv /\ [Next]_vars => StatusInv'
<1> SUFFICES ASSUME TypeOK, RunsInv, RowsInv, StatusInv, [Next]_vars, Calm'
             PROVE  StatusKept'
  BY DEF StatusInv
<1> StatusKept /\ Calm
  BY Monotone DEF Forward, StatusInv
<1> USE DEF Working, Final, TypeOK
<1>1. ASSUME NEW i \in Images, UploadOpen(i) PROVE StatusKept'
  BY <1>1
     DEF UploadOpen, entities, bounds, Goto, StatusKept, StatusOf, StatusClosed, Past, Closes
<1>2. ASSUME NEW i \in Images, UploadStore(i) PROVE StatusKept'
  BY <1>2
     DEF UploadStore, entities, bounds, Goto, StatusKept, StatusOf, StatusClosed, Past, Closes
<1>3. ASSUME NEW i \in Images, UploadSave(i) PROVE StatusKept'
  <2>1. /\ rows' = [rows EXCEPT ![i] = Uploaded]
        /\ UNCHANGED <<job, expired, pc, phase, obj, ref, pending, cache>>
    BY <1>3 DEF UploadSave, entities
  <2>2. Uploaded.status # "processing"
    BY EntityFacts
  <2> QED
    BY <2>1, <2>2 DEF StatusKept, StatusOf, StatusClosed, Past, Closes
<1>4. ASSUME NEW i \in Images, UploadFails(i) PROVE StatusKept'
  BY <1>4 DEF UploadFails, Fault, Calm
<1>5. ASSUME NEW i \in Images, Expire(i) PROVE StatusKept'
  BY <1>5
     DEF Expire, entities, bounds, Goto, StatusKept, StatusOf, StatusClosed, Past, Closes
<1>6. ASSUME NEW r \in Runs, Get(r) PROVE StatusKept'
  <2> USE <1>6, GetStep
  <2>0. Proc(r) \in Procs /\ Image(r) \in Images /\ pc[r] = "get" /\ phase[r] = "start"
    BY DEF RunsInv
  <2>1. CASE \E hit \in Runs : Hits(r, hit)
    <3> PICK hit \in Runs : Hits(r, hit)
      BY <2>1
    <3>1. /\ cache[Proc(r)][Image(r)] = hit /\ hit # None /\ ref' = [ref EXCEPT ![r] = hit]
          /\ UNCHANGED <<job, expired, rows, pending, cache>>
      BY NoneAssumption DEF Hits
    <3>2. Proc(hit) = Proc(r) /\ Image(hit) = Image(r)
      BY <2>0, <3>1 DEF RunsInv
    <3>3. \A q \in Runs : ref[q] = hit /\ Image(q) \notin expired => ~Past(q)
      BY <3>1, <3>2 DEF RunsInv, StatusKept, StatusOf
    <3>4. CASE UNCHANGED <<obj, phase>> /\ (Goto(r, "done") \/ Goto(r, "read"))
      <4> USE DEF Goto
      <4>1. \A q \in Runs : StatusOf(q)'
        BY <2>0, <3>1, <3>4 DEF StatusKept, StatusOf, Past
      <4>2. \A q \in Runs : Closes(q, "status") => Closes(q, "status")'
        BY <2>0, <3>1, <3>4 DEF Closes
      <4> QED
        BY <2>0, <3>1, <3>4, <4>1, <4>2, StaysClosed DEF StatusKept
    <3>5. CASE \E e \in Entities : Mark(r, hit, e, "start")
      <4>1. PICK e \in Entities : /\ obj' = [obj EXCEPT ![hit] = e]
                                  /\ phase' = [phase EXCEPT ![r] = "start"]
                                  /\ pc' = [pc EXCEPT ![r] = "select"]
        BY <3>5 DEF Mark, Goto
      <4>2. phase' = phase
        BY <2>0, <4>1
      <4>3. \A q \in Runs : StatusOf(q)'
        BY <2>0, <3>1, <3>3, <4>1, <4>2 DEF StatusKept, StatusOf, Past
      <4>4. \A q \in Runs : Closes(q, "status") => Closes(q, "status")'
        BY <2>0, <3>1, <4>1, <4>2 DEF Closes
      <4> QED
        BY <3>1, <4>3, <4>4, StaysClosed DEF StatusKept
    <3> QED
      BY <3>4, <3>5, BeginStep DEF Hits
  <2>2. CASE ~Present(Image(r)) /\ Goto(r, "done") /\ UNCHANGED <<obj, ref, phase>>
    <3> USE DEF Goto
    <3>1. \A q \in Runs : StatusOf(q)'
      BY <2>0, <2>2 DEF StatusKept, StatusOf, Past
    <3>2. \A q \in Runs : Closes(q, "status") => Closes(q, "status")'
      BY <2>0, <2>2 DEF Closes
    <3> QED
      BY <2>0, <2>2, <3>1, <3>2, StaysClosed DEF StatusKept
  <2>3. CASE Misses(r)
    <3>1. /\ obj' = [obj EXCEPT ![r] = rows[Image(r)]] /\ pc' = [pc EXCEPT ![r] = "fill"]
          /\ UNCHANGED <<job, expired, rows, pending, cache, ref, phase>>
      BY <2>3 DEF Misses, Goto
    <3>2. \A q \in Runs : ref[q] = r => q = r
      BY <2>0 DEF RunsInv
    <3>3. \A q \in Runs : StatusOf(q)'
      BY <2>0, <3>1, <3>2 DEF StatusKept, StatusOf, Past
    <3>4. \A q \in Runs : Closes(q, "status") => Closes(q, "status")'
      BY <2>0, <3>1 DEF Closes
    <3> QED
      BY <3>1, <3>3, <3>4, StaysClosed DEF StatusKept
  <2> QED
    BY <2>1, <2>2, <2>3
<1>7. ASSUME NEW r \in Runs, Fill(r) PROVE StatusKept'
  <2>1. /\ pc[r] = "fill" /\ cache' = [cache EXCEPT ![Proc(r)][Image(r)] = r]
        /\ UNCHANGED <<job, expired, rows, pending, ref>>
    BY <1>7 DEF Fill
  <2>2. phase[r] = "start" /\ \A q \in Runs : ref[q] = r => q = r
    BY <2>1 DEF RunsInv
  <2> Begin(r, r, obj[r])
    BY <1>7 DEF Fill
  <2>3. phase' = phase /\ \E l \in {"done", "read", "select"} : pc' = [pc EXCEPT ![r] = l]
    <3>1. CASE UNCHANGED <<obj, phase>> /\ (Goto(r, "done") \/ Goto(r, "read"))
      BY <3>1 DEF Goto
    <3>2. CASE \E e \in Entities : Mark(r, r, e, "start")
      BY <2>2, <3>2 DEF Mark, Goto
    <3> QED
      BY <3>1, <3>2, BeginStep
  <2>4. \A q \in Runs \ {r} : obj'[q] = obj[q]
    BY BeginStep DEF Mark
  <2>5. \A q \in Runs : StatusOf(q)'
    BY <2>1, <2>2, <2>3, <2>4 DEF StatusKept, StatusOf, Past
  <2>6. \A q \in Runs : Closes(q, "status") => Closes(q, "status")'
    BY <2>1, <2>2, <2>3 DEF Closes
  <2> QED
    BY <2>1, <2>5, <2>6, StaysClosed DEF StatusKept
<1>8. ASSUME NEW r \in Runs, SaveSelect(r) PROVE StatusKept'
  <2>1. /\ pc[r] = "select" /\ pc' = [pc EXCEPT ![r] = "flush"]
        /\ UNCHANGED <<job, expired, rows, phase, obj, ref, cache>>
        /\ \A q \in Runs \ {r} : pending'[q] = pending[q]
    BY <1>8 DEF SaveSelect, Goto
  <2>2. /\ pending'[r].entity = obj[ref[r]]
        /\ pending'[r].columns = Changed(obj[ref[r]], rows[Image(r)])
    BY <1>8 DEF SaveSelect
  <2>3. obj[ref[r]].status # rows[Image(r)].status => "status" \in pending'[r].columns
    BY <2>2 DEF Changed
  <2>4. \A q \in Runs : StatusOf(q)'
    BY <2>1, <2>2 DEF StatusKept, StatusOf, Past
  <2>5. Image(r) \notin expired /\ rows[Image(r)].status = "processing" /\ phase[r] # "start" =>
           "status" \in pending'[r].columns
    BY <2>1, <2>3 DEF StatusKept, StatusOf
  <2>6. \A q \in Runs : Image(q) \notin expired /\ rows[Image(q)].status = "processing"
           /\ Closes(q, "status") => Closes(q, "status")'
    BY <2>1, <2>5 DEF Closes
  <2> QED
    BY <2>1, <2>4, <2>6, StaysClosed DEF StatusKept
<1>9. ASSUME NEW r \in Runs, SaveFlush(r) PROVE StatusKept'
  <2>1. /\ pc[r] = "flush" /\ pc' = [pc EXCEPT ![r] = "invalidate"]
        /\ rows' = [rows EXCEPT ![Image(r)] = Written(r)]
        /\ UNCHANGED <<job, expired, phase, obj, ref, pending, cache>>
    BY <1>9 DEF SaveFlush, entities, Goto
  <2>2. Image(r) \notin expired =>
           Written(r).status = IF "status" \in pending[r].columns
                               THEN pending[r].entity.status ELSE rows[Image(r)].status
    BY <1>9, <2>1, WrittenType DEF SaveFlush, RowsInv
  <2>3. \A q \in Runs : StatusOf(q)'
    BY <2>1 DEF StatusKept, StatusOf, Past
  <2>4. \A q \in Runs \ {r} : Closes(q, "status") => Closes(q, "status")'
    BY <2>1 DEF Closes
  <2>5. \A i \in Images \ {Image(r)} : StatusClosed(i)'
    BY <2>1, <2>4, StaysClosed DEF StatusKept
  <2>6. CASE phase[r] = "start"
    <3>1. Closes(r, "status")'
      BY <2>1, <2>6 DEF Closes
    <3> QED
      BY <2>1, <2>3, <2>5, <3>1 DEF StatusKept, StatusClosed
  <2>7. CASE phase[r] # "start" /\ Image(r) \notin expired
    <3>1. Written(r).status = "processing" =>
             rows[Image(r)].status = "processing" /\ ~Closes(r, "status")
      BY <2>1, <2>2, <2>7 DEF StatusKept, StatusOf, Closes
    <3>2. PICK i \in Images : i = Image(r)
      OBVIOUS
    <3>3. rows'[i] = Written(r)
      BY <2>1, <3>2
    <3>4. CASE Written(r).status = "processing"
      <4>1. \A q \in Runs : Closes(q, "status") => Closes(q, "status")'
        BY <2>4, <3>1, <3>4
      <4>2. rows[i].status = "processing"
        BY <3>1, <3>2, <3>4
      <4> QED
        BY <2>1, <2>3, <2>5, <3>2, <4>1, <4>2, StaysClosed DEF StatusKept
    <3>5. CASE Written(r).status # "processing"
      <4>1. StatusClosed(i)'
        BY <3>3, <3>5 DEF StatusClosed
      <4> QED
        BY <2>3, <2>5, <3>2, <4>1 DEF StatusKept
    <3> QED
      BY <3>4, <3>5
  <2>8. CASE Image(r) \in expired
    BY <2>1, <2>3, <2>5, <2>8 DEF StatusKept, StatusClosed
  <2> QED
    BY <2>6, <2>7, <2>8
<1>10. ASSUME NEW r \in Runs, Invalidate(r) PROVE StatusKept'
  <2>1. /\ pc[r] = "invalidate"
        /\ pc' = [pc EXCEPT ![r] = IF phase[r] = "start" THEN "retrieve" ELSE "done"]
        /\ cache' = [cache EXCEPT ![Proc(r)][Image(r)] = None]
        /\ UNCHANGED <<job, expired, rows, phase, obj, ref, pending>>
    BY <1>10 DEF Invalidate, entities, Goto
  <2>2. \A q \in Runs : StatusOf(q)'
    BY <2>1, NoneAssumption DEF StatusKept, StatusOf, Past
  <2>3. \A q \in Runs : Closes(q, "status") => Closes(q, "status")'
    BY <2>1 DEF Closes
  <2> QED
    BY <2>1, <2>2, <2>3, StaysClosed DEF StatusKept
<1>11. ASSUME NEW r \in Runs, Read(r) PROVE StatusKept'
  <2>1. pc[r] = "read" /\ \E l \in {"done", "torn"} : pc' = [pc EXCEPT ![r] = l]
        /\ UNCHANGED <<job, expired, rows, phase, obj, ref, pending, cache>>
    BY <1>11 DEF Read, entities, Goto
  <2>2. \A q \in Runs : StatusOf(q)'
    BY <2>1 DEF StatusKept, StatusOf, Past
  <2>3. \A q \in Runs : Closes(q, "status") => Closes(q, "status")'
    BY <2>1 DEF Closes
  <2> QED
    BY <2>1, <2>2, <2>3, StaysClosed DEF StatusKept
<1>12. ASSUME NEW r \in Runs, Retrieve(r) PROVE StatusKept'
  <2>1. pc[r] = "retrieve" /\ pc' = [pc EXCEPT ![r] = "thumb"]
        /\ UNCHANGED <<job, expired, rows, phase, obj, ref, pending, cache>>
    BY <1>12 DEF Retrieve, entities, Goto
  <2>2. \A q \in Runs : StatusOf(q)'
    BY <2>1 DEF StatusKept, StatusOf, Past
  <2>3. \A q \in Runs : Closes(q, "status") => Closes(q, "status")'
    BY <2>1 DEF Closes
  <2> QED
    BY <2>1, <2>2, <2>3, StaysClosed DEF StatusKept
<1>13. ASSUME NEW r \in Runs, OpenThumb(r) PROVE StatusKept'
  <2>1. pc[r] = "thumb" /\ pc' = [pc EXCEPT ![r] = "write"]
        /\ UNCHANGED <<job, expired, rows, phase, obj, ref, pending, cache>>
    BY <1>13 DEF OpenThumb, entities, Goto
  <2>2. \A q \in Runs : StatusOf(q)'
    BY <2>1 DEF StatusKept, StatusOf, Past
  <2>3. \A q \in Runs : Closes(q, "status") => Closes(q, "status")'
    BY <2>1 DEF Closes
  <2> QED
    BY <2>1, <2>2, <2>3, StaysClosed DEF StatusKept
<1>14. ASSUME NEW r \in Runs, StoreThumb(r) PROVE StatusKept'
  <2>1. Past(r) /\ Mark(r, ref[r], [status |-> "completed", thumb |-> TRUE], "finish")
        /\ UNCHANGED <<job, expired, rows, ref, pending, cache>>
    BY <1>14 DEF StoreThumb, Past
  <2> QED
    BY <2>1, StatusMark, EntityFacts
<1>15. ASSUME NEW r \in Runs, Cleanup(r) PROVE StatusKept'
  <2>1. pc[r] = "cleanup" /\ Mark(r, ref[r], [obj[ref[r]] EXCEPT !.status = "failed"], "fail")
        /\ UNCHANGED <<job, expired, rows, ref, pending, cache>>
    BY <1>15 DEF Cleanup
  <2>2. Image(r) \in expired
    BY <2>1 DEF StatusKept, StatusOf
  <2>3. PICK e \in Entities : Mark(r, ref[r], e, "fail")
    BY <2>1, FailStep
  <2> QED
    BY <2>1, <2>2, <2>3, StatusElsewhere DEF Mark, Goto
<1>16. ASSUME NEW r \in Runs, StepRaises(r) PROVE StatusKept'
  <2>1. Raise(r) /\ UNCHANGED <<job, expired, rows, ref, pending, cache>>
    BY <1>16 DEF StepRaises
  <2>2. CASE pc[r] = "retrieve"
    <3>1. phase[r] = "start" /\ Past(r)
      BY <2>2 DEF RunsInv, Past
    <3>2. PICK e \in Entities : e.status = "failed" /\ Mark(r, ref[r], e, "fail")
      BY <2>1, <3>1, RaiseStep
    <3> QED
      BY <2>1, <3>1, <3>2, StatusMark
  <2>3. CASE pc[r] = "flush" /\ ~Flushable(r)
    <3>1. Image(r) \in expired
      BY <2>3, Flushes
    <3>2. \E l \in {"done", "select", "cleanup"} : pc' = [pc EXCEPT ![r] = l]
      BY <2>1, RaiseMove
    <3>3. /\ \A q \in Runs \ {r} : phase'[q] = phase[q]
          /\ \A q \in Runs \ {ref[r]} : obj'[q] = obj[q]
      BY <2>1, RaiseStep DEF Mark
    <3> QED
      BY <2>1, <3>1, <3>2, <3>3, StatusElsewhere
  <2> QED
    BY <1>16, <2>2, <2>3 DEF StepRaises
<1>17. ASSUME NEW r \in Runs, CallFails(r) PROVE StatusKept'
  BY <1>17 DEF CallFails, Fault, Calm
<1>18. ASSUME NEW r \in Runs, FlushFailsLate(r) PROVE StatusKept'
  BY <1>18 DEF FlushFailsLate, Fault, Calm
<1>19. ASSUME NEW p \in Procs, Crash(p) PROVE StatusKept'
  BY <1>19 DEF Crash, Fault, Calm
<1>20. ASSUME NEW p \in Procs, NEW i \in Images, CacheExpire(p, i) PROVE StatusKept'
  <2>1. /\ \A q \in Procs, k \in Images : cache'[q][k] \in {cache[q][k], None}
        /\ UNCHANGED <<job, expired, rows, pc, phase, obj, ref, pending>>
    BY <1>20 DEF CacheExpire, entities
  <2> QED
    BY <2>1, NoneAssumption DEF StatusKept, StatusOf, StatusClosed, Past, Closes
<1>21. ASSUME NEW p \in Procs, NEW batch \in SUBSET Expirable, SweepRows(p, batch) PROVE StatusKept'
  BY <1>21, AbsentRow
     DEF SweepRows, DeleteRows, entities, bounds, Goto, StatusKept, StatusOf, StatusClosed, Past, Closes
<1>22. ASSUME NEW p \in Procs, SweepInvalidate(p) PROVE StatusKept'
  <2>1. /\ \A q \in Procs, i \in Images : cache'[q][i] \in {cache[q][i], None}
        /\ UNCHANGED <<job, expired, rows, pc, phase, obj, ref, pending>>
    BY <1>22 DEF SweepInvalidate, entities
  <2> QED
    BY <2>1, NoneAssumption DEF StatusKept, StatusOf, StatusClosed, Past, Closes
<1>23. ASSUME NEW batch \in SUBSET Expirable, SweepRowsFailsLate(batch) PROVE StatusKept'
  BY <1>23 DEF SweepRowsFailsLate, Fault, Calm
<1>24. ASSUME NEW s \in sweep, SweepOriginal(s) PROVE StatusKept'
  BY <1>24
     DEF SweepOriginal, entities, bounds, Goto, StatusKept, StatusOf, StatusClosed, Past, Closes
<1>25. ASSUME NEW s \in sweep, SweepThumb(s) PROVE StatusKept'
  BY <1>25
     DEF SweepThumb, entities, bounds, Goto, StatusKept, StatusOf, StatusClosed, Past, Closes
<1>26. ASSUME NEW s \in sweep, SweepFails(s) PROVE StatusKept'
  BY <1>26 DEF SweepFails, Fault, Calm
<1>27. CASE UNCHANGED vars
  BY <1>27 DEF vars, StatusKept, StatusOf, StatusClosed, Past, Closes
<1> QED
  BY <1>1, <1>2, <1>3, <1>4, <1>5, <1>6, <1>7, <1>8, <1>9, <1>10, <1>11, <1>12, <1>13, <1>14,
     <1>15, <1>16, <1>17, <1>18, <1>19, <1>20, <1>21, <1>22, <1>23, <1>24, <1>25, <1>26, <1>27
     DEF Next, Execute

\* Without failing calls and crashes, a row that has not expired is PROCESSING only
\* while a run is at work on the image, whatever the number of runs, the entities
\* they share through the cache and the order of their reads and writes: the last
\* save of a run never writes PROCESSING, and the first is followed by another one.
THEOREM NoStuckProcessing == Spec => []ProcessingIsOwned
<1>1. Init => StatusInv
  BY AbsentRow DEF Init, StatusInv, StatusKept, StatusOf, StatusClosed, Past
<1>2. BaseInv /\ StatusInv /\ [Next]_vars => StatusInv'
  BY StatusStep DEF BaseInv
<1>3. BaseInv /\ StatusInv => ProcessingIsOwned
  <2> SUFFICES ASSUME TypeOK, RunsInv, StatusKept, NEW i \in Images \ expired,
                      rows[i].status = "processing"
               PROVE  \E r \in Runs : Image(r) = i /\ job[r].kind = "process" /\ Active(r)
    BY DEF BaseInv, StatusInv, Calm, ProcessingIsOwned
  <2>1. PICK r \in Runs : Image(r) = i /\ Closes(r, "status")
    BY DEF StatusKept, StatusClosed
  <2> QED
    BY <2>1 DEF RunsInv, Closes, Active, Working
<1> QED
  BY <1>1, <1>2, <1>3, BaseAlways, PTL DEF Spec

-----------------------------------------------------------------------------
(* The thumbnail column.                                                   *)

\* The column stays as it was, and so do the runs that rely on it or will set it.
LEMMA ThumbStays ==
    ASSUME NEW i \in Images, ThumbClosed(i), job' = job, expired \subseteq expired',
           rows'[i] = rows[i],
           \A q \in Runs : Image(q) = i /\ i \notin expired /\ ~rows[i].thumb =>
                               /\ Closes(q, "thumb") => Closes(q, "thumb")'
                               /\ Relies(q)' => Relies(q)
    PROVE  ThumbClosed(i)'
  BY DEF ThumbClosed

\* What a run on an expired image does to its own entity.
LEMMA ThumbElsewhere ==
    ASSUME TypeOK, RunsInv, ThumbKept, NEW r \in Runs, Image(r) \in expired,
           \A q \in Runs \ {r} : pc'[q] = pc[q] /\ phase'[q] = phase[q],
           \A q \in Runs \ {ref[r]} : obj'[q] = obj[q],
           UNCHANGED <<job, expired, rows, ref, pending>>
    PROVE  ThumbKept'
<1> USE DEF TypeOK
<1>0. \A q \in Runs : Image(q) \notin expired => q # r /\ ref[q] \in Runs \ {ref[r]}
  BY DEF RunsInv
<1>1. \A q \in Runs : ThumbOf(q)'
  BY <1>0 DEF ThumbKept, ThumbOf
<1>2. \A q \in Runs : Image(q) \notin expired => /\ Closes(q, "thumb") => Closes(q, "thumb")'
                                                 /\ Relies(q)' => Relies(q)
  BY <1>0 DEF Closes, Relies
<1> QED
  BY <1>1, <1>2, ThumbStays DEF ThumbKept

\* On an image that has not expired no step raises by itself.
LEMMA NoRaise ==
    ASSUME TypeOK, RowsInv, OriginalsKept, NEW r \in Runs,
           \/ pc[r] = "retrieve" /\ Original(Image(r)) \notin disk
           \/ pc[r] = "flush" /\ ~Flushable(r)
    PROVE  Image(r) \in expired
<1>1. CASE pc[r] = "retrieve" /\ Original(Image(r)) \notin disk
  BY <1>1 DEF TypeOK, RowsInv, OriginalsKept, Active
<1>2. CASE pc[r] = "flush" /\ ~Flushable(r)
  BY <1>2, Flushes
<1> QED
  BY <1>1, <1>2

LEMMA ThumbStep ==
    BaseInv /\ StatusInv /\ ThumbInv /\ [Next]_vars => ThumbInv'
<1> SUFFICES ASSUME TypeOK, RunsInv, RowsInv, OriginalsInv, StatusInv, ThumbInv,
                    [Next]_vars, Unshared', Calm'
             PROVE  ThumbKept'
  BY DEF BaseInv, ThumbInv
<1> Unshared /\ Calm /\ OriginalsKept /\ StatusKept /\ ThumbKept
  BY Monotone, UnsharedBefore DEF Forward, OriginalsInv, StatusInv, ThumbInv
<1> USE DEF Working, TypeOK
<1>1. ASSUME NEW i \in Images, UploadOpen(i) PROVE ThumbKept'
  <2>1. UNCHANGED pc
        /\ UNCHANGED <<job, expired, rows, phase, obj, ref, pending>>
    BY <1>1 DEF UploadOpen, entities, bounds, Goto
  <2>2. \A q \in Runs : ThumbOf(q)'
    BY <2>1 DEF ThumbKept, ThumbOf
  <2>3. \A q \in Runs : /\ Closes(q, "thumb") => Closes(q, "thumb")'
                        /\ Relies(q)' => Relies(q)
    BY <2>1 DEF Closes, Relies
  <2> QED
    BY <2>1, <2>2, <2>3, ThumbStays DEF ThumbKept
<1>2. ASSUME NEW i \in Images, UploadStore(i) PROVE ThumbKept'
  <2>1. UNCHANGED pc
        /\ UNCHANGED <<job, expired, rows, phase, obj, ref, pending>>
    BY <1>2 DEF UploadStore, entities, bounds, Goto
  <2>2. \A q \in Runs : ThumbOf(q)'
    BY <2>1 DEF ThumbKept, ThumbOf
  <2>3. \A q \in Runs : /\ Closes(q, "thumb") => Closes(q, "thumb")'
                        /\ Relies(q)' => Relies(q)
    BY <2>1 DEF Closes, Relies
  <2> QED
    BY <2>1, <2>2, <2>3, ThumbStays DEF ThumbKept
<1>3. ASSUME NEW i \in Images, UploadSave(i) PROVE ThumbKept'
  <2>1. /\ upload[i] = "stored" /\ rows' = [rows EXCEPT ![i] = Uploaded]
        /\ UNCHANGED <<job, expired, pc, phase, obj, ref, pending>>
    BY <1>3 DEF UploadSave, entities
  <2>2. Uploaded.status # "completed"
    BY EntityFacts
  <2>3. \A q \in Runs : Image(q) = i => pc[q] # "flush"
    BY <2>1 DEF RowsInv, Active
  <2>4. \A q \in Runs : ThumbOf(q)'
    BY <2>1 DEF ThumbKept, ThumbOf
  <2>5. \A k \in Images : ThumbClosed(k)'
    BY <2>1, <2>2, <2>3 DEF ThumbKept, ThumbClosed, Relies, Closes
  <2> QED
    BY <2>4, <2>5 DEF ThumbKept
<1>4. ASSUME NEW i \in Images, UploadFails(i) PROVE ThumbKept'
  BY <1>4 DEF UploadFails, Fault, Calm
<1>5. ASSUME NEW i \in Images, Expire(i) PROVE ThumbKept'
  <2>1. expired \subseteq expired' /\ UNCHANGED <<job, rows, pc, phase, obj, ref, pending>>
    BY <1>5 DEF Expire, entities
  <2>2. \A q \in Runs : ThumbOf(q)'
    BY <2>1 DEF ThumbKept, ThumbOf
  <2>3. \A q \in Runs : /\ Closes(q, "thumb") => Closes(q, "thumb")'
                        /\ Relies(q)' => Relies(q)
    BY <2>1 DEF Closes, Relies
  <2> QED
    BY <2>1, <2>2, <2>3, ThumbStays DEF ThumbKept
<1>6. ASSUME NEW r \in Runs, Get(r) PROVE ThumbKept'
  <2> USE <1>6, GetStep
  <2>0. pc[r] = "get" /\ phase[r] = "start" /\ UNCHANGED <<job, expired, rows, pending>>
    BY DEF RunsInv
  <2>1. CASE \E hit \in Runs : Hits(r, hit)
    <3> PICK hit \in Runs : Hits(r, hit)
      BY <2>1
    <3>1. ref' = [ref EXCEPT ![r] = hit]
      BY DEF Hits
    <3>2. CASE UNCHANGED <<obj, phase>> /\ (Goto(r, "done") \/ Goto(r, "read"))
      <4> USE DEF Goto
      <4>1. \A q \in Runs : ThumbOf(q)'
        BY <2>0, <3>1, <3>2 DEF ThumbKept, ThumbOf
      <4>2. \A q \in Runs : /\ Closes(q, "thumb") => Closes(q, "thumb")'
                            /\ Relies(q)' => Relies(q)
        BY <2>0, <3>1, <3>2 DEF Closes, Relies
      <4> QED
        BY <2>0, <3>1, <3>2, <4>1, <4>2, ThumbStays DEF ThumbKept
    <3>3. CASE \E e \in Entities : /\ e.status = "processing" /\ e.thumb = obj[hit].thumb
                                  /\ Mark(r, hit, e, "start")
      <4>1. PICK e \in Entities : /\ e.status = "processing" /\ e.thumb = obj[hit].thumb
                                  /\ obj' = [obj EXCEPT ![hit] = e]
                                  /\ phase' = [phase EXCEPT ![r] = "start"]
                                  /\ pc' = [pc EXCEPT ![r] = "select"]
        BY <3>3 DEF Mark, Goto
      <4>2. phase' = phase
        BY <2>0, <4>1
      <4>3. \A q \in Runs : ThumbOf(q)'
        BY <2>0, <3>1, <4>1, <4>2 DEF ThumbKept, ThumbOf
      <4>4. \A q \in Runs : /\ Closes(q, "thumb") => Closes(q, "thumb")'
                            /\ Relies(q)' => Relies(q)
        BY <2>0, <3>1, <4>1, <4>2 DEF Closes, Relies
      <4> QED
        BY <2>0, <3>1, <4>1, <4>2, <4>3, <4>4, ThumbStays DEF ThumbKept
    <3> QED
      BY <3>2, <3>3, BeginStep DEF Hits
  <2>2. CASE ~Present(Image(r)) /\ Goto(r, "done") /\ UNCHANGED <<obj, ref, phase>>
    <3> USE DEF Goto
    <3>1. \A q \in Runs : ThumbOf(q)'
      BY <2>0, <2>2 DEF ThumbKept, ThumbOf
    <3>2. \A q \in Runs : /\ Closes(q, "thumb") => Closes(q, "thumb")'
                          /\ Relies(q)' => Relies(q)
      BY <2>0, <2>2 DEF Closes, Relies
    <3> QED
      BY <2>0, <2>2, <3>1, <3>2, ThumbStays DEF ThumbKept
  <2>3. CASE Misses(r)
    <3>1. /\ obj' = [obj EXCEPT ![r] = rows[Image(r)]] /\ pc' = [pc EXCEPT ![r] = "fill"]
          /\ UNCHANGED <<ref, phase>>
      BY <2>3 DEF Misses, Goto
    <3>2. \A q \in Runs : ref[q] = r => q = r
      BY <2>0 DEF RunsInv
    <3>3. \A q \in Runs : ThumbOf(q)'
      BY <2>0, <3>1, <3>2 DEF ThumbKept, ThumbOf
    <3>4. \A q \in Runs : /\ Closes(q, "thumb") => Closes(q, "thumb")'
                          /\ Relies(q)' => Relies(q)
      BY <2>0, <3>1, <3>2 DEF Closes, Relies
    <3> QED
      BY <2>0, <3>1, <3>2, <3>3, <3>4, ThumbStays DEF ThumbKept
  <2> QED
    BY <2>1, <2>2, <2>3
<1>7. ASSUME NEW r \in Runs, Fill(r) PROVE ThumbKept'
  <2>1. pc[r] = "fill" /\ phase[r] = "start" /\ ref[r] = r
        /\ UNCHANGED <<job, expired, rows, pending, ref>>
    BY <1>7 DEF Fill, RunsInv
  <2>2. CASE UNCHANGED <<obj, phase>> /\ (Goto(r, "done") \/ Goto(r, "read"))
    <3> USE DEF Goto
    <3>1. \A q \in Runs : ThumbOf(q)'
      BY <2>1, <2>2 DEF ThumbKept, ThumbOf
    <3>2. \A q \in Runs : /\ Closes(q, "thumb") => Closes(q, "thumb")'
                          /\ Relies(q)' => Relies(q)
      BY <2>1, <2>2 DEF Closes, Relies
    <3> QED
      BY <2>1, <2>2, <3>1, <3>2, ThumbStays DEF ThumbKept
  <2>3. CASE \E e \in Entities : /\ e.status = "processing" /\ e.thumb = obj[r].thumb
                                /\ Mark(r, r, e, "start")
    <3>1. PICK e \in Entities : /\ e.status = "processing" /\ e.thumb = obj[r].thumb
                                /\ obj' = [obj EXCEPT ![r] = e]
                                /\ phase' = [phase EXCEPT ![r] = "start"]
                                /\ pc' = [pc EXCEPT ![r] = "select"]
      BY <2>3 DEF Mark, Goto
    <3>2. phase' = phase
      BY <2>1, <3>1
    <3>3. \A q \in Runs : ThumbOf(q)'
      BY <2>1, <3>1, <3>2 DEF ThumbKept, ThumbOf
    <3>4. \A q \in Runs : /\ Closes(q, "thumb") => Closes(q, "thumb")'
                          /\ Relies(q)' => Relies(q)
      BY <2>1, <3>1, <3>2 DEF Closes, Relies
    <3> QED
      BY <2>1, <3>1, <3>2, <3>3, <3>4, ThumbStays DEF ThumbKept
  <2> QED
    BY <1>7, <2>2, <2>3, BeginStep DEF Fill
<1>8. ASSUME NEW r \in Runs, SaveSelect(r) PROVE ThumbKept'
  <2>1. /\ pc[r] = "select" /\ pc' = [pc EXCEPT ![r] = "flush"]
        /\ UNCHANGED <<job, expired, rows, phase, obj, ref>>
        /\ \A q \in Runs \ {r} : pending'[q] = pending[q]
    BY <1>8 DEF SaveSelect, Goto
  <2>2. /\ pending'[r].entity = obj[ref[r]]
        /\ pending'[r].columns = Changed(obj[ref[r]], rows[Image(r)])
    BY <1>8 DEF SaveSelect
  <2>3. \A q \in Runs : ThumbOf(q)'
    BY <2>1, <2>2 DEF ThumbKept, ThumbOf
  <2>4. obj[ref[r]].thumb /\ ~rows[Image(r)].thumb => "thumb" \in pending'[r].columns
    BY <2>2 DEF Changed
  <2>5. ~rows[Image(r)].thumb => ~Relies(r)'
    BY <2>2, <2>4 DEF Relies
  <2>6. Image(r) \notin expired /\ ~rows[Image(r)].thumb /\ phase[r] # "start" =>
           "thumb" \in pending'[r].columns
    BY <2>4 DEF ThumbKept, ThumbOf
  <2>7. \A q \in Runs : Image(q) \notin expired /\ ~rows[Image(q)].thumb =>
           /\ Closes(q, "thumb") => Closes(q, "thumb")'
           /\ Relies(q)' => Relies(q)
    BY <2>1, <2>5, <2>6 DEF Closes, Relies
  <2> QED
    BY <2>1, <2>3, <2>7, ThumbStays DEF ThumbKept
<1>9. ASSUME NEW r \in Runs, SaveFlush(r) PROVE ThumbKept'
  <2>1. /\ pc[r] = "flush" /\ pc' = [pc EXCEPT ![r] = "invalidate"]
        /\ rows' = [rows EXCEPT ![Image(r)] = Written(r)]
        /\ UNCHANGED <<job, expired, phase, obj, ref, pending>>
    BY <1>9 DEF SaveFlush, entities, Goto
  <2>2. Image(r) \notin expired =>
           Written(r).thumb = IF "thumb" \in pending[r].columns
                              THEN pending[r].entity.thumb ELSE rows[Image(r)].thumb
    BY <1>9, <2>1, WrittenType DEF SaveFlush, RowsInv
  <2>3. \A q \in Runs : ThumbOf(q)'
    BY <2>1 DEF ThumbKept, ThumbOf
  <2>4. \A q \in Runs \ {r} : Closes(q, "thumb") => Closes(q, "thumb")'
    BY <2>1 DEF Closes
  <2>5. \A q \in Runs : Relies(q)' => Relies(q)
    BY <2>1 DEF Relies
  <2>6. \A i \in Images \ {Image(r)} : ThumbClosed(i)'
    BY <2>1, <2>4, <2>5, ThumbStays DEF ThumbKept
  <2>7. PICK i \in Images : i = Image(r)
    OBVIOUS
  <2>8. ThumbClosed(i)'
    <3>1. CASE i \in expired \/ Written(r).thumb
      BY <2>1, <2>7, <3>1 DEF ThumbClosed
    <3>2. CASE phase[r] = "start"
      <4>1. Closes(r, "thumb")'
        BY <2>1, <3>2 DEF Closes
      <4> QED
        BY <2>1, <2>7, <4>1 DEF ThumbClosed
    <3>3. CASE i \notin expired /\ ~Written(r).thumb /\ phase[r] # "start"
      <4>1. pending[r].entity.thumb
        BY <2>1, <2>7, <3>3 DEF ThumbKept, ThumbOf
      <4>2. "thumb" \notin pending[r].columns /\ ~rows[i].thumb
        BY <2>2, <2>7, <3>3, <4>1
      <4>3. Relies(r) /\ ~Closes(r, "thumb")
        BY <2>1, <3>3, <4>1, <4>2 DEF Relies, Closes
      <4>4. PICK q \in Runs : Image(q) = i /\ Closes(q, "thumb")
        BY <2>7, <3>3, <4>2, <4>3 DEF ThumbKept, ThumbClosed
      <4>5. Closes(q, "thumb")'
        BY <2>4, <4>3, <4>4
      <4> QED
        BY <2>1, <4>4, <4>5 DEF ThumbClosed
    <3> QED
      BY <3>1, <3>2, <3>3
  <2> QED
    BY <2>3, <2>6, <2>7, <2>8 DEF ThumbKept
<1>10. ASSUME NEW r \in Runs, Invalidate(r) PROVE ThumbKept'
  <2>1. pc[r] = "invalidate"
        /\ pc' = [pc EXCEPT ![r] = IF phase[r] = "start" THEN "retrieve" ELSE "done"]
        /\ UNCHANGED <<job, expired, rows, phase, obj, ref, pending>>
    BY <1>10 DEF Invalidate, entities, bounds, Goto
  <2>2. \A q \in Runs : ThumbOf(q)'
    BY <2>1 DEF ThumbKept, ThumbOf
  <2>3. \A q \in Runs : /\ Closes(q, "thumb") => Closes(q, "thumb")'
                        /\ Relies(q)' => Relies(q)
    BY <2>1 DEF Closes, Relies
  <2> QED
    BY <2>1, <2>2, <2>3, ThumbStays DEF ThumbKept
<1>11. ASSUME NEW r \in Runs, Read(r) PROVE ThumbKept'
  <2>1. pc[r] = "read" /\ \E l \in {"done", "torn"} : pc' = [pc EXCEPT ![r] = l]
        /\ UNCHANGED <<job, expired, rows, phase, obj, ref, pending>>
    BY <1>11 DEF Read, entities, bounds, Goto
  <2>2. \A q \in Runs : ThumbOf(q)'
    BY <2>1 DEF ThumbKept, ThumbOf
  <2>3. \A q \in Runs : /\ Closes(q, "thumb") => Closes(q, "thumb")'
                        /\ Relies(q)' => Relies(q)
    BY <2>1 DEF Closes, Relies
  <2> QED
    BY <2>1, <2>2, <2>3, ThumbStays DEF ThumbKept
<1>12. ASSUME NEW r \in Runs, Retrieve(r) PROVE ThumbKept'
  <2>1. pc[r] = "retrieve" /\ pc' = [pc EXCEPT ![r] = "thumb"]
        /\ UNCHANGED <<job, expired, rows, phase, obj, ref, pending>>
    BY <1>12 DEF Retrieve, entities, bounds, Goto
  <2>2. \A q \in Runs : ThumbOf(q)'
    BY <2>1 DEF ThumbKept, ThumbOf
  <2>3. \A q \in Runs : /\ Closes(q, "thumb") => Closes(q, "thumb")'
                        /\ Relies(q)' => Relies(q)
    BY <2>1 DEF Closes, Relies
  <2> QED
    BY <2>1, <2>2, <2>3, ThumbStays DEF ThumbKept
<1>13. ASSUME NEW r \in Runs, OpenThumb(r) PROVE ThumbKept'
  <2>1. pc[r] = "thumb" /\ pc' = [pc EXCEPT ![r] = "write"]
        /\ UNCHANGED <<job, expired, rows, phase, obj, ref, pending>>
    BY <1>13 DEF OpenThumb, entities, bounds, Goto
  <2>2. \A q \in Runs : ThumbOf(q)'
    BY <2>1 DEF ThumbKept, ThumbOf
  <2>3. \A q \in Runs : /\ Closes(q, "thumb") => Closes(q, "thumb")'
                        /\ Relies(q)' => Relies(q)
    BY <2>1 DEF Closes, Relies
  <2> QED
    BY <2>1, <2>2, <2>3, ThumbStays DEF ThumbKept
<1>14. ASSUME NEW r \in Runs, StoreThumb(r) PROVE ThumbKept'
  <2>1. /\ pc[r] = "write" /\ phase[r] = "start"
        /\ pc' = [pc EXCEPT ![r] = "select"] /\ phase' = [phase EXCEPT ![r] = "finish"]
        /\ obj' = [obj EXCEPT ![ref[r]] = [status |-> "completed", thumb |-> TRUE]]
        /\ UNCHANGED <<job, expired, rows, ref, pending>>
    BY <1>14 DEF StoreThumb, Mark, Goto, RunsInv
  <2>2. \A q \in Runs : ThumbOf(q)'
    BY <2>1 DEF ThumbKept, ThumbOf
  <2>3. \A q \in Runs : /\ Closes(q, "thumb") => Closes(q, "thumb")'
                        /\ Relies(q)' => Relies(q)
    BY <2>1 DEF Closes, Relies
  <2> QED
    BY <2>1, <2>2, <2>3, ThumbStays DEF ThumbKept
<1>15. ASSUME NEW r \in Runs, Cleanup(r) PROVE ThumbKept'
  <2>1. pc[r] = "cleanup" /\ Mark(r, ref[r], [obj[ref[r]] EXCEPT !.status = "failed"], "fail")
        /\ UNCHANGED <<job, expired, rows, ref, pending>>
    BY <1>15 DEF Cleanup
  <2>2. Image(r) \in expired
    BY <2>1 DEF StatusKept, StatusOf
  <2>3. PICK e \in Entities : Mark(r, ref[r], e, "fail")
    BY <2>1, FailStep
  <2> QED
    BY <2>1, <2>2, <2>3, ThumbElsewhere DEF Mark, Goto
<1>16. ASSUME NEW r \in Runs, StepRaises(r) PROVE ThumbKept'
  <2>1. Raise(r) /\ UNCHANGED <<job, expired, rows, ref, pending>>
    BY <1>16 DEF StepRaises
  <2>2. Image(r) \in expired
    BY <1>16, NoRaise DEF StepRaises
  <2>3. \E l \in {"done", "select", "cleanup"} : pc' = [pc EXCEPT ![r] = l]
    BY <2>1, RaiseMove
  <2>4. /\ \A q \in Runs \ {r} : phase'[q] = phase[q]
        /\ \A q \in Runs \ {ref[r]} : obj'[q] = obj[q]
    BY <2>1, RaiseStep DEF Mark
  <2> QED
    BY <2>1, <2>2, <2>3, <2>4, ThumbElsewhere
<1>17. ASSUME NEW r \in Runs, CallFails(r) PROVE ThumbKept'
  BY <1>17 DEF CallFails, Fault, Calm
<1>18. ASSUME NEW r \in Runs, FlushFailsLate(r) PROVE ThumbKept'
  BY <1>18 DEF FlushFailsLate, Fault, Calm
<1>19. ASSUME NEW p \in Procs, Crash(p) PROVE ThumbKept'
  BY <1>19 DEF Crash, Fault, Calm
<1>20. ASSUME NEW p \in Procs, NEW i \in Images, CacheExpire(p, i) PROVE ThumbKept'
  <2>1. UNCHANGED pc
        /\ UNCHANGED <<job, expired, rows, phase, obj, ref, pending>>
    BY <1>20 DEF CacheExpire, entities, bounds, Goto
  <2>2. \A q \in Runs : ThumbOf(q)'
    BY <2>1 DEF ThumbKept, ThumbOf
  <2>3. \A q \in Runs : /\ Closes(q, "thumb") => Closes(q, "thumb")'
                        /\ Relies(q)' => Relies(q)
    BY <2>1 DEF Closes, Relies
  <2> QED
    BY <2>1, <2>2, <2>3, ThumbStays DEF ThumbKept
<1>21. ASSUME NEW p \in Procs, NEW batch \in SUBSET Expirable, SweepRows(p, batch) PROVE ThumbKept'
  <2>1. /\ \A i \in Images \ expired : rows'[i] = rows[i]
        /\ UNCHANGED <<job, expired, pc, phase, obj, ref, pending>>
    BY <1>21 DEF SweepRows, DeleteRows, Expirable, entities
  <2>2. \A q \in Runs : ThumbOf(q)'
    BY <2>1 DEF ThumbKept, ThumbOf
  <2>3. \A i \in Images : ThumbClosed(i)'
    BY <2>1 DEF ThumbKept, ThumbClosed, Relies, Closes
  <2> QED
    BY <2>2, <2>3 DEF ThumbKept
<1>22. ASSUME NEW p \in Procs, SweepInvalidate(p) PROVE ThumbKept'
  <2>1. UNCHANGED pc
        /\ UNCHANGED <<job, expired, rows, phase, obj, ref, pending>>
    BY <1>22 DEF SweepInvalidate, entities, bounds, Goto
  <2>2. \A q \in Runs : ThumbOf(q)'
    BY <2>1 DEF ThumbKept, ThumbOf
  <2>3. \A q \in Runs : /\ Closes(q, "thumb") => Closes(q, "thumb")'
                        /\ Relies(q)' => Relies(q)
    BY <2>1 DEF Closes, Relies
  <2> QED
    BY <2>1, <2>2, <2>3, ThumbStays DEF ThumbKept
<1>23. ASSUME NEW batch \in SUBSET Expirable, SweepRowsFailsLate(batch) PROVE ThumbKept'
  BY <1>23 DEF SweepRowsFailsLate, Fault, Calm
<1>24. ASSUME NEW s \in sweep, SweepOriginal(s) PROVE ThumbKept'
  <2>1. UNCHANGED pc
        /\ UNCHANGED <<job, expired, rows, phase, obj, ref, pending>>
    BY <1>24 DEF SweepOriginal, entities, bounds, Goto
  <2>2. \A q \in Runs : ThumbOf(q)'
    BY <2>1 DEF ThumbKept, ThumbOf
  <2>3. \A q \in Runs : /\ Closes(q, "thumb") => Closes(q, "thumb")'
                        /\ Relies(q)' => Relies(q)
    BY <2>1 DEF Closes, Relies
  <2> QED
    BY <2>1, <2>2, <2>3, ThumbStays DEF ThumbKept
<1>25. ASSUME NEW s \in sweep, SweepThumb(s) PROVE ThumbKept'
  <2>1. UNCHANGED pc
        /\ UNCHANGED <<job, expired, rows, phase, obj, ref, pending>>
    BY <1>25 DEF SweepThumb, entities, bounds, Goto
  <2>2. \A q \in Runs : ThumbOf(q)'
    BY <2>1 DEF ThumbKept, ThumbOf
  <2>3. \A q \in Runs : /\ Closes(q, "thumb") => Closes(q, "thumb")'
                        /\ Relies(q)' => Relies(q)
    BY <2>1 DEF Closes, Relies
  <2> QED
    BY <2>1, <2>2, <2>3, ThumbStays DEF ThumbKept
<1>26. ASSUME NEW s \in sweep, SweepFails(s) PROVE ThumbKept'
  BY <1>26 DEF SweepFails, Fault, Calm
<1>27. CASE UNCHANGED vars
  BY <1>27 DEF vars, ThumbKept, ThumbOf, ThumbClosed, Relies, Closes
<1> QED
  BY <1>1, <1>2, <1>3, <1>4, <1>5, <1>6, <1>7, <1>8, <1>9, <1>10, <1>11, <1>12, <1>13, <1>14,
     <1>15, <1>16, <1>17, <1>18, <1>19, <1>20, <1>21, <1>22, <1>23, <1>24, <1>25, <1>26, <1>27
     DEF Next, Execute

\* README.md:71-72: where nothing fails, any number of runs that race on a row and
\* write it column by column leave it COMPLETED only with the name of its thumbnail.
THEOREM CompletedRowsAreWhole == Spec => []CompletedNamesThumb
<1>1. Init => StatusInv /\ ThumbInv
  BY AbsentRow DEF Init, StatusInv, StatusKept, StatusOf, StatusClosed, Past, ThumbInv, ThumbKept,
         ThumbOf, ThumbClosed, Relies, Working
<1>2. BaseInv /\ StatusInv /\ ThumbInv /\ [Next]_vars => (StatusInv /\ ThumbInv)'
  BY StatusStep, ThumbStep DEF BaseInv
<1>3. ThumbInv => CompletedNamesThumb
  BY DEF ThumbInv, Calm, ThumbKept, ThumbClosed, Closes, Working, CompletedNamesThumb, AtRest, Active
<1> QED
  BY <1>1, <1>2, <1>3, BaseAlways, PTL DEF Spec

-----------------------------------------------------------------------------
(* Thumbnails on disk, and downloads.                                      *)

LEMMA GivenUpStays ==
    ASSUME TypeOK, RunsInv, [Next]_vars, NEW q \in Runs, GivenUp(q)
    PROVE  GivenUp(q)'
<1> USE DEF Working, TypeOK, GivenUp
<1>1. ASSUME NEW i \in Images, UploadOpen(i) PROVE GivenUp(q)'
  BY <1>1 DEF UploadOpen, entities, bounds, Goto
<1>2. ASSUME NEW i \in Images, UploadStore(i) PROVE GivenUp(q)'
  BY <1>2 DEF UploadStore, entities, bounds, Goto
<1>3. ASSUME NEW i \in Images, UploadSave(i) PROVE GivenUp(q)'
  BY <1>3 DEF UploadSave, entities, bounds, Goto
<1>4. ASSUME NEW i \in Images, UploadFails(i) PROVE GivenUp(q)'
  BY <1>4 DEF UploadFails, entities, bounds, Goto
<1>5. ASSUME NEW i \in Images, Expire(i) PROVE GivenUp(q)'
  BY <1>5 DEF Expire, entities, bounds, Goto
<1>6. ASSUME NEW r \in Runs, Get(r) PROVE GivenUp(q)'
  <2>1. pc[r] = "get" /\ phase[r] = "start"
    BY <1>6, GetStep DEF RunsInv
  <2>2. q # r
    BY <2>1
  <2>3. PICK l : pc' = [pc EXCEPT ![r] = l]
    BY <1>6, GetMoves
  <2>4. phase'[q] = phase[q]
    BY <1>6, <2>2 DEF Get, Begin, Mark
  <2> QED
    BY <2>2, <2>3, <2>4
<1>7. ASSUME NEW r \in Runs, Fill(r) PROVE GivenUp(q)'
  <2>1. q # r
    BY <1>7 DEF Fill, RunsInv
  <2> QED
    BY <1>7, <2>1 DEF Fill, Begin, Mark, Goto
<1>8. ASSUME NEW r \in Runs, SaveSelect(r) PROVE GivenUp(q)'
  BY <1>8 DEF SaveSelect, entities, bounds, Goto
<1>9. ASSUME NEW r \in Runs, SaveFlush(r) PROVE GivenUp(q)'
  BY <1>9 DEF SaveFlush, entities, bounds, Goto
<1>10. ASSUME NEW r \in Runs, Invalidate(r) PROVE GivenUp(q)'
  BY <1>10 DEF Invalidate, entities, bounds, Goto
<1>11. ASSUME NEW r \in Runs, Read(r) PROVE GivenUp(q)'
  BY <1>11 DEF Read, entities, bounds, Goto
<1>12. ASSUME NEW r \in Runs, Retrieve(r) PROVE GivenUp(q)'
  BY <1>12 DEF Retrieve, entities, bounds, Goto
<1>13. ASSUME NEW r \in Runs, OpenThumb(r) PROVE GivenUp(q)'
  BY <1>13 DEF OpenThumb, entities, bounds, Goto
<1>14. ASSUME NEW r \in Runs, StoreThumb(r) PROVE GivenUp(q)'
  <2>1. q # r
    BY <1>14 DEF StoreThumb, RunsInv
  <2> QED
    BY <1>14, <2>1 DEF StoreThumb, Mark, Goto
<1>15. ASSUME NEW r \in Runs, Cleanup(r) PROVE GivenUp(q)'
  BY <1>15 DEF Cleanup, Mark, Goto
<1>16. ASSUME NEW r \in Runs, StepRaises(r) PROVE GivenUp(q)'
  BY <1>16, RaiseMove DEF StepRaises
<1>17. ASSUME NEW r \in Runs, CallFails(r) PROVE GivenUp(q)'
  BY <1>17, RaiseMove DEF CallFails, Mark, Goto
<1>18. ASSUME NEW r \in Runs, FlushFailsLate(r) PROVE GivenUp(q)'
  BY <1>18, RaiseMove DEF FlushFailsLate
<1>19. ASSUME NEW p \in Procs, Crash(p) PROVE GivenUp(q)'
  BY <1>19 DEF Crash, entities, bounds, Goto
<1>20. ASSUME NEW p \in Procs, NEW i \in Images, CacheExpire(p, i) PROVE GivenUp(q)'
  BY <1>20 DEF CacheExpire, entities, bounds, Goto
<1>21. ASSUME NEW p \in Procs, NEW batch \in SUBSET Expirable, SweepRows(p, batch)
       PROVE  GivenUp(q)'
  BY <1>21 DEF SweepRows, entities, bounds, Goto
<1>22. ASSUME NEW p \in Procs, SweepInvalidate(p) PROVE GivenUp(q)'
  BY <1>22 DEF SweepInvalidate, entities, bounds, Goto
<1>23. ASSUME NEW batch \in SUBSET Expirable, SweepRowsFailsLate(batch) PROVE GivenUp(q)'
  BY <1>23 DEF SweepRowsFailsLate, entities, bounds, Goto
<1>24. ASSUME NEW s \in sweep, SweepOriginal(s) PROVE GivenUp(q)'
  BY <1>24 DEF SweepOriginal, entities, bounds, Goto
<1>25. ASSUME NEW s \in sweep, SweepThumb(s) PROVE GivenUp(q)'
  BY <1>25 DEF SweepThumb, entities, bounds, Goto
<1>26. ASSUME NEW s \in sweep, SweepFails(s) PROVE GivenUp(q)'
  BY <1>26 DEF SweepFails, entities, bounds, Goto
<1>27. CASE UNCHANGED vars
  BY <1>27 DEF vars
<1> QED
  BY <1>1, <1>2, <1>3, <1>4, <1>5, <1>6, <1>7, <1>8, <1>9, <1>10, <1>11, <1>12, <1>13, <1>14,
     <1>15, <1>16, <1>17, <1>18, <1>19, <1>20, <1>21, <1>22, <1>23, <1>24, <1>25, <1>26, <1>27
     DEF Next, Execute

\* A thumbnail is lost only to a run on its image that rewrites it or gives up.
LEMMA DiskStays ==
    ASSUME TypeOK, RunsInv, RowsInv, Unshared, [Next]_vars,
           NEW i \in Images, i \notin expired', OnDisk(i)
    PROVE  OnDisk(i)'
<1> i \notin expired /\ job' = job
  BY Monotone DEF Forward
<1> Apart
  BY PathsApart
<1>0. CASE \E r \in Runs : Image(r) = i /\ GivenUp(r)
  <2> PICK r \in Runs : Image(r) = i /\ GivenUp(r)
    BY <1>0
  <2> QED
    BY GivenUpStays DEF GivenUp, OnDisk, Spoils
<1> SUFFICES ASSUME Thumbnail(i) \in disk \/ \E r \in Runs : Image(r) = i /\ pc[r] = "write"
             PROVE  OnDisk(i)'
  BY <1>0 DEF GivenUp, OnDisk, Spoils
<1> USE DEF Working, TypeOK, Spoils
<1>1. ASSUME NEW k \in Images, UploadOpen(k) PROVE OnDisk(i)'
  BY <1>1 DEF UploadOpen, Apart, OnDisk, entities, bounds, Goto
<1>2. ASSUME NEW k \in Images, UploadStore(k) PROVE OnDisk(i)'
  BY <1>2 DEF UploadStore, OnDisk, entities, bounds, Goto
<1>3. ASSUME NEW k \in Images, UploadSave(k) PROVE OnDisk(i)'
  BY <1>3 DEF UploadSave, OnDisk, entities, bounds, Goto
<1>4. ASSUME NEW k \in Images, UploadFails(k) PROVE OnDisk(i)'
  BY <1>4 DEF UploadFails, OnDisk, entities
<1>5. ASSUME NEW k \in Images, Expire(k) PROVE OnDisk(i)'
  BY <1>5 DEF Expire, OnDisk, entities, bounds, Goto
<1>6. ASSUME NEW r \in Runs, Get(r) PROVE OnDisk(i)'
  <2>1. pc[r] = "get" /\ (\A q \in Runs \ {r} : pc'[q] = pc[q]) /\ UNCHANGED <<payload, job, disk>>
    <3>1. PICK l : pc' = [pc EXCEPT ![r] = l]
      BY <1>6, GetMoves
    <3>2. pc[r] = "get" /\ UNCHANGED <<payload, job, disk>>
      BY <1>6 DEF Get
    <3> QED
      BY <3>1, <3>2 DEF TypeOK
  <2> QED
    BY <2>1 DEF OnDisk
<1>7. ASSUME NEW r \in Runs, Fill(r) PROVE OnDisk(i)'
  <2>1. pc[r] = "fill" /\ (\A q \in Runs \ {r} : pc'[q] = pc[q]) /\ UNCHANGED <<payload, job, disk>>
    BY <1>7 DEF Fill, Begin, Mark, Goto
  <2> QED
    BY <2>1 DEF OnDisk
<1>8. ASSUME NEW r \in Runs, SaveSelect(r) PROVE OnDisk(i)'
  BY <1>8 DEF SaveSelect, OnDisk, entities, bounds, Goto
<1>9. ASSUME NEW r \in Runs, SaveFlush(r) PROVE OnDisk(i)'
  BY <1>9 DEF SaveFlush, OnDisk, entities, bounds, Goto
<1>10. ASSUME NEW r \in Runs, Invalidate(r) PROVE OnDisk(i)'
  BY <1>10 DEF Invalidate, OnDisk, entities, bounds, Goto
<1>11. ASSUME NEW r \in Runs, Read(r) PROVE OnDisk(i)'
  BY <1>11 DEF Read, OnDisk, entities, bounds, Goto
<1>12. ASSUME NEW r \in Runs, Retrieve(r) PROVE OnDisk(i)'
  BY <1>12 DEF Retrieve, OnDisk, entities, bounds, Goto
<1>13. ASSUME NEW r \in Runs, OpenThumb(r) PROVE OnDisk(i)'
  <2>1. /\ pc' = [pc EXCEPT ![r] = "write"] /\ disk' = disk \ {Thumbnail(Image(r))}
        /\ UNCHANGED <<payload, job>>
    BY <1>13 DEF OpenThumb, Goto
  <2>2. Image(r) # i => Thumbnail(Image(r)) # Thumbnail(i)
    BY DEF Apart
  <2> QED
    BY <2>1, <2>2 DEF OnDisk
<1>14. ASSUME NEW r \in Runs, StoreThumb(r) PROVE OnDisk(i)'
  <2>1. /\ pc' = [pc EXCEPT ![r] = "select"] /\ disk' = disk \cup {Thumbnail(Image(r))}
        /\ UNCHANGED <<payload, job>>
    BY <1>14 DEF StoreThumb, Mark, Goto
  <2> QED
    BY <2>1 DEF OnDisk
<1>15. ASSUME NEW r \in Runs, Cleanup(r) PROVE OnDisk(i)'
  <2>1. /\ pc[r] = "cleanup" /\ pc' = [pc EXCEPT ![r] = "select"]
        /\ phase' = [phase EXCEPT ![r] = "fail"]
        /\ disk' = disk \ {Thumbnail(Image(r))} /\ UNCHANGED payload
    BY <1>15 DEF Cleanup, Mark, Goto
  <2>2. Image(r) # i => Thumbnail(Image(r)) # Thumbnail(i)
    BY DEF Apart
  <2> QED
    BY <2>1, <2>2 DEF OnDisk
<1>16. ASSUME NEW r \in Runs, StepRaises(r) PROVE OnDisk(i)'
  <2>1. pc[r] # "write" /\ UNCHANGED <<payload, job, disk>>
    BY <1>16 DEF StepRaises
  <2>2. \A q \in Runs \ {r} : pc'[q] = pc[q]
    BY <1>16, RaiseMove DEF StepRaises
  <2> QED
    BY <2>1, <2>2 DEF OnDisk
<1>17. ASSUME NEW r \in Runs, CallFails(r) PROVE OnDisk(i)'
  <2>1. UNCHANGED <<payload, disk>>
    BY <1>17 DEF CallFails
  <2>2. (\A q \in Runs \ {r} : pc'[q] = pc[q]) /\ (pc[r] = "write" => phase'[r] = "fail")
    BY <1>17, RaiseMove DEF CallFails, RunsInv, Mark, Goto
  <2> QED
    BY <2>1, <2>2 DEF OnDisk
<1>18. ASSUME NEW r \in Runs, FlushFailsLate(r) PROVE OnDisk(i)'
  <2>1. pc[r] # "write" /\ UNCHANGED <<payload, disk>>
    BY <1>18 DEF FlushFailsLate
  <2>2. \A q \in Runs \ {r} : pc'[q] = pc[q]
    BY <1>18, RaiseMove DEF FlushFailsLate
  <2> QED
    BY <2>1, <2>2 DEF OnDisk
<1>19. ASSUME NEW p \in Procs, Crash(p) PROVE OnDisk(i)'
  BY <1>19 DEF Crash, OnDisk
<1>20. ASSUME NEW p \in Procs, NEW k \in Images, CacheExpire(p, k) PROVE OnDisk(i)'
  BY <1>20 DEF CacheExpire, OnDisk, entities, bounds, Goto
<1>21. ASSUME NEW p \in Procs, NEW batch \in SUBSET Expirable, SweepRows(p, batch) PROVE OnDisk(i)'
  BY <1>21 DEF SweepRows, OnDisk, entities, bounds, Goto
<1>22. ASSUME NEW p \in Procs, SweepInvalidate(p) PROVE OnDisk(i)'
  BY <1>22 DEF SweepInvalidate, OnDisk, entities, bounds, Goto
<1>23. ASSUME NEW batch \in SUBSET Expirable, SweepRowsFailsLate(batch) PROVE OnDisk(i)'
  BY <1>23 DEF SweepRowsFailsLate, OnDisk, entities
<1>24. ASSUME NEW s \in sweep, SweepOriginal(s) PROVE OnDisk(i)'
  BY <1>24 DEF SweepOriginal, Apart, OnDisk, entities, bounds, Goto
<1>25. ASSUME NEW s \in sweep, SweepThumb(s) PROVE OnDisk(i)'
  <2>1. disk' = disk \ {Thumbnail(s.image)} /\ UNCHANGED <<payload, pc, phase>>
    BY <1>25 DEF SweepThumb
  <2>2. s.image \in Images /\ s.image # i
    BY DEF RowsInv
  <2>3. Thumbnail(s.image) # Thumbnail(i)
    BY <2>2 DEF Apart
  <2> QED
    BY <2>1, <2>3 DEF OnDisk
<1>26. ASSUME NEW s \in sweep, SweepFails(s) PROVE OnDisk(i)'
  BY <1>26 DEF SweepFails, OnDisk, entities
<1>27. CASE UNCHANGED vars
  BY <1>27 DEF vars, OnDisk
<1> QED
  BY <1>1, <1>2, <1>3, <1>4, <1>5, <1>6, <1>7, <1>8, <1>9, <1>10, <1>11, <1>12, <1>13, <1>14,
     <1>15, <1>16, <1>17, <1>18, <1>19, <1>20, <1>21, <1>22, <1>23, <1>24, <1>25, <1>26, <1>27
     DEF Next, Execute

\* A run that holds entity o passes on what o tells, and opens a thumbnail o names.
LEMMA FilesBegin ==
    ASSUME TypeOK, FilesKept, NEW r \in Runs, NEW o \in Runs, Image(o) = Image(r),
           Begin(r, o, obj[o]), UNCHANGED <<job, expired, rows, pending>>,
           \A i \in Images : i \notin expired' /\ OnDisk(i) => OnDisk(i)'
    PROVE  FilesKept'
<1> USE DEF TypeOK
<1>1. CASE /\ UNCHANGED obj
           /\ \/ Goto(r, "done")
              \/ Goto(r, "read") /\ (job[r].kind = "thumbnail" => obj[o].thumb)
  <2>1. Image(r) \notin expired /\ obj[o].thumb => OnDisk(Image(r))
    BY DEF FilesKept, FilesOf, Names
  <2> QED
    BY <1>1, <2>1 DEF Goto, FilesKept, FilesOf
<1>2. CASE \E e \in Entities : /\ e.status = "processing" /\ e.thumb = obj[o].thumb
                               /\ Mark(r, o, e, "start")
  <2>1. PICK e \in Entities : /\ e.status = "processing" /\ e.thumb = obj[o].thumb
                              /\ obj' = [obj EXCEPT ![o] = e] /\ pc' = [pc EXCEPT ![r] = "select"]
    BY <1>2 DEF Mark, Goto
  <2>2. Names(e) => Names(obj[o])
    BY <2>1 DEF Names
  <2> QED
    BY <2>1, <2>2 DEF FilesKept, FilesOf
<1> QED
  BY <1>1, <1>2, BeginStep

\* A failing run keeps the thumbnail its entity names, or leaves the entity as it is.
LEMMA FilesRaise ==
    ASSUME TypeOK, RunsInv, FilesKept, NEW r \in Runs,
           NEW l \in {"done", "cleanup", "select"}, pc' = [pc EXCEPT ![r] = l],
           \/ obj' = obj
           \/ \E e \in Entities : /\ e.status = "failed" /\ e.thumb = obj[ref[r]].thumb
                                  /\ Mark(r, ref[r], e, "fail"),
           UNCHANGED <<job, expired, pending>>,
           \A i \in Images \ expired : Names(rows'[i]) => OnDisk(i),
           \A i \in Images : i \notin expired' /\ OnDisk(i) => OnDisk(i)'
    PROVE  FilesKept'
<1> USE DEF TypeOK
<1>1. \A q \in Runs : Image(q) \notin expired /\ Names(obj'[q]) => OnDisk(Image(q))
  <2>1. CASE obj' = obj
    BY <2>1 DEF FilesKept, FilesOf
  <2>2. CASE obj' # obj
    <3>1. PICK e \in Entities : /\ e.status = "failed" /\ e.thumb = obj[ref[r]].thumb
                                /\ obj' = [obj EXCEPT ![ref[r]] = e]
      BY <2>2 DEF Mark
    <3>2. Names(e) => Names(obj[ref[r]])
      BY <3>1 DEF Names
    <3> QED
      BY <3>1, <3>2 DEF FilesKept, FilesOf
  <2> QED
    BY <2>1, <2>2
<1>2. \A q \in Runs : /\ pc'[q] = "flush" => pc[q] = "flush"
                      /\ pc'[q] = "read" => pc[q] = "read"
  OBVIOUS
<1> QED
  BY <1>1, <1>2 DEF FilesKept, FilesOf

LEMMA FilesStep ==
    BaseInv /\ FilesInv /\ [Next]_vars => FilesInv'
<1> SUFFICES ASSUME TypeOK, RunsInv, RowsInv, FilesInv, [Next]_vars, Unshared'
             PROVE  FilesKept'
  BY DEF BaseInv, FilesInv
<1> Unshared /\ FilesKept
  BY Monotone, UnsharedBefore DEF Forward, FilesInv
<1> \A k \in Images : k \notin expired' /\ OnDisk(k) => OnDisk(k)'
  BY DiskStays
<1> USE DEF Working, TypeOK
<1>1. ASSUME NEW i \in Images, UploadOpen(i) PROVE FilesKept'
  <2>1. UNCHANGED pc
        /\ UNCHANGED <<job, expired, rows, obj, pending>>
    BY <1>1 DEF UploadOpen, entities, bounds, Goto
  <2> QED
    BY <2>1 DEF FilesKept, FilesOf
<1>2. ASSUME NEW i \in Images, UploadStore(i) PROVE FilesKept'
  <2>1. UNCHANGED pc
        /\ UNCHANGED <<job, expired, rows, obj, pending>>
    BY <1>2 DEF UploadStore, entities, bounds, Goto
  <2> QED
    BY <2>1 DEF FilesKept, FilesOf
<1>3. ASSUME NEW i \in Images, UploadSave(i) PROVE FilesKept'
  <2>1. rows' = [rows EXCEPT ![i] = Uploaded] /\ UNCHANGED <<job, expired, pc, obj, pending>>
    BY <1>3 DEF UploadSave, entities
  <2>2. ~Names(Uploaded)
    BY EntityFacts DEF Names
  <2> QED
    BY <2>1, <2>2 DEF FilesKept, FilesOf
<1>4. ASSUME NEW i \in Images, UploadFails(i) PROVE FilesKept'
  <2>1. UNCHANGED pc
        /\ UNCHANGED <<job, expired, rows, obj, pending>>
    BY <1>4 DEF UploadFails, entities, bounds, Goto
  <2> QED
    BY <2>1 DEF FilesKept, FilesOf
<1>5. ASSUME NEW i \in Images, Expire(i) PROVE FilesKept'
  <2>1. expired \subseteq expired' /\ UNCHANGED pc
        /\ UNCHANGED <<job, rows, obj, pending>>
    BY <1>5 DEF Expire, entities, bounds, Goto
  <2> QED
    BY <2>1 DEF FilesKept, FilesOf
<1>6. ASSUME NEW r \in Runs, Get(r) PROVE FilesKept'
  <2> USE <1>6, GetStep
  <2>0. Proc(r) \in Procs /\ Image(r) \in Images /\ UNCHANGED <<job, expired, rows, pending>>
    OBVIOUS
  <2>1. CASE \E hit \in Runs : Hits(r, hit)
    <3> PICK hit \in Runs : Hits(r, hit)
      BY <2>1
    <3>1. cache[Proc(r)][Image(r)] = hit /\ hit # None /\ Begin(r, hit, obj[hit])
      BY NoneAssumption DEF Hits
    <3>2. Image(hit) = Image(r)
      BY <2>0, <3>1 DEF RunsInv
    <3> QED
      BY <2>0, <3>1, <3>2, FilesBegin
  <2>2. CASE ~Present(Image(r)) /\ Goto(r, "done") /\ UNCHANGED <<obj, ref, phase>>
    BY <2>0, <2>2 DEF Goto, FilesKept, FilesOf
  <2>3. CASE Misses(r)
    <3>1. obj' = [obj EXCEPT ![r] = rows[Image(r)]] /\ pc' = [pc EXCEPT ![r] = "fill"]
      BY <2>3 DEF Misses, Goto
    <3> QED
      BY <2>0, <3>1 DEF FilesKept, FilesOf
  <2> QED
    BY <2>1, <2>2, <2>3
<1>7. ASSUME NEW r \in Runs, Fill(r) PROVE FilesKept'
  <2>1. Begin(r, r, obj[r]) /\ UNCHANGED <<job, expired, rows, pending>>
    BY <1>7 DEF Fill
  <2> QED
    BY <2>1, FilesBegin
<1>8. ASSUME NEW r \in Runs, SaveSelect(r) PROVE FilesKept'
  <2>1. /\ pc' = [pc EXCEPT ![r] = "flush"]
        /\ UNCHANGED <<job, expired, rows, obj>>
        /\ \A q \in Runs \ {r} : pending'[q] = pending[q]
        /\ pending'[r].entity = obj[ref[r]]
    BY <1>8 DEF SaveSelect, Goto
  <2>2. Image(r) \notin expired /\ Names(obj[ref[r]]) => OnDisk(Image(r))
    BY DEF FilesKept, FilesOf, RunsInv
  <2> QED
    BY <2>1, <2>2 DEF FilesKept, FilesOf
<1>9. ASSUME NEW r \in Runs, SaveFlush(r) PROVE FilesKept'
  <2>1. /\ pc[r] = "flush" /\ pc' = [pc EXCEPT ![r] = "invalidate"]
        /\ rows' = [rows EXCEPT ![Image(r)] = Written(r)]
        /\ UNCHANGED <<job, expired, obj, pending>>
    BY <1>9 DEF SaveFlush, entities, Goto
  <2>2. Names(Written(r)) => Names(pending[r].entity) \/ Names(rows[Image(r)])
    BY <1>9, WrittenType DEF SaveFlush, Names
  <2>3. Image(r) \notin expired /\ Names(Written(r)) => OnDisk(Image(r))
    BY <2>1, <2>2 DEF FilesKept, FilesOf
  <2> QED
    BY <2>1, <2>3 DEF FilesKept, FilesOf
<1>10. ASSUME NEW r \in Runs, Invalidate(r) PROVE FilesKept'
  <2>1. \E l \in {"retrieve", "done", "torn", "thumb", "write"} : pc' = [pc EXCEPT ![r] = l]
        /\ UNCHANGED <<job, expired, rows, obj, pending>>
    BY <1>10 DEF Invalidate, entities, bounds, Goto
  <2> QED
    BY <2>1 DEF FilesKept, FilesOf
<1>11. ASSUME NEW r \in Runs, Read(r) PROVE FilesKept'
  <2>1. \E l \in {"retrieve", "done", "torn", "thumb", "write"} : pc' = [pc EXCEPT ![r] = l]
        /\ UNCHANGED <<job, expired, rows, obj, pending>>
    BY <1>11 DEF Read, entities, bounds, Goto
  <2> QED
    BY <2>1 DEF FilesKept, FilesOf
<1>12. ASSUME NEW r \in Runs, Retrieve(r) PROVE FilesKept'
  <2>1. \E l \in {"retrieve", "done", "torn", "thumb", "write"} : pc' = [pc EXCEPT ![r] = l]
        /\ UNCHANGED <<job, expired, rows, obj, pending>>
    BY <1>12 DEF Retrieve, entities, bounds, Goto
  <2> QED
    BY <2>1 DEF FilesKept, FilesOf
<1>13. ASSUME NEW r \in Runs, OpenThumb(r) PROVE FilesKept'
  <2>1. \E l \in {"retrieve", "done", "torn", "thumb", "write"} : pc' = [pc EXCEPT ![r] = l]
        /\ UNCHANGED <<job, expired, rows, obj, pending>>
    BY <1>13 DEF OpenThumb, entities, bounds, Goto
  <2> QED
    BY <2>1 DEF FilesKept, FilesOf
<1>14. ASSUME NEW r \in Runs, StoreThumb(r) PROVE FilesKept'
  <2>1. /\ pc[r] = "write" /\ pc' = [pc EXCEPT ![r] = "select"]
        /\ disk' = disk \cup {Thumbnail(Image(r))}
        /\ \A q \in Runs \ {ref[r]} : obj'[q] = obj[q]
        /\ UNCHANGED <<payload, job, expired, rows, pending>>
    BY <1>14 DEF StoreThumb, Mark, Goto
  <2>2. job[r].kind = "process" /\ Image(ref[r]) = Image(r)
    BY <2>1 DEF RunsInv
  <2>3. OnDisk(Image(r))'
    BY <2>1, <2>2 DEF OnDisk
  <2> QED
    BY <2>1, <2>2, <2>3 DEF FilesKept, FilesOf
<1>15. ASSUME NEW r \in Runs, Cleanup(r) PROVE FilesKept'
  <2>1. /\ pc' = [pc EXCEPT ![r] = "select"] /\ UNCHANGED <<job, expired, rows, pending>>
        /\ Mark(r, ref[r], [obj[ref[r]] EXCEPT !.status = "failed"], "fail")
    BY <1>15 DEF Cleanup, Mark, Goto
  <2>2. \A i \in Images \ expired : Names(rows'[i]) => OnDisk(i)
    BY <2>1 DEF FilesKept
  <2> QED
    BY <2>1, <2>2, FailStep, FilesRaise
<1>16. ASSUME NEW r \in Runs, StepRaises(r) PROVE FilesKept'
  <2>1. Raise(r) /\ UNCHANGED <<job, expired, rows, pending>>
    BY <1>16 DEF StepRaises
  <2>2. \A i \in Images \ expired : Names(rows'[i]) => OnDisk(i)
    BY <2>1 DEF FilesKept
  <2>3. \E l \in {"done", "cleanup", "select"} : pc' = [pc EXCEPT ![r] = l]
    BY <2>1, RaiseMove
  <2> QED
    BY <2>1, <2>2, <2>3, RaiseStep, FilesRaise
<1>17. ASSUME NEW r \in Runs, CallFails(r) PROVE FilesKept'
  <2>1. UNCHANGED <<job, expired, rows, pending>>
    BY <1>17 DEF CallFails
  <2>2. \A i \in Images \ expired : Names(rows'[i]) => OnDisk(i)
    BY <2>1 DEF FilesKept
  <2>3. CASE Goto(r, "done") /\ UNCHANGED obj
    BY <2>1, <2>2, <2>3, FilesRaise DEF Goto
  <2>4. CASE Raise(r)
    <3>1. \E l \in {"done", "cleanup", "select"} : pc' = [pc EXCEPT ![r] = l]
      BY <2>4, RaiseMove
    <3> QED
      BY <2>1, <2>2, <2>4, <3>1, RaiseStep, FilesRaise
  <2>5. CASE Mark(r, ref[r], [obj[ref[r]] EXCEPT !.status = "failed"], "fail")
    <3>1. pc' = [pc EXCEPT ![r] = "select"]
      BY <2>5 DEF Mark, Goto
    <3> QED
      BY <2>1, <2>2, <2>5, <3>1, FailStep, FilesRaise
  <2> QED
    BY <1>17, <2>3, <2>4, <2>5 DEF CallFails
<1>18. ASSUME NEW r \in Runs, FlushFailsLate(r) PROVE FilesKept'
  <2>1. /\ pc[r] = "flush" /\ Raise(r) /\ UNCHANGED <<job, expired, pending>>
        /\ rows' = [rows EXCEPT ![Image(r)] = Written(r)]
    BY <1>18 DEF FlushFailsLate
  <2>2. Names(Written(r)) => Names(pending[r].entity) \/ Names(rows[Image(r)])
    BY <1>18, WrittenType DEF FlushFailsLate, Names
  <2>3. \A i \in Images \ expired : Names(rows'[i]) => OnDisk(i)
    BY <2>1, <2>2 DEF FilesKept, FilesOf
  <2>4. \E l \in {"done", "cleanup", "select"} : pc' = [pc EXCEPT ![r] = l]
    BY <2>1, RaiseMove
  <2> QED
    BY <2>1, <2>3, <2>4, RaiseStep, FilesRaise
<1>19. ASSUME NEW p \in Procs, Crash(p) PROVE FilesKept'
  <2>1. UNCHANGED <<job, expired, rows, obj, pending>>
    BY <1>19 DEF Crash, entities
  <2>2. \A q \in Runs : /\ pc'[q] = "flush" => pc[q] = "flush"
                        /\ pc'[q] = "read" => pc[q] = "read"
    BY <1>19 DEF Crash
  <2> QED
    BY <2>1, <2>2 DEF FilesKept, FilesOf
<1>20. ASSUME NEW p \in Procs, NEW i \in Images, CacheExpire(p, i) PROVE FilesKept'
  <2>1. UNCHANGED pc
        /\ UNCHANGED <<job, expired, rows, obj, pending>>
    BY <1>20 DEF CacheExpire, entities, bounds, Goto
  <2> QED
    BY <2>1 DEF FilesKept, FilesOf
<1>21. ASSUME NEW p \in Procs, NEW batch \in SUBSET Expirable, SweepRows(p, batch) PROVE FilesKept'
  <2>1. /\ \A i \in Images \ expired : rows'[i] = rows[i]
        /\ UNCHANGED <<job, expired, pc, obj, pending>>
    BY <1>21 DEF SweepRows, DeleteRows, Expirable, entities
  <2> QED
    BY <2>1 DEF FilesKept, FilesOf
<1>22. ASSUME NEW p \in Procs, SweepInvalidate(p) PROVE FilesKept'
  <2>1. UNCHANGED pc
        /\ UNCHANGED <<job, expired, rows, obj, pending>>
    BY <1>22 DEF SweepInvalidate, entities, bounds, Goto
  <2> QED
    BY <2>1 DEF FilesKept, FilesOf
<1>23. ASSUME NEW batch \in SUBSET Expirable, SweepRowsFailsLate(batch) PROVE FilesKept'
  <2>1. /\ \A i \in Images \ expired : rows'[i] = rows[i]
        /\ UNCHANGED <<job, expired, pc, obj, pending>>
    BY <1>23 DEF SweepRowsFailsLate, DeleteRows, Expirable, entities
  <2> QED
    BY <2>1 DEF FilesKept, FilesOf
<1>24. ASSUME NEW s \in sweep, SweepOriginal(s) PROVE FilesKept'
  <2>1. UNCHANGED pc
        /\ UNCHANGED <<job, expired, rows, obj, pending>>
    BY <1>24 DEF SweepOriginal, entities, bounds, Goto
  <2> QED
    BY <2>1 DEF FilesKept, FilesOf
<1>25. ASSUME NEW s \in sweep, SweepThumb(s) PROVE FilesKept'
  <2>1. UNCHANGED pc
        /\ UNCHANGED <<job, expired, rows, obj, pending>>
    BY <1>25 DEF SweepThumb, entities, bounds, Goto
  <2> QED
    BY <2>1 DEF FilesKept, FilesOf
<1>26. ASSUME NEW s \in sweep, SweepFails(s) PROVE FilesKept'
  <2>1. UNCHANGED pc
        /\ UNCHANGED <<job, expired, rows, obj, pending>>
    BY <1>26 DEF SweepFails, entities, bounds, Goto
  <2> QED
    BY <2>1 DEF FilesKept, FilesOf
<1>27. CASE UNCHANGED vars
  BY <1>27 DEF vars, FilesKept, FilesOf
<1> QED
  BY <1>1, <1>2, <1>3, <1>4, <1>5, <1>6, <1>7, <1>8, <1>9, <1>10, <1>11, <1>12, <1>13, <1>14,
     <1>15, <1>16, <1>17, <1>18, <1>19, <1>20, <1>21, <1>22, <1>23, <1>24, <1>25, <1>26, <1>27
     DEF Next, Execute

LEMMA FilesAlways == Spec => [](BaseInv /\ FilesInv)
<1>1. Init => FilesInv
  <2>1. ~Names(Absent) /\ ~Names(Uploaded)
    BY AbsentRow, EntityFacts DEF Names
  <2> QED
    BY <2>1 DEF Init, FilesInv, FilesKept, FilesOf
<1>2. BaseInv /\ FilesInv /\ [Next]_vars => FilesInv'
  BY FilesStep
<1> QED
  BY <1>1, <1>2, BaseAlways, PTL DEF Spec

\* Through every race, failing call and crash, a row that is COMPLETED or names a
\* thumbnail has it on disk unless a run on the same image is rewriting it, failed,
\* or died while it wrote: no other image's run, upload or sweep touches it.
THEOREM CompletedRowsHaveThumbs == Spec => []CompletedHasThumb
<1>1. FilesInv => CompletedHasThumb
  BY DEF FilesInv, FilesKept, Names, NamesThumb, OnDisk, CompletedHasThumb
<1> QED
  BY <1>1, FilesAlways, PTL

\* FR-3.2 and FR-3.3: through every race, failing call and crash, a download that
\* reads the row or a cached copy of it, and the file some time later, meets a whole
\* file unless the image has expired, or a run on it rewrites or has given up the
\* thumbnail.
THEOREM DownloadsAreWhole == Spec => []ServedWhole
<1>1. BaseInv /\ FilesInv => ServedWhole
  <2> SUFFICES ASSUME BaseInv, FilesInv, Unshared, NEW r \in Runs, pc[r] = "read",
                      Image(r) \notin expired
               PROVE  \/ Target(r) \in disk
                      \/ job[r].kind = "thumbnail" /\ \E q \in Runs : Spoils(q, Image(r))
    BY DEF ServedWhole
  <2>1. Image(r) \in Images /\ job[r].kind \in {"original", "thumbnail"}
    BY InputAssumption, ZenonT(60) DEF BaseInv, TypeOK, RunsInv
  <2>2. CASE job[r].kind = "original"
    BY <2>1, <2>2 DEF BaseInv, RowsInv, OriginalsInv, OriginalsKept, Active, Target
  <2>3. CASE job[r].kind = "thumbnail"
    BY <2>3 DEF FilesInv, FilesKept, FilesOf, OnDisk, Target
  <2> QED
    BY <2>1, <2>2, <2>3
<1> QED
  BY <1>1, FilesAlways, PTL

=============================================================================
