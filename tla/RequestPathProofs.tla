------------------------- MODULE RequestPathProofs -------------------------
(***************************************************************************)
(* Proofs about RequestPath and the two components it composes,            *)
(* RateLimiter and ImageCache, for any number of requests, clients,        *)
(* images and foreign writes, and for any limits, windows, TTL and cache   *)
(* size.                                                                   *)
(***************************************************************************)
EXTENDS RequestPath, FiniteSetTheorems, TLAPS

\* What a bucket remembers is the end of what it has admitted, and everything
\* it has forgotten is outdated.
LimiterInv ==
    \A b \in Buckets :
        /\ Len(stamps[b]) <= Len(admitted[b])
        /\ \A j \in 1..Len(stamps[b]) :
              stamps[b][j] = admitted[b][Len(admitted[b]) - Len(stamps[b]) + j]
        /\ \A j \in 1..(Len(admitted[b]) - Len(stamps[b])) : Outdated(b, admitted[b][j])

LimiterTypes ==
    /\ now \in Nat
    /\ stamps \in [Buckets -> Seq(Nat)]
    /\ admitted \in [Buckets -> Seq(Nat)]

StoredIsFinite == IsFiniteSet(Stored)

\* Whether an entry has outlived its TTL does not matter to coherence.
Coherent ==
    \A i \in Stored :
        Stale(i) =>
            \/ i \in overtaken
            \/ \E r \in Requests : pc[r] \in {"save", "invalidate"} /\ Image(r) = i

Underway == {"depends", "handle", "query", "fill", "save", "invalidate", "work"}

\* A request that reads has an image to read, and what it has read was current
\* at the time: the next write came no earlier.
ReadOk(r) ==
    /\ pc[r] \in Underway => job[r] \in Jobs
    /\ pc[r] \in {"query", "fill", "save", "invalidate", "work"} => job[r].route \in {"read", "process"}
    /\ pc[r] = "fill" =>
          /\ got[r].value \in 0..Value(Image(r))
          /\ got[r].at \in 0..now
          /\ got[r].value < Value(Image(r)) =>
                got[r].at <= writes[Image(r)][got[r].value + 1]

\* An entry expires at most a TTL and a slow read after its value was overwritten.
EntryOk(i) ==
    /\ store[i].value \in Entities
    /\ store[i].value.row \in 0..Value(i)
    /\ store[i].expires \in 0..(now + Ttl)
    /\ store[i].value.row < Value(i) =>
          store[i].expires <= writes[i][store[i].value.row + 1] + Ttl + lag

Labels == {"idle", "probed", "raised", "cancelled"} \cup Underway \cup Responses

PathTypes ==
    /\ pc \in [Requests -> Labels]
    /\ job \in [Requests -> Jobs \cup {None}]
    /\ phase \in [Requests -> Phases]
    /\ got \in [Requests -> [value : Nat, at : Nat]]
    /\ now \in Nat
    /\ writes \in [Images -> Seq(Nat)]
    /\ store \in [Images -> [value : Entities \cup {None}, expires : Nat]]
    /\ lag \in Nat
    /\ staleness \in Nat

PathInv ==
    /\ PathTypes
    /\ \A i \in Images : \A n \in 1..Value(i) : writes[i][n] <= now
    /\ \A r \in Requests : ReadOk(r)
    /\ \A i \in Stored : EntryOk(i)
    /\ BoundedStaleness

-----------------------------------------------------------------------------
(* The rate limiter.                                                       *)

LEMMA AppendFacts ==
    ASSUME NEW s \in Seq(Nat), NEW e \in Nat
    PROVE  /\ Append(s, e) \in Seq(Nat)
           /\ Len(s) \in Nat
           /\ Len(Append(s, e)) = Len(s) + 1
           /\ \A j \in 1..Len(s) : Append(s, e)[j] = s[j] /\ s[j] \in Nat
           /\ Append(s, e)[Len(s) + 1] = e
OBVIOUS

LEMMA TailFacts ==
    ASSUME NEW s \in Seq(Nat), NEW n \in 0..Len(s)
    PROVE  /\ SubSeq(s, n + 1, Len(s)) \in Seq(Nat)
           /\ Len(s) \in Nat
           /\ Len(SubSeq(s, n + 1, Len(s))) = Len(s) - n
           /\ \A j \in 1..(Len(s) - n) : SubSeq(s, n + 1, Len(s))[j] = s[n + j]
OBVIOUS

LEMMA Shift ==
    ASSUME NEW L \in Nat, NEW l \in Nat, NEW n \in 0..l, l <= L,
           NEW j \in 1..(L - (l - n)), j \notin 1..(L - l)
    PROVE  \E p \in 1..n : p \in 1..l /\ j = L - l + p
<1>1. j - (L - l) \in 1..n /\ j - (L - l) \in 1..l /\ j = L - l + (j - (L - l))
  OBVIOUS
<1> QED
  BY <1>1

LEMMA NotLast ==
    ASSUME NEW L \in Nat, NEW x \in 1..(L + 1), x # L + 1
    PROVE  x \in 1..L
OBVIOUS

\* Sequence s is the end of sequence a, and what a has before it is outdated.
EndOf(b, s, a) ==
    /\ Len(s) <= Len(a)
    /\ \A j \in 1..Len(s) : s[j] = a[Len(a) - Len(s) + j]
    /\ \A j \in 1..(Len(a) - Len(s)) : Outdated(b, a[j])

LimitInv == LimiterTypes /\ LimiterInv /\ WindowBound

LEMMA LimiterInvIs == LimiterInv <=> \A b \in Buckets : EndOf(b, stamps[b], admitted[b])
BY DEF LimiterInv, EndOf

\* Popping outdated times from the front leaves the end of what was admitted.
LEMMA CleanupKeeps ==
    ASSUME LimitInv, NEW b \in Buckets, NEW n \in 0..Len(stamps[b]), Pops(b, n)
    PROVE  Kept(b, n) \in Seq(Nat) /\ EndOf(b, Kept(b, n), admitted[b])
<1>1. PICK s \in Seq(Nat) : s = stamps[b]
  BY DEF LimitInv, LimiterTypes
<1>2. PICK a \in Seq(Nat) : a = admitted[b]
  BY DEF LimitInv, LimiterTypes
<1>3. EndOf(b, s, a)
  BY <1>1, <1>2, LimiterInvIs DEF LimitInv
<1>4. PICK k \in Seq(Nat) :
        /\ k = Kept(b, n)
        /\ Len(k) = Len(s) - n
        /\ \A j \in 1..(Len(s) - n) : k[j] = s[n + j]
  BY <1>1, TailFacts DEF Kept
<1>5. Len(s) \in Nat /\ Len(a) \in Nat /\ n \in 0..Len(s)
  BY <1>1
<1>6. ASSUME NEW j \in 1..Len(k) PROVE k[j] = a[Len(a) - Len(k) + j]
  <2>0. j \in 1..(Len(s) - n)
    BY <1>4
  <2>1. k[j] = s[n + j] /\ n + j \in 1..Len(s)
    BY <1>4, <1>5, <2>0
  <2>2. s[n + j] = a[Len(a) - Len(s) + (n + j)]
    BY <1>3, <2>1 DEF EndOf
  <2> QED
    BY <1>4, <1>5, <2>1, <2>2
<1>7. ASSUME NEW j \in 1..(Len(a) - Len(k)) PROVE Outdated(b, a[j])
  <2>1. CASE j \in 1..(Len(a) - Len(s))
    BY <1>3, <2>1 DEF EndOf
  <2>2. CASE j \notin 1..(Len(a) - Len(s))
    <3>0. j \in 1..(Len(a) - (Len(s) - n)) /\ Len(s) <= Len(a)
      BY <1>3, <1>4 DEF EndOf
    <3>1. PICK p \in 1..n : p \in 1..Len(s) /\ j = Len(a) - Len(s) + p
      BY <1>5, <2>2, <3>0, Shift, ZenonT(60)
    <3>3. s[p] = a[j]
      BY <1>3, <3>1 DEF EndOf
    <3>4. Outdated(b, s[p])
      BY <1>1, <3>1 DEF Pops
    <3> QED
      BY <3>3, <3>4
  <2> QED
    BY <2>1, <2>2
<1>8. Len(k) <= Len(a)
  BY <1>3, <1>4, <1>5 DEF EndOf
<1> QED
  BY <1>2, <1>4, <1>6, <1>7, <1>8 DEF EndOf

\* A call that is turned away only forgets outdated times.
LEMMA RejectKeeps ==
    ASSUME LimitInv, NEW b, Reject(b), now' = now
    PROVE  LimitInv'
<1>1. CASE b \notin Buckets
  <2>1. UNCHANGED <<stamps, admitted, now>>
    BY <1>1 DEF Reject, LimitInv, LimiterTypes
  <2> QED
    BY <2>1 DEF LimitInv, LimiterTypes, LimiterInv, Outdated, WindowBound
<1>2. CASE b \in Buckets
  <2>1. PICK n \in 0..Len(stamps[b]) : Pops(b, n) /\ stamps' = [stamps EXCEPT ![b] = Kept(b, n)]
    BY DEF Reject
  <2>2. PICK k \in Seq(Nat) : k = Kept(b, n) /\ EndOf(b, k, admitted[b])
    BY <1>2, <2>1, CleanupKeeps
  <2>3. admitted' = admitted
    BY DEF Reject
  <2>4. stamps'[b] = k /\ \A c \in Buckets : c # b => stamps'[c] = stamps[c]
    BY <1>2, <2>1, <2>2 DEF LimitInv, LimiterTypes
  <2>5. LimiterTypes'
    BY <2>1, <2>2, <2>3 DEF LimitInv, LimiterTypes
  <2>6. \A c \in Buckets : EndOf(c, stamps'[c], admitted[c])
    BY <2>2, <2>4, LimiterInvIs DEF LimitInv
  <2>7. LimiterInv'
    BY <2>3, <2>6 DEF LimiterInv, EndOf, Outdated
  <2>8. WindowBound'
    BY <2>3 DEF LimitInv, WindowBound
  <2> QED
    BY <2>5, <2>7, <2>8 DEF LimitInv
<1> QED
  BY <1>1, <1>2

\* A call is let through when less than max_requests times are remembered: the
\* one that came max_requests before it has been forgotten, and is outdated.
LEMMA AdmitKeeps ==
    ASSUME LimitInv, NEW b, Admit(b), now' = now
    PROVE  LimitInv'
<1>1. CASE b \notin Buckets
  <2>1. UNCHANGED <<stamps, admitted, now>>
    BY <1>1 DEF Admit, LimitInv, LimiterTypes
  <2> QED
    BY <2>1 DEF LimitInv, LimiterTypes, LimiterInv, Outdated, WindowBound
<1>2. CASE b \in Buckets
  <2>1. PICK n \in 0..Len(stamps[b]) :
          /\ Pops(b, n)
          /\ Len(Kept(b, n)) < MaxRequests[b]
          /\ stamps' = [stamps EXCEPT ![b] = Append(Kept(b, n), now)]
          /\ admitted' = [admitted EXCEPT ![b] = Append(@, now)]
    BY DEF Admit
  <2>2. PICK k \in Seq(Nat) : k = Kept(b, n) /\ EndOf(b, k, admitted[b])
    BY <1>2, <2>1, CleanupKeeps
  <2>3. PICK a \in Seq(Nat) : a = admitted[b]
    BY <1>2 DEF LimitInv, LimiterTypes
  <2>4. PICK k2 \in Seq(Nat) : k2 = Append(k, now) /\ Len(k2) = Len(k) + 1 /\ k2[Len(k) + 1] = now
                               /\ \A j \in 1..Len(k) : k2[j] = k[j]
    BY AppendFacts, ZenonT(60) DEF LimitInv, LimiterTypes
  <2>5. PICK a2 \in Seq(Nat) : a2 = Append(a, now) /\ Len(a2) = Len(a) + 1 /\ a2[Len(a) + 1] = now
                               /\ \A j \in 1..Len(a) : a2[j] = a[j] /\ a[j] \in Nat
    BY AppendFacts, ZenonT(60) DEF LimitInv, LimiterTypes
  <2>6. /\ stamps'[b] = k2 /\ admitted'[b] = a2
        /\ \A c \in Buckets : c # b => stamps'[c] = stamps[c] /\ admitted'[c] = admitted[c]
    BY <1>2, <2>1, <2>2, <2>3, <2>4, <2>5 DEF LimitInv, LimiterTypes
  <2>7. LimiterTypes'
    BY <2>1, <2>2, <2>3, <2>4, <2>5 DEF LimitInv, LimiterTypes
  <2>8. Len(k) \in Nat /\ Len(a) \in Nat /\ EndOf(b, k, a)
    BY <2>2, <2>3
  <2>9. EndOf(b, k2, a2)
    <3>1. Len(k2) <= Len(a2) /\ Len(a2) - Len(k2) = Len(a) - Len(k)
      BY <2>4, <2>5, <2>8 DEF EndOf
    <3>2. ASSUME NEW j \in 1..Len(k2) PROVE k2[j] = a2[Len(a2) - Len(k2) + j]
      <4>1. CASE j = Len(k) + 1
        BY <2>4, <2>5, <2>8, <3>1, <4>1
      <4>2. CASE j # Len(k) + 1
        <5>0. PICK m \in Nat, l \in Nat : m = Len(k) /\ l = Len(a) /\ m <= l
          BY <2>8 DEF EndOf
        <5>1. j \in 1..m /\ l - m + j \in 1..l
          <6>1. j \in 1..(m + 1) /\ j # m + 1 /\ m <= l
            BY <2>4, <4>2, <5>0, Zenon
          <6> QED
            BY <6>1
        <5> QED
          BY <2>4, <2>5, <2>8, <3>1, <5>0, <5>1 DEF EndOf
      <4> QED
        BY <4>1, <4>2
    <3>3. ASSUME NEW j \in 1..(Len(a2) - Len(k2)) PROVE Outdated(b, a2[j])
      BY <2>5, <2>8, <3>1 DEF EndOf
    <3> QED
      BY <3>1, <3>2, <3>3 DEF EndOf
  <2>10. \A c \in Buckets : EndOf(c, stamps'[c], admitted'[c])
    BY <2>6, <2>9, LimiterInvIs DEF LimitInv
  <2>11. LimiterInv'
    BY <2>10 DEF LimiterInv, EndOf, Outdated
  <2>12. MaxRequests[b] \in Nat /\ Len(k) < MaxRequests[b] /\ Window[b] \in Nat /\ now \in Nat
    BY <1>2, <2>1, <2>2, LimitAssumption DEF LimitInv, LimiterTypes
  <2>13. ASSUME NEW i \in 1..Len(a2), i + MaxRequests[b] <= Len(a2)
         PROVE  a2[i] + Window[b] < a2[i + MaxRequests[b]]
    <3>0. PICK m \in Nat : m = MaxRequests[b] /\ m > 0
      BY <2>8, <2>12
    <3>1. i \in 1..Len(a) /\ i + m \in 1..Len(a2)
      BY <2>5, <2>8, <2>13, <3>0, SMTT(40)
    <3>2. CASE i + m = Len(a) + 1
      <4>1. i \in 1..(Len(a) - Len(k))
        <5>1. PICK x \in Nat, l \in Nat : x = Len(k) /\ l = Len(a) /\ x < m
          BY <2>8, <2>12, <3>0
        <5>2. i \in 1..l /\ i + m = l + 1
          BY <3>1, <3>2, <5>1, Zenon
        <5>3. i \in 1..(l - x)
          BY <5>1, <5>2
        <5> QED
          BY <5>1, <5>3, Zenon
      <4>2. a[i] + Window[b] < now
        BY <2>8, <4>1 DEF EndOf, Outdated
      <4> QED
        BY <2>5, <3>0, <3>1, <3>2, <4>2
    <3>3. CASE i + m # Len(a) + 1
      <4>0. i + m \in 1..(Len(a) + 1)
        BY <2>5, <3>1
      <4>1. i + m \in 1..Len(a)
        BY <2>8, <3>3, <4>0, NotLast
      <4>2. a[i] + Window[b] < a[i + m]
        BY <1>2, <2>3, <2>8, <3>0, <3>1, <4>1 DEF LimitInv, WindowBound
      <4> QED
        BY <2>5, <3>0, <3>1, <4>1, <4>2
    <3> QED
      BY <3>0, <3>2, <3>3
  <2>14. WindowBound'
    <3> SUFFICES ASSUME NEW c \in Buckets, NEW i \in 1..Len(admitted'[c]),
                        i + MaxRequests[c] <= Len(admitted'[c])
                 PROVE  admitted'[c][i] + Window[c] < admitted'[c][i + MaxRequests[c]]
      BY DEF WindowBound
    <3>1. CASE c = b
      BY <2>6, <2>13, <3>1
    <3>2. CASE c # b
      BY <2>6, <3>2 DEF LimitInv, WindowBound
    <3> QED
      BY <3>1, <3>2
  <2> QED
    BY <2>7, <2>11, <2>14 DEF LimitInv
<1> QED
  BY <1>1, <1>2

\* Time passes: what was outdated stays so.
LEMMA TimeKeepsLimits ==
    ASSUME LimitInv, now' \in Nat, now <= now', UNCHANGED limiter
    PROVE  LimitInv'
<1>1. LimiterTypes' /\ WindowBound'
  BY DEF limiter, LimitInv, LimiterTypes, WindowBound
<1>2. ASSUME NEW b \in Buckets, NEW j \in 1..(Len(admitted[b]) - Len(stamps[b]))
      PROVE  admitted[b][j] + Window[b] < now'
  <2>1. PICK a \in Seq(Nat) : a = admitted[b]
    BY DEF LimitInv, LimiterTypes
  <2>2. Len(stamps[b]) \in Nat /\ Len(a) \in Nat
    BY <2>1 DEF LimitInv, LimiterTypes
  <2>3. a[j] \in Nat /\ Window[b] \in Nat /\ now \in Nat
    BY <1>2, <2>1, <2>2, LimitAssumption DEF LimitInv, LimiterTypes
  <2>4. a[j] + Window[b] < now
    BY <1>2, <2>1 DEF LimitInv, LimiterInv, Outdated
  <2> QED
    BY <2>1, <2>3, <2>4
<1>3. LimiterInv'
  BY <1>2 DEF limiter, LimitInv, LimiterInv, Outdated
<1> QED
  BY <1>1, <1>3 DEF LimitInv

LEMMA NextLimitInv == LimitInv /\ [Next]_vars => LimitInv'
<1> SUFFICES ASSUME LimitInv, [Next]_vars PROVE LimitInv'
  OBVIOUS
<1>1. CASE UNCHANGED <<now, limiter>>
  BY <1>1, TimeKeepsLimits DEF LimitInv, LimiterTypes
<1>2. CASE Passes
  BY <1>2, TimeKeepsLimits DEF Passes, Tick, LimitInv, LimiterTypes
<1>3. ASSUME NEW r \in Requests, Depends(r) PROVE LimitInv'
  BY <1>1, <1>3, AdmitKeeps, RejectKeeps DEF Depends
<1>4. ASSUME NEW r \in Requests, Step(r), ~Depends(r) PROVE UNCHANGED <<now, limiter>>
  BY <1>4 DEF Step, Receive, Refuse, Upload, Lookup, Query, Fill, Commit, SaveRaises,
              Invalidate, Work, Raises, Raise, Cancel
<1>5. ASSUME NEW i \in Images, ForeignWrite(i) PROVE UNCHANGED <<now, limiter>>
  BY <1>5 DEF ForeignWrite
<1> QED
  BY <1>1, <1>2, <1>3, <1>4, <1>5 DEF Next, vars

\* No bucket admits more than max_requests calls within a window, wherever the
\* window lies and however calls fall on its edges, for every configuration of
\* the limiters.
THEOREM RateIsBounded == Spec => []WindowBound
<1>1. Init => LimitInv
  BY DEF Init, LimiterInit, LimitInv, LimiterTypes, LimiterInv, WindowBound
<1>2. LimitInv => WindowBound
  BY DEF LimitInv
<1> QED
  BY <1>1, <1>2, NextLimitInv, PTL DEF Spec

-----------------------------------------------------------------------------
(* The size of the cache.                                                  *)

CacheInv == StoredIsFinite /\ CacheBound /\ DOMAIN store = Images

\* A set that is small enough for the cache.
Small(S) == IsFiniteSet(S) /\ (Cardinality(S) <= MaxSize \/ Cardinality(S) = 1)

LEMMA SmallSubset ==
    ASSUME NEW S, Small(S), NEW T \in SUBSET S
    PROVE  Small(T)
<1>1. IsFiniteSet(T) /\ Cardinality(T) <= Cardinality(S)
  BY FS_Subset DEF Small
<1>2. Cardinality(T) \in Nat /\ Cardinality(S) \in Nat
  BY <1>1, FS_CardinalityType DEF Small
<1> QED
  BY <1>1, <1>2, CacheAssumption DEF Small

LEMMA OneMore ==
    ASSUME NEW S, IsFiniteSet(S), NEW x
    PROVE  /\ IsFiniteSet(S \cup {x})
           /\ Cardinality(S) \in Nat
           /\ Cardinality(S \cup {x}) \in Nat
           /\ Cardinality(S \cup {x}) <= Cardinality(S) + 1
<1>1. PICK n \in Nat : n = Cardinality(S)
  BY FS_CardinalityType
<1>2. IsFiniteSet(S \cup {x}) /\ Cardinality(S \cup {x}) \in {n, n + 1}
  BY <1>1, FS_AddElement
<1> QED
  BY <1>1, <1>2

LEMMA CacheInvIs ==
    /\ CacheInv <=> Small(Stored) /\ DOMAIN store = Images
    /\ CacheInv' <=> Small(Stored') /\ DOMAIN store' = Images
BY DEF CacheInv, StoredIsFinite, CacheBound, Small

LEMMA DropKeeps ==
    ASSUME CacheInv, NEW i, Drop(i)
    PROVE  CacheInv'
<1>1. Stored' \subseteq Stored /\ DOMAIN store' = Images
  BY DEF Drop, Without, Stored
<1> QED
  BY <1>1, CacheInvIs, SmallSubset

\* set makes room before it enters a new image: what is left has a place for one
\* more, or is empty.
LEMMA SetKeeps ==
    ASSUME CacheInv, NEW i, NEW v, Set(i, v)
    PROVE  CacheInv'
<1>1. PICK out \in Evictions(i) :
        store' = [Without(out) EXCEPT ![i] = [value |-> v, expires |-> now + Ttl]]
  BY DEF Set
<1>2. Stored' \subseteq (Stored \ out) \cup {i} /\ DOMAIN store' = Images
  BY <1>1 DEF Without, Stored
<1>3. PICK past \in SUBSET Stored : past = {j \in Stored : Past(j)}
  OBVIOUS
<1>4. PICK S \in SUBSET Images : S = Stored
  BY DEF Stored
<1>5. Small(S) /\ Cardinality(S) \in Nat
  BY <1>4, CacheInvIs, FS_CardinalityType DEF Small
<1>6. PICK left \in SUBSET S : left = S \ past
  OBVIOUS
<1>7. Small(left) /\ Cardinality(left) \in Nat
  BY <1>5, <1>6, SmallSubset, FS_CardinalityType DEF Small
<1>8. \/ out = {} /\ (Cardinality(S) < MaxSize \/ i \in S)
      \/ out = past /\ (Cardinality(left) < MaxSize \/ left = {})
      \/ \E j \in left : out = past \cup {j}
  BY <1>1, <1>3, <1>4, <1>6 DEF Evictions, Oldest
<1>9. Small((S \ out) \cup {i})
  <2>1. CASE out = {} /\ i \in S
    <3>1. (S \ out) \cup {i} = S
      BY <2>1
    <3> QED
      BY <1>5, <3>1
  <2>2. CASE out = {} /\ Cardinality(S) < MaxSize
    <3>1. S \ out = S
      BY <2>2
    <3>2. IsFiniteSet(S \cup {i}) /\ Cardinality(S \cup {i}) \in Nat
          /\ Cardinality(S \cup {i}) <= Cardinality(S) + 1
      BY <1>5, OneMore DEF Small
    <3> QED
      BY <1>5, <2>2, <3>1, <3>2, CacheAssumption DEF Small
  <2>3. CASE out = past /\ Cardinality(left) < MaxSize
    <3>1. S \ out = left
      BY <1>6, <2>3
    <3>2. IsFiniteSet(left \cup {i}) /\ Cardinality(left \cup {i}) \in Nat
          /\ Cardinality(left \cup {i}) <= Cardinality(left) + 1
      BY <1>7, OneMore DEF Small
    <3> QED
      <4>1. Cardinality(left \cup {i}) <= MaxSize
        BY <1>7, <2>3, <3>2, CacheAssumption
      <4>2. Small(left \cup {i})
        BY <3>2, <4>1 DEF Small
      <4> QED
        BY <3>1, <4>2
  <2>4. CASE out = past /\ left = {}
    <3>1. (S \ out) \cup {i} = {i}
      BY <1>6, <2>4
    <3> QED
      BY <3>1, FS_Singleton DEF Small
  <2>5. ASSUME NEW j \in left, out = past \cup {j} PROVE Small((S \ out) \cup {i})
    <3>1. PICK rest : rest = left \ {j}
      OBVIOUS
    <3>2. IsFiniteSet(rest) /\ Cardinality(rest) = Cardinality(left) - 1
      BY <1>7, <2>5, <3>1, FS_RemoveElement DEF Small
    <3>3. S \ out = rest
      BY <1>6, <2>5, <3>1
    <3>4. IsFiniteSet(rest \cup {i}) /\ Cardinality(rest \cup {i}) \in Nat
          /\ Cardinality(rest \cup {i}) <= Cardinality(left)
      <4>1. IsFiniteSet(rest \cup {i}) /\ Cardinality(rest \cup {i}) \in Nat /\ Cardinality(rest) \in Nat
            /\ Cardinality(rest \cup {i}) <= Cardinality(rest) + 1
        BY <3>2, OneMore
      <4> QED
        BY <1>7, <3>2, <4>1
    <3>5. Cardinality(rest \cup {i}) <= MaxSize \/ Cardinality(rest \cup {i}) = 1
      BY <1>7, <3>4, CacheAssumption DEF Small
    <3> QED
      BY <3>3, <3>4, <3>5 DEF Small
  <2> QED
    BY <1>8, <2>1, <2>2, <2>3, <2>4, <2>5
<1>10. Small(Stored')
  BY <1>2, <1>4, <1>9, SmallSubset
<1> QED
  BY <1>2, <1>10, CacheInvIs

LEMMA NextCacheInv == CacheInv /\ [Next]_vars => CacheInv'
<1> SUFFICES ASSUME CacheInv, [Next]_vars PROVE CacheInv'
  OBVIOUS
<1>1. CASE UNCHANGED store
  BY <1>1 DEF CacheInv, StoredIsFinite, CacheBound, Stored
<1>2. ASSUME NEW r \in Requests, Lookup(r) PROVE CacheInv'
  <2>1. CASE Hit(Image(r)) /\ store' = [store EXCEPT ![Image(r)].value.marked = TRUE]
    <3>1. Stored' \subseteq Stored /\ DOMAIN store' = Images
      BY <2>1 DEF Hit, Stored, CacheInv
    <3> QED
      BY <3>1, CacheInvIs, SmallSubset
  <2> QED
    BY <1>1, <1>2, <2>1, DropKeeps DEF Lookup, Miss
<1>3. ASSUME NEW r \in Requests, Fill(r) PROVE CacheInv'
  BY <1>3, SetKeeps DEF Fill
<1>4. ASSUME NEW r \in Requests, Invalidate(r) PROVE CacheInv'
  BY <1>4, DropKeeps DEF Invalidate
<1>5. ASSUME NEW r \in Requests, Step(r), ~Lookup(r), ~Fill(r), ~Invalidate(r) PROVE UNCHANGED store
  BY <1>5 DEF Step, Receive, Depends, Refuse, Upload, Query, Commit, SaveRaises, Work, Raise, Cancel
<1>6. ASSUME NEW i \in Images, ForeignWrite(i) PROVE UNCHANGED store
  BY <1>6 DEF ForeignWrite
<1> QED
  BY <1>1, <1>2, <1>3, <1>4, <1>5, <1>6 DEF Next, Passes, vars

\* The cache never holds more than max_size entries, whatever expires, is evicted
\* or invalidated in between; with max_size 0 it holds one.
THEOREM CacheIsBounded == Spec => []CacheBound
<1>1. Init => CacheInv
  <2> SUFFICES ASSUME Init PROVE CacheInv
    OBVIOUS
  <2>1. Stored = {} /\ DOMAIN store = Images
    BY DEF Init, CacheInit, Stored
  <2>2. IsFiniteSet(Stored) /\ Cardinality(Stored) = 0
    BY <2>1, FS_EmptySet
  <2> QED
    BY <2>1, <2>2, CacheAssumption DEF CacheInv, StoredIsFinite, CacheBound
<1>2. CacheInv => CacheBound
  BY DEF CacheInv
<1> QED
  BY <1>1, <1>2, NextCacheInv, PTL DEF Spec

-----------------------------------------------------------------------------
(* The metrics.                                                            *)

Under(labels) == {r \in Requests : pc[r] \in labels}

\* The labels of requests the gauge does not count, of those that count as
\* answered, and of those that count as errors.
Away == {"idle", "probed", "raised"} \cup Responses
Failures == {"raised"} \cup Errors

\* The gauge counts the requests under way and, for ever, those that were
\* cancelled; the total those that were answered.
MetricsAddUp ==
    /\ active = Cardinality(Requests) - Cardinality(Under(Away))
    /\ total = Cardinality(Under(Responses))
    /\ errors = Cardinality(Under(Failures))

MetricsInv ==
    /\ pc \in [Requests -> Labels]
    /\ active \in Int /\ total \in Int /\ errors \in Int
    /\ MetricsAddUp

One(condition) == IF condition THEN 1 ELSE 0

\* How a set of requests counted by label changes when one request moves.
LEMMA CountMoves ==
    ASSUME pc \in [Requests -> Labels], NEW r \in Requests, NEW label,
           pc' = [pc EXCEPT ![r] = label], NEW labels
    PROVE  /\ Cardinality(Under(labels)) \in Int
           /\ Cardinality(Under(labels)') =
                 Cardinality(Under(labels)) + One(label \in labels) - One(pc[r] \in labels)
<1>1. PICK S \in SUBSET Requests : S = Under(labels)
  BY DEF Under
<1>2. IsFiniteSet(S) /\ Cardinality(S) \in Nat
  BY <1>1, RequestsAssumption, FS_Subset, FS_CardinalityType
<1>3. r \in S <=> pc[r] \in labels
  BY <1>1 DEF Under
<1>4. CASE label \in labels
  <2>1. Under(labels)' = S \cup {r}
    BY <1>1, <1>4 DEF Under
  <2>2. Cardinality(S \cup {r}) = IF r \in S THEN Cardinality(S) ELSE Cardinality(S) + 1
    BY <1>2, FS_AddElement
  <2> QED
    BY <1>1, <1>2, <1>3, <1>4, <2>1, <2>2 DEF One
<1>5. CASE label \notin labels
  <2>1. Under(labels)' = S \ {r}
    BY <1>1, <1>5 DEF Under
  <2>2. Cardinality(S \ {r}) = IF r \in S THEN Cardinality(S) - 1 ELSE Cardinality(S)
    BY <1>2, FS_RemoveElement
  <2> QED
    BY <1>1, <1>2, <1>3, <1>5, <2>1, <2>2 DEF One
<1> QED
  BY <1>4, <1>5

\* A request moves on, and the instruments change by what its two labels count.
LEMMA MetricsMove ==
    ASSUME MetricsInv, NEW r \in Requests, NEW label \in Labels,
           pc' = [pc EXCEPT ![r] = label],
           active' = active - One(label \in Away) + One(pc[r] \in Away),
           total' = total + One(label \in Responses) - One(pc[r] \in Responses),
           errors' = errors + One(label \in Failures) - One(pc[r] \in Failures)
    PROVE  MetricsInv'
<1>1. pc' \in [Requests -> Labels] /\ pc \in [Requests -> Labels]
  BY DEF MetricsInv
<1>2. active' \in Int /\ total' \in Int /\ errors' \in Int
  BY DEF MetricsInv, One
<1>3. Cardinality(Requests) \in Int
  BY RequestsAssumption, FS_CardinalityType
<1>4. /\ active = Cardinality(Requests) - Cardinality(Under(Away))
      /\ total = Cardinality(Under(Responses))
      /\ errors = Cardinality(Under(Failures))
  BY DEF MetricsInv, MetricsAddUp
<1>5. active' = Cardinality(Requests) - Cardinality(Under(Away)')
  <2>1. /\ Cardinality(Under(Away)) \in Int
        /\ Cardinality(Under(Away)') =
              Cardinality(Under(Away)) + One(label \in Away) - One(pc[r] \in Away)
    BY <1>1, CountMoves
  <2>2. One(label \in Away) \in Int /\ One(pc[r] \in Away) \in Int
    BY DEF One
  <2> QED
    BY <1>3, <1>4, <2>1, <2>2
<1>6. total' = Cardinality(Under(Responses)')
  BY <1>1, <1>4, CountMoves
<1>7. errors' = Cardinality(Under(Failures)')
  BY <1>1, <1>4, CountMoves
<1> QED
  BY <1>1, <1>2, <1>5, <1>6, <1>7 DEF MetricsInv, MetricsAddUp

LEMMA StepMetrics ==
    ASSUME MetricsInv, NEW r \in Requests, Step(r)
    PROVE  MetricsInv'
<1>0. active \in Int /\ total \in Int /\ errors \in Int
  BY DEF MetricsInv
<1>1. ASSUME pc[r] \in Underway, NEW outcome \in Responses, Respond(r, outcome)
      PROVE  MetricsInv'
  <2>1. /\ One(outcome \in Away) = 1 /\ One(pc[r] \in Away) = 0
        /\ One(outcome \in Responses) = 1 /\ One(pc[r] \in Responses) = 0
        /\ One(outcome \in Failures) = One(outcome \in Errors) /\ One(pc[r] \in Failures) = 0
    BY <1>1 DEF One, Away, Failures, Responses, Errors, Underway
  <2>2. /\ pc' = [pc EXCEPT ![r] = outcome]
        /\ active' = active - 1 /\ total' = total + 1 /\ errors' = errors + One(outcome \in Errors)
    BY <1>0, <1>1 DEF Respond, Leave, One
  <2>3. outcome \in Labels /\ One(outcome \in Errors) \in Int
    BY DEF Labels, One
  <2>4. /\ active' = active - One(outcome \in Away) + One(pc[r] \in Away)
        /\ total' = total + One(outcome \in Responses) - One(pc[r] \in Responses)
        /\ errors' = errors + One(outcome \in Failures) - One(pc[r] \in Failures)
    BY <1>0, <2>1, <2>2, <2>3
  <2> QED
    BY <2>2, <2>3, <2>4, MetricsMove
<1>2. ASSUME pc[r] \in Underway, Fail(r) PROVE MetricsInv'
  <2>1. /\ One("raised" \in Away) = 1 /\ One(pc[r] \in Away) = 0
        /\ One("raised" \in Responses) = 0 /\ One(pc[r] \in Responses) = 0
        /\ One("raised" \in Failures) = 1 /\ One(pc[r] \in Failures) = 0
    BY <1>2 DEF One, Away, Failures, Responses, Errors, Underway
  <2>2. pc' = [pc EXCEPT ![r] = "raised"] /\ "raised" \in Labels
    BY <1>2 DEF Fail, Leave, Labels
  <2>3. /\ active' = active - One("raised" \in Away) + One(pc[r] \in Away)
        /\ total' = total + One("raised" \in Responses) - One(pc[r] \in Responses)
        /\ errors' = errors + One("raised" \in Failures) - One(pc[r] \in Failures)
    BY <1>0, <1>2, <2>1 DEF Fail
  <2> QED
    BY <2>2, <2>3, MetricsMove
<1>3. ASSUME pc[r] \in Underway, UNCHANGED metrics,
             NEW label \in Underway \cup {"cancelled"},
             pc' = [pc EXCEPT ![r] = label]
      PROVE  MetricsInv'
  <2>1. /\ One(label \in Away) = 0 /\ One(pc[r] \in Away) = 0
        /\ One(label \in Responses) = 0 /\ One(pc[r] \in Responses) = 0
        /\ One(label \in Failures) = 0 /\ One(pc[r] \in Failures) = 0
    BY <1>3 DEF One, Away, Failures, Responses, Errors, Underway
  <2>2. label \in Labels
    BY DEF Labels
  <2>3. /\ active' = active - One(label \in Away) + One(pc[r] \in Away)
        /\ total' = total + One(label \in Responses) - One(pc[r] \in Responses)
        /\ errors' = errors + One(label \in Failures) - One(pc[r] \in Failures)
    BY <1>0, <1>3, <2>1 DEF metrics
  <2> QED
    BY <1>3, <2>2, <2>3, MetricsMove
<1>4. CASE Receive(r)
  <2>1. ASSUME NEW label \in {"probed", "depends"}, pc' = [pc EXCEPT ![r] = label],
               active' = active + One(label = "depends"), UNCHANGED <<total, errors>>
        PROVE  MetricsInv'
    <3>1. /\ One(label \in Away) = 1 - One(label = "depends") /\ One(pc[r] \in Away) = 1
          /\ One(label \in Responses) = 0 /\ One(pc[r] \in Responses) = 0
          /\ One(label \in Failures) = 0 /\ One(pc[r] \in Failures) = 0
      BY <1>4 DEF Receive, One, Away, Failures, Responses, Errors
    <3>2. label \in Labels /\ One(label = "depends") \in Int
      BY DEF Labels, Underway, One
    <3>3. /\ active' = active - One(label \in Away) + One(pc[r] \in Away)
          /\ total' = total + One(label \in Responses) - One(pc[r] \in Responses)
          /\ errors' = errors + One(label \in Failures) - One(pc[r] \in Failures)
      BY <1>0, <2>1, <3>1, <3>2
    <3> QED
      BY <2>1, <3>2, <3>3, MetricsMove
  <2>2. CASE pc' = [pc EXCEPT ![r] = "probed"] /\ UNCHANGED metrics
    BY <1>0, <2>1, <2>2 DEF metrics, One
  <2>3. CASE /\ pc' = [pc EXCEPT ![r] = "depends"]
             /\ active' = active + 1
             /\ UNCHANGED <<total, errors>>
    BY <2>1, <2>3 DEF One
  <2> QED
    BY <1>4, <2>2, <2>3 DEF Receive, Goto
<1>5. CASE Depends(r)
  BY <1>1, <1>3, <1>5 DEF Responses, Errors, Underway, Depends, Goto
<1>6. ASSUME pc[r] \in Underway, Raises(r) PROVE MetricsInv'
  BY <1>1, <1>2, <1>6 DEF Raises, Responses
<1>7. CASE Refuse(r) \/ Upload(r)
  BY <1>1, <1>7 DEF Responses, Errors, Underway, Refuse, Upload
<1>8. CASE Lookup(r)
  BY <1>1, <1>3, <1>8 DEF Responses, Underway, Lookup, Reply, Goto, Turn
<1>9. CASE Query(r)
  BY <1>1, <1>2, <1>3, <1>9 DEF Responses, Errors, Underway, Query
<1>10. CASE Fill(r)
  BY <1>1, <1>3, <1>10 DEF Responses, Underway, Fill, Reply, Turn
<1>11. CASE Commit(r) \/ Work(r)
  BY <1>3, <1>11 DEF Commit, Work, Goto, Turn, Underway
<1>12. CASE SaveRaises(r) \/ Invalidate(r) \/ Raise(r)
  BY <1>3, <1>6, <1>12 DEF SaveRaises, Invalidate, Raise, Goto, Turn, Underway
<1>13. CASE Cancel(r)
  BY <1>3, <1>13 DEF Cancel, Leave, Underway
<1> QED
  BY <1>4, <1>5, <1>7, <1>8, <1>9, <1>10, <1>11, <1>12, <1>13 DEF Step

\* No request at a label: the labels with it count the same.
LEMMA NobodyThere ==
    ASSUME NEW labels, NEW others, Count(labels) = 0
    PROVE  \A r \in Requests : pc[r] \in others <=> pc[r] \in others \ labels
<1>1. PICK S \in SUBSET Requests : S = {r \in Requests : pc[r] \in labels}
  OBVIOUS
<1>2. IsFiniteSet(S) /\ Cardinality(S) = 0
  BY <1>1, RequestsAssumption, FS_Subset DEF Count
<1>3. S = {}
  BY <1>2, FS_EmptySet
<1> QED
  BY <1>1, <1>3

LEMMA MetricsMean == MetricsInv => MetricsUnlessCancelled
<1> SUFFICES ASSUME MetricsInv PROVE MetricsUnlessCancelled
  OBVIOUS
<1>0. /\ pc \in [Requests -> Labels]
      /\ active = Cardinality(Requests) - Cardinality(Under(Away))
      /\ total = Cardinality(Under(Responses))
      /\ errors = Cardinality(Under(Failures))
  BY DEF MetricsInv, MetricsAddUp
<1>1. ASSUME Count({"cancelled"}) = 0 PROVE active = InFlight
  <2>1. \A r \in Requests : pc[r] # "cancelled"
    BY <1>1, NobodyThere
  <2>2. PICK A \in SUBSET Requests : A = Under(Away)
    BY DEF Under
  <2>3. Requests \ A = {r \in Requests : pc[r] \in Underway}
    BY <1>0, <2>1, <2>2 DEF Under, Away, Labels, Underway, Responses, Errors
  <2>4. Requests \cap A = A
    OBVIOUS
  <2>5. Cardinality(Requests \ A) = Cardinality(Requests) - Cardinality(A)
    BY <2>4, RequestsAssumption, FS_Difference
  <2> QED
    BY <1>0, <2>2, <2>3, <2>5 DEF InFlight, Count, Underway
<1>2. ASSUME Count({"cancelled", "raised"}) = 0 PROVE total = Over
  <2>1. \A r \in Requests : pc[r] \notin {"cancelled", "raised"}
    BY <1>2, NobodyThere
  <2>2. {r \in Requests : pc[r] \in {"raised", "cancelled"} \cup Responses} = Under(Responses)
    BY <2>1 DEF Under
  <2> QED
    BY <1>0, <2>2 DEF Over, Count
<1>3. errors = Count({"raised"} \cup Errors)
  BY <1>0 DEF Count, Under, Failures
<1> QED
  BY <1>1, <1>2, <1>3 DEF MetricsUnlessCancelled

\* The gauge, the total and the error counter of the middleware say what they are
\* for after any interleaving of requests, refusals and exceptions, until a request
\* is cancelled.
THEOREM MetricsHold == Spec => []MetricsUnlessCancelled
<1>1. Init => MetricsInv
  <2> SUFFICES ASSUME Init PROVE MetricsInv
    OBVIOUS
  <2>1. pc \in [Requests -> Labels] /\ active \in Int /\ total \in Int /\ errors \in Int
    BY DEF Init, Labels
  <2>2. Under(Away) = Requests /\ Under(Responses) = {} /\ Under(Failures) = {}
    BY DEF Init, Under, Away, Failures, Responses, Errors
  <2>3. Cardinality(Requests) \in Int
    BY RequestsAssumption, FS_CardinalityType
  <2> QED
    BY <2>1, <2>2, <2>3, FS_EmptySet DEF Init, MetricsInv, MetricsAddUp
<1>2. MetricsInv /\ [Next]_vars => MetricsInv'
  <2> SUFFICES ASSUME MetricsInv, [Next]_vars PROVE MetricsInv'
    OBVIOUS
  <2>1. CASE UNCHANGED <<pc, metrics>>
    BY <2>1 DEF MetricsInv, MetricsAddUp, Under, metrics
  <2> QED
    BY <2>1, StepMetrics DEF Next, ForeignWrite, Passes, vars
<1> QED
  BY <1>1, <1>2, MetricsMean, PTL DEF Spec

-----------------------------------------------------------------------------
(* Staleness.                                                              *)

\* Time goes on and rows are only written to: what is new was written no earlier
\* than now.
RowsGrow ==
    /\ now' \in Nat /\ now <= now'
    /\ writes' \in [Images -> Seq(Nat)]
    /\ \A i \in Images :
          /\ Len(writes[i]) \in Nat /\ Len(writes'[i]) \in Nat /\ Len(writes[i]) <= Len(writes'[i])
          /\ \A n \in 1..Len(writes[i]) : writes'[i][n] = writes[i][n] /\ writes[i][n] \in Nat
          /\ \A n \in 1..Len(writes'[i]) :
                /\ writes'[i][n] \in Nat
                /\ writes'[i][n] <= now'
                /\ n > Len(writes[i]) => now <= writes'[i][n]

LEMMA WriteRowGrows ==
    ASSUME PathInv, NEW i, NEW sweeps, WriteRow(i, sweeps), now' = now
    PROVE  RowsGrow
<1>0. writes \in [Images -> Seq(Nat)] /\ now \in Nat
  BY DEF PathInv, PathTypes
<1>1. writes' = [writes EXCEPT ![i] = Append(@, now)]
  BY DEF WriteRow
<1>2. writes' \in [Images -> Seq(Nat)]
  BY <1>0, <1>1, AppendFacts
<1>3. ASSUME NEW j \in Images
      PROVE  /\ Len(writes[j]) \in Nat /\ Len(writes'[j]) \in Nat
             /\ Len(writes[j]) <= Len(writes'[j])
             /\ \A n \in 1..Len(writes[j]) : writes'[j][n] = writes[j][n] /\ writes[j][n] \in Nat
             /\ \A n \in 1..Len(writes'[j]) :
                   /\ writes'[j][n] \in Nat
                   /\ writes'[j][n] <= now'
                   /\ n > Len(writes[j]) => now <= writes'[j][n]
  <2>1. PICK s \in Seq(Nat) : s = writes[j] /\ \A n \in 1..Len(s) : s[n] <= now
    BY <1>0 DEF PathInv, Value
  <2>2. CASE j = i
    <3>1. PICK t \in Seq(Nat) :
            /\ t = Append(s, now) /\ Len(t) = Len(s) + 1 /\ t[Len(s) + 1] = now
            /\ \A n \in 1..Len(s) : t[n] = s[n] /\ s[n] \in Nat
      BY <1>0, AppendFacts
    <3>2. writes'[j] = t
      BY <1>0, <1>1, <2>1, <2>2, <3>1
    <3>3. Len(s) \in Nat /\ Len(t) \in Nat
      OBVIOUS
    <3>4. ASSUME NEW n \in 1..Len(t)
          PROVE  t[n] \in Nat /\ t[n] <= now /\ (n > Len(s) => now <= t[n])
      <4>1. CASE n = Len(s) + 1
        BY <1>0, <3>1, <4>1
      <4>2. CASE n # Len(s) + 1
        <5>1. n \in 1..Len(s)
          BY <3>1, <3>3, <4>2, NotLast
        <5>2. t[n] = s[n] /\ s[n] \in Nat /\ s[n] <= now
          BY <2>1, <3>1, <5>1
        <5> QED
          BY <3>3, <5>1, <5>2
      <4> QED
        BY <4>1, <4>2
    <3> QED
      BY <2>1, <3>1, <3>2, <3>3, <3>4
  <2>3. CASE j # i
    <3>1. writes'[j] = s
      BY <1>0, <1>1, <2>1, <2>3
    <3>2. Len(s) \in Nat /\ \A n \in 1..Len(s) : s[n] \in Nat /\ s[n] <= now
      BY <2>1
    <3> QED
      BY <2>1, <3>1, <3>2
  <2> QED
    BY <2>2, <2>3
<1> QED
  BY <1>0, <1>2, <1>3 DEF RowsGrow

LEMMA NoWriteGrows ==
    ASSUME PathInv, now' \in Nat, now <= now', UNCHANGED writes
    PROVE  RowsGrow
<1>0. writes \in [Images -> Seq(Nat)] /\ now \in Nat
  BY DEF PathInv, PathTypes
<1>1. ASSUME NEW j \in Images
      PROVE  Len(writes[j]) \in Nat /\ \A n \in 1..Len(writes[j]) : writes[j][n] \in Nat /\ writes[j][n] <= now'
  <2>1. PICK s \in Seq(Nat) : s = writes[j] /\ \A n \in 1..Len(s) : s[n] <= now
    BY <1>0 DEF PathInv, Value
  <2>2. Len(s) \in Nat /\ \A n \in 1..Len(s) : s[n] \in Nat
    OBVIOUS
  <2> QED
    BY <1>0, <2>1, <2>2
<1> QED
  BY <1>0, <1>1 DEF RowsGrow

LEMMA StepsGrow ==
    ASSUME PathInv, [Next]_vars
    PROVE  RowsGrow
<1>0. now \in Nat
  BY DEF PathInv, PathTypes
<1>1. CASE UNCHANGED <<now, writes>>
  BY <1>0, <1>1, NoWriteGrows
<1>2. CASE Passes
  BY <1>0, <1>2, NoWriteGrows DEF Passes, Tick, rows
<1>3. ASSUME NEW i \in Images, ForeignWrite(i) PROVE RowsGrow
  BY <1>3, WriteRowGrows DEF ForeignWrite
<1>4. ASSUME NEW r \in Requests, Commit(r) \/ SaveRaises(r) PROVE RowsGrow
  BY <1>1, <1>4, WriteRowGrows DEF Commit, SaveRaises
<1>5. ASSUME NEW r \in Requests, Step(r), ~(Commit(r) \/ SaveRaises(r))
      PROVE  UNCHANGED <<now, writes>>
  BY <1>5 DEF Step, Receive, Depends, Refuse, Upload, Lookup, Query, Fill, Invalidate, Work,
              Raise, Cancel, rows
<1> QED
  BY <1>1, <1>2, <1>3, <1>4, <1>5 DEF Next, vars, rows

LEMMA JobImage ==
    ASSUME NEW r, job[r] \in Jobs, job[r].route \in {"read", "process"}
    PROVE  Image(r) \in Images
BY DEF Jobs, Image

\* What a request has read stays as good as it was, whatever is written since.
LEMMA ReadKeeps ==
    ASSUME PathInv, RowsGrow, NEW r \in Requests,
           pc'[r] = pc[r], job'[r] = job[r], phase'[r] = phase[r], got'[r] = got[r]
    PROVE  ReadOk(r)'
<1>0. ReadOk(r) /\ now \in Nat /\ now' \in Nat /\ now <= now'
  BY DEF PathInv, PathTypes, RowsGrow
<1>1. CASE pc[r] # "fill"
  BY <1>0, <1>1 DEF ReadOk
<1>2. CASE pc[r] = "fill"
  <2>1. PICK i \in Images : i = Image(r) /\ i = Image(r)'
    BY <1>0, <1>2, JobImage DEF ReadOk, Underway, Image
  <2>2. PICK v \in Nat : v = got[r].value /\ v <= Len(writes[i])
    BY <1>0, <1>2, <2>1 DEF ReadOk, Value, RowsGrow
  <2>3. PICK at \in Nat : at = got[r].at /\ at <= now /\ (v < Len(writes[i]) => at <= writes[i][v + 1])
    BY <1>0, <1>2, <2>1, <2>2 DEF ReadOk, Value
  <2>4. Len(writes[i]) \in Nat /\ Len(writes'[i]) \in Nat /\ Len(writes[i]) <= Len(writes'[i])
    BY DEF RowsGrow
  <2>5. v \in 0..Len(writes'[i]) /\ at \in 0..now'
    BY <1>0, <2>2, <2>3, <2>4
  <2>6. ASSUME v < Len(writes'[i]) PROVE at <= writes'[i][v + 1]
    <3>1. v + 1 \in 1..Len(writes'[i])
      BY <2>2, <2>4, <2>6
    <3>2. CASE v < Len(writes[i])
      <4>1. v + 1 \in 1..Len(writes[i])
        BY <2>2, <2>4, <3>2
      <4> QED
        BY <2>3, <3>2, <4>1 DEF RowsGrow
    <3>3. CASE ~(v < Len(writes[i]))
      <4>1. v + 1 > Len(writes[i])
        BY <2>2, <2>4, <3>3
      <4>2. now <= writes'[i][v + 1] /\ writes'[i][v + 1] \in Nat
        BY <3>1, <4>1 DEF RowsGrow
      <4> QED
        BY <1>0, <2>3, <4>2
    <3> QED
      BY <3>2, <3>3
  <2> QED
    BY <1>0, <1>2, <2>1, <2>2, <2>3, <2>5, <2>6 DEF ReadOk, Value
<1> QED
  BY <1>1, <1>2

\* An entry that stays is as good as it was: a write that comes now is too late
\* to make it outlive its TTL by more.
LEMMA EntryKeeps ==
    ASSUME PathInv, RowsGrow, NEW i \in Stored, lag' \in Nat, lag <= lag',
           store'[i].value \in Entities,
           store'[i].value.row = store[i].value.row, store'[i].expires = store[i].expires
    PROVE  EntryOk(i)'
<1>0. /\ EntryOk(i) /\ i \in Images /\ now \in Nat /\ now' \in Nat /\ now <= now'
      /\ lag \in Nat /\ Ttl \in Nat
  BY CacheAssumption DEF PathInv, PathTypes, RowsGrow, Stored
<1>1. PICK L \in Nat : L = Len(writes[i]) /\ L <= Len(writes'[i]) /\ Len(writes'[i]) \in Nat
  BY <1>0 DEF RowsGrow
<1>2. PICK v \in Nat : v = store[i].value.row /\ v <= L
  BY <1>0, <1>1 DEF EntryOk, Value
<1>3. PICK e \in Nat : /\ e = store[i].expires /\ e <= now + Ttl
                       /\ v < L => e <= writes[i][v + 1] + Ttl + lag
  BY <1>0, <1>1, <1>2 DEF EntryOk, Value
<1>4. v \in 0..Len(writes'[i]) /\ e \in 0..(now' + Ttl)
  BY <1>0, <1>1, <1>2, <1>3, SMTT(40)
<1>5. ASSUME v < Len(writes'[i]) PROVE e <= writes'[i][v + 1] + Ttl + lag'
  <2>1. v + 1 \in 1..Len(writes'[i])
    BY <1>1, <1>2, <1>5
  <2>2. CASE v < L
    <3>1. v + 1 \in 1..L
      BY <1>1, <1>2, <2>2
    <3>2. writes'[i][v + 1] = writes[i][v + 1] /\ writes[i][v + 1] \in Nat
      BY <1>0, <1>1, <3>1 DEF RowsGrow
    <3> QED
      BY <1>0, <1>3, <2>2, <3>2
  <2>3. CASE ~(v < L)
    <3>1. v + 1 > L
      BY <1>2, <2>3
    <3>2. now <= writes'[i][v + 1] /\ writes'[i][v + 1] \in Nat
      BY <1>0, <1>1, <2>1, <3>1 DEF RowsGrow
    <3> QED
      BY <1>0, <1>3, <3>2
  <2> QED
    BY <2>2, <2>3
<1> QED
  BY <1>2, <1>3, <1>4, <1>5 DEF EntryOk, Value

FlowTypes ==
    /\ pc \in [Requests -> Labels]
    /\ job \in [Requests -> Jobs \cup {None}]
    /\ phase \in [Requests -> Phases]
    /\ got \in [Requests -> [value : Nat, at : Nat]]

Stands(q) == pc'[q] = pc[q] /\ job'[q] = job[q] /\ phase'[q] = phase[q] /\ got'[q] = got[q]

\* A step of a request leaves the others where they are.
LEMMA OneMoves ==
    ASSUME PathInv, NEW r \in Requests, Step(r)
    PROVE  FlowTypes' /\ \A q \in Requests : q # r => Stands(q)
<1> DEFINE Goal == FlowTypes' /\ \A q \in Requests : q # r => Stands(q)
<1>0. FlowTypes /\ Nothing \in [value : Nat, at : Nat]
  BY DEF PathInv, PathTypes, FlowTypes, Nothing
<1>1. ASSUME NEW label \in Labels, Leave(r, label) PROVE Goal
  BY <1>0, <1>1 DEF FlowTypes, Leave, Stands, Phases
<1>2. ASSUME NEW label \in Labels, Goto(r, label) PROVE Goal
  BY <1>0, <1>2 DEF FlowTypes, Goto, Stands
<1>3. ASSUME NEW label \in Labels, NEW next \in Phases, Turn(r, label, next) PROVE Goal
  BY <1>0, <1>3 DEF FlowTypes, Turn, Stands
<1>4. ASSUME Raises(r) PROVE Goal
  BY <1>1, <1>4 DEF Raises, Fail, Respond, Labels, Responses
<1>5. CASE Receive(r)
  <2>1. "probed" \in Labels /\ "depends" \in Labels
    BY DEF Labels, Underway
  <2>2. PICK j \in Jobs :
          IF j.route = "probe"
            THEN Goto(r, "probed")
            ELSE /\ job' = [job EXCEPT ![r] = j]
                 /\ pc' = [pc EXCEPT ![r] = "depends"]
                 /\ \E next \in Phases : phase' = [phase EXCEPT ![r] = next]
                 /\ UNCHANGED got
    BY <1>5 DEF Receive, Phases
  <2>3. CASE Goto(r, "probed")
    BY <1>2, <2>1, <2>3
  <2>4. CASE ~Goto(r, "probed")
    BY <1>0, <2>1, <2>2, <2>4 DEF FlowTypes, Stands
  <2> QED
    BY <2>3, <2>4
<1>6. CASE Depends(r)
  BY <1>1, <1>2, <1>6 DEF Depends, Respond, Labels, Underway, Responses, Errors
<1>7. CASE Refuse(r) \/ Upload(r)
  BY <1>1, <1>7 DEF Refuse, Upload, Respond, Labels, Responses, Errors
<1>8. CASE Lookup(r)
  BY <1>1, <1>2, <1>3, <1>8 DEF Lookup, Reply, Respond, Labels, Underway, Responses, Phases
<1>9. CASE Query(r)
  <2>1. CASE Image(r) \in gone
    BY <1>1, <1>9, <2>1 DEF Query, Fail, Respond, Labels, Responses, Errors
  <2>2. CASE Image(r) \notin gone
    <3>1. ReadOk(r) /\ writes \in [Images -> Seq(Nat)] /\ now \in Nat
      BY DEF PathInv, PathTypes
    <3>2. Image(r) \in Images
      BY <1>9, <3>1, JobImage DEF Query, ReadOk, Underway
    <3>3. [value |-> Value(Image(r)), at |-> now] \in [value : Nat, at : Nat]
      BY <3>1, <3>2 DEF Value
    <3>4. /\ got' = [got EXCEPT ![r] = [value |-> Value(Image(r)), at |-> now]]
          /\ pc' = [pc EXCEPT ![r] = "fill"] /\ UNCHANGED <<job, phase>> /\ "fill" \in Labels
      BY <1>9, <2>2 DEF Query, Labels, Underway
    <3> QED
      BY <1>0, <3>3, <3>4 DEF FlowTypes, Stands
  <2> QED
    BY <2>1, <2>2
<1>10. CASE Fill(r)
  BY <1>1, <1>3, <1>10 DEF Fill, Reply, Respond, Labels, Underway, Responses, Phases
<1>11. CASE Commit(r)
  BY <1>2, <1>11 DEF Commit, Labels, Underway
<1>12. CASE SaveRaises(r) \/ Work(r)
  BY <1>3, <1>4, <1>12 DEF SaveRaises, Work, Labels, Underway, Phases
<1>13. CASE Invalidate(r)
  BY <1>2, <1>3, <1>4, <1>13 DEF Invalidate, Labels, Underway, Phases
<1>14. CASE Raise(r) \/ Cancel(r)
  BY <1>1, <1>4, <1>14 DEF Raise, Cancel, Labels
<1> QED
  BY <1>5, <1>6, <1>7, <1>8, <1>9, <1>10, <1>11, <1>12, <1>13, <1>14 DEF Step

\* A request that has just read the row has the last value written.
LEMMA OwnRead ==
    ASSUME PathInv, NEW r \in Requests, Step(r)
    PROVE  ReadOk(r)'
<1>0. /\ pc \in [Requests -> Labels] /\ job \in [Requests -> Jobs \cup {None}]
      /\ phase \in [Requests -> Phases]
      /\ got \in [Requests -> [value : Nat, at : Nat]] /\ ReadOk(r) /\ now \in Nat
      /\ writes \in [Images -> Seq(Nat)]
  BY DEF PathInv, PathTypes
<1>1. ASSUME NEW label \in {"done", "failed", "limited", "raised", "cancelled"}, Leave(r, label)
      PROVE  ReadOk(r)'
  BY <1>0, <1>1 DEF Leave, ReadOk, Underway
<1>2. ASSUME Raises(r) PROVE ReadOk(r)'
  BY <1>1, <1>2 DEF Raises, Fail, Respond
<1>3. CASE Receive(r)
  BY <1>0, <1>3 DEF Receive, Goto, ReadOk, Underway
<1>4. CASE Depends(r)
  <2>1. CASE Goto(r, "handle")
    BY <1>0, <1>4, <2>1 DEF Depends, Goto, ReadOk, Underway
  <2> QED
    BY <1>1, <1>4, <2>1 DEF Depends, Respond
<1>5. CASE Refuse(r) \/ Upload(r)
  BY <1>1, <1>5 DEF Refuse, Upload, Respond
<1>6. CASE Lookup(r)
  <2>1. CASE Goto(r, "query")
    BY <1>0, <1>6, <2>1 DEF Lookup, Goto, ReadOk, Underway
  <2>2. CASE Turn(r, "save", "start")
    BY <1>0, <1>6, <2>2 DEF Lookup, Turn, ReadOk, Underway
  <2> QED
    BY <1>1, <1>6, <2>1, <2>2 DEF Lookup, Reply, Respond
<1>7. CASE Query(r)
  <2>1. CASE Image(r) \in gone
    BY <1>1, <1>7, <2>1 DEF Query, Fail, Respond
  <2>2. CASE Image(r) \notin gone
    <3>1. PICK i \in Images : i = Image(r)
      BY <1>0, <1>7, JobImage DEF Query, ReadOk, Underway
    <3>2. PICK v \in Nat : v = Value(i)
      BY <1>0 DEF Value
    <3>3. /\ got'[r] = [value |-> v, at |-> now] /\ pc'[r] = "fill" /\ UNCHANGED <<job, phase>>
          /\ writes' = writes /\ now' = now
      BY <1>0, <1>7, <2>2, <3>1, <3>2 DEF Query, rows
    <3>4. Value(Image(r))' = v /\ got'[r].value = v /\ got'[r].at = now
      BY <3>1, <3>2, <3>3 DEF Value, Image
    <3> QED
      BY <1>0, <1>7, <3>3, <3>4 DEF Query, ReadOk, Underway
  <2> QED
    BY <2>1, <2>2
<1>8. CASE Fill(r)
  <2>1. CASE Turn(r, "save", "start")
    BY <1>0, <1>8, <2>1 DEF Fill, Turn, ReadOk, Underway
  <2> QED
    BY <1>1, <1>8, <2>1 DEF Fill, Reply, Respond
<1>9. CASE Commit(r)
  BY <1>0, <1>9 DEF Commit, Goto, ReadOk, Underway
<1>10. CASE SaveRaises(r)
  <2>1. CASE Turn(r, "save", "fail")
    BY <1>0, <1>10, <2>1 DEF SaveRaises, Turn, ReadOk, Underway
  <2> QED
    BY <1>2, <1>10, <2>1 DEF SaveRaises
<1>11. CASE Invalidate(r)
  <2>1. CASE Goto(r, "work")
    BY <1>0, <1>11, <2>1 DEF Invalidate, Goto, ReadOk, Underway
  <2>2. CASE Turn(r, "handle", "answer")
    BY <1>0, <1>11, <2>2 DEF Invalidate, Turn, ReadOk, Underway
  <2> QED
    BY <1>2, <1>11, <2>1, <2>2 DEF Invalidate
<1>12. CASE Work(r)
  BY <1>0, <1>12 DEF Work, Turn, ReadOk, Underway
<1>13. CASE Raise(r) \/ Cancel(r)
  BY <1>1, <1>2, <1>13 DEF Raise, Cancel
<1> QED
  BY <1>3, <1>4, <1>5, <1>6, <1>7, <1>8, <1>9, <1>10, <1>11, <1>12, <1>13 DEF Step

Entries == [value : Entities \cup {None}, expires : Nat]

\* An entry comes from a fill, and is marked by a hit.
Refilled(r, i) ==
    /\ Fill(r)
    /\ i = Image(r)
    /\ store'[i] = [value |-> [row |-> got[r].value, marked |-> phase[r] = "load"],
                    expires |-> now + Ttl]

Marked(r, i) ==
    /\ Lookup(r)
    /\ i = Image(r)
    /\ i \in Stored
    /\ phase[r] = "load"
    /\ Turn(r, "save", "start")
    /\ store'[i] = [store[i] EXCEPT !.value.marked = TRUE]

LEMMA DropEntries ==
    ASSUME NEW i, Drop(i)
    PROVE  \A j \in Images : store'[j] \in {store[j], NoEntry}
BY DEF Drop, Without

LEMMA StoreMoves ==
    ASSUME PathInv, [Next]_vars, NEW i \in Images
    PROVE  \/ store'[i] \in {store[i], NoEntry}
           \/ \E r \in Requests : Refilled(r, i) \/ Marked(r, i)
<1>1. CASE UNCHANGED store
  BY <1>1
<1>0. store \in [Images -> Entries]
  BY DEF PathInv, PathTypes, Entries
<1>2. ASSUME NEW r \in Requests, Lookup(r) PROVE store'[i] \in {store[i], NoEntry} \/ Marked(r, i)
  <2>1. CASE Miss(Image(r))
    BY <2>1, DropEntries DEF Miss
  <2>2. CASE /\ Hit(Image(r)) /\ phase[r] = "load" /\ Turn(r, "save", "start")
             /\ store' = [store EXCEPT ![Image(r)].value.marked = TRUE]
    BY <1>0, <1>2, <2>2 DEF Marked, Hit
  <2> QED
    BY <1>1, <1>2, <2>1, <2>2 DEF Lookup
<1>3. ASSUME NEW r \in Requests, Fill(r) PROVE store'[i] \in {store[i], NoEntry} \/ Refilled(r, i)
  <2>1. PICK out : store' = [Without(out) EXCEPT ![Image(r)] =
                                [value |-> [row |-> got[r].value, marked |-> phase[r] = "load"],
                                 expires |-> now + Ttl]]
    BY <1>3 DEF Fill, Set
  <2> QED
    BY <1>3, <2>1 DEF Without, Refilled
<1>4. ASSUME NEW r \in Requests, Invalidate(r) PROVE store'[i] \in {store[i], NoEntry}
  BY <1>4, DropEntries DEF Invalidate
<1>5. ASSUME NEW r \in Requests, Step(r), ~Lookup(r), ~Fill(r), ~Invalidate(r) PROVE UNCHANGED store
  BY <1>5 DEF Step, Receive, Depends, Refuse, Upload, Query, Commit, SaveRaises, Work, Raise, Cancel
<1>6. ASSUME NEW j \in Images, ForeignWrite(j) PROVE UNCHANGED store
  BY <1>6 DEF ForeignWrite
<1> QED
  BY <1>1, <1>2, <1>3, <1>4, <1>5, <1>6 DEF Next, Passes, vars

LEMMA StoreTypes ==
    ASSUME PathInv, [Next]_vars
    PROVE  store' \in [Images -> Entries]
<1>0. store \in [Images -> Entries] /\ NoEntry \in Entries
  BY DEF PathInv, PathTypes, Entries, NoEntry
<1>1. CASE UNCHANGED store
  BY <1>0, <1>1
<1>2. ASSUME NEW out PROVE Without(out) \in [Images -> Entries]
  BY <1>0 DEF Without
<1>3. ASSUME NEW r \in Requests, Fill(r) PROVE store' \in [Images -> Entries]
  <2>1. PICK out : store' = [Without(out) EXCEPT ![Image(r)] =
                                [value |-> [row |-> got[r].value, marked |-> phase[r] = "load"],
                                 expires |-> now + Ttl]]
    BY <1>3 DEF Fill, Set
  <2>2. got[r] \in [value : Nat, at : Nat] /\ now + Ttl \in Nat
    BY CacheAssumption DEF PathInv, PathTypes
  <2>3. [value |-> [row |-> got[r].value, marked |-> phase[r] = "load"], expires |-> now + Ttl]
            \in Entries
    BY <2>2 DEF Entries, Entities
  <2> QED
    BY <1>2, <2>1, <2>3
<1>4. ASSUME NEW r \in Requests, Lookup(r) \/ Invalidate(r) PROVE store' \in [Images -> Entries]
  <2>1. ASSUME NEW i, Drop(i) PROVE store' \in [Images -> Entries]
    BY <1>2, <2>1 DEF Drop
  <2>2. CASE Lookup(r) /\ Hit(Image(r)) /\ store' = [store EXCEPT ![Image(r)].value.marked = TRUE]
    <3>1. PICK i \in Images : i = Image(r) /\ i \in Stored
      BY <2>2 DEF Hit, Stored
    <3>2. store[i].value \in Entities /\ store[i] \in Entries
      BY <1>0, <3>1 DEF PathInv, EntryOk
    <3>3. [store[i] EXCEPT !.value.marked = TRUE] \in Entries
      BY <3>2 DEF Entries, Entities
    <3> QED
      BY <1>0, <2>2, <3>1, <3>3
  <2> QED
    BY <1>1, <1>4, <2>1, <2>2 DEF Lookup, Invalidate, Miss
<1>5. ASSUME NEW r \in Requests, Step(r), ~Lookup(r), ~Fill(r), ~Invalidate(r) PROVE UNCHANGED store
  BY <1>5 DEF Step, Receive, Depends, Refuse, Upload, Query, Commit, SaveRaises, Work, Raise, Cancel
<1>6. ASSUME NEW j \in Images, ForeignWrite(j) PROVE UNCHANGED store
  BY <1>6 DEF ForeignWrite
<1> QED
  BY <1>1, <1>3, <1>4, <1>5, <1>6 DEF Next, Passes, vars

LEMMA LargerIs ==
    ASSUME NEW a \in Nat, NEW b \in Nat
    PROVE  Larger(a, b) \in Nat /\ a <= Larger(a, b) /\ b <= Larger(a, b) /\ Larger(a, b) \in {a, b}
BY DEF Larger

LEMMA StillWithin ==
    ASSUME NEW a \in Nat, NEW b \in Nat, NEW c \in Nat, NEW d \in Nat, a <= b + c, c <= d
    PROVE  a <= b + d
OBVIOUS

LEMMA WrittenBefore ==
    ASSUME PathInv, NEW i \in Images, NEW n \in 1..Value(i)
    PROVE  writes[i][n] \in Nat /\ writes[i][n] <= now
<1>1. PICK s \in Seq(Nat) : s = writes[i]
  BY DEF PathInv, PathTypes
<1>2. n \in 1..Len(s)
  BY <1>1 DEF Value
<1>3. s[n] \in Nat
  BY <1>2
<1>4. writes[i][n] <= now
  BY DEF PathInv
<1> QED
  BY <1>1, <1>3, <1>4

\* The fill itself: the entry, the longest read so far and the reply it sends.
LEMMA FillKeeps ==
    ASSUME PathInv, NEW r \in Requests, Fill(r)
    PROVE  /\ lag' \in Nat /\ lag <= lag'
           /\ staleness' \in Nat /\ staleness' <= Ttl + lag'
           /\ \A i \in Images : Refilled(r, i) => EntryOk(i)'
<1>0. /\ ReadOk(r) /\ now \in Nat /\ lag \in Nat /\ staleness \in Nat /\ Ttl \in Nat
      /\ staleness <= Ttl + lag /\ now' = now /\ writes' = writes /\ pc[r] = "fill"
  BY CacheAssumption DEF PathInv, PathTypes, BoundedStaleness, Fill, rows
<1>1. PICK i \in Images : i = Image(r)
  BY <1>0, JobImage DEF ReadOk, Underway
<1>2. PICK L \in Nat : L = Value(i)
  BY DEF PathInv, PathTypes, Value
<1>3. PICK v \in Nat : v = got[r].value /\ v <= L
  BY <1>0, <1>1, <1>2 DEF ReadOk
<1>4. PICK at \in Nat : at = got[r].at /\ at <= now /\ (v < L => at <= writes[i][v + 1])
  BY <1>0, <1>1, <1>2, <1>3 DEF ReadOk
<1>5. v < L => writes[i][v + 1] \in Nat /\ writes[i][v + 1] <= now
  <2> SUFFICES ASSUME v < L PROVE writes[i][v + 1] \in Nat /\ writes[i][v + 1] <= now
    OBVIOUS
  <2>1. v + 1 \in 1..L
    BY <1>3
  <2> QED
    BY <1>2, <2>1, WrittenBefore
<1>6. lag' = Larger(lag, now - at) /\ now - at \in Nat
  BY <1>0, <1>4 DEF Fill
<1>7. lag' \in Nat /\ lag <= lag' /\ now - at <= lag'
  BY <1>0, <1>6, LargerIs
<1>8. staleness' \in Nat /\ staleness' <= Ttl + lag'
  <2>0. CASE UNCHANGED staleness
    BY <1>0, <1>7, <2>0, StillWithin
  <2>1. CASE v < L /\ Reply(r, i, v)
    <3>1. staleness' = Larger(staleness, now - writes[i][v + 1])
      BY <1>2, <2>1 DEF Reply
    <3>2. now - writes[i][v + 1] \in Nat /\ now - writes[i][v + 1] <= lag'
      BY <1>0, <1>4, <1>5, <1>7, <2>1
    <3>3. staleness' \in Nat /\ staleness' \in {staleness, now - writes[i][v + 1]}
      BY <1>0, <3>1, <3>2, LargerIs
    <3>4. CASE staleness' = now - writes[i][v + 1]
      BY <1>0, <1>7, <3>2, <3>4
    <3> QED
      BY <2>0, <3>3, <3>4
  <2>2. CASE ~(v < L) /\ Reply(r, i, v)
    BY <1>2, <2>0, <2>2 DEF Reply
  <2> QED
    BY <1>1, <1>3, <2>0, <2>1, <2>2 DEF Fill
<1>9. ASSUME NEW j \in Images, Refilled(r, j) PROVE EntryOk(j)'
  <2>1. /\ j = i /\ store'[i].value.row = v /\ store'[i].expires = now + Ttl
        /\ store'[i].value \in Entities
    BY <1>1, <1>3, <1>9 DEF Refilled, Entities
  <2>2. Value(i)' = L
    BY <1>0, <1>2 DEF Value
  <2>3. v < L => now + Ttl <= writes[i][v + 1] + Ttl + lag'
    BY <1>0, <1>4, <1>5, <1>7
  <2> QED
    BY <1>0, <1>3, <2>1, <2>2, <2>3 DEF EntryOk
<1> QED
  BY <1>7, <1>8, <1>9

\* A hit: the entry is not past, so that its value was overwritten no longer ago
\* than EntryOk says.
LEMMA LookupKeeps ==
    ASSUME PathInv, NEW r \in Requests, Lookup(r)
    PROVE  staleness' \in Nat /\ staleness' <= Ttl + lag
<1>0. /\ ReadOk(r) /\ now \in Nat /\ lag \in Nat /\ staleness \in Nat /\ Ttl \in Nat
      /\ staleness <= Ttl + lag
  BY CacheAssumption DEF PathInv, PathTypes, BoundedStaleness
<1>1. CASE UNCHANGED staleness
  BY <1>0, <1>1
<1>2. CASE Hit(Image(r)) /\ Reply(r, Image(r), store[Image(r)].value.row)
  <2>1. PICK i \in Images : i = Image(r)
    BY <1>0, JobImage DEF Lookup, ReadOk, Underway
  <2>2. i \in Stored /\ ~Past(i) /\ EntryOk(i)
    BY <1>2, <2>1 DEF Hit, PathInv
  <2>3. PICK L \in Nat : L = Value(i)
    BY DEF PathInv, PathTypes, Value
  <2>4. PICK v \in Nat : v = store[i].value.row /\ v <= L
    BY <2>2, <2>3 DEF EntryOk
  <2>5. PICK e \in Nat : /\ e = store[i].expires /\ now <= e
                         /\ v < L => e <= writes[i][v + 1] + Ttl + lag
    BY <1>0, <2>2, <2>3, <2>4 DEF EntryOk, Past
  <2>6. CASE v < L
    <3>1. v + 1 \in 1..L
      BY <2>6
    <3>3. writes[i][v + 1] \in Nat /\ writes[i][v + 1] <= now
      BY <2>3, <3>1, WrittenBefore
    <3>4. staleness' = Larger(staleness, now - writes[i][v + 1])
      BY <1>2, <2>1, <2>3, <2>4, <2>6 DEF Reply
    <3>5. now - writes[i][v + 1] \in Nat /\ now - writes[i][v + 1] <= Ttl + lag
      BY <1>0, <2>5, <2>6, <3>3
    <3>6. staleness' \in Nat /\ staleness' \in {staleness, now - writes[i][v + 1]}
      BY <1>0, <3>4, <3>5, LargerIs
    <3> QED
      BY <1>0, <3>5, <3>6
  <2>7. CASE ~(v < L)
    <3>1. staleness' = staleness
      BY <1>2, <2>1, <2>3, <2>4, <2>7 DEF Reply
    <3> QED
      BY <1>0, <3>1
  <2> QED
    BY <2>6, <2>7
<1> QED
  BY <1>1, <1>2 DEF Lookup

LEMMA HistoryGrows ==
    ASSUME PathInv, [Next]_vars
    PROVE  lag' \in Nat /\ lag <= lag' /\ staleness' \in Nat /\ staleness' <= Ttl + lag'
<1>0. lag \in Nat /\ staleness \in Nat /\ staleness <= Ttl + lag
  BY DEF PathInv, PathTypes, BoundedStaleness
<1>1. CASE UNCHANGED <<lag, staleness>>
  BY <1>0, <1>1
<1>2. ASSUME NEW r \in Requests, Lookup(r)
      PROVE  lag' \in Nat /\ lag <= lag' /\ staleness' \in Nat /\ staleness' <= Ttl + lag'
  BY <1>0, <1>2, LookupKeeps DEF Lookup
<1>3. ASSUME NEW r \in Requests, Step(r), ~Lookup(r), ~Fill(r) PROVE UNCHANGED <<lag, staleness>>
  BY <1>3 DEF Step, Receive, Depends, Refuse, Upload, Query, Commit, SaveRaises, Invalidate,
              Work, Raise, Cancel, history
<1>4. ASSUME NEW i \in Images, ForeignWrite(i) PROVE UNCHANGED <<lag, staleness>>
  BY <1>4 DEF ForeignWrite
<1> QED
  BY <1>1, <1>2, <1>3, <1>4, FillKeeps DEF Next, Passes, vars, history

LEMMA NextPathInv == PathInv /\ [Next]_vars => PathInv'
<1> SUFFICES ASSUME PathInv, [Next]_vars PROVE PathInv'
  OBVIOUS
<1>0. RowsGrow
  BY StepsGrow
<1>1. FlowTypes' /\ \A r \in Requests : ReadOk(r)'
  <2>1. CASE UNCHANGED <<pc, job, phase, got>>
    BY <1>0, <2>1, ReadKeeps DEF FlowTypes, PathInv, PathTypes
  <2>2. ASSUME NEW r \in Requests, Step(r) PROVE FlowTypes' /\ \A q \in Requests : ReadOk(q)'
    BY <1>0, <2>2, OneMoves, OwnRead, ReadKeeps DEF Stands
  <2> QED
    BY <2>1, <2>2 DEF Next, ForeignWrite, Passes, vars
<1>2. \A i \in Stored' : EntryOk(i)'
  <2> SUFFICES ASSUME NEW i \in Images, store'[i] # NoEntry PROVE EntryOk(i)'
    BY DEF Stored
  <2>1. CASE store'[i] = store[i]
    <3>1. i \in Stored
      BY <2>1 DEF Stored
    <3>2. store'[i].value \in Entities
      BY <2>1, <3>1 DEF PathInv, EntryOk
    <3> QED
      BY <1>0, <2>1, <3>1, <3>2, EntryKeeps, HistoryGrows
  <2>2. CASE \E r \in Requests : Refilled(r, i)
    BY <2>2, FillKeeps DEF Refilled
  <2>3. CASE \E r \in Requests : Marked(r, i)
    <3>1. i \in Stored /\ store'[i] = [store[i] EXCEPT !.value.marked = TRUE]
      BY <2>3 DEF Marked
    <3>2. store[i].value \in Entities /\ store[i] \in Entries
      BY <3>1 DEF PathInv, PathTypes, Entries, EntryOk
    <3>3. /\ store'[i].value \in Entities
          /\ store'[i].value.row = store[i].value.row /\ store'[i].expires = store[i].expires
      BY <3>1, <3>2 DEF Entries, Entities
    <3> QED
      BY <1>0, <3>1, <3>3, EntryKeeps, HistoryGrows
  <2> QED
    BY <2>1, <2>2, <2>3, StoreMoves
<1>3. PathTypes'
  BY <1>0, <1>1, StoreTypes, HistoryGrows DEF PathTypes, FlowTypes, Entries, RowsGrow
<1>4. \A i \in Images : \A n \in 1..Value(i)' : writes'[i][n] <= now'
  BY <1>0 DEF RowsGrow, Value
<1> QED
  BY <1>1, <1>2, <1>3, <1>4, HistoryGrows DEF PathInv, BoundedStaleness, Value

LEMMA InitPathInv == Init => PathInv
<1> SUFFICES ASSUME Init PROVE PathInv
  OBVIOUS
<1>1. PathTypes
  BY DEF Init, PathTypes, CacheInit, NoEntry, Nothing, Labels, Phases
<1>2. \A i \in Images : Value(i) = 0
  BY DEF Init, Value
<1>3. Stored = {}
  BY DEF Init, CacheInit, Stored
<1>4. \A r \in Requests : ReadOk(r)
  BY DEF Init, ReadOk, Underway
<1> QED
  BY <1>1, <1>2, <1>3, <1>4, CacheAssumption DEF Init, PathInv, BoundedStaleness

LEMMA SpecPathInv == Spec => []PathInv
BY InitPathInv, NextPathInv, PTL DEF Spec

\* Whoever writes a row, and however a fill races with the write and with the
\* expiry of the entry, no reply carries a value that was overwritten longer ago
\* than the TTL and the slowest read together.
THEOREM StalenessIsBounded == Spec => []BoundedStaleness
BY SpecPathInv, PTL DEF PathInv

-----------------------------------------------------------------------------
(* Coherence.                                                              *)

\* A handler that is to save and to invalidate stays on its way until it
\* invalidates, gives up or is cancelled.
AtSave(q, i) == pc[q] \in {"save", "invalidate"} /\ Image(q) = i

LEMMA WriterStays ==
    ASSUME PathInv, [Next]_vars, NEW i \in Images, i \notin overtaken',
           NEW q \in Requests, AtSave(q, i), ~Invalidate(q)
    PROVE  AtSave(q, i)'
<1>0. pc \in [Requests -> Labels]
  BY DEF PathInv, PathTypes
<1>1. ASSUME NEW r \in Requests, Step(r), r # q PROVE pc'[q] = pc[q] /\ job'[q] = job[q]
  BY <1>1, OneMoves DEF Stands
<1>2. CASE Step(q)
  <2>1. Commit(q) \/ SaveRaises(q) \/ Cancel(q)
    BY <1>2 DEF AtSave, Step, Receive, Depends, Refuse, Upload, Lookup, Query, Fill, Work, Raise
  <2>2. pc'[q] \in {"save", "invalidate"} /\ job' = job
    BY <1>0, <2>1 DEF AtSave, Commit, SaveRaises, Cancel, Goto, Turn
  <2> QED
    BY <2>2 DEF AtSave, Image
<1>3. CASE ~Step(q)
  <2>1. pc'[q] = pc[q] /\ job'[q] = job[q]
    BY <1>1, <1>3 DEF Next, ForeignWrite, Passes, vars
  <2> QED
    BY <2>1 DEF AtSave, Image
<1> QED
  BY <1>2, <1>3

\* One image: what keeps its entry coherent.
CoherentFor(i) ==
    i \in Stored /\ Stale(i) => i \in overtaken \/ \E r \in Requests : AtSave(r, i)

\* A step that leaves the row and the entry alone, or drops the entry, and takes
\* nothing off the list of images that were overtaken.
LEMMA QuietRow ==
    ASSUME PathInv, [Next]_vars, NEW i \in Images, CoherentFor(i), store'[i] \in {store[i], NoEntry},
           writes'[i] = writes[i], i \in overtaken => i \in overtaken',
           \A q \in Requests : ~(Invalidate(q) /\ Image(q) = i)
    PROVE  CoherentFor(i)'
<1> SUFFICES ASSUME i \in Stored', Stale(i)', i \notin overtaken'
             PROVE  \E r \in Requests : AtSave(r, i)'
  BY DEF CoherentFor
<1>1. i \in Stored /\ Stale(i)
  BY DEF Stored, Stale, Value
<1>2. PICK q \in Requests : AtSave(q, i)
  BY <1>1 DEF CoherentFor
<1>3. ~Invalidate(q)
  BY <1>2 DEF AtSave
<1> QED
  BY <1>2, <1>3, WriterStays

LEMMA NextCoherent == PathInv /\ Coherent /\ [Next]_vars => Coherent'
<1> SUFFICES ASSUME PathInv, Coherent, [Next]_vars, NEW i \in Images
             PROVE  CoherentFor(i)'
  BY DEF Coherent, CoherentFor, AtSave, Stored
<1>0. /\ CoherentFor(i)
      /\ writes \in [Images -> Seq(Nat)]
      /\ pc \in [Requests -> Labels]
  BY DEF Coherent, CoherentFor, AtSave, PathInv, PathTypes
<1>1. CASE i \in overtaken'
  BY <1>1 DEF CoherentFor
<1>2. CASE /\ i \notin overtaken'
           /\ \E r \in Requests : Image(r) = i /\ (Commit(r) \/ SaveRaises(r) \/ Marked(r, i))
  <2>1. PICK r \in Requests : Image(r) = i /\ (Commit(r) \/ SaveRaises(r) \/ Marked(r, i))
    BY <1>2
  <2>2. pc'[r] \in {"save", "invalidate"} /\ job' = job
    BY <1>0, <1>2, <2>1 DEF Commit, SaveRaises, Marked, Goto, Turn
  <2> QED
    BY <2>1, <2>2 DEF CoherentFor, AtSave, Image
<1>3. CASE i \notin overtaken' /\ \E r \in Requests : Invalidate(r) /\ Image(r) = i
  <2>1. store'[i] = NoEntry
    BY <1>3 DEF Invalidate, Drop, Without
  <2> QED
    BY <2>1 DEF CoherentFor, Stored
<1>4. CASE i \notin overtaken' /\ \E r \in Requests : Fill(r) /\ Image(r) = i
  <2>1. PICK r \in Requests : Fill(r) /\ Image(r) = i
    BY <1>4
  <2>2. CASE phase[r] = "load"
    <3>1. pc'[r] = "save" /\ job' = job
      BY <1>0, <2>1, <2>2 DEF Fill, Turn
    <3> QED
      BY <2>1, <3>1 DEF CoherentFor, AtSave, Image
  <2>3. CASE phase[r] # "load"
    <3>1. got[r].value = Value(i)
      BY <1>4, <2>1 DEF Fill
    <3>2. PICK out : store' = [Without(out) EXCEPT ![i] =
                                  [value |-> [row |-> got[r].value, marked |-> phase[r] = "load"],
                                   expires |-> now + Ttl]]
      BY <2>1 DEF Fill, Set
    <3>3. store'[i].value = [row |-> Value(i), marked |-> FALSE]
      BY <2>3, <3>1, <3>2 DEF Without
    <3>4. Value(i)' = Value(i)
      BY <2>1 DEF Fill, rows, Value
    <3> QED
      BY <3>3, <3>4 DEF CoherentFor, Stale
  <2> QED
    BY <2>2, <2>3
<1>5. CASE /\ i \notin overtaken'
           /\ \A r \in Requests :
                 Commit(r) \/ SaveRaises(r) \/ Marked(r, i) \/ Invalidate(r) \/ Fill(r) => Image(r) # i
  <2>1. store'[i] \in {store[i], NoEntry}
    BY <1>5, StoreMoves DEF Refilled, Marked
  <2>2. writes'[i] = writes[i] /\ i \notin overtaken
    <3>1. ASSUME NEW r \in Requests, Step(r) PROVE writes'[i] = writes[i] /\ i \notin overtaken
      <4>1. CASE Commit(r) \/ SaveRaises(r)
        BY <1>0, <1>5, <4>1 DEF Commit, SaveRaises, WriteRow, history
      <4>2. CASE Fill(r) \/ Invalidate(r)
        BY <1>5, <4>2 DEF Fill, Invalidate, rows
      <4>3. CASE Cancel(r)
        BY <1>5, <4>3 DEF Cancel, rows
      <4>4. CASE ~(Commit(r) \/ SaveRaises(r) \/ Fill(r) \/ Invalidate(r) \/ Cancel(r))
        BY <1>5, <3>1, <4>4 DEF Step, Receive, Depends, Refuse, Upload, Lookup, Query, Work, Raise,
                                rows, history
      <4> QED
        BY <4>1, <4>2, <4>3, <4>4
    <3>2. ASSUME NEW j \in Images, ForeignWrite(j) PROVE writes'[i] = writes[i] /\ i \notin overtaken
      BY <1>0, <1>5, <3>2 DEF ForeignWrite, WriteRow
    <3> QED
      BY <1>5, <3>1, <3>2 DEF Next, Passes, vars, rows, history
  <2> QED
    BY <1>0, <1>5, <2>1, <2>2, QuietRow
<1> QED
  BY <1>1, <1>2, <1>3, <1>4, <1>5

\* An entity in the cache, which handlers mark before they save it, differs from its
\* row only when another process wrote the row, when a write overtook the fill, when
\* the last save raised or was cancelled, or while a handler is on its way to the save
\* and the invalidation, for any number of racing requests.
THEOREM CacheIsCoherent == Spec => []CoherentUnlessOvertaken
<1>1. Init => Coherent
  BY DEF Init, CacheInit, Coherent, Stored
<1>2. Coherent => CoherentUnlessOvertaken
  BY DEF Coherent, CoherentUnlessOvertaken, Hit
<1> QED
  BY <1>1, <1>2, NextCoherent, SpecPathInv, PTL DEF Spec

=============================================================================
