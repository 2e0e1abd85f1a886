---------------------------- MODULE ImageCache -----------------------------
(***************************************************************************)
(* InMemoryImageCache: at most max_size entries, each good for ttl_seconds.*)
(* Every method holds an asyncio lock and does not suspend while holding   *)
(* it, so it is one step.                                                  *)
(***************************************************************************)
EXTENDS Clock, FiniteSets

CONSTANTS
    Images,     \* image ids
    Values,     \* what a row may hold
    Ttl,        \* cache_ttl_seconds
    MaxSize,    \* cache_max_size
    None

ASSUME CacheAssumption == Ttl \in Nat /\ MaxSize \in Nat /\ None \notin Images

VARIABLE store  \* _store: the entry of each image, or None

NoEntry == [value |-> None, expires |-> 0]
Stored == {i \in Images : store[i] # NoEntry}

CacheInit == store = [i \in Images |-> NoEntry]

MutPast(i) == now > store[i].expires + 1
Past(i) == now > store[i].expires

Hit(i) == i \in Stored /\ ~Past(i)

Without(gone) == [i \in Images |-> IF i \in gone THEN NoEntry ELSE store[i]]

\* invalidate, and get of an entry that has outlived its TTL.
Drop(i) == store' = Without({i})

\* get finds nothing to return.
Miss(i) ==
    /\ ~Hit(i)
    /\ Drop(i)

\* _evict_oldest may take any of these: min() takes the first it meets.
Oldest(from) == {i \in from : \A j \in from : store[i].expires <= store[j].expires}

MutEvictions(i) ==
    LET past == {j \in Stored : Past(j)} IN
    IF Cardinality(Stored) < MaxSize \/ i \in Stored THEN {{}}
    ELSE {past}

\* The entries set may have to remove to make room for image i.
Evictions(i) ==
    LET past == {j \in Stored : Past(j)}
        left == Stored \ past
    IN  IF Cardinality(Stored) < MaxSize \/ i \in Stored THEN {{}}
        ELSE IF Cardinality(left) < MaxSize \/ left = {} THEN {past}
        ELSE {past \cup {j} : j \in Oldest(left)}

\* set: make room, then enter the value with its full lifetime.
Set(i, v) ==
    \E gone \in Evictions(i) :
        store' = [Without(gone) EXCEPT ![i] = [value |-> v, expires |-> now + Ttl]]

CacheTypeOK ==
    store \in [Images -> [value : Values \cup {None}, expires : 0..(MaxTime + Ttl)]]

\* The cache never outgrows max_size, except that max_size 0 still keeps one entry.
CacheBound == Cardinality(Stored) <= MaxSize \/ Cardinality(Stored) = 1
=============================================================================
