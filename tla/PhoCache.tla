------------------------------ MODULE PhoCache ------------------------------
(***************************************************************************)
(* The reference counted cache of src/core/common/pho_cache.c, which the   *)
(* threads of the LRS share to look at media (src/lrs/lrs_cache.c).        *)
(*                                                                         *)
(* A holder is one pointer variable of one thread (ld_dss_media_info of a  *)
(* device, alloc_medium of a sub-request...): it owns at most one          *)
(* reference.  A slot is an address where key_value_alloc can put a value; *)
(* a freed slot is used again.  Every call holds the rwlock of the cache   *)
(* and is one step, except pho_cache_acquire, which gives up the read lock *)
(* after a miss before it takes the write lock.                            *)
(***************************************************************************)
EXTENDS Integers, FiniteSets

CONSTANTS Holders, Keys, Slots, Nil

ASSUME CacheAssumption ==
    /\ IsFiniteSet(Holders)
    /\ Nil \notin Keys /\ Nil \notin Slots

VARIABLES cache,    \* the table of current values: key -> slot
          old,      \* the slots in the table old_values
          key,      \* slot -> the key of the value in it, Nil if it is free
          count,    \* slot -> its pho_ref count
          held,     \* holder -> the slot it points to
          missed    \* holder -> the key its acquire did not find

vars == <<cache, old, key, count, held, missed>>

Init ==
    /\ cache = [k \in Keys |-> Nil]
    /\ old = {}
    /\ key = [v \in Slots |-> Nil]
    /\ count = [v \in Slots |-> 0]
    /\ held = [r \in Holders |-> Nil]
    /\ missed = [r \in Holders |-> Nil]

Idle(r) == held[r] = Nil /\ missed[r] = Nil

\* key_value_alloc gives an address that is not in use.
Free(v) == key[v] = Nil
-----------------------------------------------------------------------------
\* pho_cache_acquire: the value is found with the read lock...
AcquireHit(r, k) ==
    /\ Idle(r)
    /\ cache[k] # Nil
    /\ count' = [count EXCEPT ![cache[k]] = @ + 1]
    /\ held' = [held EXCEPT ![r] = cache[k]]
    /\ UNCHANGED <<cache, old, key, missed>>

\* ... or it is not, and the lock is given up.
AcquireMiss(r, k) ==
    /\ Idle(r)
    /\ cache[k] = Nil
    /\ missed' = [missed EXCEPT ![r] = k]
    /\ UNCHANGED <<cache, old, key, count, held>>

\* With the write lock the table is looked up again.
AcquireRecheck(r) ==
    LET k == missed[r] IN
    /\ k # Nil
    /\ cache[k] # Nil
    /\ count' = [count EXCEPT ![cache[k]] = @ + 1]
    /\ held' = [held EXCEPT ![r] = cache[k]]
    /\ missed' = [missed EXCEPT ![r] = Nil]
    /\ UNCHANGED <<cache, old, key>>

\* Still absent: pco_build makes the value...
AcquireBuild(r, v) ==
    LET k == missed[r] IN
    /\ k # Nil /\ Free(v)
    /\ cache[k] = Nil
    /\ cache' = [cache EXCEPT ![k] = v]
    /\ key' = [key EXCEPT ![v] = k]
    /\ count' = [count EXCEPT ![v] = 1]
    /\ held' = [held EXCEPT ![r] = v]
    /\ missed' = [missed EXCEPT ![r] = Nil]
    /\ UNCHANGED old

\* ... or fails, and the caller gets NULL.
AcquireFail(r) ==
    /\ missed[r] # Nil
    /\ cache[missed[r]] = Nil
    /\ missed' = [missed EXCEPT ![r] = Nil]
    /\ UNCHANGED <<cache, old, key, count, held>>

\* Mutant: the replaced value is forgotten instead of being kept for those
\* who use it.
Insert_ForgetOld(r, k, v) ==
    /\ Idle(r) /\ Free(v)
    /\ cache' = [cache EXCEPT ![k] = v]
    /\ key' = [key EXCEPT ![v] = k]
    /\ count' = [count EXCEPT ![v] = 1]
    /\ held' = [held EXCEPT ![r] = v]
    /\ UNCHANGED <<missed, old>>

\* pho_cache_insert and a successful pho_cache_update: a new value with one
\* reference, the caller's.  A value already there is moved to old_values if
\* it has references (pho_cache_insert_old), and destroyed if not.
Insert(r, k, v) ==
    LET prev == cache[k]
        keep == prev # Nil => count[prev] > 0 IN
    /\ Idle(r) /\ Free(v)
    /\ old' = IF prev # Nil /\ keep THEN old \cup {prev} ELSE old
    /\ cache' = [cache EXCEPT ![k] = v]
    /\ key' = [s \in Slots |-> IF s = v THEN k
                               ELSE IF s = prev /\ ~keep THEN Nil ELSE key[s]]
    /\ count' = [count EXCEPT ![v] = 1]
    /\ held' = [held EXCEPT ![r] = v]
    /\ UNCHANGED missed

\* The value is the current one of its key.
Current(v) == cache[key[v]] = v

\* pho_cache_release.  A value that is not the current one of its key is
\* looked up in old_values, where the code asserts that it is.
Release(r) ==
    LET v == held[r]
        last == count[v] = 1 IN
    /\ v # Nil
    /\ key[v] # Nil
    /\ Current(v) \/ (v \in old /\ count[v] > 0)
    /\ held' = [held EXCEPT ![r] = Nil]
    /\ count' = [count EXCEPT ![v] = @ - 1]
    /\ cache' = IF Current(v) /\ last THEN [cache EXCEPT ![key[v]] = Nil]
                ELSE cache
    /\ old' = IF ~Current(v) /\ last THEN old \ {v} ELSE old
    /\ key' = IF last THEN [key EXCEPT ![v] = Nil] ELSE key
    /\ UNCHANGED missed

Next ==
    \E r \in Holders :
       \/ \E k \in Keys : AcquireHit(r, k) \/ AcquireMiss(r, k)
       \/ AcquireRecheck(r)
       \/ \E v \in Slots : AcquireBuild(r, v)
       \/ AcquireFail(r)
       \/ \E k \in Keys, v \in Slots : Insert(r, k, v)
       \/ Release(r)

Spec == Init /\ [][Next]_vars
-----------------------------------------------------------------------------
Users(v) == {r \in Holders : held[r] = v}

\* The tables map keys to slots, slots to keys and holders to either.
TypeOK ==
    /\ cache \in [Keys -> Slots \cup {Nil}]
    /\ old \subseteq Slots
    /\ key \in [Slots -> Keys \cup {Nil}]
    /\ count \in [Slots -> Nat]
    /\ held \in [Holders -> Slots \cup {Nil}]
    /\ missed \in [Holders -> Keys \cup {Nil}]

\* pho_ref: the count of a value is exactly the number of pointers to it.
RefCount == \A v \in Slots : count[v] = Cardinality(Users(v))

\* A pointer always points to a value that is in one of the two tables: the
\* assertion of pho_cache_release never fails, and nobody reads freed memory.
NoDangling ==
    \A r \in Holders : held[r] # Nil =>
        /\ key[held[r]] # Nil
        /\ Current(held[r]) \/ (held[r] \in old /\ count[held[r]] > 0)

\* The tables are disjoint and a current value is filed under its own key,
\* so that the removals asserted by the code remove the right entry.
TablesAgree ==
    /\ \A k \in Keys : cache[k] # Nil =>
          key[cache[k]] = k /\ cache[k] \notin old
    /\ \A v \in old : key[v] # Nil

\* A value without pointers is destroyed: neither the cache nor old_values
\* keeps media that nobody uses.
NoLeak == \A v \in Slots : key[v] # Nil => Users(v) # {}

\* The references of the media are counted exactly by the two tables together.
CacheSound == RefCount /\ NoDangling /\ TablesAgree /\ NoLeak

\* While a pointer stays where it is, its value is neither destroyed nor
\* replaced under it, whatever the others acquire, update or release.
HeldIsStable ==
    [][\A r \in Holders : held[r] # Nil /\ held'[r] = held[r] =>
          key'[held[r]] = key[held[r]]]_vars
=============================================================================
