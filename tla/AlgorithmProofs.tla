-------------------------- MODULE AlgorithmProofs --------------------------
(***************************************************************************)
(* Proofs about the four small algorithms, for any size of their inputs:   *)
(* the fair share of the drives, the cache of the media, the order of the  *)
(* groups of a rebuild and the locate of an object.                        *)
(***************************************************************************)
EXTENDS FairShareLoop, RebuildSched, Locate, PhoCache, FiniteSetTheorems,
        WellFoundedInduction, TLAPS

-----------------------------------------------------------------------------
(* The cache of the media.                                                 *)

\* A pointer is being acquired or is set, not both.
Pending == \A r \in Holders : missed[r] # Nil => held[r] = Nil

Inv == TypeOK /\ RefCount /\ NoDangling /\ TablesAgree /\ NoLeak /\ Pending

USE CacheAssumption

\* The pointers to a slot are finitely many.
LEMMA UsersFinite == \A v : IsFiniteSet(Users(v))
<1>1. \A v : Users(v) \in SUBSET Holders
  BY DEF Users
<1> QED BY <1>1, FS_Subset

\* A pointer that is set adds itself to the pointers of its slot.
LEMMA UsersAdd ==
    ASSUME TypeOK, NEW r \in Holders, held[r] = Nil, NEW v \in Slots,
           held' = [held EXCEPT ![r] = v]
    PROVE  /\ \A s \in Slots : Users(s)' = IF s = v THEN Users(s) \cup {r}
                                           ELSE Users(s)
           /\ \A s \in Slots : Cardinality(Users(s)') =
                                  IF s = v THEN Cardinality(Users(s)) + 1
                                  ELSE Cardinality(Users(s))
<1>1. \A s \in Slots : Users(s)' = IF s = v THEN Users(s) \cup {r}
                                   ELSE Users(s)
  BY DEF Users, TypeOK
<1>2. r \notin Users(v)
  BY DEF Users
<1>3. Cardinality(Users(v) \cup {r}) = Cardinality(Users(v)) + 1
  BY <1>2, UsersFinite, FS_AddElement
<1> QED BY <1>1, <1>3

\* A pointer that is reset leaves those of its slot; the last one leaves none.
LEMMA UsersRemove ==
    ASSUME TypeOK, NEW r \in Holders, held[r] # Nil,
           held' = [held EXCEPT ![r] = Nil]
    PROVE  /\ \A s \in Slots : Users(s)' = IF s = held[r]
                                           THEN Users(s) \ {r} ELSE Users(s)
           /\ \A s \in Slots : Cardinality(Users(s)') =
                                  IF s = held[r] THEN Cardinality(Users(s)) - 1
                                  ELSE Cardinality(Users(s))
           /\ Cardinality(Users(held[r])) \in Nat \ {0}
           /\ Cardinality(Users(held[r])) = 1 <=> Users(held[r]) = {r}
<1>1. \A s \in Slots : Users(s)' = IF s = held[r] THEN Users(s) \ {r}
                                   ELSE Users(s)
  BY DEF Users, TypeOK
<1>2. r \in Users(held[r])
  BY DEF Users
<1>3. Cardinality(Users(held[r]) \ {r}) = Cardinality(Users(held[r])) - 1
  BY <1>2, UsersFinite, FS_RemoveElement
<1>4. /\ Cardinality(Users(held[r])) \in Nat
      /\ Cardinality(Users(held[r])) # 0
  BY <1>2, UsersFinite, FS_CardinalityType, FS_EmptySet
<1>5. Cardinality(Users(held[r])) = 1 <=> Users(held[r]) = {r}
  BY <1>2, UsersFinite, FS_Singleton
<1> QED BY <1>1, <1>3, <1>4, <1>5

\* Nothing is cached and nothing is held at first.
LEMMA InitInv == Init => Inv
<1> SUFFICES ASSUME Init PROVE Inv
  OBVIOUS
<1>1. \A v \in Slots : Users(v) = {}
  BY DEF Init, Users
<1>2. RefCount
  BY <1>1, FS_EmptySet DEF RefCount, Init
<1> QED BY <1>1, <1>2 DEF Init, Inv, TypeOK, NoDangling, TablesAgree, NoLeak,
                          Current, Pending

\* What the two ways of finding a value in the table have in common.
LEMMA CacheShareInv ==
    ASSUME Inv, NEW r \in Holders, held[r] = Nil, NEW k \in Keys,
           cache[k] # Nil,
           count' = [count EXCEPT ![cache[k]] = @ + 1],
           held' = [held EXCEPT ![r] = cache[k]],
           missed' = [missed EXCEPT ![r] = Nil],
           UNCHANGED <<cache, old, key>>
    PROVE  Inv'
<1>0. cache[k] \in Slots
  BY DEF Inv, TypeOK
<1>1. TypeOK'
  <2>1. count' \in [Slots -> Nat]
    BY <1>0 DEF Inv, TypeOK
  <2>2. held' \in [Holders -> Slots \cup {Nil}]
    BY <1>0 DEF Inv, TypeOK
  <2> QED BY <2>1, <2>2 DEF Inv, TypeOK
<1>2. RefCount'
  <2>1. \A s \in Slots : count'[s] = IF s = cache[k] THEN count[s] + 1
                                    ELSE count[s]
    BY <1>0 DEF Inv, TypeOK
  <2>2. \A s \in Slots : Cardinality(Users(s)') =
           IF s = cache[k] THEN Cardinality(Users(s)) + 1
           ELSE Cardinality(Users(s))
    BY <1>0, UsersAdd DEF Inv
  <2>3. \A s \in Slots : count[s] = Cardinality(Users(s))
    BY DEF Inv, RefCount
  <2> QED BY <2>1, <2>2, <2>3 DEF RefCount
<1>3. NoDangling'
  BY <1>0 DEF Inv, TypeOK, NoDangling, Current, TablesAgree
<1>4. TablesAgree'
  BY DEF Inv, TablesAgree
<1>5. NoLeak'
  BY <1>0, UsersAdd DEF Inv, TypeOK, NoLeak
<1>6. Pending'
  BY DEF Inv, TypeOK, Pending
<1> QED BY <1>1, <1>2, <1>3, <1>4, <1>5, <1>6 DEF Inv

\* A new value replaces whatever was current for its key.
LEMMA InsertInv ==
    ASSUME Inv, NEW r \in Holders, held[r] = Nil, NEW k \in Keys,
           NEW v \in Slots, Free(v),
           cache' = [cache EXCEPT ![k] = v],
           old' = IF cache[k] # Nil THEN old \cup {cache[k]} ELSE old,
           key' = [key EXCEPT ![v] = k],
           count' = [count EXCEPT ![v] = 1],
           held' = [held EXCEPT ![r] = v],
           missed' = [missed EXCEPT ![r] = Nil]
    PROVE  Inv'
<1> USE DEF Free
<1>0. Users(v) = {}
  BY DEF Inv, NoDangling, Users
<1>1. TypeOK'
  BY DEF Inv, TypeOK
<1>2. RefCount'
  <2>1. count[v] = 0 /\ Cardinality(Users(v)) = 0
    BY <1>0, FS_EmptySet DEF Inv, RefCount
  <2>2. \A s \in Slots : Cardinality(Users(s)') =
                             IF s = v THEN Cardinality(Users(s)) + 1
                             ELSE Cardinality(Users(s))
    BY UsersAdd DEF Inv
  <2>3. \A s \in Slots : count'[s] = IF s = v THEN 1 ELSE count[s]
    BY DEF Inv, TypeOK
  <2> QED BY <2>1, <2>2, <2>3 DEF Inv, RefCount
<1>3. \A k2 \in Keys : cache[k2] # v
  BY DEF Inv, TablesAgree, TypeOK
<1>4. v \notin old
  BY DEF Inv, TablesAgree
<1>5. NoDangling'
  <2> SUFFICES ASSUME NEW x \in Holders, held'[x] # Nil
               PROVE  /\ key'[held'[x]] # Nil
                      /\ \/ Current(held[x])'
                         \/ held'[x] \in old' /\ count'[held'[x]] > 0
    BY DEF NoDangling
  <2>1. CASE x = r
    BY <2>1 DEF Inv, TypeOK, Current
  <2>2. CASE x # r
    <3>1. held'[x] = held[x] /\ held[x] \in Slots /\ held[x] # v
      BY <2>2, <1>0 DEF Inv, TypeOK, Users
    <3>2. key'[held[x]] = key[held[x]] /\ count'[held[x]] = count[held[x]]
      BY <3>1 DEF Inv, TypeOK
    <3>3. count[held[x]] > 0
      <4>1. Users(held[x]) # {}
        BY DEF Users
      <4>2. /\ Cardinality(Users(held[x])) \in Nat
            /\ Cardinality(Users(held[x])) # 0
        BY <4>1, UsersFinite, FS_EmptySet, FS_CardinalityType
      <4> QED BY <3>1, <4>2 DEF Inv, RefCount
    <3> QED BY <3>1, <3>2, <3>3 DEF Inv, TypeOK, NoDangling, Current
  <2> QED BY <2>1, <2>2
<1>6. TablesAgree'
  BY <1>3, <1>4 DEF Inv, TypeOK, TablesAgree
<1>7. NoLeak'
  BY UsersAdd DEF Inv, TypeOK, NoLeak
<1>8. Pending'
  BY DEF Inv, TypeOK, Pending
<1> QED BY <1>1, <1>2, <1>5, <1>6, <1>7, <1>8 DEF Inv

\* The last pointer takes the value away with it, the others do not.
LEMMA ReleaseInv ==
    ASSUME Inv, NEW r \in Holders, Release(r)
    PROVE  Inv'
<1> DEFINE v == held[r]
<1>0. v \in Slots /\ v # Nil /\ key[v] \in Keys
  BY DEF Inv, TypeOK, Release, NoDangling
<1>1. count[v] \in Nat \ {0} /\ (count[v] = 1 <=> Users(v) = {r})
  BY <1>0, UsersRemove DEF Inv, RefCount, Release
<1>2. \A s \in Slots : Users(s)' = IF s = v THEN Users(s) \ {r} ELSE Users(s)
  BY <1>0, UsersRemove DEF Inv, Release
<1>3. TypeOK'
  BY <1>0, <1>1 DEF Inv, TypeOK, Release
<1>4. RefCount'
  <2>1. /\ count' = [count EXCEPT ![v] = @ - 1]
        /\ held' = [held EXCEPT ![r] = Nil]
    BY DEF Release
  <2>2. \A s \in Slots : count'[s] = IF s = v THEN count[s] - 1 ELSE count[s]
    BY <1>0, <2>1 DEF Inv, TypeOK
  <2>3. \A s \in Slots : Cardinality(Users(s)') =
           IF s = v THEN Cardinality(Users(s)) - 1 ELSE Cardinality(Users(s))
    BY <1>0, <2>1, UsersRemove DEF Inv
  <2>4. \A s \in Slots : count[s] = Cardinality(Users(s))
    BY DEF Inv, RefCount
  <2> QED BY <2>2, <2>3, <2>4 DEF RefCount
<1>5. NoDangling'
  <2> SUFFICES ASSUME NEW x \in Holders, held'[x] # Nil
               PROVE  /\ key'[held'[x]] # Nil
                      /\ \/ Current(held[x])'
                         \/ held'[x] \in old' /\ count'[held'[x]] > 0
    BY DEF NoDangling
  <2>1. x # r /\ held'[x] = held[x] /\ held[x] \in Slots
    BY DEF Release, Inv, TypeOK
  <2>2. held[x] = v => count[v] # 1 /\ count[v] - 1 > 0
    BY <1>1, <2>1 DEF Users
  <2>3. CASE held[x] = v
    BY <1>0, <2>1, <2>2, <2>3 DEF Release, Inv, TypeOK, NoDangling, Current
  <2>4. CASE held[x] # v
    BY <1>0, <2>1, <2>4 DEF Release, Inv, TypeOK, NoDangling, Current
  <2> QED BY <2>3, <2>4
<1>6. TablesAgree'
  BY <1>0 DEF Inv, TypeOK, TablesAgree, Release, Current
<1>7. NoLeak'
  BY <1>0, <1>1, <1>2 DEF Inv, TypeOK, NoLeak, Release, Users
<1>8. Pending'
  BY DEF Inv, TypeOK, Pending, Release
<1> QED BY <1>3, <1>4, <1>5, <1>6, <1>7, <1>8 DEF Inv

\* Every call on the cache preserves the invariant.
LEMMA NextInv == Inv /\ [Next]_vars => Inv'
<1> SUFFICES ASSUME Inv, [Next]_vars PROVE Inv'
  OBVIOUS
<1>0. \A r \in Holders : missed[r] = Nil =>
         missed = [missed EXCEPT ![r] = Nil]
  BY DEF Inv, TypeOK
<1>1. CASE UNCHANGED vars
  BY <1>1 DEF vars, Inv, TypeOK, RefCount, NoDangling, TablesAgree, NoLeak,
              Users, Current, Pending
<1>2. ASSUME NEW r \in Holders, NEW k \in Keys, AcquireHit(r, k)
      PROVE  Inv'
  BY <1>0, <1>2, CacheShareInv DEF AcquireHit, Idle
<1>3. ASSUME NEW r \in Holders, NEW k \in Keys, AcquireMiss(r, k)
      PROVE  Inv'
  BY <1>3 DEF AcquireMiss, Idle, Inv, TypeOK, RefCount, NoDangling,
              TablesAgree, NoLeak, Users, Current, Pending
<1>4. ASSUME NEW r \in Holders, AcquireRecheck(r) PROVE Inv'
  <2>1. missed[r] \in Keys /\ held[r] = Nil
    BY <1>4 DEF AcquireRecheck, Inv, TypeOK, Pending
  <2> QED BY <1>4, <2>1, CacheShareInv DEF AcquireRecheck
<1>5. ASSUME NEW r \in Holders, NEW v \in Slots, AcquireBuild(r, v)
      PROVE  Inv'
  <2>1. missed[r] \in Keys /\ held[r] = Nil
    BY <1>5 DEF AcquireBuild, Inv, TypeOK, Pending
  <2> QED BY <1>5, <2>1, InsertInv DEF AcquireBuild
<1>6. ASSUME NEW r \in Holders, AcquireFail(r) PROVE Inv'
  BY <1>6 DEF AcquireFail, Inv, TypeOK, RefCount, NoDangling, TablesAgree,
              NoLeak, Users, Current, Pending
<1>7. ASSUME NEW r \in Holders, NEW k \in Keys, NEW v \in Slots,
             Insert(r, k, v)
      PROVE  Inv'
  <2>1. cache[k] # Nil => count[cache[k]] > 0
    <3> SUFFICES ASSUME cache[k] # Nil PROVE count[cache[k]] > 0
      OBVIOUS
    <3>1. cache[k] \in Slots /\ Users(cache[k]) # {}
      BY DEF Inv, TypeOK, TablesAgree, NoLeak
    <3>2. /\ Cardinality(Users(cache[k])) \in Nat
          /\ Cardinality(Users(cache[k])) # 0
      BY <3>1, UsersFinite, FS_EmptySet, FS_CardinalityType
    <3> QED BY <3>1, <3>2 DEF Inv, RefCount
  <2>2. key' = [key EXCEPT ![v] = k]
    BY <1>7, <2>1 DEF Insert, Inv, TypeOK
  <2>3. old' = IF cache[k] # Nil THEN old \cup {cache[k]} ELSE old
    BY <1>7, <2>1 DEF Insert
  <2> QED BY <1>0, <1>7, <2>2, <2>3, InsertInv DEF Insert, Idle
<1>8. ASSUME NEW r \in Holders, Release(r) PROVE Inv'
  BY <1>8, ReleaseInv
<1> QED BY <1>1, <1>2, <1>3, <1>4, <1>5, <1>6, <1>7, <1>8 DEF Next

\* pho_cache.c counts the references right, never frees a value in use and
\* never keeps one that is not used, for any number of threads and media.
THEOREM CacheCorrect ==
    Spec => [](TypeOK /\ CacheSound)
<1>1. Inv => TypeOK /\ CacheSound
  BY DEF Inv, CacheSound
<1> QED BY <1>1, InitInv, NextInv, PTL DEF Spec

\* A value in use is not taken away by an update, an insertion or a release.
THEOREM PointersAreStable == Spec => HeldIsStable
<1>1. ASSUME Inv, [Next]_vars
      PROVE  [\A r \in Holders : held[r] # Nil /\ held'[r] = held[r] =>
                 key'[held[r]] = key[held[r]]]_vars
  <2> SUFFICES ASSUME Next, NEW x \in Holders, held[x] # Nil,
                      held'[x] = held[x]
               PROVE  key'[held[x]] = key[held[x]]
    BY <1>1
  <2>0. held[x] \in Slots /\ ~Free(held[x])
    BY <1>1 DEF Inv, TypeOK, NoDangling, Free
  <2>1. ASSUME NEW r \in Holders, NEW k \in Keys,
               AcquireHit(r, k) \/ AcquireMiss(r, k)
        PROVE  key'[held[x]] = key[held[x]]
    BY <2>1 DEF AcquireHit, AcquireMiss
  <2>2. ASSUME NEW r \in Holders, AcquireRecheck(r) \/ AcquireFail(r)
        PROVE  key'[held[x]] = key[held[x]]
    BY <2>2 DEF AcquireRecheck, AcquireFail
  <2>3. ASSUME NEW r \in Holders, NEW v \in Slots, AcquireBuild(r, v)
        PROVE  key'[held[x]] = key[held[x]]
    BY <1>1, <2>0, <2>3 DEF AcquireBuild, Inv, TypeOK
  <2>4. ASSUME NEW r \in Holders, NEW k \in Keys, NEW v \in Slots,
               Insert(r, k, v)
        PROVE  key'[held[x]] = key[held[x]]
    <3>1. /\ Cardinality(Users(held[x])) \in Nat
          /\ Cardinality(Users(held[x])) # 0
      <4>1. Users(held[x]) # {}
        BY DEF Users
      <4> QED BY <4>1, UsersFinite, FS_EmptySet, FS_CardinalityType
    <3>2. count[held[x]] > 0
      BY <1>1, <2>0, <3>1 DEF Inv, RefCount
    <3>3. held[x] # v /\ (held[x] = cache[k] => count[cache[k]] > 0)
      BY <2>0, <2>4, <3>2 DEF Insert
    <3> QED BY <2>0, <2>4, <3>3 DEF Insert
  <2>5. ASSUME NEW r \in Holders, Release(r)
        PROVE  key'[held[x]] = key[held[x]]
    <3>1. CASE held[r] = held[x]
      <4>1. x # r /\ x \in Users(held[r])
        BY <1>1, <2>5, <3>1 DEF Release, Users, Inv, TypeOK
      <4>2. Cardinality(Users(held[r])) = 1 <=> Users(held[r]) = {r}
        BY <1>1, <2>5, UsersRemove DEF Release, Inv
      <4>3. count[held[r]] # 1
        BY <1>1, <2>0, <3>1, <4>1, <4>2 DEF Inv, RefCount
      <4> QED BY <2>5, <4>3 DEF Release
    <3>2. CASE held[r] # held[x]
      BY <1>1, <2>0, <2>5, <3>2 DEF Release, Inv, TypeOK
    <3> QED BY <3>1, <3>2
  <2>6. PICK r \in Holders :
             \/ \E k \in Keys : AcquireHit(r, k) \/ AcquireMiss(r, k)
             \/ AcquireRecheck(r)
             \/ \E v \in Slots : AcquireBuild(r, v)
             \/ AcquireFail(r)
             \/ \E k \in Keys, v \in Slots : Insert(r, k, v)
             \/ Release(r)
    BY DEF Next
  <2> QED BY <2>1, <2>2, <2>3, <2>4, <2>5, <2>6
<1> QED BY <1>1, InitInv, NextInv, PTL DEF Spec, HeldIsStable

HIDE CacheAssumption

-----------------------------------------------------------------------------
(* The fair share of the drives.                                           *)

\* The inductive invariant.  A scheduler with requests has its minimum, or its
\* maximum if that is lower, in both loops: that is what AllHandedOut promises at
\* the end, as TakeBack stops at the minimum.  The minima fit the drives in the
\* first loop, so that it always finds a drive to take back.
ShareInv ==
  /\ ShareTypeOK
  /\ Total(stats) > 0
  /\ WithinMax
  /\ pc \in {"shrink", "grow"} => n > 2
  /\ (pc # "start" /\ n > 2) =>
        \A k \in Kinds : stats[k] > 0 => share[k] >= Least(lo[k], hi[k])
  /\ NotStarved
  /\ (pc \in {"grow", "done"} /\ n > 2) => Total(share) <= n
  /\ pc = "shrink" => MinDevices(stats, lo) <= n
  /\ (pc = "done" /\ n > 2) => Total(share) = n \/ MaxReached(stats, share, hi) = Kinds
----------------------------------------------------------------------------
(* What the operators of the algorithm return.                             *)

LEMMA ClampWithin ==
  ASSUME NEW v \in Int, NEW a \in Nat, NEW b \in Nat
  PROVE  Clamp(v, a, b) \in Least(a, b)..b
BY DEF Clamp, Least

\* The quotient of the weight of a scheduler is a number of drives.
LEMMA WeightIsNat ==
  ASSUME NEW s \in Nat, NEW d \in Nat, NEW t \in Nat \ {0}
  PROVE  (s * d) \div t \in Int
<1>1. s * d \in Int
  OBVIOUS
<1> QED
  BY <1>1

\* The first approximation is within the range of every scheduler that has a
\* request, and 0 for the others.
LEMMA WeightedShareWithin ==
  ASSUME NEW st \in [Kinds -> Nat], Total(st) > 0, NEW d \in Nat \ {0},
         NEW a \in [Kinds -> Nat], NEW b \in [Kinds -> Nat]
  PROVE  LET w == WeightedShare(st, d, a, b)
         IN  /\ w \in [Kinds -> Nat]
             /\ \A k \in Kinds : IF st[k] = 0 THEN w[k] = 0 ELSE w[k] \in Least(a[k], b[k])..b[k]
             /\ d = 2 => \A k \in Kinds : st[k] > 0 /\ w[k] < b[k] => w[k] > 0
<1> DEFINE w == WeightedShare(st, d, a, b)
<1>1. Total(st) \in Nat \ {0}
  BY DEF Total, Kinds
<1>2. ASSUME NEW k \in Kinds
      PROVE  /\ w[k] \in Nat
             /\ IF st[k] = 0 THEN w[k] = 0 ELSE w[k] \in Least(a[k], b[k])..b[k]
             /\ d = 2 /\ st[k] > 0 /\ w[k] < b[k] => w[k] > 0
  <2> DEFINE v == IF d \in 1..2 THEN 1 ELSE (st[k] * d) \div Total(st)
  <2>1. v \in Int
    BY <1>1, WeightIsNat
  <2>2. Clamp(v, a[k], b[k]) \in Least(a[k], b[k])..b[k]
    BY <2>1, ClampWithin
  <2>3. d = 2 => v = 1
    OBVIOUS
  <2>4. w[k] = IF st[k] = 0 THEN 0 ELSE Clamp(v, a[k], b[k])
    BY DEF WeightedShare
  <2>5. d = 2 /\ Clamp(v, a[k], b[k]) < b[k] => Clamp(v, a[k], b[k]) > 0
    BY <2>3 DEF Clamp, Least
  <2>6. Least(a[k], b[k]) \in Nat
    BY DEF Least
  <2> QED
    BY <2>2, <2>4, <2>5, <2>6
<1>3. w = [k \in Kinds |-> w[k]]
  BY DEF WeightedShare
<1> HIDE DEF w
<1> QED
  BY <1>2, <1>3 DEF w

\* The whole first repartition stays within the maxima; with three drives or
\* more it also gives every scheduler with requests its minimum.
LEMMA FirstShareWithin ==
  ASSUME NEW st \in [Kinds -> Nat], Total(st) > 0, NEW d \in Nat \ {0},
         NEW a \in [Kinds -> Nat], NEW b \in [Kinds -> Nat]
  PROVE  LET f == FirstShare(st, d, a, b)
         IN  /\ f \in [Kinds -> Nat]
             /\ \A k \in Kinds : f[k] <= b[k] /\ (st[k] = 0 => f[k] = 0)
             /\ d > 2 => \A k \in Kinds : st[k] > 0 => f[k] >= Least(a[k], b[k])
             /\ \A k \in Kinds : st[k] > 0 /\ a[k] > 0 /\ b[k] > 0 => f[k] > 0
<1> DEFINE w == WeightedShare(st, d, a, b)
           f == FirstShare(st, d, a, b)
<1>1. /\ w \in [Kinds -> Nat]
      /\ \A k \in Kinds : IF st[k] = 0 THEN w[k] = 0 ELSE w[k] \in Least(a[k], b[k])..b[k]
      /\ d = 2 => \A k \in Kinds : st[k] > 0 /\ w[k] < b[k] => w[k] > 0
  BY WeightedShareWithin
<1> HIDE DEF w
<1>2. CASE d # 2
  BY <1>1, <1>2 DEF FirstShare, w, Least
<1>3. CASE d = 2
  <2>1. PICK pick \in SUBSET (Kinds \ MaxReached(st, w, b)) :
           f = [k \in Kinds |-> IF k \in pick THEN 2 ELSE w[k]]
    BY <1>3, Zenon DEF FirstShare, HeaviestToTwo, w, Kinds
  <2>2. \A k \in pick : st[k] > 0 /\ b[k] >= 2
    BY <1>1, <1>3 DEF MaxReached
  <2> QED
    BY <1>1, <1>3, <2>1, <2>2 DEF Least
<1> QED
  BY <1>2, <1>3

\* As long as drives remain the differences are owed: their sum is negative.
LEMMA DifferencesNegative ==
  ASSUME NEW s1 \in Nat, NEW s2 \in Nat, NEW s3 \in Nat,
         NEW r1 \in Nat, NEW r2 \in Nat, NEW r3 \in Nat, NEW d \in Nat,
         s1 + s2 + s3 > 0, r1 + r2 + r3 < d
  PROVE  LET t == s1 + s2 + s3
         IN  2 * (r1 * t - s1 * d) + 2 * (r2 * t - s2 * d) + 2 * (r3 * t - s3 * d) < 0
<1> DEFINE t == s1 + s2 + s3
<1>1. t \in Nat /\ t > 0
  OBVIOUS
<1>2. d - (r1 + r2 + r3) \in Nat /\ d - (r1 + r2 + r3) > 0
  OBVIOUS
<1>3. t * (d - (r1 + r2 + r3)) > 0
  <2> HIDE DEF t
  <2> DEFINE e == d - (r1 + r2 + r3)
  <2>1. e \in Nat /\ e > 0
    BY <1>2
  <2> HIDE DEF e
  <2>2. t * e > 0
    BY <1>1, <2>1
  <2> QED
    BY <2>2 DEF e
<1>4. r1 * t \in Int /\ r2 * t \in Int /\ r3 * t \in Int
  BY <1>1
<1>5. s1 * d \in Int /\ s2 * d \in Int /\ s3 * d \in Int
  OBVIOUS
<1>6. s1 * d + s2 * d + s3 * d = t * d
  OBVIOUS
<1>7. t * (d - (r1 + r2 + r3)) = t * d - (r1 * t + r2 * t + r3 * t)
  BY <1>1
<1> QED
  BY <1>1, <1>3, <1>4, <1>5, <1>6, <1>7

\* What the full schedulers miss, divided between one to three open ones, does
\* not make up for a sum that is negative.
LEMMA Quotient ==
  ASSUME NEW m \in Int, NEW c \in 1..3
  PROVE  m \div c \in Int /\ c * (m \div c) <= m
<1>1. CASE c = 1
  BY <1>1
<1>2. CASE c = 2
  BY <1>2
<1>3. CASE c = 3
  BY <1>3
<1> QED
  BY <1>1, <1>2, <1>3

LEMMA OpenCount ==
  ASSUME NEW open \in SUBSET Kinds, open # {}
  PROVE  /\ Cardinality(open) \in 1..3
         /\ Cardinality(open) = (IF "read" \in open THEN 1 ELSE 0)
                              + (IF "write" \in open THEN 1 ELSE 0)
                              + (IF "format" \in open THEN 1 ELSE 0)
<1> DEFINE R == IF "read" \in open THEN {"read"} ELSE {}
           W == IF "write" \in open THEN R \cup {"write"} ELSE R
           F == IF "format" \in open THEN W \cup {"format"} ELSE W
<1>1. F = open
  BY DEF Kinds
<1>2. IsFiniteSet(R) /\ Cardinality(R) = IF "read" \in open THEN 1 ELSE 0
  BY FS_EmptySet, FS_Singleton
<1>3. IsFiniteSet(W)
      /\ Cardinality(W) = Cardinality(R) + (IF "write" \in open THEN 1 ELSE 0)
  <2>1. "write" \notin R
    OBVIOUS
  <2>2. Cardinality(R) \in Nat
    BY <1>2
  <2> HIDE DEF R
  <2> QED
    BY <1>2, <2>1, <2>2, FS_AddElement
<1>4. Cardinality(F) = Cardinality(W) + (IF "format" \in open THEN 1 ELSE 0)
  <2>1. "format" \notin W
    OBVIOUS
  <2>2. Cardinality(W) \in Nat
    BY <1>2, <1>3
  <2>3. IsFiniteSet(W)
    BY <1>3
  <2> HIDE DEF W
  <2>4. Cardinality(W \cup {"format"}) = Cardinality(W) + 1
    BY <2>1, <2>3, FS_AddElement
  <2> QED
    BY <2>2, <2>4
<1>5. "read" \in open \/ "write" \in open \/ "format" \in open
  BY DEF Kinds
<1> HIDE DEF R, W, F
<1> QED
  BY <1>1, <1>2, <1>3, <1>4, <1>5

\* The argument of the comment of increment_least_favored_scheduler, with the
\* weight of the full schedulers redistributed.
LEMMA Owed ==
  ASSUME NEW st \in [Kinds -> Nat], Total(st) > 0, NEW d \in Nat,
         NEW sh \in [Kinds -> Nat], NEW b \in [Kinds -> Nat],
         \A k \in Kinds : st[k] = 0 => sh[k] = 0,
         Total(sh) < d, MaxReached(st, sh, b) # Kinds
  PROVE  LET full == MaxReached(st, sh, b)
             diff == Redistribute(st, WeightDiff(st, sh, d), full)
         IN  /\ diff \in [Kinds -> Int]
             /\ \A k \in full : diff[k] = 0
             /\ \E k \in Kinds \ full : diff[k] < 0
<1> DEFINE full == MaxReached(st, sh, b)
           open == Kinds \ full
           t == Total(st)
           wd == WeightDiff(st, sh, d)
           diff == Redistribute(st, wd, full)
           part == [k \in Kinds |-> IF k \in full /\ st[k] > 0 THEN Negative(wd[k]) ELSE 0]
           missing == Total(part)
           q == missing \div Cardinality(open)
<1>1. /\ t \in Nat
      /\ \A k \in Kinds : st[k] \in Nat /\ sh[k] \in Nat
      /\ {"read", "write", "format"} = Kinds
  BY DEF Total, Kinds
<1>2. \A k \in Kinds : wd[k] \in Int /\ (st[k] = 0 => wd[k] = 0)
  <2> TAKE k \in Kinds
  <2>1. wd[k] = 2 * (sh[k] * t - st[k] * d)
    BY DEF WeightDiff
  <2>2. st[k] \in Nat /\ sh[k] \in Nat /\ (st[k] = 0 => sh[k] = 0)
    BY <1>1
  <2> HIDE DEF t, wd
  <2> QED
    BY <1>1, <2>1, <2>2
<1>3. wd["read"] + wd["write"] + wd["format"] < 0
  <2>1. /\ wd["read"] = 2 * (sh["read"] * t - st["read"] * d)
        /\ wd["write"] = 2 * (sh["write"] * t - st["write"] * d)
        /\ wd["format"] = 2 * (sh["format"] * t - st["format"] * d)
    BY DEF WeightDiff, Kinds
  <2>2. /\ t = st["read"] + st["write"] + st["format"]
        /\ sh["read"] + sh["write"] + sh["format"] < d
        /\ t > 0
    BY DEF Total
  <2>3. /\ st["read"] \in Nat /\ st["write"] \in Nat /\ st["format"] \in Nat
        /\ sh["read"] \in Nat /\ sh["write"] \in Nat /\ sh["format"] \in Nat
    BY <1>1
  <2> HIDE DEF t, wd
  <2> QED
    BY <2>1, <2>2, <2>3, DifferencesNegative
<1>4. open \in SUBSET Kinds /\ open # {}
  BY DEF MaxReached
<1>5. /\ Cardinality(open) \in 1..3
      /\ Cardinality(open) = (IF "read" \in open THEN 1 ELSE 0)
                           + (IF "write" \in open THEN 1 ELSE 0)
                           + (IF "format" \in open THEN 1 ELSE 0)
  BY <1>4, OpenCount
<1> HIDE DEF t, wd, full
<1>6. \A k \in Kinds : /\ part[k] \in Int /\ part[k] <= 0
                       /\ k \in full => part[k] <= wd[k]
                       /\ k \notin full => part[k] = 0
  <2> TAKE k \in Kinds
  <2>1. wd[k] \in Int /\ (st[k] = 0 => wd[k] = 0) /\ st[k] \in Nat
    BY <1>1, <1>2
  <2> QED
    BY <2>1 DEF Negative
<1>7. missing = part["read"] + part["write"] + part["format"]
  BY DEF Total
<1> HIDE DEF part
<1>8. missing \in Int
  BY <1>1, <1>6, <1>7
<1> HIDE DEF missing
<1>9. q \in Int /\ Cardinality(open) * q <= missing
  BY <1>5, <1>8, Quotient
<1>10. \A k \in Kinds : diff[k] = IF k \in open THEN wd[k] + q
                                  ELSE IF st[k] > 0 THEN 0 ELSE wd[k]
  BY DEF Redistribute, missing, part
<1>11. diff = [k \in Kinds |-> diff[k]]
  BY DEF Redistribute
<1> HIDE DEF q, diff
<1>12. diff \in [Kinds -> Int]
  BY <1>2, <1>9, <1>10, <1>11
<1>13. \A k \in full : k \in Kinds => diff[k] = 0
  BY <1>1, <1>2, <1>10
<1>14. \E k \in open : diff[k] < 0
  <2> DEFINE g(k) == IF k \in open THEN q ELSE 0
  <2> SUFFICES ASSUME \A k \in open : wd[k] + q >= 0
               PROVE  FALSE
    BY <1>2, <1>9, <1>10
  <2>1. \A k \in Kinds : g(k) \in Int /\ g(k) >= part[k] - wd[k]
    BY <1>2, <1>6, <1>9
  <2>2. g("read") + g("write") + g("format") = Cardinality(open) * q
    BY <1>5, <1>9
  <2>3. /\ g("read") \in Int /\ g("write") \in Int /\ g("format") \in Int
        /\ g("read") >= part["read"] - wd["read"]
        /\ g("write") >= part["write"] - wd["write"]
        /\ g("format") >= part["format"] - wd["format"]
    BY <1>1, <2>1
  <2>4. /\ wd["read"] \in Int /\ wd["write"] \in Int /\ wd["format"] \in Int
        /\ part["read"] \in Int /\ part["write"] \in Int /\ part["format"] \in Int
    BY <1>1, <1>2, <1>6
  <2>5. g("read") + g("write") + g("format") <= missing
    BY <1>9, <2>2
  <2> HIDE DEF g
  <2> QED
    BY <1>3, <1>7, <1>8, <2>3, <2>4, <2>5
<1> QED
  BY <1>12, <1>13, <1>14 DEF full, wd, diff, MaxReached

\* The hand-out of a drive: exactly one scheduler gets it, one that has requests
\* and is not full.
LEMMA OneMore ==
  ASSUME NEW st \in [Kinds -> Nat], Total(st) > 0, NEW d \in Nat,
         NEW sh \in [Kinds -> Nat], NEW b \in [Kinds -> Nat],
         \A k \in Kinds : st[k] = 0 => sh[k] = 0,
         Total(sh) < d, MaxReached(st, sh, b) # Kinds
  PROVE  \E k \in Kinds \ MaxReached(st, sh, b) :
            IncrementLeastFavored(st, sh, d, b) = [sh EXCEPT ![k] = @ + 1]
<1> DEFINE full == MaxReached(st, sh, b)
           diff == Redistribute(st, WeightDiff(st, sh, d), full)
           chosen == LeastFavored(diff)
<1>1. /\ diff \in [Kinds -> Int]
      /\ \A k \in full : diff[k] = 0
      /\ \E k \in Kinds \ full : diff[k] < 0
  BY Owed
<1>2. Lowered(st, diff, full, d) = diff
  BY <1>1 DEF Lowered
<1>3. IncrementLeastFavored(st, sh, d, b) =
        [k \in Kinds |-> IF k \in chosen THEN sh[k] + 1 ELSE sh[k]]
  BY <1>2 DEF IncrementLeastFavored
<1> HIDE DEF diff, full
<1>4. PICK k \in Kinds : chosen = {k} /\ diff[k] < 0
  BY <1>1 DEF LeastFavored, Kinds
<1>5. k \notin full
  BY <1>1, <1>4
<1>6. IncrementLeastFavored(st, sh, d, b) = [sh EXCEPT ![k] = @ + 1]
  <2> HIDE DEF chosen
  <2> QED
    BY <1>3, <1>4
<1> QED
  BY <1>4, <1>5, <1>6 DEF full

LEMMA TotalOneMore ==
  ASSUME NEW sh \in [Kinds -> Nat], NEW k \in Kinds
  PROVE  Total([sh EXCEPT ![k] = @ + 1]) = Total(sh) + 1
BY DEF Total, Kinds

\* The take-back of a drive: nobody loses its minimum, nobody gains.
LEMMA OneLess ==
  ASSUME NEW sh \in [Kinds -> Nat], NEW a \in [Kinds -> Nat]
  PROVE  LET r == TakeBack(sh, a)
         IN  /\ r \in [Kinds -> Nat]
             /\ \A k \in Kinds : r[k] <= sh[k] /\ (r[k] = sh[k] \/ r[k] >= a[k])
<1>1. ASSUME NEW j \in Kinds, sh[j] > a[j]
      PROVE  LET r == [sh EXCEPT ![j] = @ - 1]
             IN  /\ r \in [Kinds -> Nat]
                 /\ \A k \in Kinds : r[k] <= sh[k] /\ (r[k] = sh[k] \/ r[k] >= a[k])
  BY <1>1
<1>2. "read" \in Kinds /\ "write" \in Kinds /\ "format" \in Kinds
  BY DEF Kinds
<1>3. CASE sh["read"] > a["read"]
  BY <1>1, <1>2, <1>3 DEF TakeBack
<1>4. CASE ~(sh["read"] > a["read"]) /\ sh["write"] > a["write"]
  BY <1>1, <1>2, <1>4 DEF TakeBack
<1>5. CASE ~(sh["read"] > a["read"]) /\ ~(sh["write"] > a["write"]) /\ sh["format"] > a["format"]
  BY <1>1, <1>2, <1>5 DEF TakeBack
<1>6. CASE ~(sh["read"] > a["read"]) /\ ~(sh["write"] > a["write"]) /\ ~(sh["format"] > a["format"])
  BY <1>6 DEF TakeBack
<1> QED
  BY <1>3, <1>4, <1>5, <1>6

\* Lowering the minima to one drive gives ranges again.
LEMMA Ranges ==
  ASSUME NEW st, NEW d, NEW a \in [Kinds -> Nat], NEW b \in [Kinds -> Nat]
  PROVE  /\ Floor1(st, d, a) \in [Kinds -> Nat]
         /\ Ceiling1(st, d, a, b) \in [Kinds -> Nat]
BY DEF Floor1, Ceiling1, Least

\* Once lowered, the minima fit the drives.
LEMMA MinimaFit ==
  ASSUME NEW st \in [Kinds -> Nat], NEW d \in Nat, d > 2, NEW a \in [Kinds -> Nat]
  PROVE  MinDevices(st, Floor1(st, d, a)) <= d
<1> DEFINE low == [k \in Kinds |-> Least(1, a[k])]
<1>1. CASE Short(st, d, a)
  <2>1. MinDevices(st, low) <= 3
    BY DEF MinDevices, Total, Least, Kinds
  <2>2. MinDevices(st, low) \in Int
    BY DEF MinDevices, Total, Least, Kinds
  <2> QED
    BY <1>1, <2>1, <2>2 DEF Floor1
<1>2. CASE ~Short(st, d, a)
  <2>1. MinDevices(st, a) \in Int
    BY DEF MinDevices, Total, Kinds
  <2> QED
    BY <1>2, <2>1 DEF Floor1, Short
<1> QED
  BY <1>1, <1>2
----------------------------------------------------------------------------
LEMMA ShareStart == ShareInv /\ Start => ShareInv'
<1> SUFFICES ASSUME ShareInv, Start PROVE ShareInv'
  OBVIOUS
<1>1. /\ stats \in [Kinds -> Nat] /\ n \in Nat \ {0} /\ Total(stats) > 0
      /\ lo \in [Kinds -> Nat] /\ hi \in [Kinds -> Nat]
  BY DEF ShareInv, ShareTypeOK
<1>2. lo' \in [Kinds -> Nat] /\ hi' \in [Kinds -> Nat]
  BY <1>1, Ranges DEF Start
<1>3. /\ share' \in [Kinds -> Nat]
      /\ \A k \in Kinds : share'[k] <= hi'[k] /\ (stats[k] = 0 => share'[k] = 0)
      /\ n > 2 => \A k \in Kinds : stats[k] > 0 => share'[k] >= Least(lo'[k], hi'[k])
      /\ \A k \in Kinds : stats[k] > 0 /\ lo'[k] > 0 /\ hi'[k] > 0 => share'[k] > 0
  BY <1>1, <1>2, FirstShareWithin DEF Start
<1>4. stats' = stats /\ n' = n /\ pc' = IF n < 3 THEN "done" ELSE "shrink"
  BY DEF Start
<1>5. ShareTypeOK' /\ WithinMax' /\ NotStarved'
  BY <1>1, <1>2, <1>3, <1>4 DEF ShareTypeOK, WithinMax, NotStarved
<1>6. n > 2 => MinDevices(stats, lo') <= n
  BY <1>1, MinimaFit DEF Start
<1> QED
  BY <1>1, <1>2, <1>3, <1>4, <1>5, <1>6 DEF ShareInv

LEMMA ShareShrink == ShareInv /\ Shrink => ShareInv'
<1> SUFFICES ASSUME ShareInv, Shrink PROVE ShareInv'
  OBVIOUS
<1>1. /\ share' \in [Kinds -> Nat]
      /\ \A k \in Kinds : share'[k] <= share[k] /\ (share'[k] = share[k] \/ share'[k] >= lo[k])
  BY OneLess DEF ShareInv, ShareTypeOK, Shrink
<1>2. ShareTypeOK' /\ WithinMax'
  BY <1>1 DEF ShareInv, ShareTypeOK, WithinMax, Shrink
<1>3. \A k \in Kinds : stats[k] > 0 => share'[k] >= Least(lo[k], hi[k])
  BY <1>1 DEF ShareInv, ShareTypeOK, Shrink, Least
<1> QED
  BY <1>1, <1>2, <1>3 DEF ShareInv, Shrink, NotStarved

LEMMA ShareGrow == ShareInv /\ Grow => ShareInv'
<1> SUFFICES ASSUME ShareInv, Grow PROVE ShareInv'
  OBVIOUS
<1>1. /\ stats \in [Kinds -> Nat] /\ n \in Nat /\ Total(stats) > 0
      /\ share \in [Kinds -> Nat] /\ hi \in [Kinds -> Nat]
      /\ \A k \in Kinds : share[k] <= hi[k] /\ (stats[k] = 0 => share[k] = 0)
      /\ Total(share) < n /\ MaxReached(stats, share, hi) # Kinds
  BY DEF ShareInv, ShareTypeOK, WithinMax, Grow, Growing
<1>2. PICK k \in Kinds \ MaxReached(stats, share, hi) : share' = [share EXCEPT ![k] = @ + 1]
  BY <1>1, OneMore DEF Grow
<1>3. share[k] < hi[k] /\ stats[k] > 0
  BY <1>1, <1>2 DEF MaxReached
<1>4. ShareTypeOK' /\ WithinMax'
  BY <1>2, <1>3 DEF ShareInv, ShareTypeOK, WithinMax, Grow
<1>5. Total(share') <= n
  <2>1. Total(share') = Total(share) + 1
    BY <1>1, <1>2, TotalOneMore
  <2>2. Total(share) \in Int
    BY <1>1 DEF Total, Kinds
  <2> QED
    BY <1>1, <2>1, <2>2
<1>6. \A j \in Kinds : stats[j] > 0 => share'[j] >= Least(lo[j], hi[j])
  BY <1>1, <1>2 DEF ShareInv, ShareTypeOK, Grow, Least
<1> QED
  BY <1>1, <1>2, <1>4, <1>5, <1>6 DEF ShareInv, ShareTypeOK, Grow, NotStarved

LEMMA ShareNextInv == ShareInv /\ [ShareNext]_shareVars => ShareInv'
<1> SUFFICES ASSUME ShareInv, [ShareNext]_shareVars PROVE ShareInv'
  OBVIOUS
<1>1. CASE EndShrink
  BY <1>1 DEF ShareInv, ShareTypeOK, WithinMax, NotStarved, EndShrink
<1>2. CASE EndGrow
  <2>1. Total(share) \in Int
    BY DEF ShareInv, ShareTypeOK, Total, Kinds
  <2>2. NotStarved'
    BY <1>2 DEF ShareInv, ShareTypeOK, NotStarved, EndGrow, Least
  <2> QED
    BY <1>2, <2>1, <2>2 DEF ShareInv, ShareTypeOK, WithinMax, EndGrow, Growing
<1>3. CASE UNCHANGED shareVars
  BY <1>3 DEF ShareInv, ShareTypeOK, WithinMax, NotStarved, shareVars
<1> QED
  BY <1>1, <1>2, <1>3, ShareStart, ShareShrink, ShareGrow DEF ShareNext

LEMMA ShareInitInv == ShareInit => ShareInv
BY LoopAssumption DEF ShareInit, ShareInv, ShareTypeOK, WithinMax, NotStarved

LEMMA ShareInvImplies == ShareInv => FairShares
<1> SUFFICES ASSUME ShareInv PROVE FairShares
  OBVIOUS
<1>1. SomeoneIsOwed
  BY Owed DEF ShareInv, ShareTypeOK, WithinMax, SomeoneIsOwed, Growing
<1> QED
  BY <1>1 DEF ShareInv, FairShares, EnoughDevices, AllHandedOut

\* compute_number_of_devices gives, for every number of drives and of requests
\* and for every configured pair of bounds, shares that never exceed the drives
\* (so that give_devices does not abort), that respect the bounds, that leave no
\* drive unused while a scheduler can take one and no scheduler without a drive
\* whose bounds are not 0, and whose second loop always finds somebody to give a
\* drive to.
THEOREM SharesCorrect == ShareSpec => []FairShares
BY ShareInitInv, ShareNextInv, ShareInvImplies, PTL DEF ShareSpec

----------------------------------------------------------------------------
\* Every round of a loop moves the sum of the shares by one drive towards the
\* number of drives.
LoopsAdvance ==
  /\ Shrink => Total(share') = Total(share) - 1
  /\ Grow => Total(share') = Total(share) + 1

\* A sum above the minima leaves somebody above its minimum.
LEMMA SomeoneAbove ==
  ASSUME NEW st \in [Kinds -> Nat], NEW d \in Nat, NEW sh \in [Kinds -> Nat],
         NEW a \in [Kinds -> Nat], \A k \in Kinds : st[k] = 0 => sh[k] = 0,
         MinDevices(st, a) <= d, Total(sh) > d
  PROVE  \E k \in Kinds : sh[k] > a[k]
<1> SUFFICES ASSUME \A k \in Kinds : sh[k] <= a[k] PROVE FALSE
  BY DEF Kinds
<1> DEFINE m(k) == IF st[k] > 0 THEN a[k] ELSE 0
<1>1. \A k \in Kinds : m(k) \in Nat /\ sh[k] \in Nat /\ sh[k] <= m(k)
  OBVIOUS
<1>2. MinDevices(st, a) = m("read") + m("write") + m("format")
  BY DEF MinDevices, Total, Kinds
<1> HIDE DEF m
<1> QED
  BY <1>1, <1>2 DEF Total, Kinds

LEMMA TotalOneLess ==
  ASSUME NEW sh \in [Kinds -> Nat], NEW a \in [Kinds -> Nat], \E k \in Kinds : sh[k] > a[k]
  PROVE  Total(TakeBack(sh, a)) = Total(sh) - 1
BY DEF TakeBack, Total, Kinds

\* "we want to be sure that this function will always increment the number of
\* allocated devices, otherwise we will loop forever": neither loop of
\* compute_number_of_devices ever makes a round that leaves the sum of the shares
\* where it was, so both end after a number of rounds bounded by that sum.
THEOREM SharesAdvance == ShareSpec => [][LoopsAdvance]_shareVars
<1>1. ShareInv /\ [ShareNext]_shareVars => [LoopsAdvance]_shareVars
  <2> SUFFICES ASSUME ShareInv PROVE LoopsAdvance
    OBVIOUS
  <2>1. ASSUME Shrink PROVE Total(share') = Total(share) - 1
    <3>1. \E k \in Kinds : share[k] > lo[k]
      BY <2>1, SomeoneAbove DEF ShareInv, ShareTypeOK, WithinMax, Shrink
    <3> QED
      BY <2>1, <3>1, TotalOneLess DEF ShareInv, ShareTypeOK, Shrink
  <2>2. ASSUME Grow PROVE Total(share') = Total(share) + 1
    <3>1. PICK k \in Kinds : share' = [share EXCEPT ![k] = @ + 1]
      BY <2>2, OneMore DEF ShareInv, ShareTypeOK, WithinMax, Grow, Growing
    <3> QED
      BY <3>1, TotalOneMore DEF ShareInv, ShareTypeOK
  <2> QED
    BY <2>1, <2>2 DEF LoopsAdvance
<1> QED
  BY <1>1, ShareInitInv, ShareNextInv, PTL DEF ShareSpec

-----------------------------------------------------------------------------
(* The groups of a rebuild.                                                *)

-----------------------------------------------------------------------------
(* Rebuilding: what the grouping computes.                                 *)

\* The extent i of medium j has enough sources.
Wanted(j, i) == Len(jobs[j][i].avail) >= jobs[j][i].n
Rebuilt(j, i) == <<j, i>> \in Range(done)

RebuildTypes ==
    /\ jobs \in Rebuilds /\ job \in DOMAIN jobs
    /\ pending \subseteq SUBSET Media /\ cur \subseteq Media
    /\ left \in Seq(DOMAIN Extents) /\ skipped \in BOOLEAN /\ mounts \in [Media -> Nat]
    /\ rpc \in {"collect", "next", "copy", "end"} /\ rrc \in {"none", "ok", "nodata", "error"}
    /\ done \in Seq(Nat \X Nat)

LEMMA Leasts ==
    ASSUME NEW S, S \subseteq Nat, S # {}
    PROVE  \E k \in S : \A j \in S : k <= j
<1> DEFINE R == OpToRel(<, Nat)
<1>1. IsWellFoundedOn(R, Nat)  BY NatLessThanWellFounded
<1>2. PICK k \in S : \A j \in S : <<j, k>> \notin R  BY <1>1, WFMin
<1>3. \A j \in S : ~(j < k)  BY <1>2 DEF OpToRel
<1> QED  BY <1>3

LEMMA ExtentsAre ==
    ASSUME RebuildTypes
    PROVE  /\ Extents \in Seq(Extent) /\ \A j \in DOMAIN jobs : jobs[j] \in Seq(Extent)
           /\ IsFiniteSet(DOMAIN Extents)
<1>1. jobs \in Seq(Seq(Extent))  BY RebuildsAssumption DEF RebuildTypes
<1>2. \A j \in DOMAIN jobs : jobs[j] \in Seq(Extent)  BY <1>1
<1>3. Extents \in Seq(Extent)  BY <1>2 DEF RebuildTypes, Extents
<1>4. DOMAIN Extents = 1..Len(Extents) /\ Len(Extents) \in Nat  BY <1>3
<1>5. IsFiniteSet(1..Len(Extents))  BY <1>4, FS_Interval
<1> QED  BY <1>2, <1>3, <1>4, <1>5

LEMMA FrequencyIs ==
    ASSUME RebuildTypes, NEW m
    PROVE  Frequency(m) \in Nat /\ Frequency(m) <= Cardinality(DOMAIN Extents)
           /\ Cardinality(DOMAIN Extents) \in Nat
<1> DEFINE S == {i \in DOMAIN Extents : Collected(i) /\ m \in Range(Extents[i].avail)}
<1>1. S \in SUBSET (DOMAIN Extents) /\ IsFiniteSet(DOMAIN Extents)  BY ExtentsAre
<1>2. IsFiniteSet(S) /\ Cardinality(S) <= Cardinality(DOMAIN Extents)  BY <1>1, FS_Subset
<1>3. Cardinality(S) \in Nat /\ Cardinality(DOMAIN Extents) \in Nat  BY <1>1, <1>2, FS_CardinalityType
<1> QED  BY <1>2, <1>3 DEF Frequency

\* The first of the most frequent media of a sequence is one of them.
LEMMA MostFrequentIs ==
    ASSUME RebuildTypes, NEW s \in Seq(Media), s # <<>>
    PROVE  MostFrequent(s) \in Media
<1> DEFINE c == Cardinality(DOMAIN Extents)
           F(p) == Frequency(s[p])
           Gap == {c - F(p) : p \in DOMAIN s}
<1>1. \A p \in DOMAIN s : F(p) \in Nat /\ F(p) <= c  BY FrequencyIs
<1>2. c \in Nat  BY FrequencyIs
<1>3. DOMAIN s # {} /\ DOMAIN s \subseteq Nat  OBVIOUS
<1> HIDE DEF c, F
<1>4. Gap \subseteq Nat /\ Gap # {}  BY <1>1, <1>2, <1>3
<1>5. PICK k \in Gap : \A j \in Gap : k <= j  BY <1>4, Leasts
<1>6. PICK p0 \in DOMAIN s : k = c - F(p0)  BY <1>5
<1>7. \A q \in DOMAIN s : c - F(p0) <= c - F(q)  BY <1>5, <1>6
<1>8. \A q \in DOMAIN s : F(q) <= F(p0)  BY <1>1, <1>2, <1>7
<1> DEFINE B == {p \in DOMAIN s : \A q \in DOMAIN s : F(q) <= F(p)}
<1>9. B \subseteq Nat /\ B # {}  BY <1>3, <1>8
<1>10. PICK p \in B : \A q \in B : p <= q  BY <1>9, Leasts
<1>11. ASSUME NEW q \in DOMAIN s, q < p  PROVE  F(q) < F(p)
  <2>1. q \notin B  BY <1>3, <1>10, <1>11
  <2>2. PICK r \in DOMAIN s : ~(F(r) <= F(q))  BY <2>1
  <2>3. F(r) <= F(p)  BY <1>10
  <2> QED  BY <1>1, <1>10, <2>2, <2>3
<1>12. \A q \in DOMAIN s : IF q < p THEN F(q) < F(p) ELSE F(q) <= F(p)
  BY <1>10, <1>11
<1>13. \E z \in DOMAIN s : \A q \in DOMAIN s :
          IF q < z THEN Frequency(s[q]) < Frequency(s[z]) ELSE Frequency(s[q]) <= Frequency(s[z])
  BY <1>10, <1>12 DEF F
<1> DEFINE w == CHOOSE z \in DOMAIN s : \A q \in DOMAIN s :
          IF q < z THEN Frequency(s[q]) < Frequency(s[z]) ELSE Frequency(s[q]) <= Frequency(s[z])
<1>14. w \in DOMAIN s  BY <1>13
<1>15. MostFrequent(s) = s[w]  BY DEF MostFrequent
<1> HIDE DEF w
<1> QED  BY <1>14, <1>15

LEMMA KeyIs ==
    ASSUME RebuildTypes, NEW i \in DOMAIN Extents, Collected(i)
    PROVE  Key(i) \subseteq Media
<1> DEFINE e == Extents[i]
<1>1. e \in Extent  BY ExtentsAre
<1>2. e.avail \in Seq(Media) /\ e.n \in Nat /\ Len(e.avail) \in Nat  BY <1>1 DEF Extent
<1>3. CASE e.n = Len(e.avail)
  <2>1. Key(i) = Range(e.avail)  BY <1>3 DEF Key
  <2> QED  BY <1>2, <2>1 DEF Range
<1>4. CASE e.n # Len(e.avail)
  <2>1. Key(i) = {MostFrequent(e.avail)}  BY <1>4 DEF Key
  <2>2. Len(e.avail) >= e.n  BY DEF Collected
  <2>3. e.avail # <<>>  BY <1>2, <1>4, <2>2
  <2>4. MostFrequent(e.avail) \in Media  BY <1>2, <2>3, MostFrequentIs
  <2> QED  BY <2>1, <2>4
<1> QED  BY <1>3, <1>4

\* The number of members up to i is its place in the sorted group.
LEMMA SortedExists ==
    ASSUME NEW S, S \subseteq Nat, IsFiniteSet(S)
    PROVE  \E s \in [1..Cardinality(S) -> S] :
              /\ \A p, q \in DOMAIN s : p < q => s[p] < s[q]
<1> DEFINE c == Cardinality(S)
           Upto(i) == {j \in S : j <= i}
           rank == [i \in S |-> Cardinality(Upto(i))]
<1>1. \A i \in S : Upto(i) \in SUBSET S  OBVIOUS
<1>2. \A i \in S : IsFiniteSet(Upto(i)) /\ Cardinality(Upto(i)) <= c  BY <1>1, FS_Subset
<1>3. c \in Nat /\ \A i \in S : Cardinality(Upto(i)) \in Nat  BY <1>2, FS_CardinalityType
<1>4. ASSUME NEW i \in S  PROVE  Cardinality(Upto(i)) # 0
  <2>1. i \in Upto(i)  OBVIOUS
  <2> QED  BY <2>1, <1>2, FS_EmptySet
<1>5. ASSUME NEW i \in S, NEW j \in S, i < j  PROVE  Cardinality(Upto(i)) < Cardinality(Upto(j))
  <2>0. i \in Nat /\ j \in Nat  OBVIOUS
  <2>1. \A z \in S : z <= i => z <= j  BY <1>5, <2>0
  <2>11. Upto(i) \in SUBSET Upto(j)  BY <2>1
  <2>2. j \in Upto(j) /\ j \notin Upto(i)  BY <1>5
  <2>3. /\ Cardinality(Upto(i)) <= Cardinality(Upto(j))
        /\ Cardinality(Upto(j)) = Cardinality(Upto(i)) => Upto(j) = Upto(i)
    BY <1>2, <2>11, FS_Subset
  <2> HIDE DEF Upto
  <2> QED  BY <1>3, <2>2, <2>3
<1> HIDE DEF Upto
<1>6. rank \in [S -> 1..c]  BY <1>2, <1>3, <1>4
<1>7. \A i, j \in S : i < j => rank[i] < rank[j]  BY <1>5
<1> HIDE DEF rank, c
<1>8. \A i \in S : rank[i] \in Nat  BY <1>3, <1>6
<1>9. \A i, j \in S : rank[i] = rank[j] => i = j
  <2> SUFFICES ASSUME NEW i \in S, NEW j \in S, rank[i] = rank[j]  PROVE i = j
    OBVIOUS
  <2>1. ~(i < j) /\ ~(j < i)  BY <1>7, <1>8
  <2> QED  BY <2>1
<1>10. rank \in Injection(S, 1..c)  BY <1>6, <1>9 DEF Injection, IsInjective
<1>11. IsFiniteSet(1..c) /\ Cardinality(1..c) = c
  <2>1. 0 \in Int /\ 1 \in Int /\ c \in Int  BY <1>3
  <2>2. IsFiniteSet(1..c) /\ Cardinality(1..c) = IF 1 > c THEN 0 ELSE c-1+1  BY <2>1, FS_Interval
  <2> QED  BY <1>3, <2>2
<1>12. rank \in Surjection(S, 1..c)  BY <1>10, <1>11, FS_Injection DEF c
<1>13. \A p \in 1..c : \E i \in S : rank[i] = p  BY <1>12 DEF Surjection
<1> DEFINE s == [p \in 1..c |-> CHOOSE i \in S : rank[i] = p]
<1>14. \A p \in 1..c : s[p] \in S /\ rank[s[p]] = p  BY <1>13
<1>15. s \in [1..c -> S]  BY <1>14
<1>16. \A p, q \in DOMAIN s : p < q => s[p] < s[q]
  <2> SUFFICES ASSUME NEW p \in 1..c, NEW q \in 1..c, p < q  PROVE  s[p] < s[q]
    OBVIOUS
  <2>0. p \in Nat /\ q \in Nat /\ p < q  BY <1>3
  <2>1. s[p] \in S /\ s[q] \in S /\ rank[s[p]] = p /\ rank[s[q]] = q  BY <1>14
  <2> HIDE DEF s
  <2>20. s[p] # s[q]  BY <2>0, <2>1
  <2>21. s[q] < s[p] => q < p  BY <1>7, <2>1
  <2>2. s[p] # s[q] /\ ~(s[q] < s[p])  BY <2>0, <2>20, <2>21
  <2>3. s[p] \in Nat /\ s[q] \in Nat  BY <2>1
  <2> QED  BY <2>2, <2>3
<1> HIDE DEF s
<1> QED  BY <1>15, <1>16 DEF c

\* Every extent of a group is a member once.
LEMMA MembersAre ==
    ASSUME RebuildTypes, NEW k
    PROVE  /\ Members(k) \in Seq(DOMAIN Extents)
           /\ IsInjective(Members(k))
           /\ Range(Members(k)) = Items(k)
<1> DEFINE S == Items(k)
           c == Cardinality(S)
<1>1. DOMAIN Extents \subseteq Nat /\ IsFiniteSet(DOMAIN Extents)  BY ExtentsAre
<1>2. S \in SUBSET (DOMAIN Extents)  BY DEF Items
<1>3. S \subseteq Nat /\ IsFiniteSet(S)  BY <1>1, <1>2, FS_Subset
<1>4. c \in Nat  BY <1>3, FS_CardinalityType
<1>5. \E s \in [1..c -> S] : \A p, q \in DOMAIN s : p < q => s[p] < s[q]  BY <1>3, SortedExists
<1> DEFINE s == Members(k)
<1>6. s \in [1..c -> S] /\ \A p, q \in DOMAIN s : p < q => s[p] < s[q]  BY <1>5 DEF Members
<1> HIDE DEF s, S
<1>7. DOMAIN s = 1..c /\ \A p \in 1..c : s[p] \in S /\ s[p] \in Nat  BY <1>3, <1>6
<1>8. \A p, q \in 1..c : s[p] = s[q] => p = q
  <2> SUFFICES ASSUME NEW p \in 1..c, NEW q \in 1..c, s[p] = s[q]  PROVE p = q
    OBVIOUS
  <2>1. ~(p < q) /\ ~(q < p)  BY <1>6, <1>7
  <2> QED  BY <1>4, <2>1
<1>9. IsInjective(s)  BY <1>7, <1>8 DEF IsInjective
<1>10. s \in Injection(1..c, S)  BY <1>6, <1>9 DEF Injection
<1>11. Cardinality(1..c) = c
  <2>2. Cardinality(1..c) = IF 1 > c THEN 0 ELSE c-1+1  BY <1>4, FS_Interval
  <2> QED  BY <1>4, <2>2
<1>12. s \in Surjection(1..c, S)  BY <1>3, <1>10, <1>11, FS_Injection
<1>13. Range(s) = S  BY <1>7, <1>12 DEF Surjection, Range
<1>14. s \in Seq(DOMAIN Extents)  BY <1>2, <1>4, <1>6
<1> QED  BY <1>9, <1>13, <1>14 DEF s, S

-----------------------------------------------------------------------------
(* Rebuilding: every extent once.                                          *)

\* What was rebuilt belongs to the media so far and had its sources.
DoneFits ==
    \A p \in DOMAIN done :
        /\ done[p][1] \in 1..job /\ done[p][2] \in DOMAIN jobs[done[p][1]]
        /\ Wanted(done[p][1], done[p][2])

\* What is left of medium j lacks sources, and is known to be skipped.
Finished(j) == \A i \in DOMAIN jobs[j] : IF Wanted(j, i) THEN Rebuilt(j, i) ELSE skipped
Earlier == \A j \in 1..job - 1 : Finished(j)

\* Nothing of a medium is rebuilt before its extents are collected.
Unstarted == rpc = "collect" => left = <<>> /\ \A p \in DOMAIN done : done[p][1] # job

\* A collected extent has been rebuilt, or waits in one group that is pending
\* or in the current one.
Left(i) == Wanted(job, i) /\ ~Rebuilt(job, i) /\ Key(i) \notin pending
Waiting ==
    /\ \A i \in DOMAIN Extents : IF Wanted(job, i)
                                 THEN Rebuilt(job, i) \/ Key(i) \in pending \/ i \in Range(left)
                                 ELSE skipped
    /\ \A i \in DOMAIN Extents : Wanted(job, i) /\ Key(i) \in pending => ~Rebuilt(job, i)
    /\ IsInjective(left) /\ \A i \in Range(left) : Left(i)
Grouped ==
    /\ rpc \in {"next", "copy"} => Waiting
    /\ rpc = "next" => left = <<>>

Result ==
    /\ rpc # "end" => rrc = "none"
    /\ rrc \in {"ok", "nodata"} => \A j \in DOMAIN jobs : Finished(j)
    /\ rrc = "ok" => ~skipped

RebuildInv ==
    /\ RebuildTypes /\ IsInjective(done) /\ DoneFits /\ Earlier /\ Unstarted /\ Grouped /\ Result

LEMMA InvRebuilt == ASSUME RebuildInv PROVE RebuiltOnce
<1>1. RebuildTypeOK  BY DEF RebuildInv, RebuildTypes, RebuildTypeOK
<1>2. \A x \in Range(done) : Len(jobs[x[1]][x[2]].avail) >= jobs[x[1]][x[2]].n
  BY DEF RebuildInv, DoneFits, Wanted, Range
<1>3. ASSUME rrc \in {"ok", "nodata"}, NEW j \in DOMAIN jobs, NEW i \in DOMAIN jobs[j],
             <<j, i>> \notin Range(done)
      PROVE  rrc = "nodata" /\ Len(jobs[j][i].avail) < jobs[j][i].n
  <2>1. ~Wanted(j, i) /\ skipped  BY <1>3 DEF RebuildInv, Result, Finished, Rebuilt
  <2>2. rrc = "nodata"  BY <1>3, <2>1 DEF RebuildInv, Result
  <2>3. jobs[j] \in Seq(Extent)  BY ExtentsAre DEF RebuildInv
  <2>4. jobs[j][i] \in Extent  BY <2>3
  <2>5. jobs[j][i].n \in Nat /\ Len(jobs[j][i].avail) \in Nat  BY <2>4 DEF Extent
  <2> QED  BY <2>1, <2>2, <2>5 DEF Wanted
<1> QED  BY <1>1, <1>2, <1>3 DEF RebuiltOnce, RebuildInv

LEMMA InitRebuild == ASSUME RebuildInit PROVE RebuildInv
<1>1. jobs \in Seq(Seq(Extent)) /\ jobs # <<>>  BY RebuildsAssumption DEF RebuildInit
<1>2. 1 \in DOMAIN jobs  BY <1>1
<1>20. left \in Seq(DOMAIN Extents) /\ done \in Seq(Nat \X Nat)  BY DEF RebuildInit
<1>21. mounts \in [Media -> Nat]  BY DEF RebuildInit
<1>3. RebuildTypes  BY <1>2, <1>20, <1>21 DEF RebuildInit, RebuildTypes
<1>4. IsInjective(done) /\ DoneFits  BY DEF RebuildInit, IsInjective, DoneFits
<1>5. Earlier  BY DEF RebuildInit, Earlier
<1> QED  BY <1>3, <1>4, <1>5 DEF RebuildInit, RebuildInv, Unstarted, Grouped, Result

\* The groups of a medium do not change while it is rebuilt.
SameMedium == jobs' = jobs /\ job' = job
LEMMA KeySame ==
    ASSUME SameMedium
    PROVE  /\ Extents' = Extents /\ \A i : Key(i)' = Key(i)
           /\ \A j, i : Wanted(j, i)' <=> Wanted(j, i)
BY DEF SameMedium, Extents, Key, MostFrequent, Frequency, Collected, Wanted

LEMMA CollectStep == ASSUME RebuildInv, Collect PROVE RebuildInv'
<1> USE DEF RebuildInv
<1>0. SameMedium /\ rpc = "collect" /\ rpc' = "next"  BY DEF Collect, SameMedium
<1>1. Extents' = Extents /\ (\A i : Key(i)' = Key(i)) /\ \A j, i : Wanted(j, i)' <=> Wanted(j, i)
  BY <1>0, KeySame
<1>2. \A i : Collected(i) <=> Wanted(job, i)  BY DEF Collected, Wanted, Extents
<1>3. pending' \subseteq SUBSET Media  BY KeyIs DEF Collect
<1>4. RebuildTypes'  BY <1>0, <1>1, <1>3 DEF Collect, RebuildTypes, Skips, SameMedium
<1>5. IsInjective(done)' /\ DoneFits' /\ Unstarted' /\ Result'
  BY <1>0, <1>1 DEF Collect, IsInjective, DoneFits, SameMedium, Unstarted, Result
<1>6. Earlier'
  BY <1>0, <1>1 DEF Earlier, Finished, Rebuilt, Collect, SameMedium, Skips
<1>7. \A i : ~Rebuilt(job, i)  BY <1>0 DEF Rebuilt, Unstarted, Range
<1>8. left' = <<>> /\ done' = done  BY <1>0 DEF Collect, Unstarted
<1>9. \A i \in DOMAIN Extents : Wanted(job, i) => Key(i) \in pending'  BY <1>2 DEF Collect
<1>10. \A i \in DOMAIN Extents : ~Wanted(job, i) => skipped'  BY <1>2 DEF Collect, Skips
<1>11. Range(left') = {} /\ IsInjective(left')  BY <1>8 DEF Range, IsInjective
<1>12. Waiting'
  BY <1>0, <1>1, <1>7, <1>8, <1>9, <1>10, <1>11 DEF Waiting, Left, Rebuilt, SameMedium
<1>13. Grouped'  BY <1>8, <1>12 DEF Grouped
<1> QED  BY <1>4, <1>5, <1>6, <1>13

LEMMA BestPending == ASSUME pending # {} PROVE BestGroups \subseteq pending
<1>1. StartGroups \subseteq pending  BY DEF StartGroups
<1>2. NextGroups \subseteq pending  BY DEF NextGroups
<1> QED  BY <1>1, <1>2 DEF BestGroups

LEMMA SelectStep == ASSUME RebuildInv, SelectGroup PROVE RebuildInv'
<1> USE DEF RebuildInv
<1>0. SameMedium /\ rpc = "next" /\ rpc' = "copy" /\ done' = done /\ skipped' = skipped /\ rrc' = rrc
  BY DEF SelectGroup, SameMedium
<1>1. Extents' = Extents /\ (\A i : Key(i)' = Key(i)) /\ \A j, i : Wanted(j, i)' <=> Wanted(j, i)
  BY <1>0, KeySame
<1>2. \A i : Collected(i) <=> Wanted(job, i)  BY DEF Collected, Wanted, Extents
<1>3. PICK k \in BestGroups :
          /\ pending' = pending \ {k} /\ cur' = k /\ left' = Members(k)
          /\ mounts' = [m \in Media |-> mounts[m] + (IF m \in k \ cur THEN 1 ELSE 0)]
  BY DEF SelectGroup
<1>4. k \in pending  BY BestPending DEF SelectGroup
<1>5. /\ Members(k) \in Seq(DOMAIN Extents) /\ IsInjective(Members(k))
      /\ Range(Members(k)) = Items(k)
  BY MembersAre
<1>6. mounts' \in [Media -> Nat]  BY <1>3 DEF RebuildTypes
<1>7. RebuildTypes'  BY <1>0, <1>1, <1>3, <1>4, <1>5, <1>6 DEF RebuildTypes, SameMedium
<1>8. IsInjective(done)' /\ DoneFits' /\ Unstarted' /\ Result'
  BY <1>0, <1>1 DEF IsInjective, DoneFits, SameMedium, Unstarted, Result, Finished, Rebuilt
<1>9. Earlier'
  BY <1>0, <1>1 DEF Earlier, Finished, Rebuilt, SameMedium
<1>10. Waiting /\ left = <<>>  BY <1>0 DEF Grouped
<1>11. Range(left) = {}  BY <1>10 DEF Range
<1>12. \A i \in Range(left') : i \in DOMAIN Extents /\ Wanted(job, i) /\ Key(i) = k
  BY <1>2, <1>3, <1>5 DEF Items
<1>13. \A i \in DOMAIN Extents : Wanted(job, i) /\ Key(i) = k => i \in Range(left')
  BY <1>2, <1>3, <1>5 DEF Items
<1>14. \A i : Rebuilt(job, i)' <=> Rebuilt(job, i)  BY <1>0 DEF Rebuilt, SameMedium
<1>15. \A i \in Range(left') : Left(i)'
  BY <1>0, <1>1, <1>3, <1>4, <1>10, <1>12, <1>14 DEF Left, Waiting, SameMedium
<1>16. Waiting'
  <2>1. \A i \in DOMAIN Extents : IF Wanted(job, i)
               THEN Rebuilt(job, i) \/ Key(i) \in pending' \/ i \in Range(left')
               ELSE skipped
    BY <1>3, <1>10, <1>11, <1>13 DEF Waiting
  <2>2. \A i \in DOMAIN Extents : Wanted(job, i) /\ Key(i) \in pending' => ~Rebuilt(job, i)
    BY <1>3, <1>10 DEF Waiting
  <2>3. IsInjective(left')  BY <1>3, <1>5
  <2> QED  BY <1>0, <1>1, <1>14, <1>15, <2>1, <2>2, <2>3 DEF Waiting, SameMedium
<1> QED  BY <1>0, <1>7, <1>8, <1>9, <1>16 DEF Grouped

\* What appending to a sequence adds.
LEMMA AppendIs ==
    ASSUME NEW A, NEW s \in Seq(A), NEW e \in A
    PROVE  /\ Append(s, e) \in Seq(A) /\ Range(Append(s, e)) = Range(s) \cup {e}
           /\ DOMAIN Append(s, e) = DOMAIN s \cup {Len(s) + 1}
           /\ \A p \in DOMAIN s : Append(s, e)[p] = s[p]
           /\ Append(s, e)[Len(s) + 1] = e
           /\ IsInjective(s) /\ e \notin Range(s) => IsInjective(Append(s, e))
<1> DEFINE t == Append(s, e)
<1>1. t \in Seq(A) /\ Len(t) = Len(s) + 1 /\ DOMAIN t = 1..Len(s) + 1 /\ DOMAIN s = 1..Len(s)
      /\ Len(s) \in Nat
  OBVIOUS
<1>2. \A p \in DOMAIN s : t[p] = s[p]  OBVIOUS
<1>3. t[Len(s) + 1] = e  OBVIOUS
<1>4. DOMAIN t = DOMAIN s \cup {Len(s) + 1}  BY <1>1
<1> HIDE DEF t
<1>5. Range(t) = Range(s) \cup {e}  BY <1>2, <1>3, <1>4 DEF Range
<1>6. ASSUME IsInjective(s), e \notin Range(s)  PROVE  IsInjective(t)
  <2> SUFFICES ASSUME NEW a \in DOMAIN t, NEW b \in DOMAIN t, t[a] = t[b]  PROVE a = b
    BY DEF IsInjective
  <2> QED  BY <1>2, <1>3, <1>4, <1>6 DEF IsInjective, Range
<1> QED  BY <1>1, <1>2, <1>3, <1>4, <1>5, <1>6 DEF t

LEMMA TailHas ==
    ASSUME NEW A, NEW s \in Seq(A), s # <<>>, IsInjective(s)
    PROVE  /\ Tail(s) \in Seq(A) /\ Head(s) \in A /\ Head(s) \in Range(s)
           /\ Range(Tail(s)) = Range(s) \ {Head(s)} /\ IsInjective(Tail(s))
<1> DEFINE t == Tail(s)
<1>1. t \in Seq(A) /\ Len(t) = Len(s) - 1 /\ Len(s) \in Nat \ {0} /\ Head(s) = s[1]
      /\ DOMAIN t = 1..Len(s) - 1 /\ DOMAIN s = 1..Len(s)
  OBVIOUS
<1>2. \A p \in DOMAIN t : p \in Nat /\ t[p] = s[p + 1] /\ p + 1 \in DOMAIN s /\ p + 1 # 1  OBVIOUS
<1>3. \A q \in DOMAIN s : q = 1 \/ (q - 1 \in DOMAIN t /\ s[q] = t[q - 1])  OBVIOUS
<1>4. 1 \in DOMAIN s  BY <1>1
<1> HIDE DEF t
<1>5. IsInjective(t)
  <2> SUFFICES ASSUME NEW a \in DOMAIN t, NEW b \in DOMAIN t, t[a] = t[b]  PROVE a = b
    BY DEF IsInjective
  <2>1. s[a + 1] = s[b + 1] /\ a + 1 \in DOMAIN s /\ b + 1 \in DOMAIN s /\ a \in Nat /\ b \in Nat
    BY <1>2
  <2>2. a + 1 = b + 1  BY <2>1 DEF IsInjective
  <2> QED  BY <2>1, <2>2
<1>6. \A p \in DOMAIN t : t[p] \in Range(s) /\ t[p] # s[1]  BY <1>2, <1>4 DEF IsInjective, Range
<1>7. \A q \in DOMAIN s : s[q] # s[1] => s[q] \in Range(t)
  <2> SUFFICES ASSUME NEW q \in DOMAIN s, s[q] # s[1]  PROVE s[q] \in Range(t)
    OBVIOUS
  <2>1. q - 1 \in DOMAIN t /\ s[q] = t[q - 1]  BY <1>3
  <2> QED  BY <2>1 DEF Range
<1>8. Range(t) = Range(s) \ {s[1]}
  <2>1. \A x \in Range(t) : x \in Range(s) \ {s[1]}  BY <1>6 DEF Range
  <2>2. \A x \in Range(s) \ {s[1]} : x \in Range(t)  BY <1>7 DEF Range
  <2> QED  BY <2>1, <2>2
<1>9. Head(s) \in A /\ Head(s) \in Range(s)  BY <1>1, <1>4 DEF Range
<1> QED  BY <1>1, <1>5, <1>8, <1>9 DEF t

LEMMA CopyStep == ASSUME RebuildInv, RebuildCopy PROVE RebuildInv'
<1> USE DEF RebuildInv
<1> DEFINE i0 == Head(left)
<1>0. /\ SameMedium /\ rpc = "copy" /\ rpc' = "copy" /\ skipped' = skipped /\ rrc' = rrc
      /\ pending' = pending /\ cur' = cur /\ mounts' = mounts /\ left # <<>>
      /\ done' = Append(done, <<job, i0>>) /\ left' = Tail(left)
  BY DEF RebuildCopy, SameMedium
<1>1. Extents' = Extents /\ (\A i : Key(i)' = Key(i)) /\ \A j, i : Wanted(j, i)' <=> Wanted(j, i)
  BY <1>0, KeySame
<1>2. Waiting  BY <1>0 DEF Grouped
<1>3. /\ Tail(left) \in Seq(DOMAIN Extents) /\ i0 \in DOMAIN Extents /\ i0 \in Range(left)
      /\ Range(Tail(left)) = Range(left) \ {i0} /\ IsInjective(Tail(left))
  BY <1>0, <1>2, TailHas DEF RebuildTypes, Waiting
<1>4. Left(i0)  BY <1>2, <1>3 DEF Waiting
<1>5. job \in Nat /\ i0 \in Nat /\ job \in 1..job
  <2>1. jobs \in Seq(Seq(Extent)) /\ Extents \in Seq(Extent)  BY ExtentsAre, RebuildsAssumption DEF RebuildTypes
  <2>2. job \in Nat \ {0}  BY <2>1 DEF RebuildTypes
  <2>3. i0 \in Nat  BY <1>3, <2>1
  <2> QED  BY <2>2, <2>3
<1> HIDE DEF i0
<1>6. <<job, i0>> \in Nat \X Nat /\ <<job, i0>> \notin Range(done)
  BY <1>4, <1>5 DEF Left, Rebuilt
<1>61. done \in Seq(Nat \X Nat) /\ IsInjective(done)  BY DEF RebuildTypes
<1> DEFINE x0 == <<job, i0>>
<1>62. x0 \in Nat \X Nat /\ x0 \notin Range(done) /\ done' = Append(done, x0)  BY <1>0, <1>6
<1> HIDE DEF x0
<1>63. /\ done' \in Seq(Nat \X Nat) /\ Range(done') = Range(done) \cup {x0}
       /\ DOMAIN done' = DOMAIN done \cup {Len(done) + 1}
       /\ \A p \in DOMAIN done : done'[p] = done[p]
       /\ done'[Len(done) + 1] = x0
       /\ IsInjective(done')
  BY <1>61, <1>62, AppendIs
<1>7. /\ done' \in Seq(Nat \X Nat) /\ Range(done') = Range(done) \cup {<<job, i0>>}
      /\ DOMAIN done' = DOMAIN done \cup {Len(done) + 1}
      /\ \A p \in DOMAIN done : done'[p] = done[p]
      /\ done'[Len(done) + 1] = <<job, i0>>
      /\ IsInjective(done')
  BY <1>63 DEF x0
<1>8. RebuildTypes'  BY <1>0, <1>1, <1>3, <1>7 DEF RebuildTypes, SameMedium
<1>9. DoneFits'
  <2> SUFFICES ASSUME NEW p \in DOMAIN done'
               PROVE  /\ done'[p][1] \in 1..job /\ done'[p][2] \in DOMAIN jobs[done'[p][1]]
                      /\ Wanted(done'[p][1], done'[p][2])
    BY <1>0, <1>1 DEF DoneFits, SameMedium
  <2>1. CASE p \in DOMAIN done  BY <1>7, <2>1 DEF DoneFits
  <2>2. CASE p = Len(done) + 1
    <3>1. done'[p][1] = job /\ done'[p][2] = i0  BY <1>7, <2>2
    <3>2. i0 \in DOMAIN jobs[job]  BY <1>3 DEF Extents
    <3> QED  BY <1>4, <1>5, <3>1, <3>2 DEF Left
  <2> QED  BY <1>7, <2>1, <2>2
<1>10. \A j, i : Rebuilt(j, i) => Rebuilt(j, i)'  BY <1>7 DEF Rebuilt
<1>11. Earlier' /\ Unstarted' /\ Result'
  BY <1>0, <1>1, <1>10 DEF Earlier, Finished, SameMedium, Unstarted, Result
<1>12. \A i : Rebuilt(job, i)' <=> Rebuilt(job, i) \/ i = i0
  BY <1>0, <1>7 DEF Rebuilt, SameMedium
<1>13. \A i \in DOMAIN Extents : IF Wanted(job, i)
               THEN (Rebuilt(job, i) \/ i = i0) \/ Key(i) \in pending \/ i \in Range(left')
               ELSE skipped
  BY <1>0, <1>2, <1>3 DEF Waiting
<1>14. \A i \in DOMAIN Extents : Wanted(job, i) /\ Key(i) \in pending => ~(Rebuilt(job, i) \/ i = i0)
  BY <1>2, <1>4 DEF Waiting, Left
<1>15. \A i \in Range(left') : Left(i) /\ i # i0  BY <1>0, <1>2, <1>3 DEF Waiting
<1>16. Waiting'
  BY <1>0, <1>1, <1>3, <1>12, <1>13, <1>14, <1>15 DEF Waiting, Left, SameMedium
<1> QED  BY <1>0, <1>7, <1>8, <1>9, <1>11, <1>16 DEF Grouped

\* A step that changes only the control and the result.
LEMMA ControlSame ==
    ASSUME RebuildInv, UNCHANGED <<jobs, job, pending, cur, left, done, skipped, mounts>>,
           rpc' \in {"next", "end"}, rrc' \in {"none", "error"}
    PROVE  /\ RebuildTypes' /\ IsInjective(done)' /\ DoneFits' /\ Earlier' /\ Unstarted'
           /\ Waiting => Waiting'
<1> USE DEF RebuildInv
<1>0. SameMedium  BY DEF SameMedium
<1>1. Extents' = Extents /\ (\A i : Key(i)' = Key(i)) /\ \A j, i : Wanted(j, i)' <=> Wanted(j, i)
  BY <1>0, KeySame
<1>2. RebuildTypes'  BY <1>1 DEF RebuildTypes
<1>3. \A j, i : Rebuilt(j, i)' <=> Rebuilt(j, i)  BY DEF Rebuilt
<1>4. IsInjective(done)' /\ DoneFits' /\ Earlier' /\ Unstarted'
  BY <1>1, <1>3 DEF IsInjective, DoneFits, Earlier, Finished, Unstarted
<1>5. Waiting => Waiting'  BY <1>1, <1>3 DEF Waiting, Left
<1> QED  BY <1>2, <1>4, <1>5

LEMMA FailStep == ASSUME RebuildInv, RebuildFails PROVE RebuildInv'
<1>1. /\ UNCHANGED <<jobs, job, pending, cur, left, done, skipped, mounts>>
      /\ rpc' = "end" /\ rrc' = "error"
  BY DEF RebuildFails
<1> QED  BY <1>1, ControlSame DEF RebuildInv, Grouped, Result

LEMMA GroupStep == ASSUME RebuildInv, GroupDone PROVE RebuildInv'
<1>1. /\ UNCHANGED <<jobs, job, pending, cur, left, done, skipped, mounts>>
      /\ rpc' = "next" /\ rrc' = "none" /\ rpc = "copy" /\ left = <<>>
  BY DEF GroupDone, RebuildInv, Result
<1>2. Waiting  BY <1>1 DEF RebuildInv, Grouped
<1> QED  BY <1>1, <1>2, ControlSame DEF RebuildInv, Grouped, Result

\* No group is left of a medium that is done.
LEMMA JobStep == ASSUME RebuildInv, JobDone PROVE RebuildInv'
<1> USE DEF RebuildInv
<1>1. /\ UNCHANGED <<jobs, pending, cur, left, done, skipped, mounts>>
      /\ rpc = "next" /\ pending = {} /\ rrc = "none"
  BY DEF JobDone, Result
<1>2. Waiting /\ left = <<>> /\ Range(left) = {}  BY <1>1 DEF Grouped, Range
<1>3. Finished(job)  BY <1>1, <1>2 DEF Waiting, Finished, Extents
<1>4. jobs \in Seq(Seq(Extent)) /\ job \in 1..Len(jobs) /\ Len(jobs) \in Nat
  BY RebuildsAssumption DEF RebuildTypes
<1>5. \A j \in 1..job : Finished(j)  BY <1>3, <1>4 DEF Earlier
<1>6. \A j : Finished(j)' <=> Finished(j)  BY <1>1 DEF Finished, Wanted, Rebuilt
<1>7. CASE job < Len(jobs)
  <2>1. job' = job + 1 /\ rpc' = "collect" /\ rrc' = "none"  BY <1>1, <1>7 DEF JobDone
  <2>2. job' \in DOMAIN jobs  BY <1>4, <1>7, <2>1
  <2>3. left' \in Seq(DOMAIN Extents')  BY <1>1, <1>2
  <2>4. RebuildTypes'  BY <1>1, <2>1, <2>2, <2>3 DEF RebuildTypes
  <2>5. IsInjective(done)' /\ Result'  BY <1>1, <2>1 DEF Result, IsInjective
  <2>6. \A p \in DOMAIN done : done[p][1] \in 1..job /\ done[p][1] \in 1..job + 1 /\ done[p][1] # job + 1
    BY <1>4 DEF DoneFits
  <2>7. DoneFits'  BY <1>1, <2>1, <2>6 DEF DoneFits, Wanted
  <2>8. Unstarted'  BY <1>1, <1>2, <2>1, <2>6 DEF Unstarted
  <2>9. Earlier'
    <3>1. 1..job' - 1 = 1..job  BY <1>4, <2>1
    <3> QED  BY <1>5, <1>6, <3>1 DEF Earlier
  <2> QED  BY <2>1, <2>4, <2>5, <2>7, <2>8, <2>9 DEF Grouped
<1>8. CASE ~(job < Len(jobs))
  <2>1. rpc' = "end" /\ rrc' = (IF skipped THEN "nodata" ELSE "ok") /\ job' = job  BY <1>1, <1>8 DEF JobDone
  <2>2. DOMAIN jobs = 1..job  BY <1>4, <1>8
  <2>3. RebuildTypes'  BY <1>1, <2>1 DEF RebuildTypes, Extents
  <2>4. IsInjective(done)' /\ DoneFits' /\ Unstarted'
    BY <1>1, <2>1 DEF IsInjective, DoneFits, Wanted, Unstarted
  <2>5. Earlier'  BY <1>6, <2>1 DEF Earlier
  <2>6. Result'  BY <1>1, <1>5, <1>6, <2>1, <2>2 DEF Result
  <2> QED  BY <2>1, <2>3, <2>4, <2>5, <2>6 DEF Grouped
<1> QED  BY <1>7, <1>8

LEMMA RebuildSame == ASSUME RebuildInv, UNCHANGED rebuildVars PROVE RebuildInv'
<1> USE DEF RebuildInv
<1>0. SameMedium /\ UNCHANGED <<pending, cur, left, done, skipped, mounts, rpc, rrc>>
  BY DEF SameMedium, rebuildVars
<1>1. Extents' = Extents /\ (\A i : Key(i)' = Key(i)) /\ \A j, i : Wanted(j, i)' <=> Wanted(j, i)
  BY <1>0, KeySame
<1>2. RebuildTypes'  BY <1>0, <1>1 DEF RebuildTypes, SameMedium
<1>3. \A j, i : Rebuilt(j, i)' <=> Rebuilt(j, i)  BY <1>0 DEF Rebuilt
<1>4. IsInjective(done)' /\ DoneFits' /\ Earlier' /\ Unstarted' /\ Result'
  BY <1>0, <1>1, <1>3 DEF IsInjective, DoneFits, Earlier, Finished, Unstarted, Result, SameMedium
<1>5. Waiting => Waiting'  BY <1>0, <1>1, <1>3 DEF Waiting, Left, SameMedium
<1> QED  BY <1>0, <1>2, <1>4, <1>5 DEF Grouped

\* rebuild.c over any number of media and extents: no extent is rebuilt twice,
\* none is given up that has its sources, and the result says so.
THEOREM EveryExtentOnce == RebuildSpec => []RebuiltOnce
<1>1. RebuildInv /\ [RebuildNext]_rebuildVars => RebuildInv'
  BY CollectStep, SelectStep, CopyStep, FailStep, GroupStep, JobStep, RebuildSame DEF RebuildNext
<1>2. RebuildInv => RebuiltOnce  BY InvRebuilt
<1> QED  BY <1>1, <1>2, InitRebuild, PTL DEF RebuildSpec

-----------------------------------------------------------------------------
(* Rebuilding: the media stay mounted.                                     *)

\* The keys of the groups have one or two media: a mirror is read from one, a
\* raid4 from two.
NarrowKeys == \A R \in Rebuilds : \A j \in DOMAIN R : \A i \in DOMAIN R[j] : R[j][i].n <= 2
Narrow(k) == IsFiniteSet(k) /\ Cardinality(k) \in 1..2
KeyInv == RebuildInv /\ cur \in SUBSET Media /\ (cur # {} => Narrow(cur)) /\ \A k \in pending : Narrow(k)

LEMMA KeyNarrow ==
    ASSUME NarrowKeys, RebuildTypes, NEW i \in DOMAIN Extents, Collected(i)
    PROVE  Narrow(Key(i))
<1> DEFINE e == Extents[i]
<1>1. e \in Extent /\ e.n <= 2  BY ExtentsAre DEF NarrowKeys, RebuildTypes, Extents
<1>2. e.avail \in Seq(Media) /\ e.n \in Nat \ {0} /\ Len(e.avail) \in Nat  BY <1>1 DEF Extent
<1>3. CASE e.n = Len(e.avail)
  <2>1. Key(i) = Range(e.avail)  BY <1>3 DEF Key
  <2>20. e.n \in 1..2  BY <1>1, <1>2
  <2>2. Len(e.avail) \in 1..2  BY <1>3, <2>20
  <2>3. \E a, b \in Media : Range(e.avail) = {a, b}
    <3>1. CASE Len(e.avail) = 1
      <4>1. DOMAIN e.avail = {1}  BY <1>2, <3>1
      <4>2. Range(e.avail) = {e.avail[1], e.avail[1]}  BY <4>1 DEF Range
      <4> QED  BY <1>2, <3>1, <4>2
    <3>2. CASE Len(e.avail) = 2
      <4>1. DOMAIN e.avail = {1, 2}  BY <1>2, <3>2
      <4>2. Range(e.avail) = {e.avail[1], e.avail[2]}  BY <4>1 DEF Range
      <4> QED  BY <1>2, <3>2, <4>2
    <3> QED  BY <2>2, <3>1, <3>2
  <2>4. PICK a \in Media, b \in Media : Key(i) = {a, b}  BY <2>1, <2>3
  <2>5. IsFiniteSet({a}) /\ Cardinality({a}) = 1  BY FS_Singleton
  <2>6. IsFiniteSet({a} \cup {b}) /\ Cardinality({a} \cup {b}) \in 1..2  BY <2>5, FS_AddElement
  <2>7. Key(i) = {a} \cup {b}  BY <2>4
  <2> QED  BY <2>6, <2>7 DEF Narrow
<1>4. CASE e.n # Len(e.avail)
  <2>1. Key(i) = {MostFrequent(e.avail)}  BY <1>4 DEF Key
  <2>2. IsFiniteSet(Key(i)) /\ Cardinality(Key(i)) = 1  BY <2>1, FS_Singleton
  <2>3. Cardinality(Key(i)) \in 1..2  BY <2>2
  <2> QED  BY <2>2, <2>3 DEF Narrow
<1> QED  BY <1>3, <1>4

\* A group that shares a medium with the current one costs less than one that
\* does not.
LEMMA SharedCostsLess ==
    ASSUME cur # {}, Narrow(cur), NEW g, NEW k, Narrow(g), Narrow(k), g \cap cur # {}, k \cap cur = {}
    PROVE  Cost(g) < Cost(k)
<1> DEFINE a == Cardinality(cur)
           x == Cardinality(cur \cap g)
<1>1. a \in Nat /\ Cardinality(g) \in 1..2 /\ Cardinality(k) \in 1..2  BY DEF Narrow
<1>2. IsFiniteSet(cur \cap g)  BY FS_Intersection DEF Narrow
<1>3. x \in Nat /\ x # 0
  <2>1. x \in Nat  BY <1>2, FS_CardinalityType
  <2>2. cur \cap g # {}  OBVIOUS
  <2> QED  BY <1>2, <2>1, <2>2, FS_EmptySet
<1>4. Cardinality(cur \cap k) = 0
  <2>1. cur \cap k = {}  OBVIOUS
  <2> QED  BY <2>1, FS_EmptySet
<1>5. Cost(g) = a + Cardinality(g) - 2 * x /\ Cost(k) = a + Cardinality(k) - 2 * Cardinality(cur \cap k)
  BY DEF Cost
<1> HIDE DEF a, x
<1> QED  BY <1>1, <1>3, <1>4, <1>5

LEMMA InvKeepsMounted == ASSUME KeyInv PROVE KeepsMounted
<1> SUFFICES ASSUME cur # {}, NEW g \in pending, g \cap cur # {}, NEW k \in BestGroups
             PROVE  k \cap cur # {}
  BY DEF KeepsMounted
<1>1. PICK b \in NextGroups : k \in (IF cur \cap b = {} THEN StartGroups ELSE {b})  BY DEF BestGroups
<1>2. b \in pending /\ ~BetterNext(g, b)  BY <1>1 DEF NextGroups
<1>3. ~(Cost(g) < Cost(b))  BY <1>2 DEF BetterNext
<1>4. b \cap cur # {}  BY <1>2, <1>3, SharedCostsLess DEF KeyInv
<1>5. k = b  BY <1>1, <1>4
<1> QED  BY <1>4, <1>5

LEMMA KeyInvNext == ASSUME NarrowKeys, KeyInv, [RebuildNext]_rebuildVars PROVE KeyInv'
<1>1. RebuildInv'
  BY CollectStep, SelectStep, CopyStep, FailStep, GroupStep, JobStep, RebuildSame DEF RebuildNext, KeyInv
<1>2. cur' \in SUBSET Media  BY <1>1 DEF RebuildInv, RebuildTypes
<1>3. CASE Collect
  <2>1. \A k \in pending' : Narrow(k)  BY <1>3, KeyNarrow DEF Collect, KeyInv, RebuildInv
  <2> QED  BY <1>1, <1>2, <1>3, <2>1 DEF Collect, KeyInv, Narrow
<1>4. CASE SelectGroup
  <2>1. PICK k \in BestGroups : pending' = pending \ {k} /\ cur' = k  BY <1>4 DEF SelectGroup
  <2>2. k \in pending  BY <1>4, BestPending DEF SelectGroup
  <2> QED  BY <1>1, <1>2, <2>1, <2>2 DEF KeyInv, Narrow
<1>5. CASE ~Collect /\ ~SelectGroup
  <2>1. pending' = pending /\ cur' = cur
    BY <1>5 DEF RebuildNext, RebuildCopy, RebuildFails, GroupDone, JobDone, rebuildVars
  <2> QED  BY <1>1, <1>2, <2>1 DEF KeyInv, Narrow
<1> QED  BY <1>3, <1>4, <1>5

\* rebuild.h, "keep useful media mounted": with keys of one or two media, the
\* next group shares a medium with the current one whenever some group does.
THEOREM MediaKeptMounted == NarrowKeys => (RebuildSpec => []KeepsMounted)
<1> SUFFICES ASSUME NarrowKeys  PROVE  RebuildSpec => []KeepsMounted
  OBVIOUS
<1>1. RebuildInit => KeyInv  BY InitRebuild DEF RebuildInit, KeyInv
<1>2. KeyInv /\ [RebuildNext]_rebuildVars => KeyInv'  BY KeyInvNext
<1>3. KeyInv => KeepsMounted  BY InvKeepsMounted
<1> QED  BY <1>1, <1>2, <1>3, PTL DEF RebuildSpec

-----------------------------------------------------------------------------
(* The slots and the splits of a layout.                                   *)

LEMMA DivIs ==
    ASSUME NEW a \in Nat, NEW p \in Nat \ {0}
    PROVE  /\ a \div p \in Nat /\ a % p \in 0..(p - 1)
           /\ a = p * (a \div p) + (a % p)
<1>1. a \div p \in Nat /\ a % p \in 0..(p - 1)
  <2>1. a \div p \in Int  OBVIOUS
  <2>2. a \div p >= 0  OBVIOUS
  <2>3. a % p \in 0..(p - 1)  OBVIOUS
  <2> QED  BY <2>1, <2>2, <2>3
<1>2. a = p * (a \div p) + (a % p)
  <2>1. a \in Int /\ p \in Int /\ p > 0  OBVIOUS
  <2> QED  BY <2>1, Z3
<1> QED  BY <1>1, <1>2

LEMMA Between ==
    ASSUME NEW p \in Nat \ {0}, NEW q \in Int, NEW r \in Int, p * q < p * r
    PROVE  q < r
<1> SUFFICES ASSUME ~(q < r) PROVE FALSE
  OBVIOUS
<1>1. q - r \in Nat  OBVIOUS
<1>2. p * (q - r) >= 0  BY <1>1
<1>3. p * (q - r) = p * q - p * r  OBVIOUS
<1> QED  BY <1>2, <1>3

\* The slots of split s.
LEMMA SplitRange ==
    ASSUME NEW p \in Nat \ {0}, NEW i \in Nat \ {0}
    PROVE  LET s == (i - 1) \div p + 1
           IN  s \in Nat \ {0} /\ p * (s - 1) < i /\ i <= p * s
<1> DEFINE q == (i - 1) \div p
<1>1. i - 1 \in Nat  OBVIOUS
<1>2. q \in Nat /\ (i - 1) % p \in 0..(p - 1) /\ i - 1 = p * q + ((i - 1) % p)  BY <1>1, DivIs
<1> HIDE DEF q
<1>3. p * (q + 1) = p * q + p  BY <1>2
<1>4. (q + 1) - 1 = q  BY <1>2
<1>5. p * q \in Nat  BY <1>2
<1>51. p * q < i /\ i <= p * q + p  BY <1>2, <1>5
<1>6. p * ((q + 1) - 1) < i /\ i <= p * (q + 1)  BY <1>3, <1>4, <1>51
<1> QED  BY <1>2, <1>6 DEF q

LEMMA SplitOne ==
    ASSUME NEW p \in Nat \ {0}, NEW i \in Nat \ {0}, NEW s \in Nat \ {0}, p * (s - 1) < i, i <= p * s
    PROVE  (i - 1) \div p + 1 = s
<1> DEFINE t == (i - 1) \div p + 1
<1>1. t \in Nat \ {0} /\ p * (t - 1) < i /\ i <= p * t  BY SplitRange
<1> HIDE DEF t
<1>2. p * (s - 1) \in Int /\ p * (t - 1) \in Int /\ p * s \in Int /\ p * t \in Int  BY <1>1
<1>3. p * (t - 1) < p * s /\ p * (s - 1) < p * t  BY <1>1, <1>2
<1>4. t - 1 < s  BY <1>1, <1>3, Between
<1>5. s - 1 < t  BY <1>1, <1>3, Between
<1>6. t = s  BY <1>1, <1>4, <1>5
<1> QED  BY <1>6 DEF t

\* A slot belongs to one of the splits, and a split has its last slot.
LEMMA SplitIs ==
    ASSUME NEW p \in Nat \ {0}, NEW L \in Nat, L % p = 0, NEW i \in 1..L
    PROVE  (i - 1) \div p + 1 \in 1..(L \div p)
<1> DEFINE t == (i - 1) \div p + 1
           k == L \div p
<1>1. t \in Nat \ {0} /\ p * (t - 1) < i  BY SplitRange
<1>2. k \in Nat /\ L = p * k  BY DivIs
<1> HIDE DEF t, k
<1>3. p * (t - 1) \in Int /\ p * k \in Int  BY <1>1, <1>2
<1>4. p * (t - 1) < p * k  BY <1>1, <1>2, <1>3
<1>5. t - 1 < k  BY <1>1, <1>2, <1>4, Between
<1>6. t \in 1..k  BY <1>1, <1>2, <1>5
<1> QED  BY <1>6 DEF t, k

LEMMA SplitLast ==
    ASSUME NEW p \in Nat \ {0}, NEW L \in Nat, NEW s \in 1..(L \div p)
    PROVE  \E j \in 1..L : j % p = 0 /\ (j - 1) \div p + 1 = s
<1> DEFINE k == L \div p
           j == p * s
<1>1. k \in Nat /\ L = p * k + (L % p) /\ L % p \in 0..(p - 1)  BY DivIs
<1>2. s \in 1..k  OBVIOUS
<1> HIDE DEF k
<1>3. s \in Nat \ {0} /\ k - s \in Nat  BY <1>1, <1>2
<1>4. j \in Nat /\ p * (k - s) \in Nat /\ p * (k - s) = p * k - p * s /\ p * k \in Nat  BY <1>1, <1>3
<1>5. p * (s - 1) = p * s - p  BY <1>3
<1>6. p * (s - 1) \in Nat  BY <1>3
<1>7. j # 0 /\ p * (s - 1) < j  BY <1>4, <1>5, <1>6
<1>8. j <= L  BY <1>1, <1>4
<1>9. (j - 1) \div p + 1 = s  BY <1>3, <1>4, <1>7, SplitOne
<1>10. j % p = 0
  <2>1. j \div p \in Nat /\ j % p \in 0..(p - 1) /\ j = p * (j \div p) + (j % p)  BY <1>4, DivIs
  <2> DEFINE d == j \div p
  <2> HIDE DEF d
  <2>2. d \in Nat /\ j % p \in 0..(p - 1) /\ j = p * d + (j % p)  BY <2>1 DEF d
  <2>3. p * d \in Nat  BY <2>2
  <2>4. ~(s < d)
    <3> SUFFICES ASSUME s < d PROVE FALSE
      OBVIOUS
    <3>1. d - s - 1 \in Nat  BY <1>3, <2>2
    <3>2. p * (d - s - 1) \in Nat  BY <3>1
    <3>3. p * (d - s - 1) = p * d - p * s - p  BY <1>3, <2>2
    <3> QED  BY <2>2, <2>3, <3>2, <3>3
  <2>5. ~(d < s)
    <3> SUFFICES ASSUME d < s PROVE FALSE
      OBVIOUS
    <3>1. s - d - 1 \in Nat  BY <1>3, <2>2
    <3>2. p * (s - d - 1) \in Nat  BY <3>1
    <3>3. p * (s - d - 1) = p * s - p * d - p  BY <1>3, <2>2
    <3> QED  BY <2>2, <2>3, <3>2, <3>3
  <2>6. d = s  BY <1>3, <2>2, <2>4, <2>5
  <2> QED  BY <2>2, <2>3, <2>6
<1> QED  BY <1>4, <1>7, <1>8, <1>9, <1>10

LEMMA SplitWidth ==
    ASSUME NEW p \in Nat \ {0}, NEW S, S \subseteq Nat \ {0}, NEW s \in Nat \ {0},
           \A i \in S : (i - 1) \div p + 1 = s
    PROVE  IsFiniteSet(S) /\ Cardinality(S) \in Nat /\ Cardinality(S) <= p
<1> DEFINE a == p * (s - 1) + 1
           b == p * s
<1>1. a \in Int /\ b \in Int /\ b - a + 1 = p  OBVIOUS
<1>2. \A i \in S : i \in a..b
  <2> SUFFICES ASSUME NEW i \in S PROVE i \in a..b
    OBVIOUS
  <2>1. p * (s - 1) < i /\ i <= p * s  BY SplitRange
  <2> QED  BY <1>1, <2>1
<1> HIDE DEF a, b
<1>30. IsFiniteSet(a..b) /\ Cardinality(a..b) = IF a > b THEN 0 ELSE b-a+1  BY <1>1, FS_Interval
<1>3. IsFiniteSet(a..b) /\ Cardinality(a..b) = p  BY <1>1, <1>30
<1>4. S \in SUBSET (a..b)  BY <1>2
<1>5. IsFiniteSet(S) /\ Cardinality(S) <= p  BY <1>3, <1>4, FS_Subset
<1> QED  BY <1>5, FS_CardinalityType

-----------------------------------------------------------------------------
(* The locate of an object.                                                *)

-----------------------------------------------------------------------------
(* Locating: the inductive invariant.                                      *)

Under(l) == l.pc \in {"read", "choose", "lock", "cleanup"}
Resting == {NoLocate, [pc |-> "aborted"]}

LocateRec ==
    [pc : {"read", "choose", "lock", "cleanup"}, obj : Layouts, focus : Hosts,
     dev : [Hosts -> [LocateMedia -> Nat]], at : Nat, seen : Seq(Hosts \cup {Nobody, Gone}),
     host : Hosts, got : Seq(Nat), taken : SUBSET Nat, stale : SUBSET LocateMedia]

\* A locate under way has read or locked the slots before its position.
Shape(l) ==
    /\ l \in LocateRec /\ l.at # 0
    /\ Len(l.seen) = Len(l.obj.slots) /\ Len(l.got) = Len(l.obj.slots) \div l.obj.per
    /\ \A s \in Splits(l) : l.got[s] <= l.obj.per
    /\ \A i \in SlotsIn(l) : l.seen[i] # Gone => Medium(l, i) \in LocateMedia
    /\ \A i \in l.taken : i \in SlotsIn(l) /\ l.seen[i] # Gone /\ (l.pc = "lock" => i < l.at)
    /\ l.pc \in {"read", "choose"} => l.taken = {}
    /\ l.pc = "read" => l.at \in SlotsIn(l)

\* Medium m is locked for host h.
For(m, h) == IsLocked(rows, m) /\ rows[m].host = h

\* What a locate relies on is locked, unless it was given back since.
Backed(l) ==
    \A i \in SlotsIn(l) : Medium(l, i) \notin l.stale =>
        /\ l.seen[i] \in Hosts => For(Medium(l, i), l.seen[i])
        /\ i \in l.taken => For(Medium(l, i), l.host)

Relied(l, s) == {i \in SlotsOf(l, s) : l.seen[i] = l.host \/ i \in l.taken}
Calm(l) == \A i \in SlotsIn(l) : l.seen[i] = l.host \/ i \in l.taken => Medium(l, i) \notin l.stale

\* The count of a split is right while nothing was given back, and is enough
\* once the split is passed.
Counted(l) == l.pc = "lock" /\ Calm(l) => \A s \in Splits(l) : l.got[s] <= Cardinality(Relied(l, s))
Filled(l) ==
    l.pc = "lock" => \A j \in SlotsIn(l) : j < l.at /\ j % l.obj.per = 0 =>
                        l.got[SplitOf(l, j)] >= l.obj.n

LocateFine(l) == l \in Resting \/ (Shape(l) /\ Backed(l) /\ Counted(l) /\ Filled(l))

PromiseRec ==
    [by : Clients, host : Hosts, obj : Layouts, mine : SUBSET LocateMedia, on : SUBSET LocateMedia,
     calm : BOOLEAN]
Covered(r, s) == {i \in DOMAIN r.obj.slots : (i - 1) \div r.obj.per + 1 = s /\ r.obj.slots[i] \in r.on}
PromiseFine(r) ==
    /\ r \in PromiseRec /\ r.mine \subseteq r.on
    /\ r.calm => \A m \in r.on : For(m, r.host)
    /\ r.calm => \A s \in 1..(Len(r.obj.slots) \div r.obj.per) : Cardinality(Covered(r, s)) >= r.obj.n

\* No two locates rely on one and the same weak lock as their own.
Claim(l) == IF Under(l) THEN {Medium(l, i) : i \in l.taken} \ l.stale ELSE {}
Exclusive ==
    /\ \A c, d \in Clients : c # d => Claim(loc[c]) \cap Claim(loc[d]) = {}
    /\ \A c \in Clients, r \in resv : r.calm => Claim(loc[c]) \cap r.mine = {}

\* A weak lock is known to the locate that took it, or was promised.
Weak(m) == IsLocked(rows, m) /\ rows[m].weak
Mine(c, m) ==
    /\ rows[m].owner = c /\ loc[c].pc \in {"lock", "cleanup"} /\ rows[m].host = loc[c].host
    /\ \E i \in loc[c].taken : Medium(loc[c], i) = m
Promised(m) == \E r \in resv : rows[m].owner = r.by /\ rows[m].host = r.host /\ m \in r.mine
WeakKnown == \A m \in LocateMedia : Weak(m) => (\E c \in Clients : Mine(c, m)) \/ Promised(m)

Strong == {Row(h, h, FALSE) : h \in Hosts}
Loose == [host : Hosts, owner : Clients, weak : {TRUE}]
LocateTypes ==
    /\ rows \in [LocateMedia -> Strong \cup Loose \cup {NoLock}]
    /\ can \in [Hosts -> [LocateMedia -> Nat]]
    /\ room \in [locate : Nat, lrs : Nat, away : Nat, objs : SUBSET Layouts]
    /\ loc = [c \in Clients |-> loc[c]]

LocateInv ==
    /\ LocateTypes /\ (\A c \in Clients : LocateFine(loc[c])) /\ (\A r \in resv : PromiseFine(r))
    /\ Exclusive /\ WeakKnown

-----------------------------------------------------------------------------
(* Locating: what the records hold.                                        *)

LEMMA LayoutIs ==
    ASSUME NEW o \in Layouts
    PROVE  /\ o.slots \in Seq(LocateMedia \cup {Empty}) /\ o.slots # <<>>
           /\ o.n \in Nat \ {0} /\ o.per \in Nat \ {0} /\ o.n <= o.per
           /\ Len(o.slots) \in Nat \ {0} /\ Len(o.slots) % o.per = 0
           /\ DOMAIN o.slots = 1..Len(o.slots)
           /\ Len(o.slots) \div o.per \in Nat
<1>1. /\ o.slots \in Seq(LocateMedia \cup {Empty}) /\ o.slots # <<>>
      /\ o.n \in Nat \ {0} /\ o.per \in Nat \ {0} /\ o.n <= o.per
      /\ Len(o.slots) % o.per = 0
  BY DEF Layouts
<1>2. Len(o.slots) \in Nat \ {0} /\ DOMAIN o.slots = 1..Len(o.slots)  BY <1>1
<1>3. Len(o.slots) \div o.per \in Nat  BY <1>1, <1>2, DivIs
<1> QED  BY <1>1, <1>2, <1>3

LEMMA ShapeIs ==
    ASSUME NEW l, Shape(l)
    PROVE  /\ l \in LocateRec /\ l.obj \in Layouts /\ l.pc \in {"read", "choose", "lock", "cleanup"}
           /\ l.host \in Hosts /\ l.focus \in Hosts /\ l.at \in Nat \ {0}
           /\ l.seen \in Seq(Hosts \cup {Nobody, Gone}) /\ l.got \in Seq(Nat)
           /\ l.taken \in SUBSET Nat /\ l.stale \in SUBSET LocateMedia
           /\ SlotsIn(l) = 1..Len(l.obj.slots) /\ DOMAIN l.seen = SlotsIn(l)
           /\ Splits(l) = DOMAIN l.got
           /\ l.dev \in [Hosts -> [LocateMedia -> Nat]]
<1>1. /\ l \in LocateRec /\ l.obj \in Layouts /\ l.pc \in {"read", "choose", "lock", "cleanup"}
      /\ l.host \in Hosts /\ l.focus \in Hosts /\ l.at \in Nat \ {0}
      /\ l.seen \in Seq(Hosts \cup {Nobody, Gone}) /\ l.got \in Seq(Nat)
      /\ l.taken \in SUBSET Nat /\ l.stale \in SUBSET LocateMedia
      /\ l.dev \in [Hosts -> [LocateMedia -> Nat]]
  BY DEF Shape, LocateRec
<1>2. SlotsIn(l) = 1..Len(l.obj.slots)  BY <1>1, LayoutIs DEF SlotsIn
<1>3. DOMAIN l.seen = SlotsIn(l)  BY <1>1, <1>2 DEF Shape
<1>4. Splits(l) = DOMAIN l.got  BY <1>1 DEF Shape, Splits
<1> QED  BY <1>1, <1>2, <1>3, <1>4

LEMMA SplitOfIs ==
    ASSUME NEW l, Shape(l), NEW i \in SlotsIn(l)
    PROVE  SplitOf(l, i) \in Splits(l)
<1>1. l.obj \in Layouts /\ SlotsIn(l) = 1..Len(l.obj.slots)  BY ShapeIs
<1>2. /\ Len(l.obj.slots) \in Nat /\ l.obj.per \in Nat \ {0} /\ Len(l.obj.slots) % l.obj.per = 0
  BY <1>1, LayoutIs
<1> QED  BY <1>1, <1>2, SplitIs DEF SplitOf, Splits

\* The media that a locate has seen or taken are media.
LEMMA MediumIs ==
    ASSUME NEW l, Shape(l), NEW i \in SlotsIn(l), l.seen[i] \in Hosts \/ i \in l.taken
    PROVE  Medium(l, i) \in LocateMedia /\ l.seen[i] # Gone
<1>1. l.seen[i] # Gone  BY LocateNames DEF Shape
<1> QED  BY <1>1 DEF Shape

LEMMA RestIs ==
    ASSUME NEW l \in Resting
    PROVE  ~Under(l) /\ Claim(l) = {} /\ l.pc \notin {"lock", "cleanup"}
BY DEF Resting, NoLocate, Under, Claim

LEMMA UnderFine ==
    ASSUME NEW l, LocateFine(l), Under(l) \/ l.pc \notin {"idle", "aborted"}
    PROVE  Shape(l) /\ Backed(l) /\ Counted(l) /\ Filled(l)
<1>1. l \notin Resting  BY RestIs DEF Resting, NoLocate, Under
<1> QED  BY <1>1 DEF LocateFine

\* The fields of a locate that is changed.
WithSeen(l, S, a, p) == [l EXCEPT !.seen = S, !.at = a, !.pc = p]
WithHost(l, S, h, g) == [l EXCEPT !.pc = "lock", !.host = h, !.focus = h, !.at = 1, !.seen = S, !.got = g]
WithAt(l, a, p) == [l EXCEPT !.at = a, !.pc = p]
WithTaken(l, T) == [l EXCEPT !.taken = T]
WithStale(l, m) == [l EXCEPT !.stale = @ \cup {m}]

LEMMA SeenField ==
    ASSUME NEW l \in LocateRec, NEW S \in Seq(Hosts \cup {Nobody, Gone}), NEW a \in Nat,
           NEW p \in {"read", "choose", "lock", "cleanup"}
    PROVE  LET q == WithSeen(l, S, a, p)
           IN  /\ q \in LocateRec /\ q.seen = S /\ q.at = a /\ q.pc = p
               /\ q.obj = l.obj /\ q.got = l.got /\ q.taken = l.taken /\ q.stale = l.stale /\ q.host = l.host
<1>1. [l EXCEPT !.seen = S, !.at = a, !.pc = p] \in LocateRec  BY Zenon DEF LocateRec
<1> QED  BY <1>1 DEF LocateRec, WithSeen

LEMMA ChosenField ==
    ASSUME NEW l \in LocateRec, NEW S \in Seq(Hosts \cup {Nobody, Gone}), NEW h \in Hosts, NEW g \in Seq(Nat)
    PROVE  LET q == WithHost(l, S, h, g)
           IN  /\ q \in LocateRec /\ q.seen = S /\ q.at = 1 /\ q.pc = "lock" /\ q.host = h /\ q.got = g
               /\ q.obj = l.obj /\ q.taken = l.taken /\ q.stale = l.stale
<1>1. [l EXCEPT !.pc = "lock", !.host = h, !.focus = h, !.at = 1, !.seen = S, !.got = g] \in LocateRec
  BY Zenon DEF LocateRec
<1> QED  BY <1>1 DEF LocateRec, WithHost

MovedTo(q, l, a, p) ==
    /\ q \in LocateRec /\ q.at = a /\ q.pc = p /\ q.seen = l.seen
    /\ q.obj = l.obj /\ q.got = l.got /\ q.taken = l.taken /\ q.stale = l.stale /\ q.host = l.host
LEMMA AtField ==
    ASSUME NEW l \in LocateRec, NEW a \in Nat, NEW p \in {"read", "choose", "lock", "cleanup"}
    PROVE  MovedTo(WithAt(l, a, p), l, a, p)
<1>1. [l EXCEPT !.at = a, !.pc = p] \in LocateRec  BY Zenon DEF LocateRec
<1> QED  BY <1>1 DEF LocateRec, WithAt, MovedTo

LEMMA TakenField ==
    ASSUME NEW l, Shape(l), NEW i \in SlotsIn(l)
    PROVE  LET q == Taken(l, i)
           IN  /\ q \in LocateRec /\ q.taken = l.taken \cup {i} /\ q.seen = l.seen /\ q.at = l.at
               /\ q.pc = l.pc /\ q.obj = l.obj /\ q.stale = l.stale /\ q.host = l.host
               /\ q.got = [l.got EXCEPT ![SplitOf(l, i)] = @ + 1] /\ q.got \in Seq(Nat)
<1>1. l \in LocateRec /\ l.got \in Seq(Nat) /\ i \in Nat /\ l.taken \in SUBSET Nat  BY ShapeIs
<1>2. SplitOf(l, i) \in DOMAIN l.got  BY SplitOfIs, ShapeIs
<1> DEFINE g == [l.got EXCEPT ![SplitOf(l, i)] = @ + 1]
           t == l.taken \cup {i}
<1>3. g \in Seq(Nat)  BY <1>1, <1>2
<1>4. t \in SUBSET Nat  BY <1>1
<1>5. Taken(l, i) = [l EXCEPT !.got = g, !.taken = t]  BY DEF Taken
<1> HIDE DEF g, t
<1>6. [l EXCEPT !.got = g, !.taken = t] \in LocateRec  BY <1>1, <1>3, <1>4, Zenon DEF LocateRec
<1>7. LET q == [l EXCEPT !.got = g, !.taken = t]
      IN  /\ q.taken = t /\ q.seen = l.seen /\ q.at = l.at /\ q.pc = l.pc /\ q.obj = l.obj
          /\ q.stale = l.stale /\ q.host = l.host /\ q.got = g
  BY <1>1 DEF LocateRec
<1> QED  BY <1>3, <1>5, <1>6, <1>7 DEF g, t

LEMMA LessField ==
    ASSUME NEW l \in LocateRec, NEW T \in SUBSET Nat
    PROVE  LET q == WithTaken(l, T)
           IN  /\ q \in LocateRec /\ q.taken = T /\ q.at = l.at /\ q.pc = l.pc /\ q.seen = l.seen
               /\ q.obj = l.obj /\ q.got = l.got /\ q.stale = l.stale /\ q.host = l.host
<1>1. [l EXCEPT !.taken = T] \in LocateRec  BY Zenon DEF LocateRec
<1> QED  BY <1>1 DEF LocateRec, WithTaken

LEMMA StaleField ==
    ASSUME NEW l \in LocateRec, NEW m \in LocateMedia
    PROVE  LET q == WithStale(l, m)
           IN  /\ q \in LocateRec /\ q.taken = l.taken /\ q.at = l.at /\ q.pc = l.pc /\ q.seen = l.seen
               /\ q.obj = l.obj /\ q.got = l.got /\ q.stale = l.stale \cup {m} /\ q.host = l.host
<1> DEFINE t == l.stale \cup {m}
<1>0. t \in SUBSET LocateMedia  BY DEF LocateRec
<1> HIDE DEF t
<1>1. [l EXCEPT !.stale = t] \in LocateRec  BY <1>0, Zenon DEF LocateRec
<1>2. LET q == [l EXCEPT !.stale = t]
      IN  /\ q.taken = l.taken /\ q.at = l.at /\ q.pc = l.pc /\ q.seen = l.seen
          /\ q.obj = l.obj /\ q.got = l.got /\ q.stale = t /\ q.host = l.host
  BY DEF LocateRec
<1> QED  BY <1>1, <1>2 DEF t, WithStale

-----------------------------------------------------------------------------
(* Locating: steps that give nothing back.                                 *)

\* A medium that is locked for a host stays locked for it.
Keeps == \A m \in LocateMedia : \A h \in Hosts : For(m, h) => For(m, h)'

LEMMA BackedKeeps ==
    ASSUME Keeps, NEW l, Shape(l), Backed(l)
    PROVE  Backed(l)'
<1> SUFFICES ASSUME NEW i \in SlotsIn(l), Medium(l, i) \notin l.stale
             PROVE  /\ l.seen[i] \in Hosts => For(Medium(l, i), l.seen[i])'
                    /\ i \in l.taken => For(Medium(l, i), l.host)'
  BY DEF Backed, SlotsIn, Medium
<1>1. l.host \in Hosts  BY ShapeIs
<1>2. ASSUME l.seen[i] \in Hosts  PROVE  For(Medium(l, i), l.seen[i])'
  BY <1>2, MediumIs DEF Backed, Keeps
<1>3. ASSUME i \in l.taken  PROVE  For(Medium(l, i), l.host)'
  BY <1>1, <1>3, MediumIs DEF Backed, Keeps
<1> QED  BY <1>2, <1>3

LEMMA FineKeeps ==
    ASSUME Keeps, NEW l, LocateFine(l)
    PROVE  LocateFine(l)'
<1>1. CASE l \in Resting  BY <1>1 DEF LocateFine, Resting, NoLocate
<1>2. CASE Shape(l) /\ Backed(l) /\ Counted(l) /\ Filled(l)
  <2>1. Backed(l)'  BY <1>2, BackedKeeps
  <2>2. Shape(l)' /\ Counted(l)' /\ Filled(l)'
    BY <1>2 DEF Shape, Counted, Filled, Calm, Relied, SlotsIn, SlotsOf, SplitOf, Splits, Medium
  <2> QED  BY <2>1, <2>2 DEF LocateFine
<1> QED  BY <1>1, <1>2 DEF LocateFine

LEMMA PromiseKeeps ==
    ASSUME Keeps, NEW r, PromiseFine(r)
    PROVE  PromiseFine(r)'
<1>1. r \in PromiseRec  BY DEF PromiseFine
<1>2. r.host \in Hosts /\ r.on \in SUBSET LocateMedia  BY <1>1 DEF PromiseRec
<1>3. r.calm => \A m \in r.on : For(m, r.host)'  BY <1>2 DEF PromiseFine, Keeps
<1> QED  BY <1>3 DEF PromiseFine, Covered

\* A step of client c that takes no lock and gives none back.
Moves(c, q) ==
    /\ loc' = [loc EXCEPT ![c] = q] /\ rows' = rows /\ resv' = resv
    /\ LocateFine(q) /\ Claim(q) \subseteq Claim(loc[c])
    /\ \A m \in LocateMedia : Weak(m) /\ Mine(c, m) =>
          q.pc \in {"lock", "cleanup"} /\ q.host = loc[c].host /\ \E i \in q.taken : Medium(q, i) = m

LEMMA MovesInv ==
    ASSUME LocateInv, NEW c \in Clients, NEW q, Moves(c, q), LocateTypes'
    PROVE  LocateInv'
<1> USE DEF LocateInv
<1>1. /\ rows' = rows /\ resv' = resv /\ loc'[c] = q
      /\ \A d \in Clients : d # c => loc'[d] = loc[d]
  BY DEF Moves, LocateTypes
<1>2. Keeps  BY <1>1 DEF Keeps, For
<1>3. (\A d \in Clients : LocateFine(loc[d]))'
  <2> SUFFICES ASSUME NEW d \in Clients, NEW l, l = loc'[d]  PROVE  LocateFine(l)'
    BY DEF LocateFine
  <2>1. LocateFine(l)  BY <1>1 DEF Moves
  <2> QED  BY <1>2, <2>1, FineKeeps
<1>4. (\A r \in resv : PromiseFine(r))'
  <2> SUFFICES ASSUME NEW r \in resv  PROVE  PromiseFine(r)'
    BY <1>1
  <2> QED  BY <1>2, PromiseKeeps
<1>5. \A d \in Clients : Claim(loc'[d]) \subseteq Claim(loc[d])  BY <1>1 DEF Moves
<1>6. Exclusive'
  <2>1. \A d, e \in Clients : d # e => Claim(loc'[d]) \cap Claim(loc'[e]) = {}
    BY <1>5 DEF Exclusive
  <2>2. \A d \in Clients, r \in resv : r.calm => Claim(loc'[d]) \cap r.mine = {}
    BY <1>5 DEF Exclusive
  <2>3. \A d \in Clients : Claim(loc[d])' = Claim(loc'[d])
    BY DEF Claim, Under, Medium
  <2> QED  BY <1>1, <2>1, <2>2, <2>3 DEF Exclusive
<1>7. WeakKnown'
  <2> SUFFICES ASSUME NEW m \in LocateMedia, Weak(m)'
               PROVE  (\E d \in Clients : Mine(d, m)') \/ Promised(m)'
    BY DEF WeakKnown
  <2>1. Weak(m)  BY <1>1 DEF Weak
  <2>2. ASSUME NEW d \in Clients, Mine(d, m)  PROVE  Mine(d, m)'
    <3>1. CASE d = c  BY <1>1, <2>1, <2>2, <3>1 DEF Moves, Mine, Medium
    <3>2. CASE d # c  BY <1>1, <2>2, <3>2 DEF Mine, Medium
    <3> QED  BY <3>1, <3>2
  <2>3. Promised(m) => Promised(m)'  BY <1>1 DEF Promised
  <2> QED  BY <2>1, <2>2, <2>3 DEF WeakKnown
<1> QED  BY <1>3, <1>4, <1>6, <1>7

LEMMA SpendIs ==
    ASSUME LocateTypes, NEW what \in {"locate", "lrs", "away"}, Spend(what)
    PROVE  room' \in [locate : Nat, lrs : Nat, away : Nat, objs : SUBSET Layouts]
<1> USE DEF LocateTypes, Spend
<1>1. CASE what = "locate"  BY <1>1
<1>2. CASE what = "lrs"  BY <1>2
<1>3. CASE what = "away"  BY <1>3
<1> QED  BY <1>1, <1>2, <1>3

LEMMA SetTypes ==
    ASSUME LocateTypes, NEW c \in Clients, NEW q, loc' = [loc EXCEPT ![c] = q],
           UNCHANGED <<rows, can, room>>
    PROVE  LocateTypes'
BY DEF LocateTypes

LEMMA BeginStep ==
    ASSUME LocateInv, NEW c \in Clients, NEW o \in room.objs, NEW focus \in Hosts, LocateBegin(c, o, focus)
    PROVE  LocateInv'
<1> USE DEF LocateInv
<1> DEFINE S == [i \in DOMAIN o.slots |-> Gone]
           g == [s \in 1..(Len(o.slots) \div o.per) |-> 0]
           q == [pc |-> "read", obj |-> o, focus |-> focus, dev |-> can, at |-> 1,
                 seen |-> S, host |-> focus, got |-> g, taken |-> {}, stale |-> {}]
<1>1. o \in Layouts  BY DEF LocateTypes
<1>2. /\ Len(o.slots) \in Nat \ {0} /\ DOMAIN o.slots = 1..Len(o.slots)
      /\ Len(o.slots) \div o.per \in Nat /\ o.per \in Nat
  BY <1>1, LayoutIs
<1>3. S \in Seq(Hosts \cup {Nobody, Gone}) /\ Len(S) = Len(o.slots) /\ \A i \in DOMAIN o.slots : S[i] = Gone
  BY <1>2
<1>4. g \in Seq(Nat) /\ Len(g) = Len(o.slots) \div o.per
      /\ \A s \in 1..(Len(o.slots) \div o.per) : g[s] = 0
  BY <1>2
<1>5. loc' = [loc EXCEPT ![c] = q] /\ rows' = rows /\ resv' = resv /\ can' = can
      /\ loc[c].pc = "idle" /\ Spend("locate")
  BY DEF LocateBegin, Set
<1> HIDE DEF S, g
<1>6. q \in LocateRec  BY <1>1, <1>3, <1>4 DEF LocateRec, LocateTypes
<1>7. /\ q.pc = "read" /\ q.obj = o /\ q.at = 1 /\ q.seen = S /\ q.host = focus /\ q.got = g
      /\ q.taken = {} /\ q.stale = {}
  OBVIOUS
<1> HIDE DEF q
<1>8. SlotsIn(q) = DOMAIN o.slots /\ Splits(q) = 1..(Len(o.slots) \div o.per)  BY <1>7 DEF SlotsIn, Splits
<1>9. Shape(q)  BY <1>2, <1>3, <1>4, <1>6, <1>7, <1>8 DEF Shape
<1>10. Backed(q)  BY <1>3, <1>7, <1>8, LocateNames DEF Backed
<1>11. LocateFine(q)  BY <1>7, <1>9, <1>10 DEF LocateFine, Counted, Filled
<1>12. Claim(q) = {}  BY <1>7 DEF Claim
<1>13. Moves(c, q)  BY <1>5, <1>11, <1>12 DEF Moves, Mine
<1>14. LocateTypes'  BY <1>5, SpendIs DEF LocateTypes
<1> QED  BY <1>13, <1>14, MovesInv

LEMMA EndOfLocate ==
    ASSUME LocateInv, NEW c \in Clients, NEW q \in Resting, loc' = [loc EXCEPT ![c] = q],
           rows' = rows, resv' = resv, UNCHANGED <<can, room>>,
           loc[c].pc \in {"lock", "cleanup"} => loc[c].taken = {}
    PROVE  LocateInv'
<1>1. LocateFine(q) /\ Claim(q) = {}  BY RestIs DEF LocateFine
<1>2. Moves(c, q)  BY <1>1 DEF Moves, Mine
<1>3. LocateTypes'  BY SetTypes DEF LocateInv
<1> QED  BY <1>2, <1>3, MovesInv

LEMMA RowHost ==
    ASSUME NEW w \in Strong \cup Loose
    PROVE  w.host \in Hosts
<1>1. CASE w \in Strong
  <2>1. PICK h \in Hosts : w = Row(h, h, FALSE)  BY <1>1 DEF Strong
  <2> QED  BY <2>1 DEF Row
<1>2. CASE w \in Loose  BY <1>2 DEF Loose
<1> QED  BY <1>1, <1>2

\* What dss_medium_locate finds is locked for the host it returns.
LEMMA LocatedIs ==
    ASSUME LocateTypes, NEW l, Shape(l), NEW i \in SlotsIn(l)
    PROVE  /\ Located(l, i) \in Hosts \cup {Nobody, Gone}
           /\ Located(l, i) # Gone => Medium(l, i) \in LocateMedia
           /\ Located(l, i) \in Hosts => For(Medium(l, i), Located(l, i))
<1> DEFINE m == Medium(l, i)
<1>1. m \in LocateMedia \cup {Empty}
  <2>1. l.obj.slots \in Seq(LocateMedia \cup {Empty})  BY ShapeIs, LayoutIs
  <2> QED  BY <2>1 DEF Medium, SlotsIn
<1>2. CASE m = Empty \/ m \in barred
  <2>1. Located(l, i) = Gone  BY <1>2 DEF Located
  <2> QED  BY <2>1, LocateNames
<1>3. CASE ~(m = Empty \/ m \in barred) /\ IsLocked(rows, m)
  <2>1. Located(l, i) = rows[m].host  BY <1>3 DEF Located
  <2>2. m \in LocateMedia /\ rows[m] \in Strong \cup Loose  BY <1>1, <1>3 DEF LocateTypes, IsLocked
  <2>3. rows[m].host \in Hosts  BY <2>2, RowHost
  <2> QED  BY <1>3, <2>1, <2>2, <2>3 DEF For
<1>4. CASE ~(m = Empty \/ m \in barred) /\ ~IsLocked(rows, m)
  <2>1. Located(l, i) = IF l.obj.dir THEN Gone ELSE Nobody  BY <1>4 DEF Located
  <2> QED  BY <1>1, <1>4, <2>1, LocateNames
<1> QED  BY <1>2, <1>3, <1>4

LEMMA ReadStep ==
    ASSUME LocateInv, NEW c \in Clients, ReadExtent(c)
    PROVE  LocateInv'
<1> USE DEF LocateInv
<1> DEFINE l == loc[c]
           i == l.at
           S == [l.seen EXCEPT ![i] = Located(l, i)]
           p == IF i = Len(l.obj.slots) THEN "choose" ELSE "read"
           a == i + 1
           q == WithSeen(l, S, a, p)
<1>1. l.pc = "read" /\ UNCHANGED <<rows, can, resv, room>>  BY DEF ReadExtent
<1>2. Shape(l) /\ Backed(l)  BY <1>1, UnderFine DEF Under
<1>3. /\ l \in LocateRec /\ l.obj \in Layouts /\ i \in SlotsIn(l) /\ l.taken = {}
      /\ SlotsIn(l) = 1..Len(l.obj.slots) /\ DOMAIN l.seen = SlotsIn(l)
      /\ l.seen \in Seq(Hosts \cup {Nobody, Gone}) /\ i \in Nat \ {0}
  BY <1>1, <1>2, ShapeIs DEF Shape
<1>4. CASE Set(c, NoLocate)
  <2>1. NoLocate \in Resting  BY DEF Resting
  <2> QED  BY <1>1, <1>4, <2>1, EndOfLocate DEF Set
<1>5. CASE Set(c, q)
  <2>1. /\ Located(l, i) \in Hosts \cup {Nobody, Gone}
        /\ Located(l, i) # Gone => Medium(l, i) \in LocateMedia
        /\ Located(l, i) \in Hosts => For(Medium(l, i), Located(l, i))
    BY <1>2, <1>3, LocatedIs
  <2>2. S \in Seq(Hosts \cup {Nobody, Gone}) /\ Len(S) = Len(l.seen)  BY <1>3, <2>1
  <2>3. \A j \in SlotsIn(l) : S[j] = IF j = i THEN Located(l, i) ELSE l.seen[j]  BY <1>3
  <2>4. p \in {"read", "choose"} /\ (p = "read" => i + 1 \in SlotsIn(l))  BY <1>3, LayoutIs
  <2>40. a \in Nat /\ p \in {"read", "choose", "lock", "cleanup"}  BY <1>3
  <2> HIDE DEF S, p, a
  <2>41. /\ q \in LocateRec /\ q.seen = S /\ q.at = a /\ q.pc = p
         /\ q.obj = l.obj /\ q.got = l.got /\ q.taken = l.taken /\ q.stale = l.stale /\ q.host = l.host
    <3>1. l \in LocateRec /\ S \in Seq(Hosts \cup {Nobody, Gone})  BY <1>3, <2>2
    <3> HIDE DEF l
    <3> QED  BY <2>40, <3>1, SeenField
  <2>5. /\ q \in LocateRec /\ q.seen = S /\ q.at = i + 1 /\ q.pc = p
        /\ q.obj = l.obj /\ q.got = l.got /\ q.taken = l.taken /\ q.stale = l.stale /\ q.host = l.host
    BY <2>41 DEF a
  <2>50. loc' = [loc EXCEPT ![c] = q]  BY <1>5 DEF Set
  <2> HIDE DEF q
  <2>6. SlotsIn(q) = SlotsIn(l) /\ Splits(q) = Splits(l) /\ \A j : Medium(q, j) = Medium(l, j)
    BY <2>5 DEF SlotsIn, Splits, Medium
  <2>7. Shape(q)
    <3>1. \A j \in SlotsIn(q) : q.seen[j] # Gone => Medium(q, j) \in LocateMedia
      BY <1>2, <2>1, <2>3, <2>5, <2>6 DEF Shape
    <3>2. i + 1 # 0  BY <1>3
    <3> QED  BY <1>2, <1>3, <2>2, <2>4, <2>5, <2>6, <3>1, <3>2 DEF Shape
  <2>8. Backed(q)
    <3> SUFFICES ASSUME NEW j \in SlotsIn(l), Medium(l, j) \notin l.stale, q.seen[j] \in Hosts
                 PROVE  For(Medium(l, j), q.seen[j])
      BY <1>3, <2>5, <2>6 DEF Backed
    <3>1. CASE j = i  BY <2>1, <2>3, <2>5, <3>1
    <3>2. CASE j # i  BY <1>2, <2>3, <2>5, <3>2 DEF Backed
    <3> QED  BY <3>1, <3>2
  <2>9. LocateFine(q)  BY <2>4, <2>5, <2>7, <2>8 DEF LocateFine, Counted, Filled
  <2>10. Claim(q) = {}  BY <1>3, <2>5 DEF Claim
  <2>11. Moves(c, q)  BY <1>1, <2>50, <2>9, <2>10 DEF Moves, Mine
  <2>12. LocateTypes'  BY <1>1, <2>50, SetTypes
  <2> QED  BY <2>11, <2>12, MovesInv
<1> QED  BY <1>4, <1>5 DEF ReadExtent, WithSeen

LEMMA ChooseStep ==
    ASSUME LocateInv, NEW c \in Clients, Choose(c)
    PROVE  LocateInv'
<1> USE DEF LocateInv
<1> DEFINE l == loc[c]
           S == [i \in SlotsIn(l) |-> IF i \in Kept(l) THEN l.seen[i] ELSE Gone]
           G(h) == [s \in Splits(l) |-> Owned(l, h, s)]
           Q(h) == [l EXCEPT !.pc = "lock", !.host = h, !.focus = h, !.at = 1, !.seen = S, !.got = G(h)]
<1>1. l.pc = "choose" /\ UNCHANGED <<rows, can, resv, room>>  BY DEF Choose
<1>2. Shape(l) /\ Backed(l)  BY <1>1, UnderFine DEF Under
<1>3. /\ l \in LocateRec /\ l.obj \in Layouts /\ l.taken = {} /\ l.focus \in Hosts
      /\ SlotsIn(l) = 1..Len(l.obj.slots) /\ DOMAIN l.seen = SlotsIn(l)
      /\ l.seen \in Seq(Hosts \cup {Nobody, Gone}) /\ Splits(l) = DOMAIN l.got /\ l.got \in Seq(Nat)
  BY <1>1, <1>2, ShapeIs DEF Shape
<1>4. CASE \E q \in Resting : Set(c, q)
  <2>1. PICK q \in Resting : Set(c, q)  BY <1>4
  <2> QED  BY <1>1, <2>1, EndOfLocate DEF Set
<1>5. CASE \E h \in BestHosts(l) : Set(c, Q(h))
  <2>1. PICK h \in BestHosts(l) : Set(c, Q(h))  BY <1>5
  <2>2. h \in Hosts  BY <1>3 DEF BestHosts, Known
  <2> DEFINE g == G(h)
             q == WithHost(l, S, h, g)
  <2>3. S \in Seq(Hosts \cup {Nobody, Gone}) /\ Len(S) = Len(l.obj.slots)  BY <1>3, LayoutIs
  <2>4. \A i \in SlotsIn(l) : S[i] = Gone \/ (S[i] = l.seen[i] /\ i \in Kept(l))  OBVIOUS
  <2>41. \A i \in Kept(l) : S[i] = l.seen[i]  BY DEF Kept
  <2>5. ASSUME NEW s \in Splits(l)
        PROVE  /\ Owned(l, h, s) \in Nat /\ Owned(l, h, s) <= l.obj.per
               /\ Owned(l, h, s) = Cardinality({i \in SlotsOf(l, s) : S[i] = h})
    <3> DEFINE O == {i \in SlotsOf(l, s) \cap Kept(l) : l.seen[i] = h}
    <3>1. O = {i \in SlotsOf(l, s) : S[i] = h}
      <4>1. h # Gone  BY <2>2, LocateNames
      <4>2. SlotsOf(l, s) \subseteq SlotsIn(l)  BY DEF SlotsOf
      <4> HIDE DEF S
      <4> QED  BY <2>4, <2>41, <4>1, <4>2
    <3>2. O \subseteq Nat \ {0} /\ \A i \in O : (i - 1) \div l.obj.per + 1 = s
      BY <1>3 DEF SlotsOf, SplitOf
    <3>3. s \in Nat \ {0} /\ l.obj.per \in Nat \ {0}  BY <1>3, LayoutIs
    <3>4. Cardinality(O) \in Nat /\ Cardinality(O) <= l.obj.per  BY <3>2, <3>3, SplitWidth
    <3> HIDE DEF S
    <3> QED  BY <3>1, <3>4 DEF Owned
  <2>60. DOMAIN l.got = 1..Len(l.got) /\ Len(l.got) \in Nat  BY <1>3
  <2>61. g \in [1..Len(l.got) -> Nat] /\ \A s \in Splits(l) : g[s] = Owned(l, h, s)
    BY <1>3, <2>5, <2>60
  <2>62. Set(c, q)  BY <2>1 DEF WithHost
  <2> HIDE DEF S, g
  <2>6. g \in Seq(Nat) /\ Len(g) = Len(l.got) /\ \A s \in Splits(l) : g[s] = Owned(l, h, s)
    BY <2>60, <2>61
  <2>7. /\ q \in LocateRec /\ q.seen = S /\ q.at = 1 /\ q.pc = "lock" /\ q.host = h /\ q.got = g
        /\ q.obj = l.obj /\ q.taken = l.taken /\ q.stale = l.stale
    <3>1. l \in LocateRec /\ S \in Seq(Hosts \cup {Nobody, Gone}) /\ g \in Seq(Nat)  BY <1>3, <2>3, <2>6
    <3> HIDE DEF l
    <3> QED  BY <2>2, <3>1, ChosenField
  <2>50. loc' = [loc EXCEPT ![c] = q]  BY <2>62 DEF Set
  <2> HIDE DEF q
  <2>8. SlotsIn(q) = SlotsIn(l) /\ Splits(q) = Splits(l) /\ (\A j : Medium(q, j) = Medium(l, j))
        /\ \A s : SlotsOf(q, s) = SlotsOf(l, s)
    BY <2>7 DEF SlotsIn, Splits, Medium, SlotsOf, SplitOf
  <2>9. Shape(q)
    <3>1. \A j \in SlotsIn(q) : q.seen[j] # Gone => Medium(q, j) \in LocateMedia
      BY <1>2, <2>4, <2>7, <2>8 DEF Shape
    <3>2. \A s \in Splits(q) : q.got[s] <= q.obj.per  BY <2>5, <2>6, <2>7, <2>8
    <3> QED  BY <1>2, <1>3, <2>3, <2>6, <2>7, <2>8, <3>1, <3>2 DEF Shape
  <2>10. Backed(q)
    <3> SUFFICES ASSUME NEW j \in SlotsIn(l), Medium(l, j) \notin l.stale, q.seen[j] \in Hosts
                 PROVE  For(Medium(l, j), q.seen[j])
      BY <1>3, <2>7, <2>8 DEF Backed
    <3>1. q.seen[j] = l.seen[j]  BY <2>4, <2>7, LocateNames
    <3> QED  BY <1>2, <3>1 DEF Backed
  <2>11. Counted(q)
    <3> SUFFICES ASSUME NEW s \in Splits(l)  PROVE  q.got[s] <= Cardinality(Relied(q, s))
      BY <2>8 DEF Counted
    <3>1. Relied(q, s) = {i \in SlotsOf(l, s) : S[i] = h}  BY <1>3, <2>7, <2>8 DEF Relied
    <3>2. q.got[s] = g[s]  BY <2>7
    <3> HIDE DEF LocateInv, S, g, l
    <3>3. Owned(l, h, s) \in Nat /\ Owned(l, h, s) = Cardinality(Relied(q, s))  BY <2>5, <3>1
    <3> QED  BY <2>6, <3>2, <3>3
  <2>12. Filled(q)
    <3>1. \A j \in SlotsIn(q) : ~(j < q.at)  BY <1>3, <2>7, <2>8
    <3> QED  BY <3>1 DEF Filled
  <2>13. LocateFine(q)  BY <2>9, <2>10, <2>11, <2>12 DEF LocateFine
  <2>14. Claim(q) = {}  BY <1>3, <2>7 DEF Claim
  <2>15. Moves(c, q)  BY <1>1, <2>50, <2>13, <2>14 DEF Moves, Mine
  <2>16. LocateTypes'  BY <1>1, <2>50, SetTypes
  <2> QED  BY <2>15, <2>16, MovesInv
<1>6. NoLocate \in Resting /\ [pc |-> "aborted"] \in Resting  BY DEF Resting
<1> QED  BY <1>4, <1>5, <1>6 DEF Choose

-----------------------------------------------------------------------------
(* Locating: a lock is taken.                                              *)

\* The rows that a step changes were free.
Takes(c, m, q) ==
    /\ loc' = [loc EXCEPT ![c] = q] /\ resv' = resv
    /\ ~IsLocked(rows, m) /\ rows' = Reserve(c, loc[c].host, m)
    /\ LocateFine(q)' /\ Claim(q) \subseteq Claim(loc[c]) \cup {m}
    /\ q.pc \in {"lock", "cleanup"} /\ q.host = loc[c].host /\ loc[c].taken \subseteq q.taken
    /\ q.obj = loc[c].obj /\ \E i \in q.taken : Medium(q, i) = m

LEMMA ReserveIs ==
    ASSUME LocateTypes, NEW c \in Clients, NEW h \in Hosts, NEW m \in LocateMedia, ~IsLocked(rows, m),
           rows' = Reserve(c, h, m)
    PROVE  /\ rows' \in [LocateMedia -> Strong \cup Loose \cup {NoLock}]
           /\ rows'[m] = Row(h, c, TRUE) /\ (\A k \in LocateMedia \ {m} : rows'[k] = rows[k])
           /\ For(m, h)' /\ Keeps
<1>1. Row(h, c, TRUE) \in Loose  BY DEF Loose, Row
<1>2. rows' = [rows EXCEPT ![m] = Row(h, c, TRUE)]  BY DEF Reserve, BasicLock
<1>3. rows'[m] = Row(h, c, TRUE) /\ \A k \in LocateMedia \ {m} : rows'[k] = rows[k]
  BY <1>2 DEF LocateTypes
<1>4. rows' \in [LocateMedia -> Strong \cup Loose \cup {NoLock}]  BY <1>1, <1>2 DEF LocateTypes
<1>5. Row(h, c, TRUE) \in [host : Hosts, owner : Hosts \cup Clients, weak : BOOLEAN]
      /\ Row(h, c, TRUE).host = h
  BY DEF Row
<1>6. Row(h, c, TRUE) # NoLock  BY <1>5, LocateNames
<1>7. For(m, h)'  BY <1>3, <1>5, <1>6 DEF For, IsLocked
<1>8. Keeps  BY <1>3 DEF Keeps, For, IsLocked
<1> QED  BY <1>3, <1>4, <1>7, <1>8

\* What a locate or a promise claims is locked.
LEMMA ClaimLocked ==
    ASSUME NEW l, LocateFine(l), NEW m \in Claim(l)
    PROVE  IsLocked(rows, m) /\ m \in LocateMedia
<1>1. Under(l) /\ \E i \in l.taken : Medium(l, i) = m /\ m \notin l.stale  BY DEF Claim
<1>2. Shape(l) /\ Backed(l)  BY <1>1, UnderFine
<1>3. PICK i \in l.taken : Medium(l, i) = m /\ m \notin l.stale  BY <1>1
<1>4. i \in SlotsIn(l)  BY <1>2 DEF Shape
<1> QED  BY <1>2, <1>3, <1>4, MediumIs DEF Backed, For

LEMMA MineLocked ==
    ASSUME NEW r, PromiseFine(r), r.calm, NEW m \in r.mine
    PROVE  IsLocked(rows, m)
BY DEF PromiseFine, For

LEMMA TakesInv ==
    ASSUME LocateInv, NEW c \in Clients, NEW m \in LocateMedia, NEW q, Takes(c, m, q), loc[c].host \in Hosts,
           UNCHANGED <<can, room>>
    PROVE  LocateInv'
<1> USE DEF LocateInv
<1>1. /\ resv' = resv /\ loc'[c] = q
      /\ \A d \in Clients : d # c => loc'[d] = loc[d]
  BY DEF Takes, LocateTypes
<1>2. /\ rows' \in [LocateMedia -> Strong \cup Loose \cup {NoLock}] /\ Keeps
      /\ rows'[m] = Row(loc[c].host, c, TRUE) /\ \A k \in LocateMedia \ {m} : rows'[k] = rows[k]
  BY ReserveIs DEF Takes
<1>20. LocateTypes'  BY <1>2 DEF LocateTypes, Takes
<1>3. (\A d \in Clients : LocateFine(loc[d]))'
  <2> SUFFICES ASSUME NEW d \in Clients, NEW l, l = loc'[d]  PROVE  LocateFine(l)'
    BY DEF LocateFine
  <2>1. CASE d = c  BY <1>1, <2>1 DEF Takes
  <2>2. CASE d # c
    <3>1. LocateFine(l)  BY <1>1, <2>2
    <3> QED  BY <1>2, <3>1, FineKeeps
  <2> QED  BY <2>1, <2>2
<1>4. (\A r \in resv : PromiseFine(r))'
  <2> SUFFICES ASSUME NEW r \in resv  PROVE  PromiseFine(r)'
    BY <1>1
  <2> QED  BY <1>2, PromiseKeeps
<1>5. /\ \A d \in Clients \ {c} : Claim(loc'[d]) = Claim(loc[d]) /\ m \notin Claim(loc[d])
      /\ \A r \in resv : r.calm => m \notin r.mine
      /\ Claim(loc'[c]) \subseteq Claim(loc[c]) \cup {m}
  BY <1>1, ClaimLocked, MineLocked DEF Takes
<1>6. Exclusive'
  <2>1. \A d, e \in Clients : d # e => Claim(loc'[d]) \cap Claim(loc'[e]) = {}
    BY <1>5 DEF Exclusive
  <2>2. \A d \in Clients, r \in resv : r.calm => Claim(loc'[d]) \cap r.mine = {}
    BY <1>5 DEF Exclusive
  <2>3. \A d \in Clients : Claim(loc[d])' = Claim(loc'[d])
    BY DEF Claim, Under, Medium
  <2> QED  BY <1>1, <2>1, <2>2, <2>3 DEF Exclusive
<1>7. WeakKnown'
  <2> SUFFICES ASSUME NEW k \in LocateMedia, Weak(k)'
               PROVE  (\E d \in Clients : Mine(d, k)') \/ Promised(k)'
    BY DEF WeakKnown
  <2>1. CASE k = m
    <3>1. Mine(c, m)'  BY <1>1, <1>2 DEF Takes, Mine, Medium, Row
    <3> QED  BY <2>1, <3>1
  <2>2. CASE k # m
    <3>1. rows'[k] = rows[k] /\ Weak(k)  BY <1>2, <2>2 DEF Weak, IsLocked
    <3>2. ASSUME NEW d \in Clients, Mine(d, k)  PROVE  Mine(d, k)'
      <4>1. CASE d = c  BY <1>1, <3>1, <3>2, <4>1 DEF Takes, Mine, Medium
      <4>2. CASE d # c  BY <1>1, <3>1, <3>2, <4>2 DEF Mine, Medium
      <4> QED  BY <4>1, <4>2
    <3>3. Promised(k) => Promised(k)'  BY <1>1, <3>1 DEF Promised
    <3> QED  BY <3>1, <3>2, <3>3 DEF WeakKnown
  <2> QED  BY <2>1, <2>2
<1> QED  BY <1>3, <1>4, <1>6, <1>7, <1>20

\* The locate after a slot, taken or left.
Passed(l, i, q, took) ==
    /\ q \in LocateRec /\ q.seen = l.seen /\ q.obj = l.obj /\ q.stale = l.stale /\ q.host = l.host
    /\ q.at = i + 1 /\ q.pc \in {"lock", "cleanup"}
    /\ q.taken = IF took THEN l.taken \cup {i} ELSE l.taken
    /\ Len(q.got) = Len(l.got)
    /\ \A s \in Splits(l) : q.got[s] = IF took /\ s = SplitOf(l, i) THEN l.got[s] + 1 ELSE l.got[s]
    /\ q.pc = "lock" /\ i % l.obj.per = 0 => q.got[SplitOf(l, i)] >= l.obj.n

LEMMA PassedSlots ==
    ASSUME NEW l, NEW i, NEW q, NEW took, Passed(l, i, q, took)
    PROVE  /\ SlotsIn(q) = SlotsIn(l) /\ Splits(q) = Splits(l) /\ (\A j : Medium(q, j) = Medium(l, j))
           /\ (\A s : SlotsOf(q, s) = SlotsOf(l, s)) /\ \A j : SplitOf(q, j) = SplitOf(l, j)
BY DEF Passed, SlotsIn, Splits, Medium, SlotsOf, SplitOf

LEMMA PassedShape ==
    ASSUME NEW l, Shape(l), l.pc = "lock", NEW i \in SlotsIn(l), i = l.at, NEW q, NEW took \in BOOLEAN,
           Passed(l, i, q, took), took => l.seen[i] # Gone /\ l.got[SplitOf(l, i)] < l.obj.n
    PROVE  Shape(q)
<1>1. /\ l.obj \in Layouts /\ i \in Nat \ {0} /\ l.got \in Seq(Nat) /\ Splits(l) = DOMAIN l.got
      /\ l.taken \in SUBSET Nat
  BY ShapeIs
<1>2. l.obj.n \in Nat /\ l.obj.per \in Nat /\ l.obj.n <= l.obj.per  BY <1>1, LayoutIs
<1>3. /\ SlotsIn(q) = SlotsIn(l) /\ Splits(q) = Splits(l) /\ \A j : Medium(q, j) = Medium(l, j)
  BY PassedSlots
<1>4. \A s \in Splits(q) : q.got[s] <= q.obj.per
  <2> SUFFICES ASSUME NEW s \in Splits(l)  PROVE  q.got[s] <= l.obj.per
    BY <1>3 DEF Passed
  <2>1. l.got[s] \in Nat /\ l.got[s] <= l.obj.per  BY <1>1 DEF Shape
  <2>2. CASE took /\ s = SplitOf(l, i)  BY <1>2, <2>1, <2>2 DEF Passed
  <2>3. CASE ~(took /\ s = SplitOf(l, i))  BY <2>1, <2>3 DEF Passed
  <2> QED  BY <2>2, <2>3
<1>5. \A j \in q.taken : j \in SlotsIn(q) /\ q.seen[j] # Gone /\ (q.pc = "lock" => j < q.at)
  <2> SUFFICES ASSUME NEW j \in q.taken  PROVE  j \in SlotsIn(l) /\ l.seen[j] # Gone /\ j < i + 1
    BY <1>3 DEF Passed
  <2>1. CASE j \in l.taken
    <3>1. j \in Nat /\ j < i  BY <1>1, <2>1 DEF Shape
    <3>2. j \in SlotsIn(l) /\ l.seen[j] # Gone  BY <2>1 DEF Shape
    <3> QED  BY <1>1, <3>1, <3>2
  <2>2. CASE took /\ j = i  BY <1>1, <2>2
  <2> QED  BY <2>1, <2>2 DEF Passed
<1>6. q.at # 0  BY <1>1 DEF Passed
<1> QED  BY <1>3, <1>4, <1>5, <1>6 DEF Shape, Passed

LEMMA PassedFilled ==
    ASSUME NEW l, Shape(l), l.pc = "lock", Filled(l), NEW i \in SlotsIn(l), i = l.at, NEW q,
           NEW took \in BOOLEAN, Passed(l, i, q, took)
    PROVE  Filled(q)
<1>1. /\ l.obj \in Layouts /\ i \in Nat \ {0} /\ l.got \in Seq(Nat) /\ Splits(l) = DOMAIN l.got
      /\ SlotsIn(l) = 1..Len(l.obj.slots)
  BY ShapeIs
<1>2. l.obj.n \in Nat  BY <1>1, LayoutIs
<1>3. SlotsIn(q) = SlotsIn(l) /\ \A j : SplitOf(q, j) = SplitOf(l, j)  BY PassedSlots
<1> SUFFICES ASSUME q.pc = "lock", NEW j \in SlotsIn(l), j < i + 1, j % l.obj.per = 0
             PROVE  q.got[SplitOf(l, j)] >= l.obj.n
  BY <1>3 DEF Filled, Passed
<1>4. CASE j = i  BY <1>4 DEF Passed
<1>5. CASE j # i
  <2>1. j < i  BY <1>1, <1>5
  <2>2. l.got[SplitOf(l, j)] >= l.obj.n  BY <2>1 DEF Filled
  <2>3. SplitOf(l, j) \in Splits(l)  BY SplitOfIs
  <2>4. l.got[SplitOf(l, j)] \in Nat  BY <1>1, <2>3
  <2>5. q.got[SplitOf(l, j)] \in {l.got[SplitOf(l, j)], l.got[SplitOf(l, j)] + 1}  BY <2>3 DEF Passed
  <2> QED  BY <1>2, <2>2, <2>4, <2>5
<1> QED  BY <1>4, <1>5

LEMMA ReliedFinite ==
    ASSUME NEW l, Shape(l), NEW s
    PROVE  IsFiniteSet(Relied(l, s)) /\ Cardinality(Relied(l, s)) \in Nat
<1>1. l.obj \in Layouts /\ SlotsIn(l) = 1..Len(l.obj.slots)  BY ShapeIs
<1>2. Len(l.obj.slots) \in Nat  BY <1>1, LayoutIs
<1>3. IsFiniteSet(SlotsIn(l))  BY <1>1, <1>2, FS_Interval
<1>4. Relied(l, s) \in SUBSET SlotsIn(l)  BY DEF Relied, SlotsOf
<1>5. IsFiniteSet(Relied(l, s))  BY <1>3, <1>4, FS_Subset
<1> QED  BY <1>5, FS_CardinalityType

LEMMA PassedCounted ==
    ASSUME NEW l, Shape(l), l.pc = "lock", Counted(l), Backed(l), NEW i \in SlotsIn(l), i = l.at, NEW q,
           NEW took \in BOOLEAN, Passed(l, i, q, took), took => ~IsLocked(rows, Medium(l, i))
    PROVE  Counted(q)
<1>1. /\ i \in Nat \ {0} /\ l.got \in Seq(Nat) /\ Splits(l) = DOMAIN l.got /\ l.host \in Hosts
  BY ShapeIs
<1>2. /\ SlotsIn(q) = SlotsIn(l) /\ Splits(q) = Splits(l) /\ (\A j : Medium(q, j) = Medium(l, j))
      /\ \A s : SlotsOf(q, s) = SlotsOf(l, s)
  BY PassedSlots
<1> SUFFICES ASSUME Calm(q), NEW s \in Splits(l)  PROVE  q.got[s] <= Cardinality(Relied(q, s))
  BY <1>2 DEF Counted
<1>3. Calm(l)  BY <1>2 DEF Calm, Passed
<1>4. l.got[s] <= Cardinality(Relied(l, s)) /\ l.got[s] \in Nat  BY <1>1, <1>3 DEF Counted
<1>5. IsFiniteSet(Relied(l, s)) /\ Cardinality(Relied(l, s)) \in Nat  BY ReliedFinite
<1>6. CASE took /\ s = SplitOf(l, i)
  <2>1. q.got[s] = l.got[s] + 1 /\ q.taken = l.taken \cup {i}  BY <1>6 DEF Passed
  <2>2. Medium(l, i) \notin l.stale  BY <1>2, <2>1 DEF Calm, Passed
  <2>3. l.seen[i] # l.host  BY <1>1, <1>6, <2>2 DEF Backed, For
  <2>4. i \notin l.taken  BY <1>1 DEF Shape
  <2>5. i \notin Relied(l, s)  BY <2>3, <2>4 DEF Relied
  <2>6. i \in SlotsOf(l, s)  BY <1>6 DEF SlotsOf
  <2>7. Relied(q, s) = Relied(l, s) \cup {i}  BY <1>2, <2>1, <2>6 DEF Relied, Passed
  <2>8. Cardinality(Relied(l, s) \cup {i}) = Cardinality(Relied(l, s)) + 1  BY <1>5, <2>5, FS_AddElement
  <2> QED  BY <1>4, <1>5, <2>1, <2>7, <2>8
<1>7. CASE ~(took /\ s = SplitOf(l, i))
  <2>1. q.got[s] = l.got[s]  BY <1>7 DEF Passed
  <2>2. Relied(q, s) = Relied(l, s)
    <3>1. \A j \in SlotsOf(l, s) : j \in q.taken <=> j \in l.taken  BY <1>7 DEF Passed, SlotsOf
    <3> QED  BY <1>2, <3>1 DEF Relied, Passed
  <2> QED  BY <1>4, <2>1, <2>2
<1> QED  BY <1>6, <1>7

LEMMA SlotTaken ==
    ASSUME LocateInv, NEW c \in Clients, NEW l, l = loc[c], NEW i \in SlotsIn(l), Shape(l), Backed(l),
           NEW q, Passed(l, i, q, TRUE), Shape(q), Filled(q), Counted(q),
           NEW m \in LocateMedia, m = Medium(l, i), ~IsLocked(rows, m), rows' = Reserve(c, l.host, m),
           loc' = [loc EXCEPT ![c] = q], UNCHANGED <<can, resv, room>>
    PROVE  LocateInv'
<1>1. l.host \in Hosts /\ LocateTypes  BY ShapeIs DEF LocateInv
<1>2. For(m, l.host)' /\ Keeps
  <2>1. PICK h \in Hosts : h = l.host  BY <1>1
  <2>2. For(m, h)' /\ Keeps  BY <1>1, <2>1, ReserveIs
  <2> QED  BY <2>1, <2>2
<1>3. Backed(l)'  BY <1>2, BackedKeeps
<1>4. /\ SlotsIn(q) = SlotsIn(l) /\ \A j : Medium(q, j) = Medium(l, j)
  BY PassedSlots
<1>5. /\ q.seen = l.seen /\ q.obj = l.obj /\ q.stale = l.stale /\ q.host = l.host
      /\ q.pc \in {"lock", "cleanup"} /\ q.taken = l.taken \cup {i}
  BY DEF Passed
<1>6. Backed(q)'
  <2> SUFFICES ASSUME NEW j \in SlotsIn(l), Medium(l, j) \notin l.stale
               PROVE  /\ l.seen[j] \in Hosts => For(Medium(l, j), l.seen[j])'
                      /\ j \in l.taken \cup {i} => For(Medium(l, j), l.host)'
    BY <1>4, <1>5 DEF Backed
  <2>1. CASE j = i  BY <1>2, <1>3, <2>1 DEF Backed
  <2>2. CASE j # i  BY <1>3, <2>2 DEF Backed
  <2> QED  BY <2>1, <2>2
<1>7. LocateFine(q)'
  <2>1. Shape(q)' /\ Counted(q)' /\ Filled(q)'
    BY DEF Shape, Counted, Filled, Calm, Relied, SlotsIn, SlotsOf, SplitOf, Splits, Medium
  <2> QED  BY <1>6, <2>1 DEF LocateFine
<1>8. Claim(q) \subseteq Claim(l) \cup {m}
  <2>1. Under(l)  BY ShapeIs DEF Under
  <2> QED  BY <1>4, <1>5, <2>1 DEF Claim
<1>9. Takes(c, m, q)  BY <1>4, <1>5, <1>7, <1>8 DEF Takes
<1> QED  BY <1>1, <1>9, TakesInv

LEMMA SlotLeft ==
    ASSUME LocateInv, NEW c \in Clients, NEW l, l = loc[c], NEW i \in SlotsIn(l), Shape(l), Backed(l),
           NEW q, Passed(l, i, q, FALSE), Shape(q), Filled(q), Counted(q), rows' = rows,
           loc' = [loc EXCEPT ![c] = q], UNCHANGED <<can, resv, room>>
    PROVE  LocateInv'
<1>4. /\ SlotsIn(q) = SlotsIn(l) /\ \A j : Medium(q, j) = Medium(l, j)
  BY PassedSlots
<1>5. /\ q.seen = l.seen /\ q.obj = l.obj /\ q.stale = l.stale /\ q.host = l.host
      /\ q.pc \in {"lock", "cleanup"} /\ q.taken = l.taken
  BY DEF Passed
<1>6. Backed(q)  BY <1>4, <1>5 DEF Backed
<1>7. LocateFine(q)  BY <1>6 DEF LocateFine
<1>8. Claim(q) = Claim(l)
  <2>1. Under(l) /\ Under(q)  BY ShapeIs DEF Under
  <2> QED  BY <1>4, <1>5, <2>1 DEF Claim
<1>9. Moves(c, q)  BY <1>4, <1>5, <1>7, <1>8 DEF Moves, Mine
<1>10. LocateTypes'  BY SetTypes DEF LocateInv
<1> QED  BY <1>9, <1>10, MovesInv

LEMMA LockStep ==
    ASSUME LocateInv, NEW c \in Clients, LockExtent(c)
    PROVE  LocateInv'
<1> USE DEF LocateInv
<1> DEFINE l == loc[c]
           i == l.at
           s == SplitOf(l, i)
           m == Medium(l, i)
           try == Lacking(l, s) /\ l.seen[i] # Gone /\ Compatible(l, l.host, i) > 0
           took == try /\ BasicLockApplies(rows, m)
           x == IF took THEN Taken(l, i) ELSE l
           p == IF i % l.obj.per = 0 /\ Lacking(x, s) THEN "cleanup" ELSE "lock"
           a == i + 1
           q == WithAt(x, a, p)
<1>1. /\ l.pc = "lock" /\ i \in SlotsIn(l) /\ UNCHANGED <<can, resv, room>>
      /\ rows' = IF took THEN Reserve(c, l.host, m) ELSE rows
      /\ loc' = [loc EXCEPT ![c] = q]
  BY DEF LockExtent, Set, WithAt
<1>2. Shape(l) /\ Backed(l) /\ Counted(l) /\ Filled(l)  BY <1>1, UnderFine DEF Under
<1>3. /\ l \in LocateRec /\ l.obj \in Layouts /\ l.host \in Hosts /\ i \in Nat \ {0}
      /\ l.got \in Seq(Nat) /\ Splits(l) = DOMAIN l.got /\ s \in Splits(l) /\ l.taken \in SUBSET Nat
  BY <1>1, <1>2, ShapeIs, SplitOfIs
<1>4. l.obj.n \in Nat /\ l.obj.per \in Nat \ {0}  BY <1>3, LayoutIs
<1>5. took => /\ l.seen[i] # Gone /\ l.got[s] < l.obj.n /\ ~IsLocked(rows, m)
  BY DEF Lacking, BasicLockApplies
<1>6. m \in LocateMedia \/ ~took  BY <1>1, <1>2, <1>5 DEF Shape
<1>7. took \in BOOLEAN /\ a \in Nat /\ p \in {"lock", "cleanup"}  BY <1>3
<1>8. /\ x \in LocateRec /\ x.seen = l.seen /\ x.obj = l.obj /\ x.stale = l.stale /\ x.host = l.host
      /\ x.taken = IF took THEN l.taken \cup {i} ELSE l.taken
      /\ x.got = IF took THEN [l.got EXCEPT ![s] = @ + 1] ELSE l.got
      /\ x.got \in Seq(Nat)
  <2>1. CASE took
    <3>1. x = Taken(l, i)  BY <2>1
    <3> HIDE DEF l, i, took, x
    <3> QED  BY <1>1, <1>2, <2>1, <3>1, TakenField DEF s
  <2>2. CASE ~took
    <3>1. x = l  BY <2>2
    <3> HIDE DEF l, i, took, x
    <3> QED  BY <1>3, <2>2, <3>1
  <2> QED  BY <2>1, <2>2
<1>9. p = "lock" /\ i % l.obj.per = 0 => x.got[s] >= l.obj.n
  <2>1. p = "lock" /\ i % l.obj.per = 0 => ~Lacking(x, s)  OBVIOUS
  <2>2. x.got[s] \in Nat /\ x.obj.n = l.obj.n
    <3>1. DOMAIN x.got = DOMAIN l.got  BY <1>8
    <3> HIDE DEF x
    <3> QED  BY <1>3, <1>8, <3>1
  <2> HIDE DEF x, l, p, s, i
  <2> QED  BY <1>4, <2>1, <2>2 DEF Lacking
<1>10. /\ q \in LocateRec /\ q.at = a /\ q.pc = p /\ q.seen = x.seen
       /\ q.obj = x.obj /\ q.got = x.got /\ q.taken = x.taken /\ q.stale = x.stale /\ q.host = x.host
  <2>1. p \in {"read", "choose", "lock", "cleanup"} /\ a \in Nat  BY <1>7
  <2>2. x \in LocateRec  BY <1>8
  <2> HIDE DEF x, a, p, l, LocateInv
  <2>3. MovedTo(q, x, a, p)  BY <2>1, <2>2, AtField
  <2> HIDE DEF q
  <2> QED  BY <2>3 DEF MovedTo
<1>11. Passed(l, i, q, took)
  <2> HIDE DEF q, x, p, took, l, s
  <2>1. Len(x.got) = Len(l.got) /\ \A t \in Splits(l) : x.got[t] = IF took /\ t = s THEN l.got[t] + 1 ELSE l.got[t]
    BY <1>3, <1>8
  <2> QED  BY <1>7, <1>8, <1>9, <1>10, <2>1 DEF Passed, a, s
<1> HIDE DEF q, x, p, a
<1>12. Shape(q)
  <2> HIDE DEF took
  <2> QED  BY <1>1, <1>2, <1>5, <1>7, <1>11, PassedShape
<1>13. Filled(q)
  <2> HIDE DEF took
  <2> QED  BY <1>1, <1>2, <1>7, <1>11, PassedFilled
<1>14. Counted(q)
  <2> HIDE DEF took
  <2> QED  BY <1>1, <1>2, <1>5, <1>7, <1>11, PassedCounted
<1> HIDE DEF took, try
<1>15. CASE took
  <2>1. Passed(l, i, q, TRUE)  BY <1>7, <1>11, <1>15
  <2>2. m \in LocateMedia /\ ~IsLocked(rows, m) /\ rows' = Reserve(c, l.host, m)  BY <1>1, <1>5, <1>6, <1>15
  <2>3. PICK l0, i0, m0 : l0 = l /\ i0 = i /\ m0 = m  OBVIOUS
  <2> HIDE DEF l, i, m
  <2> QED  BY <1>1, <1>2, <1>12, <1>13, <1>14, <2>1, <2>2, <2>3, SlotTaken DEF l, m
<1>16. CASE ~took
  <2>1. Passed(l, i, q, FALSE)  BY <1>7, <1>11, <1>16
  <2>2. rows' = rows  BY <1>1, <1>16
  <2> QED  BY <1>1, <1>2, <1>12, <1>13, <1>14, <2>1, <2>2, SlotLeft
<1> QED  BY <1>15, <1>16

-----------------------------------------------------------------------------
(* Locating: the promise of a locate that returns.                         *)

MineOf(l) == {Medium(l, i) : i \in l.taken}
OnOf(l) == MineOf(l) \cup {Medium(l, i) : i \in {j \in SlotsIn(l) : l.seen[j] = l.host}}
PromiseOf(c, l) ==
    [by |-> c, host |-> l.host, obj |-> l.obj, mine |-> MineOf(l), on |-> OnOf(l),
     calm |-> OnOf(l) \cap l.stale = {}]

LEMMA ReturnsFine ==
    ASSUME NEW c \in Clients, NEW l, Shape(l), Backed(l), Counted(l), Filled(l), l.pc = "lock",
           l.at \notin SlotsIn(l)
    PROVE  PromiseFine(PromiseOf(c, l))
<1> DEFINE mine == MineOf(l)
           on == OnOf(l)
           calm == on \cap l.stale = {}
           r == PromiseOf(c, l)
<1>1. /\ l.obj \in Layouts /\ l.host \in Hosts /\ SlotsIn(l) = 1..Len(l.obj.slots) /\ l.at \in Nat \ {0}
      /\ l.got \in Seq(Nat) /\ Splits(l) = DOMAIN l.got /\ l.taken \in SUBSET Nat
  BY ShapeIs
<1>2. Len(l.obj.slots) \in Nat /\ l.obj.per \in Nat \ {0} /\ l.obj.n \in Nat  BY <1>1, LayoutIs
<1>3. \A i \in l.taken : i \in SlotsIn(l) /\ Medium(l, i) \in LocateMedia  BY MediumIs DEF Shape
<1>4. \A i \in SlotsIn(l) : l.seen[i] = l.host => Medium(l, i) \in LocateMedia  BY <1>1, MediumIs
<1>5. mine \in SUBSET LocateMedia /\ on \in SUBSET LocateMedia /\ mine \subseteq on  BY <1>3, <1>4 DEF MineOf, OnOf
<1>6. \A m \in on : \E i \in SlotsIn(l) : Medium(l, i) = m /\ (l.seen[i] = l.host \/ i \in l.taken)
  BY <1>3 DEF MineOf, OnOf
<1>7. calm \in BOOLEAN  OBVIOUS
<1>8. r \in PromiseRec  BY <1>1, <1>5, <1>7 DEF PromiseRec, PromiseOf
<1>9. /\ r.host = l.host /\ r.obj = l.obj /\ r.mine = mine /\ r.on = on /\ r.calm = calm  BY DEF PromiseOf
<1> HIDE DEF calm
<1> HIDE DEF r
<1>10. ASSUME calm, NEW m \in on  PROVE  For(m, l.host)
  <2>1. PICK i \in SlotsIn(l) : Medium(l, i) = m /\ (l.seen[i] = l.host \/ i \in l.taken)  BY <1>6
  <2>2. m \notin l.stale  BY <1>10 DEF calm
  <2> QED  BY <1>1, <2>1, <2>2 DEF Backed
<1>11. ASSUME calm, NEW s \in 1..(Len(l.obj.slots) \div l.obj.per)
       PROVE  Cardinality(Covered(r, s)) >= l.obj.n
  <2>1. Calm(l)
    <3>1. \A i \in SlotsIn(l) : l.seen[i] = l.host \/ i \in l.taken => Medium(l, i) \in on
      BY DEF MineOf, OnOf
    <3> QED  BY <1>11, <3>1 DEF Calm, calm
  <2>2. s \in Splits(l)  BY DEF Splits
  <2>3. l.got[s] <= Cardinality(Relied(l, s)) /\ l.got[s] \in Nat  BY <1>1, <2>1, <2>2 DEF Counted
  <2>4. PICK j \in 1..Len(l.obj.slots) : j % l.obj.per = 0 /\ (j - 1) \div l.obj.per + 1 = s
    BY <1>2, SplitLast
  <2>5. j \in SlotsIn(l) /\ j < l.at  BY <1>1, <1>2
  <2>6. l.got[s] >= l.obj.n  BY <2>4, <2>5 DEF Filled, SplitOf
  <2>7. Relied(l, s) \in SUBSET Covered(r, s)
    BY <1>9 DEF Relied, Covered, SlotsOf, SplitOf, SlotsIn, Medium, MineOf, OnOf
  <2>8. IsFiniteSet(Covered(r, s))
    <3>0. 1 \in Int /\ Len(l.obj.slots) \in Int  BY <1>2
    <3>1. IsFiniteSet(1..Len(l.obj.slots))  BY <3>0, FS_Interval
    <3>2. Covered(r, s) \in SUBSET (1..Len(l.obj.slots))  BY <1>1, <1>9 DEF Covered, SlotsIn
    <3> QED  BY <3>1, <3>2, FS_Subset
  <2>9. Cardinality(Relied(l, s)) <= Cardinality(Covered(r, s))  BY <2>7, <2>8, FS_Subset
  <2>10. Cardinality(Covered(r, s)) \in Nat /\ Cardinality(Relied(l, s)) \in Nat
    BY <2>8, FS_CardinalityType, ReliedFinite
  <2> QED  BY <1>2, <2>3, <2>6, <2>9, <2>10
<1>12. PromiseFine(r)  BY <1>5, <1>8, <1>9, <1>10, <1>11 DEF PromiseFine
<1> QED  BY <1>12 DEF r

LEMMA ReturnStep ==
    ASSUME LocateInv, NEW c \in Clients, LocateReturns(c)
    PROVE  LocateInv'
<1> USE DEF LocateInv
<1>0. PICK l : l = loc[c]  OBVIOUS
<1>1. PICK r : r = PromiseOf(c, l)  OBVIOUS
<1>2. /\ l.pc = "lock" /\ l.at \notin SlotsIn(l) /\ loc' = [loc EXCEPT ![c] = NoLocate]
      /\ resv' = resv \cup {r} /\ UNCHANGED <<rows, can, barred, room>>
  BY <1>0, <1>1 DEF LocateReturns, Set, PromiseOf, MineOf, OnOf
<1>3. Shape(l) /\ Backed(l) /\ Counted(l) /\ Filled(l)  BY <1>0, <1>2, UnderFine DEF Under
<1>4. PromiseFine(r)  BY <1>1, <1>2, <1>3, ReturnsFine
<1>5. r.by = c /\ r.host = l.host /\ r.mine = MineOf(l) /\ (r.calm => MineOf(l) \cap l.stale = {})
  BY <1>1 DEF PromiseOf, OnOf
<1>6. r.calm => r.mine \subseteq Claim(l)  BY <1>2, <1>5 DEF Claim, Under, MineOf
<1>7. loc'[c] = NoLocate /\ \A d \in Clients : d # c => loc'[d] = loc[d]  BY <1>2 DEF LocateTypes
<1>8. Keeps  BY <1>2 DEF Keeps, For
<1>9. LocateTypes'  BY <1>2, SetTypes
<1>10. NoLocate \in Resting  BY DEF Resting
<1>11. (\A d \in Clients : LocateFine(loc[d]))'
  <2> SUFFICES ASSUME NEW d \in Clients, NEW k, k = loc'[d]  PROVE  LocateFine(k)'
    BY DEF LocateFine
  <2>1. LocateFine(k)  BY <1>7, <1>10 DEF LocateFine
  <2> QED  BY <1>8, <2>1, FineKeeps
<1>12. (\A k \in resv : PromiseFine(k))'
  <2> SUFFICES ASSUME NEW k \in resv'  PROVE  PromiseFine(k)'
    OBVIOUS
  <2>1. PromiseFine(k)  BY <1>2, <1>4
  <2> QED  BY <1>8, <2>1, PromiseKeeps
<1>13. Claim(loc'[c]) = {} /\ \A d \in Clients : d # c => Claim(loc'[d]) = Claim(loc[d])
  BY <1>7, <1>10, RestIs
<1>14. Exclusive'
  <2>1. \A d, e \in Clients : d # e => Claim(loc'[d]) \cap Claim(loc'[e]) = {}
    BY <1>13 DEF Exclusive
  <2>2. ASSUME NEW d \in Clients, NEW k \in resv', k.calm  PROVE  Claim(loc'[d]) \cap k.mine = {}
    <3>1. CASE d = c  BY <1>13, <3>1
    <3>2. CASE d # c /\ k \in resv  BY <1>13, <2>2, <3>2 DEF Exclusive
    <3>3. CASE d # c /\ k = r
      <4>1. Claim(loc[d]) \cap Claim(l) = {}  BY <1>0, <3>3 DEF Exclusive
      <4> QED  BY <1>6, <1>13, <2>2, <3>3, <4>1
    <3> QED  BY <1>2, <3>1, <3>2, <3>3
  <2>3. \A d \in Clients : Claim(loc[d])' = Claim(loc'[d])
    BY DEF Claim, Under, Medium
  <2> QED  BY <2>1, <2>2, <2>3 DEF Exclusive
<1>15. WeakKnown'
  <2> SUFFICES ASSUME NEW m \in LocateMedia, Weak(m)'
               PROVE  (\E d \in Clients : Mine(d, m)') \/ Promised(m)'
    BY DEF WeakKnown
  <2>1. Weak(m)  BY <1>2 DEF Weak
  <2>2. ASSUME NEW d \in Clients, Mine(d, m)  PROVE  Mine(d, m)' \/ Promised(m)'
    <3>1. CASE d = c
      <4>1. m \in MineOf(l) /\ rows[m].owner = c /\ rows[m].host = l.host  BY <1>0, <2>2, <3>1 DEF Mine, MineOf
      <4> QED  BY <1>2, <1>5, <4>1 DEF Promised
    <3>2. CASE d # c  BY <1>2, <1>7, <2>2, <3>2 DEF Mine, Medium
    <3> QED  BY <3>1, <3>2
  <2>3. Promised(m) => Promised(m)'  BY <1>2 DEF Promised
  <2> QED  BY <2>1, <2>2, <2>3 DEF WeakKnown
<1> QED  BY <1>9, <1>11, <1>12, <1>14, <1>15

LEMMA FailsStep ==
    ASSUME LocateInv, NEW c \in Clients, LocateFails(c)
    PROVE  LocateInv'
<1>1. NoLocate \in Resting  BY DEF Resting
<1> QED  BY <1>1, EndOfLocate DEF LocateFails, Set

-----------------------------------------------------------------------------
(* Locating: a medium is given back.                                       *)

Relies(l, m) ==
    Under(l) /\ \E i \in SlotsIn(l) : Medium(l, i) = m /\ (l.seen[i] \in Hosts \/ i \in l.taken)
Mark(l, m) == IF Relies(l, m) THEN WithStale(l, m) ELSE l

LEMMA MarkFine ==
    ASSUME LocateTypes, NEW m \in LocateMedia, rows' = Unlock(rows, m), NEW l, LocateFine(l)
    PROVE  /\ LocateFine(Mark(l, m))' /\ Claim(Mark(l, m)) \subseteq Claim(l) \ {m}
           /\ Mark(l, m).pc = l.pc
           /\ Under(l) => LET q == Mark(l, m) IN q.taken = l.taken /\ q.host = l.host /\ q.obj = l.obj
<1>1. \A k \in LocateMedia \ {m} : \A h : For(k, h) => For(k, h)'
  BY DEF For, Unlock, LocateTypes, IsLocked
<1>2. CASE l \in Resting
  <2>1. ~Relies(l, m) /\ ~Under(l)  BY <1>2, RestIs DEF Relies
  <2>2. Mark(l, m) = l /\ Claim(l) = {}  BY <1>2, <2>1, RestIs DEF Mark
  <2>3. LocateFine(l)'  BY <1>2 DEF LocateFine, Resting, NoLocate
  <2> QED  BY <2>1, <2>2, <2>3
<1>3. CASE l \notin Resting
  <2>1. Shape(l) /\ Backed(l) /\ Counted(l) /\ Filled(l)  BY <1>3 DEF LocateFine
  <2>2. Under(l) /\ l \in LocateRec /\ l.host \in Hosts /\ l.stale \in SUBSET LocateMedia
    BY <2>1, ShapeIs DEF Under
  <2>3. PICK q : q = Mark(l, m)  OBVIOUS
  <2>4. /\ q \in LocateRec /\ q.taken = l.taken /\ q.at = l.at /\ q.pc = l.pc /\ q.seen = l.seen
        /\ q.obj = l.obj /\ q.got = l.got /\ q.host = l.host
        /\ q.stale = IF Relies(l, m) THEN l.stale \cup {m} ELSE l.stale
    <3>1. CASE Relies(l, m)
      <4>1. q = WithStale(l, m)  BY <2>3, <3>1 DEF Mark
      <4> QED  BY <2>2, <3>1, <4>1, StaleField
    <3>2. CASE ~Relies(l, m)  BY <2>2, <2>3, <3>2 DEF Mark
    <3> QED  BY <3>1, <3>2
  <2>5. /\ SlotsIn(q) = SlotsIn(l) /\ Splits(q) = Splits(l) /\ (\A j : Medium(q, j) = Medium(l, j))
        /\ (\A s : SlotsOf(q, s) = SlotsOf(l, s)) /\ (\A j : SplitOf(q, j) = SplitOf(l, j))
        /\ \A s : Relied(q, s) = Relied(l, s)
    BY <2>4 DEF SlotsIn, Splits, Medium, SlotsOf, SplitOf, Relied
  <2>6. Shape(q)  BY <2>1, <2>4, <2>5 DEF Shape
  <2>7. Calm(q) => Calm(l)  BY <2>4, <2>5 DEF Calm
  <2>8. Counted(q) /\ Filled(q)  BY <2>1, <2>4, <2>5, <2>7 DEF Counted, Filled
  <2>9. Backed(q)'
    <3> SUFFICES ASSUME NEW i \in SlotsIn(l), Medium(l, i) \notin q.stale
                 PROVE  /\ l.seen[i] \in Hosts => For(Medium(l, i), l.seen[i])'
                        /\ i \in l.taken => For(Medium(l, i), l.host)'
      BY <2>4, <2>5 DEF Backed
    <3>1. Medium(l, i) \notin l.stale  BY <2>4
    <3>2. l.seen[i] \in Hosts \/ i \in l.taken => Medium(l, i) \in LocateMedia \ {m}
      BY <2>1, <2>2, <2>4, MediumIs DEF Relies
    <3> QED  BY <1>1, <2>1, <3>1, <3>2 DEF Backed
  <2>10. LocateFine(q)'
    <3>1. Shape(q)' /\ Counted(q)' /\ Filled(q)'
      BY <2>6, <2>8 DEF Shape, Counted, Filled, Calm, Relied, SlotsIn, SlotsOf, SplitOf, Splits, Medium
    <3> QED  BY <2>9, <3>1 DEF LocateFine
  <2>11. Claim(q) \subseteq Claim(l) \ {m}
    <3> SUFFICES ASSUME NEW k \in Claim(q)  PROVE  k \in Claim(l) /\ k # m
      OBVIOUS
    <3>1. PICK i \in q.taken : Medium(q, i) = k /\ k \notin q.stale  BY DEF Claim
    <3>2. i \in l.taken /\ Medium(l, i) = k /\ k \notin l.stale /\ i \in SlotsIn(l)
      BY <2>1, <2>4, <2>5, <3>1 DEF Shape
    <3>3. k # m  BY <2>2, <2>4, <3>1, <3>2 DEF Relies
    <3> QED  BY <2>2, <3>2, <3>3 DEF Claim
  <2> QED  BY <2>3, <2>4, <2>10, <2>11
<1> QED  BY <1>2, <1>3

WithCalm(r, b) == [r EXCEPT !.calm = b]
Ended(r, S, m) == WithCalm(r, r.calm /\ ~(r \in S /\ m \in r.on))

LEMMA EndedIs ==
    ASSUME NEW r \in PromiseRec, NEW S, NEW m
    PROVE  LET e == Ended(r, S, m)
           IN  /\ e \in PromiseRec /\ e.by = r.by /\ e.host = r.host /\ e.obj = r.obj
               /\ e.mine = r.mine /\ e.on = r.on /\ (e.calm <=> r.calm /\ ~(r \in S /\ m \in r.on))
<1> DEFINE b == r.calm /\ ~(r \in S /\ m \in r.on)
<1>1. b \in BOOLEAN  OBVIOUS
<1> HIDE DEF b
<1>2. WithCalm(r, b) \in PromiseRec  BY <1>1, Zenon DEF PromiseRec, WithCalm
<1>3. LET e == WithCalm(r, b)
      IN  /\ e.by = r.by /\ e.host = r.host /\ e.obj = r.obj
          /\ e.mine = r.mine /\ e.on = r.on /\ (e.calm <=> b)
  BY DEF PromiseRec, WithCalm
<1> QED  BY <1>2, <1>3 DEF Ended, b

LEMMA OverIs ==
    ASSUME NEW S, NEW m
    PROVE  Over(S, m) = {Ended(r, S, m) : r \in resv}
BY DEF Over, Ended, WithCalm

\* Medium m is unlocked, the locates that rely on it are marked, and no promise
\* that rests on it stays calm.  L is what the locates are without the mark.
GivesBack(m, L, S) ==
    /\ rows' = Unlock(rows, m) /\ resv' = Over(S, m)
    /\ loc' = [d \in Clients |-> Mark(L[d], m)]
    /\ \A r \in resv : r.calm /\ m \in r.on => r \in S
    /\ \A d \in Clients :
          /\ LocateFine(L[d]) /\ Claim(L[d]) \subseteq Claim(loc[d]) /\ L[d].pc = loc[d].pc
          /\ loc[d].pc \in {"lock", "cleanup"} =>
                /\ Under(L[d]) /\ L[d].host = loc[d].host /\ L[d].obj = loc[d].obj
                /\ \A i \in loc[d].taken : Medium(loc[d], i) # m => i \in L[d].taken

LEMMA GivesBackInv ==
    ASSUME LocateInv, NEW m \in LocateMedia, NEW L, NEW S, GivesBack(m, L, S), UNCHANGED <<can, room>>
    PROVE  LocateInv'
<1> USE DEF LocateInv
<1>1. /\ rows' \in [LocateMedia -> Strong \cup Loose \cup {NoLock}] /\ rows'[m] = NoLock
      /\ \A k \in LocateMedia \ {m} : rows'[k] = rows[k]
  BY DEF GivesBack, Unlock, LocateTypes
<1>2. rows' = Unlock(rows, m) /\ \A d \in Clients : loc'[d] = Mark(L[d], m)  BY DEF GivesBack
<1>3. LocateTypes'
  <2>1. loc' = [d \in Clients |-> loc'[d]]  BY DEF GivesBack
  <2> QED  BY <1>1, <2>1 DEF LocateTypes
<1>4. (\A d \in Clients : LocateFine(loc[d]))'
  <2> SUFFICES ASSUME NEW d \in Clients, NEW k, k = loc'[d]  PROVE  LocateFine(k)'
    BY DEF LocateFine
  <2>1. PICK l : l = L[d]  OBVIOUS
  <2>2. LocateFine(l)  BY <2>1 DEF GivesBack
  <2>3. LocateFine(Mark(l, m))'  BY <1>2, <2>2, MarkFine
  <2> QED  BY <1>2, <2>1, <2>3
<1>5. \A d \in Clients : /\ Claim(loc'[d]) \subseteq Claim(loc[d])
                         /\ loc'[d].pc = loc[d].pc
  <2> SUFFICES ASSUME NEW d \in Clients
               PROVE  Claim(loc'[d]) \subseteq Claim(loc[d]) /\ loc'[d].pc = loc[d].pc
    OBVIOUS
  <2>1. PICK l : l = L[d]  OBVIOUS
  <2>2. LocateFine(l) /\ Claim(l) \subseteq Claim(loc[d]) /\ l.pc = loc[d].pc  BY <2>1 DEF GivesBack
  <2>3. Claim(Mark(l, m)) \subseteq Claim(l) \ {m} /\ Mark(l, m).pc = l.pc  BY <1>2, <2>2, MarkFine
  <2> QED  BY <1>2, <2>1, <2>2, <2>3
<1>6. ASSUME NEW e \in resv'
      PROVE  \E r \in resv : /\ e \in PromiseRec /\ e.by = r.by /\ e.host = r.host /\ e.obj = r.obj
                             /\ e.mine = r.mine /\ e.on = r.on /\ (e.calm => r.calm /\ m \notin r.on)
  <2>1. PICK r \in resv : e = Ended(r, S, m)  BY OverIs DEF GivesBack
  <2>2. r \in PromiseRec  BY DEF PromiseFine
  <2>3. /\ e \in PromiseRec /\ e.by = r.by /\ e.host = r.host /\ e.obj = r.obj
        /\ e.mine = r.mine /\ e.on = r.on /\ (e.calm <=> r.calm /\ ~(r \in S /\ m \in r.on))
    BY <2>1, <2>2, EndedIs
  <2>4. e.calm => r.calm /\ m \notin r.on  BY <2>3 DEF GivesBack
  <2> QED  BY <2>3, <2>4
<1>7. (\A r \in resv : PromiseFine(r))'
  <2> SUFFICES ASSUME NEW e \in resv'  PROVE  PromiseFine(e)'
    OBVIOUS
  <2>1. PICK r \in resv : /\ e \in PromiseRec /\ e.host = r.host /\ e.obj = r.obj
                          /\ e.mine = r.mine /\ e.on = r.on /\ (e.calm => r.calm /\ m \notin r.on)
    BY <1>6
  <2>2. PromiseFine(r) /\ r.on \in SUBSET LocateMedia  BY DEF PromiseFine, PromiseRec
  <2>3. ASSUME e.calm, NEW k \in e.on  PROVE  For(k, e.host)'
    <3>1. k \in LocateMedia \ {m} /\ For(k, r.host)  BY <2>1, <2>2, <2>3 DEF PromiseFine
    <3>2. rows'[k] = rows[k]  BY <1>1, <3>1
    <3> QED  BY <2>1, <3>1, <3>2 DEF For, IsLocked
  <2>4. \A s : Covered(e, s) = Covered(r, s)  BY <2>1 DEF Covered
  <2>5. e.calm => \A s \in 1..(Len(e.obj.slots) \div e.obj.per) : Cardinality(Covered(e, s)) >= e.obj.n
    BY <2>1, <2>2, <2>4 DEF PromiseFine
  <2>6. e.mine \subseteq e.on  BY <2>1, <2>2 DEF PromiseFine
  <2> QED  BY <2>1, <2>3, <2>5, <2>6 DEF PromiseFine, Covered
<1>8. Exclusive'
  <2>1. \A d, e \in Clients : d # e => Claim(loc'[d]) \cap Claim(loc'[e]) = {}
    BY <1>5 DEF Exclusive
  <2>2. ASSUME NEW d \in Clients, NEW e \in resv', e.calm  PROVE  Claim(loc'[d]) \cap e.mine = {}
    <3>1. PICK r \in resv : e.mine = r.mine /\ r.calm  BY <1>6, <2>2
    <3> QED  BY <1>5, <3>1 DEF Exclusive
  <2>3. \A d \in Clients : Claim(loc[d])' = Claim(loc'[d])
    BY DEF Claim, Under, Medium
  <2> QED  BY <2>1, <2>2, <2>3 DEF Exclusive
<1>9. WeakKnown'
  <2> SUFFICES ASSUME NEW k \in LocateMedia, Weak(k)'
               PROVE  (\E d \in Clients : Mine(d, k)') \/ Promised(k)'
    BY DEF WeakKnown
  <2>1. k # m  BY <1>1 DEF Weak, IsLocked
  <2>2. rows'[k] = rows[k] /\ Weak(k)  BY <1>1, <2>1 DEF Weak, IsLocked
  <2>3. ASSUME NEW d \in Clients, Mine(d, k)  PROVE  Mine(d, k)'
    <3>1. PICK l : l = L[d]  OBVIOUS
    <3>2. LocateFine(l) /\ loc[d].pc \in {"lock", "cleanup"} /\ Under(l) /\ l.host = loc[d].host
          /\ l.obj = loc[d].obj /\ l.pc = loc[d].pc
          /\ \A i \in loc[d].taken : Medium(loc[d], i) # m => i \in l.taken
      BY <2>3, <3>1 DEF GivesBack, Mine
    <3>3. PICK q : q = Mark(l, m)  OBVIOUS
    <3>4. q.pc = l.pc /\ q.taken = l.taken /\ q.host = l.host /\ q.obj = l.obj
      BY <1>2, <3>2, <3>3, MarkFine
    <3>5. loc'[d] = q  BY <1>2, <3>1, <3>3
    <3>6. PICK i \in loc[d].taken : Medium(loc[d], i) = k  BY <2>3 DEF Mine
    <3>7. i \in q.taken /\ Medium(q, i) = k  BY <2>1, <3>2, <3>4, <3>6 DEF Medium
    <3>8. q.pc \in {"lock", "cleanup"} /\ q.host = rows[k].host /\ rows[k].owner = d
      BY <2>3, <3>2, <3>4 DEF Mine
    <3> QED  BY <2>2, <3>5, <3>7, <3>8 DEF Mine, Medium
  <2>4. ASSUME Promised(k)  PROVE  Promised(k)'
    <3>1. PICK r \in resv : rows[k].owner = r.by /\ rows[k].host = r.host /\ k \in r.mine  BY <2>4 DEF Promised
    <3>2. Ended(r, S, m) \in resv'  BY OverIs DEF GivesBack
    <3>3. r \in PromiseRec  BY DEF PromiseFine
    <3>4. PICK e : e = Ended(r, S, m)  OBVIOUS
    <3>5. e.by = r.by /\ e.host = r.host /\ e.mine = r.mine  BY <3>3, <3>4, EndedIs
    <3> QED  BY <2>2, <3>1, <3>2, <3>4, <3>5 DEF Promised
  <2> QED  BY <2>2, <2>3, <2>4 DEF WeakKnown
<1> QED  BY <1>3, <1>4, <1>7, <1>8, <1>9

LEMMA MistakenIs ==
    ASSUME NEW L, NEW m
    PROVE  Mistaken(L, m) = [d \in Clients |-> Mark(L[d], m)]
BY DEF Mistaken, Mark, Relies, Under, WithStale

LEMMA MinIn ==
    ASSUME NEW T \in SUBSET Nat, T # {}
    PROVE  Min(T) \in T
<1>1. \E k \in T : \A j \in T : k <= j
  <2> DEFINE R == {ss \in Nat \X Nat : ss[1] < ss[2]}
  <2>1. R = OpToRel(<, Nat)  BY DEF OpToRel
  <2>2. IsWellFoundedOn(R, Nat)  BY <2>1, NatLessThanWellFounded
  <2> HIDE DEF R
  <2>3. PICK i \in T : \A j \in T : ~(<<j, i>> \in R)  BY <2>2, WFMin
  <2>4. \A j \in T : ~(j < i)  BY <2>3 DEF R
  <2> QED  BY <2>4
<1> QED  BY <1>1 DEF Min

LEMMA DropStep ==
    ASSUME LocateInv, NEW c \in Clients, Drop(c)
    PROVE  LocateInv'
<1> USE DEF LocateInv
<1>0. PICK l, i, m : l = loc[c] /\ i = Min(l.taken) /\ m = Medium(l, i)  OBVIOUS
<1>1. PICK x, L : x = WithTaken(l, l.taken \ {i}) /\ L = [loc EXCEPT ![c] = x]  OBVIOUS
<1>2. /\ l.pc = "cleanup" /\ l.taken # {} /\ UNCHANGED <<can, barred, room>>
      /\ \/ /\ UnlockApplies(rows, m, l.host, c) /\ rows' = Unlock(rows, m)
            /\ resv' = Over({r \in resv : m \notin r.mine \/ m \in l.stale}, m)
            /\ loc' = Mistaken(L, m)
         \/ ~UnlockApplies(rows, m, l.host, c) /\ loc' = L /\ UNCHANGED <<rows, resv>>
  <2>1. L = [loc EXCEPT ![c].taken = @ \ {Min(@)}]  BY <1>0, <1>1 DEF WithTaken
  <2> QED  BY <1>0, <2>1 DEF Drop
<1>3. Shape(l) /\ Backed(l)  BY <1>0, <1>2, UnderFine DEF Under
<1>4. l \in LocateRec /\ l.taken \in SUBSET Nat /\ Under(l)  BY <1>2, <1>3, ShapeIs DEF Under
<1>5. i \in l.taken  BY <1>0, <1>2, <1>4, MinIn
<1>6. i \in SlotsIn(l) /\ m \in LocateMedia  BY <1>0, <1>3, <1>5, MediumIs DEF Shape
<1>7. /\ x \in LocateRec /\ x.taken = l.taken \ {i} /\ x.at = l.at /\ x.pc = l.pc /\ x.seen = l.seen
      /\ x.obj = l.obj /\ x.got = l.got /\ x.stale = l.stale /\ x.host = l.host
  <2>1. PICK T \in SUBSET Nat : T = l.taken \ {i}  BY <1>4
  <2> QED  BY <1>1, <1>4, <2>1, LessField
<1>8. /\ SlotsIn(x) = SlotsIn(l) /\ Splits(x) = Splits(l) /\ \A j : Medium(x, j) = Medium(l, j)
  BY <1>7 DEF SlotsIn, Splits, Medium
<1>9. Shape(x) /\ Backed(x)  BY <1>2, <1>3, <1>7, <1>8 DEF Shape, Backed
<1>10. LocateFine(x)  BY <1>2, <1>7, <1>9 DEF LocateFine, Counted, Filled
<1>11. Under(x) /\ Claim(x) \subseteq Claim(l)  BY <1>4, <1>7, <1>8 DEF Claim, Under
<1>12. L[c] = x /\ \A d \in Clients : d # c => L[d] = loc[d]  BY <1>1 DEF LocateTypes
<1>13. \A j \in l.taken : Medium(l, j) # m => j \in x.taken  BY <1>0, <1>7
<1>14. CASE UnlockApplies(rows, m, l.host, c)
  <2>1. PICK S : S = {r \in resv : m \notin r.mine \/ m \in l.stale}  OBVIOUS
  <2>2. rows' = Unlock(rows, m) /\ resv' = Over(S, m) /\ loc' = [d \in Clients |-> Mark(L[d], m)]
    BY <1>2, <1>14, <2>1, MistakenIs
  <2>3. \A r \in resv : r.calm /\ m \in r.on => r \in S
    <3> SUFFICES ASSUME NEW r \in resv, r.calm, m \in r.mine, m \notin l.stale  PROVE  FALSE
      BY <2>1
    <3>1. m \in Claim(l)  BY <1>0, <1>4, <1>5 DEF Claim
    <3> QED  BY <1>0, <3>1 DEF Exclusive
  <2>4. ASSUME NEW d \in Clients
        PROVE  /\ LocateFine(L[d]) /\ Claim(L[d]) \subseteq Claim(loc[d]) /\ L[d].pc = loc[d].pc
               /\ loc[d].pc \in {"lock", "cleanup"} =>
                     /\ Under(L[d]) /\ L[d].host = loc[d].host /\ L[d].obj = loc[d].obj
                     /\ \A j \in loc[d].taken : Medium(loc[d], j) # m => j \in L[d].taken
    <3>1. CASE d = c  BY <1>0, <1>7, <1>10, <1>11, <1>12, <1>13, <3>1
    <3>2. CASE d # c  BY <1>12, <3>2 DEF Under
    <3> QED  BY <3>1, <3>2
  <2>5. GivesBack(m, L, S)  BY <2>2, <2>3, <2>4 DEF GivesBack
  <2> QED  BY <1>2, <1>6, <2>5, GivesBackInv
<1>15. CASE ~UnlockApplies(rows, m, l.host, c)
  <2>1. loc' = [loc EXCEPT ![c] = x] /\ rows' = rows /\ resv' = resv  BY <1>1, <1>2, <1>15
  <2>2. ~Weak(m)  BY <1>15 DEF UnlockApplies, Weak
  <2>3. Moves(c, x)
    <3>1. ASSUME NEW k \in LocateMedia, Weak(k), Mine(c, k)
          PROVE  x.pc \in {"lock", "cleanup"} /\ x.host = loc[c].host /\ \E j \in x.taken : Medium(x, j) = k
      <4>1. k # m  BY <2>2, <3>1
      <4>2. PICK j \in l.taken : Medium(l, j) = k  BY <1>0, <3>1 DEF Mine
      <4>3. j \in x.taken  BY <1>13, <4>1, <4>2
      <4> QED  BY <1>0, <1>2, <1>7, <1>8, <4>2, <4>3
    <3> QED  BY <1>0, <1>10, <1>11, <2>1, <3>1 DEF Moves
  <2>4. LocateTypes'  BY <1>2, <2>1, SetTypes
  <2> QED  BY <2>3, <2>4, MovesInv
<1> QED  BY <1>14, <1>15

-----------------------------------------------------------------------------
(* Locating: the hosts, and the invariant.                                 *)

LEMMA TakeHostStep ==
    ASSUME LocateInv, NEW h \in Hosts, NEW m \in LocateMedia, LrsTakes(h, m)
    PROVE  LocateInv'
<1> USE DEF LocateInv
<1>1. /\ PossessApplies(rows, m, h) /\ rows' = Possess(rows, m, h, h) /\ Spend("lrs")
      /\ UNCHANGED <<can, loc, resv>>
  BY DEF LrsTakes
<1>2. /\ rows' = [rows EXCEPT ![m] = Row(h, h, FALSE)] /\ Row(h, h, FALSE) \in Strong
  BY <1>1 DEF Possess, Strong
<1>3. /\ rows' \in [LocateMedia -> Strong \cup Loose \cup {NoLock}] /\ rows'[m] = Row(h, h, FALSE)
      /\ \A k \in LocateMedia \ {m} : rows'[k] = rows[k]
  BY <1>2 DEF LocateTypes
<1>4. LocateTypes'  BY <1>1, <1>3, SpendIs DEF LocateTypes
<1>5. Row(h, h, FALSE) \in [host : Hosts, owner : Hosts \cup Clients, weak : BOOLEAN]
      /\ Row(h, h, FALSE).host = h /\ Row(h, h, FALSE).weak = FALSE
  BY DEF Row
<1>6. Row(h, h, FALSE) # NoLock  BY <1>5, LocateNames
<1>7. Keeps  BY <1>1, <1>3, <1>5, <1>6 DEF Keeps, For, IsLocked, PossessApplies
<1>8. (\A d \in Clients : LocateFine(loc[d]))'
  <2> SUFFICES ASSUME NEW d \in Clients, NEW l, l = loc'[d]  PROVE  LocateFine(l)'
    BY DEF LocateFine
  <2>1. LocateFine(l)  BY <1>1
  <2> QED  BY <1>7, <2>1, FineKeeps
<1>9. (\A r \in resv : PromiseFine(r))'
  <2> SUFFICES ASSUME NEW r \in resv  PROVE  PromiseFine(r)'
    BY <1>1
  <2> QED  BY <1>7, PromiseKeeps
<1>10. Exclusive'  BY <1>1 DEF Exclusive, Claim, Under, Medium
<1>11. WeakKnown'
  <2> SUFFICES ASSUME NEW k \in LocateMedia, Weak(k)'
               PROVE  (\E d \in Clients : Mine(d, k)') \/ Promised(k)'
    BY DEF WeakKnown
  <2>1. k # m  BY <1>3, <1>5 DEF Weak
  <2>2. rows'[k] = rows[k] /\ Weak(k)  BY <1>3, <2>1 DEF Weak, IsLocked
  <2>3. \A d \in Clients : Mine(d, k) => Mine(d, k)'  BY <1>1, <2>2 DEF Mine, Medium
  <2>4. Promised(k) => Promised(k)'  BY <1>1, <2>2 DEF Promised
  <2> QED  BY <2>2, <2>3, <2>4 DEF WeakKnown
<1> QED  BY <1>4, <1>8, <1>9, <1>10, <1>11

LEMMA ReleaseHostStep ==
    ASSUME LocateInv, NEW h \in Hosts, NEW m \in LocateMedia, LrsReleases(h, m)
    PROVE  LocateInv'
<1> USE DEF LocateInv
<1>1. /\ rows' = Unlock(rows, m) /\ resv' = Over(resv, m) /\ UNCHANGED <<can, room>>
      /\ loc' = [d \in Clients |-> Mark(loc[d], m)]
  BY MistakenIs DEF LrsReleases
<1>2. PICK L, S : L = loc /\ S = resv  OBVIOUS
<1>3. \A d \in Clients : loc[d].pc \in {"lock", "cleanup"} => Under(loc[d])  BY DEF Under
<1>4. GivesBack(m, L, S)  BY <1>1, <1>2, <1>3 DEF GivesBack
<1> QED  BY <1>1, <1>4, GivesBackInv

\* The devices of a host, and a step of nobody.
LEMMA AsideStep ==
    ASSUME LocateInv, UNCHANGED <<rows, loc, resv>>, LocateTypes'
    PROVE  LocateInv'
<1> USE DEF LocateInv
<1>1. Keeps  BY DEF Keeps, For
<1>2. (\A d \in Clients : LocateFine(loc[d]))'
  <2> SUFFICES ASSUME NEW d \in Clients, NEW l, l = loc'[d]  PROVE  LocateFine(l)'
    BY DEF LocateFine
  <2>1. LocateFine(l)  OBVIOUS
  <2> QED  BY <1>1, <2>1, FineKeeps
<1>3. (\A r \in resv : PromiseFine(r))'
  <2> SUFFICES ASSUME NEW r \in resv  PROVE  PromiseFine(r)'
    OBVIOUS
  <2> QED  BY <1>1, PromiseKeeps
<1>4. Exclusive'  BY DEF Exclusive, Claim, Under, Medium
<1>5. WeakKnown'  BY DEF WeakKnown, Weak, IsLocked, Mine, Medium, Promised
<1> QED  BY <1>2, <1>3, <1>4, <1>5

LEMMA DevicesStep ==
    ASSUME LocateInv, NEW h \in Hosts, DevicesLocked(h)
    PROVE  LocateInv'
<1>1. UNCHANGED <<rows, loc, resv>> /\ Spend("away")  BY DEF DevicesLocked
<1>2. can' \in [Hosts -> [LocateMedia -> Nat]]  BY DEF DevicesLocked, LocateInv, LocateTypes
<1>3. LocateTypes'  BY <1>1, <1>2, SpendIs DEF LocateInv, LocateTypes
<1> QED  BY <1>1, <1>3, AsideStep

LEMMA LocateInitInv ==
    ASSUME LocateInit
    PROVE  LocateInv
<1>1. PICK p \in Places : can = p.can /\ rows = p.rows /\ room = p.room  BY DEF LocateInit
<1>2. /\ can \in [Hosts -> [LocateMedia -> Nat]]
      /\ rows \in [LocateMedia -> Strong \cup {NoLock}]
      /\ room \in [locate : Nat, lrs : Nat, away : Nat, objs : SUBSET Layouts]
  BY <1>1, PlacesAssumption DEF Strong
<1>3. \A c \in Clients : loc[c] = NoLocate  BY DEF LocateInit
<1>4. LocateTypes
  <2>1. loc = [c \in Clients |-> loc[c]]  BY DEF LocateInit
  <2> QED  BY <1>2, <2>1 DEF LocateTypes
<1>5. NoLocate \in Resting  BY DEF Resting
<1>6. \A c \in Clients : LocateFine(loc[c]) /\ Claim(loc[c]) = {}  BY <1>3, <1>5, RestIs DEF LocateFine
<1>7. resv = {}  BY DEF LocateInit
<1>8. WeakKnown
  <2>1. \A m \in LocateMedia : ~Weak(m)  BY <1>2 DEF Weak, IsLocked, Strong, Row
  <2> QED  BY <2>1 DEF WeakKnown
<1> QED  BY <1>4, <1>6, <1>7, <1>8 DEF LocateInv, Exclusive

LEMMA LocateNextInv ==
    ASSUME LocateInv, [LocateNext]_locateVars
    PROVE  LocateInv'
<1>1. ASSUME NEW c \in Clients, Locates(c)  PROVE  LocateInv'
  <2>1. ASSUME NEW o \in room.objs, NEW focus \in Hosts, LocateBegin(c, o, focus)  PROVE  LocateInv'
    BY <2>1, BeginStep
  <2> QED  BY <1>1, <2>1, ReadStep, ChooseStep, LockStep, ReturnStep, DropStep, FailsStep DEF Locates
<1>2. ASSUME NEW h \in Hosts, DevicesLocked(h)  PROVE  LocateInv'  BY <1>2, DevicesStep
<1>3. ASSUME NEW h \in Hosts, NEW m \in LocateMedia, LrsTakes(h, m) \/ LrsReleases(h, m)  PROVE  LocateInv'
  BY <1>3, TakeHostStep, ReleaseHostStep
<1>4. CASE UNCHANGED locateVars
  <2>1. UNCHANGED <<rows, loc, resv, can, room>>  BY <1>4 DEF locateVars
  <2>2. LocateTypes'  BY <2>1 DEF LocateTypes, LocateInv
  <2> QED  BY <2>1, <2>2, AsideStep
<1> QED  BY <1>1, <1>2, <1>3, <1>4 DEF LocateNext

-----------------------------------------------------------------------------
(* Locating: what the invariant gives.                                     *)

LEMMA LocateTypesGiven ==
    ASSUME LocateInv
    PROVE  LocateTypeOK
<1> USE DEF LocateInv
<1>1. ASSUME NEW m \in LocateMedia, IsLocked(rows, m)
      PROVE  rows[m].host \in Hosts /\ (rows[m].weak <=> rows[m].owner \in Clients)
  <2>1. rows[m] \in Strong \cup Loose  BY <1>1 DEF LocateTypes, IsLocked
  <2>2. CASE rows[m] \in Strong
    <3>1. PICK h \in Hosts : rows[m] = Row(h, h, FALSE)  BY <2>2 DEF Strong
    <3>2. rows[m].host = h /\ rows[m].owner = h /\ rows[m].weak = FALSE  BY <3>1 DEF Row
    <3> QED  BY <3>2, LocateNames
  <2>3. CASE rows[m] \in Loose  BY <2>3 DEF Loose
  <2> QED  BY <2>1, <2>2, <2>3
<1>2. \A h \in Hosts : can[h] \in [LocateMedia -> Nat]  BY DEF LocateTypes
<1>3. ASSUME NEW c \in Clients
      PROVE  loc[c] = NoLocate \/ loc[c].pc = "aborted" \/
             /\ loc[c].pc \in {"read", "choose", "lock", "cleanup"}
             /\ loc[c].taken \subseteq {i \in SlotsIn(loc[c]) : loc[c].seen[i] # Gone}
             /\ \A s \in Splits(loc[c]) : loc[c].got[s] <= loc[c].obj.per
  <2>1. CASE loc[c] \in Resting  BY <2>1 DEF Resting
  <2>2. CASE Shape(loc[c])
    <3>1. loc[c].pc \in {"read", "choose", "lock", "cleanup"}  BY <2>2, ShapeIs
    <3>2. loc[c].taken \subseteq {i \in SlotsIn(loc[c]) : loc[c].seen[i] # Gone}  BY <2>2 DEF Shape
    <3>3. \A s \in Splits(loc[c]) : loc[c].got[s] <= loc[c].obj.per  BY <2>2 DEF Shape
    <3> QED  BY <3>1, <3>2, <3>3
  <2> QED  BY <2>1, <2>2 DEF LocateFine
<1> QED  BY <1>1, <1>2, <1>3 DEF LocateTypeOK

LEMMA PromiseHolds ==
    ASSUME LocateTypes, NEW r, PromiseFine(r), r.calm, NEW s \in 1..(Len(r.obj.slots) \div r.obj.per)
    PROVE  Cardinality({i \in DOMAIN r.obj.slots :
               /\ (i - 1) \div r.obj.per + 1 = s /\ r.obj.slots[i] # Empty
               /\ IsLocked(rows, r.obj.slots[i]) /\ rows[r.obj.slots[i]].host = r.host}) >= r.obj.n
<1> DEFINE K == {i \in DOMAIN r.obj.slots :
               /\ (i - 1) \div r.obj.per + 1 = s /\ r.obj.slots[i] # Empty
               /\ IsLocked(rows, r.obj.slots[i]) /\ rows[r.obj.slots[i]].host = r.host}
<1>1. r.obj \in Layouts /\ r.on \in SUBSET LocateMedia  BY DEF PromiseFine, PromiseRec
<1>2. Len(r.obj.slots) \in Nat /\ DOMAIN r.obj.slots = 1..Len(r.obj.slots) /\ r.obj.n \in Nat
  BY <1>1, LayoutIs
<1>3. Covered(r, s) \in SUBSET K  BY <1>1, LocateNames DEF Covered, PromiseFine, For
<1>4. IsFiniteSet(K)
  <2>1. 1 \in Int /\ Len(r.obj.slots) \in Int  BY <1>2
  <2>2. IsFiniteSet(1..Len(r.obj.slots))  BY <2>1, FS_Interval
  <2>3. K \in SUBSET (1..Len(r.obj.slots))  BY <1>2
  <2> QED  BY <2>2, <2>3, FS_Subset
<1>5. Cardinality(Covered(r, s)) >= r.obj.n  BY DEF PromiseFine
<1> HIDE DEF K
<1>6. IsFiniteSet(Covered(r, s)) /\ Cardinality(Covered(r, s)) <= Cardinality(K)  BY <1>3, <1>4, FS_Subset
<1>7. Cardinality(K) \in Nat /\ Cardinality(Covered(r, s)) \in Nat  BY <1>4, <1>6, FS_CardinalityType
<1>8. Cardinality(K) >= r.obj.n  BY <1>2, <1>5, <1>6, <1>7
<1> QED  BY <1>8 DEF K

\* phobos_locate keeps its promise for any number of clients and hosts: the
\* host it returned holds enough media of every split until its LRS gives one
\* back, whatever the other locates take and clean up.
THEOREM PromisesEnsured == LocateSpec => []Ensured
<1>1. LocateInv => Ensured  BY PromiseHolds DEF LocateInv, Ensured
<1> QED  BY <1>1, LocateInitInv, LocateNextInv, PTL DEF LocateSpec

\* A locate that fails leaves no weak lock behind: each one belongs to a locate
\* under way or to one that has returned its host.
THEOREM NoWeakLockStays == LocateSpec => []NoWeakLockLeft
<1>1. ASSUME LocateInv  PROVE  NoWeakLockLeft
  <2>1. LocateTypeOK  BY <1>1, LocateTypesGiven
  <2>2. WeakKnown  BY <1>1 DEF LocateInv
  <2> QED  BY <2>1, <2>2 DEF NoWeakLockLeft, WeakKnown, Weak, Mine, Promised
<1>2. LocateInv => NoWeakLockLeft  BY <1>1
<1> QED  BY <1>2, LocateInitInv, LocateNextInv, PTL DEF LocateSpec
=============================================================================
