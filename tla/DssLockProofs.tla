---------------------------- MODULE DssLockProofs ----------------------------
(***************************************************************************)
(* Proofs about DssLock for any number of processes, hosts, keys and lists *)
(* of items.  The inductive invariant adds to HeldIsRow and NoStrayRow     *)
(* that a call's index stays inside its list (CallOK), that a process      *)
(* inserts no key it still believes to hold (Fresh).                       *)
(***************************************************************************)
EXTENDS DssLock, TLAPS

CallOK ==
    \A c \in Procs :
        /\ call[c].op = "idle" => call[c] = Idle
        /\ call[c].op # "idle" => call[c].ids \in ItemLists
        /\ call[c].op = "lock" => call[c].i \in 1..(Len(call[c].ids) + 1)
        /\ call[c].op = "rollback" => call[c].i \in 0..Len(call[c].ids)

Fresh == \A c \in Procs : has[c] \cap Taken(c) = {}

Inv == TypeOK /\ CallOK /\ Fresh /\ HeldIsRow /\ NoStrayRow

USE ProcAssumption, ListAssumption, NoLockAssumption

\* The initial table is empty and nobody believes anything.
LEMMA InitInv == Init => Inv
BY DEF Init, Inv, TypeOK, CallOK, Fresh, HeldIsRow, NoStrayRow, Taken,
       TakenUpTo, Calls, Idle, OwnStrong, StrongBy, OwnedBy, IsLocked, Rows

\* Every call of the lock API keeps the types.
LEMMA TypeStep ==
    ASSUME Inv, NEW c \in Procs, Step(c)
    PROVE  TypeOK'
<1> USE DEF Inv, TypeOK, Calls, CallOK, Rows
<1>1. ASSUME NEW ids \in ItemLists, BeginLock(c, ids) PROVE TypeOK'
  BY <1>1 DEF BeginLock, Ready
<1>2. CASE LockItem(c)
  <2>1. call[c].ids \in Seq(Keys) /\ call[c].i \in 1..Len(call[c].ids)
    BY <1>2 DEF LockItem
  <2>2. call[c].ids[call[c].i] \in Keys
    BY <2>1
  <2>3. lock' \in [Keys -> Rows \cup {NoLock}]
    BY <1>2, <2>2 DEF LockItem, BasicLock, Row
  <2>4. call' \in [Procs -> Calls]
    <3>1. call' = [call EXCEPT ![c] = [call[c] EXCEPT !.i = call[c].i + 1]]
      BY <1>2 DEF LockItem
    <3>2. call[c].i + 1 \in Nat /\ call[c] \in Calls
      BY <2>1
    <3>3. [call[c] EXCEPT !.i = call[c].i + 1] \in Calls
      <4> HIDE ListAssumption DEF CallOK
      <4> QED BY <3>2
    <3> QED BY <3>1, <3>3
  <2> QED BY <1>2, <2>3, <2>4 DEF LockItem
<1>3. CASE LockRefused(c)
  BY <1>3 DEF LockRefused
<1>4. CASE EndLock(c)
  BY <1>4 DEF EndLock, Idle
<1>5. CASE RollbackItem(c)
  BY <1>5 DEF RollbackItem, Unlock, Robbed
<1>6. CASE EndRollback(c)
  BY <1>6 DEF EndRollback, Idle
<1>7. ASSUME NEW k \in Keys, NEW h \in Hosts, DssLockWeak(c, k, h)
      PROVE  TypeOK'
  BY <1>7 DEF DssLockWeak, BasicLock, BasicLockApplies, Row, Ready
<1>8. ASSUME NEW k \in Keys, TakeOwnership(c, k) PROVE TypeOK'
  BY <1>8 DEF TakeOwnership, Possess, PossessApplies, Row, Ready
<1>9. ASSUME NEW k \in Keys, DssLockSetWeak(c, k) PROVE TypeOK'
  <2>1. lock[k] \in Rows
    BY <1>9 DEF DssLockSetWeak, SetWeakApplies, OwnedBy, IsLocked
  <2> QED BY <1>9, <2>1 DEF DssLockSetWeak, SetWeak
<1>10. ASSUME NEW k \in Keys, DssUnlock(c, k) PROVE TypeOK'
  BY <1>10 DEF DssUnlock, Unlock, UnlockApplies, Ready
<1>11. ASSUME NEW k \in Keys, DssUnlockForce(c, k) PROVE TypeOK'
  BY <1>11 DEF DssUnlockForce, Unlock, Robbed, Ready
<1>12. CASE MediaClean(c)
  BY <1>12 DEF MediaClean, DeleteRows, MediaCleanRows, Robbed, Ready
<1>13. ASSUME NEW S \in SUBSET Keys, NEW H \in SUBSET Hosts,
              CleanSelect(c, S, H)
       PROVE  TypeOK'
  BY <1>13 DEF CleanSelect, DeleteRows, Robbed, Ready
<1>14. CASE Die(c)
  BY <1>14 DEF Die, Idle
<1> QED BY <1>1, <1>2, <1>3, <1>4, <1>5, <1>6, <1>7, <1>8,
           <1>9, <1>10, <1>11, <1>12, <1>13, <1>14 DEF Step

\* The index of a call stays inside its list of items.
LEMMA CallStep ==
    ASSUME Inv, NEW c \in Procs, Step(c)
    PROVE  CallOK'
<1> USE DEF Inv, TypeOK, Calls, CallOK, Idle
<1>1. ASSUME NEW ids \in ItemLists, BeginLock(c, ids) PROVE CallOK'
  BY <1>1 DEF BeginLock, Ready
<1>2. CASE LockItem(c)
  BY <1>2 DEF LockItem, BasicLock, Row, BasicLockApplies
<1>3. CASE LockRefused(c)
  BY <1>3 DEF LockRefused
<1>4. CASE EndLock(c)
  BY <1>4 DEF EndLock, Idle
<1>5. CASE RollbackItem(c)
  BY <1>5 DEF RollbackItem, Unlock, Robbed
<1>6. CASE EndRollback(c)
  BY <1>6 DEF EndRollback, Idle
<1>7. ASSUME NEW k \in Keys, NEW h \in Hosts, DssLockWeak(c, k, h)
      PROVE  CallOK'
  BY <1>7 DEF DssLockWeak, BasicLock, BasicLockApplies, Row, Ready
<1>8. ASSUME NEW k \in Keys, TakeOwnership(c, k) PROVE CallOK'
  BY <1>8 DEF TakeOwnership, Possess, PossessApplies, Row, Ready
<1>9. ASSUME NEW k \in Keys, DssLockSetWeak(c, k) PROVE CallOK'
  BY <1>9 DEF DssLockSetWeak, SetWeak, SetWeakApplies, Ready
<1>10. ASSUME NEW k \in Keys, DssUnlock(c, k) PROVE CallOK'
  BY <1>10 DEF DssUnlock, Unlock, UnlockApplies, Ready
<1>11. ASSUME NEW k \in Keys, DssUnlockForce(c, k) PROVE CallOK'
  BY <1>11 DEF DssUnlockForce, Unlock, Robbed, Ready
<1>12. CASE MediaClean(c)
  BY <1>12 DEF MediaClean, DeleteRows, MediaCleanRows, Robbed, Ready
<1>13. ASSUME NEW S \in SUBSET Keys, NEW H \in SUBSET Hosts,
              CleanSelect(c, S, H)
       PROVE  CallOK'
  BY <1>13 DEF CleanSelect, DeleteRows, Robbed, Ready
<1>14. CASE Die(c)
  BY <1>14 DEF Die, Idle
<1> QED BY <1>1, <1>2, <1>3, <1>4, <1>5, <1>6, <1>7, <1>8,
           <1>9, <1>10, <1>11, <1>12, <1>13, <1>14 DEF Step

\* A process never believes to hold a key it is just inserting or rolling
\* back.
LEMMA FreshStep ==
    ASSUME Inv, NEW c \in Procs, Step(c)
    PROVE  Fresh'
<1> USE DEF Inv, TypeOK, Calls, CallOK, Fresh, Idle, Taken, TakenUpTo
<1>1. ASSUME NEW ids \in ItemLists, BeginLock(c, ids) PROVE Fresh'
  BY <1>1 DEF BeginLock, Ready
<1>2. CASE LockItem(c)
  BY <1>2 DEF LockItem, BasicLock, Row, BasicLockApplies
<1>3. CASE LockRefused(c)
  BY <1>3 DEF LockRefused
<1>4. CASE EndLock(c)
  BY <1>4 DEF EndLock, Idle
<1>5. CASE RollbackItem(c)
  BY <1>5 DEF RollbackItem, Unlock, Robbed
<1>6. CASE EndRollback(c)
  BY <1>6 DEF EndRollback, Idle
<1>7. ASSUME NEW k \in Keys, NEW h \in Hosts, DssLockWeak(c, k, h)
      PROVE  Fresh'
  BY <1>7 DEF DssLockWeak, BasicLock, BasicLockApplies, Row, Ready
<1>8. ASSUME NEW k \in Keys, TakeOwnership(c, k) PROVE Fresh'
  BY <1>8 DEF TakeOwnership, Possess, PossessApplies, Row, Ready
<1>9. ASSUME NEW k \in Keys, DssLockSetWeak(c, k) PROVE Fresh'
  BY <1>9 DEF DssLockSetWeak, SetWeak, SetWeakApplies, Ready
<1>10. ASSUME NEW k \in Keys, DssUnlock(c, k) PROVE Fresh'
  BY <1>10 DEF DssUnlock, Unlock, UnlockApplies, Ready
<1>11. ASSUME NEW k \in Keys, DssUnlockForce(c, k) PROVE Fresh'
  BY <1>11 DEF DssUnlockForce, Unlock, Robbed, Ready
<1>12. CASE MediaClean(c)
  BY <1>12 DEF MediaClean, DeleteRows, MediaCleanRows, Robbed, Ready
<1>13. ASSUME NEW S \in SUBSET Keys, NEW H \in SUBSET Hosts,
              CleanSelect(c, S, H)
       PROVE  Fresh'
  BY <1>13 DEF CleanSelect, DeleteRows, Robbed, Ready
<1>14. CASE Die(c)
  BY <1>14 DEF Die, Idle
<1> QED BY <1>1, <1>2, <1>3, <1>4, <1>5, <1>6, <1>7, <1>8,
           <1>9, <1>10, <1>11, <1>12, <1>13, <1>14 DEF Step

\* A row is not the absence of a row.
LEMMA RowIsLocked ==
    ASSUME NEW h \in Hosts, NEW p \in Pids, NEW w \in BOOLEAN
    PROVE  Row(h, p, w) # NoLock
BY DEF Row

\* Only keys are inserted.
LEMMA TakenKeys == ASSUME Inv, NEW c \in Procs PROVE Taken(c) \subseteq Keys
<1>1. CASE call[c].op = "idle"
  BY <1>1 DEF Inv, CallOK, Idle, Taken, TakenUpTo
<1>2. CASE call[c].op # "idle"
  <2>1. call[c].ids \in Seq(Keys)
    BY <1>2 DEF Inv, CallOK
  <2>2. 1..TakenUpTo(c) \subseteq 1..Len(call[c].ids)
    BY <1>2, <2>1 DEF Inv, TypeOK, Calls, CallOK, TakenUpTo
  <2> QED BY <2>1, <2>2 DEF Taken
<1> QED BY <1>1, <1>2

\* Two processes cannot both be the strong owner of a row.
LEMMA OneOwner ==
    ASSUME NEW c \in Procs, NEW d \in Procs, NEW k \in Keys,
           OwnStrong(c, k), OwnStrong(d, k)
    PROVE  c = d
BY DEF OwnStrong, StrongBy, OwnedBy

\* How a step inside a call of _dss_lock moves the set of inserted items.
LEMMA TakenStep ==
    ASSUME Inv, NEW c \in Procs
    PROVE  LET k == call[c].ids[call[c].i] IN
           /\ LockItem(c) => /\ k \in Keys
                             /\ Taken(c)' = Taken(c) \cup {k}
           /\ RollbackItem(c) => /\ k \in Taken(c) /\ k \in Keys
                                 /\ Taken(c)' = Taken(c) \ {k}
           /\ LockRefused(c) => Taken(c)' = Taken(c)
           /\ \A ids \in ItemLists : BeginLock(c, ids) => Taken(c)' = Taken(c)
           /\ EndRollback(c) => Taken(c)' = Taken(c)
<1> USE DEF Inv, TypeOK, Calls, CallOK, Taken, TakenUpTo
<1> DEFINE k == call[c].ids[call[c].i]
<1>1. ASSUME LockItem(c)
      PROVE  k \in Keys /\ Taken(c)' = Taken(c) \cup {k}
  <2>1. call[c].ids \in Seq(Keys) /\ call[c].i \in 1..Len(call[c].ids)
    BY <1>1 DEF LockItem
  <2>2. call'[c] = [call[c] EXCEPT !.i = @ + 1]
    BY <1>1 DEF LockItem
  <2>3. call[c].op = "lock"
    BY <1>1 DEF LockItem
  <2>4. 1..((call[c].i + 1) - 1) = 1..(call[c].i - 1) \cup {call[c].i}
    BY <2>1
  <2> QED BY <2>1, <2>2, <2>3, <2>4
<1>2. ASSUME RollbackItem(c)
      PROVE  k \in Taken(c) /\ k \in Keys /\ Taken(c)' = Taken(c) \ {k}
  <2>1. /\ call[c].ids \in ItemLists
        /\ call[c].ids \in Seq(Keys) /\ call[c].i \in 1..Len(call[c].ids)
    BY <1>2 DEF RollbackItem
  <2>2. call'[c] = [call[c] EXCEPT !.i = @ - 1]
    BY <1>2 DEF RollbackItem
  <2>3. call[c].op = "rollback"
    BY <1>2 DEF RollbackItem
  <2>4. \A j \in 1..(call[c].i - 1) : call[c].ids[j] # k
    BY <2>1
  <2>5. 1..call[c].i = 1..(call[c].i - 1) \cup {call[c].i}
    BY <2>1
  <2> QED BY <2>1, <2>2, <2>3, <2>4, <2>5
<1>3. LockRefused(c) => Taken(c)' = Taken(c)
  BY DEF LockRefused
<1>4. ASSUME NEW ids \in ItemLists, BeginLock(c, ids)
      PROVE  Taken(c)' = Taken(c)
  BY <1>4 DEF BeginLock, Ready, Idle
<1>5. EndRollback(c) => Taken(c)' = Taken(c)
  BY DEF EndRollback, Idle
<1> QED BY <1>1, <1>2, <1>3, <1>4, <1>5

\* A step of c leaves the calls of the others alone.
LEMMA OthersTaken ==
    ASSUME Inv, NEW c \in Procs, Step(c), NEW d \in Procs, d # c
    PROVE  /\ Taken(d)' = Taken(d) /\ has'[d] = has[d]
           /\ d \in live' => d \in live
<1> USE DEF Inv, TypeOK
<1> DEFINE Same == /\ call'[d] = call[d] /\ has'[d] = has[d]
                   /\ live' \subseteq live
<1>0. SUFFICES Same
  BY DEF Taken, TakenUpTo
<1>1. ASSUME NEW ids \in ItemLists, BeginLock(c, ids) PROVE Same
  BY <1>1 DEF BeginLock
<1>2. CASE LockItem(c)
  BY <1>2 DEF LockItem
<1>3. CASE LockRefused(c)
  BY <1>3 DEF LockRefused
<1>4. CASE EndLock(c)
  BY <1>4 DEF EndLock
<1>5. CASE RollbackItem(c)
  BY <1>5 DEF RollbackItem
<1>6. CASE EndRollback(c)
  BY <1>6 DEF EndRollback
<1>7. ASSUME NEW k \in Keys, NEW h \in Hosts, DssLockWeak(c, k, h)
      PROVE  Same
  BY <1>7 DEF DssLockWeak
<1>8. ASSUME NEW k \in Keys, TakeOwnership(c, k) PROVE Same
  BY <1>8 DEF TakeOwnership
<1>9. ASSUME NEW k \in Keys, DssLockSetWeak(c, k) PROVE Same
  BY <1>9 DEF DssLockSetWeak
<1>10. ASSUME NEW k \in Keys, DssUnlock(c, k) PROVE Same
  BY <1>10 DEF DssUnlock
<1>11. ASSUME NEW k \in Keys, DssUnlockForce(c, k) PROVE Same
  BY <1>11 DEF DssUnlockForce
<1>12. CASE MediaClean(c)
  BY <1>12 DEF MediaClean
<1>13. ASSUME NEW S \in SUBSET Keys, NEW H \in SUBSET Hosts,
              CleanSelect(c, S, H)
       PROVE  Same
  BY <1>13 DEF CleanSelect
<1>14. CASE Die(c)
  BY <1>14 DEF Die
<1> QED BY <1>1, <1>2, <1>3, <1>4, <1>5, <1>6, <1>7, <1>8,
           <1>9, <1>10, <1>11, <1>12, <1>13, <1>14 DEF Step

\* No statement of a process invalidates what another one holds.
LEMMA HeldStep ==
    ASSUME Inv, NEW c \in Procs, Step(c)
    PROVE  HeldIsRow'
<1> USE DEF Inv, TypeOK, Calls, CallOK, Fresh, Idle, Taken, TakenUpTo,
            HeldIsRow, OwnStrong, StrongBy, OwnedBy, IsLocked, Rows
<1>1. ASSUME NEW ids \in ItemLists, BeginLock(c, ids) PROVE HeldIsRow'
  BY <1>1 DEF BeginLock, Ready
<1>2. CASE LockItem(c)
  <2> SUFFICES ASSUME NEW d \in live', NEW x \in has'[d] \cup Taken(d)',
                      <<d, x>> \notin robbed'
               PROVE  OwnStrong(d, x)'
    OBVIOUS
  <2> DEFINE k == call[c].ids[call[c].i]
  <2> HIDE ListAssumption DEF Taken, TakenUpTo, Calls, CallOK, Fresh, Idle, Rows
  <2>1. k \in Keys /\ Taken(c)' = Taken(c) \cup {k}
    BY <1>2, TakenStep
  <2>2. CASE d = c /\ x = k
    <3>1. lock'[k] = Row(Host[c], Pid[c], FALSE)
      BY <1>2, <2>1 DEF LockItem, BasicLock
    <3>2. lock'[k] # NoLock
      BY <3>1, RowIsLocked
    <3> QED BY <2>2, <3>1, <3>2 DEF Row
  <2>3. CASE d = c /\ x # k
    BY <1>2, <2>1, <2>3 DEF LockItem, BasicLock, Row
  <2>4. CASE d # c
    <3>1. OwnStrong(d, x) /\ x # k
      BY <1>2, <2>4, OthersTaken DEF LockItem, BasicLockApplies
    <3> QED BY <1>2, <2>1, <3>1 DEF LockItem, BasicLock, Row
  <2> QED BY <2>2, <2>3, <2>4
<1>3. CASE LockRefused(c)
  BY <1>3 DEF LockRefused
<1>4. CASE EndLock(c)
  BY <1>4 DEF EndLock, Idle
<1>5. CASE RollbackItem(c)
  <2> SUFFICES ASSUME NEW d \in live', NEW x \in has'[d] \cup Taken(d)',
                      <<d, x>> \notin robbed'
               PROVE  OwnStrong(d, x)'
    OBVIOUS
  <2> DEFINE k == call[c].ids[call[c].i]
  <2> HIDE ListAssumption DEF Taken, TakenUpTo, Calls, CallOK, Fresh, Idle, Rows
  <2>1. k \in Taken(c) /\ k \in Keys /\ Taken(c)' = Taken(c) \ {k}
    BY <1>5, TakenStep
  <2>2. c \in live /\ d \in live /\ has' = has
    BY <1>5 DEF RollbackItem
  <2>3. x # k /\ <<d, x>> \notin robbed
    <3>1. CASE d = c
      <4>1. k \notin has[c]
        BY <2>1 DEF Fresh
      <4> QED BY <1>5, <2>1, <2>2, <3>1, <4>1 DEF RollbackItem
    <3>2. CASE d # c
      <4>1. x \in has[d] \cup Taken(d) /\ <<d, x>> \notin robbed
        BY <1>5, <2>2, <3>2, OthersTaken DEF RollbackItem
      <4>2. OwnStrong(d, x)
        BY <2>2, <4>1
      <4>3. ASSUME x = k PROVE FALSE
        <5>1. CASE <<c, k>> \in robbed
          <6>1. <<d, x>> \in Robbed({k}, c)
            BY <2>2, <3>2, <4>2, <4>3 DEF Robbed
          <6> QED BY <1>5, <5>1, <6>1 DEF RollbackItem
        <5>2. CASE <<c, k>> \notin robbed
          <6>1. OwnStrong(c, k)
            BY <2>1, <2>2, <5>2
          <6>2. OwnStrong(d, k) /\ d \in Procs
            BY <2>2, <4>2, <4>3
          <6> QED BY <2>1, <3>2, <6>1, <6>2, OneOwner
        <5> QED BY <5>1, <5>2
      <4> QED BY <4>1, <4>3
    <3> QED BY <3>1, <3>2
  <2>4. OwnStrong(d, x)
    <3>1. x \in has[d] \cup Taken(d)
      BY <2>1, <2>2, OthersTaken
    <3> QED BY <2>2, <2>3, <3>1
  <2>5. x \in Keys
    BY <2>2, OthersTaken, TakenKeys, <2>1
  <2> QED BY <1>5, <2>1, <2>3, <2>4, <2>5 DEF RollbackItem, Unlock
<1>6. CASE EndRollback(c)
  BY <1>6 DEF EndRollback, Idle
<1>7. ASSUME NEW k \in Keys, NEW h \in Hosts, DssLockWeak(c, k, h)
      PROVE  HeldIsRow'
  BY <1>7 DEF DssLockWeak, BasicLock, BasicLockApplies, Row, Ready
<1>8. ASSUME NEW k \in Keys, TakeOwnership(c, k) PROVE HeldIsRow'
  <2> SUFFICES ASSUME NEW d \in live', NEW x \in has'[d] \cup Taken(d)',
                      <<d, x>> \notin robbed'
               PROVE  OwnStrong(d, x)'
    OBVIOUS
  <2> HIDE ListAssumption DEF Taken, TakenUpTo, Calls, CallOK, Fresh, Idle, Rows
  <2>1. CASE d = c /\ x = k
    <3>1. lock'[k] = Row(Host[c], Pid[c], FALSE)
      BY <1>8 DEF TakeOwnership, Possess
    <3>2. lock'[k] # NoLock
      BY <3>1, RowIsLocked
    <3> QED BY <2>1, <3>1, <3>2 DEF Row
  <2>2. CASE d = c /\ x # k
    <3>1. Taken(c)' = Taken(c)
      BY <1>8 DEF TakeOwnership, Taken, TakenUpTo
    <3> QED BY <1>8, <2>2, <3>1 DEF TakeOwnership, Possess, Row
  <2>3. CASE d # c
    <3>1. OwnStrong(d, x) /\ d \in live
      BY <1>8, <2>3, OthersTaken DEF TakeOwnership
    <3>2. x # k
      BY <1>8, <3>1 DEF TakeOwnership, PossessApplies
    <3> QED BY <1>8, <3>1, <3>2 DEF TakeOwnership, Possess, Row
  <2> QED BY <2>1, <2>2, <2>3
<1>9. ASSUME NEW k \in Keys, DssLockSetWeak(c, k) PROVE HeldIsRow'
  BY <1>9 DEF DssLockSetWeak, SetWeak, SetWeakApplies, Ready
<1>10. ASSUME NEW k \in Keys, DssUnlock(c, k) PROVE HeldIsRow'
  BY <1>10 DEF DssUnlock, Unlock, UnlockApplies, Ready
<1>11. ASSUME NEW k \in Keys, DssUnlockForce(c, k) PROVE HeldIsRow'
  BY <1>11 DEF DssUnlockForce, Unlock, Robbed, Ready
<1>12. CASE MediaClean(c)
  BY <1>12 DEF MediaClean, DeleteRows, MediaCleanRows, Robbed, Ready
<1>13. ASSUME NEW S \in SUBSET Keys, NEW H \in SUBSET Hosts,
              CleanSelect(c, S, H)
       PROVE  HeldIsRow'
  BY <1>13 DEF CleanSelect, DeleteRows, Robbed, Ready
<1>14. CASE Die(c)
  BY <1>14 DEF Die, Idle
<1> QED BY <1>1, <1>2, <1>3, <1>4, <1>5, <1>6, <1>7, <1>8,
           <1>9, <1>10, <1>11, <1>12, <1>13, <1>14 DEF Step

\* No statement leaves a strong row its owner does not know of.
LEMMA StrayStep ==
    ASSUME Inv, NEW c \in Procs, Step(c)
    PROVE  NoStrayRow'
<1> USE DEF Inv, TypeOK, Calls, CallOK, Fresh, Idle, Taken, TakenUpTo,
            NoStrayRow, OwnStrong, StrongBy, OwnedBy, IsLocked, Rows
<1>1. ASSUME NEW ids \in ItemLists, BeginLock(c, ids) PROVE NoStrayRow'
  <2> HIDE ListAssumption DEF Taken, TakenUpTo, Calls, CallOK, Fresh, Idle, Rows
  <2>1. Taken(c)' = Taken(c)
    BY <1>1, TakenStep
  <2> SUFFICES ASSUME NEW d \in live', NEW x \in Keys, OwnStrong(d, x)'
               PROVE  x \in has'[d] \cup Taken(d)'
    OBVIOUS
  <2>2. d \in live /\ OwnStrong(d, x) /\ has' = has
    BY <1>1 DEF BeginLock
  <2>3. Taken(d)' = Taken(d)
    BY <2>1, <2>2, OthersTaken
  <2> QED BY <2>2, <2>3
<1>2. CASE LockItem(c)
  BY <1>2 DEF LockItem, BasicLock, Row, BasicLockApplies
<1>3. CASE LockRefused(c)
  <2> HIDE ListAssumption DEF Taken, TakenUpTo, Calls, CallOK, Fresh, Idle, Rows
  <2>1. Taken(c)' = Taken(c)
    BY <1>3, TakenStep
  <2> SUFFICES ASSUME NEW d \in live', NEW x \in Keys, OwnStrong(d, x)'
               PROVE  x \in has'[d] \cup Taken(d)'
    OBVIOUS
  <2>2. d \in live /\ OwnStrong(d, x) /\ has' = has
    BY <1>3 DEF LockRefused
  <2>3. Taken(d)' = Taken(d)
    BY <2>1, <2>2, OthersTaken
  <2> QED BY <2>2, <2>3
<1>4. CASE EndLock(c)
  BY <1>4 DEF EndLock, Idle
<1>5. CASE RollbackItem(c)
  <2> HIDE ListAssumption DEF Taken, TakenUpTo, Calls, CallOK, Fresh, Idle, Rows
  <2> DEFINE k == call[c].ids[call[c].i]
  <2>1. k \in Keys /\ Taken(c)' = Taken(c) \ {k}
    BY <1>5, TakenStep
  <2>2. lock' = [lock EXCEPT ![k] = NoLock] /\ has' = has /\ live' = live
    BY <1>5 DEF RollbackItem, Unlock
  <2> SUFFICES ASSUME NEW d \in live', NEW x \in Keys, OwnStrong(d, x)'
               PROVE  x \in has'[d] \cup Taken(d)'
    OBVIOUS
  <2>3. d \in live /\ OwnStrong(d, x) /\ x # k
    BY <2>1, <2>2
  <2>4. x \in Taken(d) => x \in Taken(d)'
    BY <2>1, <2>3, OthersTaken
  <2> QED BY <2>2, <2>3, <2>4
<1>6. CASE EndRollback(c)
  <2> HIDE ListAssumption DEF Taken, TakenUpTo, Calls, CallOK, Fresh, Idle, Rows
  <2>1. Taken(c)' = Taken(c)
    BY <1>6, TakenStep
  <2> SUFFICES ASSUME NEW d \in live', NEW x \in Keys, OwnStrong(d, x)'
               PROVE  x \in has'[d] \cup Taken(d)'
    OBVIOUS
  <2>2. d \in live /\ OwnStrong(d, x) /\ has' = has
    BY <1>6 DEF EndRollback
  <2>3. Taken(d)' = Taken(d)
    BY <2>1, <2>2, OthersTaken
  <2> QED BY <2>2, <2>3
<1>7. ASSUME NEW k \in Keys, NEW h \in Hosts, DssLockWeak(c, k, h)
      PROVE  NoStrayRow'
  BY <1>7 DEF DssLockWeak, BasicLock, BasicLockApplies, Row, Ready
<1>8. ASSUME NEW k \in Keys, TakeOwnership(c, k) PROVE NoStrayRow'
  BY <1>8 DEF TakeOwnership, Possess, PossessApplies, Row, Ready
<1>9. ASSUME NEW k \in Keys, DssLockSetWeak(c, k) PROVE NoStrayRow'
  BY <1>9 DEF DssLockSetWeak, SetWeak, SetWeakApplies, Ready
<1>10. ASSUME NEW k \in Keys, DssUnlock(c, k) PROVE NoStrayRow'
  BY <1>10 DEF DssUnlock, Unlock, UnlockApplies, Ready
<1>11. ASSUME NEW k \in Keys, DssUnlockForce(c, k) PROVE NoStrayRow'
  BY <1>11 DEF DssUnlockForce, Unlock, Robbed, Ready
<1>12. CASE MediaClean(c)
  BY <1>12 DEF MediaClean, DeleteRows, MediaCleanRows, Robbed, Ready
<1>13. ASSUME NEW S \in SUBSET Keys, NEW H \in SUBSET Hosts,
              CleanSelect(c, S, H)
       PROVE  NoStrayRow'
  BY <1>13 DEF CleanSelect, DeleteRows, Robbed, Ready
<1>14. CASE Die(c)
  BY <1>14 DEF Die, Idle
<1> QED BY <1>1, <1>2, <1>3, <1>4, <1>5, <1>6, <1>7, <1>8,
           <1>9, <1>10, <1>11, <1>12, <1>13, <1>14 DEF Step

-----------------------------------------------------------------------------
\* The invariant is preserved by every step of every process.
LEMMA NextInv == Inv /\ [Next]_vars => Inv'
<1>1. ASSUME Inv, NEW c \in Procs, Step(c) PROVE Inv'
  BY <1>1, TypeStep, CallStep, FreshStep, HeldStep, StrayStep DEF Inv
<1>2. ASSUME Inv, UNCHANGED vars PROVE Inv'
  BY <1>2 DEF Inv, vars, TypeOK, CallOK, Fresh, HeldIsRow, NoStrayRow, Taken,
              TakenUpTo, OwnStrong, StrongBy, OwnedBy, IsLocked
<1> QED BY <1>1, <1>2 DEF Next

\* Inv holds in every reachable state.
LEMMA Invariance == Spec => []Inv
<1> HIDE DEF Inv
<1> QED BY InitInv, NextInv, PTL DEF Spec

\* The variables of the lock table and of its users keep their types.
THEOREM TypeCorrect == Spec => []TypeOK
BY Invariance, PTL DEF Inv

\* A process that was told it locked a key owns its row (_dss_lock,
\* dss_lock_rollback and dss_lock_take_ownership of any processes
\* interleaved statement by statement), unless it was robbed.
THEOREM HeldRows == Spec => []HeldIsRow
BY Invariance, PTL DEF Inv

\* A refused dss_lock leaves no row of the caller behind.
THEOREM AllOrNothing == Spec => []NoStrayRow
BY Invariance, PTL DEF Inv

\* The exclusion the lock table is for: at most one process holds a key,
\* except after a forced unlock or a cleaning statement.
THEOREM MutualExclusion == Spec => []Exclusive
<1>1. Inv => Exclusive
  <2> SUFFICES ASSUME Inv, NEW c \in live, NEW d \in live,
                      NEW k \in has[c] \cap has[d],
                      <<c, k>> \notin robbed, <<d, k>> \notin robbed
               PROVE  c = d
    BY DEF Exclusive
  <2>1. OwnStrong(c, k) /\ OwnStrong(d, k)
    BY DEF Inv, HeldIsRow
  <2>2. k \in Keys /\ c \in Procs /\ d \in Procs
    BY DEF Inv, TypeOK
  <2> QED BY <2>1, <2>2, OneOwner
<1> QED BY <1>1, Invariance, PTL

\* No statement changes the host of an existing row.
THEOREM HostNeverChanges == Spec => HostStable
<1> DEFINE Stable == \A k \in Keys : IsLocked(lock, k) /\ IsLocked(lock, k)' =>
                        lock'[k].host = lock[k].host
<1>1. ASSUME Inv, Next PROVE Stable
  <2> PICK c \in Procs : Step(c)
    BY <1>1 DEF Next
  <2> USE <1>1 DEF Inv, TypeOK, IsLocked, Row
  <2>1. CASE LockItem(c)
    BY <2>1, TakenStep DEF LockItem, BasicLock, BasicLockApplies
  <2>2. CASE RollbackItem(c)
    BY <2>2, TakenStep DEF RollbackItem, Unlock
  <2>3. ASSUME NEW k \in Keys, NEW h \in Hosts, DssLockWeak(c, k, h)
        PROVE  Stable
    BY <2>3 DEF DssLockWeak, BasicLock, BasicLockApplies
  <2>4. ASSUME NEW k \in Keys, TakeOwnership(c, k) PROVE Stable
    <3>1. lock[k] # NoLock => lock[k].host = Host[c]
      BY <2>4 DEF TakeOwnership, PossessApplies
    <3> QED BY <2>4, <3>1 DEF TakeOwnership, Possess
  <2>5. ASSUME NEW k \in Keys, DssLockSetWeak(c, k) PROVE Stable
    <3>1. lock[k] \in Rows
      BY <2>5 DEF DssLockSetWeak, SetWeakApplies, OwnedBy
    <3>2. lock'[k].host = lock[k].host
      BY <2>5, <3>1 DEF DssLockSetWeak, SetWeak, Rows
    <3>3. \A x \in Keys \ {k} : lock'[x] = lock[x]
      BY <2>5 DEF DssLockSetWeak, SetWeak
    <3> QED BY <3>2, <3>3
  <2>6. ASSUME NEW k \in Keys, DssUnlock(c, k) \/ DssUnlockForce(c, k)
        PROVE  Stable
    BY <2>6 DEF DssUnlock, DssUnlockForce, Unlock
  <2>7. CASE \/ MediaClean(c)
             \/ \E S \in SUBSET Keys, H \in SUBSET Hosts : CleanSelect(c, S, H)
    BY <2>7 DEF MediaClean, CleanSelect, DeleteRows
  <2>8. CASE lock' = lock
    BY <2>8
  <2> QED BY <2>1, <2>2, <2>3, <2>4, <2>5, <2>6, <2>7, <2>8
      DEF Step, BeginLock, LockRefused, EndLock, EndRollback, Die
<1>2. Inv /\ [Next]_vars => [Stable]_lock
  BY <1>1 DEF vars
<1> QED BY <1>2, Invariance, PTL DEF Spec, HostStable
=============================================================================
