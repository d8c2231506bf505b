------------------------------- MODULE DssLock -------------------------------
(***************************************************************************)
(* Processes of several hosts sharing the DSS lock table through the calls *)
(* of src/core/dss/dss_lock.c.  The calls are not transactions: each item  *)
(* of a list is one autocommitted statement, so that calls of different    *)
(* processes interleave item by item.                                      *)
(*                                                                         *)
(* What a process believes to hold is the outcome of its own calls: a      *)
(* successful dss_lock or dss_lock_take_ownership adds a key, dss_unlock   *)
(* and dss_lock_set_weak give it up.  The belief is wrong only when        *)
(* somebody removed the row by force or by a cleaning statement; those     *)
(* losses are recorded in robbed.                                          *)
(***************************************************************************)
EXTENDS Naturals, Sequences, DssLockTable

CONSTANTS Procs,          \* processes (daemons and command line clients)
          Hosts, Pids,
          Keys,           \* lockable (type, id) pairs
          Host, Pid,      \* the host and the pid of a process
          ItemLists       \* the lists of items given to dss_lock

ASSUME ProcAssumption ==
    /\ Host \in [Procs -> Hosts]
    /\ Pid \in [Procs -> Pids]
    /\ \A c, d \in Procs : Host[c] = Host[d] /\ Pid[c] = Pid[d] => c = d

\* A list names each item once and is not empty.
ASSUME ListAssumption ==
    /\ ItemLists \subseteq Seq(Keys)
    /\ \A s \in ItemLists :
          /\ Len(s) > 0
          /\ \A i, j \in 1..Len(s) : s[i] = s[j] => i = j

ASSUME NoLockAssumption ==
    NoLock \notin [host : Hosts, owner : Pids, weak : BOOLEAN]

VARIABLES lock,     \* the table
          call,     \* the call of _dss_lock a process is inside of
          has,      \* the keys a process believes to hold
          live,     \* processes that have not died
          robbed    \* <<process, key>>: its row was forcibly removed

vars == <<lock, call, has, live, robbed>>

Rows == [host : Hosts, owner : Pids, weak : BOOLEAN]

Idle == [op |-> "idle", ids |-> <<>>, i |-> 0]

Calls == [op : {"idle", "lock", "rollback"}, ids : ItemLists \cup {<<>>},
          i : Nat]

OwnStrong(c, k) == StrongBy(lock, k, Host[c], Pid[c])

Init ==
    /\ lock = [k \in Keys |-> NoLock]
    /\ call = [c \in Procs |-> Idle]
    /\ has = [c \in Procs |-> {}]
    /\ live = Procs
    /\ robbed = {}

Ready(c) == c \in live /\ call[c] = Idle

\* Ghost: the processes other than by that lose a strong row when the rows
\* of S are deleted.
Robbed(S, by) == {pk \in (live \ {by}) \X S : OwnStrong(pk[1], pk[2])}
-----------------------------------------------------------------------------
\* _dss_lock: the items are inserted one after the other (an accepted insert
\* of a key it believed to hold tells the process that it lost the row)...
BeginLock(c, ids) ==
    /\ Ready(c)
    /\ call' = [call EXCEPT ![c] = [op |-> "lock", ids |-> ids, i |-> 1]]
    /\ UNCHANGED <<lock, has, live, robbed>>

LockItem(c) ==
    LET k == call[c].ids[call[c].i] IN
    /\ c \in live /\ call[c].op = "lock" /\ call[c].i <= Len(call[c].ids)
    /\ BasicLockApplies(lock, k)
    /\ lock' = BasicLock(lock, k, Host[c], Pid[c], FALSE)
    /\ call' = [call EXCEPT ![c].i = @ + 1]
    /\ has' = [has EXCEPT ![c] = @ \ {k}]
    /\ robbed' = robbed \ {<<c, k>>}
    /\ UNCHANGED live

\* Mutant: the rollback starts at the refused item.
LockRefused_AtRefused(c) ==
    /\ c \in live /\ call[c].op = "lock" /\ call[c].i <= Len(call[c].ids)
    /\ ~BasicLockApplies(lock, call[c].ids[call[c].i])
    /\ call' = [call EXCEPT ![c].op = "rollback"]
    /\ UNCHANGED <<lock, has, live, robbed>>

\* ... until all are, or one is refused: dss_lock_rollback then starts at
\* the item before the refused one.
LockRefused(c) ==
    LET k == call[c].ids[call[c].i] IN
    /\ c \in live /\ call[c].op = "lock" /\ call[c].i <= Len(call[c].ids)
    /\ ~BasicLockApplies(lock, k)
    /\ call' = [call EXCEPT ![c].op = "rollback", ![c].i = @ - 1]
    /\ UNCHANGED <<lock, has, live, robbed>>

EndLock(c) ==
    /\ c \in live /\ call[c].op = "lock" /\ call[c].i > Len(call[c].ids)
    /\ has' = [has EXCEPT ![c] =
                 @ \cup {call[c].ids[i] : i \in 1..Len(call[c].ids)}]
    /\ call' = [call EXCEPT ![c] = Idle]
    /\ UNCHANGED <<lock, live, robbed>>

\* dss_lock_rollback forces the unlock of what was taken, whoever has it.
\* If c was itself robbed of the item, the next holder may suffer in turn.
RollbackItem(c) ==
    LET k == call[c].ids[call[c].i] IN
    /\ c \in live /\ call[c].op = "rollback" /\ call[c].i >= 1
    /\ lock' = Unlock(lock, k)
    /\ call' = [call EXCEPT ![c].i = @ - 1]
    /\ robbed' = IF <<c, k>> \in robbed
                 THEN (robbed \ {<<c, k>>}) \cup Robbed({k}, c) ELSE robbed
    /\ UNCHANGED <<has, live>>

\* Mutant: the loop stops before the first item.
EndRollback_SkipFirst(c) ==
    /\ c \in live /\ call[c].op = "rollback" /\ call[c].i <= 1
    /\ call' = [call EXCEPT ![c] = Idle]
    /\ UNCHANGED <<lock, has, live, robbed>>

EndRollback(c) ==
    /\ c \in live /\ call[c].op = "rollback" /\ call[c].i = 0
    /\ call' = [call EXCEPT ![c] = Idle]
    /\ UNCHANGED <<lock, has, live, robbed>>

\* dss_lock_weak, always called with one item: a row for the host h, owned
\* by the pid of the caller; nothing is to be rolled back.
DssLockWeak(c, k, h) ==
    /\ Ready(c)
    /\ BasicLockApplies(lock, k)
    /\ lock' = BasicLock(lock, k, h, Pid[c], TRUE)
    /\ UNCHANGED <<call, has, live, robbed>>

\* dss_lock_take_ownership.  The items of the remaining calls do not depend
\* on each other (as-much-as-possible policy): one action per item.
TakeOwnership(c, k) ==
    /\ Ready(c)
    /\ PossessApplies(lock, k, Host[c])
    /\ lock' = Possess(lock, k, Host[c], Pid[c])
    /\ has' = [has EXCEPT ![c] = @ \cup {k}]
    /\ robbed' = robbed \ {<<c, k>>}
    /\ UNCHANGED <<call, live>>

DssLockSetWeak(c, k) ==
    /\ Ready(c)
    /\ SetWeakApplies(lock, k, Host[c], Pid[c])
    /\ lock' = SetWeak(lock, k)
    /\ has' = [has EXCEPT ![c] = @ \ {k}]
    /\ robbed' = robbed \ {<<c, k>>}
    /\ UNCHANGED <<call, live>>

\* dss_unlock without force.  A process that is refused (-ENOLCK) knows that
\* it does not hold the lock.
DssUnlock(c, k) ==
    /\ Ready(c)
    /\ lock' = IF UnlockApplies(lock, k, Host[c], Pid[c])
               THEN Unlock(lock, k) ELSE lock
    /\ has' = [has EXCEPT ![c] = @ \ {k}]
    /\ robbed' = robbed \ {<<c, k>>}
    /\ UNCHANGED <<call, live>>

DssUnlockForce(c, k) ==
    /\ Ready(c)
    /\ robbed' = (robbed \ {<<c, k>>}) \cup Robbed({k}, c)
    /\ lock' = Unlock(lock, k)
    /\ has' = [has EXCEPT ![c] = @ \ {k}]
    /\ UNCHANGED <<call, live>>

\* dss_lock_media_clean: the rows another process of this host left behind,
\* or still uses.
MediaClean(c) ==
    LET S == MediaCleanRows(lock, Keys, Host[c], Pid[c]) IN
    /\ Ready(c)
    /\ robbed' = robbed \cup Robbed(S, c)
    /\ lock' = DeleteRows(lock, S)
    /\ UNCHANGED <<call, has, live>>

\* dss_lock_clean_select: rows chosen by id and, optionally, by host.
CleanSelect(c, ids, hosts) ==
    LET S == {k \in ids : IsLocked(lock, k) /\ lock[k].host \in hosts} IN
    /\ Ready(c)
    /\ robbed' = robbed \cup Robbed(S, c)
    /\ lock' = DeleteRows(lock, S)
    /\ has' = [has EXCEPT ![c] = @ \ S]
    /\ UNCHANGED <<call, live>>

\* A process dies between two statements: its rows stay.
Die(c) ==
    /\ c \in live
    /\ live' = live \ {c}
    /\ call' = [call EXCEPT ![c] = Idle]
    /\ has' = [has EXCEPT ![c] = {}]
    /\ robbed' = {pk \in robbed : pk[1] # c}
    /\ UNCHANGED lock

Step(c) ==
    \/ \E ids \in ItemLists : BeginLock(c, ids)
    \/ LockItem(c)
    \/ LockRefused(c)
    \/ EndLock(c)
    \/ RollbackItem(c)
    \/ EndRollback(c)
    \/ \E k \in Keys :
          \/ \E h \in Hosts : DssLockWeak(c, k, h)
          \/ TakeOwnership(c, k)
          \/ DssLockSetWeak(c, k)
          \/ DssUnlock(c, k)
          \/ DssUnlockForce(c, k)
    \/ MediaClean(c)
    \/ \E ids \in SUBSET Keys, hosts \in SUBSET Hosts :
          CleanSelect(c, ids, hosts)
    \/ Die(c)

Next == \E c \in Procs : Step(c)

Spec == Init /\ [][Next]_vars
-----------------------------------------------------------------------------
\* The shape of the table, of the calls in progress and of the beliefs.
TypeOK ==
    /\ lock \in [Keys -> Rows \cup {NoLock}]
    /\ call \in [Procs -> Calls]
    /\ has \in [Procs -> SUBSET Keys]
    /\ live \subseteq Procs
    /\ robbed \subseteq Procs \X Keys

\* The items a process has inserted in its unfinished call of _dss_lock.
TakenUpTo(c) == IF call[c].op = "lock" THEN call[c].i - 1 ELSE call[c].i
Taken(c) == {call[c].ids[j] : j \in 1..TakenUpTo(c)}

\* What a process was told it locked is really its row in the table, strong,
\* whatever the interleaving of the statements of dss_lock, its rollback,
\* dss_lock_take_ownership and dss_unlock of all the others; only a forced
\* unlock or a cleaning statement can make it wrong.
HeldIsRow ==
    \A c \in live : \A k \in has[c] \cup Taken(c) :
        <<c, k>> \notin robbed => OwnStrong(c, k)

\* Two processes never both hold the same key, unless one was robbed.
Exclusive ==
    \A c, d \in live : \A k \in has[c] \cap has[d] :
        c = d \/ <<c, k>> \in robbed \/ <<d, k>> \in robbed

\* The all-or-nothing policy of _dss_lock: outside of a call, a living
\* process owns no strong row that it was not told about; a refused call
\* leaves none of its rows behind.
NoStrayRow ==
    \A c \in live : \A k \in Keys :
        OwnStrong(c, k) => k \in has[c] \cup Taken(c)

\* dss_lock_take_ownership changes the owner of a row, never its host: a
\* medium located for a host is not taken away by another one.
HostStable ==
    [][\A k \in Keys : IsLocked(lock, k) /\ IsLocked(lock, k)' =>
          lock'[k].host = lock[k].host]_lock
=============================================================================
