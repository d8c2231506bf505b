---------------------------- MODULE DssLockTable ----------------------------
(***************************************************************************)
(* The lock table of the DSS (src/core/dss/dss_lock.c) as a value: a       *)
(* function from lock keys to rows.  A key stands for the primary key      *)
(* (type, id) of the SQL table.  Each operator below is one SQL statement, *)
(* executed atomically by the database.  The columns timestamp and         *)
(* last_locate carry no exclusion and are left out.                        *)
(*                                                                         *)
(* Operators named ...Applies say whether the statement affects a row; a   *)
(* statement that affects none makes its caller return -ENOLCK (-EEXIST    *)
(* for the INSERT).                                                        *)
(***************************************************************************)

CONSTANT NoLock          \* the absence of a row

Row(h, p, weak) == [host |-> h, owner |-> p, weak |-> weak]

IsLocked(T, k) == T[k] # NoLock

OwnedBy(T, k, h, p) == IsLocked(T, k) /\ T[k].host = h /\ T[k].owner = p

StrongBy(T, k, h, p) == OwnedBy(T, k, h, p) /\ ~T[k].weak

\* INSERT INTO lock: refused by the primary key when a row exists.
BasicLockApplies(T, k) == ~IsLocked(T, k)
BasicLock(T, k, h, p, weak) == [T EXCEPT ![k] = Row(h, p, weak)]

\* Mutant: the WHERE clause of the update forgets one of its conditions.
PossessApplies_NotWeak(T, k, h) == IsLocked(T, k) => T[k].host = h
\* POSSESS_LOCK: insert, or on conflict take over a weak row of this host.
\* The hostname of an updated row is kept.
PossessApplies(T, k, h) == IsLocked(T, k) => T[k].weak /\ T[k].host = h
Possess(T, k, h, p) == [T EXCEPT ![k] = Row(h, p, FALSE)]

\* WEAK_LOCK: the owner declares that its row may be taken over.
SetWeakApplies(T, k, h, p) == OwnedBy(T, k, h, p)
SetWeak(T, k) == [T EXCEPT ![k].weak = TRUE]

\* DELETE: a row is deleted by its owner, by anyone if it is weak, and
\* unconditionally when forced.
UnlockApplies(T, k, h, p) ==
    OwnedBy(T, k, h, p) \/ (IsLocked(T, k) /\ T[k].weak)
Unlock(T, k) == [T EXCEPT ![k] = NoLock]

\* The bulk DELETE statements: all the rows of S.
DeleteRows(T, S) == [k \in DOMAIN T |-> IF k \in S THEN NoLock ELSE T[k]]

\* DSS_CLEAN_MEDIA_QUERY: rows of this host left by another owner.  The list of
\* media to keep has no effect: it holds names, and the ids of the table are
\* made of a name and a library.
MediaCleanRows(T, K, h, p) ==
    {k \in K : IsLocked(T, k) /\ T[k].host = h /\ T[k].owner # p}

\* DSS_CLEAN_DEVICE_QUERY: rows of this host on devices of the family K that
\* are now attached to another host, or left by another owner.
DeviceCleanRows(T, K, h, p, deviceHost) ==
    {k \in K : /\ IsLocked(T, k) /\ T[k].host = h
               /\ deviceHost[k] # h \/ T[k].owner # p}
=============================================================================
