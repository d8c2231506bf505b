---------------------------- MODULE ObjectStore ----------------------------
(***************************************************************************)
(* The operations of the store (src/store/store.c) on the object tables of *)
(* the DSS.  Clients are processes that use the library; each of their     *)
(* steps is one SQL transaction, so the steps of two clients interleave    *)
(* between transactions, and a client may die between two of them.  Some   *)
(* operations hold the lock of an oid (a row of the lock table): a client  *)
(* that finds the oid locked fails at once.  The data transfer itself is   *)
(* one step that succeeds or fails.                                        *)
(*                                                                         *)
(* cl[c] is the local state of the operation of client c: pc is the next   *)
(* step, the other fields are the local variables of the C functions.      *)
(***************************************************************************)
EXTENDS DssTables

CONSTANTS Clients, Ops,    \* the operations this instance lets clients call
          MaxOps,          \* bound on the operations called
          MaxCrash,        \* bound on the clients that die
          Free, Dead       \* lock values: no row, the row of a dead client

\* Each operation writes at most one extent.
ASSUME StoreAssumption ==
    /\ MaxOps \in Nat /\ MaxOps <= MaxExtent /\ MaxCrash \in Nat
    /\ Free # Dead /\ Free \notin Clients /\ Dead \notin Clients

VARIABLES db, lock, cl, nuuid, nops, crashes,
          acked,    \* copies whose put or copy was reported successful
          erased,   \* copies that a hard delete, the cleaner or a rollback began to erase
          leaked    \* <<client, oid>>: locks a failed rename left behind

vars == <<db, lock, cl, nuuid, nops, crashes, acked, erased, leaked>>

AllOps == {"put", "overwrite", "copy", "delete", "undelete", "erase",
           "erasecopy", "clean", "rename", "setmd", "rebuild"}

Idle == [op |-> "none", pc |-> "idle", o |-> NoRow, p |-> NoRow, n |-> NoRow,
         u |-> 0, v |-> 0, x |-> 0, old |-> 0, more |-> FALSE, S |-> {}]

Init ==
    /\ db = EmptyDb
    /\ lock = [o \in Oids |-> Free]
    /\ cl = [c \in Clients |-> Idle]
    /\ nuuid = 0 /\ nops = 0 /\ crashes = 0
    /\ acked = {} /\ erased = {} /\ leaked = {}

Key(c) == <<cl[c].u, cl[c].v, cl[c].n>>

-----------------------------------------------------------------------------
(* Shapes of a step.  At(c, here): client c is at step here.               *)

At(c, here) == cl[c].pc = here
To(c, there) == cl' = [cl EXCEPT ![c].pc = there]
ToWith(c, there, f) == cl' = [cl EXCEPT ![c] = [f EXCEPT !.pc = there]]
End(c) == cl' = [cl EXCEPT ![c] = Idle]

NoDb == UNCHANGED <<db, acked, erased>>
NoLock == UNCHANGED <<lock, leaked>>
NoCount == UNCHANGED <<nuuid, nops, crashes>>

Call(c, op, rec) ==
    /\ At(c, "idle") /\ op \in Ops /\ nops < MaxOps
    /\ nops' = nops + 1
    /\ cl' = [cl EXCEPT ![c] = [rec EXCEPT !.op = op, !.x = nops + 1]]
    /\ UNCHANGED <<db, lock, nuuid, crashes, acked, erased, leaked>>

\* dss_lock on an oid, by one INSERT: on conflict the operation gives up.
TakeLock(c, here, o, there) ==
    /\ At(c, here)
    /\ \/ /\ lock[o] = Free
          /\ lock' = [lock EXCEPT ![o] = c]
          /\ To(c, there)
       \/ lock[o] # Free /\ UNCHANGED lock /\ End(c)
    /\ NoDb /\ NoCount /\ UNCHANGED leaked

\* dss_unlock: the row is deleted if this client owns it.
DropLock(c, here, o, there) ==
    /\ At(c, here)
    /\ lock' = [lock EXCEPT ![o] = IF @ = c THEN Free ELSE @]
    /\ leaked' = leaked \ {<<c, o>>}
    /\ IF there = "idle" THEN End(c) ELSE To(c, there)
    /\ NoDb /\ NoCount

\* A transaction of client c: newDb if it commits, and the step that follows.
Txn(c, here, applies, newDb, there, otherwise) ==
    /\ At(c, here)
    /\ IF applies THEN db' = newDb ELSE UNCHANGED db
    /\ LET next == IF applies THEN there ELSE otherwise
       IN  IF next = "idle" THEN End(c) ELSE To(c, next)
    /\ NoLock /\ NoCount

-----------------------------------------------------------------------------
(* Put: object_md_save, the transfer, then store_end_encoder_xfer.         *)

CallPut(c) ==
    \E o \in Oids, n \in Names, over \in BOOLEAN :
        Call(c, IF over THEN "overwrite" ELSE "put",
             [Idle EXCEPT !.pc = "save_lock", !.o = o, !.n = n])

SaveLock(c) ==
    TakeLock(c, "save_lock", cl[c].o,
             IF cl[c].op = "overwrite" THEN "save_get" ELSE "save_insert")

\* dss_object_get in the overwrite branch.
SaveGet(c) ==
    /\ At(c, "save_get")
    /\ LET row == db.object[cl[c].o]
       IN  IF row = NoRow THEN To(c, "save_insert")
           ELSE ToWith(c, "save_move",
                       [cl[c] EXCEPT !.u = row.uuid, !.v = row.version])
    /\ NoDb /\ NoLock /\ NoCount

\* A new object: a fresh uuid, version 1.
SaveInsert(c) ==
    /\ At(c, "save_insert") /\ nuuid < MaxUuid
    /\ LET u == nuuid + 1 IN
       IF ObjectInsertApplies(db, cl[c].o, u)
       THEN /\ db' = ObjectInsert(db, cl[c].o, u, 1)
            /\ nuuid' = u
            /\ To(c, "save_copy")
       ELSE UNCHANGED <<db, nuuid>> /\ To(c, "save_unlock_failed")
    /\ NoLock /\ UNCHANGED <<nops, crashes, acked, erased>>

SaveMove(c) ==
    /\ Txn(c, "save_move", ToDeprecatedApplies(db, cl[c].o),
           ToDeprecated(db, cl[c].o), "save_full_insert", "save_unlock_failed")
    /\ UNCHANGED <<acked, erased>>

\* The next version of the object, in a second transaction.
SaveFullInsert(c) ==
    /\ cl[c].v < MaxVersion
    /\ Txn(c, "save_full_insert", ObjectInsertApplies(db, cl[c].o, cl[c].u),
           ObjectInsert(db, cl[c].o, cl[c].u, cl[c].v + 1),
           "save_copy", "save_unlock_failed")
    /\ UNCHANGED <<acked, erased>>

\* Mutant: the error path of the copy insertion returns without unlocking.
SaveCopy_NoUnlock(c) ==
    /\ At(c, "save_copy")
    /\ LET row == db.object[cl[c].o]
           k == <<row.uuid, row.version, cl[c].n>>
           f == [cl[c] EXCEPT !.u = row.uuid, !.v = row.version]
       IN  IF row # NoRow /\ CopyInsertApplies(db, k)
           THEN db' = CopyInsert(db, k) /\ ToWith(c, "save_unlock", f)
           ELSE UNCHANGED db /\ End(c)
    /\ NoLock /\ NoCount /\ UNCHANGED <<acked, erased>>

\* out_update: the row is read again by its oid, and its copy inserted.
SaveCopy(c) ==
    /\ At(c, "save_copy")
    /\ LET row == db.object[cl[c].o]
           k == <<row.uuid, row.version, cl[c].n>>
           f == [cl[c] EXCEPT !.u = row.uuid, !.v = row.version]
       IN  IF row # NoRow /\ CopyInsertApplies(db, k)
           THEN db' = CopyInsert(db, k) /\ ToWith(c, "save_unlock", f)
           ELSE UNCHANGED db /\ To(c, "save_unlock_failed")
    /\ NoLock /\ NoCount /\ UNCHANGED <<acked, erased>>

SaveUnlock(c) ==
    \/ DropLock(c, "save_unlock", cl[c].o, "io")
    \/ DropLock(c, "save_unlock_failed", cl[c].o, "idle")

\* The transfer of the data: its extents are written to media, or not.
\* After a failure the metadata of the put, or the row of the copy, is
\* undone; a failed rebuild or erasure leaves the tables as they are.
Transfer(c) ==
    /\ At(c, "io")
    /\ \/ To(c, CASE cl[c].op \in {"erase", "erasecopy", "clean"} -> "layout_delete"
                  [] OTHER -> "extent_insert")
       \/ CASE cl[c].op \in {"put", "overwrite"} -> To(c, "del_lock")
            [] cl[c].op = "copy" -> To(c, "copy_undo")
            [] OTHER -> End(c)
    /\ NoDb /\ NoLock /\ NoCount

\* The extent of operation number x is extent x.
EndExtent(c) ==
    /\ Txn(c, "extent_insert", TRUE, ExtentInsert(db, cl[c].x),
           IF cl[c].op = "rebuild" THEN "migrate" ELSE "layout_insert", "idle")
    /\ UNCHANGED <<acked, erased>>

\* Mutant: the copy is declared complete before its layout is inserted.
EndLayout_CompleteFirst(c) ==
    /\ Txn(c, "layout_insert", TRUE, CopyUpdate(db, Key(c), "complete"),
           "copy_complete", "extent_orphan")
    /\ UNCHANGED <<acked, erased>>

EndLayout(c) ==
    /\ Txn(c, "layout_insert", LayoutInsertApplies(db, Key(c)),
           LayoutInsert(db, Key(c), cl[c].x), "copy_complete", "extent_orphan")
    /\ UNCHANGED <<acked, erased>>

\* The layout could not be saved.  xt_rc is not set by this failure, so that
\* store_end_xfer undoes the row of a copy but not the metadata of a put.
EndOrphan(c) ==
    /\ Txn(c, "extent_orphan", TRUE, ExtentUpdate(db, cl[c].x, "orphan"),
           IF cl[c].op = "copy" THEN "copy_undo" ELSE "idle", "idle")
    /\ UNCHANGED <<acked, erased>>

EndComplete(c) ==
    /\ Txn(c, "copy_complete", TRUE, CopyUpdate(db, Key(c), "complete"),
           "idle", "idle")
    /\ acked' = acked \cup {Key(c)}
    /\ UNCHANGED erased

-----------------------------------------------------------------------------
(* object_md_del: the rollback of a failed put, by oid.                    *)

DelLock(c) == TakeLock(c, "del_lock", cl[c].o, "del_get")

\* The reads of the rollback: the object that has the oid now, its previous
\* version, its copy and the layout of this copy.
DelGet(c) ==
    /\ At(c, "del_get")
    /\ LET row == db.object[cl[c].o]
           k == <<row.uuid, row.version, cl[c].n>>
           f == [cl[c] EXCEPT !.u = row.uuid, !.v = row.version,
                    !.more = IsDeprecated(db, row.uuid, row.version - 1)]
       IN  IF row # NoRow /\ k \in DOMAIN db.copy /\ ~HasLayout(db, k)
           THEN ToWith(c, "del_copy", f)
           ELSE To(c, "del_unlock")
    /\ NoDb /\ NoLock /\ NoCount

DelCopy(c) ==
    /\ Txn(c, "del_copy", TRUE, CopyDelete(db, Key(c)), "del_object", "idle")
    /\ UNCHANGED <<acked, erased>>

\* The row is deleted by its oid: it need not be the one that was read, since
\* a hard delete moves objects without a lock and an undelete brings back the
\* versions of an object that was renamed under the lock of its old name.
DelObject(c) ==
    /\ Txn(c, "del_object", TRUE, ObjectDelete(db, cl[c].o),
           IF cl[c].more THEN "del_move" ELSE "del_unlock", "idle")
    /\ LET row == db.object[cl[c].o] IN
       erased' = IF row = NoRow THEN erased
                 ELSE erased \cup {<<row.uuid, row.version, cl[c].n>>}
    /\ UNCHANGED acked

DelMove(c) ==
    /\ Txn(c, "del_move", ToObjectApplies(db, cl[c].u, cl[c].v - 1),
           ToObject(db, cl[c].u, cl[c].v - 1), "del_unlock", "del_unlock")
    /\ UNCHANGED <<acked, erased>>

DelUnlock(c) == DropLock(c, "del_unlock", cl[c].o, "idle")

-----------------------------------------------------------------------------
(* Copy and rebuild: the source is found without a lock.                   *)

CallCopy(c) ==
    \E o \in Oids, n \in Names :
        /\ Alive(db, o)
        /\ LET row == db.object[o] IN
           \E k \in LazyCopies(db, row.uuid, row.version) :
              /\ db.copy[k] # "incomplete" /\ HasLayout(db, k)
              /\ Call(c, "copy", [Idle EXCEPT !.pc = "copy_insert", !.o = o,
                        !.n = n, !.u = row.uuid, !.v = row.version])

CopyInsertStep(c) ==
    /\ Txn(c, "copy_insert", CopyInsertApplies(db, Key(c)),
           CopyInsert(db, Key(c)), "io", "idle")
    /\ UNCHANGED <<acked, erased>>

\* store_end_xfer of a failed copy.
CopyUndo(c) ==
    /\ Txn(c, "copy_undo", TRUE, CopyDelete(db, Key(c)), "idle", "idle")
    /\ UNCHANGED <<acked, erased>>

\* phobos_copy_rebuild of an extent of a copy that is not incomplete.
CallRebuild(c) ==
    \E o \in Oids :
        /\ Alive(db, o)
        /\ LET row == db.object[o] IN
           \E k \in LazyCopies(db, row.uuid, row.version) :
              /\ db.copy[k] # "incomplete" /\ HasLayout(db, k)
              /\ Call(c, "rebuild", [Idle EXCEPT !.pc = "io", !.o = o,
                        !.n = k[3], !.u = row.uuid, !.v = row.version,
                        !.old = db.layout[k]])

\* store_end_rebuilder_xfer: the layout follows the rebuilt extent.
Migrate(c) ==
    /\ Txn(c, "migrate", TRUE,
           ExtentMigrate(db, cl[c].old, cl[c].x),
           "copy_status", "idle")
    /\ UNCHANGED <<acked, erased>>

RebuiltStatus(c) ==
    /\ Txn(c, "copy_status", TRUE, CopyUpdate(db, Key(c), "complete"),
           "idle", "idle")
    /\ UNCHANGED <<acked, erased>>

-----------------------------------------------------------------------------
(* Delete and undelete: the object changes table.                          *)

CallDelete(c) ==
    \E o \in Oids :
        Call(c, "delete", [Idle EXCEPT !.pc = "delete_lock", !.o = o])

DeleteLock(c) == TakeLock(c, "delete_lock", cl[c].o, "delete_get")

DeleteGet(c) ==
    /\ At(c, "delete_get")
    /\ To(c, IF Alive(db, cl[c].o) THEN "delete_move" ELSE "delete_unlock")
    /\ NoDb /\ NoLock /\ NoCount

DeleteMove(c) ==
    /\ Txn(c, "delete_move", ToDeprecatedApplies(db, cl[c].o),
           ToDeprecated(db, cl[c].o), "delete_unlock", "delete_unlock")
    /\ UNCHANGED <<acked, erased>>

DeleteUnlock(c) == DropLock(c, "delete_unlock", cl[c].o, "idle")

\* The deprecated object is found before its oid is locked.
CallUndelete(c) ==
    \E o \in Oids, u \in Uuids : \E r \in LatestDeprecated(db, o, u) :
        Call(c, "undelete", [Idle EXCEPT !.pc = "undelete_lock", !.o = o,
                                !.u = u, !.v = r.version])

UndeleteLock(c) == TakeLock(c, "undelete_lock", cl[c].o, "undelete_get")

UndeleteGet(c) ==
    /\ At(c, "undelete_get")
    /\ To(c, IF Alive(db, cl[c].o) THEN "delete_unlock" ELSE "undelete_move")
    /\ NoDb /\ NoLock /\ NoCount

UndeleteMove(c) ==
    /\ Txn(c, "undelete_move", ToObjectApplies(db, cl[c].u, cl[c].v),
           ToObject(db, cl[c].u, cl[c].v), "delete_unlock", "delete_unlock")
    /\ UNCHANGED <<acked, erased>>

-----------------------------------------------------------------------------
(* Hard delete of an object or of one copy, and the cleaner of incomplete  *)
(* copies.  No lock: what init_enc_or_dec reads decides, and the tables    *)
(* are emptied one transaction at a time once the data are erased.         *)

EraseRec(o, k, all) ==
    [Idle EXCEPT !.pc = IF HasLayout(db, k) THEN "io" ELSE "copy_delete",
        !.o = o, !.n = k[3], !.u = k[1], !.v = k[2], !.more = all,
        !.old = IF HasLayout(db, k) THEN db.layout[k] ELSE 0]

\* get_and_check_copy: the last copy of an object is deleted only with it,
\* and an object only with its last copy.  copy_count >= 1 is an assertion.
CallErase(c) ==
    \E o \in Oids :
        /\ Alive(db, o)
        /\ LET C == CopiesOf(db, db.object[o].uuid, db.object[o].version) IN
           \/ /\ Cardinality(C) = 1
              /\ \E k \in C : Call(c, "erase", EraseRec(o, k, TRUE))
           \/ /\ Cardinality(C) > 1
              /\ \E k \in C : Call(c, "erasecopy", EraseRec(o, k, FALSE))

\* phobos_delete_incomplete_copy, on one copy.  Without layout nor object
\* only the row of the copy is deleted.
CallClean(c) ==
    \E k \in DOMAIN db.copy :
        /\ db.copy[k] = "incomplete"
        /\ LET alone == CopiesOf(db, k[1], k[2]) = {k}
               alive == {o \in Oids : Alive(db, o) /\
                            db.object[o] = [uuid |-> k[1], version |-> k[2]]}
               depr == {r.oid : r \in {d \in DeprecatedOf(db, k[1]) :
                                            d.version = k[2]}}
           IN  \/ \E o \in alive \cup depr :
                    Call(c, "clean", EraseRec(o, k, alone))
               \/ /\ alive \cup depr = {} /\ ~HasLayout(db, k)
                  /\ Call(c, "clean", [EraseRec(NoRow, k, FALSE)
                                          EXCEPT !.pc = "copy_delete"])

EraseLayout(c) ==
    /\ Txn(c, "layout_delete", TRUE,
           LayoutDelete(db, Key(c), cl[c].old),
           "extent_delete", "idle")
    /\ erased' = erased \cup {Key(c)}
    /\ UNCHANGED acked

\* Tapes keep the extent, as an orphan; elsewhere its row goes too.
EraseExtent(c) ==
    /\ \E tape \in BOOLEAN :
        LET e == cl[c].old IN
        Txn(c, "extent_delete", TRUE,
            IF tape THEN ExtentUpdate(db, e, "orphan") ELSE ExtentDelete(db, e),
            "copy_delete", "idle")
    /\ UNCHANGED <<acked, erased>>

EraseCopy(c) ==
    /\ Txn(c, "copy_delete", TRUE, CopyDelete(db, Key(c)),
           IF cl[c].more THEN "erase_move" ELSE "idle", "idle")
    /\ erased' = erased \cup {Key(c)}
    /\ UNCHANGED acked

\* The object that has the oid now is moved, then the erased version deleted.
EraseMove(c) ==
    /\ Txn(c, "erase_move", ToDeprecatedApplies(db, cl[c].o),
           ToDeprecated(db, cl[c].o), "erase_object", "idle")
    /\ UNCHANGED <<acked, erased>>

EraseObject(c) ==
    /\ Txn(c, "erase_object", TRUE, DeprecatedDelete(db, cl[c].u, cl[c].v),
           "idle", "idle")
    /\ UNCHANGED <<acked, erased>>

-----------------------------------------------------------------------------
(* Rename and setmd.                                                       *)

CallRename(c) ==
    \E o, p \in Oids :
        /\ o # p /\ Alive(db, o)
        /\ LET u == db.object[o].uuid IN
           Call(c, "rename", [Idle EXCEPT !.pc = "rename_lock", !.o = o, !.p = p,
                !.u = u, !.S = {<<r.uuid, r.version>> : r \in DeprecatedOf(db, u)}])

RenameLock(c) == TakeLock(c, "rename_lock", cl[c].o, "rename_lock_new")

\* On a locked new name, the lock of the old name is not given back.
RenameLockNew(c) ==
    /\ At(c, "rename_lock_new")
    /\ \/ /\ lock[cl[c].p] = Free
          /\ lock' = [lock EXCEPT ![cl[c].p] = c]
          /\ To(c, "rename_update")
          /\ UNCHANGED leaked
       \/ /\ lock[cl[c].p] # Free
          /\ leaked' = leaked \cup {<<c, cl[c].o>>}
          /\ End(c) /\ UNCHANGED lock
    /\ NoDb /\ NoCount

\* A rename that the table refuses leaves both names locked.
RenameUpdate(c) ==
    /\ At(c, "rename_update")
    /\ IF RenameApplies(db, cl[c].u, cl[c].p)
       THEN /\ db' = Rename(db, cl[c].u, cl[c].S, cl[c].p)
            /\ To(c, "rename_unlock") /\ UNCHANGED leaked
       ELSE /\ leaked' = leaked \cup {<<c, cl[c].o>>, <<c, cl[c].p>>}
            /\ End(c) /\ UNCHANGED db
    /\ UNCHANGED <<lock, acked, erased>> /\ NoCount

\* Forced unlocks, one after the other.
RenameUnlock(c) ==
    \/ DropLock(c, "rename_unlock", cl[c].o, "rename_unlock_new")
    \/ DropLock(c, "rename_unlock_new", cl[c].p, "idle")

CallSetmd(c) ==
    \E o \in Oids : Call(c, "setmd", [Idle EXCEPT !.pc = "setmd_lock", !.o = o])

\* The user metadata of the row are not modelled, the lock is.
Setmd(c) ==
    \/ TakeLock(c, "setmd_lock", cl[c].o, "setmd_update")
    \/ DropLock(c, "setmd_update", cl[c].o, "idle")

-----------------------------------------------------------------------------
(* Faults.  A client that dies leaves its rows; `phobos lock clean' is the *)
(* only way to remove the lock rows it owned or that a rename left.        *)

Crash(c) ==
    /\ ~At(c, "idle") /\ crashes < MaxCrash
    /\ crashes' = crashes + 1
    /\ lock' = [o \in Oids |-> IF lock[o] = c THEN Dead ELSE lock[o]]
    /\ leaked' = {l \in leaked : l[1] # c}
    /\ End(c) /\ NoDb /\ UNCHANGED <<nuuid, nops>>

CleanLocks ==
    /\ \E o \in Oids :
        /\ lock[o] = Dead \/ \E c \in Clients : <<c, o>> \in leaked
        /\ lock' = [lock EXCEPT ![o] = Free]
        /\ leaked' = {l \in leaked : l[2] # o}
    /\ UNCHANGED cl /\ NoDb /\ NoCount

-----------------------------------------------------------------------------

CallStep(c) ==
    \/ CallPut(c) \/ CallCopy(c) \/ CallRebuild(c) \/ CallDelete(c)
    \/ CallUndelete(c) \/ CallErase(c) \/ CallClean(c) \/ CallRename(c)
    \/ CallSetmd(c)

RunStep(c) ==
    \/ SaveLock(c) \/ SaveGet(c) \/ SaveInsert(c) \/ SaveMove(c)
    \/ SaveFullInsert(c) \/ SaveCopy(c) \/ SaveUnlock(c) \/ Transfer(c)
    \/ EndExtent(c) \/ EndLayout(c) \/ EndOrphan(c) \/ EndComplete(c)
    \/ DelLock(c) \/ DelGet(c) \/ DelCopy(c) \/ DelObject(c) \/ DelMove(c)
    \/ DelUnlock(c) \/ CopyInsertStep(c) \/ CopyUndo(c) \/ Migrate(c)
    \/ RebuiltStatus(c) \/ DeleteLock(c) \/ DeleteGet(c) \/ DeleteMove(c)
    \/ DeleteUnlock(c) \/ UndeleteLock(c) \/ UndeleteGet(c)
    \/ UndeleteMove(c) \/ EraseLayout(c) \/ EraseExtent(c) \/ EraseCopy(c)
    \/ EraseMove(c) \/ EraseObject(c) \/ RenameLock(c) \/ RenameLockNew(c)
    \/ RenameUpdate(c) \/ RenameUnlock(c) \/ Setmd(c)

Next == CleanLocks \/ \E c \in Clients : CallStep(c) \/ RunStep(c) \/ Crash(c)

Spec == Init /\ [][Next]_vars

-----------------------------------------------------------------------------
(* Properties *)

Pcs == {"idle", "save_lock", "save_get", "save_insert", "save_move",
        "save_full_insert", "save_copy", "save_unlock", "save_unlock_failed",
        "io", "extent_insert", "layout_insert", "extent_orphan",
        "copy_complete", "del_lock", "del_get", "del_copy", "del_object",
        "del_move", "del_unlock", "copy_insert", "copy_undo", "migrate",
        "copy_status", "delete_lock", "delete_get", "delete_move",
        "delete_unlock", "undelete_lock", "undelete_get", "undelete_move",
        "layout_delete", "extent_delete", "copy_delete", "erase_move",
        "erase_object", "rename_lock", "rename_lock_new", "rename_update",
        "rename_unlock", "rename_unlock_new", "setmd_lock", "setmd_update"}

LocalType ==
    [op: AllOps \cup {"none"}, pc: Pcs, o: Oids \cup {NoRow},
     p: Oids \cup {NoRow}, n: Names \cup {NoRow}, u: 0..MaxUuid,
     v: 0..MaxVersion, x: 0..MaxExtent, old: 0..MaxExtent, more: BOOLEAN,
     S: SUBSET (Uuids \X Versions)]

\* The tables, the locks and the local variables of the clients have the
\* types of the schema and of the structures of store.c.
TypeOK ==
    /\ DbTypeOK(db)
    /\ lock \in [Oids -> Clients \cup {Free, Dead}]
    /\ cl \in [Clients -> LocalType]
    /\ nuuid \in 0..MaxUuid /\ nops \in 0..MaxOps /\ crashes \in 0..MaxCrash
    /\ acked \subseteq CopyKeys /\ erased \subseteq CopyKeys
    /\ leaked \subseteq Clients \X Oids

\* A copy whose status is complete has a layout, unless a hard delete or the
\* cleaner began to erase it: whatever client dies, and whatever clients run
\* between the transactions of store_end_encoder_xfer and
\* store_end_rebuilder_xfer, a get never meets a complete copy with no layout,
\* nor a row that is not of its table's type.
CompleteHasLayout ==
    /\ TypeOK
    /\ \A k \in DOMAIN db.copy :
         db.copy[k] = "complete" => HasLayout(db, k) \/ k \in erased

\* A layout names an extent that exists and is not orphan: a rebuild, an
\* erasure and a put that run at the same time never leave an object whose
\* data the garbage collection of a tape may drop.
ReferencedSync ==
    \A k \in DOMAIN db.layout :
        LET x == db.layout[k]
        IN  x \in DOMAIN db.extent /\ db.extent[x] = "sync"

\* The steps between dss_lock and dss_unlock on oid o.
InSection(c, o) ==
    \/ /\ cl[c].o = o
       /\ cl[c].pc \in {"save_get", "save_insert", "save_move",
            "save_full_insert", "save_copy", "save_unlock",
            "save_unlock_failed", "del_get", "del_copy", "del_object",
            "del_move", "del_unlock", "delete_get", "delete_move",
            "delete_unlock", "undelete_get", "undelete_move",
            "rename_lock_new", "rename_update", "rename_unlock",
            "setmd_update"}
    \/ /\ cl[c].p = o
       /\ cl[c].pc \in {"rename_update", "rename_unlock", "rename_unlock_new"}

\* A live client owns the lock of an oid exactly while it is in a critical
\* section on it, or after one of its renames failed: every other error path
\* of store.c gives the lock back, and no client loses a lock it relies on.
LockIffSection ==
    \A o \in Oids, c \in Clients :
        lock[o] = c <=> InSection(c, o) \/ <<c, o>> \in leaked

\* An acknowledged copy belongs to an object, alive or deprecated, unless
\* somebody began to erase a copy of this version: a hard delete, the cleaner,
\* or the rollback of a failed put, which deletes whichever version the oid has
\* by then.  No overwrite, deletion, undelete, rename or crash loses an object.
AckedHasObject ==
    \A k \in {a \in acked : \A e \in erased : e[1] # a[1] \/ e[2] # a[2]} :
        \/ \E o \in Oids : db.object[o] = [uuid |-> k[1], version |-> k[2]]
        \/ IsDeprecated(db, k[1], k[2])
=============================================================================
