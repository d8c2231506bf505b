---------------------------- MODULE DeviceAdmin ----------------------------
(***************************************************************************)
(* The administration of devices (src/admin/admin.c: add, delete, lock,    *)
(* unlock, migrate, scsi_release, load, unload, clean_locks) beside the    *)
(* LRS of the host, which it notifies (sched_handle_notify), and the       *)
(* device threads.                                                         *)
(*                                                                         *)
(* A command opens a connection to the LRS, or finds it offline, and then  *)
(* makes its transactions on the DSS, its notifications and its requests   *)
(* to the TLC one step at a time.                                          *)
(***************************************************************************)
EXTENDS DssLockTable, Naturals, Sequences, FiniteSets, SequencesExt

CONSTANTS Drives, Tapes, Admins, Here, Away, None,
          First,                \* the possible devices and locks of tapes at first: [row, tlock]
          FirstIn,              \* the tape in each drive at first
          Commands,             \* the commands this instance runs
          MaxCommand, MaxHandle, MaxWork, MaxFault, MaxStop   \* bounds

ASSUME CommandsAssumption ==
    /\ Commands \subseteq {"add", "add_locked", "lock", "lock_nowait", "unlock", "unlock_force",
                           "delete", "migrate", "scsi_release", "load", "unload", "clean"}
    /\ Here # Away

DeviceRow == [in : BOOLEAN, adm : {"unlocked", "locked", "failed"}, host : {Here, Away}]
LockRow == [host : {Here, Away}, owner : Admins \cup Nat, weak : BOOLEAN]
Request == [op : {"add", "lock", "unlock"}, d : Drives, by : Admins, wait : BOOLEAN, id : Nat]

\* What the scheduler is adding: the drives read and not taken yet, the request
\* it is for, if any, and the handle to delete, if any.
Adding == [todo : SUBSET Drives, req : Request \cup {None}, del : Nat]

\* An administrator is no process of the LRS, and what stands for nothing is
\* none of the things.
ASSUME NamesAssumption ==
    /\ Admins \cap Nat = {}
    /\ NoLock \notin LockRow /\ None \notin Drives \cup Tapes \cup Request \cup Adding

\* At first the tapes are free, or are locked by another host.
ASSUME FirstAssumption ==
    /\ \A f \in First : f.row \in [Drives -> DeviceRow] /\ f.tlock \in [Tapes -> LockRow \cup {NoLock}]
    /\ \A f \in First, t \in Tapes : f.tlock[t] # NoLock => f.tlock[t].host = Away
    /\ FirstIn \in [Drives -> Tapes \cup {None}]

ASSUME BoundsAssumption ==
    MaxCommand \in Nat /\ MaxHandle \in Nat /\ MaxWork \in Nat /\ MaxFault \in Nat /\ MaxStop \in Nat

VARIABLES
    row,        \* the device table: [in, adm, host]
    lock,       \* the DSS locks of drives
    tlock,      \* the DSS locks of tapes
    in,         \* the tape in each drive
    lrs,        \* [st, pid]: state and incarnation of the LRS
    hdls,       \* ldh_devices: sequence of [id, d, th, busy, med]
    adding,     \* what the scheduler is adding: [todo, req, del], or None
    joining,    \* the notification whose device thread the scheduler waits for
    incoming,   \* notifications not handled yet
    op,         \* the command of each administrator
    used,       \* counters of the bounds
    sure,       \* drives whose lock the LRS has answered, still locked
    torn        \* drives that a defect described below has reached, and which

vars == <<row, lock, tlock, in, lrs, hdls, adding, joining, incoming, op, used, sure, torn>>
dss == <<row, lock, tlock>>
sched == <<lrs, hdls, adding, joining, incoming>>

NoCommand == [pc |-> "idle", cmd |-> "none", d |-> None, t |-> None, conn |-> 0, was |-> FALSE,
              host |-> Here, to |-> "none", forced |-> FALSE, wait |-> TRUE, resp |-> "none"]

Init ==
    /\ \E f \in First : row = f.row /\ tlock = f.tlock
    /\ lock = [d \in Drives |-> NoLock]
    /\ in = FirstIn
    /\ lrs = [st |-> "down", pid |-> 0]
    /\ hdls = <<>> /\ adding = None /\ joining = None /\ incoming = <<>>
    /\ op = [a \in Admins |-> NoCommand]
    /\ used = [command |-> 0, handle |-> 0, work |-> 0, fault |-> 0, stop |-> 0]
    /\ sure = {} /\ torn = {}

Count(what) == [used EXCEPT ![what] = @ + 1]
Fault == used.fault < MaxFault /\ used' = Count("fault")

\* A lock released by a process that may not own it any more.
Released(T, k, p) == IF k # None /\ UnlockApplies(T, k, Here, p) THEN Unlock(T, k) ELSE T
Possessed(T, k, p) == IF k # None /\ PossessApplies(T, k, Here) THEN Possess(T, k, Here, p) ELSE T

HandlesOf(d) == {i \in DOMAIN hdls : hdls[i].d = d}
Live(i) == hdls[i].th # "ended"

\* The thread has taken its drive and has not given it back: the state of the
\* drive is not read yet, could not be read, or the thread works, stops or ends
\* on an error.
Holding == {"owned", "idle", "run", "stopping", "failing", "releasing"}
Holds(i) == hdls[i].th \in Holding

\* The defects: a second handle was made for a drive, or the lock of the first
\* released for it ("second"); the locks were cleaned under someone at work
\* ("robbed"); the row was deleted or moved while the LRS took, or had, the
\* drive it had read there ("unseen").
Defects == {"second", "robbed", "unseen"}
Torn(D) == {d \in Drives : \E x \in D : <<d, x>> \in torn}
Tear(S, x) == torn' = torn \cup (S \X {x})

-----------------------------------------------------------------------------
(* Device threads.  What a thread does with its drive is one piece of work *)
(* (TapeDrives has the detail); a stopping thread finishes it first.       *)

SetHandle(i, h) == hdls' = [hdls EXCEPT ![i] = h]

ThreadWorks(i) ==
    LET h == hdls[i] IN
    /\ h.th = "run" /\ ~h.busy /\ used.work < MaxWork /\ used' = Count("work")
    /\ \/ /\ h.med # None /\ SetHandle(i, [h EXCEPT !.busy = TRUE])
          /\ UNCHANGED <<tlock, in>>
       \/ \E t \in Tapes :
            /\ in[h.d] = None /\ ~IsLocked(tlock, t) /\ \A e \in Drives : in[e] # t
            /\ tlock' = BasicLock(tlock, t, Here, lrs.pid, FALSE)
            /\ in' = [in EXCEPT ![h.d] = t]
            /\ SetHandle(i, [h EXCEPT !.busy = TRUE, !.med = t])
    /\ UNCHANGED <<row, lock, lrs, adding, joining, incoming, op, sure, torn>>

ThreadDone(i) ==
    /\ hdls[i].busy /\ SetHandle(i, [hdls[i] EXCEPT !.busy = FALSE])
    /\ UNCHANGED <<dss, in, lrs, adding, joining, incoming, op, used, sure, torn>>

\* dev_cleanup_medium_at_stop: the lock of the tape, then that of the drive.
ThreadStops(i) ==
    /\ hdls[i].th = "stopping" /\ ~hdls[i].busy
    /\ tlock' = Released(tlock, hdls[i].med, lrs.pid)
    /\ SetHandle(i, [hdls[i] EXCEPT !.th = "releasing", !.med = None])
    /\ UNCHANGED <<row, lock, in, lrs, adding, joining, incoming, op, used, sure, torn>>

\* dev_cleanup_on_error: the tape, then the state of a drive that has failed,
\* then its lock.
ThreadFails(i) ==
    /\ hdls[i].busy /\ Fault
    /\ tlock' = Released(tlock, hdls[i].med, lrs.pid)
    /\ \E th \in {"failing", "releasing"} :
          SetHandle(i, [hdls[i] EXCEPT !.th = th, !.med = None, !.busy = FALSE])
    /\ UNCHANGED <<row, lock, in, lrs, adding, joining, incoming, op, sure, torn>>

SetAdm(d, st) == IF row[d].in THEN [row EXCEPT ![d].adm = st] ELSE row

\* fail_release_device, also by the thread of a drive whose lock was refused:
\* its status, not set, is that of a failed device.
ThreadSetsFailed(i) ==
    /\ hdls[i].th \in {"failing", "refused"}
    /\ row' = SetAdm(hdls[i].d, "failed")
    /\ SetHandle(i, [hdls[i] EXCEPT !.th = IF @ = "failing" THEN "releasing" ELSE "dropping"])
    /\ UNCHANGED <<lock, tlock, in, lrs, adding, joining, incoming, op, used, sure, torn>>

ThreadReleases(i) ==
    /\ hdls[i].th \in {"releasing", "dropping"}
    /\ lock' = Released(lock, hdls[i].d, lrs.pid)
    /\ SetHandle(i, [hdls[i] EXCEPT !.th = "ended"])
    /\ UNCHANGED <<row, tlock, in, lrs, adding, joining, incoming, op, used, sure, torn>>

Thread(i) == \/ ThreadWorks(i) \/ ThreadDone(i) \/ ThreadFails(i)
             \/ ThreadStops(i) \/ ThreadSetsFailed(i) \/ ThreadReleases(i)

-----------------------------------------------------------------------------
(* The scheduler of the LRS.                                               *)

\* g_ptr_array_remove_fast: the last element takes the place of the removed.
Without(i) == [j \in 1..Len(hdls) - 1 |-> IF j = i THEN hdls[Len(hdls)] ELSE hdls[j]]
Position(id) == {i \in DOMAIN hdls : hdls[i].id = id}
FirstOf(d) == CHOOSE i \in HandlesOf(d) : \A j \in HandlesOf(d) : i <= j

\* A request without `wait' is not answered.
Answer(r, rc) ==
    op' = IF r.wait /\ op[r.by].pc = "wait" THEN [op EXCEPT ![r.by].resp = rc] ELSE op

\* Mutant: a locked device is added all the same.
Usable_AnyStatus(d) == row[d].in /\ row[d].host = Here

\* The filter of lrs_dev_hdl_add and of dss_get_usable_devices.
Usable(d) == row[d].in /\ row[d].adm = "unlocked" /\ row[d].host = Here

NewHandle(d, th) == [id |-> used.handle + 1, d |-> d, th |-> th, busy |-> FALSE, med |-> None]

\* lrs_dev_hdl_add and lrs_dev_hdl_load: a device handle and its thread are
\* made, then the lock of the drive is taken, from rows read before.  When it
\* is refused, the scheduler waits for the end of the thread.
Own(d) ==
    /\ adding # None /\ adding.del = 0 /\ d \in adding.todo
    /\ used.handle < MaxHandle /\ used' = Count("handle")
    /\ \/ /\ PossessApplies(lock, d, Here) /\ lock' = Possess(lock, d, Here, lrs.pid)
          /\ hdls' = Append(hdls, NewHandle(d, "owned"))
          /\ adding' = [adding EXCEPT !.todo = @ \ {d}]
       \/ /\ ~PossessApplies(lock, d, Here) /\ UNCHANGED lock
          /\ hdls' = Append(hdls, NewHandle(d, "refused"))
          /\ adding' = [adding EXCEPT !.todo = @ \ {d}, !.del = used.handle + 1]
    /\ torn' = torn \cup (IF HandlesOf(d) = {} THEN {} ELSE {<<d, "second">>})
                   \cup (IF row[d].in /\ row[d].host = Here THEN {} ELSE {<<d, "unseen">>})
    /\ UNCHANGED <<row, tlock, in, lrs, joining, incoming, op, sure>>

\* sched_fill_dev_info, once every drive of the list is taken; the tape in the
\* drive is taken if its lock can be.  When the library does not answer, the
\* status is still that of a failed device, when it does not know the drive
\* that of an empty one.  sched_load_dev_state leaves the thread alone in the
\* first case and ends it in the other, sched_device_add deletes the handle.
Fill(i) ==
    LET h == hdls[i] IN
    /\ adding # None /\ adding.del = 0 /\ adding.todo = {} /\ h.th = "owned"
    /\ \/ /\ SetHandle(i, [h EXCEPT !.th = "run", !.med = in[h.d]])
          /\ tlock' = Possessed(tlock, in[h.d], lrs.pid) /\ UNCHANGED used
          /\ IF adding.req = None THEN UNCHANGED <<adding, op>>
             ELSE Answer(adding.req, "ok") /\ adding' = None
       \/ /\ Fault /\ UNCHANGED <<tlock, op>>
          /\ \E th \in {IF adding.req = None THEN "idle" ELSE "failing", "releasing"} :
                SetHandle(i, [h EXCEPT !.th = th])
          /\ adding' = IF adding.req = None THEN adding ELSE [adding EXCEPT !.del = h.id]
    /\ UNCHANGED <<row, lock, in, lrs, joining, incoming, sure, torn>>

\* lrs_dev_hdl_del: the thread has ended.
Deleted ==
    /\ adding # None
    /\ \E i \in Position(adding.del) : ~Live(i) /\ hdls' = Without(i)
    /\ IF adding.req = None THEN adding' = [adding EXCEPT !.del = 0] /\ UNCHANGED op
       ELSE adding' = None /\ Answer(adding.req, "err")
    /\ UNCHANGED <<dss, in, lrs, joining, incoming, used, sure, torn>>

\* sched_device_add, as far as the row of the drive is read.
DeviceAdd(r) ==
    \/ ~Usable(r.d) /\ Answer(r, "err") /\ UNCHANGED adding
    \/ Usable(r.d) /\ adding' = [todo |-> {r.d}, req |-> r, del |-> 0] /\ UNCHANGED op

Forget == incoming' = Tail(incoming)
Requeue(r) == incoming' = Append(IF incoming # <<>> /\ Head(incoming) = r /\ joining = None
                                 THEN Tail(incoming) ELSE incoming, r)
Locked(r) == sure' = IF row[r.d].adm = "locked" THEN sure \cup {r.d} ELSE sure

Stopping(h) == IF h.th \in {"run", "idle"} THEN [h EXCEPT !.th = "stopping"] ELSE h

\* sched_device_lock: the scheduler waits a moment for the end of the thread.
DeviceLock(r) ==
    \/ /\ HandlesOf(r.d) = {} /\ Answer(r, "ok") /\ Locked(r)
       /\ UNCHANGED <<hdls, joining>>
    \/ /\ HandlesOf(r.d) # {}
       /\ SetHandle(FirstOf(r.d), Stopping(hdls[FirstOf(r.d)]))
       /\ joining' = [r EXCEPT !.id = hdls[FirstOf(r.d)].id]
       /\ UNCHANGED <<op, sure>>

Join ==
    /\ joining # None
    /\ \E i \in Position(joining.id) :
          \/ /\ ~Live(i) /\ hdls' = Without(i) /\ Answer(joining, "ok") /\ Locked(joining)
             /\ UNCHANGED incoming
          \/ /\ Live(i) /\ lrs.st = "up" /\ Requeue(joining) /\ UNCHANGED <<hdls, op, sure>>
          \/ /\ Live(i) /\ lrs.st = "stopping" /\ Answer(joining, "err")
             /\ UNCHANGED <<hdls, sure, incoming>>
    /\ joining' = None
    /\ UNCHANGED <<dss, in, lrs, adding, used, torn>>

\* Mutant: the connections of the clients are left open.
Gone_Silent ==
    /\ lrs' = [lrs EXCEPT !.st = "down"] /\ hdls' = <<>> /\ adding' = None /\ joining' = None
    /\ incoming' = <<>>
    /\ UNCHANGED op

\* The LRS ends at once: its locks stay, its clients are disconnected.
Gone ==
    /\ lrs' = [lrs EXCEPT !.st = "down"] /\ hdls' = <<>> /\ adding' = None /\ joining' = None
    /\ incoming' = <<>>
    /\ op' = [a \in Admins |-> IF op[a].pc = "wait" /\ op[a].resp = "none"
                               THEN [op[a] EXCEPT !.resp = "err"] ELSE op[a]]

\* lrs_dev_hdl_retrydel.  The handle of the request has been freed when two
\* requests were waiting for the same one: the join of a freed thread fails,
\* or the LRS crashes.
DeviceRetryLock(r) ==
    \/ \E i \in Position(r.id) :
         /\ ~Live(i) /\ hdls' = Without(i) /\ Answer(r, "ok") /\ Locked(r) /\ Forget
         /\ UNCHANGED <<lrs, adding, joining>>
    \/ \E i \in Position(r.id) :
         /\ Live(i) /\ Requeue(r) /\ UNCHANGED <<hdls, op, sure, lrs, adding, joining>>
    \/ /\ Position(r.id) = {} /\ UNCHANGED sure
       /\ \/ Answer(r, "err") /\ Forget /\ UNCHANGED <<hdls, lrs, adding, joining>>
          \/ Gone

\* sched_device_unlock does nothing but log when the drive has a handle, be
\* its thread about to end or ended.
Kept(d) == HandlesOf(d) # {}

\* sched_handle_notify, for the first request of the queue.
Notified ==
    /\ lrs.st = "up" /\ adding = None /\ joining = None /\ incoming # <<>>
    /\ LET r == Head(incoming) IN
       \/ /\ r.op = "add" \/ (r.op = "unlock" /\ ~Kept(r.d))
          /\ DeviceAdd(r) /\ Forget /\ UNCHANGED <<lrs, hdls, joining, sure>>
       \/ /\ r.op = "unlock" /\ Kept(r.d) /\ Answer(r, "ok") /\ Forget
          /\ UNCHANGED <<lrs, hdls, adding, joining, sure>>
       \/ /\ r.op = "lock" /\ r.id = 0 /\ DeviceLock(r) /\ Forget
          /\ UNCHANGED <<lrs, adding>>
       \/ r.op = "lock" /\ r.id # 0 /\ DeviceRetryLock(r)
    /\ UNCHANGED <<dss, in, used, torn>>

\* A regular stop: requests are refused, then every thread is stopped.
StopLrs ==
    /\ lrs.st = "up" /\ used.stop < MaxStop /\ used' = Count("stop")
    /\ lrs' = [lrs EXCEPT !.st = "stopping"]
    /\ UNCHANGED <<dss, in, hdls, adding, joining, incoming, op, sure, torn>>

Refused ==
    /\ lrs.st = "stopping" /\ adding = None /\ joining = None /\ incoming # <<>>
    /\ Answer(Head(incoming), "err") /\ Forget
    /\ UNCHANGED <<dss, in, lrs, hdls, adding, joining, used, sure, torn>>

StopThreads ==
    /\ lrs.st = "stopping" /\ adding = None /\ joining = None /\ incoming = <<>>
    /\ \E i \in DOMAIN hdls : hdls[i].th \in {"run", "idle"}
    /\ hdls' = [i \in DOMAIN hdls |-> Stopping(hdls[i])]
    /\ UNCHANGED <<dss, in, lrs, adding, joining, incoming, op, used, sure, torn>>

LrsEnds ==
    /\ lrs.st = "stopping" /\ adding = None /\ joining = None /\ incoming = <<>>
    /\ \A i \in DOMAIN hdls : ~Live(i)
    /\ Gone /\ UNCHANGED <<dss, in, used, sure, torn>>

CrashLrs ==
    /\ lrs.st # "down" /\ used.stop < MaxStop /\ used' = Count("stop")
    /\ Gone /\ UNCHANGED <<dss, in, sure, torn>>

\* A command holds the lock of its drive.
InSection(a) == op[a].pc \in {"act", "tape", "move", "weaken", "unlock"}

\* The start of an LRS: the list of the devices is read; they are taken one by
\* one, and their states read; then the locks left by an earlier LRS are
\* deleted, with those of the commands that run on the host.
StartLrs ==
    /\ lrs.st = "down" /\ lrs.pid <= MaxStop
    /\ lrs' = [st |-> "init", pid |-> lrs.pid + 1]
    /\ adding' = [todo |-> {d \in Drives : Usable(d)}, req |-> None, del |-> 0]
    /\ UNCHANGED <<dss, in, hdls, joining, incoming, op, used, sure, torn>>

\* The holder of the lock of a drive is at work.
AtWork(d) == \/ \E a \in Admins : lock[d].owner = a /\ op[a].d = d /\ InSection(a)
             \/ lock[d].owner = lrs.pid /\ \E i \in HandlesOf(d) : Holds(i)

LrsReady ==
    LET hosts == [d \in Drives |-> row[d].host]
        old == DeviceCleanRows(lock, {d \in Drives : row[d].in}, Here, lrs.pid, hosts)
    IN
    /\ lrs.st = "init" /\ adding # None /\ adding.todo = {} /\ adding.del = 0
    /\ \A i \in DOMAIN hdls : hdls[i].th # "owned"
    /\ lrs' = [lrs EXCEPT !.st = "up"] /\ adding' = None
    /\ lock' = DeleteRows(lock, old)
    /\ tlock' = DeleteRows(tlock, MediaCleanRows(tlock, Tapes, Here, lrs.pid))
    /\ Tear({d \in old : AtWork(d)}, "robbed")
    /\ UNCHANGED <<row, in, hdls, joining, incoming, op, used, sure>>

Lrs == \/ Notified \/ Join \/ StopLrs \/ Refused \/ StopThreads \/ LrsEnds \/ CrashLrs
       \/ StartLrs \/ LrsReady \/ (\E d \in Drives : Own(d)) \/ (\E i \in DOMAIN hdls : Fill(i)) \/ Deleted

-----------------------------------------------------------------------------
(* Commands.                                                               *)

At(a, pc) == op[a].pc = pc
Go(a, pc) == op' = [op EXCEPT ![a].pc = pc]
End(a) == op' = [op EXCEPT ![a] = NoCommand]

\* phobos_admin_init: the connection is with this incarnation of the LRS.
Begin(a, cmd, d) ==
    /\ At(a, "idle") /\ cmd \in Commands /\ used.command < MaxCommand
    /\ used' = Count("command")
    /\ \E t \in IF cmd = "load" THEN Tapes ELSE {None}, h \in IF cmd = "migrate" THEN {Here, Away} ELSE {Here} :
       op' = [op EXCEPT ![a] = [NoCommand EXCEPT
                !.cmd = cmd, !.d = d, !.t = t, !.host = h,
                !.conn = IF lrs.st \in {"up", "stopping"} THEN lrs.pid ELSE 0,
                !.wait = cmd # "lock_nowait",
                !.forced = cmd # "unlock",
                !.to = IF cmd \in {"unlock", "unlock_force"} THEN "unlocked" ELSE "locked",
                !.pc = CASE cmd \in {"add", "add_locked"} -> "insert"
                         [] cmd \in {"lock", "lock_nowait", "unlock", "unlock_force"} -> "read"
                         [] cmd = "clean" -> "clean"
                         [] OTHER -> "get"]]
    /\ UNCHANGED <<dss, in, sched, sure, torn>>

\* phobos_admin_device_add.
Insert(a) ==
    LET o == op[a] IN
    /\ At(a, "insert")
    /\ \/ row[o.d].in /\ End(a) /\ UNCHANGED <<row, sure>>
       \/ /\ ~row[o.d].in
          /\ row' = [row EXCEPT ![o.d] = [in |-> TRUE, host |-> Here,
                        adm |-> IF o.cmd = "add" THEN "unlocked" ELSE "locked"]]
          /\ sure' = sure \ {o.d}
          /\ IF o.cmd = "add" /\ o.conn # 0 THEN Go(a, "notify") ELSE End(a)
    /\ UNCHANGED <<lock, tlock, in, sched, used, torn>>

\* The row of a drive the LRS did not add is deleted without its lock: the LRS
\* may have taken the drive on another notification.
Undo(a) ==
    /\ At(a, "undo") /\ End(a)
    /\ row' = [row EXCEPT ![op[a].d].in = FALSE]
    /\ Tear(IF HandlesOf(op[a].d) = {} THEN {} ELSE {op[a].d}, "unseen")
    /\ UNCHANGED <<lock, tlock, in, sched, used, sure>>

\* What follows the change of the administrative status: the end of the
\* command, or the rest of a load or of an unload, which has locked a drive
\* that was unlocked.
After(a, rc) ==
    LET o == op[a] IN
    CASE o.cmd = "add" /\ rc = "err" -> Go(a, "undo")
      [] o.cmd \in {"load", "unload"} /\ o.to = "locked" /\ rc = "ok" -> Go(a, "lock")
      [] OTHER -> End(a)

\* _device_update_adm_status: the row is read, then written.
Read(a) ==
    LET o == op[a]
        r == row[o.d]
        busy == IsLocked(lock, o.d) /\ (r.host # Here \/ ~o.forced)
    IN
    /\ At(a, "read")
    /\ \/ (~r.in \/ (r.adm # o.to /\ busy)) /\ After(a, "err")
       \/ r.in /\ r.adm = o.to /\ Go(a, "notify")
       \/ r.in /\ r.adm # o.to /\ ~busy /\ Go(a, "write")
    /\ UNCHANGED <<dss, in, sched, used, sure, torn>>

Write(a) ==
    LET o == op[a] IN
    /\ At(a, "write") /\ Go(a, "notify")
    /\ row' = SetAdm(o.d, o.to)
    /\ sure' = IF o.to = "unlocked" THEN sure \ {o.d} ELSE sure
    /\ UNCHANGED <<lock, tlock, in, sched, used, torn>>

\* _admin_notify, if the LRS was online when the command began.
Notify(a) ==
    LET o == op[a]
        open == lrs.st \in {"up", "stopping"} /\ lrs.pid = o.conn
        req == [op |-> CASE o.cmd = "add" -> "add" [] o.to = "locked" -> "lock" [] OTHER -> "unlock",
                d |-> o.d, by |-> a, wait |-> o.wait, id |-> 0]
    IN
    /\ At(a, "notify")
    /\ \/ o.conn = 0 /\ After(a, "ok") /\ UNCHANGED incoming
       \/ o.conn # 0 /\ ~open /\ After(a, "err") /\ UNCHANGED incoming
       \/ /\ open /\ incoming' = Append(incoming, req)
          /\ IF o.wait THEN Go(a, "wait") ELSE After(a, "ok")
    /\ UNCHANGED <<dss, in, lrs, hdls, adding, joining, used, sure, torn>>

Wait(a) ==
    LET o == [op[a] EXCEPT !.resp = "none"] IN
    /\ At(a, "wait") /\ op[a].resp # "none"
    /\ op' = [op EXCEPT ![a] =
          CASE o.cmd = "add" /\ op[a].resp = "err" -> [o EXCEPT !.pc = "undo"]
            [] o.cmd \in {"load", "unload"} /\ o.to = "locked" /\ op[a].resp = "ok" -> [o EXCEPT !.pc = "lock"]
            [] OTHER -> NoCommand]
    /\ UNCHANGED <<dss, in, sched, used, sure, torn>>

\* The other commands get the row of the drive; an unload also asks the TLC
\* for the tape of the drive, a load and an unload lock an unlocked drive.
Get(a) ==
    LET o == op[a]
        r == row[o.d]
    IN
    /\ At(a, "get")
    /\ \/ (~r.in \/ (o.cmd = "migrate" /\ r.host = o.host)) /\ End(a)
       \/ r.in /\ o.cmd = "migrate" /\ r.host # o.host /\ Go(a, "lock")
       \/ r.in /\ o.cmd \in {"delete", "scsi_release"} /\ Go(a, "lock")
       \/ /\ r.in /\ o.cmd \in {"load", "unload"}
          /\ op' = [op EXCEPT ![a] = [o EXCEPT !.was = r.adm = "unlocked",
                        !.pc = CASE o.cmd = "unload" -> "lookup"
                                 [] r.adm = "unlocked" -> "read" [] OTHER -> "lock"]]
    /\ UNCHANGED <<dss, in, sched, used, sure, torn>>

Lookup(a) ==
    LET o == op[a] IN
    /\ At(a, "lookup")
    /\ \/ in[o.d] = None /\ End(a)
       \/ /\ in[o.d] # None
          /\ op' = [op EXCEPT ![a] = [o EXCEPT !.t = in[o.d], !.pc = IF o.was THEN "read" ELSE "lock"]]
    /\ UNCHANGED <<dss, in, sched, used, sure, torn>>

\* Mutant: a drive that cannot be locked is used all the same.
Lockable_Always(d) == TRUE

Lockable(d) == BasicLockApplies(lock, d)

\* dss_lock of the drive.
LockDrive(a) ==
    LET o == op[a] IN
    /\ At(a, "lock")
    /\ \/ /\ Lockable(o.d) /\ lock' = BasicLock(lock, o.d, Here, a, FALSE)
          /\ Go(a, IF o.cmd \in {"load", "unload"} THEN "tape" ELSE "act")
       \/ /\ ~Lockable(o.d) /\ UNCHANGED lock
          /\ IF o.cmd \in {"load", "unload"} THEN Go(a, "back") ELSE End(a)
    /\ UNCHANGED <<row, tlock, in, sched, used, sure, torn>>

\* The row is deleted, or moved to the other host; or the SCSI reservation of
\* the drive is released, which leaves nothing here.
Act(a) ==
    LET o == op[a] IN
    /\ At(a, "act") /\ Go(a, "unlock")
    /\ row' = CASE o.cmd = "delete" -> [row EXCEPT ![o.d].in = FALSE]
                [] o.cmd = "migrate" -> [row EXCEPT ![o.d].host = o.host]
                [] OTHER -> row
    /\ UNCHANGED <<lock, tlock, in, sched, used, sure, torn>>

LockTape(a) ==
    LET o == op[a] IN
    /\ At(a, "tape")
    /\ \/ PossessApplies(tlock, o.t, Here) /\ tlock' = Possess(tlock, o.t, Here, a) /\ Go(a, "move")
       \/ ~PossessApplies(tlock, o.t, Here) /\ UNCHANGED tlock /\ Go(a, "unlock")
    /\ UNCHANGED <<row, lock, in, sched, used, sure, torn>>

\* The TLC moves the tape, or refuses.
Move(a) ==
    LET o == op[a]
        can == IF o.cmd = "load" THEN in[o.d] = None /\ \A e \in Drives : in[e] # o.t ELSE in[o.d] = o.t
    IN
    /\ At(a, "move") /\ Go(a, "weaken")
    /\ \/ /\ can /\ in' = [in EXCEPT ![o.d] = IF o.cmd = "load" THEN o.t ELSE None] /\ UNCHANGED used
       \/ (IF can THEN Fault ELSE UNCHANGED used) /\ UNCHANGED in
    /\ UNCHANGED <<dss, sched, sure, torn>>

\* The lock of a tape that was to be loaded is left, weak.
ReleaseTape(a) ==
    LET o == op[a] IN
    /\ At(a, "weaken") /\ Go(a, "unlock")
    /\ tlock' = IF o.cmd = "unload" THEN Released(tlock, o.t, a)
                ELSE IF SetWeakApplies(tlock, o.t, Here, a) THEN SetWeak(tlock, o.t) ELSE tlock
    /\ UNCHANGED <<row, lock, in, sched, used, sure, torn>>

Unlocked(a) == Released(lock, op[a].d, a)

UnlockDrive(a) ==
    /\ At(a, "unlock") /\ lock' = Unlocked(a)
    /\ IF op[a].cmd \in {"load", "unload"} THEN Go(a, "back") ELSE End(a)
    /\ UNCHANGED <<row, tlock, in, sched, used, sure, torn>>

\* phobos_admin_device_unlock, forced, of a drive that was unlocked.
Back(a) ==
    /\ At(a, "back")
    /\ IF op[a].was
       THEN op' = [op EXCEPT ![a] = [op[a] EXCEPT !.pc = "read", !.to = "unlocked"]]
       ELSE End(a)
    /\ UNCHANGED <<dss, in, sched, used, sure, torn>>

\* phobos_admin_clean_locks, not forced: every lock of the devices and of the
\* host.  That the LRS is offline was read when the command began.
Clean(a) ==
    /\ At(a, "clean") /\ End(a)
    /\ \/ op[a].conn # 0 /\ UNCHANGED <<lock, tlock, torn>>
       \/ /\ op[a].conn = 0
          /\ lock' = DeleteRows(lock, Drives)
          /\ tlock' = DeleteRows(tlock, {t \in Tapes : IsLocked(tlock, t) /\ tlock[t].host = Here})
          /\ Tear({d \in Drives : IsLocked(lock, d) /\ AtWork(d)}, "robbed")
    /\ UNCHANGED <<row, in, sched, used, sure>>

Command(a) ==
    \/ Insert(a) \/ Undo(a) \/ Read(a) \/ Write(a) \/ Notify(a) \/ Wait(a) \/ Get(a) \/ Lookup(a)
    \/ LockDrive(a) \/ Act(a) \/ LockTape(a) \/ Move(a) \/ ReleaseTape(a) \/ UnlockDrive(a)
    \/ Back(a) \/ Clean(a)

Next ==
    \/ \E i \in DOMAIN hdls : Thread(i)
    \/ Lrs
    \/ \E a \in Admins : Command(a) \/ \E cmd \in Commands, d \in Drives : Begin(a, cmd, d)

Spec == Init /\ [][Next]_vars

-----------------------------------------------------------------------------
\* The rows, the locks, the handles of the LRS, the notifications on their way
\* and the commands in progress have their types.
TypeOK ==
    /\ row \in [Drives -> DeviceRow]
    /\ \A d \in Drives : lock[d] # NoLock => lock[d].owner \in Admins \cup (1..lrs.pid) /\ ~lock[d].weak
    /\ \A t \in Tapes : tlock[t] # NoLock => tlock[t].owner \in Admins \cup (1..lrs.pid) \/ tlock[t].host = Away
    /\ in \in [Drives -> Tapes \cup {None}]
    /\ lrs \in [st : {"down", "init", "up", "stopping"}, pid : 0..MaxStop + 1]
    /\ \A i \in DOMAIN hdls :
          hdls[i] \in [id : 1..MaxHandle, d : Drives, busy : BOOLEAN, med : Tapes \cup {None},
                       th : Holding \cup {"refused", "dropping", "ended"}]
    /\ adding \in Adding \cup {None}
    /\ \A a \in Admins : op[a].resp # "none" => op[a].pc = "wait"
    /\ sure \subseteq Drives /\ torn \subseteq Drives \X Defects

\* The actors that hold a drive: a command that moves a tape of it, deletes it,
\* migrates it or resets it, and a device thread from the lock of the drive to
\* its end.
Actors(d) == {a \in Admins : op[a].d = d /\ InSection(a)} \cup {i \in HandlesOf(d) : Holds(i)}

\* A drive is never in the hands of two of them, whatever the commands that run
\* together and whenever the LRS starts, stops or dies, unless it has two
\* handles or its lock was cleaned under its holder.
OneActor == \A d \in Drives \ Torn({"second", "robbed"}) : Cardinality(Actors(d)) <= 1

\* Once the LRS has answered that a drive is locked, it has no thread on it
\* until someone unlocks the drive, although an unlock that another command
\* wrote before is notified after.
LockEffective == \A d \in sure \ Torn({"second"}) : \A i \in HandlesOf(d) : ~Live(i)

\* The LRS holds no drive that was deleted or given to another host, unless
\* that was done between its read of the row and its lock, or its lock was
\* released under it.
WorksOnItsOwn ==
    \A i \in DOMAIN hdls : Holds(i) /\ hdls[i].d \notin Torn(Defects) => row[hdls[i].d].in /\ row[hdls[i].d].host = Here

\* A lock of a drive is held by a command at work, by the device thread that
\* uses it, or was left by an LRS that crashed.
NoLockLeft ==
    \A d \in Drives \ Torn({"second"}) : lock[d] # NoLock =>
        \/ AtWork(d)
        \/ lock[d].owner \in 1..lrs.pid /\ (lrs.st = "down" \/ lock[d].owner # lrs.pid)

\* A drive that exists here has one user, which holds its lock.
DriveInHand == TypeOK /\ OneActor /\ WorksOnItsOwn /\ NoLockLeft

\* A command that waits for the LRS is answered: its request is still in the
\* queue or with the scheduler, through the retries of a lock, the stop of the
\* LRS and its death.  Were it dropped, the command would wait for ever.
Awaited ==
    \A a \in Admins : At(a, "wait") /\ op[a].resp = "none" =>
        \/ \E r \in Range(incoming) \cup ({joining} \ {None}) : r.by = a /\ r.wait
        \/ adding # None /\ adding.req # None /\ adding.req.by = a /\ adding.req.wait

=============================================================================
