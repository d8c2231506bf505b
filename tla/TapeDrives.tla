---------------------------- MODULE TapeDrives ----------------------------
(***************************************************************************)
(* Tape drives between the LRS of several hosts, the tape library          *)
(* controller (TLC) and the lock table of the DSS: the device threads of   *)
(* src/lrs/lrs_device.c that unmount, unload, load, mount and format, the  *)
(* start and the stop of an LRS (src/lrs/lrs_sched.c), the client of the   *)
(* TLC (src/ldm-modules/ldm_lib_scsi.c), and the TLC (src/tlc).            *)
(*                                                                         *)
(* Each call a thread makes to the DSS, to the file system of a tape or to *)
(* the TLC is a step of its own.  A call to the TLC opens a connection,    *)
(* sends its request and waits for the answer; the TLC serves one request  *)
(* at a time, and a request already sent by a process that dies is still   *)
(* served.                                                                 *)
(*                                                                         *)
(* The library, the file system commands and the faults are external: a    *)
(* move may fail, or be reported as failed although it took place; a       *)
(* library does not take a tape out of a drive where it is mounted.        *)
(***************************************************************************)
EXTENDS TapeLibrary, DssLockTable, Sequences

CONSTANTS Hosts, HostOf,        \* HostOf[d]: the host of drive d
          NbLibDev,             \* number of SCSI devices giving access to the library
          MaxDeviceRetry,       \* attempts of a move
          MaxHealth,
          StartAt,              \* the element of each tape at first
          Blank,                \* the tapes not formatted at first
          MaxReq, MaxFault, MaxCrash, MaxTlc, MaxAdmin      \* bounds

ASSUME HealthAssumption == MaxHealth \in Nat \ {0}
ASSUME RetryAssumption == NbLibDev \in Nat /\ MaxDeviceRetry \in 1..NbLibDev
ASSUME BoundAssumption == MaxCrash \in Nat
ASSUME HostAssumption == HostOf \in [Drives -> Hosts]
\* Markers are no elements; a drive is no slot.
ASSUME NoneAssumption ==
    /\ None \notin Tapes \cup Elements /\ Slots \cap Drives = {}
    /\ \A h \in Hosts, p \in 0..MaxCrash + 1, w \in BOOLEAN : NoLock # Row(h, p, w)
\* An element holds one tape.
ASSUME StartAssumption ==
    StartAt \in [Tapes -> Elements] /\ \A t, u \in Tapes : StartAt[t] = StartAt[u] => t = u

LibDevs == 1..NbLibDev

VARIABLES
    at, from,       \* the library: element and source slot of each tape
    mnt,            \* drives whose tape is mounted by the system
    fs,             \* file system of each tape: "blank", "ok" or "full"
    tlc,            \* [up, cache, fds, cur, queue, busy]
    stale,          \* a move was reported as failed since the TLC read the library
    rpc,            \* the call of each drive to the TLC
    host, pid,      \* "down", "init", "up" or "stop"; incarnation of each LRS
    torn,           \* ghost: <<tape, how its lock got out of hand>>
    dev,            \* device threads
    lock, dlock,    \* DSS locks of tapes and of drives
    adm, dadm,      \* DSS administrative states of tapes and of drives
    health, dhealth,
    used            \* counters of the bounds

libVars == <<at, from, mnt, fs>>
tlcVars == <<tlc, stale, rpc>>
dssVars == <<lock, dlock, adm, dadm, health, dhealth>>
hostVars == <<host, pid, torn>>
vars == <<libVars, tlcVars, hostVars, dev, dssVars, used>>

Idle == [st |-> "none", op |-> "none", tape |-> None, tries |-> 0]
Off == [th |-> "off", op |-> "failed", med |-> None, sub |-> None, kind |-> "none", pc |-> "idle"]

DrivesOf(h) == {d \in Drives : HostOf[d] = h}
Running(d) == dev[d].th = "run"

\* "named": a tape that a drive has without its lock is given to another.
\* "shared": so is, by the same LRS, one that a drive is about to unlock, or that
\* a drive is found to hold after it was given to another.
Defects == {"named", "shared"}

\* The scheduler thread is adding drives, and does nothing else meanwhile.
Filling == {"own", "fill", "acquire", "lock"}
Loading(h) == \E d \in DrivesOf(h) : dev[d].pc \in Filling
Mine(t, d) == OwnedBy(lock, t, HostOf[d], pid[HostOf[d]])

\* The library, the processes, the device threads and the locks have their
\* types, and the health counters stay in their range.
TypeOK ==
    /\ at \in [Tapes -> Elements] /\ from \in [Tapes -> Slots \cup {None}]
    /\ mnt \subseteq Drives
    /\ fs \in [Tapes -> {"blank", "ok", "full"}]
    /\ tlc \in [up : BOOLEAN, cache : [Elements -> ElementStatus], fds : SUBSET LibDevs,
                cur : 0..NbLibDev, queue : Seq(Drives), busy : BOOLEAN]
    /\ stale \in BOOLEAN
    /\ rpc \in [Drives -> [st : {"none", "open", "sent", "orphan", "ok", "err", "lost", "pipe"},
                           op : {"none", "load", "unload"}, tape : Tapes \cup {None},
                           tries : 0..MaxDeviceRetry]]
    /\ host \in [Hosts -> {"down", "init", "up", "stop"}]
    /\ pid \in [Hosts -> 0..MaxCrash + 1] /\ torn \subseteq Tapes \X Defects
    /\ dev \in [Drives -> [th : {"off", "run", "dying"}, op : {"failed", "empty", "loaded", "mounted"},
                           med : Tapes \cup {None}, sub : Tapes \cup {None},
                           kind : {"none", "read", "write", "format"},
                           pc : {"idle", "own", "fill", "acquire", "lock", "check", "umount", "unload",
                                 "release", "load", "mount", "df", "format",
                                 "stop", "stop_release", "stop_device"}]]
    /\ adm \in [Tapes -> {"unlocked", "failed"}] /\ dadm \in [Drives -> {"unlocked", "failed"}]
    /\ health \in [Tapes -> 0..MaxHealth] /\ dhealth \in [Drives -> 0..MaxHealth]

\* The TLC has opened all the devices of the library, or the first one only.
Init ==
    /\ at = StartAt /\ from = [t \in Tapes |-> IF StartAt[t] \in Slots THEN StartAt[t] ELSE None]
    /\ mnt = {} /\ fs = [t \in Tapes |-> IF t \in Blank THEN "blank" ELSE "ok"]
    /\ \E shut \in {{}, LibDevs \ {1}} :
         tlc = [up |-> TRUE, cache |-> LibStatus(at, from), fds |-> LibDevs \ shut,
                cur |-> FirstOpened(LibDevs, shut), queue |-> <<>>, busy |-> FALSE]
    /\ stale = FALSE /\ rpc = [d \in Drives |-> Idle]
    /\ host = [h \in Hosts |-> "down"] /\ pid = [h \in Hosts |-> 0]
    /\ torn = {}
    /\ dev = [d \in Drives |-> Off]
    /\ lock = [t \in Tapes |-> NoLock] /\ dlock = [d \in Drives |-> NoLock]
    /\ adm = [t \in Tapes |-> "unlocked"] /\ dadm = [d \in Drives |-> "unlocked"]
    /\ health = [t \in Tapes |-> MaxHealth] /\ dhealth = [d \in Drives |-> MaxHealth]
    /\ used = [req |-> 0, fault |-> 0, crash |-> 0, tlc |-> 0, admin |-> 0]

Count(what) == [used EXCEPT ![what] = @ + 1]
Fault == used.fault < MaxFault /\ used' = Count("fault")
Go(d, pc) == dev' = [dev EXCEPT ![d].pc = pc]

\* Mutant: the row is deleted whoever owns it.
ReleaseRow_Force(T, k, d) == IF k # None THEN Unlock(T, k) ELSE T

\* Releasing a lock of the process of drive d: nothing happens to a row that
\* is not its own.
ReleaseRow(T, k, d) ==
    IF k # None /\ UnlockApplies(T, k, HostOf[d], pid[HostOf[d]]) THEN Unlock(T, k) ELSE T

-----------------------------------------------------------------------------
(* The library and the TLC.                                                *)

Movable(e, f) == /\ \E t \in Tapes : at[t] = e
                 /\ \A t \in Tapes : at[t] # f
                 /\ e \notin mnt

Moved(e, f) ==
    /\ at' = [t \in Tapes |-> IF at[t] = e THEN f ELSE at[t]]
    /\ from' = [t \in Tapes |-> IF at[t] # e THEN from[t] ELSE IF e \in Slots THEN e
                                ELSE IF f \in Slots THEN None ELSE from[t]]

\* The answer to drive d: one that died gets none.
Answer(d, st) == rpc' = [rpc EXCEPT ![d] = IF @.st = "orphan" THEN Idle ELSE [@ EXCEPT !.st = st]]
Served == [tlc EXCEPT !.busy = FALSE, !.queue = Tail(@)]

\* Requests are served in the order of their arrival (epoll_wait).
First(d) == tlc.queue # <<>> /\ Head(tlc.queue) = d
Pending(d) == First(d) /\ ~tlc.busy
Serving(d) == First(d) /\ tlc.busy

\* recv_work takes a request; refusals that need no move are answered at once.
MoveOf(d) ==
    IF rpc[d].op = "load" THEN <<MediaElementStatusFromLabel(tlc.cache, rpc[d].tape), d>>
    ELSE <<d, TargetFreeSlot(tlc.cache, d)>>

Refused(d) == \/ tlc.cur = 0
              \/ rpc[d].op = "load" /\ MoveOf(d)[1] = None
              \/ rpc[d].op = "unload" /\ ~UnloadAccepted(tlc.cache, d, rpc[d].tape)

TlcRefuses(d) ==
    /\ Pending(d) /\ Refused(d)
    /\ tlc' = Served /\ Answer(d, "err")
    /\ UNCHANGED <<libVars, stale, hostVars, dev, dssVars, used>>

TlcBegins(d) ==
    /\ Pending(d) /\ ~Refused(d) /\ MoveOf(d)[2] # None
    /\ tlc' = [tlc EXCEPT !.busy = TRUE]
    /\ rpc' = [rpc EXCEPT ![d].tries = MaxDeviceRetry]
    /\ UNCHANGED <<libVars, stale, hostVars, dev, dssVars, used>>

\* Every call waiting for an answer is cut, every open connection breaks.
Cut == [d \in Drives |-> CASE rpc[d].st = "sent" -> [rpc[d] EXCEPT !.st = "lost"]
                           [] rpc[d].st = "open" -> [rpc[d] EXCEPT !.st = "pipe"]
                           [] rpc[d].st = "orphan" -> Idle
                           [] OTHER -> rpc[d]]
Down == [tlc EXCEPT !.up = FALSE, !.busy = FALSE, !.queue = <<>>]

\* No free slot: json_message, just set to NULL, is dereferenced.
TlcNoFreeSlot(d) ==
    /\ Pending(d) /\ ~Refused(d) /\ MoveOf(d)[2] = None
    /\ tlc' = Down /\ rpc' = Cut
    /\ UNCHANGED <<libVars, stale, hostVars, dev, dssVars, used>>

MoveDone(d) ==
    /\ Serving(d)
    /\ \E m \in {MoveOf(d)} :
         /\ Movable(m[1], m[2]) /\ Moved(m[1], m[2])
         /\ tlc' = [Served EXCEPT !.cache = MoveTape(@, m[1], m[2])]
    /\ Answer(d, "ok")
    /\ UNCHANGED <<mnt, fs, stale, hostVars, dev, dssVars, used>>

\* A failed attempt: the device is dropped when it does not answer an inquiry
\* (`mute'), the next one is tried while attempts are left.
Retry(d, mute) ==
    LET valid == IF mute THEN tlc.fds \ {tlc.cur} ELSE tlc.fds
        next == NextFd(NbLibDev, valid, tlc.cur)
        over == next = 0 \/ rpc[d].tries = 1
    IN  /\ tlc' = [(IF over THEN Served ELSE tlc) EXCEPT !.fds = valid, !.cur = next]
        /\ IF over THEN Answer(d, "err") ELSE rpc' = [rpc EXCEPT ![d].tries = @ - 1]

MoveFailed(d) ==
    /\ Serving(d)
    /\ \E m \in {MoveOf(d)}, mute \in BOOLEAN :
         /\ IF Movable(m[1], m[2]) \/ mute THEN Fault ELSE UNCHANGED used
         /\ Retry(d, mute)
    /\ UNCHANGED <<libVars, stale, hostVars, dev, dssVars>>

\* The tape was moved, and the command is reported as failed (a timeout).
MoveFailedDone(d) ==
    /\ Serving(d) /\ Fault
    /\ \E m \in {MoveOf(d)} : Movable(m[1], m[2]) /\ Moved(m[1], m[2])
    /\ Retry(d, FALSE) /\ stale' = TRUE
    /\ UNCHANGED <<mnt, fs, hostVars, dev, dssVars>>

TlcDies ==
    /\ tlc.up /\ used.tlc < MaxTlc /\ used' = Count("tlc")
    /\ tlc' = Down /\ rpc' = Cut
    /\ UNCHANGED <<libVars, stale, hostVars, dev, dssVars>>

\* A start of the TLC, or a refresh: the library is read again, or the TLC
\* ends.
TlcOpens(shut, mute) ==
    /\ ~tlc.busy
    /\ IF shut \cup mute = {} /\ ~tlc.up THEN UNCHANGED used ELSE Fault
    /\ IF OpenSucceeds(LibDevs, shut, mute)
       THEN /\ tlc' = [up |-> TRUE, cache |-> LibStatus(at, from), fds |-> LibDevs \ (shut \cup mute),
                       cur |-> FirstOpened(LibDevs, shut), queue |-> tlc.queue, busy |-> FALSE]
            /\ stale' = FALSE /\ UNCHANGED rpc
       ELSE tlc' = Down /\ rpc' = Cut /\ UNCHANGED stale
    /\ UNCHANGED <<libVars, hostVars, dev, dssVars>>

-----------------------------------------------------------------------------
(* The result of a sub-request.                                            *)

\* decrease_medium_health and decrease_device_health, when `yes'.
Less(n) == IF n = 0 THEN 0 ELSE n - 1
LoseMedium(t, yes) ==
    /\ health' = IF yes THEN [health EXCEPT ![t] = Less(@)] ELSE health
    /\ adm' = IF yes /\ health[t] = 1 THEN [adm EXCEPT ![t] = "failed"] ELSE adm
LoseDevice(d, n) ==
    dhealth' = [dhealth EXCEPT ![d] = IF n = 0 THEN @ ELSE IF n = 1 THEN Less(@) ELSE Less(Less(@))]

\* The sub-request is over; a failed device ends its thread.
EndSub(d, D) ==
    dev' = [dev EXCEPT ![d] =
              [D EXCEPT !.sub = None, !.kind = "none", !.pc = "idle",
                        !.op = IF dhealth[d] > 0 /\ dhealth'[d] = 0 THEN "failed" ELSE @,
                        !.th = IF dhealth[d] > 0 /\ dhealth'[d] = 0 THEN "dying" ELSE @]]

\* fail_release_medium unlocks the tape it has set to failed.
FailReleased(t, d, yes) == IF yes THEN ReleaseRow(lock, t, d) ELSE lock

\* dev_handle_read_write on an error, with the blame put on the device and on
\* the tape to load.
ReadWriteFails(d, D, onDevice, onMedium) ==
    /\ LoseDevice(d, IF onDevice THEN 1 ELSE 0)
    /\ LoseMedium(D.sub, onMedium)
    /\ lock' = FailReleased(D.sub, d, onMedium /\ health[D.sub] = 1)
    /\ EndSub(d, D)
    /\ UNCHANGED <<dlock, dadm>>

\* dev_handle_format on a failed switch of media: nobody is blamed when the
\* TLC is lost; a tape that is not blamed is set to failed all the same, or
\* only unlocked if the device fails; a tape with no health left is answered,
\* which costs the device a second time.
FormatFails(d, D, onDevice, onMedium, lost) ==
    LET fails == onDevice /\ dhealth[d] = 1
        left == IF onMedium THEN Less(health[D.sub]) ELSE health[D.sub]
    IN  IF lost
        THEN dhealth' = dhealth /\ EndSub(d, D) /\ UNCHANGED <<lock, dlock, adm, dadm, health>>
        ELSE /\ LoseDevice(d, (IF onDevice THEN 1 ELSE 0) + (IF left = 0 THEN 1 ELSE 0))
             /\ health' = [health EXCEPT ![D.sub] = left]
             /\ adm' = IF (onMedium /\ health[D.sub] = 1) \/ (~onMedium /\ ~fails)
                       THEN [adm EXCEPT ![D.sub] = "failed"] ELSE adm
             /\ lock' = FailReleased(D.sub, d, (onMedium /\ health[D.sub] = 1) \/ ~onMedium)
             /\ EndSub(d, D) /\ UNCHANGED <<dlock, dadm>>

Fails(d, D, onDevice, onMedium, lost) ==
    IF D.kind = "format" THEN FormatFails(d, D, onDevice, onMedium, lost)
    ELSE ReadWriteFails(d, D, onDevice, onMedium)

\* Success: the health of both increases.
Succeeds(d, D) ==
    /\ health' = [health EXCEPT ![D.sub] = IF @ < MaxHealth THEN @ + 1 ELSE @]
    /\ dhealth' = [dhealth EXCEPT ![d] = IF @ < MaxHealth THEN @ + 1 ELSE @]
    /\ dev' = [dev EXCEPT ![d] = [D EXCEPT !.sub = None, !.kind = "none", !.pc = "idle"]]
    /\ UNCHANGED <<lock, dlock, adm, dadm>>

-----------------------------------------------------------------------------
(* The device thread.                                                      *)

\* dev_unload has unloaded the tape, and not unlocked it yet.
Unlocking(d, t) == dev[d].pc = "release" /\ rpc[d].tape = t

\* The scheduler locks the tape (ensure_medium_lock) and gives it to a drive:
\* the one that holds it, if any.
Assign(d, t, k) ==
    /\ host[HostOf[d]] = "up" /\ Running(d) /\ dev[d].pc = "idle" /\ dev[d].op # "failed"
    /\ used.req < MaxReq /\ used' = Count("req")
    /\ adm[t] = "unlocked" /\ dadm[d] = "unlocked"
    /\ CASE k = "read" -> fs[t] # "blank" [] k = "write" -> fs[t] = "ok" [] OTHER -> TRUE
    /\ ~Loading(HostOf[d])
    /\ \A o \in DrivesOf(HostOf[d]) \ {d} : dev[o].sub # t /\ dev[o].med # t
    /\ \/ Mine(t, d) /\ UNCHANGED lock
       \/ /\ PossessApplies(lock, t, HostOf[d])
          /\ lock' = Possess(lock, t, HostOf[d], pid[HostOf[d]])
    /\ dev' = [dev EXCEPT ![d].sub = t, ![d].kind = k, ![d].pc = "check"]
    /\ torn' = torn \cup {<<t, "named">> : o \in {o \in Drives \ {d} : dev[o].med = t}}
                    \cup {<<t, "shared">> : o \in {o \in DrivesOf(HostOf[d]) : Unlocking(o, t)}}
    /\ UNCHANGED <<libVars, tlcVars, host, pid, dlock, adm, dadm, health, dhealth>>

At(d, pc) == Running(d) /\ dev[d].pc = pc

\* dev_medium_switch: what is left to do before the tape is in the drive.
Check(d) ==
    LET D == dev[d]
        format == D.kind = "format"
    IN  /\ At(d, "check")
        /\ CASE D.med = D.sub /\ D.op = "mounted" ->
                   IF format THEN Go(d, "umount") /\ UNCHANGED dssVars ELSE Succeeds(d, D)
             [] D.med = D.sub /\ D.op = "loaded" ->
                   Go(d, IF format THEN "format" ELSE "mount") /\ UNCHANGED dssVars
             [] D.med # D.sub /\ D.op = "mounted" -> Go(d, "umount") /\ UNCHANGED dssVars
             [] D.med # D.sub /\ D.op = "loaded" -> Go(d, "unload") /\ UNCHANGED dssVars
             [] OTHER -> Go(d, "load") /\ UNCHANGED dssVars
        /\ UNCHANGED <<libVars, tlcVars, hostVars, used>>

\* dev_umount, for a switch or before a format of the mounted tape: only the
\* switch puts the blame on someone.
Umount(d) ==
    /\ At(d, "umount") /\ mnt' = mnt \ {d}
    /\ dev' = [dev EXCEPT ![d].op = "loaded",
                          ![d].pc = IF dev[d].med = dev[d].sub THEN "format" ELSE "unload"]
    /\ UNCHANGED <<at, from, fs, tlcVars, hostVars, dssVars, used>>

UmountFails(d) ==
    /\ At(d, "umount") /\ Fault
    /\ LET switch == dev[d].med # dev[d].sub IN Fails(d, dev[d], switch, switch, FALSE)
    /\ UNCHANGED <<libVars, tlcVars, hostVars>>

\* A call to the TLC: connection, request.
LibOpen(d) ==
    /\ dev[d].pc \in {"unload", "load"} /\ Running(d) /\ rpc[d].st = "none" /\ tlc.up
    /\ rpc' = [rpc EXCEPT ![d] = [st |-> "open", op |-> dev[d].pc, tries |-> 0,
                                  tape |-> IF dev[d].pc = "load" THEN dev[d].sub ELSE dev[d].med]]
    /\ UNCHANGED <<libVars, tlc, stale, hostVars, dev, dssVars, used>>

\* wrap_lib_open fails with -ECONNREFUSED, which blames nobody.
LibRefused(d) ==
    /\ dev[d].pc \in {"unload", "load"} /\ Running(d) /\ rpc[d].st = "none" /\ ~tlc.up
    /\ Fails(d, dev[d], FALSE, FALSE, TRUE)
    /\ UNCHANGED <<libVars, tlcVars, hostVars, used>>

LibSend(d) ==
    /\ Running(d) /\ rpc[d].st = "open" /\ rpc' = [rpc EXCEPT ![d].st = "sent"]
    /\ tlc' = [tlc EXCEPT !.queue = Append(@, d)]
    /\ UNCHANGED <<libVars, stale, hostVars, dev, dssVars, used>>

Closed(d) == rpc' = [rpc EXCEPT ![d] = Idle]

\* The TLC unloaded the drive; the tape, still named by the call, is to be
\* unlocked.
Unloaded(D) == [D EXCEPT !.op = "empty", !.med = None, !.pc = "release"]

\* dev_unload and dev_load on an answer.  A connection lost while waiting is
\* -ENOTCONN, which is not one of the codes that spare the device.
UnloadEnds(d) ==
    /\ At(d, "unload")
    /\ \/ rpc[d].st = "ok" /\ dev' = [dev EXCEPT ![d] = Unloaded(@)] /\ UNCHANGED <<rpc, dssVars>>
       \/ rpc[d].st \in {"err", "lost"} /\ Closed(d) /\ Fails(d, dev[d], TRUE, TRUE, FALSE)
       \/ rpc[d].st = "pipe" /\ Closed(d) /\ Fails(d, dev[d], FALSE, FALSE, TRUE)
    /\ UNCHANGED <<libVars, tlc, stale, hostVars, used>>

\* dss_medium_release of the unloaded tape.
Release(d) ==
    /\ At(d, "release") /\ Closed(d)
    /\ IF Mine(rpc[d].tape, d)
       THEN /\ lock' = Unlock(lock, rpc[d].tape) /\ Go(d, "load")
            /\ UNCHANGED <<dlock, adm, dadm, health, dhealth>>
       ELSE Fails(d, dev[d], TRUE, TRUE, FALSE)
    /\ UNCHANGED <<libVars, tlc, stale, hostVars, used>>

Loaded(D) == [D EXCEPT !.op = "loaded", !.med = D.sub,
                       !.pc = IF D.kind = "format" THEN "format" ELSE "mount"]

\* Any failed call blames the tape; the device is spared a broken connection.
LoadEnds(d) ==
    /\ At(d, "load") /\ rpc[d].st \in {"ok", "err", "lost", "pipe"} /\ Closed(d)
    /\ CASE rpc[d].st = "ok" -> dev' = [dev EXCEPT ![d] = Loaded(@)] /\ UNCHANGED dssVars
         [] rpc[d].st \in {"err", "lost"} -> Fails(d, dev[d], TRUE, TRUE, FALSE)
         [] rpc[d].st = "pipe" -> Fails(d, dev[d], FALSE, TRUE, TRUE)
    /\ UNCHANGED <<libVars, tlc, stale, hostVars, used>>

\* dev_mount: already mounted, or ltfs mounts the tape that is in the drive
\* and checks its label.
Mounts(d) == d \in mnt \/ at[dev[d].med] = d

Mount(d) ==
    /\ At(d, "mount") /\ Mounts(d) /\ mnt' = mnt \cup {d}
    /\ IF dev[d].kind = "write"
       THEN dev' = [dev EXCEPT ![d].op = "mounted", ![d].pc = "df"] /\ UNCHANGED dssVars
       ELSE Succeeds(d, [dev[d] EXCEPT !.op = "mounted"])
    /\ UNCHANGED <<at, from, fs, tlcVars, hostVars, used>>

MountFails(d) ==
    /\ At(d, "mount") /\ IF Mounts(d) THEN Fault ELSE UNCHANGED used
    /\ Fails(d, dev[d], TRUE, TRUE, FALSE)
    /\ UNCHANGED <<libVars, tlcVars, hostVars>>

\* A write: a tape mounted read-only is set to full, and granted.
Df(d) ==
    /\ At(d, "df") /\ Succeeds(d, dev[d])
    /\ \/ UNCHANGED <<fs, used>>
       \/ Fault /\ fs' = [fs EXCEPT ![dev[d].med] = "full"]
    /\ UNCHANGED <<at, from, mnt, tlcVars, hostVars>>

\* dev_format, on the tape that is in the drive.
InDrive(d) == {t \in Tapes : at[t] = d}
Format(d) ==
    /\ At(d, "format") /\ InDrive(d) # {} /\ d \notin mnt
    /\ fs' = [t \in Tapes |-> IF t \in InDrive(d) THEN "ok" ELSE fs[t]]
    /\ Succeeds(d, dev[d])
    /\ UNCHANGED <<at, from, mnt, tlcVars, hostVars, used>>

FormatError(d) ==
    /\ At(d, "format") /\ IF InDrive(d) # {} /\ d \notin mnt THEN Fault ELSE UNCHANGED used
    /\ LoseDevice(d, 1) /\ LoseMedium(dev[d].sub, TRUE)
    /\ lock' = FailReleased(dev[d].sub, d, health[dev[d].sub] = 1)
    /\ EndSub(d, dev[d])
    /\ UNCHANGED <<libVars, tlcVars, hostVars, dlock, dadm>>

-----------------------------------------------------------------------------
(* The start and the end of an LRS.                                        *)

\* dev_cleanup_on_error: what a thread that ends on an error leaves.  Its
\* drive is set to failed when its operational state is "failed", the state
\* of a device not yet filled.
CleanupOnError(d) ==
    /\ dev[d].th = "dying"
    /\ lock' = ReleaseRow(lock, dev[d].med, d)
    /\ dlock' = ReleaseRow(dlock, d, d)
    /\ dadm' = IF dev[d].op = "failed" THEN [dadm EXCEPT ![d] = "failed"] ELSE dadm
    /\ dev' = [dev EXCEPT ![d] = Off]
    /\ UNCHANGED <<libVars, tlcVars, hostVars, adm, health, dhealth, used>>

StartHost(h) ==
    /\ host[h] = "down" /\ pid[h] <= MaxCrash /\ used.crash <= MaxCrash
    /\ host' = [host EXCEPT ![h] = "init"] /\ pid' = [pid EXCEPT ![h] = @ + 1]
    /\ dev' = [d \in Drives |-> IF HostOf[d] = h /\ dadm[d] = "unlocked"
                                THEN [Off EXCEPT !.th = "run", !.pc = "own"] ELSE dev[d]]
    /\ UNCHANGED <<libVars, tlcVars, torn, dssVars, used>>

\* lrs_dev_hdl_load, lrs_dev_hdl_add: the lock of the drive, or the end of its
\* thread.
Own(d) ==
    /\ At(d, "own")
    /\ IF PossessApplies(dlock, d, HostOf[d])
       THEN dlock' = Possess(dlock, d, HostOf[d], pid[HostOf[d]]) /\ Go(d, "fill")
       ELSE dev' = [dev EXCEPT ![d].th = "dying", ![d].pc = "idle"] /\ UNCHANGED dlock
    /\ UNCHANGED <<libVars, tlcVars, hostVars, lock, adm, dadm, health, dhealth, used>>

\* sched_fill_dev_info asks the TLC what the drive holds.  At the start of the
\* LRS, a drive whose library is not reachable stays as it is; one that is
\* being added is removed.
Fill(d) ==
    /\ At(d, "fill") /\ \A o \in DrivesOf(HostOf[d]) : dev[o].pc # "own"
    /\ \/ /\ tlc.up /\ ~tlc.busy /\ \A o \in Drives : rpc[o].st # "orphan"
          /\ IF tlc.cache[d].full
             THEN dev' = [dev EXCEPT ![d].op = "loaded", ![d].med = tlc.cache[d].vol, ![d].pc = "acquire"]
             ELSE dev' = [dev EXCEPT ![d].op = "empty", ![d].pc = "idle"]
          /\ UNCHANGED used
       \/ /\ ~tlc.up
          /\ dev' = [dev EXCEPT ![d].pc = "idle", ![d].th = IF host[HostOf[d]] = "init" THEN @ ELSE "dying"]
          /\ UNCHANGED used
       \/ /\ Fault /\ dev' = [dev EXCEPT ![d].op = "empty", ![d].pc = "idle", ![d].th = "dying"]
    /\ torn' = torn \cup {x \in Tapes \X {"named", "shared"} : dev'[d].med = x[1] /\
                 \E o \in Drives \ {d} : dev[o].sub = x[1] /\ (x[2] = "shared" => HostOf[o] = HostOf[d])}
    /\ UNCHANGED <<libVars, tlcVars, host, pid, dssVars>>

\* Mutant: the tape found in a drive is taken to be mounted.
Filled_Mounted(D, d) == [D EXCEPT !.op = "mounted", !.pc = "idle"]

\* See if the tape is mounted.
Filled(D, d) == [D EXCEPT !.op = IF d \in mnt THEN "mounted" ELSE "loaded", !.pc = "idle"]

\* sched_fill_media_info: the row of a tape locked by another host, or by a
\* previous LRS of this one, is not taken over, and this is no error.
Acquire(d) ==
    /\ At(d, "acquire")
    /\ IF IsLocked(lock, dev[d].med)
       THEN /\ lock' = IF PossessApplies(lock, dev[d].med, HostOf[d])
                       THEN Possess(lock, dev[d].med, HostOf[d], pid[HostOf[d]]) ELSE lock
            /\ dev' = [dev EXCEPT ![d] = Filled(@, d)]
       ELSE Go(d, "lock") /\ UNCHANGED lock
    /\ UNCHANGED <<libVars, tlcVars, hostVars, dlock, adm, dadm, health, dhealth, used>>

TakeLock(d) ==
    /\ At(d, "lock")
    /\ IF PossessApplies(lock, dev[d].med, HostOf[d])
       THEN /\ lock' = Possess(lock, dev[d].med, HostOf[d], pid[HostOf[d]])
            /\ dev' = [dev EXCEPT ![d] = Filled(@, d)]
       ELSE dev' = [dev EXCEPT ![d].th = "dying", ![d].pc = "idle"] /\ UNCHANGED lock
    /\ UNCHANGED <<libVars, tlcVars, hostVars, dlock, adm, dadm, health, dhealth, used>>

\* sched_clean_device_locks, sched_clean_medium_locks: every row of a previous
\* LRS of this host goes, also those of the tapes found in its drives, which
\* Acquire could not take over: their drives have them without a lock.
CleanLocks(h) ==
    /\ host[h] = "init" /\ \A d \in DrivesOf(h) : dev[d].pc \notin Filling
    /\ dlock' = DeleteRows(dlock, DeviceCleanRows(dlock, Drives, h, pid[h], HostOf))
    /\ lock' = DeleteRows(lock, MediaCleanRows(lock, Tapes, h, pid[h]))
    /\ host' = [host EXCEPT ![h] = "up"]
    /\ UNCHANGED <<libVars, tlcVars, pid, torn, dev, adm, dadm, health, dhealth, used>>

\* An administrator unlocks a drive, and the LRS adds it if it does not run it.
AdminUnlock(d) ==
    /\ dadm[d] = "failed" \/ (host[HostOf[d]] = "up" /\ dev[d].th = "off")
    /\ host[HostOf[d]] = "up" /\ dev[d].th = "off" => ~Loading(HostOf[d])
    /\ used.admin < MaxAdmin /\ used' = Count("admin")
    /\ dadm' = [dadm EXCEPT ![d] = "unlocked"]
    /\ dev' = IF host[HostOf[d]] = "up" /\ dev[d].th = "off"
              THEN [dev EXCEPT ![d] = [Off EXCEPT !.th = "run", !.pc = "own"]] ELSE dev
    /\ UNCHANGED <<libVars, tlcVars, hostVars, lock, dlock, adm, health, dhealth>>

StopHost(h) ==
    /\ host[h] = "up" /\ ~Loading(h) /\ used.crash < MaxCrash /\ used' = Count("crash")
    /\ host' = [host EXCEPT ![h] = "stop"]
    /\ UNCHANGED <<libVars, tlcVars, pid, torn, dev, dssVars>>

\* A thread that stops unmounts its tape, unlocks it where it is, and unlocks
\* the drive; an error ends it as any other.
StopDevice(d) ==
    LET D == dev[d] IN
    /\ host[HostOf[d]] = "stop" /\ Running(d)
    /\ \/ /\ D.pc = "idle"
          /\ Go(d, CASE D.op = "mounted" -> "stop" [] D.op = "loaded" -> "stop_release"
                     [] OTHER -> "stop_device")
          /\ UNCHANGED <<mnt, lock, dlock, used>>
       \/ /\ D.pc = "stop" /\ mnt' = mnt \ {d}
          /\ dev' = [dev EXCEPT ![d].op = "loaded", ![d].pc = "stop_release"]
          /\ UNCHANGED <<lock, dlock, used>>
       \/ /\ D.pc = "stop" /\ Fault /\ dev' = [dev EXCEPT ![d].th = "dying", ![d].pc = "idle"]
          /\ UNCHANGED <<mnt, lock, dlock>>
       \/ /\ D.pc = "stop_release"
          /\ lock' = ReleaseRow(lock, D.med, d)
          /\ dev' = IF Mine(D.med, d) THEN [dev EXCEPT ![d].med = None, ![d].pc = "stop_device"]
                    ELSE [dev EXCEPT ![d].th = "dying", ![d].pc = "idle"]
          /\ UNCHANGED <<mnt, dlock, used>>
       \/ /\ D.pc = "stop_device" /\ dlock' = ReleaseRow(dlock, d, d)
          /\ dev' = [dev EXCEPT ![d] = Off] /\ UNCHANGED <<mnt, lock, used>>
    /\ UNCHANGED <<at, from, fs, tlcVars, hostVars, adm, dadm, health, dhealth>>

HostEnds(h) ==
    /\ host[h] = "stop" /\ \A d \in DrivesOf(h) : dev[d].th = "off"
    /\ host' = [host EXCEPT ![h] = "down"]
    /\ UNCHANGED <<libVars, tlcVars, pid, torn, dev, dssVars, used>>

\* The LRS dies: locks and mounts stay, a request already sent will be served.
Crash(h) ==
    /\ host[h] # "down" /\ used.crash < MaxCrash /\ used' = Count("crash")
    /\ host' = [host EXCEPT ![h] = "down"]
    /\ dev' = [d \in Drives |-> IF HostOf[d] = h THEN Off ELSE dev[d]]
    /\ rpc' = [d \in Drives |-> IF HostOf[d] # h THEN rpc[d]
                                ELSE IF rpc[d].st \in {"sent", "orphan"}
                                THEN [rpc[d] EXCEPT !.st = "orphan"] ELSE Idle]
    /\ UNCHANGED <<libVars, tlc, stale, pid, torn, dssVars>>

-----------------------------------------------------------------------------
ThreadStep(d) ==
    \/ Check(d) \/ Umount(d) \/ LibOpen(d) \/ LibRefused(d) \/ LibSend(d) \/ UnloadEnds(d)
    \/ Release(d) \/ LoadEnds(d) \/ Mount(d) \/ MountFails(d) \/ Df(d) \/ Format(d) \/ FormatError(d)
    \/ CleanupOnError(d) \/ Own(d) \/ Fill(d) \/ Acquire(d) \/ TakeLock(d) \/ StopDevice(d)

TlcStep(d) == TlcRefuses(d) \/ TlcBegins(d) \/ TlcNoFreeSlot(d) \/ MoveDone(d) \/ MoveFailed(d)

Next ==
    \/ \E d \in Drives :
          \/ ThreadStep(d) \/ TlcStep(d) \/ UmountFails(d) \/ MoveFailedDone(d) \/ AdminUnlock(d)
          \/ \E t \in Tapes, k \in {"read", "write", "format"} : Assign(d, t, k)
    \/ TlcDies
    \/ \E shut, mute \in SUBSET LibDevs : TlcOpens(shut, mute)
    \/ \E h \in Hosts : StartHost(h) \/ CleanLocks(h) \/ StopHost(h) \/ HostEnds(h) \/ Crash(h)

Spec == Init /\ [][Next]_vars
-----------------------------------------------------------------------------
(* Properties.                                                             *)

\* The tapes that none of these defects reached.
Sane(defects) == {t \in Tapes : \A k \in defects : <<t, k>> \notin torn}

\* A device that says its tape is mounted has that very tape in its drive,
\* mounted: no interleaving of moves asked by the hosts, lost answers, requests
\* served after the death of their LRS, moves wrongly reported as failed, or
\* restarts of the TLC makes an I/O reach another tape (dev_load, dev_mount,
\* tlc_library_load).
MountedIsThere ==
    \A d \in Drives : Running(d) /\ dev[d].op = "mounted" => d \in mnt /\ at[dev[d].med] = d

\* As long as the library itself does not fail, an idle device knows what its
\* drive holds, although TLC and LRS die at any time: no tape when it says
\* "empty", else the tape it names (dev_load, dev_unload, sched_fill_dev_info).
KnowsItsDrive ==
    used.fault = 0 =>
    \A d \in Drives : Running(d) /\ dev[d].pc = "idle" =>
        /\ dev[d].op = "empty" => InDrive(d) = {}
        /\ dev[d].op \in {"loaded", "mounted"} /\ dev[d].med \in Sane({"named", "shared"})
           => at[dev[d].med] = d

\* What the LRS believes of its drives is what the robot did.
DrivesAsBelieved == MountedIsThere /\ KnowsItsDrive

\* A device works on a tape only while its LRS owns the DSS lock of that tape,
\* whatever the locks released in the meantime for other tapes, the failures of
\* other drives and the cleanings of other LRS: two hosts never work on one
\* tape (ensure_medium_lock, dev_unload, fail_release_medium).  A drive that only
\* holds a tape may do so without its lock: see CleanLocks.
WorksUnderLock ==
    \A d \in Drives : Running(d) /\ dev[d].sub \in Sane({"shared"}) => Mine(dev[d].sub, d)

\* The cache of a TLC that runs says where every tape is, through moves,
\* retries on other library devices and requests of dead clients, unless a move
\* reported as failed took place since the library was last read
\* (move_tape_between_element_status, tlc_library_refresh).
CacheTrue ==
    tlc.up /\ ~stale => \A t \in Tapes : Holding(tlc.cache, t) = {at[t]}

\* An LRS in service keeps the lock of a failed tape only if the tape is in one
\* of its drives, or was just taken out of it: others are free to be repaired
\* (fail_release_medium).
FailedTapeFree ==
    \A h \in Hosts, t \in Sane({"shared"}) :
        host[h] = "up" /\ adm[t] = "failed" /\ OwnedBy(lock, t, h, pid[h])
        => \E d \in DrivesOf(h) : dev[d].med = t \/ Unlocking(d, t)

\* Once an LRS is in service, no row of a previous LRS of its host is left, for
\* a drive or for a tape, those found in its drives included
\* (sched_clean_device_locks, sched_clean_medium_locks).
NoRowOfTheDead ==
    \A h \in Hosts : host[h] = "up" =>
        /\ \A t \in Tapes : IsLocked(lock, t) /\ lock[t].host = h => lock[t].owner = pid[h]
        /\ \A d \in Drives : IsLocked(dlock, d) /\ dlock[d].host = h => dlock[d].owner = pid[h]

\* The locks of the LRS are those of the tapes and drives it has: none is missing
\* during work, none is left by a failure or by a previous LRS.
LocksExact == TypeOK /\ WorksUnderLock /\ FailedTapeFree /\ NoRowOfTheDead
=============================================================================
