------------------------------ MODULE LrsAlloc ------------------------------
(***************************************************************************)
(* The life of read and write allocation requests in the LRS (phobosd), for*)
(* one family of resources.  Three kinds of threads share the request      *)
(* containers and the devices:                                             *)
(*   - the communication thread (lrs.c), which is also the main loop;      *)
(*   - the scheduler thread (lrs_sched.c), which picks the devices;        *)
(*   - one thread per device (lrs_device.c), which mounts the medium.      *)
(* A request of n media is split into n sub-requests, one per device; the  *)
(* thread that ends the last of them answers and frees the container.      *)
(*                                                                         *)
(* A step is what a thread does under one mutex, or between two of them.   *)
(* Media are not modelled: any medium fits any device, and what a mount,   *)
(* a synchronisation or a query of the DSS returns is nondeterministic,    *)
(* with bounded numbers of failures.                                       *)
(***************************************************************************)
EXTENDS Naturals, FiniteSets

CONSTANTS Requests, Devices, Sockets,
          NMedia,         \* media (hence devices) a request needs
          Sock,           \* the socket a request comes from
          MaxIO,          \* nb_max_parallel_io of the family
          MaxFail,        \* failed mounts and allocations, errors of clients
          MaxDeath,       \* failed mounts that take their device down
          MaxSyncFail,    \* failed synchronisations
          EagerDevices,   \* whether a device may notice a sub-request before
                          \* it is signalled, its thread being awake
          CanStop,        \* whether the daemon may be asked to stop
          CanClose,       \* whether clients may disconnect
          MaxMedia,       \* bound of NMedia
          NoDev, NoSub, NoReq

Slots == 1..MaxMedia

ASSUME RequestAssumption ==
    /\ NMedia \in [Requests -> Slots]
    /\ Sock \in [Requests -> Sockets]
    /\ IsFiniteSet(Devices) /\ IsFiniteSet(Requests)

ASSUME BoundAssumption ==
    /\ MaxMedia \in Nat \ {0}
    /\ MaxIO \in Nat \ {0} /\ MaxFail \in Nat /\ MaxDeath \in Nat
    /\ MaxSyncFail \in Nat
    /\ EagerDevices \in BOOLEAN /\ CanStop \in BOOLEAN /\ CanClose \in BOOLEAN

ASSUME NoneAssumption ==
    /\ NoDev \notin Devices
    /\ NoReq \notin Requests
    /\ NoSub \notin Requests \X Slots

VARIABLES
    running,    \* the daemon was not asked to stop
    main,       \* the main loop: "loop", "exiting" (leaving lrs_process for
                \* the last time), "fini" (in lrs_fini), "end"
    reqc,       \* the container of a request
    incoming,   \* requests pushed to the scheduler
    ioSched,    \* requests held by the I/O scheduler
    retry,      \* sub-requests pushed back to the scheduler
    resp,       \* the response queue: <<request, "ok" or "error">>
    dev,        \* the devices
    sched,      \* where the scheduler thread is
    client,     \* the clients
    heirs,      \* ghost: requests received on the number of a connection that
                \* was closed under a request that is still served
    nFail, nDeath, nSyncFail

vars == <<running, main, reqc, incoming, ioSched, retry, resp, dev, sched,
          client, heirs, nFail, nDeath, nSyncFail>>

Statuses == {"todo", "done", "error", "cancel"}
ClientStates == {"idle", "waiting", "granted", "refused", "released", "gone",
                 "inherited"}
SchedStates == {"top", "retry", "repush", "incoming", "work", "alloc", "store",
                "clear", "ended"}
WorkStates == {"alloc", "store", "clear", "repush"}

queues == <<incoming, ioSched, retry>>
budget == <<nFail, nDeath, nSyncFail>>

Media(r) == 1..NMedia[r]

\* err is params.rwalloc.rc, devs is respc->devices.  Ghosts: how often the
\* container was freed and how many responses were made for it.
NewReqc == [status |-> [i \in Slots |-> "todo"], err |-> FALSE,
            devs |-> [i \in Slots |-> NoDev],
            frees |-> 0, answers |-> 0]

Init ==
    /\ running = TRUE /\ main = "loop"
    /\ reqc = [r \in Requests |-> NewReqc]
    /\ incoming = {} /\ ioSched = {} /\ retry = {} /\ resp = {}
    /\ dev = [d \in Devices |-> [state |-> "running", sub |-> NoSub,
                scheduled |-> FALSE, io |-> {}, sync |-> "clean"]]
    /\ sched = [pc |-> "top", r |-> NoReq, i |-> 1, stop |-> FALSE]
    /\ client = [r \in Requests |-> "idle"] /\ heirs = {}
    /\ nFail = 0 /\ nDeath = 0 /\ nSyncFail = 0
-----------------------------------------------------------------------------
\* Helpers on containers and devices.

\* is_rwalloc_ended
Ended(c, r) == \A i \in Media(r) : c.status[i] # "todo"

\* sched_req_free
Freed(c) == [c EXCEPT !.frees = @ + 1]
FreedIf(c, b) == IF b THEN Freed(c) ELSE c

\* queue_error_response: an error response is a container of its own.
WithError(c) == [c EXCEPT !.answers = @ + 1]

DevsOf(c, r) == {c.devs[i] : i \in Media(r)} \ {NoDev}

\* dev_clean_io on the devices of D
CleanIo(dv, D, s) ==
    [d \in Devices |-> IF d \in D THEN [dv[d] EXCEPT !.io = @ \ {s}] ELSE dv[d]]

\* rwalloc_cancel_DONE_devices: the devices whose medium is done forget the
\* I/O, and the media are cancelled.
DoneDevs(c, r) == {c.devs[i] : i \in {j \in Media(r) : c.status[j] = "done"}}

CancelDone(c) ==
    [c EXCEPT
       !.status = [i \in Slots |-> IF @[i] = "done" THEN "cancel" ELSE @[i]],
       !.devs = [i \in Slots |-> IF c.status[i] = "done" THEN NoDev ELSE @[i]]]

\* Mutant: one I/O too many.
SchedReady_OffByOne(d) ==
    /\ dev[d].state = "running" /\ dev[d].sync \in {"clean", "dirty"}
    /\ dev[d].sub = NoSub /\ ~dev[d].scheduled
    /\ Cardinality(dev[d].io) <= MaxIO

\* dev_is_parallel_sync: with several I/O at a time a synchronisation that is
\* due stops neither the choice nor the work of the device, unless it is
\* blocking.
NotHeldBySync(d) ==
    dev[d].sync # "blocking" /\ (dev[d].sync = "needs" => MaxIO # 1)

\* dev_is_sched_ready
SchedReady(d) ==
    /\ dev[d].state = "running" /\ NotHeldBySync(d)
    /\ dev[d].sub = NoSub /\ ~dev[d].scheduled
    /\ Cardinality(dev[d].io) < MaxIO

\* compatible_drive_exists: a running device, ready or not, that the media
\* in J do not use
CompatibleDriveExists(r, J) ==
    \E d \in Devices : /\ dev[d].state = "running"
                       /\ \A j \in J : reqc[r].devs[j] # d

\* The scheduler holds the mutex of r between the choice of a device for a
\* retry and its publication (sched_handle_error).
MutexFree(r) == ~(sched.pc = "repush" /\ sched.r = r)

GotoSched(pc) == sched' = [sched EXCEPT !.pc = pc]

SetDev(d, f) == dev' = [dev EXCEPT ![d] = f]
-----------------------------------------------------------------------------
\* The communication thread (lrs.c).

\* The daemon still serves r: its container lives, or it has a grant to send.
Served(r) == reqc[r].frees = 0 \/ <<r, "ok">> \in resp

\* What the daemon does for q may touch the I/O of the next requests under its
\* number: its client left, or it is itself mistaken for an earlier one.
Tainted(q) ==
    \/ client[q] = "gone" /\ Served(q)
    \/ q \in heirs /\ client[q] \in {"waiting", "granted"}

\* _prepare_requests: a new allocation request.  A stopping daemon refuses
\* it with _send_error, without going through the response queue.  The number
\* of a connection is used again as soon as it is closed.
Receive(r) ==
    /\ main = "loop" /\ client[r] = "idle"
    /\ IF running
       THEN /\ incoming' = incoming \cup {r}
            /\ client' = [client EXCEPT ![r] = "waiting"]
            /\ UNCHANGED reqc
       ELSE /\ reqc' = [reqc EXCEPT ![r] = Freed(WithError(@))]
            /\ client' = [client EXCEPT ![r] = "refused"]
            /\ UNCHANGED incoming
    /\ heirs' = IF \E q \in Requests : Sock[q] = Sock[r] /\ Tainted(q)
                THEN heirs \cup {r} ELSE heirs
    /\ UNCHANGED <<running, main, ioSched, retry, resp, dev, sched, budget>>

\* A client is connected under this number.
Connected(s) ==
    \E q \in Requests : Sock[q] = s /\ client[q] \in {"waiting", "granted", "inherited"}

\* _send_message: once the daemon is stopping, an allocation is withdrawn
\* from the devices and turned into an error; so is it, without answer, when
\* the client is gone.  An answer only knows the number of its connection: if
\* that is open again, the next client gets it, and the allocation with it.
Send(r, kind, open) ==
    /\ main \in {"loop", "exiting"}
    /\ <<r, kind>> \in resp
    /\ Connected(Sock[r]) => open
    /\ resp' = resp \ {<<r, kind>>}
    /\ LET granted == kind = "ok" /\ running /\ open IN
       /\ dev' = IF kind = "error" \/ granted THEN dev
                 ELSE CleanIo(dev, DevsOf(reqc[r], r), Sock[r])
       /\ client' = [client EXCEPT ![r] =
                       IF @ = "gone" THEN (IF granted THEN "inherited" ELSE @)
                       ELSE IF granted THEN "granted" ELSE "refused"]
    /\ UNCHANGED <<running, main, reqc, queues, sched, heirs, budget>>

\* release_medium, for each medium of the allocation, unless its device is
\* gone: what was written is to be synchronised by the device.
Release(r, written) ==
    /\ main = "loop" /\ client[r] = "granted"
    /\ client' = [client EXCEPT ![r] = "released"]
    /\ dev' = [d \in Devices |->
                 IF d \in DevsOf(reqc[r], r) /\ dev[d].state # "ended"
                 THEN [dev[d] EXCEPT !.io = @ \ {Sock[r]},
                                     !.sync = IF written /\ @ = "clean" THEN "dirty" ELSE @]
                 ELSE dev[d]]
    /\ UNCHANGED <<running, main, reqc, queues, resp, sched, heirs, budget>>

\* release_on_socket_close; the connection may have no request at all
Close(s) ==
    /\ CanClose /\ main = "loop"
    /\ client' = [r \in Requests |->
                    IF Sock[r] = s /\ client[r] \in {"waiting", "granted", "inherited"}
                    THEN "gone" ELSE client[r]]
    /\ dev' = CleanIo(dev, Devices, s)
    /\ UNCHANGED <<running, main, reqc, queues, resp, sched, heirs, budget>>

\* The signal handler of the daemon.
Stop ==
    /\ CanStop /\ running
    /\ running' = FALSE
    /\ UNCHANGED <<main, reqc, queues, resp, dev, sched, client, heirs, budget>>

\* sched_has_running_devices
HasRunningDevices ==
    \E d \in Devices : \/ dev[d].io # {} \/ dev[d].sync # "clean"
                       \/ dev[d].sub # NoSub \/ dev[d].scheduled

\* lrs_process finds every device idle, sends the responses it has, and
\* leaves the main loop.
MainCheck ==
    /\ main = "loop" /\ ~running /\ ~HasRunningDevices
    /\ main' = "exiting"
    /\ UNCHANGED <<running, reqc, queues, resp, dev, sched, client, heirs, budget>>

\* lrs_fini: stop the scheduler...
MainLeave ==
    /\ main = "exiting" /\ resp = {}
    /\ main' = "fini"
    /\ sched' = [sched EXCEPT !.stop = TRUE]
    /\ UNCHANGED <<running, reqc, queues, resp, dev, client, heirs, budget>>

\* ... then the devices (lrs_dev_hdl_clear) ...
FiniDevices ==
    /\ main = "fini" /\ sched.pc = "ended"
    /\ \E d \in Devices : dev[d].state = "running"
    /\ dev' = [d \in Devices |-> [dev[d] EXCEPT
                 !.state = IF @ = "running" THEN "stopping" ELSE @]]
    /\ UNCHANGED <<running, main, reqc, queues, resp, sched, client, heirs, budget>>

\* ... and destroy the queues with what they hold.
FiniEnd ==
    /\ main = "fini" /\ sched.pc = "ended"
    /\ \A d \in Devices : dev[d].state = "ended"
    /\ main' = "end"
    /\ incoming' = {} /\ ioSched' = {} /\ retry' = {} /\ resp' = {}
    /\ UNCHANGED <<running, reqc, dev, sched, client, heirs, budget>>
-----------------------------------------------------------------------------
\* The scheduler thread (lrs_sched_thread): retries, new requests, then one
\* request of the I/O scheduler.

SchedTop ==
    /\ sched.pc = "top"
    /\ GotoSched(IF sched.stop THEN "ended" ELSE "retry")
    /\ UNCHANGED <<running, main, reqc, queues, resp, dev, client, heirs, budget>>

\* The retry queue is emptied first.  A sub-request for which no device is
\* ready, but one is compatible, is pushed back to the queue and popped at
\* once again: the thread does nothing else until a device is ready.
\*
\* sched_handle_error, when the request already failed
RetryCancel(r, i) ==
    LET c == [reqc[r] EXCEPT !.status[i] = "cancel"] IN
    /\ sched.pc = "retry" /\ <<r, i>> \in retry /\ reqc[r].err
    /\ retry' = retry \ {<<r, i>>}
    /\ reqc' = [reqc EXCEPT ![r] = FreedIf(c, Ended(c, r))]
    /\ UNCHANGED <<running, main, incoming, ioSched, resp, dev, sched, client, heirs,
                   budget>>

\* First fatal error of a request, on medium i: the error is answered, and
\* the last medium to end frees the container.
Fatal(c, r, i) ==
    LET e == WithError(CancelDone([c EXCEPT !.err = TRUE,
                                            !.status[i] = "error"]))
    IN FreedIf(e, Ended(e, r))

\* sched_handle_error and sched_handle_read_or_write_error: the daemon is
\* stopping, no device is left, or another error occurs
RetryFatal(r, i) ==
    /\ sched.pc = "retry" /\ <<r, i>> \in retry /\ ~reqc[r].err
    /\ retry' = retry \ {<<r, i>>}
    /\ \/ (~running \/ ~CompatibleDriveExists(r, Media(r) \ {i}))
          /\ UNCHANGED nFail
       \/ nFail < MaxFail /\ nFail' = nFail + 1
    /\ reqc' = [reqc EXCEPT ![r] = Fatal(@, r, i)]
    /\ resp' = resp \cup {<<r, "error">>}
    /\ dev' = CleanIo(dev, DoneDevs(reqc[r], r), Sock[r])
    /\ UNCHANGED <<running, main, incoming, ioSched, sched, client, heirs, nDeath,
                   nSyncFail>>

\* a device is selected...
RetrySelect(r, i, d) ==
    /\ sched.pc = "retry" /\ <<r, i>> \in retry /\ ~reqc[r].err /\ running
    /\ SchedReady(d)
    /\ retry' = retry \ {<<r, i>>}
    /\ SetDev(d, [dev[d] EXCEPT !.scheduled = TRUE])
    /\ reqc' = [reqc EXCEPT ![r].devs[i] = d]
    /\ sched' = [sched EXCEPT !.pc = "repush", !.r = r, !.i = i]
    /\ UNCHANGED <<running, main, incoming, ioSched, resp, client, heirs, budget>>

\* ... and given the sub-request, still under the mutex of the request.
RetryPush ==
    LET d == reqc[sched.r].devs[sched.i] IN
    /\ sched.pc = "repush"
    /\ SetDev(d, [dev[d] EXCEPT !.sub = <<sched.r, sched.i>>,
                                !.scheduled = FALSE])
    /\ sched' = [sched EXCEPT !.pc = "retry", !.r = NoReq, !.i = 1]
    /\ UNCHANGED <<running, main, reqc, queues, resp, client, heirs, budget>>

RetryDone ==
    /\ sched.pc = "retry" /\ retry = {}
    /\ GotoSched("incoming")
    /\ UNCHANGED <<running, main, reqc, queues, resp, dev, client, heirs, budget>>

\* sched_handle_requests: a new request goes to the I/O scheduler, or is
\* refused by a stopping daemon
PopIncoming(r) ==
    /\ sched.pc = "incoming" /\ r \in incoming
    /\ incoming' = incoming \ {r}
    /\ IF running
       THEN /\ ioSched' = ioSched \cup {r}
            /\ UNCHANGED <<reqc, resp>>
       ELSE /\ resp' = resp \cup {<<r, "error">>}
            /\ reqc' = [reqc EXCEPT ![r] = Freed(WithError(@))]
            /\ UNCHANGED ioSched
    /\ UNCHANGED <<running, main, retry, dev, sched, client, heirs, budget>>

IncomingDone ==
    /\ sched.pc = "incoming" /\ incoming = {}
    /\ GotoSched("work")
    /\ UNCHANGED <<running, main, reqc, queues, resp, dev, client, heirs, budget>>

\* lrs_schedule_work: one request of the I/O scheduler is tried, then the
\* thread waits for a signal or for its 100 ms timeout.
Peek(r) ==
    /\ sched.pc = "work" /\ r \in ioSched
    /\ sched' = [sched EXCEPT !.pc = "alloc", !.r = r, !.i = 1]
    /\ UNCHANGED <<running, main, reqc, queues, resp, dev, client, heirs, budget>>

NoWork ==
    /\ sched.pc = "work" /\ ioSched = {}
    /\ GotoSched("top")
    /\ UNCHANGED <<running, main, reqc, queues, resp, dev, client, heirs, budget>>

BackToTop == sched' = [sched EXCEPT !.pc = "top", !.r = NoReq, !.i = 1]

Selected(r) == {reqc[r].devs[j] : j \in 1..(sched.i - 1)}

\* sched_write_alloc_one_medium and sched_read_alloc_one_medium
AllocSelect(d) ==
    /\ sched.pc = "alloc" /\ sched.i <= NMedia[sched.r]
    /\ SchedReady(d)
    /\ SetDev(d, [dev[d] EXCEPT !.scheduled = TRUE])
    /\ reqc' = [reqc EXCEPT ![sched.r].devs[sched.i] = d]
    /\ sched' = [sched EXCEPT !.i = @ + 1]
    /\ UNCHANGED <<running, main, queues, resp, client, heirs, budget>>

Unscheduled(D) ==
    [d \in Devices |-> IF d \in D THEN [dev[d] EXCEPT !.scheduled = FALSE]
                       ELSE dev[d]]

\* publish_or_cancel on -EAGAIN: the selected devices are given back and the
\* request waits in the I/O scheduler; a stopping daemon refuses it instead,
\* and returns before giving the devices back.
AllocAgain ==
    LET r == sched.r IN
    /\ sched.pc = "alloc" /\ sched.i <= NMedia[r]
    /\ \A d \in Devices : ~SchedReady(d)
    /\ CompatibleDriveExists(r, 1..(sched.i - 1))
    /\ IF running
       THEN /\ dev' = Unscheduled(Selected(r))
            /\ UNCHANGED <<ioSched, resp, reqc>>
       ELSE /\ ioSched' = ioSched \ {r}
            /\ resp' = resp \cup {<<r, "error">>}
            /\ reqc' = [reqc EXCEPT ![r] = Freed(WithError(@))]
            /\ UNCHANGED dev
    /\ BackToTop
    /\ UNCHANGED <<running, main, incoming, retry, client, heirs, budget>>

\* publish_or_cancel on any other error
AllocFatal ==
    LET r == sched.r IN
    /\ sched.pc = "alloc" /\ sched.i <= NMedia[r]
    /\ \/ ~CompatibleDriveExists(r, 1..(sched.i - 1)) /\ UNCHANGED nFail
       \/ nFail < MaxFail /\ nFail' = nFail + 1
    /\ dev' = Unscheduled(Selected(r))
    /\ ioSched' = ioSched \ {r}
    /\ resp' = resp \cup {<<r, "error">>}
    /\ reqc' = [reqc EXCEPT ![r] = Freed(WithError(@))]
    /\ BackToTop
    /\ UNCHANGED <<running, main, incoming, retry, client, heirs, nDeath, nSyncFail>>

\* publish_or_cancel on success: push_sub_request_to_device hands each
\* sub-request to its device, without the mutex of the device...
Publish ==
    /\ sched.pc = "alloc" /\ sched.i > NMedia[sched.r]
    /\ ioSched' = ioSched \ {sched.r}
    /\ sched' = [sched EXCEPT !.pc = "store", !.i = 1]
    /\ UNCHANGED <<running, main, reqc, incoming, retry, resp, dev, client, heirs,
                   budget>>

PushStore ==
    LET d == reqc[sched.r].devs[sched.i] IN
    /\ sched.pc = "store"
    /\ SetDev(d, [dev[d] EXCEPT !.sub = <<sched.r, sched.i>>])
    /\ GotoSched("clear")
    /\ UNCHANGED <<running, main, reqc, queues, resp, client, heirs, budget>>

\* ... and clears its ld_ongoing_scheduled, read through respc->devices.  The
\* devices may have ended the request by then, and the list been freed: what
\* is left there is the device or, once cancelled, NULL, on which the daemon
\* crashes and the scheduler goes no further.
PushClear ==
    LET r == sched.r
        d == reqc[r].devs[sched.i] IN
    /\ sched.pc = "clear" /\ d # NoDev
    /\ SetDev(d, [dev[d] EXCEPT !.scheduled = FALSE])
    /\ IF sched.i = NMedia[r] THEN BackToTop
       ELSE sched' = [sched EXCEPT !.pc = "store", !.i = @ + 1]
    /\ UNCHANGED <<running, main, reqc, queues, resp, client, heirs, budget>>
-----------------------------------------------------------------------------
\* The device threads (lrs_device.c).

\* lrs_dev_thread sees its sub-request...
HasSub(d) ==
    /\ dev[d].state \in {"running", "stopping"}
    /\ dev[d].sub # NoSub /\ MutexFree(dev[d].sub[1])
    /\ EagerDevices \/ ~dev[d].scheduled

\* ... and hands it to dev_handle_read_write.
CanHandle(d) == HasSub(d) /\ NotHeldBySync(d)

\* What the end of a sub-request does to its device: a device that failed
\* ends its thread, after dev_thread_end.
AfterHandle(dv, d, died) ==
    [dv EXCEPT ![d] = [@ EXCEPT !.sub = NoSub,
                                !.state = IF died THEN "dying"
                                          ELSE dv[d].state]]

\* A failed mount is one failure; a mount that takes the device down too
\* counts as a death.
CountFailure(failed, died) ==
    /\ failed => nFail < MaxFail
    /\ died => nDeath < MaxDeath
    /\ nFail' = IF failed THEN nFail + 1 ELSE nFail
    /\ nDeath' = IF died THEN nDeath + 1 ELSE nDeath
    /\ UNCHANGED nSyncFail

\* cancel_subrequest_on_error, another medium having failed: the sub-request
\* is cancelled, even if a synchronisation is due; or it is after its mount,
\* which may take the device down (handle_rwalloc_sub_request_result)
DevCancel(d, died) ==
    LET r == dev[d].sub[1]
        c == [reqc[r] EXCEPT !.status[dev[d].sub[2]] = "cancel"] IN
    /\ HasSub(d) /\ reqc[r].err /\ (died => NotHeldBySync(d))
    /\ CountFailure(died, died)
    /\ reqc' = [reqc EXCEPT ![r] = FreedIf(c, Ended(c, r))]
    /\ dev' = AfterHandle(dev, d, died)
    /\ UNCHANGED <<running, main, queues, resp, sched, client, heirs>>

\* the medium is mounted: the I/O of the client is registered in the device,
\* and the last medium answers
DevDone(d) ==
    LET r == dev[d].sub[1]
        c == [reqc[r] EXCEPT !.status[dev[d].sub[2]] = "done"]
        last == Ended(c, r) IN
    /\ CanHandle(d) /\ ~reqc[r].err
    /\ reqc' = [reqc EXCEPT ![r] =
                  IF last THEN Freed([c EXCEPT !.answers = @ + 1]) ELSE c]
    /\ resp' = IF last THEN resp \cup {<<r, "ok">>} ELSE resp
    /\ SetDev(d, [dev[d] EXCEPT !.sub = NoSub, !.io = @ \cup {Sock[r]}])
    /\ UNCHANGED <<running, main, queues, sched, client, heirs, budget>>

\* Mutant: the device keeps the sub-request it has pushed back.
DevRequeue_KeepSub(d, died) ==
    /\ CanHandle(d) /\ ~reqc[dev[d].sub[1]].err
    /\ CountFailure(TRUE, FALSE)
    /\ retry' = retry \cup {dev[d].sub}
    /\ UNCHANGED <<running, main, reqc, incoming, ioSched, resp, dev, sched,
                   client, heirs>>

\* the mount failed: another device may do...
DevRequeue(d, died) ==
    /\ CanHandle(d) /\ ~reqc[dev[d].sub[1]].err
    /\ CountFailure(TRUE, died)
    /\ retry' = retry \cup {dev[d].sub}
    /\ dev' = AfterHandle(dev, d, died)
    /\ UNCHANGED <<running, main, reqc, incoming, ioSched, resp, sched, client, heirs>>

\* Mutants: every failure is taken for the first one; the I/O of the media
\* that are done stay in their devices; only the last medium to end answers.
DevFatal_AnyError(d, died) ==
    LET r == dev[d].sub[1] IN
    /\ CanHandle(d)
    /\ CountFailure(TRUE, died)
    /\ reqc' = [reqc EXCEPT ![r] = Fatal(@, r, dev[d].sub[2])]
    /\ resp' = resp \cup {<<r, "error">>}
    /\ dev' = AfterHandle(CleanIo(dev, DoneDevs(reqc[r], r), Sock[r]), d, died)
    /\ UNCHANGED <<running, main, queues, sched, client, heirs>>

DevFatal_KeepIo(d, died) ==
    LET r == dev[d].sub[1] IN
    /\ CanHandle(d) /\ ~reqc[r].err
    /\ CountFailure(TRUE, died)
    /\ reqc' = [reqc EXCEPT ![r] = Fatal(@, r, dev[d].sub[2])]
    /\ resp' = resp \cup {<<r, "error">>}
    /\ dev' = AfterHandle(dev, d, died)
    /\ UNCHANGED <<running, main, queues, sched, client, heirs>>

DevFatal_LastOnly(d, died) ==
    LET r == dev[d].sub[1]
        q == Fatal(reqc[r], r, dev[d].sub[2]) IN
    /\ CanHandle(d) /\ ~reqc[r].err
    /\ CountFailure(TRUE, died)
    /\ reqc' = [reqc EXCEPT ![r] = q]
    /\ resp' = IF Ended(q, r) THEN resp \cup {<<r, "error">>} ELSE resp
    /\ dev' = AfterHandle(CleanIo(dev, DoneDevs(reqc[r], r), Sock[r]), d, died)
    /\ UNCHANGED <<running, main, queues, sched, client, heirs>>

\* ... or none, and this is the first fatal error of the request.  The I/O
\* registered for its other media are withdrawn.
DevFatal(d, died) ==
    LET r == dev[d].sub[1] IN
    /\ CanHandle(d) /\ ~reqc[r].err
    /\ CountFailure(TRUE, died)
    /\ reqc' = [reqc EXCEPT ![r] = Fatal(@, r, dev[d].sub[2])]
    /\ resp' = resp \cup {<<r, "error">>}
    /\ dev' = AfterHandle(CleanIo(dev, DoneDevs(reqc[r], r), Sock[r]), d, died)
    /\ UNCHANGED <<running, main, queues, sched, client, heirs>>

\* check_needs_sync: a threshold is reached...
NeedsSync(d) ==
    /\ dev[d].state \in {"running", "stopping"} /\ dev[d].sync = "dirty"
    /\ SetDev(d, [dev[d] EXCEPT !.sync = IF running /\ dev[d].state = "running" THEN "needs"
                                        ELSE "blocking"])
    /\ UNCHANGED <<running, main, reqc, queues, resp, sched, client, heirs, budget>>

\* ... or a client reported an error with its release (ld_last_client_rc)
ClientFailed(d) ==
    /\ dev[d].state \in {"running", "stopping"} /\ dev[d].sync = "dirty"
    /\ nFail < MaxFail /\ nFail' = nFail + 1
    /\ SetDev(d, [dev[d] EXCEPT !.sync = "blocking"])
    /\ UNCHANGED <<running, main, reqc, queues, resp, sched, client, heirs, nDeath,
                   nSyncFail>>

CanSync(d) ==
    /\ dev[d].state \in {"running", "stopping"} /\ dev[d].sync \in {"needs", "blocking"}
    /\ dev[d].io = {} \/ NotHeldBySync(d)

\* dev_sync; a fatal error of it ends the thread
Sync(d, died) ==
    /\ CanSync(d)
    /\ died => nSyncFail < MaxSyncFail
    /\ nSyncFail' = IF died THEN nSyncFail + 1 ELSE nSyncFail
    /\ SetDev(d, [dev[d] EXCEPT !.sync = "clean",
                                !.state = IF died THEN "dying" ELSE @])
    /\ UNCHANGED <<running, main, reqc, queues, resp, sched, client, heirs, nFail,
                   nDeath>>

\* dev_thread_end, cancel_pending_sub_request: a sub-request that reached
\* the device meanwhile is requeued, is a fatal error or is cancelled.
DyingSub(d, requeued) ==
    LET r == dev[d].sub[1]
        i == dev[d].sub[2]
        c == [reqc[r] EXCEPT !.status[i] = "cancel"] IN
    /\ dev[d].state = "dying" /\ dev[d].sub # NoSub /\ MutexFree(r)
    /\ IF reqc[r].err
       THEN /\ reqc' = [reqc EXCEPT ![r] = FreedIf(c, Ended(c, r))]
            /\ dev' = AfterHandle(dev, d, FALSE)
            /\ UNCHANGED <<retry, resp>>
       ELSE IF requeued
       THEN /\ retry' = retry \cup {dev[d].sub}
            /\ dev' = AfterHandle(dev, d, FALSE)
            /\ UNCHANGED <<reqc, resp>>
       ELSE /\ reqc' = [reqc EXCEPT ![r] = Fatal(@, r, i)]
            /\ resp' = resp \cup {<<r, "error">>}
            /\ dev' = AfterHandle(CleanIo(dev, DoneDevs(reqc[r], r), Sock[r]),
                                  d, FALSE)
            /\ UNCHANGED retry
    /\ UNCHANGED <<running, main, incoming, ioSched, sched, client, heirs, budget>>

\* The thread ends: it failed, or it was told to stop and is idle.
DevEnd(d) ==
    /\ \/ dev[d].state = "dying"
       \/ dev[d].state = "stopping" /\ dev[d].io = {} /\ dev[d].sync = "clean"
    /\ dev[d].sub = NoSub
    /\ SetDev(d, [dev[d] EXCEPT !.state = "ended", !.io = {}, !.sync = "clean"])
    /\ UNCHANGED <<running, main, reqc, queues, resp, sched, client, heirs, budget>>
-----------------------------------------------------------------------------
Main ==
    \/ \E r \in Requests : \E k \in {"ok", "error"}, open \in BOOLEAN : Send(r, k, open)
    \/ MainCheck \/ MainLeave \/ FiniDevices \/ FiniEnd

Scheduler ==
    \/ SchedTop \/ RetryDone \/ IncomingDone \/ NoWork
    \/ \E r \in Requests : PopIncoming(r) \/ Peek(r)
    \/ \E r \in Requests, i \in Slots :
          \/ RetryCancel(r, i) \/ RetryFatal(r, i)
          \/ \E d \in Devices : RetrySelect(r, i, d)
    \/ RetryPush
    \/ \E d \in Devices : AllocSelect(d)
    \/ AllocAgain \/ AllocFatal \/ Publish \/ PushStore \/ PushClear

Device(d) ==
    \/ DevDone(d) \/ NeedsSync(d) \/ ClientFailed(d) \/ DevEnd(d)
    \/ \E died \in BOOLEAN :
          \/ DevCancel(d, died) \/ DevRequeue(d, died)
          \/ DevFatal(d, died) \/ Sync(d, died)
    \/ \E requeued \in BOOLEAN : DyingSub(d, requeued)

\* The daemon has stopped.
Terminated == main = "end" /\ UNCHANGED vars

Next ==
    \/ Main \/ Scheduler \/ Stop \/ Terminated
    \/ \E d \in Devices : Device(d)
    \/ \E r \in Requests : Receive(r) \/ \E written \in BOOLEAN : Release(r, written)
    \/ \E s \in Sockets : Close(s)

Spec == Init /\ [][Next]_vars

\* The threads run; a client that was granted its devices releases them.
Fairness ==
    /\ WF_vars(Main) /\ WF_vars(Scheduler)
    /\ \A d \in Devices : WF_vars(Device(d))
    /\ \A r \in Requests : WF_vars(\E written \in BOOLEAN : Release(r, written))

FairSpec == Spec /\ Fairness
-----------------------------------------------------------------------------
Containers == [status : [Slots -> Statuses], err : BOOLEAN,
               devs : [Slots -> Devices \cup {NoDev}],
               frees : Nat, answers : Nat]
DeviceStates == [state : {"running", "stopping", "dying", "ended"},
                 sub : (Requests \X Slots) \cup {NoSub},
                 scheduled : BOOLEAN, io : SUBSET Sockets,
                 sync : {"clean", "dirty", "needs", "blocking"}]
SchedPositions == [pc : SchedStates, r : Requests \cup {NoReq},
                   i : 1..(MaxMedia + 1), stop : BOOLEAN]

\* The shape of the containers, queues and devices; the scheduler has a
\* request in hand exactly while it works on one.
TypeOK ==
    /\ running \in BOOLEAN /\ main \in {"loop", "exiting", "fini", "end"}
    /\ reqc \in [Requests -> Containers]
    /\ incoming \subseteq Requests /\ ioSched \subseteq Requests
    /\ retry \subseteq Requests \X Slots
    /\ resp \subseteq Requests \X {"ok", "error"}
    /\ dev \in [Devices -> DeviceStates]
    /\ sched \in SchedPositions
    /\ sched.r = NoReq <=> sched.pc \notin WorkStates
    /\ client \in [Requests -> ClientStates] /\ heirs \subseteq Requests
    /\ nFail \in 0..MaxFail /\ nDeath \in 0..MaxDeath
    /\ nSyncFail \in 0..MaxSyncFail

\* A request gets at most one answer, whichever of the communication thread,
\* the scheduler and the devices of its media end it, and in any order.
OneAnswer == \A r \in Requests : reqc[r].answers <= 1

\* The scheduler works on r.
InHand(r) == sched.r = r /\ sched.pc \in {"alloc", "store", "repush"}

\* The threads that free a request container are the last to know it: it is
\* freed once, and no queue, device or scheduler step refers to it any more.
FreedOnce ==
    \A r \in Requests : reqc[r].frees > 0 =>
        /\ reqc[r].frees = 1
        /\ r \notin incoming \cup ioSched /\ ~InHand(r)
        /\ \A i \in Slots : /\ <<r, i>> \notin retry
                            /\ \A d \in Devices : dev[d].sub # <<r, i>>

\* handle_rwalloc_sub_request_result and its like end a request exactly once,
\* although every thread may be the last.
EndsOnce == OneAnswer /\ FreedOnce

\* The places where sub-request i of r can be
Places(r, i) ==
    {d \in Devices : dev[d].sub = <<r, i>>}
      \cup (IF <<r, i>> \in retry THEN {"retry"} ELSE {})
      \cup (IF \/ r \in incoming \cup ioSched
               \/ sched.r = r /\ sched.pc = "store" /\ i >= sched.i
               \/ sched.r = r /\ sched.pc = "clear" /\ i > sched.i
               \/ sched.r = r /\ sched.pc = "repush" /\ i = sched.i
            THEN {"sched"} ELSE {})

\* No sub-request is lost or duplicated on its way between the scheduler,
\* the devices and the retry queue: as long as its container lives, a medium
\* that is not ended is in exactly one place, and an ended one in none.
NothingLost ==
    \A r \in Requests, i \in Slots :
        main # "end" /\ client[r] # "idle" /\ reqc[r].frees = 0 /\ i \in Media(r)
            => IF reqc[r].status[i] = "todo"
               THEN \E p \in Devices \cup {"retry", "sched"} : Places(r, i) = {p}
               ELSE Places(r, i) = {}

\* An ongoing I/O of a device belongs to a request that is still being
\* served on this device, whose answer is on its way, or whose allocation a
\* client has, were it the next one under the same number: errors,
\* cancellations and disconnections leave none behind.
NoStrayIo ==
    \A d \in Devices : \A s \in dev[d].io : \E r \in Requests :
        /\ Sock[r] = s /\ d \in DevsOf(reqc[r], r)
        /\ Served(r) \/ client[r] \in {"granted", "inherited"}

\* A device has at most nb_max_parallel_io I/O, although it is chosen long
\* before they are counted.
IoBound == \A d \in Devices : Cardinality(dev[d].io) <= MaxIO

\* ld_ongoing_io names connections by their number: the I/O of a request can
\* be told from those of others unless an earlier connection of that number
\* was closed under a request that is still served or, with several I/O on a
\* device, its client has other requests.
OwnKey(r) ==
    /\ r \notin heirs
    /\ MaxIO = 1 \/ \A q \in Requests \ {r} : Sock[q] = Sock[r] => client[q] = "idle"

\* While a client has an allocation, the devices it was given know about its
\* I/O (and hence neither sync, nor change their medium, nor stop), unless
\* their thread ended on an error or the key of the I/O is not its own.
GrantKept ==
    \A r \in Requests : client[r] = "granted" /\ OwnKey(r) =>
        \A d \in DevsOf(reqc[r], r) :
            Sock[r] \in dev[d].io \/ dev[d].state = "ended"

\* ld_ongoing_io is exact: no I/O of nobody, none too many, and none forgotten
\* but where two requests have one key.
OngoingIo == NoStrayIo /\ GrantKept /\ IoBound

Promise == INSTANCE AllocPromise WITH
    grant <- [r \in Requests |-> IF client[r] = "granted"
                                 THEN DevsOf(reqc[r], r) ELSE {}]

\* The allocation requests, as the clients see them, behave as AllocPromise:
\* whatever threads, failures and cancellations did in between, the answer
\* grants as many distinct devices as media were requested, which no other
\* request has, or is an error.  A request is promised nothing about its
\* devices when it came on the number of a connection closed under a request
\* that is still served, which may then withdraw the I/O of both.
KeepsPromise == Promise!Spec

\* A device waits, for a blocking synchronisation, for the end of the I/O of
\* a request that is not answered, and that may wait for this very device.
HeldUp ==
    \E d \in Devices : /\ dev[d].sync = "blocking"
                       /\ \E r \in Requests : Sock[r] \in dev[d].io /\ client[r] = "waiting"

\* Every request is answered at some point, unless its client leaves, or an
\* error that a client reports blocks for ever a device in which the mount of
\* an unanswered request is to wait.
Answered ==
    []<>~HeldUp =>
        \A r \in Requests :
            client[r] = "waiting" ~> client[r] \in {"granted", "refused",
                                                    "released", "gone"}
=============================================================================
