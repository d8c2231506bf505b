------------------------------- MODULE LrsSync -------------------------------
(***************************************************************************)
(* The end of a write allocation in the LRS: the client releases its media,*)
(* the communication thread (lrs.c) splits the release into one sub-request*)
(* per medium and pushes each to the device that holds the medium, the     *)
(* thread of the device (lrs_device.c) synchronises the medium for all the *)
(* releases it has, and the thread that ends the last sub-request answers  *)
(* and frees the container.  A partial release is followed by more writes  *)
(* of the same client on the same devices.                                 *)
(*                                                                         *)
(* All the media of a release are to be synchronised: this is how the      *)
(* writers of src/layout release what they wrote.  A device stands for the *)
(* medium it holds.  What a synchronisation, the DSS and the health of a   *)
(* device do is nondeterministic, with bounded numbers of failures.        *)
(***************************************************************************)
EXTENDS Naturals, FiniteSets

CONSTANTS Clients, Devices,
          NMedia,         \* media a client writes to
          DevOf,          \* the devices they are in
          MaxIO,          \* nb_max_parallel_io of the family
          MaxPartial,     \* partial releases
          MaxFail,        \* failed synchronisations
          MaxDeath,       \* failed synchronisations that fail the device
          MaxDbFail,      \* failed updates of the DSS by the releases
          CanClose,       \* whether clients may disconnect
          MaxMedia,       \* bound of NMedia
          NoClient, NoSub

Slots == 1..MaxMedia

ASSUME ClientAssumption ==
    /\ NMedia \in [Clients -> Slots]
    /\ DevOf \in [Clients -> [Slots -> Devices]]
    /\ \A c \in Clients : \A i, j \in 1..NMedia[c] :
          i # j => DevOf[c][i] # DevOf[c][j]
    /\ IsFiniteSet(Devices) /\ IsFiniteSet(Clients)

ASSUME BoundAssumption ==
    /\ MaxMedia \in Nat \ {0} /\ MaxIO \in Nat \ {0}
    /\ MaxPartial \in Nat /\ MaxFail \in Nat /\ MaxDeath \in Nat
    /\ MaxDbFail \in Nat /\ CanClose \in BOOLEAN

ASSUME NoneAssumption ==
    NoClient \notin Clients /\ NoSub \notin Clients \X Slots

VARIABLES
    running,    \* the daemon was not asked to stop
    client,     \* the clients
    reqc,       \* the container of the current release of a client
    resp,       \* the response queue: <<client, "ok" or "error">>
    comm,       \* where the communication thread is
    dev,        \* the devices
    nPartial, nFail, nDeath, nDbFail

vars == <<running, client, reqc, resp, comm, dev,
          nPartial, nFail, nDeath, nDbFail>>
budget == <<nPartial, nFail, nDeath, nDbFail>>

ClientStates == {"idle", "writing", "waiting", "done", "failed", "gone"}
Statuses == {"todo", "done", "error", "cancel"}

Media(c) == 1..NMedia[c]
DevsOf(c) == {DevOf[c][i] : i \in Media(c)}

\* rc says that params.release.rc is set.  Ghosts: how often the container
\* was freed, how many responses it got, and whether the communication thread
\* refused the release after it had begun to push its media.
NewReqc(partial) ==
    [status |-> [i \in Slots |-> "todo"], rc |-> FALSE, partial |-> partial,
     frees |-> 0, answers |-> 0, refused |-> FALSE]

\* comm.idx is release_index + 1, comm.i the medium being released;
\* failed says that client_err is set, db that the DSS failed.
CommIdle == [pc |-> "idle", c |-> NoClient, i |-> 1, idx |-> 0,
             failed |-> FALSE, db |-> FALSE, left |-> {}]

\* loaded: the device can be found by its medium.  io and wait are
\* ld_ongoing_io and ld_ongoing_partial_io_waiting_sync.  A device flushes
\* its releases with its mutex: pc = "idle" means that the mutex is free.
\* dirty (ghost): the clients that released data not yet synchronised.
NewDev == [state |-> "running", loaded |-> TRUE, io |-> {}, wait |-> {},
           tosync |-> {}, needs |-> FALSE, blocking |-> FALSE, pc |-> "idle",
           rc |-> FALSE, dies |-> FALSE, sub |-> NoSub, dirty |-> {}]

Init ==
    /\ running = TRUE
    /\ client = [c \in Clients |-> "idle"]
    /\ reqc = [c \in Clients |-> NewReqc(FALSE)]
    /\ resp = {} /\ comm = CommIdle
    /\ dev = [d \in Devices |-> NewDev]
    /\ nPartial = 0 /\ nFail = 0 /\ nDeath = 0 /\ nDbFail = 0

\* is_request_tosync_ended
Ended(q, c) == \A i \in Media(c) : q.status[i] # "todo"

\* sched_req_free
FreedIf(q, b) == IF b THEN [q EXCEPT !.frees = @ + 1] ELSE q
Answered(q, b) == IF b THEN [q EXCEPT !.answers = @ + 1] ELSE q

\* dev_clean_io: an I/O is in one table at most.
CleanIo(v, c) == [v EXCEPT !.io = @ \ {c},
                           !.wait = IF c \in v.io THEN @ ELSE @ \ {c}]

\* move_ongoing_io to the table of the I/O that wait for a synchronisation,
\* and back
MoveToWait(v, c) ==
    [v EXCEPT !.io = @ \ {c}, !.wait = IF c \in v.io THEN @ \cup {c} ELSE @]
MoveBack(v, c) ==
    [v EXCEPT !.wait = @ \ {c}, !.io = IF c \in v.wait THEN @ \cup {c} ELSE @]
-----------------------------------------------------------------------------
\* The allocation is granted: the devices were ready (dev_is_sched_ready) and
\* have the I/O of the client.
Begin(c) ==
    /\ running /\ client[c] = "idle"
    /\ \A d \in DevsOf(c) :
          /\ dev[d].state = "running" /\ dev[d].loaded /\ dev[d].pc = "idle"
          /\ dev[d].needs => MaxIO # 1 /\ ~dev[d].blocking
          /\ Cardinality(dev[d].io) + Cardinality(dev[d].wait) < MaxIO
    /\ client' = [client EXCEPT ![c] = "writing"]
    /\ dev' = [d \in Devices |-> IF d \in DevsOf(c)
                                 THEN [dev[d] EXCEPT !.io = @ \cup {c}]
                                 ELSE dev[d]]
    /\ UNCHANGED <<running, reqc, resp, comm, budget>>

\* The client wrote on its media and releases them: process_release_request
\* takes the request.
ReleaseStart(c, partial) ==
    /\ comm.pc = "idle" /\ client[c] = "writing"
    /\ partial => nPartial < MaxPartial
    /\ nPartial' = IF partial THEN nPartial + 1 ELSE nPartial
    /\ client' = [client EXCEPT ![c] = "waiting"]
    /\ reqc' = [reqc EXCEPT ![c] = NewReqc(partial)]
    /\ comm' = [CommIdle EXCEPT !.pc = "find", !.c = c]
    /\ dev' = [d \in Devices |-> IF d \in DevsOf(c)
                                 THEN [dev[d] EXCEPT !.dirty = @ \cup {c}]
                                 ELSE dev[d]]
    /\ UNCHANGED <<running, resp, nFail, nDeath, nDbFail>>

\* The loop of process_release_request goes to the next medium: client_err
\* and release_index are updated unless there was an error before.  The loop
\* and what follows it read the container.
NextMedium(error) ==
    LET c == comm.c IN
    /\ comm' = [comm EXCEPT
         !.idx = IF comm.failed THEN @ ELSE @ + 1,
         !.failed = @ \/ error, !.i = @ + 1,
         !.pc = IF comm.i = NMedia[c] THEN "end" ELSE "find"]

Mine == DevOf[comm.c][comm.i]

\* search_loaded_medium and dev_is_release_ready, with and without the mutex
\* of the device: found...
ReleaseFound ==
    /\ comm.pc = "find" /\ dev[Mine].pc = "idle"
    /\ dev[Mine].loaded /\ dev[Mine].state # "ended"
    /\ comm' = [comm EXCEPT !.pc = "push"]
    /\ UNCHANGED <<running, client, reqc, resp, dev, budget>>

\* ... or not: -ENODEV or -ESHUTDOWN for the client
ReleaseNotFound ==
    /\ comm.pc = "find" /\ dev[Mine].pc = "idle"
    /\ ~(dev[Mine].loaded /\ dev[Mine].state # "ended")
    /\ NextMedium(TRUE)
    /\ UNCHANGED <<running, client, reqc, resp, dev, budget>>

\* Mutant: the I/O of a partial release is over.
Pushed_ForgetPartial(v, c, i) ==
    CleanIo([v EXCEPT !.tosync = @ \cup {<<c, i>>},
                      !.needs = @ \/ reqc[c].partial], c)

\* What release_medium does to the device: push_new_sync_to_device, then the
\* I/O is over, or waits for the synchronisation of a partial release.
Pushed(v, c, i) ==
    LET w == [v EXCEPT !.tosync = @ \cup {<<c, i>>},
                       !.needs = @ \/ reqc[c].partial]
    IN IF reqc[c].partial THEN MoveToWait(w, c) ELSE CleanIo(w, c)

\* release_medium, with the mutex of the device it has found.  The index of
\* the medium is the one after the last that was released without error.  An
\* error of the DSS (update_phys_spc_free) stops the loop, the sub-request
\* being pushed.
ReleasePush(db) ==
    LET c == comm.c IN
    /\ comm.pc = "push" /\ dev[Mine].pc = "idle"
    /\ db => nDbFail < MaxDbFail
    /\ nDbFail' = IF db THEN nDbFail + 1 ELSE nDbFail
    /\ dev' = [dev EXCEPT ![Mine] = Pushed(@, c, comm.idx + 1)]
    /\ IF db THEN comm' = [comm EXCEPT !.pc = "end", !.db = TRUE]
       ELSE NextMedium(FALSE)
    /\ UNCHANGED <<running, client, reqc, resp, nPartial, nFail, nDeath>>

\* All the media are pushed: the container belongs to the devices.
ReleaseDone ==
    /\ comm.pc = "end" /\ ~comm.db /\ ~comm.failed
    /\ comm' = CommIdle
    /\ UNCHANGED <<running, client, reqc, resp, dev, budget>>

\* Mutant: the container is freed although it was pushed to a device.
ReleaseError_AlwaysFree ==
    LET c == comm.c
        q == [reqc[c] EXCEPT !.rc = TRUE, !.answers = @ + 1,
                !.refused = TRUE] IN
    /\ comm.pc = "end" /\ (comm.db \/ comm.failed)
    /\ reqc' = [reqc EXCEPT ![c] = FreedIf(q, TRUE)]
    /\ resp' = resp \cup {<<c, "error">>}
    /\ comm' = CommIdle
    /\ UNCHANGED <<running, client, dev, budget>>

\* An error: it is answered, every medium is cancelled but the one of
\* release_index, and the container is freed if this is the first medium.
\* When the DSS fails on the first medium release_index is -1, and no medium
\* is marked in error.  lrs_process stops the daemon when the DSS fails.
ReleaseError ==
    LET c == comm.c
        q == [reqc[c] EXCEPT !.rc = TRUE, !.answers = @ + 1, !.refused = TRUE,
                !.status = [i \in Slots |-> IF i = comm.idx THEN "error"
                                            ELSE "cancel"]] IN
    /\ comm.pc = "end" /\ (comm.db \/ comm.failed)
    /\ reqc' = [reqc EXCEPT ![c] = FreedIf(q, comm.idx = 1)]
    /\ resp' = resp \cup {<<c, "error">>}
    /\ comm' = CommIdle
    /\ running' = (running /\ ~comm.db)
    /\ UNCHANGED <<client, dev, budget>>

\* _send_message
Send(c, kind) ==
    /\ comm.pc = "idle" /\ <<c, kind>> \in resp
    /\ resp' = resp \ {<<c, kind>>}
    /\ client' = IF client[c] = "gone" THEN client
                 ELSE [client EXCEPT ![c] =
                         IF kind = "error" THEN "failed"
                         ELSE IF reqc[c].partial THEN "writing" ELSE "done"]
    /\ UNCHANGED <<running, reqc, comm, dev, budget>>

\* release_on_socket_close, which takes the devices one after the other
Close(c) ==
    /\ CanClose /\ comm.pc = "idle"
    /\ client[c] \in {"writing", "waiting", "failed"}
    /\ client' = [client EXCEPT ![c] = "gone"]
    /\ comm' = [CommIdle EXCEPT !.pc = "close", !.c = c, !.left = Devices]
    /\ UNCHANGED <<running, reqc, resp, dev, budget>>

CloseDevice(d) ==
    /\ comm.pc = "close" /\ d \in comm.left /\ dev[d].pc = "idle"
    /\ dev' = [dev EXCEPT ![d] = CleanIo(@, comm.c)]
    /\ comm' = IF comm.left = {d} THEN CommIdle
               ELSE [comm EXCEPT !.left = @ \ {d}]
    /\ UNCHANGED <<running, client, reqc, resp, budget>>
-----------------------------------------------------------------------------
\* The device threads.

\* remove_canceled_sync: another device, or the communication thread, failed
\* the release.
RemoveCanceledSync(d, s) ==
    LET c == s[1]
        q == [reqc[c] EXCEPT !.status[s[2]] = "cancel"]
        v == [dev[d] EXCEPT !.tosync = @ \ {s}] IN
    /\ dev[d].state = "running" /\ dev[d].pc = "idle"
    /\ s \in dev[d].tosync /\ reqc[c].rc
    /\ reqc' = [reqc EXCEPT ![c] = FreedIf(q, Ended(q, c))]
    /\ dev' = [dev EXCEPT ![d] = IF q.partial THEN CleanIo(v, c) ELSE v]
    /\ UNCHANGED <<running, client, resp, comm, budget>>

\* Mutant: the pending releases never trigger a synchronisation.
CheckNeedsSync_Never(d) ==
    /\ dev[d].state = "running" /\ dev[d].pc = "idle"
    /\ ~dev[d].needs /\ \E s \in dev[d].tosync : reqc[s[1]].partial
    /\ dev' = [dev EXCEPT ![d].needs = TRUE]
    /\ UNCHANGED <<running, client, reqc, resp, comm, budget>>

\* check_needs_sync: a threshold is reached, the one on time at the latest, or
\* the daemon is stopping.
CheckNeedsSync(d) ==
    /\ dev[d].state = "running" /\ dev[d].pc = "idle"
    /\ ~dev[d].needs /\ dev[d].tosync # {}
    /\ dev' = [dev EXCEPT ![d].needs = TRUE, ![d].blocking = ~running]
    /\ UNCHANGED <<running, client, reqc, resp, comm, budget>>

\* dev_sync: medium_sync writes what the clients wrote, or fails, and may then
\* fail the device too.  The mutex of the device is taken until the releases
\* are flushed.
DevSync(d, ok, dies) ==
    /\ dev[d].state = "running" /\ dev[d].pc = "idle" /\ dev[d].needs
    /\ dev[d].io = {} \/ (MaxIO # 1 /\ ~dev[d].blocking)
    /\ dies => ~ok /\ nDeath < MaxDeath
    /\ ok \/ nFail < MaxFail
    /\ nFail' = IF ok THEN nFail ELSE nFail + 1
    /\ nDeath' = IF dies THEN nDeath + 1 ELSE nDeath
    /\ dev' = [dev EXCEPT ![d].pc = "flush", ![d].rc = ~ok, ![d].dies = dies,
                          ![d].dirty = IF ok THEN {} ELSE @]
    /\ UNCHANGED <<running, client, reqc, resp, comm, nPartial, nDbFail>>

\* Mutants: every failed medium is reported; the first medium that is
\* synchronised answers.
FlushSub_ReportAll(d, s) ==
    LET c == s[1]
        q == [reqc[c] EXCEPT !.rc = @ \/ dev[d].rc,
                !.status[s[2]] = IF dev[d].rc THEN "error" ELSE "done"]
        ended == Ended(q, c) IN
    /\ dev[d].pc = "flush" /\ s \in dev[d].tosync
    /\ reqc' = [reqc EXCEPT ![c] = FreedIf(Answered(q, dev[d].rc), ended)]
    /\ dev' = [dev EXCEPT ![d].tosync = @ \ {s}]
    /\ UNCHANGED <<running, client, comm, resp, budget>>

FlushSub_FirstAnswers(d, s) ==
    LET c == s[1]
        q == [reqc[c] EXCEPT !.status[s[2]] = "done"] IN
    /\ dev[d].pc = "flush" /\ s \in dev[d].tosync /\ ~dev[d].rc
    /\ reqc' = [reqc EXCEPT ![c] = FreedIf(q, Ended(q, c))]
    /\ resp' = IF reqc[c].rc THEN resp ELSE resp \cup {<<c, "ok">>}
    /\ dev' = [dev EXCEPT ![d] =
                 IF q.partial THEN MoveBack([@ EXCEPT !.tosync = @ \ {s}], c)
                 ELSE [@ EXCEPT !.tosync = @ \ {s}]]
    /\ UNCHANGED <<running, client, comm, budget>>

\* flush_tosync_array, for one release: with the mutex of the container its
\* medium is done or in error, and whether it is the last one is known.  After
\* the mutex the first error is reported, then the last medium answers and
\* frees the container.  When there is a last one left elsewhere, the report
\* is a step of its own.
FlushSub(d, s) ==
    LET c == s[1]
        q == [reqc[c] EXCEPT !.rc = @ \/ dev[d].rc,
                !.status[s[2]] = IF dev[d].rc THEN "error" ELSE "done"]
        first == dev[d].rc /\ ~reqc[c].rc
        ended == Ended(q, c)
        v == [dev[d] EXCEPT !.tosync = @ \ {s},
                !.pc = IF first /\ ~ended THEN "report" ELSE @,
                !.sub = IF first /\ ~ended THEN s ELSE @] IN
    /\ dev[d].pc = "flush" /\ s \in dev[d].tosync
    /\ reqc' = [reqc EXCEPT ![c] =
                  FreedIf(Answered(q, ended /\ (first \/ ~q.rc)), ended)]
    /\ resp' = resp \cup (IF ~ended THEN {}
                          ELSE IF first THEN {<<c, "error">>}
                          ELSE IF ~q.rc THEN {<<c, "ok">>} ELSE {})
    /\ dev' = [dev EXCEPT ![d] = IF ~q.partial THEN v
                                 ELSE IF q.rc THEN CleanIo(v, c)
                                 ELSE MoveBack(v, c)]
    /\ UNCHANGED <<running, client, comm, budget>>

\* queue_error_response reads the container.
FlushReport(d) ==
    LET c == dev[d].sub[1] IN
    /\ dev[d].pc = "report"
    /\ reqc' = [reqc EXCEPT ![c].answers = @ + 1]
    /\ resp' = resp \cup {<<c, "error">>}
    /\ dev' = [dev EXCEPT ![d].pc = "flush", ![d].sub = NoSub]
    /\ UNCHANGED <<running, client, comm, budget>>

\* Everything is flushed.  After dev_sync a device that failed cannot be found
\* any more, and its thread ends; after clean_tosync_array it is about to.
FlushEnd(d) ==
    /\ dev[d].pc = "flush" /\ dev[d].tosync = {}
    /\ dev' = [dev EXCEPT ![d].pc = "idle", ![d].needs = FALSE,
                 ![d].blocking = FALSE,
                 ![d].dies = FALSE, ![d].rc = FALSE,
                 ![d].loaded = @ /\ ~dev[d].dies,
                 ![d].state = IF dev[d].dies THEN "dying" ELSE @]
    /\ UNCHANGED <<running, client, reqc, resp, comm, budget>>

\* dev_cleanup_on_error: the releases that are left are in error
CleanTosync(d) ==
    /\ dev[d].state = "dying"
    /\ dev' = [dev EXCEPT ![d].state = "cleaned", ![d].pc = "flush",
                          ![d].rc = TRUE]
    /\ UNCHANGED <<running, client, reqc, resp, comm, budget>>

\* dev_thread_end
DevEnd(d) ==
    /\ dev[d].state = "cleaned" /\ dev[d].pc = "idle"
    /\ dev' = [dev EXCEPT ![d].state = "ended", ![d].io = {}, ![d].wait = {}]
    /\ UNCHANGED <<running, client, reqc, resp, comm, budget>>
-----------------------------------------------------------------------------
Comm ==
    \/ ReleaseFound \/ ReleaseNotFound \/ ReleaseDone \/ ReleaseError
    \/ \E db \in BOOLEAN : ReleasePush(db)
    \/ \E c \in Clients, kind \in {"ok", "error"} : Send(c, kind)
    \/ \E d \in Devices : CloseDevice(d)

Device(d) ==
    \/ \E s \in dev[d].tosync : RemoveCanceledSync(d, s)
    \/ \E s \in dev[d].tosync : FlushSub(d, s)
    \/ CheckNeedsSync(d)
    \/ \E ok, dies \in BOOLEAN : DevSync(d, ok, dies)
    \/ FlushReport(d) \/ FlushEnd(d) \/ CleanTosync(d) \/ DevEnd(d)

Client(c) == Begin(c) \/ \E partial \in BOOLEAN : ReleaseStart(c, partial)

\* Nobody waits for anything: the daemon waits for requests.
AtRest ==
    /\ \A c \in Clients : client[c] \notin {"writing", "waiting"}
    /\ comm.pc = "idle" /\ resp = {}
    /\ \A d \in Devices : dev[d].tosync = {} /\ dev[d].pc = "idle"
    /\ UNCHANGED vars

Next ==
    \/ Comm \/ AtRest
    \/ \E d \in Devices : Device(d)
    \/ \E c \in Clients : Client(c) \/ Close(c)

Spec == Init /\ [][Next]_vars

\* The threads run, and a client that writes ends up releasing its media.
Fairness ==
    /\ WF_vars(Comm)
    /\ \A d \in Devices : WF_vars(Device(d))
    /\ \A c \in Clients : WF_vars(\E p \in BOOLEAN : ReleaseStart(c, p))

FairSpec == Spec /\ Fairness
-----------------------------------------------------------------------------
\* The shape of the containers and devices; a device holds a sub-request
\* exactly while it reports it.
TypeOK ==
    /\ running \in BOOLEAN
    /\ client \in [Clients -> ClientStates]
    /\ reqc \in [Clients -> [status : [Slots -> Statuses], rc : BOOLEAN,
                            partial : BOOLEAN, frees : Nat, answers : Nat,
                            refused : BOOLEAN]]
    /\ resp \subseteq Clients \X {"ok", "error"}
    /\ comm \in [pc : {"idle", "find", "push", "end", "close"},
                 c : Clients \cup {NoClient}, i : 1..(MaxMedia + 1),
                 idx : 0..MaxMedia, failed : BOOLEAN, db : BOOLEAN,
                 left : SUBSET Devices]
    /\ dev \in [Devices -> [state : {"running", "dying", "cleaned", "ended"},
                            loaded : BOOLEAN, io : SUBSET Clients,
                            wait : SUBSET Clients,
                            tosync : SUBSET (Clients \X Slots),
                            needs : BOOLEAN, blocking : BOOLEAN,
                            pc : {"idle", "flush", "report"},
                            rc : BOOLEAN, dies : BOOLEAN,
                            sub : (Clients \X Slots) \cup {NoSub},
                            dirty : SUBSET Clients]]
    /\ comm.pc = "idle" <=> comm.c = NoClient
    /\ \A d \in Devices : dev[d].pc = "report" <=> dev[d].sub # NoSub
    /\ nPartial \in 0..MaxPartial /\ nFail \in 0..MaxFail
    /\ nDeath \in 0..MaxDeath /\ nDbFail \in 0..MaxDbFail

\* The devices answer a release once, whichever of them fail, cancel or end
\* it and in any order.  When the communication thread does not find a medium
\* after it pushed another, the client may get a second error, for a device
\* may have reported its own before; but never a success and an error, unless
\* the daemon stops because the DSS failed.
ReleaseOneAnswer ==
    \A c \in Clients :
        /\ reqc[c].answers <= (IF reqc[c].refused THEN 2 ELSE 1)
        /\ reqc[c].refused /\ running =>
              <<c, "ok">> \notin resp /\ client[c] \in {"waiting", "failed", "gone"}

\* process_release_request fails a release of which devices have a part.  It
\* frees the container if the first medium is the one in error, whatever was
\* pushed after it, and otherwise leaves that to the devices, which may have
\* ended their part: the container is then freed too early, or never.
Torn(c) == reqc[c].refused /\ NMedia[c] > 1

\* "only the last device free reqc": a container is freed once, and no device
\* has a sub-request of it any more.
ReleaseFreedOnce ==
    \A c \in Clients : reqc[c].frees > 0 /\ ~Torn(c) =>
        /\ reqc[c].frees = 1
        /\ \A d \in Devices, i \in Slots : <<c, i>> \notin dev[d].tosync

\* No container outlives its release: when no thread has anything to do with
\* it any more, it was freed.
ReleaseNotLeaked ==
    \A c \in Clients :
        /\ reqc[c].answers > 0 /\ comm.c # c /\ ~Torn(c)
        /\ \A d \in Devices : /\ dev[d].tosync \cap ({c} \X Slots) = {}
                              /\ dev[d].sub = NoSub \/ dev[d].sub[1] # c
        => reqc[c].frees > 0

\* Exactly one thread frees the container of a release, however it ends; a
\* release of several media that the communication thread refuses is apart.
ReleaseFreed == TypeOK /\ ReleaseFreedOnce /\ ReleaseNotLeaked

\* When a release succeeds, all the client wrote before is synchronised on
\* every medium: each was flushed by a synchronisation that began after the
\* release, although releases keep arriving while devices synchronise.
DurableAnswer ==
    \A c \in Clients :
        <<c, "ok">> \in resp \/ client[c] = "done"
            => \A d \in DevsOf(c) : c \notin dev[d].dirty

\* A client that goes on writing after a partial release still has its I/O
\* in its devices, which thus are neither emptied nor stopped.
ResumedIo ==
    \A c \in Clients : client[c] = "writing" =>
        \A d \in DevsOf(c) : c \in dev[d].io \/ dev[d].state = "ended"

\* Once a client is done or gone, no device is kept busy by its I/O.
NoStrayIo ==
    \A c \in Clients, d \in Devices :
        c \in dev[d].io \cup dev[d].wait =>
            \/ client[c] \in {"writing", "waiting", "failed"}
            \/ comm.pc = "close" /\ comm.c = c /\ d \in comm.left

\* move_ongoing_io parks an I/O and brings it back: it is there for the client
\* that goes on and nowhere for the one that ended.
ParkedIo == ResumedIo /\ NoStrayIo

\* Every release is answered at some point, unless its client leaves, the
\* daemon stops because the DSS failed, or a device of the client fails: a
\* medium pushed to a device that has failed since it was found is never
\* synchronised, and nobody answers.
ReleaseAnswered ==
    \A c \in Clients :
        client[c] = "waiting" ~>
            \/ client[c] # "waiting" \/ ~running
            \/ \E d \in DevsOf(c) : dev[d].state # "running"
=============================================================================
