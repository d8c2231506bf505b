--------------------------- MODULE LrsAllocProofs ---------------------------
(***************************************************************************)
(* Theorems on LrsAlloc, for any requests, devices and bounds.             *)
(*                                                                         *)
(* A sub-request is a token that the scheduler, the retry queue and the    *)
(* devices pass on: AllocInv says that every token is in one place, which  *)
(* its container knows of (Tokens), that the queues hold whole requests    *)
(* (Queued) and that the scheduler reserves the devices it is about to     *)
(* give a token to (Reserved).  It follows that a thread which ends the    *)
(* last medium is the only one left that knows the container.              *)
(***************************************************************************)
EXTENDS LrsAlloc, FiniteSetTheorems, TLAPS

\* Where the scheduler is in the media of the request it has in hand.
Progress ==
    /\ sched.pc \in {"store", "clear"} => sched.i \in Media(sched.r)
    /\ sched.pc = "repush" => sched.i \in Slots

Inv == TypeOK /\ Progress
-----------------------------------------------------------------------------
\* Cancelling the media that are done keeps a container well formed.
LEMMA CancelDoneType ==
    ASSUME NEW c \in Containers
    PROVE  CancelDone(c) \in Containers
<1> DEFINE st == [i \in Slots |-> IF c.status[i] = "done" THEN "cancel"
                                  ELSE c.status[i]]
           dv == [i \in Slots |-> IF c.status[i] = "done" THEN NoDev
                                  ELSE c.devs[i]]
<1>1. st \in [Slots -> Statuses]
  BY DEF Containers, Statuses
<1>2. dv \in [Slots -> Devices \cup {NoDev}]
  BY DEF Containers
<1>3. CancelDone(c) = [c EXCEPT !.status = st, !.devs = dv]
  BY DEF CancelDone, Containers
<1> HIDE DEF st, dv
<1> QED BY <1>1, <1>2, <1>3 DEF Containers

\* The first fatal error of a request keeps its container well formed.
LEMMA FatalType ==
    ASSUME NEW c \in Containers, NEW r \in Requests, NEW i \in Slots
    PROVE  Fatal(c, r, i) \in Containers
<1> DEFINE e == [c EXCEPT !.err = TRUE, !.status[i] = "error"]
           f == WithError(CancelDone(e))
<1>1. e \in Containers
  BY DEF Containers, Statuses
<1>2. f \in Containers
  <2>1. CancelDone(e) \in Containers
    BY <1>1, CancelDoneType
  <2> HIDE DEF e
  <2> QED BY <2>1 DEF WithError, Containers
<1>3. Fatal(c, r, i) = FreedIf(f, Ended(f, r))
  BY DEF Fatal
<1> HIDE DEF f, e
<1> QED BY <1>2, <1>3 DEF FreedIf, Freed, Containers

\* So does the end of a request.
LEMMA FreedTypes ==
    ASSUME NEW c \in Containers, NEW b
    PROVE  FreedIf(c, b) \in Containers /\ Freed(c) \in Containers
<1>1. Freed(c) \in Containers
  BY DEF Freed, Containers
<1> QED BY <1>1 DEF FreedIf

\* So does a new status for one of its media.
LEMMA StatusType ==
    ASSUME NEW c \in Containers, NEW i \in Slots, NEW v \in Statuses
    PROVE  [c EXCEPT !.status[i] = v] \in Containers
BY DEF Containers

\* So does a refusal.
LEMMA ErrorFreedType ==
    ASSUME NEW c \in Containers
    PROVE  Freed(WithError(c)) \in Containers
<1>1. WithError(c) \in Containers
  BY DEF WithError, Containers
<1> QED BY <1>1, FreedTypes

\* Reserving a device, or giving it back, keeps it well formed.
LEMMA ScheduledType ==
    ASSUME NEW v \in DeviceStates
    PROVE  /\ [v EXCEPT !.scheduled = TRUE] \in DeviceStates
           /\ [v EXCEPT !.scheduled = FALSE] \in DeviceStates
BY DEF DeviceStates

\* So does registering an I/O.
LEMMA IoType ==
    ASSUME NEW v \in DeviceStates, NEW s \in Sockets
    PROVE  [v EXCEPT !.sub = NoSub, !.io = @ \cup {s}] \in DeviceStates
BY DEF DeviceStates

\* So does handing it a sub-request.
LEMMA PublishedType ==
    ASSUME NEW v \in DeviceStates, NEW s \in Requests \X Slots
    PROVE  /\ [v EXCEPT !.sub = s] \in DeviceStates
           /\ [v EXCEPT !.sub = s, !.scheduled = FALSE] \in DeviceStates
BY DEF DeviceStates

\* The first medium is a position, and so is the end of the list.
LEMMA FirstPosition ==
    1 \in 1..(MaxMedia + 1) /\ 1 \in Slots /\ Slots \subseteq 1..(MaxMedia + 1)
BY BoundAssumption DEF Slots

\* The moves of the scheduler thread.
LEMMA MoveTypes ==
    ASSUME NEW q \in SchedPositions
    PROVE  /\ [q EXCEPT !.pc = "retry", !.r = NoReq, !.i = 1] \in SchedPositions
           /\ [q EXCEPT !.pc = "top", !.r = NoReq, !.i = 1] \in SchedPositions
           /\ [q EXCEPT !.pc = "store", !.i = 1] \in SchedPositions
           /\ \A pc \in {"top", "retry", "incoming", "work", "ended", "clear"} :
                 [q EXCEPT !.pc = pc] \in SchedPositions
BY FirstPosition DEF SchedPositions, SchedStates

\* The scheduler thread takes a request, or a medium of it, in hand.
LEMMA WorkTypes ==
    ASSUME NEW q \in SchedPositions, NEW r \in Requests, NEW i \in Slots
    PROVE  /\ [q EXCEPT !.pc = "alloc", !.r = r, !.i = i] \in SchedPositions
           /\ [q EXCEPT !.pc = "repush", !.r = r, !.i = i] \in SchedPositions
           /\ [q EXCEPT !.pc = "store", !.i = i] \in SchedPositions
BY FirstPosition DEF SchedPositions, SchedStates

\* Withdrawing an I/O keeps the devices well formed.
LEMMA CleanIoType ==
    ASSUME NEW dv \in [Devices -> DeviceStates], NEW D, NEW s
    PROVE  CleanIo(dv, D, s) \in [Devices -> DeviceStates]
BY DEF CleanIo, DeviceStates

\* So does the end of a sub-request.
LEMMA AfterHandleType ==
    ASSUME NEW dv \in [Devices -> DeviceStates], NEW d \in Devices,
           NEW died \in BOOLEAN
    PROVE  AfterHandle(dv, d, died) \in [Devices -> DeviceStates]
<1> DEFINE st == IF died THEN "dying" ELSE dv[d].state
           v == [dv[d] EXCEPT !.sub = NoSub, !.state = st]
<1>1. st \in {"running", "stopping", "dying", "ended"}
  BY DEF DeviceStates
<1> HIDE DEF st
<1>2. v \in DeviceStates
  BY <1>1 DEF DeviceStates
<1>3. AfterHandle(dv, d, died) = [dv EXCEPT ![d] = v]
  BY DEF AfterHandle, st
<1> QED BY <1>2, <1>3

\* A device that has a sub-request has one of a request.
LEMMA SubType ==
    ASSUME TypeOK, NEW d \in Devices, dev[d].sub # NoSub
    PROVE  /\ dev[d].sub \in Requests \X Slots
           /\ dev[d].sub[1] \in Requests /\ dev[d].sub[2] \in Slots
BY DEF TypeOK, DeviceStates

\* Inv holds when the daemon starts.
LEMMA InitInv == Init => Inv
<1> SUFFICES ASSUME Init PROVE Inv
  OBVIOUS
<1>1. NewReqc \in Containers
  BY DEF NewReqc, Containers, Statuses
<1>2. dev \in [Devices -> DeviceStates]
  BY DEF Init, DeviceStates
<1>3. reqc \in [Requests -> Containers]
  BY <1>1 DEF Init
<1>4. sched \in SchedPositions
  BY BoundAssumption DEF Init, SchedStates, SchedPositions
<1>5. sched.pc = "top" /\ sched.r = NoReq
  BY DEF Init
<1>6. client \in [Requests -> ClientStates]
  BY DEF Init, ClientStates
<1>7. /\ nFail \in 0..MaxFail /\ nDeath \in 0..MaxDeath
      /\ nSyncFail \in 0..MaxSyncFail
  BY BoundAssumption DEF Init
<1> QED BY <1>2, <1>3, <1>4, <1>5, <1>6, <1>7
        DEF Init, Inv, TypeOK, Progress, WorkStates

\* The communication thread, the signal and the end of the daemon.
LEMMA MainStep ==
    ASSUME Inv,
           \/ Main \/ Stop \/ \E s \in Sockets : Close(s)
           \/ \E r \in Requests :
                 Receive(r) \/ \E written \in BOOLEAN : Release(r, written)
    PROVE  Inv'
<1> USE DEF queues, budget
<1>t. /\ reqc \in [Requests -> Containers] /\ dev \in [Devices -> DeviceStates]
      /\ sched \in SchedPositions /\ client \in [Requests -> ClientStates]
      /\ resp \subseteq Requests \X {"ok", "error"} /\ nFail \in 0..MaxFail
  BY DEF Inv, TypeOK
<1>1. ASSUME NEW r \in Requests, NEW k \in {"ok", "error"},
             NEW open \in BOOLEAN, Send(r, k, open)
      PROVE  Inv'
  <2>1. CleanIo(dev, DevsOf(reqc[r], r), Sock[r]) \in [Devices -> DeviceStates]
    BY <1>t, CleanIoType
  <2>2. dev' \in [Devices -> DeviceStates]
    BY <1>t, <1>1, <2>1 DEF Send
  <2>3. client' \in [Requests -> ClientStates]
    BY <1>t, <1>1 DEF Send, ClientStates
  <2> QED BY <1>1, <2>2, <2>3 DEF Inv, TypeOK, Progress, Send, Media
<1>2. CASE MainCheck
  BY <1>2 DEF Inv, TypeOK, Progress, MainCheck, Media
<1>3. CASE MainLeave
  BY <1>3
    DEF Inv, TypeOK, Progress, MainLeave, Media, WorkStates, SchedPositions
<1>4. CASE FiniDevices
  <2>1. \A d \in Devices : [dev[d] EXCEPT
              !.state = IF dev[d].state = "running" THEN "stopping"
                        ELSE dev[d].state] \in DeviceStates
    BY <1>t DEF DeviceStates
  <2>2. dev' \in [Devices -> DeviceStates]
    BY <1>t, <1>4, <2>1 DEF FiniDevices
  <2> QED BY <1>4, <2>2 DEF Inv, TypeOK, Progress, FiniDevices, Media
<1>5. CASE FiniEnd
  BY <1>5 DEF Inv, TypeOK, Progress, FiniEnd, Media
<1>6. CASE Stop
  BY <1>6 DEF Inv, TypeOK, Progress, Stop, Media
<1>7. ASSUME NEW r \in Requests, Receive(r) PROVE Inv'
  <2>2. Freed(WithError(reqc[r])) \in Containers
    BY <1>t, ErrorFreedType
  <2>3. reqc' \in [Requests -> Containers]
    BY <1>t, <1>7, <2>2 DEF Receive
  <2>4. client' \in [Requests -> ClientStates]
    BY <1>t, <1>7 DEF Receive, ClientStates
  <2> QED BY <1>7, <2>3, <2>4 DEF Inv, TypeOK, Progress, Receive, Media
<1>8. ASSUME NEW r \in Requests, NEW written \in BOOLEAN, Release(r, written)
      PROVE  Inv'
  <2>0. \A d \in Devices : [dev[d] EXCEPT
              !.io = dev[d].io \ {Sock[r]},
              !.sync = IF written /\ dev[d].sync = "clean" THEN "dirty"
                       ELSE dev[d].sync] \in DeviceStates
    BY <1>t DEF DeviceStates
  <2>1. dev' \in [Devices -> DeviceStates]
    BY <1>t, <1>8, <2>0 DEF Release
  <2>2. client' \in [Requests -> ClientStates]
    BY <1>t, <1>8 DEF Release, ClientStates
  <2> QED BY <1>8, <2>1, <2>2 DEF Inv, TypeOK, Progress, Release, Media
<1>9. ASSUME NEW s \in Sockets, Close(s) PROVE Inv'
  <2>1. dev' \in [Devices -> DeviceStates]
    BY <1>t, <1>9, CleanIoType DEF Close
  <2>2. client' \in [Requests -> ClientStates]
    BY <1>t, <1>9 DEF Close, ClientStates
  <2> QED BY <1>9, <2>1, <2>2 DEF Inv, TypeOK, Progress, Close, Media
<1> QED BY <1>1, <1>2, <1>3, <1>4, <1>5, <1>6, <1>7, <1>8, <1>9 DEF Main

\* The scheduler takes back its retries and its new requests.
LEMMA RetryStep ==
    ASSUME Inv,
           \/ SchedTop \/ RetryDone \/ IncomingDone \/ NoWork \/ RetryPush
           \/ \E r \in Requests : PopIncoming(r) \/ Peek(r)
           \/ \E r \in Requests, i \in Slots :
                 \/ RetryCancel(r, i) \/ RetryFatal(r, i)
                 \/ \E d \in Devices : RetrySelect(r, i, d)
    PROVE  Inv'
<1> USE DEF queues, budget
<1>t. /\ reqc \in [Requests -> Containers] /\ dev \in [Devices -> DeviceStates]
      /\ sched \in SchedPositions /\ client \in [Requests -> ClientStates]
      /\ resp \subseteq Requests \X {"ok", "error"} /\ nFail \in 0..MaxFail
  BY DEF Inv, TypeOK
<1>1. CASE SchedTop \/ RetryDone \/ IncomingDone \/ NoWork
  <2>1. sched' \in SchedPositions
    BY <1>t, <1>1, MoveTypes
    DEF SchedTop, RetryDone, IncomingDone, NoWork, GotoSched
  <2> QED BY <1>1, <2>1
          DEF Inv, TypeOK, Progress, SchedTop, RetryDone, IncomingDone,
              NoWork, GotoSched,
                            WorkStates, SchedPositions
<1>2. ASSUME NEW r \in Requests, PopIncoming(r) PROVE Inv'
  <2>2. Freed(WithError(reqc[r])) \in Containers
    BY <1>t, ErrorFreedType
  <2>3. reqc' \in [Requests -> Containers]
    BY <1>t, <1>2, <2>2 DEF PopIncoming
  <2> QED BY <1>2, <2>3 DEF Inv, TypeOK, Progress, PopIncoming, Media
<1>3. ASSUME NEW r \in Requests, Peek(r) PROVE Inv'
  <2>1. [sched EXCEPT !.pc = "alloc", !.r = r, !.i = 1] \in SchedPositions
    BY <1>t, FirstPosition, WorkTypes
  <2> QED BY <1>3, <2>1, NoneAssumption
          DEF Inv, TypeOK, Progress, Peek, WorkStates, SchedPositions
<1>4. ASSUME NEW r \in Requests, NEW i \in Slots, RetryCancel(r, i) PROVE Inv'
  <2> DEFINE c == [reqc[r] EXCEPT !.status[i] = "cancel"]
  <2>1. c \in Containers
    BY <1>t DEF Containers, Statuses
  <2>2. FreedIf(c, Ended(c, r)) \in Containers
    BY <1>t, <2>1, FreedTypes
  <2>3. reqc' \in [Requests -> Containers]
    BY <1>t, <1>4, <2>2 DEF RetryCancel
  <2> QED BY <1>4, <2>3 DEF Inv, TypeOK, Progress, RetryCancel, Media
<1>5. ASSUME NEW r \in Requests, NEW i \in Slots, RetryFatal(r, i) PROVE Inv'
  <2>1. Fatal(reqc[r], r, i) \in Containers
    BY <1>t, FatalType
  <2>2. reqc' \in [Requests -> Containers]
    BY <1>t, <1>5, <2>1 DEF RetryFatal
  <2>3. dev' \in [Devices -> DeviceStates]
    BY <1>t, <1>5, CleanIoType DEF RetryFatal
  <2>4. nFail' \in 0..MaxFail
    BY <1>t, <1>5, BoundAssumption DEF RetryFatal
  <2> QED BY <1>5, <2>2, <2>3, <2>4 DEF Inv, TypeOK, Progress, RetryFatal, Media
<1>6. ASSUME NEW r \in Requests, NEW i \in Slots, NEW d \in Devices,
             RetrySelect(r, i, d)
      PROVE  Inv'
  <2>1. [dev[d] EXCEPT !.scheduled = TRUE] \in DeviceStates
    BY <1>t, ScheduledType
  <2>2. dev' \in [Devices -> DeviceStates]
    BY <1>t, <1>6, <2>1 DEF RetrySelect, SetDev
  <2>3. [reqc[r] EXCEPT !.devs[i] = d] \in Containers
    BY <1>t DEF Containers
  <2>4. reqc' \in [Requests -> Containers]
    BY <1>t, <1>6, <2>3 DEF RetrySelect
  <2>5. [sched EXCEPT !.pc = "repush", !.r = r, !.i = i] \in SchedPositions
    BY <1>t, FirstPosition, WorkTypes
  <2> QED BY <1>6, <2>2, <2>4, <2>5, NoneAssumption
          DEF Inv, TypeOK, Progress, RetrySelect, WorkStates, SchedPositions
<1>7. CASE RetryPush
  <2> DEFINE e == reqc[sched.r].devs[sched.i]
  <2>1. <<sched.r, sched.i>> \in Requests \X Slots
    BY <1>7 DEF Inv, TypeOK, Progress, RetryPush, SchedPositions, WorkStates
  <2>2. ASSUME e \in Devices
        PROVE  [dev[e] EXCEPT !.sub = <<sched.r, sched.i>>,
                              !.scheduled = FALSE] \in DeviceStates
    BY <1>t, <2>1, <2>2, PublishedType
  <2>3. dev' \in [Devices -> DeviceStates]
    BY <1>t, <1>7, <2>2 DEF RetryPush, SetDev
  <2>4. [sched EXCEPT !.pc = "retry", !.r = NoReq, !.i = 1] \in SchedPositions
    BY <1>t, MoveTypes
  <2> QED BY <1>7, <2>3, <2>4
          DEF Inv, TypeOK, Progress, RetryPush, WorkStates, SchedPositions
<1> QED BY <1>1, <1>2, <1>3, <1>4, <1>5, <1>6, <1>7

\* The scheduler chooses the devices of a request and publishes it.
LEMMA AllocStep ==
    ASSUME Inv,
           \/ \E d \in Devices : AllocSelect(d)
           \/ AllocAgain \/ AllocFatal \/ Publish \/ PushStore \/ PushClear
    PROVE  Inv'
<1> USE DEF queues, budget
<1>t. /\ reqc \in [Requests -> Containers] /\ dev \in [Devices -> DeviceStates]
      /\ sched \in SchedPositions /\ client \in [Requests -> ClientStates]
      /\ resp \subseteq Requests \X {"ok", "error"} /\ nFail \in 0..MaxFail
  BY DEF Inv, TypeOK
<1>r. sched.r \in Requests
  BY DEF Inv, TypeOK, SchedPositions, AllocSelect, AllocAgain, AllocFatal,
         Publish, PushStore, PushClear, WorkStates
<1>0. /\ NMedia[sched.r] \in 1..MaxMedia
      /\ 1 \in Media(sched.r) /\ Media(sched.r) \subseteq Slots
  BY <1>r, RequestAssumption, BoundAssumption DEF Slots, Media
<1>a. Freed(WithError(reqc[sched.r])) \in Containers
  BY <1>t, <1>r, <1>0, ErrorFreedType
<1>b. Unscheduled(Selected(sched.r)) \in [Devices -> DeviceStates]
  BY <1>t, ScheduledType DEF Unscheduled
<1>c. [sched EXCEPT !.pc = "top", !.r = NoReq, !.i = 1] \in SchedPositions
  BY <1>t, MoveTypes
<1>1. ASSUME NEW d \in Devices, AllocSelect(d) PROVE Inv'
  <2>1. [dev[d] EXCEPT !.scheduled = TRUE] \in DeviceStates
    BY <1>t, ScheduledType
  <2>2. dev' \in [Devices -> DeviceStates]
    BY <1>t, <1>1, <2>1 DEF AllocSelect, SetDev
  <2>3. sched.i \in Slots
    BY <1>r, <1>0, <1>1, BoundAssumption
    DEF Inv, TypeOK, SchedPositions, AllocSelect, Slots
  <2>4. [reqc[sched.r] EXCEPT !.devs[sched.i] = d] \in Containers
    BY <1>t, <1>r, <1>0, <2>3 DEF Containers
  <2>5. reqc' \in [Requests -> Containers]
    BY <1>t, <1>1, <2>4 DEF AllocSelect
  <2>6. sched.i + 1 \in 1..(MaxMedia + 1)
    BY <1>t, <2>3, BoundAssumption DEF Slots
  <2> QED BY <1>1, <2>2, <2>5, <2>6
          DEF Inv, TypeOK, Progress, AllocSelect, WorkStates, SchedPositions
<1>2. CASE AllocAgain
  <2>1. reqc' \in [Requests -> Containers]
    BY <1>t, <1>2, <1>a DEF AllocAgain
  <2>2. dev' \in [Devices -> DeviceStates]
    BY <1>t, <1>2, <1>b DEF AllocAgain
  <2>3. resp' \subseteq Requests \X {"ok", "error"}
    BY <1>t, <1>r, <1>0, <1>2 DEF AllocAgain
  <2> QED BY <1>2, <2>1, <2>2, <2>3, <1>c
         
            DEF Inv, TypeOK, Progress, AllocAgain, BackToTop, WorkStates,
                SchedPositions
<1>3. CASE AllocFatal
  <2>1. reqc' \in [Requests -> Containers]
    BY <1>t, <1>3, <1>a DEF AllocFatal
  <2>2. dev' \in [Devices -> DeviceStates]
    BY <1>t, <1>3, <1>b DEF AllocFatal
  <2>3. resp' \subseteq Requests \X {"ok", "error"}
    BY <1>t, <1>r, <1>0, <1>3 DEF AllocFatal
  <2>4. nFail' \in 0..MaxFail
    BY <1>t, <1>3, BoundAssumption DEF AllocFatal
  <2> QED BY <1>3, <2>1, <2>2, <2>3, <2>4, <1>c
         
            DEF Inv, TypeOK, Progress, AllocFatal, BackToTop, WorkStates,
                SchedPositions
<1>4. CASE Publish
  <2>1. [sched EXCEPT !.pc = "store", !.i = 1] \in SchedPositions
    BY <1>t, MoveTypes
  <2> QED BY <1>0, <1>4, <2>1
          DEF Inv, TypeOK, Progress, Publish, WorkStates, SchedPositions,
              Media
<1>5. CASE PushStore
  <2> DEFINE e == reqc[sched.r].devs[sched.i]
  <2>1. <<sched.r, sched.i>> \in Requests \X Slots
    BY <1>r, <1>0, <1>5 DEF Inv, Progress, PushStore
  <2>2. ASSUME e \in Devices
        PROVE  [dev[e] EXCEPT !.sub = <<sched.r, sched.i>>] \in DeviceStates
    BY <1>t, <2>1, <2>2, PublishedType
  <2>3. dev' \in [Devices -> DeviceStates]
    BY <1>t, <1>5, <2>2 DEF PushStore, SetDev
  <2> QED BY <1>5, <2>3
          DEF Inv, TypeOK, Progress, PushStore, GotoSched, WorkStates,
              SchedPositions,
                            SchedStates, Media
<1>6. CASE PushClear
  <2> DEFINE e == reqc[sched.r].devs[sched.i]
  <2>1. ASSUME e \in Devices
        PROVE  [dev[e] EXCEPT !.scheduled = FALSE] \in DeviceStates
    BY <1>t, <2>1, ScheduledType
  <2>2. dev' \in [Devices -> DeviceStates]
    BY <1>t, <1>6, <2>1 DEF PushClear, SetDev
  <2>3. sched.i \in Media(sched.r)
    BY <1>6 DEF Inv, Progress, PushClear
  <2>4. CASE sched.i = NMedia[sched.r]
    BY <1>6, <2>2, <2>4, <1>c
    DEF Inv, TypeOK, Progress, PushClear, BackToTop, WorkStates, SchedPositions
  <2>5. CASE sched.i # NMedia[sched.r]
    <3>1. sched.i + 1 \in Media(sched.r) /\ sched.i + 1 \in Slots
      BY <1>r, <1>0, <2>3, <2>5, BoundAssumption DEF Media, Slots
    <3>2. [sched EXCEPT !.pc = "store", !.i = sched.i + 1] \in SchedPositions
      BY <1>t, <1>r, <3>1, FirstPosition, WorkTypes
    <3> QED BY <1>6, <2>2, <2>5, <3>1, <3>2
           
              DEF Inv, TypeOK, Progress, PushClear, WorkStates,
                  SchedPositions, Media
  <2> QED BY <2>4, <2>5 DEF Inv, TypeOK, Progress
<1> QED BY <1>1, <1>2, <1>3, <1>4, <1>5, <1>6

\* The budgets of failures are never exceeded.
LEMMA CountType ==
    ASSUME TypeOK, NEW failed \in BOOLEAN, NEW died \in BOOLEAN,
           CountFailure(failed, died)
    PROVE  /\ nFail' \in 0..MaxFail /\ nDeath' \in 0..MaxDeath
           /\ nSyncFail' = nSyncFail
BY BoundAssumption DEF TypeOK, CountFailure

\* A device ends a sub-request, synchronises its medium or ends.
LEMMA DeviceStep ==
    ASSUME Inv, NEW d \in Devices, Device(d)
    PROVE  Inv'
<1> USE DEF queues, budget
<1> DEFINE r == dev[d].sub[1]
           i == dev[d].sub[2]
           c == [reqc[r] EXCEPT !.status[i] = "cancel"]
<1>t. /\ reqc \in [Requests -> Containers] /\ dev \in [Devices -> DeviceStates]
      /\ resp \subseteq Requests \X {"ok", "error"}
      /\ retry \subseteq Requests \X Slots
  BY DEF Inv, TypeOK
<1>s. ASSUME dev[d].sub # NoSub
      PROVE  /\ dev[d].sub \in Requests \X Slots
             /\ r \in Requests /\ i \in Slots
             /\ FreedIf(c, Ended(c, r)) \in Containers
             /\ Fatal(reqc[r], r, i) \in Containers
             /\ resp \cup {<<r, "error">>} \subseteq Requests \X {"ok", "error"}
             /\ resp \cup {<<r, "ok">>} \subseteq Requests \X {"ok", "error"}
             /\ retry \cup {dev[d].sub} \subseteq Requests \X Slots
  <2>1. dev[d].sub \in Requests \X Slots /\ r \in Requests /\ i \in Slots
    BY <1>s, SubType DEF Inv
  <2> HIDE DEF r, i
  <2>2. c \in Containers
    BY <1>t, <2>1, StatusType DEF Statuses
  <2> HIDE DEF c
  <2>3. FreedIf(c, Ended(c, r)) \in Containers
    BY <2>2, FreedTypes
  <2>4. Fatal(reqc[r], r, i) \in Containers
    BY <1>t, <2>1, FatalType
  <2> QED BY <1>t, <2>1, <2>3, <2>4
<1>h. \A D : \A b \in BOOLEAN :
          AfterHandle(CleanIo(dev, D, Sock[r]), d, b) \in [Devices -> DeviceStates]
  BY <1>t, CleanIoType, AfterHandleType
<1>e. \A b \in BOOLEAN : AfterHandle(dev, d, b) \in [Devices -> DeviceStates]
  BY <1>t, AfterHandleType
<1>1. CASE DevDone(d)
  <2> DEFINE e == [reqc[r] EXCEPT !.status[i] = "done"]
  <2>0. /\ r \in Requests /\ i \in Slots /\ Sock[r] \in Sockets
        /\ resp \cup {<<r, "ok">>} \subseteq Requests \X {"ok", "error"}
    BY <1>1, <1>s, RequestAssumption DEF DevDone, CanHandle, HasSub
  <2>1. e \in Containers /\ Freed([e EXCEPT !.answers = @ + 1]) \in Containers
    <3> HIDE DEF r, i
    <3>1. e \in Containers
      BY <1>t, <2>0, StatusType DEF Statuses
    <3> HIDE DEF e
    <3>2. Freed(WithError(e)) \in Containers
      BY <3>1, ErrorFreedType
    <3> QED BY <3>1, <3>2 DEF WithError
  <2>2. reqc' \in [Requests -> Containers]
    BY <1>t, <1>1, <2>1 DEF DevDone
  <2>3. resp' \subseteq Requests \X {"ok", "error"}
    BY <1>t, <1>1, <2>0 DEF DevDone
  <2>4. [dev[d] EXCEPT !.sub = NoSub, !.io = @ \cup {Sock[r]}] \in DeviceStates
    BY <1>t, <2>0, IoType
  <2>5. dev' \in [Devices -> DeviceStates]
    BY <1>t, <1>1, <2>4 DEF DevDone, SetDev
  <2> QED BY <1>1, <2>2, <2>3, <2>5 DEF Inv, TypeOK, Progress, DevDone, Media
<1>2. CASE NeedsSync(d)
  <2>1. \A v \in {"needs", "blocking"} : [dev[d] EXCEPT !.sync = v] \in DeviceStates
    BY <1>t DEF DeviceStates
  <2>2. \E v \in {"needs", "blocking"} : dev' = [dev EXCEPT ![d] = [dev[d] EXCEPT !.sync = v]]
    BY <1>2 DEF NeedsSync, SetDev
  <2>3. dev' \in [Devices -> DeviceStates]
    BY <1>t, <2>1, <2>2
  <2> QED BY <1>2, <2>3 DEF Inv, TypeOK, Progress, NeedsSync, Media
<1>9. CASE ClientFailed(d)
  <2>1. [dev[d] EXCEPT !.sync = "blocking"] \in DeviceStates
    BY <1>t DEF DeviceStates
  <2>2. dev' \in [Devices -> DeviceStates]
    BY <1>t, <1>9, <2>1 DEF ClientFailed, SetDev
  <2>3. nFail' \in 0..MaxFail
    BY <1>9, BoundAssumption DEF ClientFailed, Inv, TypeOK
  <2> QED BY <1>9, <2>2, <2>3 DEF Inv, TypeOK, Progress, ClientFailed, Media
<1>3. CASE DevEnd(d)
  <2>1. [dev[d] EXCEPT !.state = "ended", !.io = {}, !.sync = "clean"]
            \in DeviceStates
    BY <1>t DEF DeviceStates
  <2>2. dev' \in [Devices -> DeviceStates]
    BY <1>t, <1>3, <2>1 DEF DevEnd, SetDev
  <2> QED BY <1>3, <2>2 DEF Inv, TypeOK, Progress, DevEnd, Media
<1>4. ASSUME NEW died \in BOOLEAN, DevCancel(d, died) PROVE Inv'
  <2>1. reqc' \in [Requests -> Containers]
    BY <1>t, <1>s, <1>4 DEF DevCancel, HasSub
  <2>2. dev' \in [Devices -> DeviceStates]
    BY <1>e, <1>4 DEF DevCancel
  <2>3. /\ nFail' \in 0..MaxFail /\ nDeath' \in 0..MaxDeath
        /\ nSyncFail' = nSyncFail
    BY <1>4, CountType DEF DevCancel, Inv
  <2> QED BY <1>4, <2>1, <2>2, <2>3
          DEF Inv, TypeOK, Progress, DevCancel, Media
<1>5. ASSUME NEW died \in BOOLEAN, DevRequeue(d, died) PROVE Inv'
  <2>1. retry' \subseteq Requests \X Slots
    BY <1>t, <1>s, <1>5 DEF DevRequeue, CanHandle, HasSub
  <2>2. dev' \in [Devices -> DeviceStates]
    BY <1>e, <1>5 DEF DevRequeue
  <2>3. /\ nFail' \in 0..MaxFail /\ nDeath' \in 0..MaxDeath
        /\ nSyncFail' = nSyncFail
    BY <1>5, CountType DEF DevRequeue, Inv
  <2> QED BY <1>5, <2>1, <2>2, <2>3
          DEF Inv, TypeOK, Progress, DevRequeue, Media
<1>6. ASSUME NEW died \in BOOLEAN, DevFatal(d, died) PROVE Inv'
  <2>1. reqc' \in [Requests -> Containers]
    BY <1>t, <1>s, <1>6 DEF DevFatal, CanHandle, HasSub
  <2>2. dev' \in [Devices -> DeviceStates]
    BY <1>h, <1>6 DEF DevFatal
  <2>3. resp' \subseteq Requests \X {"ok", "error"}
    BY <1>s, <1>6 DEF DevFatal, CanHandle, HasSub
  <2>4. /\ nFail' \in 0..MaxFail /\ nDeath' \in 0..MaxDeath
        /\ nSyncFail' = nSyncFail
    BY <1>6, CountType DEF DevFatal, Inv
  <2> QED BY <1>6, <2>1, <2>2, <2>3, <2>4
          DEF Inv, TypeOK, Progress, DevFatal, Media
<1>7. ASSUME NEW died \in BOOLEAN, Sync(d, died) PROVE Inv'
  <2>1. [dev[d] EXCEPT !.sync = "clean",
                       !.state = IF died THEN "dying" ELSE @] \in DeviceStates
    BY <1>t DEF DeviceStates
  <2>2. dev' \in [Devices -> DeviceStates]
    BY <1>t, <1>7, <2>1 DEF Sync, SetDev
  <2>3. nSyncFail' \in 0..MaxSyncFail
    BY <1>7, BoundAssumption DEF Sync, Inv, TypeOK
  <2> QED BY <1>7, <2>2, <2>3 DEF Inv, TypeOK, Progress, Sync, Media
<1>8. ASSUME NEW requeued \in BOOLEAN, DyingSub(d, requeued) PROVE Inv'
  <2>1. reqc' \in [Requests -> Containers]
    BY <1>t, <1>s, <1>8 DEF DyingSub
  <2>2. dev' \in [Devices -> DeviceStates]
    BY <1>h, <1>e, <1>8 DEF DyingSub
  <2>3. resp' \subseteq Requests \X {"ok", "error"}
    BY <1>t, <1>s, <1>8 DEF DyingSub
  <2>4. retry' \subseteq Requests \X Slots
    BY <1>t, <1>s, <1>8 DEF DyingSub
  <2> QED BY <1>8, <2>1, <2>2, <2>3, <2>4
          DEF Inv, TypeOK, Progress, DyingSub, Media
<1> QED BY <1>1, <1>2, <1>3, <1>4, <1>5, <1>6, <1>7, <1>8, <1>9 DEF Device
-----------------------------------------------------------------------------
\* Inv is inductive.
LEMMA NextInv == Inv /\ [Next]_vars => Inv'
<1> SUFFICES ASSUME Inv, [Next]_vars PROVE Inv'
  OBVIOUS
<1>1. CASE Scheduler
  BY <1>1, RetryStep, AllocStep DEF Scheduler
<1>2. CASE \E d \in Devices : Device(d)
  BY <1>2, DeviceStep
<1>3. CASE Terminated \/ UNCHANGED vars
  BY <1>3 DEF Terminated, vars, Inv, TypeOK, Progress, Media
<1> QED BY <1>1, <1>2, <1>3, MainStep DEF Next

\* The containers, queues and devices of the daemon keep their shape whatever
\* its threads do, and the scheduler thread has a request in hand exactly
\* while it chooses or publishes devices.
THEOREM AllocTypeCorrect == Spec => []TypeOK
<1>1. Inv => TypeOK
  BY DEF Inv
<1> QED BY <1>1, InitInv, NextInv, PTL DEF Spec
-----------------------------------------------------------------------------
(* A sub-request is somewhere, in one place, until its medium is ended.    *)

\* Where a sub-request is, each kind of place on its own.
OnDevice(d, r, i) == dev[d].sub = <<r, i>>
AtRetry(r, i) == <<r, i>> \in retry
AtSched(r, i) ==
    \/ r \in incoming \cup ioSched
    \/ sched.r = r /\ \/ sched.pc = "store" /\ i >= sched.i
                      \/ sched.pc = "clear" /\ i > sched.i
                      \/ sched.pc = "repush" /\ i = sched.i
Placed(r, i) == \/ \E d \in Devices : OnDevice(d, r, i)
                \/ AtRetry(r, i) \/ AtSched(r, i)

\* Only a medium that is not ended is somewhere, and its container lives.
PlacedLive ==
    /\ \A r \in Requests, i \in Slots :
          (\E d \in Devices : OnDevice(d, r, i)) \/ AtRetry(r, i) => i \in Media(r)
    /\ \A r \in Requests : \A i \in Media(r) : Placed(r, i) =>
          /\ reqc[r].status[i] = "todo" /\ reqc[r].frees = 0
          /\ client[r] # "idle"

\* It is in one place only.
Once(r, i) ==
    /\ \A d, e \in Devices : OnDevice(d, r, i) /\ OnDevice(e, r, i) => d = e
    /\ \A d \in Devices : OnDevice(d, r, i) => ~AtRetry(r, i) /\ ~AtSched(r, i)
    /\ AtRetry(r, i) => ~AtSched(r, i)
PlacedOnce == \A r \in Requests : \A i \in Media(r) : Once(r, i)

\* None disappears.
TodoPlaced ==
    \A r \in Requests : \A i \in Media(r) :
        main # "end" /\ client[r] # "idle" /\ reqc[r].frees = 0
          /\ reqc[r].status[i] = "todo" => Placed(r, i)

\* A request that no device has seen yet is in one queue.
Queued ==
    /\ incoming \cap ioSched = {}
    /\ \A r \in incoming \cup ioSched :
          ~reqc[r].err /\ (sched.r = r => sched.pc = "alloc" /\ r \in ioSched)
    /\ sched.pc = "alloc" => sched.r \in ioSched
    /\ sched.pc = "repush" => sched.i \in Media(sched.r)

\* A request is answered by its first error, or by its end.
AnsweredOnce ==
    /\ \A r \in Requests :
          /\ reqc[r].answers <= 1 /\ reqc[r].frees <= 1
          /\ reqc[r].frees = 0 /\ ~reqc[r].err => reqc[r].answers = 0
    /\ \A r \in Requests : client[r] = "idle" =>
          /\ reqc[r].frees = 0 /\ ~reqc[r].err
          /\ \A i \in Media(r) : reqc[r].status[i] = "todo"

\* The media of r whose devices the scheduler has reserved.
Reserving(r) ==
    {j \in Media(r) : \/ sched.pc = "alloc" /\ j < sched.i
                      \/ sched.pc = "store" /\ j >= sched.i
                      \/ sched.pc = "clear" /\ j > sched.i
                      \/ sched.pc = "repush" /\ j = sched.i}

\* A reserved device has no sub-request, and serves one medium.
Reserved ==
    sched.r \in Requests =>
        /\ \A j \in Reserving(sched.r) :
              LET d == reqc[sched.r].devs[j]
              IN  d \in Devices /\ dev[d].scheduled /\ dev[d].sub = NoSub
        /\ \A j, k \in Reserving(sched.r) :
              reqc[sched.r].devs[j] = reqc[sched.r].devs[k] => j = k
        /\ sched.pc = "clear" => \A j \in Reserving(sched.r) :
              reqc[sched.r].devs[sched.i] # reqc[sched.r].devs[j]

Tokens == PlacedLive /\ PlacedOnce /\ TodoPlaced /\ AnsweredOnce

\* What the scheduler has in hand, and an answer, is for a client that asked.
Addressed ==
    /\ \A r \in Requests, k \in {"ok", "error"} : <<r, k>> \in resp => client[r] # "idle"
    /\ sched.r \in Requests => client[sched.r] # "idle"

AllocInv == Inv /\ Tokens /\ Queued /\ Reserved /\ Addressed

\* Sub-request i of r stays where it is.
Stay(r, i) ==
    /\ \A d \in Devices : OnDevice(d, r, i)' <=> OnDevice(d, r, i)
    /\ AtRetry(r, i)' <=> AtRetry(r, i)
    /\ AtSched(r, i)' <=> AtSched(r, i)

\* Its place outside the scheduler is the same.
StayBelow(r, i) ==
    /\ \A d \in Devices : OnDevice(d, r, i)' <=> OnDevice(d, r, i)
    /\ AtRetry(r, i)' <=> AtRetry(r, i)

\* The life of a container goes on: only its list of devices may change.
SameLife(c, e) == /\ e.status = c.status /\ e.err = c.err
                  /\ e.frees = c.frees /\ e.answers = c.answers

LEMMA MediaSlots == \A r \in Requests : Media(r) \subseteq Slots /\ 1 \in Media(r)
BY RequestAssumption, BoundAssumption DEF Media, Slots

\* Steps that end no medium: a sub-request stays or changes place.
LEMMA KeepTokens ==
    ASSUME Tokens,
           \A r \in Requests, i \in Slots :
              \/ Stay(r, i)
              \/ i \in Media(r) /\ Placed(r, i) /\ Placed(r, i)' /\ Once(r, i)'
              \/ i \notin Media(r) /\ StayBelow(r, i),
           \A r \in Requests : SameLife(reqc[r], reqc'[r]),
           \A r \in Requests : client'[r] = "idle" <=> client[r] = "idle",
           main' # "end" => main # "end"
    PROVE  Tokens'
<1>1. ASSUME NEW r \in Requests, NEW i \in Media(r)
      PROVE  /\ Placed(r, i)' <=> Placed(r, i)
             /\ Once(r, i) => Once(r, i)'
  BY MediaSlots DEF Stay, Placed, Once
<1>2. PlacedLive'
  <2>1. ASSUME NEW r \in Requests, NEW i \in Slots,
               (\E d \in Devices : OnDevice(d, r, i)') \/ AtRetry(r, i)'
        PROVE  i \in Media(r)
    BY <2>1 DEF Tokens, PlacedLive, Stay, StayBelow
  <2>2. ASSUME NEW r \in Requests, NEW i \in Media(r), Placed(r, i)'
        PROVE  /\ reqc'[r].status[i] = "todo" /\ reqc'[r].frees = 0
               /\ client'[r] # "idle"
    BY <1>1, <2>2 DEF Tokens, PlacedLive, SameLife
  <2> QED BY <2>1, <2>2 DEF PlacedLive, Media
<1>3. PlacedOnce'
  BY <1>1 DEF Tokens, PlacedOnce, Media
<1>4. TodoPlaced'
  BY <1>1 DEF Tokens, TodoPlaced, SameLife, Media
<1>5. AnsweredOnce'
  BY DEF Tokens, AnsweredOnce, SameLife, Media
<1> QED BY <1>2, <1>3, <1>4, <1>5 DEF Tokens

\* What the end of medium i does to the container of r: the first error and
\* the last medium answer, and the last medium frees it.
EndsMedium(c, e, r, i) ==
    /\ e.status[i] # "todo"
    /\ \A j \in Media(r) : j # i => (e.status[j] = "todo" <=> c.status[j] = "todo")
    /\ \/ e.frees = c.frees
       \/ e.frees = c.frees + 1 /\ \A j \in Media(r) : e.status[j] # "todo"
    /\ \/ c.err /\ e.err /\ e.answers = c.answers
       \/ ~c.err /\ e.answers = c.answers + 1 /\ (e.err \/ e.frees = c.frees + 1)
       \/ ~c.err /\ ~e.err /\ e.answers = c.answers /\ e.frees = c.frees

\* Steps that end a medium.
LEMMA FinishTokens ==
    ASSUME Inv, Tokens, NEW r \in Requests, NEW i \in Slots,
           (\E d \in Devices : OnDevice(d, r, i)) \/ AtRetry(r, i),
           ~Placed(r, i)',
           \A q \in Requests, j \in Slots : q # r \/ j # i => Stay(q, j),
           \A q \in Requests : q # r => reqc'[q] = reqc[q],
           EndsMedium(reqc[r], reqc'[r], r, i),
           client' = client, main' = main
    PROVE  Tokens'
<1>0. i \in Media(r) /\ Placed(r, i)
  BY DEF Tokens, PlacedLive, Placed
<1>1. reqc[r].status[i] = "todo" /\ reqc[r].frees = 0 /\ client[r] # "idle"
  BY <1>0 DEF Tokens, PlacedLive
<1>2. ASSUME NEW q \in Requests, NEW j \in Media(q), q # r \/ j # i
      PROVE  /\ Placed(q, j)' <=> Placed(q, j)
             /\ Once(q, j) => Once(q, j)'
  <2>1. Stay(q, j)
    BY <1>2, MediaSlots
  <2> QED BY <2>1 DEF Stay, Placed, Once
<1>3. PlacedLive'
  <2>1. ASSUME NEW q \in Requests, NEW j \in Slots,
               (\E d \in Devices : OnDevice(d, q, j)') \/ AtRetry(q, j)'
        PROVE  j \in Media(q)
    <3>1. q # r \/ j # i
      BY <2>1 DEF Placed
    <3> QED BY <2>1, <3>1 DEF Tokens, PlacedLive, Stay
  <2>2. ASSUME NEW q \in Requests, NEW j \in Media(q), Placed(q, j)'
        PROVE  /\ reqc'[q].status[j] = "todo" /\ reqc'[q].frees = 0
               /\ client'[q] # "idle"
    <3>1. q # r \/ j # i
      BY <2>2
    <3>2. Placed(q, j) /\ reqc[q].status[j] = "todo" /\ reqc[q].frees = 0 /\ client[q] # "idle"
      BY <1>2, <2>2, <3>1 DEF Tokens, PlacedLive
    <3> QED BY <1>1, <3>1, <3>2 DEF EndsMedium
  <2> QED BY <2>1, <2>2 DEF PlacedLive, Media
<1>4. PlacedOnce'
  <2>1. ASSUME NEW q \in Requests, NEW j \in Media(q) PROVE Once(q, j)'
    <3>1. CASE q = r /\ j = i
      BY <3>1 DEF Placed, Once
    <3>2. CASE q # r \/ j # i
      BY <1>2, <3>2 DEF Tokens, PlacedOnce
    <3> QED BY <3>1, <3>2
  <2> QED BY <2>1 DEF PlacedOnce, Media
<1>5. TodoPlaced'
  <2>1. ASSUME NEW q \in Requests, NEW j \in Media(q),
               main # "end", client[q] # "idle", reqc'[q].frees = 0,
               reqc'[q].status[j] = "todo"
        PROVE  Placed(q, j)'
    <3>1. q # r \/ j # i
      BY <2>1 DEF EndsMedium
    <3>2. reqc[q].status[j] = "todo"
      BY <2>1, <3>1 DEF EndsMedium
    <3>3. reqc[q].frees = 0
      BY <1>1, <2>1
    <3> QED BY <1>2, <2>1, <3>1, <3>2, <3>3 DEF Tokens, TodoPlaced
  <2> QED BY <2>1 DEF TodoPlaced, Media
<1>6. AnsweredOnce'
  <2>1. reqc[r].answers <= 1 /\ (~reqc[r].err => reqc[r].answers = 0)
    BY <1>1 DEF Tokens, AnsweredOnce
  <2>2. /\ reqc'[r].answers <= 1 /\ reqc'[r].frees <= 1
        /\ reqc'[r].frees = 0 /\ ~reqc'[r].err => reqc'[r].answers = 0
    BY <1>1, <2>1 DEF EndsMedium
  <2> QED BY <1>1, <2>2 DEF Tokens, AnsweredOnce, Media
<1> QED BY <1>3, <1>4, <1>5, <1>6 DEF Tokens

\* A request refused as a whole, before any device knows it.
LEMMA RefuseTokens ==
    ASSUME Inv, Tokens, NEW r \in Requests,
           reqc[r].frees = 0 /\ ~reqc[r].err,
           \A d \in Devices : dev'[d].sub = dev[d].sub,
           retry' = retry,
           \A i \in Media(r) : ~Placed(r, i)',
           \A q \in Requests, j \in Slots : q # r => (AtSched(q, j)' <=> AtSched(q, j)),
           \A q \in Requests : q # r =>
              reqc'[q] = reqc[q] /\ (client'[q] = "idle" <=> client[q] = "idle"),
           reqc'[r].frees = 1 /\ reqc'[r].answers = reqc[r].answers + 1,
           client'[r] # "idle", main' = main
    PROVE  Tokens'
<1>1. \A q \in Requests, j \in Slots : q # r => Stay(q, j)
  BY DEF Stay, OnDevice, AtRetry
<1>2. ASSUME NEW q \in Requests, NEW j \in Media(q), q # r
      PROVE  /\ Placed(q, j)' <=> Placed(q, j)
             /\ Once(q, j) => Once(q, j)'
  BY <1>1, <1>2, MediaSlots DEF Stay, Placed, Once
<1>3. PlacedLive'
  <2>1. \A q \in Requests, j \in Slots :
          (\E d \in Devices : OnDevice(d, q, j)') \/ AtRetry(q, j)' => j \in Media(q)
    BY DEF Tokens, PlacedLive, OnDevice, AtRetry
  <2>2. \A q \in Requests : \A j \in Media(q) : Placed(q, j)' =>
          /\ reqc'[q].status[j] = "todo" /\ reqc'[q].frees = 0 /\ client'[q] # "idle"
    BY <1>2 DEF Tokens, PlacedLive
  <2> QED BY <2>1, <2>2 DEF PlacedLive, Media
<1>4. PlacedOnce'
  <2>1. \A q \in Requests : \A j \in Media(q) : Once(q, j)'
    BY <1>2 DEF Tokens, PlacedOnce, Placed, Once
  <2> QED BY <2>1 DEF PlacedOnce, Media
<1>5. TodoPlaced'
  BY <1>2 DEF Tokens, TodoPlaced, Media
<1>6. AnsweredOnce'
  BY DEF Tokens, AnsweredOnce, Media
<1> QED BY <1>3, <1>4, <1>5, <1>6 DEF Tokens

\* Withdrawing an I/O changes no sub-request and no reservation.
LEMMA CleanIoFields ==
    ASSUME NEW dv \in [Devices -> DeviceStates], NEW D, NEW s, NEW d \in Devices
    PROVE  /\ CleanIo(dv, D, s)[d].sub = dv[d].sub
           /\ CleanIo(dv, D, s)[d].scheduled = dv[d].scheduled
           /\ CleanIo(dv, D, s)[d].state = dv[d].state
BY DEF CleanIo, DeviceStates

\* The end of a sub-request on device d.
LEMMA AfterHandleFields ==
    ASSUME NEW dv \in [Devices -> DeviceStates], NEW d \in Devices, NEW died,
           NEW e \in Devices
    PROVE  /\ AfterHandle(dv, d, died)[e].sub = IF e = d THEN NoSub ELSE dv[e].sub
           /\ AfterHandle(dv, d, died)[e].scheduled = dv[e].scheduled
BY DEF AfterHandle, DeviceStates

\* handle_rwalloc_sub_request_result, seen from the container.
LEMMA CancelEnds ==
    ASSUME NEW c \in Containers, NEW r \in Requests, NEW i \in Slots, c.err
    PROVE  LET e == [c EXCEPT !.status[i] = "cancel"]
               f == FreedIf(e, Ended(e, r))
           IN  EndsMedium(c, f, r, i) /\ f.devs = c.devs
<1> DEFINE e == [c EXCEPT !.status[i] = "cancel"]
           f == FreedIf(e, Ended(e, r))
<1>1. /\ \A j \in Slots : e.status[j] = IF j = i THEN "cancel" ELSE c.status[j]
      /\ e.err = c.err /\ e.answers = c.answers /\ e.frees = c.frees /\ e.devs = c.devs
      /\ e \in Containers
  BY DEF Containers, Statuses
<1> HIDE DEF e
<1>2. /\ f.status = e.status /\ f.err = e.err /\ f.answers = e.answers /\ f.devs = e.devs
      /\ \/ f.frees = e.frees
         \/ f.frees = e.frees + 1 /\ Ended(e, r)
  BY <1>1 DEF FreedIf, Freed, Containers
<1> HIDE DEF f
<1>3. EndsMedium(c, f, r, i) /\ f.devs = c.devs
  BY <1>1, <1>2, MediaSlots DEF EndsMedium, Ended
<1> QED BY <1>3 DEF e, f

LEMMA DoneEnds ==
    ASSUME NEW c \in Containers, NEW r \in Requests, NEW i \in Slots, ~c.err
    PROVE  LET e == [c EXCEPT !.status[i] = "done"]
               f == IF Ended(e, r) THEN Freed([e EXCEPT !.answers = @ + 1]) ELSE e
           IN  EndsMedium(c, f, r, i) /\ f.devs = c.devs
<1> DEFINE e == [c EXCEPT !.status[i] = "done"]
           f == IF Ended(e, r) THEN Freed([e EXCEPT !.answers = @ + 1]) ELSE e
<1>1. /\ \A j \in Slots : e.status[j] = IF j = i THEN "done" ELSE c.status[j]
      /\ e.err = c.err /\ e.answers = c.answers /\ e.frees = c.frees /\ e.devs = c.devs
      /\ e \in Containers
  BY DEF Containers, Statuses
<1> HIDE DEF e
<1>2. /\ f.status = e.status /\ f.err = e.err /\ f.devs = e.devs
      /\ \/ f.frees = e.frees /\ f.answers = e.answers
         \/ f.frees = e.frees + 1 /\ f.answers = e.answers + 1 /\ Ended(e, r)
  BY <1>1 DEF Freed, Containers
<1> HIDE DEF f
<1>3. EndsMedium(c, f, r, i) /\ f.devs = c.devs
  BY <1>1, <1>2, MediaSlots DEF EndsMedium, Ended, Containers
<1> QED BY <1>3 DEF e, f

\* The first fatal error: the media that are done are cancelled, and lose
\* their devices.
LEMMA FatalEnds ==
    ASSUME NEW c \in Containers, NEW r \in Requests, NEW i \in Slots, ~c.err
    PROVE  /\ EndsMedium(c, Fatal(c, r, i), r, i)
           /\ \A j \in Slots :
                /\ Fatal(c, r, i).devs[j] \in {c.devs[j], NoDev}
                /\ c.status[j] = "todo" => Fatal(c, r, i).devs[j] = c.devs[j]
<1> DEFINE e == [c EXCEPT !.err = TRUE, !.status[i] = "error"]
           g == CancelDone(e)
           h == WithError(g)
           f == FreedIf(h, Ended(h, r))
<1>0. f = Fatal(c, r, i)
  BY DEF Fatal
<1>1. /\ \A j \in Slots : e.status[j] = IF j = i THEN "error" ELSE c.status[j]
      /\ e.err = TRUE /\ e.answers = c.answers /\ e.frees = c.frees /\ e.devs = c.devs
      /\ e \in Containers
  BY DEF Containers, Statuses
<1> HIDE DEF e
<1>2. /\ \A j \in Slots : g.status[j] = IF e.status[j] = "done" THEN "cancel" ELSE e.status[j]
      /\ \A j \in Slots : g.devs[j] = IF e.status[j] = "done" THEN NoDev ELSE e.devs[j]
      /\ g.err = e.err /\ g.answers = e.answers /\ g.frees = e.frees
  BY <1>1 DEF CancelDone, Containers
<1>3. g \in Containers
  BY <1>1, CancelDoneType
<1> HIDE DEF g
<1>4. /\ h.status = g.status /\ h.devs = g.devs /\ h.err = g.err /\ h.frees = g.frees
      /\ h.answers = g.answers + 1 /\ h \in Containers
  BY <1>3 DEF WithError, Containers
<1> HIDE DEF h
<1>5. /\ f.status = h.status /\ f.err = h.err /\ f.answers = h.answers /\ f.devs = h.devs
      /\ \/ f.frees = h.frees
         \/ f.frees = h.frees + 1 /\ Ended(h, r)
  BY <1>4 DEF FreedIf, Freed, Containers
<1> HIDE DEF f
<1>6. EndsMedium(c, f, r, i)
  BY <1>1, <1>2, <1>4, <1>5, MediaSlots DEF EndsMedium, Ended
<1>7. \A j \in Slots : /\ f.devs[j] \in {c.devs[j], NoDev}
                       /\ c.status[j] = "todo" => f.devs[j] = c.devs[j]
  BY <1>1, <1>2, <1>4, <1>5
<1> QED BY <1>0, <1>6, <1>7

\* The media whose devices are reserved are not ended.
LEMMA ReservingTodo ==
    ASSUME AllocInv, sched.r \in Requests, NEW j \in Reserving(sched.r)
    PROVE  /\ j \in Media(sched.r) /\ AtSched(sched.r, j)
           /\ reqc[sched.r].status[j] = "todo"
<1>1. j \in Media(sched.r) /\ AtSched(sched.r, j)
  BY MediaSlots DEF Reserving, AtSched, AllocInv, Queued
<1> QED BY <1>1 DEF AllocInv, Tokens, PlacedLive, Placed

\* Reservations outlast what the device threads and the other media do.
LEMMA KeepReserved ==
    ASSUME AllocInv, UNCHANGED <<sched.r, sched.pc, sched.i>>,
           \A q \in Requests, j \in Slots :
              /\ reqc'[q].devs[j] \in {reqc[q].devs[j], NoDev}
              /\ reqc[q].status[j] = "todo" => reqc'[q].devs[j] = reqc[q].devs[j],
           \A e \in Devices : dev[e].scheduled /\ dev[e].sub = NoSub =>
              dev'[e].scheduled /\ dev'[e].sub = NoSub
    PROVE  Reserved'
<1> SUFFICES ASSUME sched'.r \in Requests PROVE Reserved'
  BY DEF Reserved
<1>0. PICK r \in Requests : r = sched.r
  OBVIOUS
<1>1. sched'.r = r /\ Reserving(r)' = Reserving(r) /\ Reserving(sched.r)' = Reserving(r)
  BY <1>0 DEF Reserving, Media
<1>2. \A j \in Reserving(r) : /\ j \in Slots /\ reqc'[r].devs[j] = reqc[r].devs[j]
                              /\ reqc[r].devs[j] \in Devices
  BY <1>0, ReservingTodo, MediaSlots DEF AllocInv, Reserved
<1>3. \A j \in Reserving(r) : LET d == reqc'[r].devs[j]
                              IN  d \in Devices /\ dev'[d].scheduled /\ dev'[d].sub = NoSub
  BY <1>0, <1>2 DEF AllocInv, Reserved
<1>4. \A j, k \in Reserving(r) : reqc'[r].devs[j] = reqc'[r].devs[k] => j = k
  BY <1>0, <1>2 DEF AllocInv, Reserved
<1>5. ASSUME sched.pc = "clear", NEW j \in Reserving(r)
      PROVE  reqc'[r].devs[sched.i] # reqc'[r].devs[j]
  <2>1. sched.i \in Slots
    BY <1>0, <1>5, MediaSlots DEF AllocInv, Inv, Progress
  <2>2. reqc[r].devs[sched.i] # reqc[r].devs[j]
    BY <1>0, <1>5 DEF AllocInv, Reserved
  <2> QED BY <1>1, <1>2, <2>1, <2>2, NoneAssumption
<1> QED BY <1>1, <1>3, <1>4, <1>5 DEF Reserved

\* Sub-requests other than i of r keep their places on the devices and in the
\* retry queue.
OthersKept(r, i) ==
    \A q \in Requests, j \in Slots : q # r \/ j # i =>
        /\ \A e \in Devices : dev'[e].sub = <<q, j>> <=> dev[e].sub = <<q, j>>
        /\ <<q, j>> \in retry' <=> <<q, j>> \in retry

\* Device and retry steps that end medium i of r.
LEMMA EndsInv ==
    ASSUME AllocInv, Inv', NEW r \in Requests, NEW i \in Slots,
           (\E d \in Devices : dev[d].sub = <<r, i>>) \/ <<r, i>> \in retry,
           OthersKept(r, i),
           \A e \in Devices : dev'[e].sub # <<r, i>>, <<r, i>> \notin retry',
           \A e \in Devices : /\ dev'[e].scheduled = dev[e].scheduled
                              /\ dev[e].sub = NoSub => dev'[e].sub = NoSub,
           \A q \in Requests : q # r => reqc'[q] = reqc[q],
           EndsMedium(reqc[r], reqc'[r], r, i),
           \A j \in Slots : /\ reqc'[r].devs[j] \in {reqc[r].devs[j], NoDev}
                            /\ reqc[r].status[j] = "todo" => reqc'[r].devs[j] = reqc[r].devs[j],
           UNCHANGED <<client, main, sched, incoming, ioSched>>,
           resp' \subseteq resp \cup ({r} \X {"ok", "error"})
    PROVE  AllocInv'
<1>1. i \in Media(r) /\ Once(r, i) /\ ((\E d \in Devices : OnDevice(d, r, i)) \/ AtRetry(r, i))
  BY DEF AllocInv, Tokens, PlacedLive, PlacedOnce, OnDevice, AtRetry
<1>2. ~AtSched(r, i) /\ \A q \in Requests, j \in Slots : AtSched(q, j)' <=> AtSched(q, j)
  BY <1>1 DEF Once, AtSched
<1>3. ~Placed(r, i)'
  BY <1>2 DEF Placed, OnDevice, AtRetry
<1>4. \A q \in Requests, j \in Slots : q # r \/ j # i => Stay(q, j)
  BY <1>2 DEF OthersKept, Stay, OnDevice, AtRetry
<1>5. Tokens'
  <2> USE <1>1, <1>3, <1>4
  <2> QED BY FinishTokens DEF AllocInv
<1>6. Queued'
  <2>1. r \notin incoming \cup ioSched
    BY <1>2 DEF AtSched
  <2>2. \A q \in incoming \cup ioSched : reqc'[q] = reqc[q]
    BY <2>1 DEF AllocInv, Inv, TypeOK
  <2> QED BY <2>2 DEF AllocInv, Queued, Media
<1>7. Reserved'
  BY KeepReserved
<1>8. Addressed'
  <2>1. client[r] # "idle"
    BY <1>1 DEF AllocInv, Tokens, PlacedLive, Placed
  <2> QED BY <2>1 DEF AllocInv, Addressed
<1> QED BY <1>5, <1>6, <1>7, <1>8 DEF AllocInv

\* What AllocInv says of the types.
LEMMA InvTypes ==
    ASSUME AllocInv
    PROVE  /\ reqc \in [Requests -> Containers] /\ dev \in [Devices -> DeviceStates]
           /\ sched \in SchedPositions /\ retry \subseteq Requests \X Slots
           /\ incoming \subseteq Requests /\ ioSched \subseteq Requests
           /\ sched.r = NoReq <=> sched.pc \notin WorkStates
           /\ NoReq \notin Requests /\ NoDev \notin Devices
BY NoneAssumption DEF AllocInv, Inv, TypeOK

\* The sub-request of a device.
LEMMA SubOf ==
    ASSUME AllocInv, NEW d \in Devices, dev[d].sub # NoSub
    PROVE  \E r \in Requests, i \in Slots :
              /\ dev[d].sub = <<r, i>> /\ dev[d].sub[1] = r /\ dev[d].sub[2] = i
              /\ <<r, i>> \notin retry /\ <<r, i>> # NoSub
              /\ \A e \in Devices : e # d => dev[e].sub # <<r, i>>
<1>1. dev[d].sub \in Requests \X Slots
  BY SubType DEF AllocInv, Inv
<1>2. PICK r \in Requests, i \in Slots : dev[d].sub = <<r, i>>
  BY <1>1
<1>3. OnDevice(d, r, i) /\ i \in Media(r)
  BY <1>2 DEF AllocInv, Tokens, PlacedLive, OnDevice
<1>4. Once(r, i)
  BY <1>3 DEF AllocInv, Tokens, PlacedOnce
<1>5. <<r, i>> \notin retry /\ \A e \in Devices : e # d => dev[e].sub # <<r, i>>
  BY <1>3, <1>4 DEF Once, OnDevice, AtRetry
<1> QED BY <1>2, <1>5

\* Sub-request i of r is on device d only.
OnlyOn(d, r, i) ==
    /\ dev[d].sub = <<r, i>> /\ <<r, i>> \notin retry /\ <<r, i>> # NoSub
    /\ \A e \in Devices : e # d => dev[e].sub # <<r, i>>

\* Device d gives its sub-request up.
SubLeaves(d) ==
    \A e \in Devices : /\ dev'[e].sub = IF e = d THEN NoSub ELSE dev[e].sub
                       /\ dev'[e].scheduled = dev[e].scheduled

\* The media of r that are not ended keep their devices.
DevsKept(r) ==
    \A j \in Slots : /\ reqc'[r].devs[j] \in {reqc[r].devs[j], NoDev}
                     /\ reqc[r].status[j] = "todo" => reqc'[r].devs[j] = reqc[r].devs[j]

\* No other request changes.
OnlyRequest(r) == \A q \in Requests : q # r => reqc'[q] = reqc[q]

\* A device thread ends the medium of its sub-request.
LEMMA DeviceEnds ==
    ASSUME AllocInv, Inv', NEW d \in Devices, NEW r \in Requests, NEW i \in Slots,
           OnlyOn(d, r, i), SubLeaves(d), OnlyRequest(r),
           EndsMedium(reqc[r], reqc'[r], r, i), DevsKept(r),
           UNCHANGED <<client, main, sched, incoming, ioSched, retry>>,
           resp' \subseteq resp \cup ({r} \X {"ok", "error"})
    PROVE  AllocInv'
<1>1. OthersKept(r, i)
  BY NoneAssumption DEF OthersKept, OnlyOn, SubLeaves
<1>2. \A e \in Devices : dev'[e].sub # <<r, i>>
  BY DEF OnlyOn, SubLeaves
<1>3. \A e \in Devices : /\ dev'[e].scheduled = dev[e].scheduled
                         /\ dev[e].sub = NoSub => dev'[e].sub = NoSub
  BY DEF SubLeaves
<1>4. /\ \A q \in Requests : q # r => reqc'[q] = reqc[q]
      /\ \A j \in Slots : /\ reqc'[r].devs[j] \in {reqc[r].devs[j], NoDev}
                          /\ reqc[r].status[j] = "todo" => reqc'[r].devs[j] = reqc[r].devs[j]
  BY DEF OnlyRequest, DevsKept
<1>5. (\E e \in Devices : dev[e].sub = <<r, i>>) /\ <<r, i>> \notin retry'
  BY DEF OnlyOn
<1> QED BY <1>1, <1>2, <1>3, <1>4, <1>5, EndsInv

\* Steps that change neither the containers nor the places.
LEMMA QuietInv ==
    ASSUME AllocInv, Inv', reqc' = reqc,
           \A e \in Devices : /\ dev'[e].scheduled = dev[e].scheduled
                              /\ dev'[e].sub = dev[e].sub,
           UNCHANGED <<sched.r, sched.pc, sched.i, incoming, ioSched, retry>>,
           \A q \in Requests : client'[q] = "idle" <=> client[q] = "idle",
           main' # "end" => main # "end", resp' \subseteq resp
    PROVE  AllocInv'
<1>1. \A q \in Requests, j \in Slots : Stay(q, j)
  BY DEF Stay, OnDevice, AtRetry, AtSched
<1>2. \A q \in Requests : SameLife(reqc[q], reqc'[q])
  BY DEF SameLife
<1>3. Tokens'
  BY <1>1, <1>2, KeepTokens DEF AllocInv
<1>4. Queued'
  BY DEF AllocInv, Queued, Media
<1>5. Reserved'
  BY KeepReserved
<1>6. Addressed'
  BY DEF AllocInv, Addressed
<1> QED BY <1>3, <1>4, <1>5, <1>6 DEF AllocInv

\* A device thread gives its sub-request back to the scheduler.
LEMMA DeviceGivesBack ==
    ASSUME AllocInv, Inv', NEW d \in Devices, NEW r \in Requests, NEW i \in Slots,
           dev[d].sub = <<r, i>>, <<r, i>> # NoSub,
           \A e \in Devices : e # d => dev[e].sub # <<r, i>>,
           \A e \in Devices : /\ dev'[e].sub = IF e = d THEN NoSub ELSE dev[e].sub
                              /\ dev'[e].scheduled = dev[e].scheduled,
           retry' = retry \cup {<<r, i>>}, reqc' = reqc,
           UNCHANGED <<client, main, sched, incoming, ioSched, resp>>
    PROVE  AllocInv'
<1>1. OnDevice(d, r, i) /\ i \in Media(r) /\ Placed(r, i) /\ Once(r, i)
  BY DEF AllocInv, Tokens, PlacedLive, PlacedOnce, OnDevice, Placed
<1>2. \A q \in Requests, j \in Slots : AtSched(q, j)' <=> AtSched(q, j)
  BY DEF AtSched
<1>3. Placed(r, i)' /\ Once(r, i)'
  BY <1>1, <1>2 DEF Placed, Once, OnDevice, AtRetry
<1>4. \A q \in Requests, j \in Slots : q # r \/ j # i => Stay(q, j)
  BY <1>2, NoneAssumption DEF Stay, OnDevice, AtRetry
<1>5. \A q \in Requests : SameLife(reqc[q], reqc'[q])
  BY DEF SameLife
<1>6. Tokens'
  BY <1>1, <1>3, <1>4, <1>5, KeepTokens DEF AllocInv
<1>7. Queued'
  BY DEF AllocInv, Queued, Media
<1>8. Reserved'
  BY KeepReserved
<1>9. Addressed'
  BY DEF AllocInv, Addressed
<1> QED BY <1>6, <1>7, <1>8, <1>9 DEF AllocInv

\* dev_handle_read_write, dev_sync and the end of a device thread.
LEMMA DeviceKeeps ==
    ASSUME AllocInv, Inv', NEW d \in Devices, Device(d)
    PROVE  AllocInv'
<1> USE DEF queues, budget
<1>t. reqc \in [Requests -> Containers] /\ dev \in [Devices -> DeviceStates]
  BY InvTypes
<1>h. \A D, s : \A b \in BOOLEAN : \A e \in Devices :
        /\ AfterHandle(CleanIo(dev, D, s), d, b)[e].sub = IF e = d THEN NoSub ELSE dev[e].sub
        /\ AfterHandle(CleanIo(dev, D, s), d, b)[e].scheduled = dev[e].scheduled
  BY <1>t, CleanIoType, CleanIoFields, AfterHandleFields
<1>e. \A b \in BOOLEAN : \A e \in Devices :
        /\ AfterHandle(dev, d, b)[e].sub = IF e = d THEN NoSub ELSE dev[e].sub
        /\ AfterHandle(dev, d, b)[e].scheduled = dev[e].scheduled
  BY <1>t, AfterHandleFields
<1>1. ASSUME DevDone(d) PROVE AllocInv'
  <2>1. PICK r \in Requests, i \in Slots :
          /\ dev[d].sub = <<r, i>> /\ dev[d].sub[1] = r /\ dev[d].sub[2] = i
          /\ <<r, i>> \notin retry /\ <<r, i>> # NoSub
          /\ \A e \in Devices : e # d => dev[e].sub # <<r, i>>
    BY <1>1, SubOf DEF DevDone, CanHandle, HasSub
  <2> DEFINE c == [reqc[r] EXCEPT !.status[i] = "done"]
             f == IF Ended(c, r) THEN Freed([c EXCEPT !.answers = @ + 1]) ELSE c
  <2>2. reqc[r] \in Containers /\ ~reqc[r].err
    BY <1>t, <1>1, <2>1 DEF DevDone
  <2>3. EndsMedium(reqc[r], f, r, i) /\ f.devs = reqc[r].devs
    BY <2>2, DoneEnds
  <2>4. reqc' = [reqc EXCEPT ![r] = f]
    BY <1>1, <2>1 DEF DevDone
  <2> HIDE DEF f
  <2>5. reqc'[r] = f /\ \A q \in Requests : q # r => reqc'[q] = reqc[q]
    BY <1>t, <2>4
  <2>6. \A e \in Devices : /\ dev'[e].sub = IF e = d THEN NoSub ELSE dev[e].sub
                           /\ dev'[e].scheduled = dev[e].scheduled
    BY <1>t, <1>1 DEF DevDone, SetDev, DeviceStates
  <2>7. /\ UNCHANGED <<client, main, sched, incoming, ioSched, retry>>
        /\ resp' \subseteq resp \cup ({r} \X {"ok", "error"})
    BY <1>1, <2>1 DEF DevDone
  <2>8. /\ EndsMedium(reqc[r], reqc'[r], r, i)
        /\ \A j \in Slots : /\ reqc'[r].devs[j] \in {reqc[r].devs[j], NoDev}
                            /\ reqc[r].status[j] = "todo" => reqc'[r].devs[j] = reqc[r].devs[j]
    BY <2>3, <2>5
  <2>9. OnlyOn(d, r, i) /\ SubLeaves(d) /\ OnlyRequest(r) /\ DevsKept(r)
    BY <2>1, <2>5, <2>6, <2>8 DEF OnlyOn, SubLeaves, OnlyRequest, DevsKept
  <2>10. EndsMedium(reqc[r], reqc'[r], r, i)
    BY <2>8
  <2> QED BY <2>7, <2>9, <2>10, DeviceEnds
<1>2. ASSUME NEW died \in BOOLEAN, DevCancel(d, died) PROVE AllocInv'
  <2>1. PICK r \in Requests, i \in Slots :
          /\ dev[d].sub = <<r, i>> /\ dev[d].sub[1] = r /\ dev[d].sub[2] = i
          /\ <<r, i>> \notin retry /\ <<r, i>> # NoSub
          /\ \A e \in Devices : e # d => dev[e].sub # <<r, i>>
    BY <1>2, SubOf DEF DevCancel, HasSub
  <2> DEFINE c == [reqc[r] EXCEPT !.status[i] = "cancel"]
             f == FreedIf(c, Ended(c, r))
  <2>2. reqc[r] \in Containers /\ reqc[r].err
    BY <1>t, <1>2, <2>1 DEF DevCancel
  <2>3. EndsMedium(reqc[r], f, r, i) /\ f.devs = reqc[r].devs
    BY <2>2, CancelEnds
  <2>4. reqc' = [reqc EXCEPT ![r] = f]
    BY <1>2, <2>1 DEF DevCancel
  <2> HIDE DEF f
  <2>5. reqc'[r] = f /\ \A q \in Requests : q # r => reqc'[q] = reqc[q]
    BY <1>t, <2>4
  <2>6. \A e \in Devices : /\ dev'[e].sub = IF e = d THEN NoSub ELSE dev[e].sub
                           /\ dev'[e].scheduled = dev[e].scheduled
    BY <1>e, <1>2 DEF DevCancel
  <2>7. /\ UNCHANGED <<client, main, sched, incoming, ioSched, retry>>
        /\ resp' \subseteq resp \cup ({r} \X {"ok", "error"})
    BY <1>2, <2>1 DEF DevCancel
  <2>8. /\ EndsMedium(reqc[r], reqc'[r], r, i)
        /\ \A j \in Slots : /\ reqc'[r].devs[j] \in {reqc[r].devs[j], NoDev}
                            /\ reqc[r].status[j] = "todo" => reqc'[r].devs[j] = reqc[r].devs[j]
    BY <2>3, <2>5
  <2>9. OnlyOn(d, r, i) /\ SubLeaves(d) /\ OnlyRequest(r) /\ DevsKept(r)
    BY <2>1, <2>5, <2>6, <2>8 DEF OnlyOn, SubLeaves, OnlyRequest, DevsKept
  <2>10. EndsMedium(reqc[r], reqc'[r], r, i)
    BY <2>8
  <2> QED BY <2>7, <2>9, <2>10, DeviceEnds
<1>3. ASSUME NEW died \in BOOLEAN, DevFatal(d, died) PROVE AllocInv'
  <2>1. PICK r \in Requests, i \in Slots :
          /\ dev[d].sub = <<r, i>> /\ dev[d].sub[1] = r /\ dev[d].sub[2] = i
          /\ <<r, i>> \notin retry /\ <<r, i>> # NoSub
          /\ \A e \in Devices : e # d => dev[e].sub # <<r, i>>
    BY <1>3, SubOf DEF DevFatal, CanHandle, HasSub
  <2> DEFINE f == Fatal(reqc[r], r, i)
  <2>2. reqc[r] \in Containers /\ ~reqc[r].err
    BY <1>t, <1>3, <2>1 DEF DevFatal
  <2>3. /\ EndsMedium(reqc[r], f, r, i)
        /\ \A j \in Slots : /\ f.devs[j] \in {reqc[r].devs[j], NoDev}
                            /\ reqc[r].status[j] = "todo" => f.devs[j] = reqc[r].devs[j]
    BY <2>2, FatalEnds
  <2>4. reqc' = [reqc EXCEPT ![r] = f]
    BY <1>3, <2>1 DEF DevFatal
  <2> HIDE DEF f
  <2>5. reqc'[r] = f /\ \A q \in Requests : q # r => reqc'[q] = reqc[q]
    BY <1>t, <2>4
  <2>6. \A e \in Devices : /\ dev'[e].sub = IF e = d THEN NoSub ELSE dev[e].sub
                           /\ dev'[e].scheduled = dev[e].scheduled
    BY <1>h, <1>3 DEF DevFatal
  <2>7. /\ UNCHANGED <<client, main, sched, incoming, ioSched, retry>>
        /\ resp' \subseteq resp \cup ({r} \X {"ok", "error"})
    BY <1>3, <2>1 DEF DevFatal
  <2>8. /\ EndsMedium(reqc[r], reqc'[r], r, i)
        /\ \A j \in Slots : /\ reqc'[r].devs[j] \in {reqc[r].devs[j], NoDev}
                            /\ reqc[r].status[j] = "todo" => reqc'[r].devs[j] = reqc[r].devs[j]
    BY <2>3, <2>5
  <2>9. OnlyOn(d, r, i) /\ SubLeaves(d) /\ OnlyRequest(r) /\ DevsKept(r)
    BY <2>1, <2>5, <2>6, <2>8 DEF OnlyOn, SubLeaves, OnlyRequest, DevsKept
  <2>10. EndsMedium(reqc[r], reqc'[r], r, i)
    BY <2>8
  <2> QED BY <2>7, <2>9, <2>10, DeviceEnds
<1>4. ASSUME NEW died \in BOOLEAN, DevRequeue(d, died) PROVE AllocInv'
  <2>1. PICK r \in Requests, i \in Slots :
          /\ dev[d].sub = <<r, i>> /\ dev[d].sub[1] = r /\ dev[d].sub[2] = i
          /\ <<r, i>> \notin retry /\ <<r, i>> # NoSub
          /\ \A e \in Devices : e # d => dev[e].sub # <<r, i>>
    BY <1>4, SubOf DEF DevRequeue, CanHandle, HasSub
  <2>2. \A e \in Devices : /\ dev'[e].sub = IF e = d THEN NoSub ELSE dev[e].sub
                           /\ dev'[e].scheduled = dev[e].scheduled
    BY <1>e, <1>4 DEF DevRequeue
  <2>3. /\ retry' = retry \cup {<<r, i>>} /\ reqc' = reqc
        /\ UNCHANGED <<client, main, sched, incoming, ioSched, resp>>
    BY <1>4, <2>1 DEF DevRequeue
  <2> QED BY <2>1, <2>2, <2>3, DeviceGivesBack
<1>5. ASSUME NEW requeued \in BOOLEAN, DyingSub(d, requeued) PROVE AllocInv'
  <2>1. PICK r \in Requests, i \in Slots :
          /\ dev[d].sub = <<r, i>> /\ dev[d].sub[1] = r /\ dev[d].sub[2] = i
          /\ <<r, i>> \notin retry /\ <<r, i>> # NoSub
          /\ \A e \in Devices : e # d => dev[e].sub # <<r, i>>
    BY <1>5, SubOf DEF DyingSub
  <2>2. \A e \in Devices : /\ dev'[e].sub = IF e = d THEN NoSub ELSE dev[e].sub
                           /\ dev'[e].scheduled = dev[e].scheduled
    <3>1. \/ dev' = AfterHandle(dev, d, FALSE)
          \/ \E D, s : dev' = AfterHandle(CleanIo(dev, D, s), d, FALSE)
      BY <1>5 DEF DyingSub
    <3>2. CASE dev' = AfterHandle(dev, d, FALSE)
      BY <1>e, <3>2
    <3>3. ASSUME NEW D, NEW s, dev' = AfterHandle(CleanIo(dev, D, s), d, FALSE)
          PROVE  \A e \in Devices : /\ dev'[e].sub = IF e = d THEN NoSub ELSE dev[e].sub
                                    /\ dev'[e].scheduled = dev[e].scheduled
      <4> DEFINE dv == CleanIo(dev, D, s)
      <4>1. dv \in [Devices -> DeviceStates]
        BY <1>t, CleanIoType
      <4>2. \A e \in Devices : dv[e].sub = dev[e].sub /\ dv[e].scheduled = dev[e].scheduled
        BY <1>t, CleanIoFields
      <4> HIDE DEF dv
      <4>3. dev' = AfterHandle(dv, d, FALSE)
        BY <3>3 DEF dv
      <4>4. \A b \in BOOLEAN : \A e \in Devices :
              /\ AfterHandle(dv, d, b)[e].sub = IF e = d THEN NoSub ELSE dv[e].sub
              /\ AfterHandle(dv, d, b)[e].scheduled = dv[e].scheduled
        BY <4>1, AfterHandleFields
      <4> QED BY <4>2, <4>3, <4>4
    <3> QED BY <3>1, <3>2, <3>3
  <2>3. /\ UNCHANGED <<client, main, sched, incoming, ioSched>>
        /\ resp' \subseteq resp \cup ({r} \X {"ok", "error"})
    <3>1. resp' = resp \/ resp' = resp \cup {<<r, "error">>}
      BY <1>5, <2>1 DEF DyingSub
    <3>2. UNCHANGED <<client, main, sched, incoming, ioSched>>
      BY <1>5 DEF DyingSub
    <3> QED BY <3>1, <3>2
  <2>4. reqc[r] \in Containers
    BY <1>t
  <2>5. CASE reqc[r].err
    <3> DEFINE c == [reqc[r] EXCEPT !.status[i] = "cancel"]
               f == FreedIf(c, Ended(c, r))
    <3>1. EndsMedium(reqc[r], f, r, i) /\ f.devs = reqc[r].devs
      BY <2>4, <2>5, CancelEnds
    <3>2. reqc' = [reqc EXCEPT ![r] = f] /\ retry' = retry
      BY <1>5, <2>1, <2>5 DEF DyingSub
    <3> HIDE DEF f
    <3>3. reqc'[r] = f /\ \A q \in Requests : q # r => reqc'[q] = reqc[q]
      BY <1>t, <3>2
    <3>4. /\ EndsMedium(reqc[r], reqc'[r], r, i)
          /\ \A j \in Slots : /\ reqc'[r].devs[j] \in {reqc[r].devs[j], NoDev}
                              /\ reqc[r].status[j] = "todo" => reqc'[r].devs[j] = reqc[r].devs[j]
      BY <3>1, <3>3
    <3>5. OnlyOn(d, r, i) /\ SubLeaves(d) /\ OnlyRequest(r) /\ DevsKept(r)
      BY <2>1, <2>2, <3>3, <3>4 DEF OnlyOn, SubLeaves, OnlyRequest, DevsKept
    <3>6. EndsMedium(reqc[r], reqc'[r], r, i) /\ retry' = retry
      BY <3>2, <3>4
    <3> QED BY <2>3, <3>5, <3>6, DeviceEnds
  <2>6. CASE ~reqc[r].err /\ requeued
    <3>1. retry' = retry \cup {<<r, i>>} /\ reqc' = reqc /\ resp' = resp
      BY <1>5, <2>1, <2>6 DEF DyingSub
    <3> QED BY <2>1, <2>2, <2>3, <3>1, DeviceGivesBack
  <2>7. CASE ~reqc[r].err /\ ~requeued
    <3> DEFINE f == Fatal(reqc[r], r, i)
    <3>1. /\ EndsMedium(reqc[r], f, r, i)
          /\ \A j \in Slots : /\ f.devs[j] \in {reqc[r].devs[j], NoDev}
                              /\ reqc[r].status[j] = "todo" => f.devs[j] = reqc[r].devs[j]
      BY <2>4, <2>7, FatalEnds
    <3>2. reqc' = [reqc EXCEPT ![r] = f] /\ retry' = retry
      BY <1>5, <2>1, <2>7 DEF DyingSub
    <3> HIDE DEF f
    <3>3. reqc'[r] = f /\ \A q \in Requests : q # r => reqc'[q] = reqc[q]
      BY <1>t, <3>2
    <3>4. /\ EndsMedium(reqc[r], reqc'[r], r, i)
          /\ \A j \in Slots : /\ reqc'[r].devs[j] \in {reqc[r].devs[j], NoDev}
                              /\ reqc[r].status[j] = "todo" => reqc'[r].devs[j] = reqc[r].devs[j]
      BY <3>1, <3>3
    <3>5. OnlyOn(d, r, i) /\ SubLeaves(d) /\ OnlyRequest(r) /\ DevsKept(r)
      BY <2>1, <2>2, <3>3, <3>4 DEF OnlyOn, SubLeaves, OnlyRequest, DevsKept
    <3>6. EndsMedium(reqc[r], reqc'[r], r, i) /\ retry' = retry
      BY <3>2, <3>4
    <3> QED BY <2>3, <3>5, <3>6, DeviceEnds
  <2> QED BY <2>5, <2>6, <2>7
<1>6. ASSUME NeedsSync(d) \/ ClientFailed(d) \/ DevEnd(d) \/ \E died \in BOOLEAN : Sync(d, died)
      PROVE  AllocInv'
  <2>1. \A e \in Devices : /\ dev'[e].scheduled = dev[e].scheduled
                           /\ dev'[e].sub = dev[e].sub
    <3>1. CASE NeedsSync(d) \/ ClientFailed(d)
      BY <1>t, <3>1 DEF NeedsSync, ClientFailed, SetDev, DeviceStates
    <3>2. CASE DevEnd(d)
      BY <1>t, <3>2 DEF DevEnd, SetDev, DeviceStates
    <3>3. ASSUME NEW died \in BOOLEAN, Sync(d, died)
          PROVE  \A e \in Devices : /\ dev'[e].scheduled = dev[e].scheduled
                                    /\ dev'[e].sub = dev[e].sub
      BY <1>t, <3>3 DEF Sync, SetDev, DeviceStates
    <3> QED BY <1>6, <3>1, <3>2, <3>3
  <2>2. UNCHANGED <<reqc, client, main, sched, incoming, ioSched, retry, resp>>
    BY <1>6 DEF NeedsSync, ClientFailed, DevEnd, Sync
  <2> QED BY <2>1, <2>2, QuietInv
<1> QED BY <1>1, <1>2, <1>3, <1>4, <1>5, <1>6 DEF Device

\* The communication thread: places change only when a request is received,
\* and when the queues are destroyed.
LEMMA MainKeeps ==
    ASSUME AllocInv, Inv',
           \/ Main \/ Stop \/ \E s \in Sockets : Close(s)
           \/ \E r \in Requests :
                 Receive(r) \/ \E written \in BOOLEAN : Release(r, written)
    PROVE  AllocInv'
<1> USE DEF queues, budget
<1>t. /\ reqc \in [Requests -> Containers] /\ dev \in [Devices -> DeviceStates]
      /\ client \in [Requests -> ClientStates] /\ sched \in SchedPositions
      /\ incoming \subseteq Requests /\ ioSched \subseteq Requests
  BY InvTypes DEF AllocInv, Inv, TypeOK
<1>c. \A D, s : \A e \in Devices :
        /\ CleanIo(dev, D, s)[e].sub = dev[e].sub
        /\ CleanIo(dev, D, s)[e].scheduled = dev[e].scheduled
  BY <1>t, CleanIoFields
<1>1. ASSUME NEW r \in Requests, NEW k \in {"ok", "error"}, NEW open \in BOOLEAN,
             Send(r, k, open)
      PROVE  AllocInv'
  <2>1. dev' = dev \/ \E D, s : dev' = CleanIo(dev, D, s)
    BY <1>1 DEF Send
  <2>2. \A e \in Devices : /\ dev'[e].scheduled = dev[e].scheduled
                           /\ dev'[e].sub = dev[e].sub
    BY <1>c, <2>1
  <2>3. client[r] # "idle"
    BY <1>1 DEF Send, AllocInv, Addressed
  <2>4. \A q \in Requests : client'[q] = "idle" <=> client[q] = "idle"
    BY <1>t, <1>1, <2>3 DEF Send
  <2>5. /\ UNCHANGED <<reqc, main, sched, incoming, ioSched, retry>>
        /\ resp' \subseteq resp
    BY <1>1 DEF Send
  <2> QED BY <2>2, <2>4, <2>5, QuietInv
<1>2. ASSUME MainCheck \/ Stop PROVE AllocInv'
  <2>1. /\ UNCHANGED <<reqc, dev, client, sched, incoming, ioSched, retry, resp>>
        /\ main' # "end" => main # "end"
    BY <1>2 DEF MainCheck, Stop
  <2> QED BY <2>1, QuietInv
<1>3. ASSUME MainLeave PROVE AllocInv'
  <2>1. /\ UNCHANGED <<reqc, dev, client, incoming, ioSched, retry, resp>>
        /\ UNCHANGED <<sched.r, sched.pc, sched.i>> /\ main # "end"
    BY <1>t, <1>3 DEF MainLeave, SchedPositions
  <2> QED BY <2>1, QuietInv
<1>4. ASSUME FiniDevices PROVE AllocInv'
  <2>1. \A e \in Devices : /\ dev'[e].scheduled = dev[e].scheduled
                           /\ dev'[e].sub = dev[e].sub
    BY <1>t, <1>4 DEF FiniDevices, DeviceStates
  <2>2. UNCHANGED <<reqc, main, client, sched, incoming, ioSched, retry, resp>>
    BY <1>4 DEF FiniDevices
  <2> QED BY <2>1, <2>2, QuietInv
<1>5. ASSUME FiniEnd PROVE AllocInv'
  <2>1. /\ UNCHANGED <<reqc, client, dev, sched>> /\ main' = "end"
        /\ incoming' = {} /\ ioSched' = {} /\ retry' = {} /\ resp' = {}
        /\ sched.pc = "ended"
    BY <1>5 DEF FiniEnd
  <2>2. sched.r \notin Requests
    BY <2>1, InvTypes DEF WorkStates
  <2>3. \A r \in Requests, i \in Slots :
          /\ ~AtRetry(r, i)' /\ ~AtSched(r, i)'
          /\ \A d \in Devices : OnDevice(d, r, i)' <=> OnDevice(d, r, i)
    BY <2>1, <2>2 DEF AtRetry, AtSched, OnDevice
  <2>4. \A r \in Requests : \A i \in Media(r) : (Placed(r, i)' => Placed(r, i)) /\ Once(r, i)'
    BY <2>3, MediaSlots DEF Placed, Once, AllocInv, Tokens, PlacedOnce
  <2>5. PlacedLive'
    <3>1. \A r \in Requests, i \in Slots :
            (\E d \in Devices : OnDevice(d, r, i)') \/ AtRetry(r, i)' => i \in Media(r)
      BY <2>3 DEF AllocInv, Tokens, PlacedLive
    <3> QED BY <2>1, <2>4, <3>1 DEF AllocInv, Tokens, PlacedLive, Media
  <2>6. PlacedOnce' /\ TodoPlaced' /\ AnsweredOnce'
    BY <2>1, <2>4 DEF AllocInv, Tokens, PlacedOnce, TodoPlaced, AnsweredOnce, Media
  <2>7. Queued' /\ Addressed'
    BY <2>1, <2>2 DEF Queued, Addressed
  <2>8. Reserved'
    BY <2>1, <2>2 DEF Reserved
  <2> QED BY <2>5, <2>6, <2>7, <2>8 DEF AllocInv, Tokens
<1>6. ASSUME NEW s \in Sockets, Close(s) PROVE AllocInv'
  <2>1. \A e \in Devices : /\ dev'[e].scheduled = dev[e].scheduled
                           /\ dev'[e].sub = dev[e].sub
    BY <1>c, <1>6 DEF Close
  <2>2. \A q \in Requests : client'[q] = "idle" <=> client[q] = "idle"
    BY <1>6 DEF Close
  <2>3. UNCHANGED <<reqc, main, sched, incoming, ioSched, retry, resp>>
    BY <1>6 DEF Close
  <2> QED BY <2>1, <2>2, <2>3, QuietInv
<1>7. ASSUME NEW r \in Requests, NEW written \in BOOLEAN, Release(r, written) PROVE AllocInv'
  <2>1. ASSUME NEW e \in Devices
        PROVE  dev'[e].scheduled = dev[e].scheduled /\ dev'[e].sub = dev[e].sub
    <3>1. dev[e] \in DeviceStates
      BY <1>t
    <3>2. \/ dev'[e] = dev[e]
          \/ \E x, y : dev'[e] = [dev[e] EXCEPT !.io = x, !.sync = y]
      BY <1>7 DEF Release
    <3> QED BY <3>1, <3>2 DEF DeviceStates
  <2>2. \A q \in Requests : client'[q] = "idle" <=> client[q] = "idle"
    BY <1>t, <1>7 DEF Release
  <2>3. UNCHANGED <<reqc, main, sched, incoming, ioSched, retry, resp>>
    BY <1>7 DEF Release
  <2> QED BY <2>1, <2>2, <2>3, QuietInv
<1>8. ASSUME NEW r \in Requests, Receive(r) PROVE AllocInv'
  <2>1. /\ client[r] = "idle" /\ reqc[r].frees = 0 /\ ~reqc[r].err
        /\ \A i \in Media(r) : reqc[r].status[i] = "todo"
    BY <1>8 DEF Receive, AllocInv, Tokens, AnsweredOnce
  <2>2. \A i \in Media(r) : ~Placed(r, i)
    BY <2>1 DEF AllocInv, Tokens, PlacedLive
  <2>3. \A i \in Slots : /\ ~AtRetry(r, i) /\ \A d \in Devices : ~OnDevice(d, r, i)
    BY <2>2 DEF AllocInv, Tokens, PlacedLive, Placed
  <2>4. r \notin incoming \cup ioSched /\ ~AtSched(r, 1)
    BY <2>2, MediaSlots DEF Placed, AtSched
  <2>5. sched.r # r
    BY <2>1 DEF AllocInv, Addressed
  <2>6. UNCHANGED <<main, ioSched, retry, resp, dev, sched>>
    BY <1>8 DEF Receive
  <2>7. CASE running
    <3>1. /\ incoming' = incoming \cup {r} /\ reqc' = reqc
          /\ client'[r] = "waiting" /\ \A q \in Requests : q # r => client'[q] = client[q]
      BY <1>t, <1>8, <2>7 DEF Receive
    <3>2. \A q \in Requests, j \in Slots : q # r => Stay(q, j)
      BY <2>6, <3>1 DEF Stay, OnDevice, AtRetry, AtSched
    <3>3. \A j \in Slots : /\ AtSched(r, j)' /\ ~AtRetry(r, j)'
                           /\ \A d \in Devices : ~OnDevice(d, r, j)'
      BY <2>3, <2>6, <3>1 DEF OnDevice, AtRetry, AtSched
    <3>4. ASSUME NEW q \in Requests, NEW j \in Media(q)
          PROVE  Once(q, j)' /\ (q # r => (Placed(q, j)' <=> Placed(q, j))) /\ Placed(r, j)'
      BY <3>2, <3>3, MediaSlots DEF Stay, Placed, Once, AllocInv, Tokens, PlacedOnce
    <3>5. PlacedLive'
      <4>1. \A q \in Requests, j \in Slots :
              (\E d \in Devices : OnDevice(d, q, j)') \/ AtRetry(q, j)' => j \in Media(q)
        BY <2>6 DEF OnDevice, AtRetry, AllocInv, Tokens, PlacedLive
      <4>2. \A q \in Requests : \A j \in Media(q) : Placed(q, j)' =>
              reqc[q].status[j] = "todo" /\ reqc[q].frees = 0 /\ client'[q] # "idle"
        BY <2>1, <3>1, <3>4 DEF AllocInv, Tokens, PlacedLive
      <4> QED BY <3>1, <4>1, <4>2 DEF PlacedLive, Media
    <3>6. PlacedOnce'
      BY <3>4 DEF PlacedOnce, Media
    <3>7. TodoPlaced'
      BY <2>6, <3>1, <3>4 DEF TodoPlaced, Media, AllocInv, Tokens
    <3>8. AnsweredOnce'
      BY <3>1 DEF AnsweredOnce, Media, AllocInv, Tokens
    <3>9. Queued'
      BY <2>1, <2>4, <2>5, <2>6, <3>1 DEF AllocInv, Queued, Media
    <3>10. Reserved'
      BY <2>6, <3>1, KeepReserved
    <3>11. Addressed'
      BY <2>6, <3>1 DEF AllocInv, Addressed
    <3> QED BY <3>5, <3>6, <3>7, <3>8, <3>9, <3>10, <3>11 DEF AllocInv, Tokens
  <2>8. CASE ~running
    <3> DEFINE f == Freed(WithError(reqc[r]))
    <3>1. f.frees = 1 /\ f.answers = reqc[r].answers + 1 /\ f.devs = reqc[r].devs
      BY <1>t, <2>1 DEF Freed, WithError, Containers
    <3>2. /\ reqc' = [reqc EXCEPT ![r] = f] /\ incoming' = incoming
          /\ client'[r] = "refused" /\ \A q \in Requests : q # r => client'[q] = client[q]
      BY <1>t, <1>8, <2>8 DEF Receive
    <3> HIDE DEF f
    <3>3. reqc'[r] = f /\ \A q \in Requests : q # r => reqc'[q] = reqc[q]
      BY <1>t, <3>2
    <3>4. \A i \in Media(r) : ~Placed(r, i)'
      BY <2>2, <2>6, <3>2 DEF Placed, OnDevice, AtRetry, AtSched
    <3>5. \A q \in Requests, j \in Slots : AtSched(q, j)' <=> AtSched(q, j)
      BY <2>6, <3>2 DEF AtSched
    <3>6. Tokens'
      BY <2>1, <2>6, <3>1, <3>2, <3>3, <3>4, <3>5, RefuseTokens DEF AllocInv
    <3>7. Queued'
      <4>1. \A q \in incoming \cup ioSched : reqc'[q] = reqc[q]
        BY <1>t, <2>4, <3>3
      <4> QED BY <2>6, <3>2, <4>1 DEF AllocInv, Queued, Media
    <3>8. Reserved'
      <4>1. \A q \in Requests : reqc'[q].devs = reqc[q].devs
        BY <3>1, <3>3
      <4> QED BY <2>6, <4>1, KeepReserved
    <3>9. Addressed'
      BY <2>6, <3>2 DEF AllocInv, Addressed
    <3> QED BY <3>6, <3>7, <3>8, <3>9 DEF AllocInv
  <2> QED BY <2>7, <2>8
<1> QED BY <1>1, <1>2, <1>3, <1>4, <1>5, <1>6, <1>7, <1>8 DEF Main

\* The scheduler passes from one of its queues to the next.
LEMMA BetweenQueues ==
    ASSUME AllocInv, Inv', SchedTop \/ RetryDone \/ IncomingDone \/ NoWork
    PROVE  AllocInv'
<1> USE DEF queues, budget
<1>1. UNCHANGED <<reqc, dev, client, main, incoming, ioSched, retry, resp>>
  BY DEF SchedTop, RetryDone, IncomingDone, NoWork
<1>2. /\ sched.pc \notin WorkStates /\ sched'.pc \notin WorkStates
      /\ sched'.pc \notin {"alloc", "repush"}
  BY InvTypes DEF SchedTop, RetryDone, IncomingDone, NoWork, GotoSched, WorkStates,
                  SchedPositions
<1>3. sched.r = NoReq /\ sched'.r = NoReq
  BY <1>2, InvTypes DEF Inv, TypeOK
<1>4. \A q \in Requests, j \in Slots : Stay(q, j)
  BY <1>1, <1>3, InvTypes DEF Stay, OnDevice, AtRetry, AtSched
<1>5. \A q \in Requests : SameLife(reqc[q], reqc'[q])
  BY <1>1 DEF SameLife
<1>6. Tokens'
  BY <1>1, <1>4, <1>5, KeepTokens DEF AllocInv
<1>7. Queued'
  BY <1>1, <1>2, <1>3, InvTypes DEF AllocInv, Queued
<1>8. Reserved' /\ Addressed'
  BY <1>1, <1>3, InvTypes DEF AllocInv, Reserved, Addressed
<1> QED BY <1>6, <1>7, <1>8 DEF AllocInv

\* sched_handle_error
LEMMA RetryKeeps ==
    ASSUME AllocInv, Inv', NEW r \in Requests, NEW i \in Slots,
           \/ RetryCancel(r, i) \/ RetryFatal(r, i)
           \/ \E d \in Devices : RetrySelect(r, i, d)
    PROVE  AllocInv'
<1> USE DEF queues, budget
<1>t. /\ reqc \in [Requests -> Containers] /\ dev \in [Devices -> DeviceStates]
      /\ sched \in SchedPositions
  BY InvTypes
<1>0. sched.pc = "retry" /\ <<r, i>> \in retry /\ retry' = retry \ {<<r, i>>}
  BY DEF RetryCancel, RetryFatal, RetrySelect
<1>1. /\ AtRetry(r, i) /\ i \in Media(r) /\ Placed(r, i) /\ Once(r, i)
      /\ \A e \in Devices : dev[e].sub # <<r, i>>
      /\ ~AtSched(r, i)
  BY <1>0 DEF AllocInv, Tokens, PlacedLive, PlacedOnce, Placed, Once, AtRetry, OnDevice
<1>2. CASE RetryCancel(r, i)
  <2> DEFINE c == [reqc[r] EXCEPT !.status[i] = "cancel"]
             f == FreedIf(c, Ended(c, r))
  <2>1. EndsMedium(reqc[r], f, r, i) /\ f.devs = reqc[r].devs
    BY <1>t, <1>2, CancelEnds DEF RetryCancel
  <2>2. reqc' = [reqc EXCEPT ![r] = f]
    BY <1>2 DEF RetryCancel
  <2> HIDE DEF f
  <2>3. reqc'[r] = f /\ \A q \in Requests : q # r => reqc'[q] = reqc[q]
    BY <1>t, <2>2
  <2>4. UNCHANGED <<dev, client, main, sched, incoming, ioSched, resp>>
    BY <1>2 DEF RetryCancel
  <2>5. OthersKept(r, i)
    BY <1>0, <2>4 DEF OthersKept
  <2>6. EndsMedium(reqc[r], reqc'[r], r, i) /\ reqc'[r].devs = reqc[r].devs
    BY <2>1, <2>3
  <2> QED BY <1>0, <1>1, <2>3, <2>4, <2>5, <2>6, EndsInv
<1>3. CASE RetryFatal(r, i)
  <2> DEFINE f == Fatal(reqc[r], r, i)
  <2>1. /\ EndsMedium(reqc[r], f, r, i)
        /\ \A j \in Slots : /\ f.devs[j] \in {reqc[r].devs[j], NoDev}
                            /\ reqc[r].status[j] = "todo" => f.devs[j] = reqc[r].devs[j]
    BY <1>t, <1>3, FatalEnds DEF RetryFatal
  <2>2. reqc' = [reqc EXCEPT ![r] = f]
    BY <1>3 DEF RetryFatal
  <2> HIDE DEF f
  <2>3. reqc'[r] = f /\ \A q \in Requests : q # r => reqc'[q] = reqc[q]
    BY <1>t, <2>2
  <2>4. UNCHANGED <<client, main, sched, incoming, ioSched>>
    BY <1>3 DEF RetryFatal
  <2>5. \A e \in Devices : dev'[e].sub = dev[e].sub /\ dev'[e].scheduled = dev[e].scheduled
    <3>1. dev' = CleanIo(dev, DoneDevs(reqc[r], r), Sock[r])
      BY <1>3 DEF RetryFatal
    <3> QED BY <1>t, <3>1, CleanIoFields
  <2>6. OthersKept(r, i)
    BY <1>0, <2>5 DEF OthersKept
  <2>7. resp' \subseteq resp \cup ({r} \X {"ok", "error"})
    BY <1>3 DEF RetryFatal
  <2>8. /\ EndsMedium(reqc[r], reqc'[r], r, i)
        /\ \A j \in Slots : /\ reqc'[r].devs[j] \in {reqc[r].devs[j], NoDev}
                            /\ reqc[r].status[j] = "todo" => reqc'[r].devs[j] = reqc[r].devs[j]
    BY <2>1, <2>3
  <2>9. /\ \A e \in Devices : dev'[e].sub # <<r, i>>
        /\ <<r, i>> \notin retry'
        /\ \A e \in Devices : /\ dev'[e].scheduled = dev[e].scheduled
                              /\ dev[e].sub = NoSub => dev'[e].sub = NoSub
    BY <1>0, <1>1, <2>5
  <2> QED BY <1>0, <2>3, <2>4, <2>6, <2>7, <2>8, <2>9, EndsInv
<1>4. ASSUME NEW d \in Devices, RetrySelect(r, i, d) PROVE AllocInv'
  <2>1. /\ UNCHANGED <<client, main, incoming, ioSched, resp>>
        /\ sched'.pc = "repush" /\ sched'.r = r /\ sched'.i = i
    BY <1>t, <1>4 DEF RetrySelect, SchedPositions
  <2>2. /\ dev[d].sub = NoSub
        /\ dev' = [dev EXCEPT ![d] = [dev[d] EXCEPT !.scheduled = TRUE]]
    BY <1>4 DEF RetrySelect, SetDev, SchedReady
  <2>3. /\ \A e \in Devices : dev'[e].sub = dev[e].sub
        /\ dev'[d].scheduled /\ dev'[d].sub = NoSub
    BY <1>t, <2>2 DEF DeviceStates
  <2>4. /\ \A q \in Requests : SameLife(reqc[q], reqc'[q])
        /\ reqc'[r].devs[i] = d
    <3>1. reqc' = [reqc EXCEPT ![r].devs[i] = d]
      BY <1>4 DEF RetrySelect
    <3> QED BY <1>t, <3>1 DEF SameLife, Containers
  <2>5. sched.r = NoReq
    BY <1>0, InvTypes DEF WorkStates
  <2>6. r \notin incoming \cup ioSched
    BY <1>1 DEF AtSched
  <2>7. \A q \in Requests, j \in Slots : q # r \/ j # i => Stay(q, j)
    BY <1>0, <2>1, <2>3, <2>5, InvTypes DEF Stay, OnDevice, AtRetry, AtSched
  <2>8. Placed(r, i)' /\ Once(r, i)'
    BY <1>0, <1>1, <2>1, <2>3 DEF Placed, Once, OnDevice, AtRetry, AtSched
  <2>9. Tokens'
    BY <1>1, <2>1, <2>4, <2>7, <2>8, KeepTokens DEF AllocInv
  <2>10. Queued'
    BY <1>1, <2>1, <2>4, <2>6, InvTypes DEF AllocInv, Queued, Media, SameLife
  <2>11. Reserved'
    <3>1. Reserving(r)' = {i} /\ Reserving(sched.r)' = {i}
      BY <1>1, <2>1 DEF Reserving, Media
    <3> QED BY <2>1, <2>3, <2>4, <3>1 DEF Reserved
  <2>12. Addressed'
    BY <1>1, <2>1 DEF AllocInv, Addressed, Tokens, PlacedLive
  <2> QED BY <2>9, <2>10, <2>11, <2>12 DEF AllocInv
<1> QED BY <1>2, <1>3, <1>4

\* The sub-request of a retry reaches its new device.
LEMMA RetryPushKeeps ==
    ASSUME AllocInv, Inv', RetryPush
    PROVE  AllocInv'
<1> USE DEF queues, budget
<1>t. /\ reqc \in [Requests -> Containers] /\ dev \in [Devices -> DeviceStates]
      /\ sched \in SchedPositions
  BY InvTypes
<1>0. sched.pc = "repush" /\ sched.r \in Requests
  BY <1>t, InvTypes DEF RetryPush, WorkStates, SchedPositions
<1>1. PICK r \in Requests, i \in Slots : r = sched.r /\ i = sched.i /\ i \in Media(r)
  BY <1>0, MediaSlots DEF AllocInv, Queued
<1>2. PICK d \in Devices : d = reqc[r].devs[i] /\ dev[d].sub = NoSub
  <2>1. i \in Reserving(r)
    BY <1>0, <1>1 DEF Reserving
  <2> QED BY <1>1, <2>1 DEF AllocInv, Reserved
<1>3. /\ UNCHANGED <<reqc, client, main, incoming, ioSched, retry, resp>>
      /\ sched'.pc = "retry" /\ sched'.r = NoReq
      /\ dev' = [dev EXCEPT ![d] = [dev[d] EXCEPT !.sub = <<r, i>>, !.scheduled = FALSE]]
  BY <1>t, <1>1, <1>2 DEF RetryPush, SetDev, SchedPositions
<1>4. \A e \in Devices : dev'[e].sub = IF e = d THEN <<r, i>> ELSE dev[e].sub
  BY <1>t, <1>3 DEF DeviceStates
<1>5. AtSched(r, i) /\ Placed(r, i) /\ Once(r, i)
  BY <1>0, <1>1 DEF AtSched, Placed, AllocInv, Tokens, PlacedOnce
<1>6. r \notin incoming \cup ioSched
  BY <1>0, <1>1 DEF AllocInv, Queued
<1>7. Placed(r, i)' /\ Once(r, i)'
  BY <1>3, <1>4, <1>5, <1>6, InvTypes DEF Placed, Once, OnDevice, AtRetry, AtSched
<1>8. \A q \in Requests, j \in Slots : q # r \/ j # i => Stay(q, j)
  BY <1>0, <1>1, <1>2, <1>3, <1>4, InvTypes, NoneAssumption
  DEF Stay, OnDevice, AtRetry, AtSched
<1>9. \A q \in Requests : SameLife(reqc[q], reqc'[q])
  BY <1>3 DEF SameLife
<1>10. Tokens'
  BY <1>1, <1>3, <1>5, <1>7, <1>8, <1>9, KeepTokens DEF AllocInv
<1>11. Queued'
  BY <1>3, InvTypes DEF AllocInv, Queued
<1>12. Reserved' /\ Addressed'
  BY <1>3, InvTypes DEF AllocInv, Reserved, Addressed
<1> QED BY <1>10, <1>11, <1>12 DEF AllocInv

\* What a refusal does to the container.
LEMMA RefusedContainer ==
    ASSUME NEW c \in Containers
    PROVE  /\ Freed(WithError(c)).frees = c.frees + 1
           /\ Freed(WithError(c)).answers = c.answers + 1
           /\ Freed(WithError(c)).devs = c.devs
BY DEF Freed, WithError, Containers

\* The scheduler refuses a request no device knows, with no reservation left.
LEMMA SchedRefuses ==
    ASSUME AllocInv, Inv', NEW r \in Requests,
           r \in incoming \cup ioSched,
           incoming' = incoming \ {r}, ioSched' = ioSched \ {r},
           UNCHANGED <<retry, client, main>>,
           \A e \in Devices : dev'[e].sub = dev[e].sub,
           reqc' = [reqc EXCEPT ![r] = Freed(WithError(@))],
           resp' = resp \cup {<<r, "error">>},
           sched.r \in {r, NoReq}, sched'.r = NoReq
    PROVE  AllocInv'
<1>1. AtSched(r, 1) /\ 1 \in Media(r) /\ \A i \in Slots : AtSched(r, i)
  BY MediaSlots DEF AtSched
<1>2. /\ reqc[r].frees = 0 /\ client[r] # "idle" /\ ~reqc[r].err
  BY <1>1 DEF AllocInv, Tokens, PlacedLive, Placed, Queued
<1>3. \A i \in Media(r) : /\ \A d \in Devices : ~OnDevice(d, r, i)
                          /\ ~AtRetry(r, i)
  BY <1>1, MediaSlots DEF AllocInv, Tokens, PlacedOnce, Once
<1>4. \A i \in Media(r) : ~Placed(r, i)'
  BY <1>3, InvTypes DEF Placed, OnDevice, AtRetry, AtSched
<1>5. \A q \in Requests, j \in Slots : q # r => (AtSched(q, j)' <=> AtSched(q, j))
  BY InvTypes DEF AtSched
<1>6. /\ reqc'[r].frees = 1 /\ reqc'[r].answers = reqc[r].answers + 1
      /\ \A q \in Requests : q # r => reqc'[q] = reqc[q]
  <2>1. reqc'[r] = Freed(WithError(reqc[r])) /\ \A q \in Requests : q # r => reqc'[q] = reqc[q]
    BY InvTypes
  <2>2. reqc[r] \in Containers
    BY InvTypes
  <2> QED BY <1>2, <2>1, <2>2, RefusedContainer
<1>7. Tokens'
  BY <1>2, <1>4, <1>5, <1>6, RefuseTokens DEF AllocInv
<1>8. Queued'
  <2>1. \A q \in incoming' \cup ioSched' : q \in incoming \cup ioSched /\ reqc'[q] = reqc[q] /\ q # NoReq
    BY <1>6, InvTypes
  <2>2. sched'.pc \notin WorkStates
    BY InvTypes DEF Inv, TypeOK
  <2> QED BY <2>1, <2>2 DEF AllocInv, Queued, WorkStates
<1>9. Reserved' /\ Addressed'
  BY <1>2, InvTypes DEF AllocInv, Reserved, Addressed
<1> QED BY <1>7, <1>8, <1>9 DEF AllocInv

\* sched_handle_requests, and the choice of the next request
LEMMA QueueKeeps ==
    ASSUME AllocInv, Inv', NEW r \in Requests, PopIncoming(r) \/ Peek(r)
    PROVE  AllocInv'
<1> USE DEF queues, budget
<1>t. sched \in SchedPositions /\ incoming \subseteq Requests /\ ioSched \subseteq Requests
  BY InvTypes
<1>0. sched.r = NoReq /\ sched.pc \in {"incoming", "work"} /\ r # NoReq
  BY InvTypes DEF PopIncoming, Peek, WorkStates
<1>1. CASE PopIncoming(r) /\ running
  <2>1. /\ UNCHANGED <<reqc, dev, client, main, retry, resp, sched>>
        /\ r \in incoming /\ incoming' = incoming \ {r} /\ ioSched' = ioSched \cup {r}
    BY <1>1 DEF PopIncoming
  <2>2. \A q \in Requests, j \in Slots : Stay(q, j)
    BY <2>1 DEF Stay, OnDevice, AtRetry, AtSched
  <2>3. \A q \in Requests : SameLife(reqc[q], reqc'[q])
    BY <2>1 DEF SameLife
  <2>4. Tokens'
    BY <2>1, <2>2, <2>3, KeepTokens DEF AllocInv
  <2>5. Queued'
    BY <1>t, <1>0, <2>1, InvTypes DEF AllocInv, Queued
  <2>6. Reserved' /\ Addressed'
    BY <1>0, <2>1, InvTypes DEF AllocInv, Reserved, Addressed
  <2> QED BY <2>4, <2>5, <2>6 DEF AllocInv
<1>2. CASE PopIncoming(r) /\ ~running
  <2>1. /\ UNCHANGED <<ioSched, dev, client, main, retry, sched>>
        /\ r \in incoming /\ incoming' = incoming \ {r}
        /\ resp' = resp \cup {<<r, "error">>}
        /\ reqc' = [reqc EXCEPT ![r] = Freed(WithError(@))]
    BY <1>2 DEF PopIncoming
  <2>2. ioSched' = ioSched \ {r}
    BY <2>1 DEF AllocInv, Queued
  <2> QED BY <1>0, <2>1, <2>2, SchedRefuses
<1>3. CASE Peek(r)
  <2>1. /\ UNCHANGED <<reqc, dev, client, main, incoming, ioSched, retry, resp>>
        /\ r \in ioSched /\ sched'.pc = "alloc" /\ sched'.r = r /\ sched'.i = 1
    BY <1>t, <1>3 DEF Peek, SchedPositions
  <2>2. \A q \in Requests, j \in Slots : Stay(q, j)
    BY <1>0, <2>1, InvTypes DEF Stay, OnDevice, AtRetry, AtSched
  <2>3. \A q \in Requests : SameLife(reqc[q], reqc'[q])
    BY <2>1 DEF SameLife
  <2>4. Tokens'
    BY <2>1, <2>2, <2>3, KeepTokens DEF AllocInv
  <2>5. Queued'
    BY <1>t, <1>0, <2>1, InvTypes DEF AllocInv, Queued
  <2>6. Reserving(sched.r)' = {}
    BY <2>1, RequestAssumption, BoundAssumption DEF Reserving, Media, Slots
  <2>7. Reserved'
    BY <2>1, <2>6 DEF Reserved
  <2>8. AtSched(r, 1) /\ 1 \in Media(r)
    BY <2>1, MediaSlots DEF AtSched
  <2>9. Addressed'
    BY <2>1, <2>8 DEF AllocInv, Addressed, Tokens, PlacedLive, Placed
  <2> QED BY <2>4, <2>5, <2>7, <2>9 DEF AllocInv
<1> QED BY <1>1, <1>2, <1>3

\* A device is reserved for the next medium of the request.
LEMMA SelectKeeps ==
    ASSUME AllocInv, Inv', NEW d \in Devices, AllocSelect(d)
    PROVE  AllocInv'
<1> USE DEF queues, budget
<1>t. /\ reqc \in [Requests -> Containers] /\ dev \in [Devices -> DeviceStates]
      /\ sched \in SchedPositions
  BY InvTypes
<1>0. sched.pc = "alloc" /\ sched.r \in Requests
  BY <1>t, InvTypes DEF AllocSelect, WorkStates, SchedPositions
<1>1. PICK r \in Requests, i \in Slots : r = sched.r /\ i = sched.i /\ i \in Media(r)
  BY <1>t, <1>0, RequestAssumption, BoundAssumption
  DEF AllocSelect, SchedPositions, Media, Slots
<1>2. /\ UNCHANGED <<client, main, incoming, ioSched, retry, resp>>
      /\ sched'.pc = "alloc" /\ sched'.r = r /\ sched'.i = i + 1
      /\ dev' = [dev EXCEPT ![d] = [dev[d] EXCEPT !.scheduled = TRUE]]
      /\ reqc' = [reqc EXCEPT ![r].devs[i] = d]
  BY <1>t, <1>0, <1>1 DEF AllocSelect, SetDev, SchedPositions
<1>3. dev[d].sub = NoSub /\ ~dev[d].scheduled
  BY DEF AllocSelect, SchedReady
<1>4. /\ \A e \in Devices : dev'[e].sub = dev[e].sub
      /\ \A e \in Devices : e # d => dev'[e] = dev[e]
      /\ dev'[d].scheduled
  BY <1>t, <1>2 DEF DeviceStates
<1>5. /\ \A q \in Requests : SameLife(reqc[q], reqc'[q])
      /\ \A j \in Slots : reqc'[r].devs[j] = IF j = i THEN d ELSE reqc[r].devs[j]
  <2>1. i \in Slots
    BY MediaSlots
  <2> QED BY <1>t, <1>2, <2>1 DEF SameLife, Containers
<1>6. \A q \in Requests, j \in Slots : Stay(q, j)
  BY <1>0, <1>1, <1>2, <1>4 DEF Stay, OnDevice, AtRetry, AtSched
<1>7. Tokens'
  BY <1>2, <1>5, <1>6, KeepTokens DEF AllocInv
<1>8. Queued'
  BY <1>0, <1>1, <1>2, <1>5, InvTypes DEF AllocInv, Queued, SameLife
<1>9. Reserved'
  <2>1. Reserving(r)' = Reserving(r) \cup {i} /\ Reserving(sched.r)' = Reserving(r) \cup {i}
    BY <1>0, <1>1, <1>2, RequestAssumption, BoundAssumption DEF Reserving, Media, Slots
  <2>2. i \notin Reserving(r) /\ Reserving(r) \subseteq Slots
    BY <1>0, <1>1, MediaSlots, RequestAssumption, BoundAssumption DEF Reserving, Media, Slots
  <2>3. \A j \in Reserving(r) :
          /\ reqc'[r].devs[j] = reqc[r].devs[j] /\ reqc[r].devs[j] \in Devices
          /\ dev[reqc[r].devs[j]].scheduled /\ dev[reqc[r].devs[j]].sub = NoSub
          /\ reqc[r].devs[j] # d
    BY <1>1, <1>3, <1>5, <2>2 DEF AllocInv, Reserved
  <2>4. \A j, k \in Reserving(r) : reqc[r].devs[j] = reqc[r].devs[k] => j = k
    BY <1>1 DEF AllocInv, Reserved
  <2>5. i \in Slots /\ reqc'[r].devs[i] = d
    BY <1>5, MediaSlots
  <2>6. \A j \in Reserving(r) \cup {i} :
          LET e == reqc'[r].devs[j]
          IN  e \in Devices /\ dev'[e].scheduled /\ dev'[e].sub = NoSub
    BY <1>3, <1>4, <2>3, <2>5
  <2>7. \A j, k \in Reserving(r) \cup {i} : reqc'[r].devs[j] = reqc'[r].devs[k] => j = k
    BY <2>3, <2>4, <2>5
  <2> QED BY <1>2, <2>1, <2>6, <2>7 DEF Reserved
<1>10. Addressed'
  BY <1>1, <1>2 DEF AllocInv, Addressed
<1> QED BY <1>7, <1>8, <1>9, <1>10 DEF AllocInv

\* Giving devices back changes no sub-request.
LEMMA UnscheduledFields ==
    ASSUME NEW D, NEW d \in Devices, dev[d] \in DeviceStates
    PROVE  Unscheduled(D)[d].sub = dev[d].sub
BY DEF Unscheduled, DeviceStates

\* publish_or_cancel without a full set of devices
LEMMA CancelKeeps ==
    ASSUME AllocInv, Inv', AllocAgain \/ AllocFatal
    PROVE  AllocInv'
<1> USE DEF queues, budget
<1>t. dev \in [Devices -> DeviceStates] /\ sched \in SchedPositions
  BY InvTypes
<1>0. sched.pc = "alloc" /\ sched.r \in Requests
  BY <1>t, InvTypes DEF AllocAgain, AllocFatal, WorkStates, SchedPositions
<1>1. PICK r \in Requests : r = sched.r
  BY <1>0
<1>2. /\ r \in ioSched /\ r \notin incoming
      /\ UNCHANGED <<incoming, retry, client, main>>
      /\ sched'.pc = "top" /\ sched'.r = NoReq
  BY <1>t, <1>0, <1>1 DEF AllocInv, Queued, AllocAgain, AllocFatal, BackToTop, SchedPositions
<1>3. \A e \in Devices : dev'[e].sub = dev[e].sub
  <2>1. dev' = dev \/ dev' = Unscheduled(Selected(r))
    BY <1>1 DEF AllocAgain, AllocFatal
  <2> QED BY <1>t, <2>1, UnscheduledFields
<1>4. CASE AllocAgain /\ running
  <2>1. UNCHANGED <<ioSched, resp, reqc>>
    BY <1>4 DEF AllocAgain
  <2>2. \A q \in Requests, j \in Slots : Stay(q, j)
    BY <1>0, <1>2, <1>3, <2>1, InvTypes DEF Stay, OnDevice, AtRetry, AtSched
  <2>3. \A q \in Requests : SameLife(reqc[q], reqc'[q])
    BY <2>1 DEF SameLife
  <2>4. Tokens'
    BY <1>2, <2>1, <2>2, <2>3, KeepTokens DEF AllocInv
  <2>5. Queued'
    BY <1>2, <2>1, InvTypes DEF AllocInv, Queued
  <2>6. Reserved' /\ Addressed'
    BY <1>2, <2>1, InvTypes DEF AllocInv, Reserved, Addressed
  <2> QED BY <2>4, <2>5, <2>6 DEF AllocInv
<1>5. CASE AllocFatal \/ (AllocAgain /\ ~running)
  <2>1. /\ ioSched' = ioSched \ {r} /\ resp' = resp \cup {<<r, "error">>}
        /\ reqc' = [reqc EXCEPT ![r] = Freed(WithError(@))]
    BY <1>1, <1>5 DEF AllocAgain, AllocFatal
  <2>2. incoming' = incoming \ {r} /\ sched.r \in {r, NoReq}
    BY <1>1, <1>2
  <2> QED BY <1>2, <1>3, <2>1, <2>2, SchedRefuses
<1> QED BY <1>4, <1>5

\* publish_or_cancel with a device for each medium
LEMMA PublishKeeps ==
    ASSUME AllocInv, Inv', Publish
    PROVE  AllocInv'
<1> USE DEF queues, budget
<1>t. sched \in SchedPositions
  BY InvTypes
<1>0. sched.pc = "alloc" /\ sched.r \in Requests /\ sched.i > NMedia[sched.r]
  BY <1>t, InvTypes DEF Publish, WorkStates, SchedPositions
<1>1. PICK r \in Requests : r = sched.r
  BY <1>0
<1>2. /\ UNCHANGED <<reqc, dev, client, main, incoming, retry, resp>>
      /\ r \in ioSched /\ r \notin incoming /\ ioSched' = ioSched \ {r}
      /\ sched'.pc = "store" /\ sched'.r = r /\ sched'.i = 1
  BY <1>t, <1>0, <1>1 DEF Publish, SchedPositions, AllocInv, Queued
<1>3. \A q \in Requests, j \in Slots : Stay(q, j)
  BY <1>0, <1>1, <1>2 DEF Stay, OnDevice, AtRetry, AtSched, Slots
<1>4. \A q \in Requests : SameLife(reqc[q], reqc'[q])
  BY <1>2 DEF SameLife
<1>5. Tokens'
  BY <1>2, <1>3, <1>4, KeepTokens DEF AllocInv
<1>6. Queued'
  BY <1>0, <1>1, <1>2 DEF AllocInv, Queued
<1>7. Reserved'
  <2>1. Reserving(r) = Media(r) /\ Reserving(r)' = Media(r) /\ Reserving(sched.r)' = Media(r)
    BY <1>t, <1>0, <1>1, <1>2, RequestAssumption, BoundAssumption
    DEF Reserving, Media, Slots, SchedPositions
  <2> QED BY <1>1, <1>2, <2>1 DEF AllocInv, Reserved
<1>8. Addressed'
  BY <1>1, <1>2 DEF AllocInv, Addressed
<1> QED BY <1>5, <1>6, <1>7, <1>8 DEF AllocInv

\* push_sub_request_to_device, first half: the device gets the sub-request.
LEMMA PushStoreKeeps ==
    ASSUME AllocInv, Inv', PushStore
    PROVE  AllocInv'
<1> USE DEF queues, budget
<1>t. dev \in [Devices -> DeviceStates] /\ sched \in SchedPositions
  BY InvTypes
<1>0. sched.pc = "store" /\ sched.r \in Requests
  BY <1>t, InvTypes DEF PushStore, WorkStates, SchedPositions
<1>1. PICK r \in Requests, i \in Slots : r = sched.r /\ i = sched.i /\ i \in Media(r)
  BY <1>0, MediaSlots DEF AllocInv, Inv, Progress
<1>2. i \in Reserving(r) /\ Reserving(r) = {j \in Media(r) : j >= i}
  BY <1>0, <1>1, RequestAssumption, BoundAssumption DEF Reserving, Media, Slots
<1>3. PICK d \in Devices : d = reqc[r].devs[i] /\ dev[d].sub = NoSub
  BY <1>1, <1>2 DEF AllocInv, Reserved
<1>4. /\ UNCHANGED <<reqc, client, main, incoming, ioSched, retry, resp>>
      /\ sched'.pc = "clear" /\ sched'.r = r /\ sched'.i = i
      /\ dev' = [dev EXCEPT ![d] = [dev[d] EXCEPT !.sub = <<r, i>>]]
  BY <1>t, <1>1, <1>3 DEF PushStore, SetDev, GotoSched, SchedPositions
<1>5. \A e \in Devices : /\ dev'[e].sub = IF e = d THEN <<r, i>> ELSE dev[e].sub
                         /\ dev'[e].scheduled = dev[e].scheduled
  BY <1>t, <1>4 DEF DeviceStates
<1>6. AtSched(r, i) /\ Placed(r, i) /\ Once(r, i)
  BY <1>0, <1>1 DEF AtSched, Placed, AllocInv, Tokens, PlacedOnce, Slots
<1>7. r \notin incoming \cup ioSched
  BY <1>0, <1>1 DEF AllocInv, Queued
<1>8. Placed(r, i)' /\ Once(r, i)'
  BY <1>1, <1>4, <1>5, <1>6, <1>7 DEF Placed, Once, OnDevice, AtRetry, AtSched, Slots
<1>9. ASSUME NEW q \in Requests, NEW j \in Slots, q # r \/ j # i PROVE Stay(q, j)
  <2>1. \A e \in Devices : OnDevice(e, q, j)' <=> OnDevice(e, q, j)
    BY <1>3, <1>5, <1>9, NoneAssumption DEF OnDevice
  <2>2. AtRetry(q, j)' <=> AtRetry(q, j)
    BY <1>4 DEF AtRetry
  <2>3. j >= i /\ j # i <=> j > i
    BY BoundAssumption DEF Slots
  <2>4. AtSched(q, j)' <=> AtSched(q, j)
    BY <1>0, <1>1, <1>4, <1>9, <2>3 DEF AtSched
  <2> QED BY <2>1, <2>2, <2>4 DEF Stay
<1>10. \A q \in Requests : SameLife(reqc[q], reqc'[q])
  BY <1>4 DEF SameLife
<1>11. Tokens'
  BY <1>1, <1>4, <1>6, <1>8, <1>9, <1>10, KeepTokens DEF AllocInv
<1>12. Queued'
  BY <1>4, <1>7 DEF AllocInv, Queued
<1>13. Reserved'
  <2>1. /\ Reserving(r)' = {j \in Media(r) : j > i} /\ Reserving(sched.r)' = Reserving(r)'
        /\ \A j \in Reserving(r)' : j \in Reserving(r) /\ j # i
    BY <1>1, <1>2, <1>4, RequestAssumption, BoundAssumption DEF Reserving, Media, Slots
  <2>2. \A j, k \in Reserving(r) : reqc[r].devs[j] = reqc[r].devs[k] => j = k
    BY <1>1 DEF AllocInv, Reserved
  <2>3. \A j \in Reserving(r)' : reqc[r].devs[j] # d
    BY <1>2, <1>3, <2>1, <2>2
  <2>4. \A j \in Reserving(r) : /\ reqc[r].devs[j] \in Devices /\ dev[reqc[r].devs[j]].scheduled
                                /\ dev[reqc[r].devs[j]].sub = NoSub
    BY <1>1 DEF AllocInv, Reserved
  <2>5. \A j \in Reserving(r)' :
          /\ reqc'[r].devs[j] \in Devices /\ dev'[reqc'[r].devs[j]].scheduled
          /\ dev'[reqc'[r].devs[j]].sub = NoSub
    BY <1>4, <1>5, <2>1, <2>3, <2>4
  <2> QED BY <1>3, <1>4, <2>1, <2>2, <2>3, <2>5 DEF Reserved
<1>14. Addressed'
  BY <1>1, <1>4 DEF AllocInv, Addressed
<1> QED BY <1>11, <1>12, <1>13, <1>14 DEF AllocInv

\* Second half: its reservation is cleared, and the next medium follows.
LEMMA PushClearKeeps ==
    ASSUME AllocInv, Inv', PushClear
    PROVE  AllocInv'
<1> USE DEF queues, budget
<1>t. /\ reqc \in [Requests -> Containers] /\ dev \in [Devices -> DeviceStates]
      /\ sched \in SchedPositions
  BY InvTypes
<1>0. sched.pc = "clear" /\ sched.r \in Requests
  BY <1>t, InvTypes DEF PushClear, WorkStates, SchedPositions
<1>1. PICK r \in Requests, i \in Slots : r = sched.r /\ i = sched.i /\ i \in Media(r)
  BY <1>0, MediaSlots DEF AllocInv, Inv, Progress
<1>2. PICK d \in Devices : d = reqc[r].devs[i]
  <2>1. reqc[r].devs[i] \in Devices \cup {NoDev}
    BY <1>t DEF Containers
  <2> QED BY <1>1, <2>1 DEF PushClear
<1>3. /\ UNCHANGED <<reqc, client, main, incoming, ioSched, retry, resp>>
      /\ dev' = [dev EXCEPT ![d] = [dev[d] EXCEPT !.scheduled = FALSE]]
  BY <1>1, <1>2 DEF PushClear, SetDev
<1>4. /\ \A e \in Devices : dev'[e].sub = dev[e].sub
      /\ \A e \in Devices : e # d => dev'[e] = dev[e]
  BY <1>t, <1>3 DEF DeviceStates
<1>5. \A q \in Requests : SameLife(reqc[q], reqc'[q])
  BY <1>3 DEF SameLife
<1>6. r \notin incoming \cup ioSched
  BY <1>0, <1>1 DEF AllocInv, Queued
<1>7. CASE i = NMedia[r]
  <2>1. sched'.pc = "top" /\ sched'.r = NoReq
    BY <1>t, <1>1, <1>7 DEF PushClear, BackToTop, SchedPositions
  <2>2. \A q \in Requests, j \in Slots : Stay(q, j) \/ (j \notin Media(q) /\ StayBelow(q, j))
    BY <1>0, <1>1, <1>3, <1>4, <1>7, <2>1, InvTypes, RequestAssumption, BoundAssumption
    DEF Stay, StayBelow, OnDevice, AtRetry, AtSched, Slots, Media
  <2>3. Tokens'
    BY <1>3, <1>5, <2>2, KeepTokens DEF AllocInv
  <2>4. Queued'
    BY <1>3, <2>1, InvTypes DEF AllocInv, Queued
  <2>5. Reserved' /\ Addressed'
    BY <1>3, <2>1, InvTypes DEF AllocInv, Reserved, Addressed
  <2> QED BY <2>3, <2>4, <2>5 DEF AllocInv
<1>8. CASE i # NMedia[r]
  <2>1. sched'.pc = "store" /\ sched'.r = r /\ sched'.i = i + 1
    BY <1>t, <1>1, <1>8 DEF PushClear, SchedPositions
  <2>2. \A q \in Requests, j \in Slots : Stay(q, j)
    BY <1>0, <1>1, <1>3, <1>4, <2>1 DEF Stay, OnDevice, AtRetry, AtSched, Slots
  <2>3. Tokens'
    BY <1>3, <1>5, <2>2, KeepTokens DEF AllocInv
  <2>4. Queued'
    BY <1>3, <1>6, <2>1 DEF AllocInv, Queued
  <2>5. Reserved'
    <3>1. Reserving(r)' = Reserving(r) /\ Reserving(sched.r)' = Reserving(r)
      BY <1>0, <1>1, <2>1, RequestAssumption, BoundAssumption DEF Reserving, Media, Slots
    <3>2. \A j \in Reserving(r) : reqc[r].devs[j] # d
      BY <1>0, <1>1, <1>2 DEF AllocInv, Reserved
    <3>3. \A j \in Reserving(r) : /\ reqc[r].devs[j] \in Devices /\ dev[reqc[r].devs[j]].scheduled
                                  /\ dev[reqc[r].devs[j]].sub = NoSub
      BY <1>1 DEF AllocInv, Reserved
    <3>4. \A j, k \in Reserving(r) : reqc[r].devs[j] = reqc[r].devs[k] => j = k
      BY <1>1 DEF AllocInv, Reserved
    <3> QED BY <1>3, <1>4, <2>1, <3>1, <3>2, <3>3, <3>4 DEF Reserved
  <2>6. Addressed'
    BY <1>1, <1>3, <2>1 DEF AllocInv, Addressed
  <2> QED BY <2>3, <2>4, <2>5, <2>6 DEF AllocInv
<1> QED BY <1>7, <1>8
-----------------------------------------------------------------------------
LEMMA InitAlloc == Init => AllocInv
<1> SUFFICES ASSUME Init PROVE AllocInv
  OBVIOUS
<1>1. Inv
  BY InitInv
<1>2. \A r \in Requests, i \in Slots : /\ \A d \in Devices : ~OnDevice(d, r, i)
                                       /\ ~AtRetry(r, i) /\ ~AtSched(r, i)
  BY NoneAssumption DEF Init, OnDevice, AtRetry, AtSched
<1>3. \A r \in Requests : \A i \in Media(r) : ~Placed(r, i) /\ Once(r, i)
  BY <1>2, MediaSlots DEF Placed, Once
<1>4. \A r \in Requests :
        /\ reqc[r].frees = 0 /\ reqc[r].answers = 0 /\ ~reqc[r].err
        /\ \A i \in Slots : reqc[r].status[i] = "todo"
  BY DEF Init, NewReqc
<1>5. \A r \in Requests : client[r] = "idle"
  BY DEF Init
<1>6. PlacedLive /\ PlacedOnce
  BY <1>2, <1>3 DEF PlacedLive, PlacedOnce
<1>7. TodoPlaced
  BY <1>5 DEF TodoPlaced
<1>8. AnsweredOnce
  BY <1>4, MediaSlots DEF AnsweredOnce
<1>9. Queued /\ Reserved /\ Addressed
  BY NoneAssumption DEF Init, Queued, Reserved, Addressed
<1> QED BY <1>1, <1>6, <1>7, <1>8, <1>9 DEF AllocInv, Tokens

\* AllocInv is inductive.
LEMMA AllocNext == AllocInv /\ [Next]_vars => AllocInv'
<1> SUFFICES ASSUME AllocInv, [Next]_vars PROVE AllocInv'
  OBVIOUS
<1>0. Inv'
  BY NextInv DEF AllocInv
<1>1. CASE Scheduler
  BY <1>0, <1>1, BetweenQueues, RetryKeeps, RetryPushKeeps, QueueKeeps, SelectKeeps,
     CancelKeeps, PublishKeeps, PushStoreKeeps, PushClearKeeps DEF Scheduler
<1>2. CASE \E d \in Devices : Device(d)
  BY <1>0, <1>2, DeviceKeeps
<1>3. CASE Terminated \/ UNCHANGED vars
  <2>1. UNCHANGED vars
    BY <1>3 DEF Terminated
  <2> QED BY <1>0, <2>1, QuietInv DEF vars
<1> QED BY <1>0, <1>1, <1>2, <1>3, MainKeeps DEF Next

\* A container that was freed is known nowhere.
LEMMA FreedUnknown == AllocInv => EndsOnce
<1> SUFFICES ASSUME AllocInv PROVE OneAnswer /\ FreedOnce
  BY DEF EndsOnce
<1>1. OneAnswer
  BY DEF AllocInv, Tokens, AnsweredOnce, OneAnswer
<1>2. ASSUME NEW r \in Requests, reqc[r].frees > 0
      PROVE  /\ reqc[r].frees = 1
             /\ r \notin incoming \cup ioSched /\ ~InHand(r)
             /\ \A i \in Slots : /\ <<r, i>> \notin retry
                                 /\ \A d \in Devices : dev[d].sub # <<r, i>>
  <2>1. reqc[r] \in Containers
    BY InvTypes
  <2>2. reqc[r].frees = 1
    BY <1>2, <2>1 DEF AllocInv, Tokens, AnsweredOnce, Containers
  <2>3. \A i \in Media(r) : ~Placed(r, i)
    BY <2>2 DEF AllocInv, Tokens, PlacedLive
  <2>4. \A i \in Slots : /\ ~AtRetry(r, i) /\ \A d \in Devices : ~OnDevice(d, r, i)
    BY <2>3 DEF AllocInv, Tokens, PlacedLive, Placed
  <2>5. \A i \in Media(r) : ~AtSched(r, i)
    BY <2>3 DEF Placed
  <2>6. r \notin incoming \cup ioSched
    BY <2>5, MediaSlots DEF AtSched
  <2>7. ~InHand(r)
    <3>1. SUFFICES ASSUME InHand(r) PROVE FALSE
      OBVIOUS
    <3>2. CASE sched.pc = "alloc"
      BY <2>6, <3>1, <3>2 DEF InHand, AllocInv, Queued
    <3>3. CASE sched.pc \in {"store", "repush"}
      <4>1. sched.i \in Media(r) /\ sched.r = r
        BY <3>1, <3>3 DEF InHand, AllocInv, Queued, Inv, Progress
      <4>2. sched.i \in Nat
        BY <4>1, RequestAssumption DEF Media, Slots
      <4> QED BY <2>5, <3>3, <4>1, <4>2 DEF AtSched
    <3> QED BY <3>1, <3>2, <3>3 DEF InHand
  <2> QED BY <2>2, <2>4, <2>6, <2>7 DEF OnDevice, AtRetry
<1> QED BY <1>1, <1>2 DEF FreedOnce

\* handle_rwalloc_sub_request_result, sched_handle_error and the refusals of
\* the communication thread and of the scheduler, each of which may be the
\* last to know a request, answer it at most once and free its container at
\* most once, when nothing refers to it any more.
THEOREM AllocEndsOnce == Spec => []EndsOnce
BY FreedUnknown, InitAlloc, AllocNext, PTL DEF Spec

\* On its way between the scheduler, the devices and the retry queue, through
\* failed mounts, retries, dying devices and cancellations, a sub-request that
\* is not ended is in exactly one place, and an ended one in none.
THEOREM AllocNothingLost == Spec => []NothingLost
<1>1. AllocInv => NothingLost
  <2> SUFFICES ASSUME AllocInv, NEW r \in Requests, NEW i \in Slots,
                      main # "end", client[r] # "idle", reqc[r].frees = 0, i \in Media(r)
               PROVE  IF reqc[r].status[i] = "todo"
                      THEN \E p \in Devices \cup {"retry", "sched"} : Places(r, i) = {p}
                      ELSE Places(r, i) = {}
    BY DEF NothingLost
  <2>1. Places(r, i) = {d \in Devices : OnDevice(d, r, i)}
                          \cup (IF AtRetry(r, i) THEN {"retry"} ELSE {})
                          \cup (IF AtSched(r, i) THEN {"sched"} ELSE {})
    BY DEF Places, OnDevice, AtRetry, AtSched
  <2>2. Once(r, i)
    BY DEF AllocInv, Tokens, PlacedOnce
  <2>3. CASE reqc[r].status[i] = "todo"
    <3>1. Placed(r, i)
      BY <2>3 DEF AllocInv, Tokens, TodoPlaced
    <3>2. ASSUME NEW d \in Devices, OnDevice(d, r, i) PROVE Places(r, i) = {d}
      BY <2>1, <2>2, <3>2 DEF Once
    <3>3. ASSUME AtRetry(r, i) PROVE Places(r, i) = {"retry"}
      BY <2>1, <2>2, <3>3 DEF Once
    <3>4. ASSUME AtSched(r, i) PROVE Places(r, i) = {"sched"}
      BY <2>1, <2>2, <3>4 DEF Once
    <3> QED BY <2>3, <3>1, <3>2, <3>3, <3>4 DEF Placed
  <2>4. CASE reqc[r].status[i] # "todo"
    <3>1. ~Placed(r, i)
      BY <2>4 DEF AllocInv, Tokens, PlacedLive
    <3>2. Places(r, i) = {}
      BY <2>1, <3>1 DEF Placed
    <3> QED BY <2>4, <3>2
  <2> QED BY <2>3, <2>4
<1> QED BY <1>1, InitAlloc, AllocNext, PTL DEF Spec
-----------------------------------------------------------------------------
(***************************************************************************)
(* LrsAlloc implements AllocPromise when a device serves one request at a  *)
(* time (nb_max_parallel_io = 1), for any requests, devices and bounds,    *)
(* even when several requests come from one connection.                    *)
(*                                                                         *)
(* ld_ongoing_io names connections, not requests: the argument gives every *)
(* I/O of a device back to the request it was registered for (Holder), and *)
(* shows that a device with a sub-request or a reservation has no I/O.     *)
(***************************************************************************)

\* Device d was mounted for medium i of r, and r may still be granted it.
Holder(r, i, d) ==
    /\ reqc[r].status[i] = "done" /\ reqc[r].devs[i] = d /\ ~reqc[r].err
    /\ Served(r) \/ client[r] \in {"granted", "inherited"}

\* The client of r is there, and no earlier request under its number is
\* mistaken for r.
Own(r) == r \notin heirs /\ client[r] \notin {"gone", "inherited"}

\* The I/O of a device are those of the requests that hold it, and a request
\* whose key is its own holds it alone.
HolderIo ==
    \A r \in Requests, d \in Devices : \A i \in Media(r) :
        Holder(r, i, d) /\ Own(r) => Sock[r] \in dev[d].io
IoHeld ==
    \A d \in Devices : \A s \in dev[d].io :
        \E r \in Requests : \E i \in Media(r) : Sock[r] = s /\ Holder(r, i, d)
OneHolder ==
    \A r, q \in Requests, d \in Devices : \A i \in Media(r), j \in Media(q) :
        Holder(r, i, d) /\ Holder(q, j, d) /\ Own(r) /\ Own(q)
            => r = q /\ i = j
OneIo == \A d \in Devices : \A s, t \in dev[d].io : s = t
Holding == HolderIo /\ IoHeld /\ OneHolder /\ OneIo

\* A device that mounts a medium, is about to, or has failed has no I/O; its
\* sub-request is for the medium that was allocated to it.
DeadIdle == \A d \in Devices : dev[d].state \in {"dying", "ended"} => dev[d].io = {}
BusyIdle == \A d \in Devices : dev[d].sub # NoSub => dev[d].io = {}
ReservedIdle ==
    sched.r \in Requests =>
        \A j \in Reserving(sched.r) : dev[reqc[sched.r].devs[j]].io = {}
SubDev ==
    \A d \in Devices, r \in Requests, i \in Slots :
        dev[d].sub = <<r, i>> => reqc[r].devs[i] = d
Idleness == DeadIdle /\ BusyIdle /\ ReservedIdle /\ SubDev

\* All the media of r were mounted.
AllDone(r) ==
    /\ ~reqc[r].err /\ reqc[r].frees = 1
    /\ \A i \in Media(r) : reqc[r].status[i] = "done"

\* Where the answer of r is: not made, in the response queue, or sent.
AnswerOf(r) ==
    /\ reqc[r].answers = 0 => client[r] \in {"idle", "waiting", "gone"}
    /\ \A k \in {"ok", "error"} : <<r, k>> \in resp =>
          client[r] \in {"waiting", "gone"} /\ reqc[r].answers = 1
    /\ ~(<<r, "ok">> \in resp /\ <<r, "error">> \in resp)
    /\ <<r, "ok">> \in resp \/ client[r] \in {"granted", "inherited"} => AllDone(r)
    /\ \A i \in Media(r) : reqc[r].status[i] = "done" => reqc[r].devs[i] \in Devices
    /\ reqc[r].frees = 0 /\ ~reqc[r].err =>
          \A i \in Media(r) : reqc[r].status[i] \in {"todo", "done"}
Answers == \A r \in Requests : AnswerOf(r)

\* A request under the number of a client that left, while that one is still
\* served, is an heir; and those of one client all are, or none of them.
HeirSock ==
    \A r, q \in Requests :
        client[r] = "gone" /\ Served(r) /\ Sock[q] = Sock[r]
        /\ client[q] \in {"waiting", "granted"} => q \in heirs
Kin ==
    \A r, q \in Requests :
        Sock[q] = Sock[r] /\ client[r] \in {"waiting", "granted"}
        /\ client[q] \in {"waiting", "granted"} => (r \in heirs <=> q \in heirs)
NoIdleHeir == \A r \in Requests : client[r] = "idle" => r \notin heirs
Sharing == HeirSock /\ Kin /\ NoIdleHeir

IoInv == AllocInv /\ Holding /\ Idleness /\ Answers /\ Sharing
-----------------------------------------------------------------------------
\* Steps that mount no medium: what is withdrawn from the devices is what no
\* request holds any more.
LEMMA KeepHolding ==
    ASSUME Holding,
           \A r \in Requests, d \in Devices : \A i \in Media(r) :
              /\ Holder(r, i, d)' => Holder(r, i, d)
              /\ Holder(r, i, d)' /\ Own(r)' /\ Sock[r] \in dev[d].io
                    => Sock[r] \in dev'[d].io
              /\ Holder(r, i, d) /\ Sock[r] \in dev'[d].io => Holder(r, i, d)',
           \A r \in Requests : Own(r)' => Own(r),
           \A d \in Devices : dev'[d].io \subseteq dev[d].io
    PROVE  Holding'
<1>1. \A r \in Requests, d \in Devices : \A i \in Media(r) :
         Holder(r, i, d)' /\ Own(r)' => Sock[r] \in dev'[d].io
  BY DEF Holding, HolderIo
<1>2. ASSUME NEW d \in Devices, NEW s \in dev'[d].io
      PROVE  \E r \in Requests : \E i \in Media(r) : Sock[r] = s /\ Holder(r, i, d)'
  <2>1. s \in dev[d].io
    BY <1>2
  <2>2. PICK r \in Requests : \E i \in Media(r) : Sock[r] = s /\ Holder(r, i, d)
    BY <2>1 DEF Holding, IoHeld
  <2>3. PICK i \in Media(r) : Sock[r] = s /\ Holder(r, i, d)
    BY <2>2
  <2> QED BY <1>2, <2>3
<1>3. \A r, q \in Requests, d \in Devices : \A i \in Media(r), j \in Media(q) :
        Holder(r, i, d)' /\ Holder(q, j, d)' /\ Own(r)' /\ Own(q)'
            => r = q /\ i = j
  BY DEF Holding, OneHolder
<1>4. \A d \in Devices : \A s, t \in dev'[d].io : s = t
  BY DEF Holding, OneIo
<1>5. HolderIo' /\ IoHeld' /\ OneHolder' /\ OneIo'
  BY <1>1, <1>2, <1>3, <1>4 DEF HolderIo, IoHeld, OneHolder, OneIo, Media
<1> QED BY <1>5 DEF Holding

\* The media of r that were mounted are the same.
SameDone(r) ==
    \A i \in Media(r) :
        /\ reqc'[r].status[i] = "done" <=> reqc[r].status[i] = "done"
        /\ reqc[r].status[i] = "done" => reqc'[r].devs[i] = reqc[r].devs[i]

\* r holds the same devices.
SameHolder(r) ==
    \A i \in Media(r), d \in Devices : Holder(r, i, d)' <=> Holder(r, i, d)

LEMMA HolderFrame ==
    ASSUME NEW r \in Requests, SameDone(r), reqc'[r].err <=> reqc[r].err,
           reqc'[r].frees = reqc[r].frees,
           <<r, "ok">> \in resp' <=> <<r, "ok">> \in resp,
           client'[r] \in {"granted", "inherited"} <=> client[r] \in {"granted", "inherited"}
    PROVE  SameHolder(r)
BY DEF SameDone, SameHolder, Holder, Served

\* Clients come and go one at a time, and no request is served anew.
LEMMA KeepSharing ==
    ASSUME Sharing, heirs' = heirs,
           \A r \in Requests : Served(r)' => Served(r),
           \A r \in Requests :
              /\ client'[r] = "gone" => client[r] = "gone"
              /\ client'[r] \in {"waiting", "granted"} => client[r] \in {"waiting", "granted"}
              /\ client'[r] = "idle" => client[r] = "idle"
    PROVE  Sharing'
BY DEF Sharing, HeirSock, Kin, NoIdleHeir

\* No holder changes, nor do the I/O.
LEMMA CalmHolding ==
    ASSUME Holding, \A r \in Requests : SameHolder(r),
           \A r \in Requests : Own(r)' => Own(r),
           \A d \in Devices : dev'[d].io = dev[d].io
    PROVE  Holding'
<1>1. \A r \in Requests, d \in Devices : \A i \in Media(r) : Holder(r, i, d)' <=> Holder(r, i, d)
  BY DEF SameHolder
<1> HIDE DEF Holding
<1> QED BY <1>1, KeepHolding

\* The client of a request that holds a device waits, has it or is gone.
LEMMA HolderClient ==
    ASSUME IoInv, NEW r \in Requests, NEW i \in Media(r), NEW d, Holder(r, i, d)
    PROVE  client[r] \in {"waiting", "granted", "gone", "inherited"}
<1>1. AnswerOf(r)
  BY DEF IoInv, Answers
<1>2. reqc[r].frees = 0 => reqc[r].answers = 0
  BY DEF Holder, IoInv, AllocInv, Tokens, AnsweredOnce
<1>3. reqc[r].status[i] # "todo"
  BY DEF Holder
<1>4. client[r] # "idle"
  BY <1>3 DEF IoInv, AllocInv, Tokens, AnsweredOnce
<1> QED BY <1>1, <1>2, <1>4 DEF AnswerOf, Holder, Served

\* The devices that r holds.
Held(r) == {d \in Devices : \E i \in Media(r) : Holder(r, i, d)}

\* r gives its devices up: dev_clean_io withdraws its I/O from them, and from
\* no other request.
LEMMA DropHolding ==
    ASSUME IoInv, NEW r \in Requests,
           \A q \in Requests : q # r => SameHolder(q) /\ client'[q] = client[q],
           \A i \in Media(r), d \in Devices : ~Holder(r, i, d)',
           client[r] # "inherited", client[r] = "gone" => client'[r] = "gone",
           heirs' = heirs,
           \A d \in Devices : dev'[d].io = IF d \in Held(r) THEN dev[d].io \ {Sock[r]}
                                           ELSE dev[d].io
    PROVE  Holding'
<1>1. ASSUME NEW q \in Requests, NEW d \in Devices, NEW j \in Media(q)
      PROVE  /\ Holder(q, j, d)' => Holder(q, j, d)
             /\ Holder(q, j, d)' /\ Own(q)' /\ Sock[q] \in dev[d].io
                   => Sock[q] \in dev'[d].io
             /\ Holder(q, j, d) /\ Sock[q] \in dev'[d].io => Holder(q, j, d)'
  <2>1. CASE q = r
    BY <1>1, <2>1 DEF Held
  <2>2. CASE q # r
    <3>1. Holder(q, j, d)' <=> Holder(q, j, d)
      BY <1>1, <2>2 DEF SameHolder
    <3>2. ASSUME Holder(q, j, d), Own(q), d \in Held(r) PROVE Sock[q] # Sock[r]
      <4>1. PICK i \in Media(r) : Holder(r, i, d)
        BY <3>2 DEF Held
      <4>2. ~Own(r)
        BY <1>1, <2>2, <3>2, <4>1 DEF IoInv, Holding, OneHolder
      <4>3. client[q] \in {"waiting", "granted"} /\ q \notin heirs
        BY <1>1, <3>2, HolderClient DEF Own
      <4>4. client[r] \in {"waiting", "granted", "gone"}
        BY <4>1, HolderClient
      <4>5. client[r] = "gone" \/ (client[r] \in {"waiting", "granted"} /\ r \in heirs)
        BY <4>2, <4>4 DEF Own
      <4>6. client[r] = "gone" => Served(r)
        BY <4>1 DEF Holder
      <4> QED BY <4>3, <4>5, <4>6 DEF IoInv, Sharing, HeirSock, Kin
    <3>3. Own(q)' <=> Own(q)
      BY <1>1, <2>2 DEF Own
    <3> QED BY <2>2, <3>1, <3>2, <3>3
  <2> QED BY <2>1, <2>2
<1>2. \A q \in Requests : Own(q)' => Own(q)
  BY DEF Own
<1>3. \A d \in Devices : dev'[d].io \subseteq dev[d].io
  OBVIOUS
<1> QED BY <1>1, <1>2, <1>3, KeepHolding DEF IoInv
-----------------------------------------------------------------------------
\* Steps that give no sub-request and no reservation to a device.
LEMMA KeepIdleness ==
    ASSUME IoInv, UNCHANGED <<sched.r, sched.pc, sched.i>>,
           \A e \in Devices :
              /\ dev'[e].io \subseteq dev[e].io
              /\ dev'[e].state \in {"dying", "ended"}
                    => dev[e].state \in {"dying", "ended"} \/ dev[e].io = {}
              /\ dev'[e].sub \in {dev[e].sub, NoSub},
           \A q \in Requests, j \in Slots :
              reqc[q].status[j] = "todo" => reqc'[q].devs[j] = reqc[q].devs[j]
    PROVE  Idleness'
<1>1. \A e \in Devices : dev[e].io = {} => dev'[e].io = {}
  OBVIOUS
<1>2. DeadIdle'
  BY <1>1 DEF IoInv, Idleness, DeadIdle
<1>3. BusyIdle'
  BY <1>1 DEF IoInv, Idleness, BusyIdle
<1>4. SubDev'
  <2>1. ASSUME NEW d \in Devices, NEW r \in Requests, NEW i \in Slots, dev'[d].sub = <<r, i>>
        PROVE  reqc'[r].devs[i] = d
    <3>0. <<r, i>> # NoSub
      BY NoneAssumption
    <3>1. dev[d].sub = <<r, i>>
      BY <2>1, <3>0
    <3>2. i \in Media(r) /\ reqc[r].status[i] = "todo"
      BY <3>1 DEF IoInv, AllocInv, Tokens, PlacedLive, Placed, OnDevice
    <3> QED BY <3>1, <3>2 DEF IoInv, Idleness, SubDev
  <2> QED BY <2>1 DEF SubDev
<1>5. ReservedIdle'
  <2>0. SUFFICES ASSUME sched.r \in Requests PROVE ReservedIdle'
    BY DEF ReservedIdle
  <2>1. PICK r \in Requests : r = sched.r
    BY <2>0
  <2>2. Reserving(sched.r)' = Reserving(r) /\ sched'.r = r
    BY <2>1 DEF Reserving, Media
  <2>3. \A j \in Reserving(r) : /\ j \in Slots /\ reqc[r].status[j] = "todo"
                                /\ reqc[r].devs[j] \in Devices
                                /\ dev[reqc[r].devs[j]].io = {}
    BY <2>1, ReservingTodo, MediaSlots DEF IoInv, Idleness, ReservedIdle, AllocInv, Reserved
  <2> QED BY <1>1, <2>2, <2>3 DEF ReservedIdle
<1> QED BY <1>2, <1>3, <1>4, <1>5 DEF Idleness

\* The answer of r is where it was.
LEMMA SameAnswer ==
    ASSUME NEW r \in Requests, AnswerOf(r), SameLife(reqc[r], reqc'[r]), SameDone(r),
           \A k \in {"ok", "error"} : <<r, k>> \in resp' <=> <<r, k>> \in resp,
           client'[r] = client[r]
    PROVE  AnswerOf(r)'
BY DEF AnswerOf, SameLife, SameDone, AllDone, Media

\* Steps that end no medium, answer nothing and touch no I/O.
LEMMA CalmStep ==
    ASSUME IoInv, AllocInv', Idleness',
           \A r \in Requests : SameLife(reqc[r], reqc'[r]) /\ SameDone(r),
           resp' = resp, client' = client, heirs' = heirs,
           \A d \in Devices : dev'[d].io = dev[d].io
    PROVE  IoInv'
<1>1. \A r \in Requests : SameHolder(r)
  BY HolderFrame DEF SameLife
<1>2. Holding'
  BY <1>1, CalmHolding DEF IoInv, Own
<1>3. Answers'
  <2>1. \A r \in Requests : AnswerOf(r)'
    BY SameAnswer DEF IoInv, Answers
  <2> QED BY <2>1 DEF Answers
<1>4. Sharing'
  BY KeepSharing DEF IoInv, Served, SameLife
<1> QED BY <1>2, <1>3, <1>4 DEF IoInv

\* A request that is known somewhere has no answer unless it failed.
LEMMA LiveAnswer ==
    ASSUME IoInv, NEW r \in Requests, NEW i \in Media(r), Placed(r, i)
    PROVE  /\ reqc[r].frees = 0 /\ reqc[r].status[i] = "todo" /\ client[r] # "idle"
           /\ client[r] \notin {"granted", "inherited"} /\ <<r, "ok">> \notin resp
           /\ ~reqc[r].err => /\ reqc[r].answers = 0 /\ <<r, "error">> \notin resp
                              /\ client[r] \in {"waiting", "gone"}
<1>1. reqc[r].frees = 0 /\ reqc[r].status[i] = "todo" /\ client[r] # "idle"
  BY DEF IoInv, AllocInv, Tokens, PlacedLive
<1>2. AnswerOf(r)
  BY DEF IoInv, Answers
<1>3. client[r] \notin {"granted", "inherited"} /\ <<r, "ok">> \notin resp
  BY <1>1, <1>2 DEF AnswerOf, AllDone
<1>4. ~reqc[r].err => reqc[r].answers = 0
  BY <1>1 DEF IoInv, AllocInv, Tokens, AnsweredOnce
<1>5. ~reqc[r].err => /\ <<r, "error">> \notin resp /\ client[r] \in {"waiting", "gone"}
  BY <1>1, <1>2, <1>4 DEF AnswerOf
<1> QED BY <1>1, <1>3, <1>4, <1>5

\* Another medium of r failed: what is left of it holds nothing.
LEMMA CancelStep ==
    ASSUME IoInv, AllocInv', Idleness', NEW r \in Requests, NEW i \in Media(r), Placed(r, i),
           reqc[r].err, reqc'[r].err, reqc'[r].answers = reqc[r].answers,
           \A j \in Media(r) : reqc'[r].status[j] = "done" =>
              reqc[r].status[j] = "done" /\ reqc'[r].devs[j] = reqc[r].devs[j],
           OnlyRequest(r), resp' = resp, client' = client, heirs' = heirs,
           \A d \in Devices : dev'[d].io = dev[d].io
    PROVE  IoInv'
<1>1. \A q \in Requests : q # r => SameLife(reqc[q], reqc'[q]) /\ SameDone(q)
  BY DEF OnlyRequest, SameLife, SameDone
<1>2. \A q \in Requests : SameHolder(q)
  <2>1. \A q \in Requests : q # r => SameHolder(q)
    BY <1>1, HolderFrame DEF SameLife
  <2>2. SameHolder(r)
    BY DEF SameHolder, Holder
  <2> QED BY <2>1, <2>2
<1>3. Holding'
  BY <1>2, CalmHolding DEF IoInv, Own
<1>4. Answers'
  <2>1. \A q \in Requests : q # r => AnswerOf(q)'
    BY <1>1, SameAnswer DEF IoInv, Answers
  <2>2. AnswerOf(r)
    BY DEF IoInv, Answers
  <2>3. client[r] \notin {"granted", "inherited"} /\ <<r, "ok">> \notin resp
    BY LiveAnswer
  <2>4. AnswerOf(r)'
    BY <2>2, <2>3 DEF AnswerOf, AllDone, Media
  <2> QED BY <2>1, <2>4 DEF Answers
<1>5. Sharing'
  <2>1. Served(r)
    BY LiveAnswer DEF Served
  <2>2. \A q \in Requests : q # r => (Served(q)' => Served(q))
    BY <1>1 DEF Served, SameLife
  <2> QED BY <2>1, <2>2, KeepSharing DEF IoInv
<1> QED BY <1>3, <1>4, <1>5 DEF IoInv

\* The first fatal error of r: the I/O of its media that were mounted are
\* withdrawn, and the error is answered.
LEMMA FatalStep ==
    ASSUME IoInv, AllocInv', Idleness', NEW r \in Requests, NEW i \in Media(r), Placed(r, i),
           ~reqc[r].err, reqc'[r].err, reqc'[r].answers = reqc[r].answers + 1,
           \A j \in Media(r) : reqc'[r].status[j] # "done",
           OnlyRequest(r), resp' = resp \cup {<<r, "error">>}, client' = client,
           heirs' = heirs,
           \A d \in Devices : dev'[d].io = IF d \in DoneDevs(reqc[r], r)
                                           THEN dev[d].io \ {Sock[r]} ELSE dev[d].io
    PROVE  IoInv'
<1>1. \A q \in Requests : q # r => SameLife(reqc[q], reqc'[q]) /\ SameDone(q)
  BY DEF OnlyRequest, SameLife, SameDone
<1>2. \A q \in Requests : q # r => SameHolder(q)
  BY <1>1, HolderFrame DEF SameLife
<1>3. /\ reqc[r].frees = 0 /\ reqc[r].answers = 0
      /\ client[r] \in {"waiting", "gone"} /\ <<r, "ok">> \notin resp
  BY LiveAnswer
<1>4. \A d \in Devices : d \in Held(r) <=> d \in DoneDevs(reqc[r], r)
  BY <1>3 DEF Held, Holder, Served, DoneDevs
<1>5. \A j \in Media(r), d \in Devices : ~Holder(r, j, d)'
  BY DEF Holder
<1>6. Holding'
  BY <1>2, <1>3, <1>4, <1>5, DropHolding
<1>7. Answers'
  <2>1. \A q \in Requests : q # r => AnswerOf(q)'
    <3>1. \A q \in Requests, k \in {"ok", "error"} : q # r =>
            (<<q, k>> \in resp' <=> <<q, k>> \in resp)
      OBVIOUS
    <3> QED BY <1>1, <3>1, SameAnswer DEF IoInv, Answers
  <2>2. AnswerOf(r)'
    BY <1>3 DEF AnswerOf, AllDone, Media
  <2> QED BY <2>1, <2>2 DEF Answers
<1>8. Sharing'
  <2>1. Served(r) /\ \A q \in Requests : Served(q)' => Served(q)
    BY <1>1, <1>3 DEF Served, SameLife
  <2> QED BY <2>1, KeepSharing DEF IoInv
<1> QED BY <1>6, <1>7, <1>8 DEF IoInv

\* A request is refused as a whole.
LEMMA RefuseStep ==
    ASSUME IoInv, AllocInv', Idleness', NEW r \in Requests,
           reqc[r].frees = 0, ~reqc[r].err,
           \A j \in Media(r) : reqc[r].status[j] = "todo" /\ reqc'[r].status[j] = "todo",
           reqc'[r].frees = 1, reqc'[r].answers = reqc[r].answers + 1,
           OnlyRequest(r),
           \/ client[r] = "idle" /\ client'[r] = "refused" /\ resp' = resp
           \/ /\ client[r] # "idle" /\ client'[r] = client[r]
              /\ resp' = resp \cup {<<r, "error">>},
           \A q \in Requests : q # r => client'[q] = client[q] /\ (q \in heirs' <=> q \in heirs),
           r \in heirs => r \in heirs', client[r] # "idle" => heirs' = heirs,
           \A d \in Devices : dev'[d].io = dev[d].io
    PROVE  IoInv'
<1>1. \A q \in Requests : q # r => SameLife(reqc[q], reqc'[q]) /\ SameDone(q)
  BY DEF OnlyRequest, SameLife, SameDone
<1>2. \A q \in Requests, k \in {"ok", "error"} : q # r =>
        (<<q, k>> \in resp' <=> <<q, k>> \in resp)
  OBVIOUS
<1>3. \A q \in Requests : SameHolder(q)
  <2>1. \A q \in Requests : q # r => SameHolder(q)
    BY <1>1, <1>2, HolderFrame DEF SameLife
  <2>2. SameHolder(r)
    BY DEF SameHolder, Holder
  <2> QED BY <2>1, <2>2
<1>4. Holding'
  <2>1. \A q \in Requests : Own(q)' => Own(q)
    BY DEF Own
  <2> QED BY <1>3, <2>1, CalmHolding DEF IoInv
<1>5. reqc[r].answers = 0
  BY DEF IoInv, AllocInv, Tokens, AnsweredOnce
<1>6. /\ <<r, "ok">> \notin resp /\ <<r, "error">> \notin resp
      /\ client[r] \in {"idle", "waiting", "gone"}
  <2>1. AnswerOf(r)
    BY DEF IoInv, Answers
  <2> QED BY <1>5, <2>1 DEF AnswerOf
<1>7. Answers'
  <2>1. \A q \in Requests : q # r => AnswerOf(q)'
    BY <1>1, <1>2, SameAnswer DEF IoInv, Answers
  <2>2. AnswerOf(r)'
    BY <1>5, <1>6 DEF AnswerOf, AllDone, Media
  <2> QED BY <2>1, <2>2 DEF Answers
<1>8. Sharing'
  <2>1. Served(r) /\ \A q \in Requests : Served(q)' => Served(q)
    BY <1>1, <1>2 DEF Served, SameLife
  <2>2. /\ client'[r] = "gone" => client[r] = "gone" /\ heirs' = heirs
        /\ client'[r] \in {"waiting", "granted"} =>
              client[r] \in {"waiting", "granted"} /\ heirs' = heirs
    OBVIOUS
  <2> QED BY <2>1, <2>2 DEF IoInv, Sharing, HeirSock, Kin, NoIdleHeir
<1> QED BY <1>4, <1>7, <1>8 DEF IoInv

\* A device has mounted the medium of its sub-request: it had no I/O, and now
\* has that of r.
LEMMA DoneStep ==
    ASSUME IoInv, AllocInv', NEW r \in Requests, NEW i \in Media(r), NEW d \in Devices,
           OnlyOn(d, r, i), SubLeaves(d), OnlyRequest(r),
           ~reqc[r].err, ~reqc'[r].err, reqc'[r].devs = reqc[r].devs,
           \A j \in Media(r) : reqc'[r].status[j] = IF j = i THEN "done" ELSE reqc[r].status[j],
           \/ /\ reqc'[r].frees = reqc[r].frees /\ reqc'[r].answers = reqc[r].answers
              /\ resp' = resp
           \/ /\ reqc'[r].frees = reqc[r].frees + 1 /\ reqc'[r].answers = reqc[r].answers + 1
              /\ resp' = resp \cup {<<r, "ok">>}
              /\ \A j \in Media(r) : reqc'[r].status[j] # "todo",
           \A e \in Devices : dev'[e].state = dev[e].state /\ (e # d => dev'[e].io = dev[e].io),
           dev[d].state \notin {"dying", "ended"},
           dev'[d].io = dev[d].io \cup {Sock[r]},
           UNCHANGED <<sched, client, heirs>>
    PROVE  IoInv'
<1>0. i \in Slots /\ Placed(r, i)
  BY MediaSlots DEF OnlyOn, Placed, OnDevice
<1>1. /\ reqc[r].frees = 0 /\ reqc[r].answers = 0 /\ reqc[r].status[i] = "todo"
      /\ client[r] \in {"waiting", "gone"}
      /\ <<r, "ok">> \notin resp /\ <<r, "error">> \notin resp
  BY <1>0, LiveAnswer
<1>2. dev[d].io = {} /\ reqc[r].devs[i] = d /\ dev'[d].io = {Sock[r]}
  BY <1>0 DEF OnlyOn, IoInv, Idleness, BusyIdle, SubDev
<1>3. \A q \in Requests : q # r => SameLife(reqc[q], reqc'[q]) /\ SameDone(q)
  BY DEF OnlyRequest, SameLife, SameDone
<1>4. \A q \in Requests, k \in {"ok", "error"} : q # r =>
        (<<q, k>> \in resp' <=> <<q, k>> \in resp)
  OBVIOUS
<1>5. \A q \in Requests : q # r => SameHolder(q)
  BY <1>3, <1>4, HolderFrame DEF SameLife
<1>6. \A j \in Media(r), e \in Devices :
        Holder(r, j, e)' <=> Holder(r, j, e) \/ (j = i /\ e = d)
  BY <1>1, <1>2 DEF Holder, Served
<1>7. \A q \in Requests, e \in Devices : \A j \in Media(q) :
        Holder(q, j, e)' <=> Holder(q, j, e) \/ (q = r /\ j = i /\ e = d)
  BY <1>5, <1>6 DEF SameHolder
<1>8. \A q \in Requests : \A j \in Media(q) : Holder(q, j, d) => ~Own(q)
  BY <1>2 DEF IoInv, Holding, HolderIo
<1>9. Holding'
  <2>0. \A q \in Requests : Own(q)' <=> Own(q)
    BY DEF Own
  <2>1. \A q \in Requests, e \in Devices : \A j \in Media(q) :
          Holder(q, j, e)' /\ Own(q) => Sock[q] \in dev'[e].io
    BY <1>2, <1>7 DEF IoInv, Holding, HolderIo
  <2>2. ASSUME NEW e \in Devices, NEW s \in dev'[e].io
        PROVE  \E q \in Requests : \E j \in Media(q) : Sock[q] = s /\ Holder(q, j, e)'
    <3>1. CASE e = d
      BY <1>2, <1>7, <2>2, <3>1
    <3>2. CASE e # d
      <4>1. PICK q \in Requests : \E j \in Media(q) : Sock[q] = s /\ Holder(q, j, e)
        BY <2>2, <3>2 DEF IoInv, Holding, IoHeld
      <4> QED BY <1>7, <4>1
    <3> QED BY <3>1, <3>2
  <2>3. \A p, q \in Requests, e \in Devices : \A k \in Media(p), j \in Media(q) :
          Holder(p, k, e)' /\ Holder(q, j, e)' /\ Own(p) /\ Own(q)
            => p = q /\ k = j
    BY <1>7, <1>8 DEF IoInv, Holding, OneHolder
  <2>4. \A e \in Devices : \A s, t \in dev'[e].io : s = t
    BY <1>2 DEF IoInv, Holding, OneIo
  <2>5. HolderIo' /\ IoHeld' /\ OneHolder' /\ OneIo'
    BY <2>0, <2>1, <2>2, <2>3, <2>4 DEF HolderIo, IoHeld, OneHolder, OneIo, Media
  <2> QED BY <2>5 DEF Holding
<1>10. Answers'
  <2>1. \A q \in Requests : q # r => AnswerOf(q)'
    BY <1>3, <1>4, SameAnswer DEF IoInv, Answers
  <2>2. \A j \in Media(r) : /\ reqc[r].status[j] \in {"todo", "done"}
                            /\ reqc[r].status[j] = "done" => reqc[r].devs[j] \in Devices
    BY <1>1 DEF IoInv, Answers, AnswerOf
  <2>3. AnswerOf(r)'
    BY <1>1, <1>2, <2>2 DEF AnswerOf, AllDone, Media
  <2> QED BY <2>1, <2>3 DEF Answers
<1>11. Sharing'
  <2>1. Served(r) /\ \A q \in Requests : Served(q)' => Served(q)
    BY <1>1, <1>3, <1>4 DEF Served, SameLife
  <2> QED BY <2>1, KeepSharing DEF IoInv
<1>12. Idleness'
  <2>1. DeadIdle'
    BY DEF IoInv, Idleness, DeadIdle
  <2>2. BusyIdle'
    BY DEF IoInv, Idleness, BusyIdle, SubLeaves
  <2>3. \A q \in Requests, j \in Slots : reqc'[q].devs[j] = reqc[q].devs[j]
    BY DEF OnlyRequest
  <2>4. SubDev'
    <3>1. ASSUME NEW e \in Devices, NEW q \in Requests, NEW j \in Slots,
                 dev'[e].sub = <<q, j>>
          PROVE  dev[e].sub = <<q, j>>
      <4>1. <<q, j>> # NoSub
        BY NoneAssumption
      <4>2. dev'[e].sub # NoSub
        BY <3>1, <4>1
      <4> QED BY <3>1, <4>2 DEF SubLeaves
    <3> QED BY <2>3, <3>1 DEF IoInv, Idleness, SubDev
  <2>5. ReservedIdle'
    <3>0. SUFFICES ASSUME sched.r \in Requests PROVE ReservedIdle'
      BY DEF ReservedIdle
    <3>1. PICK q \in Requests : q = sched.r
      BY <3>0
    <3>2. Reserving(sched.r)' = Reserving(q) /\ sched'.r = q
      BY <3>1 DEF Reserving, Media
    <3>3. \A j \in Reserving(q) : /\ j \in Slots /\ reqc[q].devs[j] \in Devices
                                  /\ dev[reqc[q].devs[j]].sub = NoSub
                                  /\ dev[reqc[q].devs[j]].io = {}
      BY <3>1, ReservingTodo, MediaSlots DEF IoInv, Idleness, ReservedIdle, AllocInv, Reserved
    <3>4. \A j \in Reserving(q) : reqc[q].devs[j] # d
      BY <3>3 DEF OnlyOn
    <3> QED BY <2>3, <3>2, <3>3, <3>4 DEF ReservedIdle
  <2> QED BY <2>1, <2>2, <2>4, <2>5 DEF Idleness
<1> QED BY <1>9, <1>10, <1>11, <1>12 DEF IoInv
-----------------------------------------------------------------------------
\* What the end of a sub-request does to a device.
LEMMA AfterHandleIo ==
    ASSUME NEW dv \in [Devices -> DeviceStates], NEW d \in Devices, NEW died, NEW e \in Devices
    PROVE  /\ AfterHandle(dv, d, died)[e].io = dv[e].io
           /\ AfterHandle(dv, d, died)[e].state =
                 IF e = d /\ died THEN "dying" ELSE dv[e].state
           /\ AfterHandle(dv, d, died)[e].sub = IF e = d THEN NoSub ELSE dv[e].sub
BY DEF AfterHandle, DeviceStates

\* What the ends of a medium do to the container, field by field.
Cancelled(c, r, i) ==
    FreedIf([c EXCEPT !.status[i] = "cancel"], Ended([c EXCEPT !.status[i] = "cancel"], r))

LEMMA CancelFields ==
    ASSUME NEW c \in Containers, NEW r \in Requests, NEW i \in Slots
    PROVE  /\ (Cancelled(c, r, i).err <=> c.err) /\ Cancelled(c, r, i).answers = c.answers
           /\ Cancelled(c, r, i).devs = c.devs
           /\ \A j \in Slots : Cancelled(c, r, i).status[j] = IF j = i THEN "cancel" ELSE c.status[j]
<1> DEFINE e == [c EXCEPT !.status[i] = "cancel"]
           f == FreedIf(e, Ended(e, r))
<1>1. /\ \A j \in Slots : e.status[j] = IF j = i THEN "cancel" ELSE c.status[j]
      /\ (e.err <=> c.err) /\ e.answers = c.answers /\ e.devs = c.devs
      /\ e \in Containers
  BY DEF Containers, Statuses
<1> HIDE DEF e
<1>2. f.status = e.status /\ (f.err <=> e.err) /\ f.answers = e.answers /\ f.devs = e.devs
  BY <1>1 DEF FreedIf, Freed, Containers
<1> HIDE DEF f
<1>3. /\ (f.err <=> c.err) /\ f.answers = c.answers /\ f.devs = c.devs
      /\ \A j \in Slots : f.status[j] = IF j = i THEN "cancel" ELSE c.status[j]
  BY <1>1, <1>2
<1>4. f = Cancelled(c, r, i)
  BY DEF Cancelled, f, e
<1> QED BY <1>3, <1>4

LEMMA DoneFields ==
    ASSUME NEW c \in Containers, NEW r \in Requests, NEW i \in Slots
    PROVE  LET e == [c EXCEPT !.status[i] = "done"]
               f == IF Ended(e, r) THEN Freed([e EXCEPT !.answers = @ + 1]) ELSE e
           IN  /\ f.err = c.err /\ f.devs = c.devs
               /\ \A j \in Slots : f.status[j] = IF j = i THEN "done" ELSE c.status[j]
               /\ IF Ended(e, r)
                  THEN /\ f.frees = c.frees + 1 /\ f.answers = c.answers + 1
                       /\ \A j \in Media(r) : f.status[j] # "todo"
                  ELSE f.frees = c.frees /\ f.answers = c.answers
<1> DEFINE e == [c EXCEPT !.status[i] = "done"]
           f == IF Ended(e, r) THEN Freed([e EXCEPT !.answers = @ + 1]) ELSE e
<1>1. /\ \A j \in Slots : e.status[j] = IF j = i THEN "done" ELSE c.status[j]
      /\ e.err = c.err /\ e.answers = c.answers /\ e.frees = c.frees /\ e.devs = c.devs
      /\ e \in Containers
  BY DEF Containers, Statuses
<1> HIDE DEF e
<1>2. /\ f.status = e.status /\ f.err = e.err /\ f.devs = e.devs
      /\ IF Ended(e, r) THEN f.frees = e.frees + 1 /\ f.answers = e.answers + 1
                        ELSE f.frees = e.frees /\ f.answers = e.answers
  BY <1>1 DEF Freed, Containers
<1> HIDE DEF f
<1>3. /\ f.err = c.err /\ f.devs = c.devs
      /\ \A j \in Slots : f.status[j] = IF j = i THEN "done" ELSE c.status[j]
      /\ IF Ended(e, r)
         THEN /\ f.frees = c.frees + 1 /\ f.answers = c.answers + 1
              /\ \A j \in Media(r) : f.status[j] # "todo"
         ELSE f.frees = c.frees /\ f.answers = c.answers
  BY <1>1, <1>2 DEF Ended
<1> QED BY <1>3 DEF e, f

LEMMA FatalFields ==
    ASSUME NEW c \in Containers, NEW r \in Requests, NEW i \in Slots
    PROVE  /\ Fatal(c, r, i).err /\ Fatal(c, r, i).answers = c.answers + 1
           /\ \A j \in Slots : /\ Fatal(c, r, i).status[j] # "done"
                               /\ c.status[j] = "todo" =>
                                     Fatal(c, r, i).devs[j] = c.devs[j]
<1> DEFINE e == [c EXCEPT !.err = TRUE, !.status[i] = "error"]
           g == CancelDone(e)
           h == WithError(g)
           f == FreedIf(h, Ended(h, r))
<1>0. f = Fatal(c, r, i)
  BY DEF Fatal
<1>1. /\ \A j \in Slots : e.status[j] = IF j = i THEN "error" ELSE c.status[j]
      /\ e.err = TRUE /\ e.answers = c.answers /\ e.devs = c.devs /\ e \in Containers
  BY DEF Containers, Statuses
<1> HIDE DEF e
<1>2. /\ \A j \in Slots : g.status[j] = IF e.status[j] = "done" THEN "cancel" ELSE e.status[j]
      /\ \A j \in Slots : g.devs[j] = IF e.status[j] = "done" THEN NoDev ELSE e.devs[j]
      /\ g.err = e.err /\ g.answers = e.answers
  BY <1>1 DEF CancelDone, Containers
<1>3. g \in Containers
  BY <1>1, CancelDoneType
<1> HIDE DEF g
<1>4. /\ h.status = g.status /\ h.devs = g.devs /\ h.err = g.err
      /\ h.answers = g.answers + 1 /\ h \in Containers
  BY <1>3 DEF WithError, Containers
<1> HIDE DEF h
<1>5. f.status = h.status /\ f.err = h.err /\ f.answers = h.answers /\ f.devs = h.devs
  BY <1>4 DEF FreedIf, Freed, Containers
<1> HIDE DEF f
<1>6. /\ f.err /\ f.answers = c.answers + 1
      /\ \A j \in Slots : /\ f.status[j] # "done"
                          /\ c.status[j] = "todo" => f.devs[j] = c.devs[j]
  BY <1>1, <1>2, <1>4, <1>5
<1> QED BY <1>0, <1>6

\* The sub-request of a device.
LEMMA SubHere ==
    ASSUME IoInv, NEW d \in Devices, dev[d].sub # NoSub
    PROVE  \E r \in Requests, i \in Slots :
              /\ OnlyOn(d, r, i) /\ i \in Media(r) /\ Placed(r, i)
              /\ dev[d].sub[1] = r /\ dev[d].sub[2] = i
<1>1. PICK r \in Requests, i \in Slots :
         /\ dev[d].sub = <<r, i>> /\ dev[d].sub[1] = r /\ dev[d].sub[2] = i
         /\ <<r, i>> \notin retry /\ <<r, i>> # NoSub
         /\ \A e \in Devices : e # d => dev[e].sub # <<r, i>>
  BY SubOf DEF IoInv
<1>2. OnlyOn(d, r, i) /\ OnDevice(d, r, i)
  BY <1>1 DEF OnlyOn, OnDevice
<1>3. i \in Media(r) /\ Placed(r, i)
  BY <1>2 DEF IoInv, AllocInv, Tokens, PlacedLive, Placed
<1> QED BY <1>1, <1>2, <1>3

\* What a device thread does when a medium of its request has failed, when it
\* fails its own for good, and when it gives it back.
LEMMA DeviceCancels ==
    ASSUME IoInv, AllocInv', NEW d \in Devices, NEW died \in BOOLEAN,
           NEW r \in Requests, NEW i \in Slots, i \in Media(r), Placed(r, i), reqc[r].err,
           dev[d].io = {},
           reqc' = [reqc EXCEPT ![r] = Cancelled(reqc[r], r, i)],
           dev' = AfterHandle(dev, d, died),
           UNCHANGED <<resp, client, heirs, sched>>
    PROVE  IoInv'
<1>t. reqc[r] \in Containers /\ dev \in [Devices -> DeviceStates] /\ reqc \in [Requests -> Containers]
  BY InvTypes DEF IoInv
<1> DEFINE f == Cancelled(reqc[r], r, i)
<1>1. /\ f.err <=> reqc[r].err
      /\ f.answers = reqc[r].answers /\ f.devs = reqc[r].devs
      /\ \A j \in Slots : f.status[j] = IF j = i THEN "cancel" ELSE reqc[r].status[j]
  BY <1>t, CancelFields
<1>2. reqc' = [reqc EXCEPT ![r] = f]
  OBVIOUS
<1> HIDE DEF f
<1>3. reqc'[r] = f /\ OnlyRequest(r)
  BY <1>t, <1>2 DEF OnlyRequest
<1>4. /\ reqc'[r].err /\ reqc'[r].answers = reqc[r].answers
      /\ \A j \in Media(r) : reqc'[r].status[j] = "done" =>
            reqc[r].status[j] = "done" /\ reqc'[r].devs[j] = reqc[r].devs[j]
  <2>1. \A j \in Media(r) : j \in Slots
    BY MediaSlots
  <2> QED BY <1>1, <1>3, <2>1
<1>5. \A q \in Requests : reqc'[q].devs = reqc[q].devs
  BY <1>1, <1>3 DEF OnlyRequest
<1>6. \A e \in Devices : /\ dev'[e].io = dev[e].io
                         /\ dev'[e].state = IF e = d /\ died THEN "dying" ELSE dev[e].state
                         /\ dev'[e].sub = IF e = d THEN NoSub ELSE dev[e].sub
  BY <1>t, AfterHandleIo
<1>7. Idleness'
  BY <1>5, <1>6, KeepIdleness
<1> QED BY <1>3, <1>4, <1>6, <1>7, CancelStep

LEMMA DeviceFails ==
    ASSUME IoInv, AllocInv', NEW d \in Devices, NEW died \in BOOLEAN,
           NEW r \in Requests, NEW i \in Slots, i \in Media(r), Placed(r, i), ~reqc[r].err,
           dev[d].io = {},
           reqc' = [reqc EXCEPT ![r] = Fatal(@, r, i)],
           dev' = AfterHandle(CleanIo(dev, DoneDevs(reqc[r], r), Sock[r]), d, died),
           resp' = resp \cup {<<r, "error">>},
           UNCHANGED <<client, heirs, sched>>
    PROVE  IoInv'
<1>t. reqc[r] \in Containers /\ dev \in [Devices -> DeviceStates] /\ reqc \in [Requests -> Containers]
  BY InvTypes DEF IoInv
<1> DEFINE f == Fatal(reqc[r], r, i)
<1>1. /\ f.err /\ f.answers = reqc[r].answers + 1
      /\ \A j \in Slots : /\ f.status[j] # "done"
                          /\ reqc[r].status[j] = "todo" => f.devs[j] = reqc[r].devs[j]
  BY <1>t, FatalFields
<1>2. reqc' = [reqc EXCEPT ![r] = f]
  OBVIOUS
<1> HIDE DEF f
<1>3. reqc'[r] = f /\ OnlyRequest(r)
  BY <1>t, <1>2 DEF OnlyRequest
<1>4. /\ reqc'[r].err /\ reqc'[r].answers = reqc[r].answers + 1
      /\ \A j \in Media(r) : reqc'[r].status[j] # "done"
  BY <1>1, <1>3, MediaSlots
<1>5. \A q \in Requests, j \in Slots :
        reqc[q].status[j] = "todo" => reqc'[q].devs[j] = reqc[q].devs[j]
  BY <1>1, <1>3 DEF OnlyRequest
<1>6. ASSUME NEW e \in Devices
      PROVE  /\ dev'[e].io = IF e \in DoneDevs(reqc[r], r) THEN dev[e].io \ {Sock[r]}
                             ELSE dev[e].io
             /\ dev'[e].state = IF e = d /\ died THEN "dying" ELSE dev[e].state
             /\ dev'[e].sub = IF e = d THEN NoSub ELSE dev[e].sub
  <2> DEFINE dv == CleanIo(dev, DoneDevs(reqc[r], r), Sock[r])
  <2>1. dv \in [Devices -> DeviceStates]
    BY <1>t, CleanIoType
  <2>2. /\ dv[e].io = IF e \in DoneDevs(reqc[r], r) THEN dev[e].io \ {Sock[r]} ELSE dev[e].io
        /\ dv[e].state = dev[e].state /\ dv[e].sub = dev[e].sub
    BY <1>t DEF CleanIo, DeviceStates
  <2>3. dev' = AfterHandle(dv, d, died)
    OBVIOUS
  <2> HIDE DEF dv
  <2>4. /\ AfterHandle(dv, d, died)[e].io = dv[e].io
        /\ AfterHandle(dv, d, died)[e].state = IF e = d /\ died THEN "dying" ELSE dv[e].state
        /\ AfterHandle(dv, d, died)[e].sub = IF e = d THEN NoSub ELSE dv[e].sub
    BY <2>1, AfterHandleIo
  <2> QED BY <2>2, <2>3, <2>4
<1>7. Idleness'
  BY <1>5, <1>6, KeepIdleness
<1> QED BY <1>3, <1>4, <1>6, <1>7, FatalStep

LEMMA DeviceRequeues ==
    ASSUME IoInv, AllocInv', NEW d \in Devices, NEW died \in BOOLEAN, dev[d].io = {},
           dev' = AfterHandle(dev, d, died), UNCHANGED <<reqc, resp, client, heirs, sched>>
    PROVE  IoInv'
<1>1. dev \in [Devices -> DeviceStates]
  BY InvTypes DEF IoInv
<1>2. \A e \in Devices : /\ dev'[e].io = dev[e].io
                         /\ dev'[e].state = IF e = d /\ died THEN "dying" ELSE dev[e].state
                         /\ dev'[e].sub = IF e = d THEN NoSub ELSE dev[e].sub
  BY <1>1, AfterHandleIo
<1>3. Idleness'
  BY <1>2, KeepIdleness
<1>4. \A q \in Requests : SameLife(reqc[q], reqc'[q]) /\ SameDone(q)
  BY DEF SameLife, SameDone
<1> QED BY <1>2, <1>3, <1>4, CalmStep

\* The device threads keep the I/O exact.
LEMMA DeviceIo ==
    ASSUME MaxIO = 1, IoInv, AllocInv', NEW d \in Devices, Device(d)
    PROVE  IoInv'
<1> USE DEF queues, budget
<1>t. reqc \in [Requests -> Containers] /\ dev \in [Devices -> DeviceStates]
  BY InvTypes DEF IoInv
<1>b. dev[d].sub # NoSub => dev[d].io = {}
  BY DEF IoInv, Idleness, BusyIdle
<1>1. CASE DevDone(d)
  <2>1. PICK r \in Requests, i \in Slots :
          /\ OnlyOn(d, r, i) /\ i \in Media(r) /\ Placed(r, i)
          /\ dev[d].sub[1] = r /\ dev[d].sub[2] = i
    BY <1>1, SubHere DEF DevDone, CanHandle, HasSub
  <2> DEFINE e == [reqc[r] EXCEPT !.status[i] = "done"]
             f == IF Ended(e, r) THEN Freed([e EXCEPT !.answers = @ + 1]) ELSE e
  <2>2. reqc[r] \in Containers /\ ~reqc[r].err /\ dev[d].state \notin {"dying", "ended"}
    BY <1>t, <1>1, <2>1 DEF DevDone, CanHandle, HasSub
  <2>3. /\ f.err = reqc[r].err /\ f.devs = reqc[r].devs
        /\ \A j \in Slots : f.status[j] = IF j = i THEN "done" ELSE reqc[r].status[j]
        /\ IF Ended(e, r)
           THEN /\ f.frees = reqc[r].frees + 1 /\ f.answers = reqc[r].answers + 1
                /\ \A j \in Media(r) : f.status[j] # "todo"
           ELSE f.frees = reqc[r].frees /\ f.answers = reqc[r].answers
    BY <2>2, DoneFields
  <2>4. /\ reqc' = [reqc EXCEPT ![r] = f]
        /\ resp' = IF Ended(e, r) THEN resp \cup {<<r, "ok">>} ELSE resp
    BY <1>1, <2>1 DEF DevDone
  <2> HIDE DEF e, f
  <2>5. reqc'[r] = f /\ OnlyRequest(r)
    BY <1>t, <2>4 DEF OnlyRequest
  <2>6. /\ ~reqc'[r].err /\ reqc'[r].devs = reqc[r].devs
        /\ \A j \in Media(r) : reqc'[r].status[j] = IF j = i THEN "done" ELSE reqc[r].status[j]
    BY <2>2, <2>3, <2>5, MediaSlots
  <2>7. \/ /\ reqc'[r].frees = reqc[r].frees /\ reqc'[r].answers = reqc[r].answers
           /\ resp' = resp
        \/ /\ reqc'[r].frees = reqc[r].frees + 1 /\ reqc'[r].answers = reqc[r].answers + 1
           /\ resp' = resp \cup {<<r, "ok">>}
           /\ \A j \in Media(r) : reqc'[r].status[j] # "todo"
    BY <2>3, <2>4, <2>5
  <2>8. dev' = [dev EXCEPT ![d] = [dev[d] EXCEPT !.sub = NoSub, !.io = @ \cup {Sock[r]}]]
    BY <1>1, <2>1 DEF DevDone, SetDev
  <2>9. /\ \A g \in Devices : /\ dev'[g].state = dev[g].state /\ (g # d => dev'[g].io = dev[g].io)
                              /\ dev'[g].sub = IF g = d THEN NoSub ELSE dev[g].sub
                              /\ dev'[g].scheduled = dev[g].scheduled
        /\ dev'[d].io = dev[d].io \cup {Sock[r]}
    BY <1>t, <2>8 DEF DeviceStates
  <2>10. SubLeaves(d)
    BY <2>9 DEF SubLeaves
  <2>11. UNCHANGED <<sched, client, heirs>>
    BY <1>1 DEF DevDone
  <2> QED BY <2>1, <2>2, <2>5, <2>6, <2>7, <2>9, <2>10, <2>11, DoneStep
<1>2. ASSUME NEW died \in BOOLEAN, DevCancel(d, died) PROVE IoInv'
  <2>1. PICK r \in Requests, i \in Slots :
          /\ OnlyOn(d, r, i) /\ i \in Media(r) /\ Placed(r, i)
          /\ dev[d].sub[1] = r /\ dev[d].sub[2] = i
    BY <1>2, SubHere DEF DevCancel, HasSub
  <2>2. dev[d].io = {} /\ reqc[r].err
    BY <1>b, <1>2, <2>1 DEF DevCancel, HasSub
  <2>3. /\ reqc' = [reqc EXCEPT ![r] = Cancelled(reqc[r], r, i)]
        /\ dev' = AfterHandle(dev, d, died) /\ UNCHANGED <<resp, client, heirs, sched>>
    BY <1>2, <2>1 DEF DevCancel, Cancelled
  <2> QED BY <2>1, <2>2, <2>3, DeviceCancels
<1>3. ASSUME NEW died \in BOOLEAN, DevFatal(d, died) PROVE IoInv'
  <2>1. PICK r \in Requests, i \in Slots :
          /\ OnlyOn(d, r, i) /\ i \in Media(r) /\ Placed(r, i)
          /\ dev[d].sub[1] = r /\ dev[d].sub[2] = i
    BY <1>3, SubHere DEF DevFatal, CanHandle, HasSub
  <2>2. dev[d].io = {} /\ ~reqc[r].err
    BY <1>b, <1>3, <2>1 DEF DevFatal, CanHandle, HasSub
  <2>3. /\ reqc' = [reqc EXCEPT ![r] = Fatal(@, r, i)]
        /\ dev' = AfterHandle(CleanIo(dev, DoneDevs(reqc[r], r), Sock[r]), d, died)
        /\ resp' = resp \cup {<<r, "error">>} /\ UNCHANGED <<client, heirs, sched>>
    BY <1>3, <2>1 DEF DevFatal
  <2> QED BY <2>1, <2>2, <2>3, DeviceFails
<1>4. ASSUME NEW died \in BOOLEAN, DevRequeue(d, died) PROVE IoInv'
  <2>1. /\ dev[d].io = {} /\ dev' = AfterHandle(dev, d, died)
        /\ UNCHANGED <<reqc, resp, client, heirs, sched>>
    BY <1>b, <1>4 DEF DevRequeue, CanHandle, HasSub
  <2> QED BY <2>1, DeviceRequeues
<1>5. ASSUME NEW requeued \in BOOLEAN, DyingSub(d, requeued) PROVE IoInv'
  <2>1. PICK r \in Requests, i \in Slots :
          /\ OnlyOn(d, r, i) /\ i \in Media(r) /\ Placed(r, i)
          /\ dev[d].sub[1] = r /\ dev[d].sub[2] = i
    BY <1>5, SubHere DEF DyingSub
  <2>2. dev[d].io = {} /\ UNCHANGED <<client, heirs, sched>>
    BY <1>b, <1>5 DEF DyingSub
  <2>3. PICK died \in BOOLEAN : died = FALSE
    OBVIOUS
  <2>4. CASE reqc[r].err
    <3>1. /\ reqc' = [reqc EXCEPT ![r] = Cancelled(reqc[r], r, i)]
          /\ dev' = AfterHandle(dev, d, died) /\ resp' = resp
      BY <1>5, <2>1, <2>3, <2>4 DEF DyingSub, Cancelled
    <3> QED BY <2>1, <2>2, <2>4, <3>1, DeviceCancels
  <2>5. CASE ~reqc[r].err /\ requeued
    <3>1. dev' = AfterHandle(dev, d, died) /\ reqc' = reqc /\ resp' = resp
      BY <1>5, <2>1, <2>3, <2>5 DEF DyingSub
    <3> QED BY <2>2, <3>1, DeviceRequeues
  <2>6. CASE ~reqc[r].err /\ ~requeued
    <3>1. /\ reqc' = [reqc EXCEPT ![r] = Fatal(@, r, i)]
          /\ dev' = AfterHandle(CleanIo(dev, DoneDevs(reqc[r], r), Sock[r]), d, died)
          /\ resp' = resp \cup {<<r, "error">>}
      BY <1>5, <2>1, <2>3, <2>6 DEF DyingSub
    <3> QED BY <2>1, <2>2, <2>6, <3>1, DeviceFails
  <2> QED BY <2>4, <2>5, <2>6
<1>6. ASSUME NeedsSync(d) \/ ClientFailed(d) \/ DevEnd(d) \/ \E died \in BOOLEAN : Sync(d, died)
      PROVE  IoInv'
  <2>1. UNCHANGED <<reqc, resp, client, heirs, sched>>
    BY <1>6 DEF NeedsSync, ClientFailed, DevEnd, Sync
  <2>2. \A e \in Devices :
          /\ dev'[e].io = dev[e].io /\ dev'[e].sub = dev[e].sub
          /\ dev'[e].state \in {"dying", "ended"}
                => dev[e].state \in {"dying", "ended"} \/ dev[e].io = {}
    <3>1. CASE NeedsSync(d) \/ ClientFailed(d)
      BY <1>t, <3>1 DEF NeedsSync, ClientFailed, SetDev, DeviceStates
    <3>2. CASE DevEnd(d)
      <4>1. dev[d].io = {}
        BY <3>2 DEF DevEnd, IoInv, Idleness, DeadIdle
      <4> QED BY <1>t, <3>2, <4>1 DEF DevEnd, SetDev, DeviceStates
    <3>3. ASSUME NEW died \in BOOLEAN, Sync(d, died)
          PROVE \A e \in Devices :
                  /\ dev'[e].io = dev[e].io /\ dev'[e].sub = dev[e].sub
                  /\ dev'[e].state \in {"dying", "ended"}
                        => dev[e].state \in {"dying", "ended"} \/ dev[e].io = {}
      <4>1. dev[d].io = {}
        BY <3>3 DEF Sync, CanSync, NotHeldBySync
      <4> QED BY <1>t, <3>3, <4>1 DEF Sync, SetDev, DeviceStates
    <3> QED BY <1>6, <3>1, <3>2, <3>3
  <2>3. Idleness'
    BY <2>1, <2>2, KeepIdleness
  <2>4. \A q \in Requests : SameLife(reqc[q], reqc'[q]) /\ SameDone(q)
    BY <2>1 DEF SameLife, SameDone
  <2> QED BY <2>1, <2>2, <2>3, <2>4, CalmStep
<1> QED BY <1>1, <1>2, <1>3, <1>4, <1>5, <1>6 DEF Device
-----------------------------------------------------------------------------
\* dev_is_sched_ready: the device has no I/O.
LEMMA ReadyIdle ==
    ASSUME MaxIO = 1, IoInv, NEW d \in Devices, SchedReady(d)
    PROVE  dev[d].io = {} /\ dev[d].sub = NoSub /\ ~dev[d].scheduled
<1>1. Cardinality(dev[d].io) < 1 /\ dev[d].sub = NoSub /\ ~dev[d].scheduled
  BY DEF SchedReady
<1>2. ASSUME NEW s \in dev[d].io PROVE FALSE
  <2>1. dev[d].io = {s}
    BY <1>2 DEF IoInv, Holding, OneIo
  <2>2. Cardinality({s}) = 1
    BY FS_Singleton
  <2> QED BY <1>1, <2>1, <2>2
<1> QED BY <1>1, <1>2

\* The scheduler thread moves on and neither mounts, answers nor cancels.
LEMMA SchedMoves ==
    ASSUME IoInv, AllocInv', UNCHANGED <<resp, client, heirs>>,
           \A q \in Requests : SameLife(reqc[q], reqc'[q]) /\ SameDone(q),
           \A e \in Devices : dev'[e].io = dev[e].io /\ dev'[e].state = dev[e].state,
           BusyIdle', ReservedIdle', SubDev'
    PROVE  IoInv'
<1>1. DeadIdle'
  BY DEF IoInv, Idleness, DeadIdle
<1>2. Idleness'
  BY <1>1 DEF Idleness
<1> QED BY <1>2, CalmStep

LEMMA SchedQuiet ==
    ASSUME IoInv, AllocInv', UNCHANGED <<reqc, resp, client, heirs>>,
           \A e \in Devices : /\ dev'[e].io = dev[e].io /\ dev'[e].state = dev[e].state
                              /\ dev'[e].sub = dev[e].sub,
           ReservedIdle'
    PROVE  IoInv'
<1>1. \A q \in Requests : SameLife(reqc[q], reqc'[q]) /\ SameDone(q)
  BY DEF SameLife, SameDone
<1>2. BusyIdle' /\ SubDev'
  BY DEF IoInv, Idleness, BusyIdle, SubDev
<1> QED BY <1>1, <1>2, SchedMoves

LEMMA QueueIo ==
    ASSUME IoInv, AllocInv',
           \/ SchedTop \/ RetryDone \/ IncomingDone \/ NoWork \/ Publish
           \/ \E r \in Requests : (PopIncoming(r) /\ running) \/ Peek(r)
    PROVE  IoInv'
<1> USE DEF queues, budget
<1>t. /\ sched \in SchedPositions /\ NoReq \notin Requests
      /\ sched.r = NoReq <=> sched.pc \notin WorkStates
  BY InvTypes DEF IoInv
<1>1. UNCHANGED <<reqc, dev, resp, client, heirs>>
  BY DEF SchedTop, RetryDone, IncomingDone, NoWork, Publish, PopIncoming, Peek
<1>2. CASE SchedTop \/ RetryDone \/ IncomingDone \/ NoWork
  <2>1. sched'.r = NoReq
    BY <1>t, <1>2 DEF SchedTop, RetryDone, IncomingDone, NoWork, GotoSched, SchedPositions,
                      WorkStates
  <2>2. ReservedIdle'
    BY <1>t, <2>1 DEF ReservedIdle
  <2> QED BY <1>1, <2>2, SchedQuiet
<1>3. ASSUME NEW r \in Requests, PopIncoming(r) PROVE ReservedIdle'
  BY <1>t, <1>3 DEF PopIncoming, WorkStates, ReservedIdle
<1>4. ASSUME NEW r \in Requests, Peek(r) PROVE ReservedIdle'
  <2>1. sched'.pc = "alloc" /\ sched'.r = r /\ sched'.i = 1
    BY <1>t, <1>4 DEF Peek, SchedPositions
  <2>2. Reserving(sched.r)' = {}
    BY <2>1, RequestAssumption, BoundAssumption DEF Reserving, Media, Slots
  <2> QED BY <2>2 DEF ReservedIdle
<1>5. CASE Publish
  <2>0. sched.pc = "alloc" /\ sched.r \in Requests /\ sched.i > NMedia[sched.r]
    BY <1>t, <1>5 DEF Publish, WorkStates, SchedPositions
  <2>1. PICK r \in Requests : r = sched.r
    BY <2>0
  <2>2. sched'.pc = "store" /\ sched'.r = r /\ sched'.i = 1
    BY <1>t, <1>5, <2>1 DEF Publish, SchedPositions
  <2>3. Reserving(r) = Media(r) /\ Reserving(sched.r)' = Media(r)
    BY <1>t, <2>0, <2>1, <2>2, RequestAssumption, BoundAssumption
    DEF Reserving, Media, Slots, SchedPositions
  <2>4. ReservedIdle'
    BY <1>1, <2>1, <2>2, <2>3 DEF IoInv, Idleness, ReservedIdle
  <2> QED BY <1>1, <2>4, SchedQuiet
<1>6. ASSUME ReservedIdle' PROVE IoInv'
  BY <1>1, <1>6, SchedQuiet
<1> QED BY <1>2, <1>3, <1>4, <1>5, <1>6

\* A container is refused.
LEMMA RefusedFields ==
    ASSUME NEW c \in Containers
    PROVE  /\ Freed(WithError(c)).frees = c.frees + 1
           /\ Freed(WithError(c)).answers = c.answers + 1
           /\ Freed(WithError(c)).devs = c.devs
           /\ Freed(WithError(c)).status = c.status
BY DEF Freed, WithError, Containers

\* The scheduler refuses a request no device knows.
LEMMA SchedRefusesIo ==
    ASSUME IoInv, AllocInv', NEW r \in Requests, r \in incoming \cup ioSched,
           reqc' = [reqc EXCEPT ![r] = Freed(WithError(@))],
           resp' = resp \cup {<<r, "error">>}, client' = client,
           heirs' = heirs,
           \A e \in Devices : /\ dev'[e].io = dev[e].io /\ dev'[e].state = dev[e].state
                              /\ dev'[e].sub = dev[e].sub,
           sched'.r = NoReq
    PROVE  IoInv'
<1>t. reqc \in [Requests -> Containers] /\ NoReq \notin Requests
  BY InvTypes DEF IoInv
<1>1. reqc'[r] = Freed(WithError(reqc[r])) /\ OnlyRequest(r) /\ reqc[r] \in Containers
  BY <1>t DEF OnlyRequest
<1>2. /\ reqc'[r].frees = reqc[r].frees + 1 /\ reqc'[r].answers = reqc[r].answers + 1
      /\ reqc'[r].devs = reqc[r].devs /\ reqc'[r].status = reqc[r].status
  BY <1>1, RefusedFields
<1>3. \A j \in Media(r) : Placed(r, j)
  BY DEF Placed, AtSched
<1>4. /\ reqc[r].frees = 0 /\ client[r] # "idle"
      /\ \A j \in Media(r) : reqc[r].status[j] = "todo"
  BY <1>3, MediaSlots DEF IoInv, AllocInv, Tokens, PlacedLive
<1>5. ~reqc[r].err
  BY DEF IoInv, AllocInv, Queued
<1>6. \A q \in Requests : reqc'[q].devs = reqc[q].devs
  BY <1>1, <1>2 DEF OnlyRequest
<1>7. Idleness'
  <2>1. DeadIdle' /\ BusyIdle' /\ SubDev'
    BY <1>6 DEF IoInv, Idleness, DeadIdle, BusyIdle, SubDev
  <2>2. ReservedIdle'
    BY <1>t DEF ReservedIdle
  <2> QED BY <2>1, <2>2 DEF Idleness
<1> QED BY <1>1, <1>2, <1>4, <1>5, <1>7, RefuseStep

LEMMA CancelIo ==
    ASSUME IoInv, AllocInv', AllocAgain \/ AllocFatal
    PROVE  IoInv'
<1> USE DEF queues, budget
<1>t. /\ dev \in [Devices -> DeviceStates] /\ sched \in SchedPositions /\ NoReq \notin Requests
      /\ sched.r = NoReq <=> sched.pc \notin WorkStates
  BY InvTypes DEF IoInv
<1>0. sched.pc = "alloc" /\ sched.r \in Requests
  BY <1>t DEF AllocAgain, AllocFatal, WorkStates, SchedPositions
<1>1. PICK r \in Requests : r = sched.r
  BY <1>0
<1>2. r \in ioSched /\ client' = client /\ heirs' = heirs /\ sched'.r = NoReq
  BY <1>t, <1>0, <1>1 DEF IoInv, AllocInv, Queued, AllocAgain, AllocFatal, BackToTop, SchedPositions
<1>3. \A e \in Devices : /\ dev'[e].io = dev[e].io /\ dev'[e].state = dev[e].state
                         /\ dev'[e].sub = dev[e].sub
  <2>1. dev' = dev \/ dev' = Unscheduled(Selected(r))
    BY <1>1 DEF AllocAgain, AllocFatal
  <2>2. CASE dev' = Unscheduled(Selected(r))
    BY <1>t, <2>2 DEF Unscheduled, DeviceStates
  <2> QED BY <2>1, <2>2
<1>4. CASE AllocAgain /\ running
  <2>1. UNCHANGED <<resp, reqc>>
    BY <1>4 DEF AllocAgain
  <2>2. ReservedIdle'
    BY <1>t, <1>2 DEF ReservedIdle
  <2> QED BY <1>2, <1>3, <2>1, <2>2, SchedQuiet
<1>5. CASE AllocFatal \/ (AllocAgain /\ ~running)
  <2>1. /\ resp' = resp \cup {<<r, "error">>}
        /\ reqc' = [reqc EXCEPT ![r] = Freed(WithError(@))]
    BY <1>1, <1>5 DEF AllocAgain, AllocFatal
  <2> QED BY <1>2, <1>3, <2>1, SchedRefusesIo
<1> QED BY <1>4, <1>5

LEMMA RefuseIo ==
    ASSUME IoInv, AllocInv', NEW r \in Requests, PopIncoming(r), ~running
    PROVE  IoInv'
<1> USE DEF queues, budget
<1>1. sched.r = NoReq
  BY InvTypes DEF PopIncoming, WorkStates, IoInv
<1>2. /\ r \in incoming /\ UNCHANGED <<dev, client, heirs, sched>>
      /\ resp' = resp \cup {<<r, "error">>}
      /\ reqc' = [reqc EXCEPT ![r] = Freed(WithError(@))]
  BY DEF PopIncoming
<1> QED BY <1>1, <1>2, SchedRefusesIo

\* sched_handle_error
LEMMA RetryIo ==
    ASSUME IoInv, AllocInv', NEW r \in Requests, NEW i \in Slots,
           RetryCancel(r, i) \/ RetryFatal(r, i)
    PROVE  IoInv'
<1> USE DEF queues, budget
<1>t. /\ reqc[r] \in Containers /\ dev \in [Devices -> DeviceStates]
      /\ reqc \in [Requests -> Containers]
  BY InvTypes DEF IoInv
<1>0. AtRetry(r, i) /\ i \in Media(r) /\ Placed(r, i) /\ UNCHANGED <<sched, client, heirs>>
  <2>1. AtRetry(r, i)
    BY DEF RetryCancel, RetryFatal, AtRetry
  <2>2. i \in Media(r) /\ Placed(r, i)
    BY <2>1 DEF IoInv, AllocInv, Tokens, PlacedLive, Placed
  <2> QED BY <2>1, <2>2 DEF RetryCancel, RetryFatal
<1>s. \A j \in Media(r) : j \in Slots
  BY MediaSlots
<1>1. CASE RetryCancel(r, i)
  <2> DEFINE f == Cancelled(reqc[r], r, i)
  <2>1. /\ f.err <=> reqc[r].err
        /\ f.answers = reqc[r].answers /\ f.devs = reqc[r].devs
        /\ \A j \in Slots : f.status[j] = IF j = i THEN "cancel" ELSE reqc[r].status[j]
    BY <1>t, CancelFields
  <2>2. reqc' = [reqc EXCEPT ![r] = f] /\ reqc[r].err /\ UNCHANGED <<dev, resp>>
    BY <1>1 DEF RetryCancel, Cancelled
  <2> HIDE DEF f
  <2>3. reqc'[r] = f /\ OnlyRequest(r)
    BY <1>t, <2>2 DEF OnlyRequest
  <2>4. /\ reqc'[r].err /\ reqc'[r].answers = reqc[r].answers
        /\ \A j \in Media(r) : reqc'[r].status[j] = "done" =>
              reqc[r].status[j] = "done" /\ reqc'[r].devs[j] = reqc[r].devs[j]
    BY <1>s, <2>1, <2>2, <2>3
  <2>5. \A q \in Requests : reqc'[q].devs = reqc[q].devs
    BY <2>1, <2>3 DEF OnlyRequest
  <2>6. Idleness'
    BY <1>0, <2>2, <2>5, KeepIdleness
  <2> QED BY <1>0, <2>2, <2>3, <2>4, <2>6, CancelStep
<1>2. CASE RetryFatal(r, i)
  <2> DEFINE f == Fatal(reqc[r], r, i)
  <2>1. /\ f.err /\ f.answers = reqc[r].answers + 1
        /\ \A j \in Slots : /\ f.status[j] # "done"
                            /\ reqc[r].status[j] = "todo" => f.devs[j] = reqc[r].devs[j]
    BY <1>t, FatalFields
  <2>2. /\ reqc' = [reqc EXCEPT ![r] = f] /\ ~reqc[r].err
        /\ resp' = resp \cup {<<r, "error">>}
        /\ dev' = CleanIo(dev, DoneDevs(reqc[r], r), Sock[r])
    BY <1>2 DEF RetryFatal
  <2> HIDE DEF f
  <2>3. reqc'[r] = f /\ OnlyRequest(r)
    BY <1>t, <2>2 DEF OnlyRequest
  <2>4. /\ reqc'[r].err /\ reqc'[r].answers = reqc[r].answers + 1
        /\ \A j \in Media(r) : reqc'[r].status[j] # "done"
    BY <1>s, <2>1, <2>3
  <2>5. \A q \in Requests, j \in Slots :
          reqc[q].status[j] = "todo" => reqc'[q].devs[j] = reqc[q].devs[j]
    BY <2>1, <2>3 DEF OnlyRequest
  <2>6. \A e \in Devices :
          /\ dev'[e].io = IF e \in DoneDevs(reqc[r], r) THEN dev[e].io \ {Sock[r]} ELSE dev[e].io
          /\ dev'[e].state = dev[e].state /\ dev'[e].sub = dev[e].sub
    BY <1>t, <2>2 DEF CleanIo, DeviceStates
  <2>7. Idleness'
    BY <1>0, <2>5, <2>6, KeepIdleness
  <2> QED BY <1>0, <2>2, <2>3, <2>4, <2>6, <2>7, FatalStep
<1> QED BY <1>1, <1>2

\* A device is chosen for a medium that no device has.
LEMMA ChooseIo ==
    ASSUME IoInv, AllocInv', NEW r \in Requests, NEW i \in Slots, NEW d \in Devices,
           reqc[r].status[i] = "todo", \A e \in Devices : dev[e].sub # <<r, i>>,
           reqc' = [reqc EXCEPT ![r].devs[i] = d],
           dev' = [dev EXCEPT ![d] = [dev[d] EXCEPT !.scheduled = TRUE]],
           UNCHANGED <<resp, client, heirs>>, ReservedIdle'
    PROVE  IoInv'
<1>t. reqc \in [Requests -> Containers] /\ dev \in [Devices -> DeviceStates]
  BY InvTypes DEF IoInv
<1>1. /\ \A q \in Requests : SameLife(reqc[q], reqc'[q])
      /\ \A q \in Requests : q # r => reqc'[q] = reqc[q]
      /\ \A j \in Slots : reqc'[r].devs[j] = IF j = i THEN d ELSE reqc[r].devs[j]
  BY <1>t DEF SameLife, Containers
<1>2. \A q \in Requests : SameDone(q)
  <2>1. SameDone(r)
    BY <1>1, MediaSlots DEF SameDone, SameLife
  <2>2. \A q \in Requests : q # r => SameDone(q)
    BY <1>1 DEF SameDone
  <2> QED BY <2>1, <2>2
<1>3. \A e \in Devices : /\ dev'[e].io = dev[e].io /\ dev'[e].state = dev[e].state
                         /\ dev'[e].sub = dev[e].sub
  BY <1>t DEF DeviceStates
<1>4. BusyIdle'
  BY <1>3 DEF IoInv, Idleness, BusyIdle
<1>5. SubDev'
  <2>1. ASSUME NEW e \in Devices, NEW q \in Requests, NEW j \in Slots, dev'[e].sub = <<q, j>>
        PROVE  reqc'[q].devs[j] = e
    <3>1. dev[e].sub = <<q, j>> /\ reqc[q].devs[j] = e
      BY <1>3, <2>1 DEF IoInv, Idleness, SubDev
    <3>2. q # r \/ j # i
      BY <3>1
    <3> QED BY <1>1, <3>1, <3>2
  <2> QED BY <2>1 DEF SubDev
<1> QED BY <1>1, <1>2, <1>3, <1>4, <1>5, SchedMoves

LEMMA RetrySelectIo ==
    ASSUME MaxIO = 1, IoInv, AllocInv', NEW r \in Requests, NEW i \in Slots, NEW d \in Devices,
           RetrySelect(r, i, d)
    PROVE  IoInv'
<1> USE DEF queues, budget
<1>t. /\ sched \in SchedPositions /\ reqc \in [Requests -> Containers]
      /\ dev \in [Devices -> DeviceStates]
  BY InvTypes DEF IoInv
<1>0. AtRetry(r, i)
  BY DEF RetrySelect, AtRetry
<1>1. /\ reqc[r].status[i] = "todo" /\ i \in Media(r)
      /\ \A e \in Devices : dev[e].sub # <<r, i>>
  BY <1>0 DEF IoInv, AllocInv, Tokens, PlacedLive, PlacedOnce, Placed, Once, OnDevice
<1>2. /\ reqc' = [reqc EXCEPT ![r].devs[i] = d]
      /\ dev' = [dev EXCEPT ![d] = [dev[d] EXCEPT !.scheduled = TRUE]]
      /\ UNCHANGED <<resp, client, heirs>>
      /\ sched'.pc = "repush" /\ sched'.r = r /\ sched'.i = i
  BY <1>t DEF RetrySelect, SetDev, SchedPositions
<1>3. dev[d].io = {}
  BY ReadyIdle DEF RetrySelect
<1>4. ReservedIdle'
  <2>1. Reserving(sched.r)' = {i}
    BY <1>1, <1>2 DEF Reserving, Media
  <2>2. reqc'[r].devs[i] = d /\ dev'[d].io = {}
    BY <1>t, <1>2, <1>3 DEF Containers, DeviceStates
  <2> QED BY <1>2, <2>1, <2>2 DEF ReservedIdle
<1> QED BY <1>1, <1>2, <1>4, ChooseIo

LEMMA AllocSelectIo ==
    ASSUME MaxIO = 1, IoInv, AllocInv', NEW d \in Devices, AllocSelect(d)
    PROVE  IoInv'
<1> USE DEF queues, budget
<1>t. /\ sched \in SchedPositions /\ reqc \in [Requests -> Containers]
      /\ dev \in [Devices -> DeviceStates] /\ (sched.r = NoReq <=> sched.pc \notin WorkStates)
  BY InvTypes DEF IoInv
<1>0. sched.pc = "alloc" /\ sched.r \in Requests
  BY <1>t DEF AllocSelect, WorkStates, SchedPositions
<1>1. PICK r \in Requests, i \in Slots : r = sched.r /\ i = sched.i /\ i \in Media(r)
  BY <1>t, <1>0, RequestAssumption, BoundAssumption
  DEF AllocSelect, SchedPositions, Media, Slots
<1>2. /\ reqc' = [reqc EXCEPT ![r].devs[i] = d]
      /\ dev' = [dev EXCEPT ![d] = [dev[d] EXCEPT !.scheduled = TRUE]]
      /\ UNCHANGED <<resp, client, heirs>>
      /\ sched'.pc = "alloc" /\ sched'.r = r /\ sched'.i = i + 1
  BY <1>t, <1>0, <1>1 DEF AllocSelect, SetDev, SchedPositions
<1>3. dev[d].io = {}
  BY ReadyIdle DEF AllocSelect
<1>4. AtSched(r, i)
  BY <1>0, <1>1 DEF IoInv, AllocInv, Queued, AtSched
<1>5. reqc[r].status[i] = "todo" /\ \A e \in Devices : dev[e].sub # <<r, i>>
  BY <1>1, <1>4 DEF IoInv, AllocInv, Tokens, PlacedLive, PlacedOnce, Placed, Once, OnDevice
<1>6. ReservedIdle'
  <2>1. Reserving(sched.r)' = Reserving(r) \cup {i} /\ i \notin Reserving(r)
    BY <1>0, <1>1, <1>2, RequestAssumption, BoundAssumption DEF Reserving, Media, Slots
  <2>2. \A j \in Reserving(r) : /\ j \in Slots /\ j # i /\ reqc[r].devs[j] \in Devices
                                /\ dev[reqc[r].devs[j]].io = {}
    BY <1>1, <2>1, ReservingTodo, MediaSlots
    DEF IoInv, Idleness, ReservedIdle, AllocInv, Reserved
  <2>3. /\ reqc'[r].devs[i] = d
        /\ \A j \in Slots : j # i => reqc'[r].devs[j] = reqc[r].devs[j]
        /\ \A e \in Devices : dev'[e].io = dev[e].io
    BY <1>t, <1>2 DEF Containers, DeviceStates
  <2>4. \A j \in Reserving(r) \cup {i} : dev'[reqc'[r].devs[j]].io = {}
    BY <1>3, <2>2, <2>3
  <2> QED BY <1>2, <2>1, <2>4 DEF ReservedIdle
<1> QED BY <1>2, <1>5, <1>6, ChooseIo

\* A reserved device is given its sub-request.
LEMMA GiveIo ==
    ASSUME IoInv, AllocInv', NEW r \in Requests, NEW i \in Slots, NEW d \in Devices,
           reqc[r].devs[i] = d, dev[d].io = {},
           \A e \in Devices : /\ dev'[e].io = dev[e].io /\ dev'[e].state = dev[e].state
                              /\ dev'[e].sub = IF e = d THEN <<r, i>> ELSE dev[e].sub,
           UNCHANGED <<reqc, resp, client, heirs>>, ReservedIdle'
    PROVE  IoInv'
<1>1. \A q \in Requests : SameLife(reqc[q], reqc'[q]) /\ SameDone(q)
  BY DEF SameLife, SameDone
<1>2. BusyIdle'
  BY DEF IoInv, Idleness, BusyIdle
<1>3. SubDev'
  BY DEF IoInv, Idleness, SubDev
<1> QED BY <1>1, <1>2, <1>3, SchedMoves

LEMMA PushIo ==
    ASSUME IoInv, AllocInv', RetryPush \/ PushStore
    PROVE  IoInv'
<1> USE DEF queues, budget
<1>t. /\ sched \in SchedPositions /\ NoReq \notin Requests
      /\ dev \in [Devices -> DeviceStates] /\ (sched.r = NoReq <=> sched.pc \notin WorkStates)
  BY InvTypes DEF IoInv
<1>0. sched.pc \in {"repush", "store"} /\ sched.r \in Requests
  BY <1>t DEF RetryPush, PushStore, WorkStates, SchedPositions
<1>1. PICK r \in Requests, i \in Slots : r = sched.r /\ i = sched.i /\ i \in Media(r)
  BY <1>0, MediaSlots DEF IoInv, AllocInv, Queued, Inv, Progress
<1>2. i \in Reserving(r)
  BY <1>0, <1>1, RequestAssumption, BoundAssumption DEF Reserving, Media, Slots
<1>3. PICK d \in Devices : d = reqc[r].devs[i] /\ dev[d].io = {}
  BY <1>1, <1>2 DEF IoInv, AllocInv, Reserved, Idleness, ReservedIdle
<1>4. UNCHANGED <<reqc, resp, client, heirs>>
  BY DEF RetryPush, PushStore
<1>5. \A e \in Devices : /\ dev'[e].io = dev[e].io /\ dev'[e].state = dev[e].state
                         /\ dev'[e].sub = IF e = d THEN <<r, i>> ELSE dev[e].sub
  <2>1. CASE RetryPush
    <3>1. dev' = [dev EXCEPT ![d] = [dev[d] EXCEPT !.sub = <<r, i>>, !.scheduled = FALSE]]
      BY <1>1, <1>3, <2>1 DEF RetryPush, SetDev
    <3> QED BY <1>t, <3>1 DEF DeviceStates
  <2>2. CASE PushStore
    <3>1. dev' = [dev EXCEPT ![d] = [dev[d] EXCEPT !.sub = <<r, i>>]]
      BY <1>1, <1>3, <2>2 DEF PushStore, SetDev
    <3> QED BY <1>t, <3>1 DEF DeviceStates
  <2> QED BY <2>1, <2>2
<1>6. ReservedIdle'
  <2>1. CASE RetryPush
    <3>1. sched'.r = NoReq
      BY <1>t, <2>1 DEF RetryPush, SchedPositions
    <3> QED BY <1>t, <3>1 DEF ReservedIdle
  <2>2. CASE PushStore
    <3>1. sched'.pc = "clear" /\ sched'.r = r /\ sched'.i = i /\ sched.pc = "store"
      BY <1>t, <1>1, <2>2 DEF PushStore, GotoSched, SchedPositions
    <3>2. Reserving(sched.r)' \subseteq Reserving(r)
      BY <1>1, <3>1, RequestAssumption, BoundAssumption DEF Reserving, Media, Slots
    <3>3. \A j \in Reserving(r) : reqc[r].devs[j] \in Devices /\ dev[reqc[r].devs[j]].io = {}
      BY <1>1 DEF IoInv, AllocInv, Reserved, Idleness, ReservedIdle
    <3> QED BY <1>4, <1>5, <3>1, <3>2, <3>3 DEF ReservedIdle
  <2> QED BY <2>1, <2>2
<1> QED BY <1>3, <1>4, <1>5, <1>6, GiveIo

LEMMA PushClearIo ==
    ASSUME IoInv, AllocInv', PushClear
    PROVE  IoInv'
<1> USE DEF queues, budget
<1>t. /\ sched \in SchedPositions /\ NoReq \notin Requests /\ reqc \in [Requests -> Containers]
      /\ dev \in [Devices -> DeviceStates] /\ (sched.r = NoReq <=> sched.pc \notin WorkStates)
  BY InvTypes DEF IoInv
<1>0. sched.pc = "clear" /\ sched.r \in Requests
  BY <1>t DEF PushClear, WorkStates, SchedPositions
<1>1. PICK r \in Requests, i \in Slots : r = sched.r /\ i = sched.i /\ i \in Media(r)
  BY <1>0, MediaSlots DEF IoInv, AllocInv, Inv, Progress
<1>2. PICK d \in Devices : d = reqc[r].devs[i]
  <2>1. reqc[r].devs[i] \in Devices \cup {NoDev}
    BY <1>t DEF Containers
  <2> QED BY <1>1, <2>1 DEF PushClear
<1>3. /\ UNCHANGED <<reqc, resp, client, heirs>>
      /\ dev' = [dev EXCEPT ![d] = [dev[d] EXCEPT !.scheduled = FALSE]]
  BY <1>1, <1>2 DEF PushClear, SetDev
<1>4. \A e \in Devices : /\ dev'[e].io = dev[e].io /\ dev'[e].state = dev[e].state
                         /\ dev'[e].sub = dev[e].sub
  BY <1>t, <1>3 DEF DeviceStates
<1>5. ReservedIdle'
  <2>1. CASE i = NMedia[r]
    <3>1. sched'.r = NoReq
      BY <1>t, <1>1, <2>1 DEF PushClear, BackToTop, SchedPositions
    <3> QED BY <1>t, <3>1 DEF ReservedIdle
  <2>2. CASE i # NMedia[r]
    <3>1. sched'.pc = "store" /\ sched'.r = r /\ sched'.i = i + 1
      BY <1>t, <1>1, <2>2 DEF PushClear, SchedPositions
    <3>2. Reserving(sched.r)' = Reserving(r)
      BY <1>0, <1>1, <3>1, RequestAssumption, BoundAssumption DEF Reserving, Media, Slots
    <3>3. \A j \in Reserving(r) : reqc[r].devs[j] \in Devices /\ dev[reqc[r].devs[j]].io = {}
      BY <1>1 DEF IoInv, AllocInv, Reserved, Idleness, ReservedIdle
    <3> QED BY <1>3, <1>4, <3>1, <3>2, <3>3 DEF ReservedIdle
  <2> QED BY <2>1, <2>2
<1> QED BY <1>3, <1>4, <1>5, SchedQuiet
-----------------------------------------------------------------------------
\* The communication thread.  What it does when the daemon stops changes no
\* I/O; the last of it drops the answers, when no device has any.
LEMMA StopIo ==
    ASSUME IoInv, AllocInv', Stop \/ MainCheck \/ MainLeave \/ FiniDevices
    PROVE  IoInv'
<1> USE DEF queues, budget
<1>t. sched \in SchedPositions /\ dev \in [Devices -> DeviceStates]
  BY InvTypes DEF IoInv
<1>1. UNCHANGED <<reqc, resp, client, heirs>>
  BY DEF Stop, MainCheck, MainLeave, FiniDevices
<1>2. UNCHANGED <<sched.r, sched.pc, sched.i>>
  BY <1>t DEF Stop, MainCheck, MainLeave, FiniDevices, SchedPositions
<1>3. \A e \in Devices : /\ dev'[e].io = dev[e].io /\ dev'[e].sub = dev[e].sub
                         /\ dev'[e].state \in {"dying", "ended"} => dev'[e].state = dev[e].state
  <2>1. CASE FiniDevices
    BY <1>t, <2>1 DEF FiniDevices, DeviceStates
  <2>2. CASE Stop \/ MainCheck \/ MainLeave
    <3>1. dev' = dev
      BY <2>2 DEF Stop, MainCheck, MainLeave
    <3> QED BY <3>1
  <2> QED BY <2>1, <2>2
<1>4. Idleness'
  BY <1>1, <1>2, <1>3, KeepIdleness
<1>5. \A q \in Requests : SameLife(reqc[q], reqc'[q]) /\ SameDone(q)
  BY <1>1 DEF SameLife, SameDone
<1> QED BY <1>1, <1>3, <1>4, <1>5, CalmStep

LEMMA FiniEndIo ==
    ASSUME IoInv, AllocInv', FiniEnd
    PROVE  IoInv'
<1> USE DEF queues, budget
<1>1. UNCHANGED <<reqc, dev, sched, client, heirs>> /\ resp' = {}
  BY DEF FiniEnd
<1>2. \A d \in Devices : dev[d].io = {} /\ dev'[d].io = {}
  BY DEF FiniEnd, IoInv, Idleness, DeadIdle
<1>3. \A r \in Requests, d \in Devices : \A i \in Media(r) : Holder(r, i, d)' => Holder(r, i, d)
  BY <1>1 DEF Holder, Served
<1>4. Holding'
  <2>1. Holding
    BY DEF IoInv
  <2> HIDE DEF Holding
  <2>2. \A r \in Requests : Own(r)' => Own(r)
    BY <1>1 DEF Own
  <2> QED BY <1>1, <1>2, <1>3, <2>1, <2>2, KeepHolding
<1>5. Idleness'
  BY <1>1, KeepIdleness
<1>6. ASSUME NEW r \in Requests PROVE AnswerOf(r)'
  <2>1. AnswerOf(r)
    BY DEF IoInv, Answers
  <2> QED BY <1>1, <2>1 DEF AnswerOf, AllDone, Media
<1>7. Answers'
  BY <1>6 DEF Answers
<1>8. Sharing'
  <2>1. \A q \in Requests : Served(q)' => Served(q)
    BY <1>1 DEF Served
  <2> QED BY <1>1, <2>1, KeepSharing DEF IoInv
<1> QED BY <1>4, <1>5, <1>7, <1>8 DEF IoInv

\* A new request holds nothing, and comes from an open connection.
LEMMA ReceiveIo ==
    ASSUME IoInv, AllocInv', NEW r \in Requests, Receive(r)
    PROVE  IoInv'
<1> USE DEF queues, budget
<1>t. /\ reqc \in [Requests -> Containers] /\ reqc[r] \in Containers
      /\ client \in [Requests -> ClientStates]
  BY InvTypes DEF IoInv, AllocInv, Inv, TypeOK
<1>1. UNCHANGED <<resp, dev, sched>> /\ client[r] = "idle"
  BY DEF Receive
<1>h. /\ \A q \in Requests : q # r => (q \in heirs' <=> q \in heirs)
      /\ r \in heirs => r \in heirs'
  BY DEF Receive
<1>2. /\ reqc[r].frees = 0 /\ ~reqc[r].err
      /\ \A j \in Media(r) : reqc[r].status[j] = "todo"
  BY <1>1 DEF IoInv, AllocInv, Tokens, AnsweredOnce
<1>3. CASE ~running
  <2>1. /\ reqc' = [reqc EXCEPT ![r] = Freed(WithError(reqc[r]))]
        /\ client' = [client EXCEPT ![r] = "refused"]
    BY <1>3 DEF Receive
  <2>2. reqc'[r] = Freed(WithError(reqc[r])) /\ OnlyRequest(r)
    BY <1>t, <2>1 DEF OnlyRequest
  <2>3. /\ reqc'[r].frees = 1 /\ reqc'[r].answers = reqc[r].answers + 1
        /\ reqc'[r].devs = reqc[r].devs /\ reqc'[r].status = reqc[r].status
    BY <1>t, <1>2, <2>2, RefusedFields
  <2>4. \A q \in Requests : reqc'[q].devs = reqc[q].devs
    BY <2>2, <2>3 DEF OnlyRequest
  <2>5. Idleness'
    BY <1>1, <2>4, KeepIdleness
  <2>6. /\ client'[r] = "refused"
        /\ \A q \in Requests : q # r => client'[q] = client[q]
    BY <1>t, <2>1
  <2> QED BY <1>1, <1>h, <1>2, <2>2, <2>3, <2>5, <2>6, RefuseStep
<1>4. CASE running
  <2>1. reqc' = reqc /\ client' = [client EXCEPT ![r] = "waiting"]
    BY <1>4 DEF Receive
  <2>2. /\ client'[r] = "waiting"
        /\ \A q \in Requests : q # r => client'[q] = client[q]
    BY <1>t, <2>1
  <2>3. \A q \in Requests : SameHolder(q)
    <3>1. \A q \in Requests : SameDone(q)
      BY <2>1 DEF SameDone
    <3>2. \A q \in Requests : client'[q] \in {"granted", "inherited"}
                                  <=> client[q] \in {"granted", "inherited"}
      BY <1>1, <2>2
    <3> QED BY <1>1, <2>1, <3>1, <3>2, HolderFrame
  <2>4. Holding'
    <3>1. \A q \in Requests : Own(q)' => Own(q)
      BY <1>1, <1>h, <2>2 DEF Own
    <3> QED BY <1>1, <2>3, <3>1, CalmHolding DEF IoInv
  <2>5. Idleness'
    BY <1>1, <2>1, KeepIdleness
  <2>6. ASSUME NEW q \in Requests PROVE AnswerOf(q)'
    <3>1. AnswerOf(q)
      BY DEF IoInv, Answers
    <3> QED BY <1>1, <2>1, <2>2, <3>1 DEF AnswerOf, AllDone, Media
  <2>7. Sharing'
    <3>1. \A q \in Requests : Served(q)' <=> Served(q)
      BY <1>1, <2>1 DEF Served
    <3>2. IF \E q \in Requests : Sock[q] = Sock[r] /\ Tainted(q)
          THEN r \in heirs' ELSE heirs' = heirs
      BY DEF Receive
    <3>3. r \notin heirs
      BY <1>1 DEF IoInv, Sharing, NoIdleHeir
    <3>4. ASSUME NEW q \in Requests, q # r, Sock[q] = Sock[r], client[q] \in {"waiting", "granted"}
          PROVE  r \in heirs' <=> q \in heirs
      <4>1. CASE q \in heirs
        BY <3>2, <3>4, <4>1 DEF Tainted
      <4>2. CASE \E p \in Requests : Sock[p] = Sock[r] /\ Tainted(p)
        <5>1. PICK p \in Requests : Sock[p] = Sock[r] /\ Tainted(p)
          BY <4>2
        <5>2. q \in heirs
          BY <3>4, <5>1 DEF Tainted, IoInv, Sharing, HeirSock, Kin
        <5> QED BY <3>2, <4>2, <5>2
      <4>3. CASE q \notin heirs /\ ~\E p \in Requests : Sock[p] = Sock[r] /\ Tainted(p)
        BY <3>2, <3>3, <4>3
      <4> QED BY <4>1, <4>2, <4>3
    <3>5. HeirSock'
      <4>1. ASSUME NEW p \in Requests, NEW q \in Requests, client'[p] = "gone", Served(p)',
                   Sock[q] = Sock[p], client'[q] \in {"waiting", "granted"}
            PROVE  q \in heirs'
        <5>1. p # r /\ client[p] = "gone" /\ Served(p)
          BY <2>2, <3>1, <4>1
        <5>2. CASE q = r
          BY <3>2, <4>1, <5>1, <5>2 DEF Tainted
        <5>3. CASE q # r
          BY <1>h, <2>2, <4>1, <5>1, <5>3 DEF IoInv, Sharing, HeirSock
        <5> QED BY <5>2, <5>3
      <4> QED BY <4>1 DEF HeirSock
    <3>6. Kin'
      <4>1. ASSUME NEW p \in Requests, NEW q \in Requests, Sock[q] = Sock[p],
                   client'[p] \in {"waiting", "granted"}, client'[q] \in {"waiting", "granted"}
            PROVE  p \in heirs' <=> q \in heirs'
        <5>1. CASE p # r /\ q # r
          BY <1>h, <2>2, <4>1, <5>1 DEF IoInv, Sharing, Kin
        <5>2. CASE p = r /\ q # r
          BY <1>h, <2>2, <3>4, <4>1, <5>2
        <5>3. CASE p # r /\ q = r
          BY <1>h, <2>2, <3>4, <4>1, <5>3
        <5> QED BY <5>1, <5>2, <5>3
      <4> QED BY <4>1 DEF Kin
    <3>7. NoIdleHeir'
      BY <1>h, <2>2 DEF IoInv, Sharing, NoIdleHeir
    <3> QED BY <3>5, <3>6, <3>7 DEF Sharing
  <2> QED BY <2>4, <2>5, <2>6, <2>7 DEF IoInv, Answers
<1> QED BY <1>3, <1>4

\* The devices of a request whose media were all mounted are those it holds.
LEMMA HeldAll ==
    ASSUME IoInv, NEW r \in Requests, <<r, "ok">> \in resp \/ client[r] = "granted"
    PROVE  Held(r) = DevsOf(reqc[r], r)
<1>1. AnswerOf(r) /\ NoDev \notin Devices
  BY NoneAssumption DEF IoInv, Answers
<1>2. AllDone(r)
  BY <1>1 DEF AnswerOf
<1>3. \A i \in Media(r) : reqc[r].devs[i] \in Devices /\ Holder(r, i, reqc[r].devs[i])
  BY <1>1, <1>2 DEF AnswerOf, AllDone, Holder, Served
<1>4. \A i \in Media(r), d \in Devices : Holder(r, i, d) => reqc[r].devs[i] = d
  BY DEF Holder
<1> QED BY <1>1, <1>3, <1>4 DEF Held, DevsOf

\* An answer is sent: the devices are granted, or given up.
LEMMA SendIo ==
    ASSUME IoInv, AllocInv', NEW r \in Requests, NEW k \in {"ok", "error"},
             NEW open \in BOOLEAN, Send(r, k, open)
    PROVE  IoInv'
<1> USE DEF queues, budget
<1>t. dev \in [Devices -> DeviceStates] /\ client \in [Requests -> ClientStates]
  BY InvTypes DEF IoInv, AllocInv, Inv, TypeOK
<1>1. /\ UNCHANGED <<reqc, sched, heirs>> /\ <<r, k>> \in resp /\ resp' = resp \ {<<r, k>>}
  BY DEF Send
<1>2. AnswerOf(r)
  BY DEF IoInv, Answers
<1>3. /\ client[r] \in {"waiting", "gone"} /\ reqc[r].answers = 1
      /\ \A m \in {"ok", "error"} : <<r, m>> \notin resp'
      /\ k = "ok" => AllDone(r)
      /\ k = "error" => <<r, "ok">> \notin resp
  BY <1>1, <1>2 DEF AnswerOf
<1>4. \A q \in Requests, m \in {"ok", "error"} : q # r =>
        (<<q, m>> \in resp' <=> <<q, m>> \in resp)
  BY <1>1
<1>g. PICK granted \in BOOLEAN : granted <=> k = "ok" /\ running /\ open
  OBVIOUS
<1>5. /\ \A q \in Requests : q # r => client'[q] = client[q]
      /\ client[r] = "gone" => client'[r] = IF granted THEN "inherited" ELSE "gone"
      /\ client[r] # "gone" => client'[r] = IF granted THEN "granted" ELSE "refused"
  BY <1>t, <1>g DEF Send
<1>6. \A q \in Requests : SameLife(reqc[q], reqc'[q]) /\ SameDone(q)
  BY <1>1 DEF SameLife, SameDone
<1>7. \A q \in Requests : q # r => SameHolder(q)
  BY <1>4, <1>5, <1>6, HolderFrame DEF SameLife
<1>8. ASSUME k = "error" \/ granted
      PROVE  Holding' /\ Idleness'
  <2>1. dev' = dev
    BY <1>g, <1>8 DEF Send
  <2>2. SameHolder(r)
    <3>1. CASE k = "error"
      <4>1. /\ <<r, "ok">> \notin resp' /\ client'[r] \notin {"granted", "inherited"}
            /\ client[r] \notin {"granted", "inherited"}
        BY <1>3, <1>g, <1>5, <3>1
      <4> QED BY <1>3, <1>6, <3>1, <4>1, HolderFrame DEF SameLife
    <3>2. CASE k # "error"
      <4>1. <<r, "ok">> \in resp /\ client'[r] \in {"granted", "inherited"}
        BY <1>1, <1>5, <1>8, <3>2
      <4> QED BY <1>1, <4>1 DEF SameHolder, Holder, Served
    <3> QED BY <3>1, <3>2
  <2>3. Holding'
    <3>1. \A q \in Requests : Own(q)' => Own(q)
      BY <1>1, <1>3, <1>5 DEF Own
    <3>2. \A q \in Requests : SameHolder(q)
      BY <1>7, <2>2
    <3> QED BY <2>1, <3>1, <3>2, CalmHolding DEF IoInv
  <2>4. Idleness'
    BY <1>1, <2>1, KeepIdleness
  <2> QED BY <2>3, <2>4
<1>9. ASSUME ~(k = "error" \/ granted)
      PROVE  Holding' /\ Idleness'
  <2>1. k = "ok" /\ dev' = CleanIo(dev, DevsOf(reqc[r], r), Sock[r])
    BY <1>g, <1>9 DEF Send
  <2>2. Held(r) = DevsOf(reqc[r], r)
    BY <1>1, <2>1, HeldAll
  <2>3. \A d \in Devices : /\ dev'[d].io = IF d \in Held(r) THEN dev[d].io \ {Sock[r]}
                                           ELSE dev[d].io
                           /\ dev'[d].state = dev[d].state /\ dev'[d].sub = dev[d].sub
    BY <1>t, <2>1, <2>2 DEF CleanIo, DeviceStates
  <2>4. \A i \in Media(r), d \in Devices : ~Holder(r, i, d)'
    <3>1. client'[r] \notin {"granted", "inherited"} /\ reqc'[r].frees = 1
      BY <1>1, <1>3, <1>5, <1>9, <2>1 DEF AllDone
    <3> QED BY <1>3, <3>1 DEF Holder, Served
  <2>5. Holding'
    BY <1>1, <1>3, <1>5, <1>7, <1>9, <2>3, <2>4, DropHolding
  <2>6. Idleness'
    BY <1>1, <2>3, KeepIdleness
  <2> QED BY <2>5, <2>6
<1>10. Answers'
  <2>1. \A q \in Requests : q # r => AnswerOf(q)'
    BY <1>4, <1>5, <1>6, SameAnswer DEF IoInv, Answers
  <2>2. AnswerOf(r)'
    BY <1>1, <1>2, <1>3, <1>g, <1>5 DEF AnswerOf, AllDone, Media
  <2> QED BY <2>1, <2>2 DEF Answers
<1>11. Sharing'
  <2>1. \A q \in Requests : Served(q)' => Served(q)
    BY <1>1 DEF Served
  <2> QED BY <1>1, <1>3, <1>5, <2>1, KeepSharing DEF IoInv
<1>12. Holding' /\ Idleness'
  BY <1>8, <1>9
<1> QED BY <1>10, <1>11, <1>12 DEF IoInv

\* The client releases what it was granted.
LEMMA ReleaseIo ==
    ASSUME IoInv, AllocInv', NEW r \in Requests, NEW written \in BOOLEAN, Release(r, written)
    PROVE  IoInv'
<1> USE DEF queues, budget
<1>t. dev \in [Devices -> DeviceStates] /\ client \in [Requests -> ClientStates]
  BY InvTypes DEF IoInv, AllocInv, Inv, TypeOK
<1>1. UNCHANGED <<reqc, resp, sched, heirs>> /\ client[r] = "granted"
  BY DEF Release
<1>2. AnswerOf(r)
  BY DEF IoInv, Answers
<1>3. AllDone(r) /\ \A m \in {"ok", "error"} : <<r, m>> \notin resp
  BY <1>1, <1>2 DEF AnswerOf
<1>4. /\ \A q \in Requests : q # r => client'[q] = client[q]
      /\ client'[r] = "released"
  BY <1>t DEF Release
<1>5. \A q \in Requests : SameLife(reqc[q], reqc'[q]) /\ SameDone(q)
  BY <1>1 DEF SameLife, SameDone
<1>6. \A q \in Requests : q # r => SameHolder(q)
  BY <1>1, <1>4, <1>5, HolderFrame DEF SameLife
<1>7. Held(r) = DevsOf(reqc[r], r)
  BY <1>1, HeldAll
<1>8. ASSUME NEW d \in Devices
      PROVE  /\ dev'[d].io = IF d \in Held(r) THEN dev[d].io \ {Sock[r]} ELSE dev[d].io
             /\ dev'[d].state = dev[d].state /\ dev'[d].sub = dev[d].sub
  <2>1. dev[d] \in DeviceStates
    BY <1>t
  <2>2. dev[d].state = "ended" => dev[d].io = {}
    BY DEF IoInv, Idleness, DeadIdle
  <2>3. CASE d \in DevsOf(reqc[r], r) /\ dev[d].state # "ended"
    <3>1. dev'[d] = [dev[d] EXCEPT !.io = @ \ {Sock[r]},
                        !.sync = IF written /\ @ = "clean" THEN "dirty" ELSE @]
      BY <2>3 DEF Release
    <3> QED BY <1>7, <2>1, <2>3, <3>1 DEF DeviceStates
  <2>4. CASE ~(d \in DevsOf(reqc[r], r) /\ dev[d].state # "ended")
    <3>1. dev'[d] = dev[d]
      BY <2>4 DEF Release
    <3> QED BY <1>7, <2>2, <2>4, <3>1
  <2> QED BY <2>3, <2>4
<1>9. \A i \in Media(r), d \in Devices : ~Holder(r, i, d)'
  BY <1>1, <1>3, <1>4 DEF Holder, Served, AllDone
<1>10. Holding'
  BY <1>1, <1>4, <1>6, <1>8, <1>9, DropHolding
<1>11. Idleness'
  BY <1>1, <1>8, KeepIdleness
<1>12. Answers'
  <2>1. \A q \in Requests : q # r => AnswerOf(q)'
    BY <1>1, <1>4, <1>5, SameAnswer DEF IoInv, Answers
  <2>2. AnswerOf(r)'
    BY <1>1, <1>2, <1>3, <1>4 DEF AnswerOf, AllDone, Media
  <2> QED BY <2>1, <2>2 DEF Answers
<1>13. Sharing'
  <2>1. \A q \in Requests : Served(q)' => Served(q)
    BY <1>1 DEF Served
  <2> QED BY <1>1, <1>4, <2>1, KeepSharing DEF IoInv
<1> QED BY <1>10, <1>11, <1>12, <1>13 DEF IoInv

\* A connection closes: its I/O are withdrawn from all devices, and those of
\* the other connections are not touched.
LEMMA CloseIo ==
    ASSUME IoInv, AllocInv', NEW s \in Sockets, Close(s)
    PROVE  IoInv'
<1> USE DEF queues, budget
<1>t. dev \in [Devices -> DeviceStates] /\ client \in [Requests -> ClientStates]
  BY InvTypes DEF IoInv, AllocInv, Inv, TypeOK
<1>1. UNCHANGED <<reqc, resp, sched, heirs>>
  BY DEF Close
<1>2. \A q \in Requests :
        client'[q] = IF Sock[q] = s /\ client[q] \in {"waiting", "granted", "inherited"}
                     THEN "gone" ELSE client[q]
  BY DEF Close
<1>3. \A d \in Devices : /\ dev'[d].io = dev[d].io \ {s}
                         /\ dev'[d].state = dev[d].state /\ dev'[d].sub = dev[d].sub
  BY <1>t DEF Close, CleanIo, DeviceStates
<1>4. ASSUME NEW r \in Requests, NEW d \in Devices, NEW i \in Media(r)
      PROVE  /\ Holder(r, i, d)' => Holder(r, i, d)
             /\ Holder(r, i, d)' /\ Own(r)' /\ Sock[r] \in dev[d].io
                   => Sock[r] \in dev'[d].io
             /\ Holder(r, i, d) /\ Sock[r] \in dev'[d].io => Holder(r, i, d)'
  <2>1. Holder(r, i, d)' => Holder(r, i, d)
    BY <1>1, <1>2 DEF Holder, Served
  <2>2. Holder(r, i, d) => client[r] \in {"waiting", "granted", "gone", "inherited"}
    BY HolderClient
  <2>3. Holder(r, i, d)' /\ Own(r)' => Sock[r] # s
    BY <1>2, <2>1, <2>2 DEF Own
  <2>4. Sock[r] # s /\ Holder(r, i, d) => Holder(r, i, d)'
    BY <1>1, <1>2 DEF Holder, Served
  <2> QED BY <1>3, <2>1, <2>3, <2>4
<1>5. Holding'
  <2>1. \A q \in Requests : Own(q)' => Own(q)
    BY <1>1, <1>2 DEF Own
  <2>2. \A d \in Devices : dev'[d].io \subseteq dev[d].io
    BY <1>3
  <2> QED BY <1>4, <2>1, <2>2, KeepHolding DEF IoInv
<1>6. Idleness'
  BY <1>1, <1>3, KeepIdleness
<1>7. ASSUME NEW q \in Requests PROVE AnswerOf(q)'
  <2>1. AnswerOf(q)
    BY DEF IoInv, Answers
  <2> QED BY <1>1, <1>2, <2>1 DEF AnswerOf, AllDone, Media
<1>8. Sharing'
  <2>1. \A q \in Requests : Served(q)' <=> Served(q)
    BY <1>1 DEF Served
  <2>2. \A q \in Requests : client'[q] \in {"waiting", "granted"} =>
          Sock[q] # s /\ client[q] \in {"waiting", "granted"}
    BY <1>2
  <2>3. \A q \in Requests : client'[q] = "gone" => Sock[q] = s \/ client[q] = "gone"
    BY <1>2
  <2>4. \A q \in Requests : client'[q] = "idle" => client[q] = "idle"
    BY <1>2
  <2> QED BY <1>1, <2>1, <2>2, <2>3, <2>4 DEF IoInv, Sharing, HeirSock, Kin, NoIdleHeir
<1> QED BY <1>5, <1>6, <1>7, <1>8 DEF IoInv, Answers
-----------------------------------------------------------------------------
\* IoInv is inductive.
LEMMA InitIo == Init => IoInv
<1> SUFFICES ASSUME Init PROVE IoInv
  OBVIOUS
<1>1. AllocInv
  BY InitAlloc
<1>2. \A r \in Requests :
        /\ client[r] = "idle" /\ reqc[r].answers = 0 /\ reqc[r].frees = 0
        /\ \A i \in Media(r) : reqc[r].status[i] = "todo"
  BY MediaSlots DEF Init, NewReqc
<1>3. /\ resp = {} /\ sched.r = NoReq
      /\ \A d \in Devices : dev[d].io = {} /\ dev[d].sub = NoSub
  BY DEF Init
<1>4. \A r \in Requests, d \in Devices : \A i \in Media(r) : ~Holder(r, i, d)
  BY <1>2 DEF Holder
<1>5. Holding
  BY <1>3, <1>4 DEF Holding, HolderIo, IoHeld, OneHolder, OneIo
<1>6. Idleness
  <2>1. SubDev
    <3>1. \A r \in Requests, i \in Slots : <<r, i>> # NoSub
      BY NoneAssumption
    <3> QED BY <1>3, <3>1 DEF SubDev
  <2> QED BY <1>3, <2>1, NoneAssumption DEF Idleness, DeadIdle, BusyIdle, ReservedIdle
<1>7. Answers /\ Sharing
  <2>1. heirs = {}
    BY DEF Init
  <2> QED BY <1>2, <1>3, <2>1 DEF Answers, AnswerOf, AllDone, Sharing, HeirSock, Kin, NoIdleHeir
<1> QED BY <1>1, <1>5, <1>6, <1>7 DEF IoInv

LEMMA IoNext == ASSUME MaxIO = 1, IoInv, [Next]_vars PROVE IoInv'
<1>0. AllocInv'
  BY AllocNext DEF IoInv
<1>1. CASE Scheduler
  <2>1. CASE \E r \in Requests : PopIncoming(r)
    BY <1>0, <2>1, QueueIo, RefuseIo
  <2>2. CASE \E d \in Devices : AllocSelect(d)
    BY <1>0, <2>2, AllocSelectIo
  <2>3. CASE \E r \in Requests, i \in Slots :
               \/ RetryCancel(r, i) \/ RetryFatal(r, i)
               \/ \E d \in Devices : RetrySelect(r, i, d)
    BY <1>0, <2>3, RetryIo, RetrySelectIo
  <2>4. CASE RetryPush \/ PushStore
    BY <1>0, <2>4, PushIo
  <2>5. CASE PushClear
    BY <1>0, <2>5, PushClearIo
  <2>6. CASE AllocAgain \/ AllocFatal
    BY <1>0, <2>6, CancelIo
  <2> QED BY <1>0, <1>1, <2>1, <2>2, <2>3, <2>4, <2>5, <2>6, QueueIo DEF Scheduler
<1>2. CASE \E d \in Devices : Device(d)
  BY <1>0, <1>2, DeviceIo
<1>3. CASE Main \/ Stop
  BY <1>0, <1>3, SendIo, StopIo, FiniEndIo DEF Main
<1>4. CASE \E r \in Requests : Receive(r) \/ \E written \in BOOLEAN : Release(r, written)
  BY <1>0, <1>4, ReceiveIo, ReleaseIo
<1>5. CASE \E s \in Sockets : Close(s)
  BY <1>0, <1>5, CloseIo
<1>6. CASE Terminated \/ UNCHANGED vars
  <2>1. UNCHANGED <<reqc, resp, dev, sched, client, heirs>>
    BY <1>6 DEF Terminated, vars
  <2>2. Idleness'
    BY <2>1, KeepIdleness
  <2>3. \A q \in Requests : SameLife(reqc[q], reqc'[q]) /\ SameDone(q)
    BY <2>1 DEF SameLife, SameDone
  <2> QED BY <1>0, <2>1, <2>2, <2>3, CalmStep
<1> QED BY <1>1, <1>2, <1>3, <1>4, <1>5, <1>6 DEF Next
-----------------------------------------------------------------------------
LEMMA AtMostOne ==
    ASSUME NEW S, \A s, t \in S : s = t
    PROVE  Cardinality(S) <= 1
<1>1. CASE S = {}
  BY <1>1, FS_EmptySet
<1>2. CASE S # {}
  <2>1. PICK x : S = {x}
    BY <1>2
  <2>2. Cardinality({x}) = 1
    BY FS_Singleton
  <2> QED BY <2>1, <2>2
<1> QED BY <1>1, <1>2

\* A request that has its devices holds each of them.
LEMMA GrantHolds ==
    ASSUME IoInv, NEW r \in Requests, <<r, "ok">> \in resp \/ client[r] = "granted",
           NEW d \in DevsOf(reqc[r], r)
    PROVE  d \in Devices /\ \E i \in Media(r) : Holder(r, i, d)
BY HeldAll DEF Held

\* dev_clean_io, release_on_socket_close, rwalloc_cancel_DONE_devices and
\* the mounts keep ld_ongoing_io exact where a device serves one request at
\* a time, although it names connections by a number that is used again: every
\* I/O of a device is that of a request being served there, about to be
\* granted or granted, there is one at most, and a granted one is known to its
\* devices unless an earlier connection of its number was closed under a
\* request that was still served.
THEOREM AllocOngoingIo == ASSUME MaxIO = 1 PROVE Spec => []OngoingIo
<1>1. IoInv => OngoingIo
  <2> SUFFICES ASSUME IoInv PROVE OngoingIo
    OBVIOUS
  <2>1. NoStrayIo
    <3>1. ASSUME NEW d \in Devices, NEW s \in dev[d].io
          PROVE  \E r \in Requests : /\ Sock[r] = s /\ d \in DevsOf(reqc[r], r)
                                     /\ Served(r) \/ client[r] \in {"granted", "inherited"}
      <4>1. PICK r \in Requests : \E i \in Media(r) : Sock[r] = s /\ Holder(r, i, d)
        BY <3>1 DEF IoInv, Holding, IoHeld
      <4>2. PICK i \in Media(r) : Sock[r] = s /\ Holder(r, i, d)
        BY <4>1
      <4>3. d \in DevsOf(reqc[r], r)
        BY <4>2, NoneAssumption DEF Holder, DevsOf
      <4> QED BY <4>2, <4>3 DEF Holder
    <3> QED BY <3>1 DEF NoStrayIo
  <2>2. GrantKept
    <3>1. ASSUME NEW r \in Requests, client[r] = "granted", OwnKey(r), NEW d \in DevsOf(reqc[r], r)
          PROVE  Sock[r] \in dev[d].io
      <4>1. d \in Devices /\ \E i \in Media(r) : Holder(r, i, d)
        BY <3>1, GrantHolds
      <4>2. Own(r)
        BY <3>1 DEF Own, OwnKey
      <4> QED BY <4>1, <4>2 DEF IoInv, Holding, HolderIo
    <3> QED BY <3>1 DEF GrantKept
  <2>3. IoBound
    BY AtMostOne DEF IoBound, IoInv, Holding, OneIo
  <2> QED BY <2>1, <2>2, <2>3 DEF OngoingIo
<1>2. IoInv /\ [Next]_vars => IoInv'
  BY IoNext
<1> QED BY <1>1, <1>2, InitIo, PTL DEF Spec
-----------------------------------------------------------------------------
\* No step touches a container that was freed.
LEMMA FreedStays ==
    ASSUME AllocInv, [Next]_vars, NEW r \in Requests, reqc[r].frees > 0
    PROVE  reqc'[r] = reqc[r]
<1> USE DEF queues, budget
<1>0. EndsOnce
  BY FreedUnknown
<1>1. /\ r \notin incoming \cup ioSched /\ ~InHand(r)
      /\ \A i \in Slots : /\ <<r, i>> \notin retry
                          /\ \A d \in Devices : dev[d].sub # <<r, i>>
      /\ client[r] # "idle"
  BY <1>0 DEF EndsOnce, FreedOnce, AllocInv, Tokens, AnsweredOnce
<1>t. reqc \in [Requests -> Containers] /\ dev \in [Devices -> DeviceStates]
  BY InvTypes
<1>2. ASSUME NEW d \in Devices, Device(d) PROVE reqc'[r] = reqc[r]
  <2>1. dev[d].sub # NoSub => dev[d].sub[1] # r
    <3>1. dev[d].sub \in (Requests \X Slots) \cup {NoSub}
      BY <1>t DEF DeviceStates
    <3> QED BY <1>1, <3>1
  <2>2. CASE NeedsSync(d) \/ ClientFailed(d) \/ DevEnd(d)
    BY <2>2 DEF NeedsSync, ClientFailed, DevEnd
  <2>3. CASE DevDone(d)
    BY <1>t, <2>1, <2>3 DEF DevDone, CanHandle, HasSub
  <2>4. CASE \E died \in BOOLEAN : DevCancel(d, died)
    BY <1>t, <2>1, <2>4 DEF DevCancel, HasSub
  <2>5. CASE \E died \in BOOLEAN : DevRequeue(d, died) \/ Sync(d, died)
    BY <2>5 DEF DevRequeue, Sync
  <2>6. CASE \E died \in BOOLEAN : DevFatal(d, died)
    BY <1>t, <2>1, <2>6 DEF DevFatal, CanHandle, HasSub
  <2>7. CASE \E requeued \in BOOLEAN : DyingSub(d, requeued)
    BY <1>t, <2>1, <2>7 DEF DyingSub
  <2> QED BY <1>2, <2>2, <2>3, <2>4, <2>5, <2>6, <2>7 DEF Device
<1>3. ASSUME Scheduler PROVE reqc'[r] = reqc[r]
  <2>1. CASE SchedTop \/ RetryDone \/ IncomingDone \/ NoWork \/ RetryPush \/ Publish
             \/ PushStore \/ PushClear \/ \E q \in Requests : Peek(q)
    BY <2>1 DEF SchedTop, RetryDone, IncomingDone, NoWork, RetryPush, Publish, PushStore,
                PushClear, Peek
  <2>2. ASSUME NEW q \in Requests, PopIncoming(q) PROVE reqc'[r] = reqc[r]
    BY <1>t, <1>1, <2>2 DEF PopIncoming
  <2>3. ASSUME NEW q \in Requests, NEW i \in Slots,
               \/ RetryCancel(q, i) \/ RetryFatal(q, i)
               \/ \E d \in Devices : RetrySelect(q, i, d)
        PROVE  reqc'[r] = reqc[r]
    <3>1. q # r
      BY <1>1, <2>3 DEF RetryCancel, RetryFatal, RetrySelect
    <3> QED BY <1>t, <2>3, <3>1 DEF RetryCancel, RetryFatal, RetrySelect
  <2>4. CASE AllocAgain \/ AllocFatal \/ \E d \in Devices : AllocSelect(d)
    <3>1. sched.r # r
      BY <1>1, <2>4 DEF AllocAgain, AllocFatal, AllocSelect, InHand
    <3> QED BY <1>t, <2>4, <3>1 DEF AllocAgain, AllocFatal, AllocSelect
  <2> QED BY <1>3, <2>1, <2>2, <2>3, <2>4 DEF Scheduler
<1>4. ASSUME NEW q \in Requests, Receive(q) PROVE reqc'[r] = reqc[r]
  BY <1>t, <1>1, <1>4 DEF Receive
<1>5. CASE \/ Main \/ Stop \/ Terminated \/ UNCHANGED vars \/ \E s \in Sockets : Close(s)
           \/ \E q \in Requests : \E written \in BOOLEAN : Release(q, written)
  BY <1>5 DEF Main, Send, MainCheck, MainLeave, FiniDevices, FiniEnd, Stop, Terminated,
              vars, Close, Release
<1> QED BY <1>2, <1>3, <1>4, <1>5 DEF Next

\* The devices a client has, as AllocPromise sees them.
GrantOf(r) == IF client[r] = "granted" THEN DevsOf(reqc[r], r) ELSE {}

\* Only an answer that grants the request and what ends it change them.
LEMMA SameGrant ==
    ASSUME IoInv, [Next]_vars, NEW r \in Requests,
           client'[r] = "granted" => client[r] = "granted"
    PROVE  GrantOf(r)' = IF client'[r] = "granted" THEN GrantOf(r) ELSE {}
<1>0. AnswerOf(r)
  BY DEF IoInv, Answers
<1>1. client[r] = "granted" => reqc[r].frees > 0
  BY <1>0 DEF AnswerOf, AllDone
<1>2. client[r] = "granted" => reqc'[r] = reqc[r]
  BY <1>1, FreedStays DEF IoInv
<1>3. GrantOf(r)' = IF client'[r] = "granted" THEN DevsOf(reqc'[r], r) ELSE {}
  BY DEF GrantOf, DevsOf, Media
<1> QED BY <1>2, <1>3 DEF GrantOf

\* The answer of a request whose media were all mounted names as many devices
\* as media, and no other client has any of them.
LEMMA FullGrant ==
    ASSUME IoInv, NEW r \in Requests, <<r, "ok">> \in resp, client[r] = "waiting",
           r \notin heirs
    PROVE  /\ Cardinality(DevsOf(reqc[r], r)) = NMedia[r]
           /\ \A q \in Requests \ heirs : client[q] = "granted" =>
                 DevsOf(reqc[q], q) \cap DevsOf(reqc[r], r) = {}
<1>1. \A d \in DevsOf(reqc[r], r) : d \in Devices /\ \E i \in Media(r) : Holder(r, i, d)
  BY GrantHolds
<1>2. AllDone(r) /\ \A i \in Media(r) : reqc[r].devs[i] \in Devices
  BY DEF IoInv, Answers, AnswerOf, AllDone
<1>3. Own(r) /\ \A i \in Media(r) : Holder(r, i, reqc[r].devs[i])
  BY <1>2 DEF AllDone, Holder, Served, Own
<1>4. \A i, j \in Media(r) : reqc[r].devs[i] = reqc[r].devs[j] => i = j
  BY <1>2, <1>3 DEF IoInv, Holding, OneHolder
<1>5. Cardinality(DevsOf(reqc[r], r)) = NMedia[r]
  <2>1. NMedia[r] \in Nat
    BY RequestAssumption, BoundAssumption DEF Slots
  <2>2. DevsOf(reqc[r], r) = {reqc[r].devs[i] : i \in 1..NMedia[r]}
    BY <1>2, NoneAssumption DEF DevsOf, Media
  <2> DEFINE D == DevsOf(reqc[r], r)
             f == [i \in 1..NMedia[r] |-> reqc[r].devs[i]]
  <2>3. f \in Bijection(1..NMedia[r], D)
    <3>1. f \in [1..NMedia[r] -> D]
      BY <2>2
    <3>2. \A i, j \in 1..NMedia[r] : f[i] = f[j] => i = j
      BY <1>4 DEF Media
    <3>3. \A d \in D : \E i \in 1..NMedia[r] : f[i] = d
      BY <2>2
    <3> HIDE DEF f, D
    <3> QED BY <3>1, <3>2, <3>3 DEF Bijection, Injection, Surjection, IsInjective
  <2>4. ExistsBijection(1..NMedia[r], D)
    BY <2>3 DEF ExistsBijection
  <2> HIDE DEF D
  <2>5. Cardinality(D) = NMedia[r]
    BY <2>1, <2>4, FS_CountingElements
  <2> QED BY <2>5 DEF D
<1>6. ASSUME NEW q \in Requests, q \notin heirs, client[q] = "granted", NEW d \in DevsOf(reqc[q], q),
             d \in DevsOf(reqc[r], r)
      PROVE  FALSE
  <2>1. PICK i \in Media(r) : Holder(r, i, d) /\ d \in Devices
    BY <1>1, <1>6
  <2>2. PICK j \in Media(q) : Holder(q, j, d)
    BY <1>6, GrantHolds
  <2>3. q = r
    <3>1. Own(q)
      BY <1>6 DEF Own
    <3> QED BY <1>3, <1>6, <2>1, <2>2, <3>1 DEF IoInv, Holding, OneHolder
  <2> QED BY <1>6, <2>3
<1> QED BY <1>5, <1>6

\* AllocPromise counts with the same Cardinality.
LEMMA SameCardinality == \A S : Promise!Cardinality(S) = Cardinality(S)
BY DEF Promise!Cardinality, Cardinality

\* Every step of the daemon is a step of AllocPromise, or none.
LEMMA PromiseStep ==
    ASSUME MaxIO = 1, IoInv, [Next]_vars
    PROVE  [Promise!Next]_(Promise!vars)
<1> DEFINE G == [r \in Requests |-> IF client[r] = "granted" THEN DevsOf(reqc[r], r) ELSE {}]
<1>t. client \in [Requests -> ClientStates]
  BY DEF IoInv, AllocInv, Inv, TypeOK
<1>g. G = [r \in Requests |-> GrantOf(r)] /\ G' = [r \in Requests |-> GrantOf(r)']
  BY DEF GrantOf
<1> HIDE DEF G
<1>0. CASE UNCHANGED <<client, heirs>>
  <2>1. \A r \in Requests : GrantOf(r)' = GrantOf(r)
    BY <1>0, SameGrant DEF GrantOf
  <2>2. UNCHANGED <<client, heirs, G>>
    BY <1>0, <1>g, <2>1
  <2> QED BY <2>2 DEF G, Promise!vars
<1>1. ASSUME NEW r \in Requests, Receive(r) PROVE Promise!Next
  <2>1. /\ client[r] = "idle"
        /\ \/ client' = [client EXCEPT ![r] = "waiting"]
           \/ client' = [client EXCEPT ![r] = "refused"]
    BY <1>1 DEF Receive
  <2>2. \A q \in Requests : client'[q] = "granted" <=> client[q] = "granted"
    BY <1>t, <2>1
  <2>3. \A q \in Requests : GrantOf(q)' = GrantOf(q)
    BY <2>2, SameGrant DEF GrantOf
  <2>4. G' = G
    BY <1>g, <2>3
  <2>5. Promise!Received(r)
    <3>1. CASE \E q \in Requests : Sock[q] = Sock[r] /\ Tainted(q)
      <4>1. heirs' = heirs \cup {r}
        BY <1>1, <3>1 DEF Receive
      <4>2. \E q \in Requests : Sock[q] = Sock[r] /\ (client[q] = "gone" \/ q \in heirs)
        BY <3>1 DEF Tainted
      <4> QED BY <4>1, <4>2 DEF Promise!Received
    <3>2. CASE ~\E q \in Requests : Sock[q] = Sock[r] /\ Tainted(q)
      BY <1>1, <3>2 DEF Receive, Promise!Received
    <3> QED BY <3>1, <3>2
  <2>6. Promise!Ask(r) \/ Promise!Refuse(r)
    BY <2>1, <2>4, <2>5 DEF G, Promise!Ask, Promise!Refuse
  <2> QED BY <2>6 DEF Promise!Next
<1>2. ASSUME NEW r \in Requests, NEW k \in {"ok", "error"}, NEW open \in BOOLEAN, Send(r, k, open), client' # client
      PROVE  Promise!Next
  <2>g. PICK granted \in BOOLEAN : granted <=> k = "ok" /\ running /\ open
    OBVIOUS
  <2>1. /\ <<r, k>> \in resp /\ UNCHANGED <<reqc, heirs>>
        /\ client' = [client EXCEPT ![r] =
                        IF client[r] = "gone" THEN (IF granted THEN "inherited" ELSE "gone")
                        ELSE IF granted THEN "granted" ELSE "refused"]
    BY <1>2, <2>g DEF Send
  <2>2. client[r] \in {"waiting", "gone"} /\ (k = "ok" => DevsOf(reqc[r], r) \subseteq Devices)
    <3>1. AnswerOf(r)
      BY DEF IoInv, Answers
    <3>2. k = "ok" => \A i \in Media(r) : reqc[r].devs[i] \in Devices
      BY <2>1, <3>1 DEF AnswerOf, AllDone
    <3> QED BY <2>1, <3>1, <3>2 DEF AnswerOf, DevsOf
  <2>3. \A q \in Requests : q # r => client'[q] = client[q]
    BY <1>t, <2>1
  <2>4. \A q \in Requests : q # r => GrantOf(q)' = GrantOf(q)
    BY <2>3, SameGrant DEF GrantOf
  <2>5. CASE granted /\ client[r] = "waiting"
    <3>1. PICK D : D = DevsOf(reqc[r], r)
      OBVIOUS
    <3>2. /\ D \subseteq Devices
          /\ r \notin heirs =>
                /\ Cardinality(D) = NMedia[r]
                /\ \A q \in Requests \ heirs :
                      client[q] = "granted" => DevsOf(reqc[q], q) \cap D = {}
      BY <2>g, <2>1, <2>2, <2>5, <3>1, FullGrant
    <3>3. client' = [client EXCEPT ![r] = "granted"] /\ client'[r] = "granted"
      BY <1>t, <2>1, <2>5
    <3>4. GrantOf(r)' = D
      BY <2>1, <3>1, <3>3 DEF GrantOf, DevsOf, Media
    <3>5. G' = [G EXCEPT ![r] = D]
      BY <1>g, <2>4, <3>4
    <3>6. r \notin heirs => \A d \in D : Promise!Users(d) = {}
      BY <3>2 DEF Promise!Users
    <3>7. r \notin heirs => \A d \in D : Promise!Cardinality(Promise!Users(d)) < MaxIO
      BY <3>6, FS_EmptySet, SameCardinality
    <3>8. Promise!Grant(r, D)
      BY <2>1, <2>5, <3>2, <3>3, <3>5, <3>7, SameCardinality DEF G, Promise!Grant
    <3> QED BY <3>2, <3>8 DEF Promise!Next
  <2>6. CASE ~granted /\ client[r] = "waiting"
    <3>1. client' = [client EXCEPT ![r] = "refused"] /\ client'[r] = "refused"
      BY <1>t, <2>1, <2>6
    <3>2. GrantOf(r)' = GrantOf(r)
      BY <2>6, <3>1 DEF GrantOf
    <3>3. G' = G
      BY <1>g, <2>4, <3>2
    <3>4. Promise!Refuse(r)
      BY <2>1, <2>6, <3>1, <3>3 DEF G, Promise!Refuse
    <3> QED BY <3>4 DEF Promise!Next
  <2>7. CASE client[r] = "gone"
    <3>1. client' = [client EXCEPT ![r] = "inherited"] /\ client'[r] = "inherited"
      BY <1>t, <1>2, <2>1, <2>7
    <3>2. GrantOf(r)' = GrantOf(r)
      BY <2>7, <3>1 DEF GrantOf
    <3>3. G' = G
      BY <1>g, <2>4, <3>2
    <3>4. Promise!Inherit(r)
      BY <2>1, <2>7, <3>1, <3>3 DEF G, Promise!Inherit
    <3> QED BY <3>4 DEF Promise!Next
  <2> QED BY <2>2, <2>5, <2>6, <2>7
<1>3. ASSUME NEW r \in Requests, NEW written \in BOOLEAN, Release(r, written)
      PROVE  Promise!Next
  <2>1. /\ client[r] = "granted" /\ client' = [client EXCEPT ![r] = "released"]
        /\ heirs' = heirs
    BY <1>3 DEF Release
  <2>2. client'[r] = "released" /\ \A q \in Requests : q # r => client'[q] = client[q]
    BY <1>t, <2>1
  <2>3. GrantOf(r)' = {} /\ \A q \in Requests : q # r => GrantOf(q)' = GrantOf(q)
    BY <2>2, SameGrant DEF GrantOf
  <2>4. G' = [G EXCEPT ![r] = {}]
    BY <1>g, <2>3
  <2>5. Promise!Release(r)
    BY <2>1, <2>4 DEF G, Promise!Release
  <2> QED BY <2>5 DEF Promise!Next
<1>4. ASSUME NEW s \in Sockets, Close(s) PROVE Promise!Next
  <2>0. PICK R \in SUBSET Requests :
          R = {r \in Requests : Sock[r] = s /\ client[r] \in {"waiting", "granted", "inherited"}}
    OBVIOUS
  <2>1. /\ client' = [r \in Requests |-> IF r \in R THEN "gone" ELSE client[r]]
        /\ heirs' = heirs
    BY <1>4, <2>0 DEF Close
  <2>3. \A r \in Requests : GrantOf(r)' = IF r \in R THEN {} ELSE GrantOf(r)
    BY <2>1, SameGrant DEF GrantOf
  <2>4. G' = [r \in Requests |-> IF r \in R THEN {} ELSE G[r]]
    BY <1>g, <2>3
  <2>5. Promise!Leave(R)
    BY <2>1, <2>4 DEF G, Promise!Leave
  <2> QED BY <2>5 DEF Promise!Next
<1>5. CASE Scheduler \/ \E d \in Devices : Device(d)
  <2>1. CASE Scheduler
    BY <1>0, <2>1 DEF Scheduler, SchedTop, RetryDone, IncomingDone, NoWork, RetryPush,
                Publish, PushStore, PushClear, Peek, PopIncoming, RetryCancel, RetryFatal,
                RetrySelect, AllocAgain, AllocFatal, AllocSelect
  <2>2. CASE \E d \in Devices : Device(d)
    <3>1. PICK d \in Devices : Device(d)
      BY <2>2
    <3>2. CASE DevDone(d) \/ NeedsSync(d) \/ ClientFailed(d) \/ DevEnd(d)
      BY <1>0, <3>2 DEF DevDone, NeedsSync, ClientFailed, DevEnd
    <3>3. CASE \E died \in BOOLEAN : \/ DevCancel(d, died) \/ DevRequeue(d, died)
                                     \/ DevFatal(d, died) \/ Sync(d, died)
      BY <1>0, <3>3 DEF DevCancel, DevRequeue, DevFatal, Sync
    <3>4. CASE \E requeued \in BOOLEAN : DyingSub(d, requeued)
      BY <1>0, <3>4 DEF DyingSub
    <3> QED BY <3>1, <3>2, <3>3, <3>4 DEF Device
  <2> QED BY <1>5, <2>1, <2>2
<1>6. CASE Stop \/ MainCheck \/ MainLeave \/ FiniDevices \/ FiniEnd \/ Terminated
           \/ UNCHANGED vars
  <2>1. UNCHANGED <<client, heirs>>
    BY <1>6 DEF Stop, MainCheck, MainLeave, FiniDevices, FiniEnd, Terminated, vars
  <2> QED BY <1>0, <2>1
<1>7. ASSUME NEW r \in Requests, NEW k \in {"ok", "error"}, NEW open \in BOOLEAN,
             Send(r, k, open), client' = client
      PROVE  UNCHANGED <<client, heirs>>
  BY <1>7 DEF Send
<1> QED BY <1>0, <1>1, <1>2, <1>3, <1>4, <1>5, <1>6, <1>7 DEF Next, Main

\* The allocation requests, as their clients see them, behave as AllocPromise
\* where a device serves one request at a time: whatever the threads of the
\* daemon, the failures and the disconnections did in between, _send_message
\* grants as many distinct devices as media were requested, none of which
\* another client has, or an error; but for the requests that come under the
\* number of a connection closed while the daemon served a request of it.
THEOREM AllocKeepsPromise == ASSUME MaxIO = 1 PROVE Spec => KeepsPromise
<1>1. Init => Promise!Init
  <2>1. ASSUME Init PROVE \A r \in Requests : client[r] = "idle"
    BY <2>1 DEF Init
  <2> QED BY <2>1 DEF Init, Promise!Init
<1>2. IoInv /\ [Next]_vars => IoInv'
  BY IoNext
<1>3. IoInv /\ [Next]_vars => [Promise!Next]_(Promise!vars)
  BY PromiseStep
<1> QED BY <1>1, <1>2, <1>3, InitIo, PTL DEF Spec, KeepsPromise, Promise!Spec
=============================================================================
