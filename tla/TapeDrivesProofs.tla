-------------------------- MODULE TapeDrivesProofs --------------------------
(***************************************************************************)
(* Proofs about TapeDrives, for any hosts, drives, tapes, library devices, *)
(* retries and bounds.  The invariant is built in layers, each of which    *)
(* rests on the ones before it:                                            *)
(*   LibInv    types, the requests the TLC knows, its cache;               *)
(*   ShapeInv  what the program counter of a device thread says of its     *)
(*             tape, its call to the TLC and its LRS;                      *)
(*   MountInv  a mounted tape cannot leave its drive;                      *)
(*   LockInv   the locks of an LRS are those of the tapes it works on;     *)
(*   CallInv   the load of a dead LRS is served before any other of its    *)
(*             tape, and nobody else works on a tape that a device names;  *)
(*   PlaceInv  what a device knows of its drive.                           *)
(* A layer has one lemma for each actor: the thread of a drive, an LRS,    *)
(* the TLC with the library.  What a step of the model makes of a device, of   *)
(* its call and of the tapes is stated once, before ShapeInv, and the      *)
(* layers above only use that.                                             *)
(***************************************************************************)
EXTENDS TapeDrives, WellFoundedInduction, SequenceTheorems, TLAPS

DevRecord ==
    [th : {"off", "run", "dying"}, op : {"failed", "empty", "loaded", "mounted"},
     med : Tapes \cup {None}, sub : Tapes \cup {None},
     kind : {"none", "read", "write", "format"},
     pc : {"idle", "own", "fill", "acquire", "lock", "check", "umount", "unload",
           "release", "load", "mount", "df", "format",
           "stop", "stop_release", "stop_device"}]

RpcRecord ==
    [st : {"none", "open", "sent", "orphan", "ok", "err", "lost", "pipe"},
     op : {"none", "load", "unload"}, tape : Tapes \cup {None},
     tries : 0..MaxDeviceRetry]

TlcRecord ==
    [up : BOOLEAN, cache : [Elements -> ElementStatus], fds : SUBSET LibDevs,
     cur : 0..NbLibDev, queue : Seq(Drives), busy : BOOLEAN]

-----------------------------------------------------------------------------
(* The operators of TapeLibrary.                                           *)

LEMMA LeastNat ==
  ASSUME NEW T \in SUBSET Nat, T # {}
  PROVE  \E x \in T : \A y \in T : x <= y
<1>1. PICK x \in T : \A y \in T : ~ (<<y, x>> \in OpToRel(<, Nat))
  BY WFMin, NatLessThanWellFounded, Zenon
<1>2. ASSUME NEW y \in T PROVE x <= y
  <2>1. y < x => <<y, x>> \in OpToRel(<, Nat)
    BY Zenon DEF OpToRel
  <2>2. ~ (y < x)
    BY <1>1, <2>1, Zenon
  <2> QED
    BY <2>2
<1> QED
  BY <1>2

LEMMA FirstOpenedIn ==
  ASSUME NEW shut
  PROVE  FirstOpened(LibDevs, shut) \in 0..NbLibDev
<1> DEFINE opened == LibDevs \ shut
<1>1. CASE opened = {}
  BY <1>1, RetryAssumption DEF FirstOpened
<1>2. CASE opened # {}
  <2>0. opened \in SUBSET Nat
    BY RetryAssumption DEF LibDevs
  <2>1. \E i \in opened : \A j \in opened : i <= j
    BY <1>2, <2>0, LeastNat
  <2>2. (CHOOSE i \in opened : \A j \in opened : i <= j) \in opened
    BY <2>1
  <2> QED
    BY <1>2, <2>2, RetryAssumption DEF FirstOpened, LibDevs
<1> QED
  BY <1>1, <1>2

LEMMA NextFdIn ==
  ASSUME NEW valid \in SUBSET LibDevs, NEW cur \in 0..NbLibDev
  PROVE  NextFd(NbLibDev, valid, cur) \in 0..NbLibDev
<1> DEFINE rank(i) == IF i > cur THEN i - cur ELSE i + NbLibDev - cur
           ranks == {rank(i) : i \in valid}
<1>1. CASE valid = {}
  BY <1>1, RetryAssumption DEF NextFd
<1>2. CASE valid # {}
  <2>1. \A i \in valid : rank(i) \in Nat
    BY RetryAssumption DEF LibDevs
  <2> HIDE DEF rank
  <2>2. ranks \in SUBSET Nat /\ ranks # {}
    BY <1>2, <2>1
  <2>3. PICK r \in ranks : \A q \in ranks : r <= q
    <3> HIDE DEF ranks
    <3> QED
      BY <2>2, LeastNat
  <2>4. \E i \in valid : \A j \in valid : rank(i) <= rank(j)
    BY <2>3
  <2>5. (CHOOSE i \in valid : \A j \in valid : rank(i) <= rank(j)) \in valid
    BY <2>4
  <2>6. NextFd(NbLibDev, valid, cur) = CHOOSE i \in valid : \A j \in valid : rank(i) <= rank(j)
    BY <1>2, Zenon DEF NextFd, rank
  <2>7. NextFd(NbLibDev, valid, cur) \in valid
    BY <2>5, <2>6, Zenon
  <2>8. valid \subseteq 0..NbLibDev
    BY RetryAssumption DEF LibDevs
  <2> QED
    BY <2>7, <2>8, Zenon
<1> QED
  BY <1>1, <1>2

LEMMA LibStatusReads ==
  ASSUME NEW a \in [Tapes -> Elements], NEW f \in [Tapes -> Slots \cup {None}],
         \A t, u \in Tapes : a[t] = a[u] => t = u
  PROVE  /\ LibStatus(a, f) \in [Elements -> ElementStatus]
         /\ \A e \in Elements : LibStatus(a, f)[e].full => LibStatus(a, f)[e].vol \in Tapes
         /\ \A t \in Tapes : Holding(LibStatus(a, f), t) = {a[t]}
<1> DEFINE here(e) == {t \in Tapes : a[t] = e}
           L == LibStatus(a, f)
<1>1. ASSUME NEW e \in Elements
      PROVE  \/ here(e) = {} /\ L[e] = [full |-> FALSE, vol |-> None, src |-> None]
             \/ \E t \in here(e) : L[e] = [full |-> TRUE, vol |-> t, src |-> f[t]]
  <2>1. CASE here(e) = {}
    BY <2>1 DEF LibStatus
  <2>2. CASE here(e) # {}
    <3>1. (CHOOSE t \in here(e) : TRUE) \in here(e)
      BY <2>2
    <3>2. L[e] = [full |-> TRUE, vol |-> CHOOSE t \in here(e) : TRUE,
                  src |-> f[CHOOSE t \in here(e) : TRUE]]
      BY <2>2, Zenon DEF LibStatus
    <3> QED
      BY <3>1, <3>2, Zenon
  <2> QED
    BY <2>1, <2>2
<1>2. L = [e \in Elements |-> L[e]]
  BY Zenon DEF LibStatus
<1> HIDE DEF L
<1>3. ASSUME NEW e \in Elements
      PROVE  L[e] \in ElementStatus /\ (L[e].full => L[e].vol \in Tapes)
  <2>1. CASE L[e] = [full |-> FALSE, vol |-> None, src |-> None]
    BY <2>1 DEF ElementStatus
  <2>2. ASSUME NEW t \in here(e), L[e] = [full |-> TRUE, vol |-> t, src |-> f[t]]
        PROVE  L[e] \in ElementStatus /\ L[e].vol \in Tapes
    <3>1. t \in Tapes /\ f[t] \in Elements \cup {None}
      BY DEF Elements
    <3> QED
      BY <2>2, <3>1 DEF ElementStatus
  <2> QED
    BY <1>1, <2>1, <2>2
<1>4. ASSUME NEW t \in Tapes, NEW e \in Elements
      PROVE  L[e].full /\ L[e].vol = t <=> e = a[t]
  <2>1. ASSUME here(e) = {}, L[e] = [full |-> FALSE, vol |-> None, src |-> None]
        PROVE  ~L[e].full /\ e # a[t]
    BY <2>1
  <2>2. ASSUME NEW u \in here(e), L[e] = [full |-> TRUE, vol |-> u, src |-> f[u]]
        PROVE  L[e].full /\ L[e].vol = u /\ a[u] = e
    BY <2>2
  <2>3. CASE here(e) = {} /\ L[e] = [full |-> FALSE, vol |-> None, src |-> None]
    BY <2>1, <2>3, Zenon
  <2>4. ASSUME NEW u \in here(e), L[e] = [full |-> TRUE, vol |-> u, src |-> f[u]]
        PROVE  L[e].full /\ L[e].vol = t <=> e = a[t]
    <3>1. u \in Tapes /\ L[e].full /\ L[e].vol = u /\ a[u] = e
      BY <2>2, <2>4
    <3> QED
      BY <3>1
  <2> QED
    BY <1>1, <2>3, <2>4, Zenon
<1>5. ASSUME NEW t \in Tapes PROVE Holding(L, t) = {a[t]}
  BY <1>4 DEF Holding
<1>6. L \in [Elements -> ElementStatus]
  BY <1>2, <1>3
<1> QED
  BY <1>3, <1>5, <1>6 DEF L

LEMMA MoveTapeTracks ==
  ASSUME NEW L \in [Elements -> ElementStatus], NEW e \in Elements, NEW f \in Elements,
         \A g \in Elements : L[g].full => L[g].vol \in Tapes,
         L[e].full
  PROVE  /\ MoveTape(L, e, f) \in [Elements -> ElementStatus]
         /\ \A g \in Elements : MoveTape(L, e, f)[g].full => MoveTape(L, e, f)[g].vol \in Tapes
         /\ \A t \in Tapes : e # f => 
              \A g \in Elements : MoveTape(L, e, f)[g].full /\ MoveTape(L, e, f)[g].vol = t <=>
                IF g = f THEN L[e].vol = t ELSE g # e /\ L[g].full /\ L[g].vol = t
<1> DEFINE M == MoveTape(L, e, f)
<1>1. /\ M[f] = [full |-> TRUE, vol |-> L[e].vol, src |-> e]
      /\ e # f => M[e].full = FALSE /\ M[e] \in ElementStatus
      /\ \A g \in Elements \ {e, f} : M[g] = L[g]
      /\ M = [g \in Elements |-> M[g]]
  BY DEF MoveTape, ElementStatus
<1> HIDE DEF M
<1>2. ASSUME NEW g \in Elements PROVE M[g] \in ElementStatus
  <2>1. CASE g = f
    <3>1. L[e].vol \in Tapes
      OBVIOUS
    <3>2. [full |-> TRUE, vol |-> L[e].vol, src |-> e] \in ElementStatus
      BY <3>1, Zenon DEF ElementStatus
    <3> QED
      BY <1>1, <2>1, <3>2, Zenon
  <2> QED
    BY <1>1, <2>1
<1>3. M \in [Elements -> ElementStatus]
  BY <1>1, <1>2
<1>4. \A g \in Elements : M[g].full => M[g].vol \in Tapes
  BY <1>1
<1>5. \A t \in Tapes : e # f =>
        \A g \in Elements : M[g].full /\ M[g].vol = t <=>
          IF g = f THEN L[e].vol = t ELSE g # e /\ L[g].full /\ L[g].vol = t
  BY <1>1
<1> QED
  BY <1>3, <1>4, <1>5 DEF M

\* The tape to load is taken where the cache says it is.
LEMMA LabelHolds ==
  ASSUME NEW L, NEW t, MediaElementStatusFromLabel(L, t) # None
  PROVE  MediaElementStatusFromLabel(L, t) \in Holding(L, t)
BY DEF MediaElementStatusFromLabel

\* A tape is put in a slot.
LEMMA TargetIsSlot ==
  ASSUME NEW L, NEW d, TargetFreeSlot(L, d) # None
  PROVE  TargetFreeSlot(L, d) \in Slots
BY DEF TargetFreeSlot, GetFreeSlot

-----------------------------------------------------------------------------
(* Types.                                                                  *)

LibTypes ==
    /\ at \in [Tapes -> Elements] /\ from \in [Tapes -> Slots \cup {None}]
    /\ mnt \subseteq Drives /\ fs \in [Tapes -> {"blank", "ok", "full"}]
TlcTypes == tlc \in TlcRecord /\ stale \in BOOLEAN
RpcTypes == rpc \in [Drives -> RpcRecord]
HostTypes ==
    /\ host \in [Hosts -> {"down", "init", "up", "stop"}]
    /\ pid \in [Hosts -> 0..MaxCrash + 1] /\ torn \subseteq Tapes \X Defects
DevTypes == dev \in [Drives -> DevRecord]
DssTypes ==
    /\ adm \in [Tapes -> {"unlocked", "failed"}] /\ dadm \in [Drives -> {"unlocked", "failed"}]
    /\ health \in [Tapes -> 0..MaxHealth] /\ dhealth \in [Drives -> 0..MaxHealth]

LEMMA TypeParts ==
  /\ TypeOK <=> LibTypes /\ TlcTypes /\ RpcTypes /\ HostTypes /\ DevTypes /\ DssTypes
  /\ TypeOK' <=> LibTypes' /\ TlcTypes' /\ RpcTypes' /\ HostTypes' /\ DevTypes' /\ DssTypes'
BY Zenon DEF TypeOK, LibTypes, TlcTypes, RpcTypes, HostTypes, DevTypes, DssTypes, DevRecord,
   RpcRecord, TlcRecord

\* How a sub-request ends: its device may have failed.
Over(D, dead) ==
    [D EXCEPT !.sub = None, !.kind = "none", !.pc = "idle",
              !.op = IF dead THEN "failed" ELSE @, !.th = IF dead THEN "dying" ELSE @]
Ends(d, D) == \E dead \in BOOLEAN : dev' = [dev EXCEPT ![d] = Over(D, dead)]

LEMMA OverFields ==
  ASSUME NEW D \in DevRecord, NEW dead \in BOOLEAN
  PROVE  /\ Over(D, dead) \in DevRecord
         /\ Over(D, dead).sub = None /\ Over(D, dead).kind = "none" /\ Over(D, dead).pc = "idle"
         /\ Over(D, dead).med = D.med
         /\ dead => Over(D, dead).op = "failed" /\ Over(D, dead).th = "dying"
         /\ ~dead => Over(D, dead).op = D.op /\ Over(D, dead).th = D.th
<1>1. Over(D, dead) \in DevRecord
  <2>1. CASE dead
    BY <2>1, Zenon DEF DevRecord, Over
  <2>2. CASE ~dead
    BY <2>2, Zenon DEF DevRecord, Over
  <2> QED
    BY <2>1, <2>2
<1>2. /\ Over(D, dead).sub = None /\ Over(D, dead).kind = "none" /\ Over(D, dead).pc = "idle"
      /\ Over(D, dead).med = D.med
  BY DEF DevRecord, Over
<1>3. /\ dead => Over(D, dead).op = "failed" /\ Over(D, dead).th = "dying"
      /\ ~dead => Over(D, dead).op = D.op /\ Over(D, dead).th = D.th
  BY DEF DevRecord, Over
<1> QED
  BY <1>1, <1>2, <1>3

LEMMA EndSubEnds ==
  ASSUME NEW d, NEW D, EndSub(d, D)
  PROVE  Ends(d, D)
<1> DEFINE dead == dhealth[d] > 0 /\ dhealth'[d] = 0
<1>1. dead \in BOOLEAN
  OBVIOUS
<1>2. dev' = [dev EXCEPT ![d] = Over(D, dead)]
  BY Zenon DEF EndSub, Over
<1> QED
  BY <1>1, <1>2, Zenon DEF Ends

\* What a failed sub-request changes.
FailEffect(d, D) ==
    /\ Ends(d, D)
    /\ DssTypes' /\ UNCHANGED <<dlock, dadm>>
    /\ \/ lock' = lock /\ adm' = adm
       \/ /\ lock' = ReleaseRow(lock, D.sub, d)
          /\ adm' \in {adm, [adm EXCEPT ![D.sub] = "failed"]}

LEMMA HealthTypes ==
  ASSUME DssTypes, NEW t, NEW d, NEW yes \in BOOLEAN, NEW n \in Nat
  PROVE  /\ LoseMedium(t, yes) => health' \in [Tapes -> 0..MaxHealth]
                                  /\ adm' \in [Tapes -> {"unlocked", "failed"}]
         /\ LoseDevice(d, n) => dhealth' \in [Drives -> 0..MaxHealth]
<1>1. \A m \in 0..MaxHealth : Less(m) \in 0..MaxHealth
  BY HealthAssumption DEF Less
<1> QED
  BY <1>1 DEF DssTypes, LoseMedium, LoseDevice

LEMMA ReadWriteFailsEffect ==
  ASSUME DssTypes, NEW d, NEW D, NEW onDevice \in BOOLEAN, NEW onMedium \in BOOLEAN,
         ReadWriteFails(d, D, onDevice, onMedium)
  PROVE  FailEffect(d, D)
<1>1. Ends(d, D)
  BY EndSubEnds DEF ReadWriteFails
<1>2. dhealth' \in [Drives -> 0..MaxHealth]
  BY HealthTypes DEF ReadWriteFails
<1>3. health' \in [Tapes -> 0..MaxHealth] /\ adm' \in [Tapes -> {"unlocked", "failed"}]
  BY HealthTypes DEF ReadWriteFails
<1>4. \/ lock' = lock /\ adm' = adm
      \/ lock' = ReleaseRow(lock, D.sub, d) /\ adm' = [adm EXCEPT ![D.sub] = "failed"]
  BY Zenon DEF ReadWriteFails, LoseMedium, FailReleased
<1> QED
  BY <1>1, <1>2, <1>3, <1>4 DEF FailEffect, DssTypes, ReadWriteFails

LEMMA FormatFailsEffect ==
  ASSUME DssTypes, NEW d, NEW D, NEW onDevice \in BOOLEAN, NEW onMedium \in BOOLEAN,
         NEW lost \in BOOLEAN, FormatFails(d, D, onDevice, onMedium, lost)
  PROVE  FailEffect(d, D)
<1>1. CASE lost
  BY <1>1, EndSubEnds DEF FormatFails, FailEffect, DssTypes
<1>2. CASE ~lost
  <2> DEFINE fails == onDevice /\ dhealth[d] = 1
             left == IF onMedium THEN Less(health[D.sub]) ELSE health[D.sub]
             n == (IF onDevice THEN 1 ELSE 0) + (IF left = 0 THEN 1 ELSE 0)
             failed == (onMedium /\ health[D.sub] = 1) \/ (~onMedium /\ ~fails)
             freed == (onMedium /\ health[D.sub] = 1) \/ ~onMedium
  <2>1. /\ LoseDevice(d, n) /\ health' = [health EXCEPT ![D.sub] = left]
        /\ adm' = IF failed THEN [adm EXCEPT ![D.sub] = "failed"] ELSE adm
        /\ lock' = FailReleased(D.sub, d, freed)
        /\ EndSub(d, D) /\ UNCHANGED <<dlock, dadm>>
    BY <1>2, Zenon DEF FormatFails
  <2>2. n \in Nat
    OBVIOUS
  <2>3. dhealth' \in [Drives -> 0..MaxHealth]
    <3> HIDE DEF n
    <3> QED
      BY <2>1, <2>2, HealthTypes
  <2>4. D.sub \in Tapes => left \in 0..MaxHealth
    BY HealthAssumption DEF Less, DssTypes
  <2>5. health' \in [Tapes -> 0..MaxHealth]
    <3> HIDE DEF left
    <3> QED
      BY <2>1, <2>4 DEF DssTypes
  <2>6. adm' \in {adm, [adm EXCEPT ![D.sub] = "failed"]}
    BY <2>1, Zenon
  <2>7. adm' \in [Tapes -> {"unlocked", "failed"}]
    BY <2>6 DEF DssTypes
  <2>8. \/ lock' = lock /\ adm' = adm
        \/ lock' = ReleaseRow(lock, D.sub, d)
    BY <2>1, Zenon DEF FailReleased
  <2> QED
    BY <2>1, <2>3, <2>5, <2>6, <2>7, <2>8, EndSubEnds DEF FailEffect, DssTypes
<1> QED
  BY <1>1, <1>2

LEMMA FailsEffect ==
  ASSUME DssTypes, NEW d, NEW D, NEW onDevice \in BOOLEAN, NEW onMedium \in BOOLEAN,
         NEW lost \in BOOLEAN, Fails(d, D, onDevice, onMedium, lost)
  PROVE  FailEffect(d, D)
BY FormatFailsEffect, ReadWriteFailsEffect DEF Fails

LEMMA EndsTypes ==
  ASSUME DevTypes, NEW d \in Drives, NEW D \in DevRecord, Ends(d, D)
  PROVE  DevTypes'
<1>1. PICK dead \in BOOLEAN : dev' = [dev EXCEPT ![d] = Over(D, dead)]
  BY Zenon DEF Ends
<1>2. Over(D, dead) \in DevRecord
  BY OverFields
<1> QED
  BY <1>1, <1>2 DEF DevTypes

LEMMA SucceedsEffect ==
  ASSUME DssTypes, NEW d, NEW D, Succeeds(d, D)
  PROVE  /\ dev' = [dev EXCEPT ![d] = Over(D, FALSE)]
         /\ DssTypes' /\ UNCHANGED <<lock, dlock, adm, dadm>>
<1>1. dev' = [dev EXCEPT ![d] = Over(D, FALSE)]
  BY Zenon DEF Succeeds, Over
<1> DEFINE more(m) == IF m < MaxHealth THEN m + 1 ELSE m
<1>2. \A m \in 0..MaxHealth : more(m) \in 0..MaxHealth
  BY HealthAssumption
<1>3. /\ health' = [health EXCEPT ![D.sub] = more(@)]
      /\ dhealth' = [dhealth EXCEPT ![d] = more(@)]
      /\ UNCHANGED <<lock, dlock, adm, dadm>>
  BY Zenon DEF Succeeds
<1> HIDE DEF more
<1>4. health' \in [Tapes -> 0..MaxHealth] /\ dhealth' \in [Drives -> 0..MaxHealth]
  BY <1>2, <1>3 DEF DssTypes
<1> QED
  BY <1>1, <1>3, <1>4 DEF DssTypes

LEMMA SucceedsEnds ==
  ASSUME DssTypes, NEW d, NEW D, Succeeds(d, D)
  PROVE  Ends(d, D)
BY SucceedsEffect, Zenon DEF Ends

Added == [Off EXCEPT !.th = "run", !.pc = "own"]

LEMMA IdleOff == Idle \in RpcRecord /\ Off \in DevRecord /\ Added \in DevRecord
<1>1. 0 \in 0..MaxDeviceRetry
  BY RetryAssumption
<1>2. Idle \in RpcRecord
  BY <1>1, Zenon DEF Idle, RpcRecord
<1>3. Off \in DevRecord
  BY Zenon DEF Off, DevRecord
<1>4. Added \in DevRecord
  BY DEF Off, Added, DevRecord
<1> QED
  BY <1>2, <1>3, <1>4

\* The steps that leave the library and the TLC as they are.
Assigned(d) == \E t \in Tapes, k \in {"read", "write", "format"} : Assign(d, t, k)
DeviceStep(d) ==
    \/ Assigned(d) \/ Check(d) \/ Umount(d) \/ UmountFails(d) \/ LibOpen(d) \/ LibRefused(d)
    \/ UnloadEnds(d) \/ Release(d) \/ LoadEnds(d) \/ Mount(d) \/ MountFails(d) \/ Df(d) \/ Format(d)
    \/ FormatError(d) \/ CleanupOnError(d) \/ Own(d) \/ Fill(d) \/ Acquire(d) \/ TakeLock(d)
    \/ StopDevice(d) \/ AdminUnlock(d)
HostStep(h) == StartHost(h) \/ CleanLocks(h) \/ StopHost(h) \/ HostEnds(h) \/ Crash(h)

LEMMA CalmTypes ==
  ASSUME TypeOK, NEW d \in Drives, DeviceStep(d)
  PROVE  TypeOK'
<1> USE DEF libVars, tlcVars, hostVars, dssVars
<1>0. /\ LibTypes /\ TlcTypes /\ RpcTypes /\ HostTypes /\ DevTypes /\ DssTypes
      /\ dev[d] \in DevRecord /\ rpc[d] \in RpcRecord
  BY TypeParts DEF DevTypes, RpcTypes
<1>b. ASSUME Ends(d, dev[d]) PROVE DevTypes'
  BY <1>0, <1>b, EndsTypes
<1>f. ASSUME NEW x \in BOOLEAN, NEW y \in BOOLEAN, NEW z \in BOOLEAN, Fails(d, dev[d], x, y, z)
      PROVE  DevTypes' /\ DssTypes'
  BY <1>0, <1>f, <1>b, FailsEffect, Zenon DEF FailEffect
<1>c. ASSUME Closed(d) PROVE RpcTypes'
  BY <1>0, <1>c, IdleOff DEF Closed, RpcTypes
<1>g. ASSUME NEW pc \in {"idle", "own", "fill", "acquire", "lock", "check", "umount", "unload",
                         "release", "load", "mount", "df", "format",
                         "stop", "stop_release", "stop_device"}, Go(d, pc)
      PROVE  DevTypes'
  BY <1>0, <1>g DEF Go, DevTypes, DevRecord
<1>1. CASE Assigned(d)
  <2>0. PICK t \in Tapes, k \in {"read", "write", "format"} : Assign(d, t, k)
    BY <1>1 DEF Assigned
  <2>1. DevTypes'
    BY <1>0, <2>0 DEF Assign, DevTypes, DevRecord
  <2>2. HostTypes'
    BY <1>0, <2>0 DEF Assign, HostTypes, Defects
  <2>3. LibTypes' /\ TlcTypes' /\ RpcTypes' /\ DssTypes'
    BY <1>0, <2>0 DEF Assign, LibTypes, TlcTypes, RpcTypes, DssTypes
  <2> QED
    BY <2>1, <2>2, <2>3, TypeParts
<1>2. CASE Check(d)
  <2>1. DevTypes' /\ DssTypes'
    <3>1. CASE Succeeds(d, dev[d])
      BY <1>0, <1>b, <3>1, SucceedsEffect, SucceedsEnds
    <3>2. CASE /\ UNCHANGED dssVars
               /\ \E pc \in {"umount", "format", "mount", "unload", "load"} : Go(d, pc)
      BY <1>0, <1>g, <3>2 DEF DssTypes
    <3> QED
      BY <1>2, <3>1, <3>2, Zenon DEF Check
  <2>3. LibTypes' /\ TlcTypes' /\ RpcTypes' /\ HostTypes'
    BY <1>0, <1>2 DEF Check, LibTypes, TlcTypes, RpcTypes, HostTypes
  <2> QED
    BY <2>1, <2>3, TypeParts
<1>3. CASE Umount(d)
  <2>1. DevTypes'
    BY <1>0, <1>3 DEF Umount, DevTypes, DevRecord
  <2>2. LibTypes'
    BY <1>0, <1>3 DEF Umount, LibTypes
  <2>3. TlcTypes' /\ RpcTypes' /\ HostTypes' /\ DssTypes'
    BY <1>0, <1>3 DEF Umount, TlcTypes, RpcTypes, HostTypes, DssTypes
  <2> QED
    BY <2>1, <2>2, <2>3, TypeParts
<1>4. CASE UmountFails(d) \/ LibRefused(d) \/ MountFails(d)
  <2>1. DevTypes' /\ DssTypes'
    BY <1>4, <1>f, Zenon DEF UmountFails, LibRefused, MountFails
  <2>3. LibTypes' /\ TlcTypes' /\ RpcTypes' /\ HostTypes'
    BY <1>0, <1>4 DEF UmountFails, LibRefused, MountFails, LibTypes, TlcTypes, RpcTypes, HostTypes
  <2> QED
    BY <2>1, <2>3, TypeParts
<1>5. CASE LibOpen(d)
  <2>1. RpcTypes'
    <3>1. [st |-> "open", op |-> dev[d].pc, tries |-> 0,
           tape |-> IF dev[d].pc = "load" THEN dev[d].sub ELSE dev[d].med] \in RpcRecord
      BY <1>0, <1>5, RetryAssumption DEF LibOpen, RpcRecord, DevRecord
    <3> QED
      BY <1>0, <1>5, <3>1 DEF LibOpen, RpcTypes
  <2>3. LibTypes' /\ TlcTypes' /\ HostTypes' /\ DevTypes' /\ DssTypes'
    BY <1>0, <1>5 DEF LibOpen, LibTypes, TlcTypes, HostTypes, DevTypes, DssTypes
  <2> QED
    BY <2>1, <2>3, TypeParts
<1>6. CASE UnloadEnds(d)
  <2>1. RpcTypes' /\ DevTypes' /\ DssTypes'
    <3>1. CASE dev' = [dev EXCEPT ![d] = Unloaded(@)] /\ UNCHANGED <<rpc, dssVars>>
      <4>1. Unloaded(dev[d]) \in DevRecord
        BY <1>0 DEF Unloaded, DevRecord
      <4> QED
        BY <1>0, <3>1, <4>1 DEF RpcTypes, DevTypes, DssTypes
    <3>2. CASE Closed(d) /\ \E x, y, z \in BOOLEAN : Fails(d, dev[d], x, y, z)
      BY <1>c, <1>f, <3>2
    <3> QED
      BY <1>6, <3>1, <3>2, Zenon DEF UnloadEnds
  <2>3. LibTypes' /\ TlcTypes' /\ HostTypes'
    BY <1>0, <1>6 DEF UnloadEnds, LibTypes, TlcTypes, HostTypes
  <2> QED
    BY <2>1, <2>3, TypeParts
<1>7. CASE Release(d)
  <2>1. RpcTypes'
    BY <1>c, <1>7 DEF Release
  <2>2. DevTypes' /\ DssTypes'
    <3>1. CASE Mine(rpc[d].tape, d)
      BY <1>0, <1>7, <1>g, <3>1 DEF Release, DssTypes
    <3>2. CASE ~Mine(rpc[d].tape, d)
      BY <1>7, <1>f, <3>2 DEF Release
    <3> QED
      BY <3>1, <3>2
  <2>3. LibTypes' /\ TlcTypes' /\ HostTypes'
    BY <1>0, <1>7 DEF Release, LibTypes, TlcTypes, HostTypes
  <2> QED
    BY <2>1, <2>2, <2>3, TypeParts
<1>8. CASE LoadEnds(d)
  <2>1. RpcTypes'
    BY <1>c, <1>8 DEF LoadEnds
  <2>2. DevTypes' /\ DssTypes'
    <3>1. CASE dev' = [dev EXCEPT ![d] = Loaded(@)] /\ UNCHANGED dssVars
      <4>1. Loaded(dev[d]) \in DevRecord
        BY <1>0 DEF Loaded, DevRecord
      <4> QED
        BY <1>0, <3>1, <4>1 DEF DevTypes, DssTypes
    <3>2. CASE \E x, y, z \in BOOLEAN : Fails(d, dev[d], x, y, z)
      BY <1>f, <3>2
    <3> QED
      BY <1>8, <3>1, <3>2, Zenon DEF LoadEnds
  <2>3. LibTypes' /\ TlcTypes' /\ HostTypes'
    BY <1>0, <1>8 DEF LoadEnds, LibTypes, TlcTypes, HostTypes
  <2> QED
    BY <2>1, <2>2, <2>3, TypeParts
<1>9. CASE Mount(d)
  <2>1. DevTypes' /\ DssTypes'
    <3>1. CASE dev' = [dev EXCEPT ![d].op = "mounted", ![d].pc = "df"] /\ UNCHANGED dssVars
      BY <1>0, <3>1 DEF DevTypes, DevRecord, DssTypes
    <3>2. CASE Succeeds(d, [dev[d] EXCEPT !.op = "mounted"])
      <4>1. [dev[d] EXCEPT !.op = "mounted"] \in DevRecord
        BY <1>0 DEF DevRecord
      <4> QED
        BY <1>0, <3>2, <4>1, SucceedsEffect, SucceedsEnds, EndsTypes
    <3> QED
      BY <1>9, <3>1, <3>2 DEF Mount
  <2>2. LibTypes'
    BY <1>0, <1>9 DEF Mount, LibTypes
  <2>3. TlcTypes' /\ RpcTypes' /\ HostTypes'
    BY <1>0, <1>9 DEF Mount, TlcTypes, RpcTypes, HostTypes
  <2> QED
    BY <2>1, <2>2, <2>3, TypeParts
<1>10. CASE Df(d) \/ Format(d)
  <2>1. DevTypes' /\ DssTypes'
    BY <1>0, <1>10, <1>b, SucceedsEffect, SucceedsEnds DEF Df, Format
  <2>2. LibTypes'
    BY <1>0, <1>10 DEF Df, Format, LibTypes
  <2>3. TlcTypes' /\ RpcTypes' /\ HostTypes'
    BY <1>0, <1>10 DEF Df, Format, TlcTypes, RpcTypes, HostTypes
  <2> QED
    BY <2>1, <2>2, <2>3, TypeParts
<1>11. CASE FormatError(d)
  <2>1. DevTypes'
    BY <1>b, <1>11, EndSubEnds DEF FormatError
  <2>2. DssTypes'
    <3>1. dhealth' \in [Drives -> 0..MaxHealth]
      BY <1>0, <1>11, HealthTypes DEF FormatError
    <3>2. health' \in [Tapes -> 0..MaxHealth] /\ adm' \in [Tapes -> {"unlocked", "failed"}]
      BY <1>0, <1>11, HealthTypes DEF FormatError
    <3> QED
      BY <1>0, <1>11, <3>1, <3>2 DEF FormatError, DssTypes
  <2>3. LibTypes' /\ TlcTypes' /\ RpcTypes' /\ HostTypes'
    BY <1>0, <1>11 DEF FormatError, LibTypes, TlcTypes, RpcTypes, HostTypes
  <2> QED
    BY <2>1, <2>2, <2>3, TypeParts
<1>12. CASE CleanupOnError(d)
  <2>1. DevTypes'
    BY <1>0, <1>12, IdleOff DEF CleanupOnError, DevTypes
  <2>2. DssTypes'
    BY <1>0, <1>12 DEF CleanupOnError, DssTypes
  <2>3. LibTypes' /\ TlcTypes' /\ RpcTypes' /\ HostTypes'
    BY <1>0, <1>12 DEF CleanupOnError, LibTypes, TlcTypes, RpcTypes, HostTypes
  <2> QED
    BY <2>1, <2>2, <2>3, TypeParts
<1>13. CASE Own(d)
  <2>1. DevTypes'
    <3>1. CASE Go(d, "fill")
      BY <1>g, <3>1
    <3>2. CASE dev' = [dev EXCEPT ![d].th = "dying", ![d].pc = "idle"]
      BY <1>0, <3>2 DEF DevTypes, DevRecord
    <3> QED
      BY <1>13, <3>1, <3>2 DEF Own
  <2>3. LibTypes' /\ TlcTypes' /\ RpcTypes' /\ HostTypes' /\ DssTypes'
    BY <1>0, <1>13 DEF Own, LibTypes, TlcTypes, RpcTypes, HostTypes, DssTypes
  <2> QED
    BY <2>1, <2>3, TypeParts
<1>14. CASE Fill(d)
  <2>1. DevTypes'
    <3>1. tlc.cache[d].vol \in Tapes \cup {None}
      BY <1>0 DEF TlcTypes, TlcRecord, ElementStatus, Elements
    <3>2. CASE dev' = [dev EXCEPT ![d].op = "loaded", ![d].med = tlc.cache[d].vol, ![d].pc = "acquire"]
      BY <1>0, <3>1, <3>2 DEF DevTypes, DevRecord
    <3>3. CASE dev' = [dev EXCEPT ![d].op = "empty", ![d].pc = "idle"]
      BY <1>0, <3>3 DEF DevTypes, DevRecord
    <3>4. CASE dev' = [dev EXCEPT ![d].pc = "idle", ![d].th = IF host[HostOf[d]] = "init" THEN @ ELSE "dying"]
      BY <1>0, <3>4 DEF DevTypes, DevRecord
    <3>5. CASE dev' = [dev EXCEPT ![d].op = "empty", ![d].pc = "idle", ![d].th = "dying"]
      BY <1>0, <3>5 DEF DevTypes, DevRecord
    <3> QED
      BY <1>14, <3>2, <3>3, <3>4, <3>5, Zenon DEF Fill
  <2>2. HostTypes'
    <3>1. torn' \subseteq Tapes \X Defects
      BY <1>0, <1>14 DEF Fill, HostTypes, Defects
    <3> QED
      BY <1>0, <1>14, <3>1 DEF Fill, HostTypes
  <2>3. LibTypes' /\ TlcTypes' /\ RpcTypes' /\ DssTypes'
    BY <1>0, <1>14 DEF Fill, LibTypes, TlcTypes, RpcTypes, DssTypes
  <2> QED
    BY <2>1, <2>2, <2>3, TypeParts
<1>15. CASE Acquire(d) \/ TakeLock(d)
  <2>1. DevTypes'
    <3>1. CASE dev' = [dev EXCEPT ![d] = Filled(@, d)]
      <4>1. Filled(dev[d], d) \in DevRecord
        BY <1>0 DEF Filled, DevRecord
      <4> QED
        BY <1>0, <3>1, <4>1 DEF DevTypes
    <3>2. CASE Go(d, "lock")
      BY <1>g, <3>2
    <3>3. CASE dev' = [dev EXCEPT ![d].th = "dying", ![d].pc = "idle"]
      BY <1>0, <3>3 DEF DevTypes, DevRecord
    <3> QED
      BY <1>15, <3>1, <3>2, <3>3 DEF Acquire, TakeLock
  <2>3. LibTypes' /\ TlcTypes' /\ RpcTypes' /\ HostTypes' /\ DssTypes'
    BY <1>0, <1>15 DEF Acquire, TakeLock, LibTypes, TlcTypes, RpcTypes, HostTypes, DssTypes
  <2> QED
    BY <2>1, <2>3, TypeParts
<1>16. CASE StopDevice(d)
  <2>1. DevTypes'
    <3>1. CASE \E pc \in {"stop", "stop_release", "stop_device"} : Go(d, pc)
      BY <1>g, <3>1
    <3>2. CASE dev' = [dev EXCEPT ![d].op = "loaded", ![d].pc = "stop_release"]
      BY <1>0, <3>2 DEF DevTypes, DevRecord
    <3>3. CASE dev' = [dev EXCEPT ![d].th = "dying", ![d].pc = "idle"]
      BY <1>0, <3>3 DEF DevTypes, DevRecord
    <3>4. CASE dev' = [dev EXCEPT ![d].med = None, ![d].pc = "stop_device"]
      BY <1>0, <3>4 DEF DevTypes, DevRecord
    <3>5. CASE dev' = [dev EXCEPT ![d] = Off]
      BY <1>0, <3>5, IdleOff DEF DevTypes
    <3> QED
      BY <1>16, <3>1, <3>2, <3>3, <3>4, <3>5, Zenon DEF StopDevice
  <2>2. LibTypes'
    BY <1>0, <1>16 DEF StopDevice, LibTypes
  <2>3. TlcTypes' /\ RpcTypes' /\ HostTypes' /\ DssTypes'
    BY <1>0, <1>16 DEF StopDevice, TlcTypes, RpcTypes, HostTypes, DssTypes
  <2> QED
    BY <2>1, <2>2, <2>3, TypeParts
<1>17. CASE AdminUnlock(d)
  <2>1. DevTypes'
    <3>1. CASE dev' = [dev EXCEPT ![d] = Added]
      BY <1>0, <3>1, IdleOff DEF DevTypes
    <3> QED
      BY <1>0, <1>17, <3>1 DEF AdminUnlock, DevTypes, Added
  <2>2. DssTypes'
    BY <1>0, <1>17 DEF AdminUnlock, DssTypes
  <2>3. LibTypes' /\ TlcTypes' /\ RpcTypes' /\ HostTypes'
    BY <1>0, <1>17 DEF AdminUnlock, LibTypes, TlcTypes, RpcTypes, HostTypes
  <2> QED
    BY <2>1, <2>2, <2>3, TypeParts
<1> QED
  BY <1>1, <1>2, <1>3, <1>4, <1>5, <1>6, <1>7, <1>8, <1>9, <1>10, <1>11, <1>12, <1>13, <1>14,
     <1>15, <1>16, <1>17 DEF DeviceStep

LEMMA HostStepTypes ==
  ASSUME TypeOK, NEW h \in Hosts, HostStep(h)
  PROVE  TypeOK'
<1> USE DEF libVars, tlcVars, hostVars, dssVars
<1>0. LibTypes /\ TlcTypes /\ RpcTypes /\ HostTypes /\ DevTypes /\ DssTypes
  BY TypeParts
<1>1. CASE StartHost(h)
  <2>1. DevTypes'
    <3>1. dev' = [o \in Drives |-> IF HostOf[o] = h /\ dadm[o] = "unlocked" THEN Added ELSE dev[o]]
      BY <1>1, Zenon DEF StartHost, Added
    <3> QED
      BY <1>0, <3>1, IdleOff DEF DevTypes
  <2>2. HostTypes'
    <3>1. pid[h] + 1 \in 0..MaxCrash + 1
      BY <1>0, <1>1, BoundAssumption DEF StartHost, HostTypes
    <3> QED
      BY <1>0, <1>1, <3>1 DEF StartHost, HostTypes
  <2>3. LibTypes' /\ TlcTypes' /\ RpcTypes' /\ DssTypes'
    BY <1>0, <1>1 DEF StartHost, LibTypes, TlcTypes, RpcTypes, DssTypes
  <2> QED
    BY <2>1, <2>2, <2>3, TypeParts
<1>2. CASE CleanLocks(h)
  <2>2. HostTypes'
    BY <1>0, <1>2 DEF CleanLocks, HostTypes
  <2>3. LibTypes' /\ TlcTypes' /\ RpcTypes' /\ DevTypes' /\ DssTypes'
    BY <1>0, <1>2 DEF CleanLocks, LibTypes, TlcTypes, RpcTypes, DevTypes, DssTypes
  <2> QED
    BY <2>2, <2>3, TypeParts
<1>3. CASE StopHost(h) \/ HostEnds(h)
  <2>1. HostTypes'
    BY <1>0, <1>3 DEF StopHost, HostEnds, HostTypes
  <2>2. LibTypes' /\ TlcTypes' /\ RpcTypes' /\ DevTypes' /\ DssTypes'
    BY <1>0, <1>3 DEF StopHost, HostEnds, LibTypes, TlcTypes, RpcTypes, DevTypes, DssTypes
  <2> QED
    BY <2>1, <2>2, TypeParts
<1>4. CASE Crash(h)
  <2>1. DevTypes'
    BY <1>0, <1>4, IdleOff DEF Crash, DevTypes
  <2>2. RpcTypes'
    <3>1. ASSUME NEW o \in Drives PROVE [rpc[o] EXCEPT !.st = "orphan"] \in RpcRecord
      BY <1>0 DEF RpcTypes, RpcRecord
    <3> QED
      BY <1>0, <1>4, <3>1, IdleOff DEF Crash, RpcTypes
  <2>3. HostTypes'
    BY <1>0, <1>4 DEF Crash, HostTypes
  <2>4. LibTypes' /\ TlcTypes' /\ DssTypes'
    BY <1>0, <1>4 DEF Crash, LibTypes, TlcTypes, DssTypes
  <2> QED
    BY <2>1, <2>2, <2>3, <2>4, TypeParts
<1> QED
  BY <1>1, <1>2, <1>3, <1>4 DEF HostStep


-----------------------------------------------------------------------------
(* The cache of the TLC.                                                   *)

Asked == {"sent", "orphan"}

\* An element holds one tape.
Apart == \A t, u \in Tapes : at[t] = at[u] => t = u

\* The queue holds, once each, the calls that wait for an answer.
Queued ==
    /\ tlc.busy => tlc.queue # <<>>
    /\ \A i \in 1..Len(tlc.queue) : rpc[tlc.queue[i]].st \in Asked
    /\ \A i, j \in 1..Len(tlc.queue) : tlc.queue[i] = tlc.queue[j] => i = j

\* The move under way is one of a tape that the cache knows, and attempts are
\* left.
Moving ==
    \A d \in Drives : Serving(d) =>
        /\ rpc[d].tries # 0
        /\ MoveOf(d)[1] \in Elements /\ MoveOf(d)[2] \in Elements
        /\ tlc.cache[MoveOf(d)[1]].full

CacheVols == \A e \in Elements : tlc.cache[e].full => tlc.cache[e].vol \in Tapes

\* What CacheTrue says holds of a TLC that is down too: its next start reads
\* the library, and nothing moves before.
CacheHonest == ~stale => \A t \in Tapes : Holding(tlc.cache, t) = {at[t]}

\* A call asks for something; a thread about to unlock the tape it unloaded has
\* the answer of the TLC.
CallOK ==
    \A d \in Drives : /\ rpc[d].st # "none" => rpc[d].op # "none"
                      /\ dev[d].pc = "release" => rpc[d].st = "ok"

TlcInv == Apart /\ Queued /\ Moving /\ CacheVols /\ CacheHonest
LibInv == TypeOK /\ TlcInv /\ CallOK

\* A call that waits for its answer stays as it is, but for the death of its
\* process.
Kept ==
    \A d \in Drives : rpc[d].st \in Asked =>
        /\ rpc'[d].st \in Asked /\ rpc'[d].op = rpc[d].op
        /\ rpc'[d].tape = rpc[d].tape /\ rpc'[d].tries = rpc[d].tries
Calm == UNCHANGED <<at, from, tlc, stale>> /\ Kept

\* The TLC is not concerned by what does not change the calls it has to serve.
LEMMA CalmKeeps ==
  ASSUME TypeOK, TlcInv, Calm
  PROVE  TlcInv'
<1>0. tlc.queue \in Seq(Drives)
  BY DEF TypeOK
<1>1. Apart' /\ CacheVols' /\ CacheHonest'
  BY DEF TlcInv, Calm, Apart, CacheVols, CacheHonest
<1>2. Queued'
  BY <1>0 DEF TlcInv, Calm, Kept, Queued
<1>3. Moving'
  <2> SUFFICES ASSUME NEW d \in Drives, Serving(d)'
               PROVE  /\ rpc'[d].tries # 0
                      /\ MoveOf(d)'[1] \in Elements /\ MoveOf(d)'[2] \in Elements
                      /\ tlc'.cache[MoveOf(d)'[1]].full
    BY Zenon DEF Moving
  <2>1. Serving(d)
    BY DEF Serving, First, Calm
  <2>2. rpc[d].st \in Asked
    BY <1>0, <2>1 DEF TlcInv, Queued, Serving, First
  <2>3. rpc'[d].op = rpc[d].op /\ rpc'[d].tape = rpc[d].tape /\ rpc'[d].tries = rpc[d].tries
    BY <2>2 DEF Calm, Kept
  <2>4. MoveOf(d)' = MoveOf(d)
    BY <2>3 DEF MoveOf, Calm
  <2> QED
    BY <2>1, <2>3, <2>4 DEF TlcInv, Moving, Calm
<1> QED
  BY <1>1, <1>2, <1>3 DEF TlcInv

\* No thread begins to unlock a tape it unloaded.
NoRelease == \A o \in Drives : dev'[o].pc = "release" => dev[o].pc = "release"

LEMMA EndsNoRelease ==
  ASSUME DevTypes, NEW d \in Drives, NEW D \in DevRecord, Ends(d, D)
  PROVE  /\ \A o \in Drives \ {d} : dev'[o] = dev[o]
         /\ dev'[d].pc = "idle" /\ dev'[d].sub = None /\ dev'[d].med = D.med
<1>1. PICK dead \in BOOLEAN : dev' = [dev EXCEPT ![d] = Over(D, dead)]
  BY Zenon DEF Ends
<1>2. Over(D, dead).pc = "idle" /\ Over(D, dead).sub = None /\ Over(D, dead).med = D.med
  BY OverFields
<1> QED
  BY <1>1, <1>2 DEF DevTypes

\* The steps of the LRS.
LEMMA CalmSteps ==
  ASSUME TypeOK, TlcInv, CallOK, NEW d \in Drives, DeviceStep(d)
  PROVE  Calm /\ CallOK'
<1> USE DEF libVars, tlcVars, hostVars, dssVars
<1>0. /\ DevTypes /\ RpcTypes /\ DssTypes
      /\ dev[d] \in DevRecord /\ rpc[d] \in RpcRecord
  BY TypeParts DEF DevTypes, RpcTypes
<1>n. ASSUME UNCHANGED <<at, from, tlc, stale, rpc>>, NoRelease PROVE Calm /\ CallOK'
  BY <1>n DEF Calm, Kept, CallOK, NoRelease
<1>e. ASSUME NEW D \in DevRecord, Ends(d, D)
      PROVE  NoRelease /\ dev'[d].pc # "release" /\ \A o \in Drives \ {d} : dev'[o] = dev[o]
  BY <1>0, <1>e, EndsNoRelease DEF NoRelease
<1>f. ASSUME NEW x \in BOOLEAN, NEW y \in BOOLEAN, NEW z \in BOOLEAN, Fails(d, dev[d], x, y, z)
      PROVE  NoRelease /\ dev'[d].pc # "release" /\ \A o \in Drives \ {d} : dev'[o] = dev[o]
  BY <1>0, <1>e, <1>f, FailsEffect DEF FailEffect
<1>s. ASSUME NEW D \in DevRecord, Succeeds(d, D) PROVE NoRelease
  BY <1>0, <1>e, <1>s, SucceedsEnds
<1>g. ASSUME NEW pc, pc # "release", Go(d, pc) 
      PROVE NoRelease /\ dev'[d].pc # "release" /\ \A o \in Drives \ {d} : dev'[o] = dev[o]
  BY <1>0, <1>g DEF Go, NoRelease, DevTypes, DevRecord
<1>c. ASSUME rpc[d].st \notin Asked, Closed(d), UNCHANGED <<at, from, tlc, stale>>,
             dev'[d].pc # "release", \A o \in Drives \ {d} : dev'[o] = dev[o]
      PROVE  Calm /\ CallOK'
  BY <1>0, <1>c DEF Calm, Kept, CallOK, Closed, RpcTypes, Idle
<1>1. CASE Assigned(d) \/ Umount(d) \/ CleanupOnError(d) \/ AdminUnlock(d)
  <2>1. NoRelease
    <3>1. CASE Assigned(d)
      BY <1>0, <3>1 DEF Assigned, Assign, NoRelease, DevTypes, DevRecord
    <3>2. CASE Umount(d)
      BY <1>0, <3>2 DEF Umount, NoRelease, DevTypes, DevRecord
    <3>3. CASE CleanupOnError(d)
      BY <1>0, <3>3 DEF CleanupOnError, NoRelease, DevTypes, Off
    <3>4. CASE AdminUnlock(d)
      BY <1>0, <3>4 DEF AdminUnlock, NoRelease, DevTypes, Off
    <3> QED
      BY <1>1, <3>1, <3>2, <3>3, <3>4
  <2> QED
    BY <1>1, <1>n, <2>1 DEF Assigned, Assign, Umount, CleanupOnError, AdminUnlock
<1>2. CASE Check(d)
  <2>1. NoRelease
    <3>1. CASE Succeeds(d, dev[d])
      BY <1>0, <1>s, <3>1
    <3>2. CASE \E pc \in {"umount", "format", "mount", "unload", "load"} : Go(d, pc)
      BY <1>g, <3>2
    <3> QED
      BY <1>2, <3>1, <3>2, Zenon DEF Check
  <2> QED
    BY <1>2, <1>n, <2>1 DEF Check
<1>3. CASE UmountFails(d) \/ LibRefused(d) \/ MountFails(d)
  <2>1. NoRelease
    BY <1>3, <1>f, Zenon DEF UmountFails, LibRefused, MountFails
  <2> QED
    BY <1>3, <1>n, <2>1 DEF UmountFails, LibRefused, MountFails
<1>4. CASE Mount(d)
  <2>1. NoRelease
    <3>1. CASE dev' = [dev EXCEPT ![d].op = "mounted", ![d].pc = "df"]
      BY <1>0, <3>1 DEF NoRelease, DevTypes, DevRecord
    <3>2. CASE Succeeds(d, [dev[d] EXCEPT !.op = "mounted"])
      <4>1. [dev[d] EXCEPT !.op = "mounted"] \in DevRecord
        BY <1>0 DEF DevRecord
      <4> QED
        BY <1>s, <3>2, <4>1
    <3> QED
      BY <1>4, <3>1, <3>2 DEF Mount
  <2> QED
    BY <1>4, <1>n, <2>1 DEF Mount
<1>5. CASE Df(d) \/ Format(d) \/ FormatError(d)
  <2>1. NoRelease
    BY <1>0, <1>5, <1>s, <1>e, EndSubEnds DEF Df, Format, FormatError
  <2> QED
    BY <1>5, <1>n, <2>1 DEF Df, Format, FormatError
<1>6. CASE Own(d) \/ Fill(d)
  <2>1. NoRelease
    <3>1. CASE Go(d, "fill")
      BY <1>g, <3>1
    <3>2. CASE dev' = [dev EXCEPT ![d].op = "loaded", ![d].med = tlc.cache[d].vol, ![d].pc = "acquire"]
      BY <1>0, <3>2 DEF NoRelease, DevTypes, DevRecord
    <3>3. CASE dev' = [dev EXCEPT ![d].op = "empty", ![d].pc = "idle"]
      BY <1>0, <3>3 DEF NoRelease, DevTypes, DevRecord
    <3>4. CASE dev' = [dev EXCEPT ![d].pc = "idle", ![d].th = IF host[HostOf[d]] = "init" THEN @ ELSE "dying"]
      BY <1>0, <3>4 DEF NoRelease, DevTypes, DevRecord
    <3>5. CASE dev' = [dev EXCEPT ![d].op = "empty", ![d].pc = "idle", ![d].th = "dying"]
      BY <1>0, <3>5 DEF NoRelease, DevTypes, DevRecord
    <3>6. CASE dev' = [dev EXCEPT ![d].th = "dying", ![d].pc = "idle"]
      BY <1>0, <3>6 DEF NoRelease, DevTypes, DevRecord
    <3> QED
      BY <1>6, <3>1, <3>2, <3>3, <3>4, <3>5, <3>6, Zenon DEF Own, Fill
  <2> QED
    BY <1>6, <1>n, <2>1 DEF Own, Fill
<1>7. CASE Acquire(d) \/ TakeLock(d)
  <2>1. NoRelease
    <3>1. CASE dev' = [dev EXCEPT ![d] = Filled(@, d)]
      BY <1>0, <3>1 DEF Filled, NoRelease, DevTypes, DevRecord
    <3>2. CASE Go(d, "lock")
      BY <1>g, <3>2
    <3>3. CASE dev' = [dev EXCEPT ![d].th = "dying", ![d].pc = "idle"]
      BY <1>0, <3>3 DEF NoRelease, DevTypes, DevRecord
    <3> QED
      BY <1>7, <3>1, <3>2, <3>3 DEF Acquire, TakeLock
  <2> QED
    BY <1>7, <1>n, <2>1 DEF Acquire, TakeLock
<1>8. CASE StopDevice(d)
  <2>1. NoRelease
    <3>1. CASE \E pc \in {"stop", "stop_release", "stop_device"} : Go(d, pc)
      BY <1>g, <3>1
    <3>2. CASE \E x, y : y # "release" /\ dev' = [dev EXCEPT ![d].op = x, ![d].pc = y]
      BY <1>0, <3>2 DEF NoRelease, DevTypes, DevRecord
    <3>3. CASE dev' = [dev EXCEPT ![d].th = "dying", ![d].pc = "idle"]
      BY <1>0, <3>3 DEF NoRelease, DevTypes, DevRecord
    <3>4. CASE dev' = [dev EXCEPT ![d].med = None, ![d].pc = "stop_device"]
      BY <1>0, <3>4 DEF NoRelease, DevTypes, DevRecord
    <3>5. CASE dev' = [dev EXCEPT ![d] = Off]
      BY <1>0, <3>5 DEF NoRelease, DevTypes, Off
    <3> QED
      BY <1>8, <3>1, <3>2, <3>3, <3>4, <3>5, Zenon DEF StopDevice
  <2> QED
    BY <1>8, <1>n, <2>1 DEF StopDevice
<1>10. CASE LibOpen(d)
  BY <1>0, <1>10 DEF LibOpen, Calm, Kept, CallOK, RpcTypes, RpcRecord, Asked
<1>11. CASE UnloadEnds(d)
  <2>1. CASE rpc[d].st = "ok" /\ dev' = [dev EXCEPT ![d] = Unloaded(@)] /\ UNCHANGED rpc
    BY <1>0, <1>11, <2>1 DEF UnloadEnds, Calm, Kept, CallOK, DevTypes
  <2>2. CASE /\ rpc[d].st \in {"err", "lost", "pipe"} /\ Closed(d)
             /\ \E x, y, z \in BOOLEAN : Fails(d, dev[d], x, y, z)
    <3>1. dev'[d].pc # "release" /\ \A o \in Drives \ {d} : dev'[o] = dev[o]
      BY <1>f, <2>2
    <3> QED
      BY <1>c, <1>11, <2>2, <3>1 DEF UnloadEnds, Asked
  <2> QED
    BY <1>11, <2>1, <2>2, Zenon DEF UnloadEnds
<1>12. CASE Release(d)
  <2>1. dev'[d].pc # "release" /\ \A o \in Drives \ {d} : dev'[o] = dev[o]
    BY <1>g, <1>f, <1>12 DEF Release
  <2>2. rpc[d].st = "ok"
    BY <1>12 DEF CallOK, Release, At
  <2> QED
    BY <1>12, <1>c, <2>1, <2>2 DEF Release, Asked
<1>13. CASE LoadEnds(d)
  <2>1. dev'[d].pc # "release" /\ \A o \in Drives \ {d} : dev'[o] = dev[o]
    <3>1. CASE dev' = [dev EXCEPT ![d] = Loaded(@)]
      BY <1>0, <3>1 DEF Loaded, DevTypes, DevRecord
    <3>2. CASE \E x, y, z \in BOOLEAN : Fails(d, dev[d], x, y, z)
      BY <1>f, <3>2
    <3> QED
      BY <1>13, <3>1, <3>2, Zenon DEF LoadEnds
  <2> QED
    BY <1>13, <1>c, <2>1 DEF LoadEnds, Asked
<1> QED
  BY <1>1, <1>2, <1>3, <1>4, <1>5, <1>6, <1>7, <1>8, <1>10, <1>11, <1>12, <1>13 DEF DeviceStep

LEMMA CalmHostSteps ==
  ASSUME TypeOK, CallOK, NEW h \in Hosts, HostStep(h)
  PROVE  Calm /\ CallOK'
<1> USE DEF libVars, tlcVars, hostVars, dssVars
<1>0. DevTypes /\ RpcTypes
  BY TypeParts
<1>1. CASE StartHost(h) \/ CleanLocks(h) \/ StopHost(h) \/ HostEnds(h)
  <2>1. NoRelease
    BY <1>0, <1>1 DEF StartHost, CleanLocks, StopHost, HostEnds, NoRelease, DevTypes, Off
  <2> QED
    BY <1>1, <2>1 DEF StartHost, CleanLocks, StopHost, HostEnds, Calm, Kept, CallOK, NoRelease
<1>2. CASE Crash(h)
  <2>1. Calm
    BY <1>0, <1>2 DEF Crash, Calm, Kept, Asked, RpcTypes, RpcRecord
  <2>2. CallOK'
    BY <1>0, <1>2 DEF Crash, CallOK, RpcTypes, RpcRecord, Idle, DevTypes, Off
  <2> QED
    BY <2>1, <2>2
<1> QED
  BY <1>1, <1>2 DEF HostStep

LEMMA TlcUpdates ==
  ASSUME NEW T \in TlcRecord
  PROVE  /\ [T EXCEPT !.busy = TRUE] \in TlcRecord
         /\ [T EXCEPT !.up = FALSE, !.busy = FALSE, !.queue = <<>>] \in TlcRecord
         /\ T.queue # <<>> => [T EXCEPT !.busy = FALSE, !.queue = Tail(@)] \in TlcRecord
         /\ \A c \in [Elements -> ElementStatus] : [T EXCEPT !.cache = c] \in TlcRecord
         /\ \A d \in Drives : [T EXCEPT !.queue = Append(@, d)] \in TlcRecord
         /\ \A f \in SUBSET LibDevs, n \in 0..NbLibDev : [T EXCEPT !.fds = f, !.cur = n] \in TlcRecord
<1>1. <<>> \in Seq(Drives)
  OBVIOUS
<1>2. T.queue \in Seq(Drives)
  BY DEF TlcRecord
<1>3. T.queue # <<>> => Tail(T.queue) \in Seq(Drives)
  BY <1>2
<1>4. \A d \in Drives : Append(T.queue, d) \in Seq(Drives)
  BY <1>2
<1>5. [T EXCEPT !.busy = TRUE] \in TlcRecord
  BY Zenon DEF TlcRecord
<1>6. [T EXCEPT !.up = FALSE, !.busy = FALSE, !.queue = <<>>] \in TlcRecord
  BY <1>1, Zenon DEF TlcRecord
<1>7. T.queue # <<>> => [T EXCEPT !.busy = FALSE, !.queue = Tail(@)] \in TlcRecord
  BY <1>3, Zenon DEF TlcRecord
<1>8. \A c \in [Elements -> ElementStatus] : [T EXCEPT !.cache = c] \in TlcRecord
  BY Zenon DEF TlcRecord
<1>9. \A d \in Drives : [T EXCEPT !.queue = Append(@, d)] \in TlcRecord
  BY <1>4, Zenon DEF TlcRecord
<1>10. \A f \in SUBSET LibDevs, n \in 0..NbLibDev : [T EXCEPT !.fds = f, !.cur = n] \in TlcRecord
  BY Zenon DEF TlcRecord
<1> QED
  BY <1>5, <1>6, <1>7, <1>8, <1>9, <1>10

\* The end of the service of a request.
LEMMA ServedSteps ==
  ASSUME TypeOK, Queued, CallOK, NEW d \in Drives, First(d),
         tlc'.queue = Tail(tlc.queue), tlc'.busy = FALSE, NEW st \in {"ok", "err"}, Answer(d, st),
         UNCHANGED dev
  PROVE  RpcTypes' /\ Queued' /\ Moving' /\ CallOK'
<1>0. tlc.queue \in Seq(Drives) /\ RpcTypes /\ rpc[d] \in RpcRecord
  BY TypeParts DEF TypeOK, RpcTypes
<1>1. /\ rpc[d].st \in Asked
      /\ \A i \in 2..Len(tlc.queue) : tlc.queue[i] # d
  BY <1>0 DEF First, Queued
<1>2. /\ rpc' = [rpc EXCEPT ![d] = rpc'[d]]
      /\ rpc'[d] \in RpcRecord
      /\ rpc'[d].st # "none" => rpc'[d].op = rpc[d].op
  <2>1. CASE rpc[d].st = "orphan"
    BY <1>0, <2>1, IdleOff DEF Answer, RpcTypes, Idle
  <2>2. CASE rpc[d].st # "orphan"
    BY <1>0, <2>2 DEF Answer, RpcTypes, RpcRecord
  <2> QED
    BY <2>1, <2>2
<1>3. RpcTypes'
  BY <1>0, <1>2 DEF RpcTypes
<1>4. \A o \in Drives \ {d} : rpc'[o] = rpc[o]
  BY <1>0, <1>2 DEF RpcTypes
<1>5. Queued'
  <2>1. /\ tlc'.queue \in Seq(Drives) /\ Len(tlc'.queue) = Len(tlc.queue) - 1
        /\ \A i \in 1..Len(tlc'.queue) : i + 1 \in 2..Len(tlc.queue) /\ tlc'.queue[i] = tlc.queue[i + 1]
    BY <1>0 DEF First
  <2>2. ASSUME NEW i \in 1..Len(tlc'.queue) PROVE rpc'[tlc'.queue[i]].st \in Asked
    <3>1. tlc'.queue[i] \in Drives \ {d} /\ i + 1 \in 1..Len(tlc.queue)
      BY <1>0, <1>1, <2>1
    <3> QED
      BY <1>4, <2>1, <3>1 DEF Queued
  <2>3. ASSUME NEW i \in 1..Len(tlc'.queue), NEW j \in 1..Len(tlc'.queue),
               tlc'.queue[i] = tlc'.queue[j]
        PROVE  i = j
    <3>1. i + 1 \in 1..Len(tlc.queue) /\ j + 1 \in 1..Len(tlc.queue)
      BY <1>0, <2>1
    <3>2. i + 1 = j + 1
      BY <2>1, <2>3, <3>1 DEF Queued
    <3> QED
      BY <1>0, <3>2
  <2> QED
    BY <2>2, <2>3 DEF Queued
<1>6. Moving'
  BY DEF Moving, Serving
<1>7. CallOK'
  <2>1. dev[d].pc # "release"
    BY <1>1 DEF CallOK, Asked
  <2>2. rpc'[d].st # "none" => rpc'[d].op # "none"
    BY <1>1, <1>2 DEF CallOK, Asked
  <2> QED
    BY <1>4, <2>1, <2>2 DEF CallOK
<1> QED
  BY <1>3, <1>5, <1>6, <1>7

\* The TLC ends.
LEMMA DownSteps ==
  ASSUME TypeOK, TlcInv, CallOK, tlc' = Down, rpc' = Cut, UNCHANGED <<at, from, stale, dev>>
  PROVE  TlcTypes' /\ RpcTypes' /\ TlcInv' /\ CallOK'
<1>0. TlcTypes /\ RpcTypes
  BY TypeParts
<1>1. /\ tlc' \in TlcRecord /\ tlc'.queue = <<>> /\ tlc'.busy = FALSE
      /\ tlc'.cache = tlc.cache
  <2>1. tlc' \in TlcRecord
    BY <1>0, TlcUpdates, Zenon DEF TlcTypes, Down
  <2> QED
    BY <1>0, <2>1 DEF TlcTypes, TlcRecord, Down
<1>2. RpcTypes'
  <2>1. ASSUME NEW d \in Drives PROVE Cut[d] \in RpcRecord
    <3>1. rpc[d] \in RpcRecord
      BY <1>0 DEF RpcTypes
    <3>2. [rpc[d] EXCEPT !.st = "lost"] \in RpcRecord /\ [rpc[d] EXCEPT !.st = "pipe"] \in RpcRecord
      BY <3>1 DEF RpcRecord
    <3> QED
      BY <3>1, <3>2, IdleOff, Zenon DEF Cut
  <2> QED
    BY <2>1, Zenon DEF RpcTypes, Cut
<1>3. CallOK'
  <2>1. ASSUME NEW d \in Drives
        PROVE  /\ rpc'[d].st # "none" => rpc[d].st # "none" /\ rpc'[d].op = rpc[d].op
               /\ rpc[d].st = "ok" => rpc'[d].st = "ok"
    BY <1>0 DEF RpcTypes, RpcRecord, Cut, Idle
  <2> QED
    BY <2>1 DEF CallOK
<1>4. Queued' /\ Moving'
  BY <1>1 DEF Queued, Moving, Serving
<1>5. Apart' /\ CacheVols' /\ CacheHonest'
  BY <1>1 DEF TlcInv, Apart, CacheVols, CacheHonest
<1> QED
  BY <1>0, <1>1, <1>2, <1>3, <1>4, <1>5 DEF TlcInv, TlcTypes

LEMMA QuietTypes ==
  ASSUME TypeOK, UNCHANGED <<libVars, hostVars, dev, dssVars>>
  PROVE  LibTypes' /\ HostTypes' /\ DevTypes' /\ DssTypes'
BY TypeParts DEF LibTypes, HostTypes, DevTypes, DssTypes, libVars, hostVars, dssVars

LEMMA TlcRefusesStep ==
  ASSUME LibInv, NEW d \in Drives, TlcRefuses(d)
  PROVE  LibInv'
<1>0. TlcTypes
  BY TypeParts DEF LibInv
<1>1. /\ tlc' \in TlcRecord /\ tlc'.queue = Tail(tlc.queue) /\ tlc'.busy = FALSE
      /\ tlc'.cache = tlc.cache
  <2>1. tlc' \in TlcRecord
    BY <1>0, TlcUpdates, Zenon DEF TlcRefuses, Served, Pending, First, TlcTypes
  <2> QED
    BY <1>0, <2>1 DEF TlcRefuses, Served, TlcTypes, TlcRecord
<1>2. RpcTypes' /\ Queued' /\ Moving' /\ CallOK'
  BY <1>1, ServedSteps DEF LibInv, TlcInv, TlcRefuses, Pending
<1>3. Apart' /\ CacheVols' /\ CacheHonest'
  BY <1>1 DEF LibInv, TlcInv, TlcRefuses, libVars, Apart, CacheVols, CacheHonest
<1>4. LibTypes' /\ HostTypes' /\ DevTypes' /\ DssTypes'
  BY QuietTypes DEF LibInv, TlcRefuses
<1>5. TlcTypes'
  BY <1>0, <1>1 DEF TlcTypes, TlcRefuses
<1> QED
  BY <1>2, <1>3, <1>4, <1>5, TypeParts DEF LibInv, TlcInv

LEMMA TlcBeginsStep ==
  ASSUME LibInv, NEW d \in Drives, TlcBegins(d)
  PROVE  LibInv'
<1>0. TlcTypes /\ RpcTypes /\ tlc.queue \in Seq(Drives) /\ rpc[d] \in RpcRecord
  BY TypeParts DEF LibInv, TypeOK, RpcTypes
<1>1. /\ tlc' \in TlcRecord /\ tlc'.queue = tlc.queue /\ tlc'.cache = tlc.cache
      /\ tlc.queue # <<>> /\ Head(tlc.queue) = d /\ d = tlc.queue[1] /\ 1 \in 1..Len(tlc.queue)
  <2>1. tlc' \in TlcRecord
    BY <1>0, TlcUpdates, Zenon DEF TlcBegins, TlcTypes
  <2>2. tlc'.queue = tlc.queue /\ tlc'.cache = tlc.cache
    BY <1>0 DEF TlcBegins, TlcTypes, TlcRecord
  <2> QED
    BY <1>0, <2>1, <2>2 DEF TlcBegins, Pending, First
<1>2. /\ \A o \in Drives : rpc'[o].st = rpc[o].st /\ rpc'[o].op = rpc[o].op /\ rpc'[o].tape = rpc[o].tape
      /\ rpc'[d].tries = MaxDeviceRetry
      /\ RpcTypes'
  <2>1. MaxDeviceRetry \in 0..MaxDeviceRetry
    BY RetryAssumption
  <2>2. [rpc[d] EXCEPT !.tries = MaxDeviceRetry] \in RpcRecord
    BY <1>0, <2>1, Zenon DEF RpcRecord
  <2>3. rpc' = [rpc EXCEPT ![d] = [rpc[d] EXCEPT !.tries = MaxDeviceRetry]]
    BY Zenon DEF TlcBegins
  <2>4. RpcTypes'
    BY <1>0, <2>2, <2>3 DEF RpcTypes
  <2> QED
    BY <1>0, <2>3, <2>4 DEF RpcTypes, RpcRecord
<1>3. Queued'
  <2>1. \A i \in 1..Len(tlc.queue) : tlc.queue[i] \in Drives
    BY <1>0
  <2> QED
    BY <1>1, <1>2, <2>1 DEF LibInv, TlcInv, Queued
<1>4. rpc[d].op \in {"load", "unload"}
  BY <1>0, <1>1 DEF LibInv, TlcInv, Queued, CallOK, Asked, RpcRecord
<1>5. /\ MoveOf(d)[1] \in Elements /\ MoveOf(d)[2] \in Elements
      /\ tlc.cache[MoveOf(d)[1]].full
  <2>1. CASE rpc[d].op = "load"
    <3>1. MoveOf(d)[1] = MediaElementStatusFromLabel(tlc.cache, rpc[d].tape) /\ MoveOf(d)[2] = d
      BY <2>1 DEF MoveOf
    <3>2. MoveOf(d)[1] \in Holding(tlc.cache, rpc[d].tape)
      BY <2>1, <3>1, LabelHolds DEF TlcBegins, Refused
    <3> QED
      BY <3>1, <3>2 DEF Holding, Elements
  <2>2. CASE rpc[d].op = "unload"
    <3>1. MoveOf(d)[1] = d /\ MoveOf(d)[2] = TargetFreeSlot(tlc.cache, d)
      BY <2>2 DEF MoveOf
    <3>2. MoveOf(d)[2] \in Slots
      BY <3>1, TargetIsSlot DEF TlcBegins
    <3>3. tlc.cache[d].full
      BY <2>2 DEF TlcBegins, Refused, UnloadAccepted
    <3> QED
      BY <3>1, <3>2, <3>3 DEF Elements
  <2> QED
    BY <1>4, <2>1, <2>2
<1>6. Moving'
  <2> SUFFICES ASSUME NEW o \in Drives, Serving(o)'
               PROVE  /\ rpc'[o].tries # 0
                      /\ MoveOf(o)'[1] \in Elements /\ MoveOf(o)'[2] \in Elements
                      /\ tlc'.cache[MoveOf(o)'[1]].full
    BY Zenon DEF Moving
  <2>1. o = d
    BY <1>1 DEF Serving, First
  <2>2. MoveOf(d)' = MoveOf(d)
    BY <1>1, <1>2 DEF MoveOf
  <2> QED
    BY <1>1, <1>2, <1>5, <2>1, <2>2, RetryAssumption
<1>7. Apart' /\ CacheVols' /\ CacheHonest' /\ CallOK'
  BY <1>1, <1>2 DEF LibInv, TlcInv, TlcBegins, libVars, Apart, CacheVols, CacheHonest, CallOK
<1>8. LibTypes' /\ HostTypes' /\ DevTypes' /\ DssTypes'
  BY QuietTypes DEF LibInv, TlcBegins
<1>9. TlcTypes'
  BY <1>0, <1>1 DEF TlcTypes, TlcBegins
<1> QED
  BY <1>2, <1>3, <1>6, <1>7, <1>8, <1>9, TypeParts DEF LibInv, TlcInv

LEMMA TlcDownStep ==
  ASSUME LibInv, tlc' = Down, rpc' = Cut, UNCHANGED <<libVars, stale, hostVars, dev, dssVars>>
  PROVE  LibInv'
<1>1. TlcTypes' /\ RpcTypes' /\ TlcInv' /\ CallOK'
  BY DownSteps DEF LibInv, libVars
<1>2. LibTypes' /\ HostTypes' /\ DevTypes' /\ DssTypes'
  BY QuietTypes DEF LibInv
<1> QED
  BY <1>1, <1>2, TypeParts DEF LibInv

LEMMA TlcOpensStep ==
  ASSUME LibInv, NEW shut \in SUBSET LibDevs, NEW mute \in SUBSET LibDevs, TlcOpens(shut, mute)
  PROVE  LibInv'
<1>1. CASE OpenSucceeds(LibDevs, shut, mute)
  <2>0. LibTypes /\ TlcTypes /\ RpcTypes
    BY TypeParts DEF LibInv
  <2> DEFINE L == LibStatus(at, from)
  <2>1. /\ L \in [Elements -> ElementStatus]
        /\ \A e \in Elements : L[e].full => L[e].vol \in Tapes
        /\ \A t \in Tapes : Holding(L, t) = {at[t]}
    BY <2>0, LibStatusReads DEF LibInv, TlcInv, Apart, LibTypes
  <2>2. FirstOpened(LibDevs, shut) \in 0..NbLibDev
    BY FirstOpenedIn
  <2>3. /\ tlc' = [up |-> TRUE, cache |-> L, fds |-> LibDevs \ (shut \cup mute),
                   cur |-> FirstOpened(LibDevs, shut), queue |-> tlc.queue, busy |-> FALSE]
        /\ stale' = FALSE /\ UNCHANGED rpc
    BY <1>1 DEF TlcOpens
  <2> HIDE DEF L
  <2>4. tlc' \in TlcRecord /\ tlc'.cache = L /\ tlc'.queue = tlc.queue /\ tlc'.busy = FALSE
    BY <2>0, <2>1, <2>2, <2>3 DEF TlcTypes, TlcRecord
  <2>5. Queued' /\ Moving'
    BY <2>3, <2>4 DEF LibInv, TlcInv, Queued, Moving, Serving
  <2>6. Apart' /\ CacheVols' /\ CacheHonest' /\ CallOK'
    BY <2>1, <2>3, <2>4 DEF LibInv, TlcInv, TlcOpens, libVars, Apart, CacheVols, CacheHonest, CallOK
  <2>7. TlcTypes' /\ RpcTypes'
    BY <2>0, <2>3, <2>4 DEF TlcTypes, RpcTypes
  <2>8. LibTypes' /\ HostTypes' /\ DevTypes' /\ DssTypes'
    BY QuietTypes DEF LibInv, TlcOpens
  <2> QED
    BY <2>5, <2>6, <2>7, <2>8, TypeParts DEF LibInv, TlcInv
<1>2. CASE ~OpenSucceeds(LibDevs, shut, mute)
  BY <1>2, TlcDownStep DEF TlcOpens
<1> QED
  BY <1>1, <1>2

LEMMA RetrySteps ==
  ASSUME LibInv, NEW d \in Drives, Serving(d), NEW mute \in BOOLEAN, Retry(d, mute), UNCHANGED dev
  PROVE  /\ tlc' \in TlcRecord /\ tlc'.cache = tlc.cache /\ tlc'.up = tlc.up
         /\ RpcTypes' /\ Queued' /\ Moving' /\ CallOK'
<1>0. TlcTypes /\ tlc \in TlcRecord /\ RpcTypes /\ tlc.queue \in Seq(Drives) /\ rpc[d] \in RpcRecord
  BY TypeParts DEF LibInv, TypeOK, RpcTypes, TlcTypes
<1>1. tlc.queue # <<>> /\ d = tlc.queue[1] /\ 1 \in 1..Len(tlc.queue) /\ First(d)
  BY <1>0 DEF Serving, First
<1> DEFINE valid == IF mute THEN tlc.fds \ {tlc.cur} ELSE tlc.fds
           next == NextFd(NbLibDev, valid, tlc.cur)
           over == next = 0 \/ rpc[d].tries = 1
<1>2. /\ tlc' = [(IF over THEN Served ELSE tlc) EXCEPT !.fds = valid, !.cur = next]
      /\ IF over THEN Answer(d, "err") ELSE rpc' = [rpc EXCEPT ![d].tries = @ - 1]
  BY Zenon DEF Retry
<1>3. valid \in SUBSET LibDevs /\ tlc.cur \in 0..NbLibDev
  BY <1>0 DEF TlcRecord
<1>4. next \in 0..NbLibDev
  <2> HIDE DEF valid
  <2> QED
    BY <1>3, NextFdIn
<1> HIDE DEF valid, next
<1>5. CASE over
  <2> DEFINE T == Served
  <2>1. T \in TlcRecord
    BY <1>0, <1>1, TlcUpdates, Zenon DEF Served
  <2>2. T.queue = Tail(tlc.queue) /\ T.busy = FALSE /\ T.cache = tlc.cache /\ T.up = tlc.up
    BY <1>0 DEF Served, TlcRecord
  <2> HIDE DEF T
  <2>3. tlc' = [T EXCEPT !.fds = valid, !.cur = next] /\ Answer(d, "err")
    BY <1>2, <1>5, Zenon DEF T
  <2>4. tlc' \in TlcRecord
    BY <1>3, <1>4, <2>1, <2>3, TlcUpdates, Zenon
  <2>5. tlc'.queue = Tail(tlc.queue) /\ tlc'.busy = FALSE /\ tlc'.cache = tlc.cache /\ tlc'.up = tlc.up
    BY <2>1, <2>2, <2>3 DEF TlcRecord
  <2>6. RpcTypes' /\ Queued' /\ Moving' /\ CallOK'
    BY <1>1, <2>3, <2>5, ServedSteps DEF LibInv, TlcInv
  <2> QED
    BY <2>4, <2>5, <2>6
<1>6. CASE ~over
  <2>1. tlc' = [tlc EXCEPT !.fds = valid, !.cur = next] /\ rpc' = [rpc EXCEPT ![d].tries = @ - 1]
    BY <1>2, <1>6, Zenon
  <2>2. tlc' \in TlcRecord
    BY <1>0, <1>3, <1>4, <2>1, TlcUpdates, Zenon
  <2>3. /\ tlc'.queue = tlc.queue /\ tlc'.busy = tlc.busy /\ tlc'.cache = tlc.cache
        /\ tlc'.up = tlc.up
    BY <1>0, <2>1 DEF TlcRecord
  <2>4. rpc[d].tries \in 2..MaxDeviceRetry
    BY <1>0, <1>6, RetryAssumption DEF LibInv, TlcInv, Moving, RpcRecord
  <2>5. /\ \A o \in Drives : rpc'[o].st = rpc[o].st /\ rpc'[o].op = rpc[o].op /\ rpc'[o].tape = rpc[o].tape
        /\ rpc'[d].tries = rpc[d].tries - 1
        /\ RpcTypes'
    BY <1>0, <2>1, <2>4, RetryAssumption DEF RpcTypes, RpcRecord
  <2>6. Queued'
    <3>1. \A i \in 1..Len(tlc.queue) : tlc.queue[i] \in Drives
      BY <1>0
    <3> QED
      BY <2>3, <2>5, <3>1 DEF LibInv, TlcInv, Queued
  <2>7. Moving'
    <3> SUFFICES ASSUME NEW o \in Drives, Serving(o)'
                 PROVE  /\ rpc'[o].tries # 0
                        /\ MoveOf(o)'[1] \in Elements /\ MoveOf(o)'[2] \in Elements
                        /\ tlc'.cache[MoveOf(o)'[1]].full
      BY Zenon DEF Moving
    <3>1. o = d
      BY <1>0, <1>1, <2>3 DEF Serving, First
    <3>2. MoveOf(d)' = MoveOf(d)
      BY <2>3, <2>5 DEF MoveOf
    <3>3. rpc'[d].tries # 0
      BY <2>4, <2>5, RetryAssumption
    <3> QED
      BY <2>3, <3>1, <3>2, <3>3 DEF LibInv, TlcInv, Moving
  <2>8. CallOK'
    BY <2>5 DEF LibInv, CallOK
  <2> QED
    BY <2>2, <2>3, <2>5, <2>6, <2>7, <2>8
<1> QED
  BY <1>5, <1>6

LEMMA MoveFailedStep ==
  ASSUME LibInv, NEW d \in Drives, MoveFailed(d)
  PROVE  LibInv'
<1>1. PICK mute \in BOOLEAN : Retry(d, mute)
  BY DEF MoveFailed
<1>2. /\ tlc' \in TlcRecord /\ tlc'.cache = tlc.cache
      /\ RpcTypes' /\ Queued' /\ Moving' /\ CallOK'
  BY <1>1, RetrySteps DEF MoveFailed
<1>3. Apart' /\ CacheVols' /\ CacheHonest'
  BY <1>2 DEF LibInv, TlcInv, MoveFailed, libVars, Apart, CacheVols, CacheHonest
<1>4. LibTypes' /\ HostTypes' /\ DevTypes' /\ DssTypes'
  BY QuietTypes DEF LibInv, MoveFailed
<1>5. TlcTypes'
  BY <1>2, TypeParts DEF LibInv, TlcTypes, MoveFailed
<1> QED
  BY <1>2, <1>3, <1>4, <1>5, TypeParts DEF LibInv, TlcInv

\* The robot moves the tape of e to f.
LEMMA MovedTapes ==
  ASSUME LibTypes, Apart, NEW e \in Elements, NEW f \in Elements, Movable(e, f), Moved(e, f),
         UNCHANGED <<mnt, fs>>
  PROVE  /\ LibTypes' /\ Apart' /\ e # f
         /\ \E t \in Tapes : /\ at[t] = e /\ at'[t] = f
                             /\ \A u \in Tapes \ {t} : at'[u] = at[u] /\ at[u] \notin {e, f}
<1>1. PICK t \in Tapes : at[t] = e
  BY DEF Movable
<1>2. e # f /\ \A u \in Tapes : at[u] # f
  BY <1>1 DEF Movable
<1>3. /\ at' \in [Tapes -> Elements] /\ at'[t] = f
      /\ \A u \in Tapes \ {t} : at'[u] = at[u] /\ at[u] \notin {e, f}
  BY <1>1, <1>2 DEF Moved, LibTypes, Apart
<1>4. from' \in [Tapes -> Slots \cup {None}]
  BY DEF Moved, LibTypes
<1>5. Apart'
  BY <1>3 DEF Apart
<1> QED
  BY <1>1, <1>2, <1>3, <1>4, <1>5 DEF LibTypes

LEMMA MoveDoneStep ==
  ASSUME LibInv, NEW d \in Drives, MoveDone(d)
  PROVE  LibInv'
<1>0. LibTypes /\ TlcTypes /\ tlc \in TlcRecord /\ tlc.cache \in [Elements -> ElementStatus]
  BY TypeParts DEF LibInv, TlcTypes, TlcRecord
<1> DEFINE e == MoveOf(d)[1]
           f == MoveOf(d)[2]
           c == MoveTape(tlc.cache, e, f)
           T == Served
<1>1. e \in Elements /\ f \in Elements /\ tlc.cache[e].full
  BY DEF LibInv, TlcInv, Moving, MoveDone
<1>2. /\ Movable(e, f) /\ Moved(e, f)
      /\ tlc' = [T EXCEPT !.cache = MoveTape(@, e, f)]
  BY Zenon DEF MoveDone
<1>3. First(d) /\ tlc.queue # <<>>
  BY DEF MoveDone, Serving, First
<1>4. T \in TlcRecord
  BY <1>0, <1>3, TlcUpdates, Zenon DEF Served
<1>5. T.queue = Tail(tlc.queue) /\ T.busy = FALSE /\ T.cache = tlc.cache
  BY <1>0 DEF Served, TlcRecord
<1> HIDE DEF T, e, f
<1>6. /\ c \in [Elements -> ElementStatus]
      /\ \A g \in Elements : c[g].full => c[g].vol \in Tapes
      /\ \A t \in Tapes : e # f =>
              \A g \in Elements : c[g].full /\ c[g].vol = t <=>
                IF g = f THEN tlc.cache[e].vol = t ELSE g # e /\ tlc.cache[g].full /\ tlc.cache[g].vol = t
  BY <1>0, <1>1, MoveTapeTracks DEF LibInv, TlcInv, CacheVols
<1> HIDE DEF c
<1>7. tlc' = [T EXCEPT !.cache = c]
  BY <1>2, <1>4, <1>5 DEF TlcRecord, c
<1>8. tlc' \in TlcRecord
  BY <1>4, <1>6, <1>7, TlcUpdates, Zenon
<1>9. tlc'.queue = Tail(tlc.queue) /\ tlc'.busy = FALSE /\ tlc'.cache = c
  BY <1>4, <1>5, <1>7 DEF TlcRecord
<1>10. RpcTypes' /\ Queued' /\ Moving' /\ CallOK'
  BY <1>3, <1>9, ServedSteps DEF LibInv, TlcInv, MoveDone
<1>11. /\ LibTypes' /\ Apart' /\ e # f
       /\ \E t \in Tapes : /\ at[t] = e /\ at'[t] = f
                           /\ \A u \in Tapes \ {t} : at'[u] = at[u] /\ at[u] \notin {e, f}
  BY <1>0, <1>1, <1>2, MovedTapes DEF LibInv, TlcInv, MoveDone
<1>12. CacheVols'
  BY <1>6, <1>9 DEF CacheVols
<1>13. CacheHonest'
  <2> SUFFICES ASSUME ~stale, NEW u \in Tapes PROVE Holding(c, u) = {at'[u]}
    BY <1>9 DEF CacheHonest, MoveDone
  <2>1. PICK t \in Tapes : /\ at[t] = e /\ at'[t] = f
                           /\ \A v \in Tapes \ {t} : at'[v] = at[v] /\ at[v] \notin {e, f}
    BY <1>11
  <2>2. \A v \in Tapes, g \in Elements : tlc.cache[g].full /\ tlc.cache[g].vol = v <=> g = at[v]
    BY DEF LibInv, TlcInv, CacheHonest, Holding
  <2>3. tlc.cache[e].vol = t
    BY <1>1, <2>1, <2>2
  <2>4. ASSUME NEW g \in Elements PROVE c[g].full /\ c[g].vol = u <=> g = at'[u]
    <3>1. CASE u = t
      BY <1>6, <1>11, <2>1, <2>2, <2>3, <3>1
    <3>2. CASE u # t
      BY <1>6, <1>11, <2>1, <2>2, <2>3, <3>2
    <3> QED
      BY <3>1, <3>2
  <2>5. at'[u] \in Elements
    BY <1>11 DEF LibTypes
  <2> QED
    BY <2>4, <2>5 DEF Holding
<1>14. HostTypes' /\ DevTypes' /\ DssTypes'
  BY TypeParts DEF LibInv, MoveDone, HostTypes, DevTypes, DssTypes, hostVars, dssVars
<1>15. TlcTypes'
  BY <1>0, <1>8 DEF TlcTypes, MoveDone
<1> QED
  BY <1>10, <1>11, <1>12, <1>13, <1>14, <1>15, TypeParts DEF LibInv, TlcInv

LEMMA MoveFailedDoneStep ==
  ASSUME LibInv, NEW d \in Drives, MoveFailedDone(d)
  PROVE  LibInv'
<1>0. LibTypes
  BY TypeParts DEF LibInv
<1> DEFINE e == MoveOf(d)[1]
           f == MoveOf(d)[2]
<1>1. e \in Elements /\ f \in Elements
  BY DEF LibInv, TlcInv, Moving, MoveFailedDone
<1>2. Movable(e, f) /\ Moved(e, f)
  BY Zenon DEF MoveFailedDone
<1> HIDE DEF e, f
<1>3. LibTypes' /\ Apart'
  BY <1>0, <1>1, <1>2, MovedTapes DEF LibInv, TlcInv, MoveFailedDone
<1>4. /\ tlc' \in TlcRecord /\ tlc'.cache = tlc.cache
      /\ RpcTypes' /\ Queued' /\ Moving' /\ CallOK'
  BY RetrySteps DEF MoveFailedDone
<1>5. CacheVols' /\ CacheHonest' /\ TlcTypes'
  BY <1>4 DEF LibInv, TlcInv, MoveFailedDone, CacheVols, CacheHonest, TlcTypes
<1>6. HostTypes' /\ DevTypes' /\ DssTypes'
  BY TypeParts DEF LibInv, MoveFailedDone, HostTypes, DevTypes, DssTypes, hostVars, dssVars
<1> QED
  BY <1>3, <1>4, <1>5, <1>6, TypeParts DEF LibInv, TlcInv

LEMMA LibSendStep ==
  ASSUME LibInv, NEW d \in Drives, LibSend(d)
  PROVE  LibInv'
<1>0. TlcTypes /\ tlc \in TlcRecord /\ RpcTypes /\ tlc.queue \in Seq(Drives) /\ rpc[d] \in RpcRecord
  BY TypeParts DEF LibInv, TypeOK, RpcTypes, TlcTypes
<1>1. tlc' \in TlcRecord
  BY <1>0, TlcUpdates, Zenon DEF LibSend
<1>2. tlc'.queue = Append(tlc.queue, d) /\ tlc'.busy = tlc.busy /\ tlc'.cache = tlc.cache
  BY <1>0 DEF LibSend, TlcRecord
<1>3. /\ \A o \in Drives : rpc'[o].op = rpc[o].op /\ rpc'[o].tape = rpc[o].tape /\ rpc'[o].tries = rpc[o].tries
      /\ \A o \in Drives \ {d} : rpc'[o] = rpc[o]
      /\ rpc'[d].st = "sent" /\ rpc[d].st = "open"
      /\ RpcTypes'
  BY <1>0 DEF LibSend, RpcTypes, RpcRecord
<1>4. \A i \in 1..Len(tlc.queue) : tlc.queue[i] \in Drives /\ tlc.queue[i] # d
  BY <1>0, <1>3 DEF LibInv, TlcInv, Queued, Asked
<1>5. /\ Len(tlc'.queue) = Len(tlc.queue) + 1 /\ tlc'.queue[Len(tlc.queue) + 1] = d
      /\ \A i \in 1..Len(tlc.queue) : tlc'.queue[i] = tlc.queue[i]
      /\ tlc'.queue # <<>>
  BY <1>0, <1>2
<1>6. Queued'
  <2>1. ASSUME NEW i \in 1..Len(tlc'.queue)
        PROVE  i \in 1..Len(tlc.queue) \/ (i = Len(tlc.queue) + 1 /\ tlc'.queue[i] = d)
    BY <1>0, <1>5
  <2>2. ASSUME NEW i \in 1..Len(tlc'.queue) PROVE rpc'[tlc'.queue[i]].st \in Asked
    BY <1>3, <1>4, <1>5, <2>1 DEF LibInv, TlcInv, Queued, Asked
  <2>3. ASSUME NEW i \in 1..Len(tlc'.queue), NEW j \in 1..Len(tlc'.queue),
               tlc'.queue[i] = tlc'.queue[j]
        PROVE  i = j
    BY <1>4, <1>5, <2>1, <2>3 DEF LibInv, TlcInv, Queued
  <2> QED
    BY <1>5, <2>2, <2>3 DEF Queued
<1>7. Moving'
  <2> SUFFICES ASSUME NEW o \in Drives, Serving(o)'
               PROVE  /\ rpc'[o].tries # 0
                      /\ MoveOf(o)'[1] \in Elements /\ MoveOf(o)'[2] \in Elements
                      /\ tlc'.cache[MoveOf(o)'[1]].full
    BY Zenon DEF Moving
  <2>1. tlc.busy /\ tlc.queue # <<>>
    BY <1>2 DEF LibInv, TlcInv, Queued, Serving
  <2>2. Head(tlc'.queue) = Head(tlc.queue)
    BY <1>0, <1>2, <2>1
  <2>3. Serving(o)
    BY <2>1, <2>2 DEF Serving, First
  <2>4. MoveOf(o)' = MoveOf(o)
    BY <1>2, <1>3 DEF MoveOf
  <2> QED
    BY <1>2, <1>3, <2>3, <2>4 DEF LibInv, TlcInv, Moving
<1>8. Apart' /\ CacheVols' /\ CacheHonest'
  BY <1>2 DEF LibInv, TlcInv, LibSend, libVars, Apart, CacheVols, CacheHonest
<1>9. CallOK'
  BY <1>3 DEF LibInv, CallOK, LibSend
<1>10. LibTypes' /\ HostTypes' /\ DevTypes' /\ DssTypes'
  BY QuietTypes DEF LibInv, LibSend
<1>11. TlcTypes'
  BY <1>0, <1>1 DEF TlcTypes, LibSend
<1> QED
  BY <1>3, <1>6, <1>7, <1>8, <1>9, <1>10, <1>11, TypeParts DEF LibInv, TlcInv

LEMMA LibInit == Init => LibInv
<1> SUFFICES ASSUME Init PROVE LibInv
  OBVIOUS
<1>1. PICK shut \in {{}, LibDevs \ {1}} :
        tlc = [up |-> TRUE, cache |-> LibStatus(at, from), fds |-> LibDevs \ shut,
               cur |-> FirstOpened(LibDevs, shut), queue |-> <<>>, busy |-> FALSE]
  BY DEF Init
<1>2. LibTypes
  BY StartAssumption DEF Init, LibTypes
<1>3. Apart
  BY StartAssumption DEF Init, Apart
<1> DEFINE L == LibStatus(at, from)
<1>4. /\ L \in [Elements -> ElementStatus]
      /\ \A e \in Elements : L[e].full => L[e].vol \in Tapes
      /\ \A t \in Tapes : Holding(L, t) = {at[t]}
  BY <1>2, <1>3, LibStatusReads DEF Apart, LibTypes
<1>5. FirstOpened(LibDevs, shut) \in 0..NbLibDev
  BY FirstOpenedIn
<1>6. <<>> \in Seq(Drives) /\ Len(<<>>) = 0
  OBVIOUS
<1> HIDE DEF L
<1>7. tlc \in TlcRecord /\ tlc.queue = <<>> /\ tlc.busy = FALSE /\ tlc.cache = L
  <2>1. tlc \in TlcRecord
    BY <1>1, <1>4, <1>5, <1>6, Zenon DEF TlcRecord, L
  <2> QED
    BY <1>1, <2>1 DEF L
<1>8. RpcTypes /\ DevTypes
  BY IdleOff DEF Init, RpcTypes, DevTypes
<1>9. DssTypes
  BY HealthAssumption DEF Init, DssTypes
<1>10. HostTypes
  BY BoundAssumption DEF Init, HostTypes
<1>11. TlcTypes
  BY <1>7 DEF Init, TlcTypes
<1>12. Queued /\ Moving
  BY <1>6, <1>7 DEF Queued, Moving, Serving
<1>13. CacheVols /\ CacheHonest
  BY <1>4, <1>7 DEF CacheVols, CacheHonest
<1>14. CallOK
  BY DEF Init, CallOK, Idle, Off
<1> QED
  BY <1>2, <1>3, <1>8, <1>9, <1>10, <1>11, <1>12, <1>13, <1>14, TypeParts DEF LibInv, TlcInv

LEMMA LibStep == LibInv /\ [Next]_vars => LibInv'
<1> SUFFICES ASSUME LibInv, [Next]_vars PROVE LibInv'
  OBVIOUS
<1>1. ASSUME TypeOK', Calm, CallOK' PROVE LibInv'
  BY <1>1, CalmKeeps DEF LibInv
<1>2. ASSUME NEW d \in Drives, DeviceStep(d) PROVE LibInv'
  BY <1>1, <1>2, CalmTypes, CalmSteps DEF LibInv
<1>3. ASSUME NEW h \in Hosts, HostStep(h) PROVE LibInv'
  BY <1>1, <1>3, HostStepTypes, CalmHostSteps DEF LibInv
<1>4. ASSUME NEW d \in Drives, TlcNoFreeSlot(d) PROVE LibInv'
  BY <1>4, TlcDownStep DEF TlcNoFreeSlot
<1>5. CASE TlcDies
  BY <1>5, TlcDownStep DEF TlcDies
<1>6. CASE UNCHANGED vars
  <2>1. UNCHANGED <<libVars, tlcVars, hostVars, dev, dssVars>>
    BY <1>6 DEF vars
  <2>2. TypeOK'
    BY <2>1, TypeParts, QuietTypes DEF LibInv, tlcVars, TlcTypes, RpcTypes
  <2>3. Calm /\ CallOK'
    BY <2>1 DEF LibInv, Calm, Kept, CallOK, libVars, tlcVars
  <2> QED
    BY <1>1, <2>2, <2>3
<1>7. ASSUME NEW d \in Drives, ThreadStep(d) PROVE LibInv'
  BY <1>2, <1>7, LibSendStep DEF ThreadStep, DeviceStep
<1>8. ASSUME NEW d \in Drives, TlcStep(d) PROVE LibInv'
  BY <1>4, <1>8, TlcRefusesStep, TlcBeginsStep, MoveDoneStep, MoveFailedStep DEF TlcStep
<1>9. CASE Next
  <2>1. CASE \E d \in Drives :
               \/ ThreadStep(d) \/ TlcStep(d) \/ UmountFails(d) \/ MoveFailedDone(d) \/ AdminUnlock(d)
               \/ Assigned(d)
    BY <1>2, <1>7, <1>8, <2>1, MoveFailedDoneStep DEF DeviceStep
  <2>2. CASE \E shut, mute \in SUBSET LibDevs : TlcOpens(shut, mute)
    BY <2>2, TlcOpensStep
  <2>3. CASE \E h \in Hosts : HostStep(h)
    BY <1>3, <2>3
  <2> QED
    BY <1>5, <1>9, <2>1, <2>2, <2>3, Zenon DEF Next, Assigned, HostStep
<1> QED
  BY <1>6, <1>9

\* The TLC and its clients agree: each queued request is one that somebody still
\* waits for or that a dead client sent, and a move that is being made starts at
\* a full element of the cache (recv_work, tlc_library_load).
THEOREM LibInvariance == Spec => []LibInv
<1> QED
  BY LibInit, LibStep, PTL DEF Spec

\* Every reachable state has the types of the model, for any hosts, drives,
\* tapes, library devices and bounds: the attempts of a move never go below
\* zero, and no move names an element that does not exist (tlc_library.c).
THEOREM TapeTypes == Spec => []TypeOK
<1>1. LibInv => TypeOK
  BY DEF LibInv
<1> QED
  BY <1>1, LibInvariance, PTL

\* The cache of a TLC in service says where every tape is, unless a move
\* reported as failed took place since the library was last read, for any number
\* of hosts, drives and tapes (move_tape_between_element_status).
THEOREM CacheIsTrue == Spec => []CacheTrue
<1>1. LibInv => CacheTrue
  BY DEF LibInv, TlcInv, CacheHonest, CacheTrue
<1> QED
  BY <1>1, LibInvariance, PTL

-----------------------------------------------------------------------------
(* What a step makes of a device and of its call, field by field.          *)

Becomes(d, th, op, med, sub, pc) ==
    /\ \A o \in Drives \ {d} : dev'[o] = dev[o]
    /\ dev'[d].th = th /\ dev'[d].op = op /\ dev'[d].med = med /\ dev'[d].sub = sub /\ dev'[d].pc = pc

Fallen(d) ==
    \E dead \in BOOLEAN :
        Becomes(d, IF dead THEN "dying" ELSE dev[d].th, IF dead THEN "failed" ELSE dev[d].op,
                dev[d].med, None, "idle")

LEMMA EndsBecomes ==
  ASSUME DevTypes, NEW d \in Drives, NEW D \in DevRecord, NEW dead \in BOOLEAN,
         dev' = [dev EXCEPT ![d] = Over(D, dead)]
  PROVE  Becomes(d, IF dead THEN "dying" ELSE D.th, IF dead THEN "failed" ELSE D.op,
                 D.med, None, "idle")
BY OverFields DEF DevTypes, Becomes

LEMMA FailsFallen ==
  ASSUME TypeOK, NEW d \in Drives, Ends(d, dev[d])
  PROVE  Fallen(d)
<1>1. DevTypes /\ dev[d] \in DevRecord
  BY TypeParts DEF DevTypes
<1> QED
  BY <1>1, EndsBecomes DEF Ends, Fallen

LEMMA GoBecomes ==
  ASSUME TypeOK, NEW d \in Drives, NEW pc, Go(d, pc)
  PROVE  Becomes(d, dev[d].th, dev[d].op, dev[d].med, dev[d].sub, pc)
<1>1. DevTypes
  BY TypeParts
<1> QED
  BY <1>1 DEF Go, Becomes, DevTypes, DevRecord

\* Each step of a device.
LEMMA AssignBecomes ==
  ASSUME TypeOK, NEW d \in Drives, NEW t, NEW k, Assign(d, t, k)
  PROVE  Becomes(d, "run", dev[d].op, dev[d].med, t, "check")
<1>1. DevTypes
  BY TypeParts
<1> QED
  BY <1>1 DEF Assign, Running, Becomes, DevTypes, DevRecord

LEMMA CheckBecomes ==
  ASSUME TypeOK, NEW d \in Drives, Check(d)
  PROVE  \/ /\ dev[d].op = "mounted" /\ dev[d].med = dev[d].sub
            /\ Becomes(d, "run", dev[d].op, dev[d].med, None, "idle")
         \/ /\ UNCHANGED dssVars
            /\ \E pc \in {"umount", "format", "mount", "unload", "load"} :
                 /\ Becomes(d, "run", dev[d].op, dev[d].med, dev[d].sub, pc)
                 /\ pc = "umount" => dev[d].op = "mounted"
                 /\ pc \in {"format", "mount"} => dev[d].op = "loaded" /\ dev[d].med = dev[d].sub
                 /\ pc = "unload" => dev[d].op = "loaded" /\ dev[d].med # dev[d].sub
                 /\ pc = "load" => dev[d].op \notin {"loaded", "mounted"}
<1>1. DevTypes /\ DssTypes /\ dev[d] \in DevRecord /\ dev[d].th = "run"
  BY TypeParts DEF DevTypes, Check, At, Running
<1>2. CASE Succeeds(d, dev[d]) /\ dev[d].op = "mounted" /\ dev[d].med = dev[d].sub
  BY <1>1, <1>2, SucceedsEffect, EndsBecomes
<1>3. CASE /\ UNCHANGED dssVars
           /\ \E pc \in {"umount", "format", "mount", "unload", "load"} :
                /\ Go(d, pc)
                /\ pc = "umount" => dev[d].op = "mounted"
                /\ pc \in {"format", "mount"} => dev[d].op = "loaded" /\ dev[d].med = dev[d].sub
                /\ pc = "unload" => dev[d].op = "loaded" /\ dev[d].med # dev[d].sub
                /\ pc = "load" => dev[d].op \notin {"loaded", "mounted"}
  BY <1>1, <1>3, GoBecomes
<1> QED
  BY <1>2, <1>3 DEF Check

LEMMA UmountBecomes ==
  ASSUME TypeOK, NEW d \in Drives, Umount(d)
  PROVE  Becomes(d, "run", "loaded", dev[d].med, dev[d].sub,
                 IF dev[d].med = dev[d].sub THEN "format" ELSE "unload")
<1>1. DevTypes
  BY TypeParts
<1> QED
  BY <1>1 DEF Umount, At, Running, Becomes, DevTypes, DevRecord

LEMMA UnloadEndsBecomes ==
  ASSUME TypeOK, NEW d \in Drives, UnloadEnds(d)
  PROVE  \/ /\ rpc[d].st = "ok" /\ UNCHANGED <<rpc, dssVars>>
            /\ Becomes(d, "run", "empty", None, dev[d].sub, "release")
         \/ rpc[d].st \in {"err", "lost", "pipe"} /\ Closed(d) /\ Fallen(d) /\ FailEffect(d, dev[d])
<1>1. DevTypes /\ DssTypes /\ dev[d] \in DevRecord
  BY TypeParts DEF DevTypes
<1>2. CASE rpc[d].st = "ok" /\ dev' = [dev EXCEPT ![d] = Unloaded(@)] /\ UNCHANGED <<rpc, dssVars>>
  <2>1. Becomes(d, "run", "empty", None, dev[d].sub, "release")
    BY <1>1, <1>2 DEF UnloadEnds, At, Running, Unloaded, Becomes, DevTypes, DevRecord
  <2> QED
    BY <1>2, <2>1
<1>3. CASE /\ rpc[d].st \in {"err", "lost", "pipe"} /\ Closed(d)
           /\ \E x, y, z \in BOOLEAN : Fails(d, dev[d], x, y, z)
  <2>1. FailEffect(d, dev[d])
    BY <1>1, <1>3, FailsEffect
  <2> QED
    BY <1>3, <2>1, FailsFallen DEF FailEffect
<1> QED
  BY <1>2, <1>3, Zenon DEF UnloadEnds

LEMMA ReleaseBecomes ==
  ASSUME TypeOK, NEW d \in Drives, Release(d)
  PROVE  /\ Closed(d)
         /\ \/ /\ Mine(rpc[d].tape, d) /\ lock' = Unlock(lock, rpc[d].tape)
               /\ UNCHANGED <<dlock, adm, dadm, health, dhealth>>
               /\ Becomes(d, "run", dev[d].op, dev[d].med, dev[d].sub, "load")
            \/ Fallen(d) /\ FailEffect(d, dev[d])
<1>1. DevTypes /\ DssTypes /\ dev[d] \in DevRecord /\ dev[d].th = "run"
  BY TypeParts DEF DevTypes, Release, At, Running
<1>2. CASE Mine(rpc[d].tape, d)
  BY <1>1, <1>2, GoBecomes DEF Release
<1>3. CASE ~Mine(rpc[d].tape, d)
  <2>1. FailEffect(d, dev[d])
    BY <1>1, <1>3, FailsEffect DEF Release
  <2> QED
    BY <2>1, FailsFallen DEF FailEffect, Release
<1> QED
  BY <1>2, <1>3

LEMMA LoadEndsBecomes ==
  ASSUME TypeOK, NEW d \in Drives, LoadEnds(d)
  PROVE  /\ Closed(d)
         /\ \/ /\ rpc[d].st = "ok" /\ UNCHANGED dssVars
               /\ \E pc \in {"format", "mount"} :
                    Becomes(d, "run", "loaded", dev[d].sub, dev[d].sub, pc)
            \/ rpc[d].st # "ok" /\ Fallen(d) /\ FailEffect(d, dev[d])
<1>1. DevTypes /\ DssTypes /\ dev[d] \in DevRecord
  BY TypeParts DEF DevTypes
<1>2. CASE rpc[d].st = "ok" /\ dev' = [dev EXCEPT ![d] = Loaded(@)] /\ UNCHANGED dssVars
  <2>1. Becomes(d, "run", "loaded", dev[d].sub, dev[d].sub,
                IF dev[d].kind = "format" THEN "format" ELSE "mount")
    BY <1>1, <1>2 DEF LoadEnds, At, Running, Loaded, Becomes, DevTypes, DevRecord
  <2> QED
    BY <1>2, <2>1 DEF LoadEnds
<1>3. CASE rpc[d].st # "ok" /\ \E x, y, z \in BOOLEAN : Fails(d, dev[d], x, y, z)
  <2>1. FailEffect(d, dev[d])
    BY <1>1, <1>3, FailsEffect
  <2> QED
    BY <1>3, <2>1, FailsFallen DEF FailEffect, LoadEnds
<1>4. CASE rpc[d].st # "ok"
  <2>1. rpc[d].st \in {"err", "lost", "pipe"}
    BY <1>4 DEF LoadEnds
  <2>2. Fails(d, dev[d], TRUE, TRUE, FALSE) \/ Fails(d, dev[d], FALSE, TRUE, TRUE)
    BY <2>1 DEF LoadEnds
  <2> QED
    BY <1>3, <1>4, <2>2, Zenon
<1>5. CASE rpc[d].st = "ok"
  <2>1. dev' = [dev EXCEPT ![d] = Loaded(@)] /\ UNCHANGED dssVars
    BY <1>5, Zenon DEF LoadEnds
  <2> QED
    BY <1>2, <1>5, <2>1
<1> QED
  BY <1>4, <1>5

LEMMA MountBecomes ==
  ASSUME TypeOK, NEW d \in Drives, Mount(d)
  PROVE  /\ UNCHANGED <<lock, dlock, adm, dadm>>
         /\ \/ Becomes(d, "run", "mounted", dev[d].med, dev[d].sub, "df")
            \/ Becomes(d, "run", "mounted", dev[d].med, None, "idle")
<1>1. DevTypes /\ DssTypes /\ dev[d] \in DevRecord /\ dev[d].th = "run"
  BY TypeParts DEF DevTypes, Mount, At, Running
<1>2. CASE dev' = [dev EXCEPT ![d].op = "mounted", ![d].pc = "df"] /\ UNCHANGED dssVars
  BY <1>1, <1>2 DEF Becomes, DevTypes, DevRecord, dssVars
<1>3. CASE Succeeds(d, [dev[d] EXCEPT !.op = "mounted"])
  <2> DEFINE D == [dev[d] EXCEPT !.op = "mounted"]
  <2>1. D \in DevRecord /\ D.th = "run" /\ D.op = "mounted" /\ D.med = dev[d].med
    BY <1>1 DEF DevRecord
  <2> HIDE DEF D
  <2>2. dev' = [dev EXCEPT ![d] = Over(D, FALSE)] /\ UNCHANGED <<lock, dlock, adm, dadm>>
    BY <1>1, <1>3, SucceedsEffect DEF D
  <2>3. Becomes(d, D.th, D.op, D.med, None, "idle")
    BY <1>1, <2>1, <2>2, EndsBecomes
  <2> QED
    BY <2>1, <2>2, <2>3
<1> QED
  BY <1>2, <1>3 DEF Mount

LEMMA WorkedBecomes ==
  ASSUME TypeOK, NEW d \in Drives, Df(d) \/ Format(d)
  PROVE  /\ UNCHANGED <<lock, dlock, adm, dadm>>
         /\ Becomes(d, "run", dev[d].op, dev[d].med, None, "idle")
<1>1. DevTypes /\ DssTypes /\ dev[d] \in DevRecord /\ dev[d].th = "run"
  BY TypeParts DEF DevTypes, Df, Format, At, Running
<1>2. Succeeds(d, dev[d])
  BY DEF Df, Format
<1>3. dev' = [dev EXCEPT ![d] = Over(dev[d], FALSE)] /\ UNCHANGED <<lock, dlock, adm, dadm>>
  BY <1>1, <1>2, SucceedsEffect
<1>4. Becomes(d, dev[d].th, dev[d].op, dev[d].med, None, "idle")
  BY <1>1, <1>3, EndsBecomes
<1> QED
  BY <1>1, <1>3, <1>4

LEMMA FormatErrorFalls ==
  ASSUME TypeOK, NEW d \in Drives, FormatError(d)
  PROVE  Fallen(d) /\ FailEffect(d, dev[d])
<1>1. DssTypes /\ DssTypes' /\ Ends(d, dev[d])
  BY CalmTypes, TypeParts, EndSubEnds DEF FormatError, DeviceStep
<1>2. \/ lock' = lock /\ adm' = adm
      \/ lock' = ReleaseRow(lock, dev[d].sub, d) /\ adm' = [adm EXCEPT ![dev[d].sub] = "failed"]
  BY Zenon DEF FormatError, LoseMedium, FailReleased
<1>3. FailEffect(d, dev[d])
  BY <1>1, <1>2 DEF FailEffect, FormatError
<1> QED
  BY <1>1, <1>3, FailsFallen

LEMMA ErrorFalls ==
  ASSUME TypeOK, NEW d \in Drives, UmountFails(d) \/ LibRefused(d) \/ MountFails(d)
  PROVE  Fallen(d) /\ FailEffect(d, dev[d])
<1>1. DssTypes /\ \E x, y, z \in BOOLEAN : Fails(d, dev[d], x, y, z)
  BY TypeParts, Zenon DEF UmountFails, LibRefused, MountFails
<1>2. FailEffect(d, dev[d])
  BY <1>1, FailsEffect
<1> QED
  BY <1>2, FailsFallen DEF FailEffect

LEMMA CleanupBecomes ==
  ASSUME TypeOK, NEW d \in Drives, CleanupOnError(d)
  PROVE  Becomes(d, "off", "failed", None, None, "idle")
<1>1. DevTypes
  BY TypeParts
<1> QED
  BY <1>1 DEF CleanupOnError, Becomes, DevTypes, Off

LEMMA OwnBecomes ==
  ASSUME TypeOK, NEW d \in Drives, Own(d)
  PROVE  \/ /\ PossessApplies(dlock, d, HostOf[d])
            /\ dlock' = Possess(dlock, d, HostOf[d], pid[HostOf[d]])
            /\ Becomes(d, "run", dev[d].op, dev[d].med, dev[d].sub, "fill")
         \/ /\ UNCHANGED dlock
            /\ Becomes(d, "dying", dev[d].op, dev[d].med, dev[d].sub, "idle")
<1>1. DevTypes /\ dev[d].th = "run"
  BY TypeParts DEF Own, At, Running
<1> QED
  BY <1>1, GoBecomes DEF Own, Becomes, DevTypes, DevRecord

LEMMA FillBecomes ==
  ASSUME TypeOK, NEW d \in Drives, Fill(d)
  PROVE  \/ /\ tlc.up /\ ~tlc.busy /\ \A o \in Drives : rpc[o].st # "orphan"
            /\ UNCHANGED used
            /\ \/ /\ tlc.cache[d].full
                  /\ Becomes(d, "run", "loaded", tlc.cache[d].vol, dev[d].sub, "acquire")
               \/ /\ ~tlc.cache[d].full
                  /\ Becomes(d, "run", "empty", dev[d].med, dev[d].sub, "idle")
         \/ ~tlc.up /\ UNCHANGED used /\ \E th \in {"run", "dying"} : Becomes(d, th, dev[d].op, dev[d].med, dev[d].sub, "idle")
         \/ Fault /\ Becomes(d, "dying", "empty", dev[d].med, dev[d].sub, "idle")
<1>1. DevTypes /\ dev[d].th = "run"
  BY TypeParts DEF Fill, At, Running
<1>2. CASE dev' = [dev EXCEPT ![d].op = "loaded", ![d].med = tlc.cache[d].vol, ![d].pc = "acquire"]
           /\ tlc.cache[d].full /\ tlc.up /\ ~tlc.busy /\ (\A o \in Drives : rpc[o].st # "orphan")
           /\ UNCHANGED used
  BY <1>1, <1>2 DEF Becomes, DevTypes, DevRecord
<1>3. CASE dev' = [dev EXCEPT ![d].op = "empty", ![d].pc = "idle"]
           /\ ~tlc.cache[d].full /\ tlc.up /\ ~tlc.busy /\ (\A o \in Drives : rpc[o].st # "orphan")
           /\ UNCHANGED used
  BY <1>1, <1>3 DEF Becomes, DevTypes, DevRecord
<1>4. CASE dev' = [dev EXCEPT ![d].pc = "idle", ![d].th = IF host[HostOf[d]] = "init" THEN @ ELSE "dying"]
           /\ ~tlc.up /\ UNCHANGED used
  BY <1>1, <1>4 DEF Becomes, DevTypes, DevRecord
<1>5. CASE dev' = [dev EXCEPT ![d].op = "empty", ![d].pc = "idle", ![d].th = "dying"] /\ Fault
  BY <1>1, <1>5 DEF Becomes, DevTypes, DevRecord
<1> QED
  BY <1>2, <1>3, <1>4, <1>5, Zenon DEF Fill

LEMMA AcquireBecomes ==
  ASSUME TypeOK, NEW d \in Drives, Acquire(d) \/ TakeLock(d)
  PROVE  \/ /\ Becomes(d, "run", IF d \in mnt THEN "mounted" ELSE "loaded", dev[d].med, dev[d].sub, "idle")
            /\ \/ UNCHANGED lock
               \/ /\ PossessApplies(lock, dev[d].med, HostOf[d])
                  /\ lock' = Possess(lock, dev[d].med, HostOf[d], pid[HostOf[d]])
         \/ /\ Becomes(d, "run", dev[d].op, dev[d].med, dev[d].sub, "lock")
            /\ UNCHANGED lock
         \/ /\ Becomes(d, "dying", dev[d].op, dev[d].med, dev[d].sub, "idle")
            /\ UNCHANGED lock
<1>1. DevTypes /\ dev[d].th = "run"
  BY TypeParts DEF Acquire, TakeLock, At, Running
<1>2. CASE dev' = [dev EXCEPT ![d] = Filled(@, d)]
  <2>1. Becomes(d, "run", IF d \in mnt THEN "mounted" ELSE "loaded", dev[d].med, dev[d].sub, "idle")
    BY <1>1, <1>2 DEF Filled, Becomes, DevTypes, DevRecord
  <2>2. \/ UNCHANGED lock
        \/ /\ PossessApplies(lock, dev[d].med, HostOf[d])
           /\ lock' = Possess(lock, dev[d].med, HostOf[d], pid[HostOf[d]])
    BY DEF Acquire, TakeLock
  <2> QED
    BY <2>1, <2>2
<1>3. CASE Go(d, "lock") /\ UNCHANGED lock
  BY <1>1, <1>3, GoBecomes
<1>4. CASE dev' = [dev EXCEPT ![d].th = "dying", ![d].pc = "idle"] /\ UNCHANGED lock
  BY <1>1, <1>4 DEF Becomes, DevTypes, DevRecord
<1> QED
  BY <1>2, <1>3, <1>4 DEF Acquire, TakeLock

LEMMA StopBecomes ==
  ASSUME TypeOK, NEW d \in Drives, StopDevice(d)
  PROVE  \/ /\ dev[d].pc = "idle" /\ UNCHANGED <<mnt, lock, dlock, used>>
            /\ \/ dev[d].op = "mounted" /\ Becomes(d, "run", dev[d].op, dev[d].med, dev[d].sub, "stop")
               \/ dev[d].op = "loaded" /\ Becomes(d, "run", dev[d].op, dev[d].med, dev[d].sub, "stop_release")
               \/ /\ dev[d].op \in {"failed", "empty"}
                  /\ Becomes(d, "run", dev[d].op, dev[d].med, dev[d].sub, "stop_device")
         \/ /\ dev[d].pc = "stop" /\ UNCHANGED <<lock, dlock, used>> /\ mnt' = mnt \ {d}
            /\ Becomes(d, "run", "loaded", dev[d].med, dev[d].sub, "stop_release")
         \/ /\ dev[d].pc = "stop" /\ UNCHANGED <<mnt, lock, dlock>> /\ Fault
            /\ Becomes(d, "dying", dev[d].op, dev[d].med, dev[d].sub, "idle")
         \/ /\ dev[d].pc = "stop_release" /\ UNCHANGED <<mnt, dlock, used>>
            /\ lock' = ReleaseRow(lock, dev[d].med, d)
            /\ \/ Mine(dev[d].med, d) /\ Becomes(d, "run", dev[d].op, None, dev[d].sub, "stop_device")
               \/ ~Mine(dev[d].med, d) /\ Becomes(d, "dying", dev[d].op, dev[d].med, dev[d].sub, "idle")
         \/ /\ dev[d].pc = "stop_device" /\ UNCHANGED <<mnt, lock, used>>
            /\ dlock' = ReleaseRow(dlock, d, d)
            /\ Becomes(d, "off", "failed", None, None, "idle")
<1>1. DevTypes /\ dev[d].th = "run" /\ dev[d] \in DevRecord
  BY TypeParts DEF StopDevice, Running, DevTypes
<1>2. CASE /\ dev[d].pc = "idle" /\ UNCHANGED <<mnt, lock, dlock, used>>
           /\ Go(d, CASE dev[d].op = "mounted" -> "stop" [] dev[d].op = "loaded" -> "stop_release"
                      [] OTHER -> "stop_device")
  <2>1. CASE dev[d].op = "mounted"
    BY <1>1, <1>2, <2>1, GoBecomes
  <2>2. CASE dev[d].op = "loaded"
    BY <1>1, <1>2, <2>2, GoBecomes
  <2>3. CASE dev[d].op \in {"failed", "empty"}
    BY <1>1, <1>2, <2>3, GoBecomes
  <2> QED
    BY <1>1, <2>1, <2>2, <2>3 DEF DevRecord
<1>3. CASE /\ dev[d].pc = "stop" /\ UNCHANGED <<lock, dlock, used>> /\ mnt' = mnt \ {d}
           /\ dev' = [dev EXCEPT ![d].op = "loaded", ![d].pc = "stop_release"]
  BY <1>1, <1>3 DEF Becomes, DevTypes, DevRecord
<1>4. CASE /\ dev[d].pc = "stop" /\ UNCHANGED <<mnt, lock, dlock>> /\ Fault
           /\ dev' = [dev EXCEPT ![d].th = "dying", ![d].pc = "idle"]
  BY <1>1, <1>4 DEF Becomes, DevTypes, DevRecord
<1>5. CASE /\ dev[d].pc = "stop_release" /\ UNCHANGED <<mnt, dlock, used>>
           /\ lock' = ReleaseRow(lock, dev[d].med, d) /\ Mine(dev[d].med, d)
           /\ dev' = [dev EXCEPT ![d].med = None, ![d].pc = "stop_device"]
  BY <1>1, <1>5 DEF Becomes, DevTypes, DevRecord
<1>6. CASE /\ dev[d].pc = "stop_release" /\ UNCHANGED <<mnt, dlock, used>>
           /\ lock' = ReleaseRow(lock, dev[d].med, d) /\ ~Mine(dev[d].med, d)
           /\ dev' = [dev EXCEPT ![d].th = "dying", ![d].pc = "idle"]
  BY <1>1, <1>6 DEF Becomes, DevTypes, DevRecord
<1>7. CASE /\ dev[d].pc = "stop_device" /\ UNCHANGED <<mnt, lock, used>>
           /\ dlock' = ReleaseRow(dlock, d, d) /\ dev' = [dev EXCEPT ![d] = Off]
  BY <1>1, <1>7 DEF Becomes, DevTypes, Off
<1> QED
  BY <1>2, <1>3, <1>4, <1>5, <1>6, <1>7, Zenon DEF StopDevice

LEMMA AdminBecomes ==
  ASSUME TypeOK, NEW d \in Drives, AdminUnlock(d)
  PROVE  \/ UNCHANGED dev
         \/ /\ host[HostOf[d]] = "up" /\ dev[d].th = "off" /\ ~Loading(HostOf[d])
            /\ Becomes(d, "run", "failed", None, None, "own")
<1>1. DevTypes
  BY TypeParts
<1> QED
  BY <1>1 DEF AdminUnlock, Becomes, DevTypes, Off

-----------------------------------------------------------------------------
(* Devices, calls and hosts.                                               *)

Work == {"check", "umount", "unload", "release", "load", "mount", "df", "format"}
Stopping == {"stop", "stop_release", "stop_device"}

\* A device works exactly while it has a sub-request, and its operational state
\* and its tape are those of the point it has reached.
Shape(th, op, med, sub, pc) ==
    /\ th = "off" => op = "failed" /\ med = None /\ sub = None /\ pc = "idle"
    /\ th = "dying" => pc = "idle"
    /\ sub \in Tapes <=> pc \in Work
    /\ th = "run" /\ op \in {"empty", "failed"} => med = None
    /\ th = "run" /\ op = "failed" => pc \in {"own", "fill", "idle", "stop_device"}
    /\ op \in {"loaded", "mounted"} /\ pc # "stop_device" => med \in Tapes
    /\ pc \in {"own", "fill"} => op = "failed"
    /\ pc \in {"acquire", "lock", "stop_release"} => op = "loaded"
    /\ pc \in {"release", "load"} => op = "empty"
    /\ pc = "unload" => op = "loaded" /\ med # sub
    /\ pc \in {"mount", "format"} => op = "loaded" /\ med = sub
    /\ pc \in {"umount", "df", "stop"} => op = "mounted"
    /\ pc = "df" => med = sub
    /\ pc = "stop_device" => op # "mounted"

DevShape == \A d \in Drives : Shape(dev[d].th, dev[d].op, dev[d].med, dev[d].sub, dev[d].pc)

\* A call under way is the one its thread waits for.  The call of a dead process
\* finds its device off, or not yet filled by the next one.
CallShape ==
    \A d \in Drives :
        /\ rpc[d].st = "none" <=> rpc[d].op = "none"
        /\ rpc[d].st \notin {"none", "orphan"} =>
              /\ dev[d].th = "run" /\ dev[d].pc \in {"unload", "load", "release"}
              /\ rpc[d].op = (IF dev[d].pc = "release" THEN "unload" ELSE dev[d].pc)
              /\ dev[d].pc = "load" => rpc[d].tape = dev[d].sub
              /\ dev[d].pc = "unload" => rpc[d].tape = dev[d].med
              /\ dev[d].pc = "release" => rpc[d].tape \in Tapes \ {dev[d].sub}
        /\ rpc[d].st = "orphan" =>
              /\ dev[d].med = None /\ dev[d].sub = None
              /\ dev[d].th = "run" => dev[d].pc \in {"own", "fill"}
        /\ ~tlc.up => rpc[d].st \notin {"open", "sent", "orphan"}

HostShape ==
    \A d \in Drives :
        /\ host[HostOf[d]] = "down" => dev[d].th = "off"
        /\ dev[d].sub # None => host[HostOf[d]] \in {"up", "stop"}
        /\ dev[d].pc \in Filling => host[HostOf[d]] \in {"init", "up"}
        /\ dev[d].pc \in Stopping => host[HostOf[d]] = "stop"

ShapeInv == DevShape /\ CallShape /\ HostShape

LEMMA BecomesShape ==
  ASSUME DevShape, NEW d \in Drives, NEW th, NEW op, NEW med, NEW sub, NEW pc,
         Becomes(d, th, op, med, sub, pc), Shape(th, op, med, sub, pc)
  PROVE  DevShape'
BY DEF DevShape, Becomes

LEMMA DeviceStepShape ==
  ASSUME LibInv, DevShape, NEW d \in Drives, DeviceStep(d)
  PROVE  DevShape'
<1> DEFINE D == dev[d]
<1>0. TypeOK /\ Shape(D.th, D.op, D.med, D.sub, D.pc) /\ D \in DevRecord /\ None \notin Tapes
  BY NoneAssumption DEF LibInv, DevShape, TypeOK, DevRecord
<1> USE DEF Work
<1>b. ASSUME NEW th, NEW op, NEW med, NEW sub, NEW pc,
             Becomes(d, th, op, med, sub, pc), Shape(th, op, med, sub, pc)
      PROVE  DevShape'
  BY <1>b, BecomesShape
<1>f. ASSUME Fallen(d), D.th = "run", D.pc \in Work PROVE DevShape'
  <2>1. PICK dead \in BOOLEAN :
          Becomes(d, IF dead THEN "dying" ELSE D.th, IF dead THEN "failed" ELSE D.op, D.med, None, "idle")
    BY <1>f DEF Fallen
  <2>2. Shape(IF dead THEN "dying" ELSE D.th, IF dead THEN "failed" ELSE D.op, D.med, None, "idle")
    BY <1>0, <1>f DEF Shape
  <2> QED
    BY <1>b, <2>1, <2>2
<1>1. CASE Assigned(d)
  <2>1. PICK t \in Tapes, k \in {"read", "write", "format"} : Assign(d, t, k)
    BY <1>1 DEF Assigned
  <2>2. Shape("run", D.op, D.med, t, "check")
    BY <1>0, <2>1 DEF Assign, Running, Shape
  <2> QED
    BY <1>0, <1>b, <2>1, <2>2, AssignBecomes
<1>2. CASE Check(d)
  <2>0. D.th = "run" /\ D.pc = "check"
    BY <1>2 DEF Check, At, Running
  <2>1. CASE D.op = "mounted" /\ D.med = D.sub /\ Becomes(d, "run", D.op, D.med, None, "idle")
    <3>1. Shape("run", D.op, D.med, None, "idle")
      BY <1>0, <2>0, <2>1 DEF Shape
    <3> QED
      BY <1>b, <2>1, <3>1
  <2>2. ASSUME NEW pc \in {"umount", "format", "mount", "unload", "load"},
                 Becomes(d, "run", D.op, D.med, D.sub, pc),
                 pc = "umount" => D.op = "mounted",
                 pc \in {"format", "mount"} => D.op = "loaded" /\ D.med = D.sub,
                 pc = "unload" => D.op = "loaded" /\ D.med # D.sub,
                 pc = "load" => D.op \notin {"loaded", "mounted"}
        PROVE  DevShape'
    <3>1. Shape("run", D.op, D.med, D.sub, pc)
      BY <1>0, <2>0, <2>2 DEF Shape, DevRecord
    <3> QED
      BY <1>b, <2>2, <3>1
  <2> QED
    BY <1>0, <1>2, <2>1, <2>2, CheckBecomes
<1>3. CASE Umount(d)
  <2>1. Shape("run", "loaded", D.med, D.sub, IF D.med = D.sub THEN "format" ELSE "unload")
    BY <1>0, <1>3 DEF Umount, At, Running, Shape
  <2> QED
    BY <1>0, <1>3, <1>b, <2>1, UmountBecomes
<1>4. CASE UmountFails(d) \/ LibRefused(d) \/ MountFails(d)
  BY <1>0, <1>4, <1>f, ErrorFalls DEF UmountFails, LibRefused, MountFails, At, Running
<1>5. CASE LibOpen(d)
  BY <1>5 DEF LibOpen, DevShape
<1>6. CASE UnloadEnds(d)
  <2>0. D.th = "run" /\ D.pc = "unload"
    BY <1>6 DEF UnloadEnds, At, Running
  <2>1. Shape("run", "empty", None, D.sub, "release")
    BY <1>0, <2>0 DEF Shape
  <2> QED
    BY <1>0, <1>6, <1>b, <1>f, <2>0, <2>1, UnloadEndsBecomes
<1>7. CASE Release(d)
  <2>0. D.th = "run" /\ D.pc = "release"
    BY <1>7 DEF Release, At, Running
  <2>1. Shape("run", D.op, D.med, D.sub, "load")
    BY <1>0, <2>0 DEF Shape
  <2> QED
    BY <1>0, <1>7, <1>b, <1>f, <2>0, <2>1, ReleaseBecomes
<1>8. CASE LoadEnds(d)
  <2>0. D.th = "run" /\ D.pc = "load"
    BY <1>8 DEF LoadEnds, At, Running
  <2>1. \A pc \in {"format", "mount"} : Shape("run", "loaded", D.sub, D.sub, pc)
    BY <1>0, <2>0 DEF Shape
  <2> QED
    BY <1>0, <1>8, <1>b, <1>f, <2>0, <2>1, LoadEndsBecomes
<1>9. CASE Mount(d)
  <2>0. D.th = "run" /\ D.pc = "mount"
    BY <1>9 DEF Mount, At, Running
  <2>1. Shape("run", "mounted", D.med, D.sub, "df") /\ Shape("run", "mounted", D.med, None, "idle")
    BY <1>0, <2>0 DEF Shape
  <2> QED
    BY <1>0, <1>9, <1>b, <2>1, MountBecomes
<1>10. CASE Df(d) \/ Format(d)
  <2>0. D.th = "run" /\ D.pc \in {"df", "format"}
    BY <1>10 DEF Df, Format, At, Running
  <2>1. Shape("run", D.op, D.med, None, "idle")
    BY <1>0, <2>0 DEF Shape
  <2> QED
    BY <1>0, <1>10, <1>b, <2>1, WorkedBecomes
<1>11. CASE FormatError(d)
  BY <1>0, <1>11, <1>f, FormatErrorFalls DEF FormatError, At, Running
<1>12. CASE CleanupOnError(d)
  <2>1. Shape("off", "failed", None, None, "idle")
    BY <1>0 DEF Shape
  <2> QED
    BY <1>0, <1>12, <1>b, <2>1, CleanupBecomes
<1>13. CASE Own(d)
  <2>0. D.th = "run" /\ D.pc = "own"
    BY <1>13 DEF Own, At, Running
  <2>1. Shape("run", D.op, D.med, D.sub, "fill") /\ Shape("dying", D.op, D.med, D.sub, "idle")
    BY <1>0, <2>0 DEF Shape
  <2> QED
    BY <1>0, <1>13, <1>b, <2>1, OwnBecomes
<1>14. CASE Fill(d)
  <2>0. D.th = "run" /\ D.pc = "fill" /\ D.op = "failed" /\ D.med = None
    BY <1>0, <1>14 DEF Fill, At, Running, Shape
  <2>1. /\ Shape("run", "empty", D.med, D.sub, "idle") /\ Shape("dying", "empty", D.med, D.sub, "idle")
        /\ \A th \in {"run", "dying"} : Shape(th, D.op, D.med, D.sub, "idle")
        /\ tlc.cache[d].vol \in Tapes => Shape("run", "loaded", tlc.cache[d].vol, D.sub, "acquire")
    BY <1>0, <2>0 DEF Shape
  <2>2. tlc.cache[d].full => tlc.cache[d].vol \in Tapes
    BY DEF LibInv, TlcInv, CacheVols, Elements
  <2> QED
    BY <1>0, <1>14, <1>b, <2>1, <2>2, FillBecomes
<1>15. CASE Acquire(d) \/ TakeLock(d)
  <2>0. D.th = "run" /\ D.pc \in {"acquire", "lock"}
    BY <1>15 DEF Acquire, TakeLock, At, Running
  <2>1. /\ Shape("run", IF d \in mnt THEN "mounted" ELSE "loaded", D.med, D.sub, "idle")
        /\ Shape("run", D.op, D.med, D.sub, "lock") /\ Shape("dying", D.op, D.med, D.sub, "idle")
    BY <1>0, <2>0 DEF Shape
  <2> QED
    BY <1>0, <1>15, <1>b, <2>1, AcquireBecomes
<1>16. CASE StopDevice(d)
  <2>0. D.th = "run"
    BY <1>16 DEF StopDevice, Running
  <2>1. D.pc = "idle" =>
        /\ D.op = "mounted" => Shape("run", D.op, D.med, D.sub, "stop")
        /\ D.op = "loaded" => Shape("run", D.op, D.med, D.sub, "stop_release")
        /\ D.op \in {"failed", "empty"} => Shape("run", D.op, D.med, D.sub, "stop_device")
    BY <1>0, <2>0 DEF Shape
  <2>2. D.pc = "stop" => /\ Shape("run", "loaded", D.med, D.sub, "stop_release")
                         /\ Shape("dying", D.op, D.med, D.sub, "idle")
    BY <1>0, <2>0 DEF Shape
  <2>3. D.pc = "stop_release" => /\ Shape("run", D.op, None, D.sub, "stop_device")
                                 /\ Shape("dying", D.op, D.med, D.sub, "idle")
    BY <1>0, <2>0 DEF Shape
  <2>4. Shape("off", "failed", None, None, "idle")
    BY <1>0 DEF Shape
  <2> QED
    BY <1>0, <1>16, <1>b, <2>1, <2>2, <2>3, <2>4, StopBecomes
<1>17. CASE AdminUnlock(d)
  <2>1. Shape("run", "failed", None, None, "own")
    BY <1>0 DEF Shape
  <2> QED
    BY <1>0, <1>17, <1>b, <2>1, AdminBecomes DEF DevShape
<1> QED
  BY <1>1, <1>2, <1>3, <1>4, <1>5, <1>6, <1>7, <1>8, <1>9, <1>10, <1>11, <1>12, <1>13, <1>14,
     <1>15, <1>16, <1>17 DEF DeviceStep

LEMMA BecomesHost ==
  ASSUME HostShape, UNCHANGED host, NEW d \in Drives, NEW th, NEW op, NEW med, NEW sub, NEW pc,
         Becomes(d, th, op, med, sub, pc),
         host[HostOf[d]] = "down" => th = "off",
         sub # None => host[HostOf[d]] \in {"up", "stop"},
         pc \in Filling => host[HostOf[d]] \in {"init", "up"},
         pc \in Stopping => host[HostOf[d]] = "stop"
  PROVE  HostShape'
BY DEF HostShape, Becomes

LEMMA DeviceStepHost ==
  ASSUME LibInv, ShapeInv, NEW d \in Drives, DeviceStep(d)
  PROVE  HostShape'
<1> DEFINE D == dev[d]
           H == host[HostOf[d]]
<1>0. /\ TypeOK /\ Shape(D.th, D.op, D.med, D.sub, D.pc) /\ None \notin Tapes
      /\ D.sub \in Tapes \cup {None}
      /\ H = "down" => D.th = "off"
      /\ D.sub # None => H \in {"up", "stop"}
      /\ D.pc \in Filling => H \in {"init", "up"}
      /\ D.pc \in Stopping => H = "stop"
  BY NoneAssumption DEF LibInv, ShapeInv, DevShape, HostShape, TypeOK
<1>h. UNCHANGED host
  BY DEF DeviceStep, Assigned, Assign, Check, Umount, UmountFails, LibOpen, LibRefused, UnloadEnds, Release,
     LoadEnds, Mount, MountFails, Df, Format, FormatError, CleanupOnError, Own, Fill, Acquire, TakeLock,
     StopDevice, AdminUnlock, hostVars
<1>b. ASSUME NEW th, NEW op, NEW med, NEW sub, NEW pc, Becomes(d, th, op, med, sub, pc),
             H = "down" => th = "off",
             sub # None => H \in {"up", "stop"},
             pc \in Filling => H \in {"init", "up"},
             pc \in Stopping => H = "stop"
      PROVE  HostShape'
  BY <1>b, <1>h, BecomesHost DEF ShapeInv
<1> USE DEF Work, Filling, Stopping
<1>f. ASSUME Fallen(d), D.th = "run" PROVE HostShape'
  <2>1. PICK dead \in BOOLEAN :
          Becomes(d, IF dead THEN "dying" ELSE D.th, IF dead THEN "failed" ELSE D.op, D.med, None, "idle")
    BY <1>f DEF Fallen
  <2>2. H # "down"
    BY <1>0, <1>f
  <2> QED
    BY <1>b, <2>1, <2>2
<1>1. CASE Assigned(d)
  <2>1. PICK t \in Tapes, k \in {"read", "write", "format"} : Assign(d, t, k)
    BY <1>1 DEF Assigned
  <2>2. H = "up"
    BY <2>1 DEF Assign
  <2> QED
    BY <1>0, <1>b, <2>1, <2>2, AssignBecomes
<1>2. CASE Check(d)
  <2>0. D.th = "run" /\ D.pc = "check" /\ H \in {"up", "stop"}
    BY <1>0, <1>2 DEF Check, At, Running, Shape
  <2> QED
    BY <1>0, <1>2, <1>b, <2>0, CheckBecomes
<1>3. CASE Umount(d)
  <2>0. D.th = "run" /\ D.pc = "umount" /\ H \in {"up", "stop"}
    BY <1>0, <1>3 DEF Umount, At, Running, Shape
  <2> QED
    BY <1>0, <1>3, <1>b, <2>0, UmountBecomes
<1>4. CASE UmountFails(d) \/ LibRefused(d) \/ MountFails(d)
  BY <1>0, <1>4, <1>f, ErrorFalls DEF UmountFails, LibRefused, MountFails, At, Running
<1>5. CASE LibOpen(d)
  BY <1>5, <1>h DEF LibOpen, HostShape, ShapeInv
<1>6. CASE UnloadEnds(d)
  <2>0. D.th = "run" /\ D.pc = "unload" /\ H \in {"up", "stop"}
    BY <1>0, <1>6 DEF UnloadEnds, At, Running, Shape
  <2> QED
    BY <1>0, <1>6, <1>b, <1>f, <2>0, UnloadEndsBecomes
<1>7. CASE Release(d)
  <2>0. D.th = "run" /\ D.pc = "release" /\ H \in {"up", "stop"}
    BY <1>0, <1>7 DEF Release, At, Running, Shape
  <2> QED
    BY <1>0, <1>7, <1>b, <1>f, <2>0, ReleaseBecomes
<1>8. CASE LoadEnds(d)
  <2>0. D.th = "run" /\ D.pc = "load" /\ H \in {"up", "stop"}
    BY <1>0, <1>8 DEF LoadEnds, At, Running, Shape
  <2> QED
    BY <1>0, <1>8, <1>b, <1>f, <2>0, LoadEndsBecomes
<1>9. CASE Mount(d)
  <2>0. D.th = "run" /\ D.pc = "mount" /\ H \in {"up", "stop"}
    BY <1>0, <1>9 DEF Mount, At, Running, Shape
  <2> QED
    BY <1>0, <1>9, <1>b, <2>0, MountBecomes
<1>10. CASE Df(d) \/ Format(d)
  <2>0. D.th = "run" /\ D.pc \in {"df", "format"} /\ H \in {"up", "stop"}
    BY <1>0, <1>10 DEF Df, Format, At, Running, Shape
  <2> QED
    BY <1>0, <1>10, <1>b, <2>0, WorkedBecomes
<1>11. CASE FormatError(d)
  BY <1>0, <1>11, <1>f, FormatErrorFalls DEF FormatError, At, Running
<1>12. CASE CleanupOnError(d)
  BY <1>0, <1>12, <1>b, CleanupBecomes
<1>13. CASE Own(d)
  <2>0. D.th = "run" /\ D.pc = "own" /\ H \in {"init", "up"} /\ D.sub = None
    BY <1>0, <1>13 DEF Own, At, Running, Shape
  <2> QED
    BY <1>0, <1>13, <1>b, <2>0, OwnBecomes
<1>14. CASE Fill(d)
  <2>0. D.th = "run" /\ D.pc = "fill" /\ H \in {"init", "up"} /\ D.sub = None
    BY <1>0, <1>14 DEF Fill, At, Running, Shape
  <2> QED
    BY <1>0, <1>14, <1>b, <2>0, FillBecomes
<1>15. CASE Acquire(d) \/ TakeLock(d)
  <2>0. D.th = "run" /\ D.pc \in {"acquire", "lock"} /\ H \in {"init", "up"} /\ D.sub = None
    BY <1>0, <1>15 DEF Acquire, TakeLock, At, Running, Shape
  <2> QED
    BY <1>0, <1>15, <1>b, <2>0, AcquireBecomes
<1>16. CASE StopDevice(d)
  <2>0. D.th = "run" /\ H = "stop"
    BY <1>16 DEF StopDevice, Running
  <2> QED
    BY <1>0, <1>16, <1>b, <2>0, StopBecomes
<1>17. CASE AdminUnlock(d)
  BY <1>0, <1>17, <1>b, <1>h, AdminBecomes DEF HostShape, ShapeInv
<1> QED
  BY <1>1, <1>2, <1>3, <1>4, <1>5, <1>6, <1>7, <1>8, <1>9, <1>10, <1>11, <1>12, <1>13, <1>14,
     <1>15, <1>16, <1>17 DEF DeviceStep

LEMMA DeviceStepCall ==
  ASSUME LibInv, ShapeInv, NEW d \in Drives, DeviceStep(d)
  PROVE  CallShape'
<1> DEFINE D == dev[d]
<1>0. /\ TypeOK /\ Shape(D.th, D.op, D.med, D.sub, D.pc) /\ None \notin Tapes
      /\ RpcTypes /\ rpc[d] \in RpcRecord /\ D \in DevRecord
      /\ D.pc = "release" => rpc[d].st = "ok"
  <2>1. TypeOK /\ RpcTypes /\ DevTypes
    BY TypeParts DEF LibInv
  <2>2. rpc[d] \in RpcRecord /\ D \in DevRecord
    BY <2>1 DEF RpcTypes, DevTypes
  <2>3. Shape(D.th, D.op, D.med, D.sub, D.pc)
    BY DEF ShapeInv, DevShape
  <2>4. D.pc = "release" => rpc[d].st = "ok"
    BY DEF LibInv, CallOK
  <2> QED
    BY <2>1, <2>2, <2>3, <2>4, NoneAssumption
<1>t. UNCHANGED tlc
  BY DEF DeviceStep, Assigned, Assign, Check, Umount, UmountFails, LibOpen, LibRefused, UnloadEnds, Release,
     LoadEnds, Mount, MountFails, Df, Format, FormatError, CleanupOnError, Own, Fill, Acquire, TakeLock,
     StopDevice, AdminUnlock, tlcVars
<1>n. ASSUME UNCHANGED rpc, rpc[d].st = "none", \A o \in Drives \ {d} : dev'[o] = dev[o]
      PROVE  CallShape'
  BY <1>n, <1>t DEF ShapeInv, CallShape
<1>o. ASSUME UNCHANGED rpc, rpc[d].st = "orphan",
             NEW th, NEW op, NEW pc, Becomes(d, th, op, D.med, D.sub, pc),
             th = "run" => pc \in {"own", "fill"}
      PROVE  CallShape'
  BY <1>o, <1>t DEF ShapeInv, CallShape, Becomes
<1>c. ASSUME Closed(d), \A o \in Drives \ {d} : dev'[o] = dev[o]
      PROVE  CallShape'
  BY <1>0, <1>c, <1>t DEF ShapeInv, CallShape, Closed, Idle, RpcTypes
<1>s. D.th = "run" /\ D.pc \notin {"unload", "load", "release", "own", "fill"} => rpc[d].st = "none"
  BY <1>0 DEF ShapeInv, CallShape, RpcRecord
<1>e. ASSUME Fallen(d) PROVE \A o \in Drives \ {d} : dev'[o] = dev[o]
  BY <1>e DEF Fallen, Becomes
<1> USE DEF tlcVars
<1>1. CASE Assigned(d)
  <2>1. PICK t \in Tapes, k \in {"read", "write", "format"} : Assign(d, t, k)
    BY <1>1 DEF Assigned
  <2> QED
    BY <1>0, <1>n, <1>s, <2>1, AssignBecomes DEF Assign, Running, Becomes
<1>2. CASE Check(d)
  <2>1. \A o \in Drives \ {d} : dev'[o] = dev[o]
    BY <1>0, <1>2, CheckBecomes DEF Becomes
  <2> QED
    BY <1>2, <1>n, <1>s, <2>1 DEF Check, At, Running
<1>3. CASE Umount(d)
  <2>1. \A o \in Drives \ {d} : dev'[o] = dev[o]
    BY <1>0, <1>3, UmountBecomes DEF Becomes
  <2> QED
    BY <1>3, <1>n, <1>s, <2>1 DEF Umount, At, Running
<1>4. CASE UmountFails(d) \/ LibRefused(d) \/ MountFails(d)
  <2>1. rpc[d].st = "none" /\ UNCHANGED rpc
    BY <1>4, <1>s DEF UmountFails, LibRefused, MountFails, At, Running
  <2> QED
    BY <1>0, <1>4, <1>e, <1>n, <2>1, ErrorFalls
<1>5. CASE LibOpen(d)
  <2>1. /\ rpc'[d].st = "open" /\ rpc'[d].op = D.pc
        /\ rpc'[d].tape = IF D.pc = "load" THEN D.sub ELSE D.med
        /\ \A o \in Drives \ {d} : rpc'[o] = rpc[o]
        /\ UNCHANGED dev /\ D.pc \in {"unload", "load"} /\ D.th = "run" /\ tlc.up
    BY <1>0, <1>5 DEF LibOpen, RpcTypes, Running
  <2> QED
    BY <1>0, <1>t, <2>1 DEF ShapeInv, CallShape
<1>6. CASE UnloadEnds(d)
  <2>1. CASE /\ rpc[d].st = "ok" /\ UNCHANGED <<rpc, dssVars>>
             /\ Becomes(d, "run", "empty", None, D.sub, "release")
    <3>1. D.pc = "unload" /\ D.th = "run"
      BY <1>6 DEF UnloadEnds, At, Running
    <3>2. rpc[d].tape = D.med /\ rpc[d].op = "unload" /\ D.med # D.sub /\ D.med \in Tapes
      BY <1>0, <2>1, <3>1 DEF ShapeInv, CallShape, Shape
    <3> QED
      BY <1>t, <2>1, <3>1, <3>2 DEF ShapeInv, CallShape, Becomes
  <2>2. CASE Closed(d) /\ Fallen(d)
    BY <1>c, <1>e, <2>2
  <2> QED
    BY <1>0, <1>6, <2>1, <2>2, UnloadEndsBecomes
<1>7. CASE Release(d)
  <2>1. Closed(d) /\ \A o \in Drives \ {d} : dev'[o] = dev[o]
    BY <1>0, <1>7, <1>e, ReleaseBecomes DEF Becomes
  <2> QED
    BY <1>c, <2>1
<1>8. CASE LoadEnds(d)
  <2>1. Closed(d) /\ \A o \in Drives \ {d} : dev'[o] = dev[o]
    BY <1>0, <1>8, <1>e, LoadEndsBecomes DEF Becomes
  <2> QED
    BY <1>c, <2>1
<1>9. CASE Mount(d)
  <2>1. \A o \in Drives \ {d} : dev'[o] = dev[o]
    BY <1>0, <1>9, MountBecomes DEF Becomes
  <2> QED
    BY <1>9, <1>n, <1>s, <2>1 DEF Mount, At, Running
<1>10. CASE Df(d) \/ Format(d)
  <2>1. \A o \in Drives \ {d} : dev'[o] = dev[o]
    BY <1>0, <1>10, WorkedBecomes DEF Becomes
  <2> QED
    BY <1>10, <1>n, <1>s, <2>1 DEF Df, Format, At, Running
<1>11. CASE FormatError(d)
  <2>1. rpc[d].st = "none" /\ UNCHANGED rpc
    BY <1>11, <1>s DEF FormatError, At, Running
  <2> QED
    BY <1>0, <1>11, <1>e, <1>n, <2>1, FormatErrorFalls
<1>12. CASE CleanupOnError(d)
  <2>1. rpc[d].st \in {"none", "orphan"} /\ UNCHANGED rpc
    BY <1>0, <1>12 DEF CleanupOnError, ShapeInv, CallShape, RpcRecord
  <2>2. Becomes(d, "off", "failed", None, None, "idle")
    BY <1>0, <1>12, CleanupBecomes
  <2>3. rpc[d].st = "orphan" => D.med = None /\ D.sub = None
    BY DEF ShapeInv, CallShape
  <2> QED
    BY <1>n, <1>o, <2>1, <2>2, <2>3 DEF Becomes
<1>13. CASE Own(d)
  <2>1. rpc[d].st \in {"none", "orphan"} /\ UNCHANGED rpc
    BY <1>0, <1>13 DEF Own, At, ShapeInv, CallShape, RpcRecord
  <2> QED
    BY <1>0, <1>13, <1>n, <1>o, <2>1, OwnBecomes DEF Becomes
<1>14. CASE Fill(d)
  <2>1. rpc[d].st \in {"none", "orphan"} /\ UNCHANGED rpc
    BY <1>0, <1>14 DEF Fill, At, ShapeInv, CallShape, RpcRecord
  <2>2. ~tlc.up => rpc[d].st # "orphan"
    BY DEF ShapeInv, CallShape
  <2>3. \/ rpc[d].st = "none" /\ \A o \in Drives \ {d} : dev'[o] = dev[o]
        \/ rpc[d].st = "orphan" /\ Becomes(d, "dying", "empty", D.med, D.sub, "idle")
    BY <1>0, <1>14, <2>1, <2>2, FillBecomes DEF Becomes
  <2> QED
    BY <1>n, <1>o, <2>1, <2>3
<1>15. CASE Acquire(d) \/ TakeLock(d)
  <2>1. \A o \in Drives \ {d} : dev'[o] = dev[o]
    BY <1>0, <1>15, AcquireBecomes DEF Becomes
  <2> QED
    BY <1>15, <1>n, <1>s, <2>1 DEF Acquire, TakeLock, At, Running
<1>16. CASE StopDevice(d)
  <2>1. \A o \in Drives \ {d} : dev'[o] = dev[o]
    BY <1>0, <1>16, StopBecomes DEF Becomes
  <2>2. rpc[d].st = "none" /\ UNCHANGED rpc
    BY <1>16, <1>s DEF StopDevice, Running
  <2> QED
    BY <1>n, <2>1, <2>2
<1>17. CASE AdminUnlock(d)
  <2>1. CASE UNCHANGED dev
    <3>1. UNCHANGED <<dev, rpc, tlc>> /\ CallShape
      BY <1>17, <1>t, <2>1 DEF AdminUnlock, tlcVars, ShapeInv
    <3> QED
      BY <3>1, Zenon DEF CallShape
  <2>2. CASE dev[d].th = "off" /\ Becomes(d, "run", "failed", None, None, "own")
    <3>1. rpc[d].st \in {"none", "orphan"} /\ UNCHANGED rpc
      BY <1>0, <1>17, <2>2 DEF AdminUnlock, ShapeInv, CallShape, RpcRecord
    <3>2. D.med = None /\ D.sub = None
      BY <1>0, <2>2 DEF Shape
    <3> QED
      BY <1>n, <1>o, <2>2, <3>1, <3>2 DEF Becomes
  <2> QED
    BY <1>0, <1>17, <2>1, <2>2, AdminBecomes
<1> QED
  BY <1>1, <1>2, <1>3, <1>4, <1>5, <1>6, <1>7, <1>8, <1>9, <1>10, <1>11, <1>12, <1>13, <1>14,
     <1>15, <1>16, <1>17 DEF DeviceStep

\* What a step of the TLC makes of the calls.
Replies(d, st) ==
    /\ First(d) /\ rpc[d].st \in Asked
    /\ \A o \in Drives \ {d} : rpc'[o] = rpc[o]
    /\ rpc[d].st = "orphan" => rpc'[d].st = "none" /\ rpc'[d].op = "none" /\ rpc'[d].tape = None
    /\ rpc[d].st = "sent" => rpc'[d].st = st /\ rpc'[d].op = rpc[d].op /\ rpc'[d].tape = rpc[d].tape
    /\ tlc'.up = tlc.up /\ tlc'.queue = Tail(tlc.queue)
SameCalls ==
    /\ \A d \in Drives : rpc'[d].st = rpc[d].st /\ rpc'[d].op = rpc[d].op /\ rpc'[d].tape = rpc[d].tape
    /\ tlc'.queue = tlc.queue
CutCalls ==
    /\ \A d \in Drives :
         /\ rpc[d].st = "sent" => rpc'[d].st = "lost" /\ rpc'[d].op = rpc[d].op /\ rpc'[d].tape = rpc[d].tape
         /\ rpc[d].st = "open" => rpc'[d].st = "pipe" /\ rpc'[d].op = rpc[d].op /\ rpc'[d].tape = rpc[d].tape
         /\ rpc[d].st = "orphan" => rpc'[d].st = "none" /\ rpc'[d].op = "none"
         /\ rpc[d].st \notin {"sent", "open", "orphan"} => rpc'[d] = rpc[d]
    /\ ~tlc'.up /\ tlc'.cache = tlc.cache /\ tlc'.queue = <<>> /\ ~tlc'.busy

LEMMA AnswerReplies ==
  ASSUME LibInv, NEW d \in Drives, First(d), NEW st, Answer(d, st),
         tlc'.up = tlc.up, tlc'.queue = Tail(tlc.queue)
  PROVE  Replies(d, st)
<1>1. RpcTypes /\ tlc.queue \in Seq(Drives)
  BY TypeParts DEF LibInv, TypeOK
<1>2. rpc[d].st \in Asked
  BY <1>1 DEF First, LibInv, TlcInv, Queued
<1> QED
  BY <1>1, <1>2 DEF Answer, Replies, RpcTypes, RpcRecord, Idle

LEMMA DownCuts ==
  ASSUME LibInv, tlc' = Down, rpc' = Cut
  PROVE  CutCalls
<1>1. RpcTypes /\ tlc \in TlcRecord
  BY TypeParts DEF LibInv, TlcTypes
<1>2. ~tlc'.up /\ tlc'.cache = tlc.cache /\ tlc'.queue = <<>> /\ ~tlc'.busy
  BY <1>1 DEF Down, TlcRecord
<1> QED
  BY <1>1, <1>2 DEF Cut, CutCalls, RpcTypes, RpcRecord, Idle

LEMMA RetryReplies ==
  ASSUME LibInv, NEW d \in Drives, Serving(d), NEW mute \in BOOLEAN, Retry(d, mute)
  PROVE  Replies(d, "err") \/ (SameCalls /\ tlc'.up = tlc.up)
<1>0. RpcTypes /\ tlc \in TlcRecord /\ First(d) /\ tlc.queue # <<>>
  BY TypeParts DEF LibInv, TlcTypes, Serving, First
<1> DEFINE valid == IF mute THEN tlc.fds \ {tlc.cur} ELSE tlc.fds
           next == NextFd(NbLibDev, valid, tlc.cur)
           over == next = 0 \/ rpc[d].tries = 1
<1>1. /\ tlc' = [(IF over THEN Served ELSE tlc) EXCEPT !.fds = valid, !.cur = next]
      /\ IF over THEN Answer(d, "err") ELSE rpc' = [rpc EXCEPT ![d].tries = @ - 1]
  BY Zenon DEF Retry
<1> HIDE DEF valid, next
<1>2. CASE over
  <2> DEFINE T == Served
  <2>1. T \in TlcRecord
    BY <1>0, TlcUpdates, Zenon DEF Served
  <2>2. T.queue = Tail(tlc.queue) /\ T.up = tlc.up
    BY <1>0 DEF Served, TlcRecord
  <2> HIDE DEF T
  <2>3. tlc' = [T EXCEPT !.fds = valid, !.cur = next] /\ Answer(d, "err")
    BY <1>1, <1>2, Zenon DEF T
  <2>4. tlc'.queue = Tail(tlc.queue) /\ tlc'.up = tlc.up
    BY <2>1, <2>2, <2>3 DEF TlcRecord
  <2> QED
    BY <1>0, <2>3, <2>4, AnswerReplies
<1>3. CASE ~over
  <2>1. tlc' = [tlc EXCEPT !.fds = valid, !.cur = next] /\ rpc' = [rpc EXCEPT ![d].tries = @ - 1]
    BY <1>1, <1>3, Zenon
  <2>2. tlc'.queue = tlc.queue /\ tlc'.up = tlc.up
    BY <1>0, <2>1 DEF TlcRecord
  <2> QED
    BY <1>0, <2>1, <2>2 DEF SameCalls, RpcTypes, RpcRecord
<1> QED
  BY <1>2, <1>3

LEMMA TlcRefusesReplies ==
  ASSUME LibInv, NEW d \in Drives, TlcRefuses(d)
  PROVE  Replies(d, "err") /\ tlc'.cache = tlc.cache
<1>1. tlc \in TlcRecord /\ First(d)
  BY TypeParts DEF LibInv, TlcTypes, TlcRefuses, Pending
<1>2. tlc'.up = tlc.up /\ tlc'.queue = Tail(tlc.queue) /\ tlc'.cache = tlc.cache
  BY <1>1 DEF TlcRefuses, Served, TlcRecord
<1> QED
  BY <1>1, <1>2, AnswerReplies DEF TlcRefuses

LEMMA TlcBeginsReplies ==
  ASSUME LibInv, NEW d \in Drives, TlcBegins(d)
  PROVE  SameCalls /\ tlc'.up = tlc.up /\ tlc'.cache = tlc.cache
<1>1. RpcTypes /\ tlc \in TlcRecord
  BY TypeParts DEF LibInv, TlcTypes
<1> QED
  BY <1>1 DEF TlcBegins, SameCalls, RpcTypes, RpcRecord, TlcRecord

LEMMA MoveFailedReplies ==
  ASSUME LibInv, NEW d \in Drives, MoveFailed(d) \/ MoveFailedDone(d)
  PROVE  (Replies(d, "err") \/ (SameCalls /\ tlc'.up = tlc.up)) /\ tlc'.cache = tlc.cache
<1>1. PICK mute \in BOOLEAN : Retry(d, mute)
  BY DEF MoveFailed, MoveFailedDone
<1>2. Serving(d) /\ UNCHANGED dev
  BY DEF MoveFailed, MoveFailedDone
<1> QED
  BY <1>1, <1>2, RetryReplies, RetrySteps

\* A move that took place, seen from the library and from the cache.
Transfer(d, e, f, t) ==
    /\ e = MoveOf(d)[1] /\ f = MoveOf(d)[2] /\ Serving(d)
    /\ e \in Elements \ mnt /\ f \in Elements /\ e # f /\ t \in Tapes
    /\ at[t] = e /\ at'[t] = f
    /\ \A u \in Tapes \ {t} : at'[u] = at[u] /\ at[u] \notin {e, f}
LEMMA MoveDoneReplies ==
  ASSUME LibInv, NEW d \in Drives, MoveDone(d)
  PROVE  /\ Replies(d, "ok")
         /\ \E e, f \in Elements, t \in Tapes :
              /\ Transfer(d, e, f, t)
              /\ tlc.cache[e].full /\ tlc'.cache[f].full /\ tlc'.cache[f].vol = tlc.cache[e].vol
              /\ \A g \in Elements \ {e, f} : tlc'.cache[g] = tlc.cache[g]
<1>0. LibTypes /\ tlc \in TlcRecord /\ First(d) /\ tlc.queue # <<>> /\ tlc.cache \in [Elements -> ElementStatus]
  BY TypeParts DEF LibInv, TlcTypes, MoveDone, Serving, First, TlcRecord
<1> DEFINE e == MoveOf(d)[1]
           f == MoveOf(d)[2]
           T == Served
<1>1. e \in Elements /\ f \in Elements /\ tlc.cache[e].full
  BY DEF LibInv, TlcInv, Moving, MoveDone
<1>2. /\ Movable(e, f) /\ Moved(e, f)
      /\ tlc' = [T EXCEPT !.cache = MoveTape(@, e, f)]
  BY Zenon DEF MoveDone
<1>3. T \in TlcRecord
  BY <1>0, TlcUpdates, Zenon DEF Served
<1>4. T.queue = Tail(tlc.queue) /\ T.up = tlc.up /\ T.cache = tlc.cache
  BY <1>0 DEF Served, TlcRecord
<1> HIDE DEF T
<1>5. tlc'.queue = Tail(tlc.queue) /\ tlc'.up = tlc.up /\ tlc'.cache = MoveTape(tlc.cache, e, f)
  BY <1>2, <1>3, <1>4 DEF TlcRecord
<1>6. Replies(d, "ok")
  BY <1>0, <1>5, AnswerReplies DEF MoveDone
<1> HIDE DEF e, f
<1>7. PICK t \in Tapes : /\ at[t] = e /\ at'[t] = f /\ e # f
                         /\ \A u \in Tapes \ {t} : at'[u] = at[u] /\ at[u] \notin {e, f}
  BY <1>0, <1>1, <1>2, MovedTapes DEF LibInv, TlcInv, MoveDone
<1>8. Transfer(d, e, f, t)
  BY <1>1, <1>2, <1>7 DEF Transfer, Movable, MoveDone, e, f
<1>9. /\ tlc'.cache[f].full /\ tlc'.cache[f].vol = tlc.cache[e].vol
      /\ \A g \in Elements \ {e, f} : tlc'.cache[g] = tlc.cache[g]
  BY <1>0, <1>1, <1>5, <1>7 DEF MoveTape
<1> QED
  BY <1>1, <1>6, <1>8, <1>9

LEMMA MoveFailedDoneMoves ==
  ASSUME LibInv, NEW d \in Drives, MoveFailedDone(d)
  PROVE  \E e, f \in Elements, t \in Tapes : Transfer(d, e, f, t) /\ tlc.cache[e].full
<1>0. LibTypes
  BY TypeParts DEF LibInv
<1> DEFINE e == MoveOf(d)[1]
           f == MoveOf(d)[2]
<1>1. e \in Elements /\ f \in Elements /\ tlc.cache[e].full
  BY DEF LibInv, TlcInv, Moving, MoveFailedDone
<1>2. Movable(e, f) /\ Moved(e, f)
  BY Zenon DEF MoveFailedDone
<1> HIDE DEF e, f
<1>7. PICK t \in Tapes : /\ at[t] = e /\ at'[t] = f /\ e # f
                         /\ \A u \in Tapes \ {t} : at'[u] = at[u] /\ at[u] \notin {e, f}
  BY <1>0, <1>1, <1>2, MovedTapes DEF LibInv, TlcInv, MoveFailedDone
<1>8. Transfer(d, e, f, t)
  BY <1>1, <1>2, <1>7 DEF Transfer, Movable, MoveFailedDone, e, f
<1> QED
  BY <1>1, <1>8

\* What the start and the death of an LRS make of its devices.
LEMMA StartBecomes ==
  ASSUME TypeOK, NEW h \in Hosts, StartHost(h), NEW d \in Drives
  PROVE  \/ dev'[d] = dev[d]
         \/ /\ HostOf[d] = h
            /\ dev'[d].th = "run" /\ dev'[d].op = "failed" /\ dev'[d].med = None /\ dev'[d].sub = None
            /\ dev'[d].pc = "own"
BY DEF StartHost, Off

LEMMA CrashBecomes ==
  ASSUME TypeOK, NEW h \in Hosts, Crash(h), NEW d \in Drives
  PROVE  /\ HostOf[d] # h => dev'[d] = dev[d] /\ rpc'[d] = rpc[d]
         /\ HostOf[d] = h =>
              /\ dev'[d].th = "off" /\ dev'[d].op = "failed" /\ dev'[d].med = None /\ dev'[d].sub = None
              /\ dev'[d].pc = "idle"
              /\ rpc[d].st \in Asked =>
                   rpc'[d].st = "orphan" /\ rpc'[d].op = rpc[d].op /\ rpc'[d].tape = rpc[d].tape
              /\ rpc[d].st \notin Asked => rpc'[d].st = "none" /\ rpc'[d].op = "none" /\ rpc'[d].tape = None
<1>1. rpc[d] \in RpcRecord
  BY TypeParts DEF RpcTypes
<1> QED
  BY <1>1 DEF Crash, Off, Idle, Asked, RpcRecord

LEMMA HostStepShape ==
  ASSUME LibInv, ShapeInv, NEW h \in Hosts, HostStep(h)
  PROVE  ShapeInv'
<1>0. TypeOK /\ host \in [Hosts -> {"down", "init", "up", "stop"}] /\ None \notin Tapes
      /\ \A d \in Drives : HostOf[d] \in Hosts
  BY NoneAssumption, HostAssumption DEF LibInv, TypeOK
<1> USE DEF tlcVars, Filling, Stopping
<1>1. CASE StartHost(h)
  <2>0. /\ host[h] = "down" /\ host'[h] = "init" /\ UNCHANGED <<tlc, rpc>>
        /\ \A g \in Hosts \ {h} : host'[g] = host[g]
    BY <1>0, <1>1 DEF StartHost
  <2>1. \A d \in Drives : HostOf[d] = h => /\ dev[d].th = "off" /\ dev[d].med = None /\ dev[d].sub = None
                                           /\ dev[d].pc = "idle" /\ dev[d].op = "failed"
    BY <2>0 DEF ShapeInv, HostShape, DevShape, Shape
  <2>2. DevShape'
    <3>1. Shape("run", "failed", None, None, "own")
      BY <1>0 DEF Shape, Work
    <3> QED
      BY <1>0, <1>1, <3>1, StartBecomes DEF ShapeInv, DevShape
  <2>3. ASSUME NEW d \in Drives, HostOf[d] = h
        PROVE  /\ rpc[d].st \in {"none", "orphan"}
               /\ dev'[d].med = None /\ dev'[d].sub = None /\ dev'[d].th = "run" => dev'[d].pc = "own"
    BY <1>0, <1>1, <2>1, <2>3, StartBecomes DEF ShapeInv, CallShape, LibInv, TypeOK
  <2>4. CallShape'
    <3>1. \A d \in Drives : HostOf[d] # h => dev'[d] = dev[d]
      BY <1>0, <1>1, StartBecomes
    <3>2. \A d \in Drives : HostOf[d] = h => dev'[d].med = None /\ dev'[d].sub = None
      BY <1>0, <1>1, <2>1, StartBecomes
    <3> QED
      BY <2>0, <2>3, <3>1, <3>2 DEF ShapeInv, CallShape
  <2>5. HostShape'
    <3> SUFFICES ASSUME NEW d \in Drives
                 PROVE  /\ host'[HostOf[d]] = "down" => dev'[d].th = "off"
                        /\ dev'[d].sub # None => host'[HostOf[d]] \in {"up", "stop"}
                        /\ dev'[d].pc \in Filling => host'[HostOf[d]] \in {"init", "up"}
                        /\ dev'[d].pc \in Stopping => host'[HostOf[d]] = "stop"
      BY DEF HostShape
    <3>1. CASE HostOf[d] = h
      BY <1>0, <1>1, <2>0, <2>1, <3>1, StartBecomes
    <3>2. CASE HostOf[d] # h
      BY <1>0, <1>1, <2>0, <3>2, StartBecomes DEF ShapeInv, HostShape
    <3> QED
      BY <3>1, <3>2
  <2> QED
    BY <2>2, <2>4, <2>5 DEF ShapeInv
<1>2. CASE CleanLocks(h)
  <2>1. UNCHANGED <<dev, rpc, tlc>> /\ host[h] = "init" /\ host' = [host EXCEPT ![h] = "up"]
    BY <1>2 DEF CleanLocks
  <2>2. DevShape' /\ CallShape'
    BY <2>1 DEF ShapeInv, DevShape, CallShape
  <2>3. HostShape'
    BY <1>0, <2>1 DEF ShapeInv, HostShape
  <2> QED
    BY <2>2, <2>3 DEF ShapeInv
<1>3. CASE StopHost(h)
  <2>1. UNCHANGED <<dev, rpc, tlc>> /\ host[h] = "up" /\ host' = [host EXCEPT ![h] = "stop"]
    BY <1>3 DEF StopHost
  <2>2. DevShape' /\ CallShape'
    BY <2>1 DEF ShapeInv, DevShape, CallShape
  <2>3. \A d \in Drives : HostOf[d] = h => dev[d].pc \notin Filling
    BY <1>3 DEF StopHost, Loading, DrivesOf
  <2>4. HostShape'
    BY <1>0, <2>1, <2>3 DEF ShapeInv, HostShape
  <2> QED
    BY <2>2, <2>4 DEF ShapeInv
<1>4. CASE HostEnds(h)
  <2>1. UNCHANGED <<dev, rpc, tlc>> /\ host[h] = "stop" /\ host' = [host EXCEPT ![h] = "down"]
    BY <1>4 DEF HostEnds
  <2>2. DevShape' /\ CallShape'
    BY <2>1 DEF ShapeInv, DevShape, CallShape
  <2>3. \A d \in Drives : HostOf[d] = h => dev[d].th = "off" /\ dev[d].sub = None /\ dev[d].pc = "idle"
    BY <1>4 DEF HostEnds, DrivesOf, ShapeInv, DevShape, Shape
  <2>4. HostShape'
    BY <1>0, <2>1, <2>3 DEF ShapeInv, HostShape
  <2> QED
    BY <2>2, <2>4 DEF ShapeInv
<1>5. CASE Crash(h)
  <2>1. UNCHANGED tlc /\ host' = [host EXCEPT ![h] = "down"]
    BY <1>5 DEF Crash
  <2>2. Shape("off", "failed", None, None, "idle")
    BY <1>0 DEF Shape, Work
  <2>3. DevShape'
    BY <1>0, <1>5, <2>2, CrashBecomes DEF ShapeInv, DevShape
  <2>4. CallShape'
    BY <1>0, <1>5, <2>1, CrashBecomes DEF ShapeInv, CallShape, Asked
  <2>5. HostShape'
    BY <1>0, <1>5, <2>1, CrashBecomes DEF ShapeInv, HostShape
  <2> QED
    BY <2>3, <2>4, <2>5 DEF ShapeInv
<1> QED
  BY <1>1, <1>2, <1>3, <1>4, <1>5 DEF HostStep

LEMMA TlcStepShape ==
  ASSUME LibInv, ShapeInv, UNCHANGED <<dev, host>>,
         \/ \E d \in Drives, st \in {"ok", "err"} : Replies(d, st)
         \/ SameCalls /\ (tlc'.up \/ tlc'.up = tlc.up)
         \/ CutCalls
  PROVE  ShapeInv'
<1>1. DevShape' /\ HostShape'
  BY DEF ShapeInv, DevShape, HostShape
<1>2. CASE \E d \in Drives, st \in {"ok", "err"} : Replies(d, st)
  <2>1. PICK d \in Drives, st \in {"ok", "err"} : Replies(d, st)
    BY <1>2
  <2>2. ASSUME rpc[d].st = "orphan" PROVE CallShape'
    BY <2>1, <2>2 DEF ShapeInv, CallShape, Replies
  <2>3. ASSUME rpc[d].st = "sent" PROVE CallShape'
    BY <2>1, <2>3 DEF ShapeInv, CallShape, Replies
  <2>4. CallShape'
    BY <2>1, <2>2, <2>3 DEF Replies, Asked
  <2> QED
    BY <1>1, <2>4 DEF ShapeInv
<1>3. CASE SameCalls /\ (tlc'.up \/ tlc'.up = tlc.up)
  <2>1. CallShape'
    BY <1>3 DEF ShapeInv, CallShape, SameCalls
  <2> QED
    BY <1>1, <2>1 DEF ShapeInv
<1>4. CASE CutCalls
  <2>1. ASSUME NEW d \in Drives
        PROVE  /\ rpc'[d].st = "none" <=> rpc'[d].op = "none"
               /\ rpc'[d].st \notin {"open", "sent", "orphan"}
               /\ rpc'[d].st \notin {"none", "orphan"} =>
                    /\ rpc[d].st \notin {"none", "orphan"}
                    /\ rpc'[d].op = rpc[d].op /\ rpc'[d].tape = rpc[d].tape
    BY <1>4 DEF CutCalls, ShapeInv, CallShape
  <2>2. CallShape'
    BY <2>1 DEF ShapeInv, CallShape
  <2> QED
    BY <1>1, <2>2 DEF ShapeInv
<1> QED
  BY <1>2, <1>3, <1>4

LEMMA LibSendShape ==
  ASSUME LibInv, ShapeInv, NEW d \in Drives, LibSend(d)
  PROVE  ShapeInv'
<1>1. RpcTypes /\ tlc \in TlcRecord
  BY TypeParts DEF LibInv, TlcTypes
<1>2. /\ rpc[d].st = "open" /\ rpc'[d].st = "sent" /\ rpc'[d].op = rpc[d].op /\ rpc'[d].tape = rpc[d].tape
      /\ \A o \in Drives \ {d} : rpc'[o] = rpc[o]
      /\ tlc'.up = tlc.up
  BY <1>1 DEF LibSend, RpcTypes, RpcRecord, TlcRecord
<1>3. CallShape'
  BY <1>2 DEF ShapeInv, CallShape, LibSend
<1> QED
  BY <1>3 DEF ShapeInv, DevShape, HostShape, LibSend, hostVars

\* A step of the system, by its actor.
LibraryStep ==
    \/ \E d \in Drives : \/ TlcRefuses(d) \/ TlcBegins(d) \/ TlcNoFreeSlot(d) \/ MoveDone(d)
                         \/ MoveFailed(d) \/ MoveFailedDone(d)
    \/ TlcDies
    \/ \E shut, mute \in SUBSET LibDevs : TlcOpens(shut, mute)

LEMMA NextActors ==
  ASSUME Next
  PROVE  \/ \E d \in Drives : DeviceStep(d) \/ LibSend(d)
         \/ \E h \in Hosts : HostStep(h)
         \/ LibraryStep
BY Zenon DEF Next, ThreadStep, TlcStep, DeviceStep, Assigned, HostStep, LibraryStep

\* Every step of the TLC changes only the library, the cache and the calls.
LEMMA LibraryStepEffect ==
  ASSUME LibInv, LibraryStep
  PROVE  /\ UNCHANGED <<dev, host, pid, torn, mnt, lock, dlock, adm, dadm, fs>>
         /\ \/ \E d \in Drives, st \in {"ok", "err"} : Replies(d, st)
            \/ SameCalls /\ (tlc'.up \/ tlc'.up = tlc.up)
            \/ CutCalls
<1>1. ASSUME NEW d \in Drives, TlcRefuses(d) \/ TlcBegins(d) \/ TlcNoFreeSlot(d) \/ MoveDone(d)
                               \/ MoveFailed(d) \/ MoveFailedDone(d)
      PROVE  UNCHANGED <<dev, host, pid, torn, mnt, lock, dlock, adm, dadm, fs>>
  BY <1>1 DEF TlcRefuses, TlcBegins, TlcNoFreeSlot, MoveDone, MoveFailed, MoveFailedDone, libVars, hostVars,
     dssVars
<1>2. ASSUME NEW d \in Drives, TlcRefuses(d) \/ TlcBegins(d) \/ MoveDone(d)
                               \/ MoveFailed(d) \/ MoveFailedDone(d)
      PROVE  \/ \E o \in Drives, st \in {"ok", "err"} : Replies(o, st)
             \/ SameCalls /\ tlc'.up = tlc.up
  BY <1>2, TlcRefusesReplies, TlcBeginsReplies, MoveDoneReplies, MoveFailedReplies
<1>3. ASSUME NEW d \in Drives, TlcNoFreeSlot(d) PROVE CutCalls
  BY <1>3, DownCuts DEF TlcNoFreeSlot
<1>4. ASSUME TlcDies
      PROVE  CutCalls /\ UNCHANGED <<dev, host, pid, torn, mnt, lock, dlock, adm, dadm, fs>>
  BY <1>4, DownCuts DEF TlcDies, libVars, hostVars, dssVars
<1>5. ASSUME NEW shut \in SUBSET LibDevs, NEW mute \in SUBSET LibDevs, TlcOpens(shut, mute)
      PROVE  /\ UNCHANGED <<dev, host, pid, torn, mnt, lock, dlock, adm, dadm, fs>>
             /\ (SameCalls /\ tlc'.up) \/ CutCalls
  <2>1. UNCHANGED <<dev, host, pid, torn, mnt, lock, dlock, adm, dadm, fs>>
    BY <1>5 DEF TlcOpens, libVars, hostVars, dssVars
  <2>2. CASE tlc' = Down /\ rpc' = Cut
    BY <2>1, <2>2, DownCuts
  <2>3. CASE /\ tlc' = [up |-> TRUE, cache |-> LibStatus(at, from), fds |-> LibDevs \ (shut \cup mute),
                        cur |-> FirstOpened(LibDevs, shut), queue |-> tlc.queue, busy |-> FALSE]
             /\ UNCHANGED rpc
    BY <2>1, <2>3 DEF SameCalls
  <2> QED
    BY <1>5, <2>2, <2>3 DEF TlcOpens
<1> QED
  BY <1>1, <1>2, <1>3, <1>4, <1>5 DEF LibraryStep

LEMMA ShapeInit == Init => ShapeInv
<1> SUFFICES ASSUME Init PROVE ShapeInv
  OBVIOUS
<1>1. None \notin Tapes
  BY NoneAssumption
<1>2. DevShape
  BY <1>1 DEF Init, Off, DevShape, Shape, Work
<1>3. CallShape
  BY DEF Init, Off, Idle, CallShape
<1>4. HostShape
  BY DEF Init, Off, HostShape, Filling, Stopping
<1> QED
  BY <1>2, <1>3, <1>4 DEF ShapeInv

LEMMA ShapeStep == LibInv /\ ShapeInv /\ [Next]_vars => ShapeInv'
<1> SUFFICES ASSUME LibInv, ShapeInv, [Next]_vars PROVE ShapeInv'
  OBVIOUS
<1>1. ASSUME NEW d \in Drives, DeviceStep(d) PROVE ShapeInv'
  BY <1>1, DeviceStepShape, DeviceStepHost, DeviceStepCall DEF ShapeInv
<1>2. CASE LibraryStep
  BY <1>2, LibraryStepEffect, TlcStepShape
<1>3. CASE UNCHANGED vars
  BY <1>3 DEF vars, tlcVars, hostVars, ShapeInv, DevShape, CallShape, HostShape
<1> QED
  BY <1>1, <1>2, <1>3, NextActors, LibSendShape, HostStepShape

-----------------------------------------------------------------------------
(* Mounted tapes.                                                          *)

\* The cache is right about a drive that is mounted, even when it is stale.
MountedCached ==
    \A d \in mnt : tlc.cache[d].full /\ tlc.cache[d].vol \in Tapes /\ at[tlc.cache[d].vol] = d

\* If the tape that a device has, or that the TLC says it has loaded, is in the
\* drive, the cache knows it.
Seen(d, t) == t \in Tapes /\ at[t] = d => tlc.cache[d].full /\ tlc.cache[d].vol = t
Named ==
    \A d \in Drives : /\ Seen(d, dev[d].med)
                      /\ rpc[d].st = "ok" /\ rpc[d].op = "load" => Seen(d, rpc[d].tape)

\* A device is wrong about a mounted drive only until it is filled.
MountShape ==
    \A d \in Drives : dev[d].th = "run" /\ d \in mnt =>
        /\ dev[d].op # "empty"
        /\ dev[d].op = "loaded" => dev[d].pc \in {"acquire", "lock"} /\ at[dev[d].med] = d

MountInv == MountedCached /\ Named /\ MountShape /\ MountedIsThere

LEMMA BecomesMount ==
  ASSUME LibInv, MountInv, UNCHANGED <<at, tlc>>,
         NEW d \in Drives, NEW th, NEW op, NEW med, NEW sub, NEW pc, Becomes(d, th, op, med, sub, pc),
         \A o \in Drives \ {d} : rpc'[o] = rpc[o],
         rpc'[d] = rpc[d] \/ rpc'[d].st # "ok",
         mnt' \subseteq Drives, mnt' \ {d} = mnt \ {d},
         d \in mnt' => d \in mnt \/ (med \in Tapes /\ at[med] = d),
         Seen(d, med),
         th = "run" /\ d \in mnt' =>
             op # "empty" /\ (op = "loaded" => pc \in {"acquire", "lock"} /\ at[med] = d),
         th = "run" /\ op = "mounted" => d \in mnt' /\ at[med] = d
  PROVE  MountInv'
<1>1. MountedCached'
  BY DEF MountInv, MountedCached, Seen
<1>2. Named'
  BY DEF MountInv, Named, Seen, Becomes
<1>3. MountShape'
  BY DEF MountInv, MountShape, Becomes
<1>4. MountedIsThere'
  BY DEF MountInv, MountedIsThere, Running, Becomes
<1> QED
  BY <1>1, <1>2, <1>3, <1>4 DEF MountInv

\* The same for a step that leaves the mounted drives and the tape of the
\* device as they are, and does not bring it to work on a mounted tape.
LEMMA BecomesUnmounted ==
  ASSUME LibInv, MountInv, UNCHANGED <<at, tlc, mnt>>,
         NEW d \in Drives, NEW th, NEW op, NEW med, NEW sub, NEW pc, Becomes(d, th, op, med, sub, pc),
         \A o \in Drives \ {d} : rpc'[o] = rpc[o],
         rpc'[d] = rpc[d] \/ rpc'[d].st # "ok",
         med = dev[d].med \/ med \notin Tapes,
         th = "run" => /\ dev[d].th = "run" /\ op = dev[d].op /\ (op \in {"mounted", "loaded"} => med = dev[d].med)
                       /\ op = "loaded" /\ dev[d].pc \in {"acquire", "lock"} => pc \in {"acquire", "lock"}
  PROVE  MountInv'
<1>1. mnt \subseteq Drives
  BY DEF LibInv, TypeOK
<1>2. Seen(d, med)
  BY DEF MountInv, Named, Seen
<1>3. th = "run" /\ d \in mnt =>
        op # "empty" /\ (op = "loaded" => pc \in {"acquire", "lock"} /\ at[med] = d)
  BY DEF MountInv, MountShape
<1>4. th = "run" /\ op = "mounted" => d \in mnt /\ at[med] = d
  BY DEF MountInv, MountedIsThere, Running
<1> QED
  BY <1>1, <1>2, <1>3, <1>4, BecomesMount

LEMMA DeviceStepMount ==
  ASSUME LibInv, ShapeInv, MountInv, NEW d \in Drives, DeviceStep(d)
  PROVE  MountInv'
<1> DEFINE D == dev[d]
<1>0. /\ TypeOK /\ Shape(D.th, D.op, D.med, D.sub, D.pc) /\ None \notin Tapes
      /\ RpcTypes /\ rpc[d] \in RpcRecord /\ D \in DevRecord /\ mnt \subseteq Drives
  <2>1. TypeOK /\ RpcTypes /\ DevTypes /\ LibTypes
    BY TypeParts DEF LibInv
  <2>2. rpc[d] \in RpcRecord /\ D \in DevRecord /\ mnt \subseteq Drives
    BY <2>1 DEF RpcTypes, DevTypes, LibTypes
  <2>3. Shape(D.th, D.op, D.med, D.sub, D.pc)
    BY DEF ShapeInv, DevShape
  <2> QED
    BY <2>1, <2>2, <2>3, NoneAssumption
<1>a. UNCHANGED <<at, tlc>>
  BY DEF DeviceStep, Assigned, Assign, Check, Umount, UmountFails, LibOpen, LibRefused, UnloadEnds, Release,
     LoadEnds, Mount, MountFails, Df, Format, FormatError, CleanupOnError, Own, Fill, Acquire, TakeLock,
     StopDevice, AdminUnlock, tlcVars, libVars
<1>c. Closed(d) => /\ \A o \in Drives \ {d} : rpc'[o] = rpc[o]
                   /\ rpc'[d] = rpc[d] \/ rpc'[d].st # "ok"
  BY <1>0 DEF Closed, Idle, RpcTypes
<1>f. ASSUME Fallen(d), UNCHANGED mnt, UNCHANGED rpc \/ Closed(d), D.pc \in Work PROVE MountInv'
  <2>1. PICK dead \in BOOLEAN :
          Becomes(d, IF dead THEN "dying" ELSE D.th, IF dead THEN "failed" ELSE D.op, D.med, None, "idle")
    BY <1>f DEF Fallen
  <2>2. CASE dead
    BY <1>a, <1>c, <1>f, <2>1, <2>2, BecomesUnmounted
  <2>3. CASE ~dead
    BY <1>a, <1>c, <1>f, <2>1, <2>3, BecomesUnmounted DEF Work
  <2> QED
    BY <2>2, <2>3
<1> USE DEF tlcVars, libVars
<1>1. CASE Assigned(d)
  <2>1. PICK t \in Tapes, k \in {"read", "write", "format"} : Assign(d, t, k)
    BY <1>1 DEF Assigned
  <2>2. Becomes(d, "run", D.op, D.med, t, "check") /\ D.th = "run" /\ D.pc = "idle" /\ UNCHANGED <<mnt, rpc>>
    BY <1>0, <2>1, AssignBecomes DEF Assign, Running
  <2> QED
    BY <1>a, <2>2, BecomesUnmounted
<1>2. CASE Check(d)
  <2>1. D.th = "run" /\ D.pc = "check" /\ UNCHANGED <<mnt, rpc>>
    BY <1>2 DEF Check, At, Running
  <2>2. \E sub, pc : Becomes(d, "run", D.op, D.med, sub, pc)
    BY <1>0, <1>2, CheckBecomes
  <2> QED
    BY <1>a, <2>1, <2>2, BecomesUnmounted
<1>3. CASE Umount(d)
  <2>1. /\ \E pc : Becomes(d, "run", "loaded", D.med, D.sub, pc)
        /\ mnt' = mnt \ {d} /\ UNCHANGED rpc
    BY <1>0, <1>3, UmountBecomes DEF Umount
  <2>2. Seen(d, D.med)
    BY DEF MountInv, Named
  <2> QED
    BY <1>0, <1>a, <2>1, <2>2, BecomesMount
<1>4. CASE UmountFails(d) \/ LibRefused(d) \/ MountFails(d)
  BY <1>0, <1>4, <1>f, ErrorFalls DEF UmountFails, LibRefused, MountFails, At, Work
<1>5. CASE LibOpen(d)
  <2>1. /\ UNCHANGED <<mnt, dev>> /\ \A o \in Drives \ {d} : rpc'[o] = rpc[o]
        /\ rpc'[d].st = "open"
    BY <1>0, <1>5 DEF LibOpen, RpcTypes
  <2> QED
    BY <1>a, <2>1 DEF MountInv, MountedCached, Named, Seen, MountShape, MountedIsThere, Running
<1>6. CASE UnloadEnds(d)
  <2>0. D.th = "run" /\ D.pc = "unload" /\ UNCHANGED mnt /\ D.op = "loaded"
    BY <1>0, <1>6 DEF UnloadEnds, At, Running, Shape
  <2>1. CASE UNCHANGED rpc /\ Becomes(d, "run", "empty", None, D.sub, "release")
    <3>1. d \notin mnt
      BY <2>0 DEF MountInv, MountShape
    <3>2. Seen(d, None)
      BY <1>0 DEF Seen
    <3> QED
      BY <1>0, <1>a, <2>0, <2>1, <3>1, <3>2, BecomesMount
  <2>2. CASE Closed(d) /\ Fallen(d)
    BY <1>f, <2>0, <2>2 DEF Work
  <2> QED
    BY <1>0, <1>6, <2>1, <2>2, UnloadEndsBecomes
<1>7. CASE Release(d)
  <2>0. D.th = "run" /\ D.pc = "release" /\ UNCHANGED mnt /\ Closed(d)
    BY <1>7 DEF Release, At, Running
  <2>1. CASE Becomes(d, "run", D.op, D.med, D.sub, "load")
    BY <1>a, <1>c, <2>0, <2>1, BecomesUnmounted
  <2>2. CASE Fallen(d)
    BY <1>f, <2>0, <2>2 DEF Work
  <2> QED
    BY <1>0, <1>7, <2>1, <2>2, ReleaseBecomes
<1>8. CASE LoadEnds(d)
  <2>0. D.th = "run" /\ D.pc = "load" /\ UNCHANGED mnt /\ Closed(d) /\ D.op = "empty"
    BY <1>0, <1>8 DEF LoadEnds, At, Running, Shape
  <2>1. ASSUME rpc[d].st = "ok", NEW pc, Becomes(d, "run", "loaded", D.sub, D.sub, pc) PROVE MountInv'
    <3>1. d \notin mnt
      BY <2>0 DEF MountInv, MountShape
    <3>2. rpc[d].op = "load" /\ rpc[d].tape = D.sub
      BY <2>0, <2>1 DEF ShapeInv, CallShape
    <3>3. Seen(d, D.sub)
      BY <2>1, <3>2 DEF MountInv, Named
    <3> QED
      BY <1>0, <1>a, <1>c, <2>0, <2>1, <3>1, <3>3, BecomesMount
  <2>2. CASE Fallen(d)
    BY <1>f, <2>0, <2>2 DEF Work
  <2> QED
    BY <1>0, <1>8, <2>1, <2>2, LoadEndsBecomes
<1>9. CASE Mount(d)
  <2>0. D.th = "run" /\ D.pc = "mount" /\ D.op = "loaded" /\ D.med \in Tapes
    BY <1>0, <1>9 DEF Mount, At, Running, Shape
  <2>1. d \notin mnt
    BY <2>0 DEF MountInv, MountShape
  <2>2. at[D.med] = d /\ mnt' = mnt \cup {d} /\ UNCHANGED rpc
    BY <1>9, <2>1 DEF Mount, Mounts
  <2>3. \E sub, pc : Becomes(d, "run", "mounted", D.med, sub, pc)
    BY <1>0, <1>9, MountBecomes
  <2>4. Seen(d, D.med)
    BY DEF MountInv, Named
  <2> QED
    BY <1>0, <1>a, <2>0, <2>2, <2>3, <2>4, BecomesMount
<1>10. CASE Df(d) \/ Format(d)
  <2>0. D.th = "run" /\ D.pc \in {"df", "format"} /\ UNCHANGED <<mnt, rpc>>
    BY <1>10 DEF Df, Format, At, Running
  <2>1. Becomes(d, "run", D.op, D.med, None, "idle")
    BY <1>0, <1>10, WorkedBecomes
  <2> QED
    BY <1>a, <2>0, <2>1, BecomesUnmounted
<1>11. CASE FormatError(d)
  BY <1>0, <1>11, <1>f, FormatErrorFalls DEF FormatError, At, Work
<1>12. CASE CleanupOnError(d)
  <2>1. Becomes(d, "off", "failed", None, None, "idle") /\ UNCHANGED <<mnt, rpc>>
    BY <1>0, <1>12, CleanupBecomes DEF CleanupOnError
  <2> QED
    BY <1>0, <1>a, <2>1, BecomesUnmounted
<1>13. CASE Own(d)
  <2>0. D.th = "run" /\ D.pc = "own" /\ UNCHANGED <<mnt, rpc>>
    BY <1>13 DEF Own, At, Running
  <2> QED
    BY <1>0, <1>13, <1>a, <2>0, BecomesUnmounted, OwnBecomes
<1>14. CASE Fill(d)
  <2>0. D.th = "run" /\ D.pc = "fill" /\ UNCHANGED <<mnt, rpc>> /\ D.med = None /\ D.op = "failed"
    BY <1>0, <1>14 DEF Fill, At, Running, Shape
  <2>1. ASSUME tlc.cache[d].full, Becomes(d, "run", "loaded", tlc.cache[d].vol, D.sub, "acquire")
        PROVE  MountInv'
    <3>1. Seen(d, tlc.cache[d].vol)
      BY <2>1 DEF Seen
    <3>2. d \in mnt => at[tlc.cache[d].vol] = d
      BY DEF MountInv, MountedCached
    <3> QED
      BY <1>0, <1>a, <2>0, <2>1, <3>1, <3>2, BecomesMount
  <2>2. ASSUME ~tlc.cache[d].full, Becomes(d, "run", "empty", D.med, D.sub, "idle")
        PROVE  MountInv'
    <3>1. d \notin mnt
      BY <2>2 DEF MountInv, MountedCached
    <3>2. Seen(d, D.med)
      BY DEF MountInv, Named
    <3> QED
      BY <1>0, <1>a, <2>0, <2>2, <3>1, <3>2, BecomesMount
  <2>3. ASSUME NEW th \in {"run", "dying"}, Becomes(d, th, D.op, D.med, D.sub, "idle") PROVE MountInv'
    BY <1>a, <2>0, <2>3, BecomesUnmounted
  <2>4. ASSUME Becomes(d, "dying", "empty", D.med, D.sub, "idle") PROVE MountInv'
    BY <1>a, <2>0, <2>4, BecomesUnmounted
  <2> QED
    BY <1>0, <1>14, <2>1, <2>2, <2>3, <2>4, FillBecomes
<1>15. CASE Acquire(d) \/ TakeLock(d)
  <2>0. /\ D.th = "run" /\ D.pc \in {"acquire", "lock"} /\ UNCHANGED <<mnt, rpc>> /\ D.op = "loaded"
        /\ D.med \in Tapes
    BY <1>0, <1>15 DEF Acquire, TakeLock, At, Running, Shape
  <2>1. CASE Becomes(d, "run", IF d \in mnt THEN "mounted" ELSE "loaded", D.med, D.sub, "idle")
    <3>1. d \in mnt => at[D.med] = d
      BY <2>0 DEF MountInv, MountShape
    <3>2. Seen(d, D.med)
      BY DEF MountInv, Named
    <3>3. CASE d \in mnt
      BY <1>0, <1>a, <2>0, <2>1, <3>1, <3>2, <3>3, BecomesMount
    <3>4. CASE d \notin mnt
      BY <1>0, <1>a, <2>0, <2>1, <3>2, <3>4, BecomesMount
    <3> QED
      BY <3>3, <3>4
  <2>2. CASE Becomes(d, "run", D.op, D.med, D.sub, "lock")
    BY <1>a, <2>0, <2>2, BecomesUnmounted
  <2>3. CASE Becomes(d, "dying", D.op, D.med, D.sub, "idle")
    BY <1>a, <2>0, <2>3, BecomesUnmounted
  <2> QED
    BY <1>0, <1>15, <2>1, <2>2, <2>3, AcquireBecomes
<1>16. CASE StopDevice(d)
  <2>0. D.th = "run" /\ UNCHANGED rpc
    BY <1>16 DEF StopDevice, Running
  <2>1. ASSUME D.pc = "idle", UNCHANGED mnt, NEW pc, Becomes(d, "run", D.op, D.med, D.sub, pc) PROVE MountInv'
    BY <1>a, <2>0, <2>1, BecomesUnmounted
  <2>2. ASSUME mnt' = mnt \ {d}, Becomes(d, "run", "loaded", D.med, D.sub, "stop_release") PROVE MountInv'
    <3>1. Seen(d, D.med)
      BY DEF MountInv, Named
    <3> QED
      BY <1>0, <1>a, <2>0, <2>2, <3>1, BecomesMount
  <2>3. ASSUME UNCHANGED mnt, Becomes(d, "dying", D.op, D.med, D.sub, "idle") PROVE MountInv'
    BY <1>a, <2>0, <2>3, BecomesUnmounted
  <2>4. ASSUME D.pc = "stop_release", UNCHANGED mnt, Becomes(d, "run", D.op, None, D.sub, "stop_device")
        PROVE  MountInv'
    <3>1. D.op = "loaded"
      BY <1>0, <2>4 DEF Shape
    <3>2. d \notin mnt
      BY <2>0, <2>4, <3>1 DEF MountInv, MountShape
    <3>3. Seen(d, None)
      BY <1>0 DEF Seen
    <3> QED
      BY <1>0, <1>a, <2>0, <2>4, <3>1, <3>2, <3>3, BecomesMount
  <2>5. ASSUME UNCHANGED mnt, Becomes(d, "off", "failed", None, None, "idle") PROVE MountInv'
    BY <1>0, <1>a, <2>0, <2>5, BecomesUnmounted
  <2> QED
    BY <1>0, <1>16, <2>1, <2>2, <2>3, <2>4, <2>5, StopBecomes
<1>17. CASE AdminUnlock(d)
  <2>0. UNCHANGED <<mnt, rpc>>
    BY <1>17 DEF AdminUnlock
  <2>1. CASE UNCHANGED dev
    BY <1>a, <2>0, <2>1 DEF MountInv, MountedCached, Named, Seen, MountShape, MountedIsThere, Running
  <2>2. CASE Becomes(d, "run", "failed", None, None, "own")
    <3>1. Seen(d, None)
      BY <1>0 DEF Seen
    <3> QED
      BY <1>0, <1>a, <2>0, <2>2, <3>1, BecomesMount
  <2> QED
    BY <1>0, <1>17, <2>1, <2>2, AdminBecomes
<1> QED
  BY <1>1, <1>2, <1>3, <1>4, <1>5, <1>6, <1>7, <1>8, <1>9, <1>10, <1>11, <1>12, <1>13, <1>14,
     <1>15, <1>16, <1>17 DEF DeviceStep

LEMMA HostStepMount ==
  ASSUME LibInv, ShapeInv, MountInv, NEW h \in Hosts, HostStep(h)
  PROVE  MountInv'
<1>0. TypeOK /\ None \notin Tapes
  BY NoneAssumption DEF LibInv
<1>1. UNCHANGED <<at, tlc, mnt>>
  BY DEF HostStep, StartHost, CleanLocks, StopHost, HostEnds, Crash, libVars, tlcVars
<1>2. CASE StartHost(h)
  <2>1. UNCHANGED rpc
    BY <1>2 DEF StartHost, tlcVars
  <2> QED
    BY <1>0, <1>1, <1>2, <2>1, StartBecomes
       DEF MountInv, MountedCached, Named, Seen, MountShape, MountedIsThere, Running
<1>3. CASE CleanLocks(h) \/ StopHost(h) \/ HostEnds(h)
  <2>1. UNCHANGED <<dev, rpc>>
    BY <1>3 DEF CleanLocks, StopHost, HostEnds, tlcVars
  <2> QED
    BY <1>1, <2>1 DEF MountInv, MountedCached, Named, Seen, MountShape, MountedIsThere, Running
<1>4. CASE Crash(h)
  BY <1>0, <1>1, <1>4, CrashBecomes
     DEF MountInv, MountedCached, Named, Seen, MountShape, MountedIsThere, Running, Asked
<1> QED
  BY <1>2, <1>3, <1>4 DEF HostStep

\* An answer "ok" comes from a move.
OkKept ==
    \A d \in Drives : rpc'[d].st = "ok" =>
        rpc[d].st = "ok" /\ rpc'[d].op = rpc[d].op /\ rpc'[d].tape = rpc[d].tape

LEMMA LibraryCases ==
  ASSUME LibInv, LibraryStep
  PROVE  \/ UNCHANGED at /\ tlc'.cache = tlc.cache /\ OkKept
         \/ UNCHANGED at /\ SameCalls /\ \A t \in Tapes : Holding(tlc'.cache, t) = {at[t]}
         \/ \E d \in Drives : MoveDone(d)
         \/ \E d \in Drives : MoveFailedDone(d) /\ OkKept /\ tlc'.cache = tlc.cache
<1>0. RpcTypes /\ LibTypes
  BY TypeParts DEF LibInv
<1>k. ASSUME NEW d \in Drives, Replies(d, "err") PROVE OkKept
  BY <1>k DEF Replies, OkKept, Asked
<1>s. SameCalls => OkKept
  BY DEF SameCalls, OkKept
<1>c. CutCalls => OkKept
  BY <1>0 DEF CutCalls, OkKept, RpcTypes, RpcRecord
<1>1. ASSUME NEW d \in Drives, TlcRefuses(d) \/ TlcBegins(d) \/ MoveFailed(d)
      PROVE  UNCHANGED at /\ tlc'.cache = tlc.cache /\ OkKept
  <2>1. UNCHANGED at
    BY <1>1 DEF TlcRefuses, TlcBegins, MoveFailed, libVars
  <2> QED
    BY <1>1, <1>k, <1>s, <2>1, TlcRefusesReplies, TlcBeginsReplies, MoveFailedReplies
<1>2. ASSUME NEW d \in Drives, MoveFailedDone(d) PROVE OkKept /\ tlc'.cache = tlc.cache
  BY <1>2, <1>k, <1>s, MoveFailedReplies
<1>3. ASSUME tlc' = Down, rpc' = Cut PROVE OkKept /\ tlc'.cache = tlc.cache
  BY <1>3, <1>c, DownCuts DEF CutCalls
<1>4. ASSUME NEW d \in Drives, TlcNoFreeSlot(d)
      PROVE  UNCHANGED at /\ tlc'.cache = tlc.cache /\ OkKept
  BY <1>3, <1>4 DEF TlcNoFreeSlot, libVars
<1>5. ASSUME TlcDies PROVE UNCHANGED at /\ tlc'.cache = tlc.cache /\ OkKept
  BY <1>3, <1>5 DEF TlcDies, libVars
<1>6. ASSUME NEW shut \in SUBSET LibDevs, NEW mute \in SUBSET LibDevs, TlcOpens(shut, mute)
      PROVE  \/ UNCHANGED at /\ tlc'.cache = tlc.cache /\ OkKept
             \/ UNCHANGED at /\ SameCalls /\ \A t \in Tapes : Holding(tlc'.cache, t) = {at[t]}
  <2>1. UNCHANGED at
    BY <1>6 DEF TlcOpens, libVars
  <2>2. CASE tlc' = Down /\ rpc' = Cut
    BY <1>3, <2>1, <2>2
  <2>3. CASE /\ tlc' = [up |-> TRUE, cache |-> LibStatus(at, from), fds |-> LibDevs \ (shut \cup mute),
                        cur |-> FirstOpened(LibDevs, shut), queue |-> tlc.queue, busy |-> FALSE]
             /\ UNCHANGED rpc
    <3>1. \A t \in Tapes : Holding(LibStatus(at, from), t) = {at[t]}
      BY <1>0, LibStatusReads DEF LibInv, TlcInv, Apart, LibTypes
    <3>2. tlc'.cache = LibStatus(at, from) /\ SameCalls
      BY <2>3 DEF SameCalls
    <3> QED
      BY <2>1, <3>1, <3>2
  <2> QED
    BY <1>6, <2>2, <2>3 DEF TlcOpens
<1> QED
  BY <1>1, <1>2, <1>4, <1>5, <1>6 DEF LibraryStep

\* The two moves of the TLC.
LEMMA MoveKinds ==
  ASSUME LibInv, ShapeInv, NEW d \in Drives, Serving(d)
  PROVE  /\ rpc[d].st \in Asked
         /\ \/ /\ rpc[d].op = "load" /\ MoveOf(d)[2] = d /\ MoveOf(d)[1] \in Elements
               /\ tlc.cache[MoveOf(d)[1]].full /\ tlc.cache[MoveOf(d)[1]].vol = rpc[d].tape
               /\ dev[d].med = None
            \/ /\ rpc[d].op = "unload" /\ MoveOf(d)[1] = d /\ MoveOf(d)[2] \in Slots \ Drives
<1>0. tlc.queue \in Seq(Drives) /\ rpc[d] \in RpcRecord /\ dev[d] \in DevRecord
  BY TypeParts DEF LibInv, TypeOK, RpcTypes, DevTypes
<1>1. rpc[d].st \in Asked
  BY <1>0 DEF Serving, First, LibInv, TlcInv, Queued
<1>2. rpc[d].op \in {"load", "unload"}
  BY <1>0, <1>1 DEF LibInv, CallOK, Asked, RpcRecord
<1>3. /\ MoveOf(d)[1] \in Elements /\ MoveOf(d)[2] \in Elements /\ tlc.cache[MoveOf(d)[1]].full
      /\ None \notin Elements /\ Slots \cap Drives = {}
  BY NoneAssumption DEF LibInv, TlcInv, Moving
<1>4. CASE rpc[d].op = "load"
  <2>1. MoveOf(d)[1] = MediaElementStatusFromLabel(tlc.cache, rpc[d].tape) /\ MoveOf(d)[2] = d
    BY <1>4 DEF MoveOf
  <2>2. MoveOf(d)[1] \in Holding(tlc.cache, rpc[d].tape)
    BY <1>3, <2>1, LabelHolds
  <2>3. dev[d].med = None
    <3>1. CASE rpc[d].st = "orphan"
      BY <3>1 DEF ShapeInv, CallShape
    <3>2. CASE rpc[d].st = "sent"
      <4>1. dev[d].th = "run" /\ dev[d].pc = "load"
        BY <1>4, <3>2 DEF ShapeInv, CallShape
      <4> QED
        BY <4>1 DEF ShapeInv, DevShape, Shape
    <3> QED
      BY <1>1, <3>1, <3>2 DEF Asked
  <2> QED
    BY <1>1, <1>3, <1>4, <2>1, <2>2, <2>3 DEF Holding
<1>5. CASE rpc[d].op = "unload"
  <2>1. MoveOf(d)[1] = d /\ MoveOf(d)[2] = TargetFreeSlot(tlc.cache, d)
    BY <1>5 DEF MoveOf
  <2>2. MoveOf(d)[2] \in Slots
    BY <1>3, <2>1, TargetIsSlot
  <2> QED
    BY <1>1, <1>3, <1>5, <2>1, <2>2
<1> QED
  BY <1>2, <1>4, <1>5

LEMMA LibraryStepMount ==
  ASSUME LibInv, ShapeInv, MountInv, LibraryStep
  PROVE  MountInv'
<1>0. /\ UNCHANGED <<dev, mnt>> /\ mnt \subseteq Drives /\ Drives \subseteq Elements
      /\ None \notin Tapes
      /\ \A d \in Drives : dev[d].med \in Tapes \cup {None}
  BY LibraryStepEffect, NoneAssumption DEF LibInv, TypeOK, Elements
<1>1. CASE UNCHANGED at /\ tlc'.cache = tlc.cache /\ OkKept
  BY <1>0, <1>1 DEF MountInv, MountedCached, Named, Seen, MountShape, MountedIsThere, Running, OkKept
<1>2. CASE UNCHANGED at /\ SameCalls /\ \A t \in Tapes : Holding(tlc'.cache, t) = {at[t]}
  <2>1. ASSUME NEW t \in Tapes, NEW d \in Drives, at[t] = d PROVE tlc'.cache[d].full /\ tlc'.cache[d].vol = t
    BY <1>2, <2>1 DEF Holding
  <2>2. MountedCached'
    BY <1>0, <1>2, <2>1 DEF MountInv, MountedCached
  <2>3. Named'
    BY <1>0, <1>2, <2>1 DEF Named, Seen
  <2>4. MountShape' /\ MountedIsThere'
    BY <1>0, <1>2 DEF MountInv, MountShape, MountedIsThere, Running
  <2> QED
    BY <2>2, <2>3, <2>4 DEF MountInv
<1>m. ASSUME NEW d \in Drives, NEW e, NEW f, NEW t, Transfer(d, e, f, t)
      PROVE  MountShape' /\ MountedIsThere'
  <2>1. \A o \in mnt, u \in Tapes : at[u] = o => at'[u] = o
    BY <1>m DEF Transfer
  <2>2. \A o \in Drives : dev[o].op \in {"loaded", "mounted"} /\ dev[o].pc \in {"acquire", "lock"} => dev[o].med \in Tapes
    BY DEF ShapeInv, DevShape, Shape
  <2>3. MountShape'
    BY <1>0, <2>1, <2>2 DEF MountInv, MountShape
  <2>4. \A o \in Drives : Running(o) /\ dev[o].op = "mounted" => dev[o].med \in Tapes
    BY DEF ShapeInv, DevShape, Shape
  <2>5. MountedIsThere'
    BY <1>0, <2>1, <2>4 DEF MountInv, MountedIsThere, Running
  <2> QED
    BY <2>3, <2>5
<1>3. ASSUME NEW d \in Drives, MoveDone(d) PROVE MountInv'
  <2>1. PICK e \in Elements, f \in Elements, t \in Tapes :
              /\ Transfer(d, e, f, t)
              /\ tlc.cache[e].full /\ tlc'.cache[f].full /\ tlc'.cache[f].vol = tlc.cache[e].vol
              /\ \A g \in Elements \ {e, f} : tlc'.cache[g] = tlc.cache[g]
    BY <1>3, MoveDoneReplies
  <2>2. Replies(d, "ok") /\ Serving(d)
    BY <1>3, MoveDoneReplies DEF MoveDone
  <2>3. MountShape' /\ MountedIsThere'
    BY <1>m, <2>1
  <2>4. /\ e \notin mnt /\ e # f /\ at[t] = e /\ at'[t] = f /\ e = MoveOf(d)[1] /\ f = MoveOf(d)[2]
        /\ \A u \in Tapes \ {t} : at'[u] = at[u] /\ at[u] \notin {e, f}
    BY <2>1 DEF Transfer
  <2>5. MountedCached'
    <3> SUFFICES ASSUME NEW o \in mnt
                 PROVE  tlc'.cache[o].full /\ tlc'.cache[o].vol \in Tapes /\ at'[tlc'.cache[o].vol] = o
      BY <1>0 DEF MountedCached
    <3>1. tlc.cache[o].full /\ tlc.cache[o].vol \in Tapes /\ at[tlc.cache[o].vol] = o
      BY DEF MountInv, MountedCached
    <3>2. o \in Elements \ {e, f}
      BY <1>0, <2>4, <3>1
    <3> QED
      BY <2>1, <2>4, <3>1, <3>2
  <2>6. ASSUME NEW o \in Drives, NEW u \in Tapes, at'[u] = o, Seen(o, u), o # f
        PROVE  tlc'.cache[o].full /\ tlc'.cache[o].vol = u
    <3>1. u # t /\ at[u] = o /\ o \in Elements \ {e, f}
      BY <1>0, <2>4, <2>6
    <3> QED
      BY <2>1, <2>6, <3>1 DEF Seen
  <2>7. CASE rpc[d].op = "load" /\ f = d /\ tlc.cache[e].vol = rpc[d].tape /\ dev[d].med = None
    <3>1. \A o \in Drives : Seen(o, dev[o].med)'
      BY <1>0, <2>6, <2>7 DEF MountInv, Named, Seen
    <3>2. ASSUME NEW o \in Drives, rpc'[o].st = "ok", rpc'[o].op = "load" PROVE Seen(o, rpc[o].tape)'
      <4>1. CASE o # d
        BY <2>2, <2>6, <2>7, <3>2, <4>1 DEF Replies, MountInv, Named, Seen
      <4>2. CASE o = d
        BY <2>1, <2>2, <2>7, <3>2, <4>2 DEF Replies, Seen, Asked
      <4> QED
        BY <4>1, <4>2
    <3>3. Named'
      BY <3>1, <3>2 DEF Named
    <3> QED
      BY <2>3, <2>5, <3>3 DEF MountInv
  <2>8. CASE rpc[d].op = "unload" /\ f \notin Drives
    <3>1. \A o \in Drives : Seen(o, dev[o].med)'
      BY <1>0, <2>6, <2>8 DEF MountInv, Named, Seen
    <3>2. ASSUME NEW o \in Drives, rpc'[o].st = "ok", rpc'[o].op = "load" PROVE Seen(o, rpc[o].tape)'
      <4>1. o # d
        BY <2>2, <2>8, <3>2 DEF Replies, Asked
      <4> QED
        BY <2>2, <2>6, <2>8, <3>2, <4>1 DEF Replies, MountInv, Named, Seen
    <3>3. Named'
      BY <3>1, <3>2 DEF Named
    <3> QED
      BY <2>3, <2>5, <3>3 DEF MountInv
  <2> QED
    BY <2>2, <2>4, <2>7, <2>8, MoveKinds
<1>4. ASSUME NEW d \in Drives, MoveFailedDone(d), OkKept, tlc'.cache = tlc.cache PROVE MountInv'
  <2>1. PICK e \in Elements, f \in Elements, t \in Tapes : Transfer(d, e, f, t)
    BY <1>4, MoveFailedDoneMoves
  <2>2. MountShape' /\ MountedIsThere'
    BY <1>m, <2>1
  <2>3. /\ e \notin mnt /\ e # f /\ at[t] = e /\ at'[t] = f /\ f = MoveOf(d)[2] /\ Serving(d)
        /\ \A u \in Tapes \ {t} : at'[u] = at[u] /\ at[u] \notin {e, f}
    BY <2>1 DEF Transfer
  <2>4. MountedCached'
    BY <1>0, <1>4, <2>3 DEF MountInv, MountedCached
  <2>5. f \notin Drives \/ (f = d /\ dev[d].med = None /\ rpc[d].st # "ok")
    BY <2>3, MoveKinds DEF Asked
  <2>6. Named'
    BY <1>0, <1>4, <2>3, <2>5 DEF MountInv, Named, Seen, OkKept
  <2> QED
    BY <2>2, <2>4, <2>6 DEF MountInv
<1> QED
  BY <1>1, <1>2, <1>3, <1>4, LibraryCases

LEMMA LibSendMount ==
  ASSUME LibInv, MountInv, NEW d \in Drives, LibSend(d)
  PROVE  MountInv'
<1>1. RpcTypes /\ tlc \in TlcRecord
  BY TypeParts DEF LibInv, TlcTypes
<1>2. /\ rpc'[d].st = "sent" /\ \A o \in Drives \ {d} : rpc'[o] = rpc[o]
      /\ tlc'.cache = tlc.cache /\ UNCHANGED <<at, mnt, dev>>
  BY <1>1 DEF LibSend, RpcTypes, RpcRecord, TlcRecord, libVars
<1> QED
  BY <1>2 DEF MountInv, MountedCached, Named, Seen, MountShape, MountedIsThere, Running

LEMMA MountInit == Init => MountInv
BY NoneAssumption DEF Init, Off, Idle, MountInv, MountedCached, Named, Seen, MountShape, MountedIsThere, Running

LEMMA MountStep == LibInv /\ ShapeInv /\ MountInv /\ [Next]_vars => MountInv'
<1> SUFFICES ASSUME LibInv, ShapeInv, MountInv, [Next]_vars PROVE MountInv'
  OBVIOUS
<1>1. CASE UNCHANGED vars
  BY <1>1 DEF vars, libVars, tlcVars, MountInv, MountedCached, Named, Seen, MountShape, MountedIsThere, Running
<1> QED
  BY <1>1, NextActors, DeviceStepMount, LibSendMount, HostStepMount, LibraryStepMount

\* A device that says its tape is mounted has that very tape in its drive,
\* mounted, whatever fails and whoever dies (dev_load, dev_mount,
\* tlc_library_load), for any number of hosts, drives and tapes.
THEOREM MountedTapes == Spec => []MountedIsThere
<1>1. Init => LibInv /\ ShapeInv /\ MountInv
  BY LibInit, ShapeInit, MountInit
<1>2. LibInv /\ ShapeInv /\ MountInv /\ [Next]_vars => LibInv' /\ ShapeInv' /\ MountInv'
  BY LibStep, ShapeStep, MountStep
<1>3. MountInv => MountedIsThere
  BY DEF MountInv
<1> QED
  BY <1>1, <1>2, <1>3, PTL DEF Spec

-----------------------------------------------------------------------------
(* Locks.                                                                  *)

Rows == [host : Hosts, owner : 0..MaxCrash + 1, weak : {FALSE}]

\* The rows are those of processes that were started, and none is weak.
RowsOK ==
    /\ lock \in [Tapes -> Rows \cup {NoLock}] /\ dlock \in [Drives -> Rows \cup {NoLock}]
    /\ \A t \in Tapes : IsLocked(lock, t) => lock[t].owner <= pid[lock[t].host]

\* A tape that an LRS gave to a drive is not in another drive of this LRS, nor
\* about to be unlocked by one.
Has(d, t) == dev[d].med = t \/ Unlocking(d, t)
Works(d, t) == dev[d].sub = t
Alone ==
    \A d, o \in Drives, t \in Sane({"shared"}) : d # o /\ HostOf[d] = HostOf[o] /\ Works(d, t) =>
        ~Works(o, t) /\ ~Has(o, t)

UnderLock == \A d \in Drives, t \in Sane({"shared"}) : Works(d, t) => Mine(t, d)

\* The same at the start of an LRS.
FailedFree ==
    \A h \in Hosts, t \in Sane({"shared"}) :
        host[h] \in {"init", "up"} /\ adm[t] = "failed" /\ OwnedBy(lock, t, h, pid[h])
        => \E d \in DrivesOf(h) : Has(d, t)

LockInv == RowsOK /\ Alone /\ UnderLock /\ FailedFree /\ NoRowOfTheDead

\* What the thread of drive d, or the scheduler for it, makes of the locks.
Takes(d, t) == ~IsLocked(lock, t) /\ lock' = Possess(lock, t, HostOf[d], pid[HostOf[d]])
Frees(d, t) == Mine(t, d) /\ lock' = Unlock(lock, t)

Handles(d) ==
    /\ \A o \in Drives \ {d} : dev'[o] = dev[o] /\ rpc'[o] = rpc[o]
    /\ UNCHANGED <<host, pid>> /\ torn \subseteq torn'
    /\ \/ UNCHANGED lock
       \/ \E t \in Tapes : Takes(d, t) /\ ((adm[t] # "failed" /\ UNCHANGED adm) \/ Has(d, t)')
       \/ \E t \in Tapes : Frees(d, t) /\ ~(Works(d, t)') /\ (Works(d, t) \/ Has(d, t))
    /\ \A t \in Tapes :
         /\ adm'[t] = "failed" => adm[t] = "failed" \/ (Works(d, t) /\ (UNCHANGED lock \/ Frees(d, t)) /\ ~(Mine(t, d)'))
         /\ Has(d, t)' => \/ Has(d, t) \/ Works(d, t)
                          \/ \A o \in DrivesOf(HostOf[d]) \ {d} : Works(o, t) => <<t, "shared">> \in torn'
         /\ Has(d, t) => Has(d, t)' \/ ~(Mine(t, d)') \/ host[HostOf[d]] = "stop"
         /\ Works(d, t)' =>
              \/ Works(d, t)
              \/ /\ Mine(t, d)'
                 /\ \A o \in DrivesOf(HostOf[d]) \ {d} :
                      ~Works(o, t) /\ (Has(o, t) => <<t, "shared">> \in torn')

LEMMA RowFacts ==
  ASSUME TypeOK, RowsOK, NEW d \in Drives, NEW t \in Tapes
  PROVE  /\ HostOf[d] \in Hosts /\ pid[HostOf[d]] \in 0..MaxCrash + 1
         /\ PossessApplies(lock, t, HostOf[d]) => ~IsLocked(lock, t)
         /\ ReleaseRow(lock, t, d) = (IF Mine(t, d) THEN Unlock(lock, t) ELSE lock)
<1>1. HostOf[d] \in Hosts /\ pid[HostOf[d]] \in 0..MaxCrash + 1
  BY HostAssumption DEF TypeOK
<1>2. IsLocked(lock, t) => lock[t] \in Rows
  BY DEF RowsOK, IsLocked
<1>3. IsLocked(lock, t) => ~lock[t].weak
  BY <1>2 DEF Rows
<1>4. t # None
  BY NoneAssumption
<1> QED
  BY <1>1, <1>3, <1>4, Zenon DEF PossessApplies, ReleaseRow, UnlockApplies, Mine, OwnedBy, IsLocked

LEMMA RowEffects ==
  ASSUME TypeOK, RowsOK, NEW d \in Drives, NEW t \in Tapes
  PROVE  /\ Takes(d, t) => /\ lock'[t] = Row(HostOf[d], pid[HostOf[d]], FALSE)
                           /\ lock'[t] # NoLock
         /\ Frees(d, t) => lock'[t] = NoLock
         /\ Takes(d, t) \/ Frees(d, t) => \A u \in Tapes \ {t} : lock'[u] = lock[u]
<1>1. HostOf[d] \in Hosts /\ pid[HostOf[d]] \in 0..MaxCrash + 1
  BY RowFacts
<1>2. Row(HostOf[d], pid[HostOf[d]], FALSE) # NoLock
  BY <1>1, NoneAssumption
<1> QED
  BY <1>2 DEF RowsOK, Takes, Frees, Possess, Unlock

\* Steps that touch no lock.
LEMMA HandlesKeep ==
  ASSUME NEW d \in Drives, UNCHANGED <<host, pid, lock, adm>>, torn \subseteq torn',
         \A o \in Drives \ {d} : dev'[o] = dev[o] /\ rpc'[o] = rpc[o],
         dev'[d].med = dev[d].med, dev'[d].sub = dev[d].sub \/ dev'[d].sub \notin Tapes,
         dev[d].pc # "release", dev'[d].pc # "release"
  PROVE  Handles(d)
BY DEF Handles, Has, Works, Unlocking

\* A sub-request that fails.
LEMMA HandlesFall ==
  ASSUME TypeOK, RowsOK, NEW d \in Drives, dev[d].sub \in Tapes, Fallen(d), FailEffect(d, dev[d]),
         UNCHANGED <<host, pid, torn>>, \A o \in Drives \ {d} : rpc'[o] = rpc[o],
         Unlocking(d, rpc[d].tape) => ~Mine(rpc[d].tape, d)
  PROVE  Handles(d)
<1>0. PICK s \in Tapes : s = dev[d].sub
  OBVIOUS
<1>1. /\ \A o \in Drives \ {d} : dev'[o] = dev[o]
      /\ dev'[d].med = dev[d].med /\ dev'[d].sub = None /\ dev'[d].pc = "idle"
  BY DEF Fallen, Becomes
<1>2. None \notin Tapes /\ adm \in [Tapes -> {"unlocked", "failed"}]
  BY NoneAssumption DEF TypeOK
<1>3. \/ UNCHANGED lock /\ UNCHANGED adm
      \/ (UNCHANGED lock \/ Frees(d, s)) /\ ~(Mine(s, d)') /\ adm' \in {adm, [adm EXCEPT ![s] = "failed"]}
  <2>1. CASE lock' = lock /\ adm' = adm
    BY <2>1
  <2>2. CASE /\ lock' = ReleaseRow(lock, s, d)
             /\ adm' \in {adm, [adm EXCEPT ![s] = "failed"]}
    <3>1. CASE Mine(s, d)
      <4>1. Frees(d, s)
        BY <2>2, <3>1, RowFacts DEF Frees
      <4>2. lock'[s] = NoLock
        BY <4>1, RowEffects
      <4> QED
        BY <2>2, <4>1, <4>2 DEF Mine, OwnedBy, IsLocked
    <3>2. CASE ~Mine(s, d)
      <4>1. UNCHANGED lock
        BY <2>2, <3>2, RowFacts
      <4> QED
        BY <2>2, <3>2, <4>1 DEF Mine
    <3> QED
      BY <3>1, <3>2
  <2> QED
    BY <1>0, <2>1, <2>2 DEF FailEffect
<1>4. \A t \in Tapes : adm'[t] = "failed" =>
        adm[t] = "failed" \/ (Works(d, t) /\ (UNCHANGED lock \/ Frees(d, t)) /\ ~(Mine(t, d)'))
  BY <1>0, <1>2, <1>3 DEF Works
<1>5. \A t \in Tapes : ~(Works(d, t)') /\ (Has(d, t)' => Has(d, t))
  BY <1>1, <1>2 DEF Has, Works, Unlocking
<1>6. ASSUME NEW t \in Tapes, Has(d, t) PROVE Has(d, t)' \/ ~(Mine(t, d)')
  <2>1. CASE dev[d].med = t
    BY <1>1, <2>1 DEF Has
  <2>2. CASE Unlocking(d, t)
    <3>1. ~Mine(t, d)
      BY <2>2 DEF Unlocking
    <3>2. CASE UNCHANGED lock
      BY <3>1, <3>2 DEF Mine
    <3>3. CASE Frees(d, s)
      <4>1. t # s
        BY <3>1, <3>3 DEF Frees
      <4>2. lock'[t] = lock[t]
        BY <3>3, <4>1, RowEffects
      <4> QED
        BY <3>1, <4>2, Zenon DEF Mine, OwnedBy, IsLocked
    <3> QED
      BY <1>3, <3>2, <3>3
  <2> QED
    BY <1>6, <2>1, <2>2 DEF Has
<1>7. \/ UNCHANGED lock
      \/ \E t \in Tapes : Frees(d, t) /\ ~(Works(d, t)') /\ (Works(d, t) \/ Has(d, t))
  BY <1>0, <1>3, <1>5 DEF Works
<1> QED
  BY <1>1, <1>4, <1>5, <1>6, <1>7, Zenon DEF Handles

LEMMA DeviceStepHandles ==
  ASSUME LibInv, ShapeInv, RowsOK, NEW d \in Drives, DeviceStep(d)
  PROVE  Handles(d)
<1> DEFINE D == dev[d]
<1>0. /\ TypeOK /\ Shape(D.th, D.op, D.med, D.sub, D.pc) /\ None \notin Tapes
      /\ D.med \in Tapes \cup {None} /\ D.sub \in Tapes \cup {None}
  BY NoneAssumption DEF LibInv, ShapeInv, DevShape, TypeOK
<1>p. UNCHANGED <<host, pid>> /\ torn \subseteq torn'
  BY DEF DeviceStep, Assigned, Assign, Check, Umount, UmountFails, LibOpen, LibRefused, UnloadEnds, Release,
     LoadEnds, Mount, MountFails, Df, Format, FormatError, CleanupOnError, Own, Fill, Acquire, TakeLock,
     StopDevice, AdminUnlock, hostVars
<1>r. \A o \in Drives \ {d} : rpc'[o] = rpc[o]
  <2>1. \/ UNCHANGED rpc \/ Closed(d) \/ LibOpen(d)
    BY DEF DeviceStep, Assigned, Assign, Check, Umount, UmountFails, LibOpen, LibRefused, UnloadEnds, Release,
       LoadEnds, Mount, MountFails, Df, Format, FormatError, CleanupOnError, Own, Fill, Acquire, TakeLock,
       StopDevice, AdminUnlock, tlcVars
  <2>2. RpcTypes
    BY <1>0, TypeParts
  <2> QED
    BY <2>1, <2>2 DEF Closed, LibOpen, RpcTypes
<1>k. ASSUME UNCHANGED <<lock, adm>>, NEW th, NEW op, NEW sub, NEW pc, Becomes(d, th, op, D.med, sub, pc),
             sub \in {D.sub, None}, D.pc # "release", pc # "release"
      PROVE  Handles(d)
  <2>1. dev'[d].med = dev[d].med /\ dev'[d].pc # "release" /\ \A o \in Drives \ {d} : dev'[o] = dev[o]
    BY <1>k DEF Becomes
  <2>2. dev'[d].sub = dev[d].sub \/ dev'[d].sub \notin Tapes
    BY <1>0, <1>k DEF Becomes
  <2> QED
    BY <1>k, <1>p, <1>r, <2>1, <2>2, HandlesKeep
<1>f. ASSUME Fallen(d), FailEffect(d, dev[d]), D.pc \in Work \ {"release"}, UNCHANGED torn
      PROVE  Handles(d)
  <2>1. dev[d].sub \in Tapes
    BY <1>0, <1>f DEF Shape
  <2> QED
    BY <1>0, <1>f, <1>p, <1>r, <2>1, HandlesFall DEF Unlocking
<1> USE DEF dssVars, hostVars
<1>1. CASE Assigned(d)
  <2>1. PICK t \in Tapes, k \in {"read", "write", "format"} : Assign(d, t, k)
    BY <1>1 DEF Assigned
  <2>2. Becomes(d, "run", D.op, D.med, t, "check") /\ D.pc = "idle"
    BY <1>0, <2>1, AssignBecomes DEF Assign
  <2>3. adm[t] # "failed" /\ UNCHANGED adm
    BY <2>1 DEF Assign
  <2>4. (Mine(t, d) /\ UNCHANGED lock) \/ Takes(d, t)
    BY <1>0, <2>1, RowFacts DEF Assign, Takes
  <2>5. Mine(t, d)'
    <3>1. CASE Takes(d, t)
      <4>1. lock'[t] = Row(HostOf[d], pid[HostOf[d]], FALSE) /\ lock'[t] # NoLock
        BY <1>0, <3>1, RowEffects
      <4> QED
        BY <1>p, <4>1 DEF Mine, OwnedBy, IsLocked, Row
    <3>2. CASE Mine(t, d) /\ UNCHANGED lock
      BY <1>p, <3>2 DEF Mine
    <3> QED
      BY <2>4, <3>1, <3>2
  <2>6. \A o \in DrivesOf(HostOf[d]) \ {d} : ~Works(o, t) /\ (Has(o, t) => <<t, "shared">> \in torn')
    BY <2>1 DEF Assign, Works, Has
  <2>7. \A u \in Tapes : (Has(d, u)' <=> Has(d, u)) /\ (Works(d, u)' <=> u = t)
    BY <2>2 DEF Becomes, Has, Works, Unlocking
  <2> QED
    BY <1>p, <1>r, <2>2, <2>3, <2>4, <2>5, <2>6, <2>7 DEF Handles, Becomes
<1>2. CASE Check(d)
  <2>1. UNCHANGED <<lock, adm>> /\ D.pc = "check"
    BY <1>0, <1>2, TypeParts, SucceedsEffect DEF Check, At
  <2> QED
    BY <1>0, <1>2, <1>k, <2>1, CheckBecomes
<1>3. CASE Umount(d)
  BY <1>0, <1>3, <1>k, UmountBecomes DEF Umount, At
<1>4. CASE UmountFails(d) \/ LibRefused(d) \/ MountFails(d)
  BY <1>0, <1>4, <1>f, ErrorFalls DEF UmountFails, LibRefused, MountFails, At, Work
<1>5. CASE LibOpen(d)
  <2>1. UNCHANGED <<dev, lock, adm>> /\ D.pc # "release"
    BY <1>5 DEF LibOpen
  <2> QED
    BY <1>p, <1>r, <2>1, HandlesKeep
<1>6. CASE UnloadEnds(d)
  <2>0. D.th = "run" /\ D.pc = "unload" /\ D.sub \in Tapes /\ UNCHANGED torn
    BY <1>0, <1>6 DEF UnloadEnds, At, Running, Shape, Work
  <2>1. CASE rpc[d].st = "ok" /\ UNCHANGED <<rpc, dssVars>> /\ Becomes(d, "run", "empty", None, D.sub, "release")
    <3>1. rpc[d].tape = D.med
      BY <2>0, <2>1 DEF ShapeInv, CallShape
    <3>2. \A t \in Tapes : Has(d, t)' <=> Has(d, t)
      BY <1>0, <2>0, <2>1, <3>1 DEF Has, Unlocking, Becomes
    <3>3. \A t \in Tapes : Works(d, t)' <=> Works(d, t)
      BY <2>1 DEF Works, Becomes
    <3> QED
      BY <1>p, <1>r, <2>1, <3>2, <3>3 DEF Handles, Becomes
  <2> QED
    BY <1>0, <1>6, <1>f, <2>0, <2>1, UnloadEndsBecomes DEF Work
<1>7. CASE Release(d)
  <2>0. D.th = "run" /\ D.pc = "release" /\ D.sub \in Tapes /\ UNCHANGED torn /\ rpc[d].st = "ok"
    BY <1>0, <1>7 DEF Release, At, Running, Shape, Work, LibInv, CallOK
  <2>1. PICK t \in Tapes : t = rpc[d].tape /\ t # D.sub
    BY <2>0 DEF ShapeInv, CallShape
  <2>2. CASE Mine(t, d)
    <3>1. Frees(d, t) /\ UNCHANGED adm /\ Go(d, "load")
      BY <1>7, <2>1, <2>2 DEF Release, Frees
    <3>2. Becomes(d, D.th, D.op, D.med, D.sub, "load")
      BY <1>0, <3>1, GoBecomes
    <3>3. ~(Mine(t, d)')
      BY <1>0, <3>1, RowEffects DEF Mine, OwnedBy, IsLocked
    <3>4. \A u \in Tapes : (Works(d, u)' <=> Works(d, u)) /\ (Has(d, u)' => Has(d, u))
                           /\ (Has(d, u) => Has(d, u)' \/ u = t)
      BY <2>1, <3>2 DEF Becomes, Works, Has, Unlocking
    <3>5. ~(Works(d, t)') /\ Has(d, t)
      BY <2>0, <2>1, <3>4 DEF Works, Has, Unlocking
    <3> QED
      BY <1>p, <1>r, <3>1, <3>2, <3>3, <3>4, <3>5 DEF Handles, Becomes
  <2>3. CASE ~Mine(t, d)
    <3>1. Fallen(d) /\ FailEffect(d, dev[d])
      BY <1>0, <1>7, <2>1, <2>3, ReleaseBecomes
    <3> QED
      BY <1>0, <1>p, <1>r, <2>0, <2>1, <2>3, <3>1, HandlesFall
  <2> QED
    BY <2>2, <2>3
<1>8. CASE LoadEnds(d)
  <2>0. D.th = "run" /\ D.pc = "load" /\ D.sub \in Tapes /\ UNCHANGED torn /\ D.med = None
    BY <1>0, <1>8 DEF LoadEnds, At, Running, Shape, Work
  <2>1. ASSUME NEW pc \in {"format", "mount"}, UNCHANGED dssVars, Becomes(d, "run", "loaded", D.sub, D.sub, pc)
        PROVE  Handles(d)
    <3>1. \A t \in Tapes : (Works(d, t)' <=> Works(d, t)) /\ ~Has(d, t) /\ (Has(d, t)' => Works(d, t))
      BY <1>0, <2>0, <2>1 DEF Has, Works, Unlocking, Becomes
    <3> QED
      BY <1>p, <1>r, <2>1, <3>1 DEF Handles, Becomes
  <2> QED
    BY <1>0, <1>8, <1>f, <2>0, <2>1, LoadEndsBecomes DEF Work
<1>9. CASE Mount(d)
  BY <1>0, <1>9, <1>k, MountBecomes DEF Mount, At
<1>10. CASE Df(d) \/ Format(d)
  <2>1. D.pc \in {"df", "format"}
    BY <1>10 DEF Df, Format, At
  <2> QED
    BY <1>0, <1>10, <1>k, <2>1, WorkedBecomes
<1>11. CASE FormatError(d)
  BY <1>0, <1>11, <1>f, FormatErrorFalls DEF FormatError, At, Work
<1>12. CASE CleanupOnError(d)
  <2>0. Becomes(d, "off", "failed", None, None, "idle") /\ D.pc = "idle" /\ UNCHANGED adm
    BY <1>0, <1>12, CleanupBecomes DEF Shape, CleanupOnError
  <2>1. \A t \in Tapes : ~(Works(d, t)') /\ ~(Has(d, t)') /\ (Has(d, t) <=> t = D.med)
    BY <1>0, <2>0 DEF Becomes, Works, Has, Unlocking
  <2>2. CASE D.med = None
    <3>1. UNCHANGED lock
      BY <1>12, <2>2 DEF CleanupOnError, ReleaseRow
    <3> QED
      BY <1>0, <1>p, <1>r, <2>0, <2>1, <2>2, <3>1 DEF Handles, Becomes
  <2>3. CASE D.med \in Tapes
    <3>1. PICK t \in Tapes : t = D.med
      BY <2>3
    <3>2. (Mine(t, d) /\ Frees(d, t)) \/ (~Mine(t, d) /\ UNCHANGED lock)
      BY <1>0, <1>12, <3>1, RowFacts DEF CleanupOnError, Frees
    <3>3. ~(Mine(t, d)')
      BY <1>0, <1>p, <3>2, RowEffects DEF Mine, OwnedBy, IsLocked
    <3> QED
      BY <1>p, <1>r, <2>0, <2>1, <3>1, <3>2, <3>3 DEF Handles, Becomes
  <2> QED
    BY <1>0, <2>2, <2>3
<1>13. CASE Own(d)
  BY <1>0, <1>13, <1>k, OwnBecomes DEF Own, At
<1>14. CASE Fill(d)
  <2>0. UNCHANGED <<lock, adm>> /\ D.pc = "fill" /\ D.med = None /\ D.th = "run"
    BY <1>0, <1>14 DEF Fill, At, Running, Shape
  <2>1. CASE Becomes(d, "run", "loaded", tlc.cache[d].vol, D.sub, "acquire")
    <3>1. \A t \in Tapes : (Works(d, t)' <=> Works(d, t)) /\ ~Has(d, t)
      BY <1>0, <2>0, <2>1 DEF Has, Works, Unlocking, Becomes
    <3>2. ASSUME NEW t \in Tapes, Has(d, t)', NEW o \in DrivesOf(HostOf[d]) \ {d}, Works(o, t)
          PROVE  <<t, "shared">> \in torn'
      <4>1. dev'[d].med = t
        BY <2>1, <3>2 DEF Has, Unlocking, Becomes
      <4>2. o \in Drives \ {d} /\ dev[o].sub = t /\ HostOf[o] = HostOf[d]
        BY <3>2 DEF Works, DrivesOf
      <4> QED
        BY <1>14, <4>1, <4>2 DEF Fill
    <3> QED
      BY <1>p, <1>r, <2>0, <2>1, <3>1, <3>2 DEF Handles, Becomes
  <2> QED
    BY <1>0, <1>14, <1>k, <2>0, <2>1, FillBecomes
<1>15. CASE Acquire(d) \/ TakeLock(d)
  <2>0. UNCHANGED adm /\ D.pc \in {"acquire", "lock"} /\ D.med \in Tapes
    BY <1>0, <1>15 DEF Acquire, TakeLock, At, Running, Shape
  <2>1. CASE UNCHANGED lock
    BY <1>0, <1>15, <1>k, <2>0, <2>1, AcquireBecomes
  <2>2. CASE /\ PossessApplies(lock, D.med, HostOf[d])
             /\ lock' = Possess(lock, D.med, HostOf[d], pid[HostOf[d]])
             /\ Becomes(d, "run", IF d \in mnt THEN "mounted" ELSE "loaded", D.med, D.sub, "idle")
    <3>1. PICK t \in Tapes : t = D.med
      BY <2>0
    <3>2. Takes(d, t)
      BY <1>0, <2>2, <3>1, RowFacts DEF Takes
    <3>3. \A u \in Tapes : (Works(d, u)' <=> Works(d, u)) /\ (Has(d, u)' <=> Has(d, u)) /\ Has(d, t)
      BY <2>0, <2>2, <3>1 DEF Has, Works, Unlocking, Becomes
    <3> QED
      BY <1>p, <1>r, <2>0, <2>2, <3>2, <3>3 DEF Handles, Becomes
  <2> QED
    BY <1>0, <1>15, <2>1, <2>2, AcquireBecomes
<1>16. CASE StopDevice(d)
  <2>0. UNCHANGED adm /\ host[HostOf[d]] = "stop" /\ D.th = "run"
    BY <1>16 DEF StopDevice, Running
  <2>1. CASE D.pc = "stop_release"
    <3>0. D.med \in Tapes /\ D.sub = None
      BY <1>0, <2>1 DEF Shape, Work
    <3>1. PICK t \in Tapes : t = D.med
      BY <3>0
    <3>2. /\ lock' = ReleaseRow(lock, t, d) /\ dev'[d].sub = None
          /\ dev'[d].med \in {D.med, None} /\ dev'[d].pc # "release" /\ \A o \in Drives \ {d} : dev'[o] = dev[o]
      BY <1>0, <1>16, <2>1, <3>0, <3>1, StopBecomes DEF Becomes
    <3>3. Frees(d, t) \/ UNCHANGED lock
      BY <1>0, <3>2, RowFacts DEF Frees
    <3>4. Has(d, t) /\ \A u \in Tapes : ~(Works(d, u)') /\ (Has(d, u)' => Has(d, u))
      BY <1>0, <3>0, <3>1, <3>2 DEF Has, Works, Unlocking
    <3> QED
      BY <1>p, <1>r, <2>0, <3>2, <3>3, <3>4 DEF Handles
  <2>2. CASE D.pc = "stop_device"
    <3>1. UNCHANGED lock /\ Becomes(d, "off", "failed", None, None, "idle")
      BY <1>0, <1>16, <2>2, StopBecomes
    <3>2. \A u \in Tapes : ~(Works(d, u)') /\ ~(Has(d, u)')
      BY <1>0, <3>1 DEF Has, Works, Unlocking, Becomes
    <3> QED
      BY <1>p, <1>r, <2>0, <3>1, <3>2 DEF Handles, Becomes
  <2> QED
    BY <1>0, <1>16, <1>k, <2>0, <2>1, <2>2, StopBecomes
<1>17. CASE AdminUnlock(d)
  <2>1. CASE UNCHANGED dev
    BY <1>17, <1>p, <1>r, <2>1 DEF AdminUnlock, tlcVars, Handles, Has, Works, Unlocking
  <2>2. CASE dev[d].th = "off" /\ Becomes(d, "run", "failed", None, None, "own")
    <3>1. D.med = None /\ D.sub = None /\ D.pc = "idle"
      BY <1>0, <2>2 DEF Shape
    <3> QED
      BY <1>17, <1>k, <2>2, <3>1 DEF AdminUnlock
  <2> QED
    BY <1>0, <1>17, <2>1, <2>2, AdminBecomes
<1> QED
  BY <1>1, <1>2, <1>3, <1>4, <1>5, <1>6, <1>7, <1>8, <1>9, <1>10, <1>11, <1>12, <1>13, <1>14,
     <1>15, <1>16, <1>17 DEF DeviceStep

\* The lock of the drive itself.
LEMMA DeviceStepDrive ==
  ASSUME LibInv, RowsOK, NEW d \in Drives, DeviceStep(d)
  PROVE  \/ UNCHANGED dlock
         \/ dlock' = Possess(dlock, d, HostOf[d], pid[HostOf[d]])
         \/ dlock' = Unlock(dlock, d)
<1>0. TypeOK /\ DssTypes /\ dev \in [Drives -> DevRecord]
  BY TypeParts DEF LibInv, DevTypes
<1>1. CASE FailEffect(d, dev[d])
  BY <1>1 DEF FailEffect
<1>2. CASE UmountFails(d) \/ LibRefused(d) \/ MountFails(d) \/ FormatError(d)
  BY <1>0, <1>1, <1>2, ErrorFalls, FormatErrorFalls
<1>3. CASE UnloadEnds(d) \/ Release(d) \/ LoadEnds(d)
  BY <1>0, <1>1, <1>3, UnloadEndsBecomes, ReleaseBecomes, LoadEndsBecomes DEF dssVars
<1>4. CASE Check(d)
  BY <1>0, <1>4, SucceedsEffect DEF Check, dssVars
<1>5. CASE Mount(d) \/ Df(d) \/ Format(d)
  BY <1>0, <1>5, MountBecomes, WorkedBecomes
<1>6. CASE Own(d)
  BY <1>6 DEF Own
<1>7. CASE CleanupOnError(d)
  BY <1>7 DEF CleanupOnError, ReleaseRow
<1>8. CASE StopDevice(d)
  BY <1>8 DEF StopDevice, ReleaseRow
<1>9. CASE Assigned(d) \/ Umount(d) \/ LibOpen(d) \/ Fill(d) \/ Acquire(d) \/ TakeLock(d) \/ AdminUnlock(d)
  BY <1>9 DEF Assigned, Assign, Umount, LibOpen, Fill, Acquire, TakeLock, AdminUnlock, dssVars
<1> QED
  BY <1>2, <1>3, <1>4, <1>5, <1>6, <1>7, <1>8, <1>9 DEF DeviceStep

LEMMA HandlesRows ==
  ASSUME LibInv, RowsOK, NEW d \in Drives, DeviceStep(d), Handles(d)
  PROVE  RowsOK'
<1> DEFINE R == Row(HostOf[d], pid[HostOf[d]], FALSE)
<1>1. TypeOK /\ pid \in [Hosts -> 0..MaxCrash + 1] /\ UNCHANGED pid /\ MaxCrash \in Nat
  BY BoundAssumption DEF LibInv, TypeOK, Handles
<1>2. HostOf[d] \in Hosts /\ pid[HostOf[d]] \in 0..MaxCrash + 1
  BY <1>1, HostAssumption
<1>3. R \in Rows /\ R.owner = pid[R.host]
  BY <1>2 DEF Row, Rows
<1> HIDE DEF R
<1>4. dlock' \in [Drives -> Rows \cup {NoLock}]
  BY <1>3, DeviceStepDrive DEF RowsOK, Possess, Unlock, R
<1>5. CASE UNCHANGED lock
  BY <1>1, <1>4, <1>5 DEF RowsOK, IsLocked
<1>6. ASSUME NEW t \in Tapes, Takes(d, t) PROVE RowsOK'
  <2>1. lock' = [lock EXCEPT ![t] = R]
    BY <1>6 DEF Takes, Possess, R
  <2>2. lock' \in [Tapes -> Rows \cup {NoLock}]
    BY <1>3, <2>1 DEF RowsOK
  <2>3. ASSUME NEW u \in Tapes, lock'[u] # NoLock PROVE lock'[u].owner <= pid[lock'[u].host]
    <3>1. CASE u = t
      <4>1. lock'[u] = R
        BY <2>1, <3>1 DEF RowsOK
      <4> QED
        BY <1>2, <1>3, <4>1 DEF R, Row
    <3>2. CASE u # t
      BY <2>1, <2>3, <3>2 DEF RowsOK, IsLocked
    <3> QED
      BY <3>1, <3>2
  <2> QED
    BY <1>1, <1>4, <2>2, <2>3 DEF RowsOK, IsLocked
<1>7. ASSUME NEW t \in Tapes, Frees(d, t) PROVE RowsOK'
  <2>1. lock' = [lock EXCEPT ![t] = NoLock]
    BY <1>7 DEF Frees, Unlock
  <2> QED
    BY <1>1, <1>4, <2>1 DEF RowsOK, IsLocked
<1> QED
  BY <1>5, <1>6, <1>7 DEF Handles

LEMMA StillSane ==
  ASSUME torn \subseteq torn', NEW defects
  PROVE  Sane(defects)' \subseteq Sane(defects)
BY DEF Sane

LEMMA HandlesAlone ==
  ASSUME Alone, NEW d \in Drives, Handles(d)
  PROVE  Alone'
<1> SUFFICES ASSUME NEW a \in Drives, NEW b \in Drives, NEW t \in Tapes, <<t, "shared">> \notin torn',
                    a # b, HostOf[a] = HostOf[b], Works(a, t)'
             PROVE  ~(Works(b, t)') /\ ~(Has(b, t)')
  BY DEF Alone, Sane
<1>0. t \in Sane({"shared"})
  BY DEF Sane, Handles
<1>1. \A o \in Drives \ {d} : (Works(o, t)' <=> Works(o, t)) /\ (Has(o, t)' <=> Has(o, t))
  BY DEF Handles, Works, Has, Unlocking
<1>2. ASSUME NEW x \in Drives, NEW y \in Drives, x # y, HostOf[x] = HostOf[y], Works(x, t)
      PROVE  ~Works(y, t) /\ ~Has(y, t)
  BY <1>0, <1>2 DEF Alone
<1>3. CASE a = d
  <2>1. b \in DrivesOf(HostOf[d]) \ {d}
    BY <1>3 DEF DrivesOf
  <2>2. CASE Works(d, t)
    BY <1>1, <1>2, <1>3, <2>2
  <2>3. CASE ~Works(d, t)
    BY <1>1, <1>3, <2>1, <2>3 DEF Handles
  <2> QED
    BY <2>2, <2>3
<1>4. CASE b = d
  <2>1. a \in DrivesOf(HostOf[d]) \ {d} /\ Works(a, t)
    BY <1>1, <1>4 DEF DrivesOf
  <2>2. ~Works(d, t) /\ ~Has(d, t)
    BY <1>2, <1>4, <2>1
  <2> QED
    BY <1>4, <2>1, <2>2 DEF Handles
<1>5. CASE a # d /\ b # d
  BY <1>1, <1>2, <1>5
<1> QED
  BY <1>3, <1>4, <1>5

LEMMA HandlesUnderLock ==
  ASSUME LibInv, RowsOK, Alone, UnderLock, NEW d \in Drives, Handles(d)
  PROVE  UnderLock'
<1> SUFFICES ASSUME NEW o \in Drives, NEW t \in Tapes, <<t, "shared">> \notin torn', Works(o, t)'
             PROVE  Mine(t, o)'
  BY DEF UnderLock, Sane
<1>0. TypeOK /\ t \in Sane({"shared"}) /\ UNCHANGED pid
  BY DEF Sane, Handles, LibInv
<1>1. CASE ~Works(o, t)
  <2>1. o = d
    BY <1>1 DEF Handles, Works
  <2> QED
    BY <1>1, <2>1 DEF Handles
<1>2. CASE Works(o, t)
  <2>1. Mine(t, o)
    BY <1>0, <1>2 DEF UnderLock
  <2>2. CASE lock'[t] = lock[t]
    BY <1>0, <2>1, <2>2 DEF Mine, OwnedBy, IsLocked
  <2>3. ASSUME NEW u \in Tapes, Takes(d, u) PROVE Mine(t, o)'
    <3>1. t # u
      BY <2>1, <2>3 DEF Takes, Mine, OwnedBy
    <3> QED
      BY <1>0, <2>2, <2>3, <3>1, RowEffects
  <2>4. ASSUME NEW u \in Tapes, Frees(d, u), ~(Works(d, u)'), Works(d, u) \/ Has(d, u) PROVE Mine(t, o)'
    <3>1. CASE t # u
      BY <1>0, <2>2, <2>4, <3>1, RowEffects
    <3>2. CASE t = u
      <4>1. o # d
        BY <2>4, <3>2
      <4>2. HostOf[o] # HostOf[d]
        BY <1>0, <1>2, <2>4, <3>2, <4>1 DEF Alone
      <4> QED
        BY <2>1, <2>4, <3>2, <4>2 DEF Frees, Mine, OwnedBy
    <3> QED
      BY <3>1, <3>2
  <2> QED
    BY <2>2, <2>3, <2>4 DEF Handles
<1> QED
  BY <1>1, <1>2

LEMMA HandlesFailed ==
  ASSUME LibInv, RowsOK, UnderLock, FailedFree, NEW d \in Drives, Handles(d)
  PROVE  FailedFree'
<1> SUFFICES ASSUME NEW h \in Hosts, NEW t \in Tapes, <<t, "shared">> \notin torn', host[h] \in {"init", "up"},
                    adm'[t] = "failed", OwnedBy(lock, t, h, pid[h])'
             PROVE  \E o \in DrivesOf(h) : Has(o, t)'
  BY DEF FailedFree, Sane, Handles
<1>0. TypeOK /\ t \in Sane({"shared"}) /\ UNCHANGED pid
  BY DEF Sane, Handles, LibInv
<1>1. \A o \in Drives \ {d} : Has(o, t)' <=> Has(o, t)
  BY DEF Handles, Has, Unlocking
<1>2. CASE adm[t] = "failed" /\ OwnedBy(lock, t, h, pid[h])
  <2>1. PICK o \in DrivesOf(h) : Has(o, t)
    BY <1>0, <1>2 DEF FailedFree
  <2>2. o \in Drives /\ HostOf[o] = h
    BY <2>1 DEF DrivesOf
  <2>3. CASE o = d
    <3>1. Mine(t, d)'
      BY <2>2, <2>3 DEF Mine
    <3> QED
      BY <2>1, <2>2, <2>3, <3>1 DEF Handles
  <2> QED
    BY <1>1, <2>1, <2>2, <2>3
<1>3. CASE adm[t] # "failed"
  <2>1. Works(d, t) /\ (UNCHANGED lock \/ Frees(d, t)) /\ ~(Mine(t, d)')
    BY <1>3 DEF Handles
  <2>2. Mine(t, d)
    BY <1>0, <2>1 DEF UnderLock
  <2>3. ~UNCHANGED lock
    BY <1>0, <2>1, <2>2 DEF Mine
  <2>4. lock'[t] = NoLock
    BY <1>0, <2>1, <2>3, RowEffects
  <2> QED
    BY <2>4 DEF OwnedBy, IsLocked
<1>4. CASE adm[t] = "failed" /\ ~OwnedBy(lock, t, h, pid[h])
  <2>1. lock'[t] # lock[t]
    BY <1>0, <1>4 DEF OwnedBy, IsLocked
  <2>2. Takes(d, t) /\ Has(d, t)'
    <3>1. ASSUME NEW u \in Tapes, Frees(d, u) PROVE FALSE
      <4>1. u = t
        BY <1>0, <2>1, <3>1, RowEffects
      <4> QED
        BY <1>0, <3>1, <4>1, RowEffects DEF OwnedBy, IsLocked
    <3>2. PICK u \in Tapes : Takes(d, u) /\ ((adm[u] # "failed" /\ UNCHANGED adm) \/ Has(d, u)')
      BY <2>1, <3>1 DEF Handles
    <3>3. u = t
      BY <1>0, <2>1, <3>2, RowEffects
    <3> QED
      BY <1>4, <3>2, <3>3
  <2>3. lock'[t].host = HostOf[d]
    <3>1. lock'[t] = Row(HostOf[d], pid[HostOf[d]], FALSE)
      BY <1>0, <2>2, RowEffects
    <3> QED
      BY <3>1 DEF Row
  <2> QED
    BY <2>2, <2>3 DEF OwnedBy, DrivesOf
<1> QED
  BY <1>2, <1>3, <1>4

LEMMA HandlesDead ==
  ASSUME LibInv, RowsOK, NoRowOfTheDead, NEW d \in Drives, DeviceStep(d), Handles(d)
  PROVE  NoRowOfTheDead'
<1>0. TypeOK /\ UNCHANGED <<host, pid>> /\ HostOf[d] \in Hosts
  BY HostAssumption DEF Handles, LibInv
<1> SUFFICES ASSUME NEW h \in Hosts, host[h] = "up"
             PROVE  /\ \A t \in Tapes : IsLocked(lock, t)' /\ lock'[t].host = h => lock'[t].owner = pid[h]
                    /\ \A e \in Drives : IsLocked(dlock, e)' /\ dlock'[e].host = h => dlock'[e].owner = pid[h]
  BY <1>0 DEF NoRowOfTheDead
<1>1. ASSUME NEW t \in Tapes, IsLocked(lock, t)', lock'[t].host = h
      PROVE  lock'[t].owner = pid[h]
  <2>1. CASE lock'[t] = lock[t]
    BY <1>1, <2>1 DEF NoRowOfTheDead, IsLocked
  <2>2. CASE lock'[t] = Row(HostOf[d], pid[HostOf[d]], FALSE)
    BY <1>1, <2>2 DEF Row
  <2>3. ASSUME NEW u \in Tapes, Takes(d, u) PROVE lock'[t].owner = pid[h]
    BY <1>0, <2>1, <2>2, <2>3, RowEffects
  <2>4. ASSUME NEW u \in Tapes, Frees(d, u) PROVE lock'[t].owner = pid[h]
    BY <1>0, <1>1, <2>1, <2>4, RowEffects DEF IsLocked
  <2> QED
    BY <2>1, <2>3, <2>4 DEF Handles
<1>2. ASSUME NEW e \in Drives, IsLocked(dlock, e)', dlock'[e].host = h PROVE dlock'[e].owner = pid[h]
  <2>1. CASE dlock'[e] = dlock[e]
    BY <1>2, <2>1 DEF NoRowOfTheDead, IsLocked
  <2>2. CASE dlock'[e] = Row(HostOf[d], pid[HostOf[d]], FALSE)
    BY <1>2, <2>2 DEF Row
  <2>3. CASE dlock'[e] = NoLock
    BY <1>2, <2>3 DEF IsLocked
  <2> QED
    BY <2>1, <2>2, <2>3, DeviceStepDrive DEF RowsOK, Possess, Unlock
<1> QED
  BY <1>1, <1>2

LEMMA DeviceStepLocks ==
  ASSUME LibInv, ShapeInv, LockInv, NEW d \in Drives, DeviceStep(d)
  PROVE  LockInv'
<1>1. Handles(d)
  BY DeviceStepHandles DEF LockInv
<1> QED
  BY <1>1, HandlesRows, HandlesAlone, HandlesUnderLock, HandlesFailed, HandlesDead DEF LockInv

\* Steps that change the calls to the TLC only.
LEMMA CallStepLocks ==
  ASSUME LockInv, UNCHANGED <<dev, host, pid, torn, lock, dlock, adm>>,
         \A d \in Drives : dev[d].pc = "release" => rpc'[d].tape = rpc[d].tape
  PROVE  LockInv'
<1>1. \A d \in Drives, t \in Tapes : (Has(d, t)' <=> Has(d, t)) /\ (Works(d, t)' <=> Works(d, t))
                                     /\ (Mine(t, d)' <=> Mine(t, d))
  BY DEF Has, Works, Unlocking, Mine
<1>2. \A k : Sane(k)' = Sane(k) /\ Sane(k) \subseteq Tapes
  BY DEF Sane
<1>3. RowsOK' /\ NoRowOfTheDead'
  BY <1>2 DEF LockInv, RowsOK, NoRowOfTheDead
<1>4. Alone' /\ UnderLock'
  BY <1>1, <1>2 DEF LockInv, Alone, UnderLock
<1>5. FailedFree'
  BY <1>1, <1>2 DEF LockInv, FailedFree, DrivesOf
<1> QED
  BY <1>3, <1>4, <1>5 DEF LockInv

LEMMA LibraryStepLocks ==
  ASSUME LibInv, ShapeInv, LockInv, LibraryStep
  PROVE  LockInv'
<1>1. ASSUME NEW d \in Drives, dev[d].pc = "release" PROVE rpc[d].st = "ok"
  BY <1>1 DEF LibInv, CallOK
<1>2. \A d \in Drives : dev[d].pc = "release" => rpc'[d].tape = rpc[d].tape
  BY <1>1, LibraryStepEffect DEF Replies, SameCalls, CutCalls, Asked
<1> QED
  BY <1>2, LibraryStepEffect, CallStepLocks

LEMMA LibSendLocks ==
  ASSUME LibInv, LockInv, NEW d \in Drives, LibSend(d)
  PROVE  LockInv'
<1>1. RpcTypes
  BY TypeParts DEF LibInv
<1>2. \A o \in Drives : rpc'[o].tape = rpc[o].tape
  BY <1>1 DEF LibSend, RpcTypes, RpcRecord
<1> QED
  BY <1>2, CallStepLocks DEF LibSend, hostVars, dssVars

LEMMA HostStepLocks ==
  ASSUME LibInv, ShapeInv, LockInv, NEW h \in Hosts, HostStep(h)
  PROVE  LockInv'
<1>0. /\ TypeOK /\ host \in [Hosts -> {"down", "init", "up", "stop"}] /\ None \notin Tapes
      /\ \A d \in Drives : HostOf[d] \in Hosts
      /\ pid \in [Hosts -> 0..MaxCrash + 1] /\ MaxCrash \in Nat
  BY NoneAssumption, HostAssumption, BoundAssumption DEF LibInv, TypeOK
<1>1. CASE StartHost(h)
  <2>0. /\ host[h] = "down" /\ host'[h] = "init" /\ pid'[h] = pid[h] + 1 /\ UNCHANGED <<torn, lock, dlock, adm, rpc>>
        /\ \A g \in Hosts \ {h} : host'[g] = host[g] /\ pid'[g] = pid[g]
    BY <1>0, <1>1 DEF StartHost, dssVars, tlcVars
  <2>1. ASSUME NEW d \in Drives, NEW t \in Tapes
        PROVE  /\ HostOf[d] = h => ~Has(d, t) /\ ~(Works(d, t)') /\ ~(Has(d, t)')
               /\ HostOf[d] # h => (Works(d, t)' <=> Works(d, t)) /\ (Has(d, t)' <=> Has(d, t))
                                   /\ (Mine(t, d)' <=> Mine(t, d))
    <3>1. CASE HostOf[d] = h
      <4>1. dev[d].med = None /\ dev[d].sub = None /\ dev[d].pc = "idle"
        BY <2>0, <3>1 DEF ShapeInv, HostShape, DevShape, Shape
      <4>2. dev'[d].med = None /\ dev'[d].sub = None /\ dev'[d].pc \in {"idle", "own"}
        BY <1>0, <1>1, <4>1, StartBecomes
      <4> QED
        BY <1>0, <3>1, <4>1, <4>2 DEF Has, Works, Unlocking
    <3>2. CASE HostOf[d] # h
      <4>1. dev'[d] = dev[d]
        BY <1>0, <1>1, <3>2, StartBecomes
      <4> QED
        BY <1>0, <2>0, <3>2, <4>1 DEF Has, Works, Unlocking, Mine
    <3> QED
      BY <3>1, <3>2
  <2>2. RowsOK'
    <3>1. ASSUME NEW t \in Tapes, IsLocked(lock, t) PROVE lock[t].owner <= pid'[lock[t].host]
      <4>1. lock[t] \in Rows /\ lock[t].owner <= pid[lock[t].host]
        BY <3>1 DEF LockInv, RowsOK, IsLocked
      <4>2. lock[t].host \in Hosts /\ lock[t].owner \in Nat
        <5>1. lock[t].host \in Hosts /\ lock[t].owner \in 0..MaxCrash + 1
          BY <4>1 DEF Rows
        <5> QED
          BY <1>0, <5>1
      <4>3. pid[lock[t].host] \in Nat /\ pid'[lock[t].host] \in {pid[lock[t].host], pid[lock[t].host] + 1}
        BY <1>0, <2>0, <4>2
      <4> QED
        BY <4>1, <4>2, <4>3
    <3> QED
      BY <2>0, <3>1 DEF LockInv, RowsOK, IsLocked
  <2>3. \A k : Sane(k)' = Sane(k) /\ Sane(k) \subseteq Tapes
    BY <2>0 DEF Sane
  <2>4. Alone' /\ UnderLock'
    BY <2>1, <2>3 DEF LockInv, Alone, UnderLock
  <2>5. FailedFree'
    <3> SUFFICES ASSUME NEW g \in Hosts, NEW t \in Sane({"shared"}), host'[g] \in {"init", "up"}, adm[t] = "failed",
                        OwnedBy(lock, t, g, pid'[g])
                 PROVE  \E d \in DrivesOf(g) : Has(d, t)'
      BY <2>0, <2>3 DEF FailedFree
    <3>1. t \in Tapes
      BY DEF Sane
    <3>2. g # h
      BY <1>0, <2>0, <3>1 DEF OwnedBy, LockInv, RowsOK
    <3>3. PICK d \in DrivesOf(g) : Has(d, t)
      BY <2>0, <3>2 DEF LockInv, FailedFree
    <3> QED
      BY <2>1, <3>1, <3>2, <3>3 DEF DrivesOf
  <2>6. NoRowOfTheDead'
    BY <2>0, <2>3 DEF LockInv, NoRowOfTheDead
  <2> QED
    BY <2>2, <2>4, <2>5, <2>6 DEF LockInv
<1>2. CASE CleanLocks(h)
  <2> DEFINE M == MediaCleanRows(lock, Tapes, h, pid[h])
             V == DeviceCleanRows(dlock, Drives, h, pid[h], HostOf)
  <2>0. /\ UNCHANGED <<dev, rpc, pid, adm, torn>> /\ host[h] = "init" /\ host' = [host EXCEPT ![h] = "up"]
        /\ lock' = DeleteRows(lock, M) /\ dlock' = DeleteRows(dlock, V)
    BY <1>2 DEF CleanLocks, tlcVars
  <2>1. \A k : Sane(k)' \subseteq Sane(k) /\ Sane(k) \subseteq Tapes
    BY <2>0 DEF Sane
  <2>2. \A t \in Tapes : /\ lock'[t] = IF t \in M THEN NoLock ELSE lock[t]
                         /\ t \in M => lock[t].host = h /\ lock[t].owner # pid[h]
    BY <2>0 DEF LockInv, RowsOK, DeleteRows, MediaCleanRows
  <2>3. \A d \in Drives : dlock'[d] = IF d \in V THEN NoLock ELSE dlock[d]
    BY <2>0 DEF LockInv, RowsOK, DeleteRows
  <2>4. RowsOK'
    <3>1. lock' \in [Tapes -> Rows \cup {NoLock}]
      <4>1. DOMAIN lock = Tapes
        BY DEF LockInv, RowsOK
      <4> QED
        BY <2>0, <4>1 DEF LockInv, RowsOK, DeleteRows
    <3>2. dlock' \in [Drives -> Rows \cup {NoLock}]
      <4>1. DOMAIN dlock = Drives
        BY DEF LockInv, RowsOK
      <4> QED
        BY <2>0, <4>1 DEF LockInv, RowsOK, DeleteRows
    <3> HIDE DEF M, V
    <3> QED
      BY <2>0, <2>2, <3>1, <3>2 DEF LockInv, RowsOK, IsLocked
  <2>5. \A d \in Drives, t \in Tapes : (Has(d, t)' <=> Has(d, t)) /\ (Works(d, t)' <=> Works(d, t))
    BY <2>0 DEF Has, Works, Unlocking
  <2>6. \A d \in Drives, t \in Tapes : Mine(t, d) => Mine(t, d)'
    <3> HIDE DEF M, V
    <3> QED
      BY <1>0, <2>0, <2>2 DEF Mine, OwnedBy, IsLocked
  <2>7. Alone' /\ UnderLock'
    BY <2>1, <2>5, <2>6 DEF LockInv, Alone, UnderLock
  <2>8. FailedFree'
    <3> HIDE DEF M, V
    <3> SUFFICES ASSUME NEW g \in Hosts, NEW t \in Sane({"shared"}), host'[g] \in {"init", "up"}, adm[t] = "failed",
                        OwnedBy(lock', t, g, pid[g])
                 PROVE  \E d \in DrivesOf(g) : Has(d, t)'
      BY <2>0, <2>1 DEF FailedFree
    <3>1. t \in Tapes /\ host[g] \in {"init", "up"} /\ OwnedBy(lock, t, g, pid[g])
      BY <1>0, <2>0, <2>1, <2>2 DEF OwnedBy, IsLocked
    <3>2. PICK d \in DrivesOf(g) : Has(d, t)
      BY <3>1 DEF LockInv, FailedFree
    <3> QED
      BY <2>5, <3>1, <3>2 DEF DrivesOf
  <2>9. NoRowOfTheDead'
    <3> SUFFICES ASSUME NEW g \in Hosts, host'[g] = "up"
                 PROVE  /\ \A t \in Tapes : lock'[t] # NoLock /\ lock'[t].host = g => lock'[t].owner = pid[g]
                        /\ \A e \in Drives : dlock'[e] # NoLock /\ dlock'[e].host = g => dlock'[e].owner = pid[g]
      BY <2>0 DEF NoRowOfTheDead, IsLocked
    <3>1. CASE g = h
      <4>1. ASSUME NEW t \in Tapes, lock'[t] # NoLock, lock'[t].host = h
            PROVE  lock'[t].owner = pid[h]
        <5>1. t \notin M /\ lock'[t] = lock[t]
          BY <2>2, <4>1
        <5> QED
          BY <4>1, <5>1 DEF MediaCleanRows, IsLocked
      <4>2. ASSUME NEW e \in Drives, dlock'[e] # NoLock, dlock'[e].host = h PROVE dlock'[e].owner = pid[h]
        <5>1. e \notin V /\ dlock'[e] = dlock[e]
          BY <2>3, <4>2
        <5> QED
          BY <4>2, <5>1 DEF DeviceCleanRows, IsLocked
      <4> QED
        BY <3>1, <4>1, <4>2
    <3>2. CASE g # h
      <4> HIDE DEF M, V
      <4>1. host[g] = "up"
        BY <1>0, <2>0, <3>2
      <4> QED
        BY <2>1, <2>2, <2>3, <4>1 DEF LockInv, NoRowOfTheDead, IsLocked
    <3> QED
      BY <3>1, <3>2
  <2> QED
    BY <2>4, <2>7, <2>8, <2>9 DEF LockInv
<1>3. ASSUME UNCHANGED <<dev, rpc, pid, torn, lock, dlock, adm>>,
             \A g \in Hosts : host'[g] \in {"init", "up"} => host'[g] = host[g]
      PROVE  LockInv'
  <2>1. \A d \in Drives, t \in Tapes : (Has(d, t)' <=> Has(d, t)) /\ (Works(d, t)' <=> Works(d, t))
                                       /\ (Mine(t, d)' <=> Mine(t, d))
    BY <1>3 DEF Has, Works, Unlocking, Mine
  <2>2. \A k : Sane(k)' = Sane(k) /\ Sane(k) \subseteq Tapes
    BY <1>3 DEF Sane
  <2>3. RowsOK' /\ NoRowOfTheDead'
    BY <1>3, <2>2 DEF LockInv, RowsOK, NoRowOfTheDead
  <2>4. Alone' /\ UnderLock'
    BY <2>1, <2>2 DEF LockInv, Alone, UnderLock
  <2>5. FailedFree'
    BY <1>3, <2>1, <2>2 DEF LockInv, FailedFree, DrivesOf
  <2> QED
    BY <2>3, <2>4, <2>5 DEF LockInv
<1>4. CASE StopHost(h) \/ HostEnds(h)
  <2>1. UNCHANGED <<dev, rpc, pid, torn, lock, dlock, adm>>
    BY <1>4 DEF StopHost, HostEnds, tlcVars, dssVars
  <2>2. \E st \in {"stop", "down"} : host' = [host EXCEPT ![h] = st]
    BY <1>4 DEF StopHost, HostEnds
  <2> QED
    BY <1>0, <1>3, <2>1, <2>2
<1>5. CASE Crash(h)
  <2>0. host' = [host EXCEPT ![h] = "down"] /\ UNCHANGED <<pid, torn, lock, dlock, adm>>
    BY <1>5 DEF Crash, dssVars
  <2>1. ASSUME NEW d \in Drives, NEW t \in Tapes
        PROVE  /\ HostOf[d] = h => ~(Works(d, t)') /\ ~(Has(d, t)')
               /\ HostOf[d] # h => (Works(d, t)' <=> Works(d, t)) /\ (Has(d, t)' <=> Has(d, t))
                                   /\ (Mine(t, d)' <=> Mine(t, d))
    BY <1>0, <1>5, <2>0, CrashBecomes DEF Has, Works, Unlocking, Mine
  <2>2. \A k : Sane(k)' = Sane(k) /\ Sane(k) \subseteq Tapes
    BY <2>0 DEF Sane
  <2>3. RowsOK' /\ NoRowOfTheDead'
    BY <1>0, <2>0, <2>2 DEF LockInv, RowsOK, NoRowOfTheDead
  <2>4. Alone' /\ UnderLock'
    BY <2>1, <2>2 DEF LockInv, Alone, UnderLock
  <2>5. FailedFree'
    <3> SUFFICES ASSUME NEW g \in Hosts, NEW t \in Sane({"shared"}), host'[g] \in {"init", "up"}, adm[t] = "failed",
                        OwnedBy(lock, t, g, pid[g])
                 PROVE  \E d \in DrivesOf(g) : Has(d, t)'
      BY <2>0, <2>2 DEF FailedFree
    <3>1. g # h /\ host[g] \in {"init", "up"} /\ t \in Tapes
      BY <1>0, <2>0, <2>2
    <3>2. PICK d \in DrivesOf(g) : Has(d, t)
      BY <3>1 DEF LockInv, FailedFree
    <3> QED
      BY <2>1, <3>1, <3>2 DEF DrivesOf
  <2> QED
    BY <2>3, <2>4, <2>5 DEF LockInv
<1> QED
  BY <1>1, <1>2, <1>4, <1>5 DEF HostStep

LEMMA LockInit == Init => LockInv
<1> SUFFICES ASSUME Init PROVE LockInv
  OBVIOUS
<1>1. None \notin Tapes
  BY NoneAssumption
<1>2. RowsOK
  BY DEF Init, RowsOK, IsLocked
<1>3. Alone /\ UnderLock
  BY <1>1 DEF Init, Alone, UnderLock, Works, Off, Sane
<1>4. FailedFree /\ NoRowOfTheDead
  BY DEF Init, FailedFree, NoRowOfTheDead
<1> QED
  BY <1>2, <1>3, <1>4 DEF LockInv

LEMMA LockStep == LibInv /\ ShapeInv /\ LockInv /\ [Next]_vars => LockInv'
<1> SUFFICES ASSUME LibInv, ShapeInv, LockInv, [Next]_vars PROVE LockInv'
  OBVIOUS
<1>1. CASE UNCHANGED vars
  BY <1>1, CallStepLocks DEF vars, tlcVars, hostVars, dssVars
<1> QED
  BY <1>1, NextActors, DeviceStepLocks, LibSendLocks, HostStepLocks, LibraryStepLocks

\* The locks of an LRS are those of the tapes and drives it has, for any hosts,
\* drives and tapes: a device works on a tape under the lock of its LRS, a
\* failed tape that is in no drive is free, and no row of a previous LRS is left
\* (ensure_medium_lock, fail_release_medium, sched_clean_medium_locks).
THEOREM TapeLocksExact == Spec => []LocksExact
<1>1. Init => LibInv /\ ShapeInv /\ LockInv
  BY LibInit, ShapeInit, LockInit
<1>2. LibInv /\ ShapeInv /\ LockInv /\ [Next]_vars => (LibInv /\ ShapeInv /\ LockInv)'
  BY LibStep, ShapeStep, LockStep
<1>3. LibInv /\ ShapeInv /\ LockInv => LocksExact
  <2> SUFFICES ASSUME LibInv, ShapeInv, LockInv PROVE LocksExact
    OBVIOUS
  <2>1. TypeOK /\ NoRowOfTheDead
    BY DEF LibInv, LockInv
  <2>2. WorksUnderLock
    BY DEF LockInv, UnderLock, Works, WorksUnderLock
  <2>3. FailedTapeFree
    BY DEF LockInv, FailedFree, Has, FailedTapeFree
  <2> QED
    BY <2>1, <2>2, <2>3 DEF LocksExact
<1> QED
  BY <1>1, <1>2, <1>3, PTL DEF Spec

-----------------------------------------------------------------------------
(* What a device knows of its drive.                                       *)

Loads(d, t) == rpc[d].op = "load" /\ rpc[d].tape = t
Sends(d, t) == rpc[d].st = "sent" /\ Loads(d, t)
Late(d, t) == rpc[d].st = "orphan" /\ Loads(d, t)
Brings(d, t) == rpc[d].st = "ok" /\ Loads(d, t)
TookOut(d) == rpc[d].st = "ok" /\ rpc[d].op = "unload"
Good == Sane({"named", "shared"})

\* A call that waits for its answer is in the queue.
Waits ==
    \A d \in Drives : rpc[d].st \in Asked => \E i \in 1..Len(tlc.queue) : tlc.queue[i] = d

\* The load that a dead LRS asked is served before any other load of its tape,
\* and nobody has this tape before it is.
Ahead ==
    \A i, j \in 1..Len(tlc.queue), t \in Good :
        Sends(tlc.queue[i], t) /\ Late(tlc.queue[j], t) => j < i
NoLateLoad == \A d, o \in Drives, t \in Good : Brings(d, t) => ~Late(o, t)

\* Nobody else works on the tape of a device, nor has asked for it and died.
NamedAlone ==
    \A d, o \in Drives, t \in Good : d # o /\ dev[d].med = t => ~Works(o, t) /\ ~Late(o, t)

CallInv == Waits /\ Ahead /\ NoLateLoad /\ NamedAlone

UsedOK == used \in [req : Nat, fault : Nat, crash : Nat, tlc : Nat, admin : Nat]
Trusted == used.fault = 0 => ~stale

\* The answers of the TLC are true, and a device believes them.
GoneOut == \A d \in Drives : TookOut(d) => InDrive(d) = {}
EmptyDrive ==
    used.fault = 0 => \A d \in Drives :
        Running(d) /\ dev[d].op = "empty" => InDrive(d) = {} \/ (rpc[d].st = "ok" /\ rpc[d].op = "load")
LoadedThere ==
    used.fault = 0 => \A d \in Drives, t \in Good :
        /\ Brings(d, t) => at[t] = d
        /\ Running(d) /\ dev[d].op \in {"loaded", "mounted"} /\ dev[d].med = t /\ ~TookOut(d) => at[t] = d

PlaceInv == UsedOK /\ Trusted /\ GoneOut /\ EmptyDrive /\ LoadedThere

LEMMA OneWorks ==
  ASSUME LockInv, NEW t \in Good, NEW a \in Drives, NEW b \in Drives, Works(a, t), Works(b, t)
  PROVE  a = b
<1>1. t \in Sane({"shared"})
  BY DEF Good, Sane
<1>2. Mine(t, a) /\ Mine(t, b)
  BY <1>1 DEF LockInv, UnderLock
<1>3. HostOf[a] = HostOf[b]
  BY <1>2 DEF Mine, OwnedBy
<1> QED
  BY <1>1, <1>3 DEF LockInv, Alone

LEMMA CallWorks ==
  ASSUME ShapeInv, NEW d \in Drives, NEW t, Sends(d, t) \/ Brings(d, t)
  PROVE  Works(d, t) /\ dev[d].pc = "load"
<1>1. rpc[d].st \notin {"none", "orphan"} /\ rpc[d].op = "load" /\ rpc[d].tape = t
  BY DEF Sends, Brings, Loads
<1>2. dev[d].pc = "load"
  BY <1>1 DEF ShapeInv, CallShape
<1> QED
  BY <1>1, <1>2 DEF ShapeInv, CallShape, Works

-----------------------------------------------------------------------------
(* The counters.                                                           *)

Counted == used' = used \/ \E w \in {"req", "fault", "crash", "tlc", "admin"} : used' = Count(w)

LEMMA CountedUsed ==
  ASSUME UsedOK, Counted
  PROVE  UsedOK' /\ (used'.fault = 0 => used.fault = 0)
BY DEF UsedOK, Counted, Count

LEMMA FaultUsed ==
  ASSUME UsedOK, Fault
  PROVE  used'.fault # 0
BY DEF UsedOK, Fault, Count

LEMMA DeviceStepCounts ==
  ASSUME NEW d \in Drives, DeviceStep(d)
  PROVE  Counted
<1>1. UNCHANGED used \/ Fault \/ used' = Count("req") \/ used' = Count("admin")
  BY DEF DeviceStep, Assigned, Assign, Check, Umount, UmountFails, LibOpen, LibRefused, UnloadEnds, Release,
     LoadEnds, Mount, MountFails, Df, Format, FormatError, CleanupOnError, Own, Fill, Acquire, TakeLock,
     StopDevice, AdminUnlock
<1> QED
  BY <1>1 DEF Counted, Fault

LEMMA HostStepCounts ==
  ASSUME NEW h \in Hosts, HostStep(h)
  PROVE  Counted
BY DEF HostStep, StartHost, CleanLocks, StopHost, HostEnds, Crash, Counted

LEMMA LibraryStepCounts ==
  ASSUME LibraryStep
  PROVE  /\ Counted
         /\ UNCHANGED stale \/ stale' = FALSE \/ (stale' = TRUE /\ Fault)
<1>1. ASSUME NEW d \in Drives, TlcRefuses(d) \/ TlcBegins(d) \/ TlcNoFreeSlot(d) \/ MoveDone(d)
                               \/ MoveFailed(d)
      PROVE  (UNCHANGED used \/ Fault) /\ UNCHANGED stale
  BY <1>1 DEF TlcRefuses, TlcBegins, TlcNoFreeSlot, MoveDone, MoveFailed
<1>2. ASSUME NEW d \in Drives, MoveFailedDone(d) PROVE Fault /\ stale' = TRUE
  BY <1>2 DEF MoveFailedDone
<1>3. ASSUME TlcDies PROVE used' = Count("tlc") /\ UNCHANGED stale
  BY <1>3 DEF TlcDies
<1>4. ASSUME NEW shut \in SUBSET LibDevs, NEW mute \in SUBSET LibDevs, TlcOpens(shut, mute)
      PROVE  (UNCHANGED used \/ Fault) /\ (UNCHANGED stale \/ stale' = FALSE)
  BY <1>4 DEF TlcOpens
<1>5. UNCHANGED used \/ Fault \/ used' = Count("tlc")
  BY <1>1, <1>2, <1>3, <1>4 DEF LibraryStep
<1>6. UNCHANGED stale \/ stale' = FALSE \/ (stale' = TRUE /\ Fault)
  BY <1>1, <1>2, <1>3, <1>4 DEF LibraryStep
<1> QED
  BY <1>5, <1>6 DEF Counted, Fault

-----------------------------------------------------------------------------
(* The thread of a drive.                                                  *)

\* What a step of the thread of d makes of what the LRS knows of d: nothing, or
\* less; or the tape that the TLC says is there; or the one it has brought.
Turns(d) ==
    /\ \A o \in Drives \ {d} : dev'[o] = dev[o] /\ rpc'[o] = rpc[o]
    /\ UNCHANGED <<at, tlc, stale>> /\ torn \subseteq torn'
    /\ rpc'[d] = rpc[d] \/ rpc'[d].st \in {"none", "open"}
    /\ \A t \in Tapes : Works(d, t)' /\ ~Works(d, t) =>
         \A o \in Drives \ {d} : dev[o].med = t => <<t, "named">> \in torn'
    /\ \/ /\ dev'[d].med \in {dev[d].med, None}
          /\ dev'[d].th = "run" /\ dev'[d].op = "empty" =>
               \/ /\ dev[d].th = "run" /\ dev[d].op = "empty"
                  /\ rpc'[d] = rpc[d] \/ ~(rpc[d].st = "ok" /\ rpc[d].op = "load")
               \/ TookOut(d)
               \/ tlc.up /\ ~tlc.cache[d].full
          /\ dev'[d].th = "run" /\ dev'[d].op \in {"loaded", "mounted"} =>
               /\ dev[d].th = "run" /\ dev[d].op \in {"loaded", "mounted"}
               /\ rpc'[d] = rpc[d] \/ ~TookOut(d)
       \/ /\ tlc.up /\ tlc.cache[d].full /\ dev'[d].med = tlc.cache[d].vol /\ dev'[d].op = "loaded"
          /\ \A o \in Drives : rpc[o].st # "orphan"
          /\ \A t \in Tapes, o \in Drives \ {d} : dev'[d].med = t /\ Works(o, t) => <<t, "named">> \in torn'
       \/ /\ Brings(d, dev[d].sub) /\ dev'[d].med = dev[d].sub /\ dev'[d].op = "loaded"

LEMMA TurnsStay ==
  ASSUME NEW d \in Drives, UNCHANGED <<at, tlc, stale>>, torn \subseteq torn',
         \A o \in Drives \ {d} : rpc'[o] = rpc[o],
         rpc'[d] = rpc[d] \/ rpc'[d].st \in {"none", "open"},
         NEW th, NEW op, NEW med, NEW sub, NEW pc, Becomes(d, th, op, med, sub, pc),
         med \in {dev[d].med, None}, sub = dev[d].sub \/ sub \notin Tapes,
         th = "run" /\ op = "empty" =>
           /\ dev[d].th = "run" /\ dev[d].op = "empty"
           /\ rpc'[d] = rpc[d] \/ ~(rpc[d].st = "ok" /\ rpc[d].op = "load"),
         th = "run" /\ op \in {"loaded", "mounted"} =>
           /\ dev[d].th = "run" /\ dev[d].op \in {"loaded", "mounted"}
           /\ rpc'[d] = rpc[d] \/ ~TookOut(d)
  PROVE  Turns(d)
<1>1. /\ \A o \in Drives \ {d} : dev'[o] = dev[o]
      /\ dev'[d].th = th /\ dev'[d].op = op /\ dev'[d].med = med /\ dev'[d].sub = sub
  BY DEF Becomes
<1>2. \A t \in Tapes : Works(d, t)' => Works(d, t)
  BY <1>1 DEF Works
<1> QED
  BY <1>1, <1>2, Zenon DEF Turns

LEMMA DeviceStepTurns ==
  ASSUME LibInv, ShapeInv, NEW d \in Drives, DeviceStep(d)
  PROVE  Turns(d)
<1> DEFINE D == dev[d]
<1>0. /\ TypeOK /\ Shape(D.th, D.op, D.med, D.sub, D.pc) /\ None \notin Tapes
      /\ D.sub \in Tapes \cup {None} /\ RpcTypes
  <2>1. TypeOK /\ RpcTypes
    BY TypeParts DEF LibInv
  <2> QED
    BY <2>1, NoneAssumption DEF ShapeInv, DevShape, TypeOK
<1>p. UNCHANGED <<at, tlc, stale>> /\ torn \subseteq torn'
  <2>1. UNCHANGED <<at, tlc, stale>>
    BY DEF DeviceStep, Assigned, Assign, Check, Umount, UmountFails, LibOpen, LibRefused, UnloadEnds, Release,
       LoadEnds, Mount, MountFails, Df, Format, FormatError, CleanupOnError, Own, Fill, Acquire, TakeLock,
       StopDevice, AdminUnlock, tlcVars, libVars
  <2>2. torn \subseteq torn'
    BY DEF DeviceStep, Assigned, Assign, Check, Umount, UmountFails, LibOpen, LibRefused, UnloadEnds, Release,
       LoadEnds, Mount, MountFails, Df, Format, FormatError, CleanupOnError, Own, Fill, Acquire, TakeLock,
       StopDevice, AdminUnlock, hostVars
  <2> QED
    BY <2>1, <2>2
<1>r. \A o \in Drives \ {d} : rpc'[o] = rpc[o]
  <2>1. \/ UNCHANGED rpc \/ Closed(d) \/ LibOpen(d)
    BY DEF DeviceStep, Assigned, Assign, Check, Umount, UmountFails, LibOpen, LibRefused, UnloadEnds, Release,
       LoadEnds, Mount, MountFails, Df, Format, FormatError, CleanupOnError, Own, Fill, Acquire, TakeLock,
       StopDevice, AdminUnlock, tlcVars
  <2> QED
    BY <1>0, <2>1 DEF Closed, LibOpen, RpcTypes
<1>c. Closed(d) => rpc'[d].st = "none"
  BY <1>0 DEF Closed, RpcTypes, Idle
<1>k. ASSUME UNCHANGED rpc, NEW th, NEW op, NEW med, NEW sub, NEW pc, Becomes(d, th, op, med, sub, pc),
             med \in {D.med, None}, sub \in {D.sub, None},
             th = "run" /\ op = "empty" => D.th = "run" /\ D.op = "empty",
             th = "run" /\ op \in {"loaded", "mounted"} => D.th = "run" /\ D.op \in {"loaded", "mounted"}
      PROVE  Turns(d)
  <2>1. sub = dev[d].sub \/ sub \notin Tapes
    BY <1>0, <1>k
  <2> QED
    BY <1>k, <1>p, <1>r, <2>1, TurnsStay
<1>f. ASSUME Fallen(d), D.th = "run", UNCHANGED rpc \/ Closed(d),
             D.op = "empty" => UNCHANGED rpc \/ ~(rpc[d].st = "ok" /\ rpc[d].op = "load"),
             D.op \in {"loaded", "mounted"} => UNCHANGED rpc \/ ~TookOut(d)
      PROVE  Turns(d)
  <2>1. PICK dead \in BOOLEAN :
          Becomes(d, IF dead THEN "dying" ELSE D.th, IF dead THEN "failed" ELSE D.op, D.med, None, "idle")
    BY <1>f DEF Fallen
  <2>2. rpc'[d] = rpc[d] \/ rpc'[d].st \in {"none", "open"}
    BY <1>c, <1>f
  <2>3. CASE dead
    <3>1. Becomes(d, "dying", "failed", D.med, None, "idle")
      BY <2>1, <2>3
    <3> QED
      BY <1>0, <1>p, <1>r, <2>2, <3>1, TurnsStay
  <2>4. CASE ~dead
    <3>1. Becomes(d, "run", D.op, D.med, None, "idle")
      BY <1>f, <2>1, <2>4
    <3>2. /\ D.op = "empty" => rpc'[d] = rpc[d] \/ ~(rpc[d].st = "ok" /\ rpc[d].op = "load")
          /\ D.op \in {"loaded", "mounted"} => rpc'[d] = rpc[d] \/ ~TookOut(d)
      BY <1>f
    <3> QED
      BY <1>0, <1>f, <1>p, <1>r, <2>2, <3>1, <3>2, TurnsStay
  <2> QED
    BY <2>3, <2>4
<1> USE DEF tlcVars
<1>1. CASE Assigned(d)
  <2>1. PICK t \in Tapes, k \in {"read", "write", "format"} : Assign(d, t, k)
    BY <1>1 DEF Assigned
  <2>2. Becomes(d, "run", D.op, D.med, t, "check") /\ D.th = "run" /\ UNCHANGED rpc
    BY <1>0, <2>1, AssignBecomes DEF Assign, Running
  <2>3. \A o \in Drives \ {d} : dev[o].med = t => <<t, "named">> \in torn'
    BY <2>1 DEF Assign
  <2>4. \A u \in Tapes : Works(d, u)' => u = t
    BY <2>2 DEF Becomes, Works
  <2>5. /\ \A o \in Drives \ {d} : dev'[o] = dev[o]
        /\ dev'[d].th = "run" /\ dev'[d].op = D.op /\ dev'[d].med = D.med
    BY <2>2 DEF Becomes
  <2>6. \A u \in Tapes : Works(d, u)' /\ ~Works(d, u) =>
          \A o \in Drives \ {d} : dev[o].med = u => <<u, "named">> \in torn'
    BY <2>3, <2>4
  <2> QED
    BY <1>p, <2>2, <2>5, <2>6 DEF Turns
<1>2. CASE Check(d)
  <2>1. D.th = "run" /\ UNCHANGED rpc
    BY <1>2 DEF Check, At, Running
  <2> QED
    BY <1>0, <1>2, <1>k, <2>1, CheckBecomes
<1>3. CASE Umount(d)
  <2>1. D.th = "run" /\ D.op = "mounted" /\ UNCHANGED rpc
    BY <1>0, <1>3 DEF Umount, At, Running, Shape
  <2> QED
    BY <1>0, <1>3, <1>k, <2>1, UmountBecomes
<1>4. CASE UmountFails(d) \/ LibRefused(d) \/ MountFails(d)
  <2>1. D.th = "run" /\ UNCHANGED rpc
    BY <1>4 DEF UmountFails, LibRefused, MountFails, At, Running
  <2> QED
    BY <1>0, <1>4, <1>f, <2>1, ErrorFalls
<1>5. CASE LibOpen(d)
  <2>1. UNCHANGED dev /\ rpc[d].st = "none" /\ rpc'[d].st = "open"
    BY <1>0, <1>5 DEF LibOpen, RpcTypes
  <2>2. \A t \in Tapes : Works(d, t)' => Works(d, t)
    BY <2>1 DEF Works
  <2> QED
    BY <1>p, <1>r, <2>1, <2>2 DEF Turns, TookOut
<1>6. CASE UnloadEnds(d)
  <2>0. D.th = "run" /\ D.pc = "unload" /\ D.op = "loaded"
    BY <1>0, <1>6 DEF UnloadEnds, At, Running, Shape
  <2>1. CASE rpc[d].st = "ok" /\ UNCHANGED <<rpc, dssVars>> /\ Becomes(d, "run", "empty", None, D.sub, "release")
    <3>1. TookOut(d)
      BY <2>0, <2>1 DEF ShapeInv, CallShape, TookOut
    <3>2. \A t \in Tapes : Works(d, t)' => Works(d, t)
      BY <2>1 DEF Works, Becomes
    <3> QED
      BY <1>p, <2>1, <3>1, <3>2 DEF Turns, Becomes
  <2>2. CASE rpc[d].st \in {"err", "lost", "pipe"} /\ Closed(d) /\ Fallen(d)
    <3>1. ~TookOut(d)
      BY <2>2 DEF TookOut
    <3> QED
      BY <1>f, <2>0, <2>2, <3>1
  <2> QED
    BY <1>0, <1>6, <2>1, <2>2, UnloadEndsBecomes
<1>7. CASE Release(d)
  <2>0. D.th = "run" /\ D.pc = "release" /\ D.op = "empty" /\ rpc[d].st = "ok"
    BY <1>0, <1>7 DEF Release, At, Running, Shape, LibInv, CallOK
  <2>1. rpc[d].op = "unload"
    BY <2>0 DEF ShapeInv, CallShape
  <2>2. Closed(d) /\ (Fallen(d) \/ Becomes(d, "run", D.op, D.med, D.sub, "load"))
    BY <1>0, <1>7, ReleaseBecomes
  <2>3. CASE Fallen(d)
    BY <1>f, <2>0, <2>1, <2>2, <2>3
  <2>4. CASE Becomes(d, "run", D.op, D.med, D.sub, "load")
    BY <1>c, <1>p, <1>r, <2>0, <2>1, <2>2, <2>4, TurnsStay
  <2> QED
    BY <2>2, <2>3, <2>4
<1>8. CASE LoadEnds(d)
  <2>0. D.th = "run" /\ D.pc = "load" /\ D.op = "empty" /\ rpc[d].st \in {"ok", "err", "lost", "pipe"}
    BY <1>0, <1>8 DEF LoadEnds, At, Running, Shape
  <2>1. rpc[d].op = "load" /\ rpc[d].tape = D.sub
    BY <2>0 DEF ShapeInv, CallShape
  <2>2. CASE rpc[d].st = "ok"
    <3>1. \E pc \in {"format", "mount"} : Becomes(d, "run", "loaded", D.sub, D.sub, pc)
      BY <1>0, <1>8, <2>2, LoadEndsBecomes
    <3>2. /\ \A o \in Drives \ {d} : dev'[o] = dev[o]
          /\ dev'[d].th = "run" /\ dev'[d].op = "loaded" /\ dev'[d].med = D.sub /\ dev'[d].sub = D.sub
      BY <3>1 DEF Becomes
    <3>3. Brings(d, D.sub) /\ rpc'[d].st = "none"
      BY <1>8, <1>c, <2>1, <2>2 DEF Brings, Loads, LoadEnds
    <3>4. \A t \in Tapes : Works(d, t)' => Works(d, t)
      BY <3>2 DEF Works
    <3> QED
      BY <1>p, <1>r, <3>2, <3>3, <3>4 DEF Turns
  <2>3. CASE rpc[d].st # "ok"
    <3>1. Closed(d) /\ Fallen(d)
      BY <1>0, <1>8, <2>3, LoadEndsBecomes
    <3> QED
      BY <1>f, <2>0, <2>3, <3>1
  <2> QED
    BY <2>2, <2>3
<1>9. CASE Mount(d)
  <2>1. D.th = "run" /\ D.op = "loaded" /\ UNCHANGED rpc
    BY <1>0, <1>9 DEF Mount, At, Running, Shape
  <2> QED
    BY <1>0, <1>9, <1>k, <2>1, MountBecomes
<1>10. CASE Df(d) \/ Format(d)
  <2>1. D.th = "run" /\ UNCHANGED rpc
    BY <1>10 DEF Df, Format, At, Running
  <2> QED
    BY <1>0, <1>10, <1>k, <2>1, WorkedBecomes
<1>11. CASE FormatError(d)
  <2>1. D.th = "run" /\ UNCHANGED rpc
    BY <1>11 DEF FormatError, At, Running
  <2> QED
    BY <1>0, <1>11, <1>f, <2>1, FormatErrorFalls
<1>12. CASE CleanupOnError(d)
  BY <1>0, <1>12, <1>k, CleanupBecomes DEF CleanupOnError
<1>13. CASE Own(d)
  <2>1. D.th = "run" /\ UNCHANGED rpc
    BY <1>13 DEF Own, At, Running
  <2> QED
    BY <1>0, <1>13, <1>k, <2>1, OwnBecomes
<1>14. CASE Fill(d)
  <2>0. D.th = "run" /\ D.op = "failed" /\ UNCHANGED rpc
    BY <1>0, <1>14 DEF Fill, At, Running, Shape
  <2>1. CASE /\ tlc.up /\ (\A o \in Drives : rpc[o].st # "orphan") /\ tlc.cache[d].full
             /\ Becomes(d, "run", "loaded", tlc.cache[d].vol, D.sub, "acquire")
    <3>1. /\ \A o \in Drives \ {d} : dev'[o] = dev[o]
          /\ dev'[d].op = "loaded" /\ dev'[d].med = tlc.cache[d].vol /\ dev'[d].sub = D.sub
      BY <2>1 DEF Becomes
    <3>2. \A t \in Tapes : Works(d, t)' => Works(d, t)
      BY <3>1 DEF Works
    <3>3. ASSUME NEW t \in Tapes, NEW o \in Drives \ {d}, dev'[d].med = t, Works(o, t)
          PROVE  <<t, "named">> \in torn'
      <4>1. dev[o].sub = t
        BY <3>3 DEF Works
      <4> QED
        BY <1>14, <3>3, <4>1 DEF Fill
    <3> QED
      BY <1>p, <2>0, <2>1, <3>1, <3>2, <3>3 DEF Turns
  <2>2. CASE tlc.up /\ ~tlc.cache[d].full /\ Becomes(d, "run", "empty", D.med, D.sub, "idle")
    <3>1. /\ \A o \in Drives \ {d} : dev'[o] = dev[o]
          /\ dev'[d].op = "empty" /\ dev'[d].med = D.med /\ dev'[d].sub = D.sub
      BY <2>2 DEF Becomes
    <3>2. \A t \in Tapes : Works(d, t)' => Works(d, t)
      BY <3>1 DEF Works
    <3> QED
      BY <1>p, <2>0, <2>2, <3>1, <3>2 DEF Turns
  <2>3. CASE \E th \in {"run", "dying"} : Becomes(d, th, D.op, D.med, D.sub, "idle")
    BY <1>k, <2>0, <2>3
  <2>4. CASE Becomes(d, "dying", "empty", D.med, D.sub, "idle")
    BY <1>k, <2>0, <2>4
  <2> QED
    BY <1>0, <1>14, <2>1, <2>2, <2>3, <2>4, FillBecomes
<1>15. CASE Acquire(d) \/ TakeLock(d)
  <2>0. D.th = "run" /\ D.op = "loaded" /\ UNCHANGED rpc
    BY <1>0, <1>15 DEF Acquire, TakeLock, At, Running, Shape
  <2> QED
    BY <1>0, <1>15, <1>k, <2>0, AcquireBecomes
<1>16. CASE StopDevice(d)
  <2>0. D.th = "run" /\ UNCHANGED rpc
    BY <1>16 DEF StopDevice, Running
  <2>1. D.pc = "stop" => D.op = "mounted"
    BY <1>0 DEF Shape
  <2> QED
    BY <1>0, <1>16, <1>k, <2>0, <2>1, StopBecomes
<1>17. CASE AdminUnlock(d)
  <2>1. CASE UNCHANGED dev
    <3>1. UNCHANGED rpc /\ \A t \in Tapes : Works(d, t)' => Works(d, t)
      BY <1>17, <2>1 DEF AdminUnlock, Works
    <3> QED
      BY <1>p, <2>1, <3>1 DEF Turns
  <2>2. CASE Becomes(d, "run", "failed", None, None, "own")
    BY <1>17, <1>k, <2>2 DEF AdminUnlock
  <2> QED
    BY <1>0, <1>17, <2>1, <2>2, AdminBecomes
<1> QED
  BY <1>1, <1>2, <1>3, <1>4, <1>5, <1>6, <1>7, <1>8, <1>9, <1>10, <1>11, <1>12, <1>13, <1>14,
     <1>15, <1>16, <1>17 DEF DeviceStep

LEMMA GoodTapes == Good \subseteq Tapes /\ (torn \subseteq torn' => Good' \subseteq Good)
BY DEF Good, Sane

LEMMA TurnsCall ==
  ASSUME LibInv, ShapeInv, LockInv, CallInv, NEW d \in Drives, Turns(d)
  PROVE  CallInv'
<1>0. Good' \subseteq Good /\ Good \subseteq Tapes /\ None \notin Tapes
  BY GoodTapes, NoneAssumption DEF Turns
<1>1. \A o \in Drives : rpc'[o].st \in {"sent", "orphan", "ok"} => rpc'[o] = rpc[o]
  BY DEF Turns
<1>2. tlc'.queue = tlc.queue /\ \A o \in Drives \ {d} : dev'[o] = dev[o]
  BY DEF Turns
<1>3. \A o \in Drives, t \in Tapes :
        (Sends(o, t)' => Sends(o, t)) /\ (Late(o, t)' => Late(o, t)) /\ (Brings(o, t)' => Brings(o, t))
  BY <1>1 DEF Sends, Late, Brings, Loads
<1>4. Waits'
  BY <1>1, <1>2 DEF CallInv, Waits, Asked
<1>5. Ahead'
  <2> SUFFICES ASSUME NEW i \in 1..Len(tlc'.queue), NEW j \in 1..Len(tlc'.queue), NEW t \in Good',
                      Sends(tlc.queue[i], t)', Late(tlc.queue[j], t)'
               PROVE  j < i
    BY DEF Ahead
  <2>0. tlc.queue \in Seq(Drives)
    BY DEF LibInv, TypeOK
  <2>1. PICK a \in Drives, b \in Drives : a = tlc.queue[i] /\ b = tlc.queue[j]
    BY <1>2, <2>0
  <2>2. Sends(a, t)' /\ Late(b, t)'
    BY <1>2, <2>1 DEF Sends, Late, Loads
  <2>3. Sends(a, t) /\ Late(b, t) /\ t \in Good
    BY <1>0, <1>3, <2>2
  <2> QED
    BY <1>2, <2>1, <2>3 DEF CallInv, Ahead
<1>6. NoLateLoad'
  BY <1>0, <1>3 DEF CallInv, NoLateLoad
<1>7. NamedAlone'
  <2> SUFFICES ASSUME NEW a \in Drives, NEW o \in Drives, NEW t \in Good', a # o, dev'[a].med = t
               PROVE  ~Works(o, t)' /\ ~Late(o, t)'
    BY DEF NamedAlone
  <2>0. t \in Good /\ t \in Tapes /\ t # None /\ <<t, "named">> \notin torn'
    BY <1>0 DEF Good, Sane
  <2>1. CASE a # d
    <3>1. dev[a].med = t
      BY <1>2, <2>1
    <3>2. ~Works(o, t) /\ ~Late(o, t)
      BY <2>0, <3>1 DEF CallInv, NamedAlone
    <3>3. ~Works(o, t)'
      <4>1. CASE o = d
        BY <2>0, <2>1, <3>1, <3>2, <4>1 DEF Turns
      <4>2. CASE o # d
        BY <1>2, <3>2, <4>2 DEF Works
      <4> QED
        BY <4>1, <4>2
    <3> QED
      BY <1>3, <2>0, <3>2, <3>3
  <2>2. CASE a = d
    <3>1. o # d /\ (Works(o, t)' <=> Works(o, t))
      BY <1>2, <2>2 DEF Works
    <3>2. CASE dev'[d].med \in {dev[d].med, None}
      <4>1. dev[d].med = t
        BY <2>0, <2>2, <3>2
      <4>2. ~Works(o, t) /\ ~Late(o, t)
        BY <2>0, <2>2, <4>1 DEF CallInv, NamedAlone
      <4> QED
        BY <1>3, <2>0, <3>1, <4>2
    <3>3. CASE /\ \A p \in Drives : rpc[p].st # "orphan"
               /\ \A u \in Tapes, p \in Drives \ {d} : dev'[d].med = u /\ Works(p, u) => <<u, "named">> \in torn'
      <4>1. ~Works(o, t) /\ ~Late(o, t)
        BY <2>0, <2>2, <3>1, <3>3 DEF Late
      <4> QED
        BY <1>3, <2>0, <3>1, <4>1
    <3>4. CASE Brings(d, dev[d].sub) /\ dev'[d].med = dev[d].sub
      <4>1. Brings(d, t) /\ Works(d, t)
        BY <2>2, <3>4 DEF Works
      <4>2. ~Works(o, t) /\ ~Late(o, t)
        BY <2>0, <3>1, <4>1, OneWorks DEF CallInv, NoLateLoad
      <4> QED
        BY <1>3, <2>0, <3>1, <4>2
    <3> QED
      BY <3>2, <3>3, <3>4 DEF Turns
  <2> QED
    BY <2>1, <2>2
<1> QED
  BY <1>4, <1>5, <1>6, <1>7 DEF CallInv

LEMMA TurnsPlace ==
  ASSUME LibInv, PlaceInv, NEW d \in Drives, Turns(d), Counted
  PROVE  PlaceInv'
<1>0. /\ Good' \subseteq Good /\ Good \subseteq Tapes /\ None \notin Tapes /\ Drives \subseteq Elements
      /\ UNCHANGED <<at, stale>> /\ \A o \in Drives \ {d} : dev'[o] = dev[o] /\ rpc'[o] = rpc[o]
  BY GoodTapes, NoneAssumption DEF Turns, Elements
<1>1. \A o \in Drives : rpc'[o].st = "ok" => rpc'[o] = rpc[o]
  BY DEF Turns
<1>2. UsedOK' /\ (used'.fault = 0 => used.fault = 0)
  BY CountedUsed DEF PlaceInv
<1>3. Trusted'
  BY <1>0, <1>2 DEF PlaceInv, Trusted
<1>4. \A o \in Drives : (TookOut(o)' => TookOut(o)) /\ InDrive(o)' = InDrive(o)
                        /\ \A t \in Tapes : Brings(o, t)' => Brings(o, t)
  BY <1>0, <1>1 DEF TookOut, InDrive, Brings, Loads
<1>5. GoneOut'
  BY <1>4 DEF PlaceInv, GoneOut
<1>6. used'.fault = 0 => used.fault = 0 /\ \A t \in Tapes : Holding(tlc.cache, t) = {at[t]}
  BY <1>2 DEF PlaceInv, Trusted, LibInv, TlcInv, CacheHonest
<1>7. EmptyDrive'
  <2> SUFFICES ASSUME used'.fault = 0, NEW o \in Drives, Running(o)', dev'[o].op = "empty"
               PROVE  InDrive(o)' = {} \/ (rpc'[o].st = "ok" /\ rpc'[o].op = "load")
    BY DEF EmptyDrive
  <2>1. CASE o # d
    <3>1. dev'[o] = dev[o] /\ rpc'[o] = rpc[o] /\ Running(o)
      BY <1>0, <2>1 DEF Running
    <3> QED
      BY <1>4, <1>6, <3>1 DEF PlaceInv, EmptyDrive
  <2>2. CASE o = d
    <3>1. dev'[d].th = "run" /\ dev'[d].op = "empty"
      BY <2>2 DEF Running
    <3>2. CASE /\ dev[d].th = "run" /\ dev[d].op = "empty"
               /\ rpc'[d] = rpc[d] \/ ~(rpc[d].st = "ok" /\ rpc[d].op = "load")
      BY <1>4, <1>6, <2>2, <3>2 DEF PlaceInv, EmptyDrive, Running
    <3>3. CASE TookOut(d)
      BY <1>4, <2>2, <3>3 DEF PlaceInv, GoneOut
    <3>4. CASE ~tlc.cache[d].full
      <4>1. ASSUME NEW t \in Tapes, at[t] = d PROVE FALSE
        <5>1. d \in Holding(tlc.cache, t)
          BY <1>6, <4>1
        <5> QED
          BY <3>4, <5>1 DEF Holding
      <4> QED
        BY <1>4, <2>2, <4>1 DEF InDrive
    <3> QED
      BY <3>1, <3>2, <3>3, <3>4 DEF Turns
  <2> QED
    BY <2>1, <2>2
<1>8. LoadedThere'
  <2> SUFFICES ASSUME used'.fault = 0, NEW o \in Drives, NEW t \in Good'
               PROVE  /\ Brings(o, t)' => at'[t] = o
                      /\ Running(o)' /\ dev'[o].op \in {"loaded", "mounted"} /\ dev'[o].med = t /\ ~TookOut(o)'
                         => at'[t] = o
    BY DEF LoadedThere
  <2>0. t \in Good /\ t \in Tapes /\ t # None /\ used.fault = 0
    BY <1>0, <1>6
  <2>1. Brings(o, t)' => at'[t] = o
    BY <1>0, <1>4, <2>0 DEF PlaceInv, LoadedThere
  <2>2. ASSUME Running(o)', dev'[o].op \in {"loaded", "mounted"}, dev'[o].med = t, ~TookOut(o)'
        PROVE  at[t] = o
    <3>1. CASE o # d
      <4>1. dev'[o] = dev[o] /\ rpc'[o] = rpc[o]
        BY <1>0, <3>1
      <4>2. Running(o) /\ ~TookOut(o)
        BY <2>2, <4>1 DEF Running, TookOut
      <4> QED
        BY <2>0, <2>2, <4>1, <4>2 DEF PlaceInv, LoadedThere
    <3>2. CASE o = d
      <4>1. dev'[d].th = "run" /\ dev'[d].op \in {"loaded", "mounted"} /\ dev'[d].med = t
        BY <2>2, <3>2 DEF Running
      <4>2. CASE /\ dev'[d].med \in {dev[d].med, None}
                 /\ dev[d].th = "run" /\ dev[d].op \in {"loaded", "mounted"}
                 /\ rpc'[d] = rpc[d] \/ ~TookOut(d)
        <5>1. Running(d) /\ dev[d].med = t /\ ~TookOut(d)
          BY <2>0, <2>2, <3>2, <4>1, <4>2 DEF Running, TookOut
        <5> QED
          BY <2>0, <3>2, <4>2, <5>1 DEF PlaceInv, LoadedThere
      <4>3. CASE tlc.cache[d].full /\ dev'[d].med = tlc.cache[d].vol
        <5>1. d \in Holding(tlc.cache, t)
          BY <1>0, <4>1, <4>3 DEF Holding
        <5> QED
          BY <1>6, <2>0, <3>2, <5>1
      <4>4. CASE Brings(d, dev[d].sub) /\ dev'[d].med = dev[d].sub
        BY <2>0, <3>2, <4>1, <4>4 DEF PlaceInv, LoadedThere
      <4> QED
        BY <4>1, <4>2, <4>3, <4>4 DEF Turns
    <3> QED
      BY <3>1, <3>2
  <2> QED
    BY <1>0, <2>1, <2>2
<1> QED
  BY <1>2, <1>3, <1>5, <1>7, <1>8 DEF PlaceInv

-----------------------------------------------------------------------------
(* The other steps.                                                        *)

\* An LRS starts or is killed: its devices are new ones.
LEMMA HostStepDevices ==
  ASSUME LibInv, NEW h \in Hosts, HostStep(h)
  PROVE  /\ UNCHANGED <<at, tlc, stale>> /\ torn \subseteq torn'
         /\ \A d \in Drives :
              dev'[d] = dev[d] \/ (dev'[d].op = "failed" /\ dev'[d].med = None /\ dev'[d].sub = None)
         /\ Crash(h) \/ UNCHANGED rpc
<1>0. TypeOK
  BY DEF LibInv
<1> USE DEF tlcVars, libVars
<1>1. CASE StartHost(h)
  BY <1>0, <1>1, StartBecomes, Zenon DEF StartHost
<1>2. CASE CleanLocks(h) \/ StopHost(h) \/ HostEnds(h)
  BY <1>2 DEF CleanLocks, StopHost, HostEnds
<1>3. CASE Crash(h)
  <2>1. UNCHANGED <<at, tlc, stale, torn>>
    BY <1>3 DEF Crash
  <2> QED
    BY <1>0, <1>3, <2>1, CrashBecomes
<1> QED
  BY <1>1, <1>2, <1>3 DEF HostStep

LEMMA HostStepCalls ==
  ASSUME LibInv, NEW h \in Hosts, HostStep(h), NEW d \in Drives
  PROVE  /\ rpc'[d].st \in Asked => rpc[d].st \in Asked
         /\ TookOut(d)' => TookOut(d)
         /\ \A t \in Tapes : /\ Sends(d, t)' => Sends(d, t)
                             /\ Brings(d, t)' => Brings(d, t)
                             /\ Late(d, t)' => Late(d, t) \/ (Sends(d, t) /\ ~Sends(d, t)')
         /\ dev'[d].op # "failed" => dev'[d] = dev[d] /\ rpc'[d] = rpc[d]
<1> USE DEF Sends, Brings, TookOut, Late, Loads
<1>1. CASE UNCHANGED rpc
  BY <1>1, HostStepDevices
<1>2. CASE Crash(h)
  <2>0. TypeOK
    BY DEF LibInv
  <2>1. CASE HostOf[d] # h
    <3>1. dev'[d] = dev[d] /\ rpc'[d] = rpc[d]
      BY <1>2, <2>0, <2>1, CrashBecomes
    <3> QED
      BY <3>1
  <2>2. CASE HostOf[d] = h
    <3>1. /\ dev'[d].op = "failed"
          /\ rpc[d].st \in Asked => rpc'[d].st = "orphan" /\ rpc'[d].op = rpc[d].op /\ rpc'[d].tape = rpc[d].tape
          /\ rpc[d].st \notin Asked => rpc'[d].st = "none"
      BY <1>2, <2>0, <2>2, CrashBecomes
    <3> QED
      BY <3>1 DEF Asked
  <2> QED
    BY <2>1, <2>2
<1> QED
  BY <1>1, <1>2, HostStepDevices

LEMMA HostStepCall ==
  ASSUME LibInv, ShapeInv, LockInv, CallInv, NEW h \in Hosts, HostStep(h)
  PROVE  CallInv'
<1>0. /\ Good' \subseteq Good /\ Good \subseteq Tapes /\ None \notin Tapes /\ tlc'.queue = tlc.queue
      /\ tlc.queue \in Seq(Drives)
  BY GoodTapes, NoneAssumption, HostStepDevices DEF LibInv, TypeOK
<1>1. Waits'
  BY <1>0, HostStepCalls DEF CallInv, Waits
<1>2. Ahead'
  <2> SUFFICES ASSUME NEW i \in 1..Len(tlc'.queue), NEW j \in 1..Len(tlc'.queue), NEW t \in Good',
                      Sends(tlc.queue[i], t)', Late(tlc.queue[j], t)'
               PROVE  j < i
    BY DEF Ahead
  <2>1. PICK a \in Drives, b \in Drives : a = tlc.queue[i] /\ b = tlc.queue[j]
    BY <1>0
  <2>2. Sends(a, t)' /\ Late(b, t)'
    BY <1>0, <2>1 DEF Sends, Late, Loads
  <2>3. t \in Good /\ Sends(a, t) /\ (Late(b, t) \/ (Sends(b, t) /\ ~Sends(b, t)'))
    BY <1>0, <2>2, HostStepCalls
  <2>4. ~(Sends(b, t) /\ ~Sends(b, t)')
    <3>1. Works(a, t)
      BY <2>3, CallWorks
    <3>2. Sends(b, t) => Works(b, t)
      BY CallWorks
    <3> QED
      BY <2>2, <2>3, <3>1, <3>2, OneWorks
  <2> QED
    BY <1>0, <2>1, <2>3, <2>4 DEF CallInv, Ahead
<1>3. NoLateLoad'
  <2> SUFFICES ASSUME NEW d \in Drives, NEW o \in Drives, NEW t \in Good', Brings(d, t)', Late(o, t)'
               PROVE  FALSE
    BY DEF NoLateLoad
  <2>1. t \in Good /\ Brings(d, t) /\ (Late(o, t) \/ Sends(o, t))
    BY <1>0, HostStepCalls
  <2>2. ~Sends(o, t)
    <3>1. Works(d, t)
      BY <2>1, CallWorks
    <3>2. Sends(o, t) => Works(o, t)
      BY CallWorks
    <3>3. Sends(o, t) => o = d
      BY <2>1, <3>1, <3>2, OneWorks
    <3> QED
      BY <2>1, <3>3 DEF Brings, Sends
  <2> QED
    BY <2>1, <2>2 DEF CallInv, NoLateLoad
<1>4. NamedAlone'
  <2> SUFFICES ASSUME NEW d \in Drives, NEW o \in Drives, NEW t \in Good', d # o, dev'[d].med = t
               PROVE  ~Works(o, t)' /\ ~Late(o, t)'
    BY DEF NamedAlone
  <2>1. t \in Good /\ t # None /\ dev[d].med = t /\ (Works(o, t)' => Works(o, t))
    BY <1>0, HostStepDevices DEF Works
  <2>2. ~Works(o, t) /\ ~Late(o, t)
    BY <2>1 DEF CallInv, NamedAlone
  <2>3. ~Sends(o, t)
    BY <2>2, CallWorks
  <2>4. ~Late(o, t)'
    BY <1>0, <2>1, <2>2, <2>3, HostStepCalls
  <2> QED
    BY <2>1, <2>2, <2>4
<1> QED
  BY <1>1, <1>2, <1>3, <1>4 DEF CallInv

\* A step after which each device is as it was, with the same call, or has
\* failed, changes nothing of what the others know.
LEMMA PlaceKept ==
  ASSUME PlaceInv, Counted, UNCHANGED at, Trusted', torn \subseteq torn',
         \A d \in Drives :
           /\ TookOut(d)' => TookOut(d)
           /\ \A t \in Tapes : Brings(d, t)' => Brings(d, t)
           /\ \/ dev'[d].op = "failed"
              \/ /\ dev'[d] = dev[d]
                 /\ rpc[d].st = "ok" => rpc'[d].st = "ok" /\ rpc'[d].op = rpc[d].op
  PROVE  PlaceInv'
<1>0. Good' \subseteq Good /\ Good \subseteq Tapes
  BY GoodTapes
<1>1. UsedOK' /\ (used'.fault = 0 => used.fault = 0)
  BY CountedUsed DEF PlaceInv
<1>3. \A d \in Drives : InDrive(d)' = InDrive(d)
  BY DEF InDrive
<1>4. GoneOut'
  BY <1>3 DEF PlaceInv, GoneOut
<1>5. EmptyDrive'
  <2> SUFFICES ASSUME used'.fault = 0, NEW d \in Drives, Running(d)', dev'[d].op = "empty"
               PROVE  InDrive(d)' = {} \/ (rpc'[d].st = "ok" /\ rpc'[d].op = "load")
    BY DEF EmptyDrive
  <2>1. Running(d) /\ dev[d].op = "empty"
    BY DEF Running
  <2>2. InDrive(d) = {} \/ (rpc[d].st = "ok" /\ rpc[d].op = "load")
    BY <1>1, <2>1 DEF PlaceInv, EmptyDrive
  <2> QED
    BY <1>3, <2>2
<1>6. LoadedThere'
  <2> SUFFICES ASSUME used'.fault = 0, NEW d \in Drives, NEW t \in Good'
               PROVE  /\ Brings(d, t)' => at'[t] = d
                      /\ Running(d)' /\ dev'[d].op \in {"loaded", "mounted"} /\ dev'[d].med = t /\ ~TookOut(d)'
                         => at'[t] = d
    BY DEF LoadedThere
  <2>0. t \in Good /\ t \in Tapes /\ used.fault = 0
    BY <1>0, <1>1
  <2>1. Brings(d, t)' => at'[t] = d
    BY <2>0 DEF PlaceInv, LoadedThere
  <2>2. ASSUME Running(d)', dev'[d].op \in {"loaded", "mounted"}, dev'[d].med = t, ~TookOut(d)'
        PROVE  at[t] = d
    <3>1. Running(d) /\ dev'[d] = dev[d] /\ ~TookOut(d)
      BY <2>2 DEF Running, TookOut
    <3> QED
      BY <2>0, <2>2, <3>1 DEF PlaceInv, LoadedThere
  <2> QED
    BY <2>1, <2>2
<1> QED
  BY <1>1, <1>4, <1>5, <1>6 DEF PlaceInv

LEMMA HostStepPlace ==
  ASSUME LibInv, PlaceInv, NEW h \in Hosts, HostStep(h)
  PROVE  PlaceInv'
<1>1. Counted /\ UNCHANGED <<at, stale>> /\ torn \subseteq torn'
  BY HostStepCounts, HostStepDevices
<1>2. ASSUME NEW d \in Drives
      PROVE  /\ TookOut(d)' => TookOut(d)
             /\ \A t \in Tapes : Brings(d, t)' => Brings(d, t)
             /\ \/ dev'[d].op = "failed"
                \/ /\ dev'[d] = dev[d]
                   /\ rpc[d].st = "ok" => rpc'[d].st = "ok" /\ rpc'[d].op = rpc[d].op
  BY <1>2, HostStepCalls
<1>3. Trusted'
  BY <1>1, CountedUsed DEF PlaceInv, Trusted
<1> QED
  BY <1>1, <1>2, <1>3, PlaceKept

LEMMA LibSendCall ==
  ASSUME LibInv, CallInv, NEW d \in Drives, LibSend(d)
  PROVE  CallInv'
<1>0. RpcTypes /\ tlc \in TlcRecord /\ tlc.queue \in Seq(Drives)
  BY TypeParts DEF LibInv, TlcTypes, TypeOK
<1>1. /\ rpc[d].st = "open" /\ rpc'[d].st = "sent" /\ \A o \in Drives \ {d} : rpc'[o] = rpc[o]
      /\ tlc'.queue = Append(tlc.queue, d) /\ UNCHANGED <<dev, torn>>
  BY <1>0 DEF LibSend, RpcTypes, RpcRecord, TlcRecord, hostVars
<1>2. Good' = Good /\ Good \subseteq Tapes
  BY <1>1 DEF Good, Sane
<1>3. \A i \in 1..Len(tlc.queue) : tlc'.queue[i] = tlc.queue[i] /\ tlc.queue[i] \in Drives \ {d}
  BY <1>0, <1>1 DEF LibInv, TlcInv, Queued, Asked
<1>4. Len(tlc'.queue) = Len(tlc.queue) + 1 /\ tlc'.queue[Len(tlc.queue) + 1] = d /\ Len(tlc.queue) \in Nat
  BY <1>0, <1>1
<1>5. \A o \in Drives, t \in Tapes :
        /\ Late(o, t)' => Late(o, t) /\ o # d
        /\ Brings(o, t)' => Brings(o, t)
        /\ o # d /\ Sends(o, t)' => Sends(o, t)
        /\ Works(o, t)' <=> Works(o, t)
  BY <1>1 DEF Late, Brings, Sends, Loads, Works
<1>6. Waits'
  <2> SUFFICES ASSUME NEW o \in Drives, rpc'[o].st \in Asked
               PROVE  \E i \in 1..Len(tlc'.queue) : tlc'.queue[i] = o
    BY DEF Waits
  <2>1. CASE o = d
    BY <1>4, <2>1
  <2>2. CASE o # d
    <3>1. PICK i \in 1..Len(tlc.queue) : tlc.queue[i] = o
      BY <1>1, <2>2 DEF CallInv, Waits
    <3> QED
      BY <1>3, <1>4, <3>1
  <2> QED
    BY <2>1, <2>2
<1>7. Ahead'
  <2> SUFFICES ASSUME NEW i \in 1..Len(tlc'.queue), NEW j \in 1..Len(tlc'.queue), NEW t \in Good',
                      Sends(tlc.queue[i], t)', Late(tlc.queue[j], t)'
               PROVE  j < i
    BY DEF Ahead
  <2>0. tlc'.queue[i] \in Drives /\ tlc'.queue[j] \in Drives
    <3>1. tlc'.queue \in Seq(Drives)
      BY <1>0, <1>1
    <3> QED
      BY <3>1
  <2>1. PICK a \in Drives, b \in Drives : a = tlc'.queue[i] /\ b = tlc'.queue[j]
    BY <2>0
  <2>2. Sends(a, t)' /\ Late(b, t)'
    BY <2>1 DEF Sends, Late, Loads
  <2>3. Late(b, t) /\ b # d
    BY <1>2, <1>5, <2>2
  <2>4. j \in 1..Len(tlc.queue) /\ b = tlc.queue[j]
    BY <1>3, <1>4, <2>1, <2>3
  <2>5. CASE i = Len(tlc.queue) + 1
    BY <1>4, <2>4, <2>5
  <2>6. CASE i \in 1..Len(tlc.queue)
    <3>1. a # d /\ a = tlc.queue[i]
      BY <1>3, <2>1, <2>6
    <3>2. Sends(a, t)
      BY <1>2, <1>5, <2>2, <3>1
    <3> QED
      BY <1>2, <2>3, <2>4, <2>6, <3>1, <3>2 DEF CallInv, Ahead
  <2> QED
    BY <1>4, <2>5, <2>6
<1>8. NoLateLoad'
  BY <1>2, <1>5 DEF CallInv, NoLateLoad
<1>9. NamedAlone'
  BY <1>1, <1>2, <1>5 DEF CallInv, NamedAlone
<1> QED
  BY <1>6, <1>7, <1>8, <1>9 DEF CallInv

LEMMA LibSendPlace ==
  ASSUME LibInv, PlaceInv, NEW d \in Drives, LibSend(d)
  PROVE  PlaceInv'
<1>0. RpcTypes
  BY TypeParts DEF LibInv
<1>1. /\ rpc[d].st = "open" /\ rpc'[d].st = "sent" /\ \A o \in Drives \ {d} : rpc'[o] = rpc[o]
      /\ UNCHANGED <<dev, torn, at, stale, used>>
  BY <1>0 DEF LibSend, RpcTypes, RpcRecord, hostVars, libVars
<1>2. \A o \in Drives : /\ TookOut(o)' => TookOut(o)
                        /\ \A t \in Tapes : Brings(o, t)' => Brings(o, t)
                        /\ rpc[o].st = "ok" => rpc'[o].st = "ok" /\ rpc'[o].op = rpc[o].op
  BY <1>1 DEF TookOut, Brings, Loads
<1> QED
  BY <1>1, <1>2, PlaceKept DEF Counted, PlaceInv, Trusted

LEMMA LibraryStepCall ==
  ASSUME LibInv, CallInv, LibraryStep
  PROVE  CallInv'
<1>0. RpcTypes /\ tlc.queue \in Seq(Drives) /\ UNCHANGED <<dev, torn>>
  BY TypeParts, LibraryStepEffect DEF LibInv, TypeOK
<1>2. Good' = Good /\ Good \subseteq Tapes
  BY <1>0 DEF Good, Sane
<1>3. \A o \in Drives, t \in Tapes : Works(o, t)' <=> Works(o, t)
  BY <1>0 DEF Works
<1> USE DEF Asked
<1>4. ASSUME NEW d \in Drives, NEW st \in {"ok", "err"}, Replies(d, st) PROVE CallInv'
  <2>0. /\ First(d) /\ rpc[d].st \in Asked /\ rpc'[d].st \notin Asked
        /\ rpc'[d].st = "ok" => rpc[d].st = "sent" /\ rpc'[d].op = rpc[d].op /\ rpc'[d].tape = rpc[d].tape
        /\ \A o \in Drives \ {d} : rpc'[o] = rpc[o]
        /\ tlc'.queue = Tail(tlc.queue)
    BY <1>4 DEF Replies
  <2>1. tlc.queue # <<>> /\ tlc.queue[1] = d
    BY <1>0, <2>0 DEF First
  <2>2. Len(tlc.queue) \in Nat \ {0} /\ Len(tlc'.queue) = Len(tlc.queue) - 1
    BY <1>0, <2>0, <2>1
  <2>3. \A i \in 1..Len(tlc'.queue) :
          tlc'.queue[i] = tlc.queue[i + 1] /\ i + 1 \in 1..Len(tlc.queue) /\ tlc.queue[i + 1] \in Drives \ {d}
    <3> TAKE i \in 1..Len(tlc'.queue)
    <3>1. i + 1 \in 1..Len(tlc.queue) /\ tlc'.queue[i] = tlc.queue[i + 1] /\ tlc.queue[i + 1] \in Drives
      BY <1>0, <2>0, <2>1, <2>2
    <3>2. tlc.queue[i + 1] # d
      <4>1. 1 \in 1..Len(tlc.queue) /\ i + 1 # 1
        BY <2>2
      <4> QED
        BY <2>1, <3>1, <4>1 DEF LibInv, TlcInv, Queued
    <3> QED
      BY <3>1, <3>2
  <2>4. \A o \in Drives, t \in Tapes :
          /\ Late(o, t)' => Late(o, t)
          /\ Sends(o, t)' => Sends(o, t)
          /\ Brings(o, t)' => Brings(o, t) \/ (o = d /\ Sends(d, t))
    BY <2>0 DEF Late, Sends, Brings, Loads
  <2>5. Waits'
    <3> SUFFICES ASSUME NEW o \in Drives, rpc'[o].st \in Asked
                 PROVE  \E i \in 1..Len(tlc'.queue) : tlc'.queue[i] = o
      BY DEF Waits
    <3>1. o # d
      BY <2>0
    <3>2. PICK i \in 1..Len(tlc.queue) : tlc.queue[i] = o
      BY <2>0, <3>1 DEF CallInv, Waits
    <3>3. i - 1 \in 1..Len(tlc'.queue) /\ (i - 1) + 1 = i
      BY <2>1, <2>2, <3>1, <3>2
    <3> QED
      BY <2>3, <3>2, <3>3
  <2>6. Ahead'
    <3> SUFFICES ASSUME NEW i \in 1..Len(tlc'.queue), NEW j \in 1..Len(tlc'.queue), NEW t \in Good',
                        Sends(tlc.queue[i], t)', Late(tlc.queue[j], t)'
                 PROVE  j < i
      BY DEF Ahead
    <3>1. PICK a \in Drives, b \in Drives : a = tlc'.queue[i] /\ b = tlc'.queue[j]
      BY <2>3
    <3>2. Sends(a, t)' /\ Late(b, t)'
      BY <3>1 DEF Sends, Late, Loads
    <3>3. Sends(a, t) /\ Late(b, t)
      BY <1>2, <2>4, <3>2
    <3>4. /\ i + 1 \in 1..Len(tlc.queue) /\ j + 1 \in 1..Len(tlc.queue)
          /\ a = tlc.queue[i + 1] /\ b = tlc.queue[j + 1]
      BY <2>3, <3>1
    <3>5. j + 1 < i + 1
      BY <1>2, <3>3, <3>4 DEF CallInv, Ahead
    <3> QED
      BY <2>2, <3>5
  <2>7. NoLateLoad'
    <3> SUFFICES ASSUME NEW a \in Drives, NEW o \in Drives, NEW t \in Good', Brings(a, t)', Late(o, t)'
                 PROVE  FALSE
      BY DEF NoLateLoad
    <3>1. t \in Good /\ Late(o, t) /\ (Brings(a, t) \/ Sends(d, t))
      BY <1>2, <2>4
    <3>2. CASE Brings(a, t)
      BY <3>1, <3>2 DEF CallInv, NoLateLoad
    <3>3. CASE Sends(d, t)
      <4>1. PICK j \in 1..Len(tlc.queue) : tlc.queue[j] = o
        BY <3>1 DEF CallInv, Waits, Late
      <4>2. 1 \in 1..Len(tlc.queue)
        BY <2>2
      <4>3. j < 1
        BY <2>1, <3>1, <3>3, <4>1, <4>2 DEF CallInv, Ahead
      <4> QED
        BY <4>1, <4>3
    <3> QED
      BY <3>1, <3>2, <3>3
  <2>8. NamedAlone'
    BY <1>0, <1>2, <1>3, <2>4 DEF CallInv, NamedAlone
  <2> QED
    BY <2>5, <2>6, <2>7, <2>8 DEF CallInv
<1>5. ASSUME SameCalls PROVE CallInv'
  <2>1. /\ \A d \in Drives : rpc'[d].st = rpc[d].st /\ rpc'[d].op = rpc[d].op /\ rpc'[d].tape = rpc[d].tape
        /\ tlc'.queue = tlc.queue
    BY <1>5 DEF SameCalls
  <2>2. \A o \in Drives, t \in Tapes :
          (Late(o, t)' <=> Late(o, t)) /\ (Sends(o, t)' <=> Sends(o, t)) /\ (Brings(o, t)' <=> Brings(o, t))
    BY <2>1 DEF Late, Sends, Brings, Loads
  <2>3. Waits'
    BY <2>1 DEF CallInv, Waits
  <2>4. Ahead'
    <3> SUFFICES ASSUME NEW i \in 1..Len(tlc'.queue), NEW j \in 1..Len(tlc'.queue), NEW t \in Good',
                        Sends(tlc.queue[i], t)', Late(tlc.queue[j], t)'
                 PROVE  j < i
      BY DEF Ahead
    <3>1. PICK a \in Drives, b \in Drives : a = tlc.queue[i] /\ b = tlc.queue[j]
      BY <1>0, <2>1
    <3>2. Sends(a, t)' /\ Late(b, t)'
      BY <2>1, <3>1 DEF Sends, Late, Loads
    <3>3. Sends(a, t) /\ Late(b, t)
      BY <1>2, <2>2, <3>2
    <3> QED
      BY <1>2, <2>1, <3>1, <3>3 DEF CallInv, Ahead
  <2>5. NoLateLoad' /\ NamedAlone'
    BY <1>0, <1>2, <1>3, <2>2 DEF CallInv, NoLateLoad, NamedAlone
  <2> QED
    BY <2>3, <2>4, <2>5 DEF CallInv
<1>6. ASSUME CutCalls PROVE CallInv'
  <2>1. (\A d \in Drives : rpc'[d].st \notin Asked) /\ tlc'.queue = <<>>
    BY <1>6 DEF CutCalls
  <2>2. \A o \in Drives, t \in Tapes : ~Late(o, t)'
    BY <2>1 DEF Late
  <2>3. Waits' /\ Ahead'
    BY <2>1 DEF Waits, Ahead
  <2>4. NoLateLoad' /\ NamedAlone'
    BY <1>0, <1>2, <1>3, <2>2 DEF CallInv, NoLateLoad, NamedAlone
  <2> QED
    BY <2>3, <2>4 DEF CallInv
<1> QED
  BY <1>4, <1>5, <1>6, LibraryStepEffect

\* The tape that a load moves is the one it asks for, when the cache is true.
LEMMA LoadMoves ==
  ASSUME LibInv, ~stale, NEW d \in Drives, NEW e \in Elements, NEW t \in Tapes, at[t] = e,
         tlc.cache[e].full, tlc.cache[e].vol = rpc[d].tape
  PROVE  rpc[d].tape = t
<1>1. rpc[d].tape \in Tapes
  BY DEF LibInv, TlcInv, CacheVols
<1>2. e \in Holding(tlc.cache, rpc[d].tape)
  BY DEF Holding
<1>3. at[rpc[d].tape] = e
  BY <1>1, <1>2 DEF LibInv, TlcInv, CacheHonest
<1> QED
  BY <1>1, <1>3 DEF LibInv, TlcInv, Apart

LEMMA MoveDonePlace ==
  ASSUME LibInv, ShapeInv, LockInv, CallInv, PlaceInv, NEW d \in Drives, MoveDone(d)
  PROVE  PlaceInv'
<1>0. /\ UNCHANGED <<dev, torn, stale, used>> /\ None \notin Tapes
      /\ Good' = Good /\ Good \subseteq Tapes
  BY NoneAssumption DEF MoveDone, hostVars, Good, Sane
<1>1. PICK e \in Elements, f \in Elements, t \in Tapes : Transfer(d, e, f, t) /\ tlc.cache[e].full
  BY MoveDoneReplies
<1>2. /\ rpc[d].st \in Asked /\ \A o \in Drives \ {d} : rpc'[o] = rpc[o]
      /\ rpc[d].st = "sent" => rpc'[d].st = "ok" /\ rpc'[d].op = rpc[d].op /\ rpc'[d].tape = rpc[d].tape
      /\ rpc[d].st = "orphan" => rpc'[d].st = "none"
  BY MoveDoneReplies DEF Replies
<1>3. /\ e # f /\ at[t] = e /\ at'[t] = f /\ \A u \in Tapes \ {t} : at'[u] = at[u] /\ at[u] \notin {e, f}
      /\ e = MoveOf(d)[1] /\ f = MoveOf(d)[2] /\ Serving(d)
  BY <1>1 DEF Transfer
<1>4. \/ /\ rpc[d].op = "load" /\ f = d /\ tlc.cache[e].vol = rpc[d].tape /\ dev[d].med = None
      \/ /\ rpc[d].op = "unload" /\ e = d /\ f \notin Drives
  BY <1>3, MoveKinds
<1>5. UsedOK' /\ Trusted'
  BY <1>0 DEF PlaceInv, UsedOK, Trusted
<1>6. \A o \in Drives \ {d} : InDrive(o) = {} => InDrive(o)' = {}
  BY <1>3, <1>4 DEF InDrive
<1>7. rpc[d].op = "unload" => InDrive(d)' = {}
  BY <1>3, <1>4 DEF InDrive
<1>8. GoneOut'
  <2> SUFFICES ASSUME NEW o \in Drives, TookOut(o)' PROVE InDrive(o)' = {}
    BY DEF GoneOut
  <2>1. CASE o = d
    <3>1. rpc[d].op = "unload"
      BY <1>2, <2>1 DEF TookOut, Asked
    <3> QED
      BY <1>7, <2>1, <3>1
  <2>2. CASE o # d
    <3>1. TookOut(o)
      BY <1>2, <2>2 DEF TookOut
    <3> QED
      BY <1>6, <2>2, <3>1 DEF PlaceInv, GoneOut
  <2> QED
    BY <2>1, <2>2
<1>9. EmptyDrive'
  <2> SUFFICES ASSUME used'.fault = 0, NEW o \in Drives, Running(o)', dev'[o].op = "empty"
               PROVE  InDrive(o)' = {} \/ (rpc'[o].st = "ok" /\ rpc'[o].op = "load")
    BY DEF EmptyDrive
  <2>0. Running(o) /\ dev[o].op = "empty" /\ used.fault = 0
    BY <1>0 DEF Running
  <2>1. CASE o # d
    <3>1. InDrive(o) = {} \/ (rpc[o].st = "ok" /\ rpc[o].op = "load")
      BY <2>0 DEF PlaceInv, EmptyDrive
    <3> QED
      BY <1>2, <1>6, <2>1, <3>1
  <2>2. CASE o = d
    <3>1. CASE rpc[d].op = "unload"
      BY <1>7, <2>2, <3>1
    <3>2. CASE rpc[d].op = "load"
      <4>1. rpc[d].st # "orphan"
        <5>1. ~(dev[d].pc \in {"own", "fill"})
          BY <2>0, <2>2 DEF ShapeInv, DevShape, Shape
        <5> QED
          BY <2>0, <2>2, <5>1 DEF ShapeInv, CallShape, Running
      <4> QED
        BY <1>2, <2>2, <3>2, <4>1 DEF Asked
    <3> QED
      BY <1>4, <3>1, <3>2
  <2> QED
    BY <2>1, <2>2
<1>10. LoadedThere'
  <2> SUFFICES ASSUME used'.fault = 0, NEW o \in Drives, NEW u \in Good'
               PROVE  /\ Brings(o, u)' => at'[u] = o
                      /\ Running(o)' /\ dev'[o].op \in {"loaded", "mounted"} /\ dev'[o].med = u /\ ~TookOut(o)'
                         => at'[u] = o
    BY DEF LoadedThere
  <2>0. u \in Good /\ u \in Tapes /\ u # None /\ used.fault = 0 /\ ~stale
    BY <1>0 DEF PlaceInv, Trusted
  <2>1. rpc[d].op = "load" => f = d /\ rpc[d].tape = t
    BY <1>1, <1>3, <1>4, <2>0, LoadMoves
  <2>2. ASSUME o # d, at[u] = o, ~Works(d, u), ~Late(d, u) PROVE at'[u] = o
    <3>1. CASE rpc[d].op = "load"
      <4>1. u # t
        <5>1. ~Sends(d, u)
          BY <2>2, CallWorks
        <5> QED
          BY <1>2, <2>1, <2>2, <3>1, <5>1 DEF Sends, Late, Loads, Asked
      <4> QED
        BY <1>3, <2>0, <2>2, <4>1
    <3>2. CASE rpc[d].op = "unload"
      BY <1>3, <1>4, <2>0, <2>2, <3>2
    <3> QED
      BY <1>4, <3>1, <3>2
  <2>3. ASSUME Brings(o, u)' PROVE at'[u] = o
    <3>1. CASE o = d
      <4>1. rpc[d].op = "load" /\ rpc[d].tape = u
        BY <1>2, <2>3, <3>1 DEF Brings, Loads, Asked
      <4> QED
        BY <1>3, <2>1, <3>1, <4>1
    <3>2. CASE o # d
      <4>1. Brings(o, u)
        BY <1>2, <2>3, <3>2 DEF Brings, Loads
      <4>2. at[u] = o /\ ~Late(d, u)
        BY <2>0, <4>1 DEF PlaceInv, LoadedThere, CallInv, NoLateLoad
      <4>3. Works(o, u)
        BY <4>1, CallWorks
      <4>4. ~Works(d, u)
        BY <2>0, <3>2, <4>3, OneWorks
      <4> QED
        BY <2>2, <3>2, <4>2, <4>4
    <3> QED
      BY <3>1, <3>2
  <2>4. ASSUME Running(o)', dev'[o].op \in {"loaded", "mounted"}, dev'[o].med = u, ~TookOut(o)'
        PROVE  at'[u] = o
    <3>0. Running(o) /\ dev[o].op \in {"loaded", "mounted"} /\ dev[o].med = u
      BY <1>0, <2>4 DEF Running
    <3>1. o # d
      <4>1. rpc[d].st # "orphan" \/ dev[d].med = None
        BY DEF ShapeInv, CallShape
      <4> QED
        BY <1>2, <1>4, <2>0, <2>4, <3>0, <4>1 DEF TookOut, Asked
    <3>2. ~TookOut(o)
      BY <1>2, <2>4, <3>1 DEF TookOut
    <3>3. at[u] = o
      BY <2>0, <3>0, <3>2 DEF PlaceInv, LoadedThere
    <3>4. ~Works(d, u) /\ ~Late(d, u)
      BY <2>0, <3>0, <3>1 DEF CallInv, NamedAlone
    <3> QED
      BY <2>2, <3>1, <3>3, <3>4
  <2> QED
    BY <2>3, <2>4
<1> QED
  BY <1>5, <1>8, <1>9, <1>10 DEF PlaceInv

LEMMA LibraryStepPlace ==
  ASSUME LibInv, ShapeInv, LockInv, CallInv, PlaceInv, LibraryStep
  PROVE  PlaceInv'
<1>0. UNCHANGED <<dev, torn>>
  BY LibraryStepEffect
<1>1. Counted /\ (UNCHANGED stale \/ stale' = FALSE \/ (stale' = TRUE /\ Fault))
  BY LibraryStepCounts
<1>2. UsedOK' /\ (used'.fault = 0 => used.fault = 0)
  BY <1>1, CountedUsed DEF PlaceInv
<1>3. Trusted'
  BY <1>1, <1>2, FaultUsed DEF PlaceInv, Trusted
<1>4. \A d \in Drives : rpc[d].st = "ok" => rpc'[d].st = "ok" /\ rpc'[d].op = rpc[d].op
  BY LibraryStepEffect DEF Replies, SameCalls, CutCalls, Asked
<1>5. ASSUME UNCHANGED at, OkKept PROVE PlaceInv'
  <2>1. \A d \in Drives : (TookOut(d)' => TookOut(d)) /\ \A t \in Tapes : Brings(d, t)' => Brings(d, t)
    BY <1>5 DEF OkKept, TookOut, Brings, Loads
  <2> QED
    BY <1>0, <1>1, <1>3, <1>4, <1>5, <2>1, PlaceKept
<1>6. ASSUME NEW d \in Drives, MoveFailedDone(d), OkKept PROVE PlaceInv'
  <2>1. used'.fault # 0
    BY <1>6, FaultUsed DEF MoveFailedDone, PlaceInv
  <2>2. PICK e \in Elements, f \in Elements, t \in Tapes : Transfer(d, e, f, t)
    BY <1>6, MoveFailedDoneMoves
  <2>3. /\ at'[t] = f /\ \A u \in Tapes \ {t} : at'[u] = at[u]
        /\ f = MoveOf(d)[2] /\ Serving(d)
    BY <2>2 DEF Transfer
  <2>4. rpc[d].st \in Asked /\ (f = d \/ f \notin Drives)
    BY <2>3, MoveKinds
  <2>5. GoneOut'
    <3> SUFFICES ASSUME NEW o \in Drives, TookOut(o)' PROVE InDrive(o)' = {}
      BY DEF GoneOut
    <3>1. TookOut(o) /\ o # d
      BY <1>6, <2>4 DEF OkKept, TookOut, Asked
    <3>2. InDrive(o) = {}
      BY <3>1 DEF PlaceInv, GoneOut
    <3> QED
      BY <2>3, <2>4, <3>1, <3>2 DEF InDrive
  <2> QED
    BY <1>2, <1>3, <2>1, <2>5 DEF PlaceInv, EmptyDrive, LoadedThere
<1>7. SameCalls => OkKept
  BY DEF SameCalls, OkKept
<1> QED
  BY <1>5, <1>6, <1>7, LibraryCases, MoveDonePlace

LEMMA PlaceInit == Init => CallInv /\ PlaceInv
<1> SUFFICES ASSUME Init PROVE CallInv /\ PlaceInv
  OBVIOUS
<1>1. /\ \A d \in Drives : rpc[d].st = "none" /\ dev[d].med = None /\ dev[d].th = "off"
      /\ tlc.queue = <<>> /\ None \notin Tapes /\ ~stale
  BY NoneAssumption DEF Init, Idle, Off
<1>2. CallInv
  BY <1>1 DEF CallInv, Waits, Ahead, NoLateLoad, NamedAlone, Brings, Late, Good, Sane, Asked
<1>3. UsedOK /\ Trusted
  BY <1>1 DEF Init, UsedOK, Trusted
<1>4. GoneOut /\ EmptyDrive /\ LoadedThere
  BY <1>1 DEF GoneOut, EmptyDrive, LoadedThere, TookOut, Brings, Running
<1> QED
  BY <1>2, <1>3, <1>4 DEF PlaceInv

LEMMA PlaceStep ==
  LibInv /\ ShapeInv /\ LockInv /\ CallInv /\ PlaceInv /\ [Next]_vars => CallInv' /\ PlaceInv'
<1> SUFFICES ASSUME LibInv, ShapeInv, LockInv, CallInv, PlaceInv, [Next]_vars PROVE CallInv' /\ PlaceInv'
  OBVIOUS
<1>1. CASE UNCHANGED vars
  <2>1. UNCHANGED <<at, tlc, stale, rpc, torn, dev, used>>
    BY <1>1 DEF vars, tlcVars, hostVars, libVars
  <2>2. CallInv'
    BY <2>1 DEF CallInv, Waits, Ahead, NoLateLoad, NamedAlone, Works, Sends, Late, Brings, Loads, Good, Sane
  <2>3. PlaceInv'
    BY <2>1 DEF PlaceInv, UsedOK, Trusted, GoneOut, EmptyDrive, LoadedThere, TookOut, Brings, Loads, InDrive,
       Running, Good, Sane
  <2> QED
    BY <2>2, <2>3
<1>2. ASSUME NEW d \in Drives, DeviceStep(d) PROVE CallInv' /\ PlaceInv'
  BY <1>2, DeviceStepTurns, DeviceStepCounts, TurnsCall, TurnsPlace
<1>3. ASSUME NEW d \in Drives, LibSend(d) PROVE CallInv' /\ PlaceInv'
  BY <1>3, LibSendCall, LibSendPlace
<1>4. ASSUME NEW h \in Hosts, HostStep(h) PROVE CallInv' /\ PlaceInv'
  BY <1>4, HostStepCall, HostStepPlace
<1>5. ASSUME LibraryStep PROVE CallInv' /\ PlaceInv'
  BY <1>5, LibraryStepCall, LibraryStepPlace
<1> QED
  BY <1>1, <1>2, <1>3, <1>4, <1>5, NextActors

\* What an LRS believes of its drives is what the robot did, for any hosts,
\* drives and tapes: a mounted tape is the one of its device, and, as long as
\* the library does not fail, an idle device knows whether its drive is empty and
\* which tape it holds, though hosts and TLC die with requests on their way
\* (dev_load, dev_unload, sched_fill_dev_info, tlc_library_load).
THEOREM DrivesBelieved == Spec => []DrivesAsBelieved
<1> DEFINE I == LibInv /\ ShapeInv /\ MountInv /\ LockInv /\ CallInv /\ PlaceInv
<1>1. Init => I
  BY LibInit, ShapeInit, MountInit, LockInit, PlaceInit
<1>2. I /\ [Next]_vars => I'
  BY LibStep, ShapeStep, MountStep, LockStep, PlaceStep
<1>3. I => DrivesAsBelieved
  <2> SUFFICES ASSUME I PROVE DrivesAsBelieved
    OBVIOUS
  <2>1. \A d \in Drives : dev[d].pc = "idle" => rpc[d].st # "ok"
    BY DEF ShapeInv, CallShape
  <2>2. ASSUME used.fault = 0, NEW d \in Drives, Running(d), dev[d].pc = "idle"
        PROVE  /\ dev[d].op = "empty" => InDrive(d) = {}
               /\ dev[d].op \in {"loaded", "mounted"} /\ dev[d].med \in Good => at[dev[d].med] = d
    BY <2>1, <2>2 DEF PlaceInv, EmptyDrive, LoadedThere, TookOut
  <2>3. KnowsItsDrive
    BY <2>2 DEF KnowsItsDrive, Good
  <2> QED
    BY <2>3 DEF MountInv, DrivesAsBelieved
<1> HIDE DEF I
<1> QED
  BY <1>1, <1>2, <1>3, PTL DEF Spec
=============================================================================
