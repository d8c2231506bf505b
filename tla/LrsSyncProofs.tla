---------------------------- MODULE LrsSyncProofs ----------------------------
(***************************************************************************)
(* The invariants of LrsSync for any number of clients, media, devices and *)
(* failures: a release that succeeds is durable, and an I/O that was parked*)
(* comes back to the client that goes on and to nobody else.               *)
(*                                                                         *)
(* What makes the proof hard is the index of a sub-request: it is the one  *)
(* of release_index, which stays behind the loop once a medium could not   *)
(* be released.  From then on the devices mark media they do not hold.     *)
(* This is harmless only because the medium that failed is never marked:   *)
(* the container cannot end before the error is answered (Unreached).      *)
(***************************************************************************)
EXTENDS LrsSync, TLAPS

DevRecord ==
    [state : {"running", "dying", "cleaned", "ended"},
     loaded : BOOLEAN, io : SUBSET Clients, wait : SUBSET Clients,
     tosync : SUBSET (Clients \X Slots), needs : BOOLEAN, blocking : BOOLEAN,
     pc : {"idle", "flush", "report"}, rc : BOOLEAN, dies : BOOLEAN,
     sub : (Clients \X Slots) \cup {NoSub}, dirty : SUBSET Clients]

ReqcRecord ==
    [status : [Slots -> Statuses], rc : BOOLEAN, partial : BOOLEAN,
     frees : Nat, answers : Nat, refused : BOOLEAN]

CommRecord ==
    [pc : {"idle", "find", "push", "end", "close"},
     c : Clients \cup {NoClient}, i : 1..(MaxMedia + 1), idx : 0..MaxMedia,
     failed : BOOLEAN, db : BOOLEAN, left : SUBSET Devices]

\* Nothing went wrong so far: the sub-requests of the release have the index
\* of the medium of their device, and the release may still succeed.
Sound(c) == ~reqc[c].rc /\ ~(comm.c = c /\ comm.failed)

\* The communication thread knows where it is in the loop.
Releasing ==
    /\ comm.failed => comm.pc \in {"find", "push", "end"} /\ comm.idx \in Media(comm.c)
    /\ comm.pc \in {"find", "push"} =>
          /\ comm.i \in Media(comm.c) /\ comm.idx < comm.i
          /\ ~comm.failed => comm.i = comm.idx + 1
    /\ comm.pc = "close" => client[comm.c] = "gone"

\* The media the loop has not reached are in no device, and nor is the one
\* that could not be released.
Unreached ==
    comm.pc \in {"find", "push"} \/ comm.failed =>
        \A j \in Slots :
            (IF comm.failed THEN j = comm.idx ELSE j > comm.idx) =>
                /\ reqc[comm.c].status[j] = "todo"
                /\ \A d \in Devices : <<comm.c, j>> \notin dev[d].tosync

\* A client that does not wait for a release has none.
Quiet ==
    \A c \in Clients : client[c] \in {"idle", "writing"} =>
        /\ comm.c # c /\ <<c, "ok">> \notin resp
        /\ \A d \in Devices, i \in Slots : <<c, i>> \notin dev[d].tosync
        /\ client[c] = "idle" => \A i \in Slots : reqc[c].status[i] = "todo"

\* A release that succeeded is over for every thread.
Succeeded ==
    \A c \in Clients : <<c, "ok">> \in resp =>
        /\ comm.c = c => comm.pc \notin {"find", "push"}
        /\ \A d \in Devices, i \in Slots : <<c, i>> \notin dev[d].tosync

\* The releases a device has wait for the medium of this device.
Pending ==
    \A c \in Clients, d \in Devices, i \in Slots : <<c, i>> \in dev[d].tosync =>
        /\ i \in Media(c)
        /\ Sound(c) => reqc[c].status[i] = "todo" /\ d = DevOf[c][i]

\* Nobody joins the releases of a device between its synchronisation and the
\* end of the flush: what they wrote is synchronised...
Flushing ==
    \A c \in Clients, d \in Devices, i \in Slots :
        /\ <<c, i>> \in dev[d].tosync /\ dev[d].pc # "idle" /\ ~dev[d].rc
        => c \notin dev[d].dirty

\* ... and so are the media of a release that are done.
Synced ==
    \A c \in Clients : \A i \in Media(c) :
        Sound(c) /\ reqc[c].status[i] # "todo" => c \notin dev[DevOf[c][i]].dirty

\* A device that stops has flushed its releases.
Stopped ==
    \A d \in Devices : dev[d].state \in {"dying", "ended"} => dev[d].pc = "idle"

\* The part of the invariant that DurableAnswer needs.
SyncInv ==
    /\ TypeOK /\ Stopped /\ Releasing /\ Unreached /\ Quiet /\ Succeeded
    /\ Pending /\ Flushing /\ Synced /\ DurableAnswer
-----------------------------------------------------------------------------
\* The device still counts the I/O of the client, or has stopped.
Has(c, d) == c \in dev[d].io \/ dev[d].state = "ended"
Parks(c, d) == c \in dev[d].wait \/ dev[d].state = "ended"
Free(c, d) == c \notin dev[d].io /\ c \notin dev[d].wait

\* An I/O is in one table at most, of a device of its client.
OneTable ==
    \A c \in Clients, d \in Devices :
        /\ ~(c \in dev[d].io /\ c \in dev[d].wait)
        /\ d \notin DevsOf(c) => Free(c, d)

\* A partial release parks the I/O for as long as the device has it.
PartialIo ==
    \A c \in Clients : client[c] # "gone" /\ Sound(c) /\ reqc[c].partial =>
        \A i \in Media(c) :
            IF <<c, i>> \in dev[DevOf[c][i]].tosync THEN Parks(c, DevOf[c][i])
            ELSE Has(c, DevOf[c][i])

\* A final release ends it when the device gets it.
FinalIo ==
    \A c \in Clients : Sound(c) /\ ~reqc[c].partial =>
        \A i \in Media(c) :
            reqc[c].status[i] # "todo" \/ <<c, i>> \in dev[DevOf[c][i]].tosync
                => Free(c, DevOf[c][i])

\* A release that succeeded has brought back the I/O, or ended it.
AnsweredIo ==
    \A c \in Clients : <<c, "ok">> \in resp =>
        /\ reqc[c].partial /\ client[c] # "gone" => \A d \in DevsOf(c) : Has(c, d)
        /\ ~reqc[c].partial => \A d \in Devices : Free(c, d)

\* The part of the invariant that ParkedIo needs.
IoInv == OneTable /\ PartialIo /\ FinalIo /\ AnsweredIo /\ ResumedIo /\ NoStrayIo
-----------------------------------------------------------------------------
(* What a step does to the fields of a device.                             *)

\* Everything but the tables of the I/O and the releases is left.
Touched(v, w) ==
    /\ w \in DevRecord
    /\ w.state = v.state /\ w.pc = v.pc /\ w.rc = v.rc /\ w.dirty = v.dirty
    /\ w.sub = v.sub

LEMMA TouchedAgain ==
  ASSUME NEW u, NEW v, NEW w, Touched(u, v), Touched(v, w)
  PROVE  Touched(u, w)
BY DEF Touched

LEMMA CleanIoFields ==
  ASSUME NEW v \in DevRecord, NEW c \in Clients
  PROVE  LET w == CleanIo(v, c)
         IN  /\ Touched(v, w) /\ w.tosync = v.tosync
             /\ w.io = v.io \ {c}
             /\ w.wait = IF c \in v.io THEN v.wait ELSE v.wait \ {c}
BY DEF CleanIo, Touched, DevRecord

LEMMA MoveToWaitFields ==
  ASSUME NEW v \in DevRecord, NEW c \in Clients
  PROVE  LET w == MoveToWait(v, c)
         IN  /\ Touched(v, w) /\ w.tosync = v.tosync
             /\ w.io = v.io \ {c}
             /\ w.wait = IF c \in v.io THEN v.wait \cup {c} ELSE v.wait
BY DEF MoveToWait, Touched, DevRecord

LEMMA MoveBackFields ==
  ASSUME NEW v \in DevRecord, NEW c \in Clients
  PROVE  LET w == MoveBack(v, c)
         IN  /\ Touched(v, w) /\ w.tosync = v.tosync
             /\ w.wait = v.wait \ {c}
             /\ w.io = IF c \in v.wait THEN v.io \cup {c} ELSE v.io
BY DEF MoveBack, Touched, DevRecord

PushedTo(v, c, i, w) ==
    /\ Touched(v, w) /\ w.tosync = v.tosync \cup {<<c, i>>}
    /\ w.io = v.io \ {c}
    /\ w.wait = IF reqc[c].partial
                THEN IF c \in v.io THEN v.wait \cup {c} ELSE v.wait
                ELSE IF c \in v.io THEN v.wait ELSE v.wait \ {c}

LEMMA PushedFields ==
  ASSUME NEW v \in DevRecord, NEW c \in Clients, NEW i \in Slots, reqc[c].partial \in BOOLEAN
  PROVE  PushedTo(v, c, i, Pushed(v, c, i))
<1> DEFINE w == [v EXCEPT !.tosync = @ \cup {<<c, i>>}, !.needs = @ \/ reqc[c].partial]
<1>1. v.tosync \cup {<<c, i>>} \in SUBSET (Clients \X Slots)
      /\ (v.needs \/ reqc[c].partial) \in BOOLEAN
  BY DEF DevRecord
<1>2. /\ Touched(v, w) /\ w.tosync = v.tosync \cup {<<c, i>>}
      /\ w.io = v.io /\ w.wait = v.wait /\ w \in DevRecord
  BY <1>1 DEF Touched, DevRecord
<1>3. Pushed(v, c, i) = IF reqc[c].partial THEN MoveToWait(w, c) ELSE CleanIo(w, c)
  BY DEF Pushed
<1> HIDE DEF w
<1>4. CASE reqc[c].partial
  BY <1>2, <1>3, <1>4, TouchedAgain, MoveToWaitFields DEF PushedTo
<1>5. CASE ~reqc[c].partial
  <2>1. Touched(v, CleanIo(w, c))
    BY <1>2, TouchedAgain, CleanIoFields
  <2>2. /\ CleanIo(w, c).tosync = w.tosync /\ CleanIo(w, c).io = w.io \ {c}
        /\ CleanIo(w, c).wait = IF c \in w.io THEN w.wait ELSE w.wait \ {c}
    BY <1>2, CleanIoFields
  <2>3. Pushed(v, c, i) = CleanIo(w, c)
    BY <1>3, <1>5
  <2> QED
    BY <1>2, <1>5, <2>1, <2>2, <2>3 DEF PushedTo
<1> QED
  BY <1>4, <1>5

\* The release that a device takes out of its releases.
LEMMA TakenFields ==
  ASSUME NEW v \in DevRecord, NEW s
  PROVE  LET w == [v EXCEPT !.tosync = @ \ {s}]
         IN  /\ Touched(v, w) /\ w.tosync = v.tosync \ {s}
             /\ w.io = v.io /\ w.wait = v.wait
BY DEF Touched, DevRecord

LEMMA Types ==
  TypeOK => /\ dev \in [Devices -> DevRecord] /\ reqc \in [Clients -> ReqcRecord]
            /\ client \in [Clients -> ClientStates]
            /\ \A d \in Devices : dev[d] \in DevRecord
            /\ \A c \in Clients : reqc[c] \in ReqcRecord
            /\ comm \in CommRecord
            /\ comm.pc # "idle" => comm.c \in Clients
            /\ comm.pc = "idle" <=> comm.c = NoClient
            /\ running \in BOOLEAN /\ resp \subseteq Clients \X {"ok", "error"}
            /\ \A d \in Devices : dev[d].pc = "report" <=> dev[d].sub # NoSub
BY DEF TypeOK, DevRecord, ReqcRecord, CommRecord

Budgets ==
    /\ nPartial \in 0..MaxPartial /\ nFail \in 0..MaxFail
    /\ nDeath \in 0..MaxDeath /\ nDbFail \in 0..MaxDbFail

LEMMA BudgetsKept ==
  ASSUME TypeOK, UNCHANGED budget
  PROVE  Budgets'
BY DEF TypeOK, Budgets, budget

\* The type invariant, one variable at a time.
LEMMA TypeIntro ==
  ASSUME TypeOK,
         running' \in BOOLEAN, client' \in [Clients -> ClientStates],
         reqc' \in [Clients -> ReqcRecord], resp' \subseteq Clients \X {"ok", "error"},
         comm' \in CommRecord, comm'.pc = "idle" <=> comm'.c = NoClient,
         dev' \in [Devices -> DevRecord],
         \A d \in Devices : dev'[d].pc = "report" <=> dev'[d].sub # NoSub,
         Budgets'
  PROVE  TypeOK'
BY DEF TypeOK, DevRecord, ReqcRecord, CommRecord, Budgets

\* A device that only loses or gets releases and I/O stays well-formed.
LEMMA TouchedDevs ==
  ASSUME TypeOK, DOMAIN dev' = Devices, dev' = [d \in Devices |-> dev'[d]],
         \A d \in Devices : Touched(dev[d], dev'[d])
  PROVE  /\ dev' \in [Devices -> DevRecord]
         /\ \A d \in Devices : dev'[d].pc = "report" <=> dev'[d].sub # NoSub
BY DEF Touched, TypeOK
-----------------------------------------------------------------------------
(* What each action does, field by field.                                  *)

Others(d) == \A e \in Devices : e # d => dev'[e] = dev[e]

LEMMA BeginEffect ==
  ASSUME TypeOK, NEW c \in Clients, Begin(c)
  PROVE  /\ TypeOK' /\ client[c] = "idle" /\ client' = [client EXCEPT ![c] = "writing"]
         /\ reqc' = reqc /\ resp' = resp /\ comm' = comm
         /\ \A d \in Devices :
              /\ Touched(dev[d], dev'[d]) /\ dev'[d].tosync = dev[d].tosync
              /\ dev'[d].wait = dev[d].wait
              /\ dev'[d].io = IF d \in DevsOf(c) THEN dev[d].io \cup {c} ELSE dev[d].io
<1>1. \A d \in Devices :
              /\ Touched(dev[d], dev'[d]) /\ dev'[d].tosync = dev[d].tosync
              /\ dev'[d].wait = dev[d].wait
              /\ dev'[d].io = IF d \in DevsOf(c) THEN dev[d].io \cup {c} ELSE dev[d].io
  BY Types DEF Begin, Touched, DevRecord
<1>2. /\ dev' \in [Devices -> DevRecord]
      /\ \A d \in Devices : dev'[d].pc = "report" <=> dev'[d].sub # NoSub
  <2>1. DOMAIN dev' = Devices /\ dev' = [d \in Devices |-> dev'[d]]
    BY DEF Begin
  <2> QED
    BY <1>1, <2>1, TouchedDevs
<1>3. client' \in [Clients -> ClientStates]
  BY Types DEF Begin, ClientStates
<1>4. TypeOK'
  BY <1>2, <1>3, Types, TypeIntro, BudgetsKept DEF Begin
<1> QED
  BY <1>1, <1>4 DEF Begin

ReleaseStarts(c, partial) ==
    /\ TypeOK' /\ client[c] = "writing" /\ client' = [client EXCEPT ![c] = "waiting"]
    /\ resp' = resp /\ comm.pc = "idle"
    /\ comm'.pc = "find" /\ comm'.c = c /\ comm'.i = 1 /\ comm'.idx = 0 /\ ~comm'.failed
    /\ \A q \in Clients : q # c => reqc'[q] = reqc[q]
    /\ ~reqc'[c].rc /\ reqc'[c].partial = partial
    /\ \A i \in Slots : reqc'[c].status[i] = "todo"
    /\ \A d \in Devices :
         /\ dev'[d] \in DevRecord
         /\ dev'[d].state = dev[d].state /\ dev'[d].pc = dev[d].pc
         /\ dev'[d].rc = dev[d].rc /\ dev'[d].sub = dev[d].sub
         /\ dev'[d].tosync = dev[d].tosync
         /\ dev'[d].io = dev[d].io /\ dev'[d].wait = dev[d].wait
         /\ dev'[d].dirty = IF d \in DevsOf(c) THEN dev[d].dirty \cup {c} ELSE dev[d].dirty

LEMMA ReleaseStartEffect ==
  ASSUME TypeOK, NEW c \in Clients, NEW partial \in BOOLEAN, ReleaseStart(c, partial)
  PROVE  ReleaseStarts(c, partial)
<1>1. \A d \in Devices :
              /\ dev'[d] \in DevRecord
              /\ dev'[d].state = dev[d].state /\ dev'[d].pc = dev[d].pc
              /\ dev'[d].rc = dev[d].rc /\ dev'[d].sub = dev[d].sub
              /\ dev'[d].tosync = dev[d].tosync
              /\ dev'[d].io = dev[d].io /\ dev'[d].wait = dev[d].wait
              /\ dev'[d].dirty = IF d \in DevsOf(c) THEN dev[d].dirty \cup {c} ELSE dev[d].dirty
  BY Types DEF ReleaseStart, DevRecord
<1>2. dev' \in [Devices -> DevRecord]
  BY <1>1, Types DEF ReleaseStart
<1>3. /\ comm'.pc = "find" /\ comm'.c = c /\ comm'.i = 1 /\ comm'.idx = 0 /\ comm'.failed = FALSE
      /\ comm'.db = FALSE /\ comm'.left = {}
  BY DEF ReleaseStart, CommIdle
<1>4. NewReqc(partial) \in ReqcRecord
  BY DEF NewReqc, ReqcRecord, Statuses
<1>5. reqc' \in [Clients -> ReqcRecord]
  BY <1>4, Types DEF ReleaseStart
<1>6. comm' \in CommRecord
  <2>1. 1 \in 1..(MaxMedia + 1) /\ 0 \in 0..MaxMedia
    BY BoundAssumption
  <2>2. comm' = [pc |-> "find", c |-> c, i |-> 1, idx |-> 0,
                 failed |-> FALSE, db |-> FALSE, left |-> {}]
    BY DEF ReleaseStart, CommIdle
  <2> QED
    BY <2>1, <2>2 DEF CommRecord
<1>7. TypeOK'
  <2>1. client' \in [Clients -> ClientStates]
    BY Types DEF ReleaseStart, ClientStates
  <2>2. Budgets'
    BY BoundAssumption DEF ReleaseStart, TypeOK, Budgets
  <2>3. \A d \in Devices : dev'[d].pc = "report" <=> dev'[d].sub # NoSub
    BY <1>1, Types
  <2>4. running' \in BOOLEAN /\ resp' \subseteq Clients \X {"ok", "error"}
    BY DEF TypeOK, ReleaseStart
  <2>5. comm'.pc = "idle" <=> comm'.c = NoClient
    BY <1>3, NoneAssumption
  <2> QED
    BY <1>2, <1>5, <1>6, <2>1, <2>2, <2>3, <2>4, <2>5, TypeIntro
<1>8. /\ \A q \in Clients : q # c => reqc'[q] = reqc[q]
      /\ ~reqc'[c].rc /\ reqc'[c].partial = partial
      /\ \A i \in Slots : reqc'[c].status[i] = "todo"
  BY Types DEF ReleaseStart, NewReqc
<1> QED
  BY <1>1, <1>3, <1>7, <1>8 DEF ReleaseStart, ReleaseStarts

\* The loop goes on.
LEMMA NextMediumEffect ==
  ASSUME TypeOK, Releasing, NEW error \in BOOLEAN, comm.pc \in {"find", "push"}, NextMedium(error)
  PROVE  /\ comm'.c = comm.c /\ comm'.i = comm.i + 1 /\ comm'.pc \in {"find", "end"}
         /\ comm'.pc = "find" <=> comm.i # NMedia[comm.c]
         /\ comm'.failed <=> comm.failed \/ error
         /\ comm'.idx = IF comm.failed THEN comm.idx ELSE comm.idx + 1
         /\ comm' \in CommRecord
<1>1. comm.c \in Clients /\ NMedia[comm.c] \in 1..MaxMedia
  BY Types, ClientAssumption DEF Slots
<1>2. comm.i \in 1..MaxMedia /\ comm.idx \in 0..MaxMedia /\ comm.i <= NMedia[comm.c]
      /\ (~comm.failed => comm.idx + 1 = comm.i)
  BY <1>1, BoundAssumption DEF Releasing, Media, TypeOK
<1> QED
  <2>1. comm.i + 1 \in 1..(MaxMedia + 1) /\ (~comm.failed => comm.idx + 1 \in 0..MaxMedia)
    BY <1>1, <1>2, BoundAssumption
  <2>2. /\ comm'.c = comm.c /\ comm'.i = comm.i + 1 /\ comm'.pc \in {"find", "end"}
        /\ comm'.pc = "find" <=> comm.i # NMedia[comm.c]
        /\ comm'.failed <=> comm.failed \/ error
        /\ comm'.idx = IF comm.failed THEN comm.idx ELSE comm.idx + 1
    BY Types DEF NextMedium, CommRecord
  <2>3. comm' \in CommRecord
    BY <1>1, <1>2, <2>1, Types DEF NextMedium, CommRecord
  <2> QED
    BY <2>2, <2>3

LEMMA ReleaseNotFoundEffect ==
  ASSUME TypeOK, Releasing, ReleaseNotFound
  PROVE  TypeOK' /\ NextMedium(TRUE) /\ comm.pc = "find" /\ UNCHANGED <<client, reqc, resp, dev>>
<1>1. NextMedium(TRUE) /\ comm.pc = "find" /\ UNCHANGED <<client, reqc, resp, dev>>
  BY DEF ReleaseNotFound
<1>2. /\ comm'.c = comm.c /\ comm'.pc \in {"find", "end"}
      /\ comm' \in CommRecord
  BY <1>1, NextMediumEffect
<1> QED
  BY <1>1, <1>2, Types, TypeIntro, BudgetsKept, NoneAssumption DEF ReleaseNotFound

LEMMA ReleaseFoundEffect ==
  ASSUME TypeOK, ReleaseFound
  PROVE  /\ TypeOK' /\ comm.pc = "find" /\ UNCHANGED <<client, reqc, resp, dev>>
         /\ comm'.pc = "push" /\ comm'.c = comm.c /\ comm'.i = comm.i
         /\ comm'.idx = comm.idx /\ comm'.failed = comm.failed
<1>1. /\ comm'.pc = "push" /\ comm'.c = comm.c /\ comm'.i = comm.i
      /\ comm'.idx = comm.idx /\ comm'.failed = comm.failed
      /\ comm' \in CommRecord
  BY Types DEF ReleaseFound, CommRecord
<1>2. comm.c # NoClient /\ comm.pc = "find" /\ UNCHANGED <<client, reqc, resp, dev>>
  BY Types DEF ReleaseFound
<1>3. TypeOK'
  BY <1>1, <1>2, Types, TypeIntro, BudgetsKept DEF ReleaseFound
<1> QED
  BY <1>1, <1>2, <1>3

LEMMA CommIdleFields ==
  /\ CommIdle \in CommRecord /\ CommIdle.pc = "idle" /\ CommIdle.c = NoClient
  /\ CommIdle.failed = FALSE /\ NoClient \notin Clients
<1>1. 1 \in 1..(MaxMedia + 1) /\ 0 \in 0..MaxMedia
  BY BoundAssumption
<1> QED
  BY <1>1, NoneAssumption DEF CommIdle, CommRecord

LEMMA ReleaseDoneEffect ==
  ASSUME TypeOK, ReleaseDone
  PROVE  /\ TypeOK' /\ comm.pc = "end" /\ ~comm.failed /\ comm' = CommIdle
         /\ UNCHANGED <<client, reqc, resp, dev>>
<1>1. /\ comm.pc = "end" /\ ~comm.failed /\ comm' = CommIdle
      /\ UNCHANGED <<client, reqc, resp, dev>>
  BY DEF ReleaseDone
<1>2. TypeOK'
  BY <1>1, CommIdleFields, Types, TypeIntro, BudgetsKept DEF ReleaseDone
<1> QED
  BY <1>1, <1>2

\* What release_medium is called with.
LEMMA MineTypes ==
  ASSUME TypeOK, Releasing, comm.pc \in {"find", "push"}
  PROVE  /\ comm.c \in Clients /\ comm.idx + 1 \in Slots /\ comm.i \in Slots /\ Mine \in Devices
         /\ comm.i \in Media(comm.c) /\ comm.idx + 1 \in Media(comm.c)
         /\ Media(comm.c) \subseteq Slots
<1>1. comm.c \in Clients /\ NMedia[comm.c] \in 1..MaxMedia
  BY Types, ClientAssumption DEF Slots
<1>2. comm.i \in 1..NMedia[comm.c] /\ comm.idx \in 0..MaxMedia /\ comm.idx < comm.i
  BY Types DEF Releasing, Media, CommRecord
<1>3. comm.i \in Slots /\ comm.idx + 1 \in Slots /\ comm.idx + 1 \in Media(comm.c)
      /\ Media(comm.c) \subseteq Slots
  BY <1>1, <1>2, BoundAssumption DEF Slots, Media
<1>4. Mine \in Devices
  BY <1>1, <1>3, ClientAssumption DEF Mine
<1> QED
  BY <1>1, <1>2, <1>3, <1>4 DEF Media

LEMMA ReleasePushEffect ==
  ASSUME TypeOK, Releasing, NEW db \in BOOLEAN, ReleasePush(db)
  PROVE  /\ TypeOK' /\ comm.pc = "push" /\ UNCHANGED <<client, reqc, resp>>
         /\ Others(Mine) /\ dev[Mine].pc = "idle"
         /\ dev'[Mine] = Pushed(dev[Mine], comm.c, comm.idx + 1)
         /\ \/ /\ comm'.pc = "end" /\ comm'.c = comm.c /\ comm'.idx = comm.idx
               /\ comm'.failed = comm.failed
            \/ NextMedium(FALSE)
<1>1. /\ comm.pc = "push" /\ UNCHANGED <<client, reqc, resp>> /\ dev[Mine].pc = "idle"
      /\ dev' = [dev EXCEPT ![Mine] = Pushed(dev[Mine], comm.c, comm.idx + 1)]
  BY DEF ReleasePush
<1>2. Mine \in Devices /\ comm.c \in Clients /\ comm.idx + 1 \in Slots
      /\ reqc[comm.c].partial \in BOOLEAN
  BY <1>1, MineTypes, Types DEF ReqcRecord
<1>3. Others(Mine) /\ dev'[Mine] = Pushed(dev[Mine], comm.c, comm.idx + 1)
  BY <1>1, <1>2, Types DEF Others
<1>4. Touched(dev[Mine], dev'[Mine])
  <2>1. dev[Mine] \in DevRecord
    BY <1>2, Types
  <2>2. PushedTo(dev[Mine], comm.c, comm.idx + 1, Pushed(dev[Mine], comm.c, comm.idx + 1))
    BY <1>2, <2>1, PushedFields
  <2> QED
    BY <1>3, <2>2 DEF PushedTo
<1>5. \A d \in Devices : Touched(dev[d], dev'[d])
  BY <1>3, <1>4, Types DEF Others, Touched
<1>6. /\ dev' \in [Devices -> DevRecord]
      /\ \A d \in Devices : dev'[d].pc = "report" <=> dev'[d].sub # NoSub
  <2>1. DOMAIN dev' = Devices /\ dev' = [d \in Devices |-> dev'[d]]
    BY <1>1, Types
  <2> QED
    BY <1>5, <2>1, TouchedDevs
<1>7. /\ \/ /\ comm'.pc = "end" /\ comm'.c = comm.c /\ comm'.idx = comm.idx
            /\ comm'.failed = comm.failed
         \/ NextMedium(FALSE)
      /\ comm' \in CommRecord /\ comm'.c = comm.c /\ comm'.pc # "idle"
  <2>1. CASE db
    <3>1. comm' = [comm EXCEPT !.pc = "end", !.db = TRUE] /\ comm \in CommRecord
      BY <2>1, Types DEF ReleasePush
    <3> QED
      BY <3>1 DEF CommRecord
  <2>2. CASE ~db
    BY <1>1, <2>2, NextMediumEffect DEF ReleasePush
  <2> QED
    BY <2>1, <2>2
<1>8. Budgets'
  BY BoundAssumption DEF ReleasePush, TypeOK, Budgets
<1>9. running' \in BOOLEAN
  BY Types DEF ReleasePush
<1>10. TypeOK'
  BY <1>1, <1>2, <1>6, <1>7, <1>8, <1>9, Types, TypeIntro, NoneAssumption
<1> QED
  BY <1>1, <1>3, <1>7, <1>10

\* A container whose outcome is written.
Written(r, rc, n, st) ==
    [r EXCEPT !.rc = rc, !.answers = n, !.refused = TRUE, !.status = st]

LEMMA WrittenFields ==
  ASSUME NEW r \in ReqcRecord, NEW st \in [Slots -> Statuses], NEW rc \in BOOLEAN, NEW n \in Nat
  PROVE  LET q == Written(r, rc, n, st)
         IN  /\ q \in ReqcRecord /\ (q.rc <=> rc) /\ q.status = st
             /\ q.partial <=> r.partial
BY DEF ReqcRecord, Written

LEMMA ReleaseErrorEffect ==
  ASSUME TypeOK, ReleaseError
  PROVE  /\ TypeOK' /\ comm.pc = "end" /\ comm' = CommIdle /\ comm.c \in Clients
         /\ UNCHANGED <<client, dev>>
         /\ resp' = resp \cup {<<comm.c, "error">>}
         /\ \A q \in Clients : q # comm.c => reqc'[q] = reqc[q]
         /\ reqc'[comm.c].rc /\ (reqc'[comm.c].partial <=> reqc[comm.c].partial)
<1> DEFINE c == comm.c
           st == [i \in Slots |-> IF i = comm.idx THEN "error" ELSE "cancel"]
           q == [reqc[c] EXCEPT !.rc = TRUE, !.answers = @ + 1,
                             !.refused = TRUE, !.status = st]
<1>1. /\ comm.pc = "end" /\ comm' = CommIdle /\ comm.c \in Clients
      /\ UNCHANGED <<client, dev>> /\ resp' = resp \cup {<<comm.c, "error">>}
      /\ reqc' = [reqc EXCEPT ![c] = FreedIf(q, comm.idx = 1)]
  BY Types DEF ReleaseError
<1>2. reqc[c] \in ReqcRecord
  BY <1>1, Types
<1>3. q \in ReqcRecord /\ q.rc /\ (q.partial <=> reqc[c].partial)
  <2>1. st \in [Slots -> Statuses]
    BY DEF Statuses
  <2>2. reqc[c].answers + 1 \in Nat /\ TRUE \in BOOLEAN
    BY <1>2 DEF ReqcRecord
  <2>3. q = Written(reqc[c], TRUE, reqc[c].answers + 1, st)
    BY DEF Written
  <2> HIDE DEF st, q, c
  <2> QED
    BY <1>2, <2>1, <2>2, <2>3, WrittenFields
<1> HIDE DEF q
<1>4. FreedIf(q, comm.idx = 1) \in ReqcRecord /\ FreedIf(q, comm.idx = 1).rc
      /\ FreedIf(q, comm.idx = 1).partial = q.partial
  BY <1>3 DEF FreedIf, ReqcRecord
<1>5. /\ \A p \in Clients : p # comm.c => reqc'[p] = reqc[p]
      /\ reqc'[comm.c] = FreedIf(q, comm.idx = 1)
      /\ reqc' \in [Clients -> ReqcRecord]
  BY <1>1, <1>4, Types
<1>6. running' \in BOOLEAN
  BY Types DEF ReleaseError, CommRecord
<1>7. resp' \subseteq Clients \X {"ok", "error"}
  BY <1>1, Types
<1>8. TypeOK'
  BY <1>1, <1>5, <1>6, <1>7, CommIdleFields, Types, TypeIntro, BudgetsKept DEF ReleaseError
<1> QED
  BY <1>1, <1>3, <1>4, <1>5, <1>8

LEMMA SendEffect ==
  ASSUME TypeOK, NEW c \in Clients, NEW kind \in {"ok", "error"}, Send(c, kind)
  PROVE  /\ TypeOK' /\ comm.pc = "idle" /\ <<c, kind>> \in resp /\ resp' = resp \ {<<c, kind>>}
         /\ UNCHANGED <<reqc, comm, dev>>
         /\ \A p \in Clients : p # c => client'[p] = client[p]
         /\ client[c] = "gone" => client'[c] = "gone"
         /\ client[c] # "gone" =>
              client'[c] = IF kind = "error" THEN "failed"
                           ELSE IF reqc[c].partial THEN "writing" ELSE "done"
<1>1. /\ comm.pc = "idle" /\ <<c, kind>> \in resp /\ resp' = resp \ {<<c, kind>>}
      /\ UNCHANGED <<reqc, comm, dev>>
      /\ \A p \in Clients : p # c => client'[p] = client[p]
      /\ client[c] = "gone" => client'[c] = "gone"
      /\ client[c] # "gone" =>
           client'[c] = IF kind = "error" THEN "failed"
                        ELSE IF reqc[c].partial THEN "writing" ELSE "done"
      /\ client' \in [Clients -> ClientStates]
  BY Types DEF Send, ClientStates
<1>2. TypeOK'
  BY <1>1, Types, TypeIntro, BudgetsKept DEF Send
<1> QED
  BY <1>1, <1>2

LEMMA CloseEffect ==
  ASSUME TypeOK, NEW c \in Clients, Close(c)
  PROVE  /\ TypeOK' /\ comm.pc = "idle" /\ client[c] \in {"writing", "waiting", "failed"}
         /\ client' = [client EXCEPT ![c] = "gone"] /\ UNCHANGED <<reqc, resp, dev>>
         /\ comm'.pc = "close" /\ comm'.c = c /\ comm'.failed = FALSE /\ comm'.left = Devices
<1>1. /\ comm'.pc = "close" /\ comm'.c = c /\ comm'.failed = FALSE /\ comm'.left = Devices
      /\ comm' \in CommRecord
  BY CommIdleFields DEF Close, CommRecord
<1>2. client' \in [Clients -> ClientStates]
  BY Types DEF Close, ClientStates
<1>3. TypeOK'
  BY <1>1, <1>2, Types, TypeIntro, BudgetsKept, CommIdleFields DEF Close
<1> QED
  BY <1>1, <1>3 DEF Close

LEMMA CloseDeviceEffect ==
  ASSUME TypeOK, NEW d \in Devices, CloseDevice(d)
  PROVE  /\ TypeOK' /\ comm.pc = "close" /\ comm.c \in Clients /\ UNCHANGED <<client, reqc, resp>>
         /\ Others(d) /\ dev'[d] = CleanIo(dev[d], comm.c) /\ dev[d] \in DevRecord
         /\ \/ comm' = CommIdle /\ comm.left = {d}
            \/ /\ comm'.pc = "close" /\ comm'.c = comm.c /\ comm'.failed = comm.failed
               /\ comm'.left = comm.left \ {d}
<1>1. /\ comm.pc = "close" /\ comm.c \in Clients /\ UNCHANGED <<client, reqc, resp>>
      /\ dev[d] \in DevRecord /\ dev' = [dev EXCEPT ![d] = CleanIo(dev[d], comm.c)]
  BY Types DEF CloseDevice
<1>2. Others(d) /\ dev'[d] = CleanIo(dev[d], comm.c)
  BY <1>1, Types DEF Others
<1>3. \A e \in Devices : Touched(dev[e], dev'[e])
  <2>1. Touched(dev[d], CleanIo(dev[d], comm.c))
    BY <1>1, CleanIoFields
  <2> QED
    BY <1>2, <2>1, Types DEF Others, Touched
<1>4. /\ dev' \in [Devices -> DevRecord]
      /\ \A e \in Devices : dev'[e].pc = "report" <=> dev'[e].sub # NoSub
  <2>1. DOMAIN dev' = Devices /\ dev' = [e \in Devices |-> dev'[e]]
    BY <1>1, Types
  <2> QED
    BY <1>3, <2>1, TouchedDevs
<1>5. CASE comm.left = {d}
  <2>1. comm' = CommIdle
    BY <1>5 DEF CloseDevice
  <2>2. TypeOK'
    BY <1>1, <1>4, <2>1, CommIdleFields, Types, TypeIntro, BudgetsKept DEF CloseDevice
  <2> QED
    BY <1>1, <1>2, <1>5, <2>1, <2>2
<1>6. CASE comm.left # {d}
  <2>1. /\ comm'.pc = "close" /\ comm'.c = comm.c /\ comm'.failed = comm.failed
        /\ comm'.left = comm.left \ {d} /\ comm' \in CommRecord
    BY <1>1, <1>6, Types DEF CloseDevice, CommRecord
  <2>2. TypeOK'
    BY <1>1, <1>4, <2>1, CommIdleFields, Types, TypeIntro, BudgetsKept DEF CloseDevice
  <2> QED
    BY <1>1, <1>2, <2>1, <2>2
<1> QED
  BY <1>5, <1>6

\* A container one of whose media is marked, and which is then freed or
\* answered.
Marked(r, rc, k, v) == [r EXCEPT !.rc = rc, !.status[k] = v]

LEMMA MarkedFields ==
  ASSUME NEW r \in ReqcRecord, NEW rc \in BOOLEAN, NEW k \in Slots, NEW v \in Statuses
  PROVE  LET q == Marked(r, rc, k, v)
         IN  /\ q \in ReqcRecord /\ (q.rc <=> rc) /\ (q.partial <=> r.partial)
             /\ q.status = [r.status EXCEPT ![k] = v]
BY DEF ReqcRecord, Marked

LEMMA CountedFields ==
  ASSUME NEW q \in ReqcRecord, NEW a \in BOOLEAN, NEW b \in BOOLEAN
  PROVE  LET w == FreedIf(Answered(q, a), b)
         IN  /\ w \in ReqcRecord /\ (w.rc <=> q.rc) /\ (w.partial <=> q.partial)
             /\ w.status = q.status
<1>1. LET w == Answered(q, a)
      IN  /\ w \in ReqcRecord /\ (w.rc <=> q.rc) /\ (w.partial <=> q.partial)
          /\ w.status = q.status
  BY DEF Answered, ReqcRecord
<1>2. ASSUME NEW p \in ReqcRecord
      PROVE  LET w == FreedIf(p, b)
             IN  /\ w \in ReqcRecord /\ (w.rc <=> p.rc) /\ (w.partial <=> p.partial)
                 /\ w.status = p.status
  BY DEF FreedIf, ReqcRecord
<1> QED
  BY <1>1, <1>2

RemovesCanceledSync(d, c, k) ==
    /\ TypeOK' /\ UNCHANGED <<client, resp, comm>> /\ <<c, k>> \in dev[d].tosync
    /\ reqc[c].rc /\ reqc'[c].rc /\ (reqc'[c].partial <=> reqc[c].partial)
    /\ \A i \in Slots : i # k => reqc'[c].status[i] = reqc[c].status[i]
    /\ \A p \in Clients : p # c => reqc'[p] = reqc[p]
    /\ Others(d) /\ Touched(dev[d], dev'[d])
    /\ dev'[d].tosync = dev[d].tosync \ {<<c, k>>}
    /\ \/ dev'[d].io = dev[d].io /\ dev'[d].wait = dev[d].wait
       \/ /\ dev'[d].io = dev[d].io \ {c}
          /\ dev'[d].wait = IF c \in dev[d].io THEN dev[d].wait ELSE dev[d].wait \ {c}

LEMMA RemoveCanceledSyncEffect ==
  ASSUME TypeOK, NEW d \in Devices, NEW c \in Clients, NEW k \in Slots,
         RemoveCanceledSync(d, <<c, k>>)
  PROVE  RemovesCanceledSync(d, c, k)
<1> DEFINE q == Marked(reqc[c], TRUE, k, "cancel")
           v == [dev[d] EXCEPT !.tosync = @ \ {<<c, k>>}]
           w == IF q.partial THEN CleanIo(v, c) ELSE v
           r == FreedIf(Answered(q, FALSE), Ended(q, c))
<1>1. reqc[c] \in ReqcRecord /\ dev[d] \in DevRecord /\ <<c, k>> \in dev[d].tosync /\ reqc[c].rc
  BY Types DEF RemoveCanceledSync
<1>2. [reqc[c] EXCEPT !.status[k] = "cancel"] = q
  BY <1>1 DEF Marked, ReqcRecord
<1>3. reqc' = [reqc EXCEPT ![c] = r] /\ dev' = [dev EXCEPT ![d] = w]
  BY <1>2 DEF RemoveCanceledSync, Answered
<1>4. /\ q \in ReqcRecord /\ q.rc /\ (q.partial <=> reqc[c].partial)
      /\ q.status = [reqc[c].status EXCEPT ![k] = "cancel"]
  BY <1>1, MarkedFields DEF Statuses
<1> HIDE DEF q
<1>5. Ended(q, c) \in BOOLEAN
  BY DEF Ended
<1>6. /\ r \in ReqcRecord /\ (r.rc <=> q.rc) /\ (r.partial <=> q.partial) /\ r.status = q.status
  BY <1>4, <1>5, CountedFields
<1> HIDE DEF r
<1>7. /\ \A p \in Clients : p # c => reqc'[p] = reqc[p]
      /\ reqc'[c] = r /\ reqc' \in [Clients -> ReqcRecord]
  BY <1>3, <1>6, Types
<1>8. Touched(dev[d], v) /\ v.tosync = dev[d].tosync \ {<<c, k>>} /\ v.io = dev[d].io
      /\ v.wait = dev[d].wait /\ v \in DevRecord
  BY <1>1, TakenFields DEF Touched
<1> HIDE DEF v
<1>9. /\ Touched(dev[d], w) /\ w.tosync = dev[d].tosync \ {<<c, k>>}
      /\ \/ w.io = dev[d].io /\ w.wait = dev[d].wait
         \/ /\ w.io = dev[d].io \ {c}
            /\ w.wait = IF c \in dev[d].io THEN dev[d].wait ELSE dev[d].wait \ {c}
  <2>1. Touched(v, CleanIo(v, c)) /\ CleanIo(v, c).tosync = v.tosync
        /\ CleanIo(v, c).io = v.io \ {c}
        /\ CleanIo(v, c).wait = IF c \in v.io THEN v.wait ELSE v.wait \ {c}
    BY <1>8, CleanIoFields
  <2>2. Touched(dev[d], CleanIo(v, c))
    BY <1>8, <2>1, TouchedAgain
  <2>3. CASE q.partial
    BY <1>8, <2>1, <2>2, <2>3
  <2>4. CASE ~q.partial
    BY <1>8, <2>4
  <2> QED
    BY <2>3, <2>4
<1> HIDE DEF w
<1>10. Others(d) /\ dev'[d] = w
  BY <1>3, Types DEF Others
<1>11. /\ dev' \in [Devices -> DevRecord]
       /\ \A e \in Devices : dev'[e].pc = "report" <=> dev'[e].sub # NoSub
  <2>1. \A e \in Devices : Touched(dev[e], dev'[e])
    BY <1>9, <1>10, Types DEF Others, Touched
  <2>2. DOMAIN dev' = Devices /\ dev' = [e \in Devices |-> dev'[e]]
    BY <1>3, Types
  <2> QED
    BY <2>1, <2>2, TouchedDevs
<1>12. UNCHANGED <<running, client, resp, comm, budget>>
  BY DEF RemoveCanceledSync
<1>13. TypeOK'
  BY <1>7, <1>11, <1>12, Types, TypeIntro, BudgetsKept
<1>14. \A i \in Slots : i # k => reqc'[c].status[i] = reqc[c].status[i]
  BY <1>1, <1>4, <1>6, <1>7 DEF ReqcRecord
<1> QED
  BY <1>1, <1>4, <1>6, <1>7, <1>9, <1>10, <1>12, <1>13, <1>14 DEF RemovesCanceledSync

FlushesSub(d, c, k) ==
    /\ TypeOK' /\ UNCHANGED <<client, comm>> /\ <<c, k>> \in dev[d].tosync
    /\ dev[d].pc = "flush"
    /\ reqc'[c].rc <=> reqc[c].rc \/ dev[d].rc
    /\ reqc'[c].partial <=> reqc[c].partial
    /\ \A i \in Slots : i # k => reqc'[c].status[i] = reqc[c].status[i]
    /\ \A p \in Clients : p # c => reqc'[p] = reqc[p]
    /\ \A p \in Clients : <<p, "ok">> \in resp' =>
         \/ <<p, "ok">> \in resp
         \/ p = c /\ ~reqc'[c].rc /\ \A i \in Media(c) : reqc'[c].status[i] # "todo"
    /\ Others(d) /\ dev'[d] \in DevRecord /\ dev'[d].pc # "idle"
    /\ dev'[d].state = dev[d].state /\ dev'[d].rc = dev[d].rc
    /\ dev'[d].dirty = dev[d].dirty
    /\ dev'[d].tosync = dev[d].tosync \ {<<c, k>>}
    /\ IF ~reqc[c].partial THEN dev'[d].io = dev[d].io /\ dev'[d].wait = dev[d].wait
       ELSE IF reqc'[c].rc
       THEN /\ dev'[d].io = dev[d].io \ {c}
            /\ dev'[d].wait = IF c \in dev[d].io THEN dev[d].wait ELSE dev[d].wait \ {c}
       ELSE /\ dev'[d].wait = dev[d].wait \ {c}
            /\ dev'[d].io = IF c \in dev[d].wait THEN dev[d].io \cup {c} ELSE dev[d].io

LEMMA FlushSubEffect ==
  ASSUME TypeOK, NEW d \in Devices, NEW c \in Clients, NEW k \in Slots, FlushSub(d, <<c, k>>)
  PROVE  FlushesSub(d, c, k)
<1> DEFINE s == <<c, k>>
           rc == reqc[c].rc \/ dev[d].rc
           q == Marked(reqc[c], rc, k, IF dev[d].rc THEN "error" ELSE "done")
           first == dev[d].rc /\ ~reqc[c].rc
           ended == Ended(q, c)
           v == [dev[d] EXCEPT !.tosync = @ \ {s},
                   !.pc = IF first /\ ~ended THEN "report" ELSE @,
                   !.sub = IF first /\ ~ended THEN s ELSE @]
           w == IF ~q.partial THEN v ELSE IF q.rc THEN CleanIo(v, c) ELSE MoveBack(v, c)
           r == FreedIf(Answered(q, ended /\ (first \/ ~q.rc)), ended)
<1>1. reqc[c] \in ReqcRecord /\ dev[d] \in DevRecord /\ s \in dev[d].tosync /\ dev[d].pc = "flush"
      /\ rc \in BOOLEAN
  BY Types DEF FlushSub
<1>2. /\ reqc' = [reqc EXCEPT ![c] = r] /\ dev' = [dev EXCEPT ![d] = w]
      /\ resp' = resp \cup (IF ~ended THEN {} ELSE IF first THEN {<<c, "error">>}
                            ELSE IF ~q.rc THEN {<<c, "ok">>} ELSE {})
      /\ UNCHANGED <<running, client, comm, budget>>
  BY DEF FlushSub, Marked
<1>3. /\ q \in ReqcRecord /\ (q.rc <=> rc) /\ (q.partial <=> reqc[c].partial)
      /\ q.status = [reqc[c].status EXCEPT ![k] = IF dev[d].rc THEN "error" ELSE "done"]
  <2>1. (IF dev[d].rc THEN "error" ELSE "done") \in Statuses
    BY DEF Statuses
  <2> HIDE DEF rc
  <2> QED
    BY <1>1, <2>1, MarkedFields
<1> HIDE DEF q
<1>4. ended \in BOOLEAN /\ (ended <=> \A i \in Media(c) : q.status[i] # "todo")
  BY DEF Ended
<1> HIDE DEF ended
<1>5. /\ r \in ReqcRecord /\ (r.rc <=> q.rc) /\ (r.partial <=> q.partial) /\ r.status = q.status
  BY <1>3, <1>4, CountedFields
<1> HIDE DEF r
<1>6. /\ \A p \in Clients : p # c => reqc'[p] = reqc[p]
      /\ reqc'[c] = r /\ reqc' \in [Clients -> ReqcRecord]
  BY <1>2, <1>5, Types
<1>7. /\ v \in DevRecord /\ v.state = dev[d].state /\ v.rc = dev[d].rc /\ v.dirty = dev[d].dirty
      /\ v.tosync = dev[d].tosync \ {s} /\ v.io = dev[d].io /\ v.wait = dev[d].wait
      /\ v.pc # "idle" /\ (v.pc = "report" <=> v.sub # NoSub)
  <2>1. dev[d].sub = NoSub /\ s \in Clients \X Slots /\ s # NoSub
    BY <1>1, Types, NoneAssumption
  <2>2. (IF first /\ ~ended THEN "report" ELSE dev[d].pc) \in {"flush", "report"}
        /\ (IF first /\ ~ended THEN s ELSE dev[d].sub) \in (Clients \X Slots) \cup {NoSub}
    BY <1>1, <2>1
  <2> HIDE DEF s, first
  <2>3. v \in DevRecord
    BY <1>1, <2>2 DEF DevRecord
  <2>4. /\ v.state = dev[d].state /\ v.rc = dev[d].rc /\ v.dirty = dev[d].dirty
        /\ v.tosync = dev[d].tosync \ {s} /\ v.io = dev[d].io /\ v.wait = dev[d].wait
        /\ v.pc = IF first /\ ~ended THEN "report" ELSE dev[d].pc
        /\ v.sub = IF first /\ ~ended THEN s ELSE dev[d].sub
    BY <1>1 DEF DevRecord
  <2> HIDE DEF v
  <2> QED
    BY <1>1, <2>1, <2>3, <2>4
<1> HIDE DEF v
<1>8. /\ w \in DevRecord /\ w.state = v.state /\ w.rc = v.rc /\ w.dirty = v.dirty
      /\ w.tosync = v.tosync /\ w.pc = v.pc /\ w.sub = v.sub
      /\ IF ~q.partial THEN w.io = v.io /\ w.wait = v.wait
         ELSE IF q.rc
         THEN /\ w.io = v.io \ {c} /\ w.wait = IF c \in v.io THEN v.wait ELSE v.wait \ {c}
         ELSE /\ w.wait = v.wait \ {c} /\ w.io = IF c \in v.wait THEN v.io \cup {c} ELSE v.io
  <2>1. CASE ~q.partial
    BY <1>7, <2>1
  <2>2. CASE q.partial /\ q.rc
    <3>1. w = CleanIo(v, c)
      BY <2>2
    <3> HIDE DEF w
    <3> QED
      BY <1>7, <2>2, <3>1, CleanIoFields DEF Touched
  <2>3. CASE q.partial /\ ~q.rc
    <3>1. w = MoveBack(v, c)
      BY <2>3
    <3> HIDE DEF w
    <3> QED
      BY <1>7, <2>3, <3>1, MoveBackFields DEF Touched
  <2> QED
    BY <2>1, <2>2, <2>3
<1> HIDE DEF w
<1>9. Others(d) /\ dev'[d] = w /\ dev' \in [Devices -> DevRecord]
  BY <1>2, <1>8, Types DEF Others
<1>10. \A e \in Devices : dev'[e].pc = "report" <=> dev'[e].sub # NoSub
  BY <1>7, <1>8, <1>9, Types DEF Others
<1>11. resp' \subseteq Clients \X {"ok", "error"}
  BY <1>2, Types
<1>12. TypeOK'
  BY <1>2, <1>6, <1>9, <1>10, <1>11, Types, TypeIntro, BudgetsKept
<1>13. \A i \in Slots : i # k => reqc'[c].status[i] = reqc[c].status[i]
  BY <1>1, <1>3, <1>5, <1>6 DEF ReqcRecord
<1>14. \A p \in Clients : <<p, "ok">> \in resp' =>
              \/ <<p, "ok">> \in resp
              \/ p = c /\ ~reqc'[c].rc /\ \A i \in Media(c) : reqc'[c].status[i] # "todo"
  BY <1>2, <1>4, <1>5, <1>6
<1> QED
  BY <1>1, <1>2, <1>3, <1>5, <1>6, <1>7, <1>8, <1>9, <1>12, <1>13, <1>14 DEF FlushesSub

\* The device only changes how it works on its releases.
Reworked(v, w) ==
    /\ w \in DevRecord /\ w.tosync = v.tosync /\ w.io = v.io /\ w.wait = v.wait
    /\ w.pc = "report" <=> w.sub # NoSub

LEMMA ReworkedDev ==
  ASSUME TypeOK, NEW d \in Devices, NEW w, dev' = [dev EXCEPT ![d] = w],
         Reworked(dev[d], w), running' \in BOOLEAN, UNCHANGED <<client, comm>>,
         reqc' \in [Clients -> ReqcRecord], resp' \subseteq Clients \X {"ok", "error"}, Budgets'
  PROVE  TypeOK' /\ Others(d) /\ dev'[d] = w
<1>1. Others(d) /\ dev'[d] = w /\ dev' \in [Devices -> DevRecord]
  BY Types DEF Others, Reworked
<1>2. \A e \in Devices : dev'[e].pc = "report" <=> dev'[e].sub # NoSub
  BY <1>1, Types DEF Others, Reworked
<1>3. TypeOK'
  BY <1>1, <1>2, Types, TypeIntro
<1> QED
  BY <1>1, <1>3

LEMMA CheckNeedsSyncEffect ==
  ASSUME TypeOK, NEW d \in Devices, CheckNeedsSync(d)
  PROVE  /\ TypeOK' /\ Others(d) /\ Reworked(dev[d], dev'[d]) /\ UNCHANGED <<client, reqc, resp, comm>>
         /\ dev'[d].pc = dev[d].pc /\ dev'[d].rc = dev[d].rc
         /\ dev'[d].dirty = dev[d].dirty /\ dev'[d].state = dev[d].state
<1> DEFINE w == [dev[d] EXCEPT !.needs = TRUE, !.blocking = ~running]
<1>1. dev' = [dev EXCEPT ![d] = w] /\ UNCHANGED <<running, client, reqc, resp, comm, budget>>
  BY Types DEF CheckNeedsSync
<1>2. dev[d] \in DevRecord /\ (~running) \in BOOLEAN /\ (dev[d].pc = "report" <=> dev[d].sub # NoSub)
  BY Types
<1>3. /\ Reworked(dev[d], w) /\ w.pc = dev[d].pc /\ w.rc = dev[d].rc
      /\ w.dirty = dev[d].dirty /\ w.state = dev[d].state
  BY <1>2 DEF Reworked, DevRecord
<1> HIDE DEF w
<1>4. TypeOK' /\ Others(d) /\ dev'[d] = w
  BY <1>1, <1>3, Types, ReworkedDev, BudgetsKept
<1> QED
  BY <1>1, <1>3, <1>4

LEMMA DevSyncEffect ==
  ASSUME TypeOK, NEW d \in Devices, NEW ok \in BOOLEAN, NEW dies \in BOOLEAN, DevSync(d, ok, dies)
  PROVE  /\ TypeOK' /\ Others(d) /\ Reworked(dev[d], dev'[d]) /\ UNCHANGED <<client, reqc, resp, comm>>
         /\ dev[d].state = "running" /\ dev'[d].state = "running" /\ dev'[d].pc = "flush"
         /\ dev'[d].rc <=> ~ok
         /\ dev'[d].dirty \subseteq dev[d].dirty
         /\ ok => dev'[d].dirty = {}
<1> DEFINE w == [dev[d] EXCEPT !.pc = "flush", !.rc = ~ok, !.dies = dies,
                               !.dirty = IF ok THEN {} ELSE @]
<1>1. dev' = [dev EXCEPT ![d] = w] /\ UNCHANGED <<running, client, reqc, resp, comm>>
      /\ dev[d].state = "running" /\ dev[d].pc = "idle"
  BY Types DEF DevSync
<1>2. dev[d] \in DevRecord /\ (~ok) \in BOOLEAN /\ dev[d].sub = NoSub
  BY <1>1, Types
<1>3. /\ Reworked(dev[d], w) /\ w.pc = "flush" /\ (w.rc <=> ~ok)
      /\ w.dirty \subseteq dev[d].dirty /\ (ok => w.dirty = {}) /\ w.state = dev[d].state
  <2>1. (IF ok THEN {} ELSE dev[d].dirty) \in SUBSET Clients
    BY <1>2 DEF DevRecord
  <2>2. /\ w \in DevRecord /\ w.tosync = dev[d].tosync /\ w.io = dev[d].io /\ w.wait = dev[d].wait
        /\ w.sub = NoSub /\ w.pc = "flush" /\ (w.rc <=> ~ok) /\ w.state = dev[d].state
        /\ w.dirty = IF ok THEN {} ELSE dev[d].dirty
    BY ZenonT(60), <1>2, <2>1 DEF DevRecord
  <2> HIDE DEF w
  <2> QED
    BY <2>2 DEF Reworked
<1> HIDE DEF w
<1>4. Budgets'
  BY BoundAssumption DEF DevSync, TypeOK, Budgets
<1>5. TypeOK' /\ Others(d) /\ dev'[d] = w
  BY <1>1, <1>3, <1>4, Types, ReworkedDev
<1> QED
  BY <1>1, <1>3, <1>5

LEMMA FlushReportEffect ==
  ASSUME TypeOK, NEW d \in Devices, FlushReport(d)
  PROVE  /\ TypeOK' /\ Others(d) /\ Reworked(dev[d], dev'[d]) /\ UNCHANGED <<client, comm>>
         /\ dev[d].pc = "report" /\ dev'[d].pc = "flush" /\ dev'[d].rc = dev[d].rc
         /\ dev'[d].dirty = dev[d].dirty /\ dev'[d].state = dev[d].state
         /\ \A c \in Clients : <<c, "ok">> \in resp' <=> <<c, "ok">> \in resp
         /\ \A c \in Clients : /\ reqc'[c].rc <=> reqc[c].rc
                               /\ reqc'[c].partial <=> reqc[c].partial
                               /\ reqc'[c].status = reqc[c].status
<1> DEFINE w == [dev[d] EXCEPT !.pc = "flush", !.sub = NoSub]
           c == dev[d].sub[1]
           r == Answered(reqc[c], TRUE)
<1>1. /\ dev' = [dev EXCEPT ![d] = w] /\ UNCHANGED <<running, client, comm, budget>>
      /\ dev[d].pc = "report" /\ resp' = resp \cup {<<c, "error">>}
      /\ reqc' = [reqc EXCEPT ![c] = r]
  BY Types DEF FlushReport, Answered
<1>2. dev[d] \in DevRecord /\ c \in Clients
  <2>1. dev[d].sub \in Clients \X Slots
    BY <1>1, Types DEF DevRecord
  <2> QED
    BY <2>1, Types
<1> HIDE DEF c
<1>3. /\ Reworked(dev[d], w) /\ w.pc = "flush" /\ w.rc = dev[d].rc
      /\ w.dirty = dev[d].dirty /\ w.state = dev[d].state
  BY <1>2 DEF Reworked, DevRecord
<1> HIDE DEF w
<1>4. r \in ReqcRecord /\ (r.rc <=> reqc[c].rc) /\ (r.partial <=> reqc[c].partial)
      /\ r.status = reqc[c].status
  BY <1>2, Types DEF Answered, ReqcRecord
<1> HIDE DEF r
<1>5. /\ reqc' \in [Clients -> ReqcRecord]
      /\ \A p \in Clients : /\ reqc'[p].rc <=> reqc[p].rc
                            /\ reqc'[p].partial <=> reqc[p].partial
                            /\ reqc'[p].status = reqc[p].status
  BY <1>1, <1>4, Types
<1>6. /\ resp' \subseteq Clients \X {"ok", "error"}
      /\ \A p \in Clients : <<p, "ok">> \in resp' <=> <<p, "ok">> \in resp
  BY <1>1, <1>2, Types
<1>7. TypeOK' /\ Others(d) /\ dev'[d] = w
  BY <1>1, <1>3, <1>5, <1>6, Types, ReworkedDev, BudgetsKept
<1> QED
  BY <1>1, <1>3, <1>5, <1>6, <1>7

LEMMA FlushEndEffect ==
  ASSUME TypeOK, NEW d \in Devices, FlushEnd(d)
  PROVE  /\ TypeOK' /\ Others(d) /\ Reworked(dev[d], dev'[d]) /\ UNCHANGED <<client, reqc, resp, comm>>
         /\ dev[d].pc = "flush" /\ dev'[d].pc = "idle" /\ dev[d].tosync = {}
         /\ dev'[d].dirty = dev[d].dirty
         /\ dev'[d].state \in {dev[d].state, "dying"}
<1> DEFINE ld == dev[d].loaded /\ ~dev[d].dies
           st == IF dev[d].dies THEN "dying" ELSE dev[d].state
           w == [dev[d] EXCEPT !.pc = "idle", !.needs = FALSE, !.blocking = FALSE,
                   !.dies = FALSE, !.rc = FALSE, !.loaded = ld, !.state = st]
<1>1. dev' = [dev EXCEPT ![d] = w] /\ UNCHANGED <<running, client, reqc, resp, comm, budget>>
      /\ dev[d].pc = "flush" /\ dev[d].tosync = {}
  BY Types DEF FlushEnd
<1>2. dev[d] \in DevRecord /\ dev[d].sub = NoSub /\ ld \in BOOLEAN
      /\ st \in {"running", "dying", "cleaned", "ended"} /\ st \in {dev[d].state, "dying"}
  BY <1>1, Types DEF DevRecord
<1> HIDE DEF ld, st
<1>3. /\ Reworked(dev[d], w) /\ w.pc = "idle" /\ w.dirty = dev[d].dirty /\ w.state = st
  <2>1. /\ w \in DevRecord /\ w.tosync = dev[d].tosync /\ w.io = dev[d].io /\ w.wait = dev[d].wait
        /\ w.sub = NoSub /\ w.pc = "idle" /\ w.dirty = dev[d].dirty /\ w.state = st
    BY ZenonT(60), <1>2 DEF DevRecord
  <2> HIDE DEF w
  <2> QED
    BY <2>1 DEF Reworked
<1> HIDE DEF w
<1>4. TypeOK' /\ Others(d) /\ dev'[d] = w
  BY <1>1, <1>3, Types, ReworkedDev, BudgetsKept
<1> QED
  BY <1>1, <1>2, <1>3, <1>4

LEMMA CleanTosyncEffect ==
  ASSUME TypeOK, NEW d \in Devices, CleanTosync(d)
  PROVE  \/ /\ TypeOK' /\ Others(d) /\ Reworked(dev[d], dev'[d])
            /\ UNCHANGED <<client, reqc, resp, comm>>
            /\ dev[d].state = "dying" /\ dev'[d].state = "cleaned" /\ dev'[d].pc = "flush"
            /\ dev'[d].rc /\ dev'[d].dirty = dev[d].dirty
         \/ dev[d].pc = "report"
<1> DEFINE w == [dev[d] EXCEPT !.state = "cleaned", !.pc = "flush", !.rc = TRUE]
<1>1. dev' = [dev EXCEPT ![d] = w] /\ UNCHANGED <<running, client, reqc, resp, comm, budget>>
      /\ dev[d].state = "dying"
  BY Types DEF CleanTosync
<1>2. CASE dev[d].pc # "report"
  <2>1. dev[d] \in DevRecord /\ dev[d].sub = NoSub
    BY <1>2, Types
  <2>2. /\ Reworked(dev[d], w) /\ w.pc = "flush" /\ w.rc
        /\ w.dirty = dev[d].dirty /\ w.state = "cleaned"
    BY <2>1 DEF Reworked, DevRecord
  <2> HIDE DEF w
  <2>3. TypeOK' /\ Others(d) /\ dev'[d] = w
    BY <1>1, <2>2, Types, ReworkedDev, BudgetsKept
  <2> QED
    BY <1>1, <2>2, <2>3
<1> QED
  BY <1>2

LEMMA DevEndEffect ==
  ASSUME TypeOK, NEW d \in Devices, DevEnd(d)
  PROVE  /\ TypeOK' /\ Others(d) /\ UNCHANGED <<client, reqc, resp, comm>>
         /\ dev[d].pc = "idle" /\ dev'[d].pc = "idle" /\ dev'[d].dirty = dev[d].dirty
         /\ dev'[d].tosync = dev[d].tosync /\ dev'[d].state = "ended"
         /\ dev'[d].io = {} /\ dev'[d].wait = {}
<1> DEFINE w == [dev[d] EXCEPT !.state = "ended", !.io = {}, !.wait = {}]
<1>1. dev' = [dev EXCEPT ![d] = w] /\ UNCHANGED <<running, client, reqc, resp, comm, budget>>
      /\ dev[d].pc = "idle"
  BY Types DEF DevEnd
<1>2. dev[d] \in DevRecord /\ dev[d].sub = NoSub
  BY <1>1, Types
<1>3. /\ w \in DevRecord /\ w.pc = "idle" /\ w.sub = NoSub /\ w.dirty = dev[d].dirty
      /\ w.state = "ended" /\ w.io = {} /\ w.wait = {} /\ w.tosync = dev[d].tosync
  BY <1>1, <1>2 DEF DevRecord
<1> HIDE DEF w
<1>4. Others(d) /\ dev'[d] = w /\ dev' \in [Devices -> DevRecord]
  BY <1>1, <1>3, Types DEF Others
<1>5. \A e \in Devices : dev'[e].pc = "report" <=> dev'[e].sub # NoSub
  BY <1>3, <1>4, Types DEF Others
<1>6. TypeOK'
  BY <1>1, <1>4, <1>5, Types, TypeIntro, BudgetsKept
<1> QED
  BY <1>1, <1>3, <1>4, <1>6
-----------------------------------------------------------------------------
(* SyncInv is inductive.                                                   *)

LEMMA DevTypes ==
  /\ \A c \in Clients : Media(c) \subseteq Slots /\ DevsOf(c) \subseteq Devices
  /\ \A c \in Clients : \A i \in Media(c) : DevOf[c][i] \in DevsOf(c) /\ i \in Slots
                                            /\ DevOf[c][i] \in Devices
  /\ \A c \in Clients : \A i, j \in Media(c) : DevOf[c][i] = DevOf[c][j] => i = j
<1>1. \A c \in Clients : Media(c) \subseteq Slots
  BY ClientAssumption, BoundAssumption DEF Media, Slots
<1> QED
  BY <1>1, ClientAssumption DEF DevsOf, Media

LEMMA InitSync == Init => SyncInv
<1> SUFFICES ASSUME Init PROVE SyncInv
  OBVIOUS
<1>1. NewDev \in DevRecord /\ NewDev.tosync = {} /\ NewDev.pc = "idle" /\ NewDev.dirty = {}
      /\ NewDev.sub = NoSub /\ NewDev.io = {} /\ NewDev.wait = {}
  BY DEF NewDev, DevRecord
<1>2. NewReqc(FALSE) \in ReqcRecord /\ \A i \in Slots : NewReqc(FALSE).status[i] = "todo"
  BY DEF NewReqc, ReqcRecord, Statuses
<1>3. /\ dev \in [Devices -> DevRecord] /\ reqc \in [Clients -> ReqcRecord]
      /\ client \in [Clients -> ClientStates] /\ comm \in CommRecord
      /\ \A d \in Devices : dev[d].pc = "report" <=> dev[d].sub # NoSub
      /\ \A d \in Devices : dev[d].tosync = {} /\ dev[d].pc = "idle" /\ dev[d].dirty = {}
      /\ \A c \in Clients, i \in Slots : reqc[c].status[i] = "todo"
      /\ comm = CommIdle /\ resp = {} /\ running = TRUE /\ \A c \in Clients : client[c] = "idle"
  BY <1>1, <1>2, CommIdleFields DEF Init, ClientStates
<1>4. Budgets
  BY BoundAssumption DEF Init, Budgets
<1>5. TypeOK
  BY <1>3, <1>4, CommIdleFields DEF TypeOK, DevRecord, ReqcRecord, CommRecord, Budgets
<1>6. /\ Stopped /\ Releasing /\ Unreached /\ Quiet /\ Succeeded /\ Pending /\ Flushing
      /\ DurableAnswer
  BY <1>3, CommIdleFields
  DEF Stopped, Releasing, Unreached, Quiet, Succeeded, Pending, Flushing, DurableAnswer
<1>7. Synced
  BY <1>3, DevTypes DEF Synced
<1> QED
  BY <1>5, <1>6, <1>7 DEF SyncInv

\* A device works on its releases, and cleans at most what was dirty.
LEMMA SyncDevice ==
  ASSUME SyncInv, TypeOK', Stopped', UNCHANGED <<client, comm>>,
         \A c \in Clients : <<c, "ok">> \in resp' => <<c, "ok">> \in resp,
         \A c \in Clients : (reqc'[c].rc <=> reqc[c].rc) /\ reqc'[c].status = reqc[c].status,
         \A d \in Devices : dev'[d].tosync = dev[d].tosync /\ dev'[d].dirty \subseteq dev[d].dirty,
         Flushing'
  PROVE  SyncInv'
<1>1. Releasing' /\ Quiet' /\ Succeeded' /\ DurableAnswer'
  BY DevTypes DEF SyncInv, Releasing, Quiet, Succeeded, DurableAnswer
<1>2. Unreached'
  <2>1. comm.pc \in {"find", "push"} \/ comm.failed => comm.c \in Clients
    BY Types DEF SyncInv, Releasing
  <2> QED
    BY <2>1 DEF SyncInv, Unreached
<1>3. Pending' /\ Synced'
  BY DevTypes DEF SyncInv, Pending, Synced, Sound
<1> QED
  BY <1>1, <1>2, <1>3 DEF SyncInv

LEMMA SyncDeviceSteps ==
  ASSUME SyncInv, NEW d \in Devices,
         \/ CheckNeedsSync(d) \/ FlushReport(d) \/ FlushEnd(d) \/ CleanTosync(d) \/ DevEnd(d)
         \/ \E ok, dies \in BOOLEAN : DevSync(d, ok, dies)
  PROVE  SyncInv'
<1>t. TypeOK
  BY DEF SyncInv
<1>1. CASE CheckNeedsSync(d)
  <2>1. Stopped' /\ Flushing'
    BY <1>t, <1>1, CheckNeedsSyncEffect DEF SyncInv, Stopped, Flushing, Others, Reworked
  <2> QED
    BY <1>t, <1>1, <2>1, CheckNeedsSyncEffect, SyncDevice DEF Others, Reworked
<1>2. CASE FlushReport(d)
  <2>1. Stopped' /\ Flushing'
    BY <1>t, <1>2, FlushReportEffect DEF SyncInv, Stopped, Flushing, Others, Reworked
  <2> QED
    BY <1>t, <1>2, <2>1, FlushReportEffect, SyncDevice DEF Others, Reworked
<1>3. CASE FlushEnd(d)
  <2>1. Stopped' /\ Flushing'
    BY <1>t, <1>3, FlushEndEffect DEF SyncInv, Stopped, Flushing, Others, Reworked
  <2> QED
    BY <1>t, <1>3, <2>1, FlushEndEffect, SyncDevice DEF Others, Reworked
<1>4. CASE CleanTosync(d)
  <2>0. dev[d].pc # "report"
    BY <1>4 DEF SyncInv, Stopped, CleanTosync
  <2>1. Stopped' /\ Flushing'
    BY <1>t, <1>4, <2>0, CleanTosyncEffect DEF SyncInv, Stopped, Flushing, Others, Reworked
  <2> QED
    BY <1>t, <1>4, <2>0, <2>1, CleanTosyncEffect, SyncDevice DEF Others, Reworked
<1>5. CASE DevEnd(d)
  <2>1. Stopped' /\ Flushing'
    BY <1>t, <1>5, DevEndEffect DEF SyncInv, Stopped, Flushing, Others
  <2> QED
    BY <1>t, <1>5, <2>1, DevEndEffect, SyncDevice DEF Others
<1>6. ASSUME NEW ok \in BOOLEAN, NEW dies \in BOOLEAN, DevSync(d, ok, dies)
      PROVE  SyncInv'
  <2>1. Stopped' /\ Flushing'
    BY <1>t, <1>6, DevSyncEffect DEF SyncInv, Stopped, Flushing, Others, Reworked
  <2> QED
    BY <1>t, <1>6, <2>1, DevSyncEffect, SyncDevice DEF Others, Reworked
<1> QED
  BY <1>1, <1>2, <1>3, <1>4, <1>5, <1>6

LEMMA SyncBegin ==
  ASSUME SyncInv, NEW c \in Clients, Begin(c)
  PROVE  SyncInv'
<1>t. TypeOK /\ Releasing /\ client \in [Clients -> ClientStates]
  BY Types DEF SyncInv
<1>1. /\ TypeOK' /\ client[c] = "idle" /\ client' = [client EXCEPT ![c] = "writing"]
      /\ reqc' = reqc /\ resp' = resp /\ comm' = comm
      /\ \A d \in Devices :
           /\ dev'[d].tosync = dev[d].tosync /\ dev'[d].dirty = dev[d].dirty
           /\ dev'[d].pc = dev[d].pc /\ dev'[d].rc = dev[d].rc /\ dev'[d].state = dev[d].state
  BY <1>t, BeginEffect DEF Touched
<1>2. Releasing' /\ Stopped' /\ Quiet' /\ Succeeded' /\ Flushing' /\ DurableAnswer'
  BY <1>t, <1>1, DevTypes
  DEF SyncInv, Releasing, Stopped, Quiet, Succeeded, Flushing, DurableAnswer, ClientStates
<1>3. Unreached' /\ Pending' /\ Synced'
  BY <1>1, DevTypes DEF SyncInv, Unreached, Pending, Synced, Sound
<1> QED
  BY <1>1, <1>2, <1>3 DEF SyncInv

LEMMA SyncReleaseStart ==
  ASSUME SyncInv, NEW c \in Clients, NEW partial \in BOOLEAN, ReleaseStart(c, partial)
  PROVE  SyncInv'
<1>t. TypeOK /\ client \in [Clients -> ClientStates] /\ (comm.pc = "idle" => comm.c \notin Clients)
  BY Types, NoneAssumption DEF SyncInv
<1>1. /\ TypeOK' /\ client[c] = "writing" /\ client' = [client EXCEPT ![c] = "waiting"]
      /\ resp' = resp /\ comm.pc = "idle"
      /\ comm'.pc = "find" /\ comm'.c = c /\ comm'.i = 1 /\ comm'.idx = 0 /\ ~comm'.failed
      /\ \A q \in Clients : q # c => reqc'[q] = reqc[q]
      /\ \A i \in Slots : reqc'[c].status[i] = "todo"
      /\ \A d \in Devices :
           /\ dev'[d].tosync = dev[d].tosync
           /\ dev'[d].pc = dev[d].pc /\ dev'[d].rc = dev[d].rc /\ dev'[d].state = dev[d].state
  <2>1. ReleaseStarts(c, partial)
    BY <1>t, ReleaseStartEffect
  <2> QED
    BY <2>1 DEF ReleaseStarts
<1>d. \A d \in Devices, p \in Clients : p # c => (p \in dev'[d].dirty <=> p \in dev[d].dirty)
  <2>1. ReleaseStarts(c, partial)
    BY <1>t, ReleaseStartEffect
  <2>2. \A d \in Devices :
          dev'[d].dirty = IF d \in DevsOf(c) THEN dev[d].dirty \cup {c} ELSE dev[d].dirty
    BY <2>1 DEF ReleaseStarts
  <2> QED
    BY <2>2
<1>2. <<c, "ok">> \notin resp /\ \A d \in Devices, i \in Slots : <<c, i>> \notin dev[d].tosync
  BY <1>1 DEF SyncInv, Quiet
<1>3. Releasing'
  BY <1>1, ClientAssumption DEF Releasing, Media, Slots
<1>4. Unreached' /\ Stopped'
  <2>1. Unreached'
    BY <1>1, <1>2 DEF Unreached
  <2>2. Stopped'
    BY <1>1 DEF SyncInv, Stopped
  <2> QED
    BY <2>1, <2>2
<1>e. /\ resp' = resp /\ client'[c] = "waiting" /\ comm'.c = c /\ ~comm'.failed
      /\ \A p \in Clients : p # c => client'[p] = client[p] /\ reqc'[p] = reqc[p]
      /\ \A i \in Slots : reqc'[c].status[i] = "todo"
      /\ \A p \in Clients : p # c => (Sound(p)' => Sound(p))
      /\ \A d \in Devices : /\ dev'[d].tosync = dev[d].tosync
                            /\ dev'[d].pc = dev[d].pc /\ dev'[d].rc = dev[d].rc
  BY <1>t, <1>1 DEF Sound
<1>5. Quiet' /\ Succeeded'
  BY <1>e, <1>2 DEF SyncInv, Quiet, Succeeded
<1>6. Flushing' /\ DurableAnswer'
  BY <1>e, <1>d, <1>2, DevTypes DEF SyncInv, Flushing, DurableAnswer
<1>7. Pending'
  BY <1>e, <1>2 DEF SyncInv, Pending
<1>8. Synced'
  BY <1>e, <1>d, DevTypes DEF SyncInv, Synced
<1> QED
  BY <1>1, <1>3, <1>4, <1>5, <1>6, <1>7, <1>8 DEF SyncInv

LEMMA SyncReleaseFound ==
  ASSUME SyncInv, ReleaseFound
  PROVE  SyncInv'
<1>t. TypeOK
  BY DEF SyncInv
<1>1. /\ TypeOK' /\ comm.pc = "find" /\ UNCHANGED <<client, reqc, resp, dev>>
      /\ comm'.pc = "push" /\ comm'.c = comm.c /\ comm'.i = comm.i
      /\ comm'.idx = comm.idx /\ comm'.failed = comm.failed
  BY <1>t, ReleaseFoundEffect
<1>2. Releasing' /\ Stopped' /\ Quiet' /\ Succeeded' /\ Flushing' /\ DurableAnswer'
  BY <1>1 DEF SyncInv, Releasing, Stopped, Quiet, Succeeded, Flushing, DurableAnswer
<1>3. Unreached' /\ Pending' /\ Synced'
  BY <1>1 DEF SyncInv, Unreached, Pending, Synced, Sound
<1> QED
  BY <1>1, <1>2, <1>3 DEF SyncInv

\* The medium that could not be released is the one that stays "todo".
LEMMA SyncReleaseNotFound ==
  ASSUME SyncInv, ReleaseNotFound
  PROVE  SyncInv'
<1>t. TypeOK /\ Releasing
  BY DEF SyncInv
<1>1. TypeOK' /\ NextMedium(TRUE) /\ comm.pc = "find" /\ UNCHANGED <<client, reqc, resp, dev>>
  BY <1>t, ReleaseNotFoundEffect
<1>2. /\ comm'.c = comm.c /\ comm'.i = comm.i + 1 /\ comm'.pc \in {"find", "end"}
      /\ comm'.pc = "find" <=> comm.i # NMedia[comm.c]
      /\ comm'.failed
      /\ comm'.idx = IF comm.failed THEN comm.idx ELSE comm.idx + 1
  BY <1>t, <1>1, NextMediumEffect
<1>3. /\ comm.c \in Clients /\ comm.idx + 1 \in Slots /\ comm.i \in Media(comm.c)
      /\ comm.idx + 1 \in Media(comm.c) /\ comm.idx \in Nat /\ comm.i \in Nat
      /\ NMedia[comm.c] \in Nat
  <2>1. NMedia[comm.c] \in 1..MaxMedia /\ comm.idx \in 0..MaxMedia /\ comm.i \in 1..(MaxMedia + 1)
    BY <1>t, <1>1, MineTypes, Types, ClientAssumption DEF Slots, CommRecord
  <2> QED
    BY <1>t, <1>1, <2>1, MineTypes, BoundAssumption
<1>4. Releasing'
  BY <1>1, <1>2, <1>3 DEF SyncInv, Releasing, Media
<1>5. Unreached'
  BY <1>1, <1>2, <1>3 DEF SyncInv, Unreached
<1>6. Stopped' /\ Quiet' /\ Succeeded' /\ Flushing' /\ DurableAnswer'
  BY <1>1, <1>2 DEF SyncInv, Stopped, Quiet, Succeeded, Flushing, DurableAnswer
<1>7. Pending' /\ Synced'
  BY <1>1, <1>2 DEF SyncInv, Pending, Synced, Sound
<1> QED
  BY <1>1, <1>4, <1>5, <1>6, <1>7 DEF SyncInv

LEMMA SyncReleaseDone ==
  ASSUME SyncInv, ReleaseDone
  PROVE  SyncInv'
<1>t. TypeOK
  BY DEF SyncInv
<1>1. /\ TypeOK' /\ ~comm.failed /\ UNCHANGED <<client, reqc, resp, dev>>
      /\ comm'.pc = "idle" /\ comm'.c \notin Clients /\ comm'.failed = FALSE
  BY <1>t, ReleaseDoneEffect, CommIdleFields
<1>2. Releasing' /\ Unreached' /\ Stopped' /\ Quiet' /\ Succeeded' /\ Flushing' /\ DurableAnswer'
  BY <1>1 DEF SyncInv, Releasing, Unreached, Stopped, Quiet, Succeeded, Flushing, DurableAnswer
<1>3. Pending' /\ Synced'
  BY <1>1 DEF SyncInv, Pending, Synced, Sound
<1> QED
  BY <1>1, <1>2, <1>3 DEF SyncInv

LEMMA SyncReleaseError ==
  ASSUME SyncInv, ReleaseError
  PROVE  SyncInv'
<1>t. TypeOK
  BY DEF SyncInv
<1>1. /\ TypeOK' /\ comm.pc = "end" /\ comm.c \in Clients /\ UNCHANGED <<client, dev>>
      /\ comm'.pc = "idle" /\ comm'.c \notin Clients /\ comm'.failed = FALSE
      /\ \A p \in Clients : <<p, "ok">> \in resp' <=> <<p, "ok">> \in resp
      /\ \A q \in Clients : q # comm.c => reqc'[q] = reqc[q]
      /\ reqc'[comm.c].rc
  BY <1>t, ReleaseErrorEffect, CommIdleFields
<1>2. Releasing' /\ Unreached' /\ Stopped' /\ Succeeded' /\ Flushing' /\ DurableAnswer'
  BY <1>1 DEF SyncInv, Releasing, Unreached, Stopped, Succeeded, Flushing, DurableAnswer
<1>3. Quiet'
  BY <1>1 DEF SyncInv, Quiet
<1>4. Pending' /\ Synced'
  BY <1>1 DEF SyncInv, Pending, Synced, Sound
<1> QED
  BY <1>1, <1>2, <1>3, <1>4 DEF SyncInv

LEMMA SyncSend ==
  ASSUME SyncInv, NEW c \in Clients, NEW kind \in {"ok", "error"}, Send(c, kind)
  PROVE  SyncInv'
<1>t. TypeOK /\ (comm.pc = "idle" => comm.c \notin Clients)
  BY Types, NoneAssumption DEF SyncInv
<1>1. /\ TypeOK' /\ comm.pc = "idle" /\ <<c, kind>> \in resp /\ resp' = resp \ {<<c, kind>>}
      /\ UNCHANGED <<reqc, comm, dev>>
      /\ \A p \in Clients : p # c => client'[p] = client[p]
      /\ client[c] = "gone" => client'[c] = "gone"
      /\ client[c] # "gone" =>
           client'[c] = IF kind = "error" THEN "failed"
                        ELSE IF reqc[c].partial THEN "writing" ELSE "done"
  BY <1>t, SendEffect
<1>2. Releasing' /\ Unreached' /\ Stopped' /\ Succeeded' /\ Flushing' /\ Pending' /\ Synced'
  BY <1>t, <1>1 DEF SyncInv, Releasing, Unreached, Stopped, Succeeded, Flushing,
                    Pending, Synced, Sound
<1>3. Quiet' /\ DurableAnswer'
  BY <1>t, <1>1 DEF SyncInv, Quiet, Succeeded, DurableAnswer
<1> QED
  BY <1>1, <1>2, <1>3 DEF SyncInv

LEMMA SyncClose ==
  ASSUME SyncInv, NEW c \in Clients, Close(c)
  PROVE  SyncInv'
<1>t. TypeOK /\ (comm.pc = "idle" => comm.c \notin Clients) /\ client \in [Clients -> ClientStates]
  BY Types, NoneAssumption DEF SyncInv
<1>1. /\ TypeOK' /\ comm.pc = "idle" /\ client' = [client EXCEPT ![c] = "gone"]
      /\ UNCHANGED <<reqc, resp, dev>>
      /\ comm'.pc = "close" /\ comm'.c = c /\ comm'.failed = FALSE
  BY <1>t, CloseEffect
<1>2. ~comm.failed
  BY <1>1 DEF SyncInv, Releasing
<1>3. Releasing' /\ Unreached' /\ Stopped' /\ Flushing' /\ Pending' /\ Synced'
  BY <1>t, <1>1, <1>2 DEF SyncInv, Releasing, Unreached, Stopped, Flushing, Pending, Synced, Sound
<1>4. Quiet' /\ Succeeded' /\ DurableAnswer'
  BY <1>t, <1>1 DEF SyncInv, Quiet, Succeeded, DurableAnswer
<1> QED
  BY <1>1, <1>3, <1>4 DEF SyncInv

LEMMA SyncCloseDevice ==
  ASSUME SyncInv, NEW d \in Devices, CloseDevice(d)
  PROVE  SyncInv'
<1>t. TypeOK
  BY DEF SyncInv
<1>1. /\ TypeOK' /\ comm.pc = "close" /\ UNCHANGED <<client, reqc, resp>>
      /\ \/ comm'.pc = "idle" /\ comm'.c \notin Clients /\ comm'.failed = FALSE
         \/ comm'.pc = "close" /\ comm'.c = comm.c /\ comm'.failed = comm.failed
  BY <1>t, CloseDeviceEffect, CommIdleFields
<1>2. \A e \in Devices :
        /\ dev'[e].tosync = dev[e].tosync /\ dev'[e].dirty = dev[e].dirty
        /\ dev'[e].pc = dev[e].pc /\ dev'[e].rc = dev[e].rc /\ dev'[e].state = dev[e].state
  <2>1. /\ Others(d) /\ dev'[d] = CleanIo(dev[d], comm.c) /\ dev[d] \in DevRecord
        /\ comm.c \in Clients
    BY <1>t, CloseDeviceEffect
  <2>2. Touched(dev[d], CleanIo(dev[d], comm.c)) /\ CleanIo(dev[d], comm.c).tosync = dev[d].tosync
    BY <2>1, CleanIoFields
  <2> QED
    BY <2>1, <2>2 DEF Others, Touched
<1>3. ~comm.failed
  BY <1>1 DEF SyncInv, Releasing
<1>4. Releasing' /\ Unreached' /\ Stopped' /\ Flushing' /\ Quiet' /\ Succeeded'
  BY <1>1, <1>2, <1>3 DEF SyncInv, Releasing, Unreached, Stopped, Flushing, Quiet, Succeeded
<1>5. Pending' /\ Synced' /\ DurableAnswer'
  BY <1>1, <1>2, <1>3, DevTypes DEF SyncInv, Pending, Synced, Sound, DurableAnswer
<1> QED
  BY <1>1, <1>4, <1>5 DEF SyncInv

\* The new sub-request has the index of the medium of its device, unless a
\* medium before it could not be released.
LEMMA SyncReleasePush ==
  ASSUME SyncInv, NEW db \in BOOLEAN, ReleasePush(db)
  PROVE  SyncInv'
<1>t. TypeOK /\ Releasing
  BY DEF SyncInv
<1> DEFINE c == comm.c
           k == comm.idx + 1
<1>1. /\ TypeOK' /\ comm.pc = "push" /\ UNCHANGED <<client, reqc, resp>>
      /\ Others(Mine) /\ dev[Mine].pc = "idle"
      /\ dev'[Mine] = Pushed(dev[Mine], c, k)
      /\ \/ /\ comm'.pc = "end" /\ comm'.c = c /\ comm'.idx = comm.idx
            /\ comm'.failed = comm.failed
         \/ NextMedium(FALSE)
  BY <1>t, ReleasePushEffect
<1>2. /\ c \in Clients /\ k \in Slots /\ Mine \in Devices /\ comm.i \in Media(c) /\ k \in Media(c)
      /\ (~comm.failed => comm.i = k) /\ reqc[c].partial \in BOOLEAN /\ dev[Mine] \in DevRecord
  BY <1>t, <1>1, MineTypes, Types DEF Releasing, ReqcRecord
<1>3. /\ comm'.c = c /\ comm'.pc \in {"find", "end"} /\ (comm'.failed <=> comm.failed)
      /\ comm.failed => comm'.idx = comm.idx
      /\ ~comm.failed /\ comm'.pc = "find" => comm'.idx = k
      /\ comm'.pc = "find" => comm'.i = comm.i + 1 /\ comm.i # NMedia[c]
  BY <1>t, <1>1, NextMediumEffect
<1>4. /\ Touched(dev[Mine], dev'[Mine]) /\ dev'[Mine].tosync = dev[Mine].tosync \cup {<<c, k>>}
  <2> HIDE DEF c, k
  <2>1. PushedTo(dev[Mine], c, k, Pushed(dev[Mine], c, k))
    BY <1>2, PushedFields
  <2> QED
    BY <1>1, <2>1 DEF PushedTo
<1>5. \A e \in Devices :
        /\ dev'[e].dirty = dev[e].dirty /\ dev'[e].pc = dev[e].pc
        /\ dev'[e].rc = dev[e].rc /\ dev'[e].state = dev[e].state
        /\ \A p \in Clients, i \in Slots : <<p, i>> \in dev'[e].tosync <=>
             <<p, i>> \in dev[e].tosync \/ (e = Mine /\ p = c /\ i = k)
  BY <1>1, <1>4 DEF Others, Touched
<1>6. comm.idx \in Nat /\ comm.i \in Nat /\ NMedia[c] \in Nat /\ comm.idx < comm.i
      /\ comm.i <= NMedia[c] /\ Mine = DevOf[c][comm.i]
  <2>1. NMedia[c] \in 1..MaxMedia /\ comm.idx \in 0..MaxMedia /\ comm.i \in 1..(MaxMedia + 1)
    BY <1>t, <1>2, Types, ClientAssumption DEF Slots, CommRecord
  <2> QED
    BY <1>t, <1>1, <1>2, <2>1, BoundAssumption DEF Releasing, Media, Mine
<1> HIDE DEF c
<1>7. client[c] \notin {"idle", "writing"} /\ <<c, "ok">> \notin resp
  BY <1>1, <1>2 DEF SyncInv, Quiet, Succeeded, c
<1>8. ~comm.failed => reqc[c].status[k] = "todo"
  BY <1>1, <1>2, <1>6 DEF SyncInv, Unreached, c
<1>9. Releasing'
  BY <1>1, <1>2, <1>3, <1>6 DEF SyncInv, Releasing, Media, c
<1>10. Unreached'
  <2>1. CASE comm.failed
    BY <1>1, <1>2, <1>3, <1>5, <1>6, <2>1 DEF SyncInv, Unreached, c
  <2>2. CASE ~comm.failed /\ comm'.pc = "find"
    <3>1. SUFFICES ASSUME NEW j \in Slots, j > k
                   PROVE  reqc[c].status[j] = "todo" /\ \A e \in Devices : <<c, j>> \notin dev'[e].tosync
      BY <1>1, <1>2, <1>3, <2>2 DEF Unreached
    <3>2. j > comm.idx /\ j # k
      BY <1>6, <3>1, BoundAssumption DEF Slots
    <3>3. reqc[c].status[j] = "todo" /\ \A e \in Devices : <<c, j>> \notin dev[e].tosync
      BY <1>1, <2>2, <3>2 DEF SyncInv, Unreached, c
    <3> QED
      BY <1>2, <1>5, <3>2, <3>3
  <2>3. CASE ~comm.failed /\ comm'.pc = "end"
    BY <1>3, <2>3 DEF Unreached
  <2> QED
    BY <1>3, <2>1, <2>2, <2>3
<1>11. Stopped' /\ Quiet' /\ Succeeded'
  BY <1>1, <1>2, <1>3, <1>5, <1>7 DEF SyncInv, Stopped, Quiet, Succeeded, c
<1>12. Flushing' /\ DurableAnswer'
  BY <1>1, <1>2, <1>5, DevTypes DEF SyncInv, Flushing, DurableAnswer
<1>13. Synced'
  BY <1>1, <1>2, <1>3, <1>5, DevTypes DEF SyncInv, Synced, Sound, c
<1>14. Pending'
  BY <1>1, <1>2, <1>3, <1>5, <1>6, <1>8 DEF SyncInv, Pending, Sound, c
<1> QED
  BY <1>1, <1>9, <1>10, <1>11, <1>12, <1>13, <1>14 DEF SyncInv

LEMMA SyncRemoveCanceledSync ==
  ASSUME SyncInv, NEW d \in Devices, NEW c \in Clients, NEW k \in Slots,
         RemoveCanceledSync(d, <<c, k>>)
  PROVE  SyncInv'
<1>t. TypeOK
  BY DEF SyncInv
<1>1. /\ TypeOK' /\ UNCHANGED <<client, resp, comm>> /\ <<c, k>> \in dev[d].tosync
      /\ reqc[c].rc /\ reqc'[c].rc
      /\ \A i \in Slots : i # k => reqc'[c].status[i] = reqc[c].status[i]
      /\ \A p \in Clients : p # c => reqc'[p] = reqc[p]
      /\ Others(d) /\ Touched(dev[d], dev'[d])
      /\ dev'[d].tosync = dev[d].tosync \ {<<c, k>>}
  <2>1. RemovesCanceledSync(d, c, k)
    BY <1>t, RemoveCanceledSyncEffect
  <2> QED
    BY <2>1 DEF RemovesCanceledSync
<1>2. \A e \in Devices :
        /\ dev'[e].dirty = dev[e].dirty /\ dev'[e].pc = dev[e].pc
        /\ dev'[e].rc = dev[e].rc /\ dev'[e].state = dev[e].state
        /\ dev'[e].tosync \subseteq dev[e].tosync
  BY <1>1 DEF Others, Touched
<1>3. Releasing' /\ Stopped' /\ Flushing' /\ DurableAnswer' /\ Succeeded'
  BY <1>1, <1>2, DevTypes DEF SyncInv, Releasing, Stopped, Flushing, DurableAnswer, Succeeded
<1>4. Quiet'
  BY <1>1, <1>2 DEF SyncInv, Quiet
<1>5. Unreached'
  <2>1. comm.pc \in {"find", "push"} \/ comm.failed => comm.c \in Clients
    BY <1>t, Types DEF SyncInv, Releasing
  <2> QED
    BY <1>1, <1>2, <2>1 DEF SyncInv, Unreached
<1>6. Pending' /\ Synced'
  BY <1>1, <1>2, DevTypes DEF SyncInv, Pending, Synced, Sound
<1> QED
  BY <1>1, <1>3, <1>4, <1>5, <1>6 DEF SyncInv

\* The release succeeds only if every medium was flushed by its own device.
LEMMA SyncFlushSub ==
  ASSUME SyncInv, NEW d \in Devices, NEW c \in Clients, NEW k \in Slots, FlushSub(d, <<c, k>>)
  PROVE  SyncInv'
<1>t. TypeOK
  BY DEF SyncInv
<1>1. /\ TypeOK' /\ UNCHANGED <<client, comm>> /\ <<c, k>> \in dev[d].tosync
      /\ dev[d].pc = "flush"
      /\ reqc'[c].rc <=> reqc[c].rc \/ dev[d].rc
      /\ \A i \in Slots : i # k => reqc'[c].status[i] = reqc[c].status[i]
      /\ \A p \in Clients : p # c => reqc'[p] = reqc[p]
      /\ \A p \in Clients : <<p, "ok">> \in resp' =>
           \/ <<p, "ok">> \in resp
           \/ p = c /\ ~reqc'[c].rc /\ \A i \in Media(c) : reqc'[c].status[i] # "todo"
      /\ Others(d) /\ dev'[d].pc # "idle"
      /\ dev'[d].state = dev[d].state /\ dev'[d].rc = dev[d].rc
      /\ dev'[d].dirty = dev[d].dirty
      /\ dev'[d].tosync = dev[d].tosync \ {<<c, k>>}
  <2>1. FlushesSub(d, c, k)
    BY <1>t, FlushSubEffect
  <2> QED
    BY <2>1 DEF FlushesSub
<1>2. \A e \in Devices :
        /\ dev'[e].dirty = dev[e].dirty /\ (dev'[e].pc = "idle" <=> dev[e].pc = "idle")
        /\ dev'[e].rc = dev[e].rc /\ dev'[e].state = dev[e].state
        /\ \A p \in Clients, i \in Slots :
             <<p, i>> \in dev'[e].tosync <=> <<p, i>> \in dev[e].tosync /\ ~(e = d /\ p = c /\ i = k)
  BY <1>1 DEF Others
<1>3. k \in Media(c) /\ client[c] \notin {"idle", "writing"} /\ <<c, "ok">> \notin resp
  BY <1>1 DEF SyncInv, Pending, Quiet, Succeeded
<1>4. comm.pc \in {"find", "push"} \/ comm.failed => comm.c \in Clients
  BY <1>t, Types DEF SyncInv, Releasing
<1>5. Unreached'
  BY <1>1, <1>2, <1>4 DEF SyncInv, Unreached
<1>6. Pending'
  BY <1>1, <1>2, <1>3, DevTypes DEF SyncInv, Pending, Sound
<1>7. Synced'
  BY <1>1, <1>2, <1>3, DevTypes DEF SyncInv, Pending, Flushing, Synced, Sound
<1>8. ASSUME <<c, "ok">> \in resp'
      PROVE  /\ comm.c = c => comm.pc \notin {"find", "push"} /\ ~comm.failed
             /\ Sound(c)' /\ \A i \in Media(c) : reqc'[c].status[i] # "todo"
  <2>1. ~reqc'[c].rc /\ \A i \in Media(c) : reqc'[c].status[i] # "todo"
    BY <1>1, <1>3, <1>8
  <2>2. ASSUME comm.c = c, comm.pc \in {"find", "push"} \/ comm.failed PROVE FALSE
    <3>1. CASE comm.failed
      <4>1. comm.idx \in Media(c) /\ comm.idx \in Slots
        BY <2>2, <3>1, DevTypes DEF SyncInv, Releasing
      <4> QED
        BY <1>1, <1>5, <2>1, <2>2, <3>1, <4>1 DEF Unreached
    <3>2. CASE comm.pc \in {"find", "push"} /\ ~comm.failed
      <4>1. comm.i \in Media(c) /\ comm.i \in Slots /\ comm.i = comm.idx + 1 /\ comm.idx \in Nat
        BY <1>t, <2>2, <3>2, DevTypes, Types, BoundAssumption DEF SyncInv, Releasing, CommRecord
      <4> QED
        <5>1. comm.i > comm.idx /\ comm' = comm
          BY <1>1, <4>1
        <5> QED
          BY <1>5, <2>1, <2>2, <3>2, <4>1, <5>1 DEF Unreached
    <3> QED
      BY <2>2, <3>1, <3>2
  <2> QED
    BY <1>1, <2>1, <2>2 DEF Sound
<1>9. Succeeded'
  BY <1>1, <1>2, <1>6, <1>8 DEF SyncInv, Succeeded, Pending
<1>10. DurableAnswer'
  <2>1. ASSUME <<c, "ok">> \in resp', NEW e \in DevsOf(c) PROVE c \notin dev'[e].dirty
    <3>1. PICK i \in Media(c) : e = DevOf[c][i]
      BY <2>1 DEF DevsOf
    <3> QED
      BY <1>7, <1>8, <2>1, <3>1 DEF Synced
  <2> QED
    BY <1>1, <1>2, <2>1, DevTypes DEF SyncInv, DurableAnswer
<1>11. Releasing' /\ Stopped' /\ Flushing'
  BY <1>1, <1>2 DEF SyncInv, Releasing, Stopped, Flushing
<1>12. Quiet'
  BY <1>1, <1>2, <1>3 DEF SyncInv, Quiet
<1> QED
  BY <1>1, <1>5, <1>6, <1>7, <1>9, <1>10, <1>11, <1>12 DEF SyncInv
-----------------------------------------------------------------------------
(* IoInv is inductive, with SyncInv.                                       *)

LEMMA InitIo == Init => IoInv
<1> SUFFICES ASSUME Init PROVE IoInv
  OBVIOUS
<1>1. /\ \A d \in Devices : dev[d].io = {} /\ dev[d].wait = {} /\ dev[d].tosync = {}
      /\ \A c \in Clients : client[c] = "idle" /\ ~reqc[c].partial
                            /\ \A i \in Slots : reqc[c].status[i] = "todo"
      /\ resp = {}
  BY DEF Init, NewDev, NewReqc
<1> QED
  BY <1>1, DevTypes DEF IoInv, OneTable, PartialIo, FinalIo, AnsweredIo, ResumedIo, NoStrayIo, Free

\* The steps that leave the tables of the I/O alone.
LEMMA IoFrame ==
  ASSUME IoInv, UNCHANGED client,
         \A c \in Clients : reqc'[c].partial <=> reqc[c].partial,
         \A c \in Clients : <<c, "ok">> \in resp' => <<c, "ok">> \in resp,
         \A c \in Clients : Sound(c)' => Sound(c) /\ reqc'[c].status = reqc[c].status,
         \A d \in Devices :
            /\ dev'[d].tosync = dev[d].tosync
            /\ dev'[d].io = dev[d].io /\ dev'[d].wait = dev[d].wait
            /\ dev'[d].state = "ended" <=> dev[d].state = "ended",
         comm.pc = "close" => comm'.pc = "close" /\ comm'.c = comm.c /\ comm'.left = comm.left
  PROVE  IoInv'
<1>1. \A c \in Clients, d \in Devices :
        /\ Has(c, d)' <=> Has(c, d)
        /\ Parks(c, d)' <=> Parks(c, d)
        /\ Free(c, d)' <=> Free(c, d)
  BY DEF Has, Parks, Free
<1>2. OneTable' /\ AnsweredIo'
  BY <1>1, DevTypes DEF IoInv, OneTable, AnsweredIo
<1>3. PartialIo' /\ FinalIo'
  BY <1>1, DevTypes DEF IoInv, PartialIo, FinalIo
<1>4. ResumedIo' /\ NoStrayIo'
  BY DevTypes DEF IoInv, ResumedIo, NoStrayIo
<1> QED
  BY <1>2, <1>3, <1>4 DEF IoInv

LEMMA IoDeviceSteps ==
  ASSUME SyncInv, IoInv, NEW d \in Devices,
         \/ CheckNeedsSync(d) \/ FlushReport(d) \/ FlushEnd(d) \/ CleanTosync(d)
         \/ \E ok, dies \in BOOLEAN : DevSync(d, ok, dies)
  PROVE  IoInv'
<1>t. TypeOK
  BY DEF SyncInv
<1>1. CASE CheckNeedsSync(d)
  BY <1>t, <1>1, CheckNeedsSyncEffect, IoFrame DEF Others, Reworked, Sound
<1>2. CASE FlushReport(d)
  BY <1>t, <1>2, FlushReportEffect, IoFrame DEF Others, Reworked, Sound
<1>3. CASE FlushEnd(d)
  <2>1. dev[d].state # "ended" /\ dev'[d].state # "ended"
    BY <1>t, <1>3, FlushEndEffect DEF SyncInv, Stopped
  <2> QED
    BY <1>t, <1>3, <2>1, FlushEndEffect, IoFrame DEF Others, Reworked, Sound
<1>4. CASE CleanTosync(d)
  <2>1. dev[d].pc # "report"
    BY <1>4 DEF SyncInv, Stopped, CleanTosync
  <2> QED
    BY <1>t, <1>4, <2>1, CleanTosyncEffect, IoFrame DEF Others, Reworked, Sound
<1>5. ASSUME NEW ok \in BOOLEAN, NEW dies \in BOOLEAN, DevSync(d, ok, dies)
      PROVE  IoInv'
  BY <1>t, <1>5, DevSyncEffect, IoFrame DEF Others, Reworked, Sound
<1> QED
  BY <1>1, <1>2, <1>3, <1>4, <1>5

LEMMA IoReleaseSteps ==
  ASSUME SyncInv, IoInv, ReleaseFound \/ ReleaseNotFound \/ ReleaseDone \/ ReleaseError
  PROVE  IoInv'
<1>t. TypeOK /\ Releasing
  BY DEF SyncInv
<1>1. CASE ReleaseFound
  BY <1>t, <1>1, ReleaseFoundEffect, IoFrame DEF Sound
<1>2. CASE ReleaseNotFound
  <2>1. NextMedium(TRUE) /\ comm.pc = "find" /\ UNCHANGED <<client, reqc, resp, dev>>
    BY <1>t, <1>2, ReleaseNotFoundEffect
  <2>2. comm'.c = comm.c /\ comm'.failed
    BY <1>t, <2>1, NextMediumEffect
  <2> QED
    BY <2>1, <2>2, IoFrame DEF Sound
<1>3. CASE ReleaseDone
  BY <1>t, <1>3, ReleaseDoneEffect, IoFrame DEF Sound
<1>4. CASE ReleaseError
  <2>1. /\ comm.pc = "end" /\ comm.c \in Clients /\ UNCHANGED <<client, dev>>
        /\ \A p \in Clients : <<p, "ok">> \in resp' <=> <<p, "ok">> \in resp
        /\ \A q \in Clients : q # comm.c => reqc'[q] = reqc[q]
        /\ reqc'[comm.c].rc /\ (reqc'[comm.c].partial <=> reqc[comm.c].partial)
    BY <1>t, <1>4, ReleaseErrorEffect
  <2> QED
    BY <2>1, IoFrame DEF Sound
<1> QED
  BY <1>1, <1>2, <1>3, <1>4

LEMMA IoBegin ==
  ASSUME SyncInv, IoInv, NEW c \in Clients, Begin(c)
  PROVE  IoInv'
<1>t. TypeOK /\ client \in [Clients -> ClientStates]
  BY Types DEF SyncInv
<1>1. /\ client[c] = "idle" /\ client'[c] = "writing"
      /\ \A p \in Clients : p # c => client'[p] = client[p]
      /\ reqc' = reqc /\ resp' = resp /\ comm' = comm
      /\ \A d \in Devices :
           /\ dev'[d].tosync = dev[d].tosync /\ dev'[d].state = dev[d].state
           /\ dev'[d].wait = dev[d].wait
           /\ dev'[d].io = IF d \in DevsOf(c) THEN dev[d].io \cup {c} ELSE dev[d].io
  BY <1>t, BeginEffect DEF Touched
<1>2. /\ \A d \in Devices : Free(c, d)
      /\ <<c, "ok">> \notin resp /\ \A i \in Slots : reqc[c].status[i] = "todo"
      /\ \A d \in Devices, i \in Slots : <<c, i>> \notin dev[d].tosync
      /\ comm.c # c
  BY <1>1 DEF SyncInv, IoInv, Quiet, NoStrayIo, Free
<1>3. \A p \in Clients, d \in Devices :
        /\ Has(p, d) => Has(p, d)'
        /\ Parks(p, d)' <=> Parks(p, d)
        /\ p # c => (Free(p, d)' <=> Free(p, d)) /\ (Has(p, d)' <=> Has(p, d))
        /\ d \in DevsOf(c) => Has(c, d)'
        /\ d \notin DevsOf(c) => Free(c, d)'
  BY <1>1, <1>2 DEF Has, Parks, Free
<1>s. \A p \in Clients : Sound(p)' <=> Sound(p)
  BY <1>1 DEF Sound
<1>o. \A p \in Clients, d \in Devices : ~(p \in dev'[d].io /\ p \in dev'[d].wait)
  <2>1. \A p \in Clients, d \in Devices :
          /\ p \in dev'[d].io => p \in dev[d].io \/ p = c
          /\ p \in dev'[d].wait => p \in dev[d].wait /\ p # c
    BY <1>1, <1>2 DEF Free
  <2> QED
    BY <2>1 DEF IoInv, OneTable
<1>4. OneTable' /\ AnsweredIo'
  <2>1. OneTable'
    BY <1>o, <1>3 DEF IoInv, OneTable
  <2>2. AnsweredIo'
    BY <1>1, <1>2, <1>3, DevTypes DEF IoInv, AnsweredIo
  <2> QED
    BY <2>1, <2>2
<1>5. PartialIo' /\ FinalIo'
  <2>1. PartialIo'
    <3>1. \A p \in Clients : p # c => (client'[p] # "gone" <=> client[p] # "gone")
      BY <1>1
    <3>2. reqc' = reqc /\ \A d \in Devices : dev'[d].tosync = dev[d].tosync
      BY <1>1
    <3> QED
      BY <3>1, <3>2, <1>2, <1>3, <1>s, DevTypes DEF IoInv, PartialIo
  <2>2. FinalIo'
    <3>1. reqc' = reqc /\ \A d \in Devices : dev'[d].tosync = dev[d].tosync
      BY <1>1
    <3> QED
      BY <3>1, <1>2, <1>3, <1>s, DevTypes DEF IoInv, FinalIo
  <2> QED
    BY <2>1, <2>2
<1>6. ResumedIo' /\ NoStrayIo'
  BY <1>1, <1>2, <1>3, DevTypes DEF IoInv, ResumedIo, NoStrayIo, Has, Free
<1> QED
  BY <1>4, <1>5, <1>6 DEF IoInv

LEMMA IoReleaseStart ==
  ASSUME SyncInv, IoInv, NEW c \in Clients, NEW partial \in BOOLEAN, ReleaseStart(c, partial)
  PROVE  IoInv'
<1>t. TypeOK /\ client \in [Clients -> ClientStates] /\ (comm.pc = "idle" => comm.c \notin Clients)
  BY Types, NoneAssumption DEF SyncInv
<1>1. /\ client[c] = "writing" /\ client'[c] = "waiting" /\ resp' = resp /\ comm.pc = "idle"
      /\ \A p \in Clients : p # c => client'[p] = client[p] /\ reqc'[p] = reqc[p]
      /\ \A i \in Slots : reqc'[c].status[i] = "todo"
      /\ comm'.c = c
      /\ \A d \in Devices :
           /\ dev'[d].tosync = dev[d].tosync /\ dev'[d].state = dev[d].state
           /\ dev'[d].wait = dev[d].wait /\ dev'[d].io = dev[d].io
  <2>1. ReleaseStarts(c, partial)
    BY <1>t, ReleaseStartEffect
  <2> QED
    BY <1>t, <2>1 DEF ReleaseStarts
<1>2. /\ <<c, "ok">> \notin resp
      /\ \A d \in Devices, i \in Slots : <<c, i>> \notin dev[d].tosync
      /\ \A d \in DevsOf(c) : Has(c, d)
  BY <1>1 DEF SyncInv, IoInv, Quiet, ResumedIo, Has
<1>3. /\ \A p \in Clients, d \in Devices :
           /\ Has(p, d)' <=> Has(p, d)
           /\ Parks(p, d)' <=> Parks(p, d)
           /\ Free(p, d)' <=> Free(p, d)
      /\ \A p \in Clients : p # c => (Sound(p)' => Sound(p))
  BY <1>t, <1>1 DEF Has, Parks, Free, Sound
<1>4. OneTable' /\ AnsweredIo'
  BY <1>1, <1>2, <1>3, DevTypes DEF IoInv, OneTable, AnsweredIo
<1>5. PartialIo' /\ FinalIo'
  BY <1>1, <1>2, <1>3, DevTypes DEF IoInv, PartialIo, FinalIo
<1>6. ResumedIo' /\ NoStrayIo'
  BY <1>1, DevTypes DEF IoInv, ResumedIo, NoStrayIo
<1> QED
  BY <1>4, <1>5, <1>6 DEF IoInv

LEMMA IoSend ==
  ASSUME SyncInv, IoInv, NEW c \in Clients, NEW kind \in {"ok", "error"}, Send(c, kind)
  PROVE  IoInv'
<1>t. TypeOK
  BY DEF SyncInv
<1>1. /\ comm.pc = "idle" /\ <<c, kind>> \in resp /\ resp' = resp \ {<<c, kind>>}
      /\ UNCHANGED <<reqc, comm, dev>>
      /\ \A p \in Clients : p # c => client'[p] = client[p]
      /\ client[c] = "gone" => client'[c] = "gone"
      /\ client[c] # "gone" =>
           client'[c] = IF kind = "error" THEN "failed"
                        ELSE IF reqc[c].partial THEN "writing" ELSE "done"
  BY <1>t, SendEffect
<1>2. /\ \A p \in Clients : client'[p] # "gone" => client[p] # "gone"
      /\ \A p \in Clients : <<p, "ok">> \in resp' => <<p, "ok">> \in resp
      /\ \A p \in Clients : Sound(p)' <=> Sound(p)
      /\ \A p \in Clients, d \in Devices :
           (Has(p, d)' <=> Has(p, d)) /\ (Parks(p, d)' <=> Parks(p, d)) /\ (Free(p, d)' <=> Free(p, d))
  BY <1>1 DEF Sound, Has, Parks, Free
<1>3. OneTable' /\ AnsweredIo' /\ PartialIo' /\ FinalIo'
  <2>1. OneTable' /\ AnsweredIo'
    BY <1>1, <1>2, DevTypes DEF IoInv, OneTable, AnsweredIo
  <2>2. PartialIo' /\ FinalIo'
    BY <1>1, <1>2, DevTypes DEF IoInv, PartialIo, FinalIo
  <2> QED
    BY <2>1, <2>2
<1>4. ResumedIo'
  BY <1>1, DevTypes DEF IoInv, ResumedIo, AnsweredIo, Has
<1>5. NoStrayIo'
  BY <1>1 DEF IoInv, NoStrayIo, AnsweredIo, Free
<1> QED
  BY <1>3, <1>4, <1>5 DEF IoInv

LEMMA IoClose ==
  ASSUME SyncInv, IoInv, NEW c \in Clients, Close(c)
  PROVE  IoInv'
<1>t. TypeOK /\ client \in [Clients -> ClientStates] /\ (comm.pc = "idle" => comm.c \notin Clients)
  BY Types, NoneAssumption DEF SyncInv
<1>1. /\ comm.pc = "idle" /\ client' = [client EXCEPT ![c] = "gone"] /\ UNCHANGED <<reqc, resp, dev>>
      /\ comm'.pc = "close" /\ comm'.c = c /\ comm'.failed = FALSE /\ comm'.left = Devices
  BY <1>t, CloseEffect
<1>2. /\ client'[c] = "gone" /\ \A p \in Clients : p # c => client'[p] = client[p]
      /\ \A p \in Clients : Sound(p)' <=> Sound(p)
      /\ \A p \in Clients, d \in Devices :
           (Has(p, d)' <=> Has(p, d)) /\ (Parks(p, d)' <=> Parks(p, d)) /\ (Free(p, d)' <=> Free(p, d))
  BY <1>t, <1>1 DEF Sound, Has, Parks, Free
<1>3. OneTable' /\ AnsweredIo'
  BY <1>1, <1>2, DevTypes DEF IoInv, OneTable, AnsweredIo
<1>4. PartialIo' /\ FinalIo'
  BY <1>1, <1>2, DevTypes DEF IoInv, PartialIo, FinalIo
<1>5. ResumedIo' /\ NoStrayIo'
  BY <1>1, <1>2 DEF IoInv, ResumedIo, NoStrayIo
<1> QED
  BY <1>3, <1>4, <1>5 DEF IoInv

\* A step that changes the I/O of one client on one device, of which there is
\* no more than before.
Shrinks(c, d) ==
    /\ \A e \in Devices :
          /\ dev'[e].state = dev[e].state
          /\ \A p \in Clients : ~(e = d /\ p = c) =>
                /\ p \in dev'[e].io <=> p \in dev[e].io
                /\ p \in dev'[e].wait <=> p \in dev[e].wait
    /\ Free(c, d) => Free(c, d)'
    /\ ~(c \in dev'[d].io /\ c \in dev'[d].wait)

LEMMA ShrinksTables ==
  ASSUME NEW c \in Clients, NEW d \in Devices, Shrinks(c, d)
  PROVE  /\ \A p \in Clients, e \in Devices : Free(p, e) => Free(p, e)'
         /\ \A p \in Clients, e \in Devices : ~(e = d /\ p = c) =>
              (Has(p, e)' <=> Has(p, e)) /\ (Parks(p, e)' <=> Parks(p, e))
         /\ OneTable => OneTable'
<1>1. /\ \A p \in Clients, e \in Devices : Free(p, e) => Free(p, e)'
      /\ \A p \in Clients, e \in Devices : ~(e = d /\ p = c) =>
              (Has(p, e)' <=> Has(p, e)) /\ (Parks(p, e)' <=> Parks(p, e))
  BY DEF Shrinks, Free, Has, Parks
<1>2. OneTable => OneTable'
  BY <1>1 DEF OneTable, Shrinks
<1> QED
  BY <1>1, <1>2

\* The client whose I/O changes is not one that writes.
LEMMA ShrinksClients ==
  ASSUME IoInv, NEW c \in Clients, NEW d \in Devices, Shrinks(c, d), UNCHANGED client,
         client[c] # "writing",
         comm.pc = "close" => comm'.pc = "close" /\ comm'.c = comm.c /\ comm'.left = comm.left
  PROVE  OneTable' /\ ResumedIo' /\ NoStrayIo'
<1>1. OneTable'
  BY ShrinksTables DEF IoInv
<1>2. ResumedIo'
  BY DevTypes DEF IoInv, ResumedIo, Shrinks
<1>3. NoStrayIo'
  <2>1. \A p \in Clients, e \in Devices : ~Free(p, e)' => ~Free(p, e)
    BY ShrinksTables
  <2> QED
    BY <2>1 DEF IoInv, NoStrayIo, Free
<1> QED
  BY <1>1, <1>2, <1>3

LEMMA IoCloseDevice ==
  ASSUME SyncInv, IoInv, NEW d \in Devices, CloseDevice(d)
  PROVE  IoInv'
<1>t. TypeOK
  BY DEF SyncInv
<1>0. PICK c \in Clients : c = comm.c
  BY <1>t, CloseDeviceEffect
<1>1. /\ comm.pc = "close" /\ c = comm.c /\ UNCHANGED <<client, reqc, resp>>
      /\ Others(d) /\ dev'[d] = CleanIo(dev[d], c) /\ dev[d] \in DevRecord
      /\ \/ comm'.pc = "idle" /\ comm'.c \notin Clients /\ comm'.failed = FALSE /\ comm.left = {d}
         \/ /\ comm'.pc = "close" /\ comm'.c = c /\ comm'.failed = comm.failed
            /\ comm'.left = comm.left \ {d}
  BY <1>0, <1>t, CloseDeviceEffect, CommIdleFields
<1>2. client[c] = "gone" /\ ~comm.failed
  BY <1>1 DEF SyncInv, Releasing
<1>s. \A p \in Clients : Sound(p)' <=> Sound(p)
  BY <1>1, <1>2 DEF Sound
<1>3. /\ Touched(dev[d], dev'[d]) /\ dev'[d].tosync = dev[d].tosync /\ dev'[d].io = dev[d].io \ {c}
      /\ dev'[d].wait = IF c \in dev[d].io THEN dev[d].wait ELSE dev[d].wait \ {c}
  <2>1. LET w == CleanIo(dev[d], c)
        IN  /\ Touched(dev[d], w) /\ w.tosync = dev[d].tosync /\ w.io = dev[d].io \ {c}
            /\ w.wait = IF c \in dev[d].io THEN dev[d].wait ELSE dev[d].wait \ {c}
    BY <1>1, CleanIoFields
  <2> QED
    BY <1>1, <2>1
<1>4. Shrinks(c, d) /\ Free(c, d)' /\ \A e \in Devices : dev'[e].tosync = dev[e].tosync
  <2>1. ~(c \in dev[d].io /\ c \in dev[d].wait)
    BY DEF IoInv, OneTable
  <2>2. Free(c, d)'
    BY <1>3, <2>1 DEF Free
  <2>3. \A p \in Clients : p # c => /\ p \in dev'[d].io <=> p \in dev[d].io
                                   /\ p \in dev'[d].wait <=> p \in dev[d].wait
    BY <1>3
  <2> QED
    BY <1>1, <1>3, <2>2, <2>3 DEF Others, Shrinks, Free, Touched
<1>5. /\ \A p \in Clients, e \in Devices : Free(p, e) => Free(p, e)'
      /\ \A p \in Clients, e \in Devices : p # c =>
            (Has(p, e)' <=> Has(p, e)) /\ (Parks(p, e)' <=> Parks(p, e))
      /\ OneTable'
  BY <1>1, <1>4, ShrinksTables DEF IoInv
<1>6. AnsweredIo'
  BY <1>1, <1>2, <1>5, DevTypes DEF IoInv, AnsweredIo
<1>7. PartialIo' /\ FinalIo'
  BY <1>1, <1>s, <1>2, <1>4, <1>5, DevTypes DEF IoInv, PartialIo, FinalIo
<1>8. ResumedIo'
  BY <1>1, <1>2, <1>4, DevTypes DEF IoInv, ResumedIo, Shrinks
<1>9. NoStrayIo'
  <2>1. \A p \in Clients, e \in Devices : ~Free(p, e)' => ~Free(p, e) /\ ~(p = c /\ e = d)
    BY <1>4, <1>5
  <2> QED
    BY <1>1, <2>1 DEF IoInv, NoStrayIo, Free
<1> QED
  BY <1>5, <1>6, <1>7, <1>8, <1>9 DEF IoInv

LEMMA IoDevEnd ==
  ASSUME SyncInv, IoInv, NEW d \in Devices, DevEnd(d)
  PROVE  IoInv'
<1>t. TypeOK
  BY DEF SyncInv
<1>1. /\ Others(d) /\ UNCHANGED <<client, reqc, resp, comm>>
      /\ dev'[d].tosync = dev[d].tosync /\ dev'[d].state = "ended"
      /\ dev'[d].io = {} /\ dev'[d].wait = {}
  BY <1>t, DevEndEffect
<1>2. \A p \in Clients, e \in Devices :
        /\ Has(p, e) => Has(p, e)'
        /\ Parks(p, e) => Parks(p, e)'
        /\ Free(p, e) => Free(p, e)'
        /\ e = d => Has(p, e)' /\ Parks(p, e)' /\ Free(p, e)'
        /\ dev'[e].tosync = dev[e].tosync
  BY <1>1 DEF Has, Parks, Free, Others
<1>s. \A p \in Clients : Sound(p)' <=> Sound(p)
  BY <1>1 DEF Sound
<1>3. OneTable' /\ AnsweredIo'
  BY <1>1, <1>2, DevTypes DEF IoInv, OneTable, AnsweredIo, Others, Free
<1>4. PartialIo' /\ FinalIo'
  BY <1>1, <1>2, <1>s, DevTypes DEF IoInv, PartialIo, FinalIo
<1>5. ResumedIo' /\ NoStrayIo'
  BY <1>1, <1>2, DevTypes DEF IoInv, ResumedIo, NoStrayIo, Has, Free
<1> QED
  BY <1>3, <1>4, <1>5 DEF IoInv

LEMMA IoRemoveCanceledSync ==
  ASSUME SyncInv, IoInv, NEW d \in Devices, NEW c \in Clients, NEW k \in Slots,
         RemoveCanceledSync(d, <<c, k>>)
  PROVE  IoInv'
<1>t. TypeOK
  BY DEF SyncInv
<1>1. /\ UNCHANGED <<client, resp, comm>> /\ <<c, k>> \in dev[d].tosync
      /\ reqc'[c].rc /\ (reqc'[c].partial <=> reqc[c].partial)
      /\ \A p \in Clients : p # c => reqc'[p] = reqc[p]
      /\ Others(d) /\ Touched(dev[d], dev'[d])
      /\ dev'[d].tosync = dev[d].tosync \ {<<c, k>>}
      /\ \/ dev'[d].io = dev[d].io /\ dev'[d].wait = dev[d].wait
         \/ /\ dev'[d].io = dev[d].io \ {c}
            /\ dev'[d].wait = IF c \in dev[d].io THEN dev[d].wait ELSE dev[d].wait \ {c}
  <2>1. RemovesCanceledSync(d, c, k)
    BY <1>t, RemoveCanceledSyncEffect
  <2> QED
    BY <2>1 DEF RemovesCanceledSync
<1>2. client[c] \notin {"idle", "writing"} /\ <<c, "ok">> \notin resp
  BY <1>1 DEF SyncInv, Quiet, Succeeded
<1>3. Shrinks(c, d)
  <2>1. ~(c \in dev[d].io /\ c \in dev[d].wait)
    BY DEF IoInv, OneTable
  <2>2. Free(c, d) => Free(c, d)'
    BY <1>1 DEF Free
  <2>3. ~(c \in dev'[d].io /\ c \in dev'[d].wait)
    BY <1>1, <2>1
  <2>4. \A p \in Clients : p # c => /\ p \in dev'[d].io <=> p \in dev[d].io
                                   /\ p \in dev'[d].wait <=> p \in dev[d].wait
    BY <1>1
  <2> QED
    BY <1>1, <2>2, <2>3, <2>4 DEF Others, Shrinks, Touched
<1>4. /\ \A p \in Clients, e \in Devices : Free(p, e) => Free(p, e)'
      /\ \A p \in Clients, e \in Devices : p # c =>
            (Has(p, e)' <=> Has(p, e)) /\ (Parks(p, e)' <=> Parks(p, e))
  BY <1>3, ShrinksTables
<1>5. /\ \A p \in Clients, e \in Devices, i \in Slots : p # c =>
           (<<p, i>> \in dev'[e].tosync <=> <<p, i>> \in dev[e].tosync)
      /\ \A p \in Clients : Sound(p)' => p # c /\ Sound(p)
  BY <1>1 DEF Others, Sound
<1>6. OneTable' /\ ResumedIo' /\ NoStrayIo'
  BY <1>1, <1>2, <1>3, ShrinksClients
<1>7. AnsweredIo'
  BY <1>1, <1>2, <1>4, DevTypes DEF IoInv, AnsweredIo
<1>8. PartialIo' /\ FinalIo'
  BY <1>1, <1>4, <1>5, DevTypes DEF IoInv, PartialIo, FinalIo
<1> QED
  BY <1>6, <1>7, <1>8 DEF IoInv

LEMMA IoReleasePush ==
  ASSUME SyncInv, IoInv, NEW db \in BOOLEAN, ReleasePush(db)
  PROVE  IoInv'
<1>t. TypeOK /\ Releasing
  BY DEF SyncInv
<1>0. comm.pc = "push" /\ comm.c \in Clients /\ comm.idx + 1 \in Slots /\ Mine \in Devices
  BY <1>t, ReleasePushEffect, MineTypes
<1>1. PICK c \in Clients, k \in Slots, d \in Devices : c = comm.c /\ k = comm.idx + 1 /\ d = Mine
  BY <1>0
<1>2. /\ UNCHANGED <<client, reqc, resp>> /\ Others(d) /\ dev'[d] = Pushed(dev[d], c, k)
      /\ dev[d] \in DevRecord /\ reqc[c].partial \in BOOLEAN
      /\ comm'.c = c /\ (comm'.failed <=> comm.failed)
  <2>1. /\ UNCHANGED <<client, reqc, resp>> /\ Others(Mine)
        /\ dev'[Mine] = Pushed(dev[Mine], comm.c, comm.idx + 1)
        /\ \/ comm'.c = comm.c /\ comm'.failed = comm.failed
           \/ NextMedium(FALSE)
    BY <1>t, ReleasePushEffect
  <2>2. comm'.c = comm.c /\ (comm'.failed <=> comm.failed)
    BY <1>t, <1>0, <2>1, NextMediumEffect
  <2> QED
    BY <1>t, <1>1, <2>1, <2>2, Types DEF ReqcRecord, Others
<1>3. PushedTo(dev[d], c, k, dev'[d])
  <2>1. PushedTo(dev[d], c, k, Pushed(dev[d], c, k))
    BY <1>1, <1>2, PushedFields
  <2> QED
    BY <1>2, <2>1
<1>4. /\ client[c] \notin {"idle", "writing"} /\ <<c, "ok">> \notin resp
      /\ ~comm.failed => d = DevOf[c][k] /\ k \in Media(c) /\ <<c, k>> \notin dev[d].tosync
  <2>1. client[c] \notin {"idle", "writing"} /\ <<c, "ok">> \notin resp
    BY <1>0, <1>1 DEF SyncInv, Quiet, Succeeded
  <2>2. ASSUME ~comm.failed PROVE d = DevOf[c][k] /\ k \in Media(c)
    BY <1>t, <1>0, <1>1, <2>2 DEF Releasing, Mine
  <2>3. ASSUME ~comm.failed PROVE <<c, k>> \notin dev[d].tosync
    <3>1. k > comm.idx
      BY <1>t, <1>1, Types, BoundAssumption DEF CommRecord
    <3> QED
      BY <1>0, <1>1, <2>3, <3>1 DEF SyncInv, Unreached
  <2> QED
    BY <2>1, <2>2, <2>3
<1>5. ~(c \in dev[d].io /\ c \in dev[d].wait)
  BY DEF IoInv, OneTable
<1>6. Shrinks(c, d)
  <2>2. Free(c, d) => Free(c, d)'
    BY <1>3 DEF Free, PushedTo
  <2>3. ~(c \in dev'[d].io /\ c \in dev'[d].wait)
    BY <1>3, <1>5 DEF PushedTo
  <2>4. \A p \in Clients : p # c => /\ p \in dev'[d].io <=> p \in dev[d].io
                                   /\ p \in dev'[d].wait <=> p \in dev[d].wait
    BY <1>3 DEF PushedTo
  <2> QED
    BY <1>2, <1>3, <2>2, <2>3, <2>4 DEF Others, Shrinks, Touched, PushedTo
<1>7. /\ \A p \in Clients, e \in Devices : Free(p, e) => Free(p, e)'
      /\ \A p \in Clients, e \in Devices : ~(e = d /\ p = c) =>
            (Has(p, e)' <=> Has(p, e)) /\ (Parks(p, e)' <=> Parks(p, e))
  BY <1>6, ShrinksTables
<1>8. /\ \A p \in Clients, e \in Devices, i \in Slots :
           <<p, i>> \in dev'[e].tosync <=> <<p, i>> \in dev[e].tosync \/ (p = c /\ i = k /\ e = d)
      /\ \A p \in Clients : Sound(p)' <=> Sound(p)
      /\ Sound(c) => ~comm.failed
  BY <1>1, <1>2, <1>3 DEF Others, Sound, PushedTo
<1>9. OneTable' /\ ResumedIo' /\ NoStrayIo'
  BY <1>0, <1>2, <1>4, <1>6, ShrinksClients
<1>10. AnsweredIo'
  BY <1>2, <1>4, <1>7, DevTypes DEF IoInv, AnsweredIo
<1>11. /\ reqc[c].partial /\ Has(c, d) => Parks(c, d)'
       /\ ~reqc[c].partial => Free(c, d)'
  BY <1>3, <1>5 DEF Has, Parks, Free, PushedTo, Touched
<1>12. PartialIo'
  <2> SUFFICES ASSUME NEW p \in Clients, client'[p] # "gone", Sound(p)', reqc'[p].partial,
                      NEW i \in Media(p)
               PROVE  IF <<p, i>> \in dev'[DevOf[p][i]].tosync THEN Parks(p, DevOf[p][i])'
                      ELSE Has(p, DevOf[p][i])'
    BY DEF PartialIo
  <2>1. IF <<p, i>> \in dev[DevOf[p][i]].tosync THEN Parks(p, DevOf[p][i])
        ELSE Has(p, DevOf[p][i])
    BY <1>2, <1>8 DEF IoInv, PartialIo
  <2>2. DevOf[p][i] \in Devices /\ i \in Slots
    BY DevTypes
  <2>3. CASE p = c /\ i = k
    BY <1>2, <1>4, <1>8, <1>11, <2>1, <2>2, <2>3
  <2>4. CASE ~(p = c /\ i = k)
    <3>1. ~(p = c /\ DevOf[p][i] = d)
      BY <1>4, <1>8, <2>4, DevTypes
    <3> QED
      BY <1>7, <1>8, <2>1, <2>2, <2>4, <3>1
  <2> QED
    BY <2>3, <2>4
<1>13. FinalIo'
  <2> SUFFICES ASSUME NEW p \in Clients, Sound(p)', ~reqc'[p].partial, NEW i \in Media(p),
                      \/ reqc'[p].status[i] # "todo"
                      \/ <<p, i>> \in dev'[DevOf[p][i]].tosync
               PROVE  Free(p, DevOf[p][i])'
    BY DEF FinalIo
  <2>2. DevOf[p][i] \in Devices /\ i \in Slots
    BY DevTypes
  <2>3. CASE p = c /\ i = k
    BY <1>2, <1>4, <1>8, <1>11, <2>2, <2>3
  <2>4. CASE ~(p = c /\ i = k)
    BY <1>2, <1>7, <1>8, <2>2, <2>4 DEF IoInv, FinalIo
  <2> QED
    BY <2>3, <2>4
<1> QED
  BY <1>9, <1>10, <1>12, <1>13 DEF IoInv

LEMMA IoFlushSub ==
  ASSUME SyncInv, SyncInv', IoInv, NEW d \in Devices, NEW c \in Clients, NEW k \in Slots,
         FlushSub(d, <<c, k>>)
  PROVE  IoInv'
<1>t. TypeOK
  BY DEF SyncInv
<1>0. FlushesSub(d, c, k)
  BY <1>t, FlushSubEffect
<1>1. /\ UNCHANGED <<client, comm>> /\ <<c, k>> \in dev[d].tosync /\ dev[d].pc = "flush"
      /\ reqc'[c].rc <=> reqc[c].rc \/ dev[d].rc
      /\ reqc'[c].partial <=> reqc[c].partial
      /\ \A i \in Slots : i # k => reqc'[c].status[i] = reqc[c].status[i]
      /\ \A p \in Clients : p # c => reqc'[p] = reqc[p]
      /\ \A p \in Clients : <<p, "ok">> \in resp' =>
           \/ <<p, "ok">> \in resp
           \/ p = c /\ ~reqc'[c].rc /\ \A i \in Media(c) : reqc'[c].status[i] # "todo"
      /\ Others(d) /\ dev'[d].state = dev[d].state
      /\ dev'[d].tosync = dev[d].tosync \ {<<c, k>>}
  BY <1>0 DEF FlushesSub
<1>2. /\ client[c] \notin {"idle", "writing"} /\ <<c, "ok">> \notin resp
      /\ k \in Media(c) /\ (Sound(c) => d = DevOf[c][k]) /\ dev[d].state # "ended"
  BY <1>1 DEF SyncInv, Quiet, Succeeded, Pending, Stopped
<1>3. ~(c \in dev[d].io /\ c \in dev[d].wait)
  BY DEF IoInv, OneTable
<1>4. /\ Free(c, d) => Free(c, d)'
      /\ ~(c \in dev'[d].io /\ c \in dev'[d].wait)
      /\ \A p \in Clients : p # c => /\ p \in dev'[d].io <=> p \in dev[d].io
                                     /\ p \in dev'[d].wait <=> p \in dev[d].wait
      /\ reqc[c].partial /\ ~reqc'[c].rc /\ Parks(c, d) => Has(c, d)'
  <2>1. CASE ~reqc[c].partial
    BY <1>0, <1>3, <2>1 DEF FlushesSub, Free
  <2>2. CASE reqc[c].partial /\ reqc'[c].rc
    BY <1>0, <1>3, <2>2 DEF FlushesSub, Free
  <2>3. CASE reqc[c].partial /\ ~reqc'[c].rc
    <3>1. /\ dev'[d].wait = dev[d].wait \ {c}
          /\ dev'[d].io = IF c \in dev[d].wait THEN dev[d].io \cup {c} ELSE dev[d].io
      BY <1>0, <2>3 DEF FlushesSub
    <3>2. Parks(c, d) => Has(c, d)'
      BY <1>2, <3>1 DEF Parks, Has
    <3>3. Free(c, d) => Free(c, d)'
      BY <3>1 DEF Free
    <3> QED
      BY <3>1, <3>2, <3>3
  <2> QED
    BY <2>1, <2>2, <2>3
<1>5. Shrinks(c, d)
  BY <1>1, <1>4 DEF Others, Shrinks
<1>6. /\ \A p \in Clients, e \in Devices : Free(p, e) => Free(p, e)'
      /\ \A p \in Clients, e \in Devices : ~(e = d /\ p = c) =>
            (Has(p, e)' <=> Has(p, e)) /\ (Parks(p, e)' <=> Parks(p, e))
  BY <1>5, ShrinksTables
<1>7. /\ \A p \in Clients, e \in Devices, i \in Slots :
           <<p, i>> \in dev'[e].tosync <=> <<p, i>> \in dev[e].tosync /\ ~(p = c /\ i = k /\ e = d)
      /\ \A p \in Clients : Sound(p)' => Sound(p)
      /\ Sound(c)' => ~reqc'[c].rc
      /\ \A p \in Clients : reqc'[p].partial <=> reqc[p].partial
  BY <1>1 DEF Others, Sound
<1>8. OneTable' /\ ResumedIo' /\ NoStrayIo'
  BY <1>1, <1>2, <1>5, ShrinksClients
<1>9. PartialIo'
  <2> SUFFICES ASSUME NEW p \in Clients, client'[p] # "gone", Sound(p)', reqc'[p].partial,
                      NEW i \in Media(p)
               PROVE  IF <<p, i>> \in dev'[DevOf[p][i]].tosync THEN Parks(p, DevOf[p][i])'
                      ELSE Has(p, DevOf[p][i])'
    BY DEF PartialIo
  <2>1. IF <<p, i>> \in dev[DevOf[p][i]].tosync THEN Parks(p, DevOf[p][i])
        ELSE Has(p, DevOf[p][i])
    BY <1>1, <1>7 DEF IoInv, PartialIo
  <2>2. DevOf[p][i] \in Devices /\ i \in Slots
    BY DevTypes
  <2>3. CASE p = c /\ i = k
    BY <1>1, <1>2, <1>4, <1>7, <2>1, <2>2, <2>3
  <2>4. CASE ~(p = c /\ i = k)
    <3>1. ~(p = c /\ DevOf[p][i] = d)
      BY <1>2, <1>7, <2>4, DevTypes
    <3> QED
      BY <1>6, <1>7, <2>1, <2>2, <2>4, <3>1
  <2> QED
    BY <2>3, <2>4
<1>10. FinalIo'
  <2> SUFFICES ASSUME NEW p \in Clients, Sound(p)', ~reqc'[p].partial, NEW i \in Media(p),
                      \/ reqc'[p].status[i] # "todo"
                      \/ <<p, i>> \in dev'[DevOf[p][i]].tosync
               PROVE  Free(p, DevOf[p][i])'
    BY DEF FinalIo
  <2>2. DevOf[p][i] \in Devices /\ i \in Slots
    BY DevTypes
  <2>3. CASE p = c /\ i = k
    BY <1>1, <1>2, <1>6, <1>7, <2>2, <2>3 DEF IoInv, FinalIo
  <2>4. CASE ~(p = c /\ i = k)
    BY <1>1, <1>6, <1>7, <2>2, <2>4 DEF IoInv, FinalIo
  <2> QED
    BY <2>3, <2>4
<1>11. AnsweredIo'
  <2>1. ASSUME NEW p \in Clients, p # c, <<p, "ok">> \in resp'
        PROVE  /\ reqc'[p].partial /\ client'[p] # "gone" => \A e \in DevsOf(p) : Has(p, e)'
               /\ ~reqc'[p].partial => \A e \in Devices : Free(p, e)'
    BY <1>1, <1>6, <2>1, DevTypes DEF IoInv, AnsweredIo
  <2>2. ASSUME <<c, "ok">> \in resp'
        PROVE  /\ reqc'[c].partial /\ client'[c] # "gone" => \A e \in DevsOf(c) : Has(c, e)'
               /\ ~reqc'[c].partial => \A e \in Devices : Free(c, e)'
    <3>1. /\ ~reqc'[c].rc /\ \A i \in Media(c) : reqc'[c].status[i] # "todo"
          /\ \A e \in Devices, i \in Slots : <<c, i>> \notin dev'[e].tosync
      BY <1>1, <1>2, <2>2 DEF SyncInv, Succeeded
    <3>2. Sound(c)'
      <4>1. ASSUME comm'.c = c, comm'.failed PROVE FALSE
        <5>1. comm'.idx \in Media(c) /\ comm'.idx \in Slots
          BY <4>1, DevTypes DEF SyncInv, Releasing
        <5> QED
          BY <3>1, <4>1, <5>1 DEF SyncInv, Unreached
      <4> QED
        BY <3>1, <4>1 DEF Sound
    <3>3. ASSUME reqc'[c].partial, client'[c] # "gone", NEW e \in DevsOf(c)
          PROVE  Has(c, e)'
      <4>1. PICK i \in Media(c) : e = DevOf[c][i]
        BY <3>3 DEF DevsOf
      <4>2. <<c, i>> \notin dev'[e].tosync
        BY <3>1, <4>1, DevTypes
      <4> QED
        BY <1>9, <3>2, <3>3, <4>1, <4>2 DEF PartialIo
    <3>4. ASSUME ~reqc'[c].partial, NEW e \in Devices
          PROVE  Free(c, e)'
      <4>1. CASE e \in DevsOf(c)
        <5>1. PICK i \in Media(c) : e = DevOf[c][i]
          BY <4>1 DEF DevsOf
        <5> QED
          BY <1>10, <3>1, <3>2, <3>4, <5>1 DEF FinalIo
      <4>2. CASE e \notin DevsOf(c)
        BY <1>8, <4>2 DEF OneTable
      <4> QED
        BY <4>1, <4>2
    <3> QED
      BY <3>3, <3>4
  <2> QED
    BY <2>1, <2>2 DEF AnsweredIo
<1> QED
  BY <1>8, <1>9, <1>10, <1>11 DEF IoInv
-----------------------------------------------------------------------------
(* The theorems.                                                           *)

LEMMA SubPair ==
  ASSUME TypeOK, NEW d \in Devices, NEW s \in dev[d].tosync
  PROVE  \E c \in Clients, k \in Slots : s = <<c, k>>
<1>1. s \in Clients \X Slots
  BY Types DEF DevRecord
<1> QED
  BY <1>1

LEMMA Stutters ==
  ASSUME SyncInv, IoInv, UNCHANGED vars
  PROVE  SyncInv' /\ IoInv'
<1> USE DEF vars
<1>1. TypeOK' /\ Stopped' /\ Releasing' /\ Unreached' /\ Quiet'
  BY DEF SyncInv, TypeOK, Stopped, Releasing, Unreached, Quiet
<1>2. Succeeded' /\ Pending' /\ Flushing' /\ Synced' /\ DurableAnswer'
  BY DEF SyncInv, Succeeded, Pending, Flushing, Synced, DurableAnswer, Sound
<1>3. OneTable' /\ PartialIo' /\ FinalIo' /\ AnsweredIo'
  BY DEF IoInv, OneTable, PartialIo, FinalIo, AnsweredIo, Sound, Has, Parks, Free
<1>4. ResumedIo' /\ NoStrayIo'
  BY DEF IoInv, ResumedIo, NoStrayIo
<1> QED
  BY <1>1, <1>2, <1>3, <1>4 DEF SyncInv, IoInv

LEMMA CommSteps ==
  ASSUME SyncInv, IoInv, Comm
  PROVE  SyncInv' /\ IoInv'
<1>1. CASE ReleaseFound
  BY <1>1, SyncReleaseFound, IoReleaseSteps
<1>2. CASE ReleaseNotFound
  BY <1>2, SyncReleaseNotFound, IoReleaseSteps
<1>3. CASE ReleaseDone
  BY <1>3, SyncReleaseDone, IoReleaseSteps
<1>4. CASE ReleaseError
  BY <1>4, SyncReleaseError, IoReleaseSteps
<1>5. ASSUME NEW db \in BOOLEAN, ReleasePush(db) PROVE SyncInv' /\ IoInv'
  BY <1>5, SyncReleasePush, IoReleasePush
<1>6. ASSUME NEW c \in Clients, NEW kind \in {"ok", "error"}, Send(c, kind)
      PROVE  SyncInv' /\ IoInv'
  BY <1>6, SyncSend, IoSend
<1>7. ASSUME NEW d \in Devices, CloseDevice(d) PROVE SyncInv' /\ IoInv'
  BY <1>7, SyncCloseDevice, IoCloseDevice
<1> QED
  BY <1>1, <1>2, <1>3, <1>4, <1>5, <1>6, <1>7 DEF Comm

LEMMA DeviceSteps ==
  ASSUME SyncInv, IoInv, NEW d \in Devices, Device(d)
  PROVE  SyncInv' /\ IoInv'
<1>t. TypeOK
  BY DEF SyncInv
<1>1. ASSUME NEW s \in dev[d].tosync, RemoveCanceledSync(d, s) PROVE SyncInv' /\ IoInv'
  <2>1. PICK c \in Clients, k \in Slots : s = <<c, k>>
    BY <1>t, SubPair
  <2>2. RemoveCanceledSync(d, <<c, k>>)
    BY <1>1, <2>1
  <2> QED
    BY <2>2, SyncRemoveCanceledSync, IoRemoveCanceledSync
<1>2. ASSUME NEW s \in dev[d].tosync, FlushSub(d, s) PROVE SyncInv' /\ IoInv'
  <2>1. PICK c \in Clients, k \in Slots : s = <<c, k>>
    BY <1>t, SubPair
  <2>2. FlushSub(d, <<c, k>>)
    BY <1>2, <2>1
  <2>3. SyncInv'
    BY <2>2, SyncFlushSub
  <2> QED
    BY <2>2, <2>3, IoFlushSub
<1>3. CASE DevEnd(d)
  BY <1>3, SyncDeviceSteps, IoDevEnd
<1>4. CASE \/ CheckNeedsSync(d) \/ FlushReport(d) \/ FlushEnd(d) \/ CleanTosync(d)
           \/ \E ok, dies \in BOOLEAN : DevSync(d, ok, dies)
  BY <1>4, SyncDeviceSteps, IoDeviceSteps
<1> QED
  BY <1>1, <1>2, <1>3, <1>4 DEF Device

LEMMA NextInv ==
  ASSUME SyncInv, IoInv, [Next]_vars
  PROVE  SyncInv' /\ IoInv'
<1>1. CASE UNCHANGED vars
  BY <1>1, Stutters
<1>2. CASE AtRest
  BY <1>2, Stutters DEF AtRest
<1>3. CASE Comm
  BY <1>3, CommSteps
<1>4. ASSUME NEW d \in Devices, Device(d) PROVE SyncInv' /\ IoInv'
  BY <1>4, DeviceSteps
<1>5. ASSUME NEW c \in Clients, Begin(c) PROVE SyncInv' /\ IoInv'
  BY <1>5, SyncBegin, IoBegin
<1>6. ASSUME NEW c \in Clients, NEW partial \in BOOLEAN, ReleaseStart(c, partial)
      PROVE  SyncInv' /\ IoInv'
  BY <1>6, SyncReleaseStart, IoReleaseStart
<1>7. ASSUME NEW c \in Clients, Close(c) PROVE SyncInv' /\ IoInv'
  BY <1>7, SyncClose, IoClose
<1> QED
  BY <1>1, <1>2, <1>3, <1>4, <1>5, <1>6, <1>7 DEF Next, Client

LEMMA SpecInv == Spec => [](SyncInv /\ IoInv)
<1>1. Init => SyncInv /\ IoInv
  BY InitSync, InitIo
<1>2. SyncInv /\ IoInv /\ [Next]_vars => (SyncInv /\ IoInv)'
  BY NextInv
<1> QED
  BY <1>1, <1>2, PTL DEF Spec

\* The containers, the devices and the position of the communication thread
\* keep their shape, whatever the clients, devices and failures are: the index
\* that release_medium is given is always the one of a medium of the release
\* (lrs.c, process_release_request).
THEOREM SyncTypeCorrect == Spec => []TypeOK
<1>1. SyncInv => TypeOK
  BY DEF SyncInv
<1> QED
  BY <1>1, SpecInv, PTL

\* A release is answered with success only when everything its client wrote
\* was synchronised, on each of its media (flush_tosync_array), although
\* sub-requests have the index of another medium once one could not be
\* released, and other clients release on the devices at the same time.
THEOREM ReleaseDurable == Spec => []DurableAnswer
<1>1. SyncInv => DurableAnswer
  BY DEF SyncInv
<1> QED
  BY <1>1, SpecInv, PTL

\* The I/O that move_ongoing_io parks is back for a client that goes on after
\* a partial release, and no device counts the I/O of one that ended.
THEOREM ParkedIoReturns == Spec => []ParkedIo
<1>1. IoInv => ParkedIo
  BY DEF IoInv, ParkedIo
<1> QED
  BY <1>1, SpecInv, PTL
=============================================================================
