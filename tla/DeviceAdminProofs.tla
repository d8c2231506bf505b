------------------------- MODULE DeviceAdminProofs -------------------------
(***************************************************************************)
(* Proofs about DeviceAdmin, for every set of drives, tapes and            *)
(* administrators and every bound: who acts on a drive (DriveInHand), what *)
(* an answered lock promises (LockEffective), and that a command never     *)
(* waits for a request that is gone (Awaited).                             *)
(*                                                                         *)
(* The inductive invariant AdminInv is built in layers, each with a        *)
(* predicate that says what a step may do to it, so that an action is      *)
(* opened once: the types; what each drive's lock, row and threads say of  *)
(* one another (Fine); that no two handles have one number; the drives     *)
(* whose lock was answered; the requests and the handles they name; the    *)
(* commands that wait.                                                     *)
(***************************************************************************)
EXTENDS DeviceAdmin, FiniteSetTheorems, WellFoundedInduction, TLAPS

Pcs == {"idle", "insert", "undo", "read", "write", "notify", "wait", "get", "lookup", "lock",
        "act", "tape", "move", "weaken", "unlock", "back", "clean"}
CommandRec == [pc : Pcs, cmd : Commands \cup {"none"}, d : Drives \cup {None}, t : Tapes \cup {None},
               conn : Nat, was : BOOLEAN, host : {Here, Away}, to : {"none", "locked", "unlocked"}, forced : BOOLEAN,
               wait : BOOLEAN, resp : {"none", "ok", "err"}]

\* A command that has begun has a drive and a status to set, and is answered
\* only while it waits.
Proper(o) ==
    /\ o.pc # "idle" => o.d \in Drives /\ o.to # "none"
    /\ o.resp # "none" => o.pc = "wait"

\* Only a thread that runs, or is yet to see that it must stop, is at work.
HandleRec == [id : 1..MaxHandle, d : Drives, busy : BOOLEAN, med : Tapes \cup {None},
              th : Holding \cup {"refused", "dropping", "ended"}]
Handle == {h \in HandleRec : h.busy => h.th \in {"run", "stopping"}}

OpTypes == op \in [Admins -> CommandRec] /\ \A a \in Admins : Proper(op[a])
RowTypes == row \in [Drives -> DeviceRow]
DriveLock(pid) == {r \in LockRow : r.host = Here /\ r.owner \in Admins \cup (1..pid) /\ ~r.weak}
TapeLock(pid) == {r \in LockRow : r.owner \in Admins \cup (1..pid) \/ r.host = Away}

LockTypes == lock \in [Drives -> DriveLock(lrs.pid) \cup {NoLock}]
TapeTypes == tlock \in [Tapes -> TapeLock(lrs.pid) \cup {NoLock}]
InTypes == in \in [Drives -> Tapes \cup {None}]
LrsTypes ==
    /\ lrs \in [st : {"down", "init", "up", "stopping"}, pid : 0..MaxStop + 1]
    /\ lrs.st = "down" => hdls = <<>> /\ joining = None /\ adding = None
    /\ lrs.st # "down" => lrs.pid # 0
CountTypes == used \in [command : Nat, handle : 0..MaxHandle, work : Nat, fault : Nat, stop : Nat]
HandleTypes ==
    /\ hdls \in Seq(Handle) /\ CountTypes
    /\ \A i \in DOMAIN hdls : hdls[i].id <= used.handle
QueueTypes == incoming \in Seq(Request) /\ joining \in Request \cup {None} /\ adding \in Adding \cup {None}
MarkTypes == sure \subseteq Drives /\ torn \subseteq Drives \X Defects

Types ==
    /\ OpTypes /\ RowTypes /\ LockTypes /\ TapeTypes /\ InTypes
    /\ LrsTypes /\ HandleTypes /\ QueueTypes /\ MarkTypes

\* A request that waits for the end of a thread names a handle of its drive.
Fits(r) == r.id <= used.handle /\ \A i \in DOMAIN hdls : hdls[i].id = r.id => hdls[i].d = r.d
RequestsFit == (\A n \in DOMAIN incoming : Fits(incoming[n])) /\ (joining # None => Fits(joining))

\* A thread of the LRS holds the drive; command a is in its section for it.
Working(d) == \E i \in HandlesOf(d) : Holds(i)
On(a, d) == op[a].d = d /\ InSection(a)

\* The lock of a drive is that of its holder, and the LRS holds drives of its own.
Held(d) ==
    /\ Working(d) => lock[d] = Row(Here, lrs.pid, FALSE)
    /\ \A a \in Admins : On(a, d) => lock[d] = Row(Here, a, FALSE)
Owned(d) == Working(d) => row[d].in /\ row[d].host = Here

SureLocked == \A d \in sure : row[d].adm # "unlocked"

Waits(a) == At(a, "wait") /\ op[a].resp = "none"
Pending(a) ==
    \/ \E n \in DOMAIN incoming : incoming[n].by = a /\ incoming[n].wait
    \/ joining # None /\ joining.by = a /\ joining.wait
    \/ adding # None /\ adding.req # None /\ adding.req.by = a /\ adding.req.wait

-----------------------------------------------------------------------------
(* How an action changes a command.                                        *)

\* The same command with other values in its fields of control.
SameCommand(o, q) ==
    /\ q \in CommandRec /\ q.d = o.d /\ q.to = o.to /\ q.cmd = o.cmd /\ (q.wait <=> o.wait)
    /\ q.conn = o.conn

\* A step of command `a' changes no other command.
Alone(a) == op' \in [Admins -> CommandRec] /\ \A b \in Admins \ {a} : op'[b] = op[b]

LEMMA PcField ==
    ASSUME NEW o \in CommandRec, NEW p \in Pcs
    PROVE  LET q == [o EXCEPT !.pc = p] IN SameCommand(o, q) /\ q.pc = p /\ q.resp = o.resp
<1>1. [o EXCEPT !.pc = p] \in CommandRec  BY DEF CommandRec
<1> QED  BY <1>1 DEF CommandRec, SameCommand

LEMMA RespField ==
    ASSUME NEW o \in CommandRec, NEW rc \in {"none", "ok", "err"}
    PROVE  LET q == [o EXCEPT !.resp = rc] IN SameCommand(o, q) /\ q.resp = rc /\ q.pc = o.pc
<1>1. [o EXCEPT !.resp = rc] \in CommandRec  BY DEF CommandRec
<1> QED  BY <1>1 DEF CommandRec, SameCommand

LEMMA NoCommandIs ==
    /\ NoCommand \in CommandRec /\ NoCommand.pc = "idle" /\ NoCommand.resp = "none"
    /\ Proper(NoCommand)
<1>1. NoCommand \in CommandRec  BY DEF NoCommand, CommandRec, Pcs
<1>2. NoCommand.pc = "idle" /\ NoCommand.resp = "none"  BY DEF NoCommand
<1> QED  BY <1>1, <1>2 DEF Proper

\* What a step of a command leaves of the others.
LEMMA GoIs ==
    ASSUME OpTypes, NEW a \in Admins, NEW p \in Pcs, Go(a, p), op[a].pc # "idle", op[a].pc # "wait"
    PROVE  /\ OpTypes' /\ Alone(a) /\ SameCommand(op[a], op'[a])
           /\ op'[a].pc = p /\ op'[a].resp = "none"
<1> DEFINE q == [op[a] EXCEPT !.pc = p]
<1>1. op[a] \in CommandRec /\ op[a].resp = "none" /\ Proper(op[a])  BY DEF OpTypes, Proper, CommandRec
<1>2. SameCommand(op[a], q) /\ q.pc = p /\ q.resp = op[a].resp  BY <1>1, PcField
<1>3. op' = [op EXCEPT ![a] = q]  BY DEF Go
<1>4. q \in CommandRec  BY <1>2 DEF SameCommand
<1> HIDE DEF q
<1>5. op'[a] = q /\ Alone(a)  BY <1>3, <1>4 DEF OpTypes, Alone
<1>6. Proper(q)  BY <1>1, <1>2 DEF Proper, SameCommand
<1> QED  BY <1>1, <1>2, <1>5, <1>6 DEF OpTypes, Alone

LEMMA EndIs ==
    ASSUME OpTypes, NEW a \in Admins, End(a)
    PROVE  OpTypes' /\ Alone(a) /\ op'[a] = NoCommand /\ op'[a].pc = "idle" /\ op'[a].resp = "none"
BY NoCommandIs DEF End, OpTypes, Alone

\* The answer to a request ends one wait at most, and makes none.
Replied(r) ==
    \A a \in Admins : op'[a].pc = "wait" /\ op'[a].resp = "none" => Waits(a) /\ ~(r.by = a /\ r.wait)

LEMMA AnswerIs ==
    ASSUME OpTypes, NEW r \in Request, NEW rc \in {"ok", "err"}, Answer(r, rc)
    PROVE  /\ OpTypes' /\ Replied(r)
           /\ \A a \in Admins : op'[a].pc = op[a].pc /\ op'[a].d = op[a].d
<1> DEFINE a == r.by
           q == [op[a] EXCEPT !.resp = rc]
<1>0. a \in Admins /\ rc # "none"  BY DEF Request
<1>1. CASE r.wait /\ op[a].pc = "wait"
  <2>1. op[a] \in CommandRec /\ Proper(op[a])  BY <1>0 DEF OpTypes
  <2>2. SameCommand(op[a], q) /\ q.pc = op[a].pc /\ q.resp = rc  BY <2>1, RespField
  <2>3. op' = [op EXCEPT ![a] = q]  BY <1>1 DEF Answer
  <2>4. q \in CommandRec  BY <2>2 DEF SameCommand
  <2> HIDE DEF q, a
  <2>5. op'[a] = q /\ Alone(a)  BY <1>0, <2>3, <2>4 DEF OpTypes, Alone
  <2>6. Proper(q)  BY <2>1, <2>2, <1>1 DEF Proper, SameCommand
  <2>7. OpTypes'  BY <1>0, <2>5, <2>6 DEF OpTypes, Alone
  <2>8. \A b \in Admins : op'[b].pc = op[b].pc /\ op'[b].d = op[b].d
    BY <2>2, <2>5 DEF Alone, SameCommand
  <2>9. op'[a].resp # "none"  BY <2>2, <2>5, <1>0
  <2>10. Replied(r)  BY <2>5, <2>9 DEF Replied, Alone, Waits, At, a
  <2> QED  BY <2>7, <2>8, <2>10
<1>2. CASE ~(r.wait /\ op[a].pc = "wait")
  <2>1. op' = op  BY <1>2 DEF Answer
  <2> QED  BY <2>1, <1>2 DEF OpTypes, Proper, Replied, Waits, At
<1> QED  BY <1>1, <1>2

-----------------------------------------------------------------------------
(* How a statement changes a table of locks.                               *)

LEMMA ReleasedIs ==
    ASSUME NEW K, NEW S, NEW T \in [K -> S \cup {NoLock}], NEW k, NEW p
    PROVE  /\ Released(T, k, p) \in [K -> S \cup {NoLock}]
           /\ \A j \in K : Released(T, k, p)[j] =
                 IF j = k /\ k # None /\ UnlockApplies(T, k, Here, p) THEN NoLock ELSE T[j]
BY DEF Released, Unlock

LEMMA PossessIs ==
    ASSUME NEW K, NEW S, NEW T \in [K -> S \cup {NoLock}], NEW k, NEW p, Row(Here, p, FALSE) \in S
    PROVE  /\ Possess(T, k, Here, p) \in [K -> S \cup {NoLock}]
           /\ \A j \in K : Possess(T, k, Here, p)[j] = IF j = k THEN Row(Here, p, FALSE) ELSE T[j]
           /\ Possessed(T, k, p) \in [K -> S \cup {NoLock}]
BY DEF Possess, Possessed

LEMMA BasicIs ==
    ASSUME NEW T, NEW k, NEW p
    PROVE  BasicLock(T, k, Here, p, FALSE) = Possess(T, k, Here, p)
BY DEF Possess, BasicLock

LEMMA DeleteIs ==
    ASSUME NEW K, NEW S, NEW T \in [K -> S \cup {NoLock}], NEW D
    PROVE  /\ DeleteRows(T, D) \in [K -> S \cup {NoLock}]
           /\ \A j \in K : DeleteRows(T, D)[j] = IF j \in D THEN NoLock ELSE T[j]
BY DEF DeleteRows

\* A row of an administrator or of the LRS is one that a table may hold.
LEMMA RowsOf ==
    ASSUME NEW n \in Nat, NEW p \in Admins \cup (1..n)
    PROVE  Row(Here, p, FALSE) \in DriveLock(n) /\ Row(Here, p, FALSE) \in TapeLock(n)
BY DEF Row, DriveLock, TapeLock, LockRow

LEMMA MorePids ==
    ASSUME NEW n \in Nat
    PROVE  DriveLock(n) \subseteq DriveLock(n + 1) /\ TapeLock(n) \subseteq TapeLock(n + 1)
BY DEF DriveLock, TapeLock

\* A weakened row of a tape is still one of its owner.
LEMMA WeakIs ==
    ASSUME NEW n \in Nat, NEW T \in [Tapes -> TapeLock(n) \cup {NoLock}], NEW t,
           NEW a, SetWeakApplies(T, t, Here, a)
    PROVE  SetWeak(T, t) \in [Tapes -> TapeLock(n) \cup {NoLock}]
<1>1. CASE t \in Tapes
  <2>1. T[t] \in TapeLock(n)  BY <1>1 DEF SetWeakApplies, OwnedBy, IsLocked
  <2>2. [T[t] EXCEPT !.weak = TRUE] \in TapeLock(n)  BY <2>1 DEF TapeLock, LockRow
  <2>3. SetWeak(T, t) = [T EXCEPT ![t] = [T[t] EXCEPT !.weak = TRUE]]  BY DEF SetWeak
  <2> QED  BY <2>2, <2>3
<1>2. CASE t \notin Tapes
  BY <1>2 DEF SetWeak
<1> QED  BY <1>1, <1>2

-----------------------------------------------------------------------------
(* How an action changes the handles.                                      *)

\* Only the state of a thread changes, and no thread comes back to life.
HandlesKeep ==
    /\ hdls' \in Seq(Handle) /\ DOMAIN hdls' = DOMAIN hdls
    /\ \A i \in DOMAIN hdls :
          hdls'[i].id = hdls[i].id /\ hdls'[i].d = hdls[i].d /\ (hdls'[i].th # "ended" => hdls[i].th # "ended")

LEMMA HandleAt ==
    ASSUME HandleTypes, NEW i \in DOMAIN hdls
    PROVE  hdls[i] \in Handle
BY DEF HandleTypes

\* The same thread in another state.
SameHandle(h, g) == g \in Handle /\ g.id = h.id /\ g.d = h.d /\ (g.th # "ended" => h.th # "ended")

LEMMA SetHandleIs ==
    ASSUME HandleTypes, NEW i \in DOMAIN hdls, NEW g, SameHandle(hdls[i], g), SetHandle(i, g)
    PROVE  HandlesKeep /\ hdls'[i] = g /\ \A j \in DOMAIN hdls \ {i} : hdls'[j] = hdls[j]
BY DEF HandleTypes, SameHandle, SetHandle, HandlesKeep

LEMMA BusyField ==
    ASSUME NEW h \in Handle, NEW m \in Tapes \cup {None}, h.th = "run"
    PROVE  /\ SameHandle(h, [h EXCEPT !.busy = TRUE]) /\ [h EXCEPT !.busy = TRUE].th = h.th
           /\ SameHandle(h, [h EXCEPT !.busy = TRUE, !.med = m]) /\ [h EXCEPT !.busy = TRUE, !.med = m].th = h.th
<1>1. [h EXCEPT !.busy = TRUE] \in HandleRec  BY DEF Handle, HandleRec
<1>2. [h EXCEPT !.busy = TRUE, !.med = m] \in HandleRec  BY DEF Handle, HandleRec
<1> QED  BY <1>1, <1>2 DEF Handle, HandleRec, SameHandle

LEMMA IdleField ==
    ASSUME NEW h \in Handle
    PROVE  SameHandle(h, [h EXCEPT !.busy = FALSE]) /\ [h EXCEPT !.busy = FALSE].th = h.th
<1>1. [h EXCEPT !.busy = FALSE] \in HandleRec  BY DEF Handle, HandleRec
<1> QED  BY <1>1 DEF Handle, HandleRec, SameHandle

Later == {"run", "idle", "stopping", "failing", "releasing", "dropping", "ended"}

LEMMA ThreadField ==
    ASSUME NEW h \in Handle, ~h.busy, h.th # "ended", NEW x \in Later
    PROVE  SameHandle(h, [h EXCEPT !.th = x]) /\ [h EXCEPT !.th = x].th = x
<1>1. [h EXCEPT !.th = x] \in HandleRec  BY DEF Handle, HandleRec, Holding, Later
<1> QED  BY <1>1 DEF Handle, HandleRec, SameHandle

LEMMA MediumField ==
    ASSUME NEW h \in Handle, ~h.busy, h.th # "ended", NEW x \in Later, NEW m \in Tapes \cup {None}
    PROVE  SameHandle(h, [h EXCEPT !.th = x, !.med = m]) /\ [h EXCEPT !.th = x, !.med = m].th = x
<1>1. [h EXCEPT !.th = x, !.med = m] \in HandleRec  BY DEF Handle, HandleRec, Holding, Later
<1> QED  BY <1>1 DEF Handle, HandleRec, SameHandle

LEMMA FailingField ==
    ASSUME NEW h \in Handle, h.busy, NEW x \in {"failing", "releasing"}
    PROVE  LET g == [h EXCEPT !.th = x, !.med = None, !.busy = FALSE] IN
           SameHandle(h, g) /\ g.th \in Holding /\ h.th \in Holding
<1>1. [h EXCEPT !.th = x, !.med = None, !.busy = FALSE] \in HandleRec  BY DEF Handle, HandleRec, Holding
<1>2. h.th \in {"run", "stopping"}  BY DEF Handle
<1>3. [h EXCEPT !.th = x, !.med = None, !.busy = FALSE].th = x  BY DEF Handle, HandleRec
<1> QED  BY <1>1, <1>2, <1>3 DEF Handle, HandleRec, SameHandle, Holding

LEMMA StoppingIs ==
    ASSUME NEW h \in Handle
    PROVE  SameHandle(h, Stopping(h)) /\ (Stopping(h).th \in Holding <=> h.th \in Holding)
<1>1. CASE h.th \in {"run", "idle"}
  <2>1. [h EXCEPT !.th = "stopping"] \in HandleRec  BY DEF Handle, HandleRec, Holding
  <2> QED  BY <1>1, <2>1 DEF Handle, HandleRec, SameHandle, Stopping, Holding
<1>2. CASE h.th \notin {"run", "idle"}
  BY <1>2 DEF SameHandle, Stopping
<1> QED  BY <1>1, <1>2

LEMMA CountIs ==
    ASSUME CountTypes, NEW w \in {"command", "work", "fault", "stop"}, used' = Count(w)
    PROVE  CountTypes' /\ used'.handle = used.handle
<1>1. CASE w = "command"  BY <1>1 DEF CountTypes, Count
<1>2. CASE w = "work"  BY <1>2 DEF CountTypes, Count
<1>3. CASE w = "fault"  BY <1>3 DEF CountTypes, Count
<1>4. CASE w = "stop"  BY <1>4 DEF CountTypes, Count
<1> QED  BY <1>1, <1>2, <1>3, <1>4

LEMMA KeepTypes ==
    ASSUME HandleTypes, HandlesKeep, CountTypes', used'.handle = used.handle
    PROVE  HandleTypes' /\ (hdls = <<>> => hdls' = <<>>)
<1>1. HandleTypes'  BY DEF HandleTypes, HandlesKeep
<1>2. hdls = <<>> => hdls' = <<>>  BY DEF HandleTypes, HandlesKeep
<1> QED  BY <1>1, <1>2

\* The last handle takes the place of one that is removed.
LEMMA WithoutIs ==
    ASSUME HandleTypes, NEW i \in DOMAIN hdls, hdls' = Without(i)
    PROVE  /\ hdls' \in Seq(Handle) /\ DOMAIN hdls' = 1..Len(hdls) - 1
           /\ \A j \in DOMAIN hdls' : hdls'[j] = hdls[IF j = i THEN Len(hdls) ELSE j]
           /\ \A j \in DOMAIN hdls' : (IF j = i THEN Len(hdls) ELSE j) \in DOMAIN hdls \ {i}
<1>1. hdls \in Seq(Handle) /\ Len(hdls) \in Nat \ {0} /\ DOMAIN hdls = 1..Len(hdls)  BY DEF HandleTypes
<1>2. \A j \in 1..Len(hdls) - 1 : (IF j = i THEN Len(hdls) ELSE j) \in DOMAIN hdls \ {i}  BY <1>1
<1>3. \A j \in 1..Len(hdls) - 1 : hdls[IF j = i THEN Len(hdls) ELSE j] \in Handle  BY <1>1, <1>2
<1>4. Without(i) = [j \in 1..Len(hdls) - 1 |-> hdls[IF j = i THEN Len(hdls) ELSE j]]  BY DEF Without
<1>5. Without(i) \in Seq(Handle)
  BY <1>1, <1>3, <1>4
<1> QED  BY <1>1, <1>2, <1>4, <1>5

-----------------------------------------------------------------------------
(* The types, and what most steps leave of the drives.                     *)

\* The commands that work on a drive stay the same.
Aside ==
    \A a \in Admins : /\ op'[a].pc \in {"act", "tape", "move", "weaken", "unlock"} <=> InSection(a)
                      /\ InSection(a) => op'[a].d = op[a].d

\* A step that takes no drive and leaves none.
Calm ==
    /\ Aside /\ HandlesKeep /\ (\A i \in DOMAIN hdls : hdls'[i].th \in Holding <=> Holds(i))
    /\ \A e \in Drives : row[e].in /\ row[e].host = Here => row'[e].in /\ row'[e].host = Here
    /\ lock' = lock /\ torn' = torn /\ lrs'.pid = lrs.pid
    /\ (lrs'.st = "down" <=> lrs.st = "down") /\ (lrs'.st = "init" => lrs.st = "init")

LEMMA SameAside ==
    ASSUME op' = op
    PROVE  Aside
BY DEF Aside, InSection

LEMMA SameHandles ==
    ASSUME HandleTypes, hdls' = hdls
    PROVE  HandlesKeep /\ \A i \in DOMAIN hdls : hdls'[i].th \in Holding <=> Holds(i)
BY DEF HandleTypes, HandlesKeep, Holds

LEMMA SetAdmIs ==
    ASSUME RowTypes, NEW d \in Drives, NEW st \in {"unlocked", "locked", "failed"}, row' = SetAdm(d, st)
    PROVE  /\ RowTypes'
           /\ \A e \in Drives : /\ row'[e].in <=> row[e].in
                                /\ row'[e].host = row[e].host
                                /\ row'[e].adm = row[e].adm \/ (e = d /\ row'[e].adm = st)
<1>1. CASE row[d].in
  <2>1. [row[d] EXCEPT !.adm = st] \in DeviceRow  BY DEF RowTypes, DeviceRow
  <2>2. row' = [row EXCEPT ![d] = [row[d] EXCEPT !.adm = st]]  BY <1>1 DEF SetAdm
  <2>3. RowTypes'  BY <2>1, <2>2 DEF RowTypes
  <2>4. \A e \in Drives : row'[e] = IF e = d THEN [row[d] EXCEPT !.adm = st] ELSE row[e]
    BY <2>2 DEF RowTypes
  <2>5. /\ [row[d] EXCEPT !.adm = st].in = row[d].in
        /\ [row[d] EXCEPT !.adm = st].host = row[d].host
        /\ [row[d] EXCEPT !.adm = st].adm = st
    BY DEF RowTypes, DeviceRow
  <2> QED  BY <2>3, <2>4, <2>5
<1>2. CASE ~row[d].in
  BY <1>2 DEF SetAdm, RowTypes
<1> QED  BY <1>1, <1>2

\* The parts of the types that a step of a thread may change.
LEMMA ThreadTypes ==
    ASSUME Types, HandlesKeep, CountTypes', used'.handle = used.handle,
           row' \in [Drives -> DeviceRow],
           lock' \in [Drives -> DriveLock(lrs.pid) \cup {NoLock}],
           tlock' \in [Tapes -> TapeLock(lrs.pid) \cup {NoLock}],
           in' \in [Drives -> Tapes \cup {None}],
           UNCHANGED <<lrs, adding, joining, incoming, op, sure, torn>>
    PROVE  Types'
<1>1. HandleTypes' /\ (hdls = <<>> => hdls' = <<>>)  BY KeepTypes DEF Types
<1>2. LrsTypes'  BY <1>1 DEF Types, LrsTypes
<1>3. OpTypes' /\ QueueTypes' /\ MarkTypes'  BY DEF Types, OpTypes, QueueTypes, MarkTypes, Proper
<1>4. RowTypes' /\ LockTypes' /\ TapeTypes' /\ InTypes'
  BY DEF RowTypes, LockTypes, TapeTypes, InTypes
<1> QED  BY <1>1, <1>2, <1>3, <1>4 DEF Types

\* The LRS that has handles runs, under a process of its own.
LEMMA PidOfHandles ==
    ASSUME Types, NEW i \in DOMAIN hdls
    PROVE  lrs.st # "down" /\ lrs.pid \in 1..lrs.pid /\ lrs.pid \in Nat
BY DEF Types, LrsTypes, HandleTypes

LEMMA ThreadWorksEffect ==
    ASSUME Types, NEW i \in DOMAIN hdls, ThreadWorks(i)
    PROVE  Types' /\ Calm
<1> DEFINE h == hdls[i]
<1>0. h \in Handle /\ lrs.pid \in 1..lrs.pid /\ lrs.pid \in Nat /\ h.th = "run"
  BY HandleAt, PidOfHandles DEF Types, ThreadWorks
<1>1. CountTypes' /\ used'.handle = used.handle  BY CountIs DEF ThreadWorks, Types, HandleTypes
<1>2. UNCHANGED <<row, lock, lrs, adding, joining, incoming, op, sure, torn>>  BY DEF ThreadWorks
<1>3. ASSUME h.med # None, SetHandle(i, [h EXCEPT !.busy = TRUE]), UNCHANGED <<tlock, in>>
      PROVE  Types' /\ Calm
  <2>1. SameHandle(h, [h EXCEPT !.busy = TRUE]) /\ [h EXCEPT !.busy = TRUE].th = h.th
    BY <1>0, BusyField
  <2>2. HandlesKeep /\ hdls'[i] = [h EXCEPT !.busy = TRUE] /\ \A j \in DOMAIN hdls \ {i} : hdls'[j] = hdls[j]
    BY <1>3, <2>1, SetHandleIs DEF Types
  <2>3. Types'  BY <1>1, <1>2, <1>3, <2>2, ThreadTypes DEF Types, RowTypes, LockTypes, TapeTypes, InTypes
  <2>4. Aside  BY <1>2, SameAside
  <2> QED  BY <1>2, <2>1, <2>2, <2>3, <2>4 DEF Calm, Holds
<1>4. ASSUME NEW t \in Tapes, tlock' = BasicLock(tlock, t, Here, lrs.pid, FALSE),
             in' = [in EXCEPT ![h.d] = t],
             SetHandle(i, [h EXCEPT !.busy = TRUE, !.med = t])
      PROVE  Types' /\ Calm
  <2>1. SameHandle(h, [h EXCEPT !.busy = TRUE, !.med = t]) /\ [h EXCEPT !.busy = TRUE, !.med = t].th = h.th
    BY <1>0, BusyField
  <2>2. /\ HandlesKeep /\ hdls'[i] = [h EXCEPT !.busy = TRUE, !.med = t]
        /\ \A j \in DOMAIN hdls \ {i} : hdls'[j] = hdls[j]
    BY <1>4, <2>1, SetHandleIs DEF Types
  <2>3. Row(Here, lrs.pid, FALSE) \in TapeLock(lrs.pid)  BY <1>0, RowsOf
  <2>4. tlock' \in [Tapes -> TapeLock(lrs.pid) \cup {NoLock}]
    <3> DEFINE S == TapeLock(lrs.pid)
    <3>1. tlock \in [Tapes -> S \cup {NoLock}] /\ Row(Here, lrs.pid, FALSE) \in S
      BY <2>3 DEF Types, TapeTypes
    <3> HIDE DEF S
    <3>2. Possess(tlock, t, Here, lrs.pid) \in [Tapes -> S \cup {NoLock}]  BY <3>1, PossessIs
    <3> QED  BY <1>4, <3>2, BasicIs DEF S
  <2>5. in' \in [Drives -> Tapes \cup {None}]  BY <1>4 DEF Types, InTypes
  <2>6. Types'  BY <1>1, <1>2, <2>2, <2>4, <2>5, ThreadTypes DEF Types, RowTypes, LockTypes
  <2>7. Aside  BY <1>2, SameAside
  <2> QED  BY <1>2, <2>1, <2>2, <2>6, <2>7 DEF Calm, Holds
<1> QED  BY <1>3, <1>4 DEF ThreadWorks

LEMMA ThreadDoneEffect ==
    ASSUME Types, NEW i \in DOMAIN hdls, ThreadDone(i)
    PROVE  Types' /\ Calm
<1> DEFINE h == hdls[i]
           g == [h EXCEPT !.busy = FALSE]
<1>0. h \in Handle  BY HandleAt DEF Types
<1>1. SameHandle(h, g) /\ g.th = h.th  BY <1>0, IdleField
<1>2. UNCHANGED <<row, lock, tlock, in, lrs, adding, joining, incoming, op, used, sure, torn>> /\ SetHandle(i, g)
  BY DEF ThreadDone, dss
<1> HIDE DEF g
<1>3. HandlesKeep /\ hdls'[i] = g /\ \A j \in DOMAIN hdls \ {i} : hdls'[j] = hdls[j]
  BY <1>1, <1>2, SetHandleIs DEF Types
<1>4. CountTypes' /\ used'.handle = used.handle  BY <1>2 DEF Types, HandleTypes, CountTypes
<1>5. Types'  BY <1>2, <1>3, <1>4, ThreadTypes DEF Types, RowTypes, LockTypes, TapeTypes, InTypes
<1>6. Aside  BY <1>2, SameAside
<1> QED  BY <1>1, <1>2, <1>3, <1>5, <1>6 DEF Calm, Holds

\* A thread that gives its tape back, at a stop or on an error.
LEMMA TapeGivenBack ==
    ASSUME Types, NEW i \in DOMAIN hdls, NEW g, SameHandle(hdls[i], g), SetHandle(i, g), Holds(i), g.th \in Holding,
           tlock' = Released(tlock, hdls[i].med, lrs.pid), CountTypes', used'.handle = used.handle,
           UNCHANGED <<row, lock, in, lrs, adding, joining, incoming, op, sure, torn>>
    PROVE  Types' /\ Calm
<1>1. HandlesKeep /\ hdls'[i] = g /\ \A j \in DOMAIN hdls \ {i} : hdls'[j] = hdls[j]
  BY SetHandleIs DEF Types
<1>2. tlock' \in [Tapes -> TapeLock(lrs.pid) \cup {NoLock}]  BY ReleasedIs DEF Types, TapeTypes
<1>3. Types'  BY <1>1, <1>2, ThreadTypes DEF Types, RowTypes, LockTypes, InTypes
<1>4. Aside  BY SameAside
<1> QED  BY <1>1, <1>3, <1>4 DEF Calm, Holds

LEMMA ThreadStopsEffect ==
    ASSUME Types, NEW i \in DOMAIN hdls, ThreadStops(i)
    PROVE  Types' /\ Calm
<1> DEFINE h == hdls[i]
           g == [h EXCEPT !.th = "releasing", !.med = None]
<1>0. h \in Handle /\ h.th = "stopping" /\ ~h.busy  BY HandleAt DEF Types, ThreadStops
<1>1a. SameHandle(h, g) /\ g.th = "releasing"
  <2>1. "releasing" \in Later /\ None \in Tapes \cup {None} /\ h.th # "ended"  BY <1>0 DEF Later
  <2> QED  BY <1>0, <2>1, MediumField
<1>1. SameHandle(h, g) /\ g.th \in Holding /\ Holds(i)  BY <1>0, <1>1a DEF Holding, Holds
<1>2. CountTypes' /\ used'.handle = used.handle  BY DEF Types, HandleTypes, CountTypes, ThreadStops
<1>3. SetHandle(i, g)  BY DEF ThreadStops
<1> HIDE DEF g
<1> QED  BY <1>1, <1>2, <1>3, TapeGivenBack DEF ThreadStops

LEMMA ThreadFailsEffect ==
    ASSUME Types, NEW i \in DOMAIN hdls, ThreadFails(i)
    PROVE  Types' /\ Calm
<1>0. hdls[i] \in Handle /\ hdls[i].busy  BY HandleAt DEF Types, ThreadFails
<1>1. PICK th \in {"failing", "releasing"} : SetHandle(i, [hdls[i] EXCEPT !.th = th, !.med = None, !.busy = FALSE])
  BY DEF ThreadFails
<1> DEFINE g == [hdls[i] EXCEPT !.th = th, !.med = None, !.busy = FALSE]
<1>2. SameHandle(hdls[i], g) /\ g.th \in Holding /\ Holds(i)  BY <1>0, FailingField DEF Holds
<1>3. CountTypes' /\ used'.handle = used.handle  BY CountIs DEF Types, HandleTypes, ThreadFails, Fault
<1>4. SetHandle(i, g)  BY <1>1
<1> HIDE DEF g
<1> QED  BY <1>2, <1>3, <1>4, TapeGivenBack DEF ThreadFails

LEMMA ThreadSetsFailedEffect ==
    ASSUME Types, NEW i \in DOMAIN hdls, ThreadSetsFailed(i)
    PROVE  Types' /\ Calm /\ \A e \in Drives : row'[e].adm = row[e].adm \/ row'[e].adm = "failed"
<1> DEFINE h == hdls[i]
           x == IF h.th = "failing" THEN "releasing" ELSE "dropping"
           g == [h EXCEPT !.th = x]
<1>0. h \in Handle /\ h.th \in {"failing", "refused"} /\ ~h.busy /\ h.d \in Drives
  BY HandleAt DEF Types, ThreadSetsFailed, Handle, HandleRec
<1>1b. x \in Later /\ h.th # "ended"  BY <1>0 DEF Later
<1>2. UNCHANGED <<lock, tlock, in, lrs, adding, joining, incoming, op, used, sure, torn>> /\ SetHandle(i, g)
  BY DEF ThreadSetsFailed
<1>1c. x \in Holding <=> Holds(i)  BY <1>0 DEF Holds, Holding
<1> HIDE DEF x
<1>1. SameHandle(h, g) /\ g.th = x  BY <1>0, <1>1b, ThreadField
<1>1a. g.th \in Holding <=> Holds(i)  BY <1>1, <1>1c
<1>3. /\ RowTypes'
      /\ \A e \in Drives : /\ row'[e].in <=> row[e].in
                           /\ row'[e].host = row[e].host
                           /\ row'[e].adm = row[e].adm \/ (e = h.d /\ row'[e].adm = "failed")
  BY <1>0, SetAdmIs DEF Types, ThreadSetsFailed
<1> HIDE DEF g
<1>4. HandlesKeep /\ hdls'[i] = g /\ \A j \in DOMAIN hdls \ {i} : hdls'[j] = hdls[j]
  BY <1>1, <1>2, SetHandleIs DEF Types
<1>5. CountTypes' /\ used'.handle = used.handle  BY <1>2 DEF Types, HandleTypes, CountTypes
<1>6. Types'  BY <1>2, <1>3, <1>4, <1>5, ThreadTypes DEF Types, RowTypes, LockTypes, TapeTypes, InTypes
<1>7. Aside  BY <1>2, SameAside
<1> QED  BY <1>1a, <1>2, <1>3, <1>4, <1>6, <1>7 DEF Calm, Holds

LEMMA ThreadReleasesEffect ==
    ASSUME Types, NEW i \in DOMAIN hdls, ThreadReleases(i)
    PROVE  /\ Types' /\ Aside /\ HandlesKeep
           /\ hdls'[i].th = "ended" /\ Live(i) /\ \A j \in DOMAIN hdls \ {i} : hdls'[j] = hdls[j]
           /\ \A e \in Drives : lock'[e] = IF e = hdls[i].d /\ lock[e] # NoLock /\ lock[e].owner = lrs.pid
                                           THEN NoLock ELSE lock[e]
<1> DEFINE h == hdls[i]
           g == [h EXCEPT !.th = "ended"]
<1>0. h \in Handle /\ h.th # "ended" /\ ~h.busy /\ h.d \in Drives
  BY HandleAt DEF Types, ThreadReleases, Handle, HandleRec
<1>1. SameHandle(h, g) /\ g.th = "ended"
  <2>1. "ended" \in Later  BY DEF Later
  <2> QED  BY <1>0, <2>1, ThreadField
<1>2. UNCHANGED <<row, tlock, in, lrs, adding, joining, incoming, op, used, sure, torn>> /\ SetHandle(i, g)
  BY DEF ThreadReleases
<1>3. /\ lock' \in [Drives -> DriveLock(lrs.pid) \cup {NoLock}]
      /\ \A e \in Drives : lock'[e] = IF e = h.d /\ h.d # None /\ UnlockApplies(lock, h.d, Here, lrs.pid)
                                      THEN NoLock ELSE lock[e]
  BY ReleasedIs DEF ThreadReleases, Types, LockTypes
<1> HIDE DEF g
<1>4. HandlesKeep /\ hdls'[i] = g /\ \A j \in DOMAIN hdls \ {i} : hdls'[j] = hdls[j]
  BY <1>1, <1>2, SetHandleIs DEF Types
<1>5. CountTypes' /\ used'.handle = used.handle  BY <1>2 DEF Types, HandleTypes, CountTypes
<1>6. Types'  BY <1>2, <1>3, <1>4, <1>5, ThreadTypes DEF Types, RowTypes, TapeTypes, InTypes
<1>7. Aside  BY <1>2, SameAside
<1>8. UnlockApplies(lock, h.d, Here, lrs.pid) <=> lock[h.d] # NoLock /\ lock[h.d].owner = lrs.pid
  <2>1. lock[h.d] # NoLock => lock[h.d].host = Here /\ ~lock[h.d].weak
    BY <1>0 DEF Types, LockTypes, DriveLock
  <2> QED  BY <2>1 DEF UnlockApplies, OwnedBy, IsLocked
<1>9. h.d # None  BY <1>0, NamesAssumption
<1> QED  BY <1>0, <1>1, <1>3, <1>4, <1>6, <1>7, <1>8, <1>9 DEF Live

-----------------------------------------------------------------------------
(* What the steps of the scheduler do to the drives.                       *)

\* A handle is added: with the lock of its drive, or for a drive whose lock was refused.
Grows(d) ==
    /\ used'.handle = used.handle + 1
    /\ Len(hdls) \in Nat /\ DOMAIN hdls = 1..Len(hdls) /\ DOMAIN hdls' = 1..(Len(hdls) + 1)
    /\ hdls'[Len(hdls) + 1].d = d /\ hdls'[Len(hdls) + 1].id = used.handle + 1
    /\ \A i \in DOMAIN hdls : hdls'[i] = hdls[i]
    /\ torn \subseteq torn' /\ (HandlesOf(d) = {} \/ <<d, "second">> \in torn')
    /\ Aside /\ row' = row /\ lrs' = lrs /\ sure' = sure
Takes(d) ==
    /\ Grows(d) /\ hdls'[Len(hdls) + 1].th \in Holding /\ lock[d] = NoLock
    /\ \A e \in Drives : lock'[e] = IF e = d THEN Row(Here, lrs.pid, FALSE) ELSE lock[e]
    /\ (row[d].in /\ row[d].host = Here) \/ <<d, "unseen">> \in torn'
Misses(d) == Grows(d) /\ hdls'[Len(hdls) + 1].th \notin Holding /\ lock' = lock

\* The handle of a thread that has ended is removed.
Removes(i) ==
    /\ i \in DOMAIN hdls /\ ~Live(i) /\ hdls' = Without(i) /\ Aside /\ used' = used
    /\ row' = row /\ lock' = lock /\ lrs' = lrs /\ torn' = torn

\* The LRS is no more.
Dies ==
    /\ Aside /\ hdls' = <<>> /\ adding' = None /\ joining' = None /\ incoming' = <<>>
    /\ lrs'.st = "down" /\ lrs'.pid = lrs.pid
    /\ row' = row /\ lock' = lock /\ torn' = torn /\ sure' = sure
    /\ \A a \in Admins : op'[a].pc = "wait" => op'[a].resp # "none"

LEMMA UnlockAppliesIs ==
    ASSUME LockTypes, NEW d \in Drives, NEW p
    PROVE  UnlockApplies(lock, d, Here, p) <=> lock[d] # NoLock /\ lock[d].owner = p
<1>1. lock[d] # NoLock => lock[d].host = Here /\ ~lock[d].weak
  BY DEF LockTypes, DriveLock
<1> QED  BY <1>1 DEF UnlockApplies, OwnedBy, IsLocked

LEMMA OwnTypes ==
    ASSUME Types, NEW d \in Drives, NEW th \in {"owned", "refused"}, hdls' = Append(hdls, NewHandle(d, th)),
           used.handle < MaxHandle, used' = Count("handle"), Aside, row' = row, lrs' = lrs, sure' = sure,
           torn \subseteq torn', HandlesOf(d) = {} \/ <<d, "second">> \in torn'
    PROVE  HandleTypes' /\ Grows(d) /\ hdls'[Len(hdls) + 1].th = th
<1> DEFINE h == NewHandle(d, th)
<1>1. CountTypes' /\ used'.handle = used.handle + 1 /\ used.handle + 1 \in 1..MaxHandle
  <2>1. CountTypes /\ used.handle < MaxHandle /\ used' = [used EXCEPT !["handle"] = @ + 1]
    BY DEF Count, Types, HandleTypes
  <2>2. used.handle + 1 \in 1..MaxHandle /\ used.handle + 1 \in 0..MaxHandle
    BY <2>1, BoundsAssumption DEF CountTypes
  <2> QED  BY <2>1, <2>2 DEF CountTypes
<1>2. h \in Handle  BY <1>1 DEF NewHandle, Handle, HandleRec, Holding
<1>3. hdls' = Append(hdls, h) /\ hdls \in Seq(Handle)  BY DEF Types, HandleTypes
<1>4. h.d = d /\ h.id = used.handle + 1 /\ h.th = th  BY DEF NewHandle
<1> HIDE DEF h
<1>5. /\ hdls' \in Seq(Handle) /\ DOMAIN hdls = 1..Len(hdls) /\ DOMAIN hdls' = 1..(Len(hdls) + 1)
      /\ hdls'[Len(hdls) + 1] = h /\ (\A i \in DOMAIN hdls : hdls'[i] = hdls[i]) /\ Len(hdls) \in Nat
  BY <1>2, <1>3
<1>6. HandleTypes'
  <2>1. \A i \in DOMAIN hdls' : hdls'[i].id <= used'.handle
    <3> TAKE i \in DOMAIN hdls'
    <3>1. CASE i = Len(hdls) + 1  BY <3>1, <1>1, <1>4, <1>5 DEF Types, HandleTypes, CountTypes
    <3>2. CASE i # Len(hdls) + 1
      <4>1. i \in DOMAIN hdls /\ hdls'[i] = hdls[i]  BY <3>2, <1>5
      <4>2. hdls[i] \in HandleRec /\ hdls[i].id <= used.handle
        BY <4>1 DEF Types, HandleTypes, Handle
      <4>3. used.handle \in Nat /\ hdls[i].id \in Nat  BY <4>2, BoundsAssumption DEF Types, HandleTypes, CountTypes, HandleRec
      <4> QED  BY <4>1, <4>2, <4>3, <1>1
    <3> QED  BY <3>1, <3>2
  <2> QED  BY <2>1, <1>1, <1>5 DEF HandleTypes
<1> QED  BY <1>1, <1>4, <1>5, <1>6 DEF Grows

\* The scheduler answers one command and has no effect on the others.
LEMMA AnswerAside ==
    ASSUME OpTypes, NEW r \in Request, NEW rc \in {"ok", "err"}, Answer(r, rc)
    PROVE  OpTypes' /\ Aside
BY AnswerIs DEF Aside, InSection

LEMMA GoneIs ==
    ASSUME Types, Gone, UNCHANGED <<dss, in, sure, torn>>, CountTypes', used'.handle = used.handle
    PROVE  Types' /\ Dies
<1> DEFINE q(a) == [op[a] EXCEPT !.resp = "err"]
           n(a) == op[a].pc = "wait" /\ op[a].resp = "none"
<1>1. \A a \in Admins : op[a] \in CommandRec /\ Proper(op[a])  BY DEF Types, OpTypes
<1>2. \A a \in Admins : SameCommand(op[a], q(a)) /\ q(a).pc = op[a].pc /\ q(a).resp = "err"
  BY <1>1, RespField
<1>3. \A a \in Admins : op'[a] = IF n(a) THEN q(a) ELSE op[a]  BY DEF Gone
<1>4. DOMAIN op' = Admins /\ op' = [a \in Admins |-> op'[a]]  BY DEF Gone
<1> HIDE DEF q
<1>5. \A a \in Admins : op'[a] \in CommandRec /\ op'[a].pc = op[a].pc /\ op'[a].d = op[a].d /\ Proper(op'[a])
  BY <1>1, <1>2, <1>3 DEF SameCommand, Proper
<1>6. OpTypes'  BY <1>4, <1>5 DEF OpTypes
<1>7. Aside  BY <1>5 DEF Aside, InSection
<1>8. \A a \in Admins : op'[a].pc = "wait" => op'[a].resp # "none"  BY <1>2, <1>3, <1>5
<1>9. hdls' = <<>> /\ adding' = None /\ joining' = None /\ incoming' = <<>> /\ lrs' = [lrs EXCEPT !.st = "down"]  BY DEF Gone
<1>10. lrs'.st = "down" /\ lrs'.pid = lrs.pid
       /\ lrs' \in [st : {"down", "init", "up", "stopping"}, pid : 0..MaxStop + 1]
  BY <1>9 DEF Types, LrsTypes
<1>11. LrsTypes' /\ QueueTypes' /\ HandleTypes'
  BY <1>9, <1>10 DEF LrsTypes, QueueTypes, HandleTypes
<1>12. RowTypes' /\ LockTypes' /\ TapeTypes' /\ InTypes' /\ MarkTypes'
  BY <1>10 DEF Types, RowTypes, LockTypes, TapeTypes, InTypes, MarkTypes, dss
<1> QED  BY <1>6, <1>7, <1>8, <1>9, <1>10, <1>11, <1>12 DEF Types, Dies, dss

LEMMA CalmWhenSame ==
    ASSUME Types, Aside, UNCHANGED <<row, lock, lrs, hdls, torn>>
    PROVE  Calm
BY SameHandles DEF Types, Calm

LEMMA LockStays ==
    ASSUME Types, lrs' = lrs, lock' \in [Drives -> DriveLock(lrs.pid) \cup {NoLock}]
    PROVE  LockTypes'
BY DEF LockTypes

LEMMA TapeStays ==
    ASSUME Types, lrs' = lrs, tlock' \in [Tapes -> TapeLock(lrs.pid) \cup {NoLock}]
    PROVE  TapeTypes'
BY DEF TapeTypes

\* The LRS goes on and none of its threads is changed by a command.
LEMMA LrsStays ==
    ASSUME Types, lrs' = lrs, lrs.st # "down"
    PROVE  LrsTypes'
BY DEF Types, LrsTypes

\* No request is added or removed, and no command begins to wait.
AddRests ==
    \/ adding' = adding
    \/ adding # None /\ adding.req = None /\ adding' = None
    \/ adding # None /\ adding' # None /\ adding'.req = adding.req /\ adding'.todo \subseteq adding.todo
QueueRests ==
    /\ incoming' = incoming /\ joining' = joining /\ AddRests
    /\ \A a \in Admins : op'[a].pc = "wait" /\ op'[a].resp = "none" => Waits(a)

LEMMA SameQueue ==
    ASSUME op' = op, incoming' = incoming, joining' = joining, AddRests
    PROVE  QueueRests
BY DEF QueueRests, Waits, At

\* What the scheduler is adding, with fewer drives to take or another handle to delete.
LEMMA AddingIs ==
    ASSUME Types, adding # None, NEW S \in SUBSET adding.todo, NEW n \in Nat,
           adding' = [adding EXCEPT !.todo = S, !.del = n]
    PROVE  adding' \in Adding /\ AddRests
<1>1. adding \in Adding /\ adding.todo \subseteq Drives  BY DEF Types, QueueTypes, Adding
<1>2. adding' \in Adding /\ adding'.todo = S /\ adding'.req = adding.req  BY <1>1 DEF Adding
<1>3. adding' # None  BY <1>2, NamesAssumption
<1> QED  BY <1>2, <1>3 DEF AddRests

LEMMA OwnEffect ==
    ASSUME Types, NEW d \in Drives, Own(d)
    PROVE  Types' /\ QueueRests /\ (Takes(d) \/ Misses(d))
<1> DEFINE S == DriveLock(lrs.pid)
<1>0. /\ adding # None /\ d \in adding.todo /\ used.handle < MaxHandle /\ used' = Count("handle")
      /\ UNCHANGED <<row, tlock, in, lrs, joining, incoming, op, sure>>
  BY DEF Own
<1>1. adding \in Adding /\ lrs.st # "down" /\ adding.todo \subseteq Drives /\ adding.del \in Nat
  BY <1>0 DEF Types, QueueTypes, LrsTypes, Adding
<1>2. /\ torn \subseteq torn' /\ (HandlesOf(d) = {} \/ <<d, "second">> \in torn')
      /\ (row[d].in /\ row[d].host = Here) \/ <<d, "unseen">> \in torn'
      /\ torn' \subseteq torn \cup {<<d, "second">>, <<d, "unseen">>}
  BY DEF Own
<1>3. MarkTypes'  BY <1>0, <1>2 DEF Types, MarkTypes, Defects
<1>4. Aside  BY <1>0, SameAside
<1>5. LrsTypes' /\ OpTypes' /\ RowTypes' /\ TapeTypes' /\ InTypes'
  BY <1>0, <1>1, LrsStays DEF Types, OpTypes, Proper, RowTypes, TapeTypes, InTypes
<1>6. used.handle + 1 \in Nat  BY DEF Types, HandleTypes, CountTypes
<1>7. lock \in [Drives -> S \cup {NoLock}] /\ Row(Here, lrs.pid, FALSE) \in S
  <2>1. lrs.pid \in Nat /\ lrs.pid \in 1..lrs.pid  BY <1>1 DEF Types, LrsTypes
  <2> QED  BY <2>1, RowsOf DEF Types, LockTypes
<1>8. ASSUME PossessApplies(lock, d, Here), lock' = Possess(lock, d, Here, lrs.pid),
             hdls' = Append(hdls, NewHandle(d, "owned")), adding' = [adding EXCEPT !.todo = @ \ {d}]
      PROVE  Types' /\ QueueRests /\ Takes(d)
  <2>1. HandleTypes' /\ Grows(d) /\ hdls'[Len(hdls) + 1].th = "owned"  BY <1>0, <1>2, <1>4, <1>8, OwnTypes
  <2>2. lock[d] = NoLock
    <3>1. lock[d] # NoLock => ~lock[d].weak  BY DEF Types, LockTypes, DriveLock
    <3> QED  BY <1>8, <3>1 DEF PossessApplies, IsLocked
  <2>3. adding' = [adding EXCEPT !.todo = adding.todo \ {d}, !.del = adding.del]
    BY <1>1, <1>8 DEF Adding
  <2>4. adding' \in Adding /\ AddRests
    BY <1>0, <1>1, <2>3, AddingIs
  <2> HIDE DEF S
  <2>5. Possess(lock, d, Here, lrs.pid) \in [Drives -> S \cup {NoLock}]  BY <1>7, PossessIs
  <2>6. \A e \in Drives : Possess(lock, d, Here, lrs.pid)[e] = IF e = d THEN Row(Here, lrs.pid, FALSE) ELSE lock[e]
    BY <1>7 DEF Possess
  <2>7. LockTypes'  BY <1>0, <1>8, <2>5, LockStays DEF S
  <2>8. QueueTypes'  BY <1>0, <2>4 DEF Types, QueueTypes
  <2>9. QueueRests  BY <1>0, <2>4, SameQueue
  <2>10. Takes(d)  BY <1>2, <1>8, <2>1, <2>2, <2>6 DEF Takes, Holding
  <2> QED  BY <1>3, <1>5, <2>1, <2>7, <2>8, <2>9, <2>10 DEF Types
<1>9. ASSUME lock' = lock, hdls' = Append(hdls, NewHandle(d, "refused")),
             adding' = [adding EXCEPT !.todo = @ \ {d}, !.del = used.handle + 1]
      PROVE  Types' /\ QueueRests /\ Misses(d)
  <2>1. HandleTypes' /\ Grows(d) /\ hdls'[Len(hdls) + 1].th = "refused"  BY <1>0, <1>2, <1>4, <1>9, OwnTypes
  <2>2. adding' = [adding EXCEPT !.todo = adding.todo \ {d}, !.del = used.handle + 1]
    BY <1>1, <1>9 DEF Adding
  <2>3. adding' \in Adding /\ AddRests
    BY <1>0, <1>1, <1>6, <2>2, AddingIs
  <2>4. LockTypes' /\ QueueTypes'  BY <1>0, <1>9, <2>3 DEF Types, QueueTypes, LockTypes
  <2>5. QueueRests  BY <1>0, <2>3, SameQueue
  <2>6. Misses(d)  BY <1>9, <2>1 DEF Misses, Holding
  <2> QED  BY <1>3, <1>5, <2>1, <2>4, <2>5, <2>6 DEF Types
<1> QED  BY <1>8, <1>9 DEF Own

-----------------------------------------------------------------------------
(* What the steps do to the requests.                                      *)

\* The first request of the queue is answered.
Serves ==
    /\ incoming # <<>> /\ joining = None /\ joining' = None /\ adding = None /\ adding' = None
    /\ incoming' = Tail(incoming) /\ Replied(Head(incoming))

\* The scheduler has the drive of the first request to take.
StartsAdd ==
    /\ incoming # <<>> /\ joining = None /\ joining' = None /\ incoming' = Tail(incoming) /\ op' = op
    /\ adding = None /\ adding' # None /\ adding'.req = Head(incoming)
    /\ adding'.todo = {Head(incoming).d} /\ Usable(Head(incoming).d) /\ lrs'.st # "init"

\* It answers the request that it took a drive for.
EndsAdd ==
    /\ adding # None /\ adding.req # None /\ adding' = None /\ joining' = joining /\ incoming' = incoming
    /\ Replied(adding.req)

\* The scheduler waits for the thread that the first request is about.
StartsJoin ==
    /\ incoming # <<>> /\ joining = None /\ incoming' = Tail(incoming) /\ op' = op
    /\ adding = None /\ adding' = None
    /\ joining' \in Request /\ joining'.by = Head(incoming).by /\ joining'.wait = Head(incoming).wait
    /\ joining'.d = Head(incoming).d
    /\ \E i \in DOMAIN hdls : hdls[i].id = joining'.id /\ hdls[i].d = Head(incoming).d

\* The scheduler answers the request it waited with.
EndsJoin == joining # None /\ joining' = None /\ adding' = adding /\ incoming' = incoming /\ Replied(joining)

\* It puts it back in the queue.
PutsBack ==
    joining # None /\ joining' = None /\ adding' = adding /\ incoming' = Append(incoming, joining) /\ op' = op

\* The first request becomes the last.
Turns ==
    /\ incoming # <<>> /\ joining = None /\ joining' = None /\ op' = op /\ adding = None /\ adding' = None
    /\ incoming' = Append(Tail(incoming), Head(incoming))

LEMMA HeadIs ==
    ASSUME Types, incoming # <<>>
    PROVE  Head(incoming) \in Request /\ Tail(incoming) \in Seq(Request)
BY DEF Types, QueueTypes

\* A set of numbers that is not empty has a smallest element.
LEMMA Smallest ==
    ASSUME NEW S \in SUBSET Nat, S # {}
    PROVE  \E i \in S : \A j \in S : i <= j
<1> DEFINE R == {ss \in Nat \X Nat : ss[1] < ss[2]}
<1>1. R = OpToRel(<, Nat)  BY DEF OpToRel
<1>2. IsWellFoundedOn(R, Nat)  BY <1>1, NatLessThanWellFounded
<1> HIDE DEF R
<1>3. PICK i \in S : \A j \in S : ~(<<j, i>> \in R)  BY <1>2, WFMin
<1>4. \A j \in S : i <= j
  <2> TAKE j \in S
  <2>1. ~(<<j, i>> \in R)  BY <1>3
  <2>2. ~(j < i)  BY <2>1 DEF R
  <2> QED  BY <2>2
<1> QED  BY <1>4

LEMMA FirstOfIs ==
    ASSUME Types, NEW d, HandlesOf(d) # {}
    PROVE  FirstOf(d) \in DOMAIN hdls /\ hdls[FirstOf(d)].d = d
<1> DEFINE S == HandlesOf(d)
<1>1. S \subseteq Nat /\ S # {}  BY DEF HandlesOf, Types, HandleTypes
<1>2. \E i \in S : \A j \in S : i <= j
  BY <1>1, Smallest
<1>3. FirstOf(d) \in S  BY <1>2 DEF FirstOf
<1> QED  BY <1>3 DEF HandlesOf

\* A calm step that changes neither the rows of the drives nor the counters.
Still == Calm /\ row' = row /\ used'.handle = used.handle

\* The scheduler answers that the drive of r is locked: it has no handle, or
\* the one that r waited for has ended and is removed.
SaysLocked(r) ==
    Locked(r) /\ ((HandlesOf(r.d) = {} /\ Still) \/ \E i \in Position(r.id) : Removes(i))

\* What sched_handle_notify does with the first request.
Handles(r) ==
    \/ Serves /\ ((sure' = sure /\ Still) \/ SaysLocked(r))
    \/ (StartsJoin \/ Turns \/ StartsAdd) /\ sure' = sure /\ Still
    \/ Dies

\* The parts of the types that a step of the scheduler leaves alone.
LEMMA SchedTypes ==
    ASSUME Types, UNCHANGED <<row, lock, tlock, in, lrs, torn>>, lrs.st # "down", OpTypes', HandleTypes',
           QueueTypes', sure' \subseteq Drives
    PROVE  Types'
<1>1. RowTypes' /\ LockTypes' /\ TapeTypes' /\ InTypes' /\ MarkTypes'
  BY DEF Types, RowTypes, LockTypes, TapeTypes, InTypes, MarkTypes
<1>2. LrsTypes'  BY LrsStays
<1> QED  BY <1>1, <1>2 DEF Types

LEMMA LockedTypes ==
    ASSUME Types, NEW r \in Request, Locked(r)
    PROVE  sure' \subseteq Drives
BY DEF Types, MarkTypes, Locked, Request

LEMMA WithoutTypes ==
    ASSUME Types, NEW i \in DOMAIN hdls, hdls' = Without(i), used' = used
    PROVE  HandleTypes'
<1>1. /\ hdls' \in Seq(Handle)
      /\ \A j \in DOMAIN hdls' : hdls'[j] = hdls[IF j = i THEN Len(hdls) ELSE j]
      /\ \A j \in DOMAIN hdls' : (IF j = i THEN Len(hdls) ELSE j) \in DOMAIN hdls \ {i}
  BY WithoutIs DEF Types
<1>2. \A j \in DOMAIN hdls' : hdls'[j].id <= used.handle
  BY <1>1 DEF Types, HandleTypes
<1> QED  BY <1>1, <1>2 DEF Types, HandleTypes, CountTypes

LEMMA ForgetTypes ==
    ASSUME Types, incoming # <<>>, Forget, joining' = joining, adding' = adding
    PROVE  QueueTypes'
BY HeadIs DEF Forget, QueueTypes, Types

\* sched_device_lock.
LEMMA DeviceLockEffect ==
    ASSUME Types, incoming # <<>>, adding = None, joining = None, NEW r, r = Head(incoming), lrs.st = "up",
           DeviceLock(r), Forget, UNCHANGED <<dss, lrs, adding, used, torn, in>>
    PROVE  Types' /\ Handles(r)
<1>0. r \in Request /\ lrs.st # "down"  BY HeadIs
<1>1. UNCHANGED <<row, lock, tlock, in, lrs, torn>> /\ used'.handle = used.handle  BY DEF dss
<1>2. ASSUME HandlesOf(r.d) = {}, Answer(r, "ok"), Locked(r), UNCHANGED <<hdls, adding, joining>>
      PROVE  Types' /\ Handles(r)
  <2>1. OpTypes' /\ Aside /\ Replied(r)  BY <1>0, <1>2, AnswerIs, AnswerAside DEF Types
  <2>2. Calm  BY <1>1, <1>2, <2>1, CalmWhenSame
  <2>3. QueueTypes' /\ HandleTypes'  BY <1>2, ForgetTypes DEF Types, HandleTypes, CountTypes
  <2>4. sure' \subseteq Drives  BY <1>0, <1>2, LockedTypes
  <2>5. Types'  BY <1>0, <1>1, <2>1, <2>3, <2>4, SchedTypes
  <2>6. Serves  BY <1>2, <2>1 DEF Serves, Forget
  <2> QED  BY <1>1, <1>2, <2>2, <2>5, <2>6 DEF Handles, SaysLocked, Still
<1>3. ASSUME HandlesOf(r.d) # {}, SetHandle(FirstOf(r.d), Stopping(hdls[FirstOf(r.d)])),
             joining' = [r EXCEPT !.id = hdls[FirstOf(r.d)].id], UNCHANGED <<op, sure>>
      PROVE  Types' /\ Handles(r)
  <2> DEFINE i == FirstOf(r.d)
             g == Stopping(hdls[i])
  <2>1. i \in DOMAIN hdls /\ hdls[i].d = r.d  BY <1>3, FirstOfIs
  <2>2. hdls[i] \in Handle  BY <2>1, HandleAt DEF Types
  <2>3. SameHandle(hdls[i], g) /\ (g.th \in Holding <=> hdls[i].th \in Holding)  BY <2>2, StoppingIs
  <2>4. hdls[i].id \in Nat  BY <2>2 DEF Handle, HandleRec
  <2>5. SetHandle(i, g)  BY <1>3
  <2>6. /\ joining' \in Request /\ joining'.by = r.by /\ joining'.wait = r.wait /\ joining'.d = r.d
        /\ joining'.id = hdls[i].id
    BY <1>0, <1>3, <2>4 DEF Request
  <2> HIDE DEF g, i
  <2>8. HandlesKeep /\ hdls'[i] = g /\ \A j \in DOMAIN hdls \ {i} : hdls'[j] = hdls[j]
    BY <2>1, <2>3, <2>5, SetHandleIs DEF Types
  <2>9. Aside  BY <1>3, SameAside
  <2>10. Calm  BY <1>1, <2>3, <2>8, <2>9 DEF Calm, Holds
  <2>11. HandleTypes'
    BY <2>8, KeepTypes DEF Types, HandleTypes, CountTypes
  <2>12. QueueTypes'  BY <2>6, HeadIs DEF Forget, QueueTypes, Types
  <2>13. OpTypes' /\ sure' \subseteq Drives  BY <1>3 DEF Types, OpTypes, Proper, MarkTypes
  <2>14. Types'  BY <1>0, <1>1, <2>11, <2>12, <2>13, SchedTypes
  <2>15. StartsJoin  BY <1>3, <2>1, <2>6 DEF StartsJoin, Forget
  <2> QED  BY <1>1, <1>3, <2>10, <2>14, <2>15 DEF Handles, Still
<1> QED  BY <1>2, <1>3 DEF DeviceLock

\* A handle whose thread has ended is removed on behalf of r.
LEMMA RemovesEffect ==
    ASSUME Types, NEW r \in Request, NEW i \in Position(r.id), ~Live(i), hdls' = Without(i), Answer(r, "ok"),
           Locked(r), UNCHANGED <<row, lock, tlock, in, lrs, torn, used>>, lrs.st # "down", QueueTypes'
    PROVE  Types' /\ Replied(r) /\ SaysLocked(r)
<1>0. i \in DOMAIN hdls  BY DEF Position
<1>1. OpTypes' /\ Aside /\ Replied(r)  BY AnswerIs, AnswerAside DEF Types
<1>2. HandleTypes'  BY <1>0, WithoutTypes
<1>3. sure' \subseteq Drives  BY LockedTypes
<1>4. Types'  BY <1>1, <1>2, <1>3, SchedTypes
<1>5. Removes(i)  BY <1>0, <1>1 DEF Removes
<1> QED  BY <1>1, <1>4, <1>5 DEF SaysLocked

\* A step of the scheduler that leaves the handles alone.
LEMMA StillEffect ==
    ASSUME Types, UNCHANGED <<row, lock, tlock, in, lrs, torn, used, hdls, sure>>, lrs.st # "down",
           OpTypes', Aside, QueueTypes'
    PROVE  Types' /\ Still
<1>1. Calm  BY CalmWhenSame
<1>2. HandleTypes' /\ sure' \subseteq Drives  BY DEF Types, HandleTypes, CountTypes, MarkTypes
<1>3. Types'  BY <1>2, SchedTypes
<1> QED  BY <1>1, <1>3 DEF Still

LEMMA DeviceRetryLockEffect ==
    ASSUME Types, incoming # <<>>, adding = None, joining = None, NEW r, r = Head(incoming), lrs.st = "up",
           DeviceRetryLock(r), UNCHANGED <<dss, used, torn, in>>
    PROVE  Types' /\ Handles(r)
<1>0. r \in Request /\ lrs.st # "down"  BY HeadIs
<1>1. UNCHANGED <<row, lock, tlock, in, torn, used>>  BY DEF dss
<1>2. ASSUME NEW i \in Position(r.id), ~Live(i), hdls' = Without(i), Answer(r, "ok"), Locked(r), Forget,
             UNCHANGED <<lrs, adding, joining>>
      PROVE  Types' /\ Handles(r)
  <2>1. QueueTypes'  BY <1>2, ForgetTypes
  <2>2. Types' /\ Replied(r) /\ SaysLocked(r)  BY <1>0, <1>1, <1>2, <2>1, RemovesEffect
  <2>3. Serves  BY <1>2, <2>2 DEF Serves, Forget
  <2> QED  BY <2>2, <2>3 DEF Handles
<1>3. ASSUME Requeue(r), UNCHANGED <<hdls, op, sure, lrs, adding, joining>>
      PROVE  Types' /\ Handles(r)
  <2>1. incoming' = Append(Tail(incoming), r)  BY <1>3 DEF Requeue
  <2>2. QueueTypes'  BY <1>0, <1>3, <2>1, HeadIs DEF QueueTypes, Types
  <2>3. OpTypes' /\ Aside  BY <1>3, SameAside DEF Types, OpTypes, Proper
  <2>4. Types' /\ Still  BY <1>0, <1>1, <1>3, <2>2, <2>3, StillEffect
  <2>5. Turns  BY <1>3, <2>1 DEF Turns
  <2> QED  BY <1>3, <2>4, <2>5 DEF Handles
<1>4. ASSUME Answer(r, "err"), Forget, UNCHANGED <<hdls, lrs, adding, joining, sure>>
      PROVE  Types' /\ Handles(r)
  <2>1. QueueTypes'  BY <1>4, ForgetTypes
  <2>2. OpTypes' /\ Aside /\ Replied(r)  BY <1>0, <1>4, AnswerIs, AnswerAside DEF Types
  <2>3. Types' /\ Still  BY <1>0, <1>1, <1>4, <2>1, <2>2, StillEffect
  <2>4. Serves  BY <1>4, <2>2 DEF Serves, Forget
  <2> QED  BY <1>4, <2>3, <2>4 DEF Handles
<1>5. ASSUME Gone, UNCHANGED sure
      PROVE  Types' /\ Handles(r)
  <2>1. CountTypes' /\ used'.handle = used.handle  BY <1>1 DEF Types, HandleTypes, CountTypes
  <2>2. Types' /\ Dies  BY <1>5, <2>1, GoneIs
  <2> QED  BY <2>2 DEF Handles
<1> QED  BY <1>2, <1>3, <1>4, <1>5 DEF DeviceRetryLock

LEMMA NotifiedEffect ==
    ASSUME Types, Notified
    PROVE  Types' /\ incoming # <<>> /\ lrs.st = "up" /\ Handles(Head(incoming))
<1> DEFINE r == Head(incoming)
<1>0. lrs.st = "up" /\ adding = None /\ joining = None /\ incoming # <<>> /\ UNCHANGED <<dss, in, used, torn>>
  BY DEF Notified
<1>1. r \in Request /\ lrs.st # "down"  BY <1>0, HeadIs
<1>2. ASSUME DeviceAdd(r), Forget, UNCHANGED <<lrs, hdls, joining, sure>>
      PROVE  Types' /\ Handles(r)
  <2>1. ASSUME Answer(r, "err"), UNCHANGED adding  PROVE  Types' /\ Handles(r)
    <3>1. QueueTypes'  BY <1>0, <1>2, <2>1, ForgetTypes
    <3>2. OpTypes' /\ Aside /\ Replied(r)  BY <1>1, <2>1, AnswerIs, AnswerAside DEF Types
    <3>3. Types' /\ Still  BY <1>0, <1>1, <1>2, <3>1, <3>2, StillEffect DEF dss
    <3>4. Serves  BY <1>0, <1>2, <2>1, <3>2 DEF Serves, Forget
    <3> QED  BY <1>2, <3>3, <3>4 DEF Handles
  <2>2. ASSUME Usable(r.d), adding' = [todo |-> {r.d}, req |-> r, del |-> 0], UNCHANGED op
        PROVE  Types' /\ Handles(r)
    <3> HIDE DEF r
    <3>1. r.d \in Drives  BY <1>1 DEF Request
    <3>2. adding' \in Adding /\ adding'.req = r /\ adding'.todo = {r.d}  BY <1>1, <2>2, <3>1 DEF Adding
    <3>3. adding' # None  BY <3>2, NamesAssumption
    <3>4. QueueTypes'  BY <1>0, <1>2, <3>2, HeadIs DEF Forget, QueueTypes, Types
    <3>5. OpTypes' /\ Aside  BY <2>2, SameAside DEF Types, OpTypes, Proper
    <3>6. Types' /\ Still  BY <1>0, <1>1, <1>2, <3>4, <3>5, StillEffect DEF dss
    <3>7. lrs'.st # "init"  BY <1>0, <1>2
    <3>8. StartsAdd  BY <1>0, <1>2, <2>2, <3>2, <3>3, <3>7 DEF StartsAdd, Forget, r
    <3> QED  BY <1>2, <3>6, <3>8 DEF Handles
  <2> QED  BY <1>2, <2>1, <2>2 DEF DeviceAdd
<1>3. ASSUME Answer(r, "ok"), Forget, UNCHANGED <<dss, lrs, hdls, adding, joining, used, sure, torn>>
      PROVE  Types' /\ Handles(r)
  <2>1. QueueTypes'  BY <1>0, <1>3, ForgetTypes
  <2>2. OpTypes' /\ Aside /\ Replied(r)  BY <1>1, <1>3, AnswerIs, AnswerAside DEF Types
  <2>3. Types' /\ Still  BY <1>0, <1>1, <1>3, <2>1, <2>2, StillEffect DEF dss
  <2>4. Serves  BY <1>0, <1>3, <2>2 DEF Serves, Forget
  <2> QED  BY <1>3, <2>3, <2>4 DEF Handles
<1>4. ASSUME DeviceLock(r), Forget, UNCHANGED <<lrs, adding>>
      PROVE  Types' /\ Handles(r)
  BY <1>0, <1>4, DeviceLockEffect
<1>5. ASSUME DeviceRetryLock(r)
      PROVE  Types' /\ Handles(r)
  BY <1>0, <1>5, DeviceRetryLockEffect
<1> QED  BY <1>0, <1>2, <1>3, <1>4, <1>5 DEF Notified

\* What the scheduler does when it has waited for the end of a thread.
Joins ==
    \/ EndsJoin /\ ((sure' = sure /\ Still) \/ SaysLocked(joining))
    \/ PutsBack /\ sure' = sure /\ Still

LEMMA JoinEffect ==
    ASSUME Types, Join
    PROVE  Types' /\ joining \in Request /\ Joins
<1> DEFINE r == joining
<1>0. joining # None /\ joining' = None /\ r \in Request  BY DEF Join, Types, QueueTypes
<1>1. UNCHANGED <<row, lock, tlock, in, lrs, adding, used, torn>>  BY DEF Join, dss
<1>2. PICK i \in Position(joining.id) :
          \/ /\ ~Live(i) /\ hdls' = Without(i) /\ Answer(joining, "ok") /\ Locked(joining)
             /\ UNCHANGED incoming
          \/ /\ Live(i) /\ lrs.st = "up" /\ Requeue(joining) /\ UNCHANGED <<hdls, op, sure>>
          \/ /\ Live(i) /\ lrs.st = "stopping" /\ Answer(joining, "err")
             /\ UNCHANGED <<hdls, sure, incoming>>
  BY DEF Join
<1>3. i \in DOMAIN hdls /\ lrs.st # "down"  BY PidOfHandles DEF Position
<1>4. ASSUME ~Live(i), hdls' = Without(i), Answer(r, "ok"), Locked(r), UNCHANGED incoming
      PROVE  Types' /\ Joins
  <2>1. QueueTypes'  BY <1>0, <1>1, <1>4 DEF Types, QueueTypes
  <2>2. Types' /\ Replied(r) /\ SaysLocked(r)  BY <1>0, <1>1, <1>3, <1>4, <2>1, RemovesEffect
  <2> QED  BY <1>0, <1>1, <1>4, <2>2 DEF Joins, EndsJoin
<1>5. ASSUME Requeue(r), UNCHANGED <<hdls, op, sure>>
      PROVE  Types' /\ Joins
  <2>1. incoming' = Append(incoming, r)  BY <1>0, <1>5 DEF Requeue
  <2>2. QueueTypes'  BY <1>0, <1>1, <2>1 DEF Types, QueueTypes
  <2>3. OpTypes' /\ Aside  BY <1>5, SameAside DEF Types, OpTypes, Proper
  <2>4. Types' /\ Still  BY <1>1, <1>3, <1>5, <2>2, <2>3, StillEffect
  <2> QED  BY <1>0, <1>1, <1>5, <2>1, <2>4 DEF Joins, PutsBack
<1>6. ASSUME Answer(r, "err"), UNCHANGED <<hdls, sure, incoming>>
      PROVE  Types' /\ Joins
  <2>1. QueueTypes'  BY <1>0, <1>1, <1>6 DEF Types, QueueTypes
  <2>2. OpTypes' /\ Aside /\ Replied(r)  BY <1>0, <1>6, AnswerIs, AnswerAside DEF Types
  <2>3. Types' /\ Still  BY <1>1, <1>3, <1>6, <2>1, <2>2, StillEffect
  <2> QED  BY <1>0, <1>1, <1>6, <2>2, <2>3 DEF Joins, EndsJoin
<1> QED  BY <1>0, <1>2, <1>4, <1>5, <1>6

Rests == Still /\ QueueRests /\ sure' = sure

\* The next incarnation of the LRS has no handle yet.
Starts ==
    /\ hdls = <<>> /\ hdls' = <<>> /\ lrs'.pid = lrs.pid + 1 /\ lrs.pid \in Nat /\ lrs'.st # "down"
    /\ lrs.st = "down" /\ used' = used /\ joining = None /\ adding = None
    /\ adding' # None /\ adding'.req = None /\ \A d \in adding'.todo : Usable(d)
    /\ UNCHANGED <<row, lock, op, incoming, joining, sure, torn>>

\* Locks are deleted, of drives with no holder at work or whose holder is robbed of it.
Cleans ==
    /\ Aside /\ lrs'.pid = lrs.pid /\ (lrs'.st = "down" <=> lrs.st = "down") /\ (lrs'.st = "init" => lrs.st = "init")
    /\ \A e \in Drives :
          lock'[e] = lock[e] \/ (lock'[e] = NoLock /\ (lock[e] # NoLock /\ AtWork(e) => <<e, "robbed">> \in torn'))
    /\ torn \subseteq torn' /\ UNCHANGED <<row, hdls, sure, used>> /\ QueueRests

LEMMA StopLrsEffect ==
    ASSUME Types, StopLrs
    PROVE  Types' /\ Rests
<1>1. UNCHANGED <<row, lock, tlock, in, hdls, adding, joining, incoming, op, sure, torn>> /\ lrs.st = "up"
  BY DEF StopLrs, dss
<1>2. /\ lrs' \in [st : {"down", "init", "up", "stopping"}, pid : 0..MaxStop + 1]
      /\ lrs'.pid = lrs.pid /\ lrs'.st = "stopping"
  BY DEF StopLrs, Types, LrsTypes
<1>3. CountTypes' /\ used'.handle = used.handle  BY CountIs DEF StopLrs, Types, HandleTypes
<1>4. LrsTypes' /\ HandleTypes'  BY <1>1, <1>2, <1>3 DEF Types, LrsTypes, HandleTypes
<1>5. OpTypes' /\ RowTypes' /\ LockTypes' /\ TapeTypes' /\ InTypes' /\ QueueTypes' /\ MarkTypes'
  BY <1>1, <1>2 DEF Types, OpTypes, Proper, RowTypes, LockTypes, TapeTypes, InTypes, QueueTypes, MarkTypes
<1>6. HandlesKeep /\ (\A i \in DOMAIN hdls : hdls'[i].th \in Holding <=> Holds(i)) /\ Aside
  BY <1>1, SameHandles, SameAside DEF Types
<1>7. Calm  BY <1>1, <1>2, <1>6 DEF Calm
<1>8. QueueRests  BY <1>1, SameQueue DEF AddRests
<1> QED  BY <1>1, <1>3, <1>4, <1>5, <1>7, <1>8 DEF Types, Rests, Still

LEMMA RefusedEffect ==
    ASSUME Types, Refused
    PROVE  Types' /\ Serves /\ sure' = sure /\ Still
<1> DEFINE r == Head(incoming)
<1>0. incoming # <<>> /\ joining = None /\ adding = None /\ r \in Request /\ lrs.st # "down"  BY HeadIs DEF Refused
<1>1. UNCHANGED <<row, lock, tlock, in, lrs, hdls, adding, joining, used, sure, torn>> /\ Forget /\ Answer(r, "err")
  BY DEF Refused, dss
<1>2. QueueTypes'  BY <1>0, <1>1, ForgetTypes
<1>3. OpTypes' /\ Aside /\ Replied(r)  BY <1>0, <1>1, AnswerIs, AnswerAside DEF Types
<1>4. Types' /\ Still  BY <1>0, <1>1, <1>2, <1>3, StillEffect
<1> QED  BY <1>0, <1>1, <1>3, <1>4 DEF Serves, Forget

LEMMA StopThreadsEffect ==
    ASSUME Types, StopThreads
    PROVE  Types' /\ Rests
<1>1. UNCHANGED <<row, lock, tlock, in, lrs, adding, joining, incoming, op, used, sure, torn>>
  BY DEF StopThreads, dss
<1>2. hdls \in Seq(Handle) /\ hdls' = [i \in DOMAIN hdls |-> Stopping(hdls[i])]
  BY DEF StopThreads, Types, HandleTypes
<1>3. \A i \in DOMAIN hdls : hdls[i] \in Handle  BY <1>2
<1>4. \A i \in DOMAIN hdls : /\ SameHandle(hdls[i], Stopping(hdls[i]))
                             /\ Stopping(hdls[i]).th \in Holding <=> hdls[i].th \in Holding
  BY <1>3, StoppingIs
<1>5. hdls' \in Seq(Handle) /\ DOMAIN hdls' = DOMAIN hdls
  <2>1. \A i \in DOMAIN hdls : Stopping(hdls[i]) \in Handle  BY <1>4 DEF SameHandle
  <2> QED  BY <1>2, <2>1
<1>6. \A i \in DOMAIN hdls : hdls'[i] = Stopping(hdls[i])  BY <1>2
<1>7. HandlesKeep /\ \A i \in DOMAIN hdls : hdls'[i].th \in Holding <=> Holds(i)
  BY <1>4, <1>5, <1>6 DEF HandlesKeep, SameHandle, Holds
<1>8. CountTypes' /\ used'.handle = used.handle  BY <1>1 DEF Types, HandleTypes, CountTypes
<1>9. Types'  BY <1>1, <1>7, <1>8, ThreadTypes DEF Types, RowTypes, LockTypes, TapeTypes, InTypes
<1>10. Aside /\ QueueRests  BY <1>1, SameAside, SameQueue DEF AddRests
<1>11. Calm  BY <1>1, <1>7, <1>10 DEF Calm
<1> QED  BY <1>1, <1>8, <1>9, <1>10, <1>11 DEF Rests, Still

LEMMA LrsEndsEffect ==
    ASSUME Types, LrsEnds
    PROVE  Types' /\ Dies
<1>1. CountTypes' /\ used'.handle = used.handle  BY DEF LrsEnds, Types, HandleTypes, CountTypes
<1> QED  BY <1>1, GoneIs DEF LrsEnds

LEMMA CrashLrsEffect ==
    ASSUME Types, CrashLrs
    PROVE  Types' /\ Dies
<1>1. CountTypes' /\ used'.handle = used.handle  BY CountIs DEF CrashLrs, Types, HandleTypes
<1> QED  BY <1>1, GoneIs DEF CrashLrs

LEMMA StartLrsEffect ==
    ASSUME Types, StartLrs
    PROVE  Types' /\ Starts
<1>1. UNCHANGED <<row, lock, tlock, in, hdls, joining, incoming, op, used, sure, torn>> /\ lrs.st = "down"
  BY DEF StartLrs, dss
<1>2. /\ lrs.pid \in Nat /\ lrs.pid <= MaxStop /\ lrs' = [st |-> "init", pid |-> lrs.pid + 1] /\ hdls = <<>>
      /\ joining = None /\ adding = None
  BY DEF StartLrs, Types, LrsTypes
<1>3. lrs'.st = "init" /\ lrs'.pid = lrs.pid + 1  BY <1>2
<1>4. LrsTypes'  BY <1>2, <1>3, BoundsAssumption DEF LrsTypes
<1>5. LockTypes' /\ TapeTypes'
  <2>1. DriveLock(lrs.pid) \subseteq DriveLock(lrs.pid + 1) /\ TapeLock(lrs.pid) \subseteq TapeLock(lrs.pid + 1)
    BY <1>2, MorePids
  <2> QED  BY <1>1, <1>3, <2>1 DEF Types, LockTypes, TapeTypes
<1>6. /\ adding' \in Adding /\ adding' # None /\ adding'.req = None /\ \A d \in adding'.todo : Usable(d)
  <2>1. adding' = [todo |-> {d \in Drives : Usable(d)}, req |-> None, del |-> 0]  BY DEF StartLrs
  <2>2. adding' \in Adding  BY <2>1 DEF Adding
  <2> QED  BY <2>1, <2>2, NamesAssumption
<1>7. OpTypes' /\ RowTypes' /\ InTypes' /\ QueueTypes' /\ MarkTypes' /\ HandleTypes'
  BY <1>1, <1>6 DEF Types, OpTypes, Proper, RowTypes, InTypes, QueueTypes, MarkTypes, HandleTypes, CountTypes
<1> QED  BY <1>1, <1>2, <1>3, <1>4, <1>5, <1>6, <1>7 DEF Types, Starts

\* A drive whose state is read, or cannot be.
LEMMA FillEffect ==
    ASSUME Types, NEW i \in DOMAIN hdls, Fill(i)
    PROVE  Types' /\ Still /\ sure' = sure /\ (QueueRests \/ EndsAdd)
<1> DEFINE h == hdls[i]
           S == TapeLock(lrs.pid)
<1>0. /\ adding # None /\ h.th = "owned" /\ UNCHANGED <<row, lock, in, lrs, joining, incoming, sure, torn>>
  BY DEF Fill
<1>1. h \in Handle /\ ~h.busy /\ h.d \in Drives /\ h.id \in Nat /\ Holds(i) /\ h.th # "ended"
  BY <1>0, HandleAt DEF Types, Handle, HandleRec, Holds, Holding
<1>2. lrs.st # "down" /\ lrs.pid \in Nat /\ lrs.pid \in 1..lrs.pid  BY PidOfHandles
<1>3. tlock \in [Tapes -> S \cup {NoLock}] /\ Row(Here, lrs.pid, FALSE) \in S
  BY <1>2, RowsOf DEF Types, TapeTypes
<1>4. adding \in Adding /\ adding.del \in Nat /\ adding.req \in Request \cup {None} /\ adding.todo \subseteq Drives
  BY <1>0 DEF Types, QueueTypes, Adding
<1>5. ASSUME NEW g, SameHandle(h, g), g.th \in Holding, SetHandle(i, g), CountTypes', used'.handle = used.handle,
             tlock' \in [Tapes -> S \cup {NoLock}], OpTypes', Aside, adding' \in Adding \cup {None}
      PROVE  Types' /\ Still
  <2>1. HandlesKeep /\ hdls'[i] = g /\ \A j \in DOMAIN hdls \ {i} : hdls'[j] = hdls[j]
    BY <1>5, SetHandleIs DEF Types
  <2>2. HandleTypes'  BY <1>5, <2>1, KeepTypes DEF Types
  <2>3. LrsTypes' /\ TapeTypes' /\ QueueTypes'  BY <1>0, <1>2, <1>5, LrsStays, TapeStays DEF Types, QueueTypes
  <2>4. RowTypes' /\ LockTypes' /\ InTypes' /\ MarkTypes'
    BY <1>0 DEF Types, RowTypes, LockTypes, InTypes, MarkTypes
  <2>5. Types'  BY <1>5, <2>2, <2>3, <2>4 DEF Types
  <2>6. Calm  BY <1>0, <1>1, <1>5, <2>1 DEF Calm, Holds
  <2> QED  BY <1>0, <1>5, <2>5, <2>6 DEF Still
<1>6. ASSUME SetHandle(i, [h EXCEPT !.th = "run", !.med = in[h.d]]), tlock' = Possessed(tlock, in[h.d], lrs.pid),
             UNCHANGED used, IF adding.req = None THEN UNCHANGED <<adding, op>>
                             ELSE Answer(adding.req, "ok") /\ adding' = None
      PROVE  Types' /\ Still /\ (QueueRests \/ EndsAdd)
  <2> DEFINE m == in[h.d]
             g == [h EXCEPT !.th = "run", !.med = m]
  <2>1. m \in Tapes \cup {None} /\ "run" \in Later  BY <1>1 DEF Types, InTypes, Later
  <2>2. SetHandle(i, g) /\ tlock' = Possessed(tlock, m, lrs.pid)  BY <1>6
  <2> HIDE DEF m, S
  <2>3. SameHandle(h, g) /\ g.th = "run"  BY <1>1, <2>1, MediumField
  <2> HIDE DEF g
  <2>4. g.th \in Holding  BY <2>3 DEF Holding
  <2>5. tlock' \in [Tapes -> S \cup {NoLock}]  BY <1>3, <2>2, PossessIs
  <2>6. CountTypes' /\ used'.handle = used.handle  BY <1>6 DEF Types, HandleTypes, CountTypes
  <2>7. OpTypes' /\ Aside /\ adding' \in Adding \cup {None} /\ (QueueRests \/ EndsAdd)
    <3>1. CASE adding.req = None
      <4>1. OpTypes' /\ Aside  BY <1>6, <3>1, SameAside DEF Types, OpTypes, Proper
      <4>2. QueueRests  BY <1>0, <1>6, <3>1, SameQueue DEF AddRests
      <4> QED  BY <1>4, <1>6, <3>1, <4>1, <4>2
    <3>2. CASE adding.req # None
      <4>1. PICK r \in Request : r = adding.req  BY <1>4, <3>2
      <4>2. OpTypes' /\ Aside /\ Replied(r)  BY <1>6, <3>2, <4>1, AnswerIs, AnswerAside DEF Types
      <4> QED  BY <1>0, <1>6, <3>2, <4>1, <4>2 DEF EndsAdd
    <3> QED  BY <3>1, <3>2
  <2> QED  BY <1>5, <2>2, <2>3, <2>4, <2>5, <2>6, <2>7
<1>7. ASSUME Fault, UNCHANGED <<tlock, op>>, NEW th \in {"idle", "failing", "releasing"},
             SetHandle(i, [h EXCEPT !.th = th]),
             adding' = IF adding.req = None THEN adding ELSE [adding EXCEPT !.del = h.id]
      PROVE  Types' /\ Still /\ (QueueRests \/ EndsAdd)
  <2> DEFINE g == [h EXCEPT !.th = th]
  <2>1. th \in Later /\ th \in Holding  BY DEF Later, Holding
  <2>2. SetHandle(i, g) /\ SameHandle(h, g) /\ g.th = th  BY <1>1, <1>7, <2>1, ThreadField
  <2> HIDE DEF g
  <2>3. CountTypes' /\ used'.handle = used.handle  BY <1>7, CountIs DEF Fault, Types, HandleTypes
  <2>4. OpTypes' /\ Aside  BY <1>7, SameAside DEF Types, OpTypes, Proper
  <2>5. adding' \in Adding \cup {None} /\ AddRests
    <3>1. CASE adding.req = None  BY <1>4, <1>7, <3>1 DEF AddRests
    <3>2. CASE adding.req # None
      <4>1. adding' = [adding EXCEPT !.todo = adding.todo, !.del = h.id]  BY <1>4, <1>7, <3>2 DEF Adding
      <4> QED  BY <1>0, <1>1, <4>1, AddingIs
    <3> QED  BY <3>1, <3>2
  <2>6. QueueRests  BY <1>0, <1>7, <2>5, SameQueue
  <2>7. tlock' \in [Tapes -> S \cup {NoLock}]  BY <1>3, <1>7
  <2> QED  BY <1>5, <2>1, <2>2, <2>3, <2>4, <2>5, <2>6, <2>7
<1> QED  BY <1>0, <1>6, <1>7 DEF Fill

LEMMA DeletedEffect ==
    ASSUME Types, Deleted
    PROVE  /\ Types' /\ sure' = sure /\ lrs.st # "down" /\ (QueueRests \/ EndsAdd)
           /\ \E i \in DOMAIN hdls : Removes(i)
<1>0. adding # None /\ UNCHANGED <<row, lock, tlock, in, lrs, joining, incoming, used, sure, torn>>
  BY DEF Deleted, dss
<1>1. PICK i \in Position(adding.del) : ~Live(i) /\ hdls' = Without(i)  BY DEF Deleted
<1>2. i \in DOMAIN hdls /\ lrs.st # "down"  BY PidOfHandles DEF Position
<1>3. adding \in Adding /\ adding.req \in Request \cup {None} /\ adding.todo \subseteq Drives
  BY <1>0 DEF Types, QueueTypes, Adding
<1>4. OpTypes' /\ Aside /\ adding' \in Adding \cup {None} /\ (QueueRests \/ EndsAdd)
  <2>1. CASE adding.req = None
    <3>1. UNCHANGED op /\ adding' = [adding EXCEPT !.todo = adding.todo, !.del = 0]
      BY <1>3, <2>1 DEF Deleted, Adding
    <3>2. adding' \in Adding /\ AddRests  BY <1>0, <3>1, AddingIs
    <3>3. OpTypes' /\ Aside  BY <3>1, SameAside DEF Types, OpTypes, Proper
    <3> QED  BY <1>0, <3>1, <3>2, <3>3, SameQueue
  <2>2. CASE adding.req # None
    <3>1. adding' = None /\ Answer(adding.req, "err")  BY <2>2 DEF Deleted
    <3>2. PICK r \in Request : r = adding.req  BY <1>3, <2>2
    <3>3. OpTypes' /\ Aside /\ Replied(r)  BY <3>1, <3>2, AnswerIs, AnswerAside DEF Types
    <3> QED  BY <1>0, <2>2, <3>1, <3>2, <3>3 DEF EndsAdd
  <2> QED  BY <2>1, <2>2
<1>5. QueueTypes'  BY <1>0, <1>4 DEF Types, QueueTypes
<1>6. HandleTypes'  BY <1>0, <1>1, <1>2, WithoutTypes
<1>7. sure' \subseteq Drives  BY <1>0 DEF Types, MarkTypes
<1>8. Types'  BY <1>0, <1>2, <1>4, <1>5, <1>6, <1>7, SchedTypes
<1>9. Removes(i)  BY <1>0, <1>1, <1>2, <1>4 DEF Removes
<1> QED  BY <1>0, <1>2, <1>4, <1>8, <1>9

LEMMA LrsReadyEffect ==
    ASSUME Types, LrsReady, adding.req = None
    PROVE  Types' /\ Cleans
<1> DEFINE hosts == [d \in Drives |-> row[d].host]
           D == DeviceCleanRows(lock, {d \in Drives : row[d].in}, Here, lrs.pid, hosts)
           M == MediaCleanRows(tlock, Tapes, Here, lrs.pid)
           R == {d \in D : AtWork(d)}
<1>1. UNCHANGED <<row, in, hdls, joining, incoming, op, used, sure>> /\ lrs.st = "init" /\ adding # None /\ adding' = None
  BY DEF LrsReady
<1>2. /\ lrs' \in [st : {"down", "init", "up", "stopping"}, pid : 0..MaxStop + 1]
      /\ lrs'.pid = lrs.pid /\ lrs'.st = "up"
  BY DEF LrsReady, Types, LrsTypes
<1>3. lock' = DeleteRows(lock, D) /\ tlock' = DeleteRows(tlock, M) /\ torn' = torn \cup (R \X {"robbed"})
  BY DEF LrsReady, Tear
<1>4. D \subseteq Drives  BY DEF DeviceCleanRows
<1> HIDE DEF D, M
<1>5. MarkTypes' /\ torn \subseteq torn' /\ \A d \in D : AtWork(d) => <<d, "robbed">> \in torn'
  BY <1>1, <1>3, <1>4 DEF Types, MarkTypes, Defects
<1>6. /\ lock' \in [Drives -> DriveLock(lrs.pid) \cup {NoLock}]
      /\ \A e \in Drives : lock'[e] = IF e \in D THEN NoLock ELSE lock[e]
  BY <1>3, DeleteIs DEF Types, LockTypes
<1>7. tlock' \in [Tapes -> TapeLock(lrs.pid) \cup {NoLock}]
  BY <1>3, DeleteIs DEF Types, TapeTypes
<1>8. LockTypes' /\ TapeTypes'  BY <1>2, <1>6, <1>7 DEF LockTypes, TapeTypes
<1>9. LrsTypes'  BY <1>1, <1>2 DEF Types, LrsTypes
<1>10. OpTypes' /\ RowTypes' /\ InTypes' /\ QueueTypes' /\ HandleTypes'
  BY <1>1 DEF Types, OpTypes, Proper, RowTypes, InTypes, QueueTypes, HandleTypes, CountTypes
<1>11. QueueRests /\ Aside  BY <1>1, SameQueue, SameAside DEF AddRests
<1>12. Cleans  BY <1>1, <1>2, <1>5, <1>6, <1>11 DEF Cleans
<1> QED  BY <1>5, <1>8, <1>9, <1>10, <1>12 DEF Types

-----------------------------------------------------------------------------
(* What the steps of the commands do.                                      *)

Section == {"act", "tape", "move", "weaken", "unlock"}

\* No drive whose lock the LRS has answered is unlocked, and there is no new one.
SureKeeps == \A d \in sure' : d \in sure /\ (row'[d].adm = row[d].adm \/ row'[d].adm # "unlocked")

\* A step that leaves the drives, the requests and the handles alone.
Goes == Calm /\ QueueRests /\ SureKeeps /\ used'.handle = used.handle

LEMMA OutsideAside ==
    ASSUME NEW a \in Admins, Alone(a), ~InSection(a), op'[a].pc \notin Section
    PROVE  Aside
BY DEF Alone, Aside, InSection, Section

LEMMA InsideAside ==
    ASSUME NEW a \in Admins, Alone(a), InSection(a), op'[a].pc \in Section, op'[a].d = op[a].d
    PROVE  Aside
BY DEF Alone, Aside, InSection, Section

LEMMA NoNewWait ==
    ASSUME NEW a \in Admins, Alone(a), op'[a].pc # "wait", UNCHANGED <<incoming, joining, adding>>
    PROVE  QueueRests
BY DEF Alone, QueueRests, AddRests, Waits, At

LEMMA SureStays ==
    ASSUME sure' = sure, row' = row
    PROVE  SureKeeps
BY DEF SureKeeps

\* The types after a step that leaves the LRS alone.
LEMMA CommandTypes ==
    ASSUME Types, UNCHANGED <<lrs, hdls, joining, adding>>, CountTypes', used'.handle = used.handle, OpTypes', RowTypes',
           lock' \in [Drives -> DriveLock(lrs.pid) \cup {NoLock}],
           tlock' \in [Tapes -> TapeLock(lrs.pid) \cup {NoLock}],
           InTypes', QueueTypes', MarkTypes'
    PROVE  Types'
<1>1. LockTypes' /\ TapeTypes'  BY DEF LockTypes, TapeTypes
<1>2. LrsTypes' /\ HandleTypes'  BY DEF Types, LrsTypes, HandleTypes
<1> QED  BY <1>1, <1>2 DEF Types

LEMMA SameCount ==
    ASSUME Types, used' = used
    PROVE  CountTypes' /\ used'.handle = used.handle
BY DEF Types, HandleTypes, CountTypes

\* A step that changes only the command it is a step of.
LEMMA OnlyCommand ==
    ASSUME Types, NEW a \in Admins, OpTypes', Alone(a), Aside, op'[a].pc # "wait",
           UNCHANGED <<row, lock, tlock, in, lrs, hdls, adding, joining, incoming, sure, torn>>,
           CountTypes', used'.handle = used.handle
    PROVE  Types' /\ Goes
<1>1. Types'
  BY CommandTypes DEF Types, RowTypes, LockTypes, TapeTypes, InTypes, QueueTypes, MarkTypes
<1>2. Calm  BY CalmWhenSame
<1>3. QueueRests /\ SureKeeps  BY NoNewWait, SureStays
<1> QED  BY <1>1, <1>2, <1>3 DEF Goes

\* What the end of a notification does to the command.
LEMMA AfterIs ==
    ASSUME Types, NEW a \in Admins, NEW rc, After(a, rc), op[a].pc \in {"read", "notify"}
    PROVE  OpTypes' /\ Alone(a) /\ op'[a].pc \in {"undo", "lock", "idle"}
<1>1. ASSUME Go(a, "undo")  PROVE  OpTypes' /\ Alone(a) /\ op'[a].pc = "undo"
  BY <1>1, GoIs DEF Types, Pcs
<1>2. ASSUME Go(a, "lock")  PROVE  OpTypes' /\ Alone(a) /\ op'[a].pc = "lock"
  BY <1>2, GoIs DEF Types, Pcs
<1>3. ASSUME End(a)  PROVE  OpTypes' /\ Alone(a) /\ op'[a].pc = "idle"
  BY <1>3, EndIs DEF Types
<1> QED  BY <1>1, <1>2, <1>3 DEF After

\* The command that begins.
BegunCommand(o, d) ==
    o \in CommandRec /\ o.pc \in {"insert", "read", "clean", "get"} /\ o.d = d /\ o.to # "none" /\ o.resp = "none"

Begun(cmd, d, t, h, c, w, f, to, p) ==
    [NoCommand EXCEPT !.cmd = cmd, !.d = d, !.t = t, !.host = h, !.conn = c, !.wait = w, !.forced = f, !.to = to, !.pc = p]

LEMMA BeginRecord ==
    ASSUME NEW cmd \in Commands, NEW d \in Drives, NEW t \in Tapes \cup {None}, NEW h \in {Here, Away}, NEW c \in Nat,
           NEW w \in BOOLEAN, NEW f \in BOOLEAN, NEW to \in {"locked", "unlocked"},
           NEW p \in {"insert", "read", "clean", "get"}
    PROVE  BegunCommand(Begun(cmd, d, t, h, c, w, f, to, p), d)
<1> DEFINE o == [NoCommand EXCEPT !.cmd = cmd, !.d = d, !.t = t, !.host = h, !.conn = c, !.wait = w,
                     !.forced = f, !.to = to, !.pc = p]
<1>1. NoCommand \in CommandRec /\ NoCommand.resp = "none" /\ p \in Pcs
  BY NoCommandIs DEF Pcs
<1>2. o \in CommandRec  BY <1>1, Zenon DEF CommandRec
<1>3. o.pc = p  BY <1>1 DEF CommandRec
<1>4. o.d = d  BY <1>1 DEF CommandRec
<1>5. o.to = to  BY <1>1 DEF CommandRec
<1>6. o.resp = "none"  BY <1>1 DEF CommandRec
<1> HIDE DEF o
<1>7. BegunCommand(o, d)  BY <1>2, <1>3, <1>4, <1>5, <1>6 DEF BegunCommand
<1> QED  BY <1>7 DEF o, Begun

LEMMA BeginEffect ==
    ASSUME Types, NEW a \in Admins, NEW cmd \in Commands, NEW d \in Drives, Begin(a, cmd, d)
    PROVE  Types' /\ Goes
<1>1. /\ UNCHANGED <<row, lock, tlock, in, lrs, hdls, adding, joining, incoming, sure, torn>>
      /\ op[a].pc = "idle" /\ used' = Count("command")
  BY DEF Begin, At, dss, sched
<1>2. CountTypes' /\ used'.handle = used.handle  BY <1>1, CountIs DEF Types, HandleTypes
<1>3. PICK o : BegunCommand(o, d) /\ op' = [op EXCEPT ![a] = o]
  <2>1. PICK t \in IF cmd = "load" THEN Tapes ELSE {None}, h \in IF cmd = "migrate" THEN {Here, Away} ELSE {Here} :
          op' = [op EXCEPT ![a] = [NoCommand EXCEPT
                !.cmd = cmd, !.d = d, !.t = t, !.host = h,
                !.conn = IF lrs.st \in {"up", "stopping"} THEN lrs.pid ELSE 0,
                !.wait = cmd # "lock_nowait",
                !.forced = cmd # "unlock",
                !.to = IF cmd \in {"unlock", "unlock_force"} THEN "unlocked" ELSE "locked",
                !.pc = CASE cmd \in {"add", "add_locked"} -> "insert"
                         [] cmd \in {"lock", "lock_nowait", "unlock", "unlock_force"} -> "read"
                         [] cmd = "clean" -> "clean"
                         [] OTHER -> "get"]]
    BY DEF Begin
  <2> DEFINE c == IF lrs.st \in {"up", "stopping"} THEN lrs.pid ELSE 0
             w == cmd # "lock_nowait"
             f == cmd # "unlock"
             to == IF cmd \in {"unlock", "unlock_force"} THEN "unlocked" ELSE "locked"
             p == CASE cmd \in {"add", "add_locked"} -> "insert"
                         [] cmd \in {"lock", "lock_nowait", "unlock", "unlock_force"} -> "read"
                         [] cmd = "clean" -> "clean"
                         [] OTHER -> "get"
  <2>2. t \in Tapes \cup {None} /\ h \in {Here, Away} /\ c \in Nat /\ w \in BOOLEAN /\ f \in BOOLEAN /\ to \in {"locked", "unlocked"}
    BY <2>1 DEF Types, LrsTypes
  <2>3. p \in {"insert", "read", "clean", "get"}  OBVIOUS
  <2>4. op' = [op EXCEPT ![a] = Begun(cmd, d, t, h, c, w, f, to, p)]  BY <2>1 DEF Begun
  <2> HIDE DEF c, w, f, to, p
  <2>5. BegunCommand(Begun(cmd, d, t, h, c, w, f, to, p), d)  BY <2>2, <2>3, BeginRecord
  <2> QED  BY <2>4, <2>5
<1>4. OpTypes' /\ Alone(a) /\ op'[a] = o
  BY <1>3 DEF Types, OpTypes, Alone, BegunCommand, Proper
<1>5. op'[a].pc \notin Section /\ ~InSection(a) /\ op'[a].pc # "wait"
  BY <1>1, <1>3, <1>4 DEF Section, InSection, BegunCommand
<1>6. Aside  BY <1>4, <1>5, OutsideAside
<1> QED  BY <1>1, <1>2, <1>4, <1>5, <1>6, OnlyCommand

\* A command that has begun has a drive.
LEMMA DriveOf ==
    ASSUME Types, NEW a \in Admins, op[a].pc # "idle"
    PROVE  op[a] \in CommandRec /\ op[a].d \in Drives /\ op[a].to \in {"locked", "unlocked"} /\ op[a].d # None
<1>1. op[a] \in CommandRec /\ Proper(op[a])  BY DEF Types, OpTypes
<1>2. op[a].d \in Drives /\ op[a].to # "none"  BY <1>1 DEF Proper
<1> QED  BY <1>1, <1>2, NamesAssumption DEF CommandRec

\* A step that changes the rows of the drives, and the command.
LEMMA RowCommand ==
    ASSUME Types, NEW a \in Admins, OpTypes', Alone(a), Aside, op'[a].pc # "wait", RowTypes', SureKeeps, MarkTypes',
           \A e \in Drives : row[e].in /\ row[e].host = Here => row'[e].in /\ row'[e].host = Here,
           UNCHANGED <<lock, tlock, in, lrs, hdls, adding, joining, incoming, torn, used>>
    PROVE  Types' /\ Goes
<1>1. CountTypes' /\ used'.handle = used.handle  BY SameCount
<1>2. Types'  BY <1>1, CommandTypes DEF Types, LockTypes, TapeTypes, InTypes, QueueTypes
<1>3. HandlesKeep /\ \A i \in DOMAIN hdls : hdls'[i].th \in Holding <=> Holds(i)  BY SameHandles DEF Types
<1>4. Calm  BY <1>3 DEF Calm
<1>5. QueueRests  BY NoNewWait
<1> QED  BY <1>1, <1>2, <1>4, <1>5 DEF Goes

LEMMA InsertEffect ==
    ASSUME Types, NEW a \in Admins, Insert(a)
    PROVE  Types' /\ Goes
<1> DEFINE d == op[a].d
<1>0. op[a].pc = "insert" /\ UNCHANGED <<lock, tlock, in, lrs, hdls, adding, joining, incoming, torn, used>>
  BY DEF Insert, At, sched
<1>1. d \in Drives /\ ~InSection(a)  BY <1>0, DriveOf DEF InSection
<1>2. ASSUME End(a)  PROVE  OpTypes' /\ Alone(a) /\ Aside /\ op'[a].pc # "wait"
  <2>1. OpTypes' /\ Alone(a) /\ op'[a].pc = "idle"  BY <1>2, EndIs DEF Types
  <2> QED  BY <1>1, <2>1, OutsideAside DEF Section
<1>3. ASSUME Go(a, "notify")  PROVE  OpTypes' /\ Alone(a) /\ Aside /\ op'[a].pc # "wait"
  <2>1. OpTypes' /\ Alone(a) /\ op'[a].pc = "notify"  BY <1>0, <1>3, GoIs DEF Types, Pcs
  <2> QED  BY <1>1, <2>1, OutsideAside DEF Section
<1>4. ASSUME End(a), UNCHANGED <<row, sure>>  PROVE  Types' /\ Goes
  BY <1>0, <1>2, <1>4, OnlyCommand, SameCount
<1>5. ASSUME NEW st \in {"unlocked", "locked"},
             row' = [row EXCEPT ![d] = [in |-> TRUE, host |-> Here, adm |-> st]],
             sure' = sure \ {d}, End(a) \/ Go(a, "notify")
      PROVE  Types' /\ Goes
  <2>1. [in |-> TRUE, host |-> Here, adm |-> st] \in DeviceRow  BY DEF DeviceRow
  <2>2. RowTypes'  BY <1>5, <2>1 DEF Types, RowTypes
  <2>3. \A e \in Drives : row'[e] = IF e = d THEN [in |-> TRUE, host |-> Here, adm |-> st] ELSE row[e]
    BY <1>5 DEF Types, RowTypes
  <2>4. SureKeeps /\ MarkTypes'  BY <1>0, <1>5, <2>3 DEF SureKeeps, MarkTypes, Types
  <2>5. \A e \in Drives : row[e].in /\ row[e].host = Here => row'[e].in /\ row'[e].host = Here
    BY <2>3
  <2> QED  BY <1>0, <1>2, <1>3, <1>5, <2>2, <2>4, <2>5, RowCommand
<1> QED
  <2>1. CASE row[d].in  BY <2>1, <1>4 DEF Insert
  <2>2. CASE ~row[d].in
    <3> DEFINE st == IF op[a].cmd = "add" THEN "unlocked" ELSE "locked"
    <3>1. st \in {"unlocked", "locked"}  OBVIOUS
    <3>2. /\ row' = [row EXCEPT ![d] = [in |-> TRUE, host |-> Here, adm |-> st]]
          /\ sure' = sure \ {d} /\ (End(a) \/ Go(a, "notify"))
      BY <2>2 DEF Insert
    <3> HIDE DEF st
    <3> QED  BY <3>1, <3>2, <1>5
  <2> QED  BY <2>1, <2>2

\* A row is deleted that the LRS may use.
Undoes(d) ==
    /\ Aside /\ QueueRests /\ sure' = sure /\ UNCHANGED <<lock, lrs, hdls, used>>
    /\ torn \subseteq torn' /\ (HandlesOf(d) = {} \/ <<d, "unseen">> \in torn')
    /\ \A e \in Drives : row'[e].adm = row[e].adm /\ (e # d => row'[e] = row[e])

LEMMA UndoEffect ==
    ASSUME Types, NEW a \in Admins, Undo(a)
    PROVE  Types' /\ Undoes(op[a].d)
<1> DEFINE d == op[a].d
           q == [row[d] EXCEPT !.in = FALSE]
<1>0. op[a].pc = "undo" /\ UNCHANGED <<lock, tlock, in, lrs, hdls, adding, joining, incoming, sure, used>>
  BY DEF Undo, At, sched
<1>1. d \in Drives /\ ~InSection(a)  BY <1>0, DriveOf DEF InSection
<1>2. OpTypes' /\ Alone(a) /\ op'[a].pc = "idle"  BY EndIs DEF Types, Undo
<1>3. Aside  BY <1>1, <1>2, OutsideAside DEF Section
<1>4. QueueRests  BY <1>0, <1>2, NoNewWait
<1>5. q \in DeviceRow /\ q.adm = row[d].adm  BY <1>1 DEF Types, RowTypes, DeviceRow
<1>6. row' = [row EXCEPT ![d] = q]  BY DEF Undo
<1> HIDE DEF q
<1>7. RowTypes' /\ \A e \in Drives : row'[e].adm = row[e].adm /\ (e # d => row'[e] = row[e])
  BY <1>1, <1>5, <1>6 DEF Types, RowTypes
<1>8. MarkTypes' /\ torn \subseteq torn' /\ (HandlesOf(d) = {} \/ <<d, "unseen">> \in torn')
  <2>1. torn' = torn \cup ((IF HandlesOf(d) = {} THEN {} ELSE {d}) \X {"unseen"})  BY DEF Undo, Tear
  <2> HIDE DEF d
  <2> QED  BY <1>0, <1>1, <2>1 DEF Types, MarkTypes, Defects
<1>9. CountTypes' /\ used'.handle = used.handle  BY <1>0, SameCount
<1>10. Types'  BY <1>0, <1>2, <1>7, <1>8, <1>9, CommandTypes DEF Types, LockTypes, TapeTypes, InTypes, QueueTypes
<1> QED  BY <1>0, <1>3, <1>4, <1>7, <1>8, <1>10 DEF Undoes

LEMMA ReadEffect ==
    ASSUME Types, NEW a \in Admins, Read(a)
    PROVE  Types' /\ Goes
<1>0. op[a].pc = "read" /\ UNCHANGED <<row, lock, tlock, in, lrs, hdls, adding, joining, incoming, sure, torn, used>>
  BY DEF Read, At, dss, sched
<1>1. ~InSection(a)  BY <1>0 DEF InSection
<1>2. OpTypes' /\ Alone(a) /\ op'[a].pc \in {"undo", "lock", "idle", "notify", "write"}
  <2>1. ASSUME After(a, "err")  PROVE  OpTypes' /\ Alone(a) /\ op'[a].pc \in {"undo", "lock", "idle"}
    BY <1>0, <2>1, AfterIs
  <2>2. ASSUME NEW p \in {"notify", "write"}, Go(a, p)  PROVE  OpTypes' /\ Alone(a) /\ op'[a].pc = p
    BY <1>0, <2>2, GoIs DEF Types, Pcs
  <2> QED  BY <2>1, <2>2 DEF Read
<1>3. Aside  BY <1>1, <1>2, OutsideAside DEF Section
<1> QED  BY <1>0, <1>2, <1>3, OnlyCommand, SameCount

LEMMA WriteEffect ==
    ASSUME Types, NEW a \in Admins, Write(a)
    PROVE  Types' /\ Goes
<1> DEFINE d == op[a].d
           to == op[a].to
<1>0. /\ op[a].pc = "write" /\ UNCHANGED <<lock, tlock, in, lrs, hdls, adding, joining, incoming, torn, used>>
      /\ Go(a, "notify") /\ row' = SetAdm(d, to)
      /\ sure' = IF to = "unlocked" THEN sure \ {d} ELSE sure
  BY DEF Write, At, sched
<1>1. d \in Drives /\ to \in {"locked", "unlocked"} /\ ~InSection(a)  BY <1>0, DriveOf DEF InSection
<1>2. OpTypes' /\ Alone(a) /\ op'[a].pc = "notify"  BY <1>0, GoIs DEF Types, Pcs
<1>3. Aside  BY <1>1, <1>2, OutsideAside DEF Section
<1> HIDE DEF d, to
<1>4. /\ RowTypes'
      /\ \A e \in Drives : /\ row'[e].in <=> row[e].in
                           /\ row'[e].host = row[e].host
                           /\ row'[e].adm = row[e].adm \/ (e = d /\ row'[e].adm = to)
  BY <1>0, <1>1, SetAdmIs DEF Types
<1>5. SureKeeps /\ MarkTypes'  BY <1>0, <1>1, <1>4 DEF SureKeeps, MarkTypes, Types
<1> QED  BY <1>0, <1>2, <1>3, <1>4, <1>5, RowCommand

\* A request is sent to the LRS.
Asks(a) ==
    /\ Still /\ sure' = sure /\ joining' = joining /\ adding' = adding
    /\ \E r \in Request :
          /\ incoming' = Append(incoming, r) /\ r.id = 0 /\ r.by = a
          /\ \A b \in Admins : op'[b].pc = "wait" /\ op'[b].resp = "none" => Waits(b) \/ (b = a /\ r.wait)

LEMMA NotifyEffect ==
    ASSUME Types, NEW a \in Admins, Notify(a)
    PROVE  Types' /\ (Goes \/ Asks(a))
<1> DEFINE o == op[a]
           req == [op |-> CASE o.cmd = "add" -> "add" [] o.to = "locked" -> "lock" [] OTHER -> "unlock",
                   d |-> o.d, by |-> a, wait |-> o.wait, id |-> 0]
<1>0. op[a].pc = "notify" /\ UNCHANGED <<row, lock, tlock, in, lrs, hdls, adding, joining, sure, torn, used>>
  BY DEF Notify, At, dss
<1>1. ~InSection(a) /\ o \in CommandRec /\ o.d \in Drives  BY <1>0, DriveOf DEF InSection
<1>2. CountTypes' /\ used'.handle = used.handle  BY <1>0, SameCount
<1>3. ASSUME NEW rc, After(a, rc)
      PROVE  OpTypes' /\ Alone(a) /\ Aside /\ op'[a].pc # "wait"
  <2>1. OpTypes' /\ Alone(a) /\ op'[a].pc \in {"undo", "lock", "idle"}  BY <1>0, <1>3, AfterIs
  <2> QED  BY <1>1, <2>1, OutsideAside DEF Section
<1>4. ASSUME NEW rc, After(a, rc), UNCHANGED incoming
      PROVE  Types' /\ Goes
  BY <1>0, <1>2, <1>3, <1>4, OnlyCommand
<1>5. ASSUME incoming' = Append(incoming, req), IF o.wait THEN Go(a, "wait") ELSE After(a, "ok")
      PROVE  Types' /\ Asks(a)
  <2>1. req \in Request /\ req.id = 0 /\ req.by = a /\ (req.wait <=> o.wait)
    BY <1>1 DEF Request, CommandRec
  <2>2. /\ OpTypes' /\ Alone(a) /\ Aside
        /\ \A b \in Admins : op'[b].pc = "wait" /\ op'[b].resp = "none" => Waits(b) \/ (b = a /\ o.wait)
    <3>1. CASE o.wait
      <4>1. OpTypes' /\ Alone(a) /\ op'[a].pc = "wait"  BY <1>0, <1>5, <3>1, GoIs DEF Types, Pcs
      <4>2. Aside  BY <1>1, <4>1, OutsideAside DEF Section
      <4> QED  BY <3>1, <4>1, <4>2 DEF Alone, Waits, At
    <3>2. CASE ~o.wait
      <4>1. OpTypes' /\ Alone(a) /\ Aside /\ op'[a].pc # "wait"  BY <1>5, <3>2, <1>3
      <4> QED  BY <4>1 DEF Alone, Waits, At
    <3> QED  BY <3>1, <3>2
  <2> HIDE DEF req
  <2>3. QueueTypes'  BY <1>0, <1>5, <2>1 DEF Types, QueueTypes
  <2>4. Types'
    BY <1>0, <1>2, <2>2, <2>3, CommandTypes DEF Types, RowTypes, LockTypes, TapeTypes, InTypes, MarkTypes
  <2>5. Calm  BY <1>0, <2>2, CalmWhenSame
  <2>6. \A b \in Admins : op'[b].pc = "wait" /\ op'[b].resp = "none" => Waits(b) \/ (b = a /\ req.wait)
    BY <2>1, <2>2
  <2>7. Asks(a)  BY <1>0, <1>2, <1>5, <2>1, <2>5, <2>6 DEF Asks, Still
  <2> QED  BY <2>4, <2>7
<1> QED  BY <1>4, <1>5 DEF Notify

LEMMA WaitEffect ==
    ASSUME Types, NEW a \in Admins, Wait(a)
    PROVE  Types' /\ Goes
<1> DEFINE o == [op[a] EXCEPT !.resp = "none"]
           q(p) == [o EXCEPT !.pc = p]
<1>0. op[a].pc = "wait" /\ UNCHANGED <<row, lock, tlock, in, lrs, hdls, adding, joining, incoming, sure, torn, used>>
  BY DEF Wait, At, dss, sched
<1>1. ~InSection(a) /\ op[a] \in CommandRec /\ Proper(op[a])  BY <1>0 DEF InSection, Types, OpTypes
<1>2. SameCommand(op[a], o) /\ o.resp = "none" /\ o \in CommandRec  BY <1>1, RespField DEF SameCommand
<1>3. op' = [op EXCEPT ![a] = q("undo")] \/ op' = [op EXCEPT ![a] = q("lock")] \/ op' = [op EXCEPT ![a] = NoCommand]
  BY DEF Wait
<1> HIDE DEF o
<1>4. \A p \in {"undo", "lock"} : SameCommand(o, q(p)) /\ q(p).pc = p /\ q(p).resp = "none"
  <2> TAKE p \in {"undo", "lock"}
  <2>1. p \in Pcs  BY DEF Pcs
  <2>2. SameCommand(o, [o EXCEPT !.pc = p]) /\ [o EXCEPT !.pc = p].pc = p /\ [o EXCEPT !.pc = p].resp = o.resp
    BY <1>2, <2>1, PcField
  <2> QED  BY <1>2, <2>2
<1> HIDE DEF q
<1>5. \A p \in {"undo", "lock"} : q(p) \in CommandRec /\ Proper(q(p)) /\ q(p).pc = p
  BY <1>0, <1>1, <1>2, <1>4 DEF SameCommand, Proper
<1>6. PICK x : /\ op' = [op EXCEPT ![a] = x] /\ x \in CommandRec /\ Proper(x)
               /\ x.pc \in {"undo", "lock", "idle"}
  BY <1>3, <1>5, NoCommandIs
<1>7. OpTypes' /\ Alone(a) /\ op'[a] = x  BY <1>6 DEF Types, OpTypes, Alone
<1>8. op'[a].pc # "wait" /\ op'[a].pc \notin Section  BY <1>6, <1>7 DEF Section
<1>9. Aside  BY <1>1, <1>7, <1>8, OutsideAside
<1> QED  BY <1>0, <1>7, <1>8, <1>9, OnlyCommand, SameCount

\* The command with other values in three of its fields.
WithWas(o, w, p) == [o EXCEPT !.was = w, !.pc = p]

LEMMA GetRecord ==
    ASSUME NEW o \in CommandRec, NEW w \in BOOLEAN, NEW p \in Pcs
    PROVE  LET q == WithWas(o, w, p) IN
           q \in CommandRec /\ q.pc = p /\ q.d = o.d /\ q.to = o.to /\ q.resp = o.resp
<1>1. WithWas(o, w, p) \in CommandRec  BY DEF CommandRec, WithWas
<1> QED  BY <1>1 DEF CommandRec, WithWas

WithTape(o, t, p) == [o EXCEPT !.t = t, !.pc = p]

LEMMA LookupRecord ==
    ASSUME NEW o \in CommandRec, NEW t \in Tapes \cup {None}, NEW p \in Pcs
    PROVE  LET q == WithTape(o, t, p) IN
           q \in CommandRec /\ q.pc = p /\ q.d = o.d /\ q.to = o.to /\ q.resp = o.resp
<1>1. WithTape(o, t, p) \in CommandRec  BY DEF CommandRec, WithTape
<1> QED  BY <1>1 DEF CommandRec, WithTape

LEMMA BackRecord ==
    ASSUME NEW o \in CommandRec
    PROVE  LET q == [o EXCEPT !.pc = "read", !.to = "unlocked"] IN
           q \in CommandRec /\ q.pc = "read" /\ q.d = o.d /\ q.to = "unlocked" /\ q.resp = o.resp
<1>1. [o EXCEPT !.pc = "read", !.to = "unlocked"] \in CommandRec  BY DEF CommandRec, Pcs
<1> QED  BY <1>1 DEF CommandRec

\* A command outside its section takes another form, outside it too.
LEMMA OutsideStep ==
    ASSUME Types, NEW a \in Admins, ~InSection(a),
           NEW q \in CommandRec, op' = [op EXCEPT ![a] = q], q.d \in Drives, q.to # "none", q.resp = "none",
           q.pc \notin Section, q.pc # "wait",
           UNCHANGED <<row, lock, tlock, in, lrs, hdls, adding, joining, incoming, sure, torn, used>>
    PROVE  Types' /\ Goes
<1>1. Proper(q)  BY DEF Proper
<1>2. OpTypes' /\ Alone(a) /\ op'[a] = q  BY <1>1 DEF Types, OpTypes, Alone
<1>3. Aside  BY <1>2, OutsideAside
<1> QED  BY <1>2, <1>3, OnlyCommand, SameCount

\* A command outside its section ends, or goes on outside it.
LEMMA OutsideGo ==
    ASSUME Types, NEW a \in Admins, ~InSection(a), op[a].pc \notin {"idle", "wait"},
           End(a) \/ \E p \in {"lock", "back", "notify"} : Go(a, p),
           UNCHANGED <<row, lock, tlock, in, lrs, hdls, adding, joining, incoming, sure, torn, used>>
    PROVE  Types' /\ Goes
<1>1. OpTypes' /\ Alone(a) /\ op'[a].pc \in {"idle", "lock", "back", "notify"}
  <2>1. ASSUME End(a)  PROVE  OpTypes' /\ Alone(a) /\ op'[a].pc = "idle"  BY <2>1, EndIs DEF Types
  <2>2. ASSUME NEW p \in {"lock", "back", "notify"}, Go(a, p)  PROVE  OpTypes' /\ Alone(a) /\ op'[a].pc = p
    BY <2>2, GoIs DEF Types, Pcs
  <2> QED  BY <2>1, <2>2
<1>2. Aside  BY <1>1, OutsideAside DEF Section
<1> QED  BY <1>1, <1>2, OnlyCommand, SameCount

LEMMA GetEffect ==
    ASSUME Types, NEW a \in Admins, Get(a)
    PROVE  Types' /\ Goes
<1> DEFINE o == op[a]
           w == row[o.d].adm = "unlocked"
           p == CASE o.cmd = "unload" -> "lookup" [] row[o.d].adm = "unlocked" -> "read" [] OTHER -> "lock"
           q == WithWas(o, w, p)
<1>0. op[a].pc = "get" /\ UNCHANGED <<row, lock, tlock, in, lrs, hdls, adding, joining, incoming, sure, torn, used>>
  BY DEF Get, At, dss, sched
<1>1. ~InSection(a) /\ o \in CommandRec /\ o.d \in Drives /\ o.to # "none" /\ o.resp = "none"
  BY <1>0, DriveOf DEF InSection, Types, OpTypes, Proper
<1>2. ASSUME op' = [op EXCEPT ![a] = q]  PROVE  Types' /\ Goes
  <2>1. w \in BOOLEAN /\ p \in {"lookup", "read", "lock"}  OBVIOUS
  <2> HIDE DEF w, p
  <2>2. q \in CommandRec /\ q.pc = p /\ q.d = o.d /\ q.to = o.to /\ q.resp = o.resp
    <3>1. p \in Pcs  BY <2>1 DEF Pcs
    <3>2. LET x == WithWas(o, w, p) IN
          x \in CommandRec /\ x.pc = p /\ x.d = o.d /\ x.to = o.to /\ x.resp = o.resp
      BY <1>1, <2>1, <3>1, GetRecord
    <3> QED  BY <3>2
  <2> HIDE DEF q
  <2> QED  BY <1>0, <1>1, <1>2, <2>1, <2>2, OutsideStep DEF Section
<1>3. ASSUME End(a) \/ Go(a, "lock")  PROVE  Types' /\ Goes
  BY <1>0, <1>1, <1>3, OutsideGo
<1> QED  BY <1>2, <1>3 DEF Get, WithWas

LEMMA LookupEffect ==
    ASSUME Types, NEW a \in Admins, Lookup(a)
    PROVE  Types' /\ Goes
<1> DEFINE o == op[a]
           p == IF o.was THEN "read" ELSE "lock"
           t == in[o.d]
           q == WithTape(o, t, p)
<1>0. op[a].pc = "lookup" /\ UNCHANGED <<row, lock, tlock, in, lrs, hdls, adding, joining, incoming, sure, torn, used>>
  BY DEF Lookup, At, dss, sched
<1>1. ~InSection(a) /\ o \in CommandRec /\ o.d \in Drives /\ o.to # "none" /\ o.resp = "none"
  BY <1>0, DriveOf DEF InSection, Types, OpTypes, Proper
<1>2. ASSUME op' = [op EXCEPT ![a] = q]  PROVE  Types' /\ Goes
  <2>1. t \in Tapes \cup {None} /\ p \in {"read", "lock"}  BY <1>1 DEF Types, InTypes
  <2> HIDE DEF t, p
  <2>2. q \in CommandRec /\ q.pc = p /\ q.d = o.d /\ q.to = o.to /\ q.resp = o.resp
    <3>1. p \in Pcs  BY <2>1 DEF Pcs
    <3>2. LET x == WithTape(o, t, p) IN
          x \in CommandRec /\ x.pc = p /\ x.d = o.d /\ x.to = o.to /\ x.resp = o.resp
      BY <1>1, <2>1, <3>1, LookupRecord
    <3> QED  BY <3>2
  <2> HIDE DEF q
  <2> QED  BY <1>0, <1>1, <1>2, <2>1, <2>2, OutsideStep DEF Section
<1>3. ASSUME End(a)  PROVE  Types' /\ Goes
  BY <1>0, <1>1, <1>3, OutsideGo
<1> QED  BY <1>2, <1>3 DEF Lookup, WithTape

LEMMA BackEffect ==
    ASSUME Types, NEW a \in Admins, Back(a)
    PROVE  Types' /\ Goes
<1> DEFINE o == op[a]
           q == [o EXCEPT !.pc = "read", !.to = "unlocked"]
<1>0. op[a].pc = "back" /\ UNCHANGED <<row, lock, tlock, in, lrs, hdls, adding, joining, incoming, sure, torn, used>>
  BY DEF Back, At, dss, sched
<1>1. ~InSection(a) /\ o \in CommandRec /\ o.d \in Drives /\ o.to # "none" /\ o.resp = "none"
  BY <1>0, DriveOf DEF InSection, Types, OpTypes, Proper
<1>2. ASSUME op' = [op EXCEPT ![a] = q]  PROVE  Types' /\ Goes
  <2>1. q \in CommandRec /\ q.pc = "read" /\ q.d = o.d /\ q.to = "unlocked" /\ q.resp = o.resp
    BY <1>1, BackRecord
  <2> HIDE DEF q
  <2> QED  BY <1>0, <1>1, <1>2, <2>1, OutsideStep DEF Section
<1>3. ASSUME End(a)  PROVE  Types' /\ Goes
  BY <1>0, <1>1, <1>3, OutsideGo
<1> QED  BY <1>2, <1>3 DEF Back

\* A command takes the lock of its drive and enters its section.
Enters(a) ==
    /\ lock[op[a].d] = NoLock /\ ~InSection(a) /\ Alone(a) /\ op[a].d \in Drives
    /\ op'[a].pc \in Section /\ op'[a].d = op[a].d
    /\ \A e \in Drives : lock'[e] = IF e = op[a].d THEN Row(Here, a, FALSE) ELSE lock[e]
    /\ UNCHANGED <<row, lrs, hdls, sure, torn, used>> /\ QueueRests

\* It leaves it with its lock.
Leaves(a) ==
    /\ InSection(a) /\ Alone(a) /\ op[a].d \in Drives /\ op'[a].pc \notin Section
    /\ \A e \in Drives : lock'[e] = IF e = op[a].d /\ lock[e] # NoLock /\ lock[e].owner = a
                                    THEN NoLock ELSE lock[e]
    /\ UNCHANGED <<row, lrs, hdls, sure, torn, used>> /\ QueueRests

LEMMA LockDriveEffect ==
    ASSUME Types, NEW a \in Admins, LockDrive(a)
    PROVE  Types' /\ (Goes \/ Enters(a))
<1> DEFINE d == op[a].d
           S == DriveLock(lrs.pid)
<1>0. op[a].pc = "lock" /\ UNCHANGED <<row, tlock, in, lrs, hdls, adding, joining, incoming, sure, torn, used>>
  BY DEF LockDrive, At, sched
<1>1. ~InSection(a) /\ d \in Drives  BY <1>0, DriveOf DEF InSection
<1>2. ASSUME Lockable(d), lock' = BasicLock(lock, d, Here, a, FALSE), Go(a, "tape") \/ Go(a, "act")
      PROVE  Types' /\ Enters(a)
  <2>1. OpTypes' /\ Alone(a) /\ op'[a].pc \in {"tape", "act"} /\ op'[a].d = op[a].d
    <3>1. ASSUME NEW p \in {"tape", "act"}, Go(a, p)
          PROVE  OpTypes' /\ Alone(a) /\ op'[a].pc = p /\ op'[a].d = op[a].d
      BY <1>0, <3>1, GoIs DEF Types, Pcs, SameCommand
    <3> QED  BY <1>2, <3>1
  <2>2. lrs.pid \in Nat /\ lock \in [Drives -> S \cup {NoLock}]  BY DEF Types, LrsTypes, LockTypes
  <2>3. Row(Here, a, FALSE) \in S  BY <2>2, RowsOf
  <2> HIDE DEF S
  <2>4. Possess(lock, d, Here, a) \in [Drives -> S \cup {NoLock}]  BY <2>2, <2>3, PossessIs
  <2>5. \A e \in Drives : Possess(lock, d, Here, a)[e] = IF e = d THEN Row(Here, a, FALSE) ELSE lock[e]
    BY <2>2 DEF Possess
  <2>6. lock' = Possess(lock, d, Here, a)  BY <1>2, BasicIs
  <2>7. lock' \in [Drives -> DriveLock(lrs.pid) \cup {NoLock}]  BY <2>4, <2>6 DEF S
  <2>8. Types'
    BY <1>0, <2>1, <2>7, CommandTypes, SameCount DEF Types, RowTypes, TapeTypes, InTypes, QueueTypes, MarkTypes
  <2>9. lock[d] = NoLock  BY <1>2 DEF Lockable, BasicLockApplies, IsLocked
  <2>10. QueueRests  BY <1>0, <2>1, NoNewWait
  <2> QED  BY <1>0, <1>1, <2>1, <2>5, <2>6, <2>8, <2>9, <2>10 DEF Enters, Section
<1>3. ASSUME UNCHANGED lock, End(a) \/ Go(a, "back")  PROVE  Types' /\ Goes
  BY <1>0, <1>1, <1>3, OutsideGo
<1> QED  BY <1>2, <1>3 DEF LockDrive

LEMMA UnlockDriveEffect ==
    ASSUME Types, NEW a \in Admins, UnlockDrive(a)
    PROVE  Types' /\ Leaves(a)
<1> DEFINE d == op[a].d
<1>0. /\ op[a].pc = "unlock" /\ UNCHANGED <<row, tlock, in, lrs, hdls, adding, joining, incoming, sure, torn, used>>
      /\ lock' = Released(lock, d, a)
  BY DEF UnlockDrive, At, sched, Unlocked
<1>1. InSection(a) /\ d \in Drives /\ d # None  BY <1>0, DriveOf DEF InSection
<1>2. OpTypes' /\ Alone(a) /\ op'[a].pc \in {"back", "idle"}
  <2>1. ASSUME End(a)  PROVE  OpTypes' /\ Alone(a) /\ op'[a].pc = "idle"  BY <2>1, EndIs DEF Types
  <2>2. ASSUME Go(a, "back")  PROVE  OpTypes' /\ Alone(a) /\ op'[a].pc = "back"
    BY <1>0, <2>2, GoIs DEF Types, Pcs
  <2> QED  BY <2>1, <2>2 DEF UnlockDrive
<1>3. /\ lock' \in [Drives -> DriveLock(lrs.pid) \cup {NoLock}]
      /\ \A e \in Drives : lock'[e] = IF e = d /\ d # None /\ UnlockApplies(lock, d, Here, a)
                                      THEN NoLock ELSE lock[e]
  BY <1>0, ReleasedIs DEF Types, LockTypes
<1>4. UnlockApplies(lock, d, Here, a) <=> lock[d] # NoLock /\ lock[d].owner = a
  BY <1>1, UnlockAppliesIs DEF Types
<1>5. Types'
  BY <1>0, <1>2, <1>3, CommandTypes, SameCount DEF Types, RowTypes, TapeTypes, InTypes, QueueTypes, MarkTypes
<1>6. QueueRests  BY <1>0, <1>2, NoNewWait
<1> QED  BY <1>0, <1>1, <1>2, <1>3, <1>4, <1>5, <1>6 DEF Leaves, Section

\* A command in its section changes the row of its drive.
ActsOn(a) ==
    /\ InSection(a) /\ op[a].d \in Drives /\ Aside /\ QueueRests
    /\ \A e \in Drives : row'[e].adm = row[e].adm /\ (e # op[a].d => row'[e] = row[e])
    /\ UNCHANGED <<lock, lrs, hdls, sure, torn, used>>

LEMMA ActEffect ==
    ASSUME Types, NEW a \in Admins, Act(a)
    PROVE  Types' /\ ActsOn(a)
<1> DEFINE d == op[a].d
           del == [row[d] EXCEPT !.in = FALSE]
           mig == [row[d] EXCEPT !.host = op[a].host]
<1>0. /\ op[a].pc = "act" /\ UNCHANGED <<lock, tlock, in, lrs, hdls, adding, joining, incoming, sure, torn, used>>
      /\ Go(a, "unlock")
  BY DEF Act, At, sched
<1>1. InSection(a) /\ d \in Drives  BY <1>0, DriveOf DEF InSection
<1>2. OpTypes' /\ Alone(a) /\ op'[a].pc = "unlock" /\ op'[a].d = op[a].d
  BY <1>0, GoIs DEF Types, Pcs, SameCommand
<1>3. Aside /\ QueueRests  BY <1>0, <1>1, <1>2, InsideAside, NoNewWait DEF Section
<1>4. row[d] \in DeviceRow  BY <1>1 DEF Types, RowTypes
<1>5. del \in DeviceRow /\ del.adm = row[d].adm  BY <1>4 DEF DeviceRow
<1>6. mig \in DeviceRow /\ mig.adm = row[d].adm
  <2>1. op[a].host \in {Here, Away}  BY <1>0, DriveOf DEF CommandRec
  <2> QED  BY <1>4, <2>1 DEF DeviceRow
<1>7. row' = [row EXCEPT ![d] = del] \/ row' = [row EXCEPT ![d] = mig] \/ row' = row
  BY DEF Act
<1> HIDE DEF del, mig
<1>8. RowTypes' /\ \A e \in Drives : row'[e].adm = row[e].adm /\ (e # d => row'[e] = row[e])
  BY <1>1, <1>5, <1>6, <1>7 DEF Types, RowTypes
<1>9. Types'
  BY <1>0, <1>2, <1>8, CommandTypes, SameCount DEF Types, LockTypes, TapeTypes, InTypes, QueueTypes, MarkTypes
<1> QED  BY <1>0, <1>1, <1>3, <1>8, <1>9 DEF ActsOn

\* A step in the section that works on the tape.
LEMMA TapeStep ==
    ASSUME Types, NEW a \in Admins, NEW p \in {"move", "weaken", "unlock"}, InSection(a), Go(a, p),
           UNCHANGED <<row, lock, lrs, hdls, adding, joining, incoming, sure, torn>>,
           tlock' \in [Tapes -> TapeLock(lrs.pid) \cup {NoLock}], InTypes', CountTypes', used'.handle = used.handle
    PROVE  Types' /\ Goes
<1>1. op[a].pc # "idle" /\ op[a].pc # "wait"  BY DEF InSection
<1>2. OpTypes' /\ Alone(a) /\ op'[a].pc = p /\ op'[a].d = op[a].d
  BY <1>1, GoIs DEF Types, Pcs, SameCommand
<1>3. Aside /\ QueueRests  BY <1>2, InsideAside, NoNewWait DEF Section
<1>4. Types'
  BY <1>2, CommandTypes DEF Types, RowTypes, LockTypes, QueueTypes, MarkTypes
<1>5. Calm /\ SureKeeps  BY <1>3, CalmWhenSame, SureStays
<1> QED  BY <1>3, <1>4, <1>5 DEF Goes

LEMMA LockTapeEffect ==
    ASSUME Types, NEW a \in Admins, LockTape(a)
    PROVE  Types' /\ Goes
<1> DEFINE S == TapeLock(lrs.pid)
<1>0. op[a].pc = "tape" /\ UNCHANGED <<row, lock, in, lrs, hdls, adding, joining, incoming, sure, torn, used>>
  BY DEF LockTape, At, sched
<1>1. InSection(a) /\ InTypes'  BY <1>0 DEF InSection, Types, InTypes
<1>2. lrs.pid \in Nat /\ tlock \in [Tapes -> S \cup {NoLock}]  BY DEF Types, LrsTypes, TapeTypes
<1>3. Row(Here, a, FALSE) \in S  BY <1>2, RowsOf
<1> HIDE DEF S
<1>4. Possess(tlock, op[a].t, Here, a) \in [Tapes -> S \cup {NoLock}]  BY <1>2, <1>3, PossessIs
<1>5. tlock' \in [Tapes -> S \cup {NoLock}] /\ (Go(a, "move") \/ Go(a, "unlock"))
  BY <1>2, <1>4 DEF LockTape
<1>6. CountTypes' /\ used'.handle = used.handle  BY <1>0, SameCount
<1> QED  BY <1>0, <1>1, <1>5, <1>6, TapeStep DEF S

LEMMA MoveEffect ==
    ASSUME Types, NEW a \in Admins, Move(a)
    PROVE  Types' /\ Goes
<1>0. /\ op[a].pc = "move" /\ UNCHANGED <<row, lock, tlock, lrs, hdls, adding, joining, incoming, sure, torn>>
      /\ Go(a, "weaken")
  BY DEF Move, At, dss, sched
<1>1. InSection(a) /\ op[a] \in CommandRec  BY <1>0, DriveOf DEF InSection
<1>2. tlock' \in [Tapes -> TapeLock(lrs.pid) \cup {NoLock}]  BY <1>0 DEF Types, TapeTypes
<1>3. InTypes'
  <2>1. op[a].t \in Tapes \cup {None}  BY <1>1 DEF CommandRec
  <2> QED  BY <2>1 DEF Move, Types, InTypes
<1>4. CountTypes' /\ used'.handle = used.handle
  <2>1. used' = used \/ Fault  BY DEF Move
  <2>2. ASSUME Fault  PROVE  CountTypes' /\ used'.handle = used.handle  BY <2>2, CountIs DEF Fault, Types, HandleTypes
  <2> QED  BY <2>1, <2>2, SameCount
<1> QED  BY <1>0, <1>1, <1>2, <1>3, <1>4, TapeStep

LEMMA ReleaseTapeEffect ==
    ASSUME Types, NEW a \in Admins, ReleaseTape(a)
    PROVE  Types' /\ Goes
<1> DEFINE t == op[a].t
<1>0. /\ op[a].pc = "weaken" /\ UNCHANGED <<row, lock, in, lrs, hdls, adding, joining, incoming, sure, torn, used>>
      /\ Go(a, "unlock")
  BY DEF ReleaseTape, At, sched
<1>1. InSection(a) /\ InTypes'  BY <1>0 DEF InSection, Types, InTypes
<1>2. lrs.pid \in Nat /\ tlock \in [Tapes -> TapeLock(lrs.pid) \cup {NoLock}]  BY DEF Types, LrsTypes, TapeTypes
<1>3. Released(tlock, t, a) \in [Tapes -> TapeLock(lrs.pid) \cup {NoLock}]  BY <1>2, ReleasedIs
<1>4. SetWeakApplies(tlock, t, Here, a) => SetWeak(tlock, t) \in [Tapes -> TapeLock(lrs.pid) \cup {NoLock}]
  BY <1>2, WeakIs
<1>5. tlock' \in [Tapes -> TapeLock(lrs.pid) \cup {NoLock}]
  BY <1>2, <1>3, <1>4 DEF ReleaseTape
<1>6. CountTypes' /\ used'.handle = used.handle  BY <1>0, SameCount
<1> QED  BY <1>0, <1>1, <1>5, <1>6, TapeStep

\* All the locks are deleted.
LEMMA CleanEffect ==
    ASSUME Types, NEW a \in Admins, Clean(a)
    PROVE  Types' /\ (Goes \/ Cleans)
<1>0. /\ op[a].pc = "clean" /\ UNCHANGED <<row, in, lrs, hdls, adding, joining, incoming, sure, used>>
      /\ End(a)
  BY DEF Clean, At, sched
<1>1. ~InSection(a)  BY <1>0 DEF InSection
<1>2. OpTypes' /\ Alone(a) /\ op'[a].pc = "idle"  BY <1>0, EndIs DEF Types
<1>3. Aside /\ QueueRests  BY <1>0, <1>1, <1>2, OutsideAside, NoNewWait DEF Section
<1>4. ASSUME UNCHANGED <<lock, tlock, torn>>  PROVE  Types' /\ Goes
  BY <1>0, <1>1, <1>4, OutsideGo
<1>5. ASSUME lock' = DeleteRows(lock, Drives), NEW D, tlock' = DeleteRows(tlock, D),
             Tear({d \in Drives : IsLocked(lock, d) /\ AtWork(d)}, "robbed")
      PROVE  Types' /\ Cleans
  <2>1. /\ lock' \in [Drives -> DriveLock(lrs.pid) \cup {NoLock}]
        /\ \A e \in Drives : lock'[e] = NoLock
    <3>1. lock \in [Drives -> DriveLock(lrs.pid) \cup {NoLock}]  BY DEF Types, LockTypes
    <3>2. DeleteRows(lock, Drives) \in [Drives -> DriveLock(lrs.pid) \cup {NoLock}]  BY <3>1, DeleteIs
    <3>3. \A e \in Drives : DeleteRows(lock, Drives)[e] = NoLock  BY <3>1 DEF DeleteRows
    <3> QED  BY <1>5, <3>2, <3>3
  <2>2. tlock' \in [Tapes -> TapeLock(lrs.pid) \cup {NoLock}]
    BY <1>5, DeleteIs DEF Types, TapeTypes
  <2>3. /\ MarkTypes' /\ torn \subseteq torn'
        /\ \A d \in Drives : lock[d] # NoLock /\ AtWork(d) => <<d, "robbed">> \in torn'
    <3> DEFINE R == {d \in Drives : IsLocked(lock, d) /\ AtWork(d)}
    <3>1. torn' = torn \cup (R \X {"robbed"}) /\ R \subseteq Drives  BY <1>5 DEF Tear
    <3>2. \A d \in Drives : lock[d] # NoLock /\ AtWork(d) => d \in R  BY DEF IsLocked
    <3> HIDE DEF R
    <3> QED  BY <1>0, <3>1, <3>2 DEF Types, MarkTypes, Defects
  <2>4. Types'
    BY <1>0, <1>2, <2>1, <2>2, <2>3, CommandTypes, SameCount DEF Types, RowTypes, InTypes, QueueTypes
  <2> QED  BY <1>0, <1>3, <2>1, <2>3, <2>4 DEF Cleans
<1> QED  BY <1>4, <1>5 DEF Clean

-----------------------------------------------------------------------------
(* The drives are held.                                                    *)

\* A row of a drive names its owner.
LEMMA RowOwner ==
    ASSUME NEW p, NEW q, Row(Here, p, FALSE) = Row(Here, q, FALSE)
    PROVE  p = q
BY DEF Row

LEMMA RowIsNotNone ==
    ASSUME NEW p \in Admins \cup Nat
    PROVE  Row(Here, p, FALSE) # NoLock /\ Row(Here, p, FALSE).owner = p
<1>1. Row(Here, p, FALSE) \in LockRow  BY DEF Row, LockRow
<1> QED  BY <1>1, NamesAssumption DEF Row

LEMMA PidIs ==
    ASSUME Types
    PROVE  lrs.pid \in Nat /\ lrs.pid \notin Admins
BY NamesAssumption DEF Types, LrsTypes

LockKept(d) ==
    lock[d] # NoLock =>
        AtWork(d) \/ (lock[d].owner \in 1..lrs.pid /\ (lrs.st = "down" \/ lock[d].owner # lrs.pid))

\* What holds of a drive that no defect, or only some, has reached.
Whole(d) == <<d, "second">> \notin torn
Unrobbed(d) == <<d, "robbed">> \notin torn
Seen(d) == <<d, "unseen">> \notin torn
Fine(d) ==
    Whole(d) => /\ LockKept(d)
                /\ Unrobbed(d) => Held(d)
                /\ Unrobbed(d) /\ Seen(d) => Owned(d)
DrivesFine == \A d \in Drives : Fine(d)

\* A drive that is not torn has one handle.
Single(d) == \A i, j \in HandlesOf(d) : i = j
SingleInv == \A d \in Drives : Whole(d) => Single(d)

LEMMA TornStays ==
    ASSUME NEW d, torn \subseteq torn'
    PROVE  (Whole(d)' => Whole(d)) /\ (Unrobbed(d)' => Unrobbed(d)) /\ (Seen(d)' => Seen(d))
BY DEF Whole, Unrobbed, Seen

LEMMA AtWorkIs ==
    ASSUME NEW d
    PROVE  AtWork(d) <=> (\E a \in Admins : lock[d].owner = a /\ On(a, d)) \/ (lock[d].owner = lrs.pid /\ Working(d))
BY DEF AtWork, On, Working

\* What a step leaves of a drive that it does not reach.
Spares(d) ==
    /\ torn \subseteq torn' /\ lrs'.pid = lrs.pid /\ (lrs'.st = "down" <=> lrs.st = "down")
    /\ (Working(d)' <=> Working(d)) /\ \A a \in Admins : On(a, d)' <=> On(a, d)

LEMMA FineSpared ==
    ASSUME NEW d \in Drives, Fine(d), Spares(d), lock'[d] = lock[d],
           (row[d].in /\ row[d].host = Here => row'[d].in /\ row'[d].host = Here) \/ ~Working(d) \/ ~Seen(d)'
    PROVE  Fine(d)'
<1> SUFFICES ASSUME Whole(d)'  PROVE  LockKept(d)' /\ (Unrobbed(d)' => Held(d)') /\ (Unrobbed(d)' /\ Seen(d)' => Owned(d)')
  BY DEF Fine
<1>1. Whole(d) /\ (Unrobbed(d)' => Unrobbed(d)) /\ (Seen(d)' => Seen(d))  BY TornStays DEF Spares
<1>2. LockKept(d)'
  <2>1. AtWork(d)' <=> AtWork(d)  BY AtWorkIs DEF Spares, AtWork, On, Working
  <2>2. LockKept(d)  BY <1>1 DEF Fine
  <2> QED  BY <2>1, <2>2 DEF LockKept, Spares
<1>3. Unrobbed(d)' => Held(d)'  BY <1>1 DEF Fine, Held, Spares
<1>4. Unrobbed(d)' /\ Seen(d)' => Owned(d)'  BY <1>1 DEF Fine, Owned, Spares
<1> QED  BY <1>2, <1>3, <1>4

\* No one holds a drive that no one has locked.
LEMMA NoHolder ==
    ASSUME Types, NEW d \in Drives, Held(d), lock[d] = NoLock
    PROVE  ~Working(d) /\ \A a \in Admins : ~On(a, d)
BY PidIs, RowIsNotNone DEF Held

LEMMA SameOn ==
    ASSUME Aside
    PROVE  \A d \in Drives : \A a \in Admins : On(a, d)' <=> On(a, d)
BY DEF Aside, On, InSection

LEMMA SameWorking ==
    ASSUME hdls' = hdls
    PROVE  \A d \in Drives : Working(d)' <=> Working(d)
BY DEF Working, HandlesOf, Holds

LEMMA FineCalm ==
    ASSUME Types, DrivesFine, Calm
    PROVE  DrivesFine'
<1> SUFFICES ASSUME NEW d \in Drives  PROVE  Fine(d)'
  BY DEF DrivesFine
<1>1. Fine(d) /\ lock'[d] = lock[d] /\ (row[d].in /\ row[d].host = Here => row'[d].in /\ row'[d].host = Here)
  BY DEF Calm, DrivesFine
<1>2. Working(d)' <=> Working(d)  BY DEF Calm, HandlesKeep, Working, HandlesOf, Holds
<1>3. Spares(d)  BY <1>2, SameOn DEF Spares, Calm
<1> QED  BY <1>1, <1>3, FineSpared

LEMMA FineReleases ==
    ASSUME Types, DrivesFine, SingleInv, NEW i \in DOMAIN hdls, ThreadReleases(i)
    PROVE  DrivesFine'
<1> SUFFICES ASSUME NEW d \in Drives  PROVE  Fine(d)'
  BY DEF DrivesFine
<1>0. /\ Aside /\ HandlesKeep
      /\ hdls'[i].th = "ended" /\ \A j \in DOMAIN hdls \ {i} : hdls'[j] = hdls[j]
      /\ \A e \in Drives : lock'[e] = IF e = hdls[i].d /\ lock[e] # NoLock /\ lock[e].owner = lrs.pid
                                      THEN NoLock ELSE lock[e]
      /\ UNCHANGED <<row, lrs, torn>>
  BY ThreadReleasesEffect DEF ThreadReleases
<1>1. Fine(d) /\ (Whole(d)' <=> Whole(d)) /\ (Unrobbed(d)' <=> Unrobbed(d)) /\ (Whole(d) => Single(d))
  BY <1>0 DEF DrivesFine, Whole, Unrobbed, SingleInv
<1>2. \A j : j \in HandlesOf(d)' <=> j \in HandlesOf(d)  BY <1>0 DEF HandlesKeep, HandlesOf
<1>3. \A a \in Admins : On(a, d)' <=> On(a, d)  BY <1>0, SameOn
<1>4. CASE hdls[i].d = d /\ Whole(d)
  <2>1. i \in HandlesOf(d)  BY <1>4 DEF HandlesOf
  <2>2. \A j \in HandlesOf(d)' : j = i  BY <1>1, <1>2, <1>4, <2>1 DEF Single
  <2>3. ~Working(d)'  BY <1>0, <2>2 DEF Working, Holds, Holding
  <2>4. lock'[d] = lock[d] \/ (lock'[d] = NoLock /\ lock[d].owner = lrs.pid)  BY <1>0
  <2>5. lock'[d] # NoLock => lock'[d].owner # lrs.pid  BY <1>0, <1>4
  <2>6. LockKept(d)'
    <3>1. LockKept(d)  BY <1>1, <1>4 DEF Fine
    <3>2. ASSUME lock'[d] # NoLock, AtWork(d)  PROVE  AtWork(d)'
      <4>1. lock'[d] = lock[d] /\ lock[d].owner # lrs.pid  BY <2>4, <2>5, <3>2
      <4>2. PICK a \in Admins : lock[d].owner = a /\ On(a, d)  BY <3>2, <4>1, AtWorkIs
      <4> QED  BY <1>3, <4>1, <4>2 DEF AtWork, On
    <3> QED  BY <1>0, <2>4, <3>1, <3>2 DEF LockKept
  <2>7. Unrobbed(d)' => Held(d)'
    <3> SUFFICES ASSUME Unrobbed(d)  PROVE  Held(d)'
      BY <1>1
    <3>1. Held(d)  BY <1>1, <1>4 DEF Fine
    <3>2. ASSUME NEW a \in Admins, On(a, d)  PROVE  lock'[d] = Row(Here, a, FALSE)
      <4>1. lock[d] = Row(Here, a, FALSE)  BY <3>1, <3>2 DEF Held
      <4>2. lock[d].owner # lrs.pid  BY <4>1, PidIs, RowIsNotNone
      <4> QED  BY <2>4, <4>1, <4>2
    <3> QED  BY <1>3, <2>3, <3>2 DEF Held
  <2> QED  BY <2>3, <2>6, <2>7 DEF Fine, Owned
<1>5. CASE hdls[i].d # d
  <2>1. lock'[d] = lock[d]  BY <1>0, <1>5
  <2>2. \A j \in HandlesOf(d) : Holds(j)' <=> Holds(j)  BY <1>0, <1>5 DEF Holds, HandlesOf
  <2>3. Working(d)' <=> Working(d)  BY <1>2, <2>2 DEF Working
  <2>4. Spares(d)  BY <1>0, <1>3, <2>3 DEF Spares
  <2> QED  BY <1>0, <1>1, <2>1, <2>4, FineSpared
<1>6. CASE ~Whole(d)  BY <1>1, <1>6 DEF Fine
<1> QED  BY <1>4, <1>5, <1>6

LEMMA FineGrows ==
    ASSUME Types, DrivesFine, NEW k \in Drives, Takes(k) \/ Misses(k), lrs.st # "down"
    PROVE  DrivesFine'
<1> SUFFICES ASSUME NEW d \in Drives  PROVE  Fine(d)'
  BY DEF DrivesFine
<1> DEFINE n == Len(hdls) + 1
<1>0. /\ Grows(k) /\ Aside /\ row' = row /\ lrs' = lrs /\ torn \subseteq torn' /\ Fine(d)
      /\ HandlesOf(k) = {} \/ ~Whole(k)'
  BY DEF Takes, Misses, Grows, DrivesFine, Whole
<1>1. /\ Len(hdls) \in Nat /\ DOMAIN hdls = 1..Len(hdls) /\ DOMAIN hdls' = 1..n /\ hdls'[n].d = k
      /\ \A i \in DOMAIN hdls : hdls'[i] = hdls[i]
  BY <1>0 DEF Grows
<1>2. \A a \in Admins : On(a, d)' <=> On(a, d)  BY <1>0, SameOn
<1>3. ASSUME d # k \/ hdls'[n].th \notin Holding, lock'[d] = lock[d]  PROVE  Fine(d)'
  <2>1. \A i : i \in HandlesOf(d)' /\ hdls'[i].th \in Holding <=> i \in HandlesOf(d) /\ Holds(i)
    BY <1>1, <1>3 DEF HandlesOf, Holds
  <2>2. Working(d)' <=> Working(d)  BY <2>1 DEF Working, Holds
  <2>3. Spares(d)  BY <1>0, <1>2, <2>2 DEF Spares
  <2> QED  BY <1>0, <1>3, <2>3, FineSpared
<1>4. CASE Misses(k)  BY <1>3, <1>4 DEF Misses
<1>5. CASE Takes(k) /\ d # k  BY <1>3, <1>5 DEF Takes
<1>6. CASE Takes(k) /\ d = k /\ Whole(d)'
  <2>1. HandlesOf(d) = {} /\ Whole(d)  BY <1>0, <1>6, TornStays
  <2>2. lock[d] = NoLock /\ lock'[d] = Row(Here, lrs.pid, FALSE)  BY <1>6 DEF Takes
  <2>3. Working(d)'
    <3>1. PICK m : m = n  OBVIOUS
    <3>2. m \in DOMAIN hdls' /\ hdls'[m].d = d /\ hdls'[m].th \in Holding  BY <1>1, <1>6, <3>1 DEF Takes
    <3> QED  BY <3>2 DEF Working, HandlesOf, Holds
  <2>4. lock'[d].owner = lrs'.pid  BY <1>0, <2>2, PidIs, RowIsNotNone
  <2>5. LockKept(d)'  BY <2>3, <2>4 DEF LockKept, AtWork, Working
  <2>6. Unrobbed(d)' => Held(d)'
    <3> SUFFICES ASSUME Unrobbed(d)'  PROVE  Held(d)'
      OBVIOUS
    <3>1. Held(d)  BY <1>0, <2>1, TornStays DEF Fine
    <3>2. \A a \in Admins : ~On(a, d)  BY <2>2, <3>1, NoHolder
    <3> QED  BY <1>0, <1>2, <2>2, <3>2 DEF Held
  <2>7. Seen(d)' => Owned(d)'  BY <1>0, <1>6 DEF Takes, Seen, Owned
  <2> QED  BY <2>5, <2>6, <2>7 DEF Fine
<1>7. CASE ~Whole(d)'  BY <1>7 DEF Fine
<1> QED  BY <1>4, <1>5, <1>6, <1>7

LEMMA RemovesWorking ==
    ASSUME Types, NEW i, Removes(i), NEW d
    PROVE  Working(d)' <=> Working(d)
<1> DEFINE from(j) == IF j = i THEN Len(hdls) ELSE j
<1>0. i \in DOMAIN hdls /\ hdls[i].th = "ended" /\ hdls' = Without(i)  BY DEF Removes, Live
<1>1. /\ DOMAIN hdls' = 1..Len(hdls) - 1 /\ Len(hdls) \in Nat /\ DOMAIN hdls = 1..Len(hdls)
      /\ \A j \in DOMAIN hdls' : hdls'[j] = hdls[from(j)]
      /\ \A j \in DOMAIN hdls' : from(j) \in DOMAIN hdls \ {i}
  BY <1>0, WithoutIs DEF Types, HandleTypes
<1>2. Working(d)' => Working(d)  BY <1>1 DEF Working, HandlesOf, Holds
<1>3. ASSUME NEW j \in HandlesOf(d), Holds(j)  PROVE  Working(d)'
  <2>1. j # i /\ j \in 1..Len(hdls)  BY <1>0, <1>1, <1>3 DEF HandlesOf, Holds, Holding
  <2>2. PICK l : l = IF j = Len(hdls) THEN i ELSE j  OBVIOUS
  <2>3. l \in DOMAIN hdls' /\ from(l) = j  BY <1>0, <1>1, <2>1, <2>2
  <2>4. hdls'[l] = hdls[j]  BY <1>1, <2>3
  <2> QED  BY <1>3, <2>3, <2>4 DEF Working, HandlesOf, Holds
<1> QED  BY <1>2, <1>3 DEF Working

LEMMA FineRemoves ==
    ASSUME Types, DrivesFine, NEW i, Removes(i)
    PROVE  DrivesFine'
<1> SUFFICES ASSUME NEW d \in Drives  PROVE  Fine(d)'
  BY DEF DrivesFine
<1>1. Spares(d)  BY RemovesWorking, SameOn DEF Spares, Removes
<1> QED  BY <1>1, FineSpared DEF Removes, DrivesFine

LEMMA FineDies ==
    ASSUME Types, DrivesFine, Dies
    PROVE  DrivesFine'
<1> SUFFICES ASSUME NEW d \in Drives, Whole(d)'  PROVE  Fine(d)'
  BY DEF DrivesFine, Fine
<1>1. Fine(d) /\ Whole(d) /\ (Unrobbed(d)' <=> Unrobbed(d))  BY DEF Dies, DrivesFine, Whole, Unrobbed
<1>2. \A a \in Admins : On(a, d)' <=> On(a, d)  BY SameOn DEF Dies
<1>3. ~Working(d)'  BY DEF Dies, Working, HandlesOf
<1>4. lock' = lock /\ lrs'.pid = lrs.pid /\ lrs'.st = "down"  BY DEF Dies
<1>5. Unrobbed(d)' => Held(d)'  BY <1>1, <1>2, <1>3, <1>4 DEF Held, Fine
<1>6. LockKept(d)'
  <2>1. LockKept(d)  BY <1>1 DEF Fine
  <2>2. ASSUME lock[d] # NoLock, lock[d].owner = lrs.pid  PROVE  lock[d].owner \in 1..lrs.pid
    <3>1. lock[d].owner \in Admins \cup (1..lrs.pid)  BY <2>2 DEF Types, LockTypes, DriveLock
    <3> QED  BY <2>2, <3>1, PidIs
  <2>3. ASSUME NEW a \in Admins, lock[d].owner = a, On(a, d)  PROVE  AtWork(d)'
    BY <1>2, <1>4, <2>3 DEF AtWork, On
  <2>4. AtWork(d) => lock[d].owner = lrs.pid \/ AtWork(d)'  BY <2>3, AtWorkIs
  <2> QED  BY <1>4, <2>1, <2>2, <2>4 DEF LockKept
<1> QED  BY <1>3, <1>5, <1>6 DEF Fine, Owned

LEMMA FineStarts ==
    ASSUME Types, DrivesFine, Starts
    PROVE  DrivesFine'
<1> SUFFICES ASSUME NEW d \in Drives, Whole(d)'  PROVE  Fine(d)'
  BY DEF DrivesFine, Fine
<1>1. Fine(d) /\ Whole(d) /\ (Unrobbed(d)' <=> Unrobbed(d))  BY DEF Starts, DrivesFine, Whole, Unrobbed
<1>2. \A a \in Admins : On(a, d)' <=> On(a, d)  BY DEF Starts, On, InSection
<1>3. ~Working(d)' /\ ~Working(d)  BY DEF Starts, Working, HandlesOf
<1>4. lock' = lock /\ lrs'.pid = lrs.pid + 1 /\ lrs.pid \in Nat  BY DEF Starts
<1>5. Unrobbed(d)' => Held(d)'  BY <1>1, <1>2, <1>3, <1>4 DEF Held, Fine
<1>6. LockKept(d)'
  <2>1. LockKept(d)  BY <1>1 DEF Fine
  <2>2. ASSUME lock[d].owner \in 1..lrs.pid  PROVE  lock[d].owner \in 1..lrs'.pid /\ lock[d].owner # lrs'.pid
    BY <1>4, <2>2
  <2>3. ASSUME NEW a \in Admins, lock[d].owner = a, On(a, d)  PROVE  AtWork(d)'
    BY <1>2, <1>4, <2>3 DEF AtWork, On
  <2>4. AtWork(d) => AtWork(d)'  BY <1>3, <2>3, AtWorkIs
  <2> QED  BY <1>4, <2>1, <2>2, <2>4 DEF LockKept
<1> QED  BY <1>3, <1>5, <1>6 DEF Fine, Owned

\* A lock that is deleted is that of no one at work, or its holder is robbed of it.
LEMMA FineCleans ==
    ASSUME Types, DrivesFine, Cleans
    PROVE  DrivesFine'
<1> SUFFICES ASSUME NEW d \in Drives  PROVE  Fine(d)'
  BY DEF DrivesFine
<1>1. Fine(d) /\ torn \subseteq torn' /\ row' = row  BY DEF Cleans, DrivesFine
<1>2. Spares(d)  BY SameOn, SameWorking DEF Spares, Cleans
<1>3. CASE lock'[d] = lock[d]  BY <1>1, <1>2, <1>3, FineSpared
<1>4. CASE lock'[d] # lock[d] /\ Whole(d)'
  <2>1. lock'[d] = NoLock /\ lock[d] # NoLock /\ (AtWork(d) => ~Unrobbed(d)')
    BY <1>4 DEF Cleans, Unrobbed
  <2>2. Whole(d) /\ (Unrobbed(d)' => Unrobbed(d)) /\ (Seen(d)' => Seen(d))  BY <1>1, <1>4, TornStays
  <2>3. Unrobbed(d)' => Held(d)'
    <3> SUFFICES ASSUME Unrobbed(d)'  PROVE  Held(d)'
      OBVIOUS
    <3>1. Held(d) /\ ~AtWork(d)  BY <1>1, <2>1, <2>2 DEF Fine
    <3>2. ~Working(d)  BY <3>1, PidIs, RowIsNotNone, AtWorkIs DEF Held
    <3>3. ASSUME NEW a \in Admins, On(a, d)  PROVE  FALSE
      <4>1. lock[d].owner = a  BY <3>1, <3>3, RowIsNotNone DEF Held
      <4> QED  BY <3>1, <3>3, <4>1, AtWorkIs
    <3> QED  BY <1>2, <3>2, <3>3 DEF Held, Spares
  <2>4. Unrobbed(d)' /\ Seen(d)' => Owned(d)'  BY <1>1, <1>2, <2>2 DEF Fine, Owned, Spares
  <2> QED  BY <2>1, <2>3, <2>4 DEF Fine, LockKept
<1>5. CASE ~Whole(d)'  BY <1>5 DEF Fine
<1> QED  BY <1>3, <1>4, <1>5

LEMMA FineUndoes ==
    ASSUME Types, DrivesFine, NEW k \in Drives, Undoes(k)
    PROVE  DrivesFine'
<1> SUFFICES ASSUME NEW d \in Drives  PROVE  Fine(d)'
  BY DEF DrivesFine
<1>1. Spares(d)  BY SameOn, SameWorking DEF Spares, Undoes
<1>2. row'[d] = row[d] \/ ~Working(d) \/ ~Seen(d)'  BY DEF Undoes, Working, Seen
<1> QED  BY <1>1, <1>2, FineSpared DEF Undoes, DrivesFine

LEMMA FineActs ==
    ASSUME Types, DrivesFine, NEW a \in Admins, ActsOn(a)
    PROVE  DrivesFine'
<1> SUFFICES ASSUME NEW d \in Drives  PROVE  Fine(d)'
  BY DEF DrivesFine
<1>1. Spares(d) /\ Fine(d) /\ lock' = lock /\ torn' = torn  BY SameOn, SameWorking DEF Spares, ActsOn, DrivesFine
<1>2. CASE row'[d] = row[d] \/ ~Working(d)  BY <1>1, <1>2, FineSpared
<1>3. CASE row'[d] # row[d] /\ Working(d)
  <2>1. On(a, d)  BY <1>3 DEF ActsOn, On
  <2>2. ~Held(d)
    <3>1. Held(d) => lock[d] = Row(Here, a, FALSE) /\ lock[d] = Row(Here, lrs.pid, FALSE)  BY <1>3, <2>1 DEF Held
    <3> QED  BY <3>1, PidIs, RowOwner
  <2>3. LockKept(d) => LockKept(d)'
    <3>1. AtWork(d) => AtWork(d)'  BY <1>1 DEF Spares, AtWork, On, Working
    <3> QED  BY <1>1, <3>1 DEF LockKept, Spares
  <2>4. (Whole(d)' <=> Whole(d)) /\ (Unrobbed(d)' <=> Unrobbed(d))  BY <1>1 DEF Whole, Unrobbed
  <2> QED  BY <1>1, <2>2, <2>3, <2>4 DEF Fine
<1> QED  BY <1>2, <1>3

LEMMA FineEnters ==
    ASSUME Types, DrivesFine, NEW a \in Admins, Enters(a)
    PROVE  DrivesFine'
<1> SUFFICES ASSUME NEW d \in Drives  PROVE  Fine(d)'
  BY DEF DrivesFine
<1>1. Fine(d) /\ lrs' = lrs /\ row' = row /\ torn' = torn /\ (Working(d)' <=> Working(d))
  BY SameWorking DEF Enters, DrivesFine
<1>2. \A b \in Admins \ {a} : On(b, d)' <=> On(b, d)  BY DEF Enters, Alone, On, InSection
<1>3. op'[a].d = op[a].d /\ InSection(a)' /\ ~InSection(a)  BY DEF Enters, Section, InSection
<1>4. CASE op[a].d = d
  <2>1. lock[d] = NoLock /\ lock'[d] = Row(Here, a, FALSE)  BY <1>4 DEF Enters
  <2>2. On(a, d)'  BY <1>3, <1>4 DEF On
  <2>3. lock'[d].owner = a  BY <2>1, RowIsNotNone
  <2>4. LockKept(d)'  BY <2>2, <2>3 DEF LockKept, AtWork, On
  <2>5. Held(d) => Held(d)'
    <3> SUFFICES ASSUME Held(d)  PROVE  Held(d)'
      OBVIOUS
    <3>1. ~Working(d) /\ \A b \in Admins : ~On(b, d)  BY <2>1, NoHolder
    <3> QED  BY <1>1, <1>2, <2>1, <3>1 DEF Held
  <2>6. Owned(d) => Owned(d)'  BY <1>1 DEF Owned
  <2>7. (Whole(d)' <=> Whole(d)) /\ (Unrobbed(d)' <=> Unrobbed(d)) /\ (Seen(d)' <=> Seen(d))
    BY <1>1 DEF Whole, Unrobbed, Seen
  <2> QED  BY <1>1, <2>4, <2>5, <2>6, <2>7 DEF Fine
<1>5. CASE op[a].d # d
  <2>1. lock'[d] = lock[d]  BY <1>5 DEF Enters
  <2>2. ~On(a, d)' /\ ~On(a, d)  BY <1>3, <1>5 DEF On
  <2>3. Spares(d)  BY <1>1, <1>2, <2>2 DEF Spares
  <2> QED  BY <1>1, <2>1, <2>3, FineSpared
<1> QED  BY <1>4, <1>5

LEMMA FineLeaves ==
    ASSUME Types, DrivesFine, NEW a \in Admins, Leaves(a)
    PROVE  DrivesFine'
<1> SUFFICES ASSUME NEW d \in Drives  PROVE  Fine(d)'
  BY DEF DrivesFine
<1>1. Fine(d) /\ lrs' = lrs /\ row' = row /\ torn' = torn /\ (Working(d)' <=> Working(d))
  BY SameWorking DEF Leaves, DrivesFine
<1>2. \A b \in Admins \ {a} : On(b, d)' <=> On(b, d)  BY DEF Leaves, Alone, On, InSection
<1>3. ~On(a, d)' /\ InSection(a)  BY DEF Leaves, Section, InSection, On
<1>4. CASE op[a].d = d
  <2>1. On(a, d)  BY <1>3, <1>4 DEF On
  <2>2. lock'[d] = IF lock[d] # NoLock /\ lock[d].owner = a THEN NoLock ELSE lock[d]  BY <1>4 DEF Leaves
  <2>3. LockKept(d) => LockKept(d)'
    <3> SUFFICES ASSUME LockKept(d), lock'[d] # NoLock  PROVE  LockKept(d)'
      BY DEF LockKept
    <3>1. lock'[d] = lock[d] /\ lock[d].owner # a  BY <2>2
    <3>2. AtWork(d) => AtWork(d)'  BY <1>1, <1>2, <3>1 DEF AtWork, On, Working
    <3> QED  BY <1>1, <3>1, <3>2 DEF LockKept
  <2>4. Held(d) => Held(d)'
    <3> SUFFICES ASSUME Held(d)  PROVE  Held(d)'
      OBVIOUS
    <3>1. lock[d] = Row(Here, a, FALSE)  BY <2>1 DEF Held
    <3>2. ~Working(d)  BY <3>1, PidIs, RowOwner DEF Held
    <3>3. \A b \in Admins \ {a} : ~On(b, d)  BY <3>1, RowOwner DEF Held
    <3> QED  BY <1>1, <1>2, <1>3, <3>2, <3>3 DEF Held
  <2>5. Owned(d) => Owned(d)'  BY <1>1 DEF Owned
  <2>6. (Whole(d)' <=> Whole(d)) /\ (Unrobbed(d)' <=> Unrobbed(d)) /\ (Seen(d)' <=> Seen(d))
    BY <1>1 DEF Whole, Unrobbed, Seen
  <2> QED  BY <1>1, <2>3, <2>4, <2>5, <2>6 DEF Fine
<1>5. CASE op[a].d # d
  <2>1. lock'[d] = lock[d]  BY <1>5 DEF Leaves
  <2>2. ~On(a, d)  BY <1>5 DEF On
  <2>3. Spares(d)  BY <1>1, <1>2, <1>3, <2>2 DEF Spares
  <2> QED  BY <1>1, <2>1, <2>3, FineSpared
<1> QED  BY <1>4, <1>5

-----------------------------------------------------------------------------
(* A drive whose lock the LRS has answered stays without a thread.         *)

SureInv == SureLocked /\ LockEffective

\* No thread begins on a drive whose lock was answered.
NoNewLife ==
    \A d \in sure : \A i \in HandlesOf(d)' :
        hdls'[i].th # "ended" => \E j \in HandlesOf(d) : Live(j)

LEMMA SingleKeep ==
    ASSUME SingleInv, HandlesKeep \/ hdls' = hdls \/ hdls' = <<>>, torn \subseteq torn'
    PROVE  SingleInv'
<1>1. \A d : HandlesOf(d)' \subseteq HandlesOf(d)  BY DEF HandlesKeep, HandlesOf
<1> QED  BY <1>1 DEF SingleInv, Single, Whole

LEMMA SingleGrows ==
    ASSUME SingleInv, NEW k \in Drives, Grows(k)
    PROVE  SingleInv'
<1> SUFFICES ASSUME NEW d \in Drives, Whole(d)'  PROVE  Single(d)'
  BY DEF SingleInv
<1>1. Whole(d) /\ (d = k => HandlesOf(d) = {})  BY DEF Grows, Whole
<1>2. CASE d = k
  <2>1. \A i \in HandlesOf(d)' : i = Len(hdls) + 1  BY <1>1, <1>2 DEF Grows, HandlesOf
  <2> QED  BY <2>1 DEF Single
<1>3. CASE d # k
  <2>1. HandlesOf(d)' \subseteq HandlesOf(d)  BY <1>1, <1>3 DEF Grows, HandlesOf
  <2> QED  BY <1>1, <2>1 DEF SingleInv, Single
<1> QED  BY <1>2, <1>3

LEMMA SingleRemoves ==
    ASSUME Types, SingleInv, NEW i, Removes(i)
    PROVE  SingleInv'
<1> SUFFICES ASSUME NEW d \in Drives, Whole(d)', NEW j \in HandlesOf(d)', NEW l \in HandlesOf(d)'  PROVE  j = l
  BY DEF SingleInv, Single
<1> DEFINE from(x) == IF x = i THEN Len(hdls) ELSE x
<1>1. /\ DOMAIN hdls' = 1..Len(hdls) - 1 /\ Len(hdls) \in Nat
      /\ \A x \in DOMAIN hdls' : hdls'[x] = hdls[from(x)] /\ from(x) \in DOMAIN hdls \ {i}
  BY WithoutIs DEF Removes, Types, HandleTypes
<1>2. from(j) \in HandlesOf(d) /\ from(l) \in HandlesOf(d)  BY <1>1 DEF HandlesOf
<1>3. from(j) = from(l)  BY <1>2 DEF SingleInv, Single, Removes, Whole
<1>4. j \in 1..Len(hdls) - 1 /\ l \in 1..Len(hdls) - 1  BY <1>1 DEF HandlesOf
<1> QED  BY <1>1, <1>3, <1>4

LEMMA SureStep ==
    ASSUME SureInv, SureKeeps, NoNewLife, torn \subseteq torn'
    PROVE  SureInv'
<1>1. SureLocked'  BY DEF SureInv, SureLocked, SureKeeps
<1>2. LockEffective'
  <2> SUFFICES ASSUME NEW d \in sure', d \notin Torn({"second"})', NEW i \in HandlesOf(d)'  PROVE  ~Live(i)'
    BY DEF LockEffective
  <2>1. d \in sure /\ d \notin Torn({"second"})  BY DEF SureKeeps, Torn
  <2> QED  BY <2>1 DEF SureInv, LockEffective, NoNewLife, Live
<1> QED  BY <1>1, <1>2 DEF SureInv

LEMMA KeepNoLife ==
    ASSUME HandlesKeep
    PROVE  NoNewLife
BY DEF NoNewLife, HandlesKeep, HandlesOf, Live

LEMMA SameNoLife ==
    ASSUME hdls' = hdls \/ hdls' = <<>>
    PROVE  NoNewLife
BY DEF NoNewLife, HandlesOf, Live

LEMMA GrowsNoLife ==
    ASSUME NEW k \in Drives, Grows(k), k \notin sure
    PROVE  NoNewLife
<1>1. \A d \in sure : \A i \in HandlesOf(d)' : i \in HandlesOf(d) /\ hdls'[i] = hdls[i]
  BY DEF Grows, HandlesOf
<1> QED  BY <1>1 DEF NoNewLife, Live

LEMMA RemovesHandles ==
    ASSUME Types, NEW i, Removes(i)
    PROVE  \A d : \A j \in HandlesOf(d)' : \E l \in HandlesOf(d) \ {i} : hdls'[j] = hdls[l]
<1>1. /\ \A j \in DOMAIN hdls' : hdls'[j] = hdls[IF j = i THEN Len(hdls) ELSE j]
      /\ \A j \in DOMAIN hdls' : (IF j = i THEN Len(hdls) ELSE j) \in DOMAIN hdls \ {i}
  BY WithoutIs DEF Removes, Types
<1> QED  BY <1>1 DEF HandlesOf

LEMMA RemovesNoLife ==
    ASSUME Types, NEW i, Removes(i)
    PROVE  NoNewLife
BY RemovesHandles DEF NoNewLife, Live

\* The answer that a drive is locked.
LEMMA SureSays ==
    ASSUME Types, SingleInv, SureInv, NEW r \in Request, Fits(r), SaysLocked(r)
    PROVE  SureInv'
<1>0. r.d \in Drives  BY DEF Request
<1>1. Locked(r)  BY DEF SaysLocked
<1>2. row' = row /\ torn' = torn /\ NoNewLife
  <2>1. CASE Still  BY <2>1, KeepNoLife DEF Still, Calm
  <2>2. ASSUME NEW i \in Position(r.id), Removes(i)  PROVE  row' = row /\ torn' = torn /\ NoNewLife
    BY <2>2, RemovesNoLife DEF Removes
  <2> QED  BY <2>1, <2>2 DEF SaysLocked
<1>3. SureLocked'  BY <1>1, <1>2 DEF SureInv, SureLocked, Locked
<1>4. Whole(r.d) => \A i \in HandlesOf(r.d)' : hdls'[i].th = "ended"
  <2> SUFFICES ASSUME Whole(r.d)  PROVE  HandlesOf(r.d)' = {}
    OBVIOUS
  <2>1. CASE HandlesOf(r.d) = {} /\ Still
    BY <2>1 DEF Still, Calm, HandlesKeep, HandlesOf
  <2>2. ASSUME NEW i \in Position(r.id), Removes(i)  PROVE  HandlesOf(r.d)' = {}
    <3>1. i \in HandlesOf(r.d)  BY <2>2 DEF Position, HandlesOf, Fits
    <3>2. \A l \in HandlesOf(r.d) : l = i  BY <1>0, <3>1 DEF SingleInv, Single
    <3>3. \A j \in HandlesOf(r.d)' : \E l \in HandlesOf(r.d) \ {i} : hdls'[j] = hdls[l]
      BY <2>2, RemovesHandles
    <3> QED  BY <3>2, <3>3
  <2> QED  BY <2>1, <2>2 DEF SaysLocked
<1>5. LockEffective'
  <2> SUFFICES ASSUME NEW d \in sure', d \notin Torn({"second"})', NEW i \in HandlesOf(d)'  PROVE  hdls'[i].th = "ended"
    BY DEF LockEffective, Live
  <2>0. d \notin Torn({"second"}) /\ (d \in Drives => Whole(d))  BY <1>2 DEF Torn, Whole
  <2>1. CASE d = r.d  BY <1>0, <1>2, <1>4, <2>0, <2>1
  <2>2. CASE d # r.d
    <3>1. d \in sure /\ d \notin Torn({"second"})  BY <1>1, <2>0, <2>2 DEF Locked
    <3> QED  BY <1>2, <3>1 DEF SureInv, LockEffective, NoNewLife
  <2> QED  BY <2>1, <2>2
<1> QED  BY <1>3, <1>5 DEF SureInv

-----------------------------------------------------------------------------
(* The requests name handles of their drives.                              *)

IdsFit == \A i, j \in DOMAIN hdls : hdls[i].id = hdls[j].id => hdls[i].d = hdls[j].d
FitInv == IdsFit /\ RequestsFit
FitStays == IdsFit' /\ \A r \in Request : Fits(r) => Fits(r)'

LEMMA KeepFits ==
    ASSUME IdsFit, HandlesKeep, used'.handle = used.handle
    PROVE  FitStays
<1>1. IdsFit'  BY DEF IdsFit, HandlesKeep
<1>2. \A r \in Request : Fits(r) => Fits(r)'  BY DEF Fits, HandlesKeep
<1> QED  BY <1>1, <1>2 DEF FitStays

LEMMA SameFits ==
    ASSUME IdsFit, hdls' = hdls, used'.handle = used.handle
    PROVE  FitStays
BY DEF FitStays, IdsFit, Fits

LEMMA GrowsFits ==
    ASSUME Types, IdsFit, NEW k \in Drives, Grows(k)
    PROVE  FitStays
<1> DEFINE n == Len(hdls) + 1
<1>1. /\ used'.handle = used.handle + 1 /\ Len(hdls) \in Nat
      /\ DOMAIN hdls = 1..Len(hdls) /\ DOMAIN hdls' = 1..n
      /\ hdls'[n].d = k /\ hdls'[n].id = used.handle + 1
      /\ \A i \in DOMAIN hdls : hdls'[i] = hdls[i]
  BY DEF Grows
<1>2. used.handle \in Nat /\ \A i \in DOMAIN hdls : hdls[i].id \in Nat /\ hdls[i].id <= used.handle
  BY BoundsAssumption DEF Types, HandleTypes, CountTypes, Handle, HandleRec
<1>3. \A i \in DOMAIN hdls' : (i \in DOMAIN hdls /\ hdls'[i] = hdls[i]) \/ i = n
  BY <1>1
<1>4. IdsFit'
  <2> SUFFICES ASSUME NEW i \in DOMAIN hdls', NEW j \in DOMAIN hdls', hdls'[i].id = hdls'[j].id
               PROVE  hdls'[i].d = hdls'[j].d
    BY DEF IdsFit
  <2> QED  BY <1>1, <1>2, <1>3 DEF IdsFit
<1>5. ASSUME NEW r \in Request, Fits(r)  PROVE  Fits(r)'
  <2>1. r.id \in Nat /\ r.id <= used.handle  BY <1>5 DEF Fits, Request
  <2>2. r.id <= used'.handle  BY <1>1, <1>2, <2>1
  <2>3. \A i \in DOMAIN hdls' : hdls'[i].id = r.id => hdls'[i].d = r.d
    BY <1>1, <1>2, <1>3, <1>5, <2>1 DEF Fits
  <2> QED  BY <2>2, <2>3 DEF Fits
<1> QED  BY <1>4, <1>5 DEF FitStays

LEMMA RemovesFits ==
    ASSUME Types, IdsFit, NEW i, Removes(i)
    PROVE  FitStays
<1>1. \A j \in DOMAIN hdls' : \E l \in DOMAIN hdls : hdls'[j] = hdls[l]
  BY WithoutIs DEF Removes, Types
<1>2. used'.handle = used.handle  BY DEF Removes
<1>3. IdsFit'  BY <1>1 DEF IdsFit
<1>4. \A r \in Request : Fits(r) => Fits(r)'  BY <1>1, <1>2 DEF Fits
<1> QED  BY <1>3, <1>4 DEF FitStays

LEMMA FitRests ==
    ASSUME Types, FitInv, FitStays, incoming' = incoming, joining' = joining
    PROVE  FitInv'
BY DEF Types, QueueTypes, FitInv, FitStays, RequestsFit

\* The elements of the rest of a queue are elements of the queue.
LEMMA TailIs ==
    ASSUME Types, incoming # <<>>
    PROVE  /\ \A n \in DOMAIN Tail(incoming) : n + 1 \in DOMAIN incoming /\ Tail(incoming)[n] = incoming[n + 1]
           /\ \A n \in DOMAIN incoming : n # 1 => n - 1 \in DOMAIN Tail(incoming) /\ Tail(incoming)[n - 1] = incoming[n]
           /\ Head(incoming) = incoming[1] /\ 1 \in DOMAIN incoming
<1>1. incoming \in Seq(Request) /\ Len(incoming) \in Nat \ {0} /\ DOMAIN incoming = 1..Len(incoming)
  BY DEF Types, QueueTypes
<1>2. DOMAIN Tail(incoming) = 1..Len(incoming) - 1  BY <1>1
<1> QED  BY <1>1, <1>2

LEMMA AppendIs ==
    ASSUME NEW s \in Seq(Request), NEW r \in Request
    PROVE  /\ \A n \in DOMAIN Append(s, r) : (n \in DOMAIN s /\ Append(s, r)[n] = s[n]) \/ Append(s, r)[n] = r
           /\ \A n \in DOMAIN s : n \in DOMAIN Append(s, r) /\ Append(s, r)[n] = s[n]
           /\ \E n \in DOMAIN Append(s, r) : Append(s, r)[n] = r
<1>1. Len(s) \in Nat /\ DOMAIN s = 1..Len(s) /\ DOMAIN Append(s, r) = 1..(Len(s) + 1)  OBVIOUS
<1>2. Append(s, r)[Len(s) + 1] = r /\ \A n \in DOMAIN s : Append(s, r)[n] = s[n]  OBVIOUS
<1> QED  BY <1>1, <1>2

LEMMA FitServes ==
    ASSUME Types, FitInv, FitStays, incoming # <<>>, incoming' = Tail(incoming), joining' = None
    PROVE  FitInv'
<1>1. \A n \in DOMAIN incoming : incoming[n] \in Request  BY DEF Types, QueueTypes
<1>2. (\A n \in DOMAIN incoming : Fits(incoming[n]))'
  <2> SUFFICES ASSUME NEW n \in DOMAIN incoming', NEW r, r = incoming'[n]  PROVE  Fits(r)'
    BY DEF Fits
  <2>1. r \in Request /\ Fits(r)  BY <1>1, TailIs DEF FitInv, RequestsFit
  <2> QED  BY <2>1 DEF FitStays
<1> QED  BY <1>2 DEF FitInv, FitStays, RequestsFit

LEMMA FitStarts ==
    ASSUME Types, FitInv, FitStays, StartsJoin, HandlesKeep, used'.handle = used.handle
    PROVE  FitInv'
<1> DEFINE r == Head(incoming)
<1>1. \A n \in DOMAIN incoming : incoming[n] \in Request  BY DEF Types, QueueTypes
<1>2. (\A n \in DOMAIN incoming : Fits(incoming[n]))'
  <2> SUFFICES ASSUME NEW n \in DOMAIN incoming', NEW x, x = incoming'[n]  PROVE  Fits(x)'
    BY DEF Fits
  <2>1. x \in Request /\ Fits(x)  BY <1>1, TailIs DEF FitInv, RequestsFit, StartsJoin
  <2> QED  BY <2>1 DEF FitStays
<1>3. PICK i \in DOMAIN hdls : hdls[i].id = joining'.id /\ hdls[i].d = r.d  BY DEF StartsJoin
<1>4. hdls[i].d = r.d /\ joining'.d = r.d
  BY <1>3 DEF StartsJoin
<1>5. Fits(joining)'
  <2>1. joining'.id <= used'.handle  BY <1>3 DEF Types, HandleTypes
  <2>2. \A j \in DOMAIN hdls : hdls[j].id = joining'.id => hdls[j].d = joining'.d
    BY <1>3, <1>4 DEF FitInv, IdsFit
  <2>3. \A j \in DOMAIN hdls' : hdls'[j].id = joining'.id => hdls'[j].d = joining'.d
    BY <2>2 DEF HandlesKeep
  <2> QED  BY <2>1, <2>3 DEF Fits
<1> QED  BY <1>2, <1>5 DEF FitInv, FitStays, RequestsFit

LEMMA FitEnds ==
    ASSUME Types, FitInv, FitStays, incoming' = incoming, joining' = None
    PROVE  FitInv'
BY DEF Types, QueueTypes, FitInv, FitStays, RequestsFit

\* A request that fits is added to a queue of such requests.
LEMMA FitAppend ==
    ASSUME FitStays, NEW s \in Seq(Request), NEW r \in Request, Fits(r), \A n \in DOMAIN s : Fits(s[n]),
           incoming' = Append(s, r), joining' = None \/ (joining' = joining /\ joining \in Request \cup {None} /\ RequestsFit)
    PROVE  FitInv'
<1>1. (\A n \in DOMAIN incoming : Fits(incoming[n]))'
  <2> SUFFICES ASSUME NEW n \in DOMAIN incoming', NEW x, x = incoming'[n]  PROVE  Fits(x)'
    BY DEF Fits
  <2>1. (n \in DOMAIN s /\ x = s[n]) \/ x = r  BY AppendIs
  <2>2. x \in Request /\ Fits(x)  BY <2>1
  <2> QED  BY <2>2 DEF FitStays
<1>2. (joining # None => Fits(joining))'
  <2>1. CASE joining' = None  BY <2>1
  <2>2. CASE joining' = joining /\ joining' # None
    <3>1. joining \in Request /\ Fits(joining)  BY <2>2 DEF RequestsFit
    <3>2. PICK x : x = joining  OBVIOUS
    <3>3. Fits(x)'  BY <3>1, <3>2 DEF FitStays
    <3> QED  BY <2>2, <3>2, <3>3 DEF Fits
  <2> QED  BY <2>1, <2>2
<1> QED  BY <1>1, <1>2 DEF FitInv, FitStays, RequestsFit

LEMMA FitPutsBack ==
    ASSUME Types, FitInv, FitStays, PutsBack
    PROVE  FitInv'
<1>1. joining \in Request /\ Fits(joining) /\ incoming \in Seq(Request)
  BY DEF PutsBack, FitInv, RequestsFit, Types, QueueTypes
<1>2. \A n \in DOMAIN incoming : Fits(incoming[n])  BY DEF FitInv, RequestsFit
<1> QED  BY <1>1, <1>2, FitAppend DEF PutsBack

LEMMA FitTurns ==
    ASSUME Types, FitInv, FitStays, Turns
    PROVE  FitInv'
<1> DEFINE s == Tail(incoming)
<1>1. s \in Seq(Request) /\ Head(incoming) \in Request  BY HeadIs DEF Turns
<1>2. \A n \in DOMAIN s : Fits(s[n])
  <2> SUFFICES ASSUME NEW n \in DOMAIN s  PROVE  Fits(s[n])
    OBVIOUS
  <2>1. n + 1 \in DOMAIN incoming /\ s[n] = incoming[n + 1]  BY TailIs DEF Turns
  <2> QED  BY <2>1 DEF FitInv, RequestsFit
<1>3. Fits(Head(incoming))  BY TailIs DEF Turns, FitInv, RequestsFit
<1> QED  BY <1>1, <1>2, <1>3, FitAppend DEF Turns

LEMMA FitAsks ==
    ASSUME Types, FitInv, FitStays, NEW a, Asks(a)
    PROVE  FitInv'
<1>1. PICK r \in Request : incoming' = Append(incoming, r) /\ r.id = 0  BY DEF Asks
<1>2. Fits(r)
  <2>1. used.handle \in Nat /\ \A i \in DOMAIN hdls : hdls[i].id \in 1..MaxHandle
    BY BoundsAssumption DEF Types, HandleTypes, CountTypes, Handle, HandleRec
  <2> QED  BY <1>1, <2>1 DEF Fits
<1>3. \A n \in DOMAIN incoming : Fits(incoming[n])  BY DEF FitInv, RequestsFit
<1>4. incoming \in Seq(Request) /\ joining \in Request \cup {None} /\ joining' = joining /\ RequestsFit
  BY DEF Types, QueueTypes, Asks, FitInv
<1> QED  BY <1>1, <1>2, <1>3, <1>4, FitAppend

LEMMA FitDies ==
    ASSUME Dies
    PROVE  FitInv'
BY DEF Dies, FitInv, IdsFit, RequestsFit

-----------------------------------------------------------------------------
(* A command that waits has its request on its way.                        *)

PendingInv == \A a \in Admins : Waits(a) => Pending(a)

LEMMA PendingRests ==
    ASSUME PendingInv, QueueRests
    PROVE  PendingInv'
<1> SUFFICES ASSUME NEW a \in Admins, op'[a].pc = "wait", op'[a].resp = "none"
             PROVE  Pending(a)'
  BY DEF PendingInv, Waits, At
<1>1. Pending(a) /\ incoming' = incoming /\ joining' = joining /\ AddRests  BY DEF PendingInv, QueueRests
<1>2. ASSUME adding # None, adding.req # None  PROVE  adding' # None /\ adding'.req = adding.req
  BY <1>1, <1>2 DEF AddRests
<1> QED  BY <1>1, <1>2 DEF Pending

LEMMA PendingDies ==
    ASSUME Dies
    PROVE  PendingInv'
BY DEF PendingInv, Dies, Waits, At

LEMMA PendingServes ==
    ASSUME Types, PendingInv, Serves
    PROVE  PendingInv'
<1> SUFFICES ASSUME NEW a \in Admins, op'[a].pc = "wait", op'[a].resp = "none"
             PROVE  \E n \in DOMAIN incoming' : incoming'[n].by = a /\ incoming'[n].wait
  BY DEF PendingInv, Waits, At, Pending
<1>1. Waits(a) /\ ~(Head(incoming).by = a /\ Head(incoming).wait)  BY DEF Serves, Replied
<1>2. PICK n \in DOMAIN incoming : incoming[n].by = a /\ incoming[n].wait
  BY <1>1 DEF PendingInv, Pending, Serves
<1>3. n # 1  BY <1>1, <1>2, TailIs DEF Serves
<1>4. n - 1 \in DOMAIN Tail(incoming) /\ Tail(incoming)[n - 1] = incoming[n]  BY <1>2, <1>3, TailIs DEF Serves
<1> QED  BY <1>2, <1>4 DEF Serves

\* The request whose drive the scheduler begins to take is with it.
LEMMA PendingStartsAdd ==
    ASSUME Types, PendingInv, StartsAdd
    PROVE  PendingInv'
<1> SUFFICES ASSUME NEW a \in Admins, op'[a].pc = "wait", op'[a].resp = "none"
             PROVE  Pending(a)'
  BY DEF PendingInv, Waits, At
<1>1. Waits(a) /\ incoming # <<>>  BY DEF StartsAdd, Waits, At
<1>2. PICK n \in DOMAIN incoming : incoming[n].by = a /\ incoming[n].wait
  BY <1>1 DEF PendingInv, Pending, StartsAdd
<1>3. CASE n = 1
  <2>1. Head(incoming).by = a /\ Head(incoming).wait  BY <1>1, <1>2, <1>3, TailIs
  <2>2. Head(incoming) # None  BY <1>1, HeadIs, NamesAssumption
  <2>3. adding' # None /\ adding'.req = Head(incoming)  BY DEF StartsAdd
  <2> QED  BY <2>1, <2>2, <2>3 DEF Pending
<1>4. CASE n # 1
  <2>1. n - 1 \in DOMAIN Tail(incoming) /\ Tail(incoming)[n - 1] = incoming[n]
    BY <1>1, <1>2, <1>4, TailIs
  <2> QED  BY <1>2, <2>1 DEF Pending, StartsAdd
<1> QED  BY <1>3, <1>4

LEMMA PendingEndsAdd ==
    ASSUME PendingInv, EndsAdd
    PROVE  PendingInv'
<1> SUFFICES ASSUME NEW a \in Admins, op'[a].pc = "wait", op'[a].resp = "none"
             PROVE  Pending(a)'
  BY DEF PendingInv, Waits, At
<1>1. Waits(a) /\ ~(adding.req.by = a /\ adding.req.wait)  BY DEF EndsAdd, Replied
<1>2. Pending(a)  BY <1>1 DEF PendingInv
<1> QED  BY <1>1, <1>2 DEF Pending, EndsAdd

LEMMA PendingStarts ==
    ASSUME Types, PendingInv, StartsJoin
    PROVE  PendingInv'
<1> SUFFICES ASSUME NEW a \in Admins, op'[a].pc = "wait", op'[a].resp = "none"
             PROVE  Pending(a)'
  BY DEF PendingInv, Waits, At
<1>1. Waits(a)  BY DEF StartsJoin, Waits, At
<1>2. PICK n \in DOMAIN incoming : incoming[n].by = a /\ incoming[n].wait
  BY <1>1 DEF PendingInv, Pending, StartsJoin
<1>3. CASE n = 1
  <2>1. Head(incoming).by = a /\ Head(incoming).wait  BY <1>2, <1>3, TailIs DEF StartsJoin
  <2>2. joining' # None  BY NamesAssumption DEF StartsJoin
  <2> QED  BY <2>1, <2>2 DEF Pending, StartsJoin
<1>4. CASE n # 1
  <2>1. n - 1 \in DOMAIN Tail(incoming) /\ Tail(incoming)[n - 1] = incoming[n]
    BY <1>2, <1>4, TailIs DEF StartsJoin
  <2> QED  BY <1>2, <2>1 DEF Pending, StartsJoin
<1> QED  BY <1>3, <1>4

LEMMA PendingEnds ==
    ASSUME Types, PendingInv, EndsJoin
    PROVE  PendingInv'
<1> SUFFICES ASSUME NEW a \in Admins, op'[a].pc = "wait", op'[a].resp = "none"
             PROVE  Pending(a)'
  BY DEF PendingInv, Waits, At
<1>1. Waits(a) /\ ~(joining.by = a /\ joining.wait)  BY DEF EndsJoin, Replied
<1>2. Pending(a)  BY <1>1 DEF PendingInv
<1> QED  BY <1>1, <1>2 DEF Pending, EndsJoin

\* What is appended to a queue, and what was in it, is in it.
LEMMA PendingAppend ==
    ASSUME NEW s \in Seq(Request), NEW r \in Request, NEW a, incoming' = Append(s, r),
           (r.by = a /\ r.wait) \/ \E n \in DOMAIN s : s[n].by = a /\ s[n].wait
    PROVE  Pending(a)'
BY AppendIs DEF Pending

LEMMA PendingPutsBack ==
    ASSUME Types, PendingInv, PutsBack
    PROVE  PendingInv'
<1> SUFFICES ASSUME NEW a \in Admins, op'[a].pc = "wait", op'[a].resp = "none"
             PROVE  Pending(a)'
  BY DEF PendingInv, Waits, At
<1>1. Pending(a)  BY DEF PutsBack, Waits, At, PendingInv
<1>2. joining \in Request /\ incoming \in Seq(Request) /\ adding' = adding /\ incoming' = Append(incoming, joining)
  BY DEF PutsBack, Types, QueueTypes
<1>3. CASE adding # None /\ adding.req # None /\ adding.req.by = a /\ adding.req.wait  BY <1>2, <1>3 DEF Pending
<1>4. CASE (joining.by = a /\ joining.wait) \/ \E n \in DOMAIN incoming : incoming[n].by = a /\ incoming[n].wait
  BY <1>2, <1>4, PendingAppend
<1> QED  BY <1>1, <1>3, <1>4 DEF Pending

LEMMA PendingTurns ==
    ASSUME Types, PendingInv, Turns
    PROVE  PendingInv'
<1> SUFFICES ASSUME NEW a \in Admins, op'[a].pc = "wait", op'[a].resp = "none"
             PROVE  Pending(a)'
  BY DEF PendingInv, Waits, At
<1>1. Waits(a)  BY DEF Turns, Waits, At
<1>2. PICK n \in DOMAIN incoming : incoming[n].by = a /\ incoming[n].wait
  BY <1>1 DEF PendingInv, Pending, Turns
<1>3. Head(incoming) \in Request /\ Tail(incoming) \in Seq(Request)  BY HeadIs DEF Turns
<1>4. \/ Head(incoming).by = a /\ Head(incoming).wait
      \/ \E m \in DOMAIN Tail(incoming) : Tail(incoming)[m].by = a /\ Tail(incoming)[m].wait
  <2>1. CASE n = 1  BY <1>2, <2>1, TailIs DEF Turns
  <2>2. CASE n # 1
    <3>1. n - 1 \in DOMAIN Tail(incoming) /\ Tail(incoming)[n - 1] = incoming[n]
      BY <1>2, <2>2, TailIs DEF Turns
    <3> QED  BY <1>2, <3>1
  <2> QED  BY <2>1, <2>2
<1> QED  BY <1>3, <1>4, PendingAppend DEF Turns

LEMMA PendingAsks ==
    ASSUME Types, PendingInv, NEW a, Asks(a)
    PROVE  PendingInv'
<1> SUFFICES ASSUME NEW b \in Admins, op'[b].pc = "wait", op'[b].resp = "none"
             PROVE  Pending(b)'
  BY DEF PendingInv, Waits, At
<1>1. PICK r \in Request : incoming' = Append(incoming, r) /\ r.by = a /\ (Waits(b) \/ (b = a /\ r.wait))
  BY DEF Asks
<1>2. incoming \in Seq(Request) /\ joining' = joining /\ adding' = adding  BY DEF Types, QueueTypes, Asks
<1>3. CASE b = a /\ r.wait  BY <1>1, <1>2, <1>3, PendingAppend
<1>4. CASE Waits(b)
  <2>1. Pending(b)  BY <1>4 DEF PendingInv
  <2>2. CASE \E n \in DOMAIN incoming : incoming[n].by = b /\ incoming[n].wait
    BY <1>1, <1>2, <2>2, PendingAppend
  <2>3. CASE joining # None /\ joining.by = b /\ joining.wait  BY <1>2, <2>3 DEF Pending
  <2>4. CASE adding # None /\ adding.req # None /\ adding.req.by = b /\ adding.req.wait  BY <1>2, <2>4 DEF Pending
  <2> QED  BY <2>1, <2>2, <2>3, <2>4 DEF Pending
<1> QED  BY <1>1, <1>3, <1>4

-----------------------------------------------------------------------------
(* What the scheduler is adding.                                           *)

\* It waits for no thread meanwhile, takes no drive whose lock was answered,
\* and at the start of the LRS does it for no request.
AddInv ==
    adding # None => /\ joining = None /\ adding.todo \cap sure = {}
                     /\ lrs.st = "init" => adding.req = None

LEMMA AddStays ==
    ASSUME AddInv, AddRests, joining' = joining, sure' \subseteq sure, lrs'.st = "init" => lrs.st = "init"
    PROVE  AddInv'
<1> SUFFICES ASSUME adding' # None
             PROVE  joining' = None /\ adding'.todo \cap sure' = {} /\ (lrs'.st = "init" => adding'.req = None)
  BY DEF AddInv
<1>1. adding # None /\ adding'.req = adding.req /\ adding'.todo \subseteq adding.todo  BY DEF AddRests
<1> QED  BY <1>1 DEF AddInv

LEMMA AddNone ==
    ASSUME adding' = None
    PROVE  AddInv'
BY DEF AddInv

\* A drive whose lock was answered is not usable.
LEMMA UsableNotSure ==
    ASSUME SureInv, NEW d, Usable(d)
    PROVE  d \notin sure
BY DEF SureInv, SureLocked, Usable

-----------------------------------------------------------------------------
(* The inductive invariant.                                                *)

AdminInv == Types /\ DrivesFine /\ SingleInv /\ SureInv /\ FitInv /\ PendingInv /\ AddInv

LEMMA AdminInit ==
    ASSUME Init
    PROVE  AdminInv
<1>1. PICK f \in First : row = f.row /\ tlock = f.tlock  BY DEF Init
<1>2. /\ lock = [d \in Drives |-> NoLock] /\ in = FirstIn /\ lrs = [st |-> "down", pid |-> 0]
      /\ hdls = <<>> /\ adding = None /\ joining = None /\ incoming = <<>> /\ op = [a \in Admins |-> NoCommand]
      /\ used = [command |-> 0, handle |-> 0, work |-> 0, fault |-> 0, stop |-> 0]
      /\ sure = {} /\ torn = {}
  BY DEF Init
<1>3. OpTypes  BY <1>2, NoCommandIs DEF OpTypes
<1>4. RowTypes /\ InTypes  BY <1>1, <1>2, FirstAssumption DEF RowTypes, InTypes
<1>5. LockTypes  BY <1>2 DEF LockTypes
<1>6. TapeTypes
  <2>1. f.tlock \in [Tapes -> LockRow \cup {NoLock}] /\ \A t \in Tapes : f.tlock[t] # NoLock => f.tlock[t].host = Away
    BY FirstAssumption
  <2>2. \A t \in Tapes : f.tlock[t] \in TapeLock(lrs.pid) \cup {NoLock}  BY <2>1 DEF TapeLock
  <2> QED  BY <1>1, <2>1, <2>2 DEF TapeTypes
<1>7. LrsTypes  BY <1>2, BoundsAssumption DEF LrsTypes
<1>8. HandleTypes /\ QueueTypes /\ MarkTypes
  BY <1>2, BoundsAssumption DEF HandleTypes, CountTypes, QueueTypes, MarkTypes
<1>9. DrivesFine
  <2> SUFFICES ASSUME NEW d \in Drives  PROVE  Fine(d)
    BY DEF DrivesFine
  <2>1. HandlesOf(d) = {} /\ lock[d] = NoLock /\ \A a \in Admins : ~InSection(a)
    BY <1>2, NoCommandIs DEF HandlesOf, InSection
  <2>2. ~Working(d) /\ \A a \in Admins : ~On(a, d)  BY <2>1 DEF Working, On
  <2> QED  BY <2>1, <2>2 DEF Fine, Held, Owned, LockKept
<1>10. SureInv /\ SingleInv
  BY <1>2 DEF SureInv, SureLocked, LockEffective, SingleInv, Single, HandlesOf
<1>11. FitInv  BY <1>2 DEF FitInv, IdsFit, RequestsFit
<1>12. PendingInv /\ AddInv  BY <1>2, NoCommandIs DEF PendingInv, Waits, At, AddInv
<1> QED  BY <1>3, <1>4, <1>5, <1>6, <1>7, <1>8, <1>9, <1>10, <1>11, <1>12 DEF AdminInv, Types

LEMMA InvGoes ==
    ASSUME AdminInv, Types', Goes
    PROVE  AdminInv'
<1>1. Types /\ DrivesFine /\ SingleInv /\ SureInv /\ FitInv /\ PendingInv /\ AddInv  BY DEF AdminInv
<1>2. Calm /\ QueueRests /\ SureKeeps /\ used'.handle = used.handle /\ HandlesKeep /\ torn \subseteq torn'
  BY DEF Goes, Calm
<1>3. DrivesFine' /\ SingleInv'  BY <1>1, <1>2, FineCalm, SingleKeep
<1>4. SureInv'  BY <1>1, <1>2, SureStep, KeepNoLife
<1>5. FitStays  BY <1>1, <1>2, KeepFits DEF FitInv
<1>6. FitInv'  BY <1>1, <1>2, <1>5, FitRests DEF QueueRests
<1>7. PendingInv'  BY <1>1, <1>2, PendingRests
<1>8. AddInv'
  <2>1. sure' \subseteq sure /\ AddRests /\ joining' = joining /\ (lrs'.st = "init" => lrs.st = "init")
    BY <1>2 DEF SureKeeps, QueueRests, Calm
  <2> QED  BY <1>1, <2>1, AddStays
<1> QED  BY <1>3, <1>4, <1>6, <1>7, <1>8 DEF AdminInv

\* The steps of a thread and of the LRS that leave the requests alone.
LEMMA RestsGoes ==
    ASSUME Rests
    PROVE  Goes
BY SureStays DEF Rests, Still, Goes

LEMMA CalmThreadGoes ==
    ASSUME Types, Calm, UNCHANGED <<adding, joining, incoming, op, sure>>, used'.handle = used.handle,
           \A e \in Drives : row'[e].adm = row[e].adm \/ row'[e].adm = "failed"
    PROVE  Goes
<1>1. QueueRests  BY SameQueue DEF AddRests
<1>2. SureKeeps  BY DEF SureKeeps, Types, MarkTypes
<1> QED  BY <1>1, <1>2 DEF Goes

LEMMA InvDies ==
    ASSUME AdminInv, Types', Dies
    PROVE  AdminInv'
<1>1. Types /\ DrivesFine /\ SingleInv /\ SureInv  BY DEF AdminInv
<1>2. DrivesFine' /\ SingleInv'  BY <1>1, FineDies, SingleKeep DEF Dies
<1>3. SureKeeps /\ NoNewLife /\ torn \subseteq torn'  BY SureStays, SameNoLife DEF Dies
<1>4. SureInv'  BY <1>1, <1>3, SureStep
<1>5. FitInv' /\ PendingInv' /\ AddInv'  BY FitDies, PendingDies, AddNone DEF Dies
<1> QED  BY <1>2, <1>4, <1>5 DEF AdminInv

\* What a step does to the handles and the drives, whatever it does to the requests.
Drifts(r) == (sure' = sure /\ Still) \/ SaysLocked(r)

DrivesStay == DrivesFine' /\ SingleInv'

LEMMA InvStill ==
    ASSUME AdminInv, Still
    PROVE  DrivesStay /\ FitStays /\ NoNewLife /\ torn' = torn /\ row' = row /\ (sure' = sure => SureInv')
<1>1. Types /\ DrivesFine /\ SingleInv /\ SureInv /\ IdsFit  BY DEF AdminInv, FitInv
<1>2. DrivesStay /\ FitStays /\ NoNewLife /\ torn' = torn /\ row' = row
  BY <1>1, FineCalm, SingleKeep, KeepFits, KeepNoLife DEF Still, Calm, DrivesStay
<1> QED  BY <1>1, <1>2, SureStep, SureStays

LEMMA InvRemoves ==
    ASSUME AdminInv, NEW i, Removes(i)
    PROVE  DrivesStay /\ FitStays /\ NoNewLife /\ (sure' = sure => SureInv')
<1>1. Types /\ DrivesFine /\ SingleInv /\ SureInv /\ IdsFit  BY DEF AdminInv, FitInv
<1>2. DrivesStay /\ FitStays /\ NoNewLife
  BY <1>1, FineRemoves, SingleRemoves, RemovesFits, RemovesNoLife DEF DrivesStay
<1> QED  BY <1>1, <1>2, SureStep, SureStays DEF Removes

LEMMA InvDrifts ==
    ASSUME AdminInv, NEW r \in Request, Fits(r), Drifts(r)
    PROVE  DrivesStay /\ SureInv' /\ FitStays
<1>1. Types /\ SingleInv /\ SureInv  BY DEF AdminInv
<1>2. ASSUME SaysLocked(r)  PROVE  DrivesStay /\ SureInv' /\ FitStays
  <2>1. SureInv'  BY <1>1, <1>2, SureSays
  <2>2. ASSUME NEW i \in Position(r.id), Removes(i)  PROVE  DrivesStay /\ FitStays
    BY <2>2, InvRemoves
  <2> QED  BY <1>2, <2>1, <2>2, InvStill DEF SaysLocked
<1> QED  BY <1>2, InvStill DEF Drifts

LEMMA InvServes ==
    ASSUME AdminInv, Types', Serves, Drifts(Head(incoming))
    PROVE  AdminInv'
<1>1. Types /\ PendingInv /\ FitInv /\ incoming # <<>>  BY DEF AdminInv, Serves
<1>2. Head(incoming) \in Request /\ Fits(Head(incoming))
  BY <1>1, HeadIs, TailIs DEF FitInv, RequestsFit
<1>3. DrivesStay /\ SureInv' /\ FitStays  BY <1>2, InvDrifts
<1>4. FitInv'  BY <1>1, <1>3, FitServes DEF Serves
<1>5. PendingInv' /\ AddInv'  BY <1>1, PendingServes, AddNone DEF Serves
<1> QED  BY <1>3, <1>4, <1>5 DEF AdminInv, DrivesStay

LEMMA InvNotified ==
    ASSUME AdminInv, Notified
    PROVE  AdminInv'
<1> DEFINE r == Head(incoming)
<1>1. Types' /\ incoming # <<>> /\ lrs.st # "down" /\ Handles(r) /\ Types /\ FitInv /\ PendingInv
  BY NotifiedEffect DEF AdminInv
<1>2. r \in Request /\ Fits(r)  BY <1>1, HeadIs, TailIs DEF FitInv, RequestsFit
<1> HIDE DEF r
<1>3. ASSUME Serves, Drifts(r)  PROVE  AdminInv'  BY <1>1, <1>3, InvServes DEF r
<1>4. ASSUME sure' = sure, Still, StartsJoin \/ Turns \/ StartsAdd  PROVE  AdminInv'
  <2>1. DrivesStay /\ SureInv' /\ FitStays  BY <1>1, <1>2, <1>4, InvDrifts DEF Drifts
  <2>2. FitInv'
    <3>1. ASSUME StartsAdd  PROVE  FitInv'  BY <1>1, <2>1, <3>1, FitServes DEF StartsAdd
    <3> QED  BY <1>1, <1>4, <2>1, <3>1, FitStarts, FitTurns DEF Still, Calm
  <2>3. PendingInv'  BY <1>1, <1>4, PendingStarts, PendingTurns, PendingStartsAdd
  <2>4. AddInv'
    <3>1. ASSUME StartsAdd  PROVE  AddInv'
      <4>1. Head(incoming).d \notin sure'  BY <1>4, <3>1, UsableNotSure DEF AdminInv, StartsAdd
      <4> QED  BY <3>1, <4>1 DEF StartsAdd, AddInv
    <3> QED  BY <1>4, <3>1, AddNone DEF StartsJoin, Turns
  <2> QED  BY <1>1, <2>1, <2>2, <2>3, <2>4 DEF AdminInv, DrivesStay
<1>5. ASSUME Dies  PROVE  AdminInv'  BY <1>1, <1>5, InvDies
<1> QED  BY <1>1, <1>3, <1>4, <1>5 DEF Handles, Drifts

LEMMA InvJoin ==
    ASSUME AdminInv, Join
    PROVE  AdminInv'
<1> DEFINE r == joining
<1>1. Types' /\ r \in Request /\ Joins /\ Types /\ FitInv /\ PendingInv  BY JoinEffect DEF AdminInv
<1>2. Fits(r)  BY <1>1, NamesAssumption DEF FitInv, RequestsFit
<1>3. adding = None  BY DEF AdminInv, AddInv, Join
<1>4. Drifts(r) /\ (EndsJoin \/ PutsBack)  BY <1>1 DEF Joins, Drifts
<1>5. DrivesStay /\ SureInv' /\ FitStays  BY <1>1, <1>2, <1>4, InvDrifts
<1>6. FitInv'  BY <1>1, <1>4, <1>5, FitEnds, FitPutsBack DEF EndsJoin
<1>7. PendingInv' /\ AddInv'  BY <1>1, <1>3, <1>4, PendingEnds, PendingPutsBack, AddNone DEF EndsJoin, PutsBack
<1> QED  BY <1>1, <1>5, <1>6, <1>7 DEF AdminInv, DrivesStay

\* A step that leaves the handles and the requests alone.
LEMMA InvSame ==
    ASSUME AdminInv, Types', DrivesFine', QueueRests, SureKeeps, hdls' = hdls, used'.handle = used.handle,
           torn \subseteq torn', lrs'.st = "init" => lrs.st = "init"
    PROVE  AdminInv'
<1>1. Types /\ SingleInv /\ SureInv /\ FitInv /\ IdsFit /\ PendingInv /\ AddInv  BY DEF AdminInv, FitInv
<1>2. SureInv'  BY <1>1, SureStep, SameNoLife
<1>3. FitStays  BY <1>1, SameFits
<1>4. FitInv'  BY <1>1, <1>3, FitRests DEF QueueRests
<1>5. PendingInv'  BY <1>1, PendingRests
<1>6. SingleInv'  BY <1>1, SingleKeep
<1>7. AddInv'
  <2>1. sure' \subseteq sure /\ AddRests /\ joining' = joining  BY DEF SureKeeps, QueueRests
  <2> QED  BY <1>1, <2>1, AddStays
<1> QED  BY <1>2, <1>4, <1>5, <1>6, <1>7 DEF AdminInv

LEMMA InvThread ==
    ASSUME AdminInv, NEW i \in DOMAIN hdls, Thread(i)
    PROVE  AdminInv'
<1>0. Types  BY DEF AdminInv
<1>1. ASSUME ThreadWorks(i)  PROVE  AdminInv'
  <2>1. Types' /\ Calm  BY <1>0, <1>1, ThreadWorksEffect
  <2>2. CountTypes' /\ used'.handle = used.handle  BY <1>0, <1>1, CountIs DEF ThreadWorks, Types, HandleTypes
  <2>3. Goes  BY <1>0, <1>1, <2>1, <2>2, CalmThreadGoes DEF ThreadWorks
  <2> QED  BY <2>1, <2>3, InvGoes
<1>2. ASSUME ThreadDone(i)  PROVE  AdminInv'
  <2>1. Types' /\ Calm  BY <1>0, <1>2, ThreadDoneEffect
  <2>2. Goes  BY <1>0, <1>2, <2>1, CalmThreadGoes DEF ThreadDone, dss
  <2> QED  BY <2>1, <2>2, InvGoes
<1>3. ASSUME ThreadFails(i)  PROVE  AdminInv'
  <2>1. Types' /\ Calm  BY <1>0, <1>3, ThreadFailsEffect
  <2>2. CountTypes' /\ used'.handle = used.handle  BY <1>0, <1>3, CountIs DEF ThreadFails, Fault, Types, HandleTypes
  <2>3. Goes  BY <1>0, <1>3, <2>1, <2>2, CalmThreadGoes DEF ThreadFails
  <2> QED  BY <2>1, <2>3, InvGoes
<1>4. ASSUME ThreadStops(i)  PROVE  AdminInv'
  <2>1. Types' /\ Calm  BY <1>0, <1>4, ThreadStopsEffect
  <2>2. Goes  BY <1>0, <1>4, <2>1, CalmThreadGoes DEF ThreadStops
  <2> QED  BY <2>1, <2>2, InvGoes
<1>5. ASSUME ThreadSetsFailed(i)  PROVE  AdminInv'
  <2>1. Types' /\ Calm /\ \A e \in Drives : row'[e].adm = row[e].adm \/ row'[e].adm = "failed"
    BY <1>0, <1>5, ThreadSetsFailedEffect
  <2>2. Goes  BY <1>0, <1>5, <2>1, CalmThreadGoes DEF ThreadSetsFailed
  <2> QED  BY <2>1, <2>2, InvGoes
<1>6. ASSUME ThreadReleases(i)  PROVE  AdminInv'
  <2>1. Types' /\ HandlesKeep  BY <1>0, <1>6, ThreadReleasesEffect
  <2>2. UNCHANGED <<row, lrs, adding, joining, incoming, op, used, sure, torn>>  BY <1>6 DEF ThreadReleases
  <2>3. SureInv /\ FitInv /\ IdsFit /\ PendingInv /\ SingleInv /\ DrivesFine /\ AddInv  BY DEF AdminInv, FitInv
  <2>4. DrivesFine' /\ SingleInv'  BY <1>0, <1>6, <2>1, <2>2, <2>3, FineReleases, SingleKeep
  <2>5. SureInv'  BY <2>1, <2>2, <2>3, SureStep, SureStays, KeepNoLife
  <2>6. FitInv'  BY <1>0, <2>1, <2>2, <2>3, KeepFits, FitRests
  <2>7. AddRests  BY <2>2 DEF AddRests
  <2>8. PendingInv' /\ AddInv'  BY <2>2, <2>3, <2>7, PendingRests, SameQueue, AddStays
  <2> QED  BY <2>1, <2>4, <2>5, <2>6, <2>8 DEF AdminInv
<1> QED  BY <1>1, <1>2, <1>3, <1>4, <1>5, <1>6 DEF Thread

LEMMA InvCleans ==
    ASSUME AdminInv, Types', Cleans
    PROVE  AdminInv'
<1>1. DrivesFine'  BY FineCleans DEF AdminInv
<1>2. hdls' = hdls /\ used'.handle = used.handle /\ QueueRests /\ SureKeeps /\ torn \subseteq torn'
      /\ (lrs'.st = "init" => lrs.st = "init")
  BY SureStays DEF Cleans
<1> QED  BY <1>1, <1>2, InvSame

LEMMA InvTake ==
    ASSUME AdminInv, NEW d \in Drives, Own(d)
    PROVE  AdminInv'
<1>1. Types /\ SingleInv /\ SureInv /\ FitInv /\ IdsFit /\ PendingInv /\ DrivesFine /\ AddInv
  BY DEF AdminInv, FitInv
<1>2. Types' /\ QueueRests /\ (Takes(d) \/ Misses(d))  BY <1>1, OwnEffect
<1>3. Grows(d) /\ UNCHANGED <<row, lrs, sure>> /\ torn \subseteq torn'  BY <1>2 DEF Takes, Misses, Grows
<1>4. d \notin sure /\ lrs.st # "down"  BY <1>1 DEF Own, AddInv, Types, LrsTypes
<1>5. DrivesFine' /\ SingleInv' /\ FitStays /\ NoNewLife
  BY <1>1, <1>2, <1>3, <1>4, FineGrows, SingleGrows, GrowsFits, GrowsNoLife
<1>6. SureInv'  BY <1>1, <1>3, <1>5, SureStep, SureStays
<1>7. FitInv' /\ PendingInv'  BY <1>1, <1>2, <1>5, FitRests, PendingRests DEF QueueRests
<1>8. AddInv'
  <2>1. sure' \subseteq sure /\ AddRests /\ joining' = joining /\ (lrs'.st = "init" => lrs.st = "init")
    BY <1>2, <1>3 DEF QueueRests
  <2> QED  BY <1>1, <2>1, AddStays
<1> QED  BY <1>2, <1>5, <1>6, <1>7, <1>8 DEF AdminInv

\* The requests, when what the scheduler is adding goes on or is answered.
LEMMA AddGoesOn ==
    ASSUME AdminInv, FitStays, sure' = sure, QueueRests \/ EndsAdd, lrs'.st = "init" => lrs.st = "init"
    PROVE  FitInv' /\ PendingInv' /\ AddInv'
<1>1. Types /\ FitInv /\ PendingInv /\ AddInv  BY DEF AdminInv
<1>2. CASE QueueRests
  <2>1. sure' \subseteq sure /\ AddRests /\ joining' = joining /\ incoming' = incoming  BY <1>2 DEF QueueRests
  <2> QED  BY <1>1, <1>2, <2>1, FitRests, PendingRests, AddStays
<1>3. CASE EndsAdd
  <2>1. joining' = joining /\ incoming' = incoming /\ adding' = None  BY <1>3 DEF EndsAdd
  <2> QED  BY <1>1, <1>3, <2>1, FitRests, PendingEndsAdd, AddNone
<1> QED  BY <1>2, <1>3

LEMMA InvFill ==
    ASSUME AdminInv, NEW i \in DOMAIN hdls, Fill(i)
    PROVE  AdminInv'
<1>1. Types' /\ Still /\ sure' = sure /\ (QueueRests \/ EndsAdd)  BY FillEffect DEF AdminInv
<1>2. DrivesStay /\ FitStays /\ SureInv'  BY <1>1, InvStill
<1>3. lrs'.st = "init" => lrs.st = "init"  BY <1>1 DEF Still, Calm
<1>4. FitInv' /\ PendingInv' /\ AddInv'  BY <1>1, <1>2, <1>3, AddGoesOn
<1> QED  BY <1>1, <1>2, <1>4 DEF AdminInv, DrivesStay

LEMMA InvDeleted ==
    ASSUME AdminInv, Deleted
    PROVE  AdminInv'
<1>1. /\ Types' /\ sure' = sure /\ (QueueRests \/ EndsAdd) /\ \E i \in DOMAIN hdls : Removes(i)
  BY DeletedEffect DEF AdminInv
<1>2. DrivesStay /\ FitStays /\ SureInv' /\ lrs' = lrs  BY <1>1, InvRemoves DEF Removes
<1>3. FitInv' /\ PendingInv' /\ AddInv'  BY <1>1, <1>2, AddGoesOn
<1> QED  BY <1>1, <1>2, <1>3 DEF AdminInv, DrivesStay

LEMMA InvLrs ==
    ASSUME AdminInv, Lrs
    PROVE  AdminInv'
<1>0. Types  BY DEF AdminInv
<1>1. ASSUME Notified  PROVE  AdminInv'  BY <1>1, InvNotified
<1>2. ASSUME Join  PROVE  AdminInv'  BY <1>2, InvJoin
<1>3. ASSUME StopLrs  PROVE  AdminInv'  BY <1>0, <1>3, StopLrsEffect, RestsGoes, InvGoes
<1>4. ASSUME Refused  PROVE  AdminInv'
  <2>1. Types' /\ Serves /\ Drifts(Head(incoming))  BY <1>0, <1>4, RefusedEffect DEF Drifts
  <2> QED  BY <2>1, InvServes
<1>5. ASSUME StopThreads  PROVE  AdminInv'  BY <1>0, <1>5, StopThreadsEffect, RestsGoes, InvGoes
<1>6. ASSUME LrsEnds  PROVE  AdminInv'  BY <1>0, <1>6, LrsEndsEffect, InvDies
<1>7. ASSUME CrashLrs  PROVE  AdminInv'  BY <1>0, <1>7, CrashLrsEffect, InvDies
<1>8. ASSUME StartLrs  PROVE  AdminInv'
  <2>1. Types' /\ Starts  BY <1>0, <1>8, StartLrsEffect
  <2>2. SingleInv /\ SureInv /\ FitInv /\ IdsFit /\ PendingInv /\ DrivesFine  BY DEF AdminInv, FitInv
  <2>3. DrivesFine'  BY <1>0, <2>1, <2>2, FineStarts
  <2>4. /\ hdls' = hdls /\ used'.handle = used.handle /\ SureKeeps /\ torn \subseteq torn'
        /\ UNCHANGED <<op, incoming, joining, sure>> /\ adding = None /\ joining = None
    BY <2>1, SureStays DEF Starts
  <2>5. SingleInv' /\ SureInv'  BY <2>2, <2>4, SingleKeep, SureStep, SameNoLife
  <2>6. FitInv'  BY <1>0, <2>2, <2>4, SameFits, FitRests
  <2>7. PendingInv'  BY <2>2, <2>4 DEF PendingInv, Pending, Waits, At
  <2>8. AddInv'
    <3>1. \A d \in adding'.todo : d \notin sure'  BY <2>1, <2>2, <2>4, UsableNotSure DEF Starts
    <3> QED  BY <2>1, <2>4, <3>1 DEF AddInv, Starts
  <2> QED  BY <2>1, <2>3, <2>5, <2>6, <2>7, <2>8 DEF AdminInv
<1>9. ASSUME LrsReady  PROVE  AdminInv'
  <2>1. adding.req = None  BY <1>9 DEF AdminInv, AddInv, LrsReady
  <2>2. Types' /\ Cleans  BY <1>0, <1>9, <2>1, LrsReadyEffect
  <2> QED  BY <2>2, InvCleans
<1>10. ASSUME NEW d \in Drives, Own(d)  PROVE  AdminInv'  BY <1>10, InvTake
<1>11. ASSUME NEW i \in DOMAIN hdls, Fill(i)  PROVE  AdminInv'  BY <1>11, InvFill
<1>12. ASSUME Deleted  PROVE  AdminInv'  BY <1>12, InvDeleted
<1> QED  BY <1>1, <1>2, <1>3, <1>4, <1>5, <1>6, <1>7, <1>8, <1>9, <1>10, <1>11, <1>12, Zenon DEF Lrs

LEMMA InvCommand ==
    ASSUME AdminInv, NEW a \in Admins, Command(a)
    PROVE  AdminInv'
<1>0. Types /\ DrivesFine  BY DEF AdminInv
<1>1. ASSUME Types', Goes  PROVE  AdminInv'  BY <1>1, InvGoes
<1>2. ASSUME Insert(a)  PROVE  AdminInv'  BY <1>0, <1>1, <1>2, InsertEffect
<1>3. ASSUME Undo(a)  PROVE  AdminInv'
  <2> DEFINE d == op[a].d
  <2>1. Types' /\ Undoes(d) /\ d \in Drives  BY <1>0, <1>3, UndoEffect, DriveOf DEF Undo, At
  <2> HIDE DEF d
  <2>2. DrivesFine'  BY <1>0, <2>1, FineUndoes
  <2>3. SureKeeps  BY <1>0, <2>1 DEF SureKeeps, Undoes, Types, MarkTypes
  <2>4. hdls' = hdls /\ used'.handle = used.handle /\ QueueRests /\ torn \subseteq torn' /\ lrs' = lrs
    BY <2>1 DEF Undoes
  <2> QED  BY <2>1, <2>2, <2>3, <2>4, InvSame
<1>4. ASSUME Read(a)  PROVE  AdminInv'  BY <1>0, <1>1, <1>4, ReadEffect
<1>5. ASSUME Write(a)  PROVE  AdminInv'  BY <1>0, <1>1, <1>5, WriteEffect
<1>6. ASSUME Notify(a)  PROVE  AdminInv'
  <2>1. Types' /\ (Goes \/ Asks(a))  BY <1>0, <1>6, NotifyEffect
  <2>2. ASSUME Asks(a)  PROVE  AdminInv'
    <3>1. Still /\ sure' = sure  BY <2>2 DEF Asks
    <3>2. Calm /\ HandlesKeep /\ used'.handle = used.handle /\ row' = row /\ torn' = torn  BY <3>1 DEF Still, Calm
    <3>3. SingleInv /\ SureInv /\ FitInv /\ IdsFit /\ PendingInv /\ AddInv  BY DEF AdminInv, FitInv
    <3>4. DrivesFine' /\ SingleInv' /\ FitStays
      BY <1>0, <3>2, <3>3, FineCalm, SingleKeep, KeepFits
    <3>5. SureInv'  BY <3>1, <3>2, <3>3, SureStep, SureStays, KeepNoLife
    <3>6. FitInv' /\ PendingInv'  BY <1>0, <2>2, <3>3, <3>4, FitAsks, PendingAsks
    <3>7. AddRests /\ joining' = joining /\ (lrs'.st = "init" => lrs.st = "init")
      BY <2>2, <3>2 DEF Asks, AddRests, Calm
    <3>8. AddInv'  BY <3>1, <3>3, <3>7, AddStays
    <3> QED  BY <2>1, <3>4, <3>5, <3>6, <3>8 DEF AdminInv
  <2> QED  BY <1>1, <2>1, <2>2
<1>7. ASSUME Wait(a)  PROVE  AdminInv'  BY <1>0, <1>1, <1>7, WaitEffect
<1>8. ASSUME Get(a)  PROVE  AdminInv'  BY <1>0, <1>1, <1>8, GetEffect
<1>9. ASSUME Lookup(a)  PROVE  AdminInv'  BY <1>0, <1>1, <1>9, LookupEffect
<1>10. ASSUME LockDrive(a)  PROVE  AdminInv'
  <2>1. Types' /\ (Goes \/ Enters(a))  BY <1>0, <1>10, LockDriveEffect
  <2>2. ASSUME Enters(a)  PROVE  AdminInv'
    <3>1. DrivesFine'  BY <1>0, <2>2, FineEnters
    <3>2. hdls' = hdls /\ used'.handle = used.handle /\ QueueRests /\ SureKeeps /\ torn \subseteq torn' /\ lrs' = lrs
      BY <2>2, SureStays DEF Enters
    <3> QED  BY <2>1, <3>1, <3>2, InvSame
  <2> QED  BY <1>1, <2>1, <2>2
<1>11. ASSUME Act(a)  PROVE  AdminInv'
  <2>1. Types' /\ ActsOn(a)  BY <1>0, <1>11, ActEffect
  <2>2. DrivesFine'  BY <1>0, <2>1, FineActs
  <2>3. SureKeeps  BY <1>0, <2>1 DEF SureKeeps, ActsOn, Types, MarkTypes
  <2>4. hdls' = hdls /\ used'.handle = used.handle /\ QueueRests /\ torn \subseteq torn' /\ lrs' = lrs
    BY <2>1 DEF ActsOn
  <2> QED  BY <2>1, <2>2, <2>3, <2>4, InvSame
<1>12. ASSUME LockTape(a)  PROVE  AdminInv'  BY <1>0, <1>1, <1>12, LockTapeEffect
<1>13. ASSUME Move(a)  PROVE  AdminInv'  BY <1>0, <1>1, <1>13, MoveEffect
<1>14. ASSUME ReleaseTape(a)  PROVE  AdminInv'  BY <1>0, <1>1, <1>14, ReleaseTapeEffect
<1>15. ASSUME UnlockDrive(a)  PROVE  AdminInv'
  <2>1. Types' /\ Leaves(a)  BY <1>0, <1>15, UnlockDriveEffect
  <2>2. DrivesFine'  BY <1>0, <2>1, FineLeaves
  <2>3. hdls' = hdls /\ used'.handle = used.handle /\ QueueRests /\ SureKeeps /\ torn \subseteq torn' /\ lrs' = lrs
    BY <2>1, SureStays DEF Leaves
  <2> QED  BY <2>1, <2>2, <2>3, InvSame
<1>16. ASSUME Back(a)  PROVE  AdminInv'  BY <1>0, <1>1, <1>16, BackEffect
<1>17. ASSUME Clean(a)  PROVE  AdminInv'
  <2>1. Types' /\ (Goes \/ Cleans)  BY <1>0, <1>17, CleanEffect
  <2> QED  BY <1>1, <2>1, InvCleans
<1> QED
  BY <1>2, <1>3, <1>4, <1>5, <1>6, <1>7, <1>8, <1>9, <1>10, <1>11, <1>12, <1>13, <1>14, <1>15, <1>16, <1>17,
     Zenon DEF Command

LEMMA InvStutter ==
    ASSUME AdminInv, UNCHANGED vars
    PROVE  AdminInv'
<1>1. Types /\ DrivesFine  BY DEF AdminInv
<1>2. UNCHANGED <<row, lock, tlock, in, lrs, hdls, adding, joining, incoming, op, used, sure, torn>>  BY DEF vars
<1>3. CountTypes' /\ used'.handle = used.handle  BY <1>1, <1>2, SameCount
<1>4. Types'
  BY <1>1, <1>2, <1>3, CommandTypes
     DEF Types, OpTypes, Proper, RowTypes, LockTypes, TapeTypes, InTypes, QueueTypes, MarkTypes
<1>5. Aside /\ QueueRests /\ SureKeeps  BY <1>2, SameAside, SameQueue, SureStays DEF AddRests
<1>6. Calm  BY <1>1, <1>2, <1>5, CalmWhenSame
<1>7. Goes  BY <1>3, <1>5, <1>6 DEF Goes
<1> QED  BY <1>4, <1>7, InvGoes

\* The inductive invariant of the administration of devices.
THEOREM AdminInvariant == Spec => []AdminInv
<1>1. Init => AdminInv  BY AdminInit
<1>2. AdminInv /\ [Next]_vars => AdminInv'
  <2> SUFFICES ASSUME AdminInv, [Next]_vars  PROVE  AdminInv'
    OBVIOUS
  <2>1. ASSUME NEW i \in DOMAIN hdls, Thread(i)  PROVE  AdminInv'  BY <2>1, InvThread
  <2>2. ASSUME Lrs  PROVE  AdminInv'  BY <2>2, InvLrs
  <2>3. ASSUME NEW a \in Admins, Command(a)  PROVE  AdminInv'  BY <2>3, InvCommand
  <2>4. ASSUME NEW a \in Admins, NEW cmd \in Commands, NEW d \in Drives, Begin(a, cmd, d)  PROVE  AdminInv'
    <3>1. Types' /\ Goes  BY <2>4, BeginEffect DEF AdminInv
    <3> QED  BY <3>1, InvGoes
  <2>5. ASSUME UNCHANGED vars  PROVE  AdminInv'  BY <2>5, InvStutter
  <2> QED  BY <2>1, <2>2, <2>3, <2>4, <2>5 DEF Next
<1> QED  BY <1>1, <1>2, PTL DEF Spec

-----------------------------------------------------------------------------
(* What the invariant gives.                                               *)

LEMMA InvTypeOK ==
    ASSUME Types
    PROVE  TypeOK
<1>1. \A d \in Drives : lock[d] # NoLock => lock[d].owner \in Admins \cup (1..lrs.pid) /\ ~lock[d].weak
  BY DEF Types, LockTypes, DriveLock
<1>2. \A t \in Tapes : tlock[t] # NoLock => tlock[t].owner \in Admins \cup (1..lrs.pid) \/ tlock[t].host = Away
  BY DEF Types, TapeTypes, TapeLock
<1>3. \A i \in DOMAIN hdls : hdls[i] \in HandleRec  BY DEF Types, HandleTypes, Handle
<1>4. \A a \in Admins : op[a].resp # "none" => op[a].pc = "wait"  BY DEF Types, OpTypes, Proper
<1>5. /\ row \in [Drives -> DeviceRow] /\ in \in [Drives -> Tapes \cup {None}]
      /\ lrs \in [st : {"down", "init", "up", "stopping"}, pid : 0..MaxStop + 1]
      /\ sure \subseteq Drives /\ torn \subseteq Drives \X Defects /\ adding \in Adding \cup {None}
  BY DEF Types, RowTypes, InTypes, LrsTypes, MarkTypes, QueueTypes
<1> QED  BY <1>1, <1>2, <1>3, <1>4, <1>5 DEF TypeOK, HandleRec

\* Two actors on a drive would both own its lock.
LEMMA ActorsAgree ==
    ASSUME Types, NEW d \in Drives, Held(d), Single(d), NEW x \in Actors(d), NEW y \in Actors(d)
    PROVE  x = y
<1>1. \A a \in Admins : op[a].d = d /\ InSection(a) => lock[d] = Row(Here, a, FALSE)  BY DEF Held, On
<1>2. \A i \in HandlesOf(d) : Holds(i) => lock[d] = Row(Here, lrs.pid, FALSE)  BY DEF Held, Working
<1>3. \A i, j \in HandlesOf(d) : i = j  BY DEF Single
<1>4. \A z \in Actors(d) : \/ z \in Admins /\ lock[d] = Row(Here, z, FALSE)
                           \/ z \in HandlesOf(d) /\ lock[d] = Row(Here, lrs.pid, FALSE)
  BY <1>1, <1>2 DEF Actors
<1>5. CASE x \in Admins /\ lock[d] = Row(Here, x, FALSE)
  <2>1. lock[d] # Row(Here, lrs.pid, FALSE)  BY <1>5, PidIs, RowOwner
  <2>2. y \in Admins /\ lock[d] = Row(Here, y, FALSE)  BY <1>4, <2>1
  <2> QED  BY <1>5, <2>2, RowOwner
<1>6. CASE x \in HandlesOf(d) /\ lock[d] = Row(Here, lrs.pid, FALSE)
  <2>1. y \notin Admins \/ lock[d] # Row(Here, y, FALSE)  BY <1>6, PidIs, RowOwner
  <2> QED  BY <1>3, <1>4, <1>6, <2>1
<1> QED  BY <1>4, <1>5, <1>6

LEMMA InvOneActor ==
    ASSUME Types, DrivesFine, SingleInv
    PROVE  OneActor
<1> SUFFICES ASSUME NEW d \in Drives, d \notin Torn({"second", "robbed"})  PROVE  Cardinality(Actors(d)) <= 1
  BY DEF OneActor
<1>0. Whole(d) /\ Unrobbed(d)  BY DEF Torn, Whole, Unrobbed
<1>1. \A x, y \in Actors(d) : x = y  BY <1>0, ActorsAgree DEF DrivesFine, Fine, SingleInv
<1>2. CASE Actors(d) = {}  BY <1>2, FS_EmptySet
<1>3. ASSUME NEW x \in Actors(d)  PROVE  Cardinality(Actors(d)) <= 1
  <2>1. Actors(d) = {x}  BY <1>1, <1>3
  <2>2. Cardinality({x}) = 1  BY FS_Singleton
  <2> QED  BY <2>1, <2>2
<1> QED  BY <1>2, <1>3

LEMMA InvOwn ==
    ASSUME Types, DrivesFine
    PROVE  WorksOnItsOwn /\ NoLockLeft
<1>1. WorksOnItsOwn
  <2> SUFFICES ASSUME NEW i \in DOMAIN hdls, Holds(i), hdls[i].d \notin Torn(Defects)
               PROVE  row[hdls[i].d].in /\ row[hdls[i].d].host = Here
    BY DEF WorksOnItsOwn
  <2>1. PICK d \in Drives : d = hdls[i].d /\ i \in HandlesOf(d)  BY HandleAt DEF Types, Handle, HandleRec, HandlesOf
  <2>2. Whole(d) /\ Unrobbed(d) /\ Seen(d)  BY <2>1 DEF Torn, Defects, Whole, Unrobbed, Seen
  <2>3. Owned(d)  BY <2>2 DEF DrivesFine, Fine
  <2> QED  BY <2>1, <2>3 DEF Owned, Working
<1>2. NoLockLeft
  <2> SUFFICES ASSUME NEW d \in Drives, d \notin Torn({"second"})
               PROVE  lock[d] # NoLock => \/ AtWork(d)
                                          \/ lock[d].owner \in 1..lrs.pid /\ (lrs.st = "down" \/ lock[d].owner # lrs.pid)
    BY DEF NoLockLeft
  <2>1. Whole(d)  BY DEF Torn, Whole
  <2> QED  BY <2>1 DEF DrivesFine, Fine, LockKept
<1> QED  BY <1>1, <1>2

LEMMA InvAwaited ==
    ASSUME PendingInv
    PROVE  Awaited
<1> SUFFICES ASSUME NEW a \in Admins, At(a, "wait"), op[a].resp = "none"
             PROVE  \/ \E r \in Range(incoming) \cup ({joining} \ {None}) : r.by = a /\ r.wait
                    \/ adding # None /\ adding.req # None /\ adding.req.by = a /\ adding.req.wait
  BY DEF Awaited
<1>1. Pending(a)  BY DEF PendingInv, Waits
<1>2. CASE \E n \in DOMAIN incoming : incoming[n].by = a /\ incoming[n].wait  BY <1>2 DEF Range
<1>3. CASE joining # None /\ joining.by = a /\ joining.wait  BY <1>3
<1> QED  BY <1>1, <1>2, <1>3 DEF Pending

\* Every drive of this host is in the hands of one command or one device
\* thread at most, which holds its lock; the LRS works on no drive that was
\* deleted or migrated, and no lock is left behind by what has ended: except
\* for the drives that a second handle, a cleaned lock or a row changed between
\* the read of it and the lock has reached.
THEOREM DrivesInHand == Spec => []DriveInHand
<1>1. AdminInv => DriveInHand
  BY InvTypeOK, InvOneActor, InvOwn DEF AdminInv, DriveInHand
<1> QED  BY <1>1, AdminInvariant, PTL

\* A drive that the LRS has answered is locked keeps no thread until it is
\* unlocked.
THEOREM LocksEffective == Spec => []LockEffective
<1>1. AdminInv => LockEffective  BY DEF AdminInv, SureInv
<1> QED  BY <1>1, AdminInvariant, PTL

\* A command that waits for the LRS still has its request with it, through
\* retries, refusals and the death of the LRS.
THEOREM RequestsAwaited == Spec => []Awaited
<1>1. AdminInv => Awaited  BY InvAwaited DEF AdminInv
<1> QED  BY <1>1, AdminInvariant, PTL
============================================================================
