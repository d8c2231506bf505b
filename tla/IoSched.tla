------------------------------ MODULE IoSched ------------------------------
(***************************************************************************)
(* The I/O schedulers of one LRS scheduler thread: reads are ordered by    *)
(* grouped_read (one queue per medium, a queue bound to a drive), writes   *)
(* and formats by fifo, the drives are dispatched by fair_share or none,   *)
(* and the schedulers exchange drives when a medium sits in a drive of     *)
(* another one.  Device threads run concurrently: they finish the          *)
(* sub-request they were given, and a drive may go offline, be removed or  *)
(* be added.  A failed assertion, an abort() and a use of freed memory end *)
(* the daemon: pc then names the cause.                                    *)
(***************************************************************************)
EXTENDS FairShare, Sequences, SequencesExt

CONSTANTS Drives, Media, Requests, None,
          Kind,        \* [Requests -> Kinds]
          Wants,       \* [Requests -> Seq(Media)]: media of a read or a format
          Need,        \* [Requests -> Nat]: n_required of a read
          Prio,        \* [Requests -> Nat]: qos and priority
          Techno,      \* [Drives -> technologies], ordered by Technos
          Technos,     \* the technologies, sorted
          Compat,      \* [Drives -> SUBSET Media]: tape_drive_compat
          Writable,    \* media a write may be given
          LoCfg, HiCfg,     \* [technology -> [Kinds -> Nat]]
          Algos,            \* dispatch_algo: fair_share, none
          Start,            \* the drives known at start, in order
          Loads,            \* what the drives may hold at start
          MaxEvents         \* drives added, removed, gone offline, media refused

ASSUME IoSchedAssumption ==
  /\ Kind \in [Requests -> Kinds] /\ Need \in [Requests -> Nat]
  /\ None \notin Drives \cup Media \cup Requests
  /\ ToSet(Start) \subseteq Drives
  /\ \A l \in Loads, d, e \in Drives :
       l[d] # None => /\ l[d] \in Compat[d] /\ d \in ToSet(Start)
                      /\ l[e] = l[d] => d = e

VARIABLES
  io,      \* the schedulers' view of drives and read queues (see IoType)
  fifo,    \* [{"write","format"} -> Seq(Requests)], the next one first
  stats,   \* io_stats
  rml,     \* read_media_list of each read, and the media it holds
  devs,    \* ldh_devices, the drives of the LRS
  dev,     \* [Drives -> [sub, load, sched, up]], what device threads share
  turn,    \* current_scheduler of round_robin
  cur,     \* the request being scheduled
  got,     \* the drives selected for it
  state,   \* [Requests -> "new", "queued", "sent", "error", "lost"]
  events,  \* such events so far
  pc

vars == <<io, fifo, stats, rml, devs, dev, turn, cur, got, state, events, pc>>

Order == <<"read", "write", "format">>

Of(k) == {r \in Requests : Kind[r] = k}

\* Assertions on the read scheduler's drive of an exchange and on the type of
\* the one claimed, abort() of give_devices, assertions on the number of
\* drives, on the used media of a read and on its queues, use of a queue that
\* was deleted, assertions on the removal of a read and on its list of media.
Causes == {"exchange", "claim", "give", "count", "used", "queue", "emptied",
           "remove", "slot"}

\* io.algo: dispatch_algo; io.type: ld_io_request_type; io.list: io_scheduler.devices; io.queue: the
\* queue of a drive of the read scheduler, named by its medium; io.owner: the
\* drive of a queue; io.rq: the requests of a queue, the next one first (no
\* queue: empty); io.free, io.used: list_pair of a read.
IoType ==
  [algo : Algos, type : [Drives -> SUBSET Kinds], list : [Kinds -> Seq(Drives)],
   queue : [Drives -> Media \cup {None}], owner : [Media -> Drives \cup {None}],
   rq : [Media -> Seq(Requests)],
   free : [Requests -> Seq(Media)], used : [Requests -> Seq(Media)],
   fault : Causes \cup {None}]

Init ==
  /\ \E a \in Algos :
     io = [algo |-> a, type |-> [d \in Drives |-> {}], list |-> [k \in Kinds |-> <<>>],
           queue |-> [d \in Drives |-> None], owner |-> [m \in Media |-> None],
           rq |-> [m \in Media |-> <<>>],
           free |-> [r \in Requests |-> <<>>],
           used |-> [r \in Requests |-> <<>>], fault |-> None]
  /\ fifo = [k \in {"write", "format"} |-> <<>>]
  /\ stats = [k \in Kinds |-> 0]
  /\ rml = [r \in Requests |-> [ids |-> Wants[r], avail |-> Len(Wants[r]),
                                alloc |-> 0, errors |-> 0,
                                held |-> [i \in 1..Need[r] |-> None]]]
  /\ devs = Start
  /\ \E l \in Loads : dev = [d \in Drives |-> [sub |-> None, load |-> l[d],
                                             sched |-> FALSE, up |-> TRUE]]
  /\ turn = "read"
  /\ cur = None
  /\ got = <<>>
  /\ state = [r \in Requests |-> "new"]
  /\ events = 0
  /\ pc = "push"
----------------------------------------------------------------------------
(* Drives as the scheduler thread sees them. *)

Ready(d) == dev[d].up /\ dev[d].sub = None /\ ~dev[d].sched

FirstOr(seq, P(_)) == LET s == SelectSeq(seq, P) IN IF s = <<>> THEN None ELSE s[1]

\* search_in_use_medium: the drive that holds the medium or is about to.
InUse(m) == FirstOr(devs, LAMBDA d : dev[d].sub = m \/ dev[d].load = m)

Suitable(m) == \E d \in ToSet(devs) : dev[d].up /\ m \in Compat[d]

(* Queues of the grouped_read scheduler and their drives. *)

Associate_KeepOld(s, d, m) ==
  [s EXCEPT !.owner[m] = d, !.queue[d] = m]

Associate(s, d, m) ==
  [s EXCEPT
     !.owner = [q \in Media |-> IF q = m THEN d
                                ELSE IF q = s.queue[d] THEN None ELSE s.owner[q]],
     !.queue = [e \in Drives |-> IF e = d THEN m
                                 ELSE IF e = s.owner[m] THEN None ELSE s.queue[e]]]

Dissociate(s, d, m) ==
  [s EXCEPT !.queue[d] = IF @ = m THEN None ELSE @,
            !.owner[m] = IF @ = d THEN None ELSE @]

\* delete_queue
Unbind(s, m) == IF s.owner[m] = None THEN s ELSE Dissociate(s, s.owner[m], m)

\* remove_element_from_queue: an empty queue is deleted.
DropElement(s, r, m) ==
  IF s.rq[m] = <<r>> THEN Unbind([s EXCEPT !.rq[m] = <<>>], m)
  ELSE [s EXCEPT !.rq[m] = Remove(@, r)]

QueueInsert(q, r) ==
  SelectSeq(q, LAMBDA x : Prio[x] >= Prio[r]) \o <<r>>
    \o SelectSeq(q, LAMBDA x : Prio[x] < Prio[r])

\* grouped_remove_request, and the deletion of the elements in cancel_request.
RemoveRead(s, r) ==
  FoldLeft(LAMBDA t, m : DropElement(t, r, m),
           [s EXCEPT !.free[r] = <<>>, !.used[r] = <<>>], s.used[r] \o s.free[r])

\* The two assertions of grouped_remove_request.
Removable(s, l, r) == Contains(s.rq[l.ids[1]], r)

\* grouped_add_device: a drive joins with the queue of the medium it holds.
BindNew(s, d, m) ==
  IF m # None /\ s.rq[m] # <<>> /\ s.owner[m] = None THEN Associate(s, d, m) ELSE s

Listed(s, k, d) == [s EXCEPT !.list[k] = Append(@, d)]

AddDevice(s, k, d) ==
  IF Contains(s.list[k], d) THEN s
  ELSE IF k = "read" THEN BindNew(Listed(s, k, d), d, dev[d].load)
  ELSE Listed(s, k, d)

RemoveDevice(s, k, d) ==
  [(IF k = "read" /\ Contains(s.list[k], d) /\ s.queue[d] # None
    THEN Dissociate(s, d, s.queue[d]) ELSE s) EXCEPT !.list[k] = Remove(@, d)]
----------------------------------------------------------------------------
(* Exchanges: io_sched_claim_device with IO_SCHED_EXCHANGE.                *)

Fault(s, why) == [s EXCEPT !.fault = why]
Faulty(s) == s.fault # None

\* fifo_exchange_device, grouped_exchange_device: out leaves k, in joins it,
\* unless in is busy or the read scheduler still has requests for out.
Joined(s, k, d) == IF k = "read" THEN AddDevice(s, k, d) ELSE Listed(s, k, d)

ExchangeIn(s, k, out, in) ==
  IF k = "read" /\ ~Contains(s.list[k], out) THEN Fault(s, "exchange")
  ELSE IF ~Ready(in) \/ (k = "read" /\ s.queue[out] # None) THEN s
  ELSE [Joined([s EXCEPT !.type = [@ EXCEPT ![out] = @ \ {k}, ![in] = {k}]], k, in)
          EXCEPT !.list[k] = Remove(@, out)]

FreeDevice(s, k) ==
  FirstOr(s.list[k], LAMBDA d : Ready(d) /\ (k = "read" => s.queue[d] = None))

\* The other scheduler o gives desired and takes spare, then k the reverse.
ExchangeWith(u, k, o, desired, spare) ==
  IF Faulty(u) \/ o \in u.type[desired] THEN u ELSE ExchangeIn(u, k, spare, desired)

Claim(s, k, desired, spare, t) ==
  IF spare = None THEN s
  ELSE IF k \in t \/ Cardinality(t) > 1 THEN Fault(s, "claim")
  ELSE IF t = {} THEN [AddDevice(s, k, desired) EXCEPT !.type[desired] = {k}]
  ELSE LET o == CHOOSE x \in t : TRUE
       IN ExchangeWith(ExchangeIn(s, o, desired, spare), k, o, desired, spare)

\* exchange_device and io_sched_claim_device.
Exchange(s, k, desired) == Claim(s, k, desired, FreeDevice(s, k), s.type[desired])
----------------------------------------------------------------------------
(* Dispatch of the drives. *)

InTechno(t) == SelectSeq(devs, LAMBDA d : dev[d].up /\ Techno[d] = t)

CountTechno(s, k, t) ==
  Len(SelectSeq(s.list[k], LAMBDA d : Techno[d] = t))

\* count_distinct_devices.
CountDistinct(s) ==
  Len(s.list["read"])
  + Len(SelectSeq(s.list["write"], LAMBDA d : "read" \notin s.type[d]))
  + Len(SelectSeq(s.list["format"], LAMBDA d : s.type[d] \cap {"read", "write"} = {}))

\* The drive a scheduler gives back: the first one of a fifo (whose place the
\* last takes), one without queue or with the shortest queue for grouped_read.
Victim(s, k, t) ==
  LET mine == SelectSeq(s.list[k], LAMBDA d : Techno[d] = t)
      length(d) == IF s.queue[d] = None THEN 0 ELSE Len(s.rq[s.queue[d]])
  IN IF k = "read"
     THEN FirstOr(mine, LAMBDA d : \A e \in ToSet(mine) : length(d) <= length(e))
     ELSE mine[1]

Unlist(s, k, d) ==
  IF k = "read" THEN RemoveDevice(s, k, d)
  ELSE LET l == s.list[k]
           i == CHOOSE j \in 1..Len(l) : l[j] = d /\ \A h \in 1..(j-1) : l[h] # d
       IN [s EXCEPT !.list[k] = SubSeq([l EXCEPT ![i] = l[Len(l)]], 1, Len(l) - 1)]

\* take_devices, one round: x = <<schedulers, devices_to_give>>.
TakeThis(s, give, k, d) ==
  IF s.type[d] # {} /\ Contains(give, d) THEN <<Unlist(s, k, d), give>>
  ELSE <<[Unlist(s, k, d) EXCEPT !.type[d] = @ \ {k}], Append(give, d)>>

TakeOne(x, k, t) == TakeThis(x[1], x[2], k, Victim(x[1], k, t))

Take(x, k, t, target) ==
  LET excess == CountTechno(x[1], k, t) - target
      f[i \in Nat] == IF i = 0 THEN x ELSE TakeOne(f[i-1], k, t)
  IN IF excess > 0 THEN f[excess] ELSE x

Own(s, k, d) == [AddDevice(s, k, d) EXCEPT !.type[d] = @ \cup {k}]

\* give_devices: with too few drives to give, abort(); an empty list is read
\* past its end when a drive of it was already owned.
GiveOne(y, k, goal) ==
  IF Len(y[1].list[k]) >= goal THEN y
  ELSE IF y[2] = <<>> THEN <<Fault(y[1], "give"), y[2]>>
  ELSE <<Own(y[1], k, y[2][1]), Tail(y[2])>>

GiveUpTo(x, k, need) ==
  LET f[i \in Nat] == IF i = 0 THEN x
                      ELSE GiveOne(f[i-1], k, Len(x[1].list[k]) + need)
  IN IF need <= 0 THEN x
     ELSE IF Len(x[2]) < need THEN <<Fault(x[1], "give"), x[2]>>
     ELSE f[Len(x[2]) + 1]

GiveExclusive(x, k, t, target) == GiveUpTo(x, k, target - CountTechno(x[1], k, t))

\* dispatch_shared_devices: every scheduler looks at the whole list.
GiveShared(x, k, t, target) ==
  <<FoldLeft(LAMBDA s, d : IF CountTechno(s, k, t) < target THEN Own(s, k, d) ELSE s,
             x[1], x[2]), x[2]>>

\* fair_share_number_of_requests_one_techno
TakeAll(s, mine, t, share) ==
  FoldLeft(LAMBDA y, k : Take(y, k, t, share[k]),
           <<s, SelectSeq(mine, LAMBDA d : s.type[d] = {})>>, Order)

GiveAll(x, shared, t, share) ==
  IF x[2] = <<>> THEN x[1]
  ELSE FoldLeft(LAMBDA y, k : IF Faulty(y[1]) THEN y
                              ELSE IF shared THEN GiveShared(y, k, t, share[k])
                              ELSE GiveExclusive(y, k, t, share[k]), x, Order)[1]

Shared(mine) == Len(mine) <= 2

FairShareWith(s, mine, t, share) ==
  GiveAll(TakeAll(s, mine, t, share), Shared(mine), t, share)

FairShareOne(s, t) ==
  IF InTechno(t) = <<>> \/ Faulty(s) THEN s
  ELSE FairShareWith(s, InTechno(t), t,
                     Repartition(stats, Len(InTechno(t)), LoCfg[t], HiCfg[t]))

Dispatched(s) ==
  IF s.algo = "none"
  THEN LET all == [s EXCEPT !.type = [d \in Drives |->
                     IF Contains(devs, d) THEN Kinds ELSE @[d]]]
       IN FoldLeft(LAMBDA y, k : FoldLeft(LAMBDA z, d : AddDevice(z, k, d), y, devs),
                   all, Order)
  ELSE IF Total(stats) = 0 THEN s
  ELSE IF CountDistinct(s) > Len(devs) THEN Fault(s, "count")
  ELSE FoldLeft(FairShareOne, s, Technos)
----------------------------------------------------------------------------
(* grouped_peek_request *)

\* Bind each drive to the queue of the medium it holds.
BindLoaded(s) ==
  FoldLeft(LAMBDA t, d : LET m == dev[d].load
                         IN IF m # None /\ t.queue[d] = None /\ t.rq[m] # <<>>
                            THEN Associate(t, d, m) ELSE t,
           s, s.list["read"])

Available(s) ==
  Len(SelectSeq(s.list["read"], LAMBDA d : s.queue[d] = None /\ Ready(d)))

\* Media of the read whose queue has a ready drive.
Bound(s, r) ==
  SelectSeq(rml[r].ids, LAMBDA m : s.owner[m] # None /\ Ready(s.owner[m]))

\* request_can_be_allocated: every medium looked at must have a queue.
Enough(s, r) == Available(s) >= Need[r]

BoundEnough(s, r) == Available(s) + Len(Bound(s, r)) >= Need[r]

MissingQueue(s, r) ==
  LET ids == rml[r].ids
  IN \E i \in 1..Len(ids) :
       /\ s.rq[ids[i]] = <<>>
       /\ Available(s) + Cardinality({j \in 1..(i-1) : Contains(Bound(s, r), ids[j])})
            < Need[r]

\* try_exchange_extra_devices: drives of other schedulers that hold a medium.
BindFetched(u, d, m) ==
  IF ~Faulty(u) /\ "read" \in u.type[d] /\ Contains(u.list["read"], d) /\ u.rq[m] # <<>>
  THEN Associate(u, d, m) ELSE u

FetchExtra(s, r) ==
  FoldLeft(LAMBDA t, m : IF Faulty(t) THEN t
                         ELSE BindFetched(Exchange(t, "read", InUse(m)), InUse(m), m),
           s, SelectSeq(rml[r].ids, LAMBDA m :
                /\ s.owner[m] = None /\ InUse(m) # None
                /\ Ready(InUse(m)) /\ "read" \notin s.type[InUse(m)]))

\* The first drive whose queue starts with a read that can be allocated; an
\* exchange on the way shifts the list under the index.
RECURSIVE ScanDrives(_, _)
ScanDrives(s, i) ==
  IF i > Len(s.list["read"]) \/ Faulty(s) THEN <<s, None>>
  ELSE LET d == s.list["read"][i]
           r == s.rq[s.queue[d]][1]
       IN IF ~Ready(d) \/ s.queue[d] = None THEN ScanDrives(s, i + 1)
          ELSE IF s.used[r] # <<>> THEN <<Fault(s, "used"), None>>
          ELSE IF Enough(s, r) THEN <<s, r>>
          ELSE IF MissingQueue(s, r) THEN <<Fault(s, "queue"), None>>
          ELSE IF BoundEnough(s, r) THEN <<s, r>>
          ELSE ScanDrives(FetchExtra(s, r), i + 1)

CompatDevice(s, m) ==
  FirstOr(s.list["read"], LAMBDA d : m \in Compat[d] /\ Ready(d) /\ s.queue[d] = None)

NoCompat(s, m) == ~\E d \in ToSet(s.list["read"]) : m \in Compat[d]

\* glib_stop_at_first_compatible on the queues in the order of the hash table:
\* <<schedulers, queue found, its drive, queues without compatible drive>>.
Fetched(s, d) == IF Contains(s.list["read"], d) THEN s ELSE Exchange(s, "read", d)

QueueInDrive(u, m, d, bad) ==
  IF Faulty(u) \/ ~Contains(u.list["read"], d) THEN <<u, None, None, bad>>
  ELSE <<u, m, d, bad>>

QueueForDrive(s, m, c, avail, bad) ==
  IF c # None /\ Need[s.rq[m][1]] <= avail THEN <<s, m, c, bad>>
  ELSE <<s, None, None, bad>>

TryQueue(s, m, d, avail, bad) ==
  IF s.rq[m] = <<>> \/ s.owner[m] # None \/ (d # None /\ ~Ready(d))
  THEN <<s, None, None, bad>>
  ELSE IF d # None THEN QueueInDrive(Fetched(s, d), m, d, bad)
  ELSE QueueForDrive(s, m, CompatDevice(s, m), avail,
                     IF NoCompat(s, m) THEN Append(bad, m) ELSE bad)

FindQueue(s, order, avail) ==
  FoldLeft(LAMBDA x, m : IF x[2] # None \/ Faulty(x[1]) THEN x
                         ELSE TryQueue(x[1], m, InUse(m), avail, x[4]),
           <<s, None, None, <<>>>>, order)

\* empty_incompatible_queue: a read left with too few media is cancelled with
\* -ENODEV, which may free other queues; x = <<schedulers, cancelled>>.
Narrowed(s, cancelled, r) ==
  IF Need[r] > Len(s.free[r]) + Len(s.used[r])
  THEN <<RemoveRead(s, r), cancelled \cup {r}>> ELSE <<s, cancelled>>

EmptyQueue(x, m) ==
  IF x[1].rq[m] = <<>> THEN <<Fault(x[1], "emptied"), x[2]>>
  ELSE FoldLeft(LAMBDA y, r : Narrowed([y[1] EXCEPT !.free[r] = Remove(@, m)], y[2], r),
                <<[x[1] EXCEPT !.rq[m] = <<>>], x[2]>>, x[1].rq[m])

\* <<schedulers, read found or None, reads cancelled>>
FirstOfQueue(y, m) ==
  IF m = None \/ Faulty(y[1]) THEN <<y[1], None, y[2]>>
  ELSE IF y[1].rq[m] = <<>> THEN <<Fault(y[1], "emptied"), None, y[2]>>
  ELSE <<y[1], y[1].rq[m][1], y[2]>>

AfterFind(x) ==
  FirstOfQueue(
    FoldLeft(LAMBDA z, m : IF Faulty(z[1]) THEN z ELSE EmptyQueue(z, m),
             <<IF x[2] = None \/ Faulty(x[1]) THEN x[1] ELSE Associate(x[1], x[3], x[2]),
               {}>>, x[4]),
    x[2])

AfterScan(x, order) ==
  IF Faulty(x[1]) \/ x[2] # None \/ Available(x[1]) = 0 THEN <<x[1], x[2], {}>>
  ELSE AfterFind(FindQueue(x[1], order, Available(x[1])))

PeekRead(s, order) == AfterScan(ScanDrives(BindLoaded(s), 1), order)

PeekFifo(k) == IF fifo[k] = <<>> THEN None ELSE fifo[k][1]

\* next_request: round_robin under fair_share (the three tests never wrap),
\* the oldest request otherwise (here any of them).
RoundRobin(rd, wr, fm) ==
  IF rd = None /\ wr = None /\ fm = None THEN {<<None, turn>>}
  ELSE IF turn = "read" /\ rd # None THEN {<<rd, "write">>}
  ELSE IF turn \in {"read", "write"} /\ wr # None THEN {<<wr, "format">>}
  ELSE {<<fm, "read">>}

NextRequest(rd, wr, fm) ==
  IF io.algo = "fair_share" THEN RoundRobin(rd, wr, fm)
  ELSE LET some == {rd, wr, fm} \ {None}
       IN {<<r, turn>> : r \in IF some = {} THEN {None} ELSE some}
----------------------------------------------------------------------------
(* The scheduler thread: requests, dispatch, then one request scheduled.    *)

Crash(why) ==
  /\ pc' = why
  /\ UNCHANGED <<io, fifo, stats, rml, devs, dev, turn, cur, got, state>>

Push(r) ==
  /\ pc = "push" /\ state[r] = "new"
  /\ stats' = [stats EXCEPT ![Kind[r]] = @ + 1]
  /\ state' = [state EXCEPT ![r] = "queued"]
  /\ IF Kind[r] = "read"
     THEN /\ io' = [io EXCEPT !.free[r] = Wants[r], !.used[r] = <<>>,
                     !.rq = [m \in Media |-> IF Contains(Wants[r], m)
                                             THEN QueueInsert(@[m], r) ELSE @[m]]]
          /\ UNCHANGED fifo
     ELSE /\ fifo' = [fifo EXCEPT ![Kind[r]] = Append(@, r)]
          /\ UNCHANGED io
  /\ UNCHANGED <<rml, devs, dev, turn, cur, got, events, pc>>

\* The information on a medium of a read cannot be had, or forbids it: the
\* read was counted, its elements are taken out of the queues, and the error
\* ends the scheduler thread.
PushFails(r) ==
  /\ pc = "push" /\ state[r] = "new" /\ Kind[r] = "read" /\ events < MaxEvents
  /\ stats' = [stats EXCEPT !["read"] = @ + 1]
  /\ state' = [state EXCEPT ![r] = "lost"]
  /\ pc' = "stopped" /\ events' = events + 1
  /\ UNCHANGED <<io, fifo, rml, devs, dev, turn, cur, got>>

Dispatch ==
  /\ pc = "push"
  /\ \E s \in {Dispatched(io)} :
       IF Faulty(s) THEN Crash(s.fault) /\ UNCHANGED events
       ELSE /\ io' = s /\ pc' = "work"
            /\ UNCHANGED <<fifo, stats, rml, devs, dev, turn, cur, got, state, events>>

\* io_sched_peek_request, in any order of the hash table of the queues.
Peek ==
  /\ pc = "work" /\ cur = None
  /\ \E order \in SetToSeqs({m \in Media : io.rq[m] # <<>>}) :
     \E x \in {PeekRead(io, order)} :
       IF Faulty(x[1]) THEN Crash(x[1].fault) /\ UNCHANGED events
       ELSE \E c \in NextRequest(x[2], PeekFifo("write"), PeekFifo("format")) :
            /\ io' = x[1]
            /\ state' = [r \in Requests |-> IF r \in x[3] THEN "error" ELSE state[r]]
            /\ stats' = [stats EXCEPT !["read"] = @ - Cardinality(x[3])]
            /\ cur' = c[1] /\ turn' = c[2]
            /\ pc' = IF c[1] = None THEN "push" ELSE "work"
            /\ UNCHANGED <<fifo, rml, devs, dev, got, events>>

\* grouped_requeue: only the queues that start with the read are touched.
Requeue(s, r) ==
  LET heads == {m \in ToSet(rml[r].ids) : s.rq[m] # <<>> /\ s.rq[m][1] = r}
  IN IF heads = {} THEN s
     ELSE [s EXCEPT !.rq = [m \in Media |-> IF m \in heads
                                            THEN QueueInsert(Tail(@[m]), r) ELSE @[m]],
                    !.free[r] = @ \o s.used[r], !.used[r] = <<>>]

\* publish_or_cancel: the drives are handed their sub-requests or given back.
Granted(media) ==
  dev' = [d \in Drives |->
            IF Contains(got, d)
            THEN [dev[d] EXCEPT !.sched = FALSE,
                                !.sub = media[CHOOSE i \in 1..Len(got) : got[i] = d]]
            ELSE dev[d]]

GivenBack_Kept == UNCHANGED dev

GivenBack ==
  dev' = [d \in Drives |-> IF Contains(got, d) THEN [dev[d] EXCEPT !.sched = FALSE]
                           ELSE dev[d]]

EndWork == cur' = None /\ got' = <<>> /\ pc' = "push"

(* sched_handle_read_alloc *)

\* find_next_queue_for_request: first a queue that already has a drive.
NextQueue(s, r) ==
  LET heads == SelectSeq(s.free[r], LAMBDA m : s.rq[m] # <<>> /\ s.rq[m][1] = r)
      bound == SelectSeq(heads, LAMBDA m : s.owner[m] # None)
  IN IF bound # <<>> THEN bound[1] ELSE IF heads # <<>> THEN heads[1] ELSE None

\* grouped_get_device_medium_pair for the slot i of the read:
\* <<schedulers, held medium, drive>>.
TakePair(s, r, m, d) ==
  IF m = None \/ d = None THEN <<s, None, None>>
  ELSE <<[(IF s.owner[m] = d THEN s ELSE Associate(s, d, m))
            EXCEPT !.free[r] = Remove(@, m), !.used[r] = <<m>> \o @], m, d>>

DriveFor(s, m) ==
  IF m = None THEN None
  ELSE IF s.owner[m] # None THEN s.owner[m] ELSE CompatDevice(s, m)

GetFrom(s, r, m) == TakePair(s, r, m, DriveFor(s, m))

Forget(s, r, h, d) ==
  IF d # None /\ s.rq[h] # <<>> /\ s.rq[h][1] = r THEN Dissociate(s, d, h) ELSE s

GetNext(s, r) == GetFrom(s, r, NextQueue(s, r))

GetPair(s, r, i) ==
  LET h == rml[r].held[i]
  IN GetNext(Forget(s, r, h, FirstOr(s.list["read"],
                                     LAMBDA d : h # None /\ s.queue[d] = h)), r)

Swap(seq, i, j) == [seq EXCEPT ![i] = seq[j], ![j] = seq[i]]


\* rml_medium_update
RmlOk(l, i) == [l EXCEPT !.ids = Swap(@, i, l.alloc + 1), !.alloc = @ + 1]

RmlSkip(l, i) ==
  [l EXCEPT !.avail = @ - 1, !.ids = IF i < l.avail THEN Swap(@, i, l.avail) ELSE @]

RmlError(l, i) ==
  LET size == Len(l.ids)
      k == IF size - l.errors # l.avail
           THEN [l EXCEPT !.ids = Swap(@, i, size - l.errors)] ELSE l
  IN RmlSkip([k EXCEPT !.errors = @ + 1], i)

RmlRequeue(l) == [l EXCEPT !.avail = Len(l.ids) - l.errors, !.alloc = 0]

\* Slots to fill while the request is cur.
Slot == Len(got) + 1

Position(l, m) == CHOOSE i \in 1..Len(l.ids) : l.ids[i] = m

\* The request is requeued (-EAGAIN) or answered with an error.
ReadFails(s, l, again) ==
  IF ~again /\ ~Removable(s, l, cur) THEN Crash("remove") ELSE
  /\ io' = IF again THEN Requeue(s, cur) ELSE RemoveRead(s, cur)
  /\ rml' = [rml EXCEPT ![cur] = IF again THEN RmlRequeue(l) ELSE l]
  /\ state' = [state EXCEPT ![cur] = IF again THEN @ ELSE "error"]
  /\ stats' = [stats EXCEPT !["read"] = IF again THEN @ ELSE @ - 1]
  /\ GivenBack /\ EndWork
  /\ UNCHANGED <<fifo, devs, turn>>

\* skip_read_alloc_medium: try another medium, requeue or give up.  The drive
\* that could not be used is no longer reserved.
Skipped(s, l, fatal, d) ==
  LET l2 == IF fatal THEN RmlError(l, Slot) ELSE RmlSkip(l, Slot)
  IN IF l2.avail >= Need[cur]
     THEN /\ io' = s /\ rml' = [rml EXCEPT ![cur] = l2]
          /\ dev' = [e \in Drives |-> IF e = d THEN [dev[e] EXCEPT !.sched = FALSE]
                                      ELSE dev[e]]
          /\ UNCHANGED <<fifo, stats, devs, turn, cur, got, state, pc>>
     ELSE ReadFails(s, l2, Len(l2.ids) - l2.errors >= Need[cur])

\* sched_read_alloc_one_medium, one attempt.  The lock of the medium may be
\* refused (another host holds it).
ReadOne ==
  /\ pc = "work" /\ cur # None /\ Kind[cur] = "read" /\ Slot <= Need[cur]
  /\ \E x \in {GetPair(io, cur, Slot)}, refused \in {FALSE, events < MaxEvents} :
     LET l == [rml[cur] EXCEPT !.held[Slot] = x[2]]
         i == Position(l, x[2])
     IN /\ events' = IF refused THEN events + 1 ELSE events
        /\ IF io.free[cur] = <<>> THEN Skipped(io, rml[cur], TRUE, None)
           ELSE IF x[3] = None THEN Skipped(x[1], l, FALSE, None)
           ELSE IF i < Slot THEN Crash("slot")
           ELSE IF ~Ready(x[3]) THEN Skipped(x[1], RmlOk(l, i), FALSE, x[3])
           ELSE IF refused
           THEN Skipped(x[1], [RmlOk(l, i) EXCEPT !.held[Slot] = None], TRUE, x[3])
           ELSE /\ io' = x[1] /\ rml' = [rml EXCEPT ![cur] = RmlOk(l, i)]
                /\ dev' = [dev EXCEPT ![x[3]].sched = TRUE]
                /\ got' = Append(got, x[3])
                /\ UNCHANGED <<fifo, stats, devs, turn, cur, state, pc>>

ReadPublish ==
  /\ pc = "work" /\ cur # None /\ Kind[cur] = "read" /\ Slot > Need[cur]
  /\ UNCHANGED events
  /\ IF ~Removable(io, rml[cur], cur) THEN Crash("remove") ELSE
     /\ io' = RemoveRead(io, cur)
     /\ stats' = [stats EXCEPT !["read"] = @ - 1]
     /\ state' = [state EXCEPT ![cur] = "sent"]
     /\ Granted(rml[cur].held)
     /\ EndWork
     /\ UNCHANGED <<fifo, rml, devs, turn>>

(* sched_handle_write_alloc and sched_handle_format on the head of a fifo.  *)

FifoEnds_RequeuedUncounted(k, result) ==
  /\ fifo' = [fifo EXCEPT ![k] = IF result = "queued" THEN Append(Tail(@), cur)
                                 ELSE Tail(@)]
  /\ stats' = [stats EXCEPT ![k] = @ - 1]
  /\ state' = [state EXCEPT ![cur] = result]
  /\ EndWork
  /\ UNCHANGED <<rml, devs, turn>>

FifoEnds(k, result) ==
  /\ fifo' = [fifo EXCEPT ![k] = IF result = "queued" THEN Append(Tail(@), cur)
                                 ELSE Tail(@)]
  /\ stats' = [stats EXCEPT ![k] = IF result = "queued" THEN @ ELSE @ - 1]
  /\ state' = [state EXCEPT ![cur] = result]
  /\ EndWork
  /\ UNCHANGED <<rml, devs, turn>>

Own1(k) == SelectSeq(io.list[k], Ready)

Gives(d, m) == dev' = [dev EXCEPT ![d].sub = m]

\* What the locks of other hosts, or the DSS, may refuse: nothing, or one of
\* the media.
Refusals(S) ==
  {{}} \cup (IF events < MaxEvents THEN {{m} : m \in S} ELSE {})

\* A write (of one medium) takes a ready drive of its scheduler that holds a
\* writable medium, else loads a writable medium that no other drive uses and
\* whose lock is not refused.
Write ==
  /\ pc = "work" /\ cur # None /\ Kind[cur] = "write"
  /\ \E refused \in Refusals(Writable) :
     LET loaded == {d \in ToSet(Own1("write")) : dev[d].load \in Writable}
         fresh == {m \in Writable \ refused : InUse(m) = None}
         pairs == {p \in ToSet(Own1("write")) \X fresh : p[2] \in Compat[p[1]]}
     IN /\ events' = events + Cardinality(refused)
        /\ IF loaded # {}
           THEN \E d \in loaded : Gives(d, dev[d].load) /\ FifoEnds("write", "sent")
           ELSE IF pairs # {}
           THEN \E p \in pairs : Gives(p[1], p[2]) /\ FifoEnds("write", "sent")
           ELSE /\ UNCHANGED dev
                /\ FifoEnds("write", IF \E d \in ToSet(devs) : dev[d].up
                                     THEN "queued" ELSE "error")
  /\ UNCHANGED io

\* A format takes the drive that holds the medium, after an exchange if it
\* belongs to another scheduler; a busy one is an error.
FormatOn(m, d) ==
  \E s \in {IF d # None /\ "format" \notin io.type[d]
            THEN Exchange(io, "format", d) ELSE io} :
    IF Faulty(s) THEN Crash(s.fault)
    ELSE LET pick == IF d = None
                     THEN FirstOr(Own1("format"), LAMBDA e : m \in Compat[e])
                     ELSE IF "format" \in s.type[d] THEN d ELSE None
         IN /\ io' = s
            /\ IF pick = None
               THEN /\ UNCHANGED dev
                    /\ FifoEnds("format", IF Suitable(m) THEN "queued" ELSE "error")
               ELSE IF Ready(pick)
               THEN Gives(pick, m) /\ FifoEnds("format", "sent")
               ELSE UNCHANGED dev /\ FifoEnds("format", "error")

\* sched_handle_format
Format ==
  /\ pc = "work" /\ cur # None /\ Kind[cur] = "format"
  /\ FormatOn(Wants[cur][1], InUse(Wants[cur][1]))
  /\ UNCHANGED events

\* The information on the medium to format, or its lock, is refused: what the
\* search for a drive exchanged stays.
FormatRefused ==
  /\ pc = "work" /\ cur # None /\ Kind[cur] = "format" /\ events < MaxEvents
  /\ \E s \in {io} \cup (LET d == InUse(Wants[cur][1])
                         IN IF d # None /\ "format" \notin io.type[d]
                            THEN {Exchange(io, "format", d)} ELSE {}) :
       ~Faulty(s) /\ io' = s
  /\ UNCHANGED dev /\ FifoEnds("format", "error")
  /\ events' = events + 1
----------------------------------------------------------------------------
(* Device threads, and the administrator. *)

\* The drive has served its sub-request; the medium is loaded in it.
Served(d) ==
  /\ dev[d].up /\ dev[d].sub # None
  /\ \A e \in Drives \ {d} : dev[e].load # dev[d].sub
  /\ dev' = [dev EXCEPT ![d].load = dev[d].sub, ![d].sub = None]
  /\ UNCHANGED <<io, fifo, stats, rml, devs, turn, cur, got, state, events, pc>>

\* The sub-request failed and left the drive empty; the request ends in the
\* error path of the scheduler.
Failed(d) ==
  /\ dev[d].up /\ dev[d].sub # None
  /\ dev' = [dev EXCEPT ![d].load = None, ![d].sub = None]
  /\ UNCHANGED <<io, fifo, stats, rml, devs, turn, cur, got, state, events, pc>>

\* The device thread stops on an error: the drive stays in every list.
GoesOffline(d) ==
  /\ events < MaxEvents /\ Contains(devs, d) /\ dev[d].up
  /\ dev' = [dev EXCEPT ![d].up = FALSE, ![d].sub = None]
  /\ events' = events + 1
  /\ UNCHANGED <<io, fifo, stats, rml, devs, turn, cur, got, state, pc>>

\* lrs_dev_hdl_trydel and retrydel, from a notify handled by the thread.
RemoveDrive(d) ==
  /\ pc = "push" /\ events < MaxEvents /\ Contains(devs, d) /\ dev[d].sub = None
  /\ io' = [FoldLeft(LAMBDA s, k : RemoveDevice(s, k, d), io, Order)
              EXCEPT !.type[d] = {}]
  /\ devs' = IF devs[Len(devs)] = d THEN SubSeq(devs, 1, Len(devs) - 1)
             ELSE [i \in 1..(Len(devs) - 1) |->
                     IF devs[i] = d THEN devs[Len(devs)] ELSE devs[i]]
  /\ dev' = [dev EXCEPT ![d].up = TRUE, ![d].load = None]
  /\ events' = events + 1
  /\ UNCHANGED <<fifo, stats, rml, turn, cur, got, state, pc>>

\* sched_device_add
AddDrive(d) ==
  /\ pc = "push" /\ events < MaxEvents /\ ~Contains(devs, d)
  /\ devs' = Append(devs, d)
  /\ events' = events + 1
  /\ UNCHANGED <<io, fifo, stats, rml, dev, turn, cur, got, state, pc>>

Next ==
  \/ \E r \in Requests : Push(r) \/ PushFails(r)
  \/ Dispatch \/ Peek \/ ReadOne \/ ReadPublish
  \/ Write \/ Format \/ FormatRefused
  \/ \E d \in Drives : \/ Served(d) \/ Failed(d)
                       \/ GoesOffline(d) \/ RemoveDrive(d) \/ AddDrive(d)

Spec == Init /\ [][Next]_vars

----------------------------------------------------------------------------
(* Properties. *)

\* Lists hold drives, queues hold reads, and the counts are never negative.
TypeOK ==
  /\ io.type \in [Drives -> SUBSET Kinds] /\ ~Faulty(io)
  /\ \A k \in Kinds : ToSet(io.list[k]) \subseteq Drives
  /\ io.queue \in [Drives -> Media \cup {None}]
  /\ io.owner \in [Media -> Drives \cup {None}]
  /\ \A m \in Media : ToSet(io.rq[m]) \subseteq Of("read")
  /\ stats \in [Kinds -> Nat]
  /\ pc \in {"push", "work", "stopped"} \cup Causes

\* device->queue and queue->device of grouped_read are inverse of each other
\* across bindings, exchanges, deletions of queues and removals of drives.
OwnerInverse ==
  \A d \in Drives, m \in Media : io.queue[d] = m <=> io.owner[m] = d

\* A drive is bound only to a queue that still exists (it has a request), and
\* only while it belongs to the read scheduler: device->queue never dangles.
BoundQueues ==
  \A d \in Drives : io.queue[d] # None =>
     Contains(io.list["read"], d) /\ io.rq[io.queue[d]] # <<>>

\* io_stats, on which fair_share divides the drives, counts exactly the
\* requests that still wait, whether they were sent, requeued, refused or
\* cancelled.  Only a read that cannot be pushed stays counted, and the thread
\* ends with it.
StatsCount ==
  pc # "stopped" =>
  \A k \in Kinds : stats[k] = Cardinality({r \in Of(k) : state[r] = "queued"})

\* The free and used lists of a read are the elements it has in the queues; a
\* read that waits has one, a read that left has none, and only the read
\* being scheduled has used ones.
ReadKept ==
  \A r \in Of("read") :
     /\ ToSet(io.free[r]) \cup ToSet(io.used[r]) = {m \in Media : Contains(io.rq[m], r)}
     /\ state[r] = "queued" <=> io.free[r] \o io.used[r] # <<>>
     /\ cur # r => io.used[r] = <<>>

\* The queues, the reads in them and the drives that serve them agree on all
\* sides: a removed drive, an emptied queue, a cancelled read or an exchange
\* leaves no pointer behind.
QueuesBound == TypeOK /\ OwnerInverse /\ BoundQueues /\ ReadKept

Twice(seq) == Len(seq) # Cardinality(ToSet(seq))

\* A read that waits has lost the queue of one of its media, which no drive
\* of the read scheduler could read.
Narrowing == \E r \in Of("read") :
                state[r] = "queued" /\ \E m \in ToSet(Wants[r]) : ~Contains(io.rq[m], r)

\* A drive is in a list twice, or its type and the lists disagree.
Misplaced == \E k \in Kinds :
                \/ Twice(io.list[k])
                \/ \E d \in Drives : (k \in io.type[d]) # Contains(io.list[k], d)

SharedDrive == \E d \in Drives : Cardinality(io.type[d]) > 1


\* Between two requests no drive stays reserved (ld_ongoing_scheduled): a
\* selection that fails halfway gives back the drives it had taken.
Reserved == cur = None => \A d \in Drives : ~dev[d].sched
============================================================================
