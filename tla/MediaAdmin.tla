---------------------------- MODULE MediaAdmin ----------------------------
(***************************************************************************)
(* The administration of media (src/admin): repack, removal of a medium,   *)
(* lost or not, and import, beside clients that put, delete and undelete   *)
(* objects.  Every transaction on the DSS and every request to the LRS is  *)
(* a step of its own.  An object has one copy, of one extent per replica   *)
(* (raid1).                                                                *)
(*                                                                         *)
(*   db.alive    uuid -> [version, oid]       db.dep    {<<uuid, version>>} *)
(*   db.copy     <<uuid, version>> -> status                               *)
(*   db.layout   <<uuid, version, replica>> -> extent                      *)
(*   db.extent   extent -> [medium, state, address, size], size 0 or 1     *)
(*   files[m]    the files that are on medium m                            *)
(***************************************************************************)
EXTENDS Naturals, FiniteSets, Functions

CONSTANTS
    Clients, Admins,
    Media, Uuids, MaxVersion, Replicas,
    OidOf,          \* OidOf[u]: the oid under which the object u was put
    Empty,          \* the versions <<uuid, version>> of size 0: their replicas are
                    \* files of size 0
    Firsts,         \* the contents of the system at first, with what is left
                    \* of the bounds: records [db, media, files, nx, used]
    Commands,       \* the commands this instance runs
    Faults,         \* the faults this instance lets happen
    Quiet,          \* no put uses a medium on which a command is at work
    None,
    MaxExtent, MaxPut, MaxCommand, MaxFault   \* bounds; a crash is a fault

ASSUME MediaAssumption ==
    /\ Replicas \in SUBSET Nat /\ Replicas # {}
    /\ Commands \subseteq {"repack", "lost", "remove", "import"}
    /\ Faults \subseteq {"read", "alloc", "copy", "dss", "release", "format", "crash"}
    /\ Empty \subseteq Uuids \X (1..MaxVersion)
    /\ Quiet \in BOOLEAN

Procs == Clients \cup Admins
Versions == 1..MaxVersion
Extents == 1..MaxExtent
Objects == Uuids \X Versions
Keys == Uuids \X Versions \X Replicas

VARIABLES db, media, files,
          mlock,    \* DSS lock of each medium: None or an admin process
          olock,    \* DSS lock of each oid: None or an admin process
          io,       \* the process that has each medium allocated by the LRS
          op,       \* the operation of each process
          nx, used, \* extents generated; counters of the bounds
          torn      \* objects that a defect described below has reached

vars == <<db, media, files, mlock, olock, io, op, nx, used, torn>>

Idle == [pc |-> "idle", u |-> None, v |-> 0, m |-> None, t |-> None, x |-> 0, y |-> 0,
         todo |-> {}, news |-> {}, out |-> <<>>, key |-> <<>>, st |-> "none", err |-> FALSE]

Init ==
    /\ \E first \in Firsts : /\ db = first.db /\ media = first.media /\ files = first.files
                            /\ nx = first.nx /\ used = first.used
    /\ mlock = [m \in Media |-> None]
    /\ olock = [o \in Range(OidOf) |-> None]
    /\ io = [m \in Media |-> None]
    /\ op = [p \in Procs |-> Idle]
    /\ torn = {}

-----------------------------------------------------------------------------
(* Shapes of a step.                                                       *)

At(p, pc) == op[p].pc = pc
Go(p, pc) == op' = [op EXCEPT ![p].pc = pc]
GoWith(p, rec) == op' = [op EXCEPT ![p] = rec]
End(p) == op' = [op EXCEPT ![p] = Idle]

Count(what) == [used EXCEPT ![what] = @ + 1]
Fault(f) == f \in Faults /\ used.fault < MaxFault /\ used' = Count("fault")

OnlyDb == UNCHANGED <<media, files, mlock, olock, io, nx>>
NoDss == UNCHANGED <<db, olock, torn>>

Put(f, S, val(_)) == [k \in DOMAIN f \cup S |-> IF k \in S THEN val(k) ELSE f[k]]
Drop(f, S) == Restrict(f, DOMAIN f \ S)

Other(o) == <<o, "import">>   \* the name an import gives to an oid in use
ObjectOf(k) == <<k[1], k[2]>>
Exists(d, k) == \/ k \in d.dep
                \/ k[1] \in DOMAIN d.alive /\ d.alive[k[1]].v = k[2]
On(d, m) == {x \in DOMAIN d.extent : d.extent[x].med = m}
Named(d) == Range(d.layout)
SizeOf(k) == IF k \in Empty THEN 0 ELSE 1

\* layout_raid1_get_availability, and no layout at all.  The sizes of the
\* extents are summed up: an empty object is complete with any of its replicas.
Availability(d, k) ==
    LET rows == {l \in DOMAIN d.layout : ObjectOf(l) = k /\ d.layout[l] \in DOMAIN d.extent}
    IN  CASE rows = {} -> "incomplete"
          [] k \in Empty \/ Cardinality(rows) = Cardinality(Replicas) -> "complete"
          [] OTHER -> "readable"

-----------------------------------------------------------------------------
(* The LRS: a medium that nobody else has locked is loaded, and one        *)
(* request at a time has it.  The LRS keeps the lock of a medium after its *)
(* release, until some later unload: mlock leaves its locks out, and an    *)
(* administrator who tries to lock a medium may find it locked.  An        *)
(* allocation is never taken back when its client goes away.               *)

Usable(m) == mlock[m] = None /\ io[m] = None
Busy(m) == \E p \in Admins : op[p].pc # "idle" /\ m \in {op[p].m, op[p].t}
InFlight(m) == \E p \in Clients : m \in Range(op[p].out)
Writable(m) ==
    /\ media[m].row /\ media[m].fs \in {"empty", "used"} /\ Usable(m)
    /\ Quiet => ~Busy(m)

Take(p, S) == io' = [m \in Media |-> IF m \in S THEN p ELSE io[m]]
Give(S) == io' = [m \in Media |-> IF m \in S THEN None ELSE io[m]]

-----------------------------------------------------------------------------
(* Clients.  An overwrite makes the previous version deprecated.           *)

NextVersion(u) == IF u \in DOMAIN db.alive THEN db.alive[u].v + 1 ELSE 1
\* A uuid is alive under the oid, or is generated by the put.
Puts(u) ==
    \/ u \in DOMAIN db.alive
    \/ /\ \A k \in db.dep \cup DOMAIN db.copy : k[1] # u
       /\ \A m \in Media : \A f \in files[m] : f.key[1] # u
       /\ \A w \in DOMAIN db.alive : db.alive[w].oid # OidOf[u]

PutBegin(p, u) ==
    /\ At(p, "idle") /\ used.put < MaxPut /\ Puts(u) /\ NextVersion(u) <= MaxVersion
    /\ olock[OidOf[u]] = None
    /\ LET v == NextVersion(u)
           oid == IF v > 1 THEN db.alive[u].oid ELSE OidOf[u]
           dep == IF v > 1 THEN {<<u, v - 1>>} ELSE {}
       IN  /\ db' = [db EXCEPT !.alive = Put(@, {u}, LAMBDA k : [v |-> v, oid |-> oid]),
                               !.dep = @ \cup dep,
                               !.copy = Put(@, {<<u, v>>}, LAMBDA k : "incomplete")]
           /\ GoWith(p, [Idle EXCEPT !.pc = "alloc", !.u = u, !.v = v])
    /\ used' = Count("put")
    /\ OnlyDb /\ UNCHANGED torn

PutAlloc(p) ==
    /\ At(p, "alloc")
    /\ \E out \in Injection(Replicas, {m \in Media : Writable(m)}) :
          Take(p, Range(out)) /\ GoWith(p, [op[p] EXCEPT !.pc = "write", !.out = out])
    /\ UNCHANGED <<db, media, files, mlock, olock, nx, used, torn>>

Mine(p) == {<<op[p].u, op[p].v, i>> : i \in Replicas}
NewExtent(p, i) == op[p].x + Cardinality({j \in Replicas : j <= i})

\* The data is written and synchronised; some of the media become full.
PutWrite(p) ==
    /\ At(p, "write") /\ nx + Cardinality(Replicas) <= MaxExtent
    /\ nx' = nx + Cardinality(Replicas)
    /\ GoWith(p, [op[p] EXCEPT !.pc = "extents", !.x = nx])
    /\ files' = [m \in Media |-> files[m] \cup
            {[addr |-> nx + Cardinality({j \in Replicas : j <= i}),
              key |-> <<op[p].u, op[p].v, i>>, whole |-> TRUE, tagged |-> TRUE] :
                 i \in {j \in Replicas : op[p].out[j] = m}}]
    /\ \E full \in SUBSET Range(op[p].out) :
          media' = [m \in Media |-> IF m \in Range(op[p].out)
                                    THEN [media[m] EXCEPT !.fs = IF m \in full THEN "full" ELSE "used"]
                                    ELSE media[m]]
    /\ Give(Range(op[p].out))
    /\ UNCHANGED <<db, mlock, olock, used, torn>>

PutExtents(p) ==
    /\ At(p, "extents") /\ Go(p, "layout")
    /\ db' = [db EXCEPT !.extent =
                  Put(@, {NewExtent(p, i) : i \in Replicas},
                      LAMBDA x : [med |-> op[p].out[CHOOSE i \in Replicas : NewExtent(p, i) = x],
                                  st |-> "sync", addr |-> x,
                                  size |-> SizeOf(<<op[p].u, op[p].v>>)])]
    /\ OnlyDb /\ UNCHANGED <<used, torn>>

PutLayout(p) ==
    /\ At(p, "layout") /\ Go(p, "complete")
    /\ db' = [db EXCEPT !.layout = Put(@, Mine(p), LAMBDA k : NewExtent(p, k[3]))]
    /\ OnlyDb /\ UNCHANGED <<used, torn>>

SetStatus(k, st) == IF k \in DOMAIN db.copy THEN [db EXCEPT !.copy[k] = st] ELSE db

PutComplete(p) ==
    /\ At(p, "complete") /\ End(p)
    /\ db' = SetStatus(<<op[p].u, op[p].v>>, "complete")
    /\ OnlyDb /\ UNCHANGED <<used, torn>>

Delete(p, u) ==
    /\ At(p, "idle") /\ used.put < MaxPut /\ u \in DOMAIN db.alive /\ olock[OidOf[u]] = None
    /\ db.alive[u].oid = OidOf[u]
    /\ db' = [db EXCEPT !.alive = Drop(@, {u}), !.dep = @ \cup {<<u, db.alive[u].v>>}]
    /\ used' = Count("put")
    /\ OnlyDb /\ UNCHANGED <<op, torn>>

Undelete(p, k) ==
    /\ At(p, "idle") /\ used.put < MaxPut /\ k \in db.dep /\ olock[OidOf[k[1]]] = None
    /\ k[1] \notin DOMAIN db.alive /\ \A w \in DOMAIN db.alive : db.alive[w].oid # OidOf[k[1]]
    /\ db' = [db EXCEPT !.dep = @ \ {k},
                        !.alive = Put(@, {k[1]}, LAMBDA u : [v |-> k[2], oid |-> OidOf[u]])]
    /\ used' = Count("put")
    /\ OnlyDb /\ UNCHANGED <<op, torn>>

ClientStep(p) ==
    \/ \E u \in Uuids : PutBegin(p, u) \/ Delete(p, u)
    \/ \E k \in Objects : Undelete(p, k)
    \/ PutAlloc(p) \/ PutWrite(p) \/ PutExtents(p) \/ PutLayout(p) \/ PutComplete(p)

-----------------------------------------------------------------------------
(* Commands of the administrator.  A command is started on a medium of the *)
(* media table (on one that is not there for an import).                   *)

Starts(p, cmd, m, pc) ==
    /\ At(p, "idle") /\ cmd \in Commands /\ used.command < MaxCommand
    /\ media[m].row = (cmd # "import")
    /\ Quiet => ~Busy(m) /\ ~InFlight(m) /\ io[m] = None /\ (cmd = "repack" => media[m].fs = "full")
    /\ GoWith(p, [Idle EXCEPT !.pc = pc, !.m = m, !.st = cmd])
    /\ used' = Count("command")
    /\ UNCHANGED <<db, media, files, mlock, olock, io, nx, torn>>

(* phobos_admin_repack.                                                    *)

\* dss_update_gc_for_tape, first transaction: every deprecated version of a
\* uuid that has a layout on the tape, and the layouts of these versions.
Collected(d, m) ==
    LET U == {k[1] : k \in {l \in DOMAIN d.layout :
                                d.layout[l] \in DOMAIN d.extent /\ d.extent[d.layout[l]].med = m}}
        gone == {k \in d.dep : k[1] \in U}
    IN  [d EXCEPT !.dep = @ \ gone,
                  !.layout = Drop(@, {l \in DOMAIN @ : ObjectOf(l) \in gone})]

\* A version may disappear while its put is still at work: its layout will
\* then have no object.
RepackGc(p) ==
    /\ At(p, "gc")
    /\ \/ /\ db' = Collected(db, op[p].m) /\ Go(p, "orphan")
          /\ torn' = torn \cup {k \in db.dep \ db'.dep :
                                  \E c \in Clients : k = <<op[c].u, op[c].v>>}
          /\ UNCHANGED used
       \/ Fault("dss") /\ End(p) /\ UNCHANGED <<db, torn>>
    /\ OnlyDb

SetState(d, S, st) ==
    [d EXCEPT !.extent = [x \in DOMAIN @ |-> IF x \in S THEN [@[x] EXCEPT !.st = st] ELSE @[x]]]

\* check_orphan: the second transaction.
Unnamed(d, m) == On(d, m) \ Named(d)

RepackOrphan(p) ==
    /\ At(p, "orphan")
    /\ \/ db' = SetState(db, Unnamed(db, op[p].m), "orphan") /\ Go(p, "list") /\ UNCHANGED used
       \/ Fault("dss") /\ End(p) /\ UNCHANGED db
    /\ OnlyDb /\ UNCHANGED torn

\* _sum_extent_size: when the extents that are not orphan have size 0 in all,
\* because there is none or because they are empty, the tape is formatted
\* without a copy.
RepackList(p) ==
    /\ At(p, "list")
    /\ LET live == {x \in On(db, op[p].m) : db.extent[x].st # "orphan"}
           empty == \A x \in live : db.extent[x].size = 0
       IN  GoWith(p, [op[p] EXCEPT !.todo = live, !.pc = IF empty THEN "format" ELSE "source"])
    /\ NoDss /\ UNCHANGED <<media, files, mlock, io, nx, used>>

\* The read allocation of the source fails when another host has its lock.
RepackSource(p) ==
    LET m == op[p].m IN
    /\ At(p, "source")
    /\ \/ Usable(m) /\ Take(p, {m}) /\ Go(p, "target")
       \/ mlock[m] # None /\ End(p) /\ UNCHANGED io
    /\ NoDss /\ UNCHANGED <<media, files, mlock, nx, used>>

\* The write allocation asks for an empty medium; without one it fails and
\* the source is released.
RepackTarget(p) ==
    LET empty == {t \in Media : Writable(t) /\ media[t].fs = "empty"} IN
    /\ At(p, "target")
    /\ \/ \E t \in empty : Take(p, {t}) /\ GoWith(p, [op[p] EXCEPT !.pc = "copy", !.t = t])
       \/ empty = {} /\ Give({op[p].m}) /\ End(p)
    /\ NoDss /\ UNCHANGED <<media, files, mlock, nx, used>>

FileOf(d, x) == CHOOSE f \in files[d.extent[x].med] : f.addr = d.extent[x].addr
HasFile(d, x) == \E f \in files[d.extent[x].med] : f.addr = d.extent[x].addr

\* copy_extent: the address and three attributes of the file are kept, the
\* ones an import needs are not.  An error while the source is read leaves
\* rc to 0: the file is cut short and the copy is reported as done.
RepackCopy(p) ==
    /\ At(p, "copy") /\ nx < MaxExtent
    /\ \E x \in op[p].todo :
        \/ /\ HasFile(db, x)
           /\ \E whole \in BOOLEAN :
                /\ IF whole THEN UNCHANGED used ELSE Fault("read")
                /\ files' = [files EXCEPT ![op[p].t] = @ \cup
                       {[FileOf(db, x) EXCEPT !.tagged = FALSE, !.whole = @ /\ whole]}]
           /\ nx' = nx + 1
           /\ GoWith(p, [op[p] EXCEPT !.pc = "insert", !.x = x, !.y = nx + 1])
        \/ /\ IF HasFile(db, x) THEN Fault("copy") ELSE UNCHANGED used
           /\ Go(p, "abort") /\ UNCHANGED <<files, nx>>
    /\ NoDss /\ UNCHANGED <<media, mlock, io>>

RepackInsert(p) ==
    LET o == op[p] IN
    /\ At(p, "insert")
    /\ \/ /\ db' = [db EXCEPT !.extent = Put(@, {o.y}, LAMBDA y :
                        [db.extent[o.x] EXCEPT !.med = o.t, !.st = "pending"])]
          /\ GoWith(p, [o EXCEPT !.todo = @ \ {o.x}, !.news = @ \cup {<<o.x, o.y>>},
                                 !.pc = IF o.todo = {o.x} THEN "release" ELSE "copy"])
          /\ UNCHANGED used
       \/ Fault("dss") /\ Go(p, "abort") /\ UNCHANGED db
    /\ OnlyDb /\ UNCHANGED torn

\* Both media are released; the synchronisation of the target may fail.
RepackRelease(p) ==
    LET o == op[p] IN
    /\ At(p, "release") /\ Give({o.m, o.t})
    /\ media' = [media EXCEPT ![o.t].fs = "used"]
    /\ \/ GoWith(p, [o EXCEPT !.pc = "migrate", !.todo = o.news]) /\ UNCHANGED used
       \/ Fault("release") /\ Go(p, "abort")
    /\ NoDss /\ UNCHANGED <<files, mlock, nx>>

\* Mutant: the layouts keep the old extent.
Migrated_KeepLayout(d, x, y) == SetState(SetState(d, {x}, "orphan"), {y}, "sync")

\* dss_update_extent_migrate.
Migrated(d, x, y) ==
    LET moved == [d EXCEPT !.layout = [l \in DOMAIN @ |-> IF @[l] = x THEN y ELSE @[l]]]
    IN  SetState(SetState(moved, {x}, "orphan"), {y}, "sync")

RepackMigrate(p) ==
    /\ At(p, "migrate")
    /\ \/ \E e \in op[p].todo :
            /\ db' = Migrated(db, e[1], e[2])
            /\ GoWith(p, [op[p] EXCEPT !.todo = @ \ {e},
                               !.pc = IF op[p].todo = {e} THEN "format" ELSE "migrate"])
            /\ UNCHANGED used
       \/ Fault("dss") /\ Go(p, "abort") /\ UNCHANGED db
    /\ OnlyDb /\ UNCHANGED torn

\* free_ext: every new extent becomes orphan, those that layouts name since a
\* first migration included.  The media allocated for the copy are not
\* released.
RepackAbort(p) ==
    LET news == {e[2] : e \in op[p].news} IN
    /\ At(p, "abort") /\ End(p)
    /\ db' = SetState(db, news, "orphan")
    /\ torn' = torn \cup {ObjectOf(l) : l \in {k \in DOMAIN db.layout : db.layout[k] \in news}}
    /\ OnlyDb /\ UNCHANGED used

\* The LRS refuses a medium that is busy or locked by someone else.
RepackFormat(p) ==
    LET m == op[p].m IN
    /\ At(p, "format")
    /\ \/ /\ Usable(m) /\ Go(p, "clean")
          /\ files' = [files EXCEPT ![m] = {}]
          /\ media' = [media EXCEPT ![m].fs = "empty"]
          /\ UNCHANGED used
       \/ ~Usable(m) /\ End(p) /\ UNCHANGED <<files, media, used>>
       \/ Fault("format") /\ End(p) /\ UNCHANGED <<files, media>>
    /\ NoDss /\ UNCHANGED <<mlock, io, nx>>

\* _clean_database_following_format: all the extents of the medium.
RepackClean(p) ==
    /\ At(p, "clean")
    /\ GoWith(p, [op[p] EXCEPT !.todo = On(db, op[p].m), !.pc = "forget"])
    /\ NoDss /\ UNCHANGED <<media, files, mlock, io, nx, used>>

RepackForget(p) ==
    /\ At(p, "forget") /\ End(p)
    /\ \/ db' = [db EXCEPT !.extent = Drop(@, op[p].todo)] /\ UNCHANGED used
       \/ Fault("dss") /\ UNCHANGED db
    /\ OnlyDb /\ UNCHANGED torn

RepackStep(p) ==
    \/ \E m \in Media : Starts(p, "repack", m, "gc")
    \/ RepackGc(p) \/ RepackOrphan(p) \/ RepackList(p) \/ RepackSource(p) \/ RepackTarget(p)
    \/ RepackCopy(p) \/ RepackInsert(p) \/ RepackRelease(p) \/ RepackMigrate(p)
    \/ RepackAbort(p) \/ RepackFormat(p) \/ RepackClean(p) \/ RepackForget(p)

-----------------------------------------------------------------------------
(* phobos_admin_media_delete.                                              *)

\* dss_lock: a medium locked by the LRS or by another process is skipped.
DeleteLock(p) ==
    LET m == op[p].m IN
    /\ At(p, "lock")
    /\ \/ Usable(m) /\ mlock' = [mlock EXCEPT ![m] = p] /\ Go(p, "count")
       \/ UNCHANGED mlock /\ End(p)
    /\ NoDss /\ UNCHANGED <<media, files, io, nx, used>>

DeleteCount(p) ==
    /\ At(p, "count")
    /\ Go(p, CASE op[p].st = "lost" -> "listlost"
               [] op[p].st = "remove" /\ On(db, op[p].m) = {} -> "row"
               [] OTHER -> "unlock")
    /\ NoDss /\ UNCHANGED <<media, files, mlock, io, nx, used>>

\* delete_media_and_extents.
LostList(p) ==
    /\ At(p, "listlost")
    /\ GoWith(p, [op[p] EXCEPT !.pc = "lost", !.todo = On(db, op[p].m), !.news = On(db, op[p].m)])
    /\ NoDss /\ UNCHANGED <<media, files, mlock, io, nx, used>>

\* get_layout_from_extent: an extent without layout is skipped.
LostExtent(p) ==
    LET o == op[p] IN
    /\ At(p, "lost")
    /\ \/ o.todo = {} /\ Go(p, "extents_lost")
       \/ \E x \in o.todo :
            LET K == {l \in DOMAIN db.layout : db.layout[l] = x}
            IN  \/ K = {} /\ GoWith(p, [o EXCEPT !.todo = @ \ {x}])
                \/ \E l \in K : GoWith(p, [o EXCEPT !.todo = @ \ {x}, !.x = x, !.key = l, !.pc = "layout_lost"])
    /\ NoDss /\ UNCHANGED <<media, files, mlock, io, nx, used>>

LostLayout(p) ==
    LET o == op[p] IN
    /\ At(p, "layout_lost")
    /\ \/ /\ db' = [db EXCEPT !.layout = IF o.key \in DOMAIN @ /\ @[o.key] = o.x
                                          THEN Drop(@, {o.key}) ELSE @]
          /\ Go(p, "availability") /\ UNCHANGED used
       \/ Fault("dss") /\ Go(p, "unlock") /\ UNCHANGED db
    /\ OnlyDb /\ UNCHANGED torn

\* Mutant: the status of the copy is not computed again.
Status_Kept(k) == IF k \in DOMAIN db.copy THEN db.copy[k] ELSE "incomplete"

\* update_copy_availability reads the layouts in one transaction and writes
\* the status in another.
Status(k) == Availability(db, k)

Availabilities(p, pc, then) ==
    /\ At(p, pc)
    /\ GoWith(p, [op[p] EXCEPT !.st = Status(ObjectOf(op[p].key)), !.pc = then])
    /\ NoDss /\ UNCHANGED <<media, files, mlock, io, nx, used>>

\* An error between the two leaves a status that no later removal corrects.
LostStatus(p) ==
    LET k == ObjectOf(op[p].key) IN
    /\ At(p, "availability_write")
    /\ \/ db' = SetStatus(k, op[p].st) /\ Go(p, "lost") /\ UNCHANGED <<used, torn>>
       \/ Fault("dss") /\ Go(p, "unlock") /\ torn' = torn \cup {k} /\ UNCHANGED db
    /\ OnlyDb

LostExtents(p) ==
    /\ At(p, "extents_lost")
    /\ \/ /\ db' = [db EXCEPT !.extent = Drop(@, op[p].news)]
          /\ Go(p, "row") /\ UNCHANGED used
       \/ Fault("dss") /\ Go(p, "unlock") /\ UNCHANGED db
    /\ OnlyDb /\ UNCHANGED torn

DeleteRow(p) ==
    /\ At(p, "row") /\ Go(p, "unlock")
    /\ \/ media' = [media EXCEPT ![op[p].m].row = FALSE] /\ UNCHANGED used
       \/ Fault("dss") /\ UNCHANGED media
    /\ NoDss /\ UNCHANGED <<files, mlock, io, nx>>

DeleteUnlock(p) ==
    /\ At(p, "unlock") /\ End(p)
    /\ mlock' = [mlock EXCEPT ![op[p].m] = None]
    /\ NoDss /\ UNCHANGED <<media, files, io, nx, used>>

DeleteStep(p) ==
    \/ \E m \in Media, cmd \in {"lost", "remove"} : Starts(p, cmd, m, "lock")
    \/ DeleteLock(p) \/ DeleteCount(p) \/ LostList(p) \/ LostExtent(p) \/ LostLayout(p)
    \/ Availabilities(p, "availability", "availability_write") \/ LostStatus(p) \/ LostExtents(p)
    \/ DeleteRow(p) \/ DeleteUnlock(p)

-----------------------------------------------------------------------------
(* phobos_admin_media_import.                                              *)

ImportRow(p) ==
    /\ At(p, "import") /\ Go(p, "read")
    /\ media' = [media EXCEPT ![op[p].m] = [row |-> TRUE, fs |-> "importing"]]
    /\ NoDss /\ UNCHANGED <<files, mlock, io, nx, used>>

\* A read allocation that the LRS refuses leaves the medium importing.
ImportRead(p) ==
    LET m == op[p].m IN
    /\ At(p, "read")
    /\ \/ /\ Usable(m) /\ Take(p, {m}) /\ UNCHANGED used
          /\ GoWith(p, [op[p] EXCEPT !.pc = "file", !.todo = files[m]])
       \/ Fault("alloc") /\ End(p) /\ UNCHANGED io
    /\ NoDss /\ UNCHANGED <<media, files, mlock, nx>>

\* An error ends the exploration of the directory of the file.  In a
\* subdirectory more of its files may be left out and the error is forgotten;
\* in the root directory everything is left out and the error is kept.  The
\* lock of the oid, once taken, is not released.
ImportStops(p, rest) ==
    \/ \E left \in SUBSET rest.todo : GoWith(p, [rest EXCEPT !.pc = "file", !.todo = left])
    \/ GoWith(p, [rest EXCEPT !.pc = "file", !.todo = {}, !.err = TRUE])
ImportError(p) == ImportStops(p, op[p])

\* A file without the attributes of phobos cannot be imported, and is not
\* counted (nb_new_obj); one whose import fails later is.
ImportFile(p) ==
    /\ At(p, "file")
    /\ \E f \in op[p].todo :
        LET seen == [op[p] EXCEPT !.todo = @ \ {f}, !.x = f.addr, !.key = f.key]
            rest == IF f.tagged THEN [seen EXCEPT !.y = 1] ELSE seen
            oid == OidOf[f.key[1]]
        IN  \/ /\ f.tagged /\ olock[oid] = None
               /\ olock' = [olock EXCEPT ![oid] = p]
               /\ GoWith(p, [rest EXCEPT !.pc = "object"])
            \/ /\ ~f.tagged \/ olock[oid] # None
               /\ ImportStops(p, rest)
               /\ UNCHANGED olock
    /\ UNCHANGED <<db, media, files, mlock, io, nx, used, torn>>

Unknown == {w \in Uuids : /\ w \notin DOMAIN db.alive
                          /\ \A k \in db.dep \cup DOMAIN db.copy : k[1] # w
                          /\ \A m \in Media : \A f \in files[m] : f.key[1] # w}

Enters(u, v, oid) == [db EXCEPT !.alive = Put(@, {u}, LAMBDA w : [v |-> v, oid |-> oid])]

\* _add_object_to_dss.  When the oid only has deprecated versions the insert
\* generates a new uuid, which the copy and the layout do not follow.  A
\* version collected by a repack has left its copy, whose status is old.  The
\* error of the insert of an unknown oid (its uuid is alive under another one)
\* or of a deprecated version is overwritten by the result of the copy's.
ImportObject(p) ==
    LET u == op[p].key[1]
        v == op[p].key[2]
        k == <<u, v>>
        oid == OidOf[u]
        alive == {w \in DOMAIN db.alive : db.alive[w].oid = oid}
        dep == {d \in db.dep : OidOf[d[1]] = oid}
        Deprecate == db' = [db EXCEPT !.dep = @ \cup {k}] /\ Go(p, "copy_row")
        taken == u \in DOMAIN db.alive
        lone == alive = {} /\ dep # {}
        unheeded == \/ alive = {} /\ dep = {}
                    \/ u \notin alive /\ \E d \in dep : d[1] = u
    IN  /\ At(p, "object")
        /\ \/ Exists(db, k) /\ UNCHANGED <<db, used>> /\ Go(p, "extent")
           \/ /\ ~Exists(db, k) /\ UNCHANGED used
              /\ \/ /\ alive = {} /\ dep = {} /\ Go(p, "copy_row")
                    /\ db' = IF taken THEN db ELSE Enters(u, v, oid)
                 \/ /\ alive = {u} /\ v > db.alive[u].v
                    /\ db' = [db EXCEPT !.alive = Drop(@, {u}),
                                        !.dep = @ \cup {<<u, db.alive[u].v>>}]
                    /\ Go(p, "object_row")
                 \/ alive = {u} /\ v < db.alive[u].v /\ Deprecate
                 \/ /\ alive # {} /\ u \notin alive
                    /\ \/ (\E d \in dep : d[1] = u) /\ Deprecate
                       \/ /\ \A d \in dep : d[1] # u
                          /\ IF taken THEN ImportError(p) /\ UNCHANGED db
                             ELSE db' = Enters(u, v, Other(oid)) /\ Go(p, "copy_row")
                 \/ /\ lone
                    /\ \E w \in Unknown : db' = Enters(w, 1, oid)
                    /\ Go(p, "copy_row")
           \/ /\ ~Exists(db, k) /\ Fault("dss") /\ UNCHANGED db
              /\ IF unheeded THEN Go(p, "copy_row") ELSE ImportError(p)
        /\ torn' = IF ~Exists(db, k) /\ (k \in DOMAIN db.copy \/ lone \/ (alive = {} /\ taken)
                                         \/ (unheeded /\ used' # used))
                   THEN torn \cup {k} ELSE torn
        /\ OnlyDb

\* The newer version takes the place of the one made deprecated; an error or
\* a crash here leaves the oid without an alive object.
ImportObjectRow(p) ==
    LET u == op[p].key[1]
        v == op[p].key[2]
    IN  /\ At(p, "object_row")
        /\ \/ db' = Enters(u, v, OidOf[u]) /\ Go(p, "copy_row") /\ UNCHANGED used
           \/ Fault("dss") /\ ImportError(p) /\ UNCHANGED db
        /\ OnlyDb /\ UNCHANGED torn

\* dss_copy_insert, the last call of each branch of _add_object_to_dss.
ImportCopy(p) ==
    LET k == ObjectOf(op[p].key) IN
    /\ At(p, "copy_row")
    /\ \/ /\ k \notin DOMAIN db.copy /\ Go(p, "extent") /\ UNCHANGED used
          /\ db' = [db EXCEPT !.copy = Put(@, {k}, LAMBDA l : "incomplete")]
       \/ /\ IF k \in DOMAIN db.copy THEN UNCHANGED used ELSE Fault("dss")
          /\ ImportError(p) /\ UNCHANGED db
    /\ OnlyDb /\ UNCHANGED torn

\* _add_extent_to_dss: a replica that is already known is an error.
Known(p) == \/ op[p].key \in DOMAIN db.layout /\ db.layout[op[p].key] \in DOMAIN db.extent
            \/ op[p].x \in DOMAIN db.extent

ImportExtent(p) ==
    /\ At(p, "extent")
    /\ IF Known(p)
       THEN ImportError(p) /\ UNCHANGED db
       ELSE /\ db' = [db EXCEPT !.extent = Put(@, {op[p].x}, LAMBDA x :
                           [med |-> op[p].m, st |-> "sync", addr |-> x,
                            size |-> SizeOf(ObjectOf(op[p].key))])]
            /\ Go(p, "layout_row")
    /\ OnlyDb /\ UNCHANGED <<used, torn>>

ImportLayout(p) ==
    /\ At(p, "layout_row")
    /\ \/ /\ op[p].key \notin DOMAIN db.layout
          /\ db' = [db EXCEPT !.layout = Put(@, {op[p].key}, LAMBDA l : op[p].x)]
          /\ olock' = [olock EXCEPT ![OidOf[op[p].key[1]]] = None]
          /\ Go(p, "file") /\ UNCHANGED used
       \/ /\ IF op[p].key \in DOMAIN db.layout THEN UNCHANGED used ELSE Fault("dss")
          /\ ImportError(p) /\ UNCHANGED <<db, olock>>
    /\ UNCHANGED <<media, files, mlock, io, nx, torn>>

\* _dev_media_update, then the release.  An error kept in the root directory
\* leaves the medium out of use; a medium without a file that could be read as
\* one of phobos becomes empty, whatever is on it.
ImportEnd(p) ==
    LET o == op[p] IN
    /\ At(p, "file") /\ o.todo = {} /\ Give({o.m})
    /\ media' = [media EXCEPT ![o.m].fs = CASE o.err -> "importing"
                                             [] o.y = 0 -> "empty"
                                             [] OTHER -> "used"]
    /\ Go(p, "copies")
    /\ NoDss /\ UNCHANGED <<files, mlock, nx, used>>

\* The copies that are not complete, those of a put at work included.
ImportCopies(p) ==
    /\ At(p, "copies")
    /\ GoWith(p, [op[p] EXCEPT !.pc = "next_copy",
                      !.todo = {k \in DOMAIN db.copy : db.copy[k] # "complete"}])
    /\ NoDss /\ UNCHANGED <<media, files, mlock, io, nx, used>>

ImportNextCopy(p) ==
    LET o == op[p] IN
    /\ At(p, "next_copy")
    /\ \/ o.todo = {} /\ End(p)
       \/ \E k \in o.todo : GoWith(p, [o EXCEPT !.todo = @ \ {k}, !.key = k, !.pc = "refresh"])
    /\ NoDss /\ UNCHANGED <<media, files, mlock, io, nx, used>>

\* A status computed before a removal may be written after it.
ImportStatus(p) ==
    LET k == ObjectOf(op[p].key) IN
    /\ At(p, "refresh_write") /\ Go(p, "next_copy")
    /\ db' = SetStatus(k, op[p].st)
    /\ torn' = IF op[p].st = Availability(db, k) THEN torn ELSE torn \cup {k}
    /\ OnlyDb /\ UNCHANGED used

ImportStep(p) ==
    \/ \E m \in Media : Starts(p, "import", m, "import")
    \/ ImportRow(p) \/ ImportRead(p) \/ ImportFile(p) \/ ImportObject(p) \/ ImportObjectRow(p)
    \/ ImportCopy(p)
    \/ ImportExtent(p) \/ ImportLayout(p) \/ ImportEnd(p) \/ ImportCopies(p)
    \/ ImportNextCopy(p) \/ Availabilities(p, "refresh", "refresh_write") \/ ImportStatus(p)

\* A command dies: its locks and its allocations stay.
Crash(p) ==
    /\ op[p].pc # "idle" /\ Fault("crash") /\ End(p)
    /\ mlock' = [m \in Media |-> IF mlock[m] = p THEN "dead" ELSE mlock[m]]
    /\ olock' = [o \in DOMAIN olock |-> IF olock[o] = p THEN "dead" ELSE olock[o]]
    /\ io' = [m \in Media |-> IF io[m] = p THEN "dead" ELSE io[m]]
    /\ torn' = IF op[p].pc \in {"availability", "availability_write"}
               THEN torn \cup {ObjectOf(op[p].key)} ELSE torn
    /\ UNCHANGED <<db, media, files, nx>>

Next ==
    \/ \E p \in Clients : ClientStep(p)
    \/ \E p \in Admins : RepackStep(p) \/ DeleteStep(p) \/ ImportStep(p) \/ Crash(p)

Spec == Init /\ [][Next]_vars

-----------------------------------------------------------------------------
\* The tables, the tapes and their files, the locks and the operations in
\* progress have their types.
TypeOK ==
    /\ \E U \in SUBSET Uuids : db.alive \in [U -> [v : Versions, oid : {OidOf[u] : u \in Uuids}
                                             \cup {Other(OidOf[u]) : u \in Uuids}]]
    /\ db.dep \subseteq Objects
    /\ DOMAIN db.copy \subseteq Objects
    /\ Range(db.copy) \subseteq {"incomplete", "readable", "complete"}
    /\ DOMAIN db.layout \subseteq Keys /\ Range(db.layout) \subseteq Extents
    /\ DOMAIN db.extent \subseteq Extents
    /\ Range(db.extent) \subseteq [med : Media, st : {"pending", "sync", "orphan"}, addr : Extents, size : {0, 1}]
    /\ media \in [Media -> [row : BOOLEAN, fs : {"empty", "used", "full", "importing"}]]
    /\ \A m \in Media : files[m] \subseteq [addr : Extents, key : Keys, whole : BOOLEAN, tagged : BOOLEAN]
    /\ mlock \in [Media -> Admins \cup {None, "dead"}]
    /\ io \in [Media -> Procs \cup {None, "dead"}]
    /\ torn \subseteq Objects /\ nx \in 0..MaxExtent

Sound(k) == k \notin torn
Kept(k) == Sound(k) /\ k \notin Empty

\* Whatever commands are interrupted and wherever they fail, a layout belongs to
\* an object, alive or deprecated, and the layout of an object that has data names
\* a synchronised extent on a known medium, where the replica is.  Repack erases a
\* tape after its extents have been migrated, and would not copy an extent marked
\* as orphan; a removal takes the layouts away before the extents, an import adds
\* them after; the collector takes the layouts of a version away with it.  An
\* empty object is left out, because repack erases a tape that only has empty
\* extents without copying them (admin.c:1574); so are the objects of a repack
\* that fails between two migrations and the others that torn holds.
ReplicaThere ==
    TypeOK /\ \A l \in DOMAIN db.layout :
        /\ Sound(ObjectOf(l)) => Exists(db, ObjectOf(l))
        /\ Kept(ObjectOf(l)) =>
             /\ db.layout[l] \in DOMAIN db.extent
             /\ LET e == db.extent[db.layout[l]]
                IN  /\ e.st = "sync" /\ media[e.med].row
                    /\ \E f \in files[e.med] : f.addr = e.addr /\ f.key = l

\* A copy said complete has all its replicas (an empty one, whose sizes are all
\* that raid1.c:660 compares, at least a layout), a copy said readable has one,
\* while a removal is not between its transactions on the copy.
NeverOverclaims ==
    \A k \in DOMAIN db.copy :
        LET rows == {l \in DOMAIN db.layout : ObjectOf(l) = k}
            enough == IF k \in Empty THEN 1 ELSE Cardinality(Replicas)
            removing == \E p \in Admins : /\ op[p].pc \in {"availability", "availability_write"}
                                          /\ ObjectOf(op[p].key) = k
        IN  (Sound(k) /\ ~removing /\ Exists(db, k)) =>
               /\ db.copy[k] = "complete" => Cardinality(rows) >= enough
               /\ db.copy[k] = "readable" => rows # {}

\* The file of a replica holds all of its data.
WholeData ==
    \A l \in DOMAIN db.layout : db.layout[l] \in DOMAIN db.extent =>
        LET e == db.extent[db.layout[l]]
        IN  \A f \in files[e.med] : f.addr = e.addr => f.whole
=============================================================================
