------------------------------- MODULE Locate -------------------------------
(***************************************************************************)
(* phobos_locate (src/store/store.c, src/layout/raid_common_locate.c): the *)
(* host from which an object is best read, and weak locks that reserve for *)
(* it enough media of every split of the object.                           *)
(*                                                                         *)
(* Several clients locate at the same time, each DSS query being one step, *)
(* while the LRS of the hosts take the media they load and release those   *)
(* they unload.  The date of the last locate, which delays the unloading,  *)
(* is left out: an LRS may unload any medium, as when it is configured not *)
(* to look at the date or the date has passed.                             *)
(***************************************************************************)
EXTENDS DssLockTable, Naturals, Sequences, FiniteSets, SequencesExt

CONSTANTS Hosts, LocateMedia, Clients, Empty,
          Places            \* the possible first states: [can, rows, barred, room]

\* The room of a state bounds what happens in it: how many locates, media taken
\* by an LRS and hosts that lose their devices, and the objects that are located,
\* [slots, n, per, dir].  The n data extents of a split are among the `per' consecutive slots of the
\* layout; the slot of a missing extent is Empty.  A dir is always locked by
\* the host it is on.

\* What a slot can hold once it has been read: a host, nobody, or no extent.
Nobody == "nobody"
Gone == "gone"

Layouts ==
    {o \in [slots : Seq(LocateMedia \cup {Empty}), n : Nat \ {0}, per : Nat \ {0}, dir : BOOLEAN] :
        o.slots # <<>> /\ Len(o.slots) % o.per = 0 /\ o.n <= o.per}

\* What stands for nothing is none of the things, and a client is no LRS.
ASSUME LocateNames ==
    /\ Clients \cap Hosts = {} /\ {Nobody, Gone} \cap Hosts = {} /\ Empty \notin LocateMedia
    /\ NoLock \notin [host : Hosts, owner : Hosts \cup Clients, weak : BOOLEAN]

\* At first a medium is free, or locked by the LRS of a host.
ASSUME PlacesAssumption ==
    \A p \in Places :
        /\ p.can \in [Hosts -> [LocateMedia -> Nat]]
        /\ p.rows \in [LocateMedia -> {Row(h, h, FALSE) : h \in Hosts} \cup {NoLock}]
        /\ p.room \in [locate : Nat, lrs : Nat, away : Nat, objs : SUBSET Layouts]

VARIABLES
    rows,       \* the DSS locks of media
    can,        \* can[h][m]: usable devices of h that can read m
    barred,     \* media that are admin locked or not open to get
    loc,        \* the locate of each client
    resv,       \* ghost: what the locates promised, [by, host, obj, mine, on, calm]
    room        \* the bounds: [locate, lrs, away, objs]

locateVars == <<rows, can, barred, loc, resv, room>>

NoLocate == [pc |-> "idle"]
Spend(what) == room[what] > 0 /\ room' = [room EXCEPT ![what] = @ - 1]

LocateInit ==
    /\ \E p \in Places : can = p.can /\ rows = p.rows /\ barred = p.barred /\ room = p.room
    /\ loc = [c \in Clients |-> NoLocate]
    /\ resv = {}

SlotsIn(l) == DOMAIN l.obj.slots
Medium(l, i) == l.obj.slots[i]
Splits(l) == 1..(Len(l.obj.slots) \div l.obj.per)
SplitOf(l, i) == (i - 1) \div l.obj.per + 1
SlotsOf(l, s) == {i \in SlotsIn(l) : SplitOf(l, i) = s}

Set(c, l) == loc' = [loc EXCEPT ![c] = l]

-----------------------------------------------------------------------------
(* Reading.                                                                *)

\* phobos_locate finds the object, its copy and its layout; raid_locate then
\* reads the usable devices of every host.
LocateBegin(c, o, focus) ==
    /\ loc[c].pc = "idle" /\ Spend("locate")
    /\ Set(c, [pc |-> "read", obj |-> o, focus |-> focus, dev |-> can, at |-> 1,
               seen |-> [i \in DOMAIN o.slots |-> Gone], host |-> focus,
               got |-> [s \in 1..(Len(o.slots) \div o.per) |-> 0], taken |-> {}, stale |-> {}])
    /\ UNCHANGED <<rows, can, barred, resv>>

\* dss_medium_locate.
Located(l, i) ==
    LET m == Medium(l, i) IN
    CASE m = Empty \/ m \in barred -> Gone
      [] m \notin barred \cup {Empty} /\ IsLocked(rows, m) -> rows[m].host
      [] OTHER -> IF l.obj.dir THEN Gone ELSE Nobody

\* locate_all_extents, one extent; the first split with too few of them ends it.
ReadExtent(c) ==
    LET l == loc[c]
        i == l.at
        seen == [l.seen EXCEPT ![i] = Located(l, i)]
        enough == Cardinality({j \in SlotsOf(l, SplitOf(l, i)) : seen[j] # Gone}) >= l.obj.n
    IN
    /\ l.pc = "read" /\ UNCHANGED <<rows, can, barred, resv, room>>
    /\ \/ /\ i % l.obj.per = 0 /\ ~enough /\ Set(c, NoLocate)
       \/ /\ i % l.obj.per # 0 \/ enough
          /\ Set(c, [l EXCEPT !.seen = seen, !.at = i + 1,
                              !.pc = IF i = Len(l.obj.slots) THEN "choose" ELSE "read"])

-----------------------------------------------------------------------------
(* The choice of the host, without any query.                              *)

\* setup_available_hosts: the hosts with a device, and the focus host.
Known(l) == {l.focus} \cup {h \in Hosts : \E m \in LocateMedia : l.dev[h][m] > 0}

\* count_compatible_devices.
Compatible(l, h, i) == l.dev[h][Medium(l, i)]

\* has_compatible_devices, set_host_extent_accessibility.
Accessible(l, h, i) == l.seen[i] \in {h, Nobody} /\ Compatible(l, h, i) > 0

\* filter_inaccessible_extents.
Kept(l) == {i \in SlotsIn(l) : \E h \in Known(l) : Accessible(l, h, i)}

\* unaccessible_split
Readable(l) == \A s \in Splits(l) : Cardinality(SlotsOf(l, s) \cap Kept(l)) >= l.obj.n

\* filter_host_with_partial_access: n devices are asked for each extent.
FullAccess(l, h) ==
    \A s \in Splits(l) :
        Cardinality({i \in SlotsOf(l, s) \cap Kept(l) :
                        Accessible(l, h, i) /\ Compatible(l, h, i) >= l.obj.n}) >= l.obj.n

\* find_best_host: the most locks, n at most counted per split; the focus host
\* among equals, else the order of the hash table.
Owned(l, h, s) == Cardinality({i \in SlotsOf(l, s) \cap Kept(l) : l.seen[i] = h})
Locks(l, h) == MapThenSumSet(LAMBDA s : IF Owned(l, h, s) > l.obj.n THEN l.obj.n ELSE Owned(l, h, s),
                             Splits(l))
BestHosts(l) ==
    LET able == {h \in Known(l) : FullAccess(l, h)}
        most == {h \in able : \A g \in able : Locks(l, g) <= Locks(l, h)}
    IN  IF l.focus \in most THEN {l.focus} ELSE most

\* The assertion of set_host_extent_accessibility: the host that holds a medium
\* is known to have a device.
HolderKnown(l) == \A i \in SlotsIn(l) : l.seen[i] \in Known(l) \cup {Nobody, Gone}

Choose(c) ==
    LET l == loc[c] IN
    /\ l.pc = "choose" /\ UNCHANGED <<rows, can, barred, resv, room>>
    /\ \/ ~HolderKnown(l) /\ Set(c, [pc |-> "aborted"])
       \/ HolderKnown(l) /\ (~Readable(l) \/ BestHosts(l) = {}) /\ Set(c, NoLocate)
       \/ /\ HolderKnown(l) /\ Readable(l)
          /\ \E h \in BestHosts(l) :
                Set(c, [l EXCEPT !.pc = "lock", !.host = h, !.focus = h, !.at = 1,
                                 !.seen = [i \in SlotsIn(l) |-> IF i \in Kept(l) THEN l.seen[i] ELSE Gone],
                                 !.got = [s \in Splits(l) |-> Owned(l, h, s)]])

-----------------------------------------------------------------------------
(* The reservation: lock_extents, cleanup_locks.                           *)

\* Mutant: an extent less than needed.
Lacking_ByOne(l, s) == l.got[s] + 1 < l.obj.n

Lacking(l, s) == l.got[s] < l.obj.n

\* Mutant: the lock is not recorded for the cleanup.
Taken_Not(l, i) == [l EXCEPT !.got[SplitOf(l, i)] = @ + 1]

Taken(l, i) == [l EXCEPT !.got[SplitOf(l, i)] = @ + 1, !.taken = @ \cup {i}]

\* dss_lock_weak, in the name of the chosen host.
Reserve(c, h, m) == BasicLock(rows, m, h, c, TRUE)

\* One slot: it is left alone if its split has enough, or has no extent or no
\* compatible device; somebody may have taken the lock since it was read.  The
\* end of a split that is short ends the locate.
LockExtent(c) ==
    LET l == loc[c]
        i == l.at
        s == SplitOf(l, i)
        m == Medium(l, i)
        try == Lacking(l, s) /\ l.seen[i] # Gone /\ Compatible(l, l.host, i) > 0
        takes == try /\ BasicLockApplies(rows, m)
        next == IF takes THEN Taken(l, i) ELSE l
    IN
    /\ l.pc = "lock" /\ i \in SlotsIn(l)
    /\ rows' = IF takes THEN Reserve(c, l.host, m) ELSE rows
    /\ Set(c, [next EXCEPT !.at = i + 1,
                           !.pc = IF i % l.obj.per = 0 /\ Lacking(next, s) THEN "cleanup" ELSE "lock"])
    /\ UNCHANGED <<can, barred, resv, room>>

\* Ghost: the promise rests on the media that were taken, and on those that the
\* host was seen to hold.
LocateReturns(c) ==
    LET l == loc[c]
        mine == {Medium(l, i) : i \in l.taken}
        seen == {Medium(l, i) : i \in {j \in SlotsIn(l) : l.seen[j] = l.host}}
    IN
    /\ l.pc = "lock" /\ l.at \notin SlotsIn(l) /\ Set(c, NoLocate)
    /\ resv' = resv \cup {[by |-> c, host |-> l.host, obj |-> l.obj, mine |-> mine,
                           on |-> mine \cup seen, calm |-> (mine \cup seen) \cap l.stale = {}]}
    /\ UNCHANGED <<rows, can, barred, room>>

\* Ghost: a medium is given back.  The promises of S that rest on it are over,
\* and a locate under way that has read it as held, or taken it, is mistaken.
Over(S, m) == {[r EXCEPT !.calm = @ /\ ~(r \in S /\ m \in r.on)] : r \in resv}
Mistaken(L, m) ==
    [c \in Clients |->
       IF /\ L[c].pc \in {"read", "choose", "lock", "cleanup"}
          /\ \E i \in SlotsIn(L[c]) : Medium(L[c], i) = m /\ (L[c].seen[i] \in Hosts \/ i \in L[c].taken)
       THEN [L[c] EXCEPT !.stale = @ \cup {m}] ELSE L[c]]

\* dss_unlock deletes a weak row whoever took it.  Two kinds of promises end
\* that should not: those of a locate that read this row as a lock its host
\* would keep, and, if an LRS has used and released the medium since, those of
\* a locate that took it after.
Drop(c) ==
    LET l == loc[c]
        m == Medium(l, Min(l.taken))
        less == [loc EXCEPT ![c].taken = @ \ {Min(@)}]
    IN
    /\ l.pc = "cleanup" /\ l.taken # {} /\ UNCHANGED <<can, barred, room>>
    /\ \/ /\ UnlockApplies(rows, m, l.host, c) /\ rows' = Unlock(rows, m)
          /\ resv' = Over({r \in resv : m \notin r.mine \/ m \in l.stale}, m)
          /\ loc' = Mistaken(less, m)
       \/ /\ ~UnlockApplies(rows, m, l.host, c) /\ loc' = less /\ UNCHANGED <<rows, resv>>

LocateFails(c) ==
    /\ loc[c].pc = "cleanup" /\ loc[c].taken = {} /\ Set(c, NoLocate)
    /\ UNCHANGED <<rows, can, barred, resv, room>>

Locates(c) ==
    \/ \E o \in room.objs, focus \in Hosts : LocateBegin(c, o, focus)
    \/ ReadExtent(c) \/ Choose(c) \/ LockExtent(c) \/ LocateReturns(c) \/ Drop(c) \/ LocateFails(c)

-----------------------------------------------------------------------------
(* The hosts.                                                              *)

LrsTakes(h, m) ==
    /\ Spend("lrs")
    /\ can[h][m] > 0 /\ PossessApplies(rows, m, h) /\ rows' = Possess(rows, m, h, h)
    /\ UNCHANGED <<can, barred, loc, resv>>

\* What was promised of a medium that its host releases is over.
LrsReleases(h, m) ==
    /\ StrongBy(rows, m, h, h) /\ rows' = Unlock(rows, m)
    /\ resv' = Over(resv, m) /\ loc' = Mistaken(loc, m)
    /\ UNCHANGED <<can, barred, room>>

\* The administrator locks the devices of a host.
DevicesLocked(h) ==
    /\ Spend("away")
    /\ can' = [can EXCEPT ![h] = [m \in LocateMedia |-> 0]]
    /\ UNCHANGED <<rows, barred, loc, resv>>

LocateNext ==
    \/ \E c \in Clients : Locates(c)
    \/ \E h \in Hosts : DevicesLocked(h) \/ \E m \in LocateMedia : LrsTakes(h, m) \/ LrsReleases(h, m)

LocateSpec == LocateInit /\ [][LocateNext]_locateVars

-----------------------------------------------------------------------------
\* The rows of the lock table are weak exactly for the locates, strong for the
\* LRS, and the locates in progress have their types.
LocateTypeOK ==
    /\ \A m \in LocateMedia : IsLocked(rows, m) =>
          rows[m].host \in Hosts /\ (rows[m].weak <=> rows[m].owner \in Clients)
    /\ \A h \in Hosts : can[h] \in [LocateMedia -> Nat]
    /\ \A c \in Clients :
          loc[c] = NoLocate \/ loc[c].pc = "aborted" \/
          /\ loc[c].pc \in {"read", "choose", "lock", "cleanup"}
          /\ loc[c].taken \subseteq {i \in SlotsIn(loc[c]) : loc[c].seen[i] # Gone}
          /\ \A s \in Splits(loc[c]) : loc[c].got[s] <= loc[c].obj.per

\* "This function locks to the returned node the minimum adequate number of
\* media ... to ensure that the returned node will be able to get this object"
\* (locate.md): from the return of a locate on, the host holds n media of every
\* split, whatever other locates take and give back meanwhile, until its LRS
\* releases one.  A promise that rests on the lock of a locate which then fails
\* is left out: the code makes it, and it does not hold.
Ensured ==
    \A r \in {x \in resv : x.calm} : \A s \in 1..(Len(r.obj.slots) \div r.obj.per) :
        Cardinality({i \in DOMAIN r.obj.slots :
            /\ (i - 1) \div r.obj.per + 1 = s /\ r.obj.slots[i] # Empty
            /\ IsLocked(rows, r.obj.slots[i]) /\ rows[r.obj.slots[i]].host = r.host}) >= r.obj.n

\* A weak lock belongs to a locate under way, or to one that has returned the
\* host it was taken for: a locate that fails leaves none behind, and nobody
\* else would ever delete it.
NoWeakLockLeft ==
    LocateTypeOK /\ \A m \in LocateMedia : IsLocked(rows, m) /\ rows[m].weak =>
        \/ \E c \in Clients : /\ rows[m].owner = c /\ loc[c].pc \in {"lock", "cleanup"}
                              /\ \E i \in loc[c].taken : Medium(loc[c], i) = m
        \/ \E r \in resv : rows[m].owner = r.by /\ rows[m].host = r.host /\ m \in r.mine
=============================================================================
