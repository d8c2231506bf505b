---------------------------- MODULE MCAlgorithms ----------------------------
(***************************************************************************)
(* Four small algorithms: the fair share of the drives between the I/O     *)
(* schedulers, the order of the groups of a rebuild, the locate of an      *)
(* object and the cache of the media.  They share no state: a behaviour    *)
(* runs one of them, and the others stay in a state in which they have     *)
(* nothing to do.                                                          *)
(***************************************************************************)
EXTENDS FairShareLoop, RebuildSched, Locate, PhoCache

CONSTANTS m1, m2, m3, m4, m5, h1, h2, x, y, z

MCMedia == {m1, m2, m3, m4, m5}
MCLocateMedia == {x, y, z}

-----------------------------------------------------------------------------
(* Inputs of a rebuild.                                                    *)

\* A mirror read from one medium of one or two, a raid read from two, a raid
\* of which one extent is missing.
Pairs == {{m1, m2}, {m1, m3}, {m1, m4}, {m2, m3}, {m2, m4}, {m3, m4}}
Mirrored == {[avail |-> <<a>>, n |-> 1] : a \in {m1, m2, m3, m4}}
            \cup {[avail |-> <<m1, m2>>, n |-> 1], [avail |-> <<m1, m3>>, n |-> 1],
                  [avail |-> <<m2, m3>>, n |-> 1]}
Striped == {[avail |-> SetToSeq(p), n |-> 2] : p \in Pairs}
Stripes == Mirrored \cup Striped \cup {[avail |-> <<m1>>, n |-> 2]}

\* Four groups in a chain over five media, collected in any order.
Chain == LET link == <<{m1, m2}, {m2, m3}, {m3, m4}, {m4, m5}>>
         IN  {[i \in 1..4 |-> [avail |-> SetToSeq(link[p[i]]), n |-> 2]] :
                p \in {<<1, 2, 3, 4>>, <<2, 3, 1, 4>>, <<3, 2, 4, 1>>, <<4, 1, 2, 3>>}}

MCRebuilds ==
    {<<s>> : s \in UNION {[1..k -> Stripes] : k \in 1..3} \cup Chain}
    \cup {<<s, t>> : s \in [1..1 -> Stripes], t \in [1..2 -> Stripes]}

-----------------------------------------------------------------------------
(* Objects and hosts of a locate.                                          *)

AllMedia(k) == [m \in MCLocateMedia |-> k]
NoneHeld == [m \in MCLocateMedia |-> NoLock]
Stored(s, k, p, d) == [slots |-> s, n |-> k, per |-> p, dir |-> d]
Mirror == Stored(<<x, y>>, 1, 2, FALSE)
Raid4 == Stored(<<x, y, z>>, 2, 3, FALSE)
TwoSplits == Stored(<<x, Empty, y, z>>, 1, 2, FALSE)
OnDir == Stored(<<z>>, 1, 1, TRUE)
Room(k, l, a, o) == [locate |-> k, lrs |-> l, away |-> a, objs |-> o]

MCPlaces ==
    {[can |-> [h \in Hosts |-> AllMedia(2)], rows |-> NoneHeld, barred |-> {},
      room |-> Room(2, 1, 0, {Mirror, Raid4})],
     [can |-> [h \in Hosts |-> IF h = h1 THEN AllMedia(2) ELSE [AllMedia(2) EXCEPT ![y] = 0]],
      rows |-> [NoneHeld EXCEPT ![x] = Row(h2, h2, FALSE)], barred |-> {z},
      room |-> Room(2, 1, 0, {Mirror, Raid4})],
     [can |-> [h \in Hosts |-> IF h = h1 THEN AllMedia(1) ELSE AllMedia(2)],
      rows |-> [NoneHeld EXCEPT ![z] = Row(h1, h1, FALSE)], barred |-> {},
      room |-> Room(2, 0, 1, {TwoSplits, OnDir, Raid4})]}

-----------------------------------------------------------------------------
(* One of the four runs.                                                   *)

ShareIdle ==
    /\ stats = [k \in Kinds |-> 0] /\ n = 1 /\ share = [k \in Kinds |-> 0]
    /\ lo = [k \in Kinds |-> 0] /\ hi = [k \in Kinds |-> 0] /\ pc = "done"

RebuildIdle ==
    /\ jobs = <<<<>>>> /\ job = 1 /\ pending = {} /\ cur = {} /\ left = <<>> /\ done = <<>>
    /\ skipped = FALSE /\ mounts = [m \in Media |-> 0] /\ rpc = "end" /\ rrc = "none"

LocateIdle ==
    /\ rows = NoneHeld /\ can = [h \in Hosts |-> AllMedia(0)] /\ barred = {}
    /\ loc = [c \in Clients |-> NoLocate] /\ resv = {} /\ room = Room(0, 0, 0, {})

\* PhoCache has one initial state, the empty cache.
MCInit ==
    /\ Init
    /\ \/ ShareInit /\ RebuildIdle /\ LocateIdle
       \/ ShareIdle /\ RebuildInit /\ LocateIdle
       \/ ShareIdle /\ RebuildIdle /\ LocateInit
       \/ ShareIdle /\ RebuildIdle /\ LocateIdle

MCNext ==
    \/ ShareNext /\ UNCHANGED <<rebuildVars, locateVars, vars>>
    \/ RebuildNext /\ UNCHANGED <<shareVars, locateVars, vars>>
    \/ LocateNext /\ UNCHANGED <<shareVars, rebuildVars, vars>>
    \/ /\ RebuildIdle /\ LocateIdle /\ ShareIdle /\ Next
       /\ UNCHANGED <<shareVars, rebuildVars, locateVars>>

MCVars == <<shareVars, rebuildVars, locateVars, vars>>

\* compute_number_of_devices runs to its end in the thread of the scheduler.
MCSpec == MCInit /\ [][MCNext]_MCVars /\ WF_shareVars(ShareNext)
=============================================================================
