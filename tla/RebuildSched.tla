--------------------------- MODULE RebuildSched ----------------------------
(***************************************************************************)
(* The rebuild of media (phobos_admin_media_rebuild in src/admin/admin.c,  *)
(* src/admin/rebuild.c): the extents of a medium are grouped by the media  *)
(* they are rebuilt from, and the groups taken one after the other so that *)
(* few media have to be mounted and unmounted.                             *)
(*                                                                         *)
(* An extent is a record [avail, n]: the media of the other extents of its *)
(* split, in the order of the layout, and how many of them a rebuild       *)
(* reads.  The number of an extent is its rank by creation time.           *)
(***************************************************************************)
EXTENDS Naturals, Sequences, FiniteSets, SequencesExt

CONSTANTS Media,
          Rebuilds,     \* the possible inputs: for each medium to rebuild, its extents
          MaxBroken     \* bound: failing copies

VARIABLES
    jobs,       \* the input
    job,        \* the medium being rebuilt
    pending,    \* keys of the groups left (pending_groups)
    cur,        \* key of the current group (curr_media), {} for NULL
    left,       \* extents of the current group not rebuilt yet
    done,       \* <<job, extent>> rebuilt, in order
    skipped,    \* an extent could not be rebuilt
    mounts,     \* how often each medium was mounted for this job
    rpc, rrc    \* control, and the result of the command

\* What is rebuilt is a medium at least, and an extent is read from one medium
\* at least.
Extent == [avail : Seq(Media), n : Nat \ {0}]
ASSUME RebuildsAssumption == Rebuilds \subseteq Seq(Seq(Extent)) \ {<<>>}

rebuildVars == <<jobs, job, pending, cur, left, done, skipped, mounts, rpc, rrc>>

-----------------------------------------------------------------------------
(* Grouping.                                                               *)

Extents == jobs[job]

\* collect_rebuild_extents_and_frequency.
Collected(i) == Len(Extents[i].avail) >= Extents[i].n

Frequency(m) == Cardinality({i \in DOMAIN Extents : Collected(i) /\ m \in Range(Extents[i].avail)})

\* choose_media_with_max_frequency: the first of the most frequent.
MostFrequent(s) ==
    s[CHOOSE p \in DOMAIN s : \A q \in DOMAIN s :
        IF q < p THEN Frequency(s[q]) < Frequency(s[p]) ELSE Frequency(s[q]) <= Frequency(s[p])]

\* group_extents: every available medium if all are needed, else only one.
Key(i) ==
    LET e == Extents[i] IN
    IF e.n = Len(e.avail) THEN Range(e.avail) ELSE {MostFrequent(e.avail)}

\* The items of a group, sorted by creation time.
Items(k) == {i \in DOMAIN Extents : Collected(i) /\ Key(i) = k}
Members(k) == CHOOSE s \in [1..Cardinality(Items(k)) -> Items(k)] :
                 \A p, q \in DOMAIN s : p < q => s[p] < s[q]

-----------------------------------------------------------------------------
(* The scores of a group.                                                  *)

\* candidate_cost: media to unmount and media to mount.
Cost(k) == IF cur = {} THEN Cardinality(k)
           ELSE Cardinality(cur) + Cardinality(k) - 2 * Cardinality(cur \cap k)

\* future_score_candidate.
FutureScore(k) == MapThenSumSet(LAMBDA g : Cardinality(g \cap k), pending \ {k})

\* build_media_usage, group_overlap_degree.
Usage(m) == Cardinality({g \in pending : m \in g})
Degree(k) == MapThenSumSet(LAMBDA m : Usage(m) - 1, k)

Weight(k) == Len(Members(k))

\* Mutant: the most central group starts.
BetterStart_Central(k, b) == Degree(k) > Degree(b) \/ (Degree(k) = Degree(b) /\ Weight(k) > Weight(b))

BetterStart(k, b) == Degree(k) < Degree(b) \/ (Degree(k) = Degree(b) /\ Weight(k) > Weight(b))

BetterNext(k, b) ==
    \/ Cost(k) < Cost(b)
    \/ Cost(k) = Cost(b) /\ FutureScore(k) > FutureScore(b)
    \/ Cost(k) = Cost(b) /\ FutureScore(k) = FutureScore(b) /\ Degree(k) < Degree(b)
    \/ /\ Cost(k) = Cost(b) /\ FutureScore(k) = FutureScore(b) /\ Degree(k) = Degree(b)
       /\ Weight(k) > Weight(b)

\* find_best_group: which of equally good groups comes first is the order of
\* the hash table.
StartGroups ==
    LET linked == {k \in pending : Degree(k) > 0}
        all == IF linked = {} THEN pending ELSE linked
    IN  {k \in all : \A g \in all : ~BetterStart(g, k)}
NextGroups == {k \in pending : \A g \in pending : ~BetterNext(g, k)}

\* rebuild_scheduler_next, choose_start_group, choose_next_group.
BestGroups ==
    IF cur = {} THEN StartGroups
    ELSE UNION {IF cur \cap k = {} THEN StartGroups ELSE {k} : k \in NextGroups}

-----------------------------------------------------------------------------
(* The command.                                                            *)

RebuildInit ==
    /\ jobs \in Rebuilds /\ job = 1
    /\ pending = {} /\ cur = {} /\ left = <<>> /\ done = <<>> /\ skipped = FALSE
    /\ mounts = [m \in Media |-> 0]
    /\ rpc = "collect" /\ rrc = "none"

\* Mutant: what was skipped is forgotten with each medium.
Skips_Last == \E i \in DOMAIN Extents : ~Collected(i)

Skips == skipped \/ \E i \in DOMAIN Extents : ~Collected(i)

\* The extents of a medium are collected and grouped.
Collect ==
    /\ rpc = "collect" /\ rpc' = "next"
    /\ pending' = {Key(i) : i \in {j \in DOMAIN Extents : Collected(j)}}
    /\ skipped' = Skips
    /\ cur' = {} /\ mounts' = [m \in Media |-> 0]
    /\ UNCHANGED <<jobs, job, left, done, rrc>>

\* select_group.  A medium is mounted unless the previous group used it.
SelectGroup ==
    /\ rpc = "next" /\ pending # {} /\ rpc' = "copy"
    /\ \E k \in BestGroups :
          /\ pending' = pending \ {k} /\ cur' = k /\ left' = Members(k)
          /\ mounts' = [m \in Media |-> mounts[m] + (IF m \in k \ cur THEN 1 ELSE 0)]
    /\ UNCHANGED <<jobs, job, done, skipped, rrc>>

\* rebuild_copy, for each extent of the group.
RebuildCopy ==
    /\ rpc = "copy" /\ left # <<>>
    /\ done' = Append(done, <<job, Head(left)>>) /\ left' = Tail(left)
    /\ UNCHANGED <<jobs, job, pending, cur, skipped, mounts, rpc, rrc>>

\* The first error is returned at once.
RebuildFails ==
    /\ rpc = "copy" /\ left # <<>> /\ MaxBroken > 0
    /\ rpc' = "end" /\ rrc' = "error"
    /\ UNCHANGED <<jobs, job, pending, cur, left, done, skipped, mounts>>

GroupDone ==
    /\ rpc = "copy" /\ left = <<>> /\ rpc' = "next"
    /\ UNCHANGED <<jobs, job, pending, cur, left, done, skipped, mounts, rrc>>

\* The next medium, or the result.
JobDone ==
    /\ rpc = "next" /\ pending = {}
    /\ IF job < Len(jobs)
       THEN job' = job + 1 /\ rpc' = "collect" /\ UNCHANGED rrc
       ELSE rpc' = "end" /\ rrc' = (IF skipped THEN "nodata" ELSE "ok") /\ UNCHANGED job
    /\ UNCHANGED <<jobs, pending, cur, left, done, skipped, mounts>>

RebuildNext == Collect \/ SelectGroup \/ RebuildCopy \/ RebuildFails \/ GroupDone \/ JobDone

RebuildSpec == RebuildInit /\ [][RebuildNext]_rebuildVars

-----------------------------------------------------------------------------
\* The groups that are left, the media to load and the position of the job have
\* their types.
RebuildTypeOK ==
    /\ job \in DOMAIN jobs /\ pending \subseteq SUBSET Media /\ cur \subseteq Media
    /\ left \in Seq(DOMAIN Extents) /\ skipped \in BOOLEAN /\ mounts \in [Media -> Nat]
    /\ rpc \in {"collect", "next", "copy", "end"} /\ rrc \in {"none", "ok", "nodata", "error"}

\* No extent is rebuilt twice, none is read from fewer media than it needs, and
\* "ok" is returned only when every extent of every medium has been rebuilt,
\* "nodata" only when those that lack sources are the ones left.
RebuiltOnce ==
    /\ RebuildTypeOK /\ IsInjective(done)
    /\ \A x \in Range(done) : Len(jobs[x[1]][x[2]].avail) >= jobs[x[1]][x[2]].n
    /\ rrc \in {"ok", "nodata"} =>
          \A j \in DOMAIN jobs : \A i \in DOMAIN jobs[j] :
              <<j, i>> \notin Range(done) =>
                  rrc = "nodata" /\ Len(jobs[j][i].avail) < jobs[j][i].n

\* While a group shares a medium with the current one the next group does too:
\* no tape is taken out of its drive to start elsewhere (rebuild.h: "tries to
\* minimize media changes, keep useful media mounted").  It is the cost that
\* says so, and only for keys of one or two media.
KeepsMounted ==
    rpc = "next" /\ cur # {} /\ (\E g \in pending : g \cap cur # {}) =>
        \A k \in BestGroups : k \cap cur # {}

\* The groups of a job form chains: a medium links two groups at most, and no
\* set of groups is a ring.
Groups == {Key(i) : i \in {j \in DOMAIN Extents : Collected(j)}}
Chains ==
    /\ \A m \in Media : Cardinality({k \in Groups : m \in k}) <= 2
    /\ \A G \in (SUBSET Groups) \ {{}} : \E k \in G : Cardinality({g \in G \ {k} : g \cap k # {}}) <= 1
    /\ \A k \in Groups, g \in Groups : k # g => Cardinality(k \cap g) <= 1

\* group_overlap_degree: to start from an edge "avoids starting in the middle of
\* a chain and then having to come back later": with chains, no medium is
\* mounted twice.
NeverComesBack == Chains => \A m \in Media : mounts[m] <= 1

\* The order of the groups keeps media in their drives, from one group to the
\* next and over a whole chain.
FewChanges == KeepsMounted /\ NeverComesBack
=============================================================================
