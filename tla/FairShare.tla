----------------------------- MODULE FairShare -----------------------------
(***************************************************************************)
(* The fair share of the tape drives of one technology between the three   *)
(* I/O schedulers of the LRS (lrs/io_schedulers/                           *)
(* device_dispatch_algorithms.c): how many drives each scheduler should    *)
(* own, from the number of requests it has (stats) and from the range      *)
(* [lo, hi] the configuration gives it.  The weights of the code are       *)
(* quotients of doubles; here every quantity is exact, multiplied by       *)
(* 2 * n * (number of requests), so that the weight of a full scheduler    *)
(* can be halved between the two others.                                   *)
(***************************************************************************)
EXTENDS Integers, FiniteSets

Kinds == {"read", "write", "format"}

Total(f) == f["read"] + f["write"] + f["format"]

Least(a, b) == IF a < b THEN a ELSE b

Clamp(v, lo, hi) == Least(IF v < lo THEN lo ELSE v, hi)

\* Schedulers that take no further drive: full, or without a request.
MaxReached(stats, share, hi) ==
  {k \in Kinds : share[k] = hi[k] \/ stats[k] = 0}

\* The sum of the minima of the schedulers that have a request.
MinDevices(stats, lo) ==
  Total([k \in Kinds |-> IF stats[k] > 0 THEN lo[k] ELSE 0])

\* Too few drives for the minima: from one drive to the minimum.
Short(stats, n, lo) == n > 2 /\ n < MinDevices(stats, lo)

Floor1(stats, n, lo) ==
  IF Short(stats, n, lo) THEN [k \in Kinds |-> Least(1, lo[k])] ELSE lo

Ceiling1(stats, n, lo, hi) == IF Short(stats, n, lo) THEN lo ELSE hi

\* The first approximation: the weight of the scheduler, within its range.
\* With one or two drives each scheduler with requests has one.
WeightedShare(stats, n, lo, hi) ==
  [k \in Kinds |->
     IF stats[k] = 0 \/ n = 0 THEN 0
     ELSE Clamp(IF n \in 1..2 THEN 1 ELSE (stats[k] * n) \div Total(stats),
                lo[k], hi[k])]

\* Two drives: the scheduler with most requests gets both.
HeaviestToTwo(stats, share, hi) ==
  LET full == MaxReached(stats, share, hi)
      r == stats["read"]  w == stats["write"]  f == stats["format"]
      pick == IF r > w
              THEN IF "read" \notin full /\ r > f THEN {"read"}
                   ELSE IF "format" \notin full /\ f > w THEN {"format"}
                   ELSE {"write"} \ full
              ELSE IF "write" \notin full /\ w > f THEN {"write"}
                   ELSE IF "format" \notin full /\ f > w THEN {"format"}
                   ELSE {"read"} \ full
  IN [k \in Kinds |-> IF k \in pick THEN 2 ELSE share[k]]

FirstShare(stats, n, lo, hi) ==
  LET share == WeightedShare(stats, n, lo, hi)
  IN IF n = 2 THEN HeaviestToTwo(stats, share, hi) ELSE share

\* One round of the loop that comes back to the number of drives: the first
\* scheduler above its minimum loses one.
TakeBack(share, lo) ==
  IF share["read"] > lo["read"] THEN [share EXCEPT !["read"] = @ - 1]
  ELSE IF share["write"] > lo["write"] THEN [share EXCEPT !["write"] = @ - 1]
  ELSE IF share["format"] > lo["format"] THEN [share EXCEPT !["format"] = @ - 1]
  ELSE share

\* Drives of a scheduler minus what its weight deserves.
WeightDiff(stats, share, n) ==
  [k \in Kinds |-> 2 * (share[k] * Total(stats) - stats[k] * n)]

Negative(x) == IF x < 0 THEN x ELSE 0

\* What full schedulers miss is shared by those that can still grow.
Redistribute(stats, diff, full) ==
  LET missing == Total([k \in Kinds |->
                    IF k \in full /\ stats[k] > 0 THEN Negative(diff[k]) ELSE 0])
      open == Kinds \ full
  IN [k \in Kinds |->
        IF k \in open THEN diff[k] + missing \div Cardinality(open)
        ELSE IF stats[k] > 0 THEN 0 ELSE diff[k]]

\* When nobody is owed a drive, the spare ones go to the open schedulers.
Lowered(stats, diff, full, n) ==
  LET rw == IF diff["read"] > diff["write"] THEN diff["read"] ELSE diff["write"]
      most == (IF rw > diff["format"] THEN rw ELSE diff["format"])
            + 2 * n * Total(stats)
  IN IF \A k \in Kinds : diff[k] >= 0
     THEN [k \in Kinds |-> IF k \in full THEN diff[k] ELSE diff[k] - most]
     ELSE diff

LeastFavored_Strict(d) ==
  {k \in Kinds : d[k] < 0 /\ \A j \in Kinds \ {k} : d[k] < d[j]}

LeastFavored_All(d) == {k \in Kinds : d[k] < 0}

\* The scheduler with the lowest negative difference, or none.
LeastFavored(d) ==
  IF d["read"] < 0 /\ d["read"] < d["write"]
  THEN IF d["read"] < d["format"] THEN {"read"} ELSE {"format"}
  ELSE IF d["write"] < 0
       THEN IF d["write"] < d["format"] THEN {"write"} ELSE {"format"}
       ELSE IF d["format"] < 0 THEN {"format"} ELSE {}

IncrementLeastFavored(stats, share, n, hi) ==
  LET full == MaxReached(stats, share, hi)
      d == Lowered(stats, Redistribute(stats, WeightDiff(stats, share, n), full),
                   full, n)
      chosen == LeastFavored(d)
  IN [k \in Kinds |-> IF k \in chosen THEN share[k] + 1 ELSE share[k]]

\* compute_number_of_devices as a whole: both loops run to their end.
Repartition(stats, n, lo0, hi0) ==
  LET lo == Floor1(stats, n, lo0)
      hi == Ceiling1(stats, n, lo0, hi0)
      steps[sh \in [Kinds -> Nat]] ==
        IF n < 3 THEN sh
        ELSE IF Total(sh) > n THEN steps[TakeBack(sh, lo)]
        ELSE IF Total(sh) < n /\ MaxReached(stats, sh, hi) # Kinds
             THEN steps[IncrementLeastFavored(stats, sh, n, hi)]
             ELSE sh
  IN steps[FirstShare(stats, n, lo, hi)]
============================================================================
