--------------------------- MODULE FairShareLoop ---------------------------
(***************************************************************************)
(* compute_number_of_devices (device_dispatch_algorithms.c:502-568) run    *)
(* step by step: the choice of the inputs, the loop that takes drives back *)
(* when the minima ask for too many, the loop that hands out the spare     *)
(* ones.                                                                   *)
(***************************************************************************)
EXTENDS FairShare

CONSTANTS MaxRequests,   \* requests of one kind
          MaxDevices,    \* drives of the technology
          MaxRange       \* bound of the configured minimum and maximum

ASSUME LoopAssumption ==
  MaxRequests \in Nat /\ MaxDevices \in Nat /\ MaxRange \in Nat

VARIABLES stats,   \* io_stats: the number of requests of each scheduler
          n,       \* device_list->devices->len
          lo, hi,  \* the ranges, as the function rewrites them
          share,   \* the repartition under construction
          pc

shareVars == <<stats, n, lo, hi, share, pc>>

\* device_list_init takes the two lists of the configuration as they are: a
\* minimum may exceed its maximum.
ShareInit ==
  /\ stats \in {f \in [Kinds -> 0..MaxRequests] : Total(f) > 0}
  /\ n \in 1..MaxDevices
  /\ lo \in [Kinds -> 0..MaxRange]
  /\ hi \in [Kinds -> 0..MaxRange]
  /\ share = [k \in Kinds |-> 0]
  /\ pc = "start"

Start ==
  /\ pc = "start"
  /\ lo' = Floor1(stats, n, lo)
  /\ hi' = Ceiling1(stats, n, lo, hi)
  /\ share' = FirstShare(stats, n, lo', hi')
  /\ pc' = IF n < 3 THEN "done" ELSE "shrink"
  /\ UNCHANGED <<stats, n>>

Shrink ==
  /\ pc = "shrink"
  /\ Total(share) > n
  /\ share' = TakeBack(share, lo)
  /\ UNCHANGED <<stats, n, lo, hi, pc>>

EndShrink ==
  /\ pc = "shrink"
  /\ Total(share) <= n
  /\ pc' = "grow"
  /\ UNCHANGED <<stats, n, lo, hi, share>>

Growing == Total(share) < n /\ MaxReached(stats, share, hi) # Kinds

Grow ==
  /\ pc = "grow"
  /\ Growing
  /\ share' = IncrementLeastFavored(stats, share, n, hi)
  /\ UNCHANGED <<stats, n, lo, hi, pc>>

EndGrow ==
  /\ pc = "grow"
  /\ ~Growing
  /\ pc' = "done"
  /\ UNCHANGED <<stats, n, lo, hi, share>>

ShareNext == Start \/ Shrink \/ EndShrink \/ Grow \/ EndGrow

ShareSpec == ShareInit /\ [][ShareNext]_shareVars
----------------------------------------------------------------------------
\* The shares are natural numbers, never decremented below 0: the code keeps
\* them in a size_t.
ShareTypeOK ==
  /\ stats \in [Kinds -> Nat]
  /\ n \in Nat \ {0}
  /\ lo \in [Kinds -> Nat] /\ hi \in [Kinds -> Nat]
  /\ share \in [Kinds -> Nat]
  /\ pc \in {"start", "shrink", "grow", "done"}

\* With three drives or more no drive has to be shared ("We have at least 3
\* devices, no scheduler should share devices"): the repartition never asks
\* for more drives than there are, which is what keeps give_devices away from
\* its abort().
EnoughDevices == (pc \in {"grow", "done"} /\ n > 2) => Total(share) <= n

\* Every loop keeps each scheduler under its maximum, and a scheduler without
\* request has no drive.
WithinMax ==
  pc # "start" => \A k \in Kinds : /\ share[k] <= hi[k]
                                   /\ stats[k] = 0 => share[k] = 0

\* At the end every scheduler with requests has its minimum (its maximum when
\* that is lower), lowered to one drive when the minima exceed the drives, and no
\* drive is left out unless every scheduler is full: the sum of the differences
\* is negative as long as drives remain, as the comment of
\* increment_least_favored_scheduler argues.
AllHandedOut ==
  (pc = "done" /\ n > 2) =>
     /\ \A k \in Kinds : stats[k] > 0 => share[k] >= Least(lo[k], hi[k])
     /\ Total(share) = n \/ MaxReached(stats, share, hi) = Kinds

\* As long as drives remain, some scheduler that can still grow is owed one,
\* even after the weight of the full schedulers has been redistributed: the
\* argument of the comment of increment_least_favored_scheduler, which also
\* makes its branch for differences that are all positive unreachable.
SomeoneIsOwed ==
  (pc = "grow" /\ Growing) =>
     LET full == MaxReached(stats, share, hi)
         d == Redistribute(stats, WeightDiff(stats, share, n), full)
     IN \E k \in Kinds \ full : d[k] < 0

\* At the end a scheduler with requests has a drive if its range does not start
\* or end at 0.  ("a scheduler with at least one request has at least one
\* device", says compute_device_repartition; with a minimum of 0 its share may
\* be rounded down to no drive, and a maximum of 0, which iosched.rst gives as
\* "not restricted", lets it have none.)
NotStarved ==
  pc = "done" => \A k \in Kinds : stats[k] > 0 /\ lo[k] > 0 /\ hi[k] > 0 => share[k] > 0

\* What fair_share_number_of_requests has to give, during its loops and at their
\* end: shares that fit the drives and the configured ranges, use every drive,
\* and leave a scheduler without a drive only where its range holds 0, whatever
\* the roundings did to the weights.
FairShares ==
  ShareTypeOK /\ EnoughDevices /\ WithinMax /\ AllHandedOut /\ NotStarved /\ SomeoneIsOwed

\* Both loops end ("we want to be sure that this function will always increment
\* the number of allocated devices, otherwise we will loop forever").
Ends == <>(pc = "done")
============================================================================
