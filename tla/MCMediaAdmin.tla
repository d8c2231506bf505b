---------------------------- MODULE MCMediaAdmin ----------------------------
(* Tapes a and b hold the versions of objects, t and s are empty, f comes   *)
(* from another site.  The first content is one of                          *)
(*   - a and b full, with an alive and a deprecated version: one operation  *)
(*     of the client and two commands;                                      *)
(*   - a and b full, with two alive objects, both with data or one of them  *)
(*     empty, or with an empty one alone: two commands;                     *)
(*   - the pairs of a state of the object tables and of a content of f that *)
(*     an import treats in different ways: one operation and one command.   *)
EXTENDS MediaAdmin, TLC

CONSTANTS a, b, t, s, f, u1, u2, u3, o1, o2

MCMedia == {a, b, t, s, f}
MCUuids == {u1, u2, u3}
MCOidOf == u1 :> o1 @@ u2 :> o1 @@ u3 :> o2
MCReplicas == {1, 2}
Symmetry == Permutations({t, s})

\* Version 2 of u3 is empty.
MCEmpty == {<<u3, 2>>}

Row(m, x, k) == [med |-> m, st |-> "sync", addr |-> x, size |-> IF k \in MCEmpty THEN 0 ELSE 1]
File(x, k) == [addr |-> x, key |-> k, whole |-> TRUE, tagged |-> TRUE]
Alive(u, v, o) == u :> [v |-> v, oid |-> o]

\* The replicas of the versions in L are on a and on b.
First(k) == CASE k = <<u1, 1>> -> 1 [] k = <<u1, 2>> -> 3 [] OTHER -> 5
Db(alive, dep, copies, L) ==
    [alive |-> alive, dep |-> dep,
     copy |-> [k \in copies |-> IF k[1] = u2 THEN "incomplete" ELSE "complete"],
     layout |-> [l \in {<<k[1], k[2], i>> : k \in L, i \in MCReplicas} |->
                    First(<<l[1], l[2]>>) + l[3] - 1],
     extent |-> [x \in {First(k) + i - 1 : k \in L, i \in MCReplicas} |->
                    Row(IF x % 2 = 1 THEN a ELSE b, x, CHOOSE k \in L : x - First(k) \in {0, 1})]]

Start(d, inF, row, puts, commands) ==
    [db |-> d,
     media |-> [m \in MCMedia |-> [row |-> m # f \/ row, fs |-> IF m \in {a, b} THEN "full" ELSE "empty"]],
     files |-> [m \in MCMedia |->
                  IF m = f THEN inF
                  ELSE {File(x, CHOOSE l \in DOMAIN d.layout : d.layout[l] = x) :
                           x \in {y \in DOMAIN d.extent : d.extent[y].med = m}}],
     nx |-> 7,
     used |-> [put |-> MaxPut - puts, command |-> MaxCommand - commands, fault |-> 0]]

v1 == <<u1, 1>>
v2 == <<u1, 2>>
Both == Db(Alive(u1, 2, o1), {v1}, {v1, v2}, {v1, v2})
\* After a repack: the copy of version 1 is left.
Repacked == Db(Alive(u1, 2, o1), {}, {v1, v2}, {v2})
Fresh == Db(Alive(u1, 2, o1), {}, {v2}, {v2})
Deleted == Db(<<>>, {v2}, {v2}, {v2})
Foreign == Db(Alive(u1, 2, o1), {<<u2, 1>>}, {v2}, {v2})
Renamed == Db(Alive(u2, 1, Other(o1)), {}, {<<u2, 1>>}, {})
\* u3 beside u1, with data (version 1) or empty (version 2); u3 alone.
Pair(v) == Db(Alive(u1, 2, o1) @@ Alive(u3, v, o2), {}, {v2, <<u3, v>>}, {v2, <<u3, v>>})
Alone == Db(Alive(u3, 2, o2), {}, {<<u3, 2>>}, {<<u3, 2>>})

Imports ==
    {<<Both, {File(5, <<u2, 1, 1>>), File(6, <<u3, 1, 1>>)}>>,
     <<Both, {File(5, <<u1, 3, 1>>)}>>,
     <<Both, {File(1, <<u1, 1, 1>>)}>>,
     <<Repacked, {File(5, <<u1, 1, 1>>)}>>,
     <<Fresh, {File(5, <<u1, 1, 1>>), File(6, <<u1, 1, 2>>)}>>,
     <<Fresh, {[File(5, <<u3, 1, 1>>) EXCEPT !.tagged = FALSE], File(6, <<u2, 1, 1>>)}>>,
     <<Deleted, {File(5, <<u2, 1, 1>>)}>>,
     <<Foreign, {File(5, <<u2, 2, 1>>)}>>,
     <<Renamed, {File(5, <<u2, 2, 1>>)}>>,
     <<Fresh, {File(5, <<u3, 2, 1>>)}>>}

MCFirsts == {Start(Both, {}, TRUE, 1, 2)}
            \cup {Start(d, {}, TRUE, 0, 2) : d \in {Pair(1), Pair(2), Alone}}
            \cup {Start(c[1], c[2], FALSE, 1, 1) : c \in Imports}
=============================================================================
