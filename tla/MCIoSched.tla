----------------------------- MODULE MCIoSched -----------------------------
EXTENDS IoSched
CONSTANTS d1, d2, d3, m1, m2, m3, r1, r2, w1, f1

MCKind == [r \in Requests |-> IF r \in {r1, r2} THEN "read"
                              ELSE IF r = w1 THEN "write" ELSE "format"]
MCWants == [r \in Requests |-> IF r = r1 THEN <<m1, m3>> ELSE IF r = r2 THEN <<m1, m2, m3>>
                               ELSE IF r = f1 THEN <<m2>> ELSE <<>>]
MCNeed == [r \in Requests |-> IF r \in {r1, r2} THEN 2 ELSE 0]
MCPrio == [r \in Requests |-> IF r = r2 THEN 1 ELSE 0]
MCTechno == [d \in Drives |-> "LTO5"]
MCTechnos == <<"LTO5">>
\* No drive reads m3.
MCCompat == [d \in Drives |-> {m1, m2}]
MCLo == [t \in ToSet(MCTechnos) |-> [k \in Kinds |-> 0]]
MCHi == [t \in ToSet(MCTechnos) |-> [k \in Kinds |-> 5]]
MCStart == <<d1, d2>>
MCLoads == {[d \in Drives |-> IF d = d1 THEN m1 ELSE None]}

\* Under fair_share, two events only happen while the write or the format has
\* not come.
Bounded == events = 2 /\ io.algo = "fair_share" => \E r \in {w1, f1} : state[r] = "new"
============================================================================
