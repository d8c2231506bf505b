---------------------------- MODULE MCTapeDrives ----------------------------
EXTENDS TapeDrives
CONSTANTS A, B, d1, d2, t1, t2, s1, x1

MCHostOf == [d \in Drives |-> IF d = d1 THEN A ELSE B]
\* One slot for two tapes: the second one is at the import/export slot.
MCStartAt == [t \in Tapes |-> IF t = t1 THEN s1 ELSE x1]
=============================================================================
