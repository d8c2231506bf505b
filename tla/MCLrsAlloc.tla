------------------------------ MODULE MCLrsAlloc ------------------------------
(* LrsAlloc for TLC: the numbers of media are given in a .cfg through Wide,
   and the requests of Together come under one connection number: from one
   client or, after a disconnection, from the next. *)
EXTENDS LrsAlloc

CONSTANTS Wide,       \* the requests of two media; the others have one
          Together    \* the requests of one number; the others have their own

MCNMedia == [r \in Requests |-> IF r \in Wide THEN 2 ELSE 1]
MCSockets == Requests
MCSock == [r \in Requests |-> IF r \in Together THEN CHOOSE q \in Together : TRUE
                              ELSE r]
=============================================================================
