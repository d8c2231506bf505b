------------------------------ MODULE MCDssLock ------------------------------
(***************************************************************************)
(* Instance of DssLock: two processes of one host (the daemon and a client *)
(* say), and early locks that clients take for this host or another one.   *)
(***************************************************************************)
EXTENDS DssLock, TLC

CONSTANTS h1, h2, p1, p2, k1, k2, c1, c2

MCHost == c1 :> h1 @@ c2 :> h1
MCPid  == c1 :> p1 @@ c2 :> p2
MCItemLists == {<<k1>>, <<k1, k2>>, <<k2, k1>>}
=============================================================================
