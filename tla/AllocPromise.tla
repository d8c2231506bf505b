---------------------------- MODULE AllocPromise ----------------------------
(***************************************************************************)
(* What the LRS promises to the clients of its allocation requests, seen   *)
(* from the clients: every request is granted or refused at most once, a   *)
(* grant comes with its full number of distinct devices, and no device is  *)
(* granted to more than MaxIO requests at a time.                          *)
(*                                                                         *)
(* A request that comes on the number of a connection that was closed may  *)
(* inherit the key of what the daemon still does for the previous client:  *)
(* such a request is answered, but nothing is promised about its devices.  *)
(***************************************************************************)
EXTENDS Naturals, FiniteSets

CONSTANTS Requests, Devices,
          NMedia,         \* devices a request needs
          Sock,           \* the number of the connection of a request
          MaxIO           \* requests a device serves at a time

VARIABLES client,         \* where the client of a request is
          grant,          \* the devices a request has been granted
          heirs           \* the requests that share the key of a previous one

vars == <<client, grant, heirs>>

\* The requests that use d and have a key of their own
Users(d) == {r \in Requests \ heirs : client[r] = "granted" /\ d \in grant[r]}

\* r is received, maybe as an heir of a request whose client left
Received(r) ==
    \/ UNCHANGED heirs
    \/ /\ \E q \in Requests : Sock[q] = Sock[r] /\ (client[q] = "gone" \/ q \in heirs)
       /\ heirs' = heirs \cup {r}

Init ==
    /\ client = [r \in Requests |-> "idle"]
    /\ grant = [r \in Requests |-> {}]
    /\ heirs = {}

Ask(r) ==
    /\ client[r] = "idle"
    /\ client' = [client EXCEPT ![r] = "waiting"]
    /\ Received(r) /\ UNCHANGED grant

Grant(r, D) ==
    /\ client[r] = "waiting"
    /\ r \notin heirs => /\ Cardinality(D) = NMedia[r]
                        /\ \A d \in D : Cardinality(Users(d)) < MaxIO
    /\ client' = [client EXCEPT ![r] = "granted"]
    /\ grant' = [grant EXCEPT ![r] = D]
    /\ UNCHANGED heirs

\* A request that reaches a stopping daemon is refused on the spot.
Refuse(r) ==
    /\ \/ client[r] = "idle" /\ Received(r)
       \/ client[r] = "waiting" /\ UNCHANGED heirs
    /\ client' = [client EXCEPT ![r] = "refused"]
    /\ UNCHANGED grant

Release(r) ==
    /\ client[r] = "granted"
    /\ client' = [client EXCEPT ![r] = "released"]
    /\ grant' = [grant EXCEPT ![r] = {}]
    /\ UNCHANGED heirs

\* The answer of a client that left goes to the next one under its number.
Inherit(r) ==
    /\ client[r] = "gone"
    /\ client' = [client EXCEPT ![r] = "inherited"]
    /\ UNCHANGED <<grant, heirs>>

\* A client leaves, whatever it was doing, with all its requests.
Leave(R) ==
    /\ client' = [r \in Requests |-> IF r \in R THEN "gone" ELSE client[r]]
    /\ grant' = [r \in Requests |-> IF r \in R THEN {} ELSE grant[r]]
    /\ UNCHANGED heirs

Next ==
    \/ \E r \in Requests :
          \/ Ask(r) \/ Refuse(r) \/ Release(r) \/ Inherit(r)
          \/ \E D \in SUBSET Devices : Grant(r, D)
    \/ \E R \in SUBSET Requests : Leave(R)

Spec == Init /\ [][Next]_vars
=============================================================================
