------------------------------ MODULE MCLrsSync ------------------------------
(* LrsSync for TLC: the clients of Wide write to the two devices, the others
   to the first one.  The state space is split by the failures of a behaviour:
   two synchronisations, one of which may fail the device, with partial
   releases, or one synchronisation and an update of the DSS, without.  The
   budgets of the others are spent. *)
EXTENDS LrsSync

CONSTANTS Wide, D1, D2

MCNMedia == [c \in Clients |-> IF c \in Wide THEN 2 ELSE 1]
MCDevOf == [c \in Clients |-> [i \in Slots |-> IF i = 1 THEN D1 ELSE D2]]

MCInit ==
    /\ running = TRUE /\ resp = {} /\ comm = CommIdle
    /\ client = [c \in Clients |-> "idle"]
    /\ reqc = [c \in Clients |-> NewReqc(FALSE)]
    /\ dev = [d \in Devices |-> NewDev]
    /\ \/ nPartial = 0 /\ nFail = 0 /\ nDeath = 0 /\ nDbFail = MaxDbFail
       \/ nPartial = MaxPartial /\ nFail = 1 /\ nDeath = MaxDeath /\ nDbFail = 0

MCSpec == MCInit /\ [][Next]_vars /\ Fairness
=============================================================================
