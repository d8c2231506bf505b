---------------------------- MODULE MCDeviceAdmin ----------------------------
(* Instances of DeviceAdmin: one drive, one tape, two administrators.      *)
EXTENDS DeviceAdmin

CONSTANTS d1, t1, a1, a2, here, away

MCDrives == {d1}
MCTapes == {t1}
MCAdmins == {a1, a2}
Drive(in_dss, st) == [d \in MCDrives |-> [in |-> in_dss, adm |-> st, host |-> here]]
Free == [t \in MCTapes |-> NoLock]
Taken == [t \in MCTapes |-> Row(away, 0, FALSE)]
MCFirst == {[row |-> Drive(FALSE, "unlocked"), tlock |-> Free],
            [row |-> Drive(TRUE, "unlocked"), tlock |-> Free],
            [row |-> Drive(TRUE, "locked"), tlock |-> Free],
            [row |-> Drive(TRUE, "unlocked"), tlock |-> Taken]}
MCIn == [d \in MCDrives |-> None]
MCAll == {"add", "add_locked", "lock", "lock_nowait", "unlock", "unlock_force", "delete", "migrate",
          "scsi_release", "load", "unload", "clean"}
Symm == Permutations(MCAdmins)
=============================================================================
