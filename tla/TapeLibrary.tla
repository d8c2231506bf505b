---------------------------- MODULE TapeLibrary ----------------------------
(***************************************************************************)
(* The cache of the tape library controller (src/tlc/tlc_library.c) as a   *)
(* value: for every storage element, whether it is full, the label of its  *)
(* tape and the element the tape came from.  The TLC fills it from the     *)
(* SCSI status of the library when it opens it or is asked to refresh, and *)
(* otherwise maintains it itself, move by move.                            *)
(*                                                                         *)
(* Arms hold no tape between two moves and are left out; slots, drives and *)
(* import/export slots are the elements.                                   *)
(***************************************************************************)
EXTENDS Naturals, FiniteSets

CONSTANTS Tapes, Slots, Drives, ImpExp, None

Elements == Slots \cup Drives \cup ImpExp

ElementStatus == [full : BOOLEAN, vol : Tapes \cup {None}, src : Elements \cup {None}]

\* Reading the status of every element (READ ELEMENT STATUS): what the
\* library says.  `at' is where each tape is, `from' its source slot.
LibStatus(at, from) ==
    [e \in Elements |->
        LET here == {t \in Tapes : at[t] = e}
        IN  IF here = {} THEN [full |-> FALSE, vol |-> None, src |-> None]
            ELSE LET t == CHOOSE t \in here : TRUE
                 IN  [full |-> TRUE, vol |-> t, src |-> from[t]]]

\* Slots are searched first, then drives, then import/export slots.
Holding(L, t) == {e \in Elements : L[e].full /\ L[e].vol = t}
MediaElementStatusFromLabel(L, t) ==
    LET found == Holding(L, t)
        best == IF found \cap Slots # {} THEN found \cap Slots
                ELSE IF found \cap Drives # {} THEN found \cap Drives ELSE found
    IN  IF best = {} THEN None ELSE CHOOSE e \in best : TRUE

\* Mutant: the source element keeps its tape in the cache.
MoveTape_KeepSource(L, e, f) ==
    [L EXCEPT ![f] = [full |-> TRUE, vol |-> L[e].vol, src |-> e]]

\* move_tape_between_element_status: the label of the source is left as it is.
MoveTape(L, e, f) ==
    [L EXCEPT ![e].full = FALSE, ![e].src = None,
              ![f] = [full |-> TRUE, vol |-> L[e].vol, src |-> e]]

GetFreeSlot(L) == LET free == {e \in Slots : ~L[e].full}
                  IN  IF free = {} THEN None ELSE CHOOSE e \in free : TRUE

\* A tape goes back to its source when this is a free slot, else to any.
TargetFreeSlot(L, d) ==
    IF L[d].src \in Slots /\ ~L[L[d].src].full THEN L[d].src ELSE GetFreeSlot(L)

\* A drive is unloaded when the cache says that it holds the expected tape.
UnloadAccepted(L, d, expected) == L[d].full /\ L[d].vol = expected

\* Opening the library: `shut' are the library devices that cannot be opened,
\* `mute' those that do not answer an inquiry.  The current device is the
\* first one opened, whether it answered or not.
FirstOpened(devs, shut) ==
    LET opened == devs \ shut
    IN  IF opened = {} THEN 0 ELSE CHOOSE i \in opened : \A j \in opened : i <= j
OpenSucceeds(devs, shut, mute) ==
    FirstOpened(devs, shut) # 0 /\ FirstOpened(devs, shut) \notin mute

\* update_curr_fd: the next valid device after `cur' in the circular order,
\* the current one last; 0 when none is valid.
NextFd(n, valid, cur) ==
    LET rank(i) == IF i > cur THEN i - cur ELSE i + n - cur
    IN  IF valid = {} THEN 0
        ELSE CHOOSE i \in valid : \A j \in valid : rank(i) <= rank(j)
============================================================================
