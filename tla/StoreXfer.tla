------------------------------ MODULE StoreXfer ------------------------------
(***************************************************************************)
(* The data path of the client library: one call of phobos_xfer, which     *)
(* performs a batch of transfers with the data processors of the layouts,  *)
(* exchanging allocation and release requests with the LRS.                *)
(*                                                                         *)
(* A transfer is an encoder (put of one or several targets), a decoder     *)
(* (get), a copier, a rebuilder or an eraser (hard delete).  Its reader and *)
(* its writer move the object by blocks (one I/O buffer); a split is what  *)
(* one allocation could hold.  Data is only counted.  The LRS answers the  *)
(* pending requests in any order, with a grant, a release or an error; it  *)
(* frees the media of a client whose socket is closed (lrs.c).             *)
(***************************************************************************)
EXTENDS Integers, FiniteSets, Sequences, SequencesExt

CONSTANTS
    Batches,   \* the batches of transfers of a call: sequences of kinds
    PutSizes,  \* the targets of an encoder: sequences of sizes in blocks
    Sources,   \* the source of the others: sequences of split sizes
    Missing,   \* the splits a rebuilder finds with a missing extent
    MaxAvail,  \* the room of a granted allocation: 1 .. MaxAvail blocks
    Media,     \* the media the LRS may grant for writing
    Faults,    \* what may fail: "open", "io", "close", "alloc", "sync", "save"
    MaxFail    \* how many failures a behaviour may have

ASSUME BoundsAssumption == MaxAvail \in Nat \ {0} /\ MaxFail \in Nat

Kinds == {"encoder", "decoder", "copier", "rebuilder", "eraser"}
Writing == {"encoder", "copier", "rebuilder"}  \* layout module as writer
Saving == {"encoder", "copier"}                \* metadata saved before I/O

VARIABLES
    phase,   \* "init", "save", "first", "loop", "fini" of phobos_xfer
    idx,     \* the transfer the loops of store_perform_xfers are at
    prc,     \* rc of store_perform_xfers
    x,       \* the processors and descriptors of the transfers
    md,      \* md[i][t]: what the DSS holds of target t of transfer i
    lrs,     \* requests the LRS has to answer
    allocs,  \* allocations granted: transfer, side, medium, full releases
    durable, \* extents a synchronisation of the LRS has covered
    fails    \* number of failures so far

vars == <<phase, idx, prc, x, md, lrs, allocs, durable, fails>>

Lesser(a, b) == IF a < b THEN a ELSE b
Total(s) == LET sum[n \in 0 .. Len(s)] == IF n = 0 THEN 0 ELSE sum[n - 1] + s[n] IN sum[Len(s)]
NT(p) == Len(p.trc)
-----------------------------------------------------------------------------
(***************************************************************************)
(* Processors.  Extents are numbered as they are written (<<transfer,      *)
(* number>>); wal and ral are the allocations write_resp and read.resp     *)
(* came with, req the extents of the prepared release request.  Ghost: lost *)
(* says that the failure to close the last extent of a target is lost.     *)
(***************************************************************************)
Processor(i, kind, sizes, src) ==
    [ i |-> i, kind |-> kind, cur |-> 1, size |-> sizes, src |-> src,
      osz |-> IF kind = "encoder" THEN sizes[1] ELSE Total(src),
      ro |-> 0, wo |-> 0, buf |-> FALSE, rs |-> FALSE, ws |-> FALSE,
      needR |-> FALSE, needW |-> FALSE,
      done |-> kind \in {"decoder", "copier"} /\ Total(src) = 0,
      rc |-> 0, trc |-> [t \in DOMAIN sizes |-> 0],
      ended |-> FALSE, mdc |-> FALSE, lost |-> FALSE,
      pc |-> "idle", rdone |-> FALSE, wdone |-> FALSE,
      (* writer *)
      wal |-> 0, avail |-> 0, req |-> {}, soff |-> 0, ssz |-> 0, next |-> 1,
      wr |-> [t \in DOMAIN sizes |-> {}],
      torel |-> [t \in DOMAIN sizes |-> [m \in Media |-> 0]],
      nrel |-> [t \in DOMAIN sizes |-> 0],
      allw |-> [t \in DOMAIN sizes |-> sizes[t] = 0],
      rel |-> [t \in DOMAIN sizes |-> FALSE],
      lay |-> [t \in DOMAIN sizes |-> {}],
      left |-> IF kind = "rebuilder" THEN Cardinality(Missing) ELSE Len(src),
      wsp |-> 1,
      (* reader and eraser *)
      ral |-> 0, rsp |-> 1, roff |-> 0, rssz |-> 0 ]

(* A step of a processor: the processor after it, the requests it sends    *)
(* and its return code.                                                    *)
Step(p, reqs, rc) == [p |-> p, reqs |-> reqs, rc |-> rc]

AllocReq(p, kind) == [x |-> p.i, kind |-> kind, al |-> 0, sync |-> FALSE,
                      partial |-> FALSE, exts |-> {}]
Release(p, kind, al, sync, partial, exts) ==
    [x |-> p.i, kind |-> kind, al |-> al, sync |-> sync,
     partial |-> partial, exts |-> exts]

(* set_target_rc of the writer: the current target and the later ones fail *)
SetTargetRc(s) ==
    IF s.rc = 0 THEN s
    ELSE [s EXCEPT !.p.rc = 1,
                   !.p.trc = [t \in DOMAIN @ |-> IF t >= s.p.cur THEN 1 ELSE @[t]]]

SetReaderRc(s) ==
    IF s.rc = 0 \/ s.p.cur > NT(s.p) THEN s
    ELSE [s EXCEPT !.p.rc = 1, !.p.trc[s.p.cur] = 1]

Failed(p) == p.cur <= NT(p) /\ p.trc[p.cur] # 0

(* offset of a split of the source layout, and the next split to rebuild   *)
SrcOff(p, s) == Total(SubSeq(p.src, 1, s - 1))
NextMissing(s) == {m \in Missing : m >= s}
SeekMissing(s) == CHOOSE m \in NextMissing(s) : \A n \in NextMissing(s) : m <= n
-----------------------------------------------------------------------------
(***************************************************************************)
(* raid_reader_processor_step                                              *)
(***************************************************************************)
ReaderInit(p) ==
    IF p.kind = "rebuilder"
    THEN LET s == SeekMissing(p.rsp) IN
         Step([p EXCEPT !.rsp = s, !.roff = SrcOff(p, s), !.ro = SrcOff(p, s),
                        !.needR = TRUE], <<AllocReq(p, "read")>>, 0)
    ELSE Step([p EXCEPT !.needR = TRUE], <<AllocReq(p, "read")>>, 0)

(* The end of the step: release of the media read, next allocation.        *)
ReaderRelease(p, rc, split_ended) ==
    LET more == /\ rc = 0 /\ split_ended /\ p.ro < p.osz
                /\ p.kind = "rebuilder" => NextMissing(p.rsp) # {}
        q == IF rc = 0 /\ split_ended /\ p.kind = "rebuilder"
                /\ NextMissing(p.rsp) # {}
             THEN [p EXCEPT !.rsp = SeekMissing(p.rsp),
                            !.roff = SrcOff(p, SeekMissing(p.rsp))]
             ELSE p
    IN  SetReaderRc(Step(
            [q EXCEPT !.needR = @ \/ more],
            (IF rc # 0 \/ split_ended
             THEN <<Release(p, "relread", p.ral, FALSE, FALSE, {})>>
             ELSE <<>>) \o
            (IF more THEN <<AllocReq(p, "read")>> ELSE <<>>), rc))

(* read_into_buff of the layouts: at most one buffer, within the split *)
ReadBuff(p) ==
    [p EXCEPT !.ro = @ + Lesser(Lesser(p.osz - @, p.rssz - (@ - p.roff)), 1)]

(* raid_reader_split_fini: the extents are closed, the next split begins *)
ReaderSplitFini(p) == [p EXCEPT !.rsp = @ + 1, !.roff = p.ro]

ReaderIo(p, f) ==
    LET q == ReadBuff(p)
        ended == q.ro - q.roff >= q.rssz
    IN  CASE Failed(p) -> ReaderRelease(p, 1, FALSE)
          [] ~Failed(p) /\ ~p.buf -> Step(p, <<>>, 0)
          [] ~Failed(p) /\ p.buf /\ f = "io" -> ReaderRelease(p, 1, FALSE)
          [] ~Failed(p) /\ p.buf /\ f = "close" /\ ended ->
                ReaderRelease(q, 1, TRUE)
          [] OTHER ->
                ReaderRelease(IF ended THEN ReaderSplitFini(q) ELSE q,
                              0, ended)

(* the allocation al was granted: open its extents, then go on *)
ReaderAlloc(p, al, f) ==
    LET ro == IF p.kind = "rebuilder" /\ p.ro < p.roff THEN p.roff ELSE p.ro
        q == [p EXCEPT !.ro = ro, !.needR = FALSE, !.ral = al]
    IN  IF f = "open" THEN ReaderRelease(q, 1, FALSE)
        ELSE ReaderIo([q EXCEPT !.rs = TRUE,
                                !.rssz = Lesser(p.src[p.rsp], p.osz - ro)], f)

(* an error response: the transfer fails and is done *)
StepError(p) == Step([p EXCEPT !.rc = 1, !.done = TRUE], <<>>, 1)
ReaderError(p) == SetReaderRc(StepError(p))
-----------------------------------------------------------------------------
(***************************************************************************)
(* raid_writer_processor_step                                              *)
(***************************************************************************)
Remain(p) == p.osz - p.wo + Total(SubSeq(p.size, p.cur + 1, NT(p)))

WriterInit(p) ==
    Step([p EXCEPT !.needW = TRUE], <<AllocReq(p, "write")>>, 0)

SplitSetup(p) ==
    [p EXCEPT !.ssz = Lesser(p.osz - p.wo, p.avail), !.ws = TRUE]

(* raid_writer_split_close: the extent is closed and becomes a written     *)
(* extent of its target, to be covered by the prepared release request.    *)
SplitClose(p, m) ==
    [p EXCEPT !.avail = @ - (p.wo - p.soff),
              !.wr[p.cur] = @ \cup {<<p.i, p.next>>},
              !.torel[p.cur][m] = @ + 1,
              !.req = @ \cup {<<p.i, p.next>>},
              !.next = @ + 1, !.soff = p.wo]

WriterRelease(p, rc, partial) ==
    Release(p, "relwrite", p.wal, rc = 0, partial,
            IF rc = 0 THEN p.req ELSE {})

(* from "check_for_release" when an error came before any write *)
WriterAbort(p) ==
    SetTargetRc(Step([p EXCEPT !.req = {}], <<WriterRelease(p, 1, FALSE)>>, 1))

(* need_alloc_for_next_target: the room is compared before the extent just *)
(* written is taken off it *)
NextTargetAlloc(p) == p.avail < Remain(p)

(* write_from_buff of the layouts: what is in the buffer, within the split *)
ToWrite(p) == Lesser(p.ssz - (p.wo - p.soff), p.ro - p.wo)

WriterIo(p, m, f, sync) ==
    LET n == ToWrite(p)
        wrc == IF f = "io" /\ n > 0 THEN 1 ELSE 0
        q == IF wrc = 1 THEN p
             ELSE [p EXCEPT !.wo = @ + n,
                            !.allw[p.cur] = @ \/ p.wo + n >= p.osz]
        split == q.wo - q.soff >= q.ssz
        target == q.wo = q.osz
        last == target /\ q.cur = NT(q)
        nextal == wrc = 0 /\ target /\ ~last /\ NextTargetAlloc(q)
        full == wrc = 1 \/ (split /\ ~target) \/ nextal \/ last
        alloc == wrc = 0 /\ ((split /\ ~target) \/ nextal)
        crc == IF wrc = 1 \/ (split /\ f = "close") THEN 1 ELSE 0
        c == IF split /\ crc = 0 THEN SplitClose(q, m) ELSE q
        part == crc = 0 /\ split /\ ~full /\ sync
        r == IF full \/ part THEN [c EXCEPT !.req = {}] ELSE c
        setup == target /\ ~last /\ ~alloc
        t == IF ~target THEN r
             ELSE LET z == [r EXCEPT !.cur = @ + 1, !.ro = 0, !.wo = 0, !.soff = 0,
                                     !.osz = IF last THEN @ ELSE r.size[r.cur + 1]]
                  IN IF setup /\ f # "open" THEN SplitSetup(z) ELSE z
        rc == IF setup THEN IF f = "open" THEN 1 ELSE 0 ELSE crc
    IN  SetTargetRc(Step(
            [t EXCEPT !.needW = @ \/ alloc,
                      !.lost = @ \/ (target /\ wrc = 0 /\ crc = 1)],
            (IF full \/ part THEN <<WriterRelease(c, crc, part)>> ELSE <<>>) \o
            (IF alloc THEN <<AllocReq(p, "write")>> ELSE <<>>), rc))

WriterGo(p, m, f, sync) ==
    CASE Failed(p) -> WriterAbort(p)
      [] ~Failed(p) /\ ~p.buf -> Step(p, <<>>, 0)
      [] OTHER -> WriterIo(p, m, f, sync)

WriterAlloc(p, al, avail, m, f, sync) ==
    LET q == [p EXCEPT !.needW = FALSE, !.wal = al, !.avail = avail,
                       !.req = {}]
    IN  IF Failed(p) \/ f = "open" THEN WriterAbort(q)
        ELSE WriterGo(SplitSetup(q), m, f, sync)

(* common_fill_layout *)
FillLayout(p, T) ==
    [p EXCEPT !.rel = [t \in DOMAIN @ |-> @[t] \/ t \in T],
              !.lay = [t \in DOMAIN @ |-> IF t \in T THEN p.wr[t] ELSE @[t]]]

WriterPartial(p, m, f, sync) ==
    WriterGo(FillLayout(p, {t \in DOMAIN p.rel : t < p.cur /\ ~p.rel[t]}),
             m, f, sync)

(* common_release_media *)
ReleaseMedium_First(p, m) ==  \* mutant: only the first target is told
    LET T == {t \in DOMAIN p.rel : p.torel[t][m] > 0} IN
    IF T = {} THEN p
    ELSE LET t == CHOOSE t \in T : \A u \in T : t <= u IN
         [p EXCEPT !.nrel[t] = @ + 1, !.torel[t][m] = @ - 1]

ReleaseMedium(p, m) ==
    [p EXCEPT !.nrel = [t \in DOMAIN @ |->
                            IF p.torel[t][m] > 0 THEN @[t] + 1 ELSE @[t]],
              !.torel = [t \in DOMAIN @ |->
                            [@[t] EXCEPT ![m] = IF @ > 0 THEN @ - 1 ELSE 0]]]

(* mutant: the releases already received are not counted *)
FullyReleased_Written(p) ==
    {t \in DOMAIN p.rel : ~p.rel[t] /\ p.allw[t] /\ p.wr[t] # {}}

FullyReleased(p) ==
    {t \in DOMAIN p.rel : /\ ~p.rel[t] /\ p.allw[t] /\ p.wr[t] # {}
                          /\ Cardinality(p.wr[t]) = p.nrel[t]}

WriterReleased(p, m) ==
    LET q == ReleaseMedium(p, m)
        r == FillLayout(q, FullyReleased(q))
        all == \A t \in DOMAIN r.rel : r.rel[t]
        found == \E t \in DOMAIN p.rel : p.torel[t][m] > 0
    IN  SetTargetRc(Step([r EXCEPT !.done = @ \/ all], <<>>,
                         IF all \/ found THEN 0 ELSE 1))

WriterError(p) == SetTargetRc(StepError(p))
-----------------------------------------------------------------------------
(***************************************************************************)
(* raid_rebuilder_processor_step                                           *)
(***************************************************************************)
RebuilderSeek(p) ==
    LET s == SeekMissing(p.wsp) IN
    [p EXCEPT !.wsp = s, !.wo = SrcOff(p, s), !.soff = SrcOff(p, s),
              !.ssz = p.src[s], !.needW = TRUE]

RebuilderInit(p) == Step(RebuilderSeek(p), <<AllocReq(p, "write")>>, 0)

RebuilderIo(p, m, f) ==
    LET wrc == IF f = "io" THEN 1 ELSE 0
        q == IF wrc = 1 THEN p ELSE [p EXCEPT !.wo = p.ro]
        split == q.wo - q.soff >= q.ssz
        rc == IF wrc = 1 \/ (split /\ f = "close") THEN 1 ELSE 0
        d == IF split THEN [q EXCEPT !.left = @ - 1] ELSE q
        c == IF split /\ rc = 0
             THEN [SplitClose(d, m) EXCEPT !.wsp = @ + 1, !.soff = d.soff]
             ELSE d
        full == rc = 1 \/ split
        more == rc = 0 /\ split /\ NextMissing(c.wsp) # {}
        r == IF full THEN [c EXCEPT !.req = {}] ELSE c
    IN  SetTargetRc(Step(
            IF more THEN RebuilderSeek(r) ELSE r,
            (IF full THEN <<WriterRelease(c, rc, FALSE)>> ELSE <<>>) \o
            (IF more THEN <<AllocReq(p, "write")>> ELSE <<>>), rc))

RebuilderGo(p, m, f) ==
    CASE Failed(p) -> WriterAbort(p)
      [] ~Failed(p) /\ ~p.buf -> Step(p, <<>>, 0)
      [] OTHER -> RebuilderIo(p, m, f)

RebuilderAlloc(p, al, avail, m, f) ==
    LET q == [p EXCEPT !.needW = FALSE, !.wal = al, !.avail = avail,
                       !.req = {}]
    IN  IF Failed(p) \/ f = "open" THEN WriterAbort(q)
        ELSE RebuilderGo([q EXCEPT !.ws = TRUE], m, f)

RebuilderReleased(p, m) ==
    LET q == ReleaseMedium(p, m)
        all == q.left = 0 /\ q.wr[1] # {} /\ Cardinality(q.wr[1]) = q.nrel[1]
    IN  SetTargetRc(Step(IF all THEN [FillLayout(q, {1}) EXCEPT !.done = TRUE]
                         ELSE q, <<>>,
                         IF p.torel[1][m] > 0 THEN 0 ELSE 1))
-----------------------------------------------------------------------------
(***************************************************************************)
(* raid_eraser_processor_step                                              *)
(***************************************************************************)
EraserInit(p) == Step(p, <<AllocReq(p, "read")>>, 0)

EraserAlloc(p, al, f) ==
    LET rc == IF f = "io" THEN 1 ELSE 0 IN
    Step([p EXCEPT !.ral = al],
         <<Release(p, "relread", al, rc = 0, FALSE, {})>>, rc)

EraserReleased(p) ==
    IF p.left = 1
    THEN Step([p EXCEPT !.left = 0, !.cur = @ + 1, !.done = TRUE], <<>>, 0)
    ELSE Step([p EXCEPT !.left = @ - 1, !.rsp = @ + 1],
              <<AllocReq(p, "read")>>, 0)
-----------------------------------------------------------------------------
(***************************************************************************)
(* The reader and the writer of a processor, the POSIX ones included.      *)
(***************************************************************************)
(* data_processor_read_into_buff and data_processor_write_from_buff record *)
(* their failure in the current target.                                    *)
IoError(p) == Step([p EXCEPT !.rc = 1, !.trc[p.cur] = 1], <<>>, 1)

PosixRead(p, f) ==
    IF Failed(p) \/ f = "io" THEN IoError(p)
    ELSE Step([p EXCEPT !.ro = @ + Lesser(p.osz - p.ro, 1)], <<>>, 0)

PosixWrite(p, f) ==
    CASE Failed(p) \/ f = "io" -> IoError(p)
      [] ~Failed(p) /\ f # "io" /\ p.ro = p.osz ->
            Step([p EXCEPT !.cur = @ + 1, !.ro = 0, !.wo = 0, !.done = TRUE],
                 <<>>, 0)
      [] OTHER -> Step([p EXCEPT !.wo = p.ro], <<>>, 0)

(* mutant: a reader told that its target failed keeps its media *)
ReadStep_Keep(p, f) ==
    CASE p.kind = "encoder" -> PosixRead(p, f)
      [] p.kind # "encoder" /\ Failed(p) -> Step(p, <<>>, 1)
      [] OTHER -> ReaderIo(p, f)

ReadStep(p, f) == IF p.kind = "encoder" THEN PosixRead(p, f) ELSE ReaderIo(p, f)

(* The reader is called a last time after an error of the writer.  When    *)
(* this was the end of the last target, it reads a target that does not    *)
(* exist: whether it finds an error there is undefined.                    *)
LastRead(p) ==
    IF p.cur <= NT(p) THEN {ReadStep(p, "none")}
    ELSE {Step(p, <<>>, rc) : rc \in {0, 1}}

WriteStep(p, f, sync) ==
    CASE p.kind = "decoder" -> PosixWrite(p, f)
      [] p.kind = "rebuilder" -> RebuilderGo(p, allocs[p.wal].m, f)
      [] OTHER -> WriterGo(p, allocs[p.wal].m, f, sync)
-----------------------------------------------------------------------------
(***************************************************************************)
(* The store.                                                              *)
(* Requests are sent in order, after those in L; the LRS has nothing to    *)
(* answer to a release without synchronisation (n_tosync_media = 0).       *)
Send(L, A, reqs) ==
    /\ lrs' = L \cup {r \in Range(reqs) : r.al = 0 \/ r.sync}
    /\ allocs' = [a \in DOMAIN A |->
          [A[a] EXCEPT !.rel = @ + Cardinality(
              {k \in DOMAIN reqs : reqs[k].al = a /\ ~reqs[k].partial})]]

(* store_end_encoder_xfer and its likes, then the cleaning of the metadata *)
(* of failed targets.  A layout without extent is refused by the DSS.      *)
Unsaved(p) == {t \in DOMAIN p.trc : p.trc[t] = 0 /\ p.lay[t] = {}}

Clears_Copier(p, rc, t) ==  \* mutant: the metadata of a failed put stay
    p.mdc /\ rc # 0 /\ p.kind = "copier"

Clears(p, rc, t) == p.mdc /\ rc # 0 /\ (p.kind = "copier" \/ p.trc[t] # 0)

EndMd(p, i) ==
    LET saving == p.kind = "encoder" \/ p.rc = 0
        stop == IF Unsaved(p) = {} THEN NT(p) + 1
                ELSE CHOOSE t \in Unsaved(p) : \A u \in Unsaved(p) : t <= u
        ok(t) == saving /\ p.trc[t] = 0 /\ t < stop
        rc == IF p.rc # 0 \/ (saving /\ stop <= NT(p)) THEN 1 ELSE 0
    IN  [t \in DOMAIN md[i] |-> IF Clears(p, rc, t) THEN "none"
                                ELSE IF ok(t) THEN "complete" ELSE md[i][t]]

EndRc(p) ==
    IF p.rc # 0 \/ (p.kind \in Writing /\ Unsaved(p) # {}) THEN 1 ELSE 0

(* store_end_xfer, once per transfer *)
EndXfer(p, rc) ==
    LET q == [p EXCEPT !.rc = IF @ # 0 \/ rc # 0 THEN 1 ELSE 0,
                       !.done = TRUE, !.ended = TRUE, !.pc = "idle"]
    IN  IF p.ended THEN p ELSE [q EXCEPT !.rc = EndRc(q)]

EndedMd(p, rc, i) ==
    IF p.ended \/ p.kind \notin Saving THEN md[i]
    ELSE EndMd([p EXCEPT !.rc = IF @ # 0 \/ rc # 0 THEN 1 ELSE 0], i)

(* store_lrs_response_process, once processor_communicate returned rc: a   *)
(* failed transfer is only ended when no allocation is in flight, and its  *)
(* failure stops the dispatch loop.                                        *)
Return(i, p, rc) ==
    IF (rc # 0 \/ p.done) /\ ~p.needR /\ ~p.needW
    THEN /\ x' = [x EXCEPT ![i] = EndXfer(p, rc)]
         /\ md' = [md EXCEPT ![i] = EndedMd(p, rc, i)]
         /\ prc' = rc
         /\ phase' = IF rc # 0 THEN "fini" ELSE phase
    ELSE /\ x' = [x EXCEPT ![i] = [p EXCEPT !.pc = "idle"]]
         /\ prc' = 0
         /\ UNCHANGED <<md, phase>>

(* The rest of processor_communicate after the step s of a response: the   *)
(* buffer is allocated once both stripe sizes are known.                   *)
AfterResponse(i, s, side, final) ==
    \E p \in {[s.p EXCEPT !.rdone = side = "read" /\ s.reqs # <<>>,
                          !.wdone = side = "write" /\ s.reqs # <<>>,
                          !.buf = @ \/ (s.rc = 0 /\ ~final /\ s.p.rs /\ s.p.ws)]} :
        IF s.rc # 0 \/ final \/ ~p.buf THEN Return(i, p, s.rc)
        ELSE /\ x' = [x EXCEPT ![i] = [p EXCEPT !.pc = "loop"]]
             /\ UNCHANGED <<md, prc, phase>>

May(f) == f = "none" \/ (f \in Faults /\ fails < MaxFail)
Count(f) == fails' = IF f = "none" THEN fails ELSE fails + 1
IoFaults == {"none", "open", "io", "close"}
Idle == phase = "loop" /\ \A i \in DOMAIN x : x[i].pc = "idle"

Granted(i, side, m) ==
    Append(allocs, [x |-> i, side |-> side, m |-> m, rel |-> 0])
-----------------------------------------------------------------------------
Init ==
    /\ \E b \in Batches, z \in PutSizes, s \in Sources :
          /\ x = [i \in DOMAIN b |->
                     Processor(i, b[i], IF b[i] = "encoder" THEN z
                                        ELSE <<Total(s)>>, s)]
          /\ md = [i \in DOMAIN b |->
                     [t \in DOMAIN (IF b[i] = "encoder" THEN z ELSE <<0>>)
                        |-> "none"]]
    /\ phase = "init" /\ idx = 1 /\ prc = 0
    /\ lrs = {} /\ allocs = <<>> /\ durable = {} /\ fails = 0

(* store_init: a transfer whose processor has nothing to do is ended       *)
StoreInit ==
    /\ phase = "init"
    /\ x' = [i \in DOMAIN x |-> IF x[i].done THEN EndXfer(x[i], 0) ELSE x[i]]
    /\ phase' = "save"
    /\ UNCHANGED <<idx, prc, md, lrs, allocs, durable, fails>>

(* store_init fails for a transfer: store_fini ends them all               *)
StoreInitFails ==
    /\ phase = "init" /\ May("init") /\ Count("init")
    /\ x' = [i \in DOMAIN x |-> EndXfer(x[i], 1)]
    /\ phase' = "end" /\ prc' = 1
    /\ UNCHANGED <<idx, md, lrs, allocs, durable>>

(* The first loop of store_perform_xfers saves the metadata of the n first *)
(* targets of a transfer; rc is the one of the transfers already seen.     *)
SaveMd(i, n) ==
    /\ phase = "save" /\ idx = i
    /\ LET p == x[i]
           ok == n = NT(p) \/ p.kind \notin Saving
           rc == IF ok THEN prc ELSE 1
           m == [t \in DOMAIN md[i] |->
                    IF p.kind \in Saving /\ t <= n THEN "saved" ELSE md[i][t]]
       IN  /\ n <= NT(p)
           /\ ok \/ May("save")
           /\ Count(IF ok THEN "none" ELSE "save")
           /\ prc' = rc
           /\ md' = [md EXCEPT ![i] = m]
           /\ x' = IF p.kind \notin Saving THEN x
                   ELSE [x EXCEPT ![i] = IF rc # 0 /\ ~p.done
                                         THEN EndXfer(p, rc)
                                         ELSE [p EXCEPT !.mdc = TRUE]]
    /\ IF i = Len(x) THEN idx' = 1 /\ phase' = "first"
                     ELSE idx' = i + 1 /\ UNCHANGED phase
    /\ UNCHANGED <<lrs, allocs, durable>>

(* first_data_processor_call: the first steps of the reader and the writer *)
FirstCall(i) ==
    /\ phase = "first" /\ idx = i
    /\ \E p \in {x[i]} :
       \E r \in {CASE p.kind = "eraser" -> EraserInit(p)
                   [] p.kind = "encoder" -> Step([p EXCEPT !.rs = TRUE], <<>>, 0)
                   [] OTHER -> ReaderInit(p)} :
       \E w \in {CASE p.kind = "eraser" -> Step(r.p, <<>>, 0)
                   [] p.kind = "decoder" -> Step([r.p EXCEPT !.ws = TRUE], <<>>, 0)
                   [] p.kind = "rebuilder" -> RebuilderInit(r.p)
                   [] OTHER -> WriterInit(r.p)} :
           IF p.done THEN UNCHANGED <<x, lrs, allocs, prc>>
           ELSE /\ x' = [x EXCEPT ![i] = w.p]
                /\ Send(lrs, allocs, r.reqs \o w.reqs)
                /\ prc' = 0
    /\ IF i = Len(x) THEN phase' = "loop" /\ UNCHANGED idx
                     ELSE idx' = i + 1 /\ UNCHANGED phase
    /\ UNCHANGED <<md, durable, fails>>

(* The LRS grants a read allocation (also used to delete extents).         *)
GrantRead(r, f) ==
    /\ Idle /\ r \in lrs /\ r.kind = "read" /\ May(f) /\ Count(f)
    /\ LET p == x[r.x]
           A == Granted(r.x, "read", "none")
       IN  \E s \in {IF p.kind = "eraser" THEN EraserAlloc(p, Len(A), f)
                     ELSE ReaderAlloc(p, Len(A), f)} :
               /\ Send(lrs \ {r}, A, s.reqs)
               /\ AfterResponse(r.x, s, "read", p.kind = "eraser")
    /\ UNCHANGED <<idx, durable>>

(* The LRS grants a write allocation with room for avail blocks.           *)
GrantWrite(r, m, avail, f, sync) ==
    /\ Idle /\ r \in lrs /\ r.kind = "write" /\ May(f) /\ Count(f)
    /\ LET p == x[r.x]
           A == Granted(r.x, "write", m)
       IN  \E s \in {IF p.kind = "rebuilder"
                     THEN RebuilderAlloc(p, Len(A), p.osz, m, f)
                     ELSE WriterAlloc(p, Len(A), avail, m, f, sync)} :
               /\ Send(lrs \ {r}, A, s.reqs)
               /\ AfterResponse(r.x, s, "write", FALSE)
    /\ UNCHANGED <<idx, durable>>

(* The LRS answers a request with an error.                                *)
Refuse(r) ==
    /\ Idle /\ r \in lrs
    /\ LET f == IF r.al = 0 THEN "alloc" ELSE "sync" IN May(f) /\ Count(f)
    /\ LET p == [x[r.x] EXCEPT !.needR = @ /\ r.kind # "read",
                               !.needW = @ /\ r.kind # "write"]
       IN  \E s \in {CASE p.kind = "eraser" -> StepError(p)
                       [] p.kind # "eraser" /\ r.kind = "read" -> ReaderError(p)
                       [] OTHER -> WriterError(p)} :
               /\ Send(lrs \ {r}, allocs, s.reqs)
               /\ AfterResponse(r.x, s, "none", TRUE)
    /\ UNCHANGED <<idx, durable>>

(* The LRS answers a release once the media are synchronised.              *)
Synced(r, f, sync) ==
    /\ Idle /\ r \in lrs /\ r.al # 0 /\ May(f) /\ Count(f)
    /\ durable' = durable \cup r.exts
    /\ LET p == x[r.x]
           m == allocs[r.al].m
       IN  \E s \in {CASE p.kind = "eraser" -> EraserReleased(p)
                       [] p.kind = "rebuilder" -> RebuilderReleased(p, m)
                       [] p.kind \in Saving /\ r.partial ->
                             WriterPartial(p, m, f, sync)
                       [] p.kind \in Saving /\ ~r.partial ->
                             WriterReleased(p, m)} :
               /\ Send(lrs \ {r}, allocs, s.reqs)
               /\ AfterResponse(r.x, s, "write", ~r.partial)
    /\ UNCHANGED idx

(* The loop of processor_communicate: an iteration, or its end             *)
LoopOver(p) == \/ p.wdone \/ p.needW
               \/ (p.rdone \/ p.needR) /\ p.ro = p.wo

Continue(i, p) ==
    /\ x' = [x EXCEPT ![i] = p]
    /\ UNCHANGED <<md, prc, phase>>

LoopStep(i, fr, fw, sync) ==
    /\ phase = "loop" /\ x[i].pc = "loop" /\ ~LoopOver(x[i])
    /\ fr = "none" \/ fw = "none"
    /\ May(fr) /\ May(fw) /\ Count(IF fr = "none" THEN fw ELSE fr)
    /\ \E p \in {x[i]} :
       \E r \in {IF ~p.rdone /\ p.ro = p.wo /\ p.osz # 0 THEN ReadStep(p, fr)
                 ELSE Step(p, <<>>, 0)} :
       \E q \in {[r.p EXCEPT !.rdone = @ \/ r.rc # 0 \/ r.reqs # <<>>]} :
       LET last == r.rc = 0 /\ q.rdone /\ p.kind = "decoder"
           writes == last \/ q.ro > q.wo \/ q.osz = 0 \/ r.rc # 0
       IN  \E w \in {IF writes THEN WriteStep(q, fw, sync)
                     ELSE Step(q, <<>>, r.rc)} :
           LET again == writes /\ ~last /\ w.rc # 0
           IN  \E e \in IF again THEN LastRead(w.p) ELSE {w} :
               /\ Send(lrs, allocs, r.reqs \o w.reqs \o
                                    (IF again THEN e.reqs ELSE <<>>))
               /\ IF last \/ again \/ (writes /\ w.reqs # <<>>)
                  THEN Return(i, e.p, e.rc)
                  ELSE Continue(i, e.p)
    /\ UNCHANGED <<idx, durable>>

LoopEnd(i) ==
    /\ phase = "loop" /\ x[i].pc = "loop" /\ LoopOver(x[i])
    /\ Return(i, x[i], 0)
    /\ UNCHANGED <<idx, lrs, allocs, durable, fails>>

(* store_perform_xfers returns and store_fini ends what is left, then the  *)
(* socket is closed.                                                       *)
StoreFini ==
    /\ \/ phase = "fini"
       \/ phase = "loop" /\ \A i \in DOMAIN x : x[i].ended
    /\ x' = [i \in DOMAIN x |-> EndXfer(x[i], prc)]
    /\ md' = [i \in DOMAIN x |-> EndedMd(x[i], prc, i)]
    /\ phase' = "end" /\ lrs' = {} /\ allocs' = <<>>
    /\ UNCHANGED <<idx, prc, durable, fails>>

Answer ==
    \E r \in lrs, f \in IoFaults, sync \in BOOLEAN :
        \/ GrantRead(r, f)
        \/ \E m \in Media, avail \in 1 .. MaxAvail :
               GrantWrite(r, m, avail, f, sync)
        \/ Synced(r, f, sync)

Work ==
    \E i \in DOMAIN x, f \in IoFaults, g \in IoFaults, sync \in BOOLEAN :
        LoopStep(i, f, g, sync)

Next ==
    \/ StoreInit \/ StoreInitFails \/ StoreFini
    \/ \E i \in DOMAIN x, n \in 0 .. 3 : SaveMd(i, n)
    \/ \E i \in DOMAIN x : FirstCall(i) \/ LoopEnd(i)
    \/ \E r \in lrs : Refuse(r)
    \/ Answer \/ Work

Spec == Init /\ [][Next]_vars

(* The client runs, and the LRS answers every request.                     *)
FairSpec == Spec /\ WF_vars(Next)
-----------------------------------------------------------------------------
Reqs == {"read", "write", "relread", "relwrite"}

(* Types, and the bounds of what the steps count. *)
TypeOK ==
    /\ phase \in {"init", "save", "first", "loop", "fini", "end"}
    /\ \A i \in DOMAIN x :
          /\ x[i].kind \in Kinds /\ x[i].cur \in 1 .. NT(x[i]) + 1
          /\ x[i].wo <= x[i].ro \/ x[i].kind = "rebuilder"
          /\ x[i].ro <= x[i].osz
          /\ \A t \in DOMAIN md[i] : md[i][t] \in {"none", "saved", "complete"}
    /\ \A r \in lrs : r.kind \in Reqs /\ r.x \in DOMAIN x

Held(i) == {a \in DOMAIN allocs : allocs[a].x = i /\ allocs[a].rel = 0}

(* A transfer ends without leaving media behind: it never ends in the loop  *)
(* while an allocation of its own is in flight, a grant that nobody would    *)
(* release; and when it ends on success, or because an I/O of its reader or  *)
(* of its writer failed in the loop of processor_communicate, it has sent    *)
(* back every medium it was granted.  When it ends in the handling of a      *)
(* response (an error of the LRS, or of the opening or the I/O that a grant  *)
(* starts) the other side is not told, and its allocation, one at most, is   *)
(* left to the closing of the socket.                                        *)
MediaBack ==
    [][\A i \in DOMAIN x :
          phase = "loop" /\ phase' # "end" /\ ~x[i].ended /\ x'[i].ended =>
             /\ \A r \in lrs' : r.x = i => r.al # 0
             /\ Cardinality(Held(i)') <= 1
             /\ (x[i].pc = "loop" /\ NT(x[i]) = 1) \/ x'[i].rc = 0
                  => Held(i)' = {}]_vars

(* "If we wrote everything and all the releases have been received, mark   *)
(* the encoder as done" (raid_writer_handle_release_resp): the layout of a *)
(* target the DSS has as complete holds only extents that the LRS has      *)
(* synchronised.                                                           *)
Durable(i, t) ==
    md[i][t] = "complete" => /\ x[i].lay[t] # {}
                             /\ x[i].lay[t] \subseteq durable

(* This is stated of the transfers of one target, whose releases are       *)
(* counted one by one whatever the media they are about.                   *)
SingleDurable ==
    \A i \in DOMAIN x : NT(x[i]) = 1 => \A t \in DOMAIN md[i] : Durable(i, t)

(* When the call returns, a put or a copy told as a success has all its    *)
(* targets complete in the DSS, and a target told as failed is not there.  *)
(* A transfer that fails may have targets that are not told as failed: such *)
(* a target is complete, or, although xt_rc is its outcome, the DSS only    *)
(* keeps the metadata that reserved its name.  This happens from the first  *)
(* such target whose layout is still empty on, and nowhere else.            *)
Outcome ==
    /\ TypeOK
    /\ phase = "end" => \A i \in {j \in DOMAIN x : x[j].kind \in Saving} :
         \A t \in DOMAIN md[i] :
            /\ x[i].rc = 0 => md[i][t] = "complete"
            /\ x[i].trc[t] # 0 => md[i][t] = "none"
            /\ md[i][t] = "saved" => \E u \in Unsaved(x[i]) : u <= t

(* Every call returns: no transfer waits for an answer that never comes,   *)
(* unless the closing of the last extent of a target failed, an error that *)
(* the set up of the next target overwrites or that is forgotten with the  *)
(* last step of the reader, which looks at a target past the last.         *)
Returns == <>(phase = "end" \/ \E i \in DOMAIN x : x[i].lost)
=============================================================================
