------------------------- MODULE ObjectStoreProofs -------------------------
(***************************************************************************)
(* The invariants of ObjectStore for any number of clients, operations,    *)
(* objects and copies.                                                     *)
(*                                                                         *)
(* The proof first says, once for every action, what a step does to the    *)
(* tables, to the locks and to its client, each in a few shapes (Entered,  *)
(* LockTaken, Unlink...).  The four invariants are then proved from these  *)
(* shapes, each with what it needs to be inductive: LockInv, CompInv,      *)
(* AckInv and RefInv.                                                      *)
(***************************************************************************)
EXTENDS ObjectStore, TLAPS

-----------------------------------------------------------------------------
(* What each transaction of DssTables writes: it rewrites one or two of    *)
(* the five tables.  A table is a partial function.                        *)

Db(o, d, c, l, x) == [object |-> o, deprecated |-> d, copy |-> c, layout |-> l, extent |-> x]

IsDb(d) == d = Db(d.object, d.deprecated, d.copy, d.layout, d.extent)

IsTable(f, K, V) == \E S \in SUBSET K : f \in [S -> V]

DbOK(d) == IsDb(d) /\ DbTypeOK(d)

LEMMA DbFields ==
  ASSUME NEW o, NEW d, NEW c, NEW l, NEW x
  PROVE  LET e == Db(o, d, c, l, x)
         IN  /\ e.object = o /\ e.deprecated = d /\ e.copy = c
             /\ e.layout = l /\ e.extent = x /\ IsDb(e)
BY DEF Db, IsDb

LEMMA DbOKFields ==
  ASSUME NEW o, NEW d, NEW c, NEW l, NEW x
  PROVE  DbOK(Db(o, d, c, l, x)) <=>
           /\ o \in [Oids -> ObjectRow \cup {NoRow}]
           /\ d \subseteq DeprecatedRow
           /\ IsTable(c, CopyKeys, CopyStatus)
           /\ IsTable(l, CopyKeys, Extents)
           /\ IsTable(x, Extents, ExtentStates)
BY DbFields DEF DbOK, DbTypeOK, IsTable

LEMMA PutTable ==
  ASSUME NEW f, NEW k, NEW v
  PROVE  /\ DOMAIN Put(f, k, v) = DOMAIN f \cup {k}
         /\ Put(f, k, v)[k] = v
         /\ \A j \in DOMAIN f : j # k => Put(f, k, v)[j] = f[j]
         /\ \A K, V : IsTable(f, K, V) /\ k \in K /\ v \in V => IsTable(Put(f, k, v), K, V)
<1>1. ASSUME NEW K, NEW V, IsTable(f, K, V), k \in K, v \in V
      PROVE  IsTable(Put(f, k, v), K, V)
  <2>1. PICK S \in SUBSET K : f \in [S -> V]
    BY <1>1 DEF IsTable
  <2>2. Put(f, k, v) \in [S \cup {k} -> V] /\ S \cup {k} \in SUBSET K
    BY <1>1, <2>1 DEF Put
  <2> QED
    BY <2>2 DEF IsTable
<1> QED
  BY <1>1 DEF Put

LEMMA DropTable ==
  ASSUME NEW f, NEW S
  PROVE  /\ DOMAIN Drop(f, S) = DOMAIN f \ S
         /\ \A j \in DOMAIN f \ S : Drop(f, S)[j] = f[j]
         /\ \A K, V : IsTable(f, K, V) => IsTable(Drop(f, S), K, V)
<1>1. ASSUME NEW K, NEW V, IsTable(f, K, V)
      PROVE  IsTable(Drop(f, S), K, V)
  <2>1. PICK T \in SUBSET K : f \in [T -> V]
    BY <1>1 DEF IsTable
  <2>2. Drop(f, S) \in [T \ S -> V] /\ T \ S \in SUBSET K
    BY <2>1 DEF Drop
  <2> QED
    BY <2>2 DEF IsTable
<1> QED
  BY <1>1 DEF Drop

LEMMA SetTable ==
  ASSUME NEW f, NEW K, NEW V, IsTable(f, K, V), NEW k, NEW v \in V
  PROVE  IsTable([f EXCEPT ![k] = v], K, V)
<1>1. PICK T \in SUBSET K : f \in [T -> V]
  BY DEF IsTable
<1>2. [f EXCEPT ![k] = v] \in [T -> V]
  BY <1>1
<1> QED
  BY <1>2 DEF IsTable

LEMMA TableApply ==
  ASSUME NEW f, NEW K, NEW V, IsTable(f, K, V)
  PROVE  DOMAIN f \subseteq K /\ \A k \in DOMAIN f : f[k] \in V
BY DEF IsTable
-----------------------------------------------------------------------------
LEMMA CopyInsertDb ==
  ASSUME NEW d, IsDb(d), NEW k
  PROVE  CopyInsert(d, k) =
           Db(d.object, d.deprecated, Put(d.copy, k, "incomplete"), d.layout, d.extent)
BY DEF IsDb, Db, CopyInsert

LEMMA CopyUpdateDb ==
  ASSUME NEW d, IsDb(d), NEW k, NEW s
  PROVE  CopyUpdate(d, k, s) =
           Db(d.object, d.deprecated,
              IF k \in DOMAIN d.copy THEN [d.copy EXCEPT ![k] = s] ELSE d.copy,
              d.layout, d.extent)
BY DEF IsDb, Db, CopyUpdate

LEMMA CopyDeleteDb ==
  ASSUME NEW d, IsDb(d), NEW k
  PROVE  CopyDelete(d, k) =
           Db(d.object, d.deprecated, Drop(d.copy, {k}), d.layout, d.extent)
BY DEF IsDb, Db, CopyDelete

LEMMA LayoutInsertDb ==
  ASSUME NEW d, IsDb(d), NEW k, NEW x
  PROVE  LayoutInsert(d, k, x) =
           Db(d.object, d.deprecated, d.copy, Put(d.layout, k, x), d.extent)
BY DEF IsDb, Db, LayoutInsert

LEMMA LayoutDeleteDb ==
  ASSUME NEW d, IsDb(d), NEW k, NEW x
  PROVE  LayoutDelete(d, k, x) =
           Db(d.object, d.deprecated, d.copy,
              IF k \in DOMAIN d.layout /\ d.layout[k] = x THEN Drop(d.layout, {k}) ELSE d.layout,
              d.extent)
BY DEF IsDb, Db, LayoutDelete

LEMMA ExtentInsertDb ==
  ASSUME NEW d, IsDb(d), NEW x
  PROVE  ExtentInsert(d, x) =
           Db(d.object, d.deprecated, d.copy, d.layout, Put(d.extent, x, "sync"))
BY DEF IsDb, Db, ExtentInsert

\* The state of extent x set, if it is in the table.
SetState(f, x, s) == IF x \in DOMAIN f THEN [f EXCEPT ![x] = s] ELSE f

LEMMA ExtentUpdateDb ==
  ASSUME NEW d, IsDb(d), NEW x, NEW s
  PROVE  ExtentUpdate(d, x, s) =
           Db(d.object, d.deprecated, d.copy, d.layout, SetState(d.extent, x, s))
BY DEF IsDb, Db, ExtentUpdate, SetState

LEMMA ExtentDeleteDb ==
  ASSUME NEW d, IsDb(d), NEW x
  PROVE  ExtentDelete(d, x) =
           Db(d.object, d.deprecated, d.copy, d.layout, Drop(d.extent, {x}))
BY DEF IsDb, Db, ExtentDelete

\* The layouts of extent old name extent new.
MovedLayout(f, old, new) == [k \in DOMAIN f |-> IF f[k] = old THEN new ELSE f[k]]

LEMMA ExtentMigrateDb ==
  ASSUME NEW d, IsDb(d), NEW old, NEW new
  PROVE  ExtentMigrate(d, old, new) =
           Db(d.object, d.deprecated, d.copy, MovedLayout(d.layout, old, new),
              SetState(SetState(d.extent, old, "orphan"), new, "sync"))
<1> DEFINE moved == Db(d.object, d.deprecated, d.copy, MovedLayout(d.layout, old, new), d.extent)
<1>1. [d EXCEPT !.layout = [k \in DOMAIN @ |-> IF @[k] = old THEN new ELSE @[k]]] = moved
  BY DEF IsDb, Db, MovedLayout
<1>2. ExtentMigrate(d, old, new) = ExtentUpdate(ExtentUpdate(moved, old, "orphan"), new, "sync")
  BY <1>1 DEF ExtentMigrate
<1> QED
  BY <1>2, ExtentUpdateDb, DbFields

LEMMA ObjectInsertDb ==
  ASSUME NEW d, IsDb(d), NEW o, NEW u, NEW v
  PROVE  ObjectInsert(d, o, u, v) =
           Db([d.object EXCEPT ![o] = [uuid |-> u, version |-> v]], d.deprecated,
              d.copy, d.layout, d.extent)
BY DEF IsDb, Db, ObjectInsert

LEMMA ObjectDeleteDb ==
  ASSUME NEW d, IsDb(d), NEW o
  PROVE  ObjectDelete(d, o) =
           Db([d.object EXCEPT ![o] = NoRow], d.deprecated, d.copy, d.layout, d.extent)
BY DEF IsDb, Db, ObjectDelete

LEMMA DeprecatedDeleteDb ==
  ASSUME NEW d, IsDb(d), NEW u, NEW v
  PROVE  DeprecatedDelete(d, u, v) =
           Db(d.object, {r \in d.deprecated : ~(r.uuid = u /\ r.version = v)},
              d.copy, d.layout, d.extent)
BY DEF IsDb, Db, DeprecatedDelete

LEMMA ToDeprecatedDb ==
  ASSUME NEW d, IsDb(d), NEW o
  PROVE  ToDeprecated(d, o) =
           IF Alive(d, o)
           THEN Db([d.object EXCEPT ![o] = NoRow],
                   d.deprecated \cup {[oid |-> o, uuid |-> d.object[o].uuid,
                                       version |-> d.object[o].version]},
                   d.copy, d.layout, d.extent)
           ELSE d
<1> DEFINE row == [oid |-> o, uuid |-> d.object[o].uuid, version |-> d.object[o].version]
           e == Db([d.object EXCEPT ![o] = NoRow], d.deprecated, d.copy, d.layout, d.extent)
<1>1. [d EXCEPT !.object[o] = NoRow] = e
  BY DEF IsDb, Db
<1>2. [d EXCEPT !.object[o] = NoRow, !.deprecated = @ \cup {row}]
        = [e EXCEPT !.deprecated = d.deprecated \cup {row}]
  BY <1>1
<1>3. [e EXCEPT !.deprecated = d.deprecated \cup {row}]
        = Db([d.object EXCEPT ![o] = NoRow], d.deprecated \cup {row}, d.copy, d.layout, d.extent)
  BY DEF Db
<1> HIDE DEF e
<1> QED
  BY <1>2, <1>3, Zenon DEF ToDeprecated

\* An undelete brings back a row of the deprecated table, at the oid of the row.
LEMMA ToObjectDb ==
  ASSUME NEW d, IsDb(d), NEW u, NEW v, IsDeprecated(d, u, v)
  PROVE  \E r \in DeprecatedOf(d, u) :
           /\ r.version = v
           /\ ToObject(d, u, v) =
                Db([d.object EXCEPT ![r.oid] = [uuid |-> u, version |-> v]],
                   {q \in d.deprecated : ~(q.uuid = u /\ q.version = v)},
                   d.copy, d.layout, d.extent)
<1> DEFINE r == CHOOSE q \in DeprecatedOf(d, u) : q.version = v
           e == DeprecatedDelete(d, u, v)
<1>1. r \in DeprecatedOf(d, u) /\ r.version = v
  BY DEF IsDeprecated
<1>2. e = Db(d.object, {q \in d.deprecated : ~(q.uuid = u /\ q.version = v)},
             d.copy, d.layout, d.extent)
  BY DeprecatedDeleteDb
<1>3. ToObject(d, u, v) = ObjectInsert(e, r.oid, u, v)
  BY DEF ToObject
<1> HIDE DEF e, r
<1>4. ToObject(d, u, v) =
        Db([d.object EXCEPT ![r.oid] = [uuid |-> u, version |-> v]],
           {q \in d.deprecated : ~(q.uuid = u /\ q.version = v)}, d.copy, d.layout, d.extent)
  BY <1>2, <1>3, DbFields, ObjectInsertDb
<1> QED
  BY <1>1, <1>4

\* The rows of the two tables after a rename.
IsU(d, u, o) == Alive(d, o) /\ d.object[o].uuid = u

RenamedRow(r, S, p) == IF <<r.uuid, r.version>> \in S THEN [r EXCEPT !.oid = p] ELSE r

RenamedObject(d, u, p) ==
  IF u \in AliveUuids(d)
  THEN [o \in Oids |-> IF o = p THEN d.object[CHOOSE q \in Oids : IsU(d, u, q)]
                       ELSE IF IsU(d, u, o) THEN NoRow ELSE d.object[o]]
  ELSE d.object

LEMMA RenameDb ==
  ASSUME NEW d, IsDb(d), NEW u, NEW S, NEW p
  PROVE  Rename(d, u, S, p) =
           Db(RenamedObject(d, u, p), {RenamedRow(r, S, p) : r \in d.deprecated},
              d.copy, d.layout, d.extent)
<1> DEFINE D == {RenamedRow(r, S, p) : r \in d.deprecated}
           O == RenamedObject(d, u, p)
           e == Db(d.object, D, d.copy, d.layout, d.extent)
<1>1. [d EXCEPT !.deprecated = D] = e
  BY DEF IsDb, Db
<1>2. [d EXCEPT !.deprecated = D, !.object = O] = [e EXCEPT !.object = O]
  BY <1>1
<1>3. [e EXCEPT !.object = O] = Db(O, D, d.copy, d.layout, d.extent)
  <2> HIDE DEF D, O
  <2> QED
    BY DEF Db
<1>4. Rename(d, u, S, p) = [d EXCEPT !.deprecated = D, !.object = O]
  <2>1. D = {IF <<r.uuid, r.version>> \in S THEN [r EXCEPT !.oid = p] ELSE r : r \in d.deprecated}
    BY DEF RenamedRow
  <2>2. O = IF u \in AliveUuids(d)
            THEN [o \in Oids |->
                    CASE o = p -> d.object[CHOOSE q \in Oids : Alive(d, q) /\ d.object[q].uuid = u]
                      [] o # p /\ (Alive(d, o) /\ d.object[o].uuid = u) -> NoRow
                      [] OTHER -> d.object[o]]
            ELSE d.object
    BY DEF RenamedObject, IsU
  <2> HIDE DEF D, O
  <2> QED
    BY <2>1, <2>2, Zenon DEF Rename
<1> QED
  BY <1>2, <1>3, <1>4, Zenon

-----------------------------------------------------------------------------
(* The transactions keep the types of the tables.                          *)

LEMMA DbTables ==
  ASSUME NEW d, DbOK(d)
  PROVE  /\ IsDb(d)
         /\ d.object \in [Oids -> ObjectRow \cup {NoRow}]
         /\ d.deprecated \subseteq DeprecatedRow
         /\ IsTable(d.copy, CopyKeys, CopyStatus)
         /\ IsTable(d.layout, CopyKeys, Extents)
         /\ IsTable(d.extent, Extents, ExtentStates)
BY DEF DbOK, DbTypeOK, IsTable

LEMMA CopyTxnsOK ==
  ASSUME NEW d, DbOK(d), NEW k \in CopyKeys
  PROVE  DbOK(CopyInsert(d, k)) /\ DbOK(CopyUpdate(d, k, "complete")) /\ DbOK(CopyDelete(d, k))
<1>1. "incomplete" \in CopyStatus /\ "complete" \in CopyStatus
  BY DEF CopyStatus
<1>2. /\ IsTable(Put(d.copy, k, "incomplete"), CopyKeys, CopyStatus)
      /\ IsTable([d.copy EXCEPT ![k] = "complete"], CopyKeys, CopyStatus)
      /\ IsTable(Drop(d.copy, {k}), CopyKeys, CopyStatus)
  BY <1>1, DbTables, PutTable, SetTable, DropTable
<1>3. ASSUME NEW c, IsTable(c, CopyKeys, CopyStatus)
      PROVE  DbOK(Db(d.object, d.deprecated, c, d.layout, d.extent))
  BY <1>3, DbTables, DbOKFields
<1>4. IsDb(d) /\ IsTable(d.copy, CopyKeys, CopyStatus)
  BY DbTables
<1>5. DbOK(CopyInsert(d, k))
  BY <1>2, <1>3, <1>4, CopyInsertDb
<1>6. DbOK(CopyUpdate(d, k, "complete"))
  BY <1>2, <1>3, <1>4, CopyUpdateDb
<1>7. DbOK(CopyDelete(d, k))
  BY <1>2, <1>3, <1>4, CopyDeleteDb
<1> QED
  BY <1>5, <1>6, <1>7

LEMMA LayoutTxnsOK ==
  ASSUME NEW d, DbOK(d), NEW k \in CopyKeys, NEW x \in Extents, NEW y
  PROVE  DbOK(LayoutInsert(d, k, x)) /\ DbOK(LayoutDelete(d, k, y))
<1>1. /\ IsTable(Put(d.layout, k, x), CopyKeys, Extents)
      /\ IsTable(Drop(d.layout, {k}), CopyKeys, Extents)
  BY DbTables, PutTable, DropTable
<1>2. ASSUME NEW l, IsTable(l, CopyKeys, Extents)
      PROVE  DbOK(Db(d.object, d.deprecated, d.copy, l, d.extent))
  BY <1>2, DbTables, DbOKFields
<1>3. IsDb(d) /\ IsTable(d.layout, CopyKeys, Extents)
  BY DbTables
<1>4. DbOK(LayoutInsert(d, k, x))
  BY <1>1, <1>2, <1>3, LayoutInsertDb
<1>5. DbOK(LayoutDelete(d, k, y))
  BY <1>1, <1>2, <1>3, LayoutDeleteDb
<1> QED
  BY <1>4, <1>5

LEMMA SetStateTable ==
  ASSUME NEW f, IsTable(f, Extents, ExtentStates), NEW x, NEW s \in ExtentStates
  PROVE  /\ IsTable(SetState(f, x, s), Extents, ExtentStates)
         /\ DOMAIN SetState(f, x, s) = DOMAIN f
         /\ \A y \in DOMAIN f : SetState(f, x, s)[y] = IF y = x THEN s ELSE f[y]
<1>1. IsTable([f EXCEPT ![x] = s], Extents, ExtentStates)
  BY SetTable
<1> QED
  BY <1>1 DEF SetState

LEMMA ExtentTxnsOK ==
  ASSUME NEW d, DbOK(d), NEW x \in Extents, NEW y, NEW s \in ExtentStates
  PROVE  DbOK(ExtentInsert(d, x)) /\ DbOK(ExtentUpdate(d, y, s)) /\ DbOK(ExtentDelete(d, y))
<1>1. /\ IsTable(Put(d.extent, x, "sync"), Extents, ExtentStates)
      /\ IsTable(SetState(d.extent, y, s), Extents, ExtentStates)
      /\ IsTable(Drop(d.extent, {y}), Extents, ExtentStates)
  BY DbTables, PutTable, DropTable, SetStateTable DEF ExtentStates
<1> QED
  BY <1>1, DbTables, DbOKFields, ExtentInsertDb, ExtentUpdateDb, ExtentDeleteDb

LEMMA MigrateOK ==
  ASSUME NEW d, DbOK(d), NEW old, NEW new \in Extents
  PROVE  DbOK(ExtentMigrate(d, old, new))
<1>1. IsTable(MovedLayout(d.layout, old, new), CopyKeys, Extents)
  <2>1. PICK S \in SUBSET CopyKeys : d.layout \in [S -> Extents]
    BY DbTables DEF IsTable
  <2>2. MovedLayout(d.layout, old, new) \in [S -> Extents]
    BY <2>1 DEF MovedLayout
  <2> QED
    BY <2>2 DEF IsTable
<1>2. IsTable(SetState(SetState(d.extent, old, "orphan"), new, "sync"), Extents, ExtentStates)
  BY DbTables, SetStateTable DEF ExtentStates
<1> QED
  BY <1>1, <1>2, DbTables, DbOKFields, ExtentMigrateDb

LEMMA ObjectTxnsOK ==
  ASSUME NEW d, DbOK(d), NEW o \in Oids, NEW u \in Uuids, NEW v \in Versions
  PROVE  DbOK(ObjectInsert(d, o, u, v)) /\ DbOK(ObjectDelete(d, o))
<1>1. [uuid |-> u, version |-> v] \in ObjectRow
  BY DEF ObjectRow
<1>2. /\ [d.object EXCEPT ![o] = [uuid |-> u, version |-> v]] \in [Oids -> ObjectRow \cup {NoRow}]
      /\ [d.object EXCEPT ![o] = NoRow] \in [Oids -> ObjectRow \cup {NoRow}]
  BY <1>1, DbTables
<1>3. ASSUME NEW f \in [Oids -> ObjectRow \cup {NoRow}]
      PROVE  DbOK(Db(f, d.deprecated, d.copy, d.layout, d.extent))
  BY DbTables, DbOKFields
<1>4. DbOK(ObjectInsert(d, o, u, v))
  <2> DEFINE f == [d.object EXCEPT ![o] = [uuid |-> u, version |-> v]]
  <2>1. f \in [Oids -> ObjectRow \cup {NoRow}]
    BY <1>2
  <2>2. ObjectInsert(d, o, u, v) = Db(f, d.deprecated, d.copy, d.layout, d.extent)
    BY DbTables, ObjectInsertDb
  <2> HIDE DEF f
  <2> QED
    BY <1>3, <2>1, <2>2
<1>5. DbOK(ObjectDelete(d, o))
  BY <1>2, <1>3, DbTables, ObjectDeleteDb
<1> QED
  BY <1>4, <1>5

LEMMA DeprecatedDeleteOK ==
  ASSUME NEW d, DbOK(d), NEW u, NEW v
  PROVE  DbOK(DeprecatedDelete(d, u, v))
<1> DEFINE D == {r \in d.deprecated : ~(r.uuid = u /\ r.version = v)}
<1>1. D \subseteq DeprecatedRow
  BY DbTables
<1>2. DeprecatedDelete(d, u, v) = Db(d.object, D, d.copy, d.layout, d.extent)
  BY DbTables, DeprecatedDeleteDb
<1> HIDE DEF D
<1>3. DbOK(Db(d.object, D, d.copy, d.layout, d.extent))
  BY <1>1, DbTables, DbOKFields
<1> QED
  BY <1>2, <1>3

LEMMA ToDeprecatedOK ==
  ASSUME NEW d, DbOK(d), NEW o \in Oids
  PROVE  DbOK(ToDeprecated(d, o))
<1> DEFINE row == [oid |-> o, uuid |-> d.object[o].uuid, version |-> d.object[o].version]
<1>1. CASE Alive(d, o)
  <2>1. d.object[o] \in ObjectRow
    BY <1>1, DbTables DEF Alive
  <2>2. row \in DeprecatedRow
    BY <2>1 DEF ObjectRow, DeprecatedRow
  <2>3. /\ [d.object EXCEPT ![o] = NoRow] \in [Oids -> ObjectRow \cup {NoRow}]
        /\ d.deprecated \cup {row} \subseteq DeprecatedRow
    BY <2>2, DbTables
  <2>4. ToDeprecated(d, o) =
          Db([d.object EXCEPT ![o] = NoRow], d.deprecated \cup {row}, d.copy, d.layout, d.extent)
    BY <1>1, DbTables, ToDeprecatedDb
  <2> HIDE DEF row
  <2>5. DbOK(Db([d.object EXCEPT ![o] = NoRow], d.deprecated \cup {row},
                d.copy, d.layout, d.extent))
    BY <2>3, DbTables, DbOKFields
  <2> QED
    BY <2>4, <2>5
<1>2. CASE ~Alive(d, o)
  BY <1>2, DbTables, ToDeprecatedDb
<1> QED
  BY <1>1, <1>2

LEMMA ToObjectOK ==
  ASSUME NEW d, DbOK(d), NEW u, NEW v
  PROVE  DbOK(ToObject(d, u, v))
<1>1. CASE IsDeprecated(d, u, v)
  <2>1. PICK r \in DeprecatedOf(d, u) :
          /\ r.version = v
          /\ ToObject(d, u, v) =
               Db([d.object EXCEPT ![r.oid] = [uuid |-> u, version |-> v]],
                  {q \in d.deprecated : ~(q.uuid = u /\ q.version = v)},
                  d.copy, d.layout, d.extent)
    BY <1>1, DbTables, ToObjectDb
  <2>2. r \in DeprecatedRow /\ r.uuid = u /\ r.version = v
    BY <2>1, DbTables DEF DeprecatedOf
  <2>3. [uuid |-> u, version |-> v] \in ObjectRow
    BY <2>2 DEF DeprecatedRow, ObjectRow
  <2>4. /\ [d.object EXCEPT ![r.oid] = [uuid |-> u, version |-> v]]
             \in [Oids -> ObjectRow \cup {NoRow}]
        /\ {q \in d.deprecated : ~(q.uuid = u /\ q.version = v)} \subseteq DeprecatedRow
    BY <2>3, DbTables
  <2> QED
    BY <2>1, <2>4, DbTables, DbOKFields
<1>2. CASE ~IsDeprecated(d, u, v)
  BY <1>2 DEF ToObject
<1> QED
  BY <1>1, <1>2

LEMMA RenameOK ==
  ASSUME NEW d, DbOK(d), NEW u, NEW S, NEW p \in Oids
  PROVE  DbOK(Rename(d, u, S, p))
<1>1. {RenamedRow(r, S, p) : r \in d.deprecated} \subseteq DeprecatedRow
  <2> SUFFICES ASSUME NEW r \in d.deprecated PROVE RenamedRow(r, S, p) \in DeprecatedRow
    OBVIOUS
  <2> QED
    BY DbTables DEF RenamedRow, DeprecatedRow
<1>2. RenamedObject(d, u, p) \in [Oids -> ObjectRow \cup {NoRow}]
  <2>1. CASE u \in AliveUuids(d)
    <3>1. \E q \in Oids : IsU(d, u, q)
      BY <2>1 DEF AliveUuids, IsU
    <3>2. (CHOOSE q \in Oids : IsU(d, u, q)) \in Oids
      BY <3>1
    <3> QED
      BY <2>1, <3>2, DbTables DEF RenamedObject
  <2>2. CASE u \notin AliveUuids(d)
    BY <2>2, DbTables DEF RenamedObject
  <2> QED
    BY <2>1, <2>2
<1> DEFINE D == {RenamedRow(r, S, p) : r \in d.deprecated}
<1>3. Rename(d, u, S, p) = Db(RenamedObject(d, u, p), D, d.copy, d.layout, d.extent)
  BY DbTables, RenameDb
<1>4. D \subseteq DeprecatedRow
  BY <1>1
<1> HIDE DEF D
<1>5. DbOK(Db(RenamedObject(d, u, p), D, d.copy, d.layout, d.extent))
  BY <1>2, <1>4, DbTables, DbOKFields
<1> QED
  BY <1>3, <1>5

-----------------------------------------------------------------------------
(* The local variables of a client.                                        *)

PutOps == {"put", "overwrite"}
EraseOps == {"erase", "erasecopy", "clean"}

\* The steps of object_md_save and object_md_del.
PutPcs == {"save_lock", "save_get", "save_insert", "save_move", "save_full_insert",
           "save_copy", "save_unlock", "save_unlock_failed", "del_lock", "del_get",
           "del_copy", "del_object", "del_move", "del_unlock"}

RenamePcs == {"rename_lock", "rename_lock_new", "rename_update", "rename_unlock",
              "rename_unlock_new"}

\* The other steps that use the oid, and the steps that use a copy.
OidPcs == RenamePcs \cup
          {"delete_lock", "delete_get", "delete_move", "delete_unlock",
           "undelete_lock", "undelete_get", "undelete_move",
           "setmd_lock", "setmd_update"}

KeyPcs == {"save_unlock", "io", "extent_insert", "layout_insert", "extent_orphan",
           "copy_complete", "copy_insert", "copy_undo", "migrate", "copy_status",
           "layout_delete", "extent_delete", "copy_delete", "erase_move", "erase_object",
           "del_copy", "del_object", "del_move"}

\* What a step of store.c may take for granted about its local variables.
LocalOK(r) ==
  /\ r.pc \in PutPcs => r.op \in PutOps
  /\ r.op \in PutOps => r.o \in Oids /\ r.n \in Names /\ r.old = 0
  /\ r.pc \in OidPcs \/ r.more \/ r.pc = "erase_move" => r.o \in Oids
  /\ r.pc \in RenamePcs => r.p \in Oids /\ r.o # r.p
  /\ r.pc \in KeyPcs => r.u \in Uuids /\ r.v \in Versions /\ r.n \in Names
  /\ r.pc \in {"save_move", "save_full_insert"} => r.u \in Uuids
  /\ r.pc \in {"migrate", "copy_status"} => r.op = "rebuild"
  /\ r.pc # "idle" => r.x \in Extents

Local == {r \in LocalType : LocalOK(r)}

LEMMA LocalFields ==
  ASSUME NEW r \in LocalType, NEW there \in Pcs
  PROVE  LET s == [r EXCEPT !.pc = there]
         IN  /\ s \in LocalType /\ s.pc = there
             /\ s.op = r.op /\ s.o = r.o /\ s.p = r.p /\ s.n = r.n /\ s.u = r.u
             /\ s.v = r.v /\ s.x = r.x /\ s.old = r.old /\ s.more = r.more /\ s.S = r.S
BY DEF LocalType

LEMMA LocalU ==
  ASSUME NEW r \in LocalType, NEW u \in Uuids
  PROVE  LET s == [r EXCEPT !.u = u]
         IN  /\ s \in LocalType /\ s.u = u
             /\ s.pc = r.pc /\ s.op = r.op /\ s.o = r.o /\ s.p = r.p /\ s.n = r.n
             /\ s.v = r.v /\ s.x = r.x /\ s.old = r.old /\ s.more = r.more /\ s.S = r.S
BY TablesAssumption DEF LocalType, Uuids

LEMMA LocalV ==
  ASSUME NEW r \in LocalType, NEW v \in Versions
  PROVE  LET s == [r EXCEPT !.v = v]
         IN  /\ s \in LocalType /\ s.v = v
             /\ s.pc = r.pc /\ s.op = r.op /\ s.o = r.o /\ s.p = r.p /\ s.n = r.n
             /\ s.u = r.u /\ s.x = r.x /\ s.old = r.old /\ s.more = r.more /\ s.S = r.S
BY TablesAssumption DEF LocalType, Versions

LEMMA LocalMore ==
  ASSUME NEW r \in LocalType, NEW b \in BOOLEAN
  PROVE  LET s == [r EXCEPT !.more = b]
         IN  /\ s \in LocalType /\ s.more = b
             /\ s.pc = r.pc /\ s.op = r.op /\ s.o = r.o /\ s.p = r.p /\ s.n = r.n
             /\ s.u = r.u /\ s.v = r.v /\ s.x = r.x /\ s.old = r.old /\ s.S = r.S
BY DEF LocalType

\* The local variables after a row of the object table was read, with the flag
\* need_undelete of object_md_del or without it.
RowRead(r, u, v, there) == [[r EXCEPT !.u = u, !.v = v] EXCEPT !.pc = there]
RowReadMore(r, u, v, m, there) == [[r EXCEPT !.u = u, !.v = v, !.more = m] EXCEPT !.pc = there]

LEMMA LocalRow ==
  ASSUME NEW r \in LocalType, NEW u \in Uuids, NEW v \in Versions, NEW there \in Pcs
  PROVE  LET s == RowRead(r, u, v, there)
         IN  /\ s \in LocalType /\ s.pc = there /\ s.u = u /\ s.v = v /\ s.more = r.more
             /\ s.op = r.op /\ s.o = r.o /\ s.p = r.p /\ s.n = r.n
             /\ s.x = r.x /\ s.old = r.old /\ s.S = r.S
<1> DEFINE a == [r EXCEPT !.u = u]
           b == [a EXCEPT !.v = v]
           c == [b EXCEPT !.pc = there]
<1>1. a \in LocalType
  BY LocalU
<1>2. b \in LocalType
  <2> HIDE DEF a
  <2> QED
    BY <1>1, LocalV
<1>3. RowRead(r, u, v, there) = c
  BY DEF RowRead
<1>4. /\ a.pc = r.pc /\ a.op = r.op /\ a.o = r.o /\ a.p = r.p /\ a.n = r.n /\ a.u = u
      /\ a.v = r.v /\ a.x = r.x /\ a.old = r.old /\ a.more = r.more /\ a.S = r.S
  BY LocalU
<1> HIDE DEF a
<1>5. /\ b.pc = a.pc /\ b.op = a.op /\ b.o = a.o /\ b.p = a.p /\ b.n = a.n /\ b.u = a.u
      /\ b.v = v /\ b.x = a.x /\ b.old = a.old /\ b.more = a.more /\ b.S = a.S
  BY <1>1, LocalV
<1> HIDE DEF b
<1>6. /\ c \in LocalType /\ c.pc = there
      /\ c.op = b.op /\ c.o = b.o /\ c.p = b.p /\ c.n = b.n /\ c.u = b.u
      /\ c.v = b.v /\ c.x = b.x /\ c.old = b.old /\ c.more = b.more /\ c.S = b.S
  BY <1>2, LocalFields
<1> HIDE DEF c
<1> QED
  BY <1>3, <1>4, <1>5, <1>6

LEMMA LocalRowMore ==
  ASSUME NEW r \in LocalType, NEW u \in Uuids, NEW v \in Versions, NEW m \in BOOLEAN,
         NEW there \in Pcs
  PROVE  LET s == RowReadMore(r, u, v, m, there)
         IN  /\ s \in LocalType /\ s.pc = there /\ s.u = u /\ s.v = v /\ s.more = m
             /\ s.op = r.op /\ s.o = r.o /\ s.p = r.p /\ s.n = r.n
             /\ s.x = r.x /\ s.old = r.old /\ s.S = r.S
<1> DEFINE a == [r EXCEPT !.u = u]
           b == [a EXCEPT !.v = v]
           d == [b EXCEPT !.more = m]
           c == [d EXCEPT !.pc = there]
<1>1. a \in LocalType
  BY LocalU
<1>2. b \in LocalType
  <2> HIDE DEF a
  <2> QED
    BY <1>1, LocalV
<1>3. d \in LocalType
  <2> HIDE DEF b
  <2> QED
    BY <1>2, LocalMore
<1>4. RowReadMore(r, u, v, m, there) = c
  BY DEF RowReadMore
<1>5. /\ a.pc = r.pc /\ a.op = r.op /\ a.o = r.o /\ a.p = r.p /\ a.n = r.n /\ a.u = u
      /\ a.v = r.v /\ a.x = r.x /\ a.old = r.old /\ a.S = r.S
  BY LocalU
<1> HIDE DEF a
<1>6. /\ b.pc = a.pc /\ b.op = a.op /\ b.o = a.o /\ b.p = a.p /\ b.n = a.n /\ b.u = a.u
      /\ b.v = v /\ b.x = a.x /\ b.old = a.old /\ b.S = a.S
  BY <1>1, LocalV
<1> HIDE DEF b
<1>7. /\ d.pc = b.pc /\ d.op = b.op /\ d.o = b.o /\ d.p = b.p /\ d.n = b.n /\ d.u = b.u
      /\ d.v = b.v /\ d.x = b.x /\ d.old = b.old /\ d.more = m /\ d.S = b.S
  BY <1>2, LocalMore
<1> HIDE DEF d
<1>8. /\ c \in LocalType /\ c.pc = there
      /\ c.op = d.op /\ c.o = d.o /\ c.p = d.p /\ c.n = d.n /\ c.u = d.u
      /\ c.v = d.v /\ c.x = d.x /\ c.old = d.old /\ c.more = d.more /\ c.S = d.S
  BY <1>3, LocalFields
<1> HIDE DEF c
<1> QED
  BY <1>4, <1>5, <1>6, <1>7, <1>8

LEMMA IdleLocal == Idle \in Local
BY TablesAssumption DEF Idle, Local, LocalType, LocalOK, AllOps, Pcs, PutOps, PutPcs, OidPcs,
   RenamePcs, KeyPcs

-----------------------------------------------------------------------------
(* Type correctness.                                                       *)

TypeInv == TypeOK /\ IsDb(db) /\ cl \in [Clients -> Local]

\* A step of client c that leaves the counters alone.
LEMMA TypeStep ==
  ASSUME TypeInv, NEW c \in Clients, NEW r \in Local, cl' = [cl EXCEPT ![c] = r],
         DbOK(db'), lock' \in [Oids -> Clients \cup {Free, Dead}],
         nuuid' \in 0..MaxUuid, nops' \in 0..MaxOps, crashes' \in 0..MaxCrash,
         acked' \subseteq CopyKeys, erased' \subseteq CopyKeys, leaked' \subseteq Clients \X Oids
  PROVE  TypeInv'
BY DEF TypeInv, TypeOK, DbOK, Local


\* The number of the next operation is a free extent.
LEMMA NextExtent == ASSUME TypeInv, nops < MaxOps PROVE nops + 1 \in Extents
BY StoreAssumption, TablesAssumption DEF TypeInv, TypeOK, Extents

LEMMA NumberTypes == /\ Extents \subseteq 0..MaxExtent
                     /\ Uuids \subseteq 0..MaxUuid /\ Versions \subseteq 0..MaxVersion
BY TablesAssumption DEF Extents, Uuids, Versions

\* The local variables at the beginning of each operation.
PutLocal(op, o, n, x) ==
  [[Idle EXCEPT !.pc = "save_lock", !.o = o, !.n = n] EXCEPT !.op = op, !.x = x]
CopyLocal(o, n, u, v, x) ==
  [[Idle EXCEPT !.pc = "copy_insert", !.o = o, !.n = n, !.u = u, !.v = v]
     EXCEPT !.op = "copy", !.x = x]
RebuildLocal(o, n, u, v, old, x) ==
  [[Idle EXCEPT !.pc = "io", !.o = o, !.n = n, !.u = u, !.v = v, !.old = old]
     EXCEPT !.op = "rebuild", !.x = x]
OidLocal(op, pc, o, x) == [[Idle EXCEPT !.pc = pc, !.o = o] EXCEPT !.op = op, !.x = x]
UndeleteLocal(o, u, v, x) ==
  [[Idle EXCEPT !.pc = "undelete_lock", !.o = o, !.u = u, !.v = v]
     EXCEPT !.op = "undelete", !.x = x]
RenameLocal(o, p, u, S, x) ==
  [[Idle EXCEPT !.pc = "rename_lock", !.o = o, !.p = p, !.u = u, !.S = S]
     EXCEPT !.op = "rename", !.x = x]
EraseLocal(op, pc, o, n, u, v, m, old, x) ==
  [[Idle EXCEPT !.pc = pc, !.o = o, !.n = n, !.u = u, !.v = v, !.more = m, !.old = old]
     EXCEPT !.op = op, !.x = x]

LEMMA PutRec ==
  ASSUME NEW op \in PutOps, NEW o \in Oids, NEW n \in Names, NEW x \in Extents
  PROVE  LET r == PutLocal(op, o, n, x)
         IN  /\ r \in Local
             /\ r.pc = "save_lock" /\ r.op = op /\ r.x = x /\ r.old = 0
<1> DEFINE r == PutLocal(op, o, n, x)
<1>1. /\ r.pc = "save_lock" /\ r.op = op /\ r.x = x /\ r.old = 0
      /\ r.o = o /\ r.n = n /\ r.more = FALSE
  BY DEF Idle, PutLocal
<1>2. r \in LocalType
  <2>1. "save_lock" \in Pcs /\ op \in AllOps
    BY DEF Pcs, AllOps, PutOps, EraseOps
  <2>2. Idle \in LocalType
    BY IdleLocal DEF Local
  <2> QED
    BY <2>1, <2>2, NumberTypes DEF LocalType, PutLocal
<1> HIDE DEF r
<1>3. LocalOK(r)
  BY <1>1 DEF LocalOK, PutOps, PutPcs, OidPcs, RenamePcs, KeyPcs, EraseOps
<1> QED
  BY <1>1, <1>2, <1>3 DEF Local, r

LEMMA CopyRec ==
  ASSUME NEW o \in Oids, NEW n \in Names, NEW u \in Uuids, NEW v \in Versions, NEW x \in Extents
  PROVE  LET r == CopyLocal(o, n, u, v, x)
         IN  /\ r \in Local
             /\ r.pc = "copy_insert" /\ r.op = "copy" /\ r.x = x /\ r.old = 0 /\ r.u = u /\ r.v = v
<1> DEFINE r == CopyLocal(o, n, u, v, x)
<1>1. /\ r.pc = "copy_insert" /\ r.op = "copy" /\ r.x = x /\ r.old = 0 /\ r.u = u /\ r.v = v
      /\ r.o = o /\ r.n = n
  BY DEF Idle, CopyLocal
<1>2. r \in LocalType
  <2>1. "copy_insert" \in Pcs /\ "copy" \in AllOps
    BY DEF Pcs, AllOps, PutOps, EraseOps
  <2>2. Idle \in LocalType
    BY IdleLocal DEF Local
  <2> QED
    BY <2>1, <2>2, NumberTypes DEF LocalType, CopyLocal
<1> HIDE DEF r
<1>3. LocalOK(r)
  BY <1>1 DEF LocalOK, PutOps, PutPcs, OidPcs, RenamePcs, KeyPcs, EraseOps
<1> QED
  BY <1>1, <1>2, <1>3 DEF Local, r

LEMMA RebuildRec ==
  ASSUME NEW o \in Oids, NEW n \in Names, NEW u \in Uuids, NEW v \in Versions,
         NEW old \in Extents, NEW x \in Extents
  PROVE  LET r == RebuildLocal(o, n, u, v, old, x)
         IN  /\ r \in Local
             /\ r.pc = "io" /\ r.op = "rebuild" /\ r.x = x /\ r.old = old
             /\ r.u = u /\ r.v = v /\ r.n = n
<1> DEFINE r == RebuildLocal(o, n, u, v, old, x)
<1>1. /\ r.pc = "io" /\ r.op = "rebuild" /\ r.x = x /\ r.old = old
             /\ r.u = u /\ r.v = v /\ r.n = n
      /\ r.o = o
  BY DEF Idle, RebuildLocal
<1>2. r \in LocalType
  <2>1. "io" \in Pcs /\ "rebuild" \in AllOps
    BY DEF Pcs, AllOps, PutOps, EraseOps
  <2>2. Idle \in LocalType
    BY IdleLocal DEF Local
  <2> QED
    BY <2>1, <2>2, NumberTypes DEF LocalType, RebuildLocal
<1> HIDE DEF r
<1>3. LocalOK(r)
  BY <1>1 DEF LocalOK, PutOps, PutPcs, OidPcs, RenamePcs, KeyPcs, EraseOps
<1> QED
  BY <1>1, <1>2, <1>3 DEF Local, r

LEMMA OidRec ==
  ASSUME NEW op \in {"delete", "setmd"}, NEW pc \in {"delete_lock", "setmd_lock"},
         NEW o \in Oids, NEW x \in Extents
  PROVE  LET r == OidLocal(op, pc, o, x)
         IN  /\ r \in Local
             /\ r.pc = pc /\ r.op = op /\ r.x = x /\ r.old = 0
<1> DEFINE r == OidLocal(op, pc, o, x)
<1>1. /\ r.pc = pc /\ r.op = op /\ r.x = x /\ r.old = 0
      /\ r.o = o
  BY DEF Idle, OidLocal
<1>2. r \in LocalType
  <2>1. pc \in Pcs /\ op \in AllOps
    BY DEF Pcs, AllOps, PutOps, EraseOps
  <2>2. Idle \in LocalType
    BY IdleLocal DEF Local
  <2> QED
    BY <2>1, <2>2, NumberTypes DEF LocalType, OidLocal
<1> HIDE DEF r
<1>3. LocalOK(r)
  BY <1>1 DEF LocalOK, PutOps, PutPcs, OidPcs, RenamePcs, KeyPcs, EraseOps
<1> QED
  BY <1>1, <1>2, <1>3 DEF Local, r

LEMMA UndeleteRec ==
  ASSUME NEW o \in Oids, NEW u \in Uuids, NEW v \in Versions, NEW x \in Extents
  PROVE  LET r == UndeleteLocal(o, u, v, x)
         IN  /\ r \in Local
             /\ r.pc = "undelete_lock" /\ r.op = "undelete" /\ r.x = x /\ r.old = 0
<1> DEFINE r == UndeleteLocal(o, u, v, x)
<1>1. /\ r.pc = "undelete_lock" /\ r.op = "undelete" /\ r.x = x /\ r.old = 0
      /\ r.o = o
  BY DEF Idle, UndeleteLocal
<1>2. r \in LocalType
  <2>1. "undelete_lock" \in Pcs /\ "undelete" \in AllOps
    BY DEF Pcs, AllOps, PutOps, EraseOps
  <2>2. Idle \in LocalType
    BY IdleLocal DEF Local
  <2> QED
    BY <2>1, <2>2, NumberTypes DEF LocalType, UndeleteLocal
<1> HIDE DEF r
<1>3. LocalOK(r)
  BY <1>1 DEF LocalOK, PutOps, PutPcs, OidPcs, RenamePcs, KeyPcs, EraseOps
<1> QED
  BY <1>1, <1>2, <1>3 DEF Local, r

LEMMA RenameRec ==
  ASSUME NEW o \in Oids, NEW p \in Oids, o # p, NEW u \in Uuids,
         NEW S \in SUBSET (Uuids \X Versions), NEW x \in Extents
  PROVE  LET r == RenameLocal(o, p, u, S, x)
         IN  /\ r \in Local
             /\ r.pc = "rename_lock" /\ r.op = "rename" /\ r.x = x /\ r.old = 0
<1> DEFINE r == RenameLocal(o, p, u, S, x)
<1>1. /\ r.pc = "rename_lock" /\ r.op = "rename" /\ r.x = x /\ r.old = 0
      /\ r.o = o /\ r.p = p
  BY DEF Idle, RenameLocal
<1>2. r \in LocalType
  <2>1. "rename_lock" \in Pcs /\ "rename" \in AllOps
    BY DEF Pcs, AllOps, PutOps, EraseOps
  <2>2. Idle \in LocalType
    BY IdleLocal DEF Local
  <2> QED
    BY <2>1, <2>2, NumberTypes DEF LocalType, RenameLocal
<1> HIDE DEF r
<1>3. LocalOK(r)
  BY <1>1 DEF LocalOK, PutOps, PutPcs, OidPcs, RenamePcs, KeyPcs, EraseOps
<1> QED
  BY <1>1, <1>2, <1>3 DEF Local, r

LEMMA ErasureRec ==
  ASSUME NEW op \in EraseOps, NEW pc \in {"io", "copy_delete"}, NEW o \in Oids \cup {NoRow},
         NEW n \in Names, NEW u \in Uuids, NEW v \in Versions, NEW m \in BOOLEAN, m => o \in Oids,
         NEW old \in 0..MaxExtent, NEW x \in Extents
  PROVE  LET r == EraseLocal(op, pc, o, n, u, v, m, old, x)
         IN  /\ r \in Local
             /\ r.pc = pc /\ r.op = op /\ r.x = x /\ r.old = old
             /\ r.u = u /\ r.v = v /\ r.n = n
<1> DEFINE r == EraseLocal(op, pc, o, n, u, v, m, old, x)
<1>1. /\ r.pc = pc /\ r.op = op /\ r.x = x /\ r.old = old
             /\ r.u = u /\ r.v = v /\ r.n = n
      /\ r.o = o /\ r.more = m
  BY DEF Idle, EraseLocal
<1>2. r \in LocalType
  <2>1. pc \in Pcs /\ op \in AllOps
    BY DEF Pcs, AllOps, PutOps, EraseOps
  <2>2. Idle \in LocalType
    BY IdleLocal DEF Local
  <2> QED
    BY <2>1, <2>2, NumberTypes DEF LocalType, EraseLocal
<1> HIDE DEF r
<1>3. LocalOK(r)
  BY <1>1 DEF LocalOK, PutOps, PutPcs, OidPcs, RenamePcs, KeyPcs, EraseOps
<1> QED
  BY <1>1, <1>2, <1>3 DEF Local, r


-----------------------------------------------------------------------------
(* The calls.                                                              *)

KeyOf(r) == <<r.u, r.v, r.n>>

\* Version v of object u, in one of the two tables.
ObjectThere(d, u, v) ==
  (\E o \in Oids : d.object[o] = [uuid |-> u, version |-> v]) \/ IsDeprecated(d, u, v)

StartPcs == {"save_lock", "copy_insert", "io", "delete_lock", "setmd_lock", "undelete_lock",
             "rename_lock", "copy_delete"}

\* What the reads of a call establish: the extent to replace or to erase is the
\* one the layout names, the object of a transfer exists.
Called(r) ==
  /\ r.x = nops + 1 /\ r.pc \in StartPcs
  /\ r.old # 0 \/ r.op = "rebuild" => HasLayout(db, KeyOf(r)) /\ db.layout[KeyOf(r)] = r.old
  /\ r.pc \in {"io", "copy_insert"} => ObjectThere(db, r.u, r.v)

LEMMA AliveRow ==
  ASSUME DbOK(db), NEW o \in Oids, Alive(db, o)
  PROVE  LET row == db.object[o]
         IN  /\ row.uuid \in Uuids /\ row.version \in Versions
             /\ row = [uuid |-> row.uuid, version |-> row.version]
             /\ ObjectThere(db, row.uuid, row.version)
<1>1. db.object[o] \in ObjectRow
  BY DbTables DEF Alive
<1>2. db.object[o] = [uuid |-> db.object[o].uuid, version |-> db.object[o].version]
  BY <1>1 DEF ObjectRow
<1> QED
  BY <1>1, <1>2 DEF ObjectRow, ObjectThere

LEMMA KeyParts ==
  ASSUME NEW k \in CopyKeys
  PROVE  /\ k[1] \in Uuids /\ k[2] \in Versions /\ k[3] \in Names
         /\ k = <<k[1], k[2], k[3]>>
BY DEF CopyKeys

\* Client c begins an operation with the local variables r.
Entered(c, r) ==
  /\ cl' = [cl EXCEPT ![c] = r] /\ cl[c].pc = "idle"
  /\ nops < MaxOps /\ nops' = nops + 1
  /\ UNCHANGED <<db, lock, nuuid, crashes, acked, erased, leaked>>

LEMMA EraseForm ==
  ASSUME TypeInv, NEW c, NEW op \in EraseOps, NEW o \in Oids \cup {NoRow},
         NEW k \in DOMAIN db.copy, NEW m \in BOOLEAN, m => o \in Oids,
         Call(c, op, EraseRec(o, k, m)), HasLayout(db, k) => ObjectThere(db, k[1], k[2])
  PROVE  \E r \in Local : Entered(c, r) /\ Called(r)
<1> DEFINE pc == IF HasLayout(db, k) THEN "io" ELSE "copy_delete"
           old == IF HasLayout(db, k) THEN db.layout[k] ELSE 0
           r == EraseLocal(op, pc, o, k[3], k[1], k[2], m, old, nops + 1)
<1>1. IsTable(db.copy, CopyKeys, CopyStatus) /\ IsTable(db.layout, CopyKeys, Extents)
  BY DbTables DEF TypeInv, TypeOK, DbOK
<1>2. k[1] \in Uuids /\ k[2] \in Versions /\ k[3] \in Names /\ k = <<k[1], k[2], k[3]>>
  BY <1>1, TableApply, KeyParts
<1>3. Entered(c, r)
  BY DEF Call, Entered, At, EraseLocal, EraseRec
<1>4. /\ pc \in {"io", "copy_delete"} /\ old \in 0..MaxExtent
      /\ pc = "io" => ObjectThere(db, k[1], k[2])
      /\ old # 0 => HasLayout(db, k) /\ old = db.layout[k]
  <2>1. 0 \in 0..MaxExtent
    BY TablesAssumption
  <2>2. HasLayout(db, k) => db.layout[k] \in Extents
    BY <1>1, TableApply DEF HasLayout
  <2> QED
    BY <2>1, <2>2, NumberTypes
<1>5. nops + 1 \in Extents
  BY NextExtent DEF Call
<1> HIDE DEF pc, old
<1>6. /\ r \in Local /\ r.pc = pc /\ r.op = op /\ r.x = nops + 1
      /\ r.old = old /\ r.u = k[1] /\ r.v = k[2] /\ r.n = k[3]
  BY <1>2, <1>4, <1>5, ErasureRec
<1> HIDE DEF r
<1>7. KeyOf(r) = k
  BY <1>2, <1>6 DEF KeyOf
<1>8. Called(r)
  BY <1>4, <1>6, <1>7 DEF Called, StartPcs, EraseOps
<1> QED
  BY <1>3, <1>6, <1>8

LEMMA CallForm ==
  ASSUME TypeInv, NEW c \in Clients, CallStep(c)
  PROVE  \E r \in Local : Entered(c, r) /\ Called(r)
<1> DEFINE Goal == \E r \in Local : Entered(c, r) /\ Called(r)
<1>1. /\ DbOK(db) /\ db.object \in [Oids -> ObjectRow \cup {NoRow}]
      /\ db.deprecated \subseteq DeprecatedRow
      /\ IsTable(db.copy, CopyKeys, CopyStatus)
      /\ IsTable(db.layout, CopyKeys, Extents)
  BY DbTables DEF TypeInv, TypeOK, DbOK
<1>2. ASSUME NEW k \in DOMAIN db.copy PROVE k \in CopyKeys
  BY <1>1, TableApply
<1>3. ASSUME NEW k \in DOMAIN db.layout PROVE db.layout[k] \in Extents /\ db.layout[k] # 0
  <2>1. db.layout[k] \in Extents
    BY <1>1, TableApply
  <2> QED
    BY <2>1, TablesAssumption DEF Extents
<1>4. ASSUME NEW r \in db.deprecated
      PROVE  r.oid \in Oids /\ r.uuid \in Uuids /\ r.version \in Versions
  BY <1>1 DEF DeprecatedRow
<1>6. ASSUME NEW op, NEW rec, Call(c, op, rec) PROVE nops + 1 \in Extents
  BY <1>6, NextExtent DEF Call
<1>7. CASE CallPut(c)
  <2>1. PICK o \in Oids, n \in Names, over \in BOOLEAN :
          Call(c, IF over THEN "overwrite" ELSE "put",
               [Idle EXCEPT !.pc = "save_lock", !.o = o, !.n = n])
    BY <1>7 DEF CallPut
  <2> DEFINE op == IF over THEN "overwrite" ELSE "put"
             r == PutLocal(op, o, n, nops + 1)
  <2>2. op \in PutOps
    BY DEF PutOps
  <2> HIDE DEF op
  <2>3. Entered(c, r)
    BY <2>1 DEF Call, Entered, At, PutLocal, op
  <2>4. r \in Local /\ r.pc = "save_lock" /\ r.op = op /\ r.x = nops + 1 /\ r.old = 0
    BY <1>6, <2>1, <2>2, PutRec
  <2> HIDE DEF r
  <2>5. Called(r)
    BY <2>2, <2>4 DEF Called, StartPcs, PutOps
  <2> QED
    BY <2>3, <2>4, <2>5
<1>8. CASE CallCopy(c)
  <2>1. PICK o \in Oids, n \in Names :
          /\ Alive(db, o)
          /\ Call(c, "copy", [Idle EXCEPT !.pc = "copy_insert", !.o = o, !.n = n,
                                !.u = db.object[o].uuid, !.v = db.object[o].version])
    BY <1>8 DEF CallCopy
  <2> DEFINE u == db.object[o].uuid
             v == db.object[o].version
             r == CopyLocal(o, n, u, v, nops + 1)
  <2>2. u \in Uuids /\ v \in Versions /\ ObjectThere(db, u, v)
    BY <1>1, <2>1, AliveRow
  <2>3. Entered(c, r)
    BY <2>1 DEF Call, Entered, At, CopyLocal
  <2> HIDE DEF u, v
  <2>4. r \in Local /\ r.pc = "copy_insert" /\ r.op = "copy" /\ r.x = nops + 1 /\ r.old = 0
        /\ r.u = u /\ r.v = v
    BY <1>6, <2>1, <2>2, CopyRec
  <2> HIDE DEF r
  <2>5. Called(r)
    BY <2>2, <2>4 DEF Called, StartPcs
  <2> QED
    BY <2>3, <2>4, <2>5
<1>9. CASE CallRebuild(c)
  <2>1. PICK o \in Oids : Alive(db, o) /\
          \E k \in LazyCopies(db, db.object[o].uuid, db.object[o].version) :
            /\ HasLayout(db, k)
            /\ Call(c, "rebuild", [Idle EXCEPT !.pc = "io", !.o = o, !.n = k[3],
                     !.u = db.object[o].uuid, !.v = db.object[o].version, !.old = db.layout[k]])
    BY <1>9 DEF CallRebuild
  <2> DEFINE u == db.object[o].uuid
             v == db.object[o].version
  <2>2. PICK k \in LazyCopies(db, u, v) :
          /\ HasLayout(db, k)
          /\ Call(c, "rebuild", [Idle EXCEPT !.pc = "io", !.o = o, !.n = k[3],
                     !.u = u, !.v = v, !.old = db.layout[k]])
    BY <2>1
  <2> DEFINE r == RebuildLocal(o, k[3], u, v, db.layout[k], nops + 1)
  <2>3. u \in Uuids /\ v \in Versions /\ ObjectThere(db, u, v)
    BY <1>1, <2>1, AliveRow
  <2>4. k[3] \in Names /\ k = <<u, v, k[3]>>
    BY <1>2, KeyParts DEF LazyCopies, CopiesOf
  <2>5. db.layout[k] \in Extents
    BY <1>3, <2>2 DEF HasLayout
  <2>6. Entered(c, r)
    BY <2>2 DEF Call, Entered, At, RebuildLocal
  <2> HIDE DEF u, v
  <2>7. /\ r \in Local /\ r.pc = "io" /\ r.op = "rebuild" /\ r.x = nops + 1
        /\ r.old = db.layout[k] /\ r.u = u /\ r.v = v /\ r.n = k[3]
    BY <1>6, <2>2, <2>3, <2>4, <2>5, RebuildRec
  <2> HIDE DEF r
  <2>8. Called(r)
    BY <2>2, <2>3, <2>4, <2>7 DEF Called, StartPcs, KeyOf
  <2> QED
    BY <2>6, <2>7, <2>8
<1>11. CASE CallDelete(c)
  <2>1. PICK o \in Oids : Call(c, "delete", [Idle EXCEPT !.pc = "delete_lock", !.o = o])
    BY <1>11 DEF CallDelete
  <2> DEFINE r == OidLocal("delete", "delete_lock", o, nops + 1)
  <2>2. Entered(c, r)
    BY <2>1 DEF Call, Entered, At, OidLocal
  <2>3. r \in Local /\ r.pc = "delete_lock" /\ r.op = "delete" /\ r.x = nops + 1 /\ r.old = 0
    BY <1>6, <2>1, OidRec
  <2> HIDE DEF r
  <2>4. Called(r)
    BY <2>3 DEF Called, StartPcs
  <2> QED
    BY <2>2, <2>3, <2>4
<1>12. CASE CallSetmd(c)
  <2>1. PICK o \in Oids : Call(c, "setmd", [Idle EXCEPT !.pc = "setmd_lock", !.o = o])
    BY <1>12 DEF CallSetmd
  <2> DEFINE r == OidLocal("setmd", "setmd_lock", o, nops + 1)
  <2>2. Entered(c, r)
    BY <2>1 DEF Call, Entered, At, OidLocal
  <2>3. r \in Local /\ r.pc = "setmd_lock" /\ r.op = "setmd" /\ r.x = nops + 1 /\ r.old = 0
    BY <1>6, <2>1, OidRec
  <2> HIDE DEF r
  <2>4. Called(r)
    BY <2>3 DEF Called, StartPcs
  <2> QED
    BY <2>2, <2>3, <2>4
<1>13. CASE CallUndelete(c)
  <2>1. PICK o \in Oids, u \in Uuids : \E d \in LatestDeprecated(db, o, u) :
          Call(c, "undelete", [Idle EXCEPT !.pc = "undelete_lock", !.o = o, !.u = u,
                                 !.v = d.version])
    BY <1>13 DEF CallUndelete
  <2>2. PICK d \in LatestDeprecated(db, o, u) :
          Call(c, "undelete", [Idle EXCEPT !.pc = "undelete_lock", !.o = o, !.u = u,
                                 !.v = d.version])
    BY <2>1
  <2> DEFINE r == UndeleteLocal(o, u, d.version, nops + 1)
  <2>3. d.version \in Versions
    BY <1>4 DEF LatestDeprecated, DeprecatedOf
  <2>4. Entered(c, r)
    BY <2>2 DEF Call, Entered, At, UndeleteLocal
  <2>5. r \in Local /\ r.pc = "undelete_lock" /\ r.op = "undelete" /\ r.x = nops + 1 /\ r.old = 0
    BY <1>6, <2>2, <2>3, UndeleteRec
  <2> HIDE DEF r
  <2>6. Called(r)
    BY <2>5 DEF Called, StartPcs
  <2> QED
    BY <2>4, <2>5, <2>6
<1>14. CASE CallRename(c)
  <2>1. PICK o \in Oids, p \in Oids :
          /\ o # p /\ Alive(db, o)
          /\ Call(c, "rename", [Idle EXCEPT !.pc = "rename_lock", !.o = o, !.p = p,
                !.u = db.object[o].uuid,
                !.S = {<<q.uuid, q.version>> : q \in DeprecatedOf(db, db.object[o].uuid)}])
    BY <1>14 DEF CallRename
  <2> DEFINE u == db.object[o].uuid
             S == {<<q.uuid, q.version>> : q \in DeprecatedOf(db, u)}
             r == RenameLocal(o, p, u, S, nops + 1)
  <2>2. u \in Uuids
    BY <1>1, <2>1, AliveRow
  <2>3. S \in SUBSET (Uuids \X Versions)
    BY <1>4 DEF DeprecatedOf
  <2>5. Entered(c, r)
    BY <2>1 DEF Call, Entered, At, RenameLocal
  <2> HIDE DEF u, S
  <2>6. r \in Local /\ r.pc = "rename_lock" /\ r.op = "rename" /\ r.x = nops + 1 /\ r.old = 0
    BY <1>6, <2>1, <2>2, <2>3, RenameRec
  <2> HIDE DEF r
  <2>7. Called(r)
    BY <2>6 DEF Called, StartPcs
  <2> QED
    BY <2>5, <2>6, <2>7
<1>16. CASE CallErase(c)
  <2>1. PICK o \in Oids : Alive(db, o) /\
          \E k \in CopiesOf(db, db.object[o].uuid, db.object[o].version) :
            Call(c, "erase", EraseRec(o, k, TRUE)) \/ Call(c, "erasecopy", EraseRec(o, k, FALSE))
    BY <1>16 DEF CallErase
  <2>2. PICK k \in CopiesOf(db, db.object[o].uuid, db.object[o].version) :
          Call(c, "erase", EraseRec(o, k, TRUE)) \/ Call(c, "erasecopy", EraseRec(o, k, FALSE))
    BY <2>1
  <2>3. k \in DOMAIN db.copy /\ ObjectThere(db, k[1], k[2])
    BY <1>1, <2>1, AliveRow DEF CopiesOf
  <2>4. CASE Call(c, "erase", EraseRec(o, k, TRUE))
    <3>1. "erase" \in EraseOps /\ TRUE \in BOOLEAN /\ o \in Oids \cup {NoRow}
      BY DEF EraseOps
    <3> QED
      BY <2>3, <2>4, <3>1, EraseForm
  <2>5. CASE Call(c, "erasecopy", EraseRec(o, k, FALSE))
    <3>1. "erasecopy" \in EraseOps /\ FALSE \in BOOLEAN /\ o \in Oids \cup {NoRow}
      BY DEF EraseOps
    <3> QED
      BY <2>3, <2>5, <3>1, EraseForm
  <2> QED
    BY <2>2, <2>4, <2>5
<1>17. CASE CallClean(c)
  <2>1. PICK k \in DOMAIN db.copy :
          \/ \E o \in {q \in Oids : Alive(db, q) /\
                          db.object[q] = [uuid |-> k[1], version |-> k[2]]}
                      \cup {d.oid : d \in {e \in DeprecatedOf(db, k[1]) : e.version = k[2]}} :
                Call(c, "clean", EraseRec(o, k, CopiesOf(db, k[1], k[2]) = {k}))
          \/ /\ ~HasLayout(db, k)
             /\ Call(c, "clean", [EraseRec(NoRow, k, FALSE) EXCEPT !.pc = "copy_delete"])
    BY <1>17 DEF CallClean
  <2>2. ASSUME NEW o, o \in {q \in Oids : Alive(db, q) /\
                               db.object[q] = [uuid |-> k[1], version |-> k[2]]}
                      \cup {d.oid : d \in {e \in DeprecatedOf(db, k[1]) : e.version = k[2]}},
               Call(c, "clean", EraseRec(o, k, CopiesOf(db, k[1], k[2]) = {k}))
        PROVE  Goal
    <3>1. o \in Oids
      BY <1>4, <2>2 DEF DeprecatedOf
    <3>2. ObjectThere(db, k[1], k[2])
      BY <2>2 DEF ObjectThere, IsDeprecated
    <3> DEFINE m == CopiesOf(db, k[1], k[2]) = {k}
    <3>3. m \in BOOLEAN /\ Call(c, "clean", EraseRec(o, k, m))
      BY <2>2
    <3> HIDE DEF m
    <3> QED
      <4>1. "clean" \in EraseOps /\ o \in Oids \cup {NoRow}
        BY <3>1 DEF EraseOps
      <4> QED
        BY <3>1, <3>2, <3>3, <4>1, EraseForm
  <2>3. ASSUME ~HasLayout(db, k),
               Call(c, "clean", [EraseRec(NoRow, k, FALSE) EXCEPT !.pc = "copy_delete"])
        PROVE  Goal
    <3> DEFINE rec == [Idle EXCEPT !.pc = "copy_delete", !.o = NoRow, !.n = k[3], !.u = k[1],
                         !.v = k[2], !.more = FALSE, !.old = 0]
    <3>1. EraseRec(NoRow, k, FALSE) = rec
      BY <2>3 DEF EraseRec
    <3>2. [rec EXCEPT !.pc = "copy_delete"] = rec
      BY DEF Idle
    <3>3. Call(c, "clean", EraseRec(NoRow, k, FALSE))
      BY <2>3, <3>1, <3>2
    <3> QED
      <4>1. "clean" \in EraseOps /\ NoRow \in Oids \cup {NoRow} /\ FALSE \in BOOLEAN
        BY DEF EraseOps
      <4> QED
        BY <2>3, <3>3, <4>1, EraseForm
  <2> QED
    BY <2>1, <2>2, <2>3, Zenon
<1> QED
  BY <1>7, <1>8, <1>9, <1>11, <1>12, <1>13, <1>14, <1>16, <1>17 DEF CallStep

-----------------------------------------------------------------------------
(* The steps of an operation, seen by each invariant.                      *)

\* r is at a step where q may be next, as far as its local variables go.
MayGo(r, q) ==
  /\ q \in PutPcs => r.op \in PutOps
  /\ q \in OidPcs \/ q = "erase_move" => r.o \in Oids
  /\ q \in RenamePcs => r.p \in Oids /\ r.o # r.p
  /\ q \in KeyPcs => r.u \in Uuids /\ r.v \in Versions /\ r.n \in Names
  /\ q \in {"save_move", "save_full_insert"} => r.u \in Uuids
  /\ q \in {"migrate", "copy_status"} => r.op = "rebuild"

\* The local variables that a run of an operation never assigns.
Same(r, s) == s.op = r.op /\ s.o = r.o /\ s.p = r.p /\ s.n = r.n /\ s.x = r.x /\ s.old = r.old
SameKey(r, s) == s.u = r.u /\ s.v = r.v

Continues(c, r) ==
  /\ cl' = [cl EXCEPT ![c] = r] /\ cl[c].pc # "idle"
  /\ r = Idle \/ (Same(cl[c], r) /\ (SameKey(cl[c], r) \/ cl[c].op \in PutOps))

\* Client c arrives at step q with the local variables r.
Arrives(c, r, q) ==
  /\ Continues(c, r) /\ r.pc = q
  /\ q # "idle" => Same(cl[c], r) /\ SameKey(cl[c], r) /\ r.more = cl[c].more

LEMMA GoLocal ==
  ASSUME NEW r \in Local, r.pc # "idle", NEW q \in Pcs \ {"idle"}, MayGo(r, q)
  PROVE  LET s == [r EXCEPT !.pc = q]
         IN  /\ s \in Local /\ s.pc = q /\ s.op = r.op /\ s.o = r.o /\ s.p = r.p
             /\ s.n = r.n /\ s.u = r.u /\ s.v = r.v /\ s.x = r.x /\ s.old = r.old
             /\ s.more = r.more /\ s.S = r.S
<1> DEFINE s == [r EXCEPT !.pc = q]
<1>1. /\ s \in LocalType /\ s.pc = q
      /\ s.op = r.op /\ s.o = r.o /\ s.p = r.p /\ s.n = r.n /\ s.u = r.u
      /\ s.v = r.v /\ s.x = r.x /\ s.old = r.old /\ s.more = r.more /\ s.S = r.S
  BY LocalFields DEF Local
<1> HIDE DEF s
<1>2. LocalOK(s)
  <2>1. LocalOK(r)
    BY DEF Local
  <2> QED
    BY <1>1, <2>1 DEF LocalOK, MayGo
<1> QED
  BY <1>1, <1>2 DEF Local, s

LEMMA ToArrives ==
  ASSUME TypeInv, NEW c \in Clients, cl[c].pc # "idle", NEW q \in Pcs \ {"idle"}, To(c, q),
         MayGo(cl[c], q)
  PROVE  \E r \in Local : Arrives(c, r, q)
<1> DEFINE r == [cl[c] EXCEPT !.pc = q]
<1>1. cl[c] \in Local
  BY DEF TypeInv
<1>2. /\ r \in Local /\ r.pc = q /\ r.op = cl[c].op /\ r.o = cl[c].o /\ r.p = cl[c].p
      /\ r.n = cl[c].n /\ r.u = cl[c].u /\ r.v = cl[c].v /\ r.x = cl[c].x
      /\ r.old = cl[c].old /\ r.more = cl[c].more
  BY <1>1, GoLocal
<1>3. cl' = [cl EXCEPT ![c] = r]
  BY DEF To
<1> HIDE DEF r
<1> QED
  BY <1>2, <1>3 DEF Arrives, Continues, Same, SameKey

LEMMA EndArrives ==
  ASSUME TypeInv, NEW c \in Clients, cl[c].pc # "idle", End(c)
  PROVE  Idle \in Local /\ Arrives(c, Idle, "idle") /\ Continues(c, Idle)
<1>1. Idle.pc = "idle"
  BY DEF Idle
<1> QED
  BY <1>1, IdleLocal DEF End, Arrives, Continues

LEMMA TxnArrives ==
  ASSUME TypeInv, NEW c \in Clients, NEW here, here # "idle", NEW applies \in BOOLEAN, NEW newDb,
         NEW there \in Pcs, NEW otherwise \in Pcs,
         Txn(c, here, applies, newDb, there, otherwise),
         MayGo(cl[c], there), MayGo(cl[c], otherwise)
  PROVE  /\ cl[c].pc = here
         /\ UNCHANGED <<lock, leaked, nuuid, nops, crashes>>
         /\ \/ /\ applies /\ db' = newDb
               /\ \E r \in Local : Arrives(c, r, there)
            \/ /\ ~applies /\ db' = db
               /\ \E r \in Local : Arrives(c, r, otherwise)
<1>1. cl[c].pc = here /\ UNCHANGED <<lock, leaked, nuuid, nops, crashes>>
  BY DEF Txn, At, NoLock, NoCount
<1>2. ASSUME NEW q \in Pcs, IF q = "idle" THEN End(c) ELSE To(c, q), MayGo(cl[c], q)
      PROVE  \E r \in Local : Arrives(c, r, q)
  BY <1>1, <1>2, ToArrives, EndArrives
<1>3. CASE applies
  BY <1>1, <1>2, <1>3 DEF Txn
<1>4. CASE ~applies
  BY <1>1, <1>2, <1>4 DEF Txn
<1> QED
  BY <1>1, <1>3, <1>4

-----------------------------------------------------------------------------
(* What a step of an operation does to the locks, to the layouts and       *)
(* extents, to the copies and to the objects, client c going on with r.    *)

OwnPcs == {"save_get", "save_insert", "save_move", "save_full_insert", "save_copy",
           "save_unlock", "save_unlock_failed", "del_get", "del_copy", "del_object",
           "del_move", "del_unlock", "delete_get", "delete_move", "delete_unlock",
           "undelete_get", "undelete_move", "rename_lock_new", "rename_update",
           "rename_unlock", "setmd_update"}
NewPcs == {"rename_update", "rename_unlock", "rename_unlock_new"}

Within(r, o) == (r.o = o /\ r.pc \in OwnPcs) \/ (r.p = o /\ r.pc \in NewPcs)

LockKept(c, r) ==
  UNCHANGED <<lock, leaked>> /\ \A o \in Oids : Within(r, o) <=> Within(cl[c], o)
LockTaken(c, r, o) ==
  /\ lock[o] = Free /\ lock' = [lock EXCEPT ![o] = c] /\ leaked' = leaked
  /\ \A q \in Oids : Within(r, q) <=> Within(cl[c], q) \/ q = o
LockDropped(c, r, o) ==
  /\ Within(cl[c], o)
  /\ lock' = [lock EXCEPT ![o] = IF @ = c THEN Free ELSE @] /\ leaked' = leaked \ {<<c, o>>}
  /\ \A q \in Oids : Within(r, q) <=> Within(cl[c], q) /\ q # o
LockLeaked(c, r) ==
  /\ lock' = lock /\ leaked' = leaked \cup {<<c, o>> : o \in {q \in Oids : Within(cl[c], q)}}
  /\ \A q \in Oids : ~Within(r, q)

LockView(c, r) ==
  \/ LockKept(c, r) \/ LockLeaked(c, r)
  \/ \E o \in Oids : LockTaken(c, r, o) \/ LockDropped(c, r, o)

\* The steps before the extent of an operation can be in a layout.
PendingPcs == Pcs \ {"idle", "copy_complete", "copy_status"}

\* The layout of key k removed, if it still names extent x.
Unlink(f, k, x) == IF k \in DOMAIN f /\ f[k] = x THEN Drop(f, {k}) ELSE f

RefView(c, r) ==
  /\ r.pc \in PendingPcs => cl[c].pc \in PendingPcs
  /\ \/ /\ db'.layout = db.layout /\ db'.extent = db.extent
        /\ r.pc \notin {"layout_insert", "migrate", "extent_delete"}
     \/ /\ db'.layout = db.layout /\ db'.extent = Put(db.extent, cl[c].x, "sync")
        /\ r.pc \in {"layout_insert", "migrate"}
     \/ /\ cl[c].pc = "layout_insert" /\ r.pc = "copy_complete"
        /\ KeyOf(cl[c]) \notin DOMAIN db.layout
        /\ db'.layout = Put(db.layout, KeyOf(cl[c]), cl[c].x) /\ db'.extent = db.extent
     \/ /\ cl[c].pc = "extent_orphan"
        /\ r.pc \notin {"layout_insert", "migrate", "extent_delete"}
        /\ db'.layout = db.layout /\ db'.extent = SetState(db.extent, cl[c].x, "orphan")
     \/ /\ cl[c].pc = "migrate" /\ r.pc = "copy_status"
        /\ db'.layout = MovedLayout(db.layout, cl[c].old, cl[c].x)
        /\ db'.extent = SetState(SetState(db.extent, cl[c].old, "orphan"), cl[c].x, "sync")
     \/ /\ r.pc = "extent_delete" /\ SameKey(cl[c], r)
        /\ db'.layout = Unlink(db.layout, KeyOf(cl[c]), cl[c].old)
        /\ db'.extent = db.extent
     \/ /\ cl[c].pc = "extent_delete" /\ r.pc = "copy_delete"
        /\ db'.layout = db.layout
        /\ \/ db'.extent = SetState(db.extent, cl[c].old, "orphan")
           \/ db'.extent = Drop(db.extent, {cl[c].old})

CompView(c, r) ==
  /\ erased \subseteq erased'
  /\ \A k \in DOMAIN db.layout : k \in DOMAIN db'.layout \/ k \in erased'
  /\ \A k \in DOMAIN db'.copy : db'.copy[k] = "complete" =>
       \/ k \in DOMAIN db.copy /\ db.copy[k] = "complete"
       \/ k = KeyOf(cl[c]) /\ (cl[c].pc = "copy_complete" \/ cl[c].op = "rebuild")
  /\ r.pc = "copy_complete" => KeyOf(r) \in DOMAIN db'.layout

\* The steps of a transfer, from the reading of its object to its end.
KeptPcs == {"save_unlock", "io", "extent_insert", "layout_insert", "copy_complete",
            "copy_insert"}

Gone(e, u, v) == \E k \in e : k[1] = u /\ k[2] = v

UniqueUuids(d) ==
  \A o, p \in Oids : Alive(d, o) /\ Alive(d, p) /\ d.object[o].uuid = d.object[p].uuid => o = p

AckView(c, r) ==
  /\ erased \subseteq erased'
  /\ acked' = acked \/ (cl[c].pc = "copy_complete" /\ acked' = acked \cup {KeyOf(cl[c])})
  /\ UniqueUuids(db) =>
       /\ UniqueUuids(db')
       /\ \A u \in Uuids, v \in Versions : ObjectThere(db, u, v) =>
            \/ ObjectThere(db', u, v) \/ Gone(erased', u, v)
            \/ cl[c].pc = "erase_object" /\ u = cl[c].u /\ v = cl[c].v
  /\ r.pc \in KeptPcs =>
       \/ cl[c].pc \in KeptPcs /\ SameKey(cl[c], r)
       \/ ObjectThere(db', r.u, r.v)
  /\ r.pc \in {"erase_move", "erase_object"} =>
       /\ SameKey(cl[c], r) /\ r.n = cl[c].n
       /\ cl[c].pc = "erase_move" \/ KeyOf(r) \in erased'

Views(c, r) == LockView(c, r) /\ RefView(c, r) /\ CompView(c, r) /\ AckView(c, r)

Stepped(c) ==
  /\ TypeInv' /\ nops' = nops
  /\ \E r \in Local : Continues(c, r) /\ Views(c, r)

\* The steps that need no fact about the tables.
EasyPcs == Pcs \ {"layout_insert", "migrate", "copy_complete", "copy_status", "extent_delete",
                  "erase_move", "erase_object"}

\* A step that does not write the tables: what the type of the rest shows.
LEMMA NoWrite ==
  ASSUME TypeInv, NEW c \in Clients, NEW r \in Local, Continues(c, r),
         UNCHANGED <<db, acked, erased>>, UNCHANGED <<nuuid, nops>>, crashes' \in 0..MaxCrash,
         lock' \in [Oids -> Clients \cup {Free, Dead}], leaked' \subseteq Clients \X Oids,
         LockView(c, r), r.pc \in EasyPcs,
         r.pc \in PendingPcs => cl[c].pc \in PendingPcs,
         r.pc \in KeptPcs => \/ cl[c].pc \in KeptPcs /\ SameKey(cl[c], r)
                             \/ ObjectThere(db, r.u, r.v)
  PROVE  Stepped(c)
<1>1. TypeInv'
  <2>1. /\ DbOK(db') /\ nuuid' \in 0..MaxUuid /\ nops' \in 0..MaxOps
        /\ acked' \subseteq CopyKeys /\ erased' \subseteq CopyKeys
    BY DEF TypeInv, TypeOK, DbOK
  <2> QED
    BY <2>1, TypeStep DEF Continues
<1>2. RefView(c, r)
  BY DEF RefView, EasyPcs
<1>3. CompView(c, r)
  BY DEF CompView, EasyPcs
<1>4. AckView(c, r)
  BY DEF AckView, EasyPcs
<1> QED
  BY <1>1, <1>2, <1>3, <1>4 DEF Stepped, Views

LEMMA TakeLockStep ==
  ASSUME TypeInv, NEW c \in Clients, NEW here, here \in PendingPcs, NEW o \in Oids,
         NEW there \in Pcs \ {"idle"}, TakeLock(c, here, o, there), MayGo(cl[c], there),
         there \in EasyPcs \ KeptPcs, here \notin OwnPcs \cup NewPcs,
         there \in OwnPcs \ NewPcs, cl[c].o = o
  PROVE  Stepped(c)
<1>1. cl[c].pc = here /\ cl[c].pc # "idle" /\ UNCHANGED <<db, acked, erased, nuuid, nops, crashes>>
      /\ leaked' = leaked
  BY DEF TakeLock, At, NoDb, NoCount, PendingPcs
<1>2. lock \in [Oids -> Clients \cup {Free, Dead}] /\ leaked \subseteq Clients \X Oids
      /\ crashes \in 0..MaxCrash
  BY DEF TypeInv, TypeOK
<1>3. CASE lock[o] = Free /\ lock' = [lock EXCEPT ![o] = c] /\ To(c, there)
  <2>1. PICK r \in Local : Arrives(c, r, there)
    BY <1>1, <1>3, ToArrives
  <2>2. Continues(c, r) /\ r.pc = there /\ Same(cl[c], r) /\ SameKey(cl[c], r)
    BY <2>1 DEF Arrives
  <2>3. LockTaken(c, r, o)
    BY <1>1, <1>3, <2>2 DEF LockTaken, Within, Same
  <2>4. lock' \in [Oids -> Clients \cup {Free, Dead}]
    BY <1>2, <1>3
  <2> QED
    BY <1>1, <1>2, <2>2, <2>3, <2>4, NoWrite DEF LockView
<1>4. CASE lock[o] # Free /\ lock' = lock /\ End(c)
  <2>1. Idle \in Local /\ Continues(c, Idle) /\ Idle.pc = "idle"
    BY <1>1, <1>4, EndArrives DEF Idle
  <2>2. LockKept(c, Idle)
    BY <1>1, <1>4, <2>1 DEF LockKept, Within, OwnPcs, NewPcs
  <2>3. "idle" \in EasyPcs /\ "idle" \notin KeptPcs /\ "idle" \notin PendingPcs
    BY DEF EasyPcs, Pcs, KeptPcs, PendingPcs
  <2> QED
    BY <1>1, <1>2, <1>4, <2>1, <2>2, <2>3, NoWrite DEF LockView
<1> QED
  BY <1>3, <1>4 DEF TakeLock

\* The facts about its own local variables that client c relies on.
LEMMA OwnLocal ==
  ASSUME TypeInv, NEW c \in Clients
  PROVE  cl[c] \in Local /\ cl[c] \in LocalType /\ LocalOK(cl[c])
BY DEF TypeInv, Local

LEMMA DropLockStep ==
  ASSUME TypeInv, NEW c \in Clients, NEW here, here \in PendingPcs, NEW o \in Oids,
         NEW there \in Pcs, DropLock(c, here, o, there), MayGo(cl[c], there),
         there \in EasyPcs, there \in KeptPcs => here \in KeptPcs,
         Within(cl[c], o),
         \A q \in Oids : \/ q = cl[c].o /\ there \in OwnPcs
                         \/ q = cl[c].p /\ there \in NewPcs
                         <=> Within(cl[c], q) /\ q # o
  PROVE  Stepped(c)
<1>1. /\ cl[c].pc = here /\ cl[c].pc # "idle"
      /\ UNCHANGED <<db, acked, erased, nuuid, nops, crashes>>
      /\ lock' = [lock EXCEPT ![o] = IF @ = c THEN Free ELSE @] /\ leaked' = leaked \ {<<c, o>>}
  BY DEF DropLock, At, NoDb, NoCount, PendingPcs
<1>2. lock \in [Oids -> Clients \cup {Free, Dead}] /\ leaked \subseteq Clients \X Oids
      /\ crashes \in 0..MaxCrash
  BY DEF TypeInv, TypeOK
<1>3. PICK r \in Local : Arrives(c, r, there)
  BY <1>1, ToArrives, EndArrives DEF DropLock
<1>4. /\ Continues(c, r) /\ r.pc = there
      /\ there # "idle" => Same(cl[c], r) /\ SameKey(cl[c], r)
  BY <1>3 DEF Arrives
<1>5. "idle" \notin OwnPcs \cup NewPcs \cup KeptPcs
  BY DEF OwnPcs, NewPcs, KeptPcs
<1>6. \A q \in Oids : Within(r, q) <=> Within(cl[c], q) /\ q # o
  BY <1>4, <1>5 DEF Within, Same
<1>7. LockDropped(c, r, o)
  BY <1>1, <1>6 DEF LockDropped
<1>8. lock' \in [Oids -> Clients \cup {Free, Dead}] /\ leaked' \subseteq Clients \X Oids
  BY <1>1, <1>2
<1> QED
  BY <1>1, <1>2, <1>4, <1>5, <1>7, <1>8, NoWrite DEF LockView

\* A step that only reads the tables and leaves the locks alone.
LEMMA ReadStep ==
  ASSUME TypeInv, NEW c \in Clients, NEW r \in Local, Continues(c, r),
         UNCHANGED <<db, acked, erased, lock, leaked, nuuid, nops, crashes>>,
         r.pc \in EasyPcs, r.pc \in PendingPcs => cl[c].pc \in PendingPcs,
         r.pc \in KeptPcs => \/ cl[c].pc \in KeptPcs /\ SameKey(cl[c], r)
                             \/ ObjectThere(db, r.u, r.v),
         r.pc \notin NewPcs, cl[c].pc \notin NewPcs,
         r.pc \in OwnPcs <=> cl[c].pc \in OwnPcs
  PROVE  Stepped(c)
<1>1. lock' \in [Oids -> Clients \cup {Free, Dead}] /\ leaked' \subseteq Clients \X Oids
      /\ crashes' \in 0..MaxCrash
  BY DEF TypeInv, TypeOK
<1>2. LockKept(c, r)
  <2>1. "idle" \notin OwnPcs
    BY DEF OwnPcs
  <2>2. r.pc \in OwnPcs => r.o = cl[c].o
    BY <2>1 DEF Continues, Same, Idle
  <2> QED
    BY <2>2 DEF LockKept, Within
<1> QED
  BY <1>1, <1>2, NoWrite DEF LockView

LEMMA SaveLockStep == ASSUME TypeInv, NEW c \in Clients, SaveLock(c) PROVE Stepped(c)
<1> DEFINE there == IF cl[c].op = "overwrite" THEN "save_get" ELSE "save_insert"
<1>1. TakeLock(c, "save_lock", cl[c].o, there) /\ cl[c].pc = "save_lock"
  BY DEF SaveLock, TakeLock, At
<1>2. cl[c].o \in Oids /\ cl[c].op \in PutOps
  BY <1>1, OwnLocal DEF LocalOK, PutPcs
<1>3. /\ there \in Pcs \ {"idle"} /\ there \in EasyPcs \ KeptPcs /\ there \in OwnPcs \ NewPcs
      /\ there \notin OidPcs \cup KeyPcs \cup RenamePcs
      /\ there \notin {"erase_move", "save_move", "save_full_insert", "migrate", "copy_status"}
  BY DEF EasyPcs, Pcs, KeptPcs, OwnPcs, NewPcs, OidPcs, KeyPcs, RenamePcs
<1> HIDE DEF there
<1>4. MayGo(cl[c], there)
  BY <1>2, <1>3 DEF MayGo
<1>5. "save_lock" \in PendingPcs /\ "save_lock" \notin OwnPcs \cup NewPcs
  BY DEF PendingPcs, Pcs, OwnPcs, NewPcs
<1> QED
  BY <1>1, <1>2, <1>3, <1>4, <1>5, TakeLockStep

LEMMA DelLockStep == ASSUME TypeInv, NEW c \in Clients, DelLock(c) PROVE Stepped(c)
<1>1. TakeLock(c, "del_lock", cl[c].o, "del_get") /\ cl[c].pc = "del_lock"
  BY DEF DelLock, TakeLock, At
<1>2. cl[c].o \in Oids /\ cl[c].op \in PutOps
  BY <1>1, OwnLocal DEF LocalOK, PutPcs
<1>3. MayGo(cl[c], "del_get")
  BY <1>2 DEF MayGo, OidPcs, KeyPcs, RenamePcs
<1>4. /\ "del_lock" \in PendingPcs /\ "del_lock" \notin OwnPcs \cup NewPcs
      /\ "del_get" \in Pcs \ {"idle"} /\ "del_get" \in EasyPcs \ KeptPcs
      /\ "del_get" \in OwnPcs \ NewPcs
  BY DEF PendingPcs, Pcs, OwnPcs, NewPcs, EasyPcs, KeptPcs
<1> QED
  BY <1>1, <1>2, <1>3, <1>4, TakeLockStep

LEMMA DeleteLockStep == ASSUME TypeInv, NEW c \in Clients, DeleteLock(c) PROVE Stepped(c)
<1>1. TakeLock(c, "delete_lock", cl[c].o, "delete_get") /\ cl[c].pc = "delete_lock"
  BY DEF DeleteLock, TakeLock, At
<1>2. cl[c].o \in Oids
  BY <1>1, OwnLocal DEF LocalOK, OidPcs, RenamePcs
<1>3. MayGo(cl[c], "delete_get")
  BY <1>2 DEF MayGo, PutPcs, OidPcs, KeyPcs, RenamePcs
<1>4. /\ "delete_lock" \in PendingPcs /\ "delete_lock" \notin OwnPcs \cup NewPcs
      /\ "delete_get" \in Pcs \ {"idle"} /\ "delete_get" \in EasyPcs \ KeptPcs
      /\ "delete_get" \in OwnPcs \ NewPcs
  BY DEF PendingPcs, Pcs, OwnPcs, NewPcs, EasyPcs, KeptPcs
<1> QED
  BY <1>1, <1>2, <1>3, <1>4, TakeLockStep

LEMMA UndeleteLockStep == ASSUME TypeInv, NEW c \in Clients, UndeleteLock(c) PROVE Stepped(c)
<1>1. TakeLock(c, "undelete_lock", cl[c].o, "undelete_get") /\ cl[c].pc = "undelete_lock"
  BY DEF UndeleteLock, TakeLock, At
<1>2. cl[c].o \in Oids
  BY <1>1, OwnLocal DEF LocalOK, OidPcs, RenamePcs
<1>3. MayGo(cl[c], "undelete_get")
  BY <1>2 DEF MayGo, PutPcs, OidPcs, KeyPcs, RenamePcs
<1>4. /\ "undelete_lock" \in PendingPcs /\ "undelete_lock" \notin OwnPcs \cup NewPcs
      /\ "undelete_get" \in Pcs \ {"idle"} /\ "undelete_get" \in EasyPcs \ KeptPcs
      /\ "undelete_get" \in OwnPcs \ NewPcs
  BY DEF PendingPcs, Pcs, OwnPcs, NewPcs, EasyPcs, KeptPcs
<1> QED
  BY <1>1, <1>2, <1>3, <1>4, TakeLockStep

LEMMA RenameLockStep == ASSUME TypeInv, NEW c \in Clients, RenameLock(c) PROVE Stepped(c)
<1>1. TakeLock(c, "rename_lock", cl[c].o, "rename_lock_new") /\ cl[c].pc = "rename_lock"
  BY DEF RenameLock, TakeLock, At
<1>2. cl[c].o \in Oids /\ cl[c].p \in Oids /\ cl[c].o # cl[c].p
  BY <1>1, OwnLocal DEF LocalOK, OidPcs, RenamePcs
<1>3. MayGo(cl[c], "rename_lock_new")
  BY <1>2 DEF MayGo, PutPcs, OidPcs, KeyPcs, RenamePcs
<1>4. /\ "rename_lock" \in PendingPcs /\ "rename_lock" \notin OwnPcs \cup NewPcs
      /\ "rename_lock_new" \in Pcs \ {"idle"} /\ "rename_lock_new" \in EasyPcs \ KeptPcs
      /\ "rename_lock_new" \in OwnPcs \ NewPcs
  BY DEF PendingPcs, Pcs, OwnPcs, NewPcs, EasyPcs, KeptPcs
<1> QED
  BY <1>1, <1>2, <1>3, <1>4, TakeLockStep

\* dss_unlock at the end of a section on one oid.
LEMMA OwnUnlockStep ==
  ASSUME TypeInv, NEW c \in Clients, NEW here, here \in PendingPcs, here \in OwnPcs \ NewPcs,
         cl[c].o \in Oids, NEW there \in Pcs, DropLock(c, here, cl[c].o, there),
         MayGo(cl[c], there), there \in EasyPcs, there \in KeptPcs => here \in KeptPcs,
         there \notin OwnPcs \cup NewPcs
  PROVE  Stepped(c)
<1>1. cl[c].pc = here
  BY DEF DropLock, At
<1>2. \A q \in Oids : Within(cl[c], q) <=> q = cl[c].o
  BY <1>1 DEF Within
<1> DEFINE o == cl[c].o
<1>3. /\ o \in Oids /\ DropLock(c, here, o, there) /\ Within(cl[c], o)
      /\ \A q \in Oids : \/ q = cl[c].o /\ there \in OwnPcs
                         \/ q = cl[c].p /\ there \in NewPcs
                         <=> Within(cl[c], q) /\ q # o
  BY <1>2
<1> HIDE DEF o
<1> QED
  BY <1>3, DropLockStep

LEMMA SaveUnlockStep == ASSUME TypeInv, NEW c \in Clients, SaveUnlock(c) PROVE Stepped(c)
<1>1. ASSUME DropLock(c, "save_unlock", cl[c].o, "io") PROVE Stepped(c)
  <2>1. cl[c].pc = "save_unlock" /\ LocalOK(cl[c])
    BY <1>1, OwnLocal DEF DropLock, At
  <2>2. cl[c].o \in Oids /\ MayGo(cl[c], "io")
    BY <2>1 DEF LocalOK, MayGo, PutPcs, OidPcs, KeyPcs, RenamePcs
  <2>3. /\ "save_unlock" \in PendingPcs /\ "save_unlock" \in OwnPcs \ NewPcs
        /\ "io" \in Pcs /\ "io" \in EasyPcs /\ "io" \notin OwnPcs \cup NewPcs
        /\ "io" \in KeptPcs => "save_unlock" \in KeptPcs
    BY DEF PendingPcs, Pcs, OwnPcs, NewPcs, EasyPcs, KeptPcs
  <2> QED
    BY <1>1, <2>2, <2>3, OwnUnlockStep
<1>2. ASSUME DropLock(c, "save_unlock_failed", cl[c].o, "idle") PROVE Stepped(c)
  <2>1. cl[c].pc = "save_unlock_failed" /\ LocalOK(cl[c])
    BY <1>2, OwnLocal DEF DropLock, At
  <2>2. cl[c].o \in Oids /\ MayGo(cl[c], "idle")
    BY <2>1 DEF LocalOK, MayGo, PutPcs, OidPcs, KeyPcs, RenamePcs
  <2>3. /\ "save_unlock_failed" \in PendingPcs /\ "save_unlock_failed" \in OwnPcs \ NewPcs
        /\ "idle" \in Pcs /\ "idle" \in EasyPcs /\ "idle" \notin OwnPcs \cup NewPcs
        /\ "idle" \in KeptPcs => "save_unlock_failed" \in KeptPcs
    BY DEF PendingPcs, Pcs, OwnPcs, NewPcs, EasyPcs, KeptPcs
  <2> QED
    BY <1>2, <2>2, <2>3, OwnUnlockStep
<1> QED
  BY <1>1, <1>2 DEF SaveUnlock

LEMMA DelUnlockStep == ASSUME TypeInv, NEW c \in Clients, DelUnlock(c) PROVE Stepped(c)
<1>1. ASSUME DropLock(c, "del_unlock", cl[c].o, "idle") PROVE Stepped(c)
  <2>1. cl[c].pc = "del_unlock" /\ LocalOK(cl[c])
    BY <1>1, OwnLocal DEF DropLock, At
  <2>2. cl[c].o \in Oids /\ MayGo(cl[c], "idle")
    BY <2>1 DEF LocalOK, MayGo, PutPcs, OidPcs, KeyPcs, RenamePcs
  <2>3. /\ "del_unlock" \in PendingPcs /\ "del_unlock" \in OwnPcs \ NewPcs
        /\ "idle" \in Pcs /\ "idle" \in EasyPcs /\ "idle" \notin OwnPcs \cup NewPcs
        /\ "idle" \in KeptPcs => "del_unlock" \in KeptPcs
    BY DEF PendingPcs, Pcs, OwnPcs, NewPcs, EasyPcs, KeptPcs
  <2> QED
    BY <1>1, <2>2, <2>3, OwnUnlockStep
<1> QED
  BY <1>1 DEF DelUnlock

LEMMA DeleteUnlockStep == ASSUME TypeInv, NEW c \in Clients, DeleteUnlock(c) PROVE Stepped(c)
<1>1. ASSUME DropLock(c, "delete_unlock", cl[c].o, "idle") PROVE Stepped(c)
  <2>1. cl[c].pc = "delete_unlock" /\ LocalOK(cl[c])
    BY <1>1, OwnLocal DEF DropLock, At
  <2>2. cl[c].o \in Oids /\ MayGo(cl[c], "idle")
    BY <2>1 DEF LocalOK, MayGo, PutPcs, OidPcs, KeyPcs, RenamePcs
  <2>3. /\ "delete_unlock" \in PendingPcs /\ "delete_unlock" \in OwnPcs \ NewPcs
        /\ "idle" \in Pcs /\ "idle" \in EasyPcs /\ "idle" \notin OwnPcs \cup NewPcs
        /\ "idle" \in KeptPcs => "delete_unlock" \in KeptPcs
    BY DEF PendingPcs, Pcs, OwnPcs, NewPcs, EasyPcs, KeptPcs
  <2> QED
    BY <1>1, <2>2, <2>3, OwnUnlockStep
<1> QED
  BY <1>1 DEF DeleteUnlock

LEMMA SetmdStep == ASSUME TypeInv, NEW c \in Clients, Setmd(c) PROVE Stepped(c)
<1>1. ASSUME TakeLock(c, "setmd_lock", cl[c].o, "setmd_update") PROVE Stepped(c)
  <2>1. cl[c].pc = "setmd_lock" /\ LocalOK(cl[c])
    BY <1>1, OwnLocal DEF TakeLock, At
  <2>2. cl[c].o \in Oids /\ MayGo(cl[c], "setmd_update")
    BY <2>1 DEF LocalOK, MayGo, PutPcs, OidPcs, KeyPcs, RenamePcs
  <2>3. /\ "setmd_lock" \in PendingPcs /\ "setmd_lock" \notin OwnPcs \cup NewPcs
        /\ "setmd_update" \in Pcs \ {"idle"} /\ "setmd_update" \in EasyPcs \ KeptPcs
        /\ "setmd_update" \in OwnPcs \ NewPcs
    BY DEF PendingPcs, Pcs, OwnPcs, NewPcs, EasyPcs, KeptPcs
  <2> QED
    BY <1>1, <2>2, <2>3, TakeLockStep
<1>2. ASSUME DropLock(c, "setmd_update", cl[c].o, "idle") PROVE Stepped(c)
  <2>1. cl[c].pc = "setmd_update" /\ LocalOK(cl[c])
    BY <1>2, OwnLocal DEF DropLock, At
  <2>2. cl[c].o \in Oids /\ MayGo(cl[c], "idle")
    BY <2>1 DEF LocalOK, MayGo, PutPcs, OidPcs, KeyPcs, RenamePcs
  <2>3. /\ "setmd_update" \in PendingPcs /\ "setmd_update" \in OwnPcs \ NewPcs
        /\ "idle" \in Pcs /\ "idle" \in EasyPcs /\ "idle" \notin OwnPcs \cup NewPcs
        /\ "idle" \in KeptPcs => "setmd_update" \in KeptPcs
    BY DEF PendingPcs, Pcs, OwnPcs, NewPcs, EasyPcs, KeptPcs
  <2> QED
    BY <1>2, <2>2, <2>3, OwnUnlockStep
<1> QED
  BY <1>1, <1>2 DEF Setmd

LEMMA RenameUnlockStep == ASSUME TypeInv, NEW c \in Clients, RenameUnlock(c) PROVE Stepped(c)
<1>1. ASSUME DropLock(c, "rename_unlock", cl[c].o, "rename_unlock_new") PROVE Stepped(c)
  <2>1. cl[c].pc = "rename_unlock" /\ LocalOK(cl[c])
    BY <1>1, OwnLocal DEF DropLock, At
  <2>2. /\ cl[c].o \in Oids /\ cl[c].p \in Oids /\ cl[c].o # cl[c].p
        /\ MayGo(cl[c], "rename_unlock_new")
    BY <2>1 DEF LocalOK, MayGo, PutPcs, OidPcs, KeyPcs, RenamePcs
  <2>3. /\ "rename_unlock" \in PendingPcs /\ "rename_unlock" \in OwnPcs \cap NewPcs
        /\ "rename_unlock_new" \in Pcs /\ "rename_unlock_new" \in EasyPcs \ KeptPcs
        /\ "rename_unlock_new" \in NewPcs \ OwnPcs
    BY DEF PendingPcs, Pcs, OwnPcs, NewPcs, EasyPcs, KeptPcs
  <2> DEFINE o == cl[c].o
  <2>4. /\ o \in Oids /\ DropLock(c, "rename_unlock", o, "rename_unlock_new") /\ Within(cl[c], o)
        /\ \A q \in Oids : \/ q = cl[c].o /\ "rename_unlock_new" \in OwnPcs
                           \/ q = cl[c].p /\ "rename_unlock_new" \in NewPcs
                           <=> Within(cl[c], q) /\ q # o
    BY <1>1, <2>1, <2>2, <2>3 DEF Within
  <2> HIDE DEF o
  <2> QED
    BY <2>2, <2>3, <2>4, DropLockStep
<1>2. ASSUME DropLock(c, "rename_unlock_new", cl[c].p, "idle") PROVE Stepped(c)
  <2>1. cl[c].pc = "rename_unlock_new" /\ LocalOK(cl[c])
    BY <1>2, OwnLocal DEF DropLock, At
  <2>2. /\ cl[c].o \in Oids /\ cl[c].p \in Oids /\ cl[c].o # cl[c].p
        /\ MayGo(cl[c], "idle")
    BY <2>1 DEF LocalOK, MayGo, PutPcs, OidPcs, KeyPcs, RenamePcs
  <2>3. /\ "rename_unlock_new" \in PendingPcs /\ "rename_unlock_new" \in NewPcs \ OwnPcs
        /\ "idle" \in Pcs /\ "idle" \in EasyPcs \ KeptPcs /\ "idle" \notin NewPcs \cup OwnPcs
    BY DEF PendingPcs, Pcs, OwnPcs, NewPcs, EasyPcs, KeptPcs
  <2> DEFINE o == cl[c].p
  <2>4. /\ o \in Oids /\ DropLock(c, "rename_unlock_new", o, "idle") /\ Within(cl[c], o)
        /\ \A q \in Oids : \/ q = cl[c].o /\ "idle" \in OwnPcs
                           \/ q = cl[c].p /\ "idle" \in NewPcs
                           <=> Within(cl[c], q) /\ q # o
    BY <1>2, <2>1, <2>2, <2>3 DEF Within
  <2> HIDE DEF o
  <2> QED
    BY <2>2, <2>3, <2>4, DropLockStep
<1> QED
  BY <1>1, <1>2 DEF RenameUnlock

LEMMA RenameLockNewStep == ASSUME TypeInv, NEW c \in Clients, RenameLockNew(c) PROVE Stepped(c)
<1>1. cl[c].pc = "rename_lock_new" /\ UNCHANGED <<db, acked, erased, nuuid, nops, crashes>>
  BY DEF RenameLockNew, At, NoDb, NoCount
<1>2. /\ cl[c].o \in Oids /\ cl[c].p \in Oids /\ cl[c].o # cl[c].p
      /\ MayGo(cl[c], "rename_update")
  BY <1>1, OwnLocal DEF LocalOK, MayGo, PutPcs, OidPcs, KeyPcs, RenamePcs
<1>3. lock \in [Oids -> Clients \cup {Free, Dead}] /\ leaked \subseteq Clients \X Oids
      /\ crashes \in 0..MaxCrash
  BY DEF TypeInv, TypeOK
<1>4. /\ "rename_lock_new" \in PendingPcs /\ "rename_lock_new" \in OwnPcs \ NewPcs
      /\ "rename_update" \in Pcs \ {"idle"} /\ "rename_update" \in EasyPcs \ KeptPcs
      /\ "rename_update" \in NewPcs \cap OwnPcs
      /\ "idle" \in EasyPcs \ KeptPcs /\ "idle" \notin NewPcs \cup OwnPcs \cup PendingPcs
  BY DEF PendingPcs, Pcs, OwnPcs, NewPcs, EasyPcs, KeptPcs
<1> DEFINE p == cl[c].p
<1>5. CASE /\ lock[p] = Free /\ lock' = [lock EXCEPT ![p] = c]
           /\ To(c, "rename_update") /\ leaked' = leaked
  <2>1. PICK r \in Local : Arrives(c, r, "rename_update")
    BY <1>1, <1>2, <1>4, <1>5, ToArrives
  <2>2. Continues(c, r) /\ r.pc = "rename_update" /\ Same(cl[c], r)
    BY <2>1 DEF Arrives
  <2>3. LockTaken(c, r, p)
    BY <1>1, <1>4, <1>5, <2>2 DEF LockTaken, Within, Same
  <2>4. lock' \in [Oids -> Clients \cup {Free, Dead}]
    BY <1>2, <1>3, <1>5
  <2>5. LockView(c, r)
    BY <1>2, <2>3 DEF LockView
  <2> QED
    BY <1>1, <1>3, <1>4, <1>5, <2>2, <2>4, <2>5, NoWrite
<1>6. CASE /\ leaked' = leaked \cup {<<c, cl[c].o>>} /\ End(c) /\ lock' = lock
  <2>1. Idle \in Local /\ Continues(c, Idle) /\ Idle.pc = "idle"
    BY <1>1, <1>6, EndArrives DEF Idle
  <2>2. {<<c, o>> : o \in {q \in Oids : Within(cl[c], q)}} = {<<c, cl[c].o>>}
    BY <1>1, <1>2, <1>4 DEF Within
  <2>3. LockLeaked(c, Idle)
    BY <1>4, <1>6, <2>1, <2>2 DEF LockLeaked, Within
  <2>4. leaked' \subseteq Clients \X Oids
    BY <1>2, <1>3, <1>6
  <2> QED
    BY <1>1, <1>3, <1>4, <1>6, <2>1, <2>3, <2>4, NoWrite DEF LockView
<1> QED
  BY <1>5, <1>6 DEF RenameLockNew

LEMMA DeleteGetStep == ASSUME TypeInv, NEW c \in Clients, DeleteGet(c) PROVE Stepped(c)
<1> DEFINE there == IF Alive(db, cl[c].o) THEN "delete_move" ELSE "delete_unlock"
<1>1. /\ cl[c].pc = "delete_get" /\ To(c, there)
      /\ UNCHANGED <<db, acked, erased, lock, leaked, nuuid, nops, crashes>>
  BY DEF DeleteGet, At, NoDb, NoLock, NoCount
<1>2. there \in {"delete_move", "delete_unlock"}
  OBVIOUS
<1> HIDE DEF there
<1>3. MayGo(cl[c], there) /\ there \in Pcs \ {"idle"} /\ there \in EasyPcs \ KeptPcs
      /\ there \in OwnPcs \ NewPcs /\ "delete_get" \in OwnPcs \ NewPcs
      /\ "delete_get" \in PendingPcs
  BY <1>1, <1>2, OwnLocal DEF LocalOK, MayGo, PutPcs, OidPcs, KeyPcs, RenamePcs, Pcs, EasyPcs,
     KeptPcs, OwnPcs, NewPcs, PendingPcs
<1>4. PICK r \in Local : Arrives(c, r, there)
  BY <1>1, <1>3, ToArrives DEF PendingPcs
<1> QED
  BY <1>1, <1>3, <1>4, ReadStep DEF Arrives

LEMMA UndeleteGetStep == ASSUME TypeInv, NEW c \in Clients, UndeleteGet(c) PROVE Stepped(c)
<1> DEFINE there == IF Alive(db, cl[c].o) THEN "delete_unlock" ELSE "undelete_move"
<1>1. /\ cl[c].pc = "undelete_get" /\ To(c, there)
      /\ UNCHANGED <<db, acked, erased, lock, leaked, nuuid, nops, crashes>>
  BY DEF UndeleteGet, At, NoDb, NoLock, NoCount
<1>2. there \in {"delete_unlock", "undelete_move"}
  OBVIOUS
<1> HIDE DEF there
<1>3. MayGo(cl[c], there) /\ there \in Pcs \ {"idle"} /\ there \in EasyPcs \ KeptPcs
      /\ there \in OwnPcs \ NewPcs /\ "undelete_get" \in OwnPcs \ NewPcs
      /\ "undelete_get" \in PendingPcs
  BY <1>1, <1>2, OwnLocal DEF LocalOK, MayGo, PutPcs, OidPcs, KeyPcs, RenamePcs, Pcs, EasyPcs,
     KeptPcs, OwnPcs, NewPcs, PendingPcs
<1>4. PICK r \in Local : Arrives(c, r, there)
  BY <1>1, <1>3, ToArrives DEF PendingPcs
<1> QED
  BY <1>1, <1>3, <1>4, ReadStep DEF Arrives

LEMMA SaveGetStep == ASSUME TypeInv, NEW c \in Clients, SaveGet(c) PROVE Stepped(c)
<1> DEFINE row == db.object[cl[c].o]
<1>1. /\ cl[c].pc = "save_get"
      /\ IF row = NoRow THEN To(c, "save_insert")
         ELSE ToWith(c, "save_move", [cl[c] EXCEPT !.u = row.uuid, !.v = row.version])
      /\ UNCHANGED <<db, acked, erased, lock, leaked, nuuid, nops, crashes>>
  BY DEF SaveGet, At, NoDb, NoLock, NoCount
<1>2. cl[c] \in LocalType /\ LocalOK(cl[c]) /\ cl[c].o \in Oids /\ cl[c].op \in PutOps
  BY <1>1, OwnLocal DEF LocalOK, PutPcs
<1>3. /\ "save_insert" \in Pcs \ {"idle"} /\ "save_insert" \in EasyPcs \ KeptPcs
      /\ "save_insert" \in OwnPcs \ NewPcs /\ "save_get" \in OwnPcs \ NewPcs
      /\ "save_get" \in PendingPcs
      /\ "save_move" \in Pcs \ {"idle"} /\ "save_move" \in EasyPcs \ KeptPcs
      /\ "save_move" \in OwnPcs \ NewPcs
  BY DEF Pcs, EasyPcs, KeptPcs, OwnPcs, NewPcs, PendingPcs
<1>4. CASE row = NoRow
  <2>1. MayGo(cl[c], "save_insert")
    BY <1>2 DEF MayGo, PutPcs, OidPcs, KeyPcs, RenamePcs
  <2>2. PICK r \in Local : Arrives(c, r, "save_insert")
    BY <1>1, <1>3, <1>4, <2>1, ToArrives
  <2> QED
    BY <1>1, <1>3, <2>2, ReadStep DEF Arrives
<1>5. CASE row # NoRow
  <2> DEFINE u == row.uuid
             v == row.version
             r == RowRead(cl[c], u, v, "save_move")
  <2>1. u \in Uuids /\ v \in Versions
    BY <1>2, <1>5, AliveRow DEF Alive, TypeInv, TypeOK, DbOK
  <2>2. cl' = [cl EXCEPT ![c] = r]
    BY <1>1, <1>5 DEF ToWith, RowRead
  <2> HIDE DEF u, v
  <2>3. /\ r \in LocalType /\ r.pc = "save_move" /\ r.u = u /\ r.v = v /\ r.more = cl[c].more
        /\ r.op = cl[c].op /\ r.o = cl[c].o /\ r.p = cl[c].p /\ r.n = cl[c].n
        /\ r.x = cl[c].x /\ r.old = cl[c].old
    BY <1>2, <1>3, <2>1, LocalRow
  <2> HIDE DEF r
  <2>4. LocalOK(r)
    BY <1>1, <1>2, <2>1, <2>3 DEF LocalOK, PutPcs, OidPcs, KeyPcs, RenamePcs, PutOps
  <2>5. r \in Local /\ Continues(c, r)
    BY <1>1, <1>2, <2>2, <2>3, <2>4 DEF Local, Continues, Same
  <2> QED
    BY <1>1, <1>3, <2>3, <2>5, ReadStep
<1> QED
  BY <1>4, <1>5

LEMMA DelGetStep == ASSUME TypeInv, NEW c \in Clients, DelGet(c) PROVE Stepped(c)
<1> DEFINE row == db.object[cl[c].o]
           k == <<row.uuid, row.version, cl[c].n>>
           m == IsDeprecated(db, row.uuid, row.version - 1)
<1>1. /\ cl[c].pc = "del_get"
      /\ \/ To(c, "del_unlock")
         \/ row # NoRow /\ ToWith(c, "del_copy", [cl[c] EXCEPT !.u = row.uuid, !.v = row.version,
                                                    !.more = m])
      /\ UNCHANGED <<db, acked, erased, lock, leaked, nuuid, nops, crashes>>
  BY DEF DelGet, At, NoDb, NoLock, NoCount
<1>2. cl[c] \in LocalType /\ LocalOK(cl[c]) /\ cl[c].o \in Oids /\ cl[c].op \in PutOps
  BY <1>1, OwnLocal DEF LocalOK, PutPcs
<1>3. /\ "del_unlock" \in Pcs \ {"idle"} /\ "del_unlock" \in EasyPcs \ KeptPcs
      /\ "del_unlock" \in OwnPcs \ NewPcs /\ "del_get" \in OwnPcs \ NewPcs
      /\ "del_get" \in PendingPcs
      /\ "del_copy" \in Pcs \ {"idle"} /\ "del_copy" \in EasyPcs \ KeptPcs
      /\ "del_copy" \in OwnPcs \ NewPcs
  BY DEF Pcs, EasyPcs, KeptPcs, OwnPcs, NewPcs, PendingPcs
<1>4. CASE To(c, "del_unlock")
  <2>1. MayGo(cl[c], "del_unlock")
    BY <1>2 DEF MayGo, PutPcs, OidPcs, KeyPcs, RenamePcs
  <2>2. PICK r \in Local : Arrives(c, r, "del_unlock")
    BY <1>1, <1>3, <1>4, <2>1, ToArrives
  <2> QED
    BY <1>1, <1>3, <2>2, ReadStep DEF Arrives
<1>5. CASE row # NoRow /\ ToWith(c, "del_copy", [cl[c] EXCEPT !.u = row.uuid, !.v = row.version,
                                                    !.more = m])
  <2> DEFINE u == row.uuid
             v == row.version
             r == RowReadMore(cl[c], u, v, m, "del_copy")
  <2>1. u \in Uuids /\ v \in Versions /\ m \in BOOLEAN
    BY <1>2, <1>5, AliveRow DEF Alive, TypeInv, TypeOK, DbOK, IsDeprecated
  <2>2. cl' = [cl EXCEPT ![c] = r]
    BY <1>5 DEF ToWith, RowReadMore
  <2> HIDE DEF u, v, m
  <2>3. /\ r \in LocalType /\ r.pc = "del_copy" /\ r.u = u /\ r.v = v /\ r.more = m
        /\ r.op = cl[c].op /\ r.o = cl[c].o /\ r.p = cl[c].p /\ r.n = cl[c].n
        /\ r.x = cl[c].x /\ r.old = cl[c].old
    BY <1>2, <1>3, <2>1, LocalRowMore
  <2> HIDE DEF r
  <2>4. LocalOK(r)
    BY <1>1, <1>2, <2>1, <2>3 DEF LocalOK, PutPcs, OidPcs, KeyPcs, RenamePcs, PutOps
  <2>5. r \in Local /\ Continues(c, r)
    BY <1>1, <1>2, <2>2, <2>3, <2>4 DEF Local, Continues, Same
  <2> QED
    BY <1>1, <1>3, <2>3, <2>5, ReadStep
<1> QED
  BY <1>1, <1>4, <1>5

LEMMA TransferStep == ASSUME TypeInv, NEW c \in Clients, Transfer(c) PROVE Stepped(c)
<1>1. cl[c].pc = "io" /\ UNCHANGED <<db, acked, erased, lock, leaked, nuuid, nops, crashes>>
  BY DEF Transfer, At, NoDb, NoLock, NoCount
<1>2. LocalOK(cl[c]) /\ cl[c].u \in Uuids /\ cl[c].v \in Versions /\ cl[c].n \in Names
  BY <1>1, OwnLocal DEF LocalOK, KeyPcs
<1>3. "io" \in PendingPcs \cap KeptPcs /\ "io" \notin OwnPcs \cup NewPcs
  BY DEF PendingPcs, Pcs, KeptPcs, OwnPcs, NewPcs
<1>4. \/ End(c) \/ To(c, "layout_delete") \/ To(c, "extent_insert") \/ To(c, "copy_undo")
      \/ cl[c].op \in PutOps /\ To(c, "del_lock")
  BY DEF Transfer, PutOps
<1>5. ASSUME NEW q \in {"layout_delete", "extent_insert", "copy_undo", "del_lock"}, To(c, q),
             q = "del_lock" => cl[c].op \in PutOps
      PROVE  Stepped(c)
  <2>1. /\ q \in Pcs \ {"idle"} /\ q \in EasyPcs /\ q \notin OwnPcs \cup NewPcs
        /\ MayGo(cl[c], q)
    BY <1>2, <1>5 DEF Pcs, EasyPcs, OwnPcs, NewPcs, MayGo, PutPcs, OidPcs, KeyPcs, RenamePcs
  <2>2. PICK r \in Local : Arrives(c, r, q)
    BY <1>1, <1>5, <2>1, ToArrives
  <2>3. Continues(c, r) /\ r.pc = q /\ SameKey(cl[c], r)
    BY <2>1, <2>2 DEF Arrives
  <2> QED
    BY <1>1, <1>3, <2>1, <2>3, ReadStep
<1>6. CASE End(c)
  <2>1. Idle \in Local /\ Continues(c, Idle) /\ Idle.pc = "idle"
    BY <1>1, <1>6, EndArrives DEF Idle
  <2>2. "idle" \in EasyPcs \ KeptPcs /\ "idle" \notin PendingPcs \cup OwnPcs \cup NewPcs
    BY DEF EasyPcs, Pcs, KeptPcs, PendingPcs, OwnPcs, NewPcs
  <2> QED
    BY <1>1, <1>3, <2>1, <2>2, ReadStep
<1> QED
  BY <1>4, <1>5, <1>6

-----------------------------------------------------------------------------
(* The transactions on the object tables.                                  *)

SameFiles(d, e) == e.copy = d.copy /\ e.layout = d.layout /\ e.extent = d.extent

\* Nothing but the tables of objects changes, and no version is lost.
Keeps(d, e) ==
  /\ SameFiles(d, e)
  /\ UniqueUuids(d) =>
       /\ UniqueUuids(e)
       /\ \A u \in Uuids, v \in Versions : ObjectThere(d, u, v) => ObjectThere(e, u, v)

\* A row added to the object table at an oid that has none.
LEMMA AddRow ==
  ASSUME NEW d, NEW e, NEW o \in Oids, ObjectInsertApplies(d, o, e.object[o].uuid),
         \A p \in Oids : p # o => e.object[p] = d.object[p]
  PROVE  d.object[o] = NoRow /\ (UniqueUuids(d) => UniqueUuids(e))
<1>1. /\ d.object[o] = NoRow
      /\ \A p \in Oids : Alive(d, p) => d.object[p].uuid # e.object[o].uuid
  BY DEF ObjectInsertApplies, AliveUuids, Alive
<1>2. ASSUME UniqueUuids(d) PROVE UniqueUuids(e)
  BY <1>1, <1>2 DEF UniqueUuids, Alive
<1> QED
  BY <1>1, <1>2

LEMMA RowIsRow ==
  ASSUME NEW u \in Uuids, NEW v \in Versions
  PROVE  LET row == [uuid |-> u, version |-> v]
         IN  row \in ObjectRow /\ row # NoRow /\ row.uuid = u /\ row.version = v
<1>1. [uuid |-> u, version |-> v] \in ObjectRow
  BY DEF ObjectRow
<1> QED
  BY <1>1, TablesAssumption DEF ObjectRow, Uuids, Versions

LEMMA InsertKeeps ==
  ASSUME NEW d, DbOK(d), NEW o \in Oids, NEW u \in Uuids, NEW v \in Versions,
         ObjectInsertApplies(d, o, u)
  PROVE  /\ DbOK(ObjectInsert(d, o, u, v)) /\ Keeps(d, ObjectInsert(d, o, u, v))
         /\ ObjectThere(ObjectInsert(d, o, u, v), u, v)
<1> DEFINE row == [uuid |-> u, version |-> v]
           f == [d.object EXCEPT ![o] = row]
           e == ObjectInsert(d, o, u, v)
<1>1. e = Db(f, d.deprecated, d.copy, d.layout, d.extent) /\ DbOK(e)
  BY DbTables, ObjectInsertDb, ObjectTxnsOK
<1> HIDE DEF e
<1>2. e.object = f /\ e.deprecated = d.deprecated /\ SameFiles(d, e)
  BY <1>1, DbFields DEF SameFiles
<1>3. /\ UniqueUuids(d) => UniqueUuids(e)
      /\ e.object[o] = row
      /\ \A p \in Oids : p # o => e.object[p] = d.object[p]
      /\ d.object[o] = NoRow
  <2>1. row # NoRow /\ ObjectInsertApplies(d, o, row.uuid)
    BY RowIsRow
  <2>2. e.object[o] = row /\ \A p \in Oids : p # o => e.object[p] = d.object[p]
    <3> HIDE DEF row
    <3> QED
      BY <1>2, DbTables
  <2> HIDE DEF row, f
  <2> QED
    BY <2>1, <2>2, AddRow
<1>4. ASSUME NEW a \in Uuids, NEW b \in Versions, ObjectThere(d, a, b) PROVE ObjectThere(e, a, b)
  <2>1. CASE IsDeprecated(d, a, b)
    BY <1>2, <2>1 DEF ObjectThere, IsDeprecated, DeprecatedOf
  <2>2. CASE \E p \in Oids : d.object[p] = [uuid |-> a, version |-> b]
    <3>1. PICK p \in Oids : d.object[p] = [uuid |-> a, version |-> b]
      BY <2>2
    <3>2. p # o
      BY <1>3, <3>1, RowIsRow
    <3> QED
      BY <1>3, <3>1, <3>2 DEF ObjectThere
  <2> QED
    BY <1>4, <2>1, <2>2 DEF ObjectThere
<1> QED
  BY <1>1, <1>2, <1>3, <1>4 DEF Keeps, ObjectThere, e

\* Rows removed from the object table.
LEMMA RemoveRows ==
  ASSUME NEW d, NEW e, UniqueUuids(d),
         \A p \in Oids : e.object[p] = d.object[p] \/ e.object[p] = NoRow
  PROVE  UniqueUuids(e)
BY DEF UniqueUuids, Alive

LEMMA ToDeprecatedKeeps ==
  ASSUME NEW d, DbOK(d), NEW o \in Oids
  PROVE  DbOK(ToDeprecated(d, o)) /\ Keeps(d, ToDeprecated(d, o))
<1> DEFINE e == ToDeprecated(d, o)
           dep == [oid |-> o, uuid |-> d.object[o].uuid, version |-> d.object[o].version]
<1>1. CASE Alive(d, o)
  <2>1. e = Db([d.object EXCEPT ![o] = NoRow], d.deprecated \cup {dep}, d.copy, d.layout, d.extent)
    BY <1>1, DbTables, ToDeprecatedDb
  <2> HIDE DEF e
  <2>2. /\ e.object = [d.object EXCEPT ![o] = NoRow] /\ e.deprecated = d.deprecated \cup {dep}
        /\ SameFiles(d, e)
    BY <2>1, DbFields DEF SameFiles
  <2>3. e.object[o] = NoRow /\ \A p \in Oids : p # o => e.object[p] = d.object[p]
    BY <2>2, DbTables
  <2>4. dep \in e.deprecated /\ dep.uuid = d.object[o].uuid /\ dep.version = d.object[o].version
        /\ d.deprecated \subseteq e.deprecated
    BY <2>2
  <2> HIDE DEF dep
  <2>5. ASSUME NEW a \in Uuids, NEW b \in Versions, ObjectThere(d, a, b)
        PROVE  ObjectThere(e, a, b)
    <3>1. CASE IsDeprecated(d, a, b)
      BY <2>4, <3>1 DEF ObjectThere, IsDeprecated, DeprecatedOf
    <3>2. CASE \E p \in Oids : d.object[p] = [uuid |-> a, version |-> b]
      <4>1. PICK p \in Oids : d.object[p] = [uuid |-> a, version |-> b]
        BY <3>2
      <4>2. CASE p = o
        <5>1. dep.uuid = a /\ dep.version = b
          BY <2>4, <4>1, <4>2, RowIsRow
        <5> QED
          BY <2>4, <5>1 DEF ObjectThere, IsDeprecated, DeprecatedOf
      <4>3. CASE p # o
        BY <2>3, <4>1, <4>3 DEF ObjectThere
      <4> QED
        BY <4>2, <4>3
    <3> QED
      BY <2>5, <3>1, <3>2 DEF ObjectThere
  <2>6. UniqueUuids(d) => UniqueUuids(e)
    BY <2>3, RemoveRows
  <2> QED
    BY <2>2, <2>5, <2>6, ToDeprecatedOK DEF Keeps, e
<1>2. CASE ~Alive(d, o)
  BY <1>2 DEF ToDeprecated, Keeps, SameFiles
<1> QED
  BY <1>1, <1>2

LEMMA ToObjectKeeps ==
  ASSUME NEW d, DbOK(d), NEW u, NEW v, ToObjectApplies(d, u, v)
  PROVE  DbOK(ToObject(d, u, v)) /\ Keeps(d, ToObject(d, u, v))
<1> DEFINE e == ToObject(d, u, v)
<1>1. CASE IsDeprecated(d, u, v)
  <2>1. PICK r \in DeprecatedOf(d, u) :
          /\ r.version = v
          /\ e = Db([d.object EXCEPT ![r.oid] = [uuid |-> u, version |-> v]],
                    {q \in d.deprecated : ~(q.uuid = u /\ q.version = v)},
                    d.copy, d.layout, d.extent)
    BY <1>1, DbTables, ToObjectDb
  <2>2. r \in DeprecatedRow /\ r.uuid = u
    BY DbTables DEF DeprecatedOf
  <2>3. r.oid \in Oids /\ u \in Uuids /\ v \in Versions
    BY <2>1, <2>2 DEF DeprecatedRow
  <2> DEFINE row == [uuid |-> u, version |-> v]
             o == r.oid
  <2> HIDE DEF e
  <2>4. /\ e.object = [d.object EXCEPT ![o] = row] /\ SameFiles(d, e)
        /\ e.deprecated = {q \in d.deprecated : ~(q.uuid = u /\ q.version = v)}
    BY <2>1, DbFields DEF SameFiles
  <2>5. row # NoRow /\ row.uuid = u
    BY <2>3, RowIsRow
  <2>6. ObjectInsertApplies(d, o, u)
    BY <2>1 DEF ToObjectApplies
  <2>7. e.object[o] = row /\ \A p \in Oids : p # o => e.object[p] = d.object[p]
    <3> HIDE DEF row, o
    <3> QED
      BY <2>3, <2>4, DbTables DEF o
  <2>8. d.object[o] = NoRow /\ (UniqueUuids(d) => UniqueUuids(e))
    <3> HIDE DEF row, o
    <3> QED
      BY <2>3, <2>5, <2>6, <2>7, AddRow DEF o
  <2>9. ASSUME NEW a \in Uuids, NEW b \in Versions, ObjectThere(d, a, b)
        PROVE  ObjectThere(e, a, b)
    <3>1. CASE a = u /\ b = v
      BY <2>3, <2>7, <3>1 DEF ObjectThere
    <3>2. CASE ~(a = u /\ b = v) /\ IsDeprecated(d, a, b)
      BY <2>4, <3>2 DEF ObjectThere, IsDeprecated, DeprecatedOf
    <3>3. CASE \E p \in Oids : d.object[p] = [uuid |-> a, version |-> b]
      <4>1. PICK p \in Oids : d.object[p] = [uuid |-> a, version |-> b]
        BY <3>3
      <4>2. p # o
        BY <2>8, <4>1, RowIsRow
      <4> QED
        BY <2>7, <4>1, <4>2 DEF ObjectThere
    <3> QED
      BY <2>9, <3>1, <3>2, <3>3 DEF ObjectThere
  <2> QED
    BY <2>4, <2>8, <2>9, ToObjectOK DEF Keeps, e
<1>2. CASE ~IsDeprecated(d, u, v)
  BY <1>2 DEF ToObject, Keeps, SameFiles
<1> QED
  BY <1>1, <1>2

\* A deletion from the deprecated objects loses the version it is given, one
\* from the object table the version that the oid has.
LEMMA DeprecatedDeleteKeeps ==
  ASSUME NEW d, DbOK(d), NEW u, NEW v
  PROVE  LET e == DeprecatedDelete(d, u, v)
         IN  /\ DbOK(e) /\ SameFiles(d, e) /\ (UniqueUuids(d) => UniqueUuids(e))
             /\ \A a, b : ObjectThere(d, a, b) => ObjectThere(e, a, b) \/ (a = u /\ b = v)
<1> DEFINE e == DeprecatedDelete(d, u, v)
<1>1. e = Db(d.object, {r \in d.deprecated : ~(r.uuid = u /\ r.version = v)},
             d.copy, d.layout, d.extent) /\ DbOK(e)
  BY DbTables, DeprecatedDeleteDb, DeprecatedDeleteOK
<1> HIDE DEF e
<1>2. /\ e.object = d.object /\ SameFiles(d, e)
      /\ e.deprecated = {r \in d.deprecated : ~(r.uuid = u /\ r.version = v)}
  BY <1>1, DbFields DEF SameFiles
<1>3. ASSUME NEW a, NEW b, ObjectThere(d, a, b), ~(a = u /\ b = v) PROVE ObjectThere(e, a, b)
  BY <1>2, <1>3 DEF ObjectThere, IsDeprecated, DeprecatedOf
<1>4. UniqueUuids(d) => UniqueUuids(e)
  BY <1>2 DEF UniqueUuids, Alive
<1> QED
  BY <1>1, <1>2, <1>3, <1>4 DEF e

LEMMA ObjectDeleteKeeps ==
  ASSUME NEW d, DbOK(d), NEW o \in Oids
  PROVE  LET e == ObjectDelete(d, o)
         IN  /\ DbOK(e) /\ SameFiles(d, e) /\ (UniqueUuids(d) => UniqueUuids(e))
             /\ \A a \in Uuids, b \in Versions : ObjectThere(d, a, b) =>
                  \/ ObjectThere(e, a, b)
                  \/ d.object[o] # NoRow /\ a = d.object[o].uuid /\ b = d.object[o].version
<1> DEFINE e == ObjectDelete(d, o)
<1>1. e = Db([d.object EXCEPT ![o] = NoRow], d.deprecated, d.copy, d.layout, d.extent)
  BY DbTables, ObjectDeleteDb
<1> HIDE DEF e
<1>2. /\ e.object = [d.object EXCEPT ![o] = NoRow] /\ SameFiles(d, e)
      /\ e.deprecated = d.deprecated
  BY <1>1, DbFields DEF SameFiles
<1>3. e.object[o] = NoRow /\ \A p \in Oids : p # o => e.object[p] = d.object[p]
  BY <1>2, DbTables
<1>4. ASSUME NEW a \in Uuids, NEW b \in Versions, ObjectThere(d, a, b)
      PROVE  \/ ObjectThere(e, a, b)
             \/ d.object[o] # NoRow /\ a = d.object[o].uuid /\ b = d.object[o].version
  <2>1. CASE IsDeprecated(d, a, b)
    BY <1>2, <2>1 DEF ObjectThere, IsDeprecated, DeprecatedOf
  <2>2. CASE \E p \in Oids : d.object[p] = [uuid |-> a, version |-> b]
    <3>1. PICK p \in Oids : d.object[p] = [uuid |-> a, version |-> b]
      BY <2>2
    <3>2. CASE p = o
      BY <3>1, <3>2, RowIsRow
    <3>3. CASE p # o
      BY <1>3, <3>1, <3>3 DEF ObjectThere
    <3> QED
      BY <3>2, <3>3
  <2> QED
    BY <1>4, <2>1, <2>2 DEF ObjectThere
<1>5. UniqueUuids(d) => UniqueUuids(e)
  BY <1>3, RemoveRows
<1>6. DbOK(e)
  <2>1. [d.object EXCEPT ![o] = NoRow] \in [Oids -> ObjectRow \cup {NoRow}]
    BY DbTables
  <2> QED
    BY <1>1, <2>1, DbTables, DbOKFields
<1> QED
  BY <1>2, <1>4, <1>5, <1>6 DEF e

LEMMA RenameKeeps ==
  ASSUME NEW d, DbOK(d), NEW u, NEW S, NEW p \in Oids, RenameApplies(d, u, p)
  PROVE  DbOK(Rename(d, u, S, p)) /\ Keeps(d, Rename(d, u, S, p))
<1> DEFINE e == Rename(d, u, S, p)
           D == {RenamedRow(r, S, p) : r \in d.deprecated}
<1>1. e = Db(RenamedObject(d, u, p), D, d.copy, d.layout, d.extent)
  BY DbTables, RenameDb
<1> HIDE DEF e
<1>2. e.object = RenamedObject(d, u, p) /\ e.deprecated = D /\ SameFiles(d, e)
  BY <1>1, DbFields DEF SameFiles
<1>3. ASSUME NEW a, NEW b, IsDeprecated(d, a, b) PROVE IsDeprecated(e, a, b)
  <2>1. PICK r \in d.deprecated : r.uuid = a /\ r.version = b
    BY <1>3 DEF IsDeprecated, DeprecatedOf
  <2>2. RenamedRow(r, S, p) \in D /\ r \in DeprecatedRow
    BY DbTables
  <2>3. RenamedRow(r, S, p).uuid = a /\ RenamedRow(r, S, p).version = b
    BY <2>1, <2>2 DEF RenamedRow, DeprecatedRow
  <2> HIDE DEF D
  <2> QED
    BY <1>2, <2>2, <2>3 DEF IsDeprecated, DeprecatedOf
<1> HIDE DEF D
<1>4. ASSUME UniqueUuids(d)
      PROVE  /\ UniqueUuids(e)
             /\ \A q \in Oids : Alive(d, q) => \E s \in Oids : e.object[s] = d.object[q]
  <2>1. CASE u \notin AliveUuids(d)
    <3>1. e.object = d.object
      BY <1>2, <2>1 DEF RenamedObject
    <3> QED
      BY <1>4, <3>1 DEF UniqueUuids, Alive
  <2>2. CASE u \in AliveUuids(d)
    <3>1. PICK q \in Oids : IsU(d, u, q)
      BY <2>2 DEF AliveUuids, IsU
    <3>2. \A s \in Oids : IsU(d, u, s) => s = q
      BY <1>4, <3>1 DEF UniqueUuids, IsU
    <3>3. (CHOOSE s \in Oids : IsU(d, u, s)) = q
      BY <3>1, <3>2
    <3>4. Alive(d, p) => p = q
      BY <2>2, <3>2 DEF RenameApplies, IsU
    <3>5. /\ e.object[p] = d.object[q]
          /\ \A s \in Oids : s # p => e.object[s] = IF s = q THEN NoRow ELSE d.object[s]
      BY <1>2, <2>2, <3>1, <3>2, <3>3 DEF RenamedObject
    <3> QED
      BY <1>4, <3>1, <3>2, <3>4, <3>5 DEF UniqueUuids, Alive
  <2> QED
    BY <2>1, <2>2
<1>5. ASSUME UniqueUuids(d), NEW a \in Uuids, NEW b \in Versions, ObjectThere(d, a, b)
      PROVE  ObjectThere(e, a, b)
  <2>1. CASE IsDeprecated(d, a, b)
    BY <1>3, <2>1 DEF ObjectThere
  <2>2. CASE \E q \in Oids : d.object[q] = [uuid |-> a, version |-> b]
    <3>1. PICK q \in Oids : d.object[q] = [uuid |-> a, version |-> b]
      BY <2>2
    <3>2. Alive(d, q)
      BY <3>1, RowIsRow DEF Alive
    <3> QED
      BY <1>4, <1>5, <3>1, <3>2 DEF ObjectThere
  <2> QED
    BY <1>5, <2>1, <2>2 DEF ObjectThere
<1> QED
  BY <1>2, <1>4, <1>5, RenameOK DEF Keeps, e

-----------------------------------------------------------------------------
(* The steps that write the object tables.                                 *)

\* A step that leaves the locks alone.
LEMMA LocksAlone ==
  ASSUME TypeInv, NEW c \in Clients, NEW r \in Local, Continues(c, r), UNCHANGED <<lock, leaked>>,
         r.pc \notin NewPcs, cl[c].pc \notin NewPcs, r.pc \in OwnPcs <=> cl[c].pc \in OwnPcs
  PROVE  /\ LockView(c, r)
         /\ lock' \in [Oids -> Clients \cup {Free, Dead}] /\ leaked' \subseteq Clients \X Oids
<1>1. lock' \in [Oids -> Clients \cup {Free, Dead}] /\ leaked' \subseteq Clients \X Oids
  BY DEF TypeInv, TypeOK
<1>2. LockKept(c, r)
  <2>1. "idle" \notin OwnPcs
    BY DEF OwnPcs
  <2>2. r.pc \in OwnPcs => r.o = cl[c].o
    BY <2>1 DEF Continues, Same, Idle
  <2> QED
    BY <2>2 DEF LockKept, Within
<1> QED
  BY <1>1, <1>2 DEF LockView

LEMMA ObjectWrite ==
  ASSUME TypeInv, NEW c \in Clients, NEW r \in Local, Continues(c, r), LockView(c, r),
         lock' \in [Oids -> Clients \cup {Free, Dead}], leaked' \subseteq Clients \X Oids,
         DbOK(db'), SameFiles(db, db'), acked' = acked,
         erased \subseteq erased', erased' \subseteq CopyKeys,
         nuuid' \in 0..MaxUuid, UNCHANGED <<nops, crashes>>,
         r.pc \in EasyPcs \cup {"erase_object"}, cl[c].pc \in PendingPcs, AckView(c, r)
  PROVE  Stepped(c)
<1>1. TypeInv'
  <2>1. nops' \in 0..MaxOps /\ crashes' \in 0..MaxCrash /\ acked' \subseteq CopyKeys
    BY DEF TypeInv, TypeOK
  <2> QED
    BY <2>1, TypeStep DEF Continues
<1>2. RefView(c, r)
  BY DEF RefView, EasyPcs, SameFiles
<1>3. CompView(c, r)
  BY DEF CompView, EasyPcs, SameFiles
<1> QED
  BY <1>1, <1>2, <1>3 DEF Stepped, Views

\* A transaction that loses no version, then a step at which nothing is yet
\* known of the object.
LEMMA KeepingStep ==
  ASSUME TypeInv, NEW c \in Clients, NEW q \in EasyPcs \ KeptPcs, \E r \in Local : Arrives(c, r, q),
         UNCHANGED <<lock, leaked, nops, crashes, acked, erased>>, nuuid' \in 0..MaxUuid,
         DbOK(db'), Keeps(db, db'), cl[c].pc \in PendingPcs,
         q \notin NewPcs, cl[c].pc \notin NewPcs, q \in OwnPcs <=> cl[c].pc \in OwnPcs
  PROVE  Stepped(c)
<1>1. PICK r \in Local : Arrives(c, r, q)
  OBVIOUS
<1>2. Continues(c, r) /\ r.pc = q
  BY <1>1 DEF Arrives
<1>3. AckView(c, r)
  BY <1>2 DEF AckView, Keeps, EasyPcs
<1>4. erased' \subseteq CopyKeys
  BY DEF TypeInv, TypeOK
<1>5. /\ LockView(c, r)
      /\ lock' \in [Oids -> Clients \cup {Free, Dead}] /\ leaked' \subseteq Clients \X Oids
  BY <1>2, LocksAlone
<1> QED
  BY <1>2, <1>3, <1>4, <1>5, ObjectWrite DEF Keeps

LEMMA NothingKeeps == ASSUME TypeInv, db' = db PROVE DbOK(db') /\ Keeps(db, db')
BY DEF TypeInv, TypeOK, DbOK, Keeps, SameFiles

LEMMA SaveMoveStep == ASSUME TypeInv, NEW c \in Clients, SaveMove(c) PROVE Stepped(c)
<1> DEFINE applies == ToDeprecatedApplies(db, cl[c].o)
           new == ToDeprecated(db, cl[c].o)
<1>1. /\ Txn(c, "save_move", applies, new, "save_full_insert", "save_unlock_failed")
      /\ cl[c].pc = "save_move" /\ UNCHANGED <<acked, erased>>
  BY DEF SaveMove, Txn, At
<1>2. cl[c].o \in Oids /\ MayGo(cl[c], "save_full_insert") /\ MayGo(cl[c], "save_unlock_failed")
  BY <1>1, OwnLocal DEF LocalOK, MayGo, PutPcs, OidPcs, KeyPcs, RenamePcs
<1>3. /\ "save_move" \in PendingPcs /\ "save_move" \in OwnPcs \ NewPcs
      /\ "save_full_insert" \in Pcs /\ "save_full_insert" \in EasyPcs \ KeptPcs /\ "save_full_insert" \notin NewPcs
      /\ "save_full_insert" \in OwnPcs
      /\ "save_unlock_failed" \in Pcs /\ "save_unlock_failed" \in EasyPcs \ KeptPcs /\ "save_unlock_failed" \notin NewPcs
      /\ "save_unlock_failed" \in OwnPcs
  BY DEF PendingPcs, Pcs, EasyPcs, KeptPcs, OwnPcs, NewPcs
<1>4. DbOK(db) /\ nuuid \in 0..MaxUuid
  BY DEF TypeInv, TypeOK, DbOK
<1>5. applies \in BOOLEAN
  BY DEF ToDeprecatedApplies, IsDeprecated
<1>6. applies => DbOK(new) /\ Keeps(db, new)
  BY <1>2, <1>4, ToDeprecatedKeeps
<1> HIDE DEF applies, new
<1>7. /\ UNCHANGED <<lock, leaked, nuuid, nops, crashes>>
      /\ \/ applies /\ db' = new /\ \E r \in Local : Arrives(c, r, "save_full_insert")
         \/ ~applies /\ db' = db /\ \E r \in Local : Arrives(c, r, "save_unlock_failed")
  BY <1>1, <1>2, <1>3, <1>5, TxnArrives
<1>8. CASE applies /\ db' = new /\ \E r \in Local : Arrives(c, r, "save_full_insert")
  BY <1>1, <1>3, <1>4, <1>6, <1>7, <1>8, KeepingStep
<1>9. CASE db' = db /\ \E r \in Local : Arrives(c, r, "save_unlock_failed")
  BY <1>1, <1>3, <1>4, <1>7, <1>9, KeepingStep, NothingKeeps
<1> QED
  BY <1>7, <1>8, <1>9

LEMMA DeleteMoveStep == ASSUME TypeInv, NEW c \in Clients, DeleteMove(c) PROVE Stepped(c)
<1> DEFINE applies == ToDeprecatedApplies(db, cl[c].o)
           new == ToDeprecated(db, cl[c].o)
<1>1. /\ Txn(c, "delete_move", applies, new, "delete_unlock", "delete_unlock")
      /\ cl[c].pc = "delete_move" /\ UNCHANGED <<acked, erased>>
  BY DEF DeleteMove, Txn, At
<1>2. cl[c].o \in Oids /\ MayGo(cl[c], "delete_unlock")
  BY <1>1, OwnLocal DEF LocalOK, MayGo, PutPcs, OidPcs, KeyPcs, RenamePcs
<1>3. /\ "delete_move" \in PendingPcs /\ "delete_move" \in OwnPcs \ NewPcs
      /\ "delete_unlock" \in Pcs /\ "delete_unlock" \in EasyPcs \ KeptPcs /\ "delete_unlock" \notin NewPcs
      /\ "delete_unlock" \in OwnPcs
  BY DEF PendingPcs, Pcs, EasyPcs, KeptPcs, OwnPcs, NewPcs
<1>4. DbOK(db) /\ nuuid \in 0..MaxUuid
  BY DEF TypeInv, TypeOK, DbOK
<1>5. applies \in BOOLEAN
  BY DEF ToDeprecatedApplies, IsDeprecated
<1>6. applies => DbOK(new) /\ Keeps(db, new)
  BY <1>2, <1>4, ToDeprecatedKeeps
<1> HIDE DEF applies, new
<1>7. /\ UNCHANGED <<lock, leaked, nuuid, nops, crashes>>
      /\ \/ applies /\ db' = new /\ \E r \in Local : Arrives(c, r, "delete_unlock")
         \/ ~applies /\ db' = db /\ \E r \in Local : Arrives(c, r, "delete_unlock")
  BY <1>1, <1>2, <1>3, <1>5, TxnArrives
<1>8. CASE applies /\ db' = new /\ \E r \in Local : Arrives(c, r, "delete_unlock")
  BY <1>1, <1>3, <1>4, <1>6, <1>7, <1>8, KeepingStep
<1>9. CASE db' = db /\ \E r \in Local : Arrives(c, r, "delete_unlock")
  BY <1>1, <1>3, <1>4, <1>7, <1>9, KeepingStep, NothingKeeps
<1> QED
  BY <1>7, <1>8, <1>9

LEMMA DelMoveStep == ASSUME TypeInv, NEW c \in Clients, DelMove(c) PROVE Stepped(c)
<1> DEFINE applies == ToObjectApplies(db, cl[c].u, cl[c].v - 1)
           new == ToObject(db, cl[c].u, cl[c].v - 1)
<1>1. /\ Txn(c, "del_move", applies, new, "del_unlock", "del_unlock")
      /\ cl[c].pc = "del_move" /\ UNCHANGED <<acked, erased>>
  BY DEF DelMove, Txn, At
<1>2. cl[c].o \in Oids /\ MayGo(cl[c], "del_unlock")
  BY <1>1, OwnLocal DEF LocalOK, MayGo, PutPcs, OidPcs, KeyPcs, RenamePcs
<1>3. /\ "del_move" \in PendingPcs /\ "del_move" \in OwnPcs \ NewPcs
      /\ "del_unlock" \in Pcs /\ "del_unlock" \in EasyPcs \ KeptPcs /\ "del_unlock" \notin NewPcs
      /\ "del_unlock" \in OwnPcs
  BY DEF PendingPcs, Pcs, EasyPcs, KeptPcs, OwnPcs, NewPcs
<1>4. DbOK(db) /\ nuuid \in 0..MaxUuid
  BY DEF TypeInv, TypeOK, DbOK
<1>5. applies \in BOOLEAN
  BY DEF ToObjectApplies, ObjectInsertApplies
<1>6. applies => DbOK(new) /\ Keeps(db, new)
  BY <1>2, <1>4, ToObjectKeeps
<1> HIDE DEF applies, new
<1>7. /\ UNCHANGED <<lock, leaked, nuuid, nops, crashes>>
      /\ \/ applies /\ db' = new /\ \E r \in Local : Arrives(c, r, "del_unlock")
         \/ ~applies /\ db' = db /\ \E r \in Local : Arrives(c, r, "del_unlock")
  BY <1>1, <1>2, <1>3, <1>5, TxnArrives
<1>8. CASE applies /\ db' = new /\ \E r \in Local : Arrives(c, r, "del_unlock")
  BY <1>1, <1>3, <1>4, <1>6, <1>7, <1>8, KeepingStep
<1>9. CASE db' = db /\ \E r \in Local : Arrives(c, r, "del_unlock")
  BY <1>1, <1>3, <1>4, <1>7, <1>9, KeepingStep, NothingKeeps
<1> QED
  BY <1>7, <1>8, <1>9

LEMMA UndeleteMoveStep == ASSUME TypeInv, NEW c \in Clients, UndeleteMove(c) PROVE Stepped(c)
<1> DEFINE applies == ToObjectApplies(db, cl[c].u, cl[c].v)
           new == ToObject(db, cl[c].u, cl[c].v)
<1>1. /\ Txn(c, "undelete_move", applies, new, "delete_unlock", "delete_unlock")
      /\ cl[c].pc = "undelete_move" /\ UNCHANGED <<acked, erased>>
  BY DEF UndeleteMove, Txn, At
<1>2. cl[c].o \in Oids /\ MayGo(cl[c], "delete_unlock")
  BY <1>1, OwnLocal DEF LocalOK, MayGo, PutPcs, OidPcs, KeyPcs, RenamePcs
<1>3. /\ "undelete_move" \in PendingPcs /\ "undelete_move" \in OwnPcs \ NewPcs
      /\ "delete_unlock" \in Pcs /\ "delete_unlock" \in EasyPcs \ KeptPcs /\ "delete_unlock" \notin NewPcs
      /\ "delete_unlock" \in OwnPcs
  BY DEF PendingPcs, Pcs, EasyPcs, KeptPcs, OwnPcs, NewPcs
<1>4. DbOK(db) /\ nuuid \in 0..MaxUuid
  BY DEF TypeInv, TypeOK, DbOK
<1>5. applies \in BOOLEAN
  BY DEF ToObjectApplies, ObjectInsertApplies
<1>6. applies => DbOK(new) /\ Keeps(db, new)
  BY <1>2, <1>4, ToObjectKeeps
<1> HIDE DEF applies, new
<1>7. /\ UNCHANGED <<lock, leaked, nuuid, nops, crashes>>
      /\ \/ applies /\ db' = new /\ \E r \in Local : Arrives(c, r, "delete_unlock")
         \/ ~applies /\ db' = db /\ \E r \in Local : Arrives(c, r, "delete_unlock")
  BY <1>1, <1>2, <1>3, <1>5, TxnArrives
<1>8. CASE applies /\ db' = new /\ \E r \in Local : Arrives(c, r, "delete_unlock")
  BY <1>1, <1>3, <1>4, <1>6, <1>7, <1>8, KeepingStep
<1>9. CASE db' = db /\ \E r \in Local : Arrives(c, r, "delete_unlock")
  BY <1>1, <1>3, <1>4, <1>7, <1>9, KeepingStep, NothingKeeps
<1> QED
  BY <1>7, <1>8, <1>9

LEMMA SaveInsertStep == ASSUME TypeInv, NEW c \in Clients, SaveInsert(c) PROVE Stepped(c)
<1> DEFINE u == nuuid + 1
           o == cl[c].o
<1>1. /\ cl[c].pc = "save_insert" /\ nuuid < MaxUuid
      /\ UNCHANGED <<lock, leaked, nops, crashes, acked, erased>>
      /\ IF ObjectInsertApplies(db, o, u)
         THEN db' = ObjectInsert(db, o, u, 1) /\ nuuid' = u /\ To(c, "save_copy")
         ELSE UNCHANGED <<db, nuuid>> /\ To(c, "save_unlock_failed")
  BY DEF SaveInsert, At, NoLock
<1>2. o \in Oids /\ MayGo(cl[c], "save_copy") /\ MayGo(cl[c], "save_unlock_failed")
  BY <1>1, OwnLocal DEF LocalOK, MayGo, PutPcs, OidPcs, KeyPcs, RenamePcs
<1>3. /\ "save_insert" \in PendingPcs /\ "save_insert" \in OwnPcs \ NewPcs
      /\ "save_copy" \in Pcs \ {"idle"} /\ "save_copy" \in EasyPcs \ KeptPcs
      /\ "save_copy" \in OwnPcs \ NewPcs
      /\ "save_unlock_failed" \in Pcs \ {"idle"} /\ "save_unlock_failed" \in EasyPcs \ KeptPcs
      /\ "save_unlock_failed" \in OwnPcs \ NewPcs
  BY DEF PendingPcs, Pcs, EasyPcs, KeptPcs, OwnPcs, NewPcs
<1>4. DbOK(db) /\ nuuid \in 0..MaxUuid
  BY DEF TypeInv, TypeOK, DbOK
<1>5. CASE ObjectInsertApplies(db, o, u)
  <2>1. u \in 0..MaxUuid /\ u \in Uuids
    BY <1>1, <1>4, TablesAssumption DEF Uuids
  <2>2. 1 \in Versions
    BY TablesAssumption DEF Versions
  <2>3. DbOK(ObjectInsert(db, o, u, 1)) /\ Keeps(db, ObjectInsert(db, o, u, 1))
    <3> HIDE DEF u, o
    <3> QED
      BY <1>2, <1>4, <1>5, <2>1, <2>2, InsertKeeps
  <2>4. \E r \in Local : Arrives(c, r, "save_copy")
    BY <1>1, <1>2, <1>3, <1>5, ToArrives
  <2> QED
    BY <1>1, <1>3, <1>5, <2>1, <2>3, <2>4, KeepingStep
<1>6. CASE ~ObjectInsertApplies(db, o, u)
  <2>1. \E r \in Local : Arrives(c, r, "save_unlock_failed")
    BY <1>1, <1>2, <1>3, <1>6, ToArrives
  <2> QED
    BY <1>1, <1>3, <1>4, <1>6, <2>1, KeepingStep, NothingKeeps
<1> QED
  BY <1>5, <1>6

LEMMA SaveFullInsertStep == ASSUME TypeInv, NEW c \in Clients, SaveFullInsert(c) PROVE Stepped(c)
<1> DEFINE applies == ObjectInsertApplies(db, cl[c].o, cl[c].u)
           new == ObjectInsert(db, cl[c].o, cl[c].u, cl[c].v + 1)
<1>1. /\ Txn(c, "save_full_insert", applies, new, "save_copy", "save_unlock_failed")
      /\ cl[c].pc = "save_full_insert" /\ UNCHANGED <<acked, erased>>
  BY DEF SaveFullInsert, Txn, At
<1>2. cl[c].o \in Oids /\ MayGo(cl[c], "save_copy") /\ MayGo(cl[c], "save_unlock_failed")
  BY <1>1, OwnLocal DEF LocalOK, MayGo, PutPcs, OidPcs, KeyPcs, RenamePcs
<1>3. /\ "save_full_insert" \in PendingPcs /\ "save_full_insert" \in OwnPcs \ NewPcs
      /\ "save_copy" \in Pcs /\ "save_copy" \in EasyPcs \ KeptPcs /\ "save_copy" \notin NewPcs
      /\ "save_copy" \in OwnPcs
      /\ "save_unlock_failed" \in Pcs /\ "save_unlock_failed" \in EasyPcs \ KeptPcs /\ "save_unlock_failed" \notin NewPcs
      /\ "save_unlock_failed" \in OwnPcs
  BY DEF PendingPcs, Pcs, EasyPcs, KeptPcs, OwnPcs, NewPcs
<1>4. DbOK(db) /\ nuuid \in 0..MaxUuid
  BY DEF TypeInv, TypeOK, DbOK
<1>5. applies \in BOOLEAN
  BY DEF ObjectInsertApplies
<1>6. applies => DbOK(new) /\ Keeps(db, new)
  <2> DEFINE o == cl[c].o
             u == cl[c].u
             v == cl[c].v + 1
  <2>1. o \in Oids /\ u \in Uuids /\ v \in Versions
    <3>1. cl[c].v \in 0..MaxVersion /\ cl[c].v < MaxVersion
      BY OwnLocal DEF SaveFullInsert, LocalType
    <3>2. cl[c].u \in Uuids
      BY <1>1, OwnLocal DEF LocalOK
    <3> QED
      BY <1>2, <3>1, <3>2, TablesAssumption DEF Versions
  <2> HIDE DEF o, u, v
  <2>2. ObjectInsertApplies(db, o, u) =>
          DbOK(ObjectInsert(db, o, u, v)) /\ Keeps(db, ObjectInsert(db, o, u, v))
    BY <1>4, <2>1, InsertKeeps
  <2> QED
    BY <2>2 DEF o, u, v
<1> HIDE DEF applies, new
<1>7. /\ UNCHANGED <<lock, leaked, nuuid, nops, crashes>>
      /\ \/ applies /\ db' = new /\ \E r \in Local : Arrives(c, r, "save_copy")
         \/ ~applies /\ db' = db /\ \E r \in Local : Arrives(c, r, "save_unlock_failed")
  BY <1>1, <1>2, <1>3, <1>5, TxnArrives
<1>8. CASE applies /\ db' = new /\ \E r \in Local : Arrives(c, r, "save_copy")
  BY <1>1, <1>3, <1>4, <1>6, <1>7, <1>8, KeepingStep
<1>9. CASE db' = db /\ \E r \in Local : Arrives(c, r, "save_unlock_failed")
  BY <1>1, <1>3, <1>4, <1>7, <1>9, KeepingStep, NothingKeeps
<1> QED
  BY <1>7, <1>8, <1>9

LEMMA DelObjectStep == ASSUME TypeInv, NEW c \in Clients, DelObject(c) PROVE Stepped(c)
<1> DEFINE o == cl[c].o
           row == db.object[o]
           there == IF cl[c].more THEN "del_move" ELSE "del_unlock"
           e == ObjectDelete(db, o)
<1>1. /\ Txn(c, "del_object", TRUE, e, there, "idle") /\ cl[c].pc = "del_object"
      /\ erased' = IF row = NoRow THEN erased
                   ELSE erased \cup {<<row.uuid, row.version, cl[c].n>>}
      /\ acked' = acked
  BY DEF DelObject, Txn, At
<1>2. o \in Oids /\ cl[c].n \in Names /\ MayGo(cl[c], "del_move") /\ MayGo(cl[c], "del_unlock")
      /\ MayGo(cl[c], "idle")
  BY <1>1, OwnLocal DEF LocalOK, MayGo, PutPcs, OidPcs, KeyPcs, RenamePcs
<1>3. there \in {"del_move", "del_unlock"}
  OBVIOUS
<1>4. DbOK(db) /\ nuuid \in 0..MaxUuid /\ erased \subseteq CopyKeys
  BY DEF TypeInv, TypeOK, DbOK
<1>5. /\ DbOK(e) /\ SameFiles(db, e) /\ (UniqueUuids(db) => UniqueUuids(e))
      /\ \A a \in Uuids, b \in Versions : ObjectThere(db, a, b) =>
           \/ ObjectThere(e, a, b)
           \/ row # NoRow /\ a = row.uuid /\ b = row.version
  <2> HIDE DEF o
  <2> QED
    BY <1>2, <1>4, ObjectDeleteKeeps
<1> HIDE DEF e, there
<1>6. /\ "del_object" \in PendingPcs /\ "del_object" \in OwnPcs \ NewPcs
      /\ there \in Pcs /\ "idle" \in Pcs /\ there \in EasyPcs \ KeptPcs /\ there \in OwnPcs \ NewPcs
      /\ MayGo(cl[c], there)
  BY <1>2, <1>3 DEF PendingPcs, Pcs, EasyPcs, KeptPcs, OwnPcs, NewPcs
<1>7. /\ UNCHANGED <<lock, leaked, nuuid, nops, crashes>> /\ db' = e
      /\ \E r \in Local : Arrives(c, r, there)
  BY <1>1, <1>2, <1>6, TxnArrives
<1>8. PICK r \in Local : Arrives(c, r, there)
  BY <1>7
<1>9. Continues(c, r) /\ r.pc = there
  BY <1>8 DEF Arrives
<1>10. /\ erased \subseteq erased' /\ erased' \subseteq CopyKeys
       /\ row # NoRow => Gone(erased', row.uuid, row.version)
  <2>1. CASE row = NoRow
    BY <1>1, <1>4, <2>1
  <2>2. CASE row # NoRow
    <3> DEFINE k == <<row.uuid, row.version, cl[c].n>>
    <3>1. k \in CopyKeys /\ k[1] = row.uuid /\ k[2] = row.version
      BY <1>2, <1>4, <2>2, AliveRow DEF Alive, CopyKeys
    <3>2. erased' = erased \cup {k}
      BY <1>1, <2>2
    <3> HIDE DEF k, row
    <3> QED
      BY <1>4, <3>1, <3>2 DEF Gone
  <2> QED
    BY <2>1, <2>2
<1>11. AckView(c, r)
  <2> HIDE DEF row
  <2> QED
    BY <1>1, <1>5, <1>6, <1>7, <1>9, <1>10 DEF AckView, EasyPcs
<1>12. /\ LockView(c, r)
       /\ lock' \in [Oids -> Clients \cup {Free, Dead}] /\ leaked' \subseteq Clients \X Oids
  BY <1>1, <1>6, <1>7, <1>9, LocksAlone
<1> QED
  BY <1>1, <1>4, <1>5, <1>6, <1>7, <1>9, <1>10, <1>11, <1>12, ObjectWrite

LEMMA EraseMoveStep == ASSUME TypeInv, NEW c \in Clients, EraseMove(c) PROVE Stepped(c)
<1> DEFINE applies == ToDeprecatedApplies(db, cl[c].o)
           e == ToDeprecated(db, cl[c].o)
<1>1. /\ Txn(c, "erase_move", applies, e, "erase_object", "idle") /\ cl[c].pc = "erase_move"
      /\ UNCHANGED <<acked, erased>>
  BY DEF EraseMove, Txn, At
<1>2. cl[c].o \in Oids /\ MayGo(cl[c], "erase_object") /\ MayGo(cl[c], "idle")
  BY <1>1, OwnLocal DEF LocalOK, MayGo, PutPcs, OidPcs, KeyPcs, RenamePcs
<1>3. /\ "erase_move" \in PendingPcs /\ "erase_move" \notin OwnPcs \cup NewPcs
      /\ "erase_object" \in Pcs \ KeptPcs /\ "erase_object" \notin OwnPcs \cup NewPcs
      /\ "idle" \in EasyPcs \ KeptPcs /\ "idle" \notin OwnPcs \cup NewPcs /\ "idle" \in Pcs
  BY DEF PendingPcs, Pcs, EasyPcs, KeptPcs, OwnPcs, NewPcs
<1>4. DbOK(db) /\ nuuid \in 0..MaxUuid /\ erased \subseteq CopyKeys
  BY DEF TypeInv, TypeOK, DbOK
<1>5. applies \in BOOLEAN
  BY DEF ToDeprecatedApplies, IsDeprecated
<1>6. DbOK(e) /\ Keeps(db, e)
  BY <1>2, <1>4, ToDeprecatedKeeps
<1> HIDE DEF applies, e
<1>7. /\ UNCHANGED <<lock, leaked, nuuid, nops, crashes>>
      /\ \/ applies /\ db' = e /\ \E r \in Local : Arrives(c, r, "erase_object")
         \/ ~applies /\ db' = db /\ \E r \in Local : Arrives(c, r, "idle")
  BY <1>1, <1>2, <1>3, <1>5, TxnArrives
<1>8. CASE applies /\ db' = e /\ \E r \in Local : Arrives(c, r, "erase_object")
  <2>1. PICK r \in Local : Arrives(c, r, "erase_object")
    BY <1>8
  <2>2. Continues(c, r) /\ r.pc = "erase_object" /\ SameKey(cl[c], r) /\ r.n = cl[c].n
    BY <2>1 DEF Arrives, Same
  <2>3. AckView(c, r)
    BY <1>1, <1>3, <1>6, <1>8, <2>2 DEF AckView, Keeps
  <2>4. /\ LockView(c, r)
        /\ lock' \in [Oids -> Clients \cup {Free, Dead}] /\ leaked' \subseteq Clients \X Oids
    BY <1>1, <1>3, <1>7, <2>2, LocksAlone
  <2> QED
    BY <1>1, <1>3, <1>4, <1>6, <1>7, <1>8, <2>2, <2>3, <2>4, ObjectWrite DEF Keeps
<1>9. CASE db' = db /\ \E r \in Local : Arrives(c, r, "idle")
  BY <1>1, <1>3, <1>4, <1>7, <1>9, KeepingStep, NothingKeeps
<1> QED
  BY <1>7, <1>8, <1>9

LEMMA EraseObjectStep == ASSUME TypeInv, NEW c \in Clients, EraseObject(c) PROVE Stepped(c)
<1> DEFINE e == DeprecatedDelete(db, cl[c].u, cl[c].v)
<1>1. /\ Txn(c, "erase_object", TRUE, e, "idle", "idle") /\ cl[c].pc = "erase_object"
      /\ UNCHANGED <<acked, erased>>
  BY DEF EraseObject, Txn, At
<1>2. MayGo(cl[c], "idle")
  BY DEF MayGo, PutPcs, OidPcs, KeyPcs, RenamePcs
<1>3. /\ "erase_object" \in PendingPcs /\ "erase_object" \notin OwnPcs \cup NewPcs
      /\ "idle" \in EasyPcs \ KeptPcs /\ "idle" \notin OwnPcs \cup NewPcs /\ "idle" \in Pcs
  BY DEF PendingPcs, Pcs, EasyPcs, KeptPcs, OwnPcs, NewPcs
<1>4. DbOK(db) /\ nuuid \in 0..MaxUuid /\ erased \subseteq CopyKeys
  BY DEF TypeInv, TypeOK, DbOK
<1>5. /\ DbOK(e) /\ SameFiles(db, e) /\ (UniqueUuids(db) => UniqueUuids(e))
      /\ \A a, b : ObjectThere(db, a, b) => ObjectThere(e, a, b) \/ (a = cl[c].u /\ b = cl[c].v)
  BY <1>4, DeprecatedDeleteKeeps
<1> HIDE DEF e
<1>6. /\ UNCHANGED <<lock, leaked, nuuid, nops, crashes>> /\ db' = e
      /\ \E r \in Local : Arrives(c, r, "idle")
  BY <1>1, <1>2, <1>3, TxnArrives
<1>7. PICK r \in Local : Arrives(c, r, "idle")
  BY <1>6
<1>8. Continues(c, r) /\ r.pc = "idle"
  BY <1>7 DEF Arrives
<1>9. AckView(c, r)
  BY <1>1, <1>3, <1>5, <1>6, <1>8 DEF AckView
<1>10. /\ LockView(c, r)
       /\ lock' \in [Oids -> Clients \cup {Free, Dead}] /\ leaked' \subseteq Clients \X Oids
  BY <1>1, <1>3, <1>6, <1>8, LocksAlone
<1> QED
  BY <1>1, <1>3, <1>4, <1>5, <1>6, <1>8, <1>9, <1>10, ObjectWrite

LEMMA RenameUpdateStep == ASSUME TypeInv, NEW c \in Clients, RenameUpdate(c) PROVE Stepped(c)
<1> DEFINE o == cl[c].o
           p == cl[c].p
           applies == RenameApplies(db, cl[c].u, p)
           e == Rename(db, cl[c].u, cl[c].S, p)
<1>1. /\ cl[c].pc = "rename_update" /\ UNCHANGED <<lock, acked, erased, nuuid, nops, crashes>>
      /\ \/ applies /\ db' = e /\ To(c, "rename_unlock") /\ leaked' = leaked
         \/ /\ leaked' = leaked \cup {<<c, o>>, <<c, p>>}
            /\ End(c) /\ db' = db
  BY DEF RenameUpdate, At, NoCount
<1>2. o \in Oids /\ p \in Oids /\ o # p /\ MayGo(cl[c], "rename_unlock")
  BY <1>1, OwnLocal DEF LocalOK, MayGo, PutPcs, OidPcs, KeyPcs, RenamePcs
<1>3. /\ "rename_update" \in PendingPcs /\ "rename_update" \in OwnPcs \cap NewPcs
      /\ "rename_unlock" \in Pcs \ {"idle"} /\ "rename_unlock" \in EasyPcs \ KeptPcs
      /\ "rename_unlock" \in OwnPcs \cap NewPcs
      /\ "idle" \in EasyPcs \ KeptPcs /\ "idle" \notin OwnPcs \cup NewPcs /\ "idle" \in Pcs
  BY DEF PendingPcs, Pcs, EasyPcs, KeptPcs, OwnPcs, NewPcs
<1>4. /\ DbOK(db) /\ nuuid \in 0..MaxUuid /\ erased \subseteq CopyKeys /\ crashes \in 0..MaxCrash
      /\ lock \in [Oids -> Clients \cup {Free, Dead}] /\ leaked \subseteq Clients \X Oids
  BY DEF TypeInv, TypeOK, DbOK
<1>5. applies => DbOK(e) /\ Keeps(db, e)
  <2> HIDE DEF p
  <2> QED
    BY <1>2, <1>4, RenameKeeps
<1> HIDE DEF applies, e
<1>6. CASE applies /\ db' = e /\ To(c, "rename_unlock") /\ leaked' = leaked
  <2>1. PICK r \in Local : Arrives(c, r, "rename_unlock")
    BY <1>1, <1>2, <1>3, <1>6, ToArrives
  <2>2. Continues(c, r) /\ r.pc = "rename_unlock" /\ Same(cl[c], r)
    BY <2>1 DEF Arrives
  <2>3. AckView(c, r)
    BY <1>1, <1>3, <1>5, <1>6, <2>2 DEF AckView, Keeps, EasyPcs
  <2>4. LockView(c, r)
    BY <1>1, <1>3, <1>6, <2>2 DEF LockView, LockKept, Within, Same
  <2> QED
    BY <1>1, <1>3, <1>4, <1>5, <1>6, <2>2, <2>3, <2>4, ObjectWrite DEF Keeps
<1>7. CASE leaked' = leaked \cup {<<c, o>>, <<c, p>>} /\ End(c) /\ db' = db
  <2>1. Idle \in Local /\ Continues(c, Idle) /\ Idle.pc = "idle"
    BY <1>1, <1>7, EndArrives DEF Idle
  <2>2. {<<c, q>> : q \in {s \in Oids : Within(cl[c], s)}} = {<<c, o>>, <<c, p>>}
    BY <1>1, <1>2, <1>3 DEF Within
  <2>3. LockLeaked(c, Idle)
    BY <1>1, <1>3, <1>7, <2>1, <2>2 DEF LockLeaked, Within
  <2>4. leaked' \subseteq Clients \X Oids
    BY <1>2, <1>4, <1>7
  <2>5. "idle" \notin PendingPcs
    BY DEF PendingPcs
  <2> QED
    BY <1>1, <1>3, <1>4, <1>7, <2>1, <2>3, <2>4, <2>5, NoWrite DEF LockView
<1> QED
  BY <1>1, <1>6, <1>7

-----------------------------------------------------------------------------
(* The steps that write the tables of copies, layouts and extents.         *)

SameObjects(d, e) == e.object = d.object /\ e.deprecated = d.deprecated

LEMMA FileWrite ==
  ASSUME TypeInv, NEW c \in Clients, NEW r \in Local, Continues(c, r),
         UNCHANGED <<lock, leaked, nuuid, nops, crashes>>,
         r.pc \notin NewPcs, cl[c].pc \notin NewPcs, r.pc \in OwnPcs <=> cl[c].pc \in OwnPcs,
         DbOK(db'), SameObjects(db, db'), erased \subseteq erased', erased' \subseteq CopyKeys,
         acked' \subseteq CopyKeys,
         acked' = acked \/ (cl[c].pc = "copy_complete" /\ acked' = acked \cup {KeyOf(cl[c])}),
         r.pc \in KeptPcs => \/ cl[c].pc \in KeptPcs /\ SameKey(cl[c], r)
                             \/ ObjectThere(db, r.u, r.v),
         r.pc \in {"erase_move", "erase_object"} =>
           SameKey(cl[c], r) /\ r.n = cl[c].n /\ KeyOf(r) \in erased',
         RefView(c, r), CompView(c, r)
  PROVE  Stepped(c)
<1>1. /\ LockView(c, r)
      /\ lock' \in [Oids -> Clients \cup {Free, Dead}] /\ leaked' \subseteq Clients \X Oids
  BY LocksAlone
<1>2. TypeInv'
  <2>1. nuuid' \in 0..MaxUuid /\ nops' \in 0..MaxOps /\ crashes' \in 0..MaxCrash
    BY DEF TypeInv, TypeOK
  <2> QED
    BY <1>1, <2>1, TypeStep DEF Continues
<1>3. /\ \A u, v : ObjectThere(db, u, v) => ObjectThere(db', u, v)
      /\ UniqueUuids(db) => UniqueUuids(db')
  BY DEF SameObjects, ObjectThere, IsDeprecated, DeprecatedOf, UniqueUuids, Alive
<1>4. AckView(c, r)
  BY <1>3 DEF AckView
<1> QED
  BY <1>1, <1>2, <1>4 DEF Stepped, Views

LEMMA OwnKey ==
  ASSUME TypeInv, NEW c \in Clients, cl[c].pc \in KeyPcs
  PROVE  KeyOf(cl[c]) \in CopyKeys /\ Key(c) = KeyOf(cl[c])
BY OwnLocal DEF LocalOK, CopyKeys, Key, KeyOf

\* The effect of the transactions on one copy.
CopyTable(d, e) ==
  SameObjects(d, e) /\ e.layout = d.layout /\ e.extent = d.extent

LEMMA CopyInsertEffect ==
  ASSUME NEW d, DbOK(d), NEW k \in CopyKeys, CopyInsertApplies(d, k)
  PROVE  LET e == CopyInsert(d, k)
         IN  /\ DbOK(e) /\ CopyTable(d, e)
             /\ \A j \in DOMAIN e.copy : e.copy[j] = "complete" =>
                  j \in DOMAIN d.copy /\ d.copy[j] = "complete"
<1> DEFINE e == CopyInsert(d, k)
<1>1. DbOK(e) /\ e = Db(d.object, d.deprecated, Put(d.copy, k, "incomplete"), d.layout, d.extent)
  BY DbTables, CopyTxnsOK, CopyInsertDb
<1> HIDE DEF e
<1>2. CopyTable(d, e) /\ e.copy = Put(d.copy, k, "incomplete")
  BY <1>1, DbFields DEF CopyTable, SameObjects
<1>3. ASSUME NEW j \in DOMAIN e.copy, e.copy[j] = "complete"
      PROVE  j \in DOMAIN d.copy /\ d.copy[j] = "complete"
  BY <1>2, <1>3 DEF Put
<1> QED
  BY <1>1, <1>2, <1>3 DEF e

LEMMA CopyDeleteEffect ==
  ASSUME NEW d, DbOK(d), NEW k \in CopyKeys
  PROVE  LET e == CopyDelete(d, k)
         IN  /\ DbOK(e) /\ CopyTable(d, e)
             /\ \A j \in DOMAIN e.copy : e.copy[j] = "complete" =>
                  j \in DOMAIN d.copy /\ d.copy[j] = "complete"
<1> DEFINE e == CopyDelete(d, k)
<1>1. DbOK(e) /\ e = Db(d.object, d.deprecated, Drop(d.copy, {k}), d.layout, d.extent)
  BY DbTables, CopyTxnsOK, CopyDeleteDb
<1> HIDE DEF e
<1>2. CopyTable(d, e) /\ e.copy = Drop(d.copy, {k})
  BY <1>1, DbFields DEF CopyTable, SameObjects
<1>3. ASSUME NEW j \in DOMAIN e.copy, e.copy[j] = "complete"
      PROVE  j \in DOMAIN d.copy /\ d.copy[j] = "complete"
  BY <1>2, <1>3 DEF Drop
<1> QED
  BY <1>1, <1>2, <1>3 DEF e

LEMMA CopyUpdateEffect ==
  ASSUME NEW d, DbOK(d), NEW k \in CopyKeys
  PROVE  LET e == CopyUpdate(d, k, "complete")
         IN  /\ DbOK(e) /\ CopyTable(d, e)
             /\ \A j \in DOMAIN e.copy : e.copy[j] = "complete" =>
                  j = k \/ (j \in DOMAIN d.copy /\ d.copy[j] = "complete")
<1> DEFINE e == CopyUpdate(d, k, "complete")
           f == IF k \in DOMAIN d.copy THEN [d.copy EXCEPT ![k] = "complete"] ELSE d.copy
<1>1. DbOK(e) /\ e = Db(d.object, d.deprecated, f, d.layout, d.extent)
  BY DbTables, CopyTxnsOK, CopyUpdateDb
<1> HIDE DEF e, f
<1>2. CopyTable(d, e) /\ e.copy = f
  BY <1>1, DbFields DEF CopyTable, SameObjects
<1>3. ASSUME NEW j \in DOMAIN e.copy, e.copy[j] = "complete"
      PROVE  j = k \/ (j \in DOMAIN d.copy /\ d.copy[j] = "complete")
  BY <1>2, <1>3 DEF f
<1> QED
  BY <1>1, <1>2, <1>3 DEF e

\* A step on the row of a copy, that ends the operation or goes on with an easy step.
LEMMA CopyWrite ==
  ASSUME TypeInv, NEW c \in Clients, NEW r \in Local, Continues(c, r),
         UNCHANGED <<lock, leaked, nuuid, nops, crashes>>,
         r.pc \notin NewPcs, cl[c].pc \notin NewPcs, r.pc \in OwnPcs <=> cl[c].pc \in OwnPcs,
         DbOK(db'), CopyTable(db, db'), erased \subseteq erased', erased' \subseteq CopyKeys,
         acked' \subseteq CopyKeys,
         acked' = acked \/ (cl[c].pc = "copy_complete" /\ acked' = acked \cup {KeyOf(cl[c])}),
         r.pc \in KeptPcs => \/ cl[c].pc \in KeptPcs /\ SameKey(cl[c], r)
                             \/ ObjectThere(db, r.u, r.v),
         r.pc \in EasyPcs \cup {"erase_move"},
         r.pc = "erase_move" => SameKey(cl[c], r) /\ r.n = cl[c].n /\ KeyOf(r) \in erased',
         r.pc \in PendingPcs => cl[c].pc \in PendingPcs,
         \A k \in DOMAIN db'.copy : db'.copy[k] = "complete" =>
           \/ k \in DOMAIN db.copy /\ db.copy[k] = "complete"
           \/ k = KeyOf(cl[c]) /\ (cl[c].pc = "copy_complete" \/ cl[c].op = "rebuild")
  PROVE  Stepped(c)
<1>1. RefView(c, r)
  BY DEF RefView, CopyTable, EasyPcs
<1>2. CompView(c, r)
  BY DEF CompView, CopyTable, EasyPcs
<1>3. r.pc \in {"erase_move", "erase_object"} =>
        SameKey(cl[c], r) /\ r.n = cl[c].n /\ KeyOf(r) \in erased'
  BY DEF EasyPcs
<1> QED
  BY <1>1, <1>2, <1>3, FileWrite DEF CopyTable

LEMMA CopyUndoStep == ASSUME TypeInv, NEW c \in Clients, CopyUndo(c) PROVE Stepped(c)
<1> DEFINE e == CopyDelete(db, Key(c))
<1>1. /\ Txn(c, "copy_undo", TRUE, e, "idle", "idle") /\ cl[c].pc = "copy_undo"
      /\ acked' = acked /\ erased' = erased
  BY DEF CopyUndo, Txn, At
<1>2. /\ MayGo(cl[c], "idle") /\ MayGo(cl[c], "idle") /\ KeyOf(cl[c]) \in CopyKeys
      /\ Key(c) = KeyOf(cl[c])
  BY <1>1, OwnLocal, OwnKey DEF LocalOK, MayGo, PutPcs, OidPcs, KeyPcs, RenamePcs
<1>3. /\ "copy_undo" \in Pcs \ {"idle"} /\ "copy_undo" \notin OwnPcs \cup NewPcs /\ "idle" \in Pcs
      /\ "idle" \in EasyPcs \ KeptPcs /\ "idle" \in Pcs /\ "idle" \notin OwnPcs \cup NewPcs
      /\ "idle" \in PendingPcs => "copy_undo" \in PendingPcs
  BY DEF PendingPcs, Pcs, EasyPcs, KeptPcs, OwnPcs, NewPcs
<1>4. DbOK(db) /\ erased \subseteq CopyKeys /\ acked \subseteq CopyKeys
  BY DEF TypeInv, TypeOK, DbOK
<1>5. /\ DbOK(e) /\ CopyTable(db, e)
      /\ \A j \in DOMAIN e.copy : e.copy[j] = "complete" =>
           j \in DOMAIN db.copy /\ db.copy[j] = "complete"
  BY <1>2, <1>4, CopyDeleteEffect
<1> HIDE DEF e
<1>6. UNCHANGED <<lock, leaked, nuuid, nops, crashes>> /\ db' = e
      /\ \E r \in Local : Arrives(c, r, "idle")
  BY <1>1, <1>2, <1>3, TxnArrives
<1>7. PICK r \in Local : Arrives(c, r, "idle")
  BY <1>6
<1>8. Continues(c, r) /\ r.pc = "idle"
  BY <1>7 DEF Arrives
<1> QED
  BY <1>1, <1>2, <1>3, <1>4, <1>5, <1>6, <1>8, CopyWrite DEF EasyPcs

LEMMA DelCopyStep == ASSUME TypeInv, NEW c \in Clients, DelCopy(c) PROVE Stepped(c)
<1> DEFINE e == CopyDelete(db, Key(c))
<1>1. /\ Txn(c, "del_copy", TRUE, e, "del_object", "idle") /\ cl[c].pc = "del_copy"
      /\ acked' = acked /\ erased' = erased
  BY DEF DelCopy, Txn, At
<1>2. /\ MayGo(cl[c], "del_object") /\ MayGo(cl[c], "idle") /\ KeyOf(cl[c]) \in CopyKeys
      /\ Key(c) = KeyOf(cl[c])
  BY <1>1, OwnLocal, OwnKey DEF LocalOK, MayGo, PutPcs, OidPcs, KeyPcs, RenamePcs
<1>3. /\ "del_copy" \in Pcs \ {"idle"} /\ "del_copy" \in OwnPcs \ NewPcs /\ "idle" \in Pcs
      /\ "del_object" \in EasyPcs \ KeptPcs /\ "del_object" \in Pcs /\ "del_object" \in OwnPcs \ NewPcs
      /\ "del_object" \in PendingPcs => "del_copy" \in PendingPcs
  BY DEF PendingPcs, Pcs, EasyPcs, KeptPcs, OwnPcs, NewPcs
<1>4. DbOK(db) /\ erased \subseteq CopyKeys /\ acked \subseteq CopyKeys
  BY DEF TypeInv, TypeOK, DbOK
<1>5. /\ DbOK(e) /\ CopyTable(db, e)
      /\ \A j \in DOMAIN e.copy : e.copy[j] = "complete" =>
           j \in DOMAIN db.copy /\ db.copy[j] = "complete"
  BY <1>2, <1>4, CopyDeleteEffect
<1> HIDE DEF e
<1>6. UNCHANGED <<lock, leaked, nuuid, nops, crashes>> /\ db' = e
      /\ \E r \in Local : Arrives(c, r, "del_object")
  BY <1>1, <1>2, <1>3, TxnArrives
<1>7. PICK r \in Local : Arrives(c, r, "del_object")
  BY <1>6
<1>8. Continues(c, r) /\ r.pc = "del_object"
  BY <1>7 DEF Arrives
<1> QED
  BY <1>1, <1>2, <1>3, <1>4, <1>5, <1>6, <1>8, CopyWrite DEF EasyPcs

LEMMA EndCompleteStep == ASSUME TypeInv, NEW c \in Clients, EndComplete(c) PROVE Stepped(c)
<1> DEFINE e == CopyUpdate(db, Key(c), "complete")
<1>1. /\ Txn(c, "copy_complete", TRUE, e, "idle", "idle") /\ cl[c].pc = "copy_complete"
      /\ acked' = acked \cup {Key(c)} /\ erased' = erased
  BY DEF EndComplete, Txn, At
<1>2. /\ MayGo(cl[c], "idle") /\ MayGo(cl[c], "idle") /\ KeyOf(cl[c]) \in CopyKeys
      /\ Key(c) = KeyOf(cl[c])
  BY <1>1, OwnLocal, OwnKey DEF LocalOK, MayGo, PutPcs, OidPcs, KeyPcs, RenamePcs
<1>3. /\ "copy_complete" \in Pcs \ {"idle"} /\ "copy_complete" \notin OwnPcs \cup NewPcs /\ "idle" \in Pcs
      /\ "idle" \in EasyPcs \ KeptPcs /\ "idle" \in Pcs /\ "idle" \notin OwnPcs \cup NewPcs
      /\ "idle" \in PendingPcs => "copy_complete" \in PendingPcs
  BY DEF PendingPcs, Pcs, EasyPcs, KeptPcs, OwnPcs, NewPcs
<1>4. DbOK(db) /\ erased \subseteq CopyKeys /\ acked \subseteq CopyKeys
  BY DEF TypeInv, TypeOK, DbOK
<1>5. /\ DbOK(e) /\ CopyTable(db, e)
      /\ \A j \in DOMAIN e.copy : e.copy[j] = "complete" =>
           j = KeyOf(cl[c]) \/ (j \in DOMAIN db.copy /\ db.copy[j] = "complete")
  BY <1>2, <1>4, CopyUpdateEffect
<1> HIDE DEF e
<1>6. UNCHANGED <<lock, leaked, nuuid, nops, crashes>> /\ db' = e
      /\ \E r \in Local : Arrives(c, r, "idle")
  BY <1>1, <1>2, <1>3, TxnArrives
<1>7. PICK r \in Local : Arrives(c, r, "idle")
  BY <1>6
<1>8. Continues(c, r) /\ r.pc = "idle"
  BY <1>7 DEF Arrives
<1> QED
  BY <1>1, <1>2, <1>3, <1>4, <1>5, <1>6, <1>8, CopyWrite DEF EasyPcs

LEMMA RebuiltStatusStep == ASSUME TypeInv, NEW c \in Clients, RebuiltStatus(c) PROVE Stepped(c)
<1> DEFINE e == CopyUpdate(db, Key(c), "complete")
<1>1. /\ Txn(c, "copy_status", TRUE, e, "idle", "idle") /\ cl[c].pc = "copy_status"
      /\ acked' = acked /\ erased' = erased
  BY DEF RebuiltStatus, Txn, At
<1>2. /\ MayGo(cl[c], "idle") /\ MayGo(cl[c], "idle") /\ KeyOf(cl[c]) \in CopyKeys
      /\ Key(c) = KeyOf(cl[c]) /\ cl[c].op = "rebuild"
  BY <1>1, OwnLocal, OwnKey DEF LocalOK, MayGo, PutPcs, OidPcs, KeyPcs, RenamePcs
<1>3. /\ "copy_status" \in Pcs \ {"idle"} /\ "copy_status" \notin OwnPcs \cup NewPcs /\ "idle" \in Pcs
      /\ "idle" \in EasyPcs \ KeptPcs /\ "idle" \in Pcs /\ "idle" \notin OwnPcs \cup NewPcs
      /\ "idle" \in PendingPcs => "copy_status" \in PendingPcs
  BY DEF PendingPcs, Pcs, EasyPcs, KeptPcs, OwnPcs, NewPcs
<1>4. DbOK(db) /\ erased \subseteq CopyKeys /\ acked \subseteq CopyKeys
  BY DEF TypeInv, TypeOK, DbOK
<1>5. /\ DbOK(e) /\ CopyTable(db, e)
      /\ \A j \in DOMAIN e.copy : e.copy[j] = "complete" =>
           j = KeyOf(cl[c]) \/ (j \in DOMAIN db.copy /\ db.copy[j] = "complete")
  BY <1>2, <1>4, CopyUpdateEffect
<1> HIDE DEF e
<1>6. UNCHANGED <<lock, leaked, nuuid, nops, crashes>> /\ db' = e
      /\ \E r \in Local : Arrives(c, r, "idle")
  BY <1>1, <1>2, <1>3, TxnArrives
<1>7. PICK r \in Local : Arrives(c, r, "idle")
  BY <1>6
<1>8. Continues(c, r) /\ r.pc = "idle"
  BY <1>7 DEF Arrives
<1> QED
  BY <1>1, <1>2, <1>3, <1>4, <1>5, <1>6, <1>8, CopyWrite DEF EasyPcs

LEMMA CopyInsertStepStep ==
  ASSUME TypeInv, NEW c \in Clients, CopyInsertStep(c) PROVE Stepped(c)
<1> DEFINE k == Key(c)
           applies == CopyInsertApplies(db, k)
           e == CopyInsert(db, k)
<1>1. /\ Txn(c, "copy_insert", applies, e, "io", "idle") /\ cl[c].pc = "copy_insert"
      /\ acked' = acked /\ erased' = erased
  BY DEF CopyInsertStep, Txn, At
<1>2. MayGo(cl[c], "io") /\ MayGo(cl[c], "idle") /\ k \in CopyKeys
  BY <1>1, OwnLocal, OwnKey DEF LocalOK, MayGo, PutPcs, OidPcs, KeyPcs, RenamePcs
<1>3. /\ "copy_insert" \in PendingPcs /\ "copy_insert" \notin OwnPcs \cup NewPcs /\ "idle" \in Pcs
      /\ "io" \in EasyPcs /\ "io" \in Pcs \ {"idle"} /\ "io" \notin OwnPcs \cup NewPcs
      /\ "copy_insert" \in KeptPcs
      /\ "idle" \in EasyPcs \ KeptPcs /\ "idle" \notin OwnPcs \cup NewPcs
  BY DEF PendingPcs, Pcs, EasyPcs, KeptPcs, OwnPcs, NewPcs
<1>4. DbOK(db) /\ erased \subseteq CopyKeys /\ acked \subseteq CopyKeys /\ nuuid \in 0..MaxUuid
  BY DEF TypeInv, TypeOK, DbOK
<1>5. applies \in BOOLEAN
  BY DEF CopyInsertApplies
<1> HIDE DEF k
<1>6. applies => /\ DbOK(e) /\ CopyTable(db, e)
                 /\ \A j \in DOMAIN e.copy : e.copy[j] = "complete" =>
                      j \in DOMAIN db.copy /\ db.copy[j] = "complete"
  BY <1>2, <1>4, CopyInsertEffect
<1> HIDE DEF e, applies
<1>7. /\ UNCHANGED <<lock, leaked, nuuid, nops, crashes>>
      /\ \/ applies /\ db' = e /\ \E r \in Local : Arrives(c, r, "io")
         \/ ~applies /\ db' = db /\ \E r \in Local : Arrives(c, r, "idle")
  BY <1>1, <1>2, <1>3, <1>5, TxnArrives
<1>8. CASE applies /\ db' = e /\ \E r \in Local : Arrives(c, r, "io")
  <2>1. PICK r \in Local : Arrives(c, r, "io")
    BY <1>8
  <2>2. Continues(c, r) /\ r.pc = "io" /\ SameKey(cl[c], r)
    BY <2>1 DEF Arrives
  <2> QED
    BY <1>1, <1>3, <1>4, <1>6, <1>7, <1>8, <2>2, CopyWrite
<1>9. CASE db' = db /\ \E r \in Local : Arrives(c, r, "idle")
  BY <1>1, <1>3, <1>4, <1>7, <1>9, KeepingStep, NothingKeeps
<1> QED
  BY <1>7, <1>8, <1>9

LEMMA EraseCopyStep == ASSUME TypeInv, NEW c \in Clients, EraseCopy(c) PROVE Stepped(c)
<1> DEFINE e == CopyDelete(db, Key(c))
           there == IF cl[c].more THEN "erase_move" ELSE "idle"
<1>1. /\ Txn(c, "copy_delete", TRUE, e, there, "idle") /\ cl[c].pc = "copy_delete"
      /\ acked' = acked /\ erased' = erased \cup {Key(c)}
  BY DEF EraseCopy, Txn, At
<1>2. /\ MayGo(cl[c], there) /\ MayGo(cl[c], "idle") /\ KeyOf(cl[c]) \in CopyKeys
      /\ Key(c) = KeyOf(cl[c]) /\ there \in {"erase_move", "idle"}
  <2>1. KeyOf(cl[c]) \in CopyKeys /\ Key(c) = KeyOf(cl[c])
    BY <1>1, OwnKey DEF KeyPcs
  <2>2. there = "erase_move" => cl[c].o \in Oids
    BY OwnLocal DEF LocalOK
  <2>3. there \in {"erase_move", "idle"}
    OBVIOUS
  <2>4. cl[c].u \in Uuids /\ cl[c].v \in Versions /\ cl[c].n \in Names
    BY <1>1, OwnLocal DEF LocalOK, KeyPcs
  <2> HIDE DEF there
  <2> QED
    BY <2>1, <2>2, <2>3, <2>4 DEF MayGo, PutPcs, OidPcs, KeyPcs, RenamePcs
<1> HIDE DEF there
<1>3. /\ "copy_delete" \in PendingPcs /\ "copy_delete" \notin OwnPcs \cup NewPcs /\ "idle" \in Pcs
      /\ there \in EasyPcs \cup {"erase_move"} /\ there \in Pcs
      /\ there \notin OwnPcs \cup NewPcs \cup KeptPcs
  BY <1>2 DEF PendingPcs, Pcs, EasyPcs, KeptPcs, OwnPcs, NewPcs
<1>4. DbOK(db) /\ erased \subseteq CopyKeys /\ acked \subseteq CopyKeys
  BY DEF TypeInv, TypeOK, DbOK
<1>5. /\ DbOK(e) /\ CopyTable(db, e)
      /\ \A j \in DOMAIN e.copy : e.copy[j] = "complete" =>
           j \in DOMAIN db.copy /\ db.copy[j] = "complete"
  BY <1>2, <1>4, CopyDeleteEffect
<1> HIDE DEF e
<1>6. UNCHANGED <<lock, leaked, nuuid, nops, crashes>> /\ db' = e
      /\ \E r \in Local : Arrives(c, r, there)
  BY <1>1, <1>2, <1>3, TxnArrives
<1>7. PICK r \in Local : Arrives(c, r, there)
  BY <1>6
<1>8. Continues(c, r) /\ r.pc = there
  BY <1>7 DEF Arrives
<1>9. /\ erased \subseteq erased' /\ erased' \subseteq CopyKeys
      /\ r.pc = "erase_move" => SameKey(cl[c], r) /\ r.n = cl[c].n /\ KeyOf(r) \in erased'
  BY <1>1, <1>2, <1>4, <1>7 DEF Arrives, Same, SameKey, KeyOf
<1> QED
  BY <1>1, <1>3, <1>4, <1>5, <1>6, <1>8, <1>9, CopyWrite

LEMMA SaveCopyStep == ASSUME TypeInv, NEW c \in Clients, SaveCopy(c) PROVE Stepped(c)
<1> DEFINE row == db.object[cl[c].o]
           u == row.uuid
           v == row.version
           k == <<u, v, cl[c].n>>
           e == CopyInsert(db, k)
           r == RowRead(cl[c], u, v, "save_unlock")
<1>1. /\ cl[c].pc = "save_copy" /\ UNCHANGED <<lock, leaked, nuuid, nops, crashes, acked, erased>>
      /\ \/ row # NoRow /\ CopyInsertApplies(db, k) /\ db' = e /\ cl' = [cl EXCEPT ![c] = r]
         \/ db' = db /\ To(c, "save_unlock_failed")
  BY DEF SaveCopy, At, NoLock, NoCount, ToWith, RowRead
<1>2. /\ cl[c] \in LocalType /\ LocalOK(cl[c]) /\ cl[c].o \in Oids /\ cl[c].op \in PutOps
      /\ cl[c].n \in Names /\ MayGo(cl[c], "save_unlock_failed")
  BY <1>1, OwnLocal DEF LocalOK, MayGo, PutPcs, OidPcs, KeyPcs, RenamePcs
<1>3. /\ "save_copy" \in PendingPcs /\ "save_copy" \in OwnPcs \ NewPcs
      /\ "save_unlock" \in EasyPcs /\ "save_unlock" \in Pcs /\ "save_unlock" \in OwnPcs \ NewPcs
      /\ "save_unlock_failed" \in EasyPcs \ KeptPcs /\ "save_unlock_failed" \in Pcs \ {"idle"}
      /\ "save_unlock_failed" \in OwnPcs \ NewPcs
  BY DEF PendingPcs, Pcs, EasyPcs, KeptPcs, OwnPcs, NewPcs
<1>4. DbOK(db) /\ erased \subseteq CopyKeys /\ acked \subseteq CopyKeys /\ nuuid \in 0..MaxUuid
  BY DEF TypeInv, TypeOK, DbOK
<1>5. CASE row # NoRow /\ CopyInsertApplies(db, k) /\ db' = e /\ cl' = [cl EXCEPT ![c] = r]
  <2>1. u \in Uuids /\ v \in Versions /\ ObjectThere(db, u, v)
    BY <1>2, <1>4, <1>5, AliveRow DEF Alive
  <2>2. k \in CopyKeys
    BY <1>2, <2>1 DEF CopyKeys
  <2> HIDE DEF u, v
  <2>3. /\ r \in LocalType /\ r.pc = "save_unlock" /\ r.u = u /\ r.v = v /\ r.more = cl[c].more
        /\ r.op = cl[c].op /\ r.o = cl[c].o /\ r.p = cl[c].p /\ r.n = cl[c].n
        /\ r.x = cl[c].x /\ r.old = cl[c].old
    BY <1>2, <1>3, <2>1, LocalRow
  <2> HIDE DEF r
  <2>4. LocalOK(r)
    BY <1>1, <1>2, <2>1, <2>3 DEF LocalOK, PutPcs, OidPcs, KeyPcs, RenamePcs, PutOps
  <2>5. r \in Local /\ Continues(c, r)
    BY <1>1, <1>2, <1>5, <2>3, <2>4 DEF Local, Continues, Same
  <2> HIDE DEF k
  <2>6. /\ DbOK(e) /\ CopyTable(db, e)
        /\ \A j \in DOMAIN e.copy : e.copy[j] = "complete" =>
             j \in DOMAIN db.copy /\ db.copy[j] = "complete"
    BY <1>4, <1>5, <2>2, CopyInsertEffect
  <2> HIDE DEF e
  <2> QED
    BY <1>1, <1>3, <1>4, <1>5, <2>1, <2>3, <2>5, <2>6, CopyWrite DEF EasyPcs
<1>6. CASE db' = db /\ To(c, "save_unlock_failed")
  <2>1. \E q \in Local : Arrives(c, q, "save_unlock_failed")
    BY <1>1, <1>2, <1>3, <1>6, ToArrives
  <2> QED
    BY <1>1, <1>3, <1>4, <1>6, <2>1, KeepingStep, NothingKeeps
<1> QED
  BY <1>1, <1>5, <1>6

\* A step on layouts and extents: the rows of copies do not change.
LEMMA ExtentWrite ==
  ASSUME TypeInv, NEW c \in Clients, NEW r \in Local, Continues(c, r),
         UNCHANGED <<lock, leaked, nuuid, nops, crashes>>,
         r.pc \notin OwnPcs \cup NewPcs, cl[c].pc \notin OwnPcs \cup NewPcs,
         r.pc \notin {"erase_move", "erase_object"},
         DbOK(db'), SameObjects(db, db'), db'.copy = db.copy,
         erased \subseteq erased', erased' \subseteq CopyKeys, acked' = acked,
         r.pc \in KeptPcs => cl[c].pc \in KeptPcs /\ SameKey(cl[c], r),
         \A k \in DOMAIN db.layout : k \in DOMAIN db'.layout \/ k \in erased',
         r.pc = "copy_complete" => KeyOf(r) \in DOMAIN db'.layout,
         RefView(c, r)
  PROVE  Stepped(c)
<1>1. CompView(c, r)
  BY DEF CompView
<1>2. acked' \subseteq CopyKeys
  BY DEF TypeInv, TypeOK
<1> QED
  BY <1>1, <1>2, FileWrite

LEMMA LayoutInsertEffect ==
  ASSUME NEW d, DbOK(d), NEW k \in CopyKeys, NEW x \in Extents
  PROVE  LET e == LayoutInsert(d, k, x)
         IN  /\ DbOK(e) /\ SameObjects(d, e) /\ e.copy = d.copy /\ e.extent = d.extent
             /\ e.layout = Put(d.layout, k, x) /\ DOMAIN e.layout = DOMAIN d.layout \cup {k}
<1> DEFINE e == LayoutInsert(d, k, x)
<1>1. DbOK(e) /\ e = Db(d.object, d.deprecated, d.copy, Put(d.layout, k, x), d.extent)
  BY DbTables, LayoutTxnsOK, LayoutInsertDb
<1> HIDE DEF e
<1>2. SameObjects(d, e) /\ e.copy = d.copy /\ e.extent = d.extent /\ e.layout = Put(d.layout, k, x)
  BY <1>1, DbFields DEF SameObjects
<1> QED
  BY <1>1, <1>2 DEF e, Put

LEMMA LayoutDeleteEffect ==
  ASSUME NEW d, DbOK(d), NEW k \in CopyKeys, NEW x
  PROVE  LET e == LayoutDelete(d, k, x)
         IN  /\ DbOK(e) /\ SameObjects(d, e) /\ e.copy = d.copy /\ e.extent = d.extent
             /\ e.layout = Unlink(d.layout, k, x)
<1> DEFINE e == LayoutDelete(d, k, x)
<1>2. e = Db(d.object, d.deprecated, d.copy, Unlink(d.layout, k, x), d.extent)
  BY DbTables, LayoutDeleteDb DEF Unlink
<1> HIDE DEF e
<1>3. /\ SameObjects(d, e) /\ e.copy = d.copy /\ e.extent = d.extent
      /\ e.layout = Unlink(d.layout, k, x)
  BY <1>2, DbFields DEF SameObjects
<1>4. DbOK(e)
  <2>1. IsTable(Unlink(d.layout, k, x), CopyKeys, Extents)
    <3>1. CASE k \in DOMAIN d.layout /\ d.layout[k] = x
      <4>1. IsTable(Drop(d.layout, {k}), CopyKeys, Extents)
        BY DbTables, DropTable
      <4> QED
        BY <3>1, <4>1 DEF Unlink
    <3>2. CASE ~(k \in DOMAIN d.layout /\ d.layout[k] = x)
      BY <3>2, DbTables DEF Unlink
    <3> QED
      BY <3>1, <3>2
  <2> QED
    BY <1>2, <2>1, DbTables, DbOKFields
<1> QED
  BY <1>3, <1>4 DEF e

LEMMA ExtentInsertEffect ==
  ASSUME NEW d, DbOK(d), NEW x \in Extents
  PROVE  LET e == ExtentInsert(d, x)
         IN  /\ DbOK(e) /\ SameObjects(d, e) /\ e.copy = d.copy /\ e.layout = d.layout
             /\ e.extent = Put(d.extent, x, "sync")
<1> DEFINE e == ExtentInsert(d, x)
<1>1. e = Db(d.object, d.deprecated, d.copy, d.layout, Put(d.extent, x, "sync"))
  BY DbTables, ExtentInsertDb
<1>2. DbOK(e)
  <2>1. "sync" \in ExtentStates
    BY DEF ExtentStates
  <2> QED
    BY <2>1, ExtentTxnsOK
<1> HIDE DEF e
<1>3. SameObjects(d, e) /\ e.copy = d.copy /\ e.layout = d.layout /\ e.extent = Put(d.extent, x, "sync")
  BY <1>1, DbFields DEF SameObjects
<1> QED
  BY <1>2, <1>3 DEF e

LEMMA ExtentUpdateEffect ==
  ASSUME NEW d, DbOK(d), NEW x
  PROVE  LET e == ExtentUpdate(d, x, "orphan")
         IN  /\ DbOK(e) /\ SameObjects(d, e) /\ e.copy = d.copy /\ e.layout = d.layout
             /\ e.extent = SetState(d.extent, x, "orphan")
<1> DEFINE e == ExtentUpdate(d, x, "orphan")
<1>1. e = Db(d.object, d.deprecated, d.copy, d.layout, SetState(d.extent, x, "orphan"))
  BY DbTables, ExtentUpdateDb
<1> HIDE DEF e
<1>2. /\ SameObjects(d, e) /\ e.copy = d.copy /\ e.layout = d.layout
      /\ e.extent = SetState(d.extent, x, "orphan")
  BY <1>1, DbFields DEF SameObjects
<1>3. IsTable(SetState(d.extent, x, "orphan"), Extents, ExtentStates)
  <2>1. "orphan" \in ExtentStates
    BY DEF ExtentStates
  <2> QED
    BY <2>1, DbTables, SetStateTable
<1>4. DbOK(e)
  BY <1>1, <1>3, DbTables, DbOKFields
<1> QED
  BY <1>2, <1>4 DEF e

LEMMA ExtentDeleteEffect ==
  ASSUME NEW d, DbOK(d), NEW x
  PROVE  LET e == ExtentDelete(d, x)
         IN  /\ DbOK(e) /\ SameObjects(d, e) /\ e.copy = d.copy /\ e.layout = d.layout
             /\ e.extent = Drop(d.extent, {x})
<1> DEFINE e == ExtentDelete(d, x)
<1>1. e = Db(d.object, d.deprecated, d.copy, d.layout, Drop(d.extent, {x}))
  BY DbTables, ExtentDeleteDb
<1> HIDE DEF e
<1>2. /\ SameObjects(d, e) /\ e.copy = d.copy /\ e.layout = d.layout
      /\ e.extent = Drop(d.extent, {x})
  BY <1>1, DbFields DEF SameObjects
<1>3. IsTable(Drop(d.extent, {x}), Extents, ExtentStates)
  BY DbTables, DropTable
<1>4. DbOK(e)
  BY <1>1, <1>3, DbTables, DbOKFields
<1> QED
  BY <1>2, <1>4 DEF e

LEMMA MigrateEffect ==
  ASSUME NEW d, DbOK(d), NEW old, NEW new \in Extents
  PROVE  LET e == ExtentMigrate(d, old, new)
         IN  /\ DbOK(e) /\ SameObjects(d, e) /\ e.copy = d.copy
             /\ e.layout = MovedLayout(d.layout, old, new)
             /\ e.extent = SetState(SetState(d.extent, old, "orphan"), new, "sync")
<1> DEFINE e == ExtentMigrate(d, old, new)
           l == MovedLayout(d.layout, old, new)
           f == SetState(SetState(d.extent, old, "orphan"), new, "sync")
<1>1. e = Db(d.object, d.deprecated, d.copy, l, f) /\ DbOK(e)
  BY DbTables, ExtentMigrateDb, MigrateOK
<1> HIDE DEF e, l, f
<1>2. SameObjects(d, e) /\ e.copy = d.copy /\ e.layout = l /\ e.extent = f
  BY <1>1, DbFields DEF SameObjects
<1> QED
  BY <1>1, <1>2 DEF e, l, f

LEMMA EndExtentStep == ASSUME TypeInv, NEW c \in Clients, EndExtent(c) PROVE Stepped(c)
<1> DEFINE x == cl[c].x
           e == ExtentInsert(db, x)
           there == IF cl[c].op = "rebuild" THEN "migrate" ELSE "layout_insert"
<1>1. /\ Txn(c, "extent_insert", TRUE, e, there, "idle") /\ cl[c].pc = "extent_insert"
      /\ UNCHANGED <<acked, erased>>
  BY DEF EndExtent, Txn, At
<1>2. /\ x \in Extents /\ cl[c].u \in Uuids /\ cl[c].v \in Versions /\ cl[c].n \in Names
      /\ there \in {"migrate", "layout_insert"} /\ (there = "migrate" => cl[c].op = "rebuild")
  BY <1>1, OwnLocal DEF LocalOK, KeyPcs
<1> HIDE DEF there, x
<1>3. MayGo(cl[c], there) /\ MayGo(cl[c], "idle")
  BY <1>2 DEF MayGo, PutPcs, OidPcs, KeyPcs, RenamePcs
<1>4. /\ "extent_insert" \in PendingPcs /\ "extent_insert" \notin OwnPcs \cup NewPcs
      /\ "extent_insert" \in KeptPcs
      /\ there \in Pcs \ {"idle"} /\ "idle" \in Pcs /\ there \notin OwnPcs \cup NewPcs
      /\ there \notin {"copy_complete", "erase_move", "erase_object"}
  BY <1>2 DEF PendingPcs, Pcs, KeptPcs, OwnPcs, NewPcs
<1>5. DbOK(db) /\ erased \subseteq CopyKeys
  BY DEF TypeInv, TypeOK, DbOK
<1>6. /\ DbOK(e) /\ SameObjects(db, e) /\ e.copy = db.copy /\ e.layout = db.layout
      /\ e.extent = Put(db.extent, x, "sync")
  BY <1>2, <1>5, ExtentInsertEffect
<1> HIDE DEF e
<1>7. UNCHANGED <<lock, leaked, nuuid, nops, crashes>> /\ db' = e
      /\ \E r \in Local : Arrives(c, r, there)
  BY <1>1, <1>3, <1>4, TxnArrives
<1>8. PICK r \in Local : Arrives(c, r, there)
  BY <1>7
<1>9. Continues(c, r) /\ r.pc = there /\ SameKey(cl[c], r)
  BY <1>4, <1>8 DEF Arrives
<1>10. RefView(c, r)
  BY <1>1, <1>2, <1>4, <1>6, <1>7, <1>9 DEF RefView, x
<1> QED
  BY <1>1, <1>4, <1>5, <1>6, <1>7, <1>9, <1>10, ExtentWrite

LEMMA EndLayoutStep == ASSUME TypeInv, NEW c \in Clients, EndLayout(c) PROVE Stepped(c)
<1> DEFINE k == KeyOf(cl[c])
           x == cl[c].x
           applies == LayoutInsertApplies(db, k)
           e == LayoutInsert(db, k, x)
<1>1. /\ Txn(c, "layout_insert", applies, e, "copy_complete", "extent_orphan")
      /\ cl[c].pc = "layout_insert" /\ UNCHANGED <<acked, erased>>
  BY DEF EndLayout, Txn, At, Key, KeyOf
<1>2. /\ x \in Extents /\ k \in CopyKeys /\ MayGo(cl[c], "copy_complete")
      /\ MayGo(cl[c], "extent_orphan")
  BY <1>1, OwnLocal, OwnKey DEF LocalOK, KeyPcs, MayGo, PutPcs, OidPcs, RenamePcs
<1>3. /\ "layout_insert" \in PendingPcs /\ "layout_insert" \notin OwnPcs \cup NewPcs
      /\ "layout_insert" \in KeptPcs
      /\ "copy_complete" \in Pcs \ {"idle"} /\ "copy_complete" \notin OwnPcs \cup NewPcs \cup PendingPcs
      /\ "extent_orphan" \in Pcs /\ "extent_orphan" \in EasyPcs \ KeptPcs
      /\ "extent_orphan" \notin OwnPcs \cup NewPcs
  BY DEF PendingPcs, Pcs, KeptPcs, OwnPcs, NewPcs, EasyPcs
<1>4. DbOK(db) /\ erased \subseteq CopyKeys /\ nuuid \in 0..MaxUuid
  BY DEF TypeInv, TypeOK, DbOK
<1>5. applies \in BOOLEAN /\ (applies => k \notin DOMAIN db.layout)
  BY DEF LayoutInsertApplies
<1> HIDE DEF k, x
<1>6. /\ DbOK(e) /\ SameObjects(db, e) /\ e.copy = db.copy /\ e.extent = db.extent
      /\ e.layout = Put(db.layout, k, x) /\ DOMAIN e.layout = DOMAIN db.layout \cup {k}
  BY <1>2, <1>4, LayoutInsertEffect
<1> HIDE DEF e, applies
<1>7. /\ UNCHANGED <<lock, leaked, nuuid, nops, crashes>>
      /\ \/ applies /\ db' = e /\ \E r \in Local : Arrives(c, r, "copy_complete")
         \/ ~applies /\ db' = db /\ \E r \in Local : Arrives(c, r, "extent_orphan")
  BY <1>1, <1>2, <1>3, <1>5, TxnArrives
<1>8. CASE applies /\ db' = e /\ \E r \in Local : Arrives(c, r, "copy_complete")
  <2>1. PICK r \in Local : Arrives(c, r, "copy_complete")
    BY <1>8
  <2>2. Continues(c, r) /\ r.pc = "copy_complete" /\ SameKey(cl[c], r) /\ KeyOf(r) = k
    BY <2>1 DEF Arrives, Same, SameKey, KeyOf, k
  <2>3. RefView(c, r)
    BY <1>1, <1>3, <1>5, <1>6, <1>8, <2>2 DEF RefView, x, k
  <2> QED
    BY <1>1, <1>3, <1>4, <1>6, <1>7, <1>8, <2>2, <2>3, ExtentWrite
<1>9. CASE db' = db /\ \E r \in Local : Arrives(c, r, "extent_orphan")
  BY <1>1, <1>3, <1>4, <1>7, <1>9, KeepingStep, NothingKeeps
<1> QED
  BY <1>7, <1>8, <1>9

LEMMA EndOrphanStep == ASSUME TypeInv, NEW c \in Clients, EndOrphan(c) PROVE Stepped(c)
<1> DEFINE x == cl[c].x
           e == ExtentUpdate(db, x, "orphan")
           there == IF cl[c].op = "copy" THEN "copy_undo" ELSE "idle"
<1>1. /\ Txn(c, "extent_orphan", TRUE, e, there, "idle") /\ cl[c].pc = "extent_orphan"
      /\ UNCHANGED <<acked, erased>>
  BY DEF EndOrphan, Txn, At
<1>2. /\ cl[c].u \in Uuids /\ cl[c].v \in Versions /\ cl[c].n \in Names
      /\ there \in {"copy_undo", "idle"}
  BY <1>1, OwnLocal DEF LocalOK, KeyPcs
<1> HIDE DEF there, x
<1>3. MayGo(cl[c], there) /\ MayGo(cl[c], "idle")
  BY <1>2 DEF MayGo, PutPcs, OidPcs, KeyPcs, RenamePcs
<1>4. /\ "extent_orphan" \in PendingPcs /\ "extent_orphan" \notin OwnPcs \cup NewPcs
      /\ there \in Pcs /\ "idle" \in Pcs /\ there \notin OwnPcs \cup NewPcs
      /\ there \in EasyPcs \ KeptPcs
  BY <1>2 DEF PendingPcs, Pcs, KeptPcs, OwnPcs, NewPcs, EasyPcs
<1>5. DbOK(db) /\ erased \subseteq CopyKeys
  BY DEF TypeInv, TypeOK, DbOK
<1>6. /\ DbOK(e) /\ SameObjects(db, e) /\ e.copy = db.copy /\ e.layout = db.layout
      /\ e.extent = SetState(db.extent, x, "orphan")
  BY <1>5, ExtentUpdateEffect
<1> HIDE DEF e
<1>7. UNCHANGED <<lock, leaked, nuuid, nops, crashes>> /\ db' = e
      /\ \E r \in Local : Arrives(c, r, there)
  BY <1>1, <1>3, <1>4, TxnArrives
<1>8. PICK r \in Local : Arrives(c, r, there)
  BY <1>7
<1>9. Continues(c, r) /\ r.pc = there
  BY <1>8 DEF Arrives
<1>10. RefView(c, r)
  BY <1>1, <1>4, <1>6, <1>7, <1>9 DEF RefView, x, EasyPcs
<1> QED
  BY <1>1, <1>4, <1>5, <1>6, <1>7, <1>9, <1>10, ExtentWrite DEF EasyPcs

LEMMA MigrateStep == ASSUME TypeInv, NEW c \in Clients, Migrate(c) PROVE Stepped(c)
<1> DEFINE x == cl[c].x
           old == cl[c].old
           e == ExtentMigrate(db, old, x)
<1>1. /\ Txn(c, "migrate", TRUE, e, "copy_status", "idle") /\ cl[c].pc = "migrate"
      /\ UNCHANGED <<acked, erased>>
  BY DEF Migrate, Txn, At
<1>2. x \in Extents /\ MayGo(cl[c], "copy_status") /\ MayGo(cl[c], "idle")
  BY <1>1, OwnLocal DEF LocalOK, MayGo, PutPcs, OidPcs, KeyPcs, RenamePcs
<1>4. /\ "migrate" \in PendingPcs /\ "migrate" \notin OwnPcs \cup NewPcs
      /\ "copy_status" \in Pcs \ KeptPcs /\ "idle" \in Pcs
      /\ "copy_status" \notin OwnPcs \cup NewPcs \cup PendingPcs
  BY DEF PendingPcs, Pcs, KeptPcs, OwnPcs, NewPcs
<1>5. DbOK(db) /\ erased \subseteq CopyKeys
  BY DEF TypeInv, TypeOK, DbOK
<1> HIDE DEF x, old
<1>6. /\ DbOK(e) /\ SameObjects(db, e) /\ e.copy = db.copy
      /\ e.layout = MovedLayout(db.layout, old, x)
      /\ e.extent = SetState(SetState(db.extent, old, "orphan"), x, "sync")
  BY <1>2, <1>5, MigrateEffect
<1>7. DOMAIN e.layout = DOMAIN db.layout
  BY <1>6 DEF MovedLayout
<1> HIDE DEF e
<1>8. UNCHANGED <<lock, leaked, nuuid, nops, crashes>> /\ db' = e
      /\ \E r \in Local : Arrives(c, r, "copy_status")
  BY <1>1, <1>2, <1>4, TxnArrives
<1>9. PICK r \in Local : Arrives(c, r, "copy_status")
  BY <1>8
<1>10. Continues(c, r) /\ r.pc = "copy_status"
  BY <1>9 DEF Arrives
<1>11. RefView(c, r)
  BY <1>1, <1>4, <1>6, <1>8, <1>10 DEF RefView, x, old
<1> QED
  BY <1>1, <1>4, <1>5, <1>6, <1>7, <1>8, <1>10, <1>11, ExtentWrite

LEMMA EraseLayoutStep == ASSUME TypeInv, NEW c \in Clients, EraseLayout(c) PROVE Stepped(c)
<1> DEFINE k == KeyOf(cl[c])
           old == cl[c].old
           e == LayoutDelete(db, k, old)
<1>1. /\ Txn(c, "layout_delete", TRUE, e, "extent_delete", "idle")
      /\ cl[c].pc = "layout_delete" /\ acked' = acked /\ erased' = erased \cup {k}
  BY DEF EraseLayout, Txn, At, Key, KeyOf
<1>2. k \in CopyKeys /\ MayGo(cl[c], "extent_delete") /\ MayGo(cl[c], "idle")
  BY <1>1, OwnLocal, OwnKey DEF LocalOK, KeyPcs, MayGo, PutPcs, OidPcs, RenamePcs
<1>4. /\ "layout_delete" \in PendingPcs /\ "layout_delete" \notin OwnPcs \cup NewPcs
      /\ "extent_delete" \in Pcs \ KeptPcs /\ "idle" \in Pcs
      /\ "extent_delete" \notin OwnPcs \cup NewPcs
  BY DEF PendingPcs, Pcs, KeptPcs, OwnPcs, NewPcs
<1>5. DbOK(db) /\ erased \subseteq CopyKeys
  BY DEF TypeInv, TypeOK, DbOK
<1> HIDE DEF k, old
<1>6. /\ DbOK(e) /\ SameObjects(db, e) /\ e.copy = db.copy /\ e.extent = db.extent
      /\ e.layout = Unlink(db.layout, k, old)
  BY <1>2, <1>5, LayoutDeleteEffect
<1>7. \A j \in DOMAIN db.layout : j \in DOMAIN e.layout \/ j = k
  BY <1>6 DEF Unlink, Drop
<1> HIDE DEF e
<1>8. UNCHANGED <<lock, leaked, nuuid, nops, crashes>> /\ db' = e
      /\ \E r \in Local : Arrives(c, r, "extent_delete")
  BY <1>1, <1>2, <1>4, TxnArrives
<1>9. PICK r \in Local : Arrives(c, r, "extent_delete")
  BY <1>8
<1>10. Continues(c, r) /\ r.pc = "extent_delete" /\ SameKey(cl[c], r)
  BY <1>9 DEF Arrives
<1>11. RefView(c, r)
  BY <1>1, <1>4, <1>6, <1>8, <1>10 DEF RefView, k, old
<1>12. erased \subseteq erased' /\ erased' \subseteq CopyKeys /\ k \in erased'
  BY <1>1, <1>2, <1>5
<1> QED
  BY <1>1, <1>4, <1>6, <1>7, <1>8, <1>10, <1>11, <1>12, ExtentWrite

LEMMA EraseExtentStep == ASSUME TypeInv, NEW c \in Clients, EraseExtent(c) PROVE Stepped(c)
<1> DEFINE old == cl[c].old
<1>1. PICK e \in {ExtentUpdate(db, old, "orphan"), ExtentDelete(db, old)} :
        Txn(c, "extent_delete", TRUE, e, "copy_delete", "idle")
  <2>1. PICK tape \in BOOLEAN :
          Txn(c, "extent_delete", TRUE,
              IF tape THEN ExtentUpdate(db, old, "orphan") ELSE ExtentDelete(db, old),
              "copy_delete", "idle")
    BY DEF EraseExtent
  <2> DEFINE e == IF tape THEN ExtentUpdate(db, old, "orphan") ELSE ExtentDelete(db, old)
  <2>2. e \in {ExtentUpdate(db, old, "orphan"), ExtentDelete(db, old)}
    OBVIOUS
  <2> HIDE DEF old
  <2> QED
    BY <2>1, <2>2
<1>2. cl[c].pc = "extent_delete" /\ UNCHANGED <<acked, erased>>
  BY <1>1 DEF EraseExtent, Txn, At
<1>3. MayGo(cl[c], "copy_delete") /\ MayGo(cl[c], "idle")
  BY <1>2, OwnLocal DEF LocalOK, KeyPcs, MayGo, PutPcs, OidPcs, RenamePcs
<1>4. /\ "extent_delete" \in PendingPcs /\ "extent_delete" \notin OwnPcs \cup NewPcs
      /\ "copy_delete" \in Pcs \ KeptPcs /\ "idle" \in Pcs
      /\ "copy_delete" \notin OwnPcs \cup NewPcs
  BY DEF PendingPcs, Pcs, KeptPcs, OwnPcs, NewPcs
<1>5. DbOK(db) /\ erased \subseteq CopyKeys
  BY DEF TypeInv, TypeOK, DbOK
<1> HIDE DEF old
<1>6. /\ DbOK(e) /\ SameObjects(db, e) /\ e.copy = db.copy /\ e.layout = db.layout
      /\ e.extent = SetState(db.extent, old, "orphan") \/ e.extent = Drop(db.extent, {old})
  <2>1. CASE e = ExtentUpdate(db, old, "orphan")
    BY <1>5, <2>1, ExtentUpdateEffect
  <2>2. CASE e = ExtentDelete(db, old)
    BY <1>5, <2>2, ExtentDeleteEffect
  <2> QED
    BY <1>1, <2>1, <2>2
<1>7. UNCHANGED <<lock, leaked, nuuid, nops, crashes>> /\ db' = e
      /\ \E r \in Local : Arrives(c, r, "copy_delete")
  BY <1>1, <1>3, <1>4, TxnArrives
<1>8. PICK r \in Local : Arrives(c, r, "copy_delete")
  BY <1>7
<1>9. Continues(c, r) /\ r.pc = "copy_delete"
  BY <1>8 DEF Arrives
<1>10. RefView(c, r)
  BY <1>2, <1>4, <1>6, <1>7, <1>9 DEF RefView, old
<1> QED
  BY <1>2, <1>4, <1>5, <1>6, <1>7, <1>9, <1>10, ExtentWrite

LEMMA RunStepped == ASSUME TypeInv, NEW c \in Clients, RunStep(c) PROVE Stepped(c)
BY SaveLockStep, SaveGetStep, SaveInsertStep, SaveMoveStep, SaveFullInsertStep, SaveCopyStep,
   SaveUnlockStep, TransferStep, EndExtentStep, EndLayoutStep, EndOrphanStep, EndCompleteStep,
   DelLockStep, DelGetStep, DelCopyStep, DelObjectStep, DelMoveStep, DelUnlockStep,
   CopyInsertStepStep, CopyUndoStep, MigrateStep, RebuiltStatusStep, DeleteLockStep, DeleteGetStep,
   DeleteMoveStep, DeleteUnlockStep, UndeleteLockStep, UndeleteGetStep, UndeleteMoveStep,
   EraseLayoutStep, EraseExtentStep, EraseCopyStep, EraseMoveStep, EraseObjectStep, RenameLockStep,
   RenameLockNewStep, RenameUpdateStep, RenameUnlockStep, SetmdStep DEF RunStep

-----------------------------------------------------------------------------
(* Types.                                                                  *)

LEMMA Clients2 ==
  ASSUME TypeInv, NEW c \in Clients, NEW r, cl' = [cl EXCEPT ![c] = r]
  PROVE  cl'[c] = r /\ \A d \in Clients : d # c => cl'[d] = cl[d]
BY DEF TypeInv

LEMMA InitTypes == Init => TypeInv
<1> SUFFICES ASSUME Init PROVE TypeInv
  OBVIOUS
<1>1. DbOK(db)
  <2> DEFINE f == [o \in Oids |-> NoRow]
             t == <<>>
  <2>1. db = Db(f, {}, t, t, t)
    BY DEF Init, EmptyDb, Db
  <2>2. f \in [Oids -> ObjectRow \cup {NoRow}]
    OBVIOUS
  <2>3. \A K, V : IsTable(t, K, V)
    <3>1. ASSUME NEW K, NEW V PROVE t \in [{} -> V] /\ {} \in SUBSET K
      OBVIOUS
    <3> QED
      BY <3>1 DEF IsTable
  <2> HIDE DEF f, t
  <2> QED
    BY <2>1, <2>2, <2>3, DbOKFields
<1>2. /\ lock \in [Oids -> Clients \cup {Free, Dead}] /\ cl \in [Clients -> Local]
      /\ acked \subseteq CopyKeys /\ erased \subseteq CopyKeys /\ leaked \subseteq Clients \X Oids
  BY IdleLocal DEF Init
<1>3. nuuid \in 0..MaxUuid /\ nops \in 0..MaxOps /\ crashes \in 0..MaxCrash
  BY TablesAssumption, StoreAssumption DEF Init
<1>4. cl \in [Clients -> LocalType]
  BY <1>2 DEF Local
<1> QED
  BY <1>1, <1>2, <1>3, <1>4 DEF TypeInv, TypeOK, DbOK

LEMMA CallTypes ==
  ASSUME TypeInv, NEW c \in Clients, NEW r \in Local, Entered(c, r)
  PROVE  TypeInv'
<1>1. /\ DbOK(db') /\ lock' \in [Oids -> Clients \cup {Free, Dead}]
      /\ nuuid' \in 0..MaxUuid /\ crashes' \in 0..MaxCrash
      /\ acked' \subseteq CopyKeys /\ erased' \subseteq CopyKeys /\ leaked' \subseteq Clients \X Oids
  BY DEF Entered, TypeInv, TypeOK, DbOK
<1>2. nops' \in 0..MaxOps
  BY StoreAssumption DEF Entered, TypeInv, TypeOK
<1> QED
  BY <1>1, <1>2, TypeStep DEF Entered

LEMMA CrashTypes ==
  ASSUME TypeInv, NEW c \in Clients, Crash(c)
  PROVE  TypeInv' /\ cl[c].pc # "idle" /\ cl' = [cl EXCEPT ![c] = Idle]
<1>1. /\ DbOK(db') /\ nuuid' \in 0..MaxUuid /\ nops' \in 0..MaxOps
      /\ acked' \subseteq CopyKeys /\ erased' \subseteq CopyKeys
  BY DEF Crash, NoDb, TypeInv, TypeOK, DbOK
<1>2. lock' \in [Oids -> Clients \cup {Free, Dead}] /\ leaked' \subseteq Clients \X Oids
  BY DEF Crash, TypeInv, TypeOK
<1>3. crashes' \in 0..MaxCrash
  BY StoreAssumption DEF Crash, TypeInv, TypeOK
<1>4. cl' = [cl EXCEPT ![c] = Idle] /\ cl[c].pc # "idle"
  BY DEF Crash, End, At
<1> QED
  BY <1>1, <1>2, <1>3, <1>4, IdleLocal, TypeStep

LEMMA CleanTypes ==
  ASSUME TypeInv, CleanLocks
  PROVE  TypeInv' /\ UNCHANGED <<db, cl, acked, erased, nops>>
<1>1. PICK o \in Oids :
        /\ lock[o] = Dead \/ \E c \in Clients : <<c, o>> \in leaked
        /\ lock' = [lock EXCEPT ![o] = Free]
        /\ leaked' = {l \in leaked : l[2] # o}
  BY DEF CleanLocks
<1>2. UNCHANGED <<db, cl, acked, erased, nuuid, nops, crashes>>
  BY DEF CleanLocks, NoDb, NoCount
<1>3. lock' \in [Oids -> Clients \cup {Free, Dead}] /\ leaked' \subseteq Clients \X Oids
  BY <1>1 DEF TypeInv, TypeOK
<1> QED
  BY <1>2, <1>3 DEF TypeInv, TypeOK

LEMMA NextTypes == TypeInv /\ [Next]_vars => TypeInv'
<1> SUFFICES ASSUME TypeInv, [Next]_vars PROVE TypeInv'
  OBVIOUS
<1>1. CASE CleanLocks
  BY <1>1, CleanTypes
<1>2. ASSUME NEW c \in Clients, CallStep(c) PROVE TypeInv'
  BY <1>2, CallForm, CallTypes
<1>3. ASSUME NEW c \in Clients, RunStep(c) PROVE TypeInv'
  BY <1>3, RunStepped DEF Stepped
<1>4. ASSUME NEW c \in Clients, Crash(c) PROVE TypeInv'
  BY <1>4, CrashTypes
<1>5. CASE UNCHANGED vars
  BY <1>5 DEF vars, TypeInv, TypeOK
<1> QED
  BY <1>1, <1>2, <1>3, <1>4, <1>5 DEF Next

\* The tables, the locks and the local variables of the clients always have the
\* types of the schema and of store.c, for any number of clients and operations.
THEOREM StoreTypes == Spec => []TypeOK
<1>1. TypeInv => TypeOK
  BY DEF TypeInv
<1> QED
  BY <1>1, InitTypes, NextTypes, PTL DEF Spec

-----------------------------------------------------------------------------
(* Locks.                                                                  *)

\* A lock that a failed rename left behind is in no section any more.
LockInv ==
  /\ \A o \in Oids, c \in Clients : lock[o] = c <=> Within(cl[c], o) \/ <<c, o>> \in leaked
  /\ \A o \in Oids, c \in Clients : <<c, o>> \in leaked => ~Within(cl[c], o)

LEMMA SectionIsWithin == \A c, o : InSection(c, o) <=> Within(cl[c], o)
BY DEF InSection, Within, OwnPcs, NewPcs

LEMMA LockView_Step ==
  ASSUME TypeInv, LockInv, NEW c \in Clients, NEW r, cl' = [cl EXCEPT ![c] = r], LockView(c, r)
  PROVE  LockInv'
<1>1. cl'[c] = r /\ \A d \in Clients : d # c => cl'[d] = cl[d]
  BY Clients2
<1>2. lock \in [Oids -> Clients \cup {Free, Dead}] /\ Free \notin Clients
      /\ leaked \subseteq Clients \X Oids
  BY StoreAssumption DEF TypeInv, TypeOK
<1>3. CASE LockKept(c, r)
  BY <1>1, <1>3 DEF LockKept, LockInv
<1>4. CASE LockLeaked(c, r)
  <2>1. \A q \in Oids, d \in Clients :
          <<d, q>> \in leaked' <=> <<d, q>> \in leaked \/ (d = c /\ Within(cl[c], q))
    BY <1>4 DEF LockLeaked
  <2> QED
    BY <1>1, <1>4, <2>1 DEF LockLeaked, LockInv
<1>5. ASSUME NEW o \in Oids, LockTaken(c, r, o) PROVE LockInv'
  <2>1. lock'[o] = c /\ \A q \in Oids : q # o => lock'[q] = lock[q]
    BY <1>2, <1>5 DEF LockTaken
  <2>2. \A d \in Clients : ~Within(cl[d], o) /\ <<d, o>> \notin leaked
    BY <1>2, <1>5 DEF LockTaken, LockInv
  <2> QED
    BY <1>1, <1>5, <2>1, <2>2 DEF LockTaken, LockInv
<1>6. ASSUME NEW o \in Oids, LockDropped(c, r, o) PROVE LockInv'
  <2>1. lock[o] = c /\ <<c, o>> \notin leaked
    BY <1>6 DEF LockDropped, LockInv
  <2>2. lock'[o] = Free /\ \A q \in Oids : q # o => lock'[q] = lock[q]
    BY <1>2, <1>6, <2>1 DEF LockDropped
  <2>3. leaked' = leaked
    BY <1>6, <2>1 DEF LockDropped
  <2>4. \A d \in Clients : d # c => ~Within(cl[d], o) /\ <<d, o>> \notin leaked
    BY <2>1 DEF LockInv
  <2> QED
    BY <1>1, <1>2, <1>6, <2>1, <2>2, <2>3, <2>4 DEF LockDropped, LockInv
<1> QED
  BY <1>3, <1>4, <1>5, <1>6 DEF LockView

LEMMA LockNext == TypeInv /\ LockInv /\ [Next]_vars => LockInv'
<1> SUFFICES ASSUME TypeInv, LockInv, [Next]_vars PROVE LockInv'
  OBVIOUS
<1>1. lock \in [Oids -> Clients \cup {Free, Dead}] /\ leaked \subseteq Clients \X Oids
      /\ Free \notin Clients /\ Dead \notin Clients
  BY StoreAssumption DEF TypeInv, TypeOK
<1>2. CASE CleanLocks
  <2>1. PICK o \in Oids :
          /\ lock[o] = Dead \/ \E c \in Clients : <<c, o>> \in leaked
          /\ lock' = [lock EXCEPT ![o] = Free]
          /\ leaked' = {l \in leaked : l[2] # o}
    BY <1>2 DEF CleanLocks
  <2>2. lock'[o] = Free /\ \A q \in Oids : q # o => lock'[q] = lock[q]
    BY <1>1, <2>1
  <2>3. \A q \in Oids, d \in Clients : <<d, q>> \in leaked' <=> <<d, q>> \in leaked /\ q # o
    BY <2>1
  <2>4. \A d \in Clients : ~Within(cl[d], o)
    BY <1>1, <2>1 DEF LockInv
  <2>5. cl' = cl
    BY <1>2 DEF CleanLocks
  <2> QED
    BY <1>1, <2>2, <2>3, <2>4, <2>5 DEF LockInv
<1>3. ASSUME NEW c \in Clients, CallStep(c) PROVE LockInv'
  <2>1. PICK r \in Local : Entered(c, r) /\ Called(r)
    BY <1>3, CallForm
  <2>2. LockKept(c, r)
    <3>1. r.pc \in StartPcs /\ cl[c].pc = "idle" /\ UNCHANGED <<lock, leaked>>
      BY <2>1 DEF Entered, Called
    <3> QED
      BY <3>1 DEF LockKept, Within, StartPcs, OwnPcs, NewPcs
  <2> QED
    BY <2>1, <2>2, LockView_Step DEF Entered, LockView
<1>4. ASSUME NEW c \in Clients, RunStep(c) PROVE LockInv'
  BY <1>4, RunStepped, LockView_Step DEF Stepped, Views, Continues
<1>5. ASSUME NEW c \in Clients, Crash(c) PROVE LockInv'
  <2>1. /\ cl'[c] = Idle /\ \A d \in Clients : d # c => cl'[d] = cl[d]
    BY <1>5, CrashTypes, Clients2
  <2>2. /\ \A o \in Oids : lock'[o] = IF lock[o] = c THEN Dead ELSE lock[o]
        /\ leaked' = {l \in leaked : l[1] # c}
    BY <1>5 DEF Crash
  <2>3. \A o \in Oids, d \in Clients : <<d, o>> \in leaked' <=> <<d, o>> \in leaked /\ d # c
    BY <2>2
  <2>4. \A o \in Oids : ~Within(Idle, o)
    BY DEF Within, Idle, OwnPcs, NewPcs
  <2> QED
    BY <1>1, <2>1, <2>2, <2>3, <2>4 DEF LockInv
<1>6. CASE UNCHANGED vars
  BY <1>6 DEF vars, LockInv, Within
<1> QED
  BY <1>2, <1>3, <1>4, <1>5, <1>6 DEF Next

\* A client owns the lock of an oid exactly while it is between dss_lock and
\* dss_unlock on it in store.c, or after one of its renames failed: whatever the
\* other clients do, no error path keeps a lock and no client loses one.
THEOREM LocksMatchSections == Spec => []LockIffSection
<1>1. Init => LockInv
  BY StoreAssumption DEF Init, LockInv, Within, Idle, OwnPcs, NewPcs
<1>2. LockInv => LockIffSection
  BY SectionIsWithin DEF LockInv, LockIffSection
<1> QED
  BY <1>1, <1>2, InitTypes, NextTypes, LockNext, PTL DEF Spec

-----------------------------------------------------------------------------
(* Complete copies.                                                        *)

\* The copy of client c is declared complete later, by its put or its rebuild.
Completes(c) == cl[c].pc = "copy_complete" \/ (cl[c].pc # "idle" /\ cl[c].op = "rebuild")

HasFile(k) == HasLayout(db, k) \/ k \in erased

CompInv ==
  /\ \A k \in DOMAIN db.copy : db.copy[k] = "complete" => HasFile(k)
  /\ \A c \in Clients : Completes(c) => HasFile(KeyOf(cl[c]))

LEMMA CompNext == TypeInv /\ CompInv /\ [Next]_vars => CompInv'
<1> SUFFICES ASSUME TypeInv, CompInv, [Next]_vars PROVE CompInv'
  OBVIOUS
<1>1. CASE CleanLocks
  BY <1>1, CleanTypes DEF CompInv, Completes, HasFile
<1>2. ASSUME NEW c \in Clients, CallStep(c) PROVE CompInv'
  <2>1. PICK r \in Local : Entered(c, r) /\ Called(r)
    BY <1>2, CallForm
  <2>2. cl'[c] = r /\ \A d \in Clients : d # c => cl'[d] = cl[d]
    BY <2>1, Clients2 DEF Entered
  <2>3. r.pc # "copy_complete" /\ (r.op = "rebuild" => HasFile(KeyOf(r)))
    BY <2>1 DEF Called, StartPcs, HasFile
  <2>4. db' = db /\ erased' = erased
    BY <2>1 DEF Entered
  <2> QED
    BY <2>2, <2>3, <2>4 DEF CompInv, Completes, HasFile
<1>3. ASSUME NEW c \in Clients, RunStep(c) PROVE CompInv'
  <2>1. PICK r \in Local : Continues(c, r) /\ CompView(c, r)
    BY <1>3, RunStepped DEF Stepped, Views
  <2>2. cl'[c] = r /\ \A d \in Clients : d # c => cl'[d] = cl[d]
    BY <2>1, Clients2 DEF Continues
  <2>3. \A k : HasFile(k) => HasFile(k)'
    BY <2>1 DEF CompView, HasFile, HasLayout
  <2>4. ASSUME NEW k \in DOMAIN db'.copy, db'.copy[k] = "complete" PROVE HasFile(k)'
    <3>1. cl[c].pc # "idle"
      BY <2>1 DEF Continues
    <3> QED
      BY <2>1, <2>3, <2>4, <3>1 DEF CompView, CompInv, Completes
  <2>5. ASSUME NEW d \in Clients, Completes(d)' PROVE HasFile(KeyOf(cl[d]))'
    <3>1. CASE d # c
      <4>1. Completes(d) /\ KeyOf(cl[d])' = KeyOf(cl[d])
        BY <2>2, <2>5, <3>1 DEF Completes, KeyOf
      <4> QED
        BY <2>3, <4>1 DEF CompInv
    <3>2. CASE d = c /\ r.pc = "copy_complete"
      BY <2>1, <2>2, <3>2 DEF CompView, HasFile, HasLayout, KeyOf
    <3>3. CASE d = c /\ r.pc # "idle" /\ r.op = "rebuild"
      <4>1. Same(cl[c], r) /\ (SameKey(cl[c], r) \/ cl[c].op \in PutOps) /\ cl[c].pc # "idle"
        BY <2>1, <3>3 DEF Continues, Idle
      <4>2. cl[c].op = "rebuild" /\ KeyOf(r) = KeyOf(cl[c])
        BY <3>3, <4>1 DEF Same, SameKey, PutOps, KeyOf
      <4>3. HasFile(KeyOf(cl[c]))
        BY <4>1, <4>2 DEF CompInv, Completes
      <4> QED
        BY <2>2, <2>3, <3>3, <4>2, <4>3 DEF KeyOf
    <3> QED
      BY <2>2, <2>5, <3>1, <3>2, <3>3 DEF Completes
  <2> QED
    BY <2>4, <2>5 DEF CompInv
<1>4. ASSUME NEW c \in Clients, Crash(c) PROVE CompInv'
  <2>1. /\ cl'[c] = Idle /\ \A d \in Clients : d # c => cl'[d] = cl[d]
    BY <1>4, CrashTypes, Clients2
  <2>2. Idle.pc = "idle" /\ db' = db /\ erased' = erased
    BY <1>4 DEF Idle, Crash, NoDb
  <2> QED
    BY <2>1, <2>2 DEF CompInv, Completes, HasFile
<1>5. CASE UNCHANGED vars
  BY <1>5 DEF vars, CompInv, Completes, HasFile
<1> QED
  BY <1>1, <1>2, <1>3, <1>4, <1>5 DEF Next

\* Whatever clients run between the transactions of store_end_encoder_xfer and
\* store_end_rebuilder_xfer, and whichever of them die, a copy is complete only
\* if it has a layout or somebody began to erase it.
THEOREM CompleteCopies == Spec => []CompleteHasLayout
<1>1. Init => CompInv
  BY DEF Init, EmptyDb, CompInv, Completes, Idle
<1>2. TypeInv /\ CompInv => CompleteHasLayout
  BY DEF TypeInv, CompInv, CompleteHasLayout, HasFile
<1> QED
  BY <1>1, <1>2, InitTypes, NextTypes, CompNext, PTL DEF Spec

-----------------------------------------------------------------------------
(* Acknowledged copies.                                                    *)

Kept(u, v) == ObjectThere(db, u, v) \/ Gone(erased, u, v)

AckInv ==
  /\ UniqueUuids(db)
  /\ \A k \in acked : Kept(k[1], k[2])
  /\ \A c \in Clients : cl[c].pc \in KeptPcs => Kept(cl[c].u, cl[c].v)
  /\ \A c \in Clients : cl[c].pc \in {"erase_move", "erase_object"} => KeyOf(cl[c]) \in erased

LEMMA AckNext == TypeInv /\ AckInv /\ [Next]_vars => AckInv'
<1> SUFFICES ASSUME TypeInv, AckInv, [Next]_vars PROVE AckInv'
  OBVIOUS
<1>1. CASE CleanLocks
  BY <1>1, CleanTypes DEF AckInv, Kept
<1>2. ASSUME NEW c \in Clients, CallStep(c) PROVE AckInv'
  <2>1. PICK r \in Local : Entered(c, r) /\ Called(r)
    BY <1>2, CallForm
  <2>2. cl'[c] = r /\ \A d \in Clients : d # c => cl'[d] = cl[d]
    BY <2>1, Clients2 DEF Entered
  <2>3. r.pc \notin {"erase_move", "erase_object"} /\ (r.pc \in KeptPcs => Kept(r.u, r.v))
    BY <2>1 DEF Called, StartPcs, KeptPcs, Kept
  <2>4. db' = db /\ erased' = erased /\ acked' = acked
    BY <2>1 DEF Entered
  <2> QED
    BY <2>2, <2>3, <2>4 DEF AckInv, Kept
<1>3. ASSUME NEW c \in Clients, RunStep(c) PROVE AckInv'
  <2>1. PICK r \in Local : Continues(c, r) /\ AckView(c, r)
    BY <1>3, RunStepped DEF Stepped, Views
  <2>2. cl'[c] = r /\ \A d \in Clients : d # c => cl'[d] = cl[d]
    BY <2>1, Clients2 DEF Continues
  <2>3. erased \subseteq erased' /\ UniqueUuids(db')
    BY <2>1 DEF AckView, AckInv
  <2>4. ASSUME NEW u \in Uuids, NEW v \in Versions, Kept(u, v) PROVE Kept(u, v)'
    <3>1. CASE Gone(erased, u, v)
      BY <2>3, <3>1 DEF Gone, Kept
    <3>2. CASE ObjectThere(db, u, v)
      <4>1. \/ ObjectThere(db', u, v) \/ Gone(erased', u, v)
            \/ cl[c].pc = "erase_object" /\ u = cl[c].u /\ v = cl[c].v
        BY <2>1, <3>2 DEF AckView, AckInv
      <4>2. CASE cl[c].pc = "erase_object" /\ u = cl[c].u /\ v = cl[c].v
        <5>1. KeyOf(cl[c]) \in erased'
          BY <2>3, <4>2 DEF AckInv
        <5>2. KeyOf(cl[c])[1] = u /\ KeyOf(cl[c])[2] = v
          BY <4>2 DEF KeyOf
        <5> QED
          BY <5>1, <5>2 DEF Kept, Gone
      <4> QED
        BY <4>1, <4>2 DEF Kept
    <3> QED
      BY <2>4, <3>1, <3>2 DEF Kept
  <2>5. ASSUME NEW d \in Clients, cl[d].pc \in KeptPcs
        PROVE  ObjectThere(db', cl[d].u, cl[d].v) \/ Gone(erased', cl[d].u, cl[d].v)
    <3>1. cl[d].u \in Uuids /\ cl[d].v \in Versions
      BY <2>5, OwnLocal DEF LocalOK, KeptPcs, KeyPcs
    <3>2. Kept(cl[d].u, cl[d].v)
      BY <2>5 DEF AckInv
    <3> DEFINE u == cl[d].u
               v == cl[d].v
    <3> HIDE DEF u, v
    <3>3. u \in Uuids /\ v \in Versions /\ Kept(u, v)
      BY <3>1, <3>2 DEF u, v
    <3>4. ObjectThere(db', u, v) \/ Gone(erased', u, v)
      BY <2>4, <3>3 DEF Kept
    <3> QED
      BY <3>4 DEF u, v
  <2>6. ASSUME NEW k \in acked' PROVE Kept(k[1], k[2])'
    <3>1. CASE k \in acked
      <4>1. k[1] \in Uuids /\ k[2] \in Versions /\ Kept(k[1], k[2])
        BY <3>1, KeyParts DEF TypeInv, TypeOK, AckInv
      <4> QED
        BY <2>4, <4>1
    <3>2. CASE k = KeyOf(cl[c]) /\ cl[c].pc = "copy_complete"
      <4>1. ObjectThere(db', cl[c].u, cl[c].v) \/ Gone(erased', cl[c].u, cl[c].v)
        BY <2>5, <3>2 DEF KeptPcs
      <4>2. k[1] = cl[c].u /\ k[2] = cl[c].v
        BY <3>2 DEF KeyOf
      <4> QED
        BY <4>1, <4>2 DEF Kept
    <3> QED
      BY <2>1, <2>6, <3>1, <3>2 DEF AckView
  <2>7. ASSUME NEW d \in Clients, cl'[d].pc \in KeptPcs PROVE Kept(cl[d].u, cl[d].v)'
    BY <2>1, <2>2, <2>5, <2>7 DEF AckView, SameKey, Kept
  <2>8. ASSUME NEW d \in Clients, cl'[d].pc \in {"erase_move", "erase_object"}
        PROVE  KeyOf(cl[d])' \in erased'
    BY <2>1, <2>2, <2>3, <2>8 DEF AckView, AckInv, SameKey, KeyOf
  <2> QED
    BY <2>3, <2>6, <2>7, <2>8 DEF AckInv
<1>4. ASSUME NEW c \in Clients, Crash(c) PROVE AckInv'
  <2>1. /\ cl'[c] = Idle /\ \A d \in Clients : d # c => cl'[d] = cl[d]
    BY <1>4, CrashTypes, Clients2
  <2>2. Idle.pc = "idle" /\ db' = db /\ erased' = erased /\ acked' = acked
    BY <1>4 DEF Idle, Crash, NoDb
  <2>3. "idle" \notin KeptPcs
    BY DEF KeptPcs
  <2> QED
    BY <2>1, <2>2, <2>3 DEF AckInv, Kept
<1>5. CASE UNCHANGED vars
  BY <1>5 DEF vars, AckInv, Kept
<1> QED
  BY <1>1, <1>2, <1>3, <1>4, <1>5 DEF Next

\* The object of a copy that a put or a copy acknowledged stays in one of the
\* two tables, under any interleaving of overwrites, deletions, undeletes,
\* renames and crashes, until somebody begins to erase this version.
THEOREM AckedObjects == Spec => []AckedHasObject
<1>1. Init => AckInv
  <2> SUFFICES ASSUME Init PROVE AckInv
    OBVIOUS
  <2>1. UniqueUuids(db)
    BY DEF Init, EmptyDb, UniqueUuids, Alive
  <2> QED
    BY <2>1 DEF Init, AckInv, Idle, KeptPcs
<1>2. AckInv => AckedHasObject
  BY DEF AckInv, AckedHasObject, Kept, Gone, ObjectThere
<1> QED
  BY <1>1, <1>2, InitTypes, NextTypes, AckNext, PTL DEF Spec

-----------------------------------------------------------------------------
(* Extents that layouts name.                                              *)

Busy(c) == cl[c].pc # "idle"

Named(d, x) == \E k \in DOMAIN d.layout : d.layout[k] = x

\* Every operation has its own extent number.
Numbers ==
  /\ \A k \in DOMAIN db.layout : db.layout[k] <= nops
  /\ \A c \in Clients : Busy(c) => cl[c].x <= nops /\ cl[c].old <= nops
  /\ \A c, d \in Clients : Busy(c) /\ Busy(d) /\ cl[c].x = cl[d].x => c = d

\* Two layouts never share an extent.
OneLayout == \A j, k \in DOMAIN db.layout : db.layout[j] = db.layout[k] => j = k

\* The extent of an operation is named by nothing before it is saved.
Pending ==
  \A c \in Clients : cl[c].pc \in PendingPcs =>
    ~Named(db, cl[c].x) /\ \A d \in Clients : Busy(d) => cl[d].old # cl[c].x

\* It is written when a layout is about to name it.
Written ==
  \A c \in Clients : cl[c].pc \in {"layout_insert", "migrate"} =>
    cl[c].x \in DOMAIN db.extent /\ db.extent[cl[c].x] = "sync"

\* The extent that an operation replaces or erases is named by its own copy,
\* or by none.
OwnOld ==
  \A c \in Clients : Busy(c) /\ cl[c].old # 0 =>
    \A k \in DOMAIN db.layout : db.layout[k] = cl[c].old => k = KeyOf(cl[c])

\* It is named by none when it is deleted.
Unlinked == \A c \in Clients : cl[c].pc = "extent_delete" => ~Named(db, cl[c].old)

RefInv == /\ ReferencedSync /\ Numbers /\ OneLayout /\ Pending /\ Written
          /\ OwnOld /\ Unlinked

LEMMA Values ==
  ASSUME TypeInv
  PROVE  /\ \A k \in DOMAIN db.layout : db.layout[k] \in Nat \ {0}
         /\ \A c \in Clients : Busy(c) => cl[c].x \in Nat \ {0}
         /\ \A c \in Clients : cl[c].x \in Nat /\ cl[c].old \in Nat
         /\ nops \in Nat
<1>1. IsTable(db.layout, CopyKeys, Extents) /\ cl \in [Clients -> Local] /\ nops \in 0..MaxOps
  BY DbTables DEF TypeInv, TypeOK, DbOK
<1>2. Extents \subseteq Nat \ {0} /\ 0..MaxExtent \subseteq Nat /\ 0..MaxOps \subseteq Nat
  BY TablesAssumption, StoreAssumption DEF Extents
<1>3. \A k \in DOMAIN db.layout : db.layout[k] \in Extents
  BY <1>1, TableApply
<1>4. \A c \in Clients : cl[c].x \in 0..MaxExtent /\ cl[c].old \in 0..MaxExtent
  BY <1>1 DEF Local, LocalType
<1>5. \A c \in Clients : Busy(c) => cl[c].x \in Extents
  BY <1>1 DEF Local, LocalOK, Busy
<1> QED
  BY <1>1, <1>2, <1>3, <1>4, <1>5

\* What a step of client c may do to the layouts: nothing new is named, or its
\* own extent is, by one layout, at the end of its transfer.
LayoutsFrom(c, r) ==
  \/ \A k \in DOMAIN db'.layout : k \in DOMAIN db.layout /\ db'.layout[k] = db.layout[k]
  \/ /\ cl[c].pc \in {"layout_insert", "migrate"} /\ r.pc \in {"copy_complete", "copy_status"}
     /\ \A k \in DOMAIN db'.layout :
          \/ db'.layout[k] = cl[c].x
          \/ k \in DOMAIN db.layout /\ db'.layout[k] = db.layout[k]
     /\ \A j, k \in DOMAIN db'.layout :
          db'.layout[j] = cl[c].x /\ db'.layout[k] = cl[c].x => j = k

LEMMA LayoutEffect ==
  ASSUME TypeInv, RefInv, NEW c \in Clients, NEW r \in Local, Continues(c, r), RefView(c, r)
  PROVE  LayoutsFrom(c, r)
<1>1. CASE db'.layout = db.layout
  BY <1>1 DEF LayoutsFrom
<1>2. CASE /\ cl[c].pc = "layout_insert" /\ r.pc = "copy_complete"
           /\ KeyOf(cl[c]) \notin DOMAIN db.layout
           /\ db'.layout = Put(db.layout, KeyOf(cl[c]), cl[c].x)
  <2> DEFINE k == KeyOf(cl[c])
  <2>1. ~Named(db, cl[c].x)
    BY <1>2 DEF RefInv, Pending, PendingPcs, Pcs
  <2>2. /\ DOMAIN db'.layout = DOMAIN db.layout \cup {k} /\ db'.layout[k] = cl[c].x
        /\ \A j \in DOMAIN db.layout : j # k => db'.layout[j] = db.layout[j]
    BY <1>2 DEF Put
  <2> HIDE DEF k
  <2> QED
    BY <1>2, <2>1, <2>2 DEF LayoutsFrom, Named
<1>3. CASE /\ cl[c].pc = "migrate" /\ r.pc = "copy_status"
           /\ db'.layout = MovedLayout(db.layout, cl[c].old, cl[c].x)
  <2>1. ~Named(db, cl[c].x) /\ OneLayout
    BY <1>3 DEF RefInv, Pending, PendingPcs, Pcs
  <2>2. /\ DOMAIN db'.layout = DOMAIN db.layout
        /\ \A k \in DOMAIN db.layout :
             db'.layout[k] = IF db.layout[k] = cl[c].old THEN cl[c].x ELSE db.layout[k]
    BY <1>3 DEF MovedLayout
  <2> QED
    BY <1>3, <2>1, <2>2 DEF LayoutsFrom, Named, OneLayout
<1>4. CASE db'.layout = Unlink(db.layout, KeyOf(cl[c]), cl[c].old)
  BY <1>4 DEF LayoutsFrom, Unlink, Drop
<1> QED
  BY <1>1, <1>2, <1>3, <1>4 DEF RefView

\* The extent of an erasure is named by nothing once its layout is deleted.
LEMMA EraseEffect ==
  ASSUME TypeInv, RefInv, NEW c \in Clients, NEW r \in Local, Continues(c, r), RefView(c, r),
         r.pc = "extent_delete"
  PROVE  ~Named(db', cl[c].old)
<1>1. /\ db'.layout = Unlink(db.layout, KeyOf(cl[c]), cl[c].old)
  BY DEF RefView
<1>2. \A k \in DOMAIN db'.layout :
        /\ k \in DOMAIN db.layout /\ db'.layout[k] = db.layout[k]
        /\ k = KeyOf(cl[c]) => db.layout[k] # cl[c].old
  BY <1>1 DEF Unlink, Drop
<1>3. CASE cl[c].old = 0
  BY <1>2, <1>3, Values DEF Named
<1>4. CASE cl[c].old # 0
  <2>1. \A k \in DOMAIN db.layout : db.layout[k] = cl[c].old => k = KeyOf(cl[c])
    BY <1>4 DEF RefInv, OwnOld, Busy, Continues
  <2> QED
    BY <1>2, <2>1 DEF Named
<1> QED
  BY <1>3, <1>4

\* An extent stays written, except the one of a transfer that failed, and the
\* one that a rebuild or an erasure gives up.
LEMMA ExtentEffect ==
  ASSUME TypeInv, RefInv, NEW c \in Clients, NEW r \in Local, Continues(c, r), RefView(c, r),
         NEW x \in DOMAIN db.extent, db.extent[x] = "sync"
  PROVE  \/ x \in DOMAIN db'.extent /\ db'.extent[x] = "sync"
         \/ x = cl[c].x /\ cl[c].pc = "extent_orphan" /\ db'.layout = db.layout
         \/ x = cl[c].old /\ cl[c].pc \in {"migrate", "extent_delete"} /\ ~Named(db', x)
<1>1. CASE db'.extent = db.extent
  BY <1>1
<1>2. CASE db'.extent = Put(db.extent, cl[c].x, "sync")
  BY <1>2 DEF Put
<1>3. CASE /\ cl[c].pc = "extent_orphan" /\ db'.layout = db.layout
           /\ db'.extent = SetState(db.extent, cl[c].x, "orphan")
  BY <1>3 DEF SetState
<1>4. CASE /\ cl[c].pc = "migrate" /\ db'.layout = MovedLayout(db.layout, cl[c].old, cl[c].x)
           /\ db'.extent = SetState(SetState(db.extent, cl[c].old, "orphan"), cl[c].x, "sync")
  <2>1. cl[c].x # cl[c].old
    BY <1>4 DEF RefInv, Pending, PendingPcs, Pcs, Busy
  <2>2. ~Named(db', cl[c].old)
    BY <1>4, <2>1 DEF MovedLayout, Named
  <2>3. x # cl[c].old => x \in DOMAIN db'.extent /\ db'.extent[x] = "sync"
    BY <1>4 DEF SetState
  <2> QED
    BY <1>4, <2>2, <2>3
<1>5. CASE /\ cl[c].pc = "extent_delete" /\ db'.layout = db.layout
           /\ \/ db'.extent = SetState(db.extent, cl[c].old, "orphan")
              \/ db'.extent = Drop(db.extent, {cl[c].old})
  <2>1. ~Named(db', cl[c].old)
    BY <1>5 DEF RefInv, Unlinked, Named
  <2>2. x # cl[c].old => x \in DOMAIN db'.extent /\ db'.extent[x] = "sync"
    BY <1>5 DEF SetState, Drop
  <2> QED
    BY <1>5, <2>1, <2>2
<1> QED
  BY <1>1, <1>2, <1>3, <1>4, <1>5 DEF RefView

LEMMA RefRun ==
  ASSUME TypeInv, RefInv, NEW c \in Clients, NEW r \in Local, Continues(c, r), RefView(c, r),
         nops' = nops
  PROVE  RefInv'
<1>1. cl'[c] = r /\ \A d \in Clients : d # c => cl'[d] = cl[d]
  BY Clients2 DEF Continues
<1>2. Busy(c) /\ (r.pc # "idle" => Same(cl[c], r) /\ (SameKey(cl[c], r) \/ cl[c].op \in PutOps))
  BY DEF Busy, Continues, Idle
<1>3. cl[c].old # 0 => cl[c].op \notin PutOps
  BY DEF TypeInv, Local, LocalOK
<1>4. ASSUME NEW d \in Clients, Busy(d)'
      PROVE  /\ Busy(d) /\ cl'[d].x = cl[d].x /\ cl'[d].old = cl[d].old
             /\ cl[d].old # 0 => KeyOf(cl'[d]) = KeyOf(cl[d])
  BY <1>1, <1>2, <1>3, <1>4 DEF Busy, Same, SameKey, KeyOf
<1>5. \A d \in Clients : cl'[d].pc \in PendingPcs =>
        cl[d].pc \in PendingPcs /\ Busy(d)'
  BY <1>1 DEF RefView, PendingPcs, Busy
<1>6. LayoutsFrom(c, r)
  BY LayoutEffect
<1>7. ASSUME NEW x, Named(db', x)
      PROVE  \/ Named(db, x)
             \/ /\ x = cl[c].x /\ cl[c].pc \in {"layout_insert", "migrate"}
                /\ r.pc \in {"copy_complete", "copy_status"}
  BY <1>6, <1>7 DEF Named, LayoutsFrom
<1>8. cl[c].pc \in {"layout_insert", "migrate", "extent_orphan"} =>
        /\ ~Named(db, cl[c].x) /\ cl[c].old # cl[c].x
        /\ \A d \in Clients : Busy(d) => cl[d].old # cl[c].x
  BY <1>2 DEF RefInv, Pending, PendingPcs, Pcs
<1>9. ReferencedSync'
  <2> SUFFICES ASSUME NEW k \in DOMAIN db'.layout
               PROVE  db'.layout[k] \in DOMAIN db'.extent /\ db'.extent[db'.layout[k]] = "sync"
    BY DEF ReferencedSync
  <2> DEFINE x == db'.layout[k]
  <2>1. Named(db', x)
    BY DEF Named
  <2> HIDE DEF x
  <2>2. CASE Named(db, x)
    <3>1. x \in DOMAIN db.extent /\ db.extent[x] = "sync"
      BY <2>2 DEF RefInv, ReferencedSync, Named
    <3>2. ~(x = cl[c].x /\ cl[c].pc = "extent_orphan")
      BY <1>8, <2>2
    <3> QED
      BY <2>1, <3>1, <3>2, ExtentEffect DEF x
  <2>3. CASE x = cl[c].x /\ cl[c].pc \in {"layout_insert", "migrate"}
    <3>1. x \in DOMAIN db.extent /\ db.extent[x] = "sync"
      BY <2>3 DEF RefInv, Written
    <3>2. x # cl[c].old /\ cl[c].pc # "extent_orphan"
      BY <1>8, <2>3
    <3> QED
      BY <3>1, <3>2, ExtentEffect DEF x
  <2> QED
    BY <1>7, <2>1, <2>2, <2>3
<1>10. Numbers'
  <2>1. \A k \in DOMAIN db'.layout : db'.layout[k] <= nops
    BY <1>2, <1>6 DEF LayoutsFrom, RefInv, Numbers
  <2> QED
    BY <1>4, <2>1 DEF RefInv, Numbers
<1>11. OneLayout'
  <2> SUFFICES ASSUME NEW j \in DOMAIN db'.layout, NEW k \in DOMAIN db'.layout,
                      db'.layout[j] = db'.layout[k]
               PROVE  j = k
    BY DEF OneLayout
  <2> QED
    BY <1>6, <1>8 DEF LayoutsFrom, RefInv, OneLayout, Named
<1>12. Pending'
  <2> SUFFICES ASSUME NEW d \in Clients, cl'[d].pc \in PendingPcs
               PROVE  /\ ~Named(db', cl'[d].x)
                      /\ \A e \in Clients : Busy(e)' => cl'[e].old # cl'[d].x
    BY DEF Pending
  <2>1. cl[d].pc \in PendingPcs /\ Busy(d) /\ cl'[d].x = cl[d].x
    BY <1>4, <1>5
  <2>2. ~Named(db, cl[d].x) /\ \A e \in Clients : Busy(e) => cl[e].old # cl[d].x
    BY <2>1 DEF RefInv, Pending
  <2>3. cl[d].x = cl[c].x => d = c
    BY <1>2, <2>1 DEF RefInv, Numbers
  <2>4. d = c => r.pc \notin {"copy_complete", "copy_status"}
    BY <1>1 DEF PendingPcs
  <2> QED
    BY <1>4, <1>7, <2>1, <2>2, <2>3, <2>4
<1>13. Written'
  <2> SUFFICES ASSUME NEW d \in Clients, cl'[d].pc \in {"layout_insert", "migrate"}
               PROVE  cl'[d].x \in DOMAIN db'.extent /\ db'.extent[cl'[d].x] = "sync"
    BY DEF Written
  <2>1. CASE d = c
    <3>1. db'.extent = Put(db.extent, cl[c].x, "sync") /\ cl'[d].x = cl[c].x
      BY <1>1, <1>2, <2>1 DEF RefView, Same
    <3> QED
      BY <3>1 DEF Put
  <2>2. CASE d # c
    <3>1. cl'[d] = cl[d] /\ cl[d].x \in DOMAIN db.extent /\ db.extent[cl[d].x] = "sync"
      BY <1>1, <2>2 DEF RefInv, Written
    <3>2. Busy(d) /\ cl[d].x # cl[c].x
      BY <1>2, <2>2, <3>1 DEF RefInv, Numbers, Busy
    <3>3. cl[d].x # cl[c].old
      BY <1>2, <3>1 DEF RefInv, Pending, PendingPcs, Pcs
    <3> QED
      BY <3>1, <3>2, <3>3, ExtentEffect
  <2> QED
    BY <2>1, <2>2
<1>14. OwnOld'
  <2> SUFFICES ASSUME NEW d \in Clients, Busy(d)', cl'[d].old # 0,
                      NEW k \in DOMAIN db'.layout, db'.layout[k] = cl'[d].old
               PROVE  k = KeyOf(cl'[d])
    BY DEF OwnOld
  <2>1. Busy(d) /\ cl'[d].old = cl[d].old /\ KeyOf(cl'[d]) = KeyOf(cl[d])
    BY <1>4
  <2>2. k \in DOMAIN db.layout /\ db.layout[k] = cl[d].old
    BY <1>6, <1>8, <2>1 DEF LayoutsFrom
  <2> QED
    BY <2>1, <2>2 DEF RefInv, OwnOld
<1>15. Unlinked'
  <2> SUFFICES ASSUME NEW d \in Clients, cl'[d].pc = "extent_delete"
               PROVE  ~Named(db', cl'[d].old)
    BY DEF Unlinked
  <2>1. CASE d = c
    BY <1>1, <1>2, <2>1, EraseEffect DEF Same
  <2>2. CASE d # c
    <3>1. cl'[d] = cl[d] /\ ~Named(db, cl[d].old) /\ Busy(d)
      BY <1>1, <2>2 DEF RefInv, Unlinked, Busy
    <3> QED
      BY <1>7, <1>8, <3>1
  <2> QED
    BY <2>1, <2>2
<1> QED
  BY <1>9, <1>10, <1>11, <1>12, <1>13, <1>14, <1>15 DEF RefInv

LEMMA RefCall ==
  ASSUME TypeInv, RefInv, NEW c \in Clients, NEW r \in Local, Entered(c, r), Called(r)
  PROVE  RefInv'
<1>1. cl'[c] = r /\ \A d \in Clients : d # c => cl'[d] = cl[d]
  BY Clients2 DEF Entered
<1>2. db' = db /\ nops' = nops + 1 /\ r.x = nops + 1
  BY DEF Entered, Called
<1>3. r.pc \notin {"layout_insert", "migrate", "extent_delete"}
  BY DEF Called, StartPcs
<1>4. r.old # 0 => KeyOf(r) \in DOMAIN db.layout /\ db.layout[KeyOf(r)] = r.old
  BY DEF Called, HasLayout
<1>5. nops \in Nat /\ r.old \in Nat /\ \A d \in Clients : cl[d].x \in Nat /\ cl[d].old \in Nat
  BY Values, <1>1, TablesAssumption DEF Local, LocalType
<1>6. \A k \in DOMAIN db.layout : db.layout[k] \in Nat \ {0} /\ db.layout[k] <= nops
  BY Values DEF RefInv, Numbers
<1>7. r.old <= nops
  BY <1>4, <1>5, <1>6
<1>8. \A d \in Clients : Busy(d) => cl[d].x <= nops /\ cl[d].old <= nops /\ cl[d].x # 0
  BY Values DEF RefInv, Numbers
<1>9. \A d \in Clients : d # c /\ Busy(d)' => Busy(d)
  BY <1>1 DEF Busy
<1>10. Numbers'
  <2>1. \A k \in DOMAIN db.layout : db.layout[k] <= nops + 1
    BY <1>5, <1>6
  <2>2. \A d \in Clients : Busy(d)' => cl'[d].x <= nops + 1 /\ cl'[d].old <= nops + 1
    BY <1>1, <1>2, <1>5, <1>7, <1>8, <1>9
  <2>3. \A d, e \in Clients : Busy(d)' /\ Busy(e)' /\ cl'[d].x = cl'[e].x => d = e
    BY <1>1, <1>2, <1>5, <1>8, <1>9 DEF RefInv, Numbers
  <2> QED
    BY <1>2, <2>1, <2>2, <2>3 DEF Numbers
<1>11. Pending'
  <2> SUFFICES ASSUME NEW d \in Clients, cl'[d].pc \in PendingPcs
               PROVE  /\ ~Named(db, cl'[d].x)
                      /\ \A e \in Clients : Busy(e)' => cl'[e].old # cl'[d].x
    BY <1>2 DEF Pending
  <2>1. CASE d = c
    <3>1. ~Named(db, r.x)
      BY <1>2, <1>5, <1>6 DEF Named
    <3>2. \A e \in Clients : Busy(e)' => cl'[e].old <= nops
      BY <1>1, <1>7, <1>8, <1>9
    <3>3. \A e \in Clients : cl'[e].old \in Nat
      BY <1>1, <1>5
    <3> QED
      BY <1>1, <1>2, <1>5, <2>1, <3>1, <3>2, <3>3
  <2>2. CASE d # c
    <3>1. cl'[d] = cl[d] /\ ~Named(db, cl[d].x) /\ cl[d].x # 0
          /\ \A e \in Clients : Busy(e) => cl[e].old # cl[d].x
      BY <1>1, <1>8, <2>2 DEF RefInv, Pending, PendingPcs, Busy
    <3>2. r.old # cl[d].x
      BY <1>4, <3>1 DEF Named
    <3> QED
      BY <1>1, <1>9, <3>1, <3>2
  <2> QED
    BY <2>1, <2>2
<1>12. OwnOld'
  <2> SUFFICES ASSUME NEW d \in Clients, Busy(d)', cl'[d].old # 0,
                      NEW k \in DOMAIN db.layout, db.layout[k] = cl'[d].old
               PROVE  k = KeyOf(cl'[d])
    BY <1>2 DEF OwnOld
  <2>1. CASE d = c
    BY <1>1, <1>4, <2>1 DEF RefInv, OneLayout
  <2>2. CASE d # c
    BY <1>1, <1>9, <2>2 DEF RefInv, OwnOld
  <2> QED
    BY <2>1, <2>2
<1>13. ReferencedSync' /\ OneLayout'
  BY <1>2 DEF RefInv, ReferencedSync, OneLayout
<1>14. Written' /\ Unlinked'
  BY <1>1, <1>2, <1>3 DEF RefInv, Written, Unlinked
<1> QED
  BY <1>10, <1>11, <1>12, <1>13, <1>14 DEF RefInv

LEMMA RefCrash ==
  ASSUME TypeInv, RefInv, NEW c \in Clients, Crash(c)
  PROVE  RefInv'
<1>1. cl'[c] = Idle /\ \A d \in Clients : d # c => cl'[d] = cl[d]
  BY CrashTypes, Clients2
<1>2. Idle.pc = "idle" /\ db' = db /\ nops' = nops
  BY DEF Idle, Crash, NoDb
<1>3. \A d \in Clients : Busy(d)' => cl'[d] = cl[d] /\ Busy(d)
  BY <1>1, <1>2 DEF Busy
<1>4. \A d \in Clients : cl'[d].pc # "idle" => Busy(d)'
  BY DEF Busy
<1>5. "idle" \notin PendingPcs
  BY DEF PendingPcs
<1>6. ReferencedSync' /\ OneLayout'
  BY <1>2 DEF RefInv, ReferencedSync, OneLayout
<1>7. Numbers' /\ OwnOld'
  BY <1>2, <1>3 DEF RefInv, Numbers, OwnOld
<1>8. Pending'
  BY <1>2, <1>3, <1>4, <1>5 DEF RefInv, Pending
<1>9. Written' /\ Unlinked'
  BY <1>2, <1>3, <1>4 DEF RefInv, Written, Unlinked
<1> QED
  BY <1>6, <1>7, <1>8, <1>9 DEF RefInv

LEMMA RefNext == TypeInv /\ RefInv /\ [Next]_vars => RefInv'
<1> SUFFICES ASSUME TypeInv, RefInv, [Next]_vars PROVE RefInv'
  OBVIOUS
<1>1. CASE UNCHANGED <<db, cl, nops>>
  BY <1>1 DEF RefInv, ReferencedSync, Numbers, OneLayout, Pending, Written, OwnOld, Unlinked, Busy
<1>2. CASE CleanLocks
  BY <1>1, <1>2, CleanTypes
<1>3. ASSUME NEW c \in Clients, CallStep(c) PROVE RefInv'
  BY <1>3, CallForm, RefCall
<1>4. ASSUME NEW c \in Clients, RunStep(c) PROVE RefInv'
  BY <1>4, RunStepped, RefRun DEF Stepped, Views
<1>5. ASSUME NEW c \in Clients, Crash(c) PROVE RefInv'
  BY <1>5, RefCrash
<1>6. CASE UNCHANGED vars
  BY <1>1, <1>6 DEF vars
<1> QED
  BY <1>2, <1>3, <1>4, <1>5, <1>6 DEF Next

\* The extent of a layout exists and is not orphan, whichever puts, rebuilds
\* and erasures overlap and whichever clients die between their transactions:
\* dss_layout_delete takes only the extent the erasure read, so an extent that a
\* rebuild has just moved the layout to is never the one that is dropped.
THEOREM ReferencedExtents == Spec => []ReferencedSync
<1>1. Init => RefInv
  BY DEF Init, EmptyDb, RefInv, ReferencedSync, Numbers, OneLayout, Pending, Written, OwnOld,
         Unlinked, Busy, Idle, PendingPcs
<1>2. RefInv => ReferencedSync
  BY DEF RefInv
<1> QED
  BY <1>1, <1>2, InitTypes, NextTypes, RefNext, PTL DEF Spec

=============================================================================
