----------------------------- MODULE DssTables -----------------------------
(***************************************************************************)
(* The tables of the DSS that describe objects, as a value db:             *)
(*                                                                         *)
(*   db.object      oid -> [uuid, version], or NoRow                       *)
(*   db.deprecated  a set of [oid, uuid, version]                          *)
(*   db.copy        <<uuid, version, copy name>> -> copy status            *)
(*   db.layout      <<uuid, version, copy name>> -> extent                 *)
(*   db.extent      extent -> extent state                                 *)
(*                                                                         *)
(* Each operator is one SQL transaction built by src/core/dss and run by   *)
(* execute_and_commit_or_rollback.  An operator named ...Applies says      *)
(* whether the primary keys and the unique column object_uuid of the       *)
(* schema let the transaction commit; when they do not, it is rolled back  *)
(* and its caller gets an error.  A DELETE or an UPDATE that matches no    *)
(* row succeeds.  A copy has one extent here; sizes, user metadata,        *)
(* groupings, hashes and times are left out.                               *)
(***************************************************************************)
EXTENDS Naturals, FiniteSets

CONSTANTS Oids,         \* names of objects
          Names,        \* names of copies
          MaxUuid,      \* bound on the uuids generated by inserts
          MaxVersion,   \* bound on the versions of a uuid
          MaxExtent,    \* bound on the extents written
          NoRow         \* the absence of a row

ASSUME TablesAssumption ==
    /\ MaxUuid \in Nat /\ MaxVersion \in Nat \ {0} /\ MaxExtent \in Nat
    /\ NoRow \notin Oids \cup Names
    /\ NoRow \notin [uuid: 1..MaxUuid, version: 1..MaxVersion]

Uuids == 1..MaxUuid
Versions == 1..MaxVersion
Extents == 1..MaxExtent
CopyKeys == Uuids \X Versions \X Names
CopyStatus == {"incomplete", "readable", "complete"}
ExtentStates == {"sync", "orphan"}

ObjectRow == [uuid: Uuids, version: Versions]
DeprecatedRow == [oid: Oids, uuid: Uuids, version: Versions]

EmptyDb == [object |-> [o \in Oids |-> NoRow],
            deprecated |-> {},
            copy |-> <<>>, layout |-> <<>>, extent |-> <<>>]

DbTypeOK(db) ==
    /\ db.object \in [Oids -> ObjectRow \cup {NoRow}]
    /\ db.deprecated \subseteq DeprecatedRow
    /\ \E S \in SUBSET CopyKeys : db.copy \in [S -> CopyStatus]
    /\ \E S \in SUBSET CopyKeys : db.layout \in [S -> Extents]
    /\ \E S \in SUBSET Extents : db.extent \in [S -> ExtentStates]

\* Partial functions as tables: the row of key k set, or removed.
Put(f, k, v) == [x \in DOMAIN f \cup {k} |-> IF x = k THEN v ELSE f[x]]
Drop(f, S) == [x \in DOMAIN f \ S |-> f[x]]

-----------------------------------------------------------------------------
(* Table object *)

Alive(db, o) == db.object[o] # NoRow
AliveUuids(db) == {db.object[o].uuid : o \in {p \in Oids : Alive(db, p)}}

ObjectInsertApplies(db, o, u) == ~Alive(db, o) /\ u \notin AliveUuids(db)
ObjectInsert(db, o, u, v) ==
    [db EXCEPT !.object[o] = [uuid |-> u, version |-> v]]

ObjectDelete(db, o) == [db EXCEPT !.object[o] = NoRow]

-----------------------------------------------------------------------------
(* Table deprecated_object *)

DeprecatedOf(db, u) == {r \in db.deprecated : r.uuid = u}
IsDeprecated(db, u, v) == \E r \in DeprecatedOf(db, u) : r.version = v

DeprecatedDelete(db, u, v) ==
    [db EXCEPT !.deprecated =
        {r \in @ : ~(r.uuid = u /\ r.version = v)}]

\* Moves between the two tables, in one statement each.  The row leaves the
\* object table by its oid and comes back by its uuid and version.
ToDeprecatedApplies(db, o) ==
    Alive(db, o) =>
        ~IsDeprecated(db, db.object[o].uuid, db.object[o].version)
ToDeprecated(db, o) ==
    IF Alive(db, o)
    THEN [db EXCEPT
            !.object[o] = NoRow,
            !.deprecated = @ \cup {[oid |-> o, uuid |-> db.object[o].uuid,
                                    version |-> db.object[o].version]}]
    ELSE db

ToObjectApplies(db, u, v) ==
    \A r \in DeprecatedOf(db, u) :
        r.version = v => ObjectInsertApplies(db, r.oid, u)
ToObject(db, u, v) ==
    IF IsDeprecated(db, u, v)
    THEN LET r == CHOOSE d \in DeprecatedOf(db, u) : d.version = v
         IN  ObjectInsert(DeprecatedDelete(db, u, v), r.oid, u, v)
    ELSE db

\* Mutant: the update takes the place of the object that has the new name.
RenameApplies_Replace(db, u, p) == TRUE

\* UPDATE of the oid: the alive row is found by its uuid, the deprecated
\* ones by uuid and version (the pairs of S).
RenameApplies(db, u, p) ==
    u \in AliveUuids(db) /\ Alive(db, p) => db.object[p].uuid = u
Rename(db, u, S, p) ==
    LET renamed(r) == IF <<r.uuid, r.version>> \in S
                      THEN [r EXCEPT !.oid = p] ELSE r
        isU(o) == Alive(db, o) /\ db.object[o].uuid = u
    IN  [db EXCEPT
            !.deprecated = {renamed(r) : r \in @},
            !.object = IF u \in AliveUuids(db)
                       THEN [o \in Oids |->
                                CASE o = p -> @[CHOOSE q \in Oids : isU(q)]
                                  [] o # p /\ isU(o) -> NoRow
                                  [] OTHER -> @[o]]
                       ELSE @]

-----------------------------------------------------------------------------
(* Tables copy, layout and extent *)

CopyInsertApplies(db, k) == k \notin DOMAIN db.copy
CopyInsert(db, k) == [db EXCEPT !.copy = Put(@, k, "incomplete")]
CopyUpdate(db, k, status) ==
    IF k \in DOMAIN db.copy THEN [db EXCEPT !.copy[k] = status] ELSE db
CopyDelete(db, k) == [db EXCEPT !.copy = Drop(@, {k})]
CopiesOf(db, u, v) == {k \in DOMAIN db.copy : k[1] = u /\ k[2] = v}

LayoutInsertApplies(db, k) == k \notin DOMAIN db.layout
LayoutInsert(db, k, x) == [db EXCEPT !.layout = Put(@, k, x)]
\* Only the rows that still name the extent the caller read are deleted.
LayoutDelete(db, k, x) ==
    [db EXCEPT !.layout =
        IF k \in DOMAIN @ /\ @[k] = x THEN Drop(@, {k}) ELSE @]

ExtentInsert(db, x) == [db EXCEPT !.extent = Put(@, x, "sync")]
ExtentUpdate(db, x, state) ==
    IF x \in DOMAIN db.extent THEN [db EXCEPT !.extent[x] = state] ELSE db
ExtentDelete(db, x) == [db EXCEPT !.extent = Drop(@, {x})]

\* Mutant: the layout keeps the extent that the migration replaces.
ExtentMigrate_KeepLayout(db, old, new) ==
    ExtentUpdate(ExtentUpdate(db, old, "orphan"), new, "sync")

\* dss_update_extent_migrate: the layouts of the old extent name the new
\* one, the old extent is orphan, the new one sync: one transaction.
ExtentMigrate(db, old, new) ==
    LET moved == [db EXCEPT !.layout =
                    [k \in DOMAIN @ |-> IF @[k] = old THEN new ELSE @[k]]]
    IN  ExtentUpdate(ExtentUpdate(moved, old, "orphan"), new, "sync")

\* dss_lazy_find_copy without a name: a copy that is not incomplete if there
\* is one.  The configured order of preference decides among them, and comes
\* before their status; it is left open here.
LazyCopies(db, u, v) ==
    LET C == CopiesOf(db, u, v)
        usable == {k \in C : db.copy[k] # "incomplete"}
    IN  IF usable = {} THEN C ELSE usable

\* dss_find_object and dss_lazy_find_object, by oid among the alive objects,
\* by uuid among the deprecated ones: the latest version.
LatestDeprecated(db, o, u) ==
    LET D == {r \in DeprecatedOf(db, u) : r.oid = o}
    IN  {r \in D : \A q \in D : r.version >= q.version}

\* dss_full_layout_get: the extent of a copy that has a layout.
HasLayout(db, k) == k \in DOMAIN db.layout
=============================================================================
