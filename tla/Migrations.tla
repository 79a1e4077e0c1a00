----------------------------- MODULE Migrations -----------------------------
(***************************************************************************)
(* The alembic revisions, run up and down over a database that may hold    *)
(* rows of the CSV files.                                                  *)
(*                                                                         *)
(* The catalog is a set of entries: tables, foreign keys, NOT NULLs of the *)
(* foreign-key columns, uniqueness and indexes.  An operation of a         *)
(* revision needs some entries, adds and removes some, and fails where     *)
(* PostgreSQL would: the object is missing or already there, a table is    *)
(* still referenced, a new constraint does not hold of the rows.  One      *)
(* command runs all its revisions in one transaction.                      *)
(***************************************************************************)
EXTENDS Naturals, Sequences, SequencesExt, Schema

CONSTANT Unmet   \* constraints that the CSV rows would violate, as entries

VARIABLES
  revision,  \* alembic_version; 0 is base
  catalog,   \* the entries of the schema
  rows       \* the tables that hold their CSV rows

vars == <<revision, catalog, rows>>

-----------------------------------------------------------------------------
Entry(kind, t, on, to) == [kind |-> kind, table |-> t, on |-> on, to |-> to]
TableEntry(t)          == Entry("table", t, <<>>, "")
Unique(t, columns)     == Entry("unique", t, columns, "")
IndexOf(t, columns)    == Entry("index", t, columns, "")
Required(t, column)    == Entry("required", t, <<column>>, "")
ForeignKey(t, column, parent) == Entry("foreign key", t, <<column>>, parent)

Op(needs, adds, removes, drops) ==
  [needs |-> needs, adds |-> adds, removes |-> removes, drops |-> drops]

RequiredKeys(t, refs) ==
  UNION {{ForeignKey(t, r[1], r[2]), Required(t, r[1])} : r \in refs}

(* op.create_table, with NOT NULL foreign keys, and the op.create_index of *)
(* its table.                                                              *)
CreateTable(t, unique, refs, indexes) ==
  Op({TableEntry(r[2]) : r \in refs},
     {TableEntry(t)} \cup {Unique(t, u) : u \in unique} \cup RequiredKeys(t, refs)
       \cup {IndexOf(t, i) : i \in indexes},
     {}, {})

(* op.drop_index of the table's indexes, then op.drop_table.               *)
DropTable(t, indexes) ==
  Op({}, {}, {TableEntry(t)} \cup {IndexOf(t, i) : i \in indexes}, {t})

CreateIndex(t, columns) == Op({TableEntry(t)}, {IndexOf(t, columns)}, {}, {})
DropIndex(t, columns)   == Op({}, {}, {IndexOf(t, columns)}, {})

(* alter_column(nullable=...).  PostgreSQL accepts it of a column that is  *)
(* so already, which is not needed here: no revision meets such a column.  *)
MakeNullable(t, column) == Op({TableEntry(t)}, {}, {Required(t, column)}, {})
MakeRequired(t, column) == Op({TableEntry(t)}, {Required(t, column)}, {}, {})

DropUnique(t, columns)  == Op({}, {}, {Unique(t, columns)}, {})
AddUnique(t, columns)   == Op({TableEntry(t)}, {Unique(t, columns)}, {}, {})

(* op.execute("DELETE FROM users ..."): needs its table, changes no entry. *)
DeleteFrom(t) == Op({TableEntry(t)}, {}, {}, {})

-----------------------------------------------------------------------------
(* 0001 create domain schema: the tables without references, ... *)
create_roots ==
  << CreateTable("customers", {}, {}, {}),
     CreateTable("drivers", {}, {}, {<<"employment_status">>}),
     CreateTable("facilities", {}, {}, {}),
     CreateTable("routes", {}, {}, {}),
     CreateTable("trailers", {<<"trailer_number">>, <<"vin">>}, {}, {<<"status">>}),
     CreateTable("trucks", {<<"unit_number">>, <<"vin">>}, {}, {<<"status">>}),
     CreateTable("users", {<<"email">>}, {}, {}) >>

(* ... those that reference only these, ... *)
create_first_level ==
  << CreateTable("driver_monthly_metrics", {}, {<<"driver_id", "drivers">>}, {}),
     CreateTable("loads", {},
       {<<"customer_id", "customers">>, <<"route_id", "routes">>},
       {<<"customer_id">>, <<"load_date">>, <<"load_status">>, <<"route_id">>}),
     CreateTable("maintenance_records", {}, {<<"truck_id", "trucks">>}, {<<"truck_id">>}),
     CreateTable("truck_utilization_metrics", {}, {<<"truck_id", "trucks">>}, {}) >>

(* ... and the trips with what happens on them. *)
create_trips ==
  << CreateTable("trips", {<<"load_id">>},
       {<<"driver_id", "drivers">>, <<"load_id", "loads">>,
        <<"trailer_id", "trailers">>, <<"truck_id", "trucks">>},
       {<<"driver_id">>, <<"load_id">>, <<"trailer_id">>, <<"trip_status">>,
        <<"truck_id">>}),
     CreateTable("delivery_events", {},
       {<<"facility_id", "facilities">>, <<"load_id", "loads">>, <<"trip_id", "trips">>},
       {<<"event_type">>, <<"facility_id">>, <<"load_id">>, <<"trip_id">>}),
     CreateTable("fuel_purchases", {},
       {<<"driver_id", "drivers">>, <<"trip_id", "trips">>, <<"truck_id", "trucks">>},
       {<<"driver_id">>, <<"purchase_date">>, <<"trip_id">>, <<"truck_id">>}),
     CreateTable("safety_incidents", {},
       {<<"driver_id", "drivers">>, <<"trip_id", "trips">>, <<"truck_id", "trucks">>},
       {<<"driver_id">>, <<"trip_id">>, <<"truck_id">>}) >>

upgrade_0001 == create_roots \o create_first_level \o create_trips

downgrade_0001 ==
  << DropTable("safety_incidents", {<<"truck_id">>, <<"trip_id">>, <<"driver_id">>}),
     DropTable("fuel_purchases",
       {<<"truck_id">>, <<"trip_id">>, <<"purchase_date">>, <<"driver_id">>}),
     DropTable("delivery_events",
       {<<"trip_id">>, <<"load_id">>, <<"facility_id">>, <<"event_type">>}),
     DropTable("trips",
       {<<"truck_id">>, <<"trip_status">>, <<"trailer_id">>, <<"load_id">>,
        <<"driver_id">>}),
     DropTable("truck_utilization_metrics", {}),
     DropTable("maintenance_records", {<<"truck_id">>}),
     DropTable("loads",
       {<<"route_id">>, <<"load_status">>, <<"load_date">>, <<"customer_id">>}),
     DropTable("driver_monthly_metrics", {}),
     DropTable("users", {}),
     DropTable("trucks", {<<"status">>}),
     DropTable("trailers", {<<"status">>}),
     DropTable("routes", {}),
     DropTable("facilities", {}),
     DropTable("drivers", {<<"employment_status">>}),
     DropTable("customers", {}) >>

(* 0002 seed demo users -- now a no-op *)
upgrade_0002 == << DeleteFrom("users") >>
downgrade_0002 == << >>

(* 0003 indexes baseline *)
upgrade_0003 ==
  << CreateIndex("maintenance_records", <<"maintenance_date">>),
     CreateIndex("safety_incidents", <<"incident_date">>) >>
downgrade_0003 ==
  << DropIndex("safety_incidents", <<"incident_date">>),
     DropIndex("maintenance_records", <<"maintenance_date">>) >>

(* 0004 nullable optional fks *)
OptionalColumns ==
  << <<"trips", "driver_id">>, <<"trips", "truck_id">>, <<"trips", "trailer_id">>,
     <<"fuel_purchases", "driver_id">>, <<"fuel_purchases", "truck_id">>,
     <<"safety_incidents", "driver_id">>, <<"safety_incidents", "truck_id">> >>

FirstColumnsOnly ==                         \* mutant: forgets two tables
  [i \in 1..3 |-> MakeNullable(OptionalColumns[i][1], OptionalColumns[i][2])]
upgrade_0004 ==
  [i \in DOMAIN OptionalColumns |->
     MakeNullable(OptionalColumns[i][1], OptionalColumns[i][2])]
downgrade_0004 ==
  Reverse([i \in DOMAIN OptionalColumns |->
             MakeRequired(OptionalColumns[i][1], OptionalColumns[i][2])])

(* 0005 drop trailer_number unique *)
WrongConstraint == << DropUnique("trailers", <<"vin">>) >>   \* mutant
upgrade_0005 == << DropUnique("trailers", <<"trailer_number">>) >>
downgrade_0005 == << AddUnique("trailers", <<"trailer_number">>) >>

(* 0006 trips perf indexes *)
RequiresDriver ==                           \* mutant: takes every trip to have one
  << CreateIndex("trips", <<"dispatch_date">>),
     MakeRequired("trips", "driver_id"),
     CreateIndex("trips", <<"driver_id", "dispatch_date">>) >>
upgrade_0006 ==
  << CreateIndex("trips", <<"dispatch_date">>),
     CreateIndex("trips", <<"driver_id", "dispatch_date">>) >>
KeepsOneIndex ==                            \* mutant: forgets one of the two
  << DropIndex("trips", <<"driver_id", "dispatch_date">>) >>
downgrade_0006 ==
  << DropIndex("trips", <<"driver_id", "dispatch_date">>),
     DropIndex("trips", <<"dispatch_date">>) >>

Upgrades == << upgrade_0001, upgrade_0002, upgrade_0003,
               upgrade_0004, upgrade_0005, upgrade_0006 >>
Downgrades == << downgrade_0001, downgrade_0002, downgrade_0003,
                 downgrade_0004, downgrade_0005, downgrade_0006 >>
LastRevision == Len(Upgrades)

(* No rows are in the way of an index.  *)
ASSUME UnmetAssumption == \A e \in Unmet : e.kind # "index"

(* Why there are 0004 and 0005, as their docstrings say: values are absent *)
(* in these columns of the CSV files, and trailers share a number.         *)
ASSUME CsvAssumption ==
  /\ \A c \in ToSet(OptionalColumns) : Required(c[1], c[2]) \in Unmet
  /\ Unique("trailers", <<"trailer_number">>) \in Unmet

-----------------------------------------------------------------------------
Broken(e, rs) == e \in Unmet /\ e.table \in rs

RowsUnchecked(op, db) == op.needs \subseteq db.catalog   \* mutant: no checks
Possible(op, db) ==
  /\ op.needs \cup op.removes \subseteq db.catalog
  /\ op.adds \cap db.catalog = {}
  /\ \A e \in op.adds : ~Broken(e, db.rows)
  /\ \A e \in db.catalog : e.to \in op.drops => e.table \in op.drops

Apply(op, db) ==
  [ok |-> TRUE,
   catalog |-> {e \in (db.catalog \ op.removes) \cup op.adds : e.table \notin op.drops},
   rows |-> db.rows \ op.drops]

Execute(db, op) ==
  IF db.ok /\ Possible(op, db) THEN Apply(op, db) ELSE [db EXCEPT !.ok = FALSE]

(* The operations one after the other; the first that fails ends it all.   *)
Run(ops, cat, rs) ==
  FoldLeft(Execute, [ok |-> TRUE, catalog |-> cat, rows |-> rs], ops)

UpgradeOps(from, to) == FlattenSeq(SubSeq(Upgrades, from + 1, to))
UpgradeTo(r) == Run(UpgradeOps(revision, r), catalog, rows)
DowngradeByOne == Run(Downgrades[revision], catalog, rows)

Commit(db, r) ==
  /\ db.ok
  /\ catalog' = db.catalog
  /\ rows' = db.rows
  /\ revision' = r

-----------------------------------------------------------------------------
Init ==
  /\ revision = 0
  /\ catalog = {}
  /\ rows = {}

(* "alembic upgrade head" of an image that knows the revisions up to r.    *)
Upgrade(r) == r > revision /\ Commit(UpgradeTo(r), r)

(* "alembic downgrade -1" *)
Downgrade == revision > 0 /\ Commit(DowngradeByOne, revision - 1)

(* The seed script's COPY of one table is accepted by this catalog. *)
Accepts(t) ==
  /\ TableEntry(t) \in catalog
  /\ t \notin rows
  /\ \A e \in catalog : e.table = t =>
       /\ e.kind = "foreign key" => e.to \in rows
       /\ ~Broken(e, {t})

Copy(t) ==
  /\ Accepts(t)
  /\ rows' = rows \cup {t}
  /\ UNCHANGED <<revision, catalog>>

(* _truncate_all, taken as one step here; see module Seed. *)
Truncate ==
  /\ DomainTables \subseteq {e.table : e \in catalog}
  /\ rows' = {}
  /\ UNCHANGED <<revision, catalog>>

Next ==
  \/ \E r \in 1..LastRevision : Upgrade(r)
  \/ Downgrade
  \/ \E t \in DomainTables : Copy(t)
  \/ Truncate

Spec == Init /\ [][Next]_vars
-----------------------------------------------------------------------------
(* The rows obey the catalog: they are in tables that exist, next to the   *)
(* rows they reference, and break no constraint.                           *)
TypeOK ==
  /\ revision \in 0..LastRevision
  /\ \A t \in rows : TableEntry(t) \in catalog
  /\ \A e \in catalog :
       /\ e.kind = "foreign key" /\ e.table \in rows => e.to \in rows
       /\ ~Broken(e, rows)

(* Whatever ups and downs led to a revision, its schema is the one that a  *)
(* fresh database gets: every downgrade undoes its upgrade exactly.        *)
CatalogFollowsRevision ==
  catalog = Run(UpgradeOps(0, revision), {}, {}).catalog

(* The container of any later image starts: its upgrade succeeds from any  *)
(* revision and over any rows that were loaded at one.                     *)
UpgradeAlwaysWorks == \A r \in revision+1..LastRevision : UpgradeTo(r).ok

(* "just migrate-down" fails only at 0005, and there only when the         *)
(* trailers are loaded: their numbers repeat.  0004 is always undone,      *)
(* though the files lack values of its columns too: their tables all hang  *)
(* on trips, which name trailers, and these cannot be there before 0005.   *)
DowngradeFailsOnlyOnRows ==
  revision > 0 => (~DowngradeByOne.ok <=> revision = 5 /\ "trailers" \in rows)

Models == ToSet(DOMAIN_TABLES) \cup {User}

(* At head, the schema that the revisions build up is the one that the ORM *)
(* models declare: tables, keys to other tables and whether they may be    *)
(* null, uniqueness, and every index the models count on.                  *)
HeadMatchesModels ==
  revision = LastRevision =>
    /\ {e \in catalog : e.kind # "index"}
         = UNION {{TableEntry(m.table)}
                  \cup {Unique(m.table, u) : u \in m.unique}
                  \cup {ForeignKey(m.table, r.column, r.parent) : r \in m.refs}
                  \cup {Required(m.table, r.column) : r \in {q \in m.refs : ~q.nullable}}
                  : m \in Models}
    /\ \A m \in Models : \A i \in m.indexes : IndexOf(m.table, i) \in catalog
=============================================================================
