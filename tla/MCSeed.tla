------------------------------- MODULE MCSeed -------------------------------
(* The seeder over the real schema, or over a slice of it. *)
EXTENDS Schema, Seed

(* Five tables: two roots, a chain of references from one, a reference     *)
(* across, and a leaf of the other.                                        *)
Slice == {"drivers", "loads", "trips", "delivery_events", "driver_monthly_metrics"}

OrderOf(S) == SelectSeq(LOAD_ORDER, LAMBDA t : t \in S)
ParentsIn(S) == [t \in S |-> ForeignParents(t) \cap S]

SliceOrder == OrderOf(Slice)
SliceParents == ParentsIn(Slice)
FullParents == ParentsIn(DomainTables)

(* An image with every CSV file, and one built without one of them. *)
SliceImages == {Slice, Slice \ {"delivery_events"}}
CompleteImage == {DomainTables}
=============================================================================
