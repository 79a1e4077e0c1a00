---------------------------- MODULE MCSeedLocks -----------------------------
(* The lock level over slices of the real schema, with real pages. *)
EXTENDS Pages, SeedLocks, TLC

ParentsIn(T) == [t \in T |-> ForeignParents(t) \cap T]
OrderOf(T) == SelectSeq(LOAD_ORDER, LAMBDA t : t \in T)

(* Two tables, one referencing the other. *)
Pair == {"loads", "trips"}
PairOrder == OrderOf(Pair)
PairParents == ParentsIn(Pair)
PairImage == {Pair}

(* Two trees of references side by side, and what ties them together. *)
Broad == {"drivers", "trucks", "loads", "trips", "safety_incidents",
          "truck_utilization_metrics"}
BroadOrder == OrderOf(Broad)
BroadParents == ParentsIn(Broad)
BroadImage == {Broad}

PagesOver(T) ==
  {PlanOver(p, T) : p \in {SeedCheckPlan, DriverDashboardPlan, TripDetailPlan,
                           TripSearchPlan, IncidentSearchPlan,
                           FleetUtilizationPlan, UpcomingLoadsPlan}} \ {<<>>}

(* Pages that read the two tables in either order. *)
PairPlans == {PlanOver(SeedStatusPlan, Pair), PlanOver(TripSearchPlan, Pair)}
BroadPlans == PagesOver(Broad)

SessionSymmetry == Permutations(Seeders) \cup Permutations(Readers)
=============================================================================
