------------------------------- MODULE Pages --------------------------------
(***************************************************************************)
(* The tables that each page reads, in the order in which its session      *)
(* first touches them.  A step is taken only when rows were found in every *)
(* table of its "after"; a selective step may find none in a table that    *)
(* has some.                                                               *)
(***************************************************************************)
EXTENDS Naturals, Sequences, Schema

(* A whole table, counted or joined with the rows read before. *)
Every(t) == [table |-> t, after |-> {}, selective |-> FALSE]

(* The rows that a key or a filter selects. *)
Some(t, S) == [table |-> t, after |-> S, selective |-> TRUE]

(* The rows that the rows found in S reference, optional references given. *)
Each(t, S) == [table |-> t, after |-> S, selective |-> FALSE]

(* GET /dashboard/seed-check and GET /admin/seed-status count every table. *)
SeedCheckPlan == [i \in DOMAIN LOAD_ORDER |-> Every(LOAD_ORDER[i])]
SeedStatusPlan == SeedCheckPlan

(* GET /drivers/{id}/dashboard: 404 without the driver; load, customer,    *)
(* route and events are fetched for each recent trip.                      *)
DriverDashboardPlan ==
  << Some("drivers", {}), Some("trips", {"drivers"}),
     Each("loads", {"trips"}), Each("customers", {"loads"}),
     Each("routes", {"loads"}), Some("delivery_events", {"trips"}),
     Some("safety_incidents", {"drivers"}) >>

(* GET /trips/{id}: the related rows are loaded after the trip was found.  *)
TripDetailPlan ==
  << Some("trips", {}), Each("loads", {"trips"}),
     Each("customers", {"loads"}), Each("routes", {"loads"}),
     Each("drivers", {"trips"}), Each("trucks", {"trips"}),
     Each("trailers", {"trips"}), Some("fuel_purchases", {"trips"}),
     Some("delivery_events", {"trips"}) >>

(* POST /trips/search joins three tables and loads the rest of each row.   *)
TripSearchPlan ==
  << Some("trips", {}), Every("loads"), Every("routes"),
     Each("drivers", {"trips"}), Each("trucks", {"trips"}) >>

(* POST /incidents/search *)
IncidentSearchPlan ==
  << Some("safety_incidents", {}), Every("drivers"), Every("trucks") >>

(* GET /reports/fleet-utilization *)
FleetUtilizationPlan ==
  << Some("truck_utilization_metrics", {}), Every("trucks") >>

(* GET /loads/upcoming *)
UpcomingLoadsPlan ==
  << Some("loads", {}), Each("customers", {"loads"}),
     Each("routes", {"loads"}) >>

(* A page's plan over some of the tables. *)
PlanOver(plan, S) == SelectSeq(plan, LAMBDA step : step.table \in S)
=============================================================================
