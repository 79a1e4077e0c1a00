------------------------------- MODULE Schema -------------------------------
(***************************************************************************)
(* The logistics schema, as far as loading and reading it depends on it:   *)
(* for every ORM model its table, its primary key, what is unique beside   *)
(* it, its foreign keys and its indexes.  Every other column is payload.   *)
(* The modules that work on tables take them as constants; MC modules give *)
(* those constants the values defined here.                                *)
(***************************************************************************)
EXTENDS Naturals, Sequences

(* mapped_column(ForeignKey("parent.x"), nullable=...) *)
Ref(column, parent)    == [column |-> column, parent |-> parent, nullable |-> FALSE]
OptRef(column, parent) == [column |-> column, parent |-> parent, nullable |-> TRUE]

Model(table, key, unique, refs, indexes) ==
  [table |-> table, key |-> key, unique |-> unique, refs |-> refs,
   indexes |-> indexes]

User     == Model("users", {"user_id"}, {<<"email">>}, {}, {})
Customer == Model("customers", {"customer_id"}, {}, {}, {})
Driver   == Model("drivers", {"driver_id"}, {}, {}, {<<"employment_status">>})
Facility == Model("facilities", {"facility_id"}, {}, {}, {})
Route    == Model("routes", {"route_id"}, {}, {}, {})
Trailer  == Model("trailers", {"trailer_id"}, {<<"vin">>}, {}, {<<"status">>})
Truck    == Model("trucks", {"truck_id"}, {<<"unit_number">>, <<"vin">>}, {},
                  {<<"status">>})

Load == Model("loads", {"load_id"}, {},
              {Ref("customer_id", "customers"), Ref("route_id", "routes")},
              {<<"customer_id">>, <<"route_id">>, <<"load_date">>, <<"load_status">>})

Trip == Model("trips", {"trip_id"}, {<<"load_id">>},
              {Ref("load_id", "loads"), OptRef("driver_id", "drivers"),
               OptRef("truck_id", "trucks"), OptRef("trailer_id", "trailers")},
              {<<"load_id">>, <<"driver_id">>, <<"truck_id">>, <<"trailer_id">>,
               <<"trip_status">>, <<"dispatch_date">>, <<"driver_id", "dispatch_date">>})

FuelPurchase ==
  Model("fuel_purchases", {"fuel_purchase_id"}, {},
        {Ref("trip_id", "trips"), OptRef("truck_id", "trucks"),
         OptRef("driver_id", "drivers")},
        {<<"trip_id">>, <<"truck_id">>, <<"driver_id">>, <<"purchase_date">>})

MaintenanceRecord ==
  Model("maintenance_records", {"maintenance_id"}, {}, {Ref("truck_id", "trucks")},
        {<<"truck_id">>})

DeliveryEvent ==
  Model("delivery_events", {"event_id"}, {},
        {Ref("load_id", "loads"), Ref("trip_id", "trips"),
         Ref("facility_id", "facilities")},
        {<<"load_id">>, <<"trip_id">>, <<"facility_id">>, <<"event_type">>})

SafetyIncident ==
  Model("safety_incidents", {"incident_id"}, {},
        {Ref("trip_id", "trips"), OptRef("truck_id", "trucks"),
         OptRef("driver_id", "drivers")},
        {<<"trip_id">>, <<"truck_id">>, <<"driver_id">>})

DriverMonthlyMetrics ==
  Model("driver_monthly_metrics", {"driver_id", "month"}, {},
        {Ref("driver_id", "drivers")}, {})

TruckUtilizationMetrics ==
  Model("truck_utilization_metrics", {"truck_id", "month"}, {},
        {Ref("truck_id", "trucks")}, {})

-----------------------------------------------------------------------------
(* The table list the dashboard and the admin endpoint iterate over. *)
DOMAIN_TABLES ==
  << Driver, Truck, Trailer, Customer, Facility, Route, Load, Trip,
     FuelPurchase, MaintenanceRecord, DeliveryEvent, SafetyIncident,
     DriverMonthlyMetrics, TruckUtilizationMetrics >>

(* The order in which the seed script copies the CSV files; it truncates   *)
(* in the reverse order.                                                   *)
LOAD_ORDER ==
  << "drivers", "trucks", "trailers", "customers", "facilities", "routes",
     "loads", "trips", "fuel_purchases", "maintenance_records",
     "delivery_events", "safety_incidents", "driver_monthly_metrics",
     "truck_utilization_metrics" >>

(* The columns the seed script strips from "TRIP00000042" to 42. *)
ID_COLUMNS ==
  [ drivers |-> {"driver_id"}, trucks |-> {"truck_id"},
    trailers |-> {"trailer_id"}, customers |-> {"customer_id"},
    facilities |-> {"facility_id"}, routes |-> {"route_id"},
    loads |-> {"load_id", "customer_id", "route_id"},
    trips |-> {"trip_id", "load_id", "driver_id", "truck_id", "trailer_id"},
    fuel_purchases |-> {"fuel_purchase_id", "trip_id", "truck_id", "driver_id"},
    maintenance_records |-> {"maintenance_id", "truck_id"},
    delivery_events |-> {"event_id", "load_id", "trip_id", "facility_id"},
    safety_incidents |-> {"incident_id", "trip_id", "truck_id", "driver_id"},
    driver_monthly_metrics |-> {"driver_id"},
    truck_utilization_metrics |-> {"truck_id"} ]

-----------------------------------------------------------------------------
DomainTables == {LOAD_ORDER[i] : i \in DOMAIN LOAD_ORDER}

ModelNamed(t) ==
  DOMAIN_TABLES[CHOOSE i \in DOMAIN DOMAIN_TABLES : DOMAIN_TABLES[i].table = t]

ForeignParents(t) == {r.parent : r \in ModelNamed(t).refs}

(* The seed script and the dashboard name the same tables in the same      *)
(* order, every table is keyed (a second COPY of it is rejected), and      *)
(* every column that references another table, or is an integer key of its *)
(* own, is converted by the seed script before COPY sees it.               *)
ASSUME SchemaAssumption ==
  /\ Len(DOMAIN_TABLES) = Len(LOAD_ORDER)
  /\ \A i \in DOMAIN LOAD_ORDER : DOMAIN_TABLES[i].table = LOAD_ORDER[i]
  /\ \A t \in DomainTables :
       LET m == ModelNamed(t) IN
       /\ m.key # {}
       /\ {r.column : r \in m.refs} \cup (m.key \ {"month"}) = ID_COLUMNS[t]
=============================================================================
