--------------------------- MODULE MCMigrations -----------------------------
(* The revisions over the CSV files as they are: trailer numbers repeat,   *)
(* and the columns that 0004 made optional do lack values.                 *)
EXTENDS Migrations

CsvUnmet ==
  {Unique("trailers", <<"trailer_number">>)}
    \cup {Required(c[1], c[2]) : c \in ToSet(OptionalColumns)}
=============================================================================
