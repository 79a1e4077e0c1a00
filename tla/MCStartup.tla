----------------------------- MODULE MCStartup ------------------------------
(* Two workers of one container, the five attempts of wait_for_db. *)
EXTENDS Startup
=============================================================================
