------------------------------- MODULE MCAuth -------------------------------
(* Two workers of one container, and a client.                             *)
EXTENDS Auth
=============================================================================
