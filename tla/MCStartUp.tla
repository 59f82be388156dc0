------------------------------ MODULE MCStartUp ------------------------------
(* Two servers that start on an empty or an old database, with either       *)
(* driver; on Postgres the demonstration data tool may run at any time.     *)
EXTENDS StartUp
=============================================================================
