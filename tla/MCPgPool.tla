------------------------------ MODULE MCPgPool ------------------------------
(* PgPool for TLC.  The symmetry of the threads is not used: both runs     *)
(* check a temporal property.                                             *)
EXTENDS PgPool
=============================================================================
