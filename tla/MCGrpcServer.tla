---------------------------- MODULE MCGrpcServer ----------------------------
(* GrpcServer for TLC. *)
EXTENDS GrpcServer
=============================================================================
