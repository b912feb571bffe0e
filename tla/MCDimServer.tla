---------------------------- MODULE MCDimServer ----------------------------
(***************************************************************************)
(* Finite instance of DimServer.                                           *)
(***************************************************************************)
EXTENDS DimServer
=============================================================================
