--------------------------- MODULE MCCoordinator ---------------------------
(* TLC instance of Coordinator.                                             *)
EXTENDS Coordinator
=============================================================================
