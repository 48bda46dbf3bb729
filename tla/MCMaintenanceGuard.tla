------------------------- MODULE MCMaintenanceGuard -------------------------
(***************************************************************************)
(* Model-checking instances of MaintenanceGuard, with the status asked     *)
(* for; MCCoreInstall holds the one without.                               *)
(***************************************************************************)
EXTENDS MaintenanceGuard
=============================================================================
