---------------------------- MODULE MCCoreInstall ----------------------------
(***************************************************************************)
(* An application update, operations on the Aether core and updates of the *)
(* rule sets: two requests at a time, two workers, three versions of the   *)
(* core, and a release of an earlier boot or none.                         *)
(***************************************************************************)
EXTENDS CoreInstall, TLC

Symmetry == Permutations(Requests) \cup Permutations(Pids)
=============================================================================
