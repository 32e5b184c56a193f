---------------------------- MODULE MCFabricSetup ----------------------------
(* FabricSetup with four runs of the scripts and two faults: provisioning,   *)
(* a set-up that fails half way, and two more of either.                     *)
EXTENDS FabricSetup

=============================================================================
