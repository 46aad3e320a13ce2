----------------------------- MODULE MCStartup ------------------------------
(* Startup.tla for TLC.  Liveness is checked, so there is no symmetry.     *)
EXTENDS Startup
=============================================================================
