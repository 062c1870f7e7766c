---------------------------- MODULE MCBookEngine ----------------------------
(* BookEngine on small instances.  The levels differ in nothing but their   *)
(* names, but liveness is checked, so no symmetry set is declared.          *)
EXTENDS BookEngine
=============================================================================
