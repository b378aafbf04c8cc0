------------------------------ MODULE MCClkMux ------------------------------
(***************************************************************************)
(* Instances of ClkMux for TLC: sources are model values of the cfg.       *)
(***************************************************************************)
EXTENDS ClkMux
=============================================================================
