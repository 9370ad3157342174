----------------------------- MODULE MCMPSync -----------------------------
(* MPSync for TLC: the constants are given values in the cfg file.         *)
EXTENDS MPSync
===========================================================================
