------------------------------ MODULE MCNPmpi ------------------------------
(* NPmpi for TLC: the constants are given values in the cfg files.         *)
EXTENDS NPmpi
============================================================================
