------------------------------ MODULE MCNPtcp ------------------------------
(* NPtcp for TLC: the constants are given values in the cfg file.          *)
EXTENDS NPtcp
============================================================================
