----------------------------- MODULE MCShmFifo -----------------------------
(* ShmFifo for TLC: the constants are given values in the cfg files.       *)
EXTENDS ShmFifo
============================================================================
