----------------------------- MODULE SyncCalls -----------------------------
(***************************************************************************)
(* What the two implementations of MP_Sync() share: the processes of the   *)
(* job, numbered, and how often each calls it.                             *)
(***************************************************************************)
EXTENDS Naturals

CONSTANTS N,           \* nprocs; nsmp for smp_sync(), which needs all on one node
          MaxSyncs     \* bound: calls of MP_Sync() each process makes

ASSUME SyncAssumption == N \in Nat \ {0, 1} /\ MaxSyncs \in Nat

Rank == 0 .. N - 1
============================================================================
