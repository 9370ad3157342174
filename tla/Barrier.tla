------------------------------ MODULE Barrier ------------------------------
(***************************************************************************)
(* What MP_Sync() promises its callers (MP_Lite/tcp.c:3327, mpi_wrappers   *)
(* calls it for MPI_Barrier): nobody returns from its k-th call before     *)
(* everybody has entered its k-th call.  The two implementations, SmpSync  *)
(* (shm.c) and TcpSync (tcp.c), are shown to implement this specification. *)
(***************************************************************************)
EXTENDS Naturals

CONSTANTS Proc,        \* the processes of the job
          MaxSyncs     \* bound: calls each process makes

VARIABLES entered,     \* entered[p]: calls of MP_Sync p has entered
          left         \* left[p]: calls of MP_Sync p has returned from

barrierVars == <<entered, left>>

Init == /\ entered = [p \in Proc |-> 0]
        /\ left    = [p \in Proc |-> 0]

Enter(p) == /\ entered[p] = left[p]
            /\ entered[p] < MaxSyncs
            /\ entered' = [entered EXCEPT ![p] = @ + 1]
            /\ UNCHANGED left

Leave(p) == /\ left[p] < entered[p]
            /\ \A q \in Proc : entered[q] >= entered[p]
            /\ left' = [left EXCEPT ![p] = @ + 1]
            /\ UNCHANGED entered

Next == \E p \in Proc : Enter(p) \/ Leave(p)

Spec == Init /\ [][Next]_barrierVars
============================================================================
