------------------------------- MODULE MPSync -------------------------------
(***************************************************************************)
(* MP_Sync() of MP_Lite/tcp.c, which MPI_Barrier() is: smp_sync() when all *)
(* processes run on one node, tcp_sync() otherwise.  Which of them is      *)
(* settled in MP_Init(), for all processes alike.                          *)
(***************************************************************************)
EXTENDS SmpSync, TcpSync

VARIABLE smp_mode

SyncInit == /\ smp_mode \in BOOLEAN
            /\ SmpInit /\ TcpInit

SyncRun(p) == \/ smp_mode /\ SmpRun(p) /\ UNCHANGED <<smp_mode, tcpVars>>
              \/ ~smp_mode /\ TcpRun(p) /\ UNCHANGED <<smp_mode, smpVars>>

SyncAllDone == IF smp_mode THEN SmpAllDone ELSE TcpAllDone

syncVars == <<smp_mode, smpVars, tcpVars>>

SyncNext == (\E p \in Rank : SyncRun(p)) \/ (SyncAllDone /\ UNCHANGED syncVars)

SyncSpec == SyncInit /\ [][SyncNext]_syncVars

\* sched_yield() in smp_sync(), blocking calls in tcp_sync(): every process runs
\* again and again, and TCP delivers what it has taken.
SyncFairSpec == SyncSpec /\ \A p \in Rank : WF_syncVars(SyncRun(p))

-----------------------------------------------------------------------------

\* Either way MP_Sync() keeps its promise: nobody returns from its k-th call before
\* everybody has entered its k-th call (tcp.c:3325-3332).
CallsMade == IF smp_mode THEN smp_calls ELSE tcp_calls
Returns   == [p \in Rank |-> IF smp_mode THEN SmpReturned(p) ELSE TcpReturned(p)]
Promise == INSTANCE Barrier WITH Proc <- Rank, entered <- CallsMade, left <- Returns
ImplementsBarrier == Promise!Spec

\* A process that enters MP_Sync() returns from it, however far ahead the others
\* have gone meanwhile, provided all make the same number of calls.
AllSynced == <>SyncAllDone
=============================================================================
