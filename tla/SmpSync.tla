------------------------------ MODULE SmpSync ------------------------------
(***************************************************************************)
(* smp_sync() of MP_Lite/shm.c: the barrier between the processes of one   *)
(* SMP node, in shared memory.  Each process owns one entry of sync_array  *)
(* and steps it modulo 10 when it enters; it then scans the array, waiting *)
(* at each entry for the value it wrote itself or the one after it, which  *)
(* a process already in the next barrier has written.                      *)
(*                                                                         *)
(* A step reads or writes at most one entry.  The loop reads an entry      *)
(* twice before it yields; only the read that ends the loop matters.       *)
(***************************************************************************)
EXTENDS SyncCalls

SyncMod == 10

VARIABLES
  smp_pc,      \* "start": before init_smp; "out" or "in" smp_sync
  sync_byte,   \* the static sync_byte of each process
  sync_array,  \* the shared array
  smp_i,       \* the index of the scan
  smp_calls    \* history: calls of smp_sync() entered

smpVars == <<smp_pc, sync_byte, sync_array, smp_i, smp_calls>>

\* shmget hands out a segment full of zeros.
SmpInit == /\ smp_pc     = [p \in Rank |-> "start"]
           /\ sync_byte  = [p \in Rank |-> 0]
           /\ sync_array = [p \in Rank |-> 0]
           /\ smp_i      = [p \in Rank |-> 0]
           /\ smp_calls  = [p \in Rank |-> 0]

\* init_smp() clears the entry of the process; others may be syncing already.
InitSmp(p) ==
  /\ smp_pc[p] = "start"
  /\ sync_array' = [sync_array EXCEPT ![p] = 0]
  /\ smp_pc' = [smp_pc EXCEPT ![p] = "out"]
  /\ UNCHANGED <<sync_byte, smp_i, smp_calls>>

Step(b) == (b + 1) % SyncMod

SmpEnter(p) ==
  /\ smp_pc[p] = "out" /\ smp_calls[p] < MaxSyncs
  /\ sync_byte'  = [sync_byte EXCEPT ![p] = Step(@)]
  /\ sync_array' = [sync_array EXCEPT ![p] = Step(sync_byte[p])]
  /\ smp_i' = [smp_i EXCEPT ![p] = 0]
  /\ smp_calls' = [smp_calls EXCEPT ![p] = @ + 1]
  /\ smp_pc'    = [smp_pc EXCEPT ![p] = "in"]

\* Slip: waiting for equality only, blind to a process that is one call ahead.
Ready_Strict(p, q) == sync_array[q] = sync_byte[p]

\* The loop at entry q ends.
Ready(p, q) == sync_array[q] \in {sync_byte[p], Step(sync_byte[p])}

Scan(p) ==
  /\ smp_pc[p] = "in" /\ smp_i[p] < N
  /\ Ready(p, smp_i[p])
  /\ smp_i' = [smp_i EXCEPT ![p] = @ + 1]
  /\ UNCHANGED <<smp_pc, sync_byte, sync_array, smp_calls>>

SmpLeave(p) ==
  /\ smp_pc[p] = "in" /\ smp_i[p] = N
  /\ smp_pc' = [smp_pc EXCEPT ![p] = "out"]
  /\ UNCHANGED <<sync_byte, sync_array, smp_i, smp_calls>>

SmpAllDone == \A p \in Rank : smp_pc[p] = "out" /\ smp_calls[p] = MaxSyncs

SmpRun(p) == InitSmp(p) \/ SmpEnter(p) \/ Scan(p) \/ SmpLeave(p)

SmpNext == (\E p \in Rank : SmpRun(p)) \/ (SmpAllDone /\ UNCHANGED smpVars)

SmpSpec == SmpInit /\ [][SmpNext]_smpVars

-----------------------------------------------------------------------------

\* Every variable holds a value of its type.
SmpTypeOK == /\ smp_pc     \in [Rank -> {"start", "out", "in"}]
             /\ sync_byte  \in [Rank -> 0 .. SyncMod - 1]
             /\ sync_array \in [Rank -> 0 .. SyncMod - 1]
             /\ smp_i      \in [Rank -> 0 .. N]
             /\ smp_calls  \in [Rank -> 0 .. MaxSyncs]

\* The number of calls p has returned from.
SmpReturned(p) == IF smp_pc[p] = "in" THEN smp_calls[p] - 1 ELSE smp_calls[p]

\* Nobody is past its k-th call before everybody has entered its k-th call
\* (shm.c:965-998).
Together == \A p, q \in Rank : SmpReturned(p) <= smp_calls[q]

\* smp_sync() implements the promise of MP_Sync(): a call is entered when the
\* entry is stepped and left when the scan is over.
SmpBarrier == INSTANCE Barrier WITH Proc <- Rank, entered <- smp_calls, left <- [p \in Rank |-> SmpReturned(p)]
SmpImplementsBarrier == SmpBarrier!Spec

\* The reason it works: calls differ by one at most, entries show calls, and a
\* scan has passed only processes that have entered the call it is in.
SmpIInv == /\ SmpTypeOK
           /\ Together
           /\ \A p \in Rank :
                /\ sync_byte[p] = smp_calls[p] % SyncMod
                /\ sync_array[p] = sync_byte[p]
                /\ smp_pc[p] = "start" => smp_calls[p] = 0
                /\ smp_pc[p] = "in" => smp_calls[p] > 0
                /\ smp_pc[p] = "in" => \A q \in Rank : q < smp_i[p] => smp_calls[q] >= smp_calls[p]
============================================================================
