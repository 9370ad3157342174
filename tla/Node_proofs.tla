----------------------------- MODULE Node_proofs -----------------------------
(***************************************************************************)
(* Proofs about how the processes of MP_Lite meet and talk on one node.    *)
(* First MP_Sync(), which is a barrier for any number of processes and of  *)
(* calls (MPSync): smp_sync(), then tcp_sync(), which takes its place when *)
(* there are several nodes, then whichever of them the job runs on.        *)
(* Second, messages through shared memory: the pool, the calls and the     *)
(* queue of headers of MP_Lite/shm.c (ShmMsg), for any size of the pool    *)
(* and any programs of the processes; and one FIFO of MP_Lite/fifo.c       *)
(* (ShmFifo), for any size of its ring.                                    *)
(***************************************************************************)
EXTENDS MPSync, ShmMsg, ShmFifo, SequenceTheorems, WellFoundedInduction, TLAPS

---------------------------------------------------------------------------
(***************************************************************************)
(* smp_sync() is a barrier.                                                *)
(***************************************************************************)

\* The loop ends at an entry only if its owner has entered the call: among the
\* counts one away from c, only c and c + 1 show the byte of c or the next one.
LEMMA ReadyBytes ==
  ASSUME NEW c \in Nat, NEW d \in Nat, d >= c - 1, d <= c + 1,
         d % SyncMod \in {c % SyncMod, Step(c % SyncMod)}
  PROVE  d >= c
BY DEF SyncMod, Step

\* Entering steps the byte together with the count.
LEMMA StepCounts ==
  ASSUME NEW c \in Nat
  PROVE  Step(c % SyncMod) = (c + 1) % SyncMod
BY DEF SyncMod, Step

\* The invariant holds initially.
LEMMA SmpSyncInit == SmpInit => SmpIInv
BY SyncAssumption DEF SmpInit, SmpIInv, SmpTypeOK, Together, SmpReturned, Rank, SyncMod

\* Every step of a process, and every stuttering step, preserves it.
LEMMA SmpSyncNext == SmpIInv /\ [SmpNext]_smpVars => SmpIInv'
<1> SUFFICES ASSUME SmpIInv, [SmpNext]_smpVars PROVE SmpIInv'
  OBVIOUS
<1> USE SyncAssumption
<1>1. ASSUME NEW p \in Rank, InitSmp(p) PROVE SmpIInv'
  BY <1>1 DEF SmpIInv, SmpTypeOK, Together, SmpReturned, InitSmp, SyncMod
<1>2. ASSUME NEW p \in Rank, SmpEnter(p) PROVE SmpIInv'
  <2>1. SmpTypeOK'
    BY <1>2 DEF SmpIInv, SmpTypeOK, SmpEnter, Step, SyncMod
  <2>2. smp_calls[p] \in Nat /\ sync_byte'[p] = smp_calls'[p] % SyncMod /\ sync_array'[p] = sync_byte'[p]
    BY <1>2, StepCounts DEF SmpIInv, SmpTypeOK, SmpEnter
  <2>3. Together'
    BY <1>2 DEF SmpIInv, SmpTypeOK, Together, SmpReturned, SmpEnter
  <2>4. ASSUME NEW q \in Rank
        PROVE  /\ sync_byte'[q] = smp_calls'[q] % SyncMod
               /\ sync_array'[q] = sync_byte'[q]
    BY <1>2, <2>2 DEF SmpIInv, SmpTypeOK, SmpEnter
  <2>5. ASSUME NEW q \in Rank
        PROVE  /\ smp_pc'[q] = "start" => smp_calls'[q] = 0
               /\ smp_pc'[q] = "in" => smp_calls'[q] > 0
               /\ smp_pc'[q] = "in" => \A r \in Rank : r < smp_i'[q] => smp_calls'[r] >= smp_calls'[q]
    <3>1. smp_calls[p] \in Nat /\ smp_calls' = [smp_calls EXCEPT ![p] = @ + 1]
      BY <1>2 DEF SmpIInv, SmpTypeOK, SmpEnter
    <3>2. CASE q = p
      <4>1. smp_pc'[q] = "in" /\ smp_calls'[q] = smp_calls[p] + 1 /\ smp_i'[q] = 0
        BY <1>2, <3>2 DEF SmpIInv, SmpTypeOK, SmpEnter
      <4> QED BY <3>1, <4>1 DEF Rank
    <3>3. CASE q # p
      <4>1. smp_pc'[q] = smp_pc[q] /\ smp_calls'[q] = smp_calls[q] /\ smp_i'[q] = smp_i[q] /\ smp_calls[q] \in Nat
        BY <1>2, <3>3 DEF SmpIInv, SmpTypeOK, SmpEnter
      <4>2. \A r \in Rank : smp_calls[r] \in Nat /\ smp_calls'[r] >= smp_calls[r]
        BY <1>2, <3>1 DEF SmpIInv, SmpTypeOK
      <4>3. ASSUME smp_pc[q] = "in", NEW r \in Rank, r < smp_i[q]
            PROVE  smp_calls'[r] >= smp_calls[q]
        <5>1. smp_calls[r] >= smp_calls[q]
          BY <4>3 DEF SmpIInv
        <5>2. smp_calls[r] \in Nat /\ smp_calls'[r] \in Nat /\ smp_calls'[r] >= smp_calls[r]
          BY <2>1, <4>2, <4>3 DEF SmpTypeOK
        <5> QED BY <4>1, <5>1, <5>2
      <4> QED BY <4>1, <4>3 DEF SmpIInv
    <3> QED BY <3>2, <3>3
  <2> QED BY <2>1, <2>3, <2>4, <2>5 DEF SmpIInv
<1>3. ASSUME NEW p \in Rank, Scan(p) PROVE SmpIInv'
  <2>1. smp_i[p] \in Rank
    BY <1>3 DEF SmpIInv, SmpTypeOK, Scan, Rank
  <2>2. smp_calls[smp_i[p]] >= smp_calls[p]
    <3>1. smp_calls[smp_i[p]] \in Nat /\ smp_calls[p] \in Nat
      BY <2>1 DEF SmpIInv, SmpTypeOK
    <3>2. smp_calls[smp_i[p]] >= smp_calls[p] - 1
      BY <1>3, <2>1, <3>1 DEF SmpIInv, Together, SmpReturned, Scan
    <3>3. smp_calls[smp_i[p]] <= smp_calls[p] + 1
      BY <1>3, <2>1, <3>1 DEF SmpIInv, SmpTypeOK, Together, SmpReturned
    <3>4. smp_calls[smp_i[p]] % SyncMod \in {smp_calls[p] % SyncMod, Step(smp_calls[p] % SyncMod)}
      BY <1>3, <2>1 DEF SmpIInv, Scan, Ready
    <3> QED BY <3>1, <3>2, <3>3, <3>4, ReadyBytes
  <2>3. SmpTypeOK' /\ Together'
    <3>1. smp_i[p] + 1 \in 0 .. N
      BY <2>1 DEF Rank
    <3>2. SmpTypeOK'
      BY <1>3, <3>1 DEF SmpIInv, SmpTypeOK, Scan
    <3>3. Together'
      BY <1>3 DEF SmpIInv, Together, SmpReturned, Scan
    <3> QED BY <3>2, <3>3
  <2>4. ASSUME NEW q \in Rank, smp_pc'[q] = "in"
        PROVE  \A r \in Rank : r < smp_i'[q] => smp_calls'[r] >= smp_calls'[q]
    BY <1>3, <2>1, <2>2, <2>4 DEF SmpIInv, SmpTypeOK, Scan, Rank
  <2>5. ASSUME NEW q \in Rank
        PROVE  /\ sync_byte'[q] = smp_calls'[q] % SyncMod
               /\ sync_array'[q] = sync_byte'[q]
               /\ smp_pc'[q] = "start" => smp_calls'[q] = 0
               /\ smp_pc'[q] = "in" => smp_calls'[q] > 0
    BY <1>3 DEF SmpIInv, SmpTypeOK, Scan
  <2> QED BY <2>3, <2>4, <2>5 DEF SmpIInv
<1>4. ASSUME NEW p \in Rank, SmpLeave(p) PROVE SmpIInv'
  <2>1. \A q \in Rank : smp_calls[q] >= smp_calls[p]
    BY <1>4 DEF SmpIInv, SmpTypeOK, SmpLeave, Rank
  <2>2. SmpTypeOK'
    BY <1>4 DEF SmpIInv, SmpTypeOK, SmpLeave
  <2>3. Together'
    BY <1>4, <2>1 DEF SmpIInv, SmpTypeOK, Together, SmpReturned, SmpLeave
  <2> QED BY <1>4, <2>2, <2>3 DEF SmpIInv, SmpTypeOK, SmpLeave
<1>5. CASE UNCHANGED smpVars
  BY <1>5 DEF SmpIInv, SmpTypeOK, Together, SmpReturned, smpVars
<1> QED BY <1>1, <1>2, <1>3, <1>4, <1>5 DEF SmpNext, SmpRun

\* Type correctness and the strengthening, for every N and MaxSyncs.
THEOREM SmpSyncInvariance == SmpSpec => []SmpIInv
<1>1. SmpInit => SmpIInv
  BY SmpSyncInit
<1>2. SmpIInv /\ [SmpNext]_smpVars => SmpIInv'
  BY SmpSyncNext
<1> QED BY <1>1, <1>2, PTL DEF SmpSpec

\* smp_sync() keeps its processes together: nobody returns from its k-th call
\* before everybody has entered its k-th call.
THEOREM SmpSyncTogether == SmpSpec => []Together
<1>1. SmpIInv => Together
  BY DEF SmpIInv
<1> QED BY <1>1, SmpSyncInvariance, PTL

\* Both start alike.
LEMMA SmpInitBarrier == SmpInit => SmpBarrier!Init
BY SyncAssumption DEF SmpInit, SmpReturned, SmpBarrier!Init

\* smp_sync() implements the barrier of MP_Sync() step by step: entering is entering, the
\* end of the scan is leaving, and every other step is invisible.
LEMMA SmpStepBarrier == SmpIInv /\ [SmpNext]_smpVars => [SmpBarrier!Next]_SmpBarrier!barrierVars
<1> USE SyncAssumption DEF SmpBarrier!Init, SmpBarrier!Next, SmpBarrier!barrierVars
<1> SUFFICES ASSUME SmpIInv, [SmpNext]_smpVars PROVE [SmpBarrier!Next]_SmpBarrier!barrierVars
  OBVIOUS
<1>1. ASSUME NEW p \in Rank, InitSmp(p) PROVE UNCHANGED SmpBarrier!barrierVars
  BY <1>1 DEF SmpIInv, SmpTypeOK, InitSmp, SmpReturned
<1>2. ASSUME NEW p \in Rank, SmpEnter(p) PROVE SmpBarrier!Enter(p)
  BY <1>2 DEF SmpIInv, SmpTypeOK, SmpEnter, SmpReturned, SmpBarrier!Enter
<1>3. ASSUME NEW p \in Rank, Scan(p) PROVE UNCHANGED SmpBarrier!barrierVars
  BY <1>3 DEF SmpIInv, SmpTypeOK, Scan, SmpReturned
<1>4. ASSUME NEW p \in Rank, SmpLeave(p) PROVE SmpBarrier!Leave(p)
  <2>1. \A q \in Rank : smp_calls[q] >= smp_calls[p]
    BY <1>4 DEF SmpIInv, SmpTypeOK, SmpLeave, Rank
  <2>2. /\ smp_calls[p] \in Nat /\ smp_pc[p] = "in" /\ smp_pc'[p] = "out" /\ smp_calls' = smp_calls
        /\ \A q \in Rank : q # p => smp_pc'[q] = smp_pc[q]
    BY <1>4 DEF SmpIInv, SmpTypeOK, SmpLeave
  <2>3. SmpReturned(p) = smp_calls[p] - 1
    BY <2>2 DEF SmpReturned
  <2>4. [q \in Rank |-> SmpReturned(q)]' = [[q \in Rank |-> SmpReturned(q)] EXCEPT ![p] = @ + 1]
    <3>1. \A q \in Rank : SmpReturned(q)' = IF q = p THEN SmpReturned(q) + 1 ELSE SmpReturned(q)
      BY <2>2 DEF SmpReturned
    <3> QED BY <3>1
  <2> QED BY <2>1, <2>2, <2>3, <2>4 DEF SmpBarrier!Leave
<1>5. CASE UNCHANGED smpVars
  BY <1>5 DEF smpVars, SmpReturned
<1> QED BY <1>1, <1>2, <1>3, <1>4, <1>5 DEF SmpNext, SmpRun

\* smp_sync() implements the barrier of MP_Sync().
THEOREM SmpSyncImplementsBarrier == SmpSpec => SmpImplementsBarrier
BY SmpInitBarrier, SmpStepBarrier, SmpSyncInvariance, PTL DEF SmpSpec, SmpImplementsBarrier, SmpBarrier!Spec

---------------------------------------------------------------------------
(***************************************************************************)
(* tcp_sync() is a barrier, and keeps one token in its ring at most.       *)
(***************************************************************************)

Entered == \A p \in Rank : tcp_pc[p] # "out" => tcp_calls[p] > 0

\* What a process has sent depends on what it has received: process 0 is up to
\* one token ahead, the others up to one behind.
LEMMA Local ==
  ASSUME TcpTypeOK, Entered, NEW p \in Rank
  PROVE  /\ Sent(p) \in Nat /\ Received(p) \in Nat
         /\ p # 0 => Sent(p) <= Received(p) /\ Received(p) <= Sent(p) + 1
         /\ p = 0 => Received(p) <= Sent(p) /\ Sent(p) <= Received(p) + 1
         /\ Sent(p) <= 2 * tcp_calls[p]
<1>1. /\ tcp_calls[p] \in Nat /\ (tcp_pc[p] # "out" => tcp_calls[p] > 0)
      /\ tcp_pc[p] \in {"out", "r1", "r2", "r3", "r4"}
  BY DEF TcpTypeOK, Entered
<1>2. /\ TcpReturned(p) \in Nat
      /\ TcpReturned(p) = IF tcp_pc[p] = "out" THEN tcp_calls[p] ELSE tcp_calls[p] - 1
  BY <1>1 DEF TcpReturned
<1>3. CASE p = 0
  BY <1>1, <1>2, <1>3 DEF Sent, Received
<1>4. CASE p # 0
  BY <1>1, <1>2, <1>4 DEF Sent, Received
<1> QED BY <1>3, <1>4

LEMMA Ring ==
  ASSUME NEW p \in Rank
  PROVE  /\ Next1(p) \in Rank
         /\ Next1(p) # 0 => Next1(p) = p + 1
         /\ Next1(p) = 0 => p = N - 1
         /\ \A q \in Rank : Next1(q) = Next1(p) => q = p
BY SyncAssumption DEF Next1, Rank

\* A process that is neither process 0 nor before p has sent no more than p has
\* received; everybody has sent what process 0 has received.
LEMMA Chain ==
  ASSUME TcpIInv, NEW p \in Rank, NEW q \in Rank, q # 0, p <= q
  PROVE  /\ p # 0 => Sent(q) <= Received(p)
         /\ Sent(q) <= Sent(p)
<1>1. /\ Sent(p) \in Nat /\ Received(p) \in Nat /\ Sent(q) \in Nat /\ Received(q) \in Nat
      /\ Sent(q) <= Received(q) /\ (p # 0 => Sent(p) <= Received(p))
  BY Local DEF TcpIInv, Entered
<1>2. p < q => Received(q) <= Sent(p)
  BY DEF TcpIInv
<1> QED BY <1>1, <1>2 DEF Rank

LEMMA TcpSyncInit == TcpInit => TcpIInv
<1> SUFFICES ASSUME TcpInit PROVE TcpIInv
  OBVIOUS
<1> USE SyncAssumption
<1>1. TcpTypeOK
  BY DEF TcpInit, TcpTypeOK
<1>2. \A p \in Rank : tcp_pc[p] = "out" /\ tcp_calls[p] = 0 /\ tokens[p] = 0
  BY DEF TcpInit
<1>3. 0 \in Rank
  BY DEF Rank
<1>4. ASSUME NEW p \in Rank PROVE Sent(p) = 0 /\ Received(p) = 0
  <2>1. TcpReturned(p) = 0
    BY <1>2 DEF TcpReturned
  <2> QED BY <1>2, <2>1 DEF Sent, Received
<1> QED BY <1>1, <1>2, <1>3, <1>4, Ring DEF TcpIInv

\* What a step changes.
LEMMA Steps ==
  ASSUME TcpIInv, NEW p \in Rank, TcpRun(p)
  PROVE  /\ TcpTypeOK' /\ Entered'
         /\ \A q \in Rank : q # p => Sent(q)' = Sent(q) /\ Received(q)' = Received(q)
         /\ \/ TcpEnter(p) /\ Sent(p)' = Sent(p) /\ Received(p)' = Received(p)
            \/ Send(p) /\ Sent(p)' = Sent(p) + 1 /\ Received(p)' = Received(p)
            \/ Recv(p) /\ Sent(p)' = Sent(p) /\ Received(p)' = Received(p) + 1
<1> USE SyncAssumption
<1>1. /\ TcpTypeOK /\ tcp_pc' = [tcp_pc EXCEPT ![p] = After(p, tcp_pc[p])]
      /\ tcp_calls[p] \in Nat /\ tcp_pc[p] \in {"out", "r1", "r2", "r3", "r4"}
      /\ tcp_pc[p] # "out" => tcp_calls[p] > 0
  BY DEF TcpIInv, TcpTypeOK, TcpRun, TcpEnter, Send, Recv, Goto
<1>2. tcp_pc' \in [Rank -> {"out", "r1", "r2", "r3", "r4"}] /\ tcp_pc'[p] = After(p, tcp_pc[p])
  <2>1. After(p, tcp_pc[p]) \in {"out", "r1", "r2", "r3", "r4"}
    BY <1>1 DEF After
  <2> QED BY <1>1, <2>1 DEF TcpTypeOK
<1>3. \A q \in Rank : q # p => tcp_pc'[q] = tcp_pc[q] /\ tcp_calls'[q] = tcp_calls[q]
  BY <1>1 DEF TcpRun, TcpEnter, Send, Recv, TcpTypeOK
<1>4. tcp_calls' \in [Rank -> 0 .. MaxSyncs] /\ tcp_calls'[p] = IF tcp_pc[p] = "out" THEN tcp_calls[p] + 1 ELSE tcp_calls[p]
  BY <1>1 DEF TcpRun, TcpEnter, Send, Recv, TcpTypeOK
<1>5. tokens' \in [Rank -> Nat]
  <2>1. CASE TcpEnter(p)
    BY <1>1, <2>1 DEF TcpEnter, TcpTypeOK
  <2>2. CASE Send(p)
    BY <1>1, <2>2, Ring DEF Send, TcpTypeOK
  <2>3. CASE Recv(p)
    <3>1. tokens[p] - 1 \in Nat
      BY <1>1, <2>3 DEF Recv, TcpTypeOK
    <3> QED BY <1>1, <2>3, <3>1 DEF Recv, TcpTypeOK
  <2> QED BY <2>1, <2>2, <2>3 DEF TcpRun
<1>6. TcpTypeOK' /\ Entered'
  <2>1. \A q \in Rank : tcp_pc[q] # "out" => tcp_calls[q] > 0
    BY DEF TcpIInv
  <2>2. ASSUME NEW q \in Rank, tcp_pc'[q] # "out" PROVE tcp_calls'[q] > 0
    <3>1. CASE q = p
      BY <1>1, <1>4, <3>1
    <3>2. CASE q # p
      BY <1>3, <2>1, <2>2, <3>2
    <3> QED BY <3>1, <3>2
  <2> QED BY <1>2, <1>4, <1>5, <2>2 DEF TcpTypeOK, Entered
<1>7. ASSUME NEW q \in Rank, q # p PROVE Sent(q)' = Sent(q) /\ Received(q)' = Received(q)
  <2>1. tcp_pc'[q] = tcp_pc[q] /\ TcpReturned(q)' = TcpReturned(q)
    BY <1>3, <1>7 DEF TcpReturned
  <2> QED BY <2>1 DEF Sent, Received
<1>8. CASE TcpEnter(p)
  <2>1. tcp_pc[p] = "out" /\ tcp_pc'[p] = (IF p = 0 THEN "r1" ELSE "r2") /\ tcp_calls'[p] = tcp_calls[p] + 1
    BY <1>1, <1>2, <1>4, <1>8 DEF TcpEnter, After
  <2>2. TcpReturned(p)' = TcpReturned(p) /\ TcpReturned(p) = tcp_calls[p]
    BY <1>1, <2>1 DEF TcpReturned
  <2>3. Sent(p)' = Sent(p) /\ Received(p)' = Received(p)
    BY <2>1, <2>2 DEF Sent, Received
  <2> QED BY <1>6, <1>7, <1>8, <2>3
<1>9. CASE Send(p)
  <2>1. tcp_pc[p] \in {"r1", "r3"} /\ tcp_pc'[p] = After(p, tcp_pc[p]) /\ tcp_calls'[p] = tcp_calls[p]
    BY <1>1, <1>2, <1>9 DEF Send
  <2>2. Sent(p)' = Sent(p) + 1 /\ Received(p)' = Received(p)
    <3>1. CASE p = 0
      BY <1>1, <2>1, <3>1 DEF Sent, Received, TcpReturned, After
    <3>2. CASE p # 0
      BY <1>1, <2>1, <3>2 DEF Sent, Received, TcpReturned, After
    <3> QED BY <3>1, <3>2
  <2> QED BY <1>6, <1>7, <1>9, <2>2
<1>10. CASE Recv(p)
  <2>1. tcp_pc[p] \in {"r2", "r4"} /\ tcp_pc'[p] = After(p, tcp_pc[p]) /\ tcp_calls'[p] = tcp_calls[p]
    BY <1>1, <1>2, <1>10 DEF Recv
  <2>2. Sent(p)' = Sent(p) /\ Received(p)' = Received(p) + 1
    <3>1. CASE p = 0
      BY <1>1, <2>1, <3>1 DEF Sent, Received, TcpReturned, After
    <3>2. CASE p # 0
      BY <1>1, <2>1, <3>2 DEF Sent, Received, TcpReturned, After
    <3> QED BY <3>1, <3>2
  <2> QED BY <1>6, <1>7, <1>10, <2>2
<1> QED BY <1>8, <1>9, <1>10 DEF TcpRun

LEMMA TcpSyncNext == TcpIInv /\ [TcpNext]_tcpVars => TcpIInv'
<1> SUFFICES ASSUME TcpIInv, [TcpNext]_tcpVars PROVE TcpIInv'
  OBVIOUS
<1> USE SyncAssumption
<1>0. 0 \in Rank /\ N - 1 \in Rank
  BY DEF Rank
<1>1. ASSUME NEW p \in Rank, TcpRun(p) PROVE TcpIInv'
  <2>1. /\ TcpTypeOK' /\ Entered'
        /\ \A q \in Rank : q # p => Sent(q)' = Sent(q) /\ Received(q)' = Received(q)
    BY <1>1, Steps
  <2>2. \A q \in Rank : Sent(q) \in Nat /\ Received(q) \in Nat /\ tokens[q] \in Nat
    BY Local DEF TcpIInv, TcpTypeOK, Entered
  <2>3. /\ \A q \in Rank : Sent(q) = Received(Next1(q)) + tokens[Next1(q)]
        /\ \A q, r \in Rank : q < r => Received(r) <= Sent(q)
        /\ \A q \in Rank : Received(0) <= Sent(q)
    BY DEF TcpIInv
  <2>4. CASE TcpEnter(p)
    <3>1. \A q \in Rank : Sent(q)' = Sent(q) /\ Received(q)' = Received(q) /\ tokens'[q] = tokens[q]
      BY <1>1, <2>1, <2>4, Steps DEF TcpEnter, Send, Recv
    <3> QED BY <1>0, <2>1, <2>3, <3>1, Ring DEF TcpIInv, Entered
  <2>5. CASE Send(p)
    <3>1. /\ Sent(p)' = Sent(p) + 1
          /\ \A q \in Rank : Received(q)' = Received(q)
          /\ \A q \in Rank : Sent(q)' >= Sent(q)
      <4>1. ~TcpEnter(p) /\ ~Recv(p)
        BY <2>5 DEF TcpEnter, Send, Recv
      <4>2. Sent(p)' = Sent(p) + 1 /\ Received(p)' = Received(p)
        BY <1>1, <4>1, Steps
      <4> QED BY <2>1, <2>2, <4>2
    <3>2. tokens'[Next1(p)] = tokens[Next1(p)] + 1 /\ \A q \in Rank : q # Next1(p) => tokens'[q] = tokens[q]
      BY <2>5, Ring DEF Send, TcpIInv, TcpTypeOK
    <3>3. ASSUME NEW q \in Rank PROVE Sent(q)' = Received(Next1(q))' + tokens'[Next1(q)]
      <4>1. Next1(q) \in Rank /\ Next1(p) \in Rank /\ (Next1(q) = Next1(p) => q = p)
        BY Ring
      <4>2. CASE q = p
        BY <2>2, <2>3, <3>1, <3>2, <4>1, <4>2
      <4>3. CASE q # p
        BY <2>1, <2>2, <2>3, <3>1, <3>2, <4>1, <4>3
      <4> QED BY <4>2, <4>3
    <3>4. \A q, r \in Rank : q < r => Received(r)' <= Sent(q)'
      BY <2>1, <2>2, <2>3, <3>1
    <3>5. \A q \in Rank : Received(0)' <= Sent(q)'
      BY <1>0, <2>1, <2>2, <2>3, <3>1
    <3> QED BY <2>1, <3>3, <3>4, <3>5 DEF TcpIInv, Entered
  <2>6. CASE Recv(p)
    <3>1. /\ Received(p)' = Received(p) + 1
          /\ \A q \in Rank : Sent(q)' = Sent(q)
      BY <1>1, <2>1, <2>6, Steps DEF TcpEnter, Send, Recv
    <3>2. tokens[p] > 0 /\ tokens'[p] = tokens[p] - 1 /\ \A q \in Rank : q # p => tokens'[q] = tokens[q]
      BY <2>6 DEF Recv, TcpIInv, TcpTypeOK
    <3>3. ASSUME NEW q \in Rank PROVE Sent(q)' = Received(Next1(q))' + tokens'[Next1(q)]
      <4>1. Next1(q) \in Rank
        BY Ring
      <4>2. CASE Next1(q) = p
        BY <2>2, <2>3, <3>1, <3>2, <4>1, <4>2
      <4>3. CASE Next1(q) # p
        BY <2>1, <2>2, <2>3, <3>1, <3>2, <4>1, <4>3
      <4> QED BY <4>2, <4>3
    <3>4. PICK prev \in Rank : Next1(prev) = p
      <4>1. CASE p = 0
        BY <1>0, <4>1 DEF Next1
      <4>2. CASE p # 0
        <5>1. p - 1 \in Rank /\ Next1(p - 1) = p
          BY <4>2 DEF Next1, Rank
        <5> QED BY <5>1
      <4> QED BY <4>1, <4>2
    <3>5. Received(p) + 1 <= Sent(prev)
      BY <2>2, <2>3, <3>2, <3>4
    <3>6. \A q \in Rank : q < p \/ p = 0 => Received(p) + 1 <= Sent(q)
      <4>1. ASSUME NEW q \in Rank, q < p \/ p = 0 PROVE Sent(prev) <= Sent(q)
        <5>1. q <= prev
          BY <3>4, <4>1, Ring DEF Rank
        <5>2. CASE prev = 0
          BY <2>2, <5>1, <5>2 DEF Rank
        <5>3. CASE prev # 0
          BY <5>1, <5>3, Chain
        <5> QED BY <5>2, <5>3
      <4> QED BY <2>2, <3>5, <4>1
    <3>7. \A q, r \in Rank : q < r => Received(r)' <= Sent(q)'
      BY <2>1, <2>2, <2>3, <3>1, <3>6
    <3>8. \A q \in Rank : Received(0)' <= Sent(q)'
      BY <1>0, <2>1, <2>2, <2>3, <3>1, <3>6
    <3> QED BY <2>1, <3>3, <3>7, <3>8 DEF TcpIInv, Entered
  <2> QED BY <1>1, <2>4, <2>5, <2>6 DEF TcpRun
<1>2. CASE UNCHANGED tcpVars
  <2>1. tcp_pc' = tcp_pc /\ tokens' = tokens /\ tcp_calls' = tcp_calls
    BY <1>2 DEF tcpVars
  <2>2. ASSUME NEW q \in Rank PROVE Sent(q)' = Sent(q) /\ Received(q)' = Received(q)
    <3>1. TcpReturned(q)' = TcpReturned(q)
      BY <2>1 DEF TcpReturned
    <3> QED BY <2>1, <3>1 DEF Sent, Received
  <2>3. TcpTypeOK' /\ \A q \in Rank : tcp_pc'[q] # "out" => tcp_calls'[q] > 0
    BY <2>1 DEF TcpIInv, TcpTypeOK
  <2>4. \A q \in Rank : Sent(q)' = Received(Next1(q))' + tokens'[Next1(q)]
    BY <2>1, <2>2, Ring DEF TcpIInv
  <2>5. /\ \A q, r \in Rank : q < r => Received(r)' <= Sent(q)'
        /\ \A q \in Rank : Received(0)' <= Sent(q)'
    BY <1>0, <2>2 DEF TcpIInv
  <2> QED BY <2>3, <2>4, <2>5 DEF TcpIInv
<1> QED BY <1>1, <1>2 DEF TcpNext

\* The invariant, for every N and MaxSyncs.
THEOREM TcpSyncInvariance == TcpSpec => []TcpIInv
<1>1. TcpInit => TcpIInv
  BY TcpSyncInit
<1>2. TcpIInv /\ [TcpNext]_tcpVars => TcpIInv'
  BY TcpSyncNext
<1> QED BY <1>1, <1>2, PTL DEF TcpSpec

\* One token at most is in the sockets, and none between two calls of everybody.
LEMMA TcpSyncOneTokenInv == TcpIInv => OneToken
<1> SUFFICES ASSUME TcpIInv PROVE OneToken
  OBVIOUS
<1> USE SyncAssumption
<1>0. 0 \in Rank /\ N - 1 \in Rank /\ N - 1 # 0
  BY DEF Rank
<1>1. \A p \in Rank : Sent(p) \in Nat /\ Received(p) \in Nat /\ tokens[p] \in Nat
  BY Local DEF TcpIInv, TcpTypeOK, Entered
<1>2. /\ \A p \in Rank : Sent(p) = Received(Next1(p)) + tokens[Next1(p)]
      /\ Sent(0) <= Received(0) + 1
      /\ \A p \in Rank : Received(0) <= Sent(p)
  BY <1>0, Local DEF TcpIInv, Entered
<1>3. \A p \in Rank : Sent(p) <= Sent(0)
  BY <1>0, <1>1, Chain DEF Rank
<1>4. ASSUME NEW p \in Rank PROVE \E q \in Rank : Next1(q) = p
  <2>1. CASE p = 0
    BY <1>0, <2>1 DEF Next1
  <2>2. CASE p # 0
    <3>1. p - 1 \in Rank /\ Next1(p - 1) = p
      BY <2>2 DEF Next1, Rank
    <3> QED BY <3>1
  <2> QED BY <2>1, <2>2
<1>5. ASSUME NEW p \in Rank, tokens[p] > 0
      PROVE  /\ tokens[p] = 1
             /\ \A q \in Rank : q < p => Sent(q) = Received(0) + 1
             /\ p # 0 => \A q \in Rank : p <= q => Sent(q) = Received(0)
             /\ p = 0 => \A q \in Rank : Sent(q) = Received(0) + 1
  <2>1. PICK r \in Rank : Next1(r) = p
    BY <1>4
  <2>2. Sent(r) = Received(p) + tokens[p] /\ Received(p) >= Received(0)
    <3>1. Sent(r) = Received(p) + tokens[p]
      BY <1>2, <2>1
    <3>2. CASE p = 0
      BY <1>1, <3>1, <3>2
    <3>3. CASE p # 0
      <4>1. Received(0) <= Sent(p) /\ Sent(p) <= Received(p)
        BY <1>2, <3>3, Local DEF TcpIInv, Entered
      <4> QED BY <1>0, <1>1, <3>1, <4>1
    <3> QED BY <3>1, <3>2, <3>3
  <2>3. Sent(r) <= Received(0) + 1
    BY <1>0, <1>1, <1>2, <1>3, <2>1
  <2>4. tokens[p] = 1 /\ Received(p) = Received(0) /\ Sent(r) = Received(0) + 1
    BY <1>0, <1>1, <1>5, <2>1, <2>2, <2>3
  <2>5. ASSUME NEW q \in Rank, q <= r PROVE Sent(q) = Received(0) + 1
    <3>1. Sent(r) <= Sent(q)
      <4>1. CASE r = 0
        BY <1>1, <2>1, <2>5, <4>1 DEF Rank
      <4>2. CASE r # 0
        BY <2>5, <4>2, Chain
      <4> QED BY <4>1, <4>2
    <3> QED BY <1>0, <1>1, <1>2, <1>3, <2>4, <3>1
  <2>6. ASSUME p # 0, NEW q \in Rank, p <= q PROVE Sent(q) = Received(0)
    <3>1. q # 0
      BY <2>6 DEF Rank
    <3>2. Sent(q) <= Received(p)
      BY <2>6, <3>1, Chain
    <3> QED BY <1>0, <1>1, <1>2, <2>4, <3>2
  <2>7. /\ \A q \in Rank : q < p => q <= r
        /\ p = 0 => \A q \in Rank : q <= r
    BY <2>1, Ring DEF Rank
  <2> QED BY <2>4, <2>5, <2>6, <2>7
<1>6. ASSUME NEW p \in Rank, NEW q \in Rank, tokens[p] > 0, tokens[q] > 0 PROVE p = q
  <2>1. \A a, b \in Rank : tokens[a] > 0 /\ tokens[b] > 0 => ~(a < b)
    <3>1. SUFFICES ASSUME NEW a \in Rank, NEW b \in Rank, tokens[a] > 0, tokens[b] > 0, a < b
                   PROVE  FALSE
      OBVIOUS
    <3>2. b # 0 /\ Sent(a) = Received(0) + 1 /\ Sent(b) = Received(0)
      BY <1>5, <3>1 DEF Rank
    <3>3. CASE a = 0
      BY <1>0, <1>1, <1>5, <3>1, <3>2, <3>3
    <3>4. CASE a # 0
      BY <1>0, <1>1, <1>5, <3>1, <3>2, <3>4 DEF Rank
    <3> QED BY <3>3, <3>4
  <2> QED BY <1>6, <2>1 DEF Rank
<1>7. ASSUME \A p \in Rank : tcp_pc[p] = "out" /\ tcp_calls[p] = tcp_calls[0], NEW p \in Rank
      PROVE  tokens[p] = 0
  <2>1. \A q \in Rank : Sent(q) = 2 * tcp_calls[0] /\ Received(q) = 2 * tcp_calls[0]
    <3>1. ASSUME NEW q \in Rank PROVE Sent(q) = 2 * tcp_calls[0] /\ Received(q) = 2 * tcp_calls[0]
      <4>1. tcp_calls[q] \in Nat /\ tcp_calls[q] = tcp_calls[0] /\ tcp_pc[q] = "out"
        BY <1>7 DEF TcpIInv, TcpTypeOK
      <4>2. TcpReturned(q) = tcp_calls[0]
        BY <4>1 DEF TcpReturned
      <4> QED BY <4>1, <4>2 DEF Sent, Received
    <3> QED BY <3>1
  <2>2. PICK r \in Rank : Next1(r) = p
    BY <1>4
  <2>3. Sent(r) = Received(p) + tokens[p]
    BY <1>2, <2>2
  <2> QED BY <1>1, <2>1, <2>2, <2>3
<1> QED BY <1>5, <1>6, <1>7 DEF OneToken

\* So it is in every state of the job.
THEOREM TcpSyncOneToken == TcpSpec => []OneToken
BY TcpSyncOneTokenInv, TcpSyncInvariance, PTL

\* Both start alike.
LEMMA TcpInitBarrier == TcpInit => TcpBarrier!Init
BY SyncAssumption DEF TcpInit, TcpReturned, TcpBarrier!Init

\* tcp_sync() implements the barrier of MP_Sync() step by step: entering is entering, the
\* fourth call on the sockets is leaving, and every other step is invisible.
LEMMA TcpStepBarrier == TcpIInv /\ [TcpNext]_tcpVars => [TcpBarrier!Next]_TcpBarrier!barrierVars
<1> USE SyncAssumption DEF TcpBarrier!Init, TcpBarrier!Next, TcpBarrier!barrierVars
<1> SUFFICES ASSUME TcpIInv, [TcpNext]_tcpVars PROVE [TcpBarrier!Next]_TcpBarrier!barrierVars
  OBVIOUS
<1>1. ASSUME NEW p \in Rank, TcpEnter(p) PROVE TcpBarrier!Enter(p)
  <2>1. /\ tcp_pc[p] = "out" /\ tcp_pc'[p] # "out" /\ tcp_calls[p] \in Nat /\ tcp_calls'[p] = tcp_calls[p] + 1
        /\ \A q \in Rank : q # p => tcp_pc'[q] = tcp_pc[q] /\ tcp_calls'[q] = tcp_calls[q]
    BY <1>1 DEF TcpIInv, TcpTypeOK, TcpEnter, Goto, After
  <2>2. \A q \in Rank : TcpReturned(q)' = TcpReturned(q)
    BY <2>1 DEF TcpReturned
  <2>3. [q \in Rank |-> TcpReturned(q)]' = [q \in Rank |-> TcpReturned(q)]
    BY <2>2
  <2>4. TcpReturned(p) = tcp_calls[p]
    BY <2>1 DEF TcpReturned
  <2> QED BY <1>1, <2>3, <2>4 DEF TcpEnter, TcpBarrier!Enter
<1>2. ASSUME NEW p \in Rank, Send(p) \/ Recv(p), tcp_pc'[p] # "out"
      PROVE  UNCHANGED TcpBarrier!barrierVars
  <2>1. /\ tcp_pc[p] # "out" /\ tcp_calls' = tcp_calls
        /\ \A q \in Rank : q # p => tcp_pc'[q] = tcp_pc[q]
    BY <1>2 DEF TcpIInv, TcpTypeOK, Send, Recv, Goto
  <2>2. \A q \in Rank : TcpReturned(q)' = TcpReturned(q)
    BY <1>2, <2>1 DEF TcpReturned
  <2> QED BY <2>1, <2>2
<1>3. ASSUME NEW p \in Rank, Send(p) \/ Recv(p), tcp_pc'[p] = "out"
      PROVE  TcpBarrier!Leave(p)
  <2>1. /\ tcp_pc[p] # "out" /\ tcp_calls' = tcp_calls /\ tcp_calls[p] \in Nat /\ tcp_calls[p] > 0
        /\ \A q \in Rank : q # p => tcp_pc'[q] = tcp_pc[q]
    BY <1>3 DEF TcpIInv, TcpTypeOK, Send, Recv, Goto
  <2>2. tcp_pc[p] = IF p = 0 THEN "r4" ELSE "r1"
    BY <1>3 DEF TcpIInv, TcpTypeOK, Send, Recv, Goto, After
  <2>3. 0 \in Rank
    BY DEF Rank
  <2>4. \A q \in Rank : Sent(q) \in Nat /\ Received(q) \in Nat /\ Sent(q) <= 2 * tcp_calls[q]
                        /\ tcp_calls[q] \in Nat
    BY Local DEF TcpIInv, TcpTypeOK, Entered
  <2>5. Sent(0) >= 2 * tcp_calls[p]
    <3>1. TcpReturned(p) = tcp_calls[p] - 1
      BY <2>1 DEF TcpReturned
    <3>2. CASE p = 0
      BY <2>1, <2>2, <3>1, <3>2 DEF Sent
    <3>3. CASE p # 0
      <4>1. Received(p) = 2 * tcp_calls[p]
        BY <2>1, <2>2, <3>1, <3>3 DEF Received
      <4>2. Received(p) <= Sent(0)
        BY <2>3, <3>3 DEF TcpIInv, Rank
      <4> QED BY <4>1, <4>2
    <3> QED BY <3>2, <3>3
  <2>6. Sent(0) <= Received(0) + 1 /\ \A q \in Rank : Received(0) <= Sent(q)
    BY <2>3, Local DEF TcpIInv, Entered
  <2>7. ASSUME NEW q \in Rank PROVE tcp_calls[q] >= tcp_calls[p]
    <3>1. 2 * tcp_calls[p] <= 2 * tcp_calls[q] + 1
      BY <2>3, <2>4, <2>5, <2>6
    <3> QED BY <2>1, <2>4, <3>1
  <2>8. [q \in Rank |-> TcpReturned(q)]' = [[q \in Rank |-> TcpReturned(q)] EXCEPT ![p] = @ + 1]
    <3>1. \A q \in Rank : TcpReturned(q)' = IF q = p THEN TcpReturned(q) + 1 ELSE TcpReturned(q)
      BY <1>3, <2>1 DEF TcpReturned
    <3> QED BY <3>1
  <2>9. TcpReturned(p) = tcp_calls[p] - 1
    BY <2>1 DEF TcpReturned
  <2> QED BY <2>1, <2>7, <2>8, <2>9 DEF TcpBarrier!Leave
<1>4. CASE UNCHANGED tcpVars
  BY <1>4 DEF tcpVars, TcpReturned
<1> QED BY <1>1, <1>2, <1>3, <1>4 DEF TcpNext, TcpRun

\* tcp_sync() implements the barrier of MP_Sync().
THEOREM TcpSyncImplementsBarrier == TcpSpec => TcpImplementsBarrier
BY TcpInitBarrier, TcpStepBarrier, TcpSyncInvariance, PTL DEF TcpSpec, TcpImplementsBarrier, TcpBarrier!Spec

---------------------------------------------------------------------------
(***************************************************************************)
(* MP_Sync() is one or the other.                                          *)
(***************************************************************************)

\* The implementation in use keeps its invariant, and the other one does not move.
SyncIInv == smp_mode \in BOOLEAN /\ SmpIInv /\ TcpIInv

\* Whatever the mode, each of the two takes a step of its own or none.
LEMMA Parts ==
  [SyncNext]_syncVars => [SmpNext]_smpVars /\ [TcpNext]_tcpVars /\ UNCHANGED smp_mode
<1> SUFFICES ASSUME [SyncNext]_syncVars
             PROVE  [SmpNext]_smpVars /\ [TcpNext]_tcpVars /\ UNCHANGED smp_mode
  OBVIOUS
<1>1. ASSUME NEW p \in Rank, smp_mode /\ SmpRun(p) /\ UNCHANGED <<smp_mode, tcpVars>>
      PROVE  SmpNext /\ UNCHANGED tcpVars /\ UNCHANGED smp_mode
  BY <1>1 DEF SmpNext
<1>2. ASSUME NEW p \in Rank, ~smp_mode /\ TcpRun(p) /\ UNCHANGED <<smp_mode, smpVars>>
      PROVE  TcpNext /\ UNCHANGED smpVars /\ UNCHANGED smp_mode
  BY <1>2 DEF TcpNext
<1>3. CASE UNCHANGED syncVars
  BY <1>3 DEF syncVars
<1> QED BY <1>1, <1>2, <1>3 DEF SyncNext, SyncRun

\* The invariants of both hold in every state.
THEOREM MPSyncInvariance == SyncSpec => []SyncIInv
<1>1. SyncInit => SyncIInv
  BY SmpSyncInit, TcpSyncInit DEF SyncInit, SyncIInv
<1>2. SyncIInv /\ [SyncNext]_syncVars => SyncIInv'
  BY Parts, SmpSyncNext, TcpSyncNext DEF SyncIInv
<1> QED BY <1>1, <1>2, PTL DEF SyncSpec

\* In one mode a step of MP_Sync() is a step of smp_sync(), in the other one of
\* tcp_sync(), and those are steps of the barrier.
LEMMA StepBarrier == SyncIInv /\ [SyncNext]_syncVars => [Promise!Next]_Promise!barrierVars
<1> SUFFICES ASSUME SyncIInv, [SyncNext]_syncVars PROVE [Promise!Next]_Promise!barrierVars
  OBVIOUS
<1>1. CASE smp_mode
  <2>1. smp_mode' /\ [SmpBarrier!Next]_SmpBarrier!barrierVars
    BY <1>1, Parts, SmpStepBarrier DEF SyncIInv
  <2>2. /\ CallsMade = smp_calls /\ Returns = [p \in Rank |-> SmpReturned(p)]
        /\ CallsMade' = smp_calls' /\ Returns' = [p \in Rank |-> SmpReturned(p)]'
    BY <1>1, <2>1 DEF CallsMade, Returns
  <2> QED BY <2>1, <2>2 DEF Promise!Next, Promise!barrierVars, Promise!Enter, Promise!Leave,
                            SmpBarrier!Next, SmpBarrier!barrierVars, SmpBarrier!Enter, SmpBarrier!Leave
<1>2. CASE ~smp_mode
  <2>1. ~smp_mode' /\ [TcpBarrier!Next]_TcpBarrier!barrierVars
    BY <1>2, Parts, TcpStepBarrier DEF SyncIInv
  <2>2. /\ CallsMade = tcp_calls /\ Returns = [p \in Rank |-> TcpReturned(p)]
        /\ CallsMade' = tcp_calls' /\ Returns' = [p \in Rank |-> TcpReturned(p)]'
    BY <1>2, <2>1 DEF CallsMade, Returns
  <2> QED BY <2>1, <2>2 DEF Promise!Next, Promise!barrierVars, Promise!Enter, Promise!Leave,
                            TcpBarrier!Next, TcpBarrier!barrierVars, TcpBarrier!Enter, TcpBarrier!Leave
<1> QED BY <1>1, <1>2

\* MP_Sync() implements the barrier it promises, in either mode.
THEOREM MPSyncImplementsBarrier == SyncSpec => ImplementsBarrier
<1>1. SyncInit => Promise!Init
  BY DEF SyncInit, SmpInit, TcpInit, SmpReturned, TcpReturned, CallsMade, Returns, Promise!Init
<1> QED BY <1>1, StepBarrier, MPSyncInvariance, PTL DEF SyncSpec, ImplementsBarrier, Promise!Spec

\* While the job runs on one node nobody returns from its k-th smp_sync() before all
\* have entered their k-th, and while it does not the ring holds one token at most.
THEOREM MPSyncSafe == SyncSpec => []Together /\ []OneToken
<1>1. SyncIInv => Together
  BY DEF SyncIInv, SmpIInv
<1>2. TcpIInv => OneToken
  BY TcpSyncOneTokenInv
<1> QED BY <1>1, <1>2, MPSyncInvariance, PTL DEF SyncIInv

---------------------------------------------------------------------------
(***************************************************************************)
(* Messages through shared memory.                                         *)
(***************************************************************************)

HdrType  == [flag : Int, nbytes : Nat, tag : Int, num : Int]
PcType   == {"call", "fifo", "ready", "read", "wait", "abort", "crash", "spin"}
SentType == [to : Proc, tag : Int, nbytes : Nat, at : Int]

\* What the calls and the headers are made of; a process inside a call has one.
PoolTypes ==
  /\ todo \in [Proc -> Seq(CallType)]
  /\ pc \in [Proc -> PcType]
  /\ \A p \in Proc : pc[p] \in {"fifo", "ready", "read", "wait"} => todo[p] # << >>
  /\ hdr \in [Proc -> [0 .. PoolSize - 1 -> HdrType]]
  /\ sent \in [Proc -> Seq(SentType)]
  /\ stack \in [Proc -> Seq(Int)]

\* The entries of p's list, in a form each step preserves: contiguous, in the
\* order of their addresses, after nil_entry, which stays empty.
ListOf(p, list) ==
  /\ \A k \in 1 .. Len(list) :
       /\ list[k] \in 1 .. PoolSize - 1
       /\ list[k] = End(p, IF k = 1 THEN Nil ELSE list[k - 1])
       /\ End(p, list[k]) < PoolSize
  /\ \A k, m \in 1 .. Len(list) : k < m => list[k] < list[m]

PoolInv ==
  /\ PoolTypes
  /\ \A p \in Proc : hdr[p][Nil].nbytes = 0 /\ ListOf(p, stack[p])

-----------------------------------------------------------------------------

\* The invariant is as strong as the property.
LEMMA PoolInvStrong == PoolInv => ListInPool
  BY DEF PoolInv, ListOf, ListInPool

\* All lists are empty at the start.
LEMMA InitPool == Init => PoolInv
  <1> SUFFICES ASSUME Init PROVE PoolInv
    OBVIOUS
  <1> USE ShmMsgAssumption
  <1>1. todo \in [Proc -> Seq(CallType)]
    BY DEF Init
  <1>2. Blank \in HdrType /\ Blank.nbytes = 0
    BY DEF Blank, HdrType
  <1>3. hdr \in [Proc -> [0 .. PoolSize - 1 -> HdrType]] /\ \A p \in Proc : hdr[p][Nil].nbytes = 0
    BY <1>2 DEF Init, Nil
  <1>4. \A p \in Proc : stack[p] = << >> /\ sent[p] = << >>
    BY DEF Init
  <1>5. PoolTypes
    <2>1. pc \in [Proc -> PcType] /\ \A p \in Proc : pc[p] = "call"
      BY DEF Init, PcType
    <2>2. sent \in [Proc -> Seq(SentType)] /\ stack \in [Proc -> Seq(Int)]
      BY DEF Init, PcType
    <2> QED
      BY <1>1, <1>3, <2>1, <2>2 DEF PoolTypes
  <1> QED
    BY <1>3, <1>4, <1>5 DEF PoolInv, ListOf

\* A step that changes no size in a pool, and leaves the lists, keeps the lists.
LEMMA SizesKept ==
  ASSUME PoolInv, PoolTypes', stack' = stack,
         \A p \in Proc : \A a \in 0 .. PoolSize - 1 : hdr'[p][a].nbytes = hdr[p][a].nbytes
  PROVE  PoolInv'
  <1> USE ShmMsgAssumption
  <1>1. SUFFICES ASSUME NEW p \in Proc PROVE hdr'[p][Nil].nbytes = 0 /\ ListOf(p, stack[p])'
    BY DEF PoolInv
  <1>2. hdr'[p][Nil].nbytes = 0
    BY DEF PoolInv, Nil
  <1>3. \A a \in 0 .. PoolSize - 1 : End(p, a)' = End(p, a)
    BY DEF End
  <1>4. \A k \in 1 .. Len(stack[p]) :
           /\ stack[p][k] \in 0 .. PoolSize - 1
           /\ (IF k = 1 THEN Nil ELSE stack[p][k - 1]) \in 0 .. PoolSize - 1
    <2>1. stack[p] \in Seq(Int) /\ Len(stack[p]) \in Nat
      BY DEF PoolInv, PoolTypes
    <2>2. \A k \in 1 .. Len(stack[p]) : stack[p][k] \in 1 .. PoolSize - 1
      BY DEF PoolInv, ListOf
    <2>3. \A k \in 1 .. Len(stack[p]) : k # 1 => k - 1 \in 1 .. Len(stack[p])
      BY <2>1
    <2> QED
      BY <2>2, <2>3 DEF Nil
  <1>5. \A k \in 1 .. Len(stack[p]) :
           /\ End(p, stack[p][k])' = End(p, stack[p][k])
           /\ End(p, IF k = 1 THEN Nil ELSE stack[p][k - 1])'
                = End(p, IF k = 1 THEN Nil ELSE stack[p][k - 1])
    BY <1>4 DEF End
  <1> QED
    BY <1>2, <1>5 DEF PoolInv, ListOf

\* Collection leaves a list of the same kind.
LEMMA PrefixList ==
  ASSUME PoolInv, NEW p \in Proc, NEW k \in 0 .. Len(stack[p])
  PROVE  LET list == SubSeq(stack[p], 1, k)
         IN  list \in Seq(Int) /\ Len(list) = k /\ ListOf(p, list)
  <1> DEFINE list == SubSeq(stack[p], 1, k)
  <1>1. stack[p] \in Seq(Int) /\ Len(stack[p]) \in Nat
    BY DEF PoolInv, PoolTypes
  <1>2. list \in Seq(Int) /\ Len(list) = k /\ \A m \in 1 .. k : list[m] = stack[p][m]
    BY <1>1, SubSeqProperties
  <1>3. ListOf(p, stack[p])
    BY DEF PoolInv
  <1>4. \A m \in 1 .. k : m \in 1 .. Len(stack[p]) /\ (m # 1 => m - 1 \in 1 .. k)
    BY <1>1
  <1> HIDE DEF list
  <1>5. ListOf(p, list)
    BY <1>2, <1>3, <1>4 DEF ListOf
  <1> QED
    BY <1>2, <1>5 DEF list

\* The call a process is in.
LEMMA CallTyped ==
  ASSUME PoolTypes, NEW p \in Proc, todo[p] # << >>
  PROVE  Call(p) \in CallType /\ Tail(todo[p]) \in Seq(CallType)
  <1>1. todo[p] \in Seq(CallType)
    BY DEF PoolTypes
  <1> QED
    BY <1>1, HeadTailProperties DEF Call

\* Where a new entry goes: after all entries of the list, and inside the pool.
LEMMA PlaceFor ==
  ASSUME PoolInv, NEW p \in Proc, NEW list \in Seq(Int), ListOf(p, list),
         NEW size \in Nat, Fits(p, Current(list), size)
  PROVE  LET a == End(p, Current(list))
         IN  /\ a \in 1 .. PoolSize - 1 /\ a + 1 + size < PoolSize
             /\ Current(list) \in 0 .. a - 1
             /\ \A k \in 1 .. Len(list) : list[k] < a
  <1> USE ShmMsgAssumption
  <1>1. Len(list) \in Nat
    OBVIOUS
  <1>2. hdr[p] \in [0 .. PoolSize - 1 -> HdrType] /\ hdr[p][Nil].nbytes = 0
    BY DEF PoolInv, PoolTypes
  <1>3. CASE list = << >>
    <2>1. End(p, Current(list)) = 1 /\ Current(list) = 0
      BY <1>2, <1>3 DEF End, Current, Nil
    <2>2. PoolSize - 1 > 1 + size
      BY <2>1 DEF Fits
    <2>3. 1 \in 1 .. PoolSize - 1 /\ 1 + 1 + size < PoolSize /\ 0 \in 0 .. 1 - 1
      BY <2>2
    <2>4. \A k \in 1 .. Len(list) : list[k] < 1
      BY <1>3
    <2> QED
      BY <2>1, <2>3, <2>4
  <1>4. CASE list # << >>
    <2>1. Len(list) \in 1 .. Len(list) /\ Current(list) = list[Len(list)]
      BY <1>1, <1>4 DEF Current, Last
    <2>2. Current(list) \in 1 .. PoolSize - 1
      BY <2>1 DEF ListOf
    <2>3. hdr[p][Current(list)].nbytes \in Nat
      <3>1. Current(list) \in 0 .. PoolSize - 1
        BY <2>2
      <3>2. hdr[p][Current(list)] \in HdrType
        <4> HIDE DEF HdrType
        <4> QED BY <1>2, <3>1
      <3> QED BY <3>2 DEF HdrType
    <2>4. \A k \in 1 .. Len(list) : list[k] <= list[Len(list)]
      BY <1>1, <2>1 DEF ListOf
    <2> DEFINE a == End(p, Current(list))
    <2>5. a = Current(list) + 1 + hdr[p][Current(list)].nbytes
      BY DEF End
    <2>6. PoolSize - a > 1 + size
      BY DEF Fits
    <2> DEFINE c == Current(list)
               n == hdr[p][Current(list)].nbytes
    <2>7. c \in 1 .. PoolSize - 1 /\ n \in Nat /\ a = c + 1 + n
      BY <2>2, <2>3, <2>5
    <2> HIDE DEF a, c, n
    <2>8. a \in 1 .. PoolSize - 1 /\ a + 1 + size < PoolSize /\ c \in 0 .. a - 1
      BY <2>6, <2>7
    <2>9. a \in 1 .. PoolSize - 1 /\ a + 1 + size < PoolSize /\ Current(list) \in 0 .. a - 1
      BY <2>8 DEF c
    <2>10. \A k \in 1 .. Len(list) : list[k] < a
      <3>1. list[Len(list)] \in Int /\ list[Len(list)] < a
        BY <2>1, <2>2, <2>9
      <3>2. \A k \in 1 .. Len(list) : list[k] \in Int
        OBVIOUS
      <3> QED
        BY <2>4, <2>9, <3>1, <3>2
    <2> QED
      BY <2>9, <2>10 DEF a
  <1> QED
    BY <1>3, <1>4

\* Placing a message keeps the list in order and inside the pool, whether it
\* goes after the entries in use or over entries that are forgotten.
LEMMA PlaceKeeps ==
  ASSUME PoolInv, NEW p \in Proc, Calls(p, "send"), NEW list \in Seq(Int), ListOf(p, list),
         Fits(p, Current(list), Call(p).size), Place(p, list), todo' = todo
  PROVE  PoolInv'
  <1> USE ShmMsgAssumption
  <1>0. PICK a, size : a = End(p, Current(list)) /\ size = Call(p).size
    OBVIOUS
  <1> DEFINE new == Append(list, a)
  <1>1. Call(p) \in CallType /\ size \in Nat
    BY <1>0, CallTyped DEF Calls, PoolInv, CallType
  <1>2. /\ a \in 1 .. PoolSize - 1 /\ a + 1 + size < PoolSize
        /\ Current(list) \in 0 .. a - 1
        /\ \A k \in 1 .. Len(list) : list[k] < a
    BY <1>0, <1>1, PlaceFor
  <1>3. Len(sent[p]) \in Nat /\ sent[p] \in Seq(SentType)
    BY DEF PoolInv, PoolTypes
  <1> DEFINE top == [flag |-> 0, nbytes |-> size, tag |-> Call(p).tag, num |-> Len(sent[p]) + 1]
             cell(b) == IF b = a THEN top ELSE IF b \in a + 1 .. a + size THEN Blank ELSE hdr[p][b]
  <1>4. /\ stack' = [stack EXCEPT ![p] = new]
        /\ hdr' = [hdr EXCEPT ![p] = [b \in DOMAIN @ |-> cell(b)]]
    BY <1>0 DEF Place
  <1>5. hdr \in [Proc -> [0 .. PoolSize - 1 -> HdrType]]
    BY DEF PoolInv, PoolTypes
  <1>6. \A b \in 0 .. PoolSize - 1 : cell(b) \in HdrType
    <2>1. top \in HdrType /\ Blank \in HdrType
      BY <1>1, <1>3 DEF HdrType, Blank, CallType
    <2> QED
      BY <1>5, <2>1
  <1> HIDE DEF cell
  <1>7. hdr' \in [Proc -> [0 .. PoolSize - 1 -> HdrType]]
    BY <1>4, <1>5, <1>6
  <1>8. /\ hdr'[p][a].nbytes = size
        /\ \A b \in 0 .. a - 1 : hdr'[p][b] = hdr[p][b]
    <2>1. \A b \in 0 .. PoolSize - 1 : hdr'[p][b] = cell(b)
      BY <1>4, <1>5
    <2>2. cell(a) = top /\ top.nbytes = size
      BY DEF cell
    <2>3. \A b \in 0 .. a - 1 : cell(b) = hdr[p][b]
      BY <1>1, <1>2 DEF cell
    <2>4. a \in 0 .. PoolSize - 1 /\ \A b \in 0 .. a - 1 : b \in 0 .. PoolSize - 1
      BY <1>2
    <2> QED
      BY <2>1, <2>2, <2>3, <2>4
  <1>9. /\ new \in Seq(Int) /\ Len(new) = Len(list) + 1 /\ new[Len(list) + 1] = a
        /\ \A k \in 1 .. Len(list) : new[k] = list[k]
    BY <1>2, AppendProperties
  <1>10. PoolTypes'
    <2>1. todo' = todo /\ pc' = [pc EXCEPT ![p] = "fifo"] /\ todo[p] # << >>
      BY DEF Place, Calls
    <2>2. sent' \in [Proc -> Seq(SentType)]
      <3>1. [to |-> Call(p).peer, tag |-> Call(p).tag, nbytes |-> size, at |-> a] \in SentType
        BY <1>1, <1>2 DEF SentType, CallType
      <3>2. sent' = [sent EXCEPT ![p] = Append(@, [to |-> Call(p).peer, tag |-> Call(p).tag,
                                                  nbytes |-> size, at |-> a])]
        BY <1>0 DEF Place
      <3> QED
        BY <1>3, <3>1, <3>2 DEF PoolInv, PoolTypes
    <2>3. stack' \in [Proc -> Seq(Int)]
      BY <1>4, <1>9 DEF PoolInv, PoolTypes
    <2>4. pc' \in [Proc -> PcType] /\ \A q \in Proc : q # p => pc'[q] = pc[q]
      BY <2>1 DEF PoolInv, PoolTypes, PcType
    <2> QED
      BY <1>7, <2>1, <2>2, <2>3, <2>4 DEF PoolInv, PoolTypes
  <1>11. ASSUME NEW q \in Proc, q # p
         PROVE  hdr'[q][Nil].nbytes = 0 /\ ListOf(q, stack[q])'
    <2>1. hdr'[q] = hdr[q] /\ stack'[q] = stack[q]
      BY <1>4, <1>5, <1>11 DEF PoolInv, PoolTypes
    <2> QED
      BY <2>1 DEF PoolInv, ListOf, End
  <1>12. hdr'[p][Nil].nbytes = 0
    <2>1. Nil \in 0 .. a - 1
      BY <1>2 DEF Nil
    <2> QED
      BY <1>8, <2>1 DEF PoolInv
  <1>13. stack'[p] = new
    BY <1>4 DEF PoolInv, PoolTypes
  <1>14. ListOf(p, new)'
    <2>0. Len(list) \in Nat
      OBVIOUS
    <2>1. \A b \in 0 .. a - 1 : End(p, b)' = End(p, b)
      BY <1>8 DEF End
    <2>2. End(p, a)' = a + 1 + size
      BY <1>8 DEF End
    <2> DEFINE before(k) == IF k = 1 THEN Nil ELSE list[k - 1]
    <2>3. \A k \in 1 .. Len(list) + 1 : before(k) \in 0 .. a - 1
      <3>1. \A k \in 1 .. Len(list) : list[k] \in 0 .. a - 1
        BY <1>2 DEF ListOf
      <3>2. \A k \in 1 .. Len(list) + 1 : k # 1 => k - 1 \in 1 .. Len(list)
        BY <2>0
      <3> QED
        BY <1>2, <3>1, <3>2 DEF Nil
    <2>4. before(Len(list) + 1) = Current(list)
      BY <2>0 DEF Current, Last
    <2>5. \A k \in 1 .. Len(list) + 1 : (IF k = 1 THEN Nil ELSE new[k - 1]) = before(k)
      BY <1>9, <2>0
    <2>6. \A k \in 1 .. Len(new) :
            /\ new[k] \in 1 .. PoolSize - 1
            /\ new[k] = End(p, before(k))'
            /\ End(p, new[k])' < PoolSize
      <3>1. SUFFICES ASSUME NEW k \in 1 .. Len(list) + 1
                     PROVE  /\ new[k] \in 1 .. PoolSize - 1
                            /\ new[k] = End(p, before(k))'
                            /\ End(p, new[k])' < PoolSize
        BY <1>9
      <3>2. CASE k = Len(list) + 1
        BY <1>0, <1>2, <1>9, <2>1, <2>2, <2>3, <2>4, <3>2
      <3>3. CASE k # Len(list) + 1
        <4>1. k \in 1 .. Len(list) /\ new[k] = list[k]
          BY <1>9, <2>0, <3>1, <3>3
        <4>2. /\ list[k] \in 1 .. PoolSize - 1 /\ list[k] = End(p, before(k))
              /\ End(p, list[k]) < PoolSize /\ list[k] \in 0 .. a - 1
          BY <1>2, <4>1 DEF ListOf
        <4> QED
          BY <2>1, <2>3, <4>1, <4>2
      <3> QED
        BY <3>2, <3>3
    <2>7. \A k, m \in 1 .. Len(new) : k < m => new[k] < new[m]
      <3>1. SUFFICES ASSUME NEW k \in 1 .. Len(list) + 1, NEW m \in 1 .. Len(list) + 1, k < m
                     PROVE  new[k] < new[m]
        BY <1>9
      <3>2. k \in 1 .. Len(list) /\ new[k] = list[k] /\ (m = Len(list) + 1 \/ m \in 1 .. Len(list))
        BY <1>9, <2>0, <3>1
      <3>3. CASE m = Len(list) + 1
        BY <1>2, <1>9, <3>2, <3>3
      <3>4. CASE m \in 1 .. Len(list)
        BY <1>9, <3>1, <3>2, <3>4 DEF ListOf
      <3> QED
        BY <3>2, <3>3, <3>4
    <2> HIDE DEF new
    <2> QED
      BY <1>9, <2>5, <2>6, <2>7 DEF ListOf
  <1> QED
    BY <1>10, <1>11, <1>12, <1>13, <1>14 DEF PoolInv

\* Somebody stores v in the flag of the entry at a of s.
Marked(s, a, v) == hdr' = [hdr EXCEPT ![s][a].flag = v]

\* A mark changes no size, wherever the pointer points.
LEMMA MarkKeeps ==
  ASSUME hdr \in [Proc -> [0 .. PoolSize - 1 -> HdrType]],
         NEW s, NEW a, NEW v \in Int, Marked(s, a, v)
  PROVE  /\ hdr' \in [Proc -> [0 .. PoolSize - 1 -> HdrType]]
         /\ \A p \in Proc : \A b \in 0 .. PoolSize - 1 : hdr'[p][b].nbytes = hdr[p][b].nbytes
  <1>1. \A p \in Proc : \A b \in 0 .. PoolSize - 1 :
           hdr'[p][b] = IF p = s /\ b = a THEN [hdr[p][b] EXCEPT !.flag = v] ELSE hdr[p][b]
    BY DEF Marked
  <1>2. \A h \in HdrType : /\ [h EXCEPT !.flag = v] \in HdrType
                           /\ [h EXCEPT !.flag = v].nbytes = h.nbytes
    BY DEF HdrType
  <1>3. hdr' = [p \in Proc |-> [b \in 0 .. PoolSize - 1 |-> hdr'[p][b]]]
    BY DEF Marked
  <1>4. \A p \in Proc : \A b \in 0 .. PoolSize - 1 :
           hdr'[p][b] \in HdrType /\ hdr'[p][b].nbytes = hdr[p][b].nbytes
    <2>1. SUFFICES ASSUME NEW p \in Proc, NEW b \in 0 .. PoolSize - 1
                   PROVE  hdr'[p][b] \in HdrType /\ hdr'[p][b].nbytes = hdr[p][b].nbytes
      OBVIOUS
    <2>2. hdr[p][b] \in HdrType
      OBVIOUS
    <2>3. CASE p = s /\ b = a
      <3>1. hdr'[p][b] = [hdr[p][b] EXCEPT !.flag = v]
        BY <1>1, <2>3
      <3> QED
        BY <1>2, <2>2, <3>1
    <2>4. CASE ~(p = s /\ b = a)
      <3>1. hdr'[p][b] = hdr[p][b]
        BY <1>1, <2>4
      <3> QED
        BY <2>2, <3>1
    <2> QED
      BY <2>3, <2>4
  <1> QED
    BY <1>3, <1>4

\* A step that leaves pool and list alone, and keeps the calls.
LEMMA PoolUntouched ==
  ASSUME PoolInv, UNCHANGED <<hdr, stack, sent>>,
         todo' \in [Proc -> Seq(CallType)], pc' \in [Proc -> PcType],
         \A p \in Proc : pc'[p] \in {"fifo", "ready", "read", "wait"} => todo'[p] # << >>
  PROVE  PoolInv'
  <1>1. PoolTypes'
    BY DEF PoolInv, PoolTypes
  <1> QED
    BY <1>1, SizesKept

\* The end of a call.
LEMMA ReturnKeeps ==
  ASSUME PoolTypes, NEW p \in Proc, todo[p] # << >>, Return(p)
  PROVE  /\ todo' \in [Proc -> Seq(CallType)] /\ pc' \in [Proc -> PcType]
         /\ \A q \in Proc : pc'[q] \in {"fifo", "ready", "read", "wait"} => todo'[q] # << >>
  <1>1. Tail(todo[p]) \in Seq(CallType)
    BY CallTyped
  <1>2. /\ todo' = [todo EXCEPT ![p] = Tail(todo[p])]
        /\ pc' = [pc EXCEPT ![p] = "call"]
    BY DEF Return
  <1>3. pc'[p] = "call" /\ \A q \in Proc : q # p => pc'[q] = pc[q] /\ todo'[q] = todo[q]
    BY <1>2 DEF PoolTypes
  <1>4. todo' \in [Proc -> Seq(CallType)] /\ pc' \in [Proc -> PcType]
    BY <1>1, <1>2 DEF PoolTypes, PcType
  <1> QED
    BY <1>3, <1>4 DEF PoolTypes

\* Another step inside a call, or the end of the process.
LEMMA MoveKeeps ==
  ASSUME PoolInv, NEW p \in Proc, NEW label \in PcType,
         UNCHANGED <<todo, hdr, stack, sent>>, pc' = [pc EXCEPT ![p] = label],
         label \in {"fifo", "ready", "read", "wait"} => todo[p] # << >>
  PROVE  PoolInv'
  <1>1. pc'[p] = label /\ \A q \in Proc : q # p => pc'[q] = pc[q]
    BY DEF PoolInv, PoolTypes
  <1>2. pc' \in [Proc -> PcType]
    BY DEF PoolInv, PoolTypes
  <1> QED
    BY <1>1, <1>2, PoolUntouched DEF PoolInv, PoolTypes

\* The end of the job.
LEMMA QuitKeeps ==
  ASSUME PoolInv, UNCHANGED <<todo, hdr, stack, sent>>, QuitAll
  PROVE  PoolInv'
  <1>1. pc' \in [Proc -> PcType] /\ \A q \in Proc : pc'[q] = "abort"
    BY DEF QuitAll, PcType
  <1> QED
    BY <1>1, PoolUntouched DEF PoolInv, PoolTypes

\* The end of a call that marks an entry.
LEMMA MarkAndReturn ==
  ASSUME PoolInv, NEW p \in Proc, todo[p] # << >>, Return(p), UNCHANGED <<stack, sent>>,
         NEW s, NEW a, NEW v \in Int, Marked(s, a, v)
  PROVE  PoolInv'
  <1>1. /\ hdr' \in [Proc -> [0 .. PoolSize - 1 -> HdrType]]
        /\ \A q \in Proc : \A b \in 0 .. PoolSize - 1 : hdr'[q][b].nbytes = hdr[q][b].nbytes
    BY MarkKeeps DEF PoolInv, PoolTypes
  <1>2. /\ todo' \in [Proc -> Seq(CallType)] /\ pc' \in [Proc -> PcType]
        /\ \A q \in Proc : pc'[q] \in {"fifo", "ready", "read", "wait"} => todo'[q] # << >>
    BY ReturnKeeps DEF PoolInv
  <1>3. PoolTypes'
    BY <1>1, <1>2 DEF PoolInv, PoolTypes
  <1> QED
    BY <1>1, <1>3, SizesKept

\* Collection, allocation, or the end.
LEMMA SendAllocKeeps == ASSUME PoolInv, NEW p \in Proc, SendAlloc(p) PROVE PoolInv'
  <1>1. Calls(p, "send") /\ todo' = todo /\ todo[p] # << >>
    BY DEF SendAlloc, Calls
  <1>2. PICK k \in 0 .. Len(stack[p]) :
          LET list == SubSeq(stack[p], 1, k)
              size == Call(p).size
          IN  \/ Fits(p, Current(list), size) /\ Place(p, list)
              \/ QuitAll /\ UNCHANGED <<poolVars, entry, sent, live>>
              \/ Fits(p, Nil, size) /\ Place(p, << >>)
              \/ /\ pc' = [pc EXCEPT ![p] = "spin"]
                 /\ UNCHANGED <<poolVars, entry, sent, live>>
    BY DEF SendAlloc
  <1> DEFINE list == SubSeq(stack[p], 1, k)
  <1>3. list \in Seq(Int) /\ ListOf(p, list)
    BY PrefixList
  <1>4. CASE Fits(p, Current(list), Call(p).size) /\ Place(p, list)
    <2> HIDE DEF list
    <2> QED
      BY <1>1, <1>3, <1>4, PlaceKeeps
  <1>5. CASE QuitAll /\ UNCHANGED <<poolVars, entry, sent, live>>
    BY <1>1, <1>5, QuitKeeps DEF poolVars
  <1>6. CASE Fits(p, Nil, Call(p).size) /\ Place(p, << >>)
    <2> DEFINE none == << >>
    <2>1. none \in Seq(Int) /\ ListOf(p, none) /\ Current(none) = Nil
      BY DEF ListOf, Current
    <2>2. Fits(p, Current(none), Call(p).size) /\ Place(p, none)
      BY <1>6, <2>1
    <2> HIDE DEF none
    <2> QED
      BY <1>1, <2>1, <2>2, PlaceKeeps
  <1>7. CASE pc' = [pc EXCEPT ![p] = "spin"] /\ UNCHANGED <<poolVars, entry, sent, live>>
    BY <1>1, <1>7, MoveKeeps DEF poolVars, PcType
  <1> QED
    BY <1>2, <1>4, <1>5, <1>6, <1>7

\* Every step preserves the invariant.
LEMMA NextPool == ASSUME PoolInv, [Next]_vars PROVE PoolInv'
  <1> USE DEF poolVars, queueVars, histVars
  <1>1. ASSUME NEW p \in Proc, SendAlloc(p) PROVE PoolInv'
    BY <1>1, SendAllocKeeps
  <1>2. ASSUME NEW p \in Proc, SendFifo(p) PROVE PoolInv'
    <2>1. /\ pc[p] = "fifo" /\ pc' = [pc EXCEPT ![p] = "ready"]
          /\ UNCHANGED <<todo, hdr, stack, sent>>
      BY <1>2 DEF SendFifo
    <2> QED
      BY <2>1, MoveKeeps DEF PoolInv, PoolTypes, PcType
  <1>3. ASSUME NEW p \in Proc, SendReady(p) PROVE PoolInv'
    <2>1. /\ pc[p] = "ready" /\ Return(p) /\ UNCHANGED <<stack, sent>>
          /\ hdr' = [hdr EXCEPT ![p][entry[p].at].flag = 1]
      BY <1>3 DEF SendReady
    <2>2. todo[p] # << >>
      BY <2>1 DEF PoolInv, PoolTypes
    <2>3. Marked(p, entry[p].at, 1)
      BY <2>1 DEF Marked
    <2> QED
      BY <2>1, <2>2, <2>3, MarkAndReturn
  <1>4. ASSUME NEW p \in Proc, RecvQueued(p) PROVE PoolInv'
    <2>1. PICK k \in 1 .. n_buffered[p] :
            LET h == slots[p][ring[p][k]]
            IN  CopyOut(p, Call(p).peer, h.entry, h.nbytes, h.tag)
      BY <1>4 DEF RecvQueued
    <2>2. todo[p] # << >> /\ Return(p) /\ UNCHANGED <<stack, sent>>
      BY <1>4, <2>1 DEF RecvQueued, Calls, CopyOut
    <2>3. Marked(Call(p).peer, slots[p][ring[p][k]].entry.at, -1)
      BY <2>1 DEF CopyOut, Marked
    <2> QED
      BY <2>2, <2>3, MarkAndReturn
  <1>5. ASSUME NEW p \in Proc, RecvSearch(p) PROVE PoolInv'
    <2>1. /\ todo[p] # << >> /\ pc' = [pc EXCEPT ![p] = "read"]
          /\ UNCHANGED <<todo, hdr, stack, sent>>
      BY <1>5 DEF RecvSearch, Calls
    <2> QED
      BY <2>1, MoveKeeps DEF PcType
  <1>6. ASSUME NEW p \in Proc, RecvRead(p) PROVE PoolInv'
    <2>1. UNCHANGED <<todo, hdr, stack, sent>>
      BY <1>6 DEF RecvRead
    <2>2. pc[p] = "read"
      BY <1>6 DEF RecvRead
    <2>3. \/ pc' = [pc EXCEPT ![p] = "wait"]
          \/ QuitAll
          \/ pc' = [pc EXCEPT ![p] = "crash"]
          \/ pc' = pc
      BY <1>6 DEF RecvRead
    <2>4. CASE pc' = [pc EXCEPT ![p] = "wait"]
      BY <2>1, <2>2, <2>4, MoveKeeps DEF PoolInv, PoolTypes, PcType
    <2>5. CASE QuitAll
      BY <2>1, <2>5, QuitKeeps
    <2>6. CASE pc' = [pc EXCEPT ![p] = "crash"]
      BY <2>1, <2>6, MoveKeeps DEF PcType
    <2>7. CASE pc' = pc
      BY <2>1, <2>7, PoolUntouched DEF PoolInv, PoolTypes
    <2> QED
      BY <2>3, <2>4, <2>5, <2>6, <2>7
  <1>7. ASSUME NEW p \in Proc, RecvCopy(p) PROVE PoolInv'
    <2>1. /\ pc[p] = "wait" /\ Return(p) /\ UNCHANGED <<stack, sent>>
          /\ hdr' = [hdr EXCEPT ![Call(p).peer][entry[p].at].flag = -1]
      BY <1>7 DEF RecvCopy, CopyOut
    <2>2. todo[p] # << >>
      BY <2>1 DEF PoolInv, PoolTypes
    <2>3. Marked(Call(p).peer, entry[p].at, -1)
      BY <2>1 DEF Marked
    <2> QED
      BY <2>1, <2>2, <2>3, MarkAndReturn
  <1>8. CASE UNCHANGED vars
    BY <1>8, PoolUntouched DEF vars, PoolInv, PoolTypes
  <1> QED
    BY <1>1, <1>2, <1>3, <1>4, <1>5, <1>6, <1>7, <1>8 DEF Next, Run

\* For every size of the pool, whatever the processes call: the entries on a
\* process's list are contiguous and inside its part of the pool, even after a
\* wrap that forgets entries in use (smp_send, shm.c:443-502).
THEOREM PoolListInPool == Spec => []ListInPool
  <1>1. PoolInv /\ [Next]_vars => PoolInv'
    BY NextPool
  <1> QED
    BY InitPool, <1>1, PoolInvStrong, PTL DEF Spec
-----------------------------------------------------------------------------
(* The types of the rest: the FIFOs, and the receiver's queue of headers.    *)

EntryType == [at : Int, num : Int]

\* The ring of a queue: all slots, the head last.
RingOf(r) == r \in Seq(1 .. MSG_Q_SIZE) /\ Len(r) = MSG_Q_SIZE
             /\ Range(r) = 1 .. MSG_Q_SIZE /\ Last(r) = Head_q

QueueTypes ==
  /\ fifo \in [Proc -> [Proc -> Seq(EntryType)]]
  /\ entry \in [Proc -> EntryType]
  /\ ptr \in [Proc -> 0 .. MSG_Q_SIZE]
  /\ n_buffered \in [Proc -> 0 .. MSG_Q_SIZE]
  /\ tail_q \in [Proc -> 1 .. MSG_Q_SIZE]
  /\ ring \in [Proc -> Seq(1 .. MSG_Q_SIZE)]

TypeInv ==
  /\ PoolInv
  /\ QueueTypes
  /\ \A p \in Proc : \A a \in 0 .. PoolSize - 1 : hdr[p][a].flag \in {-1, 0, 1}
  /\ \A p, q \in Proc : Len(fifo[p][q]) <= FifoCap
  /\ \A p \in Proc : RingOf(ring[p])

\* The invariant implies the property.
LEMMA TypeInvType == TypeInv => TypeOK
  <1> SUFFICES ASSUME TypeInv, NEW p \in Proc
               PROVE  /\ pc[p] \in PcType
                      /\ \A a \in 0 .. PoolSize - 1 : hdr[p][a].flag \in {-1, 0, 1} /\ hdr[p][a].nbytes \in Nat
                      /\ \A q \in Proc : Len(fifo[p][q]) <= FifoCap
                      /\ n_buffered[p] \in 0 .. MSG_Q_SIZE
                      /\ tail_q[p] \in 1 .. MSG_Q_SIZE /\ ptr[p] \in 0 .. MSG_Q_SIZE
                      /\ Range(ring[p]) = 1 .. MSG_Q_SIZE /\ Last(ring[p]) = Head_q
    BY DEF TypeOK, PcType
  <1>1. pc[p] \in PcType /\ \A a \in 0 .. PoolSize - 1 : hdr[p][a] \in HdrType
    BY DEF TypeInv, PoolInv, PoolTypes
  <1>2. \A a \in 0 .. PoolSize - 1 : hdr[p][a].nbytes \in Nat
    BY <1>1 DEF HdrType
  <1> QED
    BY <1>1, <1>2 DEF TypeInv, QueueTypes, RingOf

\* Taking an element out of a sequence, and putting one in.
LEMMA RemoveAtRange ==
  ASSUME NEW S, NEW s \in Seq(S), NEW i \in 1 .. Len(s)
  PROVE  /\ RemoveAt(s, i) \in Seq(S) /\ Len(RemoveAt(s, i)) = Len(s) - 1
         /\ Range(s) = Range(RemoveAt(s, i)) \cup {s[i]}
  <1>0. Len(s) \in Nat /\ \A j \in 1 .. Len(s) : s[j] \in S
    OBVIOUS
  <1>1. PICK a, b : a = SubSeq(s, 1, i - 1) /\ b = SubSeq(s, i + 1, Len(s))
    OBVIOUS
  <1>2. /\ a \in Seq(S) /\ Len(a) = i - 1 /\ \A j \in 1 .. i - 1 : a[j] = s[j]
    <2>1. \A j \in 1 .. i - 1 : s[j] \in S
      BY <1>0
    <2>2. i - 1 \in Int /\ 1 \in Int
      BY <1>0
    <2>3. /\ SubSeq(s, 1, i - 1) \in Seq(S)
          /\ Len(SubSeq(s, 1, i - 1)) = IF 1 <= i - 1 THEN (i - 1) - 1 + 1 ELSE 0
          /\ \A j \in 1 .. (i - 1) - 1 + 1 : SubSeq(s, 1, i - 1)[j] = s[1 + j - 1]
      BY <2>1, <2>2, SubSeqProperties
    <2> QED BY <1>0, <1>1, <2>3
  <1>3. /\ b \in Seq(S) /\ Len(b) = Len(s) - i /\ \A j \in 1 .. Len(s) - i : b[j] = s[i + j]
    <2>1. \A j \in i + 1 .. Len(s) : s[j] \in S
      BY <1>0
    <2>2. i + 1 \in Int /\ Len(s) \in Int
      BY <1>0
    <2>3. /\ SubSeq(s, i + 1, Len(s)) \in Seq(S)
          /\ Len(SubSeq(s, i + 1, Len(s))) = IF i + 1 <= Len(s) THEN Len(s) - (i + 1) + 1 ELSE 0
          /\ \A j \in 1 .. Len(s) - (i + 1) + 1 : SubSeq(s, i + 1, Len(s))[j] = s[(i + 1) + j - 1]
      BY <2>1, <2>2, SubSeqProperties
    <2> QED BY <1>0, <1>1, <2>3
  <1>4. PICK c : c = a \o b
    OBVIOUS
  <1>5. RemoveAt(s, i) = c
    BY <1>1, <1>4 DEF RemoveAt
  <1>6. /\ c \in Seq(S) /\ Len(c) = Len(s) - 1
        /\ \A j \in 1 .. Len(s) - 1 : c[j] = IF j <= i - 1 THEN s[j] ELSE s[j + 1]
    <2>1. /\ a \o b \in Seq(S) /\ Len(a \o b) = Len(a) + Len(b)
          /\ \A j \in 1 .. Len(a) + Len(b) : (a \o b)[j] = IF j <= Len(a) THEN a[j] ELSE b[j - Len(a)]
      BY <1>2, <1>3, ConcatProperties
    <2>2. Len(a) + Len(b) = Len(s) - 1
      BY <1>0, <1>2, <1>3
    <2>3. ASSUME NEW j \in 1 .. Len(s) - 1 PROVE c[j] = IF j <= i - 1 THEN s[j] ELSE s[j + 1]
      <3>1. CASE j <= i - 1
        BY <1>0, <1>2, <1>4, <2>1, <2>2, <3>1
      <3>2. CASE ~(j <= i - 1)
        <4>1. j - (i - 1) \in 1 .. Len(s) - i /\ i + (j - (i - 1)) = j + 1
          BY <1>0, <3>2
        <4>2. c[j] = b[j - (i - 1)]
          BY <1>0, <1>2, <1>4, <2>1, <2>2, <3>2
        <4>3. b[j - (i - 1)] = s[j + 1]
          BY <1>3, <4>1
        <4> QED BY <3>2, <4>2, <4>3
      <3> QED BY <3>1, <3>2
    <2> QED BY <1>4, <2>1, <2>2, <2>3
  <1>7. \A x : x \in Range(c) => x \in Range(s)
    BY <1>0, <1>6 DEF Range
  <1>8. \A j \in 1 .. Len(s) : s[j] \in Range(c) \cup {s[i]}
    <2> SUFFICES ASSUME NEW j \in 1 .. Len(s), j # i PROVE s[j] \in Range(c)
      OBVIOUS
    <2>1. CASE j < i
      <3>1. j \in 1 .. Len(s) - 1 /\ j <= i - 1
        BY <1>0, <2>1
      <3> QED BY <1>6, <3>1 DEF Range
    <2>2. CASE j > i
      <3>1. j - 1 \in 1 .. Len(s) - 1 /\ ~(j - 1 <= i - 1) /\ (j - 1) + 1 = j
        BY <1>0, <2>2
      <3>2. c[j - 1] = s[(j - 1) + 1] /\ DOMAIN c = 1 .. Len(s) - 1
        BY <1>0, <1>6, <3>1
      <3> QED BY <3>1, <3>2 DEF Range
    <2> QED BY <1>0, <2>1, <2>2
  <1>9. \A x \in Range(s) : x \in Range(c) \cup {s[i]}
    BY <1>0, <1>8 DEF Range
  <1>10. s[i] \in Range(s)
    BY <1>0 DEF Range
  <1>11. Range(s) = Range(c) \cup {s[i]}
    BY <1>7, <1>9, <1>10
  <1> QED
    BY <1>5, <1>6, <1>11

\* InsertAt adds the inserted element to the range, and one to the length.
LEMMA InsertAtRange ==
  ASSUME NEW S, NEW s \in Seq(S), NEW i \in 1 .. Len(s) + 1, NEW e \in S
  PROVE  /\ InsertAt(s, i, e) \in Seq(S) /\ Len(InsertAt(s, i, e)) = Len(s) + 1
         /\ Range(InsertAt(s, i, e)) = Range(s) \cup {e}
  <1>0. Len(s) \in Nat /\ \A j \in 1 .. Len(s) : s[j] \in S
    OBVIOUS
  <1>1. PICK a, b : a = SubSeq(s, 1, i - 1) /\ b = SubSeq(s, i, Len(s))
    OBVIOUS
  <1>2. /\ a \in Seq(S) /\ Len(a) = i - 1 /\ \A j \in 1 .. i - 1 : a[j] = s[j]
    <2>1. \A j \in 1 .. i - 1 : s[j] \in S
      BY <1>0
    <2>2. i - 1 \in Int /\ 1 \in Int
      BY <1>0
    <2>3. /\ SubSeq(s, 1, i - 1) \in Seq(S)
          /\ Len(SubSeq(s, 1, i - 1)) = IF 1 <= i - 1 THEN (i - 1) - 1 + 1 ELSE 0
          /\ \A j \in 1 .. (i - 1) - 1 + 1 : SubSeq(s, 1, i - 1)[j] = s[1 + j - 1]
      BY <2>1, <2>2, SubSeqProperties
    <2> QED BY <1>0, <1>1, <2>3
  <1>3. /\ b \in Seq(S) /\ Len(b) = Len(s) - i + 1 /\ \A j \in 1 .. Len(s) - i + 1 : b[j] = s[i + j - 1]
    <2>1. \A j \in i .. Len(s) : s[j] \in S
      BY <1>0
    <2>2. i \in Int /\ Len(s) \in Int
      BY <1>0
    <2>3. /\ SubSeq(s, i, Len(s)) \in Seq(S)
          /\ Len(SubSeq(s, i, Len(s))) = IF i <= Len(s) THEN Len(s) - i + 1 ELSE 0
          /\ \A j \in 1 .. Len(s) - i + 1 : SubSeq(s, i, Len(s))[j] = s[i + j - 1]
      BY <2>1, <2>2, SubSeqProperties
    <2> QED BY <1>0, <1>1, <2>3
  <1>4. PICK d : d = a \o <<e>>
    OBVIOUS
  <1>5. /\ d \in Seq(S) /\ Len(d) = i /\ d[i] = e /\ \A j \in 1 .. i - 1 : d[j] = s[j]
    <2>1. <<e>> \in Seq(S) /\ Len(<<e>>) = 1 /\ <<e>>[1] = e
      OBVIOUS
    <2>2. /\ a \o <<e>> \in Seq(S) /\ Len(a \o <<e>>) = Len(a) + 1
          /\ \A j \in 1 .. Len(a) + 1 : (a \o <<e>>)[j] = IF j <= Len(a) THEN a[j] ELSE <<e>>[j - Len(a)]
      BY <1>2, <2>1, ConcatProperties
    <2> QED BY <1>0, <1>2, <1>4, <2>1, <2>2
  <1>6. PICK c : c = d \o b
    OBVIOUS
  <1>7. InsertAt(s, i, e) = c
    BY <1>1, <1>4, <1>6 DEF InsertAt
  <1>8. /\ c \in Seq(S) /\ Len(c) = Len(s) + 1
        /\ \A j \in 1 .. Len(s) + 1 : c[j] = IF j < i THEN s[j] ELSE IF j = i THEN e ELSE s[j - 1]
    <2>1. /\ d \o b \in Seq(S) /\ Len(d \o b) = Len(d) + Len(b)
          /\ \A j \in 1 .. Len(d) + Len(b) : (d \o b)[j] = IF j <= Len(d) THEN d[j] ELSE b[j - Len(d)]
      BY <1>3, <1>5, ConcatProperties
    <2>2. Len(d) + Len(b) = Len(s) + 1
      BY <1>0, <1>3, <1>5
    <2>3. ASSUME NEW j \in 1 .. Len(s) + 1
          PROVE  c[j] = IF j < i THEN s[j] ELSE IF j = i THEN e ELSE s[j - 1]
      <3>1. CASE j <= i
        BY <1>0, <1>5, <1>6, <2>1, <2>2, <3>1
      <3>2. CASE ~(j <= i)
        <4>1. j - i \in 1 .. Len(s) - i + 1 /\ i + (j - i) - 1 = j - 1
          BY <1>0, <3>2
        <4> QED BY <1>0, <1>3, <1>5, <1>6, <2>1, <2>2, <3>2, <4>1
      <3> QED BY <3>1, <3>2
    <2> QED BY <1>6, <2>1, <2>2, <2>3
  <1>9. \A j \in 1 .. Len(s) + 1 : c[j] \in Range(s) \cup {e}
    BY <1>0, <1>8 DEF Range
  <1>10. e \in Range(c)
    BY <1>0, <1>8 DEF Range
  <1>11. \A j \in 1 .. Len(s) : s[j] \in Range(c)
    <2> SUFFICES ASSUME NEW j \in 1 .. Len(s) PROVE s[j] \in Range(c)
      OBVIOUS
    <2>1. CASE j < i
      BY <1>0, <1>8, <2>1 DEF Range
    <2>2. CASE ~(j < i)
      <3>1. j + 1 \in 1 .. Len(s) + 1 /\ ~(j + 1 < i) /\ j + 1 # i /\ (j + 1) - 1 = j
        BY <1>0, <2>2
      <3>2. j + 1 \in DOMAIN c /\ c[j + 1] = s[j]
        BY <1>0, <1>8, <3>1
      <3> QED BY <3>2 DEF Range
    <2> QED BY <2>1, <2>2
  <1>12. \A x : x \in Range(c) => x \in Range(s) \cup {e}
    <2>1. DOMAIN c = 1 .. Len(s) + 1
      BY <1>0, <1>8
    <2> QED BY <1>9, <2>1 DEF Range
  <1>13. \A x : x \in Range(s) => x \in Range(c)
    BY <1>0, <1>11 DEF Range
  <1>14. Range(c) = Range(s) \cup {e}
    BY <1>10, <1>12, <1>13
  <1> QED
    BY <1>7, <1>8, <1>14

\* Min of a set of numbers is one of them.
LEMMA MinIsIn ==
  ASSUME NEW I, I \subseteq Nat, I # {}
  PROVE  Min(I) \in I
  <1> DEFINE R == {x \in Nat \X Nat : x[1] < x[2]}
  <1>1. OpToRel(<, Nat) = R
    BY DEF OpToRel
  <1>2. IsWellFoundedOn(R, Nat)
    BY <1>1, NatLessThanWellFounded
  <1>3. \E x \in I : \A y \in I : ~ (<<y, x>> \in R)
    <2> HIDE DEF R
    <2> QED BY <1>2, WFMin
  <1>4. \A x, y \in Nat : ~ (<<y, x>> \in R) => x <= y
    OBVIOUS
  <1>5. \E x \in I : \A y \in I : x =< y
    BY <1>3, <1>4
  <1> QED
    BY <1>5 DEF Min

\* The place of an element that a sequence has.
LEMMA PlaceOf ==
  ASSUME NEW S, NEW s \in Seq(S), NEW e, e \in Range(s)
  PROVE  LET I == {i \in 1 .. Len(s) : s[i] = e}
         IN  I # {} /\ Min(I) \in 1 .. Len(s) /\ s[Min(I)] = e
  <1> DEFINE I == {i \in 1 .. Len(s) : s[i] = e}
  <1>1. I \subseteq Nat /\ I # {}
    BY DEF Range
  <1>2. Min(I) \in I
    <2> HIDE DEF I
    <2> QED BY <1>1, MinIsIn
  <1> QED
    BY <1>1, <1>2

\* A sequence turned round so that its h-th element is last.
LEMMA TurnedRound ==
  ASSUME NEW S, NEW s \in Seq(S), NEW h \in 1 .. Len(s)
  PROVE  LET t == SubSeq(s, h + 1, Len(s)) \o SubSeq(s, 1, h)
         IN  t \in Seq(S) /\ Len(t) = Len(s) /\ Range(t) = Range(s) /\ Last(t) = s[h]
  <1>0. Len(s) \in Nat /\ \A j \in 1 .. Len(s) : s[j] \in S
    OBVIOUS
  <1>1. PICK a, b : a = SubSeq(s, h + 1, Len(s)) /\ b = SubSeq(s, 1, h)
    OBVIOUS
  <1>2. a \in Seq(S) /\ Len(a) = Len(s) - h /\ \A j \in 1 .. Len(s) - h : a[j] = s[h + j]
    <2>1. \A j \in h + 1 .. Len(s) : s[j] \in S
      BY <1>0
    <2>2. h + 1 \in Int /\ Len(s) \in Int
      BY <1>0
    <2>3. /\ SubSeq(s, h + 1, Len(s)) \in Seq(S)
          /\ Len(SubSeq(s, h + 1, Len(s))) = IF h + 1 <= Len(s) THEN Len(s) - (h + 1) + 1 ELSE 0
          /\ \A j \in 1 .. Len(s) - (h + 1) + 1 : SubSeq(s, h + 1, Len(s))[j] = s[(h + 1) + j - 1]
      BY <2>1, <2>2, SubSeqProperties
    <2> QED BY <1>0, <1>1, <2>3
  <1>3. b \in Seq(S) /\ Len(b) = h /\ \A j \in 1 .. h : b[j] = s[j]
    <2>1. \A j \in 1 .. h : s[j] \in S
      BY <1>0
    <2>2. h \in Int /\ 1 \in Int
      BY <1>0
    <2>3. /\ SubSeq(s, 1, h) \in Seq(S)
          /\ Len(SubSeq(s, 1, h)) = IF 1 <= h THEN h - 1 + 1 ELSE 0
          /\ \A j \in 1 .. h - 1 + 1 : SubSeq(s, 1, h)[j] = s[1 + j - 1]
      BY <2>1, <2>2, SubSeqProperties
    <2> QED BY <1>0, <1>1, <2>3
  <1>4. PICK t : t = a \o b
    OBVIOUS
  <1>5. /\ t \in Seq(S) /\ Len(t) = Len(s)
        /\ \A j \in 1 .. Len(s) : t[j] = IF j <= Len(a) THEN a[j] ELSE b[j - Len(a)]
    <2>1. /\ a \o b \in Seq(S) /\ Len(a \o b) = Len(a) + Len(b)
          /\ \A j \in 1 .. Len(a) + Len(b) : (a \o b)[j] = IF j <= Len(a) THEN a[j] ELSE b[j - Len(a)]
      BY <1>2, <1>3, ConcatProperties
    <2>2. Len(a) + Len(b) = Len(s)
      BY <1>0, <1>2, <1>3
    <2> QED BY <1>4, <2>1, <2>2
  <1>6. \A j \in 1 .. Len(s) : \E k \in 1 .. Len(s) : t[j] = s[k]
    <2> SUFFICES ASSUME NEW j \in 1 .. Len(s) PROVE \E k \in 1 .. Len(s) : t[j] = s[k]
      OBVIOUS
    <2>1. CASE j <= Len(s) - h
      <3>1. t[j] = a[j] /\ a[j] = s[h + j] /\ h + j \in 1 .. Len(s)
        BY <1>0, <1>2, <1>5, <2>1
      <3> QED BY <3>1
    <2>2. CASE ~(j <= Len(s) - h)
      <3>1. j - Len(a) \in 1 .. h /\ ~(j <= Len(a))
        BY <1>0, <1>2, <2>2
      <3>2. t[j] = b[j - Len(a)]
        BY <1>5, <3>1
      <3>3. b[j - Len(a)] = s[j - Len(a)] /\ j - Len(a) \in 1 .. Len(s)
        BY <1>0, <1>3, <3>1
      <3> QED BY <3>2, <3>3
    <2> QED BY <2>1, <2>2
  <1>7. \A k \in 1 .. Len(s) : \E j \in 1 .. Len(s) : t[j] = s[k]
    <2> SUFFICES ASSUME NEW k \in 1 .. Len(s) PROVE \E j \in 1 .. Len(s) : t[j] = s[k]
      OBVIOUS
    <2>1. CASE k <= h
      <3>1. k + Len(a) \in 1 .. Len(s) /\ ~(k + Len(a) <= Len(a)) /\ (k + Len(a)) - Len(a) = k
        BY <1>0, <1>2, <2>1
      <3>2. t[k + Len(a)] = b[k]
        BY <1>5, <3>1
      <3>3. b[k] = s[k]
        BY <1>3, <2>1
      <3> QED BY <3>1, <3>2, <3>3
    <2>2. CASE ~(k <= h)
      <3>1. k - h \in 1 .. Len(s) /\ k - h <= Len(a) /\ k - h \in 1 .. Len(s) - h /\ h + (k - h) = k
        BY <1>0, <1>2, <2>2
      <3>2. t[k - h] = a[k - h] /\ a[k - h] = s[h + (k - h)]
        BY <1>2, <1>5, <3>1
      <3> QED BY <3>1, <3>2
    <2> QED BY <2>1, <2>2
  <1>8. Range(t) = Range(s)
    <2>1. DOMAIN t = 1 .. Len(s) /\ DOMAIN s = 1 .. Len(s)
      BY <1>0, <1>5
    <2>2. \A x : x \in Range(t) <=> \E j \in 1 .. Len(s) : x = t[j]
      BY <2>1 DEF Range
    <2>3. \A x : x \in Range(s) <=> \E j \in 1 .. Len(s) : x = s[j]
      BY <2>1 DEF Range
    <2>4. \A x : x \in Range(t) <=> x \in Range(s)
      BY <1>6, <1>7, <2>2, <2>3
    <2> QED BY <2>4
  <1>9. Last(t) = s[h]
    <2>1. Len(s) \in 1 .. Len(s) /\ ~(Len(s) <= Len(a)) /\ Len(s) - Len(a) = h /\ h \in 1 .. h
      BY <1>0, <1>2
    <2>2. t[Len(s)] = b[h] /\ b[h] = s[h]
      BY <1>3, <1>5, <2>1
    <2> QED BY <1>5, <2>2 DEF Last
  <1> QED
    BY <1>1, <1>4, <1>5, <1>8, <1>9

\* A slot that is unlinked and linked again after the tail leaves a ring.
LEMMA RelinkedRing ==
  ASSUME NEW p \in Proc, RingOf(ring[p]), NEW k \in 1 .. MSG_Q_SIZE,
         tail_q[p] \in 1 .. MSG_Q_SIZE, ring[p][k] # tail_q[p]
  PROVE  RingOf(Relinked(p, k))
  <1> USE ShmMsgAssumption
  <1> DEFINE S == 1 .. MSG_Q_SIZE
  <1>1. PICK r, t : r = ring[p] /\ t = tail_q[p]
    OBVIOUS
  <1>2. r \in Seq(S) /\ Len(r) = MSG_Q_SIZE /\ Range(r) = S /\ k \in 1 .. Len(r) /\ r[k] \in S
    BY <1>1 DEF RingOf
  <1>3. PICK others : others = RemoveAt(r, k)
    OBVIOUS
  <1>4. /\ others \in Seq(S) /\ Len(others) = MSG_Q_SIZE - 1
        /\ S = Range(others) \cup {r[k]}
    <2> HIDE DEF S
    <2>1. /\ RemoveAt(r, k) \in Seq(S) /\ Len(RemoveAt(r, k)) = Len(r) - 1
          /\ Range(r) = Range(RemoveAt(r, k)) \cup {r[k]}
      BY <1>2, RemoveAtRange
    <2> QED BY <1>2, <1>3, <2>1
  <1>5. t \in Range(others)
    BY <1>1, <1>4
  <1>6. PICK i : i = SelectInSeq(others, LAMBDA x : x = t)
    OBVIOUS
  <1>7. i \in 1 .. Len(others)
    <2> DEFINE I == {j \in 1 .. Len(others) : others[j] = t}
    <2>1. I # {} /\ Min(I) \in 1 .. Len(others)
      <3> HIDE DEF S
      <3> QED BY <1>4, <1>5, PlaceOf
    <2>2. i = IF I # {} THEN Min(I) ELSE 0
      BY <1>6 DEF SelectInSeq
    <2> QED BY <2>1, <2>2
  <1>8. PICK moved, j, e : j = 1 + i /\ e = r[k] /\ moved = InsertAt(others, j, e)
    OBVIOUS
  <1>9. moved \in Seq(S) /\ Len(moved) = MSG_Q_SIZE /\ Range(moved) = S
    <2> HIDE DEF S
    <2>1. j \in 1 .. Len(others) + 1 /\ Len(others) + 1 = MSG_Q_SIZE
      BY <1>4, <1>7, <1>8
    <2>2. others \in Seq(S) /\ e \in S
      BY <1>2, <1>4, <1>8
    <2>3. j \in 1 .. Len(others) + 1
      BY <2>1
    <2>4. /\ InsertAt(others, j, e) \in Seq(S)
          /\ Len(InsertAt(others, j, e)) = Len(others) + 1
          /\ Range(InsertAt(others, j, e)) = Range(others) \cup {e}
      BY <2>2, <2>3, InsertAtRange
    <2> QED BY <1>4, <1>8, <2>1, <2>4
  <1>10. Head_q \in Range(moved)
    BY <1>9 DEF Head_q
  <1>11. PICK h : h = SelectInSeq(moved, LAMBDA x : x = Head_q)
    OBVIOUS
  <1>12. h \in 1 .. Len(moved) /\ moved[h] = Head_q
    <2> DEFINE I == {x \in 1 .. Len(moved) : moved[x] = Head_q}
    <2>1. I # {} /\ Min(I) \in 1 .. Len(moved) /\ moved[Min(I)] = Head_q
      <3> HIDE DEF S
      <3> QED BY <1>9, <1>10, PlaceOf
    <2>2. h = IF I # {} THEN Min(I) ELSE 0
      BY <1>11 DEF SelectInSeq
    <2> QED BY <2>1, <2>2
  <1>13. Relinked(p, k) = SubSeq(moved, h + 1, MSG_Q_SIZE) \o SubSeq(moved, 1, h)
    BY <1>1, <1>3, <1>6, <1>8, <1>11 DEF Relinked
  <1>14. PICK u : u = SubSeq(moved, h + 1, Len(moved)) \o SubSeq(moved, 1, h)
    OBVIOUS
  <1>15. u \in Seq(S) /\ Len(u) = Len(moved) /\ Range(u) = Range(moved) /\ Last(u) = moved[h]
    <2> HIDE DEF S
    <2> QED BY <1>9, <1>12, <1>14, TurnedRound
  <1>16. Relinked(p, k) = u
    BY <1>9, <1>13, <1>14
  <1> QED
    BY <1>9, <1>12, <1>15, <1>16 DEF RingOf

\* The queues and the FIFOs are empty at the start.
LEMMA InitType == Init => TypeInv
  <1> SUFFICES ASSUME Init PROVE TypeInv
    OBVIOUS
  <1> USE ShmMsgAssumption
  <1>1. NoEntry \in EntryType /\ Blank.flag = 0 /\ Wild \in 0 .. MSG_Q_SIZE
    BY DEF NoEntry, Nil, Blank, EntryType, Wild
  <1>2. QueueTypes
    <2>1. fifo \in [Proc -> [Proc -> Seq(EntryType)]]
      BY DEF Init
    <2>2. entry \in [Proc -> EntryType]
      BY <1>1 DEF Init
    <2>3. ptr \in [Proc -> 0 .. MSG_Q_SIZE]
      BY <1>1 DEF Init
    <2>4. n_buffered \in [Proc -> 0 .. MSG_Q_SIZE] /\ tail_q \in [Proc -> 1 .. MSG_Q_SIZE]
      BY DEF Init
    <2>5. ring \in [Proc -> Seq(1 .. MSG_Q_SIZE)]
      BY DEF Init
    <2> QED BY <2>1, <2>2, <2>3, <2>4, <2>5 DEF QueueTypes
  <1>3. \A p \in Proc : \A a \in 0 .. PoolSize - 1 : hdr[p][a].flag = 0
    BY <1>1 DEF Init
  <1>4. \A p, q \in Proc : Len(fifo[p][q]) = 0
    BY DEF Init
  <1>5. ASSUME NEW p \in Proc PROVE RingOf(ring[p])
    <2>1. PICK r : r = [k \in 1 .. MSG_Q_SIZE |-> k]
      OBVIOUS
    <2>2. r \in Seq(1 .. MSG_Q_SIZE) /\ Len(r) = MSG_Q_SIZE /\ r[MSG_Q_SIZE] = MSG_Q_SIZE
      BY <2>1
    <2>3. Range(r) = 1 .. MSG_Q_SIZE
      BY <2>1 DEF Range
    <2>4. ring[p] = r
      BY <2>1 DEF Init
    <2> QED BY <2>2, <2>3, <2>4 DEF RingOf, Last, Head_q
  <1> QED
    BY <1>2, <1>3, <1>4, <1>5, InitPool DEF TypeInv

\* A step that leaves the queues alone, and sets flags to values that they may have.
LEMMA QueuesAlone ==
  ASSUME TypeInv, PoolInv', UNCHANGED queueVars,
         fifo' \in [Proc -> [Proc -> Seq(EntryType)]],
         \A p, q \in Proc : Len(fifo'[p][q]) <= FifoCap,
         entry' \in [Proc -> EntryType],
         \A p \in Proc : \A a \in 0 .. PoolSize - 1 : hdr'[p][a].flag \in {-1, 0, 1}
  PROVE  TypeInv'
  BY DEF TypeInv, QueueTypes, queueVars

\* Marking an entry gives it one of the flags.
LEMMA FlagSet ==
  ASSUME TypeInv, NEW s, NEW a, NEW v \in {-1, 1}, hdr' = [hdr EXCEPT ![s][a].flag = v]
  PROVE  \A p \in Proc : \A b \in 0 .. PoolSize - 1 : hdr'[p][b].flag \in {-1, 0, 1}
  <1> SUFFICES ASSUME NEW p \in Proc, NEW b \in 0 .. PoolSize - 1
               PROVE  hdr'[p][b].flag \in {-1, 0, 1}
    OBVIOUS
  <1>1. hdr \in [Proc -> [0 .. PoolSize - 1 -> HdrType]] /\ hdr[p][b].flag \in {-1, 0, 1}
    BY DEF TypeInv, PoolInv, PoolTypes
  <1>2. hdr[p] \in [0 .. PoolSize - 1 -> HdrType] /\ hdr[p][b] \in HdrType
    BY <1>1
  <1>4. hdr'[p][b] = IF p = s /\ b = a THEN [hdr[p][b] EXCEPT !.flag = v] ELSE hdr[p][b]
    <2>1. CASE p = s /\ b = a
      BY <1>1, <1>2, <2>1
    <2>2. CASE p = s /\ b # a
      BY <1>1, <1>2, <2>2
    <2>3. CASE p # s
      BY <1>1, <2>3
    <2> QED BY <2>1, <2>2, <2>3
  <1>5. [hdr[p][b] EXCEPT !.flag = v].flag = v
    BY <1>2 DEF HdrType
  <1> QED
    BY <1>1, <1>4, <1>5

\* A message that is placed: its entry is a number, its header not marked yet.
LEMMA PlaceTypes ==
  ASSUME TypeInv, NEW p \in Proc, Calls(p, "send"), NEW list \in Seq(Int), ListOf(p, list),
         Fits(p, Current(list), Call(p).size), Place(p, list)
  PROVE  /\ entry' \in [Proc -> EntryType]
         /\ \A q \in Proc : \A b \in 0 .. PoolSize - 1 : hdr'[q][b].flag \in {-1, 0, 1}
  <1>0. PICK a, c, n, number : /\ a = End(p, Current(list)) /\ c = Call(p) /\ n = c.size
                               /\ number = Len(sent[p]) + 1
    OBVIOUS
  <1>1. c \in CallType /\ n \in Nat
    BY <1>0, CallTyped DEF Calls, TypeInv, PoolInv, CallType
  <1>2. a \in Int
    BY <1>0, <1>1, PlaceFor DEF TypeInv
  <1>3. number \in Int
    BY <1>0 DEF TypeInv, PoolInv, PoolTypes
  <1> DEFINE new == [flag |-> 0, nbytes |-> n, tag |-> c.tag, num |-> number]
             at(q, b) == IF q # p THEN hdr[q][b]
                         ELSE IF b = a THEN new
                         ELSE IF b \in a + 1 .. a + n THEN Blank ELSE hdr[p][b]
  <1>4. /\ hdr' = [hdr EXCEPT ![p] = [b \in DOMAIN @ |->
                     IF b = a THEN new ELSE IF b \in a + 1 .. a + n THEN Blank ELSE @[b]]]
        /\ entry' = [entry EXCEPT ![p] = [at |-> a, num |-> number]]
    BY <1>0 DEF Place
  <1>5. hdr \in [Proc -> [0 .. PoolSize - 1 -> HdrType]]
    BY DEF TypeInv, PoolInv, PoolTypes
  <1>6. \A q \in Proc : \A b \in 0 .. PoolSize - 1 : hdr'[q][b] = at(q, b)
    <2> HIDE DEF new
    <2> QED BY <1>4, <1>5
  <1>7. new.flag = 0 /\ Blank.flag = 0
    BY DEF Blank
  <1>8. \A q \in Proc : \A b \in 0 .. PoolSize - 1 : hdr'[q][b].flag \in {-1, 0, 1}
    <2> HIDE DEF new
    <2> QED BY <1>6, <1>7 DEF TypeInv
  <1>9. entry' \in [Proc -> EntryType]
    <2>1. [at |-> a, num |-> number] \in EntryType
      BY <1>2, <1>3 DEF EntryType
    <2> QED BY <1>4, <2>1 DEF TypeInv, QueueTypes
  <1> QED BY <1>8, <1>9

\* A send finds its place, stops the job, or looks for space for ever.
LEMMA SendAllocTypes == ASSUME TypeInv, NEW p \in Proc, SendAlloc(p) PROVE TypeInv'
  <1>1. Calls(p, "send") /\ UNCHANGED <<fifo, queueVars>> /\ PoolInv'
    BY SendAllocKeeps DEF SendAlloc, TypeInv
  <1>2. PICK k \in 0 .. Len(stack[p]) :
          LET list == SubSeq(stack[p], 1, k)
              size == Call(p).size
          IN  \/ Fits(p, Current(list), size) /\ Place(p, list)
              \/ UNCHANGED <<poolVars, entry>>
              \/ Fits(p, Nil, size) /\ Place(p, << >>)
    BY DEF SendAlloc
  <1> DEFINE list == SubSeq(stack[p], 1, k)
  <1>3. list \in Seq(Int) /\ ListOf(p, list)
    BY PrefixList DEF TypeInv
  <1>4. /\ entry' \in [Proc -> EntryType]
        /\ \A q \in Proc : \A b \in 0 .. PoolSize - 1 : hdr'[q][b].flag \in {-1, 0, 1}
    <2>1. CASE Fits(p, Current(list), Call(p).size) /\ Place(p, list)
      <3> HIDE DEF list
      <3> QED BY <1>1, <1>3, <2>1, PlaceTypes
    <2>2. CASE UNCHANGED <<poolVars, entry>>
      BY <2>2 DEF TypeInv, QueueTypes, poolVars
    <2>3. CASE Fits(p, Nil, Call(p).size) /\ Place(p, << >>)
      <3> DEFINE none == << >>
      <3>1. none \in Seq(Int) /\ ListOf(p, none) /\ Current(none) = Nil
        BY DEF ListOf, Current
      <3>2. Fits(p, Current(none), Call(p).size) /\ Place(p, none)
        BY <2>3, <3>1
      <3> HIDE DEF none
      <3> QED BY <1>1, <3>1, <3>2, PlaceTypes
    <2> QED BY <1>2, <2>1, <2>2, <2>3
  <1> QED BY <1>1, <1>4, QueuesAlone DEF TypeInv, QueueTypes

\* FIFOwrite: an address is added where there is room, and dropped where not.
LEMMA SendFifoTypes == ASSUME TypeInv, PoolInv', NEW p \in Proc, SendFifo(p) PROVE TypeInv'
  <1> USE ShmMsgAssumption
  <1>1. PICK r, e : r = Call(p).peer /\ e = entry[p]
    OBVIOUS
  <1>2. /\ fifo' = [fifo EXCEPT ![p][r] = IF Len(@) < FifoCap THEN Append(@, e) ELSE @]
        /\ UNCHANGED <<hdr, entry, queueVars>>
    BY <1>1 DEF SendFifo, poolVars
  <1>3. fifo \in [Proc -> [Proc -> Seq(EntryType)]] /\ e \in EntryType
    BY <1>1 DEF TypeInv, QueueTypes
  <1>4. ASSUME NEW a \in Proc, NEW b \in Proc
        PROVE  fifo'[a][b] \in Seq(EntryType) /\ Len(fifo'[a][b]) <= FifoCap
    <2>1. fifo[a][b] \in Seq(EntryType) /\ Len(fifo[a][b]) <= FifoCap
      BY <1>3 DEF TypeInv
    <2>2. CASE a = p /\ b = r
      <3>1. fifo'[a][b] = IF Len(fifo[a][b]) < FifoCap THEN Append(fifo[a][b], e) ELSE fifo[a][b]
        BY <1>2, <1>3, <2>2
      <3>2. CASE Len(fifo[a][b]) < FifoCap
        BY <1>3, <2>1, <3>1, <3>2, AppendProperties
      <3> QED BY <2>1, <3>1, <3>2
    <2>3. CASE ~(a = p /\ b = r)
      BY <1>2, <1>3, <2>1, <2>3
    <2> QED BY <2>2, <2>3
  <1>5. fifo' \in [Proc -> [Proc -> Seq(EntryType)]]
    <2>1. /\ DOMAIN fifo' = Proc /\ \A a \in Proc : DOMAIN fifo'[a] = Proc
          /\ fifo' = [a \in Proc |-> fifo'[a]]
          /\ \A a \in Proc : fifo'[a] = [b \in Proc |-> fifo'[a][b]]
      BY <1>2, <1>3
    <2> QED BY <1>4, <2>1
  <1> QED
    BY <1>2, <1>4, <1>5, QueuesAlone DEF TypeInv, QueueTypes

\* The ends of calls: the flag of one entry is set.
LEMMA ReturnTypes ==
  ASSUME TypeInv, PoolInv', NEW p \in Proc, SendReady(p) \/ RecvCopy(p)
  PROVE  TypeInv'
  <1>1. UNCHANGED <<fifo, entry, queueVars>>
    BY DEF SendReady, RecvCopy
  <1>2. \/ hdr' = [hdr EXCEPT ![p][entry[p].at].flag = 1]
        \/ hdr' = [hdr EXCEPT ![Call(p).peer][entry[p].at].flag = -1]
    BY DEF SendReady, RecvCopy, CopyOut
  <1>3. \A q \in Proc : \A b \in 0 .. PoolSize - 1 : hdr'[q][b].flag \in {-1, 0, 1}
    <2>1. 1 \in {-1, 1} /\ -1 \in {-1, 1}
      OBVIOUS
    <2> QED BY <1>2, <2>1, FlagSet
  <1> QED
    BY <1>1, <1>3, QueuesAlone DEF TypeInv, QueueTypes

\* A header of the queue is used: its slot goes after the tail, or the tail steps back.
LEMMA RecvQueuedTypes == ASSUME TypeInv, PoolInv', NEW p \in Proc, RecvQueued(p) PROVE TypeInv'
  <1> USE ShmMsgAssumption
  <1>1. PICK k \in 1 .. n_buffered[p] :
          LET h == slots[p][ring[p][k]]
          IN  /\ CopyOut(p, Call(p).peer, h.entry, h.nbytes, h.tag)
              /\ IF ring[p][k] = tail_q[p]
                 THEN tail_q' = [tail_q EXCEPT ![p] = PrevSlot(p, k)] /\ UNCHANGED ring
                 ELSE ring' = [ring EXCEPT ![p] = Relinked(p, k)] /\ UNCHANGED tail_q
              /\ n_buffered' = [n_buffered EXCEPT ![p] = @ - 1]
    BY DEF RecvQueued
  <1>2. UNCHANGED <<fifo, entry, ptr>>
    BY DEF RecvQueued
  <1>3. n_buffered[p] \in 0 .. MSG_Q_SIZE /\ k \in 1 .. MSG_Q_SIZE /\ n_buffered[p] - 1 \in 0 .. MSG_Q_SIZE
    BY DEF TypeInv, QueueTypes
  <1>4. n_buffered' \in [Proc -> 0 .. MSG_Q_SIZE]
    BY <1>1, <1>3 DEF TypeInv, QueueTypes
  <1>5. ring[p] \in Seq(1 .. MSG_Q_SIZE) /\ Len(ring[p]) = MSG_Q_SIZE /\ tail_q[p] \in 1 .. MSG_Q_SIZE
    BY DEF TypeInv, QueueTypes, RingOf
  <1>6. tail_q' \in [Proc -> 1 .. MSG_Q_SIZE]
    <2>1. PrevSlot(p, k) \in 1 .. MSG_Q_SIZE
      BY <1>3, <1>5 DEF PrevSlot, Head_q
    <2> QED BY <1>1, <2>1 DEF TypeInv, QueueTypes
  <1>7. /\ ring' \in [Proc -> Seq(1 .. MSG_Q_SIZE)]
        /\ \A q \in Proc : RingOf(ring'[q])
    <2>1. CASE ring[p][k] = tail_q[p]
      BY <1>1, <2>1 DEF TypeInv, QueueTypes
    <2>2. CASE ring[p][k] # tail_q[p]
      <3>1. RingOf(Relinked(p, k))
        BY <1>3, <1>5, <2>2, RelinkedRing DEF TypeInv
      <3>2. ring' = [ring EXCEPT ![p] = Relinked(p, k)]
        BY <1>1, <2>2
      <3> QED BY <3>1, <3>2 DEF TypeInv, QueueTypes, RingOf
    <2> QED BY <2>1, <2>2
  <1>8. \A q \in Proc : \A b \in 0 .. PoolSize - 1 : hdr'[q][b].flag \in {-1, 0, 1}
    <2>1. PICK s, a : hdr' = [hdr EXCEPT ![s][a].flag = -1]
      BY <1>1 DEF CopyOut
    <2>2. -1 \in {-1, 1}
      OBVIOUS
    <2> QED BY <2>1, <2>2, FlagSet
  <1> QED
    BY <1>2, <1>4, <1>6, <1>7, <1>8 DEF TypeInv, QueueTypes

\* A search that finds nothing leaves the local hdr at a slot, or where it was.
LEMMA RecvSearchTypes == ASSUME TypeInv, PoolInv', NEW p \in Proc, RecvSearch(p) PROVE TypeInv'
  <1> USE ShmMsgAssumption
  <1>1. PICK x \in PtrAfterSearch(p) : ptr' = [ptr EXCEPT ![p] = x]
    BY DEF RecvSearch
  <1>2. UNCHANGED <<hdr, fifo, entry, ring, n_buffered, tail_q>>
    BY DEF RecvSearch, poolVars
  <1>3. x \in 0 .. MSG_Q_SIZE
    <2>1. n_buffered[p] \in 0 .. MSG_Q_SIZE /\ ring[p] \in Seq(1 .. MSG_Q_SIZE) /\ Len(ring[p]) = MSG_Q_SIZE
      BY DEF TypeInv, QueueTypes, RingOf
    <2>2. PICK i : i = n_buffered[p] % MSG_Q_SIZE
      OBVIOUS
    <2>3. i \in 0 .. MSG_Q_SIZE - 1
      BY <2>1, <2>2
    <2>4. 1 + i \in 1 .. Len(ring[p])
      BY <2>1, <2>3
    <2>5. ring[p][1 + i] \in 1 .. MSG_Q_SIZE
      BY <2>1, <2>4
    <2>6. x \in {Wild} \cup 1 .. MSG_Q_SIZE \/ x = ring[p][1 + i]
      BY <2>2 DEF PtrAfterSearch
    <2> QED BY <2>5, <2>6 DEF Wild
  <1>4. ptr' \in [Proc -> 0 .. MSG_Q_SIZE]
    BY <1>1, <1>3 DEF TypeInv, QueueTypes
  <1> QED
    BY <1>2, <1>4 DEF TypeInv, QueueTypes

\* FIFOread: the entry is the one asked for, or its header goes into a slot if the
\* queue has one left.
LEMMA RecvReadTypes == ASSUME TypeInv, PoolInv', NEW p \in Proc, RecvRead(p) PROVE TypeInv'
  <1> USE ShmMsgAssumption
  <1>1. PICK s, e, c : c = Call(p) /\ s = c.peer /\ e = Head(fifo[s][p])
    OBVIOUS
  <1>2. /\ fifo[s][p] # << >>
        /\ fifo' = [fifo EXCEPT ![s][p] = Tail(@)]
        /\ UNCHANGED <<hdr, ring>>
        /\ pc[p] = "read"
    BY <1>1 DEF RecvRead, poolVars
  <1>3. \/ entry' = [entry EXCEPT ![p] = e]
           /\ ptr' = [ptr EXCEPT ![p] = Wild] /\ UNCHANGED <<n_buffered, tail_q>>
        \/ UNCHANGED <<entry, ptr, n_buffered, tail_q>>
        \/ /\ UNCHANGED <<entry, ptr>>
           /\ n_buffered[p] # MSG_Q_SIZE /\ ptr[p] # Wild
           /\ tail_q' = [tail_q EXCEPT ![p] = ptr[p]]
           /\ n_buffered' = [n_buffered EXCEPT ![p] = @ + 1]
    BY <1>1 DEF RecvRead
  <1>4. s \in Proc
    <2>1. todo[p] # << >>
      BY <1>2 DEF TypeInv, PoolInv, PoolTypes
    <2> QED BY <1>1, <2>1, CallTyped DEF TypeInv, PoolInv, CallType
  <1>5. fifo \in [Proc -> [Proc -> Seq(EntryType)]] /\ fifo[s][p] \in Seq(EntryType)
    BY <1>4 DEF TypeInv, QueueTypes
  <1>6. e \in EntryType /\ Tail(fifo[s][p]) \in Seq(EntryType) /\ Len(Tail(fifo[s][p])) <= Len(fifo[s][p])
    BY <1>1, <1>2, <1>5, HeadTailProperties
  <1>7. ASSUME NEW a \in Proc, NEW b \in Proc
        PROVE  fifo'[a][b] \in Seq(EntryType) /\ Len(fifo'[a][b]) <= FifoCap
    <2>1. fifo[a][b] \in Seq(EntryType) /\ Len(fifo[a][b]) <= FifoCap
      BY <1>5 DEF TypeInv
    <2>2. CASE a = s /\ b = p
      <3>1. fifo'[a][b] = Tail(fifo[a][b])
        BY <1>2, <1>5, <2>2
      <3>2. Len(Tail(fifo[a][b])) \in Nat /\ Len(fifo[a][b]) \in Nat
        BY <1>6, <2>1, <2>2
      <3> QED BY <1>6, <2>1, <2>2, <3>1, <3>2
    <2>3. CASE ~(a = s /\ b = p)
      BY <1>2, <1>5, <2>1, <2>3
    <2> QED BY <2>2, <2>3
  <1>8. fifo' \in [Proc -> [Proc -> Seq(EntryType)]]
    <2>1. /\ fifo' = [a \in Proc |-> fifo'[a]]
          /\ \A a \in Proc : fifo'[a] = [b \in Proc |-> fifo'[a][b]]
      BY <1>2, <1>5
    <2> QED BY <1>7, <2>1
  <1>9. /\ entry' \in [Proc -> EntryType]
        /\ ptr' \in [Proc -> 0 .. MSG_Q_SIZE]
        /\ n_buffered' \in [Proc -> 0 .. MSG_Q_SIZE]
        /\ tail_q' \in [Proc -> 1 .. MSG_Q_SIZE]
    <2>0. /\ entry \in [Proc -> EntryType] /\ ptr \in [Proc -> 0 .. MSG_Q_SIZE]
          /\ n_buffered \in [Proc -> 0 .. MSG_Q_SIZE] /\ tail_q \in [Proc -> 1 .. MSG_Q_SIZE]
          /\ Wild \in 0 .. MSG_Q_SIZE
      BY DEF TypeInv, QueueTypes, Wild
    <2>1. CASE /\ entry' = [entry EXCEPT ![p] = e]
               /\ ptr' = [ptr EXCEPT ![p] = Wild] /\ UNCHANGED <<n_buffered, tail_q>>
      BY <1>6, <2>0, <2>1
    <2>2. CASE UNCHANGED <<entry, ptr, n_buffered, tail_q>>
      BY <2>0, <2>2
    <2>3. CASE /\ UNCHANGED <<entry, ptr>>
               /\ n_buffered[p] # MSG_Q_SIZE /\ ptr[p] # Wild
               /\ tail_q' = [tail_q EXCEPT ![p] = ptr[p]]
               /\ n_buffered' = [n_buffered EXCEPT ![p] = @ + 1]
      <3>1. n_buffered[p] + 1 \in 0 .. MSG_Q_SIZE /\ ptr[p] \in 1 .. MSG_Q_SIZE
        BY <2>0, <2>3 DEF Wild
      <3> QED BY <2>0, <2>3, <3>1
    <2> QED BY <1>3, <2>1, <2>2, <2>3
  <1> QED
    BY <1>2, <1>7, <1>8, <1>9 DEF TypeInv, QueueTypes

\* Every step of every process keeps the types.
LEMMA NextType == ASSUME TypeInv, [Next]_vars PROVE TypeInv'
  <1>0. PoolInv'
    BY NextPool DEF TypeInv
  <1>1. ASSUME NEW p \in Proc, Run(p) PROVE TypeInv'
    BY <1>0, <1>1, SendAllocTypes, SendFifoTypes, ReturnTypes, RecvQueuedTypes, RecvSearchTypes,
       RecvReadTypes DEF Run
  <1>2. CASE UNCHANGED vars
    BY <1>0, <1>2 DEF vars, poolVars, queueVars, TypeInv, QueueTypes
  <1> QED
    BY <1>1, <1>2 DEF Next

\* For every size of pool, FIFO and queue, whatever the processes call, and wherever the
\* uninitialised local hdr of smp_recv points: flags and positions keep their types, no
\* FIFO holds more than it has room for, and the slots of a queue stay one ring that ends
\* in its head, though they are unlinked and linked again all the time (shm.c:533-640).
THEOREM ShmTypeCorrect == Spec => []TypeOK
  <1>1. TypeInv /\ [Next]_vars => TypeInv'
    BY NextType
  <1> QED
    BY InitType, <1>1, TypeInvType, PTL DEF Spec

-----------------------------------------------------------------------------
(***************************************************************************)
(* The FIFO.                                                               *)
(***************************************************************************)

\* The number of entries never exceeds what the ring can hold.
LEMMA CountRange == ASSUME FifoTypeOK PROVE Count \in 0 .. FIFO_MAX - 1
  BY ShmFifoAssumption DEF FifoTypeOK, Count

\* Positions of entries stay in the ring, and the free one follows the last.
LEMMA Positions ==
  ASSUME FifoTypeOK
  PROVE  /\ \A k \in 1 .. Count : /\ Pos(recvpos + k - 1) \in 0 .. FIFO_MAX - 1
                                  /\ Pos(recvpos + k - 1) # sendpos
         /\ Pos(recvpos + Count) = sendpos
  BY ShmFifoAssumption DEF FifoTypeOK, Count, Pos

\* The contents are a sequence of Count entries.
LEMMA ContentsSeq ==
  ASSUME FifoTypeOK
  PROVE  /\ Contents \in Seq(Offset \cup {None})
         /\ Len(Contents) = Count
         /\ \A k \in 1 .. Count : Contents[k] = offset[Pos(recvpos + k - 1)]
  <1>1. Count \in Nat
    BY ShmFifoAssumption, CountRange
  <1>2. \A k \in 1 .. Count : offset[Pos(recvpos + k - 1)] \in Offset \cup {None}
    BY Positions DEF FifoTypeOK
  <1>3. Contents \in [1 .. Count -> Offset \cup {None}]
    BY <1>2 DEF Contents
  <1>4. Contents \in Seq(Offset \cup {None})
    BY <1>1, <1>3
  <1>5. DOMAIN Contents = 1 .. Count
    BY DEF Contents
  <1>6. Len(Contents) = Count
    BY <1>1, <1>4, <1>5
  <1> QED
    BY <1>4, <1>6 DEF Contents

\* The writer's test fails exactly when the queue has no room left.
LEMMA FullMeansFull == ASSUME FifoTypeOK PROVE Full <=> Count = FIFO_MAX - 1
  BY ShmFifoAssumption DEF FifoTypeOK, Count, Full

-----------------------------------------------------------------------------

\* The invariant holds at the start.
LEMMA FifoInitInv == ASSUME FifoInit PROVE FifoInv
  BY ShmFifoAssumption DEF FifoInit, FifoInv, FifoTypeOK, Count

\* Every step keeps the types.
LEMMA FifoNextType == ASSUME FifoInv, [FifoNext]_fifoVars PROVE FifoTypeOK'
  <1> USE ShmFifoAssumption
  <1>1. CASE WriteCall
    BY <1>1 DEF FifoInv, FifoTypeOK, WriteCall
  <1>2. CASE WriteTry
    BY <1>2 DEF FifoInv, FifoTypeOK, WriteTry
  <1>3. CASE WriteStore
    BY <1>3 DEF FifoInv, FifoTypeOK, WriteStore
  <1>4. CASE WriteAdvance
    BY <1>4 DEF FifoInv, FifoTypeOK, WriteAdvance, Advance
  <1>5. CASE ReadTake
    BY <1>5 DEF FifoInv, FifoTypeOK, ReadTake
  <1>6. CASE ReadAdvance
    BY <1>6 DEF FifoInv, FifoTypeOK, ReadAdvance, Advance
  <1>7. CASE UNCHANGED fifoVars
    BY <1>7 DEF FifoInv, FifoTypeOK, fifoVars
  <1> QED
    BY <1>1, <1>2, <1>3, <1>4, <1>5, <1>6, <1>7 DEF FifoNext, Writer, Reader

\* A step of the reader only makes room, a step of the writer only adds entries.
LEMMA CountSteps ==
  ASSUME FifoInv
  PROVE  /\ ReadAdvance => Count' = Count - 1
         /\ WriteAdvance => Count' = Count + 1
         /\ (sendpos' = sendpos /\ recvpos' = recvpos) => Count' = Count
  BY ShmFifoAssumption DEF FifoInv, FifoTypeOK, Count, ReadAdvance, WriteAdvance, Advance

\* Every step preserves the invariant.
LEMMA FifoInvNext == ASSUME FifoInv, [FifoNext]_fifoVars PROVE FifoInv'
  <1> USE ShmFifoAssumption DEF FifoInv
  <1>0. FifoTypeOK' /\ Count \in 0 .. FIFO_MAX - 1
    BY FifoNextType, CountRange
  <1>1. CASE WriteCall
    BY <1>0, <1>1, CountSteps DEF WriteCall
  <1>2. CASE WriteTry
    BY <1>0, <1>2, CountSteps, FullMeansFull DEF WriteTry
  <1>3. CASE WriteStore
    <2>1. rpc = "advance" => recvpos # sendpos
      BY DEF FifoTypeOK, Count
    <2> QED
      BY <1>0, <1>3, <2>1, CountSteps DEF WriteStore, FifoTypeOK
  <1>4. CASE WriteAdvance
    BY <1>0, <1>4, CountSteps DEF WriteAdvance
  <1>5. CASE ReadTake
    <2>1. Count > 0
      BY <1>5 DEF FifoTypeOK, Count, ReadTake
    <2> QED
      BY <1>0, <1>5, <2>1, CountSteps DEF ReadTake
  <1>6. CASE ReadAdvance
    BY <1>0, <1>6, CountSteps DEF ReadAdvance
  <1>7. CASE UNCHANGED fifoVars
    BY <1>0, <1>7, CountSteps DEF fifoVars
  <1> QED
    BY <1>1, <1>2, <1>3, <1>4, <1>5, <1>6, <1>7 DEF FifoNext, Writer, Reader

\* For every size of the ring, number of tries and number of writes: the local
\* values of writer and reader are those of the positions they are about to
\* pass, and the writer only stores where there is room (fifo.c:86-130).
THEOREM FifoInvariance == FifoSpec => []FifoInv
  <1>1. FifoInit => FifoInv
    BY FifoInitInv
  <1>2. FifoInv /\ [FifoNext]_fifoVars => FifoInv'
    BY FifoInvNext
  <1> QED
    BY <1>1, <1>2, PTL DEF FifoSpec

-----------------------------------------------------------------------------
(* Refinement of FifoQueue.                                                *)

\* Storing in the free position leaves the contents alone.
LEMMA StoreKeeps == ASSUME FifoInv, WriteStore PROVE Contents' = Contents
  <1>1. Count' = Count /\ recvpos' = recvpos
    BY CountSteps DEF WriteStore
  <1>2. \A k \in 1 .. Count : offset'[Pos(recvpos + k - 1)] = offset[Pos(recvpos + k - 1)]
    BY Positions DEF WriteStore, FifoInv, FifoTypeOK
  <1> QED
    BY <1>1, <1>2 DEF Contents, Pos

\* Moving sendpos appends the entry stored.
LEMMA AdvanceAppends == ASSUME FifoInv, WriteAdvance PROVE Contents' = Append(Contents, arg)
  <1>0. Count \in Nat /\ FifoTypeOK' /\ FifoTypeOK
    BY ShmFifoAssumption, CountRange, FifoNextType DEF FifoInv, FifoNext, Writer
  <1>1. Count' = Count + 1 /\ recvpos' = recvpos /\ offset' = offset
    BY CountSteps DEF WriteAdvance
  <1>2. offset[Pos(recvpos + Count)] = arg
    BY Positions, <1>0 DEF FifoInv, WriteAdvance
  <1>3. Contents' = [k \in 1 .. Count + 1 |-> offset[Pos(recvpos + k - 1)]]
    BY <1>1 DEF Contents, Pos
  <1>4. \A k \in 1 .. Count + 1 :
           offset[Pos(recvpos + k - 1)] = IF k = Count + 1 THEN arg ELSE Contents[k]
    <2>1. SUFFICES ASSUME NEW k \in 1 .. Count + 1
                   PROVE  offset[Pos(recvpos + k - 1)] = IF k = Count + 1 THEN arg ELSE Contents[k]
      OBVIOUS
    <2>2. CASE k = Count + 1
      <3>1. recvpos + k - 1 = recvpos + Count
        BY <1>0, <2>2 DEF FifoTypeOK
      <3> QED
        BY <1>2, <2>2, <3>1
    <2>3. CASE k # Count + 1
      <3>1. k \in 1 .. Count
        BY <1>0, <2>1, <2>3
      <3> QED
        BY <1>0, <2>3, <3>1, ContentsSeq
    <2> QED
      BY <2>2, <2>3
  <1> DEFINE longer == [k \in 1 .. Count + 1 |-> offset[Pos(recvpos + k - 1)]]
             S == Offset \cup {None}
  <1>5. /\ Append(Contents, arg) \in Seq(S) /\ Len(Append(Contents, arg)) = Count + 1
        /\ \A k \in 1 .. Count : Append(Contents, arg)[k] = Contents[k]
        /\ Append(Contents, arg)[Count + 1] = arg
    <2>1. arg \in S /\ Contents \in Seq(S) /\ Len(Contents) = Count
      BY <1>0, ContentsSeq DEF FifoTypeOK
    <2> QED
      BY <2>1, AppendProperties
  <1>6. longer \in Seq(S) /\ Len(longer) = Count + 1
    <2>0. arg \in S /\ \A k \in 1 .. Count : Contents[k] \in S
      BY <1>0, ContentsSeq DEF FifoTypeOK
    <2>1. \A k \in 1 .. Count + 1 : offset[Pos(recvpos + k - 1)] \in S
      <3> HIDE DEF S
      <3>1. \A k \in 1 .. Count + 1 : k = Count + 1 \/ k \in 1 .. Count
        BY <1>0
      <3> QED
        BY <2>0, <3>1, <1>4
    <2>2. longer \in [1 .. Count + 1 -> S] /\ DOMAIN longer = 1 .. Count + 1
      BY <2>1
    <2> HIDE DEF longer
    <2>3. longer \in Seq(S)
      BY <1>0, <2>2
    <2> QED
      BY <1>0, <2>2, <2>3
  <1>7. \A k \in 1 .. Count + 1 : longer[k] = Append(Contents, arg)[k]
    BY <1>0, <1>4, <1>5
  <1>8. longer = Append(Contents, arg)
    <2> HIDE DEF longer, S
    <2> QED
      BY <1>5, <1>6, <1>7, SeqEqual
  <1> QED
    BY <1>3, <1>8

\* Moving recvpos takes the first entry, the one read.
LEMMA AdvanceTakes ==
  ASSUME FifoInv, ReadAdvance
  PROVE  Contents # << >> /\ val = Head(Contents) /\ Contents' = Tail(Contents)
  <1>0. Count \in Nat /\ FifoTypeOK' /\ FifoTypeOK /\ Count > 0
    BY ShmFifoAssumption, CountRange, FifoNextType DEF FifoInv, FifoNext, Reader, ReadAdvance
  <1>1. Count' = Count - 1 /\ offset' = offset /\ recvpos' = Advance(recvpos)
    BY CountSteps DEF ReadAdvance
  <1>2. Contents # << >> /\ Head(Contents) = offset[Pos(recvpos)]
    BY ContentsSeq, <1>0 DEF FifoTypeOK
  <1>3. Pos(recvpos) = recvpos
    BY ShmFifoAssumption, <1>0 DEF FifoTypeOK, Pos
  <1>4. \A k \in 1 .. Count - 1 : Pos(recvpos' + k - 1) = Pos(recvpos + k)
    BY ShmFifoAssumption, <1>0, <1>1, CountRange DEF FifoTypeOK, Pos, Advance
  <1>5. Contents' = [k \in 1 .. Count - 1 |-> offset[Pos(recvpos' + k - 1)]]
    BY <1>1 DEF Contents, Pos
  <1>6. \A k \in 1 .. Count - 1 : offset[Pos(recvpos + k)] = Contents[k + 1]
    <2>1. SUFFICES ASSUME NEW k \in 1 .. Count - 1 PROVE offset[Pos(recvpos + k)] = Contents[k + 1]
      OBVIOUS
    <2>2. k + 1 \in 1 .. Count /\ recvpos + (k + 1) - 1 = recvpos + k
      BY <1>0 DEF FifoTypeOK
    <2> QED
      BY <2>2, <1>0, ContentsSeq
  <1> DEFINE rest == [k \in 1 .. Count - 1 |-> offset[Pos(recvpos' + k - 1)]]
             S == Offset \cup {None}
  <1>7. /\ Tail(Contents) \in Seq(S) /\ Len(Tail(Contents)) = Count - 1
        /\ \A k \in 1 .. Count - 1 : Tail(Contents)[k] = Contents[k + 1]
    BY <1>0, <1>2, ContentsSeq, HeadTailProperties
  <1>8. \A k \in 1 .. Count - 1 : rest[k] = Tail(Contents)[k]
    BY <1>4, <1>6, <1>7
  <1>9. rest \in Seq(S) /\ Len(rest) = Count - 1
    <2>1. Contents \in Seq(S) /\ Len(Contents) = Count
      BY <1>0, ContentsSeq
    <2>2. \A k \in 1 .. Count - 1 : rest[k] \in S
      BY <1>0, <1>8, <1>6, <1>7, <2>1
    <2>3. rest \in [1 .. Count - 1 -> S] /\ DOMAIN rest = 1 .. Count - 1
      BY <2>2
    <2> HIDE DEF rest
    <2>4. rest \in Seq(S)
      BY <1>0, <2>3
    <2> QED
      BY <1>0, <2>3, <2>4
  <1>10. rest = Tail(Contents)
    <2> HIDE DEF rest, S
    <2> QED
      BY <1>7, <1>8, <1>9, SeqEqual
  <1> QED
    BY <1>2, <1>3, <1>5, <1>10 DEF ReadAdvance, FifoInv

\* Nothing else touches the contents.
LEMMA OthersKeep ==
  ASSUME sendpos' = sendpos, recvpos' = recvpos, offset' = offset
  PROVE  Contents' = Contents
  BY DEF Contents, Count, Pos

\* The ring starts empty.
LEMMA StartsEmpty == ASSUME FifoInit PROVE Queue!Init
  <1>1. FifoTypeOK /\ Count = 0
    BY FifoInitInv DEF FifoInit, FifoInv, Count
  <1>2. Contents = << >>
    BY <1>1, ContentsSeq
  <1> QED
    BY <1>2 DEF FifoInit, Queue!Init

\* Each step of the ring is a step of the queue or changes nothing of it.
LEMMA StepRefines == ASSUME FifoInv, [FifoNext]_fifoVars PROVE [Queue!Next]_(Queue!queueVars)
  <1> USE DEF Queue!queueVars
  <1>0. FifoTypeOK /\ Len(Contents) = Count /\ (wpc # "idle" => arg # None)
    BY ContentsSeq DEF FifoInv
  <1>1. CASE WriteCall
    <2>1. Contents' = Contents /\ arg' \in Offset /\ arg' # None
      BY ShmFifoAssumption, <1>1, OthersKeep DEF WriteCall
    <2>2. Queue!Write(arg')
      BY <1>1, <2>1 DEF WriteCall, Queue!Write
    <2> QED
      BY <2>1, <2>2 DEF Queue!Next
  <1>2. CASE WriteTry
    <2>1. Contents' = Contents
      BY <1>2, OthersKeep DEF WriteTry
    <2>2. CASE Full /\ ~(tries + 1 < nsmp)
      <3>1. Queue!GiveUp
        BY <1>0, <1>2, <2>1, <2>2, FullMeansFull DEF WriteTry, Queue!GiveUp
      <3> QED
        BY <3>1 DEF Queue!Next
    <2>3. CASE ~(Full /\ ~(tries + 1 < nsmp))
      BY <1>2, <2>1, <2>3 DEF WriteTry
    <2> QED
      BY <2>2, <2>3
  <1>3. CASE WriteStore
    BY <1>3, StoreKeeps DEF WriteStore
  <1>4. CASE WriteAdvance
    <2>1. Count < FIFO_MAX - 1
      BY <1>4 DEF FifoInv, WriteAdvance
    <2>2. Queue!Put
      BY <1>0, <1>4, <2>1, AdvanceAppends DEF WriteAdvance, Queue!Put
    <2> QED
      BY <2>2 DEF Queue!Next
  <1>5. CASE ReadTake
    BY <1>5, OthersKeep DEF ReadTake
  <1>6. CASE ReadAdvance
    <2>1. Queue!Get
      BY <1>6, AdvanceTakes DEF ReadAdvance, Queue!Get
    <2> QED
      BY <2>1 DEF Queue!Next
  <1>7. CASE UNCHANGED fifoVars
    BY <1>7, OthersKeep DEF fifoVars
  <1> QED
    BY <1>1, <1>2, <1>3, <1>4, <1>5, <1>6, <1>7 DEF FifoNext, Writer, Reader

\* For every size of the ring: FIFOwrite and FIFOread, without a lock, are a
\* queue of FIFO_MAX - 1 entries whose writes may give up when it is full.
THEOREM FifoImplementsQueue == FifoSpec => ImplementsQueue
  <1>1. FifoInit => Queue!Init
    BY StartsEmpty
  <1>2. FifoInv /\ [FifoNext]_fifoVars => [Queue!Next]_(Queue!queueVars)
    BY StepRefines
  <1>3. FifoSpec => []FifoInv
    BY FifoInvariance
  <1> QED
    BY <1>1, <1>2, <1>3, PTL DEF FifoSpec, ImplementsQueue, Queue!Spec
=============================================================================
