---------------------------- MODULE NPmpi_proofs ----------------------------
(***************************************************************************)
(* NPmpi keeps its types, its collectives match, its trials do not overlap *)
(* and process 0's clock covers every pair; every message that is checked  *)
(* is the next one its pair has stamped; MPI is only asked for receives    *)
(* that are posted, and a half that is being sent is not overwritten.  All *)
(* of it for any number of pairs (two or more of them with --bidir), of    *)
(* repeats, trials and tests.                                              *)
(*                                                                         *)
(* The argument about the messages is in three parts.  From where two      *)
(* processes of a pair are follows how many messages the one has stamped   *)
(* and the other has not checked (Unchecked, of NetPIPE_proofs), and which *)
(* receives a process must have posted (Armed).  Each of these receives is *)
(* complete or posted, once (Posting).  Each of the messages is in its     *)
(* half, or on its way, once (Coming).                                     *)
(***************************************************************************)
EXTENDS NPmpi, NetPIPE_proofs

\* Every step of a process, of MPI, and every stuttering step, preserves the
\* invariant of the driver.
LEMMA NextDriverInv ==
  ASSUME Aligned, DriverInv, [Next]_vars
  PROVE  DriverInv'
<1>1. ASSUME NEW p \in Proc, Step(p) PROVE DriverInv'
  <2>1. CASE Enter(p)
    BY <2>1, EnterInv DEF Enter
  <2>2. CASE BroadcastNrepeat(p) \/ BroadcastFinished(p)
    BY <2>2, LeaveNrepeatInv, LeaveFinishInv DEF BroadcastNrepeat, BroadcastFinished
  <2>3. CASE Sync(p)
    BY <2>3, LeaveSyncInv, LeaveEndsyncInv DEF Sync
  <2>4. CASE Gather(p)
    BY <2>4, LeaveTimesInv, LeaveGatherInv DEF Gather
  <2>5. CASE Reset(p)
    BY <2>5, DriverResetInv DEF Reset
  <2>6. CASE PrepostRecv(p) \/ PrepostBurst(p)
    BY <2>6, DriverPrepostInv, DriverBurstInv DEF PrepostRecv, PrepostBurst
  <2>7. CASE SendData(p) \/ SendReturns(p)
    BY <2>7, DriverSendInv, DriverSentInv DEF SendData, SendReturns
  <2>8. CASE RecvData(p)
    BY <2>8, DriverRecvInv DEF RecvData
  <2> QED BY <1>1, <2>1, <2>2, <2>3, <2>4, <2>5, <2>6, <2>7, <2>8 DEF Step, Preposts
<1>2. ASSUME UNCHANGED <<pc, inside, colls, loopVars>> PROVE DriverInv'
  BY <1>2 DEF DriverInv, ControlTypeOK, CollectivesMatch, LogInOrder, AtItsPlace, Upcoming,
     CommonRepeats, InLoop, Passed, Last, loopVars
<1>3. ASSUME NEW p \in Proc, Deliver(p) PROVE DriverInv'
  BY <1>2, <1>3 DEF Deliver
<1>4. CASE UNCHANGED vars
  BY <1>2, <1>4 DEF vars, driverVars
<1> QED BY <1>1, <1>3, <1>4 DEF Next, Terminated

\* The invariant of the driver, for every value of the constants.
THEOREM DriverInvariance ==
  ASSUME Aligned
  PROVE  Spec => []DriverInv
<1>1. Init => DriverInv
  BY InitDriverInv DEF Init
<1>2. DriverInv /\ [Next]_vars => DriverInv'
  BY NextDriverInv
<1> QED BY <1>1, <1>2, PTL DEF Spec

\* The k-th collective call of any two processes is the same call: no Sync()
\* meets a Gather() or a Sync() of another trial.
THEOREM MpiCollectivesMatch ==
  ASSUME Aligned
  PROVE  Spec => []CollectivesMatch
<1>1. DriverInv => CollectivesMatch
  BY DEF DriverInv
<1> QED BY <1>1, DriverInvariance, PTL

\* Processes in the message loop run the same trial of the same test, with the
\* same number of repeats.
THEOREM MpiTrialsDoNotOverlap ==
  ASSUME Aligned
  PROVE  Spec => []TrialsDoNotOverlap
BY InvTrialsDoNotOverlap, DriverInvariance, PTL

\* With several pairs, process 0 stops its clock after the last message of all.
THEOREM MpiClockCoversAllPairs ==
  ASSUME Aligned
  PROVE  Spec => []ClockCoversAllPairs
BY InvClockCoversAllPairs, DriverInvariance, PTL
-----------------------------------------------------------------------------
(***************************************************************************)
(* Type correctness of mpi.c.                                              *)
(***************************************************************************)

\* Between the broadcasts of nrepeat and of finished the modulus of the tags is
\* not zero: "% nrepeats" is only computed then.  It is 0 after the broadcast of
\* finished = 0, until the next broadcast of nrepeat.
ModulusInv ==
  \A p \in Proc : pc[p] \notin {"nrepeat", "done"} => nrepeats[p] > 0

MpiInv == DriverInv /\ TypeOK /\ ModulusInv

LEMMA InitMpiInv == Init => MpiInv
<1> SUFFICES ASSUME Init PROVE MpiInv
  OBVIOUS
<1> USE NetPIPEAssumption DEF Init, DriverInit
<1>1. DriverInv
  BY InitDriverInv
<1>2. DriverTypeOK
  BY <1>1 DEF DriverInv, DriverTypeOK, BufferTypeOK, Half, Tag
<1>3. TypeOK
  BY <1>2 DEF TypeOK
<1> QED BY <1>1, <1>3 DEF MpiInv, ModulusInv

\* The remainder of a natural number is one.
LEMMA ModNat ==
  ASSUME NEW a \in Nat, NEW b \in Nat, b > 0
  PROVE  a % b \in 0 .. b - 1
OBVIOUS

LEMMA RemoveAtType ==
  ASSUME NEW S, NEW s \in Seq(S), NEW i \in DOMAIN s
  PROVE  RemoveAt(s, i) \in Seq(S)
<1>1. i \in 1 .. Len(s) /\ Len(s) \in Nat
  OBVIOUS
<1>2. SubSeq(s, 1, i - 1) \in Seq(S) /\ SubSeq(s, i + 1, Len(s)) \in Seq(S)
  BY <1>1
<1> QED BY <1>2 DEF RemoveAt

\* The buffers of the driver keep their types.
LEMMA BufferStep ==
  ASSUME TypeOK, [Next]_vars
  PROVE  BufferTypeOK'
<1> USE NetPIPEAssumption
<1>0. BufferTypeOK
  BY DEF TypeOK, DriverTypeOK
<1>1. ASSUME NEW p \in Proc, Step(p) PROVE BufferTypeOK'
  <2>1. CASE UNCHANGED bufVars
    BY <1>0, <2>1 DEF BufferTypeOK, bufVars
  <2>2. CASE LeaveNrepeat(p)
    <3>1. /\ s_ptr' = [s_ptr EXCEPT ![p] = 0] /\ r_ptr' = [r_ptr EXCEPT ![p] = 1]
          /\ buf' = [buf EXCEPT ![p] = [h \in Half |-> Blank]]
          /\ failures' = [failures EXCEPT ![p] = 0] /\ UNCHANGED <<setTag, chkTag>>
      BY <2>2 DEF LeaveNrepeat, MallocBufs
    <3> QED BY <1>0, <3>1 DEF BufferTypeOK, Half
  <2>3. CASE DriverSend(p)
    <3>1. setTag[p] \in Nat /\ (setTag[p] + 1) % TagMod \in Tag
      BY <1>0 DEF BufferTypeOK, Tag
    <3>2. /\ setTag' = [setTag EXCEPT ![p] = (setTag[p] + 1) % TagMod]
          /\ buf' = [buf EXCEPT ![p] = [buf[p] EXCEPT ![s_ptr[p]] = (setTag[p] + 1) % TagMod]]
          /\ UNCHANGED <<s_ptr, r_ptr, chkTag, failures>>
      BY <1>0, <2>3 DEF DriverSend, SetupBufferData, BufferTypeOK
    <3>3. [buf[p] EXCEPT ![s_ptr[p]] = (setTag[p] + 1) % TagMod] \in [Half -> Tag \cup {Blank}]
      BY <1>0, <3>1 DEF BufferTypeOK
    <3> QED BY <1>0, <3>1, <3>2, <3>3 DEF BufferTypeOK
  <2>4. CASE DriverRecv(p)
    <3>1. (chkTag[p] + 1) % TagMod \in Tag
      BY <1>0 DEF BufferTypeOK, Tag
    <3>2. /\ chkTag' = [chkTag EXCEPT ![p] = (chkTag[p] + 1) % TagMod]
          /\ \E f \in {failures[p], failures[p] + 1} : failures' = [failures EXCEPT ![p] = f]
          /\ s_ptr' = [s_ptr EXCEPT ![p] = r_ptr[p]] /\ r_ptr' = [r_ptr EXCEPT ![p] = s_ptr[p]]
          /\ UNCHANGED <<buf, setTag>>
      BY <2>4 DEF DriverRecv, CheckBufferData, AdvancePtrs
    <3> QED BY <1>0, <3>1, <3>2 DEF BufferTypeOK
  <2> QED BY <1>1, <2>1, <2>2, <2>3, <2>4
     DEF Step, Preposts, Enter, BroadcastNrepeat, BroadcastFinished, Sync, Gather, Reset, PrepostRecv,
         PrepostBurst, SendData, SendReturns, RecvData, EnterCollective, LeaveFinish, LeaveSync,
         LeaveEndsync, LeaveTimes, LeaveGather, DriverReset, DriverPrepost, DriverBurst, DriverSent
<1>2. ASSUME NEW p \in Proc, Deliver(p) PROVE BufferTypeOK'
  <2>1. PICK r \in Receive, m \in Message : buf' = [buf EXCEPT ![p][r.half] = m.data]
    <3>1. PICK i \in DOMAIN posted[p], k \in DOMAIN net[p] :
            buf' = [buf EXCEPT ![p][posted[p][i].half] = net[p][k].data]
      BY <1>2 DEF Deliver
    <3>2. posted[p] \in Seq(Receive) /\ net[p] \in Seq(Message)
      BY DEF TypeOK
    <3>3. posted[p][i] \in Receive /\ net[p][k] \in Message
      BY <3>1, <3>2
    <3> QED BY <3>1, <3>3
  <2>2. r.half \in Half /\ m.data \in Tag
    BY DEF Receive, Message
  <2>3. buf[p] \in [Half -> Tag \cup {Blank}]
    BY <1>0 DEF BufferTypeOK
  <2>4. [buf[p] EXCEPT ![r.half] = m.data] \in [Half -> Tag \cup {Blank}]
    BY <2>2, <2>3
  <2>5. buf' = [buf EXCEPT ![p] = [buf[p] EXCEPT ![r.half] = m.data]]
    BY <1>0, <2>1 DEF BufferTypeOK
  <2>6. UNCHANGED <<s_ptr, r_ptr, setTag, chkTag, failures>>
    BY <1>2 DEF Deliver
  <2> QED BY <1>0, <2>4, <2>5, <2>6 DEF BufferTypeOK
<1>3. CASE UNCHANGED vars
  BY <1>0, <1>3 DEF BufferTypeOK, vars, driverVars, bufVars
<1> QED BY <1>1, <1>2, <1>3 DEF Next, Terminated

\* The variables of mpi.c have their types.
ModuleTypeOK ==
  /\ nrepeats \in [Proc -> Nat]
  /\ stag     \in [Proc -> Nat]
  /\ rtag     \in [Proc -> Nat]
  /\ posted   \in [Proc -> Seq(Receive)]
  /\ complete \in [Proc -> SUBSET Nat]
  /\ net      \in [Proc -> Seq(Message)]

\* A new receive is well formed, and so is the slot it takes.
LEMMA PostedType ==
  ASSUME BufferTypeOK, NEW p \in Proc, NEW t \in Nat
  PROVE  /\ Slot(t) \in Nat
         /\ [slot |-> Slot(t), tag |-> t, half |-> r_ptr[p]] \in Receive
         /\ [slot |-> Slot(t), tag |-> t, half |-> s_ptr[p]] \in Receive
<1>1. Slot(t) \in Nat
  BY DEF Slot
<1>2. r_ptr[p] \in Half /\ s_ptr[p] \in Half
  BY DEF BufferTypeOK
<1> QED BY <1>1, <1>2 DEF Receive

LEMMA ModuleStep ==
  ASSUME MpiInv, BufferTypeOK', [Next]_vars
  PROVE  ModuleTypeOK'
<1> USE NetPIPEAssumption
<1>0. ModuleTypeOK /\ BufferTypeOK /\ DriverInv
  BY DEF MpiInv, TypeOK, ModuleTypeOK, DriverTypeOK
<1>1. ASSUME NEW p \in Proc, pc[p] \notin {"nrepeat", "done"}, NEW a \in Nat
      PROVE  a % nrepeats[p] \in Nat
  <2>1. nrepeats[p] > 0 /\ nrepeats[p] \in Nat
    BY <1>0, <1>1 DEF MpiInv, ModulusInv, ModuleTypeOK
  <2> QED BY <2>1, ModNat
<1>2. ASSUME NEW p \in Proc, BroadcastNrepeat(p) \/ BroadcastFinished(p) PROVE ModuleTypeOK'
  <2>1. ModuleBroadcast(p) /\ RootValue(p) \in Nat
    BY <1>0, <1>2, BcastFacts DEF BroadcastNrepeat, BroadcastFinished, LeaveNrepeat, LeaveFinish, Bcasts
  <2> QED BY <1>0, <2>1 DEF ModuleBroadcast, ModuleTypeOK
<1>3. ASSUME NEW p \in Proc, PrepostRecv(p) PROVE ModuleTypeOK'
  <2>1. pc[p] \notin {"nrepeat", "done"} /\ rtag[p] \in Nat
    BY <1>0, <1>3 DEF PrepostRecv, DriverPrepost, ModuleTypeOK
  <2>2. (rtag[p] + 1) % nrepeats[p] \in Nat
    BY <1>1, <2>1
  <2> DEFINE r == [slot |-> Slot(rtag[p]), tag |-> rtag[p], half |-> r_ptr[p]]
  <2>3. r \in Receive
    BY <1>0, <2>1, PostedType
  <2>4. posted' = [posted EXCEPT ![p] = Append(@, r)]
    BY <1>3 DEF PrepostRecv
  <2>5. posted' \in [Proc -> Seq(Receive)]
    <3> HIDE DEF r
    <3> QED BY <1>0, <2>3, <2>4 DEF ModuleTypeOK
  <2> QED BY <1>0, <1>3, <2>2, <2>5 DEF PrepostRecv, ModuleTypeOK
<1>4. ASSUME NEW p \in Proc, PrepostBurst(p) PROVE ModuleTypeOK'
  <2> DEFINE tagOf(m) == (rtag[p] + m) % nrepeats[p]
             new == [m \in 1 .. nrepeat[p] |->
                      [slot |-> Slot(tagOf(m - 1)), tag |-> tagOf(m - 1),
                       half |-> BurstHalf(p, m - 1)]]
  <2>1. pc[p] \notin {"nrepeat", "done"} /\ rtag[p] \in Nat /\ nrepeat[p] \in Nat
    BY <1>0, <1>4 DEF PrepostBurst, DriverBurst, ModuleTypeOK, DriverInv, ControlTypeOK
  <2>2. \A m \in Nat : tagOf(m) \in Nat
    BY <1>1, <2>1
  <2> HIDE DEF tagOf
  <2>3. ASSUME NEW m \in 1 .. nrepeat[p] PROVE new[m] \in Receive
    <3>1. tagOf(m - 1) \in Nat
      BY <2>2
    <3>2. BurstHalf(p, m - 1) \in {r_ptr[p], s_ptr[p]}
      BY DEF BurstHalf
    <3> QED BY <1>0, <3>1, <3>2, PostedType
  <2>4. new \in Seq(Receive)
    <3> HIDE DEF new
    <3>1. new \in [1 .. nrepeat[p] -> Receive]
      BY <2>3 DEF new
    <3> QED BY <2>1, <3>1
  <2>5. posted' = [posted EXCEPT ![p] = @ \o new]
        /\ complete' = [complete EXCEPT ![p] = @ \ {Slot(tagOf(m)) : m \in 0 .. nrepeat[p] - 1}]
        /\ rtag' = [rtag EXCEPT ![p] = tagOf(nrepeat[p])]
        /\ UNCHANGED <<nrepeats, stag, net>>
    BY <1>4 DEF PrepostBurst, tagOf
  <2> HIDE DEF new
  <2>6. posted' \in [Proc -> Seq(Receive)]
    BY <1>0, <2>4, <2>5 DEF ModuleTypeOK
  <2>7. complete' \in [Proc -> SUBSET Nat] /\ rtag' \in [Proc -> Nat]
    BY <1>0, <2>1, <2>2, <2>5 DEF ModuleTypeOK
  <2> QED BY <1>0, <2>5, <2>6, <2>7 DEF ModuleTypeOK
<1>5. ASSUME NEW p \in Proc, SendData(p) PROVE ModuleTypeOK'
  <2>1. pc[p] \notin {"nrepeat", "done"} /\ stag[p] \in Nat
    BY <1>0, <1>5 DEF SendData, DriverSend, ModuleTypeOK
  <2>2. (stag[p] + 1) % nrepeats[p] \in Nat
    BY <1>1, <2>1
  <2> DEFINE m == [tag |-> stag[p], data |-> buf'[p][s_ptr[p]]]
  <2>3. m \in Message
    <3>1. s_ptr[p] \in Half /\ buf[p] \in [Half -> Tag \cup {Blank}] /\ setTag[p] \in Nat
      BY <1>0 DEF BufferTypeOK, Tag
    <3>2. buf' = [buf EXCEPT ![p] = [buf[p] EXCEPT ![s_ptr[p]] = (setTag[p] + 1) % TagMod]]
      BY <1>0, <1>5 DEF SendData, DriverSend, SetupBufferData, BufferTypeOK
    <3>3. buf'[p][s_ptr[p]] = (setTag[p] + 1) % TagMod
      BY <1>0, <3>1, <3>2 DEF BufferTypeOK
    <3> QED BY <2>1, <3>1, <3>3 DEF Message, Tag
  <2>4. net' = [net EXCEPT ![Pair(p)] = Append(@, m)]
    BY <1>5 DEF SendData
  <2> HIDE DEF m
  <2>5. net' \in [Proc -> Seq(Message)]
    <3>1. Pair(p) \in Proc
      BY DEF Pair, Proc, NProcs
    <3>2. net[Pair(p)] \in Seq(Message) /\ Append(net[Pair(p)], m) \in Seq(Message)
      BY <1>0, <2>3, <3>1 DEF ModuleTypeOK
    <3> QED BY <1>0, <2>4, <3>2 DEF ModuleTypeOK
  <2> QED BY <1>0, <1>5, <2>2, <2>5 DEF SendData, ModuleTypeOK
<1>6. ASSUME NEW p \in Proc, RecvData(p) PROVE ModuleTypeOK'
  <2>1. pc[p] \notin {"nrepeat", "done"} /\ rtag[p] \in Nat
    BY <1>0, <1>6 DEF RecvData, DriverRecv, ModuleTypeOK
  <2>2. (rtag[p] + 1) % nrepeats[p] \in Nat
    BY <1>1, <2>1
  <2> QED BY <1>0, <1>6, <2>1, <2>2 DEF RecvData, ModuleTypeOK
<1>7. ASSUME NEW p \in Proc, Deliver(p) PROVE ModuleTypeOK'
  <2>1. PICK i \in DOMAIN posted[p], k \in DOMAIN net[p] :
          /\ posted'   = [posted EXCEPT ![p] = RemoveAt(@, i)]
          /\ complete' = [complete EXCEPT ![p] = @ \cup {posted[p][i].slot}]
          /\ net'      = [net EXCEPT ![p] = RemoveAt(@, k)]
    BY <1>7 DEF Deliver
  <2>2. posted[p] \in Seq(Receive) /\ net[p] \in Seq(Message)
    BY <1>0 DEF ModuleTypeOK
  <2>3. RemoveAt(posted[p], i) \in Seq(Receive) /\ RemoveAt(net[p], k) \in Seq(Message)
    BY <2>2, RemoveAtType
  <2>4. posted[p][i].slot \in Nat
    <3>1. posted[p][i] \in Receive
      BY <2>1, <2>2
    <3> QED BY <3>1 DEF Receive
  <2>5. UNCHANGED <<nrepeats, stag, rtag>>
    BY <1>7 DEF Deliver
  <2> QED BY <1>0, <2>1, <2>3, <2>4, <2>5 DEF ModuleTypeOK
<1>8. CASE UNCHANGED mpiVars
  BY <1>0, <1>8 DEF ModuleTypeOK, mpiVars
<1> QED BY <1>2, <1>3, <1>4, <1>5, <1>6, <1>7, <1>8
   DEF Next, Terminated, Step, Preposts, vars, Enter, Sync, Gather, Reset, SendReturns

LEMMA ModulusStep ==
  ASSUME MpiInv, DriverInv', [Next]_vars
  PROVE  ModulusInv'
<1> USE NetPIPEAssumption
<1>0. ModulusInv /\ DriverInv /\ nrepeats \in [Proc -> Nat]
  BY DEF MpiInv, TypeOK
<1>1. ASSUME NEW p \in Proc, BroadcastNrepeat(p) \/ BroadcastFinished(p) PROVE ModulusInv'
  <2>1. nrepeats' = [nrepeats EXCEPT ![p] = RootValue(p)]
    BY <1>1 DEF BroadcastNrepeat, BroadcastFinished, ModuleBroadcast
  <2>2. \A q \in Proc : q # p => pc'[q] = pc[q]
    BY <1>0, <1>1 DEF BroadcastNrepeat, BroadcastFinished, LeaveNrepeat, LeaveFinish, Goto,
       DriverInv, ControlTypeOK
  <2>3. pc'[p] \in {"nrepeat", "done"} \/ RootValue(p) \in Repeats
    <3>1. CASE BroadcastNrepeat(p)
      BY <1>0, <3>1, BcastFacts DEF BroadcastNrepeat, LeaveNrepeat, Bcasts
    <3>2. CASE BroadcastFinished(p)
      BY <1>0, <3>2 DEF BroadcastFinished, LeaveFinish, Goto, DriverInv, ControlTypeOK
    <3> QED BY <1>1, <3>1, <3>2
  <2>4. nrepeats'[p] = RootValue(p) /\ \A q \in Proc : q # p => nrepeats'[q] = nrepeats[q]
    BY <1>0, <2>1
  <2>5. \A v \in Repeats : v > 0
    OBVIOUS
  <2>6. ASSUME NEW q \in Proc, pc'[q] \notin {"nrepeat", "done"} PROVE nrepeats'[q] > 0
    <3>1. CASE q = p
      BY <2>3, <2>4, <2>5, <2>6, <3>1
    <3>2. CASE q # p
      BY <1>0, <2>2, <2>4, <2>6, <3>2 DEF ModulusInv
    <3> QED BY <3>1, <3>2
  <2> QED BY <2>6 DEF ModulusInv
<1>2. ASSUME NEW p \in Proc, UNCHANGED nrepeats, pc[p] \notin {"nrepeat", "done"},
             \A q \in Proc : q # p => pc'[q] = pc[q]
      PROVE  ModulusInv'
  BY <1>0, <1>2 DEF ModulusInv
<1>3. ASSUME UNCHANGED <<pc, nrepeats>> PROVE ModulusInv'
  BY <1>0, <1>3 DEF ModulusInv
<1>4. ASSUME NEW p \in Proc, Step(p), ~BroadcastNrepeat(p), ~BroadcastFinished(p)
      PROVE  ModulusInv'
  <2>1. CASE Enter(p)
    BY <1>3, <2>1 DEF Enter, EnterCollective, mpiVars
  <2>2. CASE ~Enter(p)
    <3>1. UNCHANGED nrepeats
      BY <1>4, <2>2 DEF Step, Preposts, Sync, Gather, Reset, PrepostRecv, PrepostBurst, SendData,
         SendReturns, RecvData, mpiVars
    <3>2. pc[p] \notin {"nrepeat", "done"}
      <4>1. CASE Sync(p) \/ Gather(p) \/ Reset(p)
        BY <4>1 DEF Sync, Gather, Reset, LeaveSync, LeaveEndsync, LeaveTimes, LeaveGather,
           Leave, DriverReset
      <4>2. CASE PrepostRecv(p) \/ PrepostBurst(p) \/ SendData(p) \/ SendReturns(p) \/ RecvData(p)
        BY <4>2 DEF PrepostRecv, PrepostBurst, SendData, SendReturns, RecvData,
           DriverPrepost, DriverBurst, DriverSend, DriverSent, DriverRecv
      <4> QED BY <1>4, <2>2, <4>1, <4>2 DEF Step, Preposts
    <3>3. \E label : pc' = [pc EXCEPT ![p] = label]
      <4>1. CASE Sync(p) \/ Gather(p) \/ Reset(p)
        BY <4>1 DEF Sync, Gather, Reset, LeaveSync, LeaveEndsync, LeaveTimes, LeaveGather,
           DriverReset, Goto
      <4>2. CASE PrepostRecv(p) \/ PrepostBurst(p)
        BY <4>2 DEF PrepostRecv, PrepostBurst, DriverPrepost, DriverBurst, Continue, Goto
      <4>3. CASE SendData(p) \/ SendReturns(p) \/ RecvData(p)
        BY <4>3 DEF SendData, SendReturns, RecvData, DriverSend, DriverSent, DriverRecv,
           Continue, Goto
      <4> QED BY <1>4, <2>2, <4>1, <4>2, <4>3 DEF Step, Preposts
    <3>4. \A q \in Proc : q # p => pc'[q] = pc[q]
      BY <1>0, <3>3 DEF DriverInv, ControlTypeOK
    <3> QED BY <1>2, <3>1, <3>2, <3>4
  <2> QED BY <2>1, <2>2
<1> QED BY <1>1, <1>3, <1>4 DEF Next, Terminated, Deliver, vars, driverVars, mpiVars

\* The invariant of the types is inductive.
LEMMA NextMpiInv ==
  ASSUME Aligned, MpiInv, [Next]_vars
  PROVE  MpiInv'
<1>1. DriverInv'
  BY NextDriverInv DEF MpiInv
<1>2. BufferTypeOK'
  BY BufferStep DEF MpiInv
<1>3. ModuleTypeOK'
  BY <1>2, ModuleStep
<1>4. ModulusInv'
  BY <1>1, ModulusStep
<1> QED BY <1>1, <1>2, <1>3, <1>4
   DEF MpiInv, TypeOK, ModuleTypeOK, DriverTypeOK, DriverInv

\* Every variable keeps its type; in particular mpi.c never divides by zero.
THEOREM MpiTypeCorrect ==
  ASSUME Aligned
  PROVE  Spec => []TypeOK
<1>1. Init => MpiInv
  BY InitMpiInv
<1>2. MpiInv /\ [Next]_vars => MpiInv'
  BY NextMpiInv
<1>3. MpiInv => TypeOK
  BY DEF MpiInv
<1> QED BY <1>1, <1>2, <1>3, PTL DEF Spec

-----------------------------------------------------------------------------
(***************************************************************************)
(* The receives of one process, and the messages on their way to it.  The  *)
(* messages of a trial are numbered from 0, and MPI's tag is the number.   *)
(***************************************************************************)

\* The half that a message is received in, when the next to be checked is the g-th:
\* the pointers are swapped after each.
HalfFor(g, t, r, s) == IF (t - g) % 2 = 0 THEN r ELSE s

\* What SetupBufferData() wrote in it, when chk was the last tag checked.
Stamp(chk, g, t) == (chk + (t - g) + 1) % TagMod

\* With --stream and --burst together a message may overwrite one not checked yet.
Paced == ~(Burst /\ Mode = "stream")

\* "armed" numbers the receives that have been posted and not waited for: all that are
\* left in the trial with --burst, else the next one at most.
Numbered(armed, g) ==
  /\ g \in Nat /\ armed \subseteq Nat
  /\ \A t \in armed : t >= g
  /\ ~Burst => armed \subseteq {g}

\* Each of them is either complete or in the list of the posted, in their order.
Posting(armed, g, po, co, r, s) ==
  /\ \A i \in DOMAIN po :
       /\ po[i].tag \in armed /\ po[i].slot = Slot(po[i].tag) /\ po[i].slot \notin co
       /\ po[i].half = HalfFor(g, po[i].tag, r, s)
  /\ \A i, i2 \in DOMAIN po : i < i2 => po[i].tag < po[i2].tag
  /\ \A t \in armed : Slot(t) \in co \/ \E i \in DOMAIN po : po[i].tag = t

\* Of the u messages stamped and not checked, those that have been taken are in the
\* halves of their receives, and those that have not are on their way, once each.
Coming(armed, g, u, co, ne, chk, set, b, r, s) ==
  /\ u \in Nat /\ set = (chk + u) % TagMod
  /\ \A x \in co : \E t \in armed : /\ x = Slot(t) /\ t < g + u
                                    /\ Paced => b[HalfFor(g, t, r, s)] = Stamp(chk, g, t)
  /\ \A k \in DOMAIN ne : /\ ne[k].tag \in g .. g + u - 1
                          /\ ne[k].data = Stamp(chk, g, ne[k].tag)
                          /\ ne[k].tag \in armed => Slot(ne[k].tag) \notin co
  /\ \A k, k2 \in DOMAIN ne : ne[k].tag = ne[k2].tag => k = k2

LEMMA Modulus ==
  /\ TagMod \in Nat \ {0} /\ Tag = 0 .. TagMod - 1
  /\ \A a \in Int : a % TagMod \in Tag
  /\ \A a \in Int, b \in Int : ((a % TagMod) + b) % TagMod = (a + b) % TagMod
<1>1. TagMod \in Nat \ {0}
  BY NetPIPEAssumption
<1>2. ASSUME NEW a \in Int PROVE a % TagMod \in Tag
  BY <1>1, ModRange DEF Tag
<1>3. ASSUME NEW a \in Int, NEW b \in Int
      PROVE  ((a % TagMod) + b) % TagMod = (a + b) % TagMod
  BY <1>1, ModAdd
<1> QED BY <1>1, <1>2, <1>3 DEF Tag

LEMMA TagInt == \A a \in Tag : a \in Int
BY NetPIPEAssumption DEF Tag

\* The tags that a message more, and a message less, make.
LEMMA NextStamp ==
  ASSUME NEW chk \in Tag, NEW g \in Nat, NEW u \in Nat
  PROVE  /\ chk \in Int
         /\ (((chk + u) % TagMod) + 1) % TagMod = (chk + (u + 1)) % TagMod
         /\ (((chk + u) % TagMod) + 1) % TagMod = Stamp(chk, g, g + u)
<1>1. chk \in Int
  BY TagInt
<1>2. PICK a \in Int : a = chk + u
  BY <1>1
<1>3. ((a % TagMod) + 1) % TagMod = (a + 1) % TagMod
  <2>1. 1 \in Int
    OBVIOUS
  <2> QED BY <2>1, Modulus, Zenon
<1>4. a + 1 = chk + (u + 1) /\ a + 1 = chk + ((g + u) - g) + 1
  BY <1>1, <1>2
<1> QED BY <1>1, <1>2, <1>3, <1>4 DEF Stamp

LEMMA CheckedStamp ==
  ASSUME NEW chk \in Tag, NEW g \in Nat, NEW u \in Nat, u >= 1
  PROVE  /\ (chk + 1) % TagMod \in Tag
         /\ (chk + 1) % TagMod = Stamp(chk, g, g)
         /\ (chk + u) % TagMod = (((chk + 1) % TagMod) + (u - 1)) % TagMod
         /\ \A t \in Int : Stamp((chk + 1) % TagMod, g + 1, t) = Stamp(chk, g, t)
<1>1. chk \in Int
  BY TagInt
<1>2. PICK a \in Int : a = chk + 1
  BY <1>1
<1>3. a % TagMod \in Tag /\ a % TagMod \in Int
  BY Modulus, TagInt
<1>4. (a + (u - 1)) % TagMod = ((a % TagMod) + (u - 1)) % TagMod /\ a + (u - 1) = chk + u
  <2>1. u - 1 \in Int
    OBVIOUS
  <2>2. ((a % TagMod) + (u - 1)) % TagMod = (a + (u - 1)) % TagMod
    BY <2>1, Modulus, Zenon
  <2> QED BY <1>1, <1>2, <2>2
<1>5. chk + (g - g) + 1 = a
  BY <1>1, <1>2
<1>6. ASSUME NEW t \in Int
      PROVE  ((a % TagMod) + (t - (g + 1)) + 1) % TagMod = (chk + (t - g) + 1) % TagMod
  <2>1. PICK d \in Int : d = t - g
    OBVIOUS
  <2>2. ((a % TagMod) + d) % TagMod = (a + d) % TagMod
    BY Modulus, Zenon
  <2>3. (a % TagMod) + (t - (g + 1)) + 1 = (a % TagMod) + d /\ a + d = chk + (t - g) + 1
    BY <1>1, <1>2, <1>3, <2>1
  <2> QED BY <2>2, <2>3
<1> QED BY <1>2, <1>3, <1>4, <1>5, <1>6 DEF Stamp

\* What is left of a list when an element is taken out.
LEMMA RemoveAtFacts ==
  ASSUME NEW S, NEW s \in Seq(S), NEW i \in DOMAIN s
  PROVE  LET new == RemoveAt(s, i) IN
         /\ new \in Seq(S) /\ Len(new) = Len(s) - 1
         /\ \A m \in DOMAIN new : IF m < i THEN m \in DOMAIN s /\ new[m] = s[m]
                                           ELSE m + 1 \in DOMAIN s /\ new[m] = s[m + 1]
         /\ \A m \in DOMAIN s : m < i => m \in DOMAIN new /\ new[m] = s[m]
         /\ \A m \in DOMAIN s : m > i => m - 1 \in DOMAIN new /\ new[m - 1] = s[m]
<1> DEFINE a == SubSeq(s, 1, i - 1)
           b == SubSeq(s, i + 1, Len(s))
<1>1. i \in 1 .. Len(s) /\ Len(s) \in Nat /\ DOMAIN s = 1 .. Len(s)
  OBVIOUS
<1>2. /\ a \in Seq(S) /\ Len(a) = i - 1 /\ \A m \in 1 .. i - 1 : a[m] = s[m]
  BY <1>1
<1>3. /\ b \in Seq(S) /\ Len(b) = Len(s) - i /\ \A m \in 1 .. Len(s) - i : b[m] = s[m + i]
  BY <1>1
<1> HIDE DEF a, b
<1>4. /\ a \o b \in Seq(S) /\ Len(a \o b) = Len(a) + Len(b)
      /\ \A m \in 1 .. Len(a) : (a \o b)[m] = a[m]
      /\ \A m \in 1 .. Len(b) : (a \o b)[Len(a) + m] = b[m]
  <2>1. a \in Seq(S) /\ b \in Seq(S)
    BY <1>2, <1>3
  <2> QED BY <2>1
<1>5. PICK new : new = a \o b
  OBVIOUS
<1>6. /\ new \in Seq(S) /\ Len(new) = Len(s) - 1 /\ DOMAIN new = 1 .. Len(s) - 1
      /\ \A m \in 1 .. i - 1 : new[m] = s[m]
  <2>1. Len(a) = i - 1 /\ Len(a) + Len(b) = Len(s) - 1
    BY <1>1, <1>2, <1>3
  <2>2. new \in Seq(S) /\ Len(new) = Len(s) - 1
    BY <1>4, <1>5, <2>1
  <2>3. DOMAIN new = 1 .. Len(s) - 1
    BY <2>2
  <2>4. \A m \in 1 .. i - 1 : new[m] = s[m]
    BY <1>2, <1>4, <1>5, <2>1
  <2> QED BY <2>2, <2>3, <2>4
<1>7. ASSUME NEW m \in i .. Len(s) - 1 PROVE new[m] = s[m + 1]
  <2>1. PICK k \in 1 .. Len(s) - i : k = m - (i - 1)
    BY <1>1, <1>7
  <2>2. new[Len(a) + k] = b[k] /\ b[k] = s[k + i]
    BY <1>3, <1>4, <1>5
  <2>3. Len(a) + k = m /\ k + i = m + 1
    BY <1>1, <1>2, <2>1
  <2> QED BY <2>2, <2>3
<1>8. \A m \in DOMAIN new : IF m < i THEN m \in DOMAIN s /\ new[m] = s[m]
                                     ELSE m + 1 \in DOMAIN s /\ new[m] = s[m + 1]
  BY <1>1, <1>6, <1>7
<1>9. \A m \in DOMAIN s : m < i => m \in DOMAIN new /\ new[m] = s[m]
  BY <1>1, <1>6
<1>10. ASSUME NEW m \in DOMAIN s, m > i PROVE m - 1 \in DOMAIN new /\ new[m - 1] = s[m]
  <2>1. m - 1 \in i .. Len(s) - 1 /\ m - 1 + 1 = m
    BY <1>1, <1>10
  <2>2. m - 1 \in 1 .. Len(s) - 1
    BY <1>1, <2>1
  <2> QED BY <1>6, <1>7, <2>1, <2>2
<1>11. RemoveAt(s, i) = new
  BY <1>5 DEF RemoveAt, a, b
<1> QED BY <1>6, <1>8, <1>9, <1>10, <1>11

LEMMA HalfFacts ==
  ASSUME NEW g \in Nat, NEW t \in Nat, NEW r, NEW s
  PROVE  /\ HalfFor(g, g, r, s) = r
         /\ HalfFor(g + 1, t, s, r) = HalfFor(g, t, r, s)
         /\ t = g + 1 => HalfFor(g, t, r, s) = s
         /\ HalfFor(g, t, r, s) \in {r, s}
<1>1. (g - g) % 2 = 0 /\ (t = g + 1 => (t - g) % 2 # 0)
  OBVIOUS
<1>2. (t - (g + 1)) % 2 = 0 <=> (t - g) % 2 # 0
  OBVIOUS
<1> QED BY <1>1, <1>2 DEF HalfFor

LEMMA NoElement ==
  ASSUME NEW S, NEW s \in Seq(S), ~ \E i \in DOMAIN s : TRUE
  PROVE  s = << >>
<1>1. Len(s) \in Nat /\ DOMAIN s = 1 .. Len(s)
  OBVIOUS
<1>2. 1 \notin 1 .. Len(s)
  BY <1>1
<1> QED BY <1>1, <1>2

\* Without a receive nothing is posted and nothing is complete; when all that was stamped
\* has been checked nothing is complete or on its way.
LEMMA Idle ==
  ASSUME NEW armed, NEW g, NEW u, NEW co, NEW po \in Seq(Receive), NEW ne \in Seq(Message),
         NEW chk, NEW set, NEW b, NEW r, NEW s,
         Numbered(armed, g), Posting(armed, g, po, co, r, s),
         Coming(armed, g, u, co, ne, chk, set, b, r, s)
  PROVE  /\ armed = {} => po = << >> /\ co = {}
         /\ u = 0 => ne = << >> /\ co = {}
<1>1. ASSUME armed = {} PROVE po = << >> /\ co = {}
  <2>1. co = {}
    BY <1>1 DEF Coming
  <2>2. ~ \E i \in DOMAIN po : TRUE
    BY <1>1 DEF Posting
  <2> QED BY <2>1, <2>2, NoElement
<1>2. ASSUME u = 0 PROVE ne = << >> /\ co = {}
  <2>1. g \in Nat /\ \A t \in armed : t \in Nat /\ t >= g
    BY DEF Numbered
  <2>2. \A x \in co : \E t \in armed : t < g
    BY <1>2, <2>1 DEF Coming
  <2>3. ~ \E k \in DOMAIN ne : TRUE
    <3>1. g .. g + 0 - 1 = {}
      BY <2>1
    <3> QED BY <1>2, <3>1 DEF Coming
  <2>4. co = {}
    BY <2>1, <2>2
  <2> QED BY <2>3, <2>4, NoElement
<1> QED BY <1>1, <1>2

\* A message is sent.
LEMMA StampMail ==
  ASSUME NEW armed, NEW g, NEW u, NEW co, NEW ne \in Seq(Message), NEW chk \in Tag, NEW set,
         NEW b, NEW r, NEW s, NEW m \in Message,
         Numbered(armed, g), Coming(armed, g, u, co, ne, chk, set, b, r, s),
         m.tag = g + u, m.data = (set + 1) % TagMod
  PROVE  Coming(armed, g, u + 1, co, Append(ne, m), chk, (set + 1) % TagMod, b, r, s)
<1>1. u \in Nat /\ set = (chk + u) % TagMod /\ g \in Nat
  BY DEF Coming, Numbered
<1>2. /\ (set + 1) % TagMod = (chk + (u + 1)) % TagMod
      /\ m.data = Stamp(chk, g, m.tag)
  BY <1>1, NextStamp
<1>3. \A x \in co : \E t \in armed : /\ x = Slot(t) /\ t < g + (u + 1)
                                     /\ Paced => b[HalfFor(g, t, r, s)] = Stamp(chk, g, t)
  <2>1. \A t \in armed : t \in Nat /\ (t < g + u => t < g + (u + 1))
    BY <1>1 DEF Numbered
  <2> QED BY <2>1 DEF Coming
<1>4. m.tag \in armed => Slot(m.tag) \notin co
  <2>1. SUFFICES ASSUME m.tag \in armed, Slot(m.tag) \in co PROVE FALSE
    OBVIOUS
  <2>2. PICK t \in armed : Slot(m.tag) = Slot(t) /\ t < g + u
    BY <2>1 DEF Coming
  <2>3. t = m.tag
    BY <2>1, <2>2 DEF Numbered, Slot
  <2> QED BY <1>1, <2>2, <2>3
<1> DEFINE new == Append(ne, m)
<1>5. /\ DOMAIN new = 1 .. Len(ne) + 1 /\ DOMAIN ne = 1 .. Len(ne) /\ Len(ne) \in Nat
      /\ new[Len(ne) + 1] = m /\ \A k \in DOMAIN ne : new[k] = ne[k]
  OBVIOUS
<1> HIDE DEF new
<1>6. ASSUME NEW k \in DOMAIN new
      PROVE  /\ new[k].tag \in g .. g + (u + 1) - 1
             /\ new[k].data = Stamp(chk, g, new[k].tag)
             /\ new[k].tag \in armed => Slot(new[k].tag) \notin co
  <2>1. CASE k = Len(ne) + 1
    BY <1>1, <1>2, <1>4, <1>5, <2>1
  <2>2. CASE k \in DOMAIN ne
    <3>1. /\ ne[k].tag \in g .. g + u - 1
          /\ ne[k].data = Stamp(chk, g, ne[k].tag)
          /\ ne[k].tag \in armed => Slot(ne[k].tag) \notin co
      BY <2>2 DEF Coming
    <3>2. ne[k].tag \in g .. g + (u + 1) - 1
      BY <1>1, <3>1
    <3> QED BY <1>5, <2>2, <3>1, <3>2
  <2> QED BY <1>5, <2>1, <2>2
<1>7. ASSUME NEW k \in DOMAIN new, NEW k2 \in DOMAIN new, new[k].tag = new[k2].tag
      PROVE  k = k2
  <2>1. ASSUME NEW l \in DOMAIN ne PROVE ne[l].tag # m.tag
    <3>1. ne[l].tag \in g .. g + u - 1
      BY DEF Coming
    <3> QED BY <1>1, <3>1
  <2>2. CASE k \in DOMAIN ne /\ k2 \in DOMAIN ne
    BY <1>5, <1>7, <2>2 DEF Coming
  <2>3. CASE k \notin DOMAIN ne
    <3>1. k = Len(ne) + 1 /\ new[k] = m
      BY <1>5, <2>3
    <3> QED BY <1>5, <1>7, <2>1, <3>1
  <2>4. CASE k2 \notin DOMAIN ne
    <3>1. k2 = Len(ne) + 1 /\ new[k2] = m
      BY <1>5, <2>4
    <3> QED BY <1>5, <1>7, <2>1, <3>1
  <2> QED BY <2>2, <2>3, <2>4
<1>8. u + 1 \in Nat
  BY <1>1
<1> QED BY <1>2, <1>3, <1>6, <1>7, <1>8 DEF Coming, new

\* The process that sends stamps the half no message it waits for is in.
LEMMA SendBuffer ==
  ASSUME NEW armed, NEW g, NEW u, NEW co, NEW ne, NEW chk, NEW set, NEW b, NEW b2, NEW r, NEW s,
         Numbered(armed, g), Coming(armed, g, u, co, ne, chk, set, b, r, s),
         b2[r] = b[r], Paced /\ Burst => u <= 1
  PROVE  Coming(armed, g, u, co, ne, chk, set, b2, r, s)
<1>1. u \in Nat /\ g \in Nat /\ \A t \in armed : t \in Nat /\ t >= g
  BY DEF Coming, Numbered
<1>2. ASSUME NEW x \in co
      PROVE  \E t \in armed : /\ x = Slot(t) /\ t < g + u
                              /\ Paced => b2[HalfFor(g, t, r, s)] = Stamp(chk, g, t)
  <2>1. PICK t \in armed : /\ x = Slot(t) /\ t < g + u
                           /\ Paced => b[HalfFor(g, t, r, s)] = Stamp(chk, g, t)
    BY <1>2 DEF Coming
  <2>2. Paced => t = g
    <3>1. CASE Burst
      BY <1>1, <2>1, <3>1
    <3>2. CASE ~Burst
      BY <3>2 DEF Numbered
    <3> QED BY <3>1, <3>2
  <2>3. HalfFor(g, g, r, s) = r
    BY <1>1, HalfFacts
  <2> QED BY <2>1, <2>2, <2>3
<1> QED BY <1>2 DEF Coming

\* MPI puts a message in the half of its receive.
LEMMA DeliverMail ==
  ASSUME NEW armed, NEW g, NEW u, NEW co, NEW po \in Seq(Receive), NEW ne \in Seq(Message),
         NEW chk, NEW set, NEW b \in [Half -> Tag \cup {Blank}], NEW r \in Half, NEW s \in Half,
         r # s, NEW i \in DOMAIN po, NEW k \in DOMAIN ne, po[i].tag = ne[k].tag,
         Numbered(armed, g), Posting(armed, g, po, co, r, s),
         Coming(armed, g, u, co, ne, chk, set, b, r, s), Paced /\ Burst => u <= 2
  PROVE  LET co2 == co \cup {po[i].slot}
             b2  == [b EXCEPT ![po[i].half] = ne[k].data]
         IN  /\ Posting(armed, g, RemoveAt(po, i), co2, r, s)
             /\ Coming(armed, g, u, co2, RemoveAt(ne, k), chk, set, b2, r, s)
<1>1. PICK t : t = po[i].tag
  OBVIOUS
<1>2. PICK h : h = po[i].half
  OBVIOUS
<1>3. PICK d : d = ne[k].data
  OBVIOUS
<1>4. /\ t \in armed /\ po[i].slot = Slot(t) /\ Slot(t) \notin co /\ h = HalfFor(g, t, r, s)
      /\ ne[k].tag = t /\ t \in g .. g + u - 1 /\ d = Stamp(chk, g, t)
  BY <1>1, <1>2, <1>3 DEF Posting, Coming
<1>5. u \in Nat /\ g \in Nat /\ \A x \in armed : x \in Nat /\ x >= g
  BY DEF Coming, Numbered
<1>6. ASSUME NEW x \in armed, x # t PROVE Burst /\ Slot(x) # Slot(t)
  BY <1>4, <1>6 DEF Numbered, Slot
<1> DEFINE co2 == co \cup {Slot(t)}
           b2  == [b EXCEPT ![h] = d]
           po2 == RemoveAt(po, i)
           ne2 == RemoveAt(ne, k)
\* The lists.
<1>7. /\ po2 \in Seq(Receive)
      /\ \A m \in DOMAIN po2 : IF m < i THEN m \in DOMAIN po /\ po2[m] = po[m]
                                        ELSE m + 1 \in DOMAIN po /\ po2[m] = po[m + 1]
      /\ \A m \in DOMAIN po : m < i => m \in DOMAIN po2 /\ po2[m] = po[m]
      /\ \A m \in DOMAIN po : m > i => m - 1 \in DOMAIN po2 /\ po2[m - 1] = po[m]
  BY RemoveAtFacts
<1>8. /\ ne2 \in Seq(Message)
      /\ \A m \in DOMAIN ne2 : IF m < k THEN m \in DOMAIN ne /\ ne2[m] = ne[m]
                                        ELSE m + 1 \in DOMAIN ne /\ ne2[m] = ne[m + 1]
  BY RemoveAtFacts
<1>9. /\ i \in Int /\ k \in Int /\ (\A m \in DOMAIN po2 : m \in Int)
      /\ (\A m \in DOMAIN ne2 : m \in Int) /\ (\A m \in DOMAIN po : m \in Int)
  BY <1>7, <1>8
<1> HIDE DEF co2, b2, po2, ne2
<1>10. \A m \in DOMAIN po2 : \E l \in DOMAIN po : l # i /\ po2[m] = po[l]
  BY <1>7, <1>9
<1>11. \A m, m2 \in DOMAIN po2 : m < m2 => \E l, l2 \in DOMAIN po : l < l2 /\ po2[m] = po[l] /\ po2[m2] = po[l2]
  <2>1. ASSUME NEW m \in DOMAIN po2, NEW m2 \in DOMAIN po2, m < m2
        PROVE  \E l, l2 \in DOMAIN po : l < l2 /\ po2[m] = po[l] /\ po2[m2] = po[l2]
    <3>1. m \in Int /\ m2 \in Int
      BY <1>9
    <3>2. PICK l \in DOMAIN po : l = (IF m < i THEN m ELSE m + 1) /\ po2[m] = po[l]
      BY <1>7
    <3>3. PICK l2 \in DOMAIN po : l2 = (IF m2 < i THEN m2 ELSE m2 + 1) /\ po2[m2] = po[l2]
      BY <1>7
    <3> QED BY <1>9, <2>1, <3>1, <3>2, <3>3
  <2> QED BY <2>1
<1>12. ASSUME NEW l \in DOMAIN po, l # i
       PROVE  po[l].tag # t /\ \E m \in DOMAIN po2 : po2[m] = po[l]
  <2>1. l < i \/ l > i
    BY <1>9, <1>12
  <2>2. po[l].tag \in armed /\ (l < i => po[l].tag < t) /\ (i < l => t < po[l].tag)
    BY <1>1 DEF Posting
  <2>3. po[l].tag # t
    BY <1>4, <1>5, <2>1, <2>2
  <2>4. \E m \in DOMAIN po2 : po2[m] = po[l]
    BY <1>7, <2>1
  <2> QED BY <2>3, <2>4
<1>13. ASSUME NEW m \in DOMAIN ne2
       PROVE  \E l \in DOMAIN ne : l # k /\ ne2[m] = ne[l]
  BY <1>8, <1>9
\* The receives.
<1>14. Posting(armed, g, po2, co2, r, s)
  <2>1. ASSUME NEW m \in DOMAIN po2
        PROVE  /\ po2[m].tag \in armed /\ po2[m].slot = Slot(po2[m].tag) /\ po2[m].slot \notin co2
               /\ po2[m].half = HalfFor(g, po2[m].tag, r, s)
    <3>1. PICK l \in DOMAIN po : l # i /\ po2[m] = po[l]
      BY <1>10
    <3>2. /\ po[l].tag \in armed /\ po[l].slot = Slot(po[l].tag) /\ po[l].slot \notin co
          /\ po[l].half = HalfFor(g, po[l].tag, r, s) /\ po[l].tag # t
      BY <1>12, <3>1 DEF Posting
    <3>3. po[l].slot # Slot(t)
      BY <1>6, <3>2
    <3> QED BY <3>1, <3>2, <3>3 DEF co2
  <2>2. \A m, m2 \in DOMAIN po2 : m < m2 => po2[m].tag < po2[m2].tag
    BY <1>11 DEF Posting
  <2>3. ASSUME NEW x \in armed PROVE Slot(x) \in co2 \/ \E m \in DOMAIN po2 : po2[m].tag = x
    <3>1. CASE x = t
      BY <3>1 DEF co2
    <3>2. CASE x # t
      <4>1. Slot(x) \in co \/ \E l \in DOMAIN po : po[l].tag = x
        BY DEF Posting
      <4> QED BY <1>1, <1>12, <3>2, <4>1 DEF co2
    <3> QED BY <3>1, <3>2
  <2> QED BY <2>1, <2>2, <2>3 DEF Posting
\* The messages.
<1>15. b2[h] = d /\ \A y \in Half : y # h => b2[y] = b[y]
  <2>1. h \in Half
    BY <1>4, <1>5, HalfFacts
  <2> QED BY <2>1 DEF b2
<1>16. ASSUME NEW x \in co
       PROVE  \E y \in armed : /\ x = Slot(y) /\ y < g + u
                               /\ Paced => b2[HalfFor(g, y, r, s)] = Stamp(chk, g, y)
  <2>1. PICK y \in armed : /\ x = Slot(y) /\ y < g + u
                           /\ Paced => b[HalfFor(g, y, r, s)] = Stamp(chk, g, y)
    BY <1>16 DEF Coming
  <2>2. y # t /\ Burst
    BY <1>4, <1>6, <1>16, <2>1
  <2>3. Paced => HalfFor(g, y, r, s) # h /\ HalfFor(g, y, r, s) \in Half
    <3>1. SUFFICES ASSUME Paced PROVE HalfFor(g, y, r, s) # h /\ HalfFor(g, y, r, s) \in Half
      OBVIOUS
    <3>2. u <= 2 /\ y \in Nat /\ y >= g /\ t \in Nat
      BY <1>4, <1>5, <2>2, <3>1
    <3>3. (y = g /\ t = g + 1) \/ (y = g + 1 /\ t = g)
      BY <1>4, <1>5, <2>1, <2>2, <3>2
    <3>4. /\ HalfFor(g, g, r, s) = r /\ (t = g + 1 => HalfFor(g, t, r, s) = s)
          /\ (y = g + 1 => HalfFor(g, y, r, s) = s)
      BY <1>5, <3>2, HalfFacts
    <3> QED BY <1>4, <3>3, <3>4
  <2> QED BY <1>15, <2>1, <2>3
<1>17. ASSUME NEW x \in co2
       PROVE  \E y \in armed : /\ x = Slot(y) /\ y < g + u
                               /\ Paced => b2[HalfFor(g, y, r, s)] = Stamp(chk, g, y)
  <2>1. CASE x \in co
    BY <1>16, <2>1
  <2>2. CASE x = Slot(t)
    <3>1. t < g + u
      BY <1>4, <1>5
    <3> QED BY <1>4, <1>15, <2>2, <3>1
  <2> QED BY <1>17, <2>1, <2>2 DEF co2
<1>18. ASSUME NEW m \in DOMAIN ne2
       PROVE  /\ ne2[m].tag \in g .. g + u - 1
              /\ ne2[m].data = Stamp(chk, g, ne2[m].tag)
              /\ ne2[m].tag \in armed => Slot(ne2[m].tag) \notin co2
  <2>1. PICK l \in DOMAIN ne : l # k /\ ne2[m] = ne[l]
    BY <1>13
  <2>2. /\ ne[l].tag \in g .. g + u - 1 /\ ne[l].data = Stamp(chk, g, ne[l].tag)
        /\ ne[l].tag \in armed => Slot(ne[l].tag) \notin co
    BY DEF Coming
  <2>3. ne[l].tag # t
    BY <1>4, <2>1 DEF Coming
  <2> QED BY <1>6, <2>1, <2>2, <2>3 DEF co2
<1>19. ASSUME NEW m \in DOMAIN ne2, NEW m2 \in DOMAIN ne2, ne2[m].tag = ne2[m2].tag
       PROVE  m = m2
  <2>1. PICK l \in DOMAIN ne : l = (IF m < k THEN m ELSE m + 1) /\ ne2[m] = ne[l]
    BY <1>8
  <2>2. PICK l2 \in DOMAIN ne : l2 = (IF m2 < k THEN m2 ELSE m2 + 1) /\ ne2[m2] = ne[l2]
    BY <1>8
  <2>3. l = l2
    BY <1>19, <2>1, <2>2 DEF Coming
  <2>4. m \in Int /\ m2 \in Int
    BY <1>9
  <2> QED BY <1>9, <2>1, <2>2, <2>3, <2>4
<1>20. Coming(armed, g, u, co2, ne2, chk, set, b2, r, s)
  <2>1. u \in Nat /\ set = (chk + u) % TagMod
    BY DEF Coming
  <2> QED BY <1>17, <1>18, <1>19, <2>1 DEF Coming
<1> QED BY <1>2, <1>3, <1>4, <1>14, <1>20 DEF co2, b2, po2, ne2

\* The oldest receive is waited for and its message checked: the halves change places.
LEMMA CheckMail ==
  ASSUME NEW armed, NEW g, NEW u, NEW co, NEW po \in Seq(Receive), NEW ne \in Seq(Message),
         NEW chk \in Tag, NEW set, NEW b, NEW r, NEW s, g \in armed, Slot(g) \in co,
         Numbered(armed, g), Posting(armed, g, po, co, r, s),
         Coming(armed, g, u, co, ne, chk, set, b, r, s)
  PROVE  LET left == armed \ {g}
             co2  == co \ {Slot(g)}
             tag  == (chk + 1) % TagMod
         IN  /\ Numbered(left, g + 1)
             /\ Posting(left, g + 1, po, co2, s, r)
             /\ Coming(left, g + 1, u - 1, co2, ne, tag, set, b, s, r)
             /\ Paced => b[r] = tag
             /\ tag \in Tag
<1>1. u \in Nat /\ g \in Nat /\ \A x \in armed : x \in Nat /\ x >= g
  BY DEF Coming, Numbered
<1>2. PICK y \in armed : /\ Slot(g) = Slot(y) /\ y < g + u
                         /\ Paced => b[HalfFor(g, y, r, s)] = Stamp(chk, g, y)
  BY DEF Coming
<1>3. \A x \in armed : x # g => Burst /\ Slot(x) # Slot(g)
  BY DEF Numbered, Slot
<1>4. y = g /\ u >= 1
  <2>1. y = g
    BY <1>2, <1>3
  <2> QED BY <1>1, <1>2, <2>1
<1> DEFINE left == armed \ {g}
           co2  == co \ {Slot(g)}
<1>5. PICK tag : tag = (chk + 1) % TagMod
  OBVIOUS
<1>6. /\ tag \in Tag /\ tag = Stamp(chk, g, g)
      /\ (chk + u) % TagMod = (tag + (u - 1)) % TagMod
      /\ \A t \in Int : Stamp(tag, g + 1, t) = Stamp(chk, g, t)
  BY <1>1, <1>4, <1>5, CheckedStamp
<1>7. Paced => b[r] = tag
  <2>1. HalfFor(g, g, r, s) = r
    BY <1>1, HalfFacts
  <2> QED BY <1>2, <1>4, <1>6, <2>1
<1>8. \A t \in Nat : HalfFor(g + 1, t, s, r) = HalfFor(g, t, r, s)
  BY <1>1, HalfFacts
<1>9. Numbered(left, g + 1)
  <2>1. ~Burst => left = {}
    BY <1>3
  <2> QED BY <1>1, <2>1 DEF Numbered
<1>10. Posting(left, g + 1, po, co2, s, r)
  <2>1. ASSUME NEW i \in DOMAIN po
        PROVE  /\ po[i].tag \in left /\ po[i].slot = Slot(po[i].tag) /\ po[i].slot \notin co2
               /\ po[i].half = HalfFor(g + 1, po[i].tag, s, r)
    <3>1. /\ po[i].tag \in armed /\ po[i].slot = Slot(po[i].tag) /\ po[i].slot \notin co
          /\ po[i].half = HalfFor(g, po[i].tag, r, s)
      BY DEF Posting
    <3> QED BY <1>1, <1>8, <3>1
  <2>2. \A i, i2 \in DOMAIN po : i < i2 => po[i].tag < po[i2].tag
    BY DEF Posting
  <2>3. \A t \in left : Slot(t) \in co2 \/ \E i \in DOMAIN po : po[i].tag = t
    BY <1>3 DEF Posting
  <2> QED BY <2>1, <2>2, <2>3 DEF Posting
<1>11. Coming(left, g + 1, u - 1, co2, ne, tag, set, b, s, r)
  <2>1. u - 1 \in Nat /\ set = (tag + (u - 1)) % TagMod
    BY <1>1, <1>4, <1>6 DEF Coming
  <2>2. ASSUME NEW x \in co2
        PROVE  \E t \in left : /\ x = Slot(t) /\ t < (g + 1) + (u - 1)
                               /\ Paced => b[HalfFor(g + 1, t, s, r)] = Stamp(tag, g + 1, t)
    <3>1. PICK t \in armed : /\ x = Slot(t) /\ t < g + u
                             /\ Paced => b[HalfFor(g, t, r, s)] = Stamp(chk, g, t)
      BY DEF Coming
    <3>2. t \in left /\ t \in Int /\ t \in Nat /\ (g + 1) + (u - 1) = g + u
      BY <1>1, <3>1
    <3> QED BY <1>6, <1>8, <3>1, <3>2
  <2>3. ASSUME NEW k \in DOMAIN ne
        PROVE  /\ ne[k].tag \in g + 1 .. (g + 1) + (u - 1) - 1
               /\ ne[k].data = Stamp(tag, g + 1, ne[k].tag)
               /\ ne[k].tag \in left => Slot(ne[k].tag) \notin co2
    <3>1. /\ ne[k].tag \in g .. g + u - 1
          /\ ne[k].data = Stamp(chk, g, ne[k].tag)
          /\ ne[k].tag \in armed => Slot(ne[k].tag) \notin co
      BY DEF Coming
    <3>2. ne[k].tag # g
      BY <3>1
    <3>3. ne[k].tag \in g + 1 .. (g + 1) + (u - 1) - 1 /\ ne[k].tag \in Int
      BY <1>1, <3>1, <3>2
    <3> QED BY <1>6, <3>1, <3>3
  <2>4. \A k, k2 \in DOMAIN ne : ne[k].tag = ne[k2].tag => k = k2
    BY DEF Coming
  <2> QED BY <2>1, <2>2, <2>3, <2>4 DEF Coming
<1> QED BY <1>5, <1>6, <1>7, <1>9, <1>10, <1>11

\* The next receive is posted.
LEMMA PostOne ==
  ASSUME ~Burst, NEW g, NEW u, NEW co, NEW po \in Seq(Receive), NEW ne \in Seq(Message),
         NEW chk, NEW set, NEW b, NEW r, NEW s, NEW x \in Receive,
         x.slot = Slot(g), x.tag = g, x.half = r,
         Numbered({}, g), Posting({}, g, po, co, r, s),
         Coming({}, g, u, co, ne, chk, set, b, r, s)
  PROVE  /\ Numbered({g}, g)
         /\ Posting({g}, g, Append(po, x), co \ {Slot(g)}, r, s)
         /\ Coming({g}, g, u, co \ {Slot(g)}, ne, chk, set, b, r, s)
<1>1. po = << >> /\ co = {} /\ g \in Nat
  BY Idle DEF Numbered
<1>2. PICK po2 : po2 = Append(po, x)
  OBVIOUS
<1>3. DOMAIN po2 = {1} /\ po2[1] = x
  BY <1>1, <1>2
<1>4. HalfFor(g, g, r, s) = r
  BY <1>1, HalfFacts
<1>5. Numbered({g}, g)
  BY <1>1 DEF Numbered
<1>6. Posting({g}, g, po2, {}, r, s)
  BY <1>3, <1>4 DEF Posting
<1>7. Coming({g}, g, u, {}, ne, chk, set, b, r, s)
  BY <1>1 DEF Coming
<1> QED BY <1>1, <1>2, <1>5, <1>6, <1>7

\* The receives of a whole trial, in their order.
WholeTrial(new, c, r, s) ==
  /\ new \in Seq(Receive) /\ Len(new) = c
  /\ \A m \in 1 .. c : /\ new[m].tag = m - 1 /\ new[m].slot = m - 1
                        /\ new[m].half = IF (m - 1) % 2 = 0 THEN r ELSE s

\* All receives of a trial are posted.
LEMMA PostAll ==
  ASSUME Burst, NEW c \in Nat, NEW u, NEW co, NEW po \in Seq(Receive), NEW ne \in Seq(Message),
         NEW chk, NEW set, NEW b, NEW r, NEW s, NEW new, NEW gone, WholeTrial(new, c, r, s),
         Numbered({}, 0), Posting({}, 0, po, co, r, s),
         Coming({}, 0, u, co, ne, chk, set, b, r, s)
  PROVE  /\ Numbered(0 .. c - 1, 0)
         /\ Posting(0 .. c - 1, 0, po \o new, co \ gone, r, s)
         /\ Coming(0 .. c - 1, 0, u, co \ gone, ne, chk, set, b, r, s)
<1>0. /\ new \in Seq(Receive) /\ Len(new) = c
      /\ \A m \in 1 .. c : /\ new[m].tag = m - 1 /\ new[m].slot = m - 1
                            /\ new[m].half = IF (m - 1) % 2 = 0 THEN r ELSE s
  BY DEF WholeTrial
<1>1. po = << >> /\ co = {}
  BY Idle
<1>2. po \o new = new /\ DOMAIN new = 1 .. c /\ co \ gone = {}
  BY <1>0, <1>1
<1>3. Numbered(0 .. c - 1, 0)
  BY DEF Numbered
<1>4. Posting(0 .. c - 1, 0, new, {}, r, s)
  <2>1. ASSUME NEW m \in 1 .. c
        PROVE  /\ new[m].tag \in 0 .. c - 1 /\ new[m].slot = Slot(new[m].tag)
               /\ new[m].half = HalfFor(0, new[m].tag, r, s)
    <3>1. new[m].tag = m - 1 /\ new[m].slot = m - 1 /\ m - 1 \in 0 .. c - 1 /\ (m - 1) - 0 = m - 1
          /\ new[m].half = IF (m - 1) % 2 = 0 THEN r ELSE s
      BY <1>0
    <3> QED BY <3>1 DEF Slot, HalfFor
  <2>2. \A m, m2 \in 1 .. c : m < m2 => new[m].tag < new[m2].tag
    <3>1. ASSUME NEW m \in 1 .. c, NEW m2 \in 1 .. c, m < m2 PROVE new[m].tag < new[m2].tag
      <4>1. new[m].tag = m - 1 /\ new[m2].tag = m2 - 1
        BY <1>0
      <4> QED BY <3>1, <4>1
    <3> QED BY <3>1
  <2>3. ASSUME NEW t \in 0 .. c - 1 PROVE \E m \in 1 .. c : new[m].tag = t
    <3>1. t + 1 \in 1 .. c /\ (t + 1) - 1 = t
      OBVIOUS
    <3>2. new[t + 1].tag = (t + 1) - 1
      BY <1>0, <3>1
    <3> QED BY <3>1, <3>2
  <2> QED BY <1>2, <2>1, <2>2, <2>3 DEF Posting
<1>5. Coming(0 .. c - 1, 0, u, {}, ne, chk, set, b, r, s)
  BY <1>1 DEF Coming
<1> QED BY <1>2, <1>3, <1>4, <1>5

-----------------------------------------------------------------------------
(***************************************************************************)
(* The invariant of the messages of mpi.c.                                 *)
(***************************************************************************)

\* A process is at a call that its part in the run makes.
AtCall(p) ==
  /\ pc[p] \in {"send", "sending"} => Sends(p)
  /\ pc[p] = "recv" => Receives(p)
  /\ pc[p] = "prepost" => ~Burst /\ Transmitter(p) /\ Receives(p)
  /\ pc[p] \in {"prepostFirst", "prepostNext"} => ~Burst /\ ~Transmitter(p)
  /\ pc[p] = "prepostNext" => j[p] + 1 < nrepeat[p]
  /\ pc[p] = "burst" => Burst /\ Receives(p)

\* The numbers of the receives that p has posted and not waited for.
Armed(p) ==
  IF ~Receives(p) THEN {}
  ELSE IF Burst THEN IF pc[p] = "sync" \/ InTrial(p) THEN OwnGot(p) .. nrepeat[p] - 1 ELSE {}
  ELSE IF \/ pc[p] = "recv"
          \/ pc[p] \in {"send", "sending"} /\ OwnGot(p) < nrepeat[p]
          \/ pc[p] = "sync" /\ ~Transmitter(p)
       THEN {OwnGot(p)} ELSE {}

\* The messages p has stamped in its trial.
Stamped(p) == OwnSent(p) + (IF pc[p] = "sending" THEN 1 ELSE 0)

\* The tags count the messages sent and the receives posted (with --burst, waited for).
Wrapped(p, c) == IF c = nrepeat[p] THEN 0 ELSE c

Tags(p) ==
  /\ stag[p] = Wrapped(p, Stamped(p))
  /\ rtag[p] = Wrapped(p, OwnGot(p) + (IF ~Burst /\ Armed(p) # {} THEN 1 ELSE 0))
  /\ pc[p] \notin {"nrepeat", "done"} => nrepeats[p] = nrepeat[p]

Expecting(p) ==
  /\ Numbered(Armed(p), OwnGot(p))
  /\ Posting(Armed(p), OwnGot(p), posted[p], complete[p], r_ptr[p], s_ptr[p])

Incoming(p) ==
  Coming(Armed(p), OwnGot(p), Unchecked(Pair(p), p), complete[p], net[p],
         chkTag[p], setTag[Pair(p)], buf[p], r_ptr[p], s_ptr[p])

Halves(p) == s_ptr[p] # r_ptr[p] /\ (Paced => failures[p] = 0)

Own(p) == AtCall(p) /\ Tags(p) /\ Expecting(p) /\ Halves(p)

MessageInv == \A p \in Proc : Own(p) /\ Incoming(p)

\* With the invariants of the driver and of the types.
Inv == MpiInv /\ RoundInv /\ MessageInv

LEMMA InvFacts ==
  ASSUME Inv, NEW p \in Proc
  PROVE  /\ DriverInv /\ ControlTypeOK /\ RoundInv /\ SendersSend /\ BufferTypeOK /\ ModuleTypeOK
         /\ posted[p] \in Seq(Receive) /\ net[p] \in Seq(Message)
         /\ chkTag[p] \in Tag /\ setTag[p] \in Tag
         /\ AtCall(p) /\ Tags(p) /\ Expecting(p) /\ Incoming(p) /\ Halves(p)
         /\ pc[p] \notin {"nrepeat", "done"} => nrepeat[p] > 0 /\ nrepeats[p] = nrepeat[p]
<1>1. /\ DriverInv /\ ControlTypeOK /\ RoundInv /\ BufferTypeOK /\ ModuleTypeOK /\ ModulusInv
  BY DEF Inv, MpiInv, TypeOK, DriverTypeOK, ModuleTypeOK, DriverInv
<1>2. SendersSend
  BY DEF Inv, MessageInv, Own, AtCall, SendersSend
<1>3. AtCall(p) /\ Tags(p) /\ Expecting(p) /\ Incoming(p) /\ Halves(p)
  BY DEF Inv, MessageInv, Own
<1>4. pc[p] \notin {"nrepeat", "done"} => nrepeat[p] > 0 /\ nrepeats[p] = nrepeat[p]
  BY <1>1, <1>3 DEF Tags, ModulusInv
<1>5. /\ posted[p] \in Seq(Receive) /\ net[p] \in Seq(Message)
      /\ chkTag[p] \in Tag /\ setTag[p] \in Tag
  BY <1>1 DEF ModuleTypeOK, BufferTypeOK
<1> QED BY <1>1, <1>2, <1>3, <1>4, <1>5

\* Outside the message loop nothing is posted.
LEMMA NoneArmed ==
  ASSUME NEW p \in Proc, ~InTrial(p), pc[p] # "sync"
  PROVE  Armed(p) = {}
BY DEF Armed, InTrial, TrialLabels, LoopLabels

LEMMA NothingPosted ==
  ASSUME Inv, NEW p \in Proc, Armed(p) = {}
  PROVE  posted[p] = << >> /\ complete[p] = {}
<1>1. posted[p] \in Seq(Receive) /\ net[p] \in Seq(Message) /\ Expecting(p) /\ Incoming(p)
  BY InvFacts
<1> QED BY <1>1, Idle DEF Expecting, Incoming

-----------------------------------------------------------------------------
(***************************************************************************)
(* What a step of p leaves alone.                                          *)
(***************************************************************************)

Elsewhere(p) ==
  \A x \in Proc : x # p =>
    /\ nrepeats'[x] = nrepeats[x] /\ stag'[x] = stag[x] /\ rtag'[x] = rtag[x]
    /\ posted'[x] = posted[x] /\ complete'[x] = complete[x]
    /\ (x # Pair(p) => net'[x] = net[x])
    /\ buf'[x] = buf[x] /\ s_ptr'[x] = s_ptr[x] /\ r_ptr'[x] = r_ptr[x]
    /\ setTag'[x] = setTag[x] /\ chkTag'[x] = chkTag[x] /\ failures'[x] = failures[x]

LEMMA OthersOwn ==
  ASSUME MessageInv, NEW p \in Proc, OthersStay(p), Elsewhere(p), NEW x \in Proc, x # p
  PROVE  Own(x)' /\ Armed(x)' = Armed(x) /\ OwnGot(x)' = OwnGot(x)
<1>1. /\ pc'[x] = pc[x] /\ j'[x] = j[x] /\ nrepeat'[x] = nrepeat[x]
  BY DEF OthersStay
<1>2. /\ nrepeats'[x] = nrepeats[x] /\ stag'[x] = stag[x] /\ rtag'[x] = rtag[x]
      /\ posted'[x] = posted[x] /\ complete'[x] = complete[x]
      /\ s_ptr'[x] = s_ptr[x] /\ r_ptr'[x] = r_ptr[x] /\ failures'[x] = failures[x]
  BY DEF Elsewhere
<1>3. OwnSent(x)' = OwnSent(x) /\ OwnGot(x)' = OwnGot(x) /\ InTrial(x)' = InTrial(x)
  BY <1>1 DEF OwnSent, OwnGot, InLoop, InTrial, Sends, Receives
<1>4. Armed(x)' = Armed(x)
  BY <1>1, <1>3 DEF Armed, Receives
<1>5. AtCall(x)' /\ Halves(x)'
  BY <1>1, <1>2 DEF MessageInv, Own, AtCall, Halves, Sends, Receives
<1>6. Tags(x)'
  BY <1>1, <1>2, <1>3, <1>4 DEF MessageInv, Own, Tags, Wrapped, Stamped
<1>7. Expecting(x)'
  BY <1>2, <1>3, <1>4 DEF MessageInv, Own, Expecting
<1> QED BY <1>3, <1>4, <1>5, <1>6, <1>7 DEF Own

\* So a step of p is a matter of p and of the messages to its pair.
LEMMA PairStep ==
  ASSUME MessageInv, NEW p \in Proc, NEW q, q = Pair(p), OthersStay(p), Elsewhere(p),
         Own(p)', Incoming(p)',
         Coming(Armed(q), OwnGot(q), Unchecked(p, q)', complete[q], net'[q],
                chkTag[q], setTag'[p], buf[q], r_ptr[q], s_ptr[q])
  PROVE  MessageInv'
<1>1. q \in Proc /\ q # p /\ Pair(q) = p
  BY PairFacts
<1>2. \A x \in Proc : x # p => Own(x)' /\ Armed(x)' = Armed(x) /\ OwnGot(x)' = OwnGot(x)
  BY OthersOwn
<1>3. Incoming(q)'
  BY <1>1, <1>2 DEF Incoming, Elsewhere
<1>4. ASSUME NEW x \in Proc, x # p, x # q PROVE Incoming(x)'
  <2>1. Pair(x) \in Proc /\ Pair(x) # p
    BY <1>4, PairFacts
  <2>2. Unchecked(Pair(x), x)' = Unchecked(Pair(x), x)
    BY <1>4, <2>1, OtherCounts
  <2>3. /\ complete'[x] = complete[x] /\ net'[x] = net[x] /\ chkTag'[x] = chkTag[x]
        /\ setTag'[Pair(x)] = setTag[Pair(x)] /\ buf'[x] = buf[x]
        /\ r_ptr'[x] = r_ptr[x] /\ s_ptr'[x] = s_ptr[x]
    BY <1>4, <2>1 DEF Elsewhere
  <2> QED BY <1>2, <1>4, <2>2, <2>3 DEF Incoming, MessageInv
<1> QED BY <1>1, <1>2, <1>3, <1>4 DEF MessageInv

\* p moves, and handles no message.
LEMMA QuietStep ==
  ASSUME Inv, NEW p \in Proc, NEW q, q = Pair(p), OthersStay(p), Elsewhere(p),
         UNCHANGED <<posted, complete, net, setTag, chkTag>>,
         AtCall(p)', Tags(p)', Halves(p)',
         Armed(p)' = Armed(p), OwnGot(p)' = OwnGot(p),
         Armed(p) = {} \/ (buf'[p] = buf[p] /\ s_ptr'[p] = s_ptr[p] /\ r_ptr'[p] = r_ptr[p]),
         Unchecked(p, q)' = Unchecked(p, q), Unchecked(q, p)' = Unchecked(q, p)
  PROVE  MessageInv'
<1>1. q \in Proc /\ q # p /\ Pair(q) = p
  BY PairFacts
<1>2. Expecting(p) /\ Incoming(p) /\ Incoming(q)
  BY <1>1, InvFacts
<1>3. CASE Armed(p) = {}
  <2>1. posted[p] = << >> /\ complete[p] = {}
    BY <1>3, NothingPosted
  <2>2. Expecting(p)'
    BY <1>2, <1>3, <2>1 DEF Expecting, Posting
  <2>3. Incoming(p)'
    BY <1>1, <1>2, <1>3, <2>1 DEF Incoming, Coming
  <2> QED BY <1>1, <1>2, <2>2, <2>3, PairStep DEF Own, Incoming, Inv
<1>4. CASE Armed(p) # {}
  <2>1. Expecting(p)'
    BY <1>2, <1>4 DEF Expecting
  <2>2. Incoming(p)'
    BY <1>1, <1>2, <1>4 DEF Incoming
  <2> QED BY <1>1, <1>2, <2>1, <2>2, PairStep DEF Own, Incoming, Inv
<1> QED BY <1>3, <1>4

-----------------------------------------------------------------------------
(***************************************************************************)
(* The collectives and Reset().                                            *)
(***************************************************************************)

\* p moves outside the message loop.
LEMMA OutsideStep ==
  ASSUME Inv, NEW p \in Proc, RoundStep(p), Elsewhere(p),
         UNCHANGED <<posted, complete, net, setTag, chkTag>>,
         Committed(p) => nrepeat'[p] = nrepeat[p],
         pc[p] # "sending", pc'[p] # "sending",
         AtCall(p)', Tags(p)', Halves(p)',
         Armed(p)' = Armed(p), OwnSent(p)' = OwnSent(p), OwnGot(p)' = OwnGot(p),
         Armed(p) = {} \/ (buf'[p] = buf[p] /\ s_ptr'[p] = s_ptr[p] /\ r_ptr'[p] = r_ptr[p])
  PROVE  MessageInv'
<1>1. PICK q \in Proc : q = Pair(p) /\ q # p
  BY PairFacts
<1>2. OthersStay(p) /\ Round(p)' = Round(p)
  BY DEF RoundStep
<1>3. Unchecked(p, q)' = Unchecked(p, q) /\ Unchecked(q, p)' = Unchecked(q, p)
  BY <1>1, <1>2, QuietCounts, InvFacts
<1> QED BY <1>1, <1>2, <1>3, QuietStep

\* A step that touches neither mpi.c nor the buffers.
LEMMA StillElsewhere ==
  ASSUME NEW p \in Proc, UNCHANGED mpiVars, UNCHANGED bufVars
  PROVE  /\ Elsewhere(p) /\ UNCHANGED <<posted, complete, net, setTag, chkTag>>
         /\ buf'[p] = buf[p] /\ s_ptr'[p] = s_ptr[p] /\ r_ptr'[p] = r_ptr[p]
         /\ Halves(p) => Halves(p)'
         /\ stag'[p] = stag[p] /\ rtag'[p] = rtag[p] /\ nrepeats'[p] = nrepeats[p]
BY DEF mpiVars, bufVars, Elsewhere, Halves

\* Between two places where nothing is counted.
LEMMA UncountedStep ==
  ASSUME Inv, NEW p \in Proc, RoundStep(p), UNCHANGED mpiVars, UNCHANGED bufVars,
         Committed(p) => nrepeat'[p] = nrepeat[p],
         ~InTrial(p), ~InTrial(p)', pc[p] # "sync", pc'[p] # "sync",
         pc'[p] \notin {"burst", "prepostFirst"},
         pc'[p] \notin {"nrepeat", "done"} =>
           pc[p] \notin {"nrepeat", "done"} /\ nrepeat'[p] = nrepeat[p]
  PROVE  MessageInv'
<1>1. /\ ~InLoop(p) /\ pc[p] \notin {"endsync", "reset", "send", "sending", "recv"}
      /\ ~InLoop(p)' /\ pc'[p] \notin {"endsync", "reset", "send", "sending", "recv"}
      /\ pc[p] # "prepostNext" /\ pc'[p] \notin {"prepost", "prepostNext"}
  BY DEF InTrial, InLoop, TrialLabels, LoopLabels
<1>2. OwnSent(p) = 0 /\ OwnSent(p)' = 0 /\ OwnGot(p) = 0 /\ OwnGot(p)' = 0
  BY <1>1 DEF OwnSent, OwnGot, Sends, Receives
<1>3. Armed(p) = {} /\ Armed(p)' = {}
  BY <1>1 DEF Armed, Receives
<1>4. AtCall(p)'
  BY <1>1 DEF AtCall
<1>5. Tags(p)'
  <2>1. /\ stag[p] = Wrapped(p, 0) /\ rtag[p] = Wrapped(p, 0)
        /\ pc[p] \notin {"nrepeat", "done"} => nrepeats[p] = nrepeat[p]
    BY <1>1, <1>2, <1>3, InvFacts DEF Tags, Stamped
  <2>2. stag'[p] = 0 /\ rtag'[p] = 0 /\ nrepeats'[p] = nrepeats[p]
    BY <2>1, StillElsewhere DEF Wrapped
  <2>3. pc'[p] \notin {"nrepeat", "done"} => nrepeats'[p] = nrepeat'[p]
    BY <2>1, <2>2
  <2> QED BY <1>1, <1>2, <1>3, <2>2, <2>3 DEF Tags, Stamped, Wrapped
<1>6. Halves(p)' /\ Elsewhere(p) /\ UNCHANGED <<posted, complete, net, setTag, chkTag>>
  BY StillElsewhere, InvFacts
<1> QED BY <1>1, <1>2, <1>3, <1>4, <1>5, <1>6, OutsideStep

LEMMA EnterStep ==
  ASSUME Inv, DriverInv', NEW p \in Proc, Enter(p)
  PROVE  MessageInv'
<1>1. /\ EnterCollective(p) /\ UNCHANGED mpiVars
      /\ pc[p] \in CollectiveCalls /\ UNCHANGED <<pc, n, trial, j, bufVars>>
      /\ pc[p] # "nrepeat" => nrepeat'[p] = nrepeat[p]
  BY InvFacts DEF Enter, EnterCollective, ControlTypeOK
<1>2. RoundStep(p)
  BY <1>1, EnterRounds, InvFacts
<1>3. Committed(p) => nrepeat'[p] = nrepeat[p]
  BY <1>1 DEF Committed, InTrial, TrialLabels, LoopLabels
<1>4. CASE pc[p] = "nrepeat"
  <2>1. ~InTrial(p) /\ ~InTrial(p)'
    BY <1>1, <1>4 DEF InTrial, TrialLabels, LoopLabels
  <2> QED BY <1>1, <1>2, <1>3, <1>4, <2>1, UncountedStep
<1>5. CASE pc[p] # "nrepeat"
  <2>1. /\ OwnSent(p)' = OwnSent(p) /\ OwnGot(p)' = OwnGot(p) /\ InTrial(p)' = InTrial(p)
        /\ nrepeat'[p] = nrepeat[p] /\ pc'[p] = pc[p] /\ j'[p] = j[p]
    BY <1>1, <1>5 DEF OwnSent, OwnGot, Sends, Receives, InLoop, InTrial
  <2>2. Armed(p)' = Armed(p)
    BY <2>1 DEF Armed, Receives
  <2>3. AtCall(p)'
    BY <2>1, InvFacts DEF AtCall, Sends, Receives, Transmitter
  <2>4. Tags(p)'
    BY <1>1, <2>1, <2>2, InvFacts, StillElsewhere DEF Tags, Wrapped, Stamped
  <2>5. pc[p] # "sending" /\ pc'[p] # "sending"
    BY <1>1 DEF CollectiveCalls, Barriers, Bcasts, Gathers
  <2> QED BY <1>1, <1>2, <1>3, <2>1, <2>2, <2>3, <2>4, <2>5, StillElsewhere, OutsideStep, InvFacts
<1> QED BY <1>4, <1>5

LEMMA TimesStep ==
  ASSUME Inv, DriverInv', NEW p \in Proc, LeaveTimes(p), UNCHANGED mpiVars
  PROVE  MessageInv'
<1>1. PICK step \in {<<"mintime", "maxtime">>, <<"maxtime", "avgtime">>, <<"avgtime", "gather">>} :
        Leave(p, step[1]) /\ Goto(p, step[2]) /\ UNCHANGED <<loopVars, bufVars>>
  BY DEF LeaveTimes
<1>2. /\ pc[p] = step[1] /\ pc'[p] = step[2] /\ nrepeat' = nrepeat /\ UNCHANGED bufVars
  BY <1>1, InvFacts DEF Leave, Goto, ControlTypeOK, loopVars
<1>3. ~InTrial(p) /\ ~InTrial(p)'
  BY <1>2 DEF InTrial, TrialLabels, LoopLabels
<1>4. RoundStep(p)
  BY LeaveTimesRounds, InvFacts
<1> QED BY <1>2, <1>3, <1>4, UncountedStep

LEMMA GatherStep ==
  ASSUME Inv, DriverInv', NEW p \in Proc, LeaveGather(p), UNCHANGED mpiVars
  PROVE  MessageInv'
<1>1. /\ pc[p] = "gather" /\ pc'[p] \in {"finish", "nrepeat"} /\ nrepeat' = nrepeat
      /\ UNCHANGED bufVars
  BY InvFacts DEF LeaveGather, Leave, Goto, ControlTypeOK
<1>2. ~InTrial(p) /\ ~InTrial(p)'
  BY <1>1 DEF InTrial, TrialLabels, LoopLabels
<1>3. RoundStep(p)
  BY LeaveGatherRounds, InvFacts
<1> QED BY <1>1, <1>2, <1>3, UncountedStep

\* The broadcasts set the tags back to 0.
LEMMA BroadcastFacts ==
  ASSUME Inv, NEW p \in Proc, ModuleBroadcast(p), ~InTrial(p), pc[p] # "sync"
  PROVE  /\ UNCHANGED <<posted, complete, net>> /\ Armed(p) = {}
         /\ stag'[p] = 0 /\ rtag'[p] = 0 /\ nrepeats'[p] = RootValue(p)
         /\ \A x \in Proc : x # p => /\ nrepeats'[x] = nrepeats[x] /\ stag'[x] = stag[x]
                                     /\ rtag'[x] = rtag[x]
<1>1. Armed(p) = {}
  BY NoneArmed
<1>2. complete[p] = {} /\ ModuleTypeOK
  BY <1>1, NothingPosted, InvFacts
<1>3. complete' = complete
  BY <1>2 DEF ModuleBroadcast, ModuleTypeOK
<1> QED BY <1>1, <1>2, <1>3 DEF ModuleBroadcast, ModuleTypeOK

LEMMA BroadcastNrepeatStep ==
  ASSUME Inv, DriverInv', NEW p \in Proc, BroadcastNrepeat(p)
  PROVE  MessageInv'
<1>1. /\ LeaveNrepeat(p) /\ ModuleBroadcast(p) /\ MallocBufs(p)
      /\ pc[p] = "nrepeat" /\ pc'[p] = TrialStart(p) /\ UNCHANGED <<j, setTag, chkTag>>
      /\ nrepeat' = [nrepeat EXCEPT ![p] = RootValue(p)]
      /\ failures' = [failures EXCEPT ![p] = 0]
  BY InvFacts DEF BroadcastNrepeat, LeaveNrepeat, Leave, Goto, ControlTypeOK
<1>2. pc'[p] \in {"burst", "prepostFirst", "sync"}
  BY <1>1, TrialStartLabel
<1>3. /\ ~InTrial(p) /\ ~InTrial(p)' /\ ~InLoop(p) /\ ~InLoop(p)' /\ ~Committed(p)
  BY <1>1, <1>2 DEF Committed, InTrial, InLoop, TrialLabels, LoopLabels
<1>4. OwnSent(p) = 0 /\ OwnSent(p)' = 0 /\ OwnGot(p) = 0 /\ OwnGot(p)' = 0
  BY <1>1, <1>2, <1>3 DEF OwnSent, OwnGot, Sends, Receives
<1>5. RoundStep(p)
  BY <1>1, LeaveNrepeatRounds, InvFacts
<1>6. BufferTypeOK /\ ControlTypeOK
  BY InvFacts
<1>7. /\ nrepeat'[p] = RootValue(p) /\ s_ptr'[p] = 0 /\ r_ptr'[p] = 1 /\ failures'[p] = 0
      /\ \A x \in Proc : x # p => /\ buf'[x] = buf[x] /\ s_ptr'[x] = s_ptr[x]
                                  /\ r_ptr'[x] = r_ptr[x] /\ failures'[x] = failures[x]
  BY <1>1, <1>6 DEF BufferTypeOK, ControlTypeOK, MallocBufs
<1>8. /\ UNCHANGED <<posted, complete, net>> /\ Armed(p) = {}
      /\ stag'[p] = 0 /\ rtag'[p] = 0 /\ nrepeats'[p] = RootValue(p)
      /\ \A x \in Proc : x # p => /\ nrepeats'[x] = nrepeats[x] /\ stag'[x] = stag[x]
                                  /\ rtag'[x] = rtag[x]
  BY <1>1, <1>3, BroadcastFacts
<1>9. AtCall(p)' /\ Armed(p)' = {}
  <2>1. /\ pc'[p] = "burst" => Burst /\ Receives(p)
        /\ pc'[p] = "prepostFirst" => ~Burst /\ ~Transmitter(p)
        /\ pc'[p] = "sync" => IF Burst THEN ~Receives(p) ELSE Transmitter(p)
    BY <1>1, NPmpiAssumption DEF TrialStart, Receives
  <2>2. AtCall(p)'
    BY <1>2, <2>1 DEF AtCall, Receives, Transmitter
  <2>3. Armed(p)' = {}
    BY <1>2, <1>3, <2>1 DEF Armed, Receives, Transmitter
  <2> QED BY <2>2, <2>3
<1>10. Tags(p)'
  BY <1>2, <1>4, <1>7, <1>8, <1>9 DEF Tags, Wrapped, Stamped
<1>11. Halves(p)'
  BY <1>7 DEF Halves
<1>12. Elsewhere(p)
  BY <1>1, <1>7, <1>8 DEF Elsewhere
<1> QED BY <1>1, <1>2, <1>3, <1>4, <1>5, <1>8, <1>9, <1>10, <1>11, <1>12, OutsideStep

LEMMA BroadcastFinishedStep ==
  ASSUME Inv, DriverInv', NEW p \in Proc, BroadcastFinished(p)
  PROVE  MessageInv'
<1>1. /\ LeaveFinish(p) /\ ModuleBroadcast(p)
      /\ pc[p] = "finish" /\ pc'[p] \in {"nrepeat", "done"} /\ UNCHANGED <<j, nrepeat, bufVars>>
  BY InvFacts DEF BroadcastFinished, LeaveFinish, Leave, Goto, ControlTypeOK
<1>2. /\ ~InTrial(p) /\ ~InTrial(p)' /\ ~InLoop(p) /\ ~InLoop(p)' /\ ~Committed(p)
  BY <1>1 DEF Committed, InTrial, InLoop, TrialLabels, LoopLabels
<1>3. OwnSent(p) = 0 /\ OwnSent(p)' = 0 /\ OwnGot(p) = 0 /\ OwnGot(p)' = 0
  BY <1>1, <1>2 DEF OwnSent, OwnGot, Sends, Receives
<1>4. RoundStep(p)
  BY <1>1, LeaveFinishRounds, InvFacts
<1>5. /\ UNCHANGED <<posted, complete, net>> /\ Armed(p) = {}
      /\ stag'[p] = 0 /\ rtag'[p] = 0 /\ nrepeats'[p] = RootValue(p)
      /\ \A x \in Proc : x # p => /\ nrepeats'[x] = nrepeats[x] /\ stag'[x] = stag[x]
                                  /\ rtag'[x] = rtag[x]
  BY <1>1, <1>2, BroadcastFacts
<1>6. AtCall(p)' /\ Armed(p)' = {}
  BY <1>1, <1>2 DEF AtCall, Armed, TrialLabels, LoopLabels
<1>7. Tags(p)'
  BY <1>1, <1>3, <1>5, <1>6 DEF Tags, Wrapped, Stamped
<1>8. Halves(p)' /\ Elsewhere(p)
  BY <1>1, <1>5, InvFacts DEF Halves, Elsewhere, bufVars
<1> QED BY <1>1, <1>2, <1>3, <1>4, <1>5, <1>6, <1>7, <1>8, OutsideStep DEF bufVars

LEMMA EndsyncStep ==
  ASSUME Inv, DriverInv', NEW p \in Proc, LeaveEndsync(p), UNCHANGED mpiVars
  PROVE  MessageInv'
<1>1. /\ pc[p] = "endsync" /\ pc'[p] = "reset" /\ UNCHANGED <<nrepeat, j, bufVars>>
  BY InvFacts DEF LeaveEndsync, Leave, Goto, ControlTypeOK, loopVars
<1>2. /\ OwnSent(p)' = OwnSent(p) /\ OwnGot(p)' = OwnGot(p)
      /\ InTrial(p) /\ InTrial(p)'
  BY <1>1 DEF OwnSent, OwnGot, Sends, Receives, InTrial, TrialLabels
<1>3. Armed(p)' = Armed(p)
  BY <1>1, <1>2 DEF Armed, Receives
<1>4. AtCall(p)'
  BY <1>1 DEF AtCall
<1>5. Tags(p)'
  BY <1>1, <1>2, <1>3, StillElsewhere, InvFacts DEF Tags, Wrapped, Stamped
<1>6. RoundStep(p)
  BY LeaveEndsyncRounds, InvFacts
<1> QED BY <1>1, <1>2, <1>3, <1>4, <1>5, <1>6, StillElsewhere, InvFacts, OutsideStep

\* Where an iteration of the message loop begins.
LEMMA Starts ==
  ASSUME NEW p \in Proc
  PROVE  \/ IterationStart(p) = "recv" /\ ~Transmitter(p) /\ Receives(p)
         \/ IterationStart(p) = "prepost" /\ Transmitter(p) /\ Receives(p) /\ ~Burst
         \/ IterationStart(p) = "send" /\ Transmitter(p) /\ Sends(p) /\ (Burst \/ ~Receives(p))
BY NPmpiAssumption DEF IterationStart, Sends, Receives

LEMMA SyncStep ==
  ASSUME Inv, DriverInv', NEW p \in Proc, LeaveSync(p), UNCHANGED mpiVars
  PROVE  MessageInv'
<1>1. /\ pc[p] = "sync" /\ pc'[p] = IterationStart(p) /\ UNCHANGED <<nrepeat, j, bufVars>>
  BY InvFacts DEF LeaveSync, Leave, Goto, ControlTypeOK, loopVars
<1>2. \/ pc'[p] = "recv" /\ ~Transmitter(p) /\ Receives(p)
      \/ pc'[p] = "prepost" /\ Transmitter(p) /\ Receives(p) /\ ~Burst
      \/ pc'[p] = "send" /\ Transmitter(p) /\ Sends(p) /\ (Burst \/ ~Receives(p))
  BY <1>1, Starts
<1>3. ~InLoop(p) /\ pc'[p] # "sending" /\ InTrial(p)'
  BY <1>1, <1>2 DEF InLoop, InTrial, TrialLabels, LoopLabels
<1>4. j[p] = 0
  BY <1>3, InvFacts DEF RoundInv, Rounded
<1>5. OwnSent(p) = 0 /\ OwnSent(p)' = 0 /\ OwnGot(p) = 0 /\ OwnGot(p)' = 0
  BY <1>1, <1>2, <1>4 DEF OwnSent, OwnGot, InLoop, Sends, Receives, Transmitter
<1>6. Armed(p)' = Armed(p)
  BY <1>1, <1>2, <1>3, <1>5 DEF Armed, Receives, Transmitter
<1>7. AtCall(p)'
  BY <1>2 DEF AtCall, Sends, Receives, Transmitter
<1>8. Tags(p)'
  BY <1>1, <1>3, <1>5, <1>6, StillElsewhere, InvFacts DEF Tags, Wrapped, Stamped
<1>9. RoundStep(p)
  BY LeaveSyncRounds, InvFacts
<1> QED BY <1>1, <1>3, <1>5, <1>6, <1>7, <1>8, <1>9, StillElsewhere, InvFacts, OutsideStep

\* When a trial ends, all that was sent in it has been checked.
LEMMA ResetStep ==
  ASSUME Inv, DriverInv', NEW p \in Proc, Reset(p)
  PROVE  MessageInv'
<1>1. PICK q \in Proc : q = Pair(p) /\ q # p /\ Pair(q) = p
  BY PairFacts
<1>2. /\ DriverReset(p) /\ UNCHANGED mpiVars /\ pc[p] = "reset" /\ UNCHANGED <<nrepeat, j, bufVars>>
  BY DEF Reset, DriverReset
<1>3. /\ OthersStay(p) /\ ~InTrial(p)'
      /\ pc'[p] \in {"burst", "prepostFirst", "sync", "mintime", "gather"}
  BY <1>2, ResetRound, InvFacts
<1>4. Unchecked(p, q)' = Unchecked(p, q) /\ Unchecked(q, p)' = Unchecked(q, p)
  BY <1>1, <1>2, ResetCounts, InvFacts
<1>5. /\ Expecting(p) /\ Incoming(p) /\ Incoming(q) /\ Tags(p) /\ nrepeat[p] \in Nat
      /\ posted[p] \in Seq(Receive) /\ net[p] \in Seq(Message) /\ nrepeats[p] = nrepeat[p]
  BY <1>1, <1>2, InvFacts DEF ControlTypeOK
<1>6. /\ Armed(p) = {} /\ Wrapped(p, Stamped(p)) = 0 /\ Wrapped(p, OwnGot(p)) = 0
  BY <1>2, <1>5 DEF Armed, Wrapped, Stamped, OwnSent, OwnGot
<1>7. Unchecked(q, p) = 0
  <2>1. Unchecked(q, p) <= 0
    BY <1>1, <1>2, NoneLeft, InvFacts
  <2>2. Unchecked(q, p) \in Nat
    BY <1>1, <1>5 DEF Incoming, Coming
  <2> QED BY <2>1, <2>2
<1>8. posted[p] = << >> /\ complete[p] = {} /\ net[p] = << >>
  <2>1. posted[p] = << >> /\ complete[p] = {}
    BY <1>6, NothingPosted
  <2>2. Numbered(Armed(p), OwnGot(p))
    BY <1>5 DEF Expecting
  <2>3. Unchecked(Pair(p), p) = 0
    BY <1>1, <1>7
  <2>4. ~ \E k \in DOMAIN net[p] : TRUE
    <3>1. \A k \in DOMAIN net[p] : net[p][k].tag \in OwnGot(p) .. OwnGot(p) + 0 - 1
      BY <1>5, <2>3 DEF Incoming, Coming
    <3>2. OwnGot(p) .. OwnGot(p) + 0 - 1 = {}
      BY <2>2 DEF Numbered
    <3> QED BY <3>1, <3>2
  <2> QED BY <1>5, <2>1, <2>4, NoElement
<1>9. setTag[q] = (chkTag[p] + 0) % TagMod
  BY <1>1, <1>5, <1>7 DEF Incoming, Coming
<1>10. OwnSent(p)' = 0 /\ OwnGot(p)' = 0 /\ pc'[p] # "sending"
  BY <1>3 DEF OwnSent, OwnGot, InLoop
<1>11. AtCall(p)' /\ Armed(p)' = {}
  <2>1. /\ pc'[p] = "burst" => Burst /\ Receives(p)
        /\ pc'[p] = "prepostFirst" => ~Burst /\ ~Transmitter(p)
        /\ pc'[p] = "sync" => IF Burst THEN ~Receives(p) ELSE Transmitter(p)
    <3>1. pc'[p] = IF trial[p] + 1 < NTrials THEN TrialStart(p)
                   ELSE IF Mode = "stream" THEN "mintime" ELSE "gather"
      BY <1>2, InvFacts DEF DriverReset, Goto, ControlTypeOK
    <3>2. \/ TrialStart(p) = "burst" /\ Burst /\ Receives(p)
          \/ TrialStart(p) = "prepostFirst" /\ ~Burst /\ ~Transmitter(p)
          \/ TrialStart(p) = "sync" /\ IF Burst THEN ~Receives(p) ELSE Transmitter(p)
      BY NPmpiAssumption DEF TrialStart, Receives
    <3> QED BY <3>1, <3>2
  <2>2. AtCall(p)'
    BY <1>3, <2>1 DEF AtCall, Receives, Transmitter
  <2>3. Armed(p)' = {}
    BY <1>3, <2>1 DEF Armed, Receives, Transmitter
  <2> QED BY <2>2, <2>3
<1>12. Tags(p)'
  <2>1. stag[p] = 0 /\ rtag[p] = 0
    BY <1>5, <1>6 DEF Tags, Wrapped, Stamped, ModuleTypeOK
  <2> QED BY <1>2, <1>5, <1>10, <1>11, <2>1, StillElsewhere DEF Tags, Wrapped, Stamped
<1>13. Halves(p)' /\ Elsewhere(p) /\ UNCHANGED <<posted, complete, net, setTag, chkTag>>
  BY <1>2, StillElsewhere, InvFacts
<1>14. Expecting(p)'
  BY <1>8, <1>10, <1>11, <1>13 DEF Expecting, Numbered, Posting
<1>15. Incoming(p)'
  BY <1>1, <1>4, <1>7, <1>8, <1>9, <1>10, <1>11, <1>13 DEF Incoming, Coming
<1> QED BY <1>1, <1>2, <1>3, <1>4, <1>5, <1>11, <1>12, <1>13, <1>14, <1>15, PairStep
    DEF Own, Incoming, Inv, bufVars

-----------------------------------------------------------------------------
(***************************************************************************)
(* The message loop.                                                       *)
(***************************************************************************)

\* j++ and the test of the loop: the iteration that ends is counted wherever p goes.
LEMMA IterateFacts ==
  ASSUME Inv, NEW p \in Proc, InLoop(p), Continue(p, "iterate"), nrepeat' = nrepeat
  PROVE  /\ OwnSent(p)' = IF Sends(p) THEN j[p] + 1 ELSE 0
         /\ OwnGot(p)' = IF Receives(p) THEN j[p] + 1 ELSE 0
         /\ Armed(p)' = IF ~Receives(p) THEN {}
                        ELSE IF Burst THEN j[p] + 1 .. nrepeat[p] - 1
                        ELSE IF ~Transmitter(p) /\ j[p] + 1 < nrepeat[p] THEN {j[p] + 1} ELSE {}
         /\ AtCall(p)' /\ pc'[p] # "sending"
<1>1. /\ j[p] \in Nat /\ nrepeat[p] \in Nat /\ j[p] < nrepeat[p] /\ nrepeat'[p] = nrepeat[p]
  BY InvFacts DEF ControlTypeOK, RoundInv, Rounded
<1>2. LoopExit(p) \in {"endsync", "reset"}
  BY DEF LoopExit
<1>3. \/ j[p] + 1 < nrepeat[p] /\ pc'[p] = IterationStart(p) /\ j'[p] = j[p] + 1
      \/ ~(j[p] + 1 < nrepeat[p]) /\ pc'[p] \in {"endsync", "reset"}
  <2>1. CASE j[p] + 1 < nrepeat[p]
    BY <2>1, InvFacts DEF Continue, Goto, ControlTypeOK
  <2>2. CASE ~(j[p] + 1 < nrepeat[p])
    BY <1>2, <2>2, InvFacts DEF Continue, Goto, ControlTypeOK
  <2> QED BY <2>1, <2>2
<1>4. \/ /\ j[p] + 1 < nrepeat[p] /\ j'[p] = j[p] + 1
         /\ \/ pc'[p] = "recv" /\ ~Transmitter(p) /\ Receives(p)
            \/ pc'[p] = "prepost" /\ Transmitter(p) /\ Receives(p) /\ ~Burst
            \/ pc'[p] = "send" /\ Transmitter(p) /\ Sends(p) /\ (Burst \/ ~Receives(p))
      \/ nrepeat[p] = j[p] + 1 /\ pc'[p] \in {"endsync", "reset"}
  BY <1>1, <1>3, Starts
<1>5. /\ OwnSent(p)' = IF Sends(p) THEN j[p] + 1 ELSE 0
      /\ OwnGot(p)' = IF Receives(p) THEN j[p] + 1 ELSE 0
  BY <1>1, <1>4 DEF OwnSent, OwnGot, InLoop, Sends, Receives, Transmitter
<1>6. InTrial(p)'
  BY <1>4 DEF InTrial, TrialLabels, LoopLabels
<1>7. AtCall(p)' /\ pc'[p] # "sending"
  BY <1>4 DEF AtCall, Sends, Receives, Transmitter
<1>8. Armed(p)' = IF ~Receives(p) THEN {}
                  ELSE IF Burst THEN j[p] + 1 .. nrepeat[p] - 1
                  ELSE IF ~Transmitter(p) /\ j[p] + 1 < nrepeat[p] THEN {j[p] + 1} ELSE {}
  <2>1. CASE Burst
    BY <1>1, <1>5, <1>6, <2>1 DEF Armed, Receives, Transmitter
  <2>2. CASE ~Burst
    BY <1>1, <1>4, <1>5, <2>2 DEF Armed, Receives, Transmitter
  <2> QED BY <2>1, <2>2
<1> QED BY <1>5, <1>7, <1>8

\* MPI_Send returns.
LEMMA SendReturnsStep ==
  ASSUME Aligned, Inv, DriverInv', NEW p \in Proc, SendReturns(p)
  PROVE  MessageInv'
<1>1. PICK q \in Proc : q = Pair(p) /\ q # p
  BY PairFacts
<1>2. /\ pc[p] = "sending" /\ DriverSent(p) /\ Continue(p, AfterSend(p))
      /\ nrepeat' = nrepeat /\ UNCHANGED bufVars /\ UNCHANGED mpiVars
  BY DEF SendReturns, DriverSent
<1>3. InLoop(p) /\ InTrial(p)
  BY <1>2 DEF InLoop, InTrial, TrialLabels, LoopLabels
<1>4. /\ Sends(p) /\ j[p] \in Nat /\ nrepeat[p] \in Nat /\ j[p] < nrepeat[p]
      /\ DriverInv /\ RoundInv /\ SendersSend /\ Tags(p) /\ Halves(p)
  BY <1>2, <1>3, InvFacts DEF AtCall, ControlTypeOK, RoundInv, Rounded
<1>5. OthersStay(p) /\ Round(p)' = Round(p) /\ nrepeat'[p] = nrepeat[p]
  BY <1>2, <1>4, DriverSentRounds DEF RoundStep
<1>6. /\ OwnSent(p) = j[p] /\ OwnGot(p) = IF ~Receives(p) THEN 0
                                          ELSE IF Transmitter(p) THEN j[p] ELSE j[p] + 1
  BY <1>2, <1>3, <1>4 DEF OwnSent, OwnGot
<1>7. Armed(p) = IF ~Receives(p) THEN {}
                 ELSE IF Burst THEN OwnGot(p) .. nrepeat[p] - 1
                 ELSE IF OwnGot(p) < nrepeat[p] THEN {OwnGot(p)} ELSE {}
  BY <1>2, <1>3 DEF Armed
<1>8. /\ OwnSent(p)' = j[p] + 1 /\ OwnGot(p)' = OwnGot(p) /\ Armed(p)' = Armed(p)
      /\ AtCall(p)' /\ pc'[p] # "sending"
  <2>1. CASE AfterSend(p) = "iterate"
    <3>1. ~Transmitter(p) \/ ~Receives(p)
      BY <2>1 DEF AfterSend, Receives
    <3>2. /\ OwnSent(p)' = IF Sends(p) THEN j[p] + 1 ELSE 0
          /\ OwnGot(p)' = IF Receives(p) THEN j[p] + 1 ELSE 0
          /\ Armed(p)' = IF ~Receives(p) THEN {}
                         ELSE IF Burst THEN j[p] + 1 .. nrepeat[p] - 1
                         ELSE IF ~Transmitter(p) /\ j[p] + 1 < nrepeat[p] THEN {j[p] + 1} ELSE {}
          /\ AtCall(p)' /\ pc'[p] # "sending"
      BY <1>2, <1>3, <2>1, IterateFacts
    <3> QED BY <1>4, <1>6, <1>7, <3>1, <3>2
  <2>2. CASE AfterSend(p) # "iterate"
    <3>1. AfterSend(p) = "recv" /\ Transmitter(p) /\ Mode # "stream" /\ Receives(p)
      BY <2>2 DEF AfterSend, Receives
    <3>2. pc'[p] = "recv" /\ j' = j
      BY <1>2, <3>1, InvFacts DEF Continue, Goto, ControlTypeOK
    <3>3. OwnSent(p)' = j[p] + 1 /\ OwnGot(p)' = OwnGot(p)
      BY <1>4, <1>6, <3>1, <3>2 DEF OwnSent, OwnGot, InLoop, Sends, Receives, Transmitter
    <3>4. AtCall(p)'
      BY <3>1, <3>2 DEF AtCall, Receives
    <3>5. InTrial(p)'
      BY <3>2 DEF InTrial, TrialLabels, LoopLabels
    <3>6. Armed(p)' = Armed(p)
      BY <1>4, <1>5, <1>6, <1>7, <3>1, <3>2, <3>3, <3>5 DEF Armed, Receives
    <3> QED BY <3>2, <3>3, <3>4, <3>6
  <2> QED BY <2>1, <2>2
<1>9. Unchecked(p, q)' = Unchecked(p, q) /\ Unchecked(q, p)' = Unchecked(q, p)
  <2>1. Got(q, p) \in Int
    BY <1>1, <1>4, CountTypes
  <2>2. /\ Unchecked(q, p)' = Unchecked(q, p)
        /\ Unchecked(p, q) = j[p] + 1 - Got(q, p)
        /\ Unchecked(p, q)' = (j[p] + 1) + 0 - Got(q, p)
    BY <1>1, <1>2, <1>3, <1>4, <1>5, <1>6, <1>8, TrialMove
  <2> QED BY <1>4, <2>1, <2>2
<1>10. /\ Elsewhere(p) /\ UNCHANGED <<posted, complete, net, setTag, chkTag>>
       /\ buf'[p] = buf[p] /\ s_ptr'[p] = s_ptr[p] /\ r_ptr'[p] = r_ptr[p] /\ Halves(p)'
       /\ stag'[p] = stag[p] /\ rtag'[p] = rtag[p] /\ nrepeats'[p] = nrepeats[p]
  BY <1>2, <1>4, StillElsewhere
<1>11. Tags(p)'
  <2>1. Stamped(p) = j[p] + 1 /\ Stamped(p)' = j[p] + 1
    BY <1>2, <1>4, <1>6, <1>8 DEF Stamped
  <2> QED BY <1>2, <1>4, <1>5, <1>8, <1>10, <2>1 DEF Tags, Wrapped
<1> QED BY <1>1, <1>5, <1>8, <1>9, <1>10, <1>11, QuietStep

\* The tag that follows a tag.
LEMMA WrapNext ==
  ASSUME NEW T \in Nat \ {0}, NEW c \in Nat, c < T
  PROVE  (c + 1) % T = IF c + 1 = T THEN 0 ELSE c + 1
<1>1. PICK a \in Int : a = c + 1
  OBVIOUS
<1>2. a % T \in 0 .. T - 1 /\ a \div T \in Int /\ a = T * (a \div T) + (a % T)
  BY ModRange
<1>3. CASE a = T
  <2>1. T * 1 + 0 = T * (a \div T) + (a % T) /\ 0 \in 0 .. T - 1 /\ 1 \in Int
    BY <1>2, <1>3
  <2>2. 0 = a % T
    BY <1>2, <2>1, Unique
  <2> QED BY <1>1, <1>3, <2>2
<1>4. CASE a # T
  <2>1. T * 0 + a = T * (a \div T) + (a % T) /\ a \in 0 .. T - 1 /\ 0 \in Int
    BY <1>1, <1>2, <1>4
  <2>2. a = a % T
    BY <1>2, <2>1, Unique
  <2> QED BY <1>1, <1>4, <2>2
<1> QED BY <1>3, <1>4

\* What preposting a receive does to the counts: nothing.
LEMMA PrepostFacts ==
  ASSUME Aligned, Inv, DriverInv', NEW p \in Proc, DriverPrepost(p)
  PROVE  /\ ~Burst /\ Armed(p) = {} /\ Armed(p)' = {OwnGot(p)}
         /\ OwnSent(p)' = OwnSent(p) /\ OwnGot(p)' = OwnGot(p)
         /\ OwnGot(p) \in Nat /\ OwnGot(p) < nrepeat[p]
         /\ AtCall(p)' /\ pc[p] # "sending" /\ pc'[p] # "sending"
         /\ pc'[p] \notin {"nrepeat", "done"}
<1>1. /\ pc[p] \in {"prepostFirst", "prepost", "prepostNext"} /\ Continue(p, AfterPrepost(p))
      /\ nrepeat' = nrepeat
  BY DEF DriverPrepost
<1>2. /\ j[p] \in Nat /\ nrepeat[p] \in Nat /\ nrepeat[p] > 0 /\ nrepeat'[p] = nrepeat[p]
      /\ IF InLoop(p) THEN j[p] < nrepeat[p] ELSE j[p] = 0
  BY <1>1, InvFacts DEF ControlTypeOK, RoundInv, Rounded
<1>3. /\ ~Burst /\ Receives(p) /\ (pc[p] = "prepost" <=> Transmitter(p))
      /\ pc[p] = "prepostNext" => j[p] + 1 < nrepeat[p]
  BY <1>1, InvFacts DEF AtCall, Receives
<1>4. Armed(p) = {}
  BY <1>1, <1>3 DEF Armed
<1>5. CASE pc[p] = "prepostFirst"
  <2>1. pc'[p] = "sync" /\ j' = j
    BY <1>1, <1>5, InvFacts DEF AfterPrepost, Continue, Goto, ControlTypeOK
  <2>2. OwnGot(p) = 0 /\ OwnSent(p) = 0 /\ OwnGot(p)' = 0 /\ OwnSent(p)' = 0
    BY <1>5, <2>1 DEF OwnGot, OwnSent, InLoop
  <2>3. Armed(p)' = {0}
    BY <1>3, <1>5, <2>1, <2>2 DEF Armed, Receives, Transmitter
  <2>4. AtCall(p)'
    BY <2>1 DEF AtCall
  <2> QED BY <1>2, <1>3, <1>4, <1>5, <2>1, <2>2, <2>3, <2>4
<1>6. CASE pc[p] = "prepost"
  <2>1. pc'[p] = "send" /\ j' = j
    BY <1>1, <1>6, InvFacts DEF AfterPrepost, Continue, Goto, ControlTypeOK
  <2>2. InLoop(p) /\ Transmitter(p) /\ Mode # "stream"
    BY <1>3, <1>6 DEF InLoop, Receives
  <2>3. /\ OwnGot(p) = j[p] /\ OwnSent(p) = j[p] /\ OwnGot(p)' = j[p] /\ OwnSent(p)' = j[p]
        /\ j[p] < nrepeat[p]
    BY <1>2, <1>6, <2>1, <2>2 DEF OwnGot, OwnSent, InLoop, Sends, Receives, Transmitter
  <2>4. Armed(p)' = {j[p]}
    BY <1>2, <1>3, <2>1, <2>3 DEF Armed, Receives, Transmitter
  <2>5. AtCall(p)'
    BY <2>1, <2>2 DEF AtCall, Sends
  <2> QED BY <1>2, <1>3, <1>4, <1>6, <2>1, <2>3, <2>4, <2>5
<1>7. CASE pc[p] = "prepostNext"
  <2>1. /\ InLoop(p) /\ ~Transmitter(p) /\ OwnGot(p) = j[p] + 1
        /\ OwnSent(p) = IF Sends(p) THEN j[p] ELSE 0
    BY <1>3, <1>7 DEF InLoop, OwnGot, OwnSent
  <2>2. CASE Mode = "stream"
    <3>1. AfterPrepost(p) = "iterate" /\ ~Sends(p)
      BY <1>7, <2>1, <2>2 DEF AfterPrepost, Sends
    <3>2. /\ OwnSent(p)' = IF Sends(p) THEN j[p] + 1 ELSE 0
          /\ OwnGot(p)' = IF Receives(p) THEN j[p] + 1 ELSE 0
          /\ Armed(p)' = IF ~Receives(p) THEN {}
                         ELSE IF Burst THEN j[p] + 1 .. nrepeat[p] - 1
                         ELSE IF ~Transmitter(p) /\ j[p] + 1 < nrepeat[p] THEN {j[p] + 1} ELSE {}
          /\ AtCall(p)' /\ pc'[p] # "sending"
      BY <1>1, <2>1, <3>1, IterateFacts
    <3>3. pc'[p] \notin {"nrepeat", "done"}
      <4>1. IterationStart(p) \notin {"nrepeat", "done"} /\ LoopExit(p) \notin {"nrepeat", "done"}
        BY DEF IterationStart, LoopExit
      <4>2. pc'[p] = IterationStart(p) \/ pc'[p] = LoopExit(p)
        BY <1>1, <3>1, InvFacts DEF Continue, Goto, ControlTypeOK
      <4> QED BY <4>1, <4>2
    <3> QED BY <1>2, <1>3, <1>4, <1>7, <2>1, <3>1, <3>2, <3>3
  <2>3. CASE Mode # "stream"
    <3>1. pc'[p] = "send" /\ j' = j
      BY <1>1, <1>7, <2>3, InvFacts DEF AfterPrepost, Continue, Goto, ControlTypeOK
    <3>2. OwnGot(p)' = j[p] + 1 /\ OwnSent(p)' = j[p] /\ Sends(p)
      BY <2>1, <2>3, <3>1 DEF OwnGot, OwnSent, InLoop, Sends, Receives, Transmitter
    <3>3. Armed(p)' = {j[p] + 1}
      BY <1>2, <1>3, <1>7, <3>1, <3>2 DEF Armed, Receives, Transmitter
    <3>4. AtCall(p)'
      BY <2>3, <3>1 DEF AtCall, Sends
    <3> QED BY <1>2, <1>3, <1>4, <1>7, <2>1, <3>1, <3>2, <3>3, <3>4
  <2> QED BY <2>2, <2>3
<1> QED BY <1>1, <1>5, <1>6, <1>7

\* PrepostRecv(): one receive is posted, for the next message.
LEMMA PrepostRecvStep ==
  ASSUME Aligned, Inv, DriverInv', NEW p \in Proc, PrepostRecv(p)
  PROVE  MessageInv'
<1>1. PICK q \in Proc : q = Pair(p) /\ q # p /\ Pair(q) = p
  BY PairFacts
<1>2. PICK g : g = OwnGot(p)
  OBVIOUS
<1>3. DriverPrepost(p) /\ UNCHANGED bufVars /\ UNCHANGED <<nrepeat, nrepeats, stag, net>>
  BY DEF PrepostRecv, DriverPrepost
<1>4. /\ ~Burst /\ Armed(p) = {} /\ Armed(p)' = {g}
      /\ OwnSent(p)' = OwnSent(p) /\ OwnGot(p)' = g
      /\ g \in Nat /\ g < nrepeat[p]
      /\ AtCall(p)' /\ pc[p] # "sending" /\ pc'[p] # "sending"
      /\ pc'[p] \notin {"nrepeat", "done"} /\ pc[p] \notin {"nrepeat", "done"}
  BY <1>2, <1>3, PrepostFacts DEF DriverPrepost
<1>5. /\ DriverInv /\ RoundInv /\ BufferTypeOK /\ ModuleTypeOK /\ Tags(p) /\ Halves(p)
      /\ Expecting(p) /\ Incoming(p) /\ Incoming(q) /\ nrepeats[p] = nrepeat[p]
      /\ posted[p] \in Seq(Receive) /\ net[p] \in Seq(Message) /\ nrepeat[p] \in Nat
      /\ DriverInv /\ RoundInv
  BY <1>4, InvFacts DEF ControlTypeOK
<1>6. OthersStay(p) /\ Round(p)' = Round(p)
  BY <1>3, <1>5, DriverPrepostRounds DEF RoundStep
<1>7. Unchecked(p, q)' = Unchecked(p, q) /\ Unchecked(q, p)' = Unchecked(q, p)
  BY <1>1, <1>2, <1>3, <1>4, <1>5, <1>6, QuietCounts
<1>8. stag[p] = Wrapped(p, Stamped(p)) /\ rtag[p] = g
  BY <1>2, <1>4, <1>5 DEF Tags, Wrapped
<1>9. PICK x \in Receive : x = [slot |-> Slot(g), tag |-> g, half |-> r_ptr[p]]
  BY <1>4, <1>5, PostedType
<1>10. /\ posted' = [posted EXCEPT ![p] = Append(@, x)]
       /\ complete' = [complete EXCEPT ![p] = @ \ {Slot(g)}]
       /\ rtag' = [rtag EXCEPT ![p] = (g + 1) % nrepeat[p]]
  BY <1>5, <1>8, <1>9 DEF PrepostRecv
<1>11. /\ posted'[p] = Append(posted[p], x) /\ complete'[p] = complete[p] \ {Slot(g)}
       /\ rtag'[p] = (g + 1) % nrepeat[p]
       /\ \A y \in Proc : y # p => /\ posted'[y] = posted[y] /\ complete'[y] = complete[y]
                                   /\ rtag'[y] = rtag[y]
  BY <1>5, <1>10 DEF ModuleTypeOK
<1>12. Elsewhere(p) /\ Halves(p)'
  BY <1>3, <1>5, <1>11 DEF Elsewhere, bufVars, Halves
<1>13. Tags(p)'
  <2>1. rtag'[p] = IF g + 1 = nrepeat[p] THEN 0 ELSE g + 1
    BY <1>4, <1>5, <1>11, WrapNext
  <2>2. Stamped(p)' = Stamped(p)
    BY <1>4 DEF Stamped
  <2> QED BY <1>3, <1>4, <1>5, <1>8, <2>1, <2>2 DEF Tags, Wrapped
<1>14. /\ Numbered({g}, g)
       /\ Posting({g}, g, Append(posted[p], x), complete[p] \ {Slot(g)}, r_ptr[p], s_ptr[p])
       /\ Coming({g}, g, Unchecked(q, p), complete[p] \ {Slot(g)}, net[p], chkTag[p], setTag[q],
                 buf[p], r_ptr[p], s_ptr[p])
  <2>1. /\ Numbered({}, g) /\ Posting({}, g, posted[p], complete[p], r_ptr[p], s_ptr[p])
        /\ Coming({}, g, Unchecked(q, p), complete[p], net[p], chkTag[p], setTag[q],
                  buf[p], r_ptr[p], s_ptr[p])
    BY <1>1, <1>2, <1>4, <1>5 DEF Expecting, Incoming
  <2>2. x.slot = Slot(g) /\ x.tag = g /\ x.half = r_ptr[p]
    BY <1>9
  <2> QED BY <1>4, <1>5, <2>1, <2>2, PostOne
<1>15. Expecting(p)'
  BY <1>3, <1>4, <1>11, <1>14 DEF Expecting, bufVars
<1>16. Incoming(p)'
  BY <1>1, <1>3, <1>4, <1>7, <1>11, <1>14 DEF Incoming, bufVars
<1> QED BY <1>1, <1>3, <1>4, <1>5, <1>6, <1>7, <1>12, <1>13, <1>15, <1>16, PairStep
    DEF Own, Incoming, Inv, bufVars

LEMMA SmallTag ==
  ASSUME NEW T \in Nat \ {0}
  PROVE  T % T = 0 /\ \A m \in 0 .. T - 1 : m % T = m
<1>1. ASSUME NEW a \in Int PROVE a % T \in 0 .. T - 1 /\ a \div T \in Int /\ a = T * (a \div T) + (a % T)
  BY ModRange
<1>2. ASSUME NEW m \in 0 .. T - 1 PROVE m % T = m
  <2>1. T * 0 + m = T * (m \div T) + (m % T) /\ m % T \in 0 .. T - 1 /\ m \div T \in Int /\ 0 \in Int
    BY <1>1
  <2> QED BY <2>1, Unique
<1>3. T % T = 0
  <2>1. T * 1 = T /\ (T * 1) % T = 0
    BY Mult
  <2> QED BY <2>1
<1> QED BY <1>2, <1>3

\* With --burst all receives of the trial are posted before it.
LEMMA PrepostBurstStep ==
  ASSUME Inv, DriverInv', NEW p \in Proc, PrepostBurst(p)
  PROVE  MessageInv'
<1>1. PICK q \in Proc : q = Pair(p) /\ q # p /\ Pair(q) = p
  BY PairFacts
<1>2. PICK c : c = nrepeat[p]
  OBVIOUS
<1>3. /\ DriverBurst(p) /\ UNCHANGED bufVars /\ UNCHANGED <<j, nrepeat, nrepeats, stag, net>>
      /\ pc[p] = "burst" /\ pc'[p] = "sync"
  BY InvFacts DEF PrepostBurst, DriverBurst, Goto, ControlTypeOK, loopVars
<1>4. /\ DriverInv /\ RoundInv /\ BufferTypeOK /\ ModuleTypeOK /\ Tags(p) /\ Halves(p)
      /\ Expecting(p) /\ Incoming(p) /\ Incoming(q) /\ nrepeats[p] = c /\ c \in Nat \ {0}
      /\ posted[p] \in Seq(Receive) /\ net[p] \in Seq(Message)
      /\ Burst /\ Receives(p)
  <2>1. AtCall(p) /\ ControlTypeOK
    BY InvFacts
  <2>2. Burst /\ Receives(p)
    BY <1>3, <2>1 DEF AtCall
  <2>3. nrepeat[p] \in Nat
    BY <2>1 DEF ControlTypeOK
  <2> QED BY <1>1, <1>2, <1>3, <2>2, <2>3, InvFacts
<1>5. /\ ~InTrial(p) /\ ~InTrial(p)' /\ ~InLoop(p) /\ ~InLoop(p)' /\ ~Committed(p)
      /\ OwnSent(p) = 0 /\ OwnSent(p)' = 0 /\ OwnGot(p) = 0 /\ OwnGot(p)' = 0
  BY <1>3 DEF Committed, InTrial, InLoop, TrialLabels, LoopLabels, OwnSent, OwnGot
<1>6. Armed(p) = {} /\ Armed(p)' = 0 .. c - 1
  BY <1>2, <1>3, <1>4, <1>5 DEF Armed, Receives, Transmitter
<1>7. AtCall(p)'
  BY <1>3 DEF AtCall
<1>8. OthersStay(p) /\ Round(p)' = Round(p)
  BY <1>3, <1>4, DriverBurstRounds DEF RoundStep
<1>9. Unchecked(p, q)' = Unchecked(p, q) /\ Unchecked(q, p)' = Unchecked(q, p)
  BY <1>1, <1>3, <1>4, <1>5, <1>8, QuietCounts
<1>10. stag[p] = 0 /\ rtag[p] = 0
  BY <1>2, <1>3, <1>4, <1>5 DEF Tags, Wrapped, Stamped
<1>11. /\ c % c = 0 /\ (\A m \in 0 .. c - 1 : m % c = m)
  BY <1>4, SmallTag
<1>12. PICK new : new = [m \in 1 .. c |-> [slot |-> Slot((rtag[p] + (m - 1)) % nrepeats[p]),
                                           tag |-> (rtag[p] + (m - 1)) % nrepeats[p],
                                           half |-> BurstHalf(p, m - 1)]]
  OBVIOUS
<1>13. PICK gone : gone = {Slot((rtag[p] + m) % nrepeats[p]) : m \in 0 .. c - 1}
  OBVIOUS
<1>14. /\ posted' = [posted EXCEPT ![p] = @ \o new]
       /\ complete' = [complete EXCEPT ![p] = @ \ gone]
       /\ rtag' = [rtag EXCEPT ![p] = (rtag[p] + c) % nrepeats[p]]
  BY <1>2, <1>12, <1>13 DEF PrepostBurst
<1>15. /\ posted'[p] = posted[p] \o new /\ complete'[p] = complete[p] \ gone
       /\ rtag'[p] = (rtag[p] + c) % nrepeats[p]
       /\ \A y \in Proc : y # p => /\ posted'[y] = posted[y] /\ complete'[y] = complete[y]
                                   /\ rtag'[y] = rtag[y]
  BY <1>4, <1>14 DEF ModuleTypeOK
<1>16. rtag'[p] = 0
  BY <1>4, <1>10, <1>11, <1>15
<1>17. ASSUME NEW m \in 1 .. c
       PROVE  /\ new[m] \in Receive /\ new[m].tag = m - 1 /\ new[m].slot = m - 1
              /\ new[m].half = IF (m - 1) % 2 = 0 THEN r_ptr[p] ELSE s_ptr[p]
  <2>1. PICK t \in 0 .. c - 1 : t = m - 1
    BY <1>4
  <2>2. (rtag[p] + t) % nrepeats[p] = t
    <3>1. rtag[p] + t = t /\ t % c = t
      BY <1>10, <1>11
    <3> QED BY <1>4, <3>1
  <2>3. new[m] = [slot |-> Slot(t), tag |-> t, half |-> BurstHalf(p, t)]
    BY <1>12, <2>1, <2>2
  <2>4. Slot(t) = t /\ t \in Nat /\ BurstHalf(p, t) \in {r_ptr[p], s_ptr[p]}
    BY <1>4 DEF Slot, BurstHalf
  <2>5. BurstHalf(p, t) = IF (m - 1) % 2 = 0 THEN r_ptr[p] ELSE s_ptr[p]
    BY <2>1 DEF BurstHalf
  <2>6. new[m] \in Receive
    BY <1>4, <2>3, <2>4, PostedType
  <2> QED BY <2>1, <2>3, <2>4, <2>5, <2>6
<1>18. new \in Seq(Receive) /\ Len(new) = c
  <2>1. new = [m \in 1 .. c |-> new[m]]
    BY <1>12
  <2>2. new \in [1 .. c -> Receive]
    BY <1>17, <2>1
  <2> QED BY <1>4, <2>2
<1>19. Elsewhere(p) /\ Halves(p)'
  BY <1>3, <1>4, <1>15 DEF Elsewhere, bufVars, Halves
<1>20. Tags(p)'
  BY <1>2, <1>3, <1>4, <1>5, <1>10, <1>16 DEF Tags, Wrapped, Stamped
<1>21. /\ Numbered(0 .. c - 1, 0)
       /\ Posting(0 .. c - 1, 0, posted[p] \o new, complete[p] \ gone, r_ptr[p], s_ptr[p])
       /\ Coming(0 .. c - 1, 0, Unchecked(q, p), complete[p] \ gone, net[p], chkTag[p],
                 setTag[q], buf[p], r_ptr[p], s_ptr[p])
  <2>1. /\ Numbered({}, 0) /\ Posting({}, 0, posted[p], complete[p], r_ptr[p], s_ptr[p])
        /\ Coming({}, 0, Unchecked(q, p), complete[p], net[p], chkTag[p], setTag[q],
                  buf[p], r_ptr[p], s_ptr[p])
    BY <1>1, <1>4, <1>5, <1>6 DEF Expecting, Incoming
  <2>2. WholeTrial(new, c, r_ptr[p], s_ptr[p])
    BY <1>17, <1>18 DEF WholeTrial
  <2>3. c \in Nat
    BY <1>4
  <2>4. Burst /\ posted[p] \in Seq(Receive) /\ net[p] \in Seq(Message)
    BY <1>4
  <2> HIDE DEF Unchecked
  <2> QED BY <2>1, <2>2, <2>3, <2>4, PostAll
<1>22. Expecting(p)'
  BY <1>3, <1>5, <1>6, <1>15, <1>21 DEF Expecting, bufVars
<1>23. Incoming(p)'
  BY <1>1, <1>3, <1>5, <1>6, <1>9, <1>15, <1>21 DEF Incoming, bufVars
<1> QED BY <1>1, <1>3, <1>4, <1>7, <1>8, <1>9, <1>19, <1>20, <1>22, <1>23, PairStep
    DEF Own, Incoming, Inv, bufVars

\* Unless --stream is given, p is at most one message ahead of what it has checked,
\* and not ahead when it is to send.
LEMMA OneAhead ==
  ASSUME Inv, NEW p \in Proc, NEW q \in Proc, Mode # "stream"
  PROVE  LET ahead == Sent(p, q) + (IF pc[p] = "sending" THEN 1 ELSE 0) - Got(p, q)
         IN  ahead \in {-1, 0, 1} /\ (pc[p] = "send" => ahead <= 0)
<1>1. /\ DriverInv /\ RoundInv /\ SendersSend /\ AtCall(p) /\ Sends(p) /\ Receives(p)
  BY InvFacts DEF Sends, Receives
<1>2. /\ j[p] \in Nat /\ nrepeat[p] \in Nat /\ nrepeat[q] \in Nat
  BY <1>1 DEF DriverInv, ControlTypeOK
<1>3. CASE Round(p) > Round(q)
  <2>1. Round(p) \in Nat /\ Round(q) \in Nat
    BY <1>1, RoundType DEF DriverInv
  <2>2. ~InTrial(p)
    BY <1>1, <1>3, <2>1, TrialIsLast
  <2>3. pc[p] \notin {"send", "sending"}
    BY <2>2 DEF InTrial, TrialLabels, LoopLabels
  <2>4. Sent(p, q) = nrepeat[q] /\ Got(p, q) = nrepeat[q]
    BY <1>1, <1>3 DEF Sent, Got
  <2> QED BY <1>2, <2>3, <2>4
<1>4. CASE ~(Round(p) > Round(q))
  <2>1. Sent(p, q) = OwnSent(p) /\ Got(p, q) = OwnGot(p)
    BY <1>4 DEF Sent, Got
  <2>2. CASE pc[p] \in {"prepost", "prepostNext", "send", "sending", "recv"}
    <3>1. InLoop(p)
      BY <2>2 DEF InLoop
    <3>2. /\ pc[p] = "prepost" => Transmitter(p)
          /\ pc[p] = "prepostNext" => ~Transmitter(p)
      BY <1>1 DEF AtCall
    <3>3. /\ OwnSent(p) = IF pc[p] = "recv" /\ Transmitter(p) THEN j[p] + 1 ELSE j[p]
          /\ OwnGot(p) = IF pc[p] \in {"prepostNext", "send", "sending"} /\ ~Transmitter(p)
                         THEN j[p] + 1 ELSE j[p]
      BY <1>1, <2>2, <3>1 DEF OwnSent, OwnGot
    <3> QED BY <1>2, <2>1, <2>2, <3>2, <3>3
  <2>3. CASE pc[p] \notin {"prepost", "prepostNext", "send", "sending", "recv"}
    <3>1. OwnSent(p) = OwnGot(p) /\ OwnSent(p) \in Nat
      BY <1>1, <1>2, <2>3 DEF OwnSent, OwnGot, InLoop
    <3> QED BY <2>1, <2>3, <3>1
  <2> QED BY <2>2, <2>3
<1> QED BY <1>3, <1>4

\* So at most two messages of a pair are stamped and not checked, and one when one of
\* the two is to send.
LEMMA Pace ==
  ASSUME Inv, NEW p \in Proc, NEW q \in Proc, q = Pair(p), Mode # "stream"
  PROVE  /\ Unchecked(p, q) \in Nat /\ Unchecked(q, p) \in Nat
         /\ Unchecked(p, q) + Unchecked(q, p) <= 2
         /\ pc[p] = "send" => Unchecked(p, q) + Unchecked(q, p) <= 1
<1>1. Pair(q) = p /\ Incoming(p) /\ Incoming(q) /\ DriverInv /\ RoundInv /\ SendersSend
  BY PairFacts, InvFacts
<1>2. Unchecked(p, q) \in Nat /\ Unchecked(q, p) \in Nat
  BY <1>1 DEF Incoming, Coming
<1>3. /\ Sent(p, q) \in Nat /\ Got(p, q) \in Nat /\ Sent(q, p) \in Nat /\ Got(q, p) \in Nat
  BY <1>1, CountTypes
<1>4. PICK s \in {0, 1} : s = IF pc[p] = "sending" THEN 1 ELSE 0
  OBVIOUS
<1>5. PICK t \in {0, 1} : t = IF pc[q] = "sending" THEN 1 ELSE 0
  OBVIOUS
<1>6. /\ Sent(p, q) + s - Got(p, q) \in {-1, 0, 1}
      /\ pc[p] = "send" => Sent(p, q) + s - Got(p, q) <= 0
  BY <1>4, OneAhead
<1>7. Sent(q, p) + t - Got(q, p) \in {-1, 0, 1}
  BY <1>5, OneAhead
<1>8. Unchecked(p, q) = Sent(p, q) + s - Got(q, p) /\ Unchecked(q, p) = Sent(q, p) + t - Got(p, q)
  BY <1>4, <1>5 DEF Unchecked
<1> QED BY <1>2, <1>3, <1>6, <1>7, <1>8

\* MPI_Send starts: the message is stamped and on its way.
LEMMA SendDataStep ==
  ASSUME Aligned, Inv, DriverInv', NEW p \in Proc, SendData(p)
  PROVE  MessageInv'
<1>1. PICK q \in Proc : q = Pair(p) /\ q # p /\ Pair(q) = p
  BY PairFacts
<1>2. /\ DriverSend(p) /\ SetupBufferData(p) /\ pc[p] = "send" /\ pc'[p] = "sending"
      /\ UNCHANGED <<inside, colls, loopVars, s_ptr, r_ptr, chkTag, failures>>
      /\ UNCHANGED <<j, nrepeat>>
      /\ UNCHANGED <<nrepeats, rtag, posted, complete>>
  BY InvFacts DEF SendData, DriverSend, Goto, ControlTypeOK, loopVars
<1>3. InLoop(p) /\ InTrial(p) /\ InTrial(p)'
  BY <1>2 DEF InLoop, InTrial, TrialLabels, LoopLabels
<1>4. /\ DriverInv /\ RoundInv /\ SendersSend /\ BufferTypeOK /\ ModuleTypeOK
      /\ Tags(p) /\ Halves(p) /\ Expecting(p) /\ Expecting(q) /\ Incoming(p) /\ Incoming(q)
      /\ nrepeats[p] = nrepeat[p] /\ net[q] \in Seq(Message)
  BY <1>1, <1>2, InvFacts
<1>5. /\ Sends(p) /\ Receives(q) /\ j[p] \in Nat /\ nrepeat[p] \in Nat /\ j[p] < nrepeat[p]
      /\ chkTag[q] \in Tag /\ setTag[p] \in Tag /\ s_ptr[p] \in Half /\ r_ptr[p] \in Half
      /\ s_ptr[p] # r_ptr[p]
  <2>1. AtCall(p)
    BY InvFacts
  <2>2. Sends(p) /\ Receives(q)
    BY <1>1, <1>2, <2>1, PairFacts DEF AtCall
  <2> QED BY <1>1, <1>3, <1>4, <2>2
      DEF DriverInv, ControlTypeOK, RoundInv, Rounded, BufferTypeOK, Halves
<1>6. PICK tag \in Tag : tag = (setTag[p] + 1) % TagMod
  <2>1. setTag[p] \in Int
    BY <1>5, TagInt
  <2>2. PICK a \in Int : a = setTag[p] + 1
    BY <2>1
  <2>3. a % TagMod \in Tag
    BY Modulus
  <2> QED BY <2>2, <2>3
<1>7. setTag' = [setTag EXCEPT ![p] = tag] /\ buf' = [buf EXCEPT ![p][s_ptr[p]] = tag]
  BY <1>2, <1>6 DEF SetupBufferData
<1>8. /\ setTag'[p] = tag /\ buf'[p][s_ptr[p]] = tag /\ buf'[p][r_ptr[p]] = buf[p][r_ptr[p]]
      /\ \A x \in Proc : x # p => setTag'[x] = setTag[x] /\ buf'[x] = buf[x]
  BY <1>4, <1>5, <1>7 DEF BufferTypeOK
<1>9. OthersStay(p) /\ Round(p)' = Round(p) /\ nrepeat'[p] = nrepeat[p]
  BY <1>2, <1>4, DriverSendRounds DEF RoundStep
\* The counts.
<1>10. /\ OwnSent(p) = j[p] /\ OwnSent(p)' = j[p] /\ OwnGot(p)' = OwnGot(p)
       /\ Armed(p)' = Armed(p) /\ Stamped(p) = j[p] /\ Stamped(p)' = j[p] + 1
  <2>1. OwnSent(p) = j[p] /\ OwnSent(p)' = j[p] /\ OwnGot(p)' = OwnGot(p)
    BY <1>2, <1>3, <1>5 DEF OwnSent, OwnGot, InLoop, Sends, Receives, Transmitter
  <2>2. Armed(p)' = Armed(p)
    BY <1>2, <1>3, <2>1 DEF Armed, Receives, Transmitter
  <2>3. Stamped(p) = j[p] /\ Stamped(p)' = j[p] + 1
    BY <1>2, <1>5, <2>1 DEF Stamped
  <2> QED BY <2>1, <2>2, <2>3
<1>11. PICK u \in Nat : u = Unchecked(p, q)
  BY <1>1, <1>4 DEF Incoming, Coming
<1>12. /\ Unchecked(q, p)' = Unchecked(q, p) /\ Unchecked(p, q)' = u + 1
       /\ u = j[p] - Got(q, p) /\ Got(q, p) \in Nat
  <2>1. Got(q, p) \in Nat
    BY <1>1, <1>4, CountTypes
  <2>2. /\ Unchecked(q, p)' = Unchecked(q, p)
        /\ Unchecked(p, q) = j[p] + 0 - Got(q, p)
        /\ Unchecked(p, q)' = j[p] + 1 - Got(q, p)
    BY <1>1, <1>2, <1>3, <1>4, <1>9, <1>10, TrialMove
  <2> QED BY <1>5, <1>11, <2>1, <2>2
<1>13. OwnGot(q) + u = j[p]
  <2>1. ~(Round(q) > Round(p))
    <3>1. SUFFICES ASSUME Round(q) > Round(p) PROVE FALSE
      OBVIOUS
    <3>2. Got(q, p) = nrepeat[p]
      BY <1>5, <3>1 DEF Got
    <3> QED BY <1>5, <1>12, <3>2
  <2>2. Got(q, p) = OwnGot(q)
    BY <2>1 DEF Got
  <2> QED BY <1>5, <1>12, <2>2
\* The message.
<1>14. stag[p] = j[p] /\ rtag'[p] = rtag[p]
  BY <1>2, <1>4, <1>5, <1>10 DEF Tags, Wrapped
<1>15. PICK m \in Message : m = [tag |-> j[p], data |-> tag]
  BY <1>5 DEF Message
<1>16. /\ net' = [net EXCEPT ![q] = Append(@, m)]
       /\ stag' = [stag EXCEPT ![p] = (j[p] + 1) % nrepeat[p]]
  BY <1>1, <1>4, <1>8, <1>14, <1>15 DEF SendData
<1>17. /\ net'[q] = Append(net[q], m) /\ stag'[p] = (j[p] + 1) % nrepeat[p]
       /\ \A x \in Proc : (x # q => net'[x] = net[x]) /\ (x # p => stag'[x] = stag[x])
  BY <1>1, <1>4, <1>16 DEF ModuleTypeOK
<1>18. Elsewhere(p)
  BY <1>1, <1>2, <1>8, <1>17 DEF Elsewhere
<1>19. AtCall(p)' /\ Halves(p)'
  BY <1>2, <1>4, <1>5 DEF AtCall, Halves, Sends, Transmitter
<1>20. Tags(p)'
  <2>1. stag'[p] = IF j[p] + 1 = nrepeat[p] THEN 0 ELSE j[p] + 1
    <3>1. PICK c \in Nat, T \in Nat \ {0} : c = j[p] /\ T = nrepeat[p] /\ c < T
      BY <1>5
    <3>2. (c + 1) % T = IF c + 1 = T THEN 0 ELSE c + 1
      BY <3>1, WrapNext
    <3> QED BY <1>17, <3>1, <3>2
  <2> QED BY <1>2, <1>4, <1>10, <1>14, <2>1 DEF Tags, Wrapped
<1>21. Expecting(p)'
  BY <1>2, <1>4, <1>10 DEF Expecting
<1>22. Incoming(p)'
  <2>1. Paced /\ Burst => Unchecked(q, p) <= 1
    <3>1. SUFFICES ASSUME Mode # "stream" PROVE Unchecked(q, p) <= 1
      BY DEF Paced
    <3>2. /\ Unchecked(p, q) \in Nat /\ Unchecked(q, p) \in Nat
          /\ Unchecked(p, q) + Unchecked(q, p) <= 1
      BY <1>1, <1>2, <3>1, Pace
    <3> QED BY <3>2
  <2>2. PICK b2 : b2 = buf'[p]
    OBVIOUS
  <2>3. b2[r_ptr[p]] = buf[p][r_ptr[p]]
    BY <1>8, <2>2
  <2>4. Numbered(Armed(p), OwnGot(p))
    BY <1>4 DEF Expecting
  <2>5. Coming(Armed(p), OwnGot(p), Unchecked(q, p), complete[p], net[p], chkTag[p], setTag[q],
               buf[p], r_ptr[p], s_ptr[p])
    BY <1>1, <1>4 DEF Incoming
  <2>6. Coming(Armed(p), OwnGot(p), Unchecked(q, p), complete[p], net[p], chkTag[p], setTag[q],
               b2, r_ptr[p], s_ptr[p])
    BY <2>1, <2>3, <2>4, <2>5, SendBuffer
  <2> QED BY <1>1, <1>2, <1>8, <1>10, <1>12, <1>17, <2>2, <2>6 DEF Incoming
<1>23. Coming(Armed(q), OwnGot(q), Unchecked(p, q)', complete[q], net'[q], chkTag[q],
              setTag'[p], buf[q], r_ptr[q], s_ptr[q])
  <2>1. Numbered(Armed(q), OwnGot(q))
    BY <1>4 DEF Expecting
  <2>2. Coming(Armed(q), OwnGot(q), u, complete[q], net[q], chkTag[q], setTag[p],
               buf[q], r_ptr[q], s_ptr[q])
    BY <1>1, <1>4, <1>11 DEF Incoming
  <2>3. m.tag = OwnGot(q) + u /\ m.data = (setTag[p] + 1) % TagMod
    BY <1>6, <1>13, <1>15
  <2>4. Coming(Armed(q), OwnGot(q), u + 1, complete[q], Append(net[q], m), chkTag[q],
               (setTag[p] + 1) % TagMod, buf[q], r_ptr[q], s_ptr[q])
    BY <1>4, <1>5, <2>1, <2>2, <2>3, StampMail
  <2> QED BY <1>6, <1>8, <1>12, <1>17, <2>4
<1> QED BY <1>1, <1>9, <1>18, <1>19, <1>20, <1>21, <1>22, <1>23, PairStep DEF Own, Inv

\* Where the check of a message leaves the process, and its counts.
LEMMA RecvFacts ==
  ASSUME Aligned, Inv, DriverInv', NEW p \in Proc, DriverRecv(p)
  PROVE  /\ InTrial(p) /\ OwnGot(p) = j[p] /\ j[p] \in Nat /\ j[p] < nrepeat[p]
         /\ Armed(p) = IF Burst THEN j[p] .. nrepeat[p] - 1 ELSE {j[p]}
         /\ OwnGot(p)' = j[p] + 1 /\ OwnSent(p)' = OwnSent(p)
         /\ Armed(p)' = Armed(p) \ {j[p]}
         /\ AtCall(p)' /\ pc'[p] # "sending"
<1>1. /\ pc[p] = "recv" /\ Continue(p, AfterRecv(p)) /\ nrepeat' = nrepeat
  BY DEF DriverRecv
<1>2. InLoop(p) /\ InTrial(p)
  BY <1>1 DEF InLoop, InTrial, TrialLabels, LoopLabels
<1>3. /\ Receives(p) /\ j[p] \in Nat /\ nrepeat[p] \in Nat /\ j[p] < nrepeat[p]
      /\ nrepeat'[p] = nrepeat[p]
  BY <1>1, <1>2, InvFacts DEF AtCall, ControlTypeOK, RoundInv, Rounded
<1>4. /\ OwnGot(p) = j[p]
      /\ OwnSent(p) = IF ~Sends(p) THEN 0 ELSE IF Transmitter(p) THEN j[p] + 1 ELSE j[p]
      /\ Armed(p) = IF Burst THEN j[p] .. nrepeat[p] - 1 ELSE {j[p]}
  <2>1. /\ OwnGot(p) = j[p]
        /\ OwnSent(p) = IF ~Sends(p) THEN 0 ELSE IF Transmitter(p) THEN j[p] + 1 ELSE j[p]
    BY <1>1, <1>2, <1>3 DEF OwnSent, OwnGot
  <2> QED BY <1>1, <1>2, <1>3, <2>1 DEF Armed
<1>5. CASE AfterRecv(p) = "iterate"
  <2>1. /\ Transmitter(p) \/ ~Sends(p)
        /\ Transmitter(p) \/ Burst \/ ~(j[p] + 1 < nrepeat[p])
    BY <1>3, <1>5, NPmpiAssumption DEF AfterRecv, Sends
  <2>2. /\ OwnSent(p)' = IF Sends(p) THEN j[p] + 1 ELSE 0
        /\ OwnGot(p)' = IF Receives(p) THEN j[p] + 1 ELSE 0
        /\ Armed(p)' = IF ~Receives(p) THEN {}
                       ELSE IF Burst THEN j[p] + 1 .. nrepeat[p] - 1
                       ELSE IF ~Transmitter(p) /\ j[p] + 1 < nrepeat[p] THEN {j[p] + 1} ELSE {}
        /\ AtCall(p)' /\ pc'[p] # "sending"
    BY <1>1, <1>2, <1>5, IterateFacts
  <2>3. Armed(p)' = Armed(p) \ {j[p]}
    BY <1>3, <1>4, <2>1, <2>2
  <2> QED BY <1>2, <1>3, <1>4, <2>1, <2>2, <2>3
<1>6. CASE AfterRecv(p) = "prepostNext"
  <2>1. ~Transmitter(p) /\ ~Burst /\ j[p] + 1 < nrepeat[p]
    BY <1>3, <1>6 DEF AfterRecv
  <2>2. pc'[p] = "prepostNext" /\ j' = j
    BY <1>1, <1>6, InvFacts DEF Continue, Goto, ControlTypeOK
  <2>3. OwnGot(p)' = j[p] + 1 /\ OwnSent(p)' = OwnSent(p)
    BY <1>3, <1>4, <2>1, <2>2 DEF OwnGot, OwnSent, InLoop, Sends, Receives, Transmitter
  <2>4. AtCall(p)'
    BY <1>3, <2>1, <2>2 DEF AtCall, Transmitter
  <2>5. Armed(p)' = {}
    BY <2>1, <2>2 DEF Armed
  <2> QED BY <1>2, <1>3, <1>4, <2>1, <2>2, <2>3, <2>4, <2>5
<1>7. CASE AfterRecv(p) = "send"
  <2>1. ~Transmitter(p) /\ Mode # "stream" /\ (Burst \/ ~(j[p] + 1 < nrepeat[p]))
    BY <1>3, <1>7, NPmpiAssumption DEF AfterRecv
  <2>2. pc'[p] = "send" /\ j' = j
    BY <1>1, <1>7, InvFacts DEF Continue, Goto, ControlTypeOK
  <2>3. OwnGot(p)' = j[p] + 1 /\ OwnSent(p)' = OwnSent(p)
    BY <1>3, <1>4, <2>1, <2>2 DEF OwnGot, OwnSent, InLoop, Sends, Receives, Transmitter
  <2>4. AtCall(p)'
    BY <2>1, <2>2 DEF AtCall, Sends
  <2>5. InTrial(p)'
    BY <2>2 DEF InTrial, TrialLabels, LoopLabels
  <2>6. Armed(p)' = Armed(p) \ {j[p]}
    <3>1. CASE Burst
      <4>1. Armed(p)' = j[p] + 1 .. nrepeat[p] - 1
        BY <1>3, <2>3, <2>5, <3>1 DEF Armed, Receives, Transmitter
      <4> QED BY <1>3, <1>4, <3>1, <4>1
    <3>2. CASE ~Burst
      <4>1. Armed(p)' = {}
        BY <1>3, <2>1, <2>2, <2>3, <3>2 DEF Armed, Receives, Transmitter
      <4> QED BY <1>4, <3>2, <4>1
    <3> QED BY <3>1, <3>2
  <2> QED BY <1>2, <1>3, <1>4, <2>2, <2>3, <2>4, <2>6
<1>8. AfterRecv(p) \in {"iterate", "prepostNext", "send"}
  BY DEF AfterRecv
<1> QED BY <1>5, <1>6, <1>7, <1>8

\* MPI_Wait returns, and the message is checked.
LEMMA RecvDataStep ==
  ASSUME Aligned, Inv, DriverInv', NEW p \in Proc, RecvData(p)
  PROVE  MessageInv'
<1>1. PICK q \in Proc : q = Pair(p) /\ q # p /\ Pair(q) = p
  BY PairFacts
<1>2. PICK g : g = j[p]
  OBVIOUS
<1>3. /\ DriverRecv(p) /\ CheckBufferData(p) /\ AdvancePtrs(p) /\ pc[p] = "recv"
      /\ nrepeat' = nrepeat /\ UNCHANGED <<buf, setTag>>
      /\ UNCHANGED <<nrepeats, stag, posted, net>>
  BY DEF RecvData, DriverRecv
<1>4. /\ DriverInv /\ RoundInv /\ SendersSend /\ BufferTypeOK /\ ModuleTypeOK
      /\ Tags(p) /\ Halves(p) /\ Expecting(p) /\ Incoming(p) /\ Incoming(q)
      /\ nrepeats[p] = nrepeat[p] /\ posted[p] \in Seq(Receive) /\ net[p] \in Seq(Message)
      /\ chkTag[p] \in Tag /\ nrepeat[p] \in Nat
  BY <1>1, <1>3, InvFacts DEF ControlTypeOK
<1>5. /\ InTrial(p) /\ OwnGot(p) = g /\ g \in Nat /\ g < nrepeat[p]
      /\ Armed(p) = IF Burst THEN g .. nrepeat[p] - 1 ELSE {g}
      /\ OwnGot(p)' = g + 1 /\ OwnSent(p)' = OwnSent(p)
      /\ Armed(p)' = Armed(p) \ {g}
      /\ AtCall(p)' /\ pc'[p] # "sending"
  BY <1>2, <1>3, RecvFacts
<1>6. OthersStay(p) /\ Round(p)' = Round(p) /\ nrepeat'[p] = nrepeat[p]
  BY <1>3, <1>4, DriverRecvRounds DEF RoundStep
<1>7. g \in Armed(p) /\ (~Burst => Armed(p) = {g} /\ Armed(p)' = {})
  BY <1>4, <1>5
\* The receive waited for is that of message g.
<1>8. rtag[p] = Wrapped(p, g + (IF ~Burst THEN 1 ELSE 0))
  BY <1>4, <1>5, <1>7 DEF Tags
<1>9. Slot(rtag[p]) = Slot(g)
  BY <1>4, <1>5, <1>8 DEF Slot, Wrapped
<1>10. /\ Slot(g) \in complete[p]
       /\ complete' = [complete EXCEPT ![p] = @ \ {Slot(g)}]
       /\ rtag' = [rtag EXCEPT ![p] = IF Burst THEN (rtag[p] + 1) % nrepeat[p] ELSE rtag[p]]
  BY <1>4, <1>9 DEF RecvData
<1>11. /\ complete'[p] = complete[p] \ {Slot(g)}
       /\ rtag'[p] = IF Burst THEN (rtag[p] + 1) % nrepeat[p] ELSE rtag[p]
       /\ \A x \in Proc : x # p => complete'[x] = complete[x] /\ rtag'[x] = rtag[x]
  BY <1>4, <1>10 DEF ModuleTypeOK
<1>12. PICK tag : tag = (chkTag[p] + 1) % TagMod
  OBVIOUS
<1>13. PICK u : u = Unchecked(q, p)
  OBVIOUS
<1>14. /\ Numbered(Armed(p) \ {g}, g + 1)
       /\ Posting(Armed(p) \ {g}, g + 1, posted[p], complete[p] \ {Slot(g)}, s_ptr[p], r_ptr[p])
       /\ Coming(Armed(p) \ {g}, g + 1, u - 1, complete[p] \ {Slot(g)}, net[p], tag, setTag[q],
                 buf[p], s_ptr[p], r_ptr[p])
       /\ Paced => buf[p][r_ptr[p]] = tag
       /\ tag \in Tag
  <2>1. /\ Numbered(Armed(p), g) /\ Posting(Armed(p), g, posted[p], complete[p], r_ptr[p], s_ptr[p])
        /\ Coming(Armed(p), g, u, complete[p], net[p], chkTag[p], setTag[q], buf[p],
                  r_ptr[p], s_ptr[p])
    BY <1>1, <1>4, <1>5, <1>13 DEF Expecting, Incoming
  <2>2. /\ g \in Armed(p) /\ Slot(g) \in complete[p] /\ chkTag[p] \in Tag
        /\ posted[p] \in Seq(Receive) /\ net[p] \in Seq(Message)
    BY <1>4, <1>7, <1>10
  <2>3. LET left == Armed(p) \ {g}
            co2  == complete[p] \ {Slot(g)}
            t    == (chkTag[p] + 1) % TagMod
        IN  /\ Numbered(left, g + 1)
            /\ Posting(left, g + 1, posted[p], co2, s_ptr[p], r_ptr[p])
            /\ Coming(left, g + 1, u - 1, co2, net[p], t, setTag[q], buf[p], s_ptr[p], r_ptr[p])
            /\ Paced => buf[p][r_ptr[p]] = t
            /\ t \in Tag
    BY <2>1, <2>2, CheckMail
  <2> QED BY <1>12, <2>3
\* The driver's half.
<1>15. /\ chkTag' = [chkTag EXCEPT ![p] = tag]
       /\ failures' = [failures EXCEPT ![p] = IF buf[p][r_ptr[p]] # tag THEN @ + 1 ELSE @]
       /\ s_ptr' = [s_ptr EXCEPT ![p] = r_ptr[p]] /\ r_ptr' = [r_ptr EXCEPT ![p] = s_ptr[p]]
  BY <1>3, <1>12 DEF CheckBufferData, AdvancePtrs
<1>16. /\ chkTag'[p] = tag /\ s_ptr'[p] = r_ptr[p] /\ r_ptr'[p] = s_ptr[p]
       /\ buf[p][r_ptr[p]] = tag => failures'[p] = failures[p]
       /\ \A x \in Proc : x # p => /\ chkTag'[x] = chkTag[x] /\ s_ptr'[x] = s_ptr[x]
                                   /\ r_ptr'[x] = r_ptr[x] /\ failures'[x] = failures[x]
  BY <1>4, <1>15 DEF BufferTypeOK
<1>17. Elsewhere(p)
  BY <1>3, <1>11, <1>16 DEF Elsewhere
<1>18. Halves(p)'
  BY <1>4, <1>14, <1>16 DEF Halves, Paced
<1>19. Unchecked(q, p)' = u - 1 /\ Unchecked(p, q)' = Unchecked(p, q)
  <2>1. Sent(q, p) \in Int
    BY <1>1, <1>4, CountTypes
  <2>2. /\ Unchecked(p, q)' = Unchecked(p, q)
        /\ Unchecked(q, p) = Sent(q, p) + (IF pc[q] = "sending" THEN 1 ELSE 0) - g
        /\ Unchecked(q, p)' = Sent(q, p) + (IF pc[q] = "sending" THEN 1 ELSE 0) - (g + 1)
    BY <1>1, <1>3, <1>4, <1>5, <1>6, TrialMove
  <2> QED BY <1>5, <1>13, <2>1, <2>2
<1>20. Tags(p)'
  <2>1. rtag'[p] = IF g + 1 = nrepeat[p] THEN 0 ELSE g + 1
    <3>1. CASE Burst
      <4>1. PICK c \in Nat, T \in Nat \ {0} : c = g /\ T = nrepeat[p] /\ c < T
        BY <1>4, <1>5
      <4>2. (c + 1) % T = IF c + 1 = T THEN 0 ELSE c + 1
        BY <4>1, WrapNext
      <4>3. rtag[p] = g
        BY <1>5, <1>8, <3>1 DEF Wrapped
      <4> QED BY <1>11, <3>1, <4>1, <4>2, <4>3
    <3>2. CASE ~Burst
      BY <1>8, <1>11, <3>2 DEF Wrapped
    <3> QED BY <3>1, <3>2
  <2>2. Stamped(p) = OwnSent(p) + 0 /\ Stamped(p)' = OwnSent(p) + 0
    BY <1>3, <1>5 DEF Stamped
  <2> QED BY <1>3, <1>4, <1>5, <1>6, <1>7, <2>1, <2>2 DEF Tags, Wrapped
<1>21. Expecting(p)'
  BY <1>3, <1>5, <1>11, <1>14, <1>16 DEF Expecting
<1>22. Incoming(p)'
  BY <1>1, <1>3, <1>5, <1>11, <1>14, <1>16, <1>19 DEF Incoming
<1>23. Coming(Armed(q), OwnGot(q), Unchecked(p, q)', complete[q], net'[q], chkTag[q],
              setTag'[p], buf[q], r_ptr[q], s_ptr[q])
  BY <1>1, <1>3, <1>4, <1>19 DEF Incoming
<1> QED BY <1>1, <1>5, <1>6, <1>17, <1>18, <1>20, <1>21, <1>22, <1>23, PairStep DEF Own, Inv

\* MPI puts the message of a posted receive in its half.
LEMMA DeliverStep ==
  ASSUME Inv, DriverInv', NEW p \in Proc, Deliver(p)
  PROVE  MessageInv'
<1>1. PICK q \in Proc : q = Pair(p) /\ q # p /\ Pair(q) = p
  BY PairFacts
<1>2. PICK i \in DOMAIN posted[p], k \in DOMAIN net[p] :
        /\ posted[p][i].tag = net[p][k].tag
        /\ buf'      = [buf EXCEPT ![p][posted[p][i].half] = net[p][k].data]
        /\ posted'   = [posted EXCEPT ![p] = RemoveAt(@, i)]
        /\ complete' = [complete EXCEPT ![p] = @ \cup {posted[p][i].slot}]
        /\ net'      = [net EXCEPT ![p] = RemoveAt(@, k)]
        /\ UNCHANGED <<pc, inside, colls, loopVars, s_ptr, r_ptr, setTag, chkTag,
                       failures, nrepeats, stag, rtag>>
  BY DEF Deliver, Matches
<1>3. /\ DriverInv /\ RoundInv /\ BufferTypeOK /\ ModuleTypeOK /\ AtCall(p)
      /\ Tags(p) /\ Halves(p) /\ Expecting(p) /\ Incoming(p) /\ Incoming(q)
      /\ posted[p] \in Seq(Receive) /\ net[p] \in Seq(Message)
  BY <1>1, InvFacts
<1>4. PICK x \in Receive : x = posted[p][i]
  BY <1>2, <1>3
<1>5. PICK m \in Message : m = net[p][k]
  BY <1>2, <1>3
<1>6. /\ buf'[p] = [buf[p] EXCEPT ![x.half] = m.data] /\ posted'[p] = RemoveAt(posted[p], i)
      /\ complete'[p] = complete[p] \cup {x.slot} /\ net'[p] = RemoveAt(net[p], k)
      /\ \A y \in Proc : y # p => /\ buf'[y] = buf[y] /\ posted'[y] = posted[y]
                                  /\ complete'[y] = complete[y] /\ net'[y] = net[y]
  BY <1>2, <1>3, <1>4, <1>5 DEF BufferTypeOK, ModuleTypeOK
<1>7. RoundStep(p) /\ Unchecked(p, q)' = Unchecked(p, q) /\ Unchecked(q, p)' = Unchecked(q, p)
  BY <1>1, <1>2, StillCounts
<1>8. OthersStay(p) /\ Elsewhere(p)
  BY <1>2, <1>6, <1>7 DEF RoundStep, Elsewhere
<1>9. /\ OwnSent(p)' = OwnSent(p) /\ OwnGot(p)' = OwnGot(p) /\ Armed(p)' = Armed(p)
      /\ Stamped(p)' = Stamped(p)
  BY <1>2 DEF OwnSent, OwnGot, Armed, Stamped, InLoop, InTrial, Sends, Receives, Transmitter, loopVars
<1>10. AtCall(p)' /\ Halves(p)'
  BY <1>2, <1>3 DEF AtCall, Halves, Sends, Receives, Transmitter, loopVars
<1>11. Tags(p)'
  BY <1>2, <1>3, <1>9 DEF Tags, Wrapped, loopVars
<1>12. PICK u : u = Unchecked(q, p)
  OBVIOUS
<1>13. Paced /\ Burst => u <= 2
  <2>1. SUFFICES ASSUME Mode # "stream" PROVE u <= 2
    BY DEF Paced
  <2>2. /\ Unchecked(p, q) \in Nat /\ Unchecked(q, p) \in Nat
        /\ Unchecked(p, q) + Unchecked(q, p) <= 2
    BY <1>1, <2>1, Pace
  <2> QED BY <1>12, <2>2
<1>14. /\ Posting(Armed(p), OwnGot(p), RemoveAt(posted[p], i), complete[p] \cup {x.slot},
                  r_ptr[p], s_ptr[p])
       /\ Coming(Armed(p), OwnGot(p), u, complete[p] \cup {x.slot}, RemoveAt(net[p], k),
                 chkTag[p], setTag[q], [buf[p] EXCEPT ![x.half] = m.data], r_ptr[p], s_ptr[p])
  <2>1. /\ Numbered(Armed(p), OwnGot(p))
        /\ Posting(Armed(p), OwnGot(p), posted[p], complete[p], r_ptr[p], s_ptr[p])
        /\ Coming(Armed(p), OwnGot(p), u, complete[p], net[p], chkTag[p], setTag[q], buf[p],
                  r_ptr[p], s_ptr[p])
    BY <1>1, <1>3, <1>12 DEF Expecting, Incoming
  <2>2. /\ buf[p] \in [Half -> Tag \cup {Blank}] /\ r_ptr[p] \in Half /\ s_ptr[p] \in Half
        /\ r_ptr[p] # s_ptr[p]
    BY <1>3 DEF BufferTypeOK, Halves
  <2>3. posted[p][i].tag = net[p][k].tag
    BY <1>2
  <2>4. LET co2 == complete[p] \cup {posted[p][i].slot}
            b2  == [buf[p] EXCEPT ![posted[p][i].half] = net[p][k].data]
        IN  /\ Posting(Armed(p), OwnGot(p), RemoveAt(posted[p], i), co2, r_ptr[p], s_ptr[p])
            /\ Coming(Armed(p), OwnGot(p), u, co2, RemoveAt(net[p], k), chkTag[p], setTag[q], b2,
                      r_ptr[p], s_ptr[p])
    BY <1>3, <1>13, <2>1, <2>2, <2>3, DeliverMail
  <2> QED BY <1>4, <1>5, <2>4
<1>15. Expecting(p)'
  BY <1>2, <1>3, <1>6, <1>9, <1>14 DEF Expecting
<1>16. Incoming(p)'
  BY <1>1, <1>2, <1>6, <1>7, <1>9, <1>12, <1>14 DEF Incoming
<1>17. Coming(Armed(q), OwnGot(q), Unchecked(p, q)', complete[q], net'[q], chkTag[q],
              setTag'[p], buf[q], r_ptr[q], s_ptr[q])
  BY <1>1, <1>2, <1>3, <1>6, <1>7 DEF Incoming
<1> QED BY <1>1, <1>8, <1>10, <1>11, <1>15, <1>16, <1>17, PairStep DEF Own, Inv

-----------------------------------------------------------------------------
(***************************************************************************)
(* The invariant.                                                          *)
(***************************************************************************)

LEMMA InitMessages == Init => MessageInv
<1> SUFFICES ASSUME Init, NEW p \in Proc PROVE Own(p) /\ Incoming(p)
  BY DEF MessageInv
<1>1. PICK q \in Proc : q = Pair(p)
  BY PairFacts
<1>2. \A x \in Proc : /\ pc[x] = "nrepeat" /\ nrepeat[x] = 0 /\ n[x] = 1 /\ posted[x] = << >>
                      /\ complete[x] = {} /\ net[x] = << >> /\ setTag[x] = 0 /\ chkTag[x] = 0
                      /\ stag[x] = 0 /\ rtag[x] = 0 /\ s_ptr[x] = 0 /\ r_ptr[x] = 1
                      /\ failures[x] = 0
  BY DEF Init, DriverInit
<1>3. \A x \in Proc : OwnSent(x) = 0 /\ OwnGot(x) = 0 /\ ~InTrial(x)
  BY <1>2 DEF OwnSent, OwnGot, InLoop, InTrial, TrialLabels, LoopLabels
<1>4. ~(Round(p) > Round(q)) /\ ~(Round(q) > Round(p))
  BY <1>1, <1>2, NetPIPEAssumption DEF Round
<1>5. Unchecked(q, p) = 0
  <2>1. Sent(q, p) = 0 /\ Got(p, q) = 0
    BY <1>1, <1>3, <1>4 DEF Sent, Got
  <2> QED BY <1>1, <1>2, <2>1 DEF Unchecked
<1>6. Armed(p) = {}
  BY <1>2, <1>3, NoneArmed
<1>7. AtCall(p) /\ Tags(p) /\ Halves(p)
  BY <1>2, <1>3, <1>6 DEF AtCall, Tags, Wrapped, Stamped, Halves
<1>8. Expecting(p)
  BY <1>2, <1>3, <1>6 DEF Expecting, Numbered, Posting
<1>9. Incoming(p)
  <2>1. (0 + 0) % TagMod = 0
    <3>1. TagMod \in Nat \ {0} /\ 0 \in 0 .. TagMod - 1
      BY NetPIPEAssumption
    <3> QED BY <3>1, SmallTag
  <2> QED BY <1>1, <1>2, <1>3, <1>5, <1>6, <2>1 DEF Incoming, Coming
<1> QED BY <1>7, <1>8, <1>9 DEF Own

LEMMA StutterMessages ==
  ASSUME Inv, UNCHANGED vars
  PROVE  MessageInv'
<1>1. PICK p \in Proc : p = 0
  BY NetPIPEAssumption DEF Proc, NProcs
<1>2. PICK q : q = Pair(p)
  OBVIOUS
<1>3. q \in Proc
  BY <1>2, PairFacts
<1>4. UNCHANGED <<pc, inside, colls, loopVars>> /\ UNCHANGED mpiVars /\ UNCHANGED bufVars
  BY DEF vars, driverVars
<1>5. RoundStep(p) /\ Unchecked(p, q)' = Unchecked(p, q) /\ Unchecked(q, p)' = Unchecked(q, p)
  BY <1>3, <1>4, StillCounts
<1>6. OwnGot(p)' = OwnGot(p) /\ Armed(p)' = Armed(p) /\ Stamped(p)' = Stamped(p)
  BY <1>4 DEF OwnSent, OwnGot, Armed, Stamped, InLoop, InTrial, Sends, Receives, Transmitter, loopVars
<1>7. /\ Elsewhere(p) /\ UNCHANGED <<posted, complete, net, setTag, chkTag>>
      /\ buf'[p] = buf[p] /\ s_ptr'[p] = s_ptr[p] /\ r_ptr'[p] = r_ptr[p]
      /\ Halves(p) => Halves(p)'
      /\ stag'[p] = stag[p] /\ rtag'[p] = rtag[p] /\ nrepeats'[p] = nrepeats[p]
  BY <1>4, StillElsewhere
<1>8. AtCall(p) /\ Tags(p) /\ Halves(p)
  BY InvFacts
<1>9. AtCall(p)' /\ Tags(p)' /\ Halves(p)'
  BY <1>4, <1>6, <1>7, <1>8
     DEF AtCall, Tags, Wrapped, Sends, Receives, Transmitter, loopVars
<1> QED BY <1>2, <1>5, <1>6, <1>7, <1>9, QuietStep DEF RoundStep

LEMMA NextMessages ==
  ASSUME Aligned, Inv, DriverInv', [Next]_vars
  PROVE  MessageInv'
<1>1. ASSUME NEW p \in Proc, Step(p) PROVE MessageInv'
  <2>1. CASE Enter(p)
    BY <2>1, EnterStep
  <2>2. CASE BroadcastNrepeat(p)
    BY <2>2, BroadcastNrepeatStep
  <2>3. CASE BroadcastFinished(p)
    BY <2>3, BroadcastFinishedStep
  <2>4. CASE Sync(p)
    BY <2>4, SyncStep, EndsyncStep DEF Sync
  <2>5. CASE Gather(p)
    BY <2>5, TimesStep, GatherStep DEF Gather
  <2>6. CASE Reset(p)
    BY <2>6, ResetStep
  <2>7. CASE Preposts(p)
    BY <2>7, PrepostRecvStep, PrepostBurstStep DEF Preposts
  <2>8. CASE SendData(p)
    BY <2>8, SendDataStep
  <2>9. CASE SendReturns(p)
    BY <2>9, SendReturnsStep
  <2>10. CASE RecvData(p)
    BY <2>10, RecvDataStep
  <2> QED BY <1>1, <2>1, <2>2, <2>3, <2>4, <2>5, <2>6, <2>7, <2>8, <2>9, <2>10 DEF Step
<1>2. ASSUME NEW p \in Proc, Deliver(p) PROVE MessageInv'
  BY <1>2, DeliverStep
<1>3. CASE UNCHANGED vars
  BY <1>3, StutterMessages
<1> QED BY <1>1, <1>2, <1>3 DEF Next, Terminated

\* No step takes a process past a round that another has not begun.
LEMMA NextRounds ==
  ASSUME Aligned, DriverInv, DriverInv', RoundInv, [Next]_vars
  PROVE  RoundInv'
<1>1. ASSUME NEW p \in Proc, Step(p) PROVE RoundInv'
  <2>1. CASE Enter(p)
    BY <2>1, EnterRounds DEF Enter
  <2>2. CASE BroadcastNrepeat(p) \/ BroadcastFinished(p)
    BY <2>2, LeaveNrepeatRounds, LeaveFinishRounds DEF BroadcastNrepeat, BroadcastFinished
  <2>3. CASE Sync(p)
    BY <2>3, LeaveSyncRounds, LeaveEndsyncRounds DEF Sync
  <2>4. CASE Gather(p)
    BY <2>4, LeaveTimesRounds, LeaveGatherRounds DEF Gather
  <2>5. CASE Reset(p)
    BY <2>5, DriverResetRounds DEF Reset
  <2>6. CASE PrepostRecv(p) \/ PrepostBurst(p)
    BY <2>6, DriverPrepostRounds, DriverBurstRounds DEF PrepostRecv, PrepostBurst
  <2>7. CASE SendData(p) \/ SendReturns(p)
    BY <2>7, DriverSendRounds, DriverSentRounds DEF SendData, SendReturns
  <2>8. CASE RecvData(p)
    BY <2>8, DriverRecvRounds DEF RecvData
  <2> QED BY <1>1, <2>1, <2>2, <2>3, <2>4, <2>5, <2>6, <2>7, <2>8 DEF Step, Preposts
<1>2. ASSUME NEW p \in Proc, Deliver(p) PROVE RoundInv'
  <2>1. UNCHANGED <<pc, inside, colls, loopVars>>
    BY <1>2 DEF Deliver
  <2> QED BY <2>1, StutterRounds
<1>3. CASE UNCHANGED vars
  BY <1>3, StutterRounds DEF vars, driverVars
<1> QED BY <1>1, <1>2, <1>3 DEF Next, Terminated

\* mpi.c keeps the invariant of its messages, for every value of the constants.
THEOREM MpiInvariance ==
  ASSUME Aligned
  PROVE  Spec => []Inv
<1>1. Init => Inv
  BY InitMpiInv, InitRounds, InitMessages DEF Init, Inv
<1>2. Inv /\ [Next]_vars => Inv'
  <2> SUFFICES ASSUME Inv, [Next]_vars PROVE Inv'
    OBVIOUS
  <2>1. MpiInv /\ DriverInv /\ RoundInv
    BY DEF Inv, MpiInv
  <2>2. MpiInv'
    BY <2>1, NextMpiInv
  <2>3. RoundInv' /\ MessageInv'
    BY <2>1, <2>2, NextRounds, NextMessages DEF MpiInv
  <2> QED BY <2>2, <2>3 DEF Inv
<1> QED BY <1>1, <1>2, PTL DEF Spec

-----------------------------------------------------------------------------
(***************************************************************************)
(* What follows from it.                                                   *)
(***************************************************************************)

\* Every message p checks carries the tag its pair gave it (netpipe.c:832-883, 24-33),
\* unless --stream is run with --burst.
THEOREM MpiIntegrity ==
  ASSUME Aligned, Paced
  PROVE  Spec => []Integrity
<1>1. Inv => Integrity
  <2> SUFFICES ASSUME Inv, NEW p \in Proc PROVE failures[p] = 0
    BY DEF Integrity
  <2> QED BY InvFacts DEF Halves
<1> QED BY <1>1, MpiInvariance, PTL

\* The request that MPI_Wait is called on is that of the next message.
LEMMA WaitsForNext ==
  ASSUME Inv, NEW p \in Proc, pc[p] = "recv"
  PROVE  OwnGot(p) \in Armed(p) /\ Slot(rtag[p]) = Slot(OwnGot(p))
<1>1. InLoop(p) /\ InTrial(p)
  BY DEF InLoop, InTrial, TrialLabels, LoopLabels
<1>2. /\ Receives(p) /\ Tags(p) /\ j[p] \in Nat /\ nrepeat[p] \in Nat /\ j[p] < nrepeat[p]
  BY <1>1, InvFacts DEF AtCall, ControlTypeOK, RoundInv, Rounded
<1>3. OwnGot(p) = j[p]
  BY <1>1, <1>2 DEF OwnGot
<1>4. Armed(p) = IF Burst THEN j[p] .. nrepeat[p] - 1 ELSE {j[p]}
  BY <1>1, <1>2, <1>3 DEF Armed
<1>5. OwnGot(p) \in Armed(p)
  BY <1>2, <1>3, <1>4
<1>6. rtag[p] = Wrapped(p, j[p] + (IF ~Burst THEN 1 ELSE 0))
  BY <1>2, <1>3, <1>5 DEF Tags
<1> QED BY <1>2, <1>3, <1>5, <1>6 DEF Slot, Wrapped

\* A slot has one receive.
LEMMA OneReceive ==
  ASSUME Inv, NEW p \in Proc, NEW i \in DOMAIN posted[p], NEW i2 \in DOMAIN posted[p],
         posted[p][i].slot = posted[p][i2].slot
  PROVE  i = i2
<1>1. /\ Numbered(Armed(p), OwnGot(p)) /\ posted[p] \in Seq(Receive)
      /\ Posting(Armed(p), OwnGot(p), posted[p], complete[p], r_ptr[p], s_ptr[p])
  BY InvFacts DEF Expecting
<1>2. /\ posted[p][i].tag \in Armed(p) /\ posted[p][i].slot = Slot(posted[p][i].tag)
      /\ posted[p][i2].tag \in Armed(p) /\ posted[p][i2].slot = Slot(posted[p][i2].tag)
  BY <1>1 DEF Posting
<1>3. posted[p][i].tag = posted[p][i2].tag
  BY <1>1, <1>2 DEF Slot, Numbered
<1>4. i \in Nat /\ i2 \in Nat /\ posted[p][i].tag \in Nat
  BY <1>1, <1>2 DEF Numbered
<1>5. \A a, b \in DOMAIN posted[p] : a < b => posted[p][a].tag < posted[p][b].tag
  BY <1>1 DEF Posting
<1>6. ~(i < i2) /\ ~(i2 < i)
  BY <1>3, <1>4, <1>5
<1> QED BY <1>4, <1>6

\* MPI_Wait finds a receive posted in the slot of its request, and no MPI_Irecv takes a
\* slot in use (mpi.c:188-219), in every mode and for any number of processes.
THEOREM MpiRequestsLive ==
  ASSUME Aligned
  PROVE  Spec => []RequestsLive
<1>1. Inv => RequestsLive
  <2> SUFFICES ASSUME Inv PROVE RequestsLive
    OBVIOUS
  <2>1. ASSUME NEW p \in Proc, pc[p] = "recv" PROVE Live(p, Slot(rtag[p]))
    <3>1. OwnGot(p) \in Armed(p) /\ Slot(rtag[p]) = Slot(OwnGot(p))
      BY <2>1, WaitsForNext
    <3>2. \/ Slot(OwnGot(p)) \in complete[p]
          \/ \E i \in DOMAIN posted[p] : posted[p][i].tag = OwnGot(p)
      BY <3>1, InvFacts DEF Expecting, Posting
    <3>3. \A i \in DOMAIN posted[p] : posted[p][i].slot = Slot(posted[p][i].tag)
      BY InvFacts DEF Expecting, Posting
    <3> QED BY <3>1, <3>2, <3>3 DEF Live
  <2>2. ASSUME NEW p \in Proc, NEW i \in DOMAIN posted[p]
        PROVE  posted[p][i].slot \notin complete[p]
    BY InvFacts DEF Expecting, Posting
  <2> QED BY <2>1, <2>2, OneReceive DEF RequestsLive
<1> QED BY <1>1, MpiInvariance, PTL

\* The messages to a process not in its trial have all been taken and checked.
LEMMA NoneForIdle ==
  ASSUME Inv, NEW p \in Proc, ~Committed(p)
  PROVE  net[p] = << >>
<1>1. PICK q \in Proc : q = Pair(p) /\ q # p /\ Pair(q) = p /\ (Sends(q) <=> Receives(p))
  BY PairFacts
<1>2. /\ DriverInv /\ RoundInv /\ SendersSend /\ Incoming(p) /\ Expecting(p)
      /\ net[p] \in Seq(Message)
  BY InvFacts
<1>3. ~InTrial(p)
  BY DEF Committed
<1>4. OwnGot(p) = 0
  BY <1>2, <1>3, OwnFacts
<1>5. Round(p) \in Nat /\ Round(q) \in Nat
  BY <1>2, RoundType DEF DriverInv
<1>6. /\ OwnSent(q) \in Nat /\ nrepeat[q] \in Nat
      /\ OwnSent(q) + (IF pc[q] = "sending" THEN 1 ELSE 0) <= nrepeat[q]
      /\ ~Sends(q) => OwnSent(q) = 0
      /\ ~InTrial(q) => OwnSent(q) = 0 /\ pc[q] # "sending"
      /\ pc[q] = "sending" => Sends(q)
  BY <1>2, OwnFacts
<1>7. ~(Round(q) > Round(p))
  BY <1>2 DEF RoundInv
<1>8. Sent(q, p) = OwnSent(q)
  BY <1>7 DEF Sent
<1>9. Unchecked(q, p) <= 0
  <2>1. CASE Round(p) > Round(q)
    <3>1. Got(p, q) = IF Sends(q) THEN nrepeat[q] ELSE 0
      BY <1>1, <2>1 DEF Got
    <3>2. Unchecked(q, p) = OwnSent(q) + (IF pc[q] = "sending" THEN 1 ELSE 0)
                            - (IF Sends(q) THEN nrepeat[q] ELSE 0)
      BY <1>8, <3>1 DEF Unchecked
    <3> QED BY <1>6, <3>2
  <2>2. CASE Round(p) = Round(q)
    <3>1. ~InTrial(q)
      BY <1>2, <2>2, TrialIsLast
    <3>2. Got(p, q) = 0
      BY <1>4, <1>5, <2>2 DEF Got
    <3> QED BY <1>6, <1>8, <3>1, <3>2 DEF Unchecked
  <2> QED BY <1>5, <1>7, <2>1, <2>2
<1>10. Unchecked(Pair(p), p) = 0
  <2>1. Unchecked(q, p) \in Nat
    BY <1>1, <1>2 DEF Incoming, Coming
  <2> QED BY <1>1, <1>9, <2>1
<1>11. ~ \E k \in DOMAIN net[p] : TRUE
  <2>1. \A k \in DOMAIN net[p] : net[p][k].tag \in OwnGot(p) .. OwnGot(p) + 0 - 1
    BY <1>2, <1>10 DEF Incoming, Coming
  <2> QED BY <1>4, <2>1
<1> QED BY <1>2, <1>11, NoElement

\* Buffers are freed (netpipe.c:632) with no receive posted and no message on its way.
THEOREM MpiQuiescentAtFree ==
  ASSUME Aligned
  PROVE  Spec => []QuiescentAtFree
<1>1. Inv => QuiescentAtFree
  <2> SUFFICES ASSUME Inv, NEW p \in Proc, pc[p] = "gather"
               PROVE  posted[p] = << >> /\ complete[p] = {} /\ net[p] = << >>
    BY DEF QuiescentAtFree
  <2>1. ~InTrial(p) /\ ~Committed(p) /\ pc[p] # "sync"
    BY DEF InTrial, Committed, TrialLabels, LoopLabels
  <2> QED BY <2>1, NoneArmed, NothingPosted, NoneForIdle
<1> QED BY <1>1, MpiInvariance, PTL

\* A message arrives in the half the process is sending from only when the message it
\* sends has been taken (netpipe.c:32-33, 447, 467, 486-494).
THEOREM MpiSendBufferStable ==
  ASSUME Aligned
  PROVE  Spec => []SendBufferStable
<1>1. Inv => SendBufferStable
  <2> SUFFICES ASSUME Inv, NEW p \in Proc, pc[p] = "sending",
                      NEW l \in DOMAIN net[Pair(p)],
                      NEW i \in DOMAIN posted[p], NEW k \in DOMAIN net[p], Matches(p, i, k),
                      posted[p][i].half = s_ptr[p]
               PROVE  FALSE
    BY DEF SendBufferStable
  <2>1. PICK q \in Proc : q = Pair(p) /\ Pair(q) = p
    BY PairFacts
  <2>2. /\ Numbered(Armed(p), OwnGot(p)) /\ s_ptr[p] # r_ptr[p]
        /\ Posting(Armed(p), OwnGot(p), posted[p], complete[p], r_ptr[p], s_ptr[p])
        /\ Coming(Armed(p), OwnGot(p), Unchecked(q, p), complete[p], net[p],
                  chkTag[p], setTag[q], buf[p], r_ptr[p], s_ptr[p])
        /\ net[q] \in Seq(Message)
    BY <2>1, InvFacts DEF Expecting, Halves, Incoming
  <2>3. PICK t : t = posted[p][i].tag
    OBVIOUS
  <2>4. t \in Armed(p) /\ HalfFor(OwnGot(p), t, r_ptr[p], s_ptr[p]) = s_ptr[p]
    BY <2>2, <2>3 DEF Posting
  <2>5. t \in Nat /\ t >= OwnGot(p) /\ OwnGot(p) \in Nat
    BY <2>2, <2>4 DEF Numbered
  <2>6. t # OwnGot(p)
    BY <2>2, <2>4, <2>5, HalfFacts
  <2>7. net[p][k].tag = t
    BY <2>3 DEF Matches
  <2>8. t \in OwnGot(p) .. OwnGot(p) + Unchecked(q, p) - 1
    BY <2>2, <2>7 DEF Coming
  <2>9. Mode # "stream"
    <3>1. Receives(p) /\ Sends(p)
      BY <2>4, InvFacts DEF Armed, AtCall
    <3> QED BY <3>1 DEF Receives, Sends
  <2>10. /\ Unchecked(p, q) \in Nat /\ Unchecked(q, p) \in Nat
         /\ Unchecked(p, q) + Unchecked(q, p) <= 2
    BY <2>1, <2>9, Pace
  <2>11. Unchecked(p, q) = 0
    BY <2>5, <2>6, <2>8, <2>10
  <2>12. Expecting(q) /\ Incoming(q) /\ posted[q] \in Seq(Receive)
    BY InvFacts
  <2>13. net[q] = << >>
    BY <2>1, <2>2, <2>11, <2>12, Idle DEF Expecting, Incoming
  <2> QED BY <2>1, <2>13
<1> QED BY <1>1, MpiInvariance, PTL

\* Process 0 begins no test before the others have finished the one before.
LEMMA NextRoot ==
  ASSUME Aligned, DriverInv, DriverInv', RoundInv, RootWaits, [Next]_vars
  PROVE  RootWaits'
<1>1. ASSUME NEW p \in Proc, Step(p) PROVE RootWaits'
  <2>1. CASE Enter(p)
    BY <2>1, EnterRounds, EnterRoot DEF Enter, RoundStep
  <2>2. CASE BroadcastNrepeat(p)
    BY <2>2, LeaveNrepeatRounds, LeaveTrialRoot DEF BroadcastNrepeat, RoundStep
  <2>3. CASE BroadcastFinished(p)
    BY <2>3, LeaveFinishRounds, TestEndRoot DEF BroadcastFinished, RoundStep
  <2>4. CASE Sync(p)
    BY <2>4, LeaveSyncRounds, LeaveEndsyncRounds, LeaveTrialRoot DEF Sync, RoundStep
  <2>5. CASE Gather(p)
    BY <2>5, LeaveTimesRounds, LeaveGatherRounds, LeaveTimesRoot, TestEndRoot
       DEF Gather, RoundStep
  <2>6. CASE Reset(p)
    BY <2>6, ResetRound, LeaveTrialRoot DEF Reset
  <2>7. CASE PrepostRecv(p)
    <3>1. /\ DriverPrepost(p) /\ Continue(p, AfterPrepost(p)) /\ UNCHANGED n
          /\ pc[p] \in RoundLabels
      BY <2>7 DEF PrepostRecv, DriverPrepost, RoundLabels, TrialLabels, LoopLabels
    <3>2. AfterPrepost(p) \in LoopLabels \cup {"iterate", "sync"}
      BY DEF AfterPrepost, LoopLabels
    <3>3. OthersStay(p)
      BY <3>1, DriverPrepostRounds DEF RoundStep
    <3> QED BY <3>1, <3>2, <3>3, LoopRoot
  <2>8. CASE PrepostBurst(p)
    BY <2>8, DriverBurstRounds, LeaveTrialRoot DEF PrepostBurst, RoundStep
  <2>9. CASE SendData(p)
    <3>1. DriverSend(p) /\ UNCHANGED n /\ pc[p] \in RoundLabels /\ Goto(p, "sending")
      BY <2>9 DEF SendData, DriverSend, loopVars, RoundLabels, TrialLabels, LoopLabels
    <3>2. pc'[p] \notin {"finish", "done"}
      BY <3>1 DEF Goto, DriverInv, ControlTypeOK
    <3> QED BY <3>1, <3>2, DriverSendRounds, TrialRoot DEF RoundStep
  <2>10. CASE SendReturns(p)
    <3>1. /\ DriverSent(p) /\ Continue(p, AfterSend(p)) /\ UNCHANGED n
          /\ pc[p] \in RoundLabels
      BY <2>10 DEF SendReturns, DriverSent, RoundLabels, TrialLabels, LoopLabels
    <3>2. AfterSend(p) \in LoopLabels \cup {"iterate", "sync"}
      BY DEF AfterSend, LoopLabels
    <3> QED BY <3>1, <3>2, DriverSentRounds, LoopRoot DEF RoundStep
  <2>11. CASE RecvData(p)
    <3>1. /\ DriverRecv(p) /\ Continue(p, AfterRecv(p)) /\ UNCHANGED n
          /\ pc[p] \in RoundLabels
      BY <2>11 DEF RecvData, DriverRecv, RoundLabels, TrialLabels, LoopLabels
    <3>2. AfterRecv(p) \in LoopLabels \cup {"iterate", "sync"}
      BY DEF AfterRecv, LoopLabels
    <3> QED BY <3>1, <3>2, DriverRecvRounds, LoopRoot DEF RoundStep
  <2> QED BY <1>1, <2>1, <2>2, <2>3, <2>4, <2>5, <2>6, <2>7, <2>8, <2>9, <2>10, <2>11
      DEF Step, Preposts
<1>2. ASSUME NEW p \in Proc, Deliver(p) PROVE RootWaits'
  <2>1. UNCHANGED <<pc, inside, colls, loopVars>>
    BY <1>2 DEF Deliver
  <2> QED BY <2>1, StutterRoot
<1>3. CASE UNCHANGED vars
  BY <1>3, StutterRoot DEF vars, driverVars
<1> QED BY <1>1, <1>2, <1>3 DEF Next, Terminated

\* Two of a pair waiting to start the same trial are in the same test.
LEMMA SameTest ==
  ASSUME Aligned, Inv, RootWaits, NEW p \in Proc, NEW q \in Proc, q = Pair(p),
         pc[p] = "sync", inside[p], pc[q] = "sync", inside[q], trial[p] = trial[q]
  PROVE  ~(Round(p) > Round(q))
<1> SUFFICES ASSUME Round(p) > Round(q) PROVE FALSE
  OBVIOUS
<1>1. DriverInv /\ RoundInv /\ SendersSend /\ Pair(q) = p
  BY InvFacts, PairFacts
<1>2. ~InTrial(p) /\ ~InTrial(q)
  BY DEF InTrial, TrialLabels, LoopLabels
<1>3. OwnSent(q) = 0 /\ OwnGot(q) = 0 /\ nrepeat[q] \in Nat /\ nrepeat[q] > 0
  BY <1>1, <1>2, OwnFacts, InvFacts
<1>4. Round(p) \in Nat /\ Round(q) \in Nat
  BY <1>1, RoundType DEF DriverInv
<1>5. Sent(q, p) = 0 /\ Got(q, p) = 0
  BY <1>3, <1>4 DEF Sent, Got
<1>6. CASE Receives(p)
  <2>1. Got(p, q) = nrepeat[q]
    BY <1>6 DEF Got
  <2>2. Unchecked(q, p) = 0 - nrepeat[q]
    BY <1>3, <1>5, <2>1 DEF Unchecked
  <2>3. Unchecked(q, p) \in Nat
    BY <1>1, InvFacts DEF Incoming, Coming
  <2> QED BY <1>3, <2>2, <2>3
\* With --stream there is one pair, and process 0 sends.
<1>7. CASE ~Receives(p)
  <2>1. p = 0
    BY <1>7, NetPIPEAssumption DEF Receives, Transmitter, Aligned, Proc, NProcs
  <2>2. n[q] < n[p]
    <3>1. /\ Round(p) = n[p] * NTrials + trial[p] /\ Round(q) = n[q] * NTrials + trial[p]
      BY DEF Round, RoundLabels
    <3>2. n[p] \in Nat /\ n[q] \in Nat /\ n[p] * NTrials \in Nat /\ n[q] * NTrials \in Nat
          /\ trial[p] \in Nat
      BY <1>1, RoundType DEF DriverInv, ControlTypeOK
    <3>3. CASE n[p] = n[q]
      BY <3>1, <3>2, <3>3
    <3>4. CASE n[p] < n[q]
      <4>1. n[p] * NTrials + NTrials <= n[q] * NTrials
        BY <3>2, <3>4, Longer
      <4> QED BY <3>1, <3>2, <4>1, NetPIPEAssumption
    <3> QED BY <3>2, <3>3, <3>4
  <2>3. Place(q) = NTrials + 1
    BY <2>1, <2>2 DEF RootWaits, RootPast
  <2>4. pc[q] \in RoundLabels
    BY DEF RoundLabels
  <2> QED BY <1>1, <2>3, <2>4, TrialPlace DEF DriverInv
<1> QED BY <1>6, <1>7

\* When both of a pair wait for a trial nothing is on its way, and the first message
\* will meet the first receive.
LEMMA TagsAgree ==
  ASSUME Aligned, Inv, RootWaits, NEW p \in Proc, NEW q \in Proc, q = Pair(p),
         pc[p] = "sync", inside[p], pc[q] = "sync", inside[q], trial[p] = trial[q]
  PROVE  /\ net[p] = << >> /\ stag[p] = 0
         /\ posted[q] # << >> => Head(posted[q]).tag = 0
<1>1. DriverInv /\ RoundInv /\ SendersSend /\ Pair(q) = p
  BY InvFacts, PairFacts
<1>2. ~InTrial(p) /\ ~InTrial(q)
  BY DEF InTrial, TrialLabels, LoopLabels
<1>3. /\ OwnSent(p) = 0 /\ OwnGot(p) = 0 /\ OwnSent(q) = 0 /\ OwnGot(q) = 0
      /\ nrepeat[p] \in Nat
  BY <1>1, <1>2, OwnFacts
<1>4. ~(Round(p) > Round(q)) /\ ~(Round(q) > Round(p))
  BY <1>1, SameTest
<1>5. Unchecked(p, q) = 0 /\ Unchecked(q, p) = 0
  BY <1>3, <1>4 DEF Unchecked, Sent, Got
<1>6. /\ Expecting(p) /\ Incoming(p) /\ Expecting(q) /\ Incoming(q) /\ Tags(p)
      /\ posted[p] \in Seq(Receive) /\ net[p] \in Seq(Message)
      /\ posted[q] \in Seq(Receive) /\ net[q] \in Seq(Message)
  BY InvFacts
<1>7. net[p] = << >> /\ complete[q] = {}
  BY <1>1, <1>5, <1>6, Idle DEF Expecting, Incoming
<1>8. stag[p] = 0
  <2>1. Stamped(p) = 0
    BY <1>3 DEF Stamped
  <2> QED BY <1>6, <2>1 DEF Tags, Wrapped
<1>9. ASSUME posted[q] # << >> PROVE Head(posted[q]).tag = 0
  <2>1. /\ Numbered(Armed(q), 0)
        /\ Posting(Armed(q), 0, posted[q], complete[q], r_ptr[q], s_ptr[q])
    BY <1>3, <1>6 DEF Expecting
  <2>2. 1 \in DOMAIN posted[q] /\ Head(posted[q]) = posted[q][1]
    BY <1>6, <1>9
  <2>3. posted[q][1].tag \in Armed(q) /\ posted[q][1].tag \in Nat
    BY <2>1, <2>2 DEF Posting, Numbered
  <2>4. 0 \in Armed(q)
    <3>1. Armed(q) = {0} \/ Armed(q) = 0 .. nrepeat[q] - 1
      BY <1>2, <1>3, <2>3 DEF Armed
    <3>2. nrepeat[q] \in Nat /\ nrepeat[q] > 0
      BY <1>1, InvFacts DEF DriverInv, ControlTypeOK
    <3> QED BY <3>1, <3>2
  <2>5. PICK i \in DOMAIN posted[q] : posted[q][i].tag = 0
    BY <1>7, <2>1, <2>4 DEF Posting
  <2>6. i = 1 \/ 1 < i
    BY <1>6
  <2>7. CASE 1 < i
    <3>1. posted[q][1].tag < posted[q][i].tag
      BY <2>1, <2>2, <2>7 DEF Posting
    <3> QED BY <2>3, <2>5, <3>1
  <2> QED BY <2>2, <2>5, <2>6, <2>7
<1> QED BY <1>7, <1>8, <1>9

\* The tags of a pair agree again whenever both wait to start a trial (mpi.c:183).
THEOREM MpiTagsAgreeAtSync ==
  ASSUME Aligned
  PROVE  Spec => []TagsAgreeAtSync
<1>1. Init => RootWaits
  BY InitRoot DEF Init
<1>2. Inv /\ RootWaits /\ [Next]_vars => RootWaits'
  <2> SUFFICES ASSUME Inv, RootWaits, [Next]_vars PROVE RootWaits'
    OBVIOUS
  <2>1. MpiInv /\ DriverInv /\ RoundInv
    BY DEF Inv, MpiInv
  <2>2. DriverInv'
    BY <2>1, NextDriverInv
  <2> QED BY <2>1, <2>2, NextRoot
<1>3. Inv /\ RootWaits => TagsAgreeAtSync
  <2> SUFFICES ASSUME Inv, RootWaits, NEW p \in Proc,
                      pc[p] = "sync", inside[p], pc[Pair(p)] = "sync", inside[Pair(p)],
                      trial[p] = trial[Pair(p)]
               PROVE  /\ net[p] = << >> /\ stag[p] = 0
                      /\ posted[Pair(p)] # << >> => Head(posted[Pair(p)]).tag = stag[p]
    BY DEF TagsAgreeAtSync
  <2>1. Pair(p) \in Proc
    BY PairFacts
  <2>2. /\ net[p] = << >> /\ stag[p] = 0
        /\ posted[Pair(p)] # << >> => Head(posted[Pair(p)]).tag = 0
    BY <2>1, TagsAgree
  <2> QED BY <2>2
<1> QED BY <1>1, <1>2, <1>3, MpiInvariance, PTL DEF Spec
=============================================================================
