------------------------------- MODULE NPmpi -------------------------------
(***************************************************************************)
(* NPmpi: the driver of netpipe.c linked with src/src/mpi.c.               *)
(*                                                                         *)
(* mpi.c keeps a send tag, a receive tag and an array of receive requests  *)
(* per process.  The MPI library is external: a posted receive takes the   *)
(* first message of its tag that has not been received, a standard send    *)
(* may return at once or only when its message is taken, a synchronous     *)
(* send (SyncSend) only when it is taken.  Each process receives from its  *)
(* pair alone, so --anysource changes nothing and one channel per process  *)
(* is enough.                                                              *)
(***************************************************************************)
EXTENDS NetPIPE

CONSTANT SyncSend       \* --syncSend: MPI_Ssend instead of MPI_Send

ASSUME NPmpiAssumption ==
  /\ SyncSend \in BOOLEAN
  /\ Async              \* Module_Setup sets async on every run, mpi.c:83

VARIABLES
  nrepeats,  \* mpi.c's copy of the last value broadcast: the modulus of the tags
  stag,      \* tag of the next send
  rtag,      \* tag of the next receive
  posted,    \* receives posted and not complete, oldest first
  complete,  \* slots of recvRequest whose receive is complete
  net        \* net[p]: messages sent to p and not taken by a receive of p

mpiVars == <<nrepeats, stag, rtag, posted, complete, net>>
vars    == <<driverVars, mpiVars>>

Init ==
  /\ DriverInit
  /\ nrepeats = [p \in Proc |-> 1]
  /\ stag     = [p \in Proc |-> 0]
  /\ rtag     = [p \in Proc |-> 0]
  /\ posted   = [p \in Proc |-> << >>]
  /\ complete = [p \in Proc |-> {}]
  /\ net      = [p \in Proc |-> << >>]

\* Slip: --burst without its index into recvRequest.
Slot_Shared(t) == 0

\* The slot of recvRequest for the receive numbered rtag.
Slot(t) == IF Burst THEN t ELSE 0

RemoveAt(s, i) == SubSeq(s, 1, i - 1) \o SubSeq(s, i + 1, Len(s))

-----------------------------------------------------------------------------

\* Broadcast(): nrepeats takes the value and every tag restarts at 0.  With
\* --burst a new recvRequest array replaces the old one.
ModuleBroadcast(p) ==
  /\ nrepeats' = [nrepeats EXCEPT ![p] = RootValue(p)]
  /\ stag'     = [stag EXCEPT ![p] = 0]
  /\ rtag'     = [rtag EXCEPT ![p] = 0]
  /\ complete' = [complete EXCEPT ![p] = IF Burst THEN {} ELSE @]
  /\ UNCHANGED <<posted, net>>

BroadcastNrepeat(p)  == LeaveNrepeat(p) /\ ModuleBroadcast(p)
BroadcastFinished(p) == LeaveFinish(p) /\ ModuleBroadcast(p)

Enter(p)   == EnterCollective(p) /\ UNCHANGED mpiVars
Sync(p)    == (LeaveSync(p) \/ LeaveEndsync(p)) /\ UNCHANGED mpiVars
Gather(p)  == (LeaveTimes(p) \/ LeaveGather(p)) /\ UNCHANGED mpiVars
Reset(p)   == DriverReset(p) /\ UNCHANGED mpiVars      \* empty in mpi.c

\* Slip: the receive tag wraps one too late.
PrepostRecv_LateWrap(p) ==
  /\ DriverPrepost(p)
  /\ posted' = [posted EXCEPT ![p] = Append(@,
                  [slot |-> Slot(rtag[p]), tag |-> rtag[p], half |-> r_ptr[p]])]
  /\ complete' = [complete EXCEPT ![p] = @ \ {Slot(rtag[p])}]
  /\ rtag' = [rtag EXCEPT ![p] = (@ + 1) % (nrepeats[p] + 1)]
  /\ UNCHANGED <<nrepeats, stag, net>>

\* PrepostRecv(): MPI_Irecv at r_ptr into recvRequest[Slot(rtag)].
PrepostRecv(p) ==
  /\ DriverPrepost(p)
  /\ posted' = [posted EXCEPT ![p] = Append(@,
                  [slot |-> Slot(rtag[p]), tag |-> rtag[p], half |-> r_ptr[p]])]
  /\ complete' = [complete EXCEPT ![p] = @ \ {Slot(rtag[p])}]
  /\ rtag' = [rtag EXCEPT ![p] = (@ + 1) % nrepeats[p]]
  /\ UNCHANGED <<nrepeats, stag, net>>

\* Slip: the loop that preposts runs once too often.
PrepostBurst_OneMore(p) ==
  LET tagOf(m) == (rtag[p] + m) % nrepeats[p]
  IN  /\ DriverBurst(p)
      /\ posted' = [posted EXCEPT ![p] = @ \o [m \in 1 .. nrepeat[p] + 1 |->
                      [slot |-> Slot(tagOf(m - 1)), tag |-> tagOf(m - 1),
                       half |-> BurstHalf(p, m - 1)]]]
      /\ complete' = [complete EXCEPT ![p] =
                        @ \ {Slot(tagOf(m)) : m \in 0 .. nrepeat[p] - 1}]
      /\ rtag' = [rtag EXCEPT ![p] = tagOf(nrepeat[p])]
      /\ UNCHANGED <<nrepeats, stag, net>>

\* The nrepeat calls of PrepostRecv() that open a trial with --burst.
PrepostBurst(p) ==
  LET tagOf(m) == (rtag[p] + m) % nrepeats[p]
  IN  /\ DriverBurst(p)
      /\ posted' = [posted EXCEPT ![p] = @ \o [m \in 1 .. nrepeat[p] |->
                      [slot |-> Slot(tagOf(m - 1)), tag |-> tagOf(m - 1),
                       half |-> BurstHalf(p, m - 1)]]]
      /\ complete' = [complete EXCEPT ![p] =
                        @ \ {Slot(tagOf(m)) : m \in 0 .. nrepeat[p] - 1}]
      /\ rtag' = [rtag EXCEPT ![p] = tagOf(nrepeat[p])]
      /\ UNCHANGED <<nrepeats, stag, net>>

\* Preposting: all receives of a trial before its Sync() with --burst, else one of them.
Preposts(p) == IF pc[p] = "burst" THEN PrepostBurst(p) ELSE PrepostRecv(p)

\* SendData() starts: the message is on its way to the pair.
SendData(p) ==
  /\ DriverSend(p)
  /\ net' = [net EXCEPT ![Pair(p)] = Append(@,
               [tag |-> stag[p], data |-> buf'[p][s_ptr[p]]])]
  /\ stag' = [stag EXCEPT ![p] = (@ + 1) % nrepeats[p]]
  /\ UNCHANGED <<nrepeats, rtag, posted, complete>>

\* MPI_Send or MPI_Ssend returns.
SendReturns(p) ==
  /\ DriverSent(p)
  /\ SyncSend => net[Pair(p)] = << >>
  /\ UNCHANGED mpiVars

\* RecvData(): MPI_Wait on the request of the oldest receive.
RecvData(p) ==
  /\ DriverRecv(p)
  /\ Slot(rtag[p]) \in complete[p]
  /\ complete' = [complete EXCEPT ![p] = @ \ {Slot(rtag[p])}]
  /\ rtag' = [rtag EXCEPT ![p] = IF Burst THEN (@ + 1) % nrepeats[p] ELSE @]
  /\ UNCHANGED <<nrepeats, stag, posted, net>>

\* MPI: the i-th posted receive of p takes its k-th message when they are the
\* oldest of one tag.
Matches(p, i, k) ==
  /\ posted[p][i].tag = net[p][k].tag
  /\ \A i2 \in 1 .. i - 1 : posted[p][i2].tag # posted[p][i].tag
  /\ \A k2 \in 1 .. k - 1 : net[p][k2].tag # net[p][k].tag

Deliver(p) ==
  \E i \in DOMAIN posted[p], k \in DOMAIN net[p] :
    LET r == posted[p][i]
        m == net[p][k]
    IN  /\ Matches(p, i, k)
        /\ buf'      = [buf EXCEPT ![p][r.half] = m.data]
        /\ posted'   = [posted EXCEPT ![p] = RemoveAt(@, i)]
        /\ complete' = [complete EXCEPT ![p] = @ \cup {r.slot}]
        /\ net'      = [net EXCEPT ![p] = RemoveAt(@, k)]
        /\ UNCHANGED <<pc, inside, colls, loopVars, s_ptr, r_ptr, setTag, chkTag,
                       failures, nrepeats, stag, rtag>>

Step(p) ==
  \/ Enter(p) \/ BroadcastNrepeat(p) \/ BroadcastFinished(p)
  \/ Sync(p) \/ Gather(p) \/ Reset(p)
  \/ Preposts(p)
  \/ SendData(p) \/ SendReturns(p) \/ RecvData(p)

Terminated == Done /\ UNCHANGED vars

Next ==
  \/ \E p \in Proc : Step(p) \/ Deliver(p)
  \/ Terminated

Spec == Init /\ [][Next]_vars

\* What a process is certain to do when the system runs it: a send need not
\* return before its message is taken, MPI_Send included.
Certain(p) == Step(p) /\ (pc[p] = "sending" => net[Pair(p)] = << >>)

\* Every process keeps running and MPI keeps delivering: the operating system
\* schedules each process of the job, and the MPI library makes progress on a
\* message whose receive is posted while its receiver is in a blocking call.
Fairness == \A p \in Proc : WF_vars(Certain(p)) /\ WF_vars(Deliver(p))

FairSpec == Spec /\ Fairness

-----------------------------------------------------------------------------
(***************************************************************************)
(* Properties.                                                             *)
(***************************************************************************)

Receive == [slot : Nat, tag : Nat, half : Half]
Message == [tag : Nat, data : Tag]

\* Every variable of the driver and of mpi.c holds a value of its type.
TypeOK ==
  /\ DriverTypeOK
  /\ nrepeats \in [Proc -> Nat]
  /\ stag     \in [Proc -> Nat]
  /\ rtag     \in [Proc -> Nat]
  /\ posted   \in [Proc -> Seq(Receive)]
  /\ complete \in [Proc -> SUBSET Nat]
  /\ net      \in [Proc -> Seq(Message)]

\* MPI_Wait is only ever called on the request of a receive that was posted,
\* and no MPI_Irecv overwrites a request still in use: every slot carries at
\* most one live receive, and RecvData finds its slot live (mpi.c:188-219).
Live(p, slot) == \/ slot \in complete[p]
                 \/ \E i \in DOMAIN posted[p] : posted[p][i].slot = slot

RequestsLive ==
  \A p \in Proc :
    /\ pc[p] = "recv" => Live(p, Slot(rtag[p]))
    /\ \A i \in DOMAIN posted[p] :
         /\ posted[p][i].slot \notin complete[p]
         /\ \A i2 \in DOMAIN posted[p] : posted[p][i].slot = posted[p][i2].slot => i = i2

\* While MPI still needs the send buffer (the message stamped last has not been
\* taken), no message has arrived whose receive was posted on that half
\* (netpipe.c:32-33, 447, 467, 486-494).
SendBufferStable ==
  \A p \in Proc :
    /\ pc[p] = "sending"
    /\ \E k \in DOMAIN net[Pair(p)] : net[Pair(p)][k].data = setTag[p]
    => \A i \in DOMAIN posted[p], k \in DOMAIN net[p] :
         Matches(p, i, k) => posted[p][i].half # s_ptr[p]

\* When a process frees its buffers (netpipe.c:632, after the gather) it has no
\* receive outstanding and no message on its way to it.
QuiescentAtFree ==
  \A p \in Proc : pc[p] = "gather" =>
    posted[p] = << >> /\ complete[p] = {} /\ net[p] = << >>

\* The tags of a pair agree again whenever both wait to start a trial: the next
\* message one sends matches the next receive the other completes (mpi.c:183).
TagsAgreeAtSync ==
  \A p \in Proc :
    LET q == Pair(p)
    IN  /\ pc[p] = "sync" /\ inside[p] /\ pc[q] = "sync" /\ inside[q]
        /\ trial[p] = trial[q]
        => /\ net[p] = << >>
           /\ stag[p] = 0
           /\ posted[q] # << >> => Head(posted[q]).tag = stag[p]
============================================================================
