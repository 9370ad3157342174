------------------------------ MODULE NetPIPE ------------------------------
(***************************************************************************)
(* The benchmark driver of src/src/netpipe.c: the main loop that every     *)
(* process of an "mpirun -np 2*NPairs" job executes.  The driver is linked *)
(* with one communication module (mpi.c, tcp.c, ...); a module that        *)
(* EXTENDS this one adds that module's state and conjoins its half of each *)
(* action (NPmpi does so for mpi.c).                                       *)
(*                                                                         *)
(* One action is the code between two calls that may block.  Sync(),       *)
(* Broadcast() and Gather() are MPI collectives in every communication     *)
(* module, so they are modelled here: entering a call and leaving it are   *)
(* separate steps, and the k-th collective call of one process is matched  *)
(* with the k-th call of every other, as MPI does on MPI_COMM_WORLD.       *)
(*                                                                         *)
(* Times are abstracted: what depends on them (the number of repeats and   *)
(* the decision to stop) is a free choice of each process, which the       *)
(* broadcast from process 0 must then make common.  Message contents are   *)
(* the tag SetupBufferData writes in the first and the last byte.          *)
(***************************************************************************)
EXTENDS Integers, Sequences, FiniteSets

CONSTANTS
  NPairs,      \* npairs: processes 0..NPairs-1 are paired with the other half
  Mode,        \* "pingpong" (the default), "stream" (--stream), "bidir" (--bidir)
  Burst,       \* --burst: prepost the receives of a whole trial
  Async,       \* async: prepost each receive
  NTrials,     \* ntrials
  Repeats,     \* the values nrepeat can be given
  NPerts,      \* message sizes tested per main-loop iteration (1 or 3)
  MaxTests,    \* bound: main-loop iterations until len > end
  TagMod       \* SetupBufferData counts messages modulo this (100 in the code)

ASSUME NetPIPEAssumption ==
  /\ NPairs \in Nat \ {0}
  /\ Mode \in {"pingpong", "stream", "bidir"}
  /\ Burst \in BOOLEAN /\ Async \in BOOLEAN
  /\ Burst => Async                 \* netpipe.c:163-166
  /\ NTrials \in Nat \ {0}
  /\ Repeats \subseteq Nat \ {0}
  /\ NPerts \in Nat \ {0}
  /\ MaxTests \in Nat \ {0}
  /\ TagMod \in Nat \ {0, 1}

NProcs == 2 * NPairs
Proc   == 0 .. NProcs - 1

\* mypair = nprocs - 1 - myproc
Pair(p) == NProcs - 1 - p

\* Slip: --bidir that forgets to make both halves transmitters.
Transmitter_HalfOnly(p) == p < NPairs

\* The branch a process takes: "if( transmitter || bidir )"
Transmitter(p) == p < NPairs \/ Mode = "bidir"

VARIABLES
  pc,        \* where a process is in the main loop
  inside,    \* inside[p]: p has entered the collective its pc names
  colls,     \* colls[p]: the collective calls p has made, in order
  n,         \* number of the test (one message size) being run
  trial,     \* the loop index i over trials
  j,         \* the loop index j over repeats
  nrepeat,   \* number of messages per trial
  finished,  \* set when the main loop is to end
  s_ptr,     \* which half of sr_buf the next message is sent from
  r_ptr,     \* which half of sr_buf the next message is received in
  buf,       \* the tag held by each half of sr_buf
  setTag,    \* the static stag of SetupBufferData
  chkTag,    \* the static rtag of CheckBufferData
  failures   \* failures[myproc]

loopVars   == <<n, trial, j, nrepeat, finished>>
bufVars    == <<s_ptr, r_ptr, buf, setTag, chkTag, failures>>
driverVars == <<pc, inside, colls, loopVars, bufVars>>

Half  == {0, 1}
Blank == -1                       \* MallocBufs fills the buffers with -1
Tag   == 0 .. TagMod - 1

Barriers == {"sync", "endsync"}
Bcasts   == {"nrepeat", "finish"}
Gathers  == {"mintime", "maxtime", "avgtime", "gather"}
CollectiveCalls == Barriers \cup Bcasts \cup Gathers

Labels == CollectiveCalls \cup
  {"burst", "prepostFirst", "prepost", "prepostNext", "send", "sending",
   "recv", "reset", "done"}

DriverInit ==
  /\ pc       = [p \in Proc |-> "nrepeat"]
  /\ inside   = [p \in Proc |-> FALSE]
  /\ colls    = [p \in Proc |-> << >>]
  /\ n        = [p \in Proc |-> 1]
  /\ trial    = [p \in Proc |-> 0]
  /\ j        = [p \in Proc |-> 0]
  /\ nrepeat  = [p \in Proc |-> 0]
  /\ finished = [p \in Proc |-> 0]
  /\ s_ptr    = [p \in Proc |-> 0]
  /\ r_ptr    = [p \in Proc |-> 1]
  /\ buf      = [p \in Proc |-> [h \in Half |-> Blank]]
  /\ setTag   = [p \in Proc |-> 0]
  /\ chkTag   = [p \in Proc |-> 0]
  /\ failures = [p \in Proc |-> 0]

-----------------------------------------------------------------------------
(***************************************************************************)
(* The control flow between the calls.                                     *)
(***************************************************************************)

\* The top of a trial: what is preposted before Sync().
TrialStart(p) ==
  CASE Burst /\ ~(Transmitter(p) /\ Mode = "stream") -> "burst"
    [] ~Burst /\ Async /\ ~Transmitter(p)            -> "prepostFirst"
    [] OTHER                                         -> "sync"

\* The top of an iteration of the loop over j.
IterationStart(p) ==
  CASE ~Transmitter(p)                     -> "recv"
    [] Transmitter(p) /\ ~Burst /\ Async /\ Mode # "stream" -> "prepost"
    [] OTHER                               -> "send"

\* Slip: the second Sync() is left out.
LoopExit_NeverSync(p) == "reset"

\* After the loop over j: a transmitter syncs again when there are several pairs.
LoopExit(p) == IF Transmitter(p) /\ NPairs > 1 THEN "endsync" ELSE "reset"

\* After CheckBufferData: the receiver preposts its next receive, if any, and answers.
AfterRecv(p) ==
  CASE Transmitter(p)                                     -> "iterate"
    [] ~Transmitter(p) /\ ~Burst /\ Async /\ j[p] < nrepeat[p] - 1 -> "prepostNext"
    [] OTHER -> IF Mode = "stream" THEN "iterate" ELSE "send"

AfterSend(p) == IF Transmitter(p) /\ Mode # "stream" THEN "recv" ELSE "iterate"

AfterPrepost(p) ==
  CASE pc[p] = "prepostFirst" -> "sync"
    [] pc[p] = "prepost"      -> "send"
    [] OTHER -> IF Mode = "stream" THEN "iterate" ELSE "send"

Goto(p, label) == pc' = [pc EXCEPT ![p] = label]

\* j++ and the test of the loop, or a jump inside the iteration.
Continue(p, label) ==
  IF label = "iterate"
  THEN IF j[p] + 1 < nrepeat[p]
       THEN /\ j' = [j EXCEPT ![p] = @ + 1]
            /\ Goto(p, IterationStart(p))
       ELSE /\ j' = [j EXCEPT ![p] = 0]
            /\ Goto(p, LoopExit(p))
  ELSE Goto(p, label) /\ UNCHANGED j

-----------------------------------------------------------------------------
(***************************************************************************)
(* Collectives.                                                            *)
(***************************************************************************)

Op(call) == CASE call \in Barriers -> "barrier"
              [] call \in Bcasts   -> "bcast"
              [] OTHER             -> "gather"

\* What p hands to the broadcast it enters: its own idea of nrepeat or finished.
\* len > end stops every process, tlast >= stoptime only those that see it.
Contribution(p) ==
  CASE pc[p] = "nrepeat" -> Repeats
    [] pc[p] = "finish"  -> IF n[p] >= NPerts * MaxTests THEN {1} ELSE {0, 1}
    [] OTHER             -> {0}

EnterCollective(p) ==
  /\ pc[p] \in CollectiveCalls
  /\ ~inside[p]
  /\ \E v \in Contribution(p) :
       /\ colls' = [colls EXCEPT ![p] = Append(@,
                       [call |-> pc[p], n |-> n[p], trial |-> trial[p], val |-> v])]
       /\ nrepeat'  = [nrepeat EXCEPT ![p] = IF pc[p] = "nrepeat" THEN v ELSE @]
       /\ finished' = [finished EXCEPT ![p] = IF pc[p] = "finish" THEN v ELSE @]
  /\ inside' = [inside EXCEPT ![p] = TRUE]
  /\ UNCHANGED <<pc, n, trial, j, bufVars>>

\* q has made the collective call that p is waiting in.
Joined(p, q) ==
  LET k == Len(colls[p])
  IN  /\ Len(colls[q]) >= k
      /\ Op(colls[q][k].call) = Op(colls[p][k].call)

\* MPI lets the root of a broadcast and the leaves of a gather go at once.
MayLeave(p) ==
  CASE Op(pc[p]) = "barrier" -> \A q \in Proc : Joined(p, q)
    [] Op(pc[p]) = "bcast"   -> Joined(p, 0)
    [] OTHER                 -> p = 0 => \A q \in Proc : Joined(p, q)

Leave(p, call) ==
  /\ pc[p] = call
  /\ inside[p]
  /\ MayLeave(p)
  /\ inside' = [inside EXCEPT ![p] = FALSE]
  /\ UNCHANGED colls

\* The value process 0 gave to the broadcast p is in.
RootValue(p) == colls[0][Len(colls[p])].val

\* MallocBufs( 2*buflen ): fresh buffers, pointers at their starts.
MallocBufs(p) ==
  /\ s_ptr' = [s_ptr EXCEPT ![p] = 0]
  /\ r_ptr' = [r_ptr EXCEPT ![p] = 1]
  /\ buf'   = [buf EXCEPT ![p] = [h \in Half |-> Blank]]

LeaveNrepeat(p) ==
  /\ Leave(p, "nrepeat")
  /\ nrepeat'  = [nrepeat EXCEPT ![p] = RootValue(p)]
  /\ MallocBufs(p)
  /\ failures' = [failures EXCEPT ![p] = 0]
  /\ Goto(p, TrialStart(p))
  /\ UNCHANGED <<n, trial, j, finished, setTag, chkTag>>

LeaveSync(p) ==
  /\ Leave(p, "sync")
  /\ Goto(p, IterationStart(p))
  /\ UNCHANGED <<loopVars, bufVars>>

LeaveEndsync(p) ==
  /\ Leave(p, "endsync")
  /\ Goto(p, "reset")
  /\ UNCHANGED <<loopVars, bufVars>>

\* Slip: only the first trial is synchronised.
DriverReset_NoSync(p) ==
  /\ pc[p] = "reset"
  /\ IF trial[p] + 1 < NTrials
     THEN /\ trial' = [trial EXCEPT ![p] = @ + 1]
          /\ Goto(p, IterationStart(p))
     ELSE /\ trial' = [trial EXCEPT ![p] = 0]
          /\ Goto(p, IF Mode = "stream" THEN "mintime" ELSE "gather")
  /\ UNCHANGED <<inside, colls, n, j, nrepeat, finished, bufVars>>

\* Reset() and the end of the loop over trials.
DriverReset(p) ==
  /\ pc[p] = "reset"
  /\ IF trial[p] + 1 < NTrials
     THEN /\ trial' = [trial EXCEPT ![p] = @ + 1]
          /\ Goto(p, TrialStart(p))
     ELSE /\ trial' = [trial EXCEPT ![p] = 0]
          /\ Goto(p, IF Mode = "stream" THEN "mintime" ELSE "gather")
  /\ UNCHANGED <<inside, colls, n, j, nrepeat, finished, bufVars>>

LeaveTimes(p) ==
  \E step \in {<<"mintime", "maxtime">>, <<"maxtime", "avgtime">>, <<"avgtime", "gather">>} :
    /\ Leave(p, step[1])
    /\ Goto(p, step[2])
    /\ UNCHANGED <<loopVars, bufVars>>

\* Gather(failures), FreeBufs() and the end of the perturbation loop.
LeaveGather(p) ==
  /\ Leave(p, "gather")
  /\ IF n[p] % NPerts = 0
     THEN Goto(p, "finish") /\ UNCHANGED n
     ELSE Goto(p, "nrepeat") /\ n' = [n EXCEPT ![p] = @ + 1]
  /\ UNCHANGED <<trial, j, nrepeat, finished, bufVars>>

\* Slip: each process trusts its own clock instead of process 0's decision.
LeaveFinish_OwnClock(p) ==
  /\ Leave(p, "finish")
  /\ IF finished[p] # 0
     THEN Goto(p, "done") /\ UNCHANGED n
     ELSE Goto(p, "nrepeat") /\ n' = [n EXCEPT ![p] = @ + 1]
  /\ UNCHANGED <<finished, trial, j, nrepeat, bufVars>>

LeaveFinish(p) ==
  /\ Leave(p, "finish")
  /\ finished' = [finished EXCEPT ![p] = RootValue(p)]
  /\ IF RootValue(p) # 0
     THEN Goto(p, "done") /\ UNCHANGED n
     ELSE Goto(p, "nrepeat") /\ n' = [n EXCEPT ![p] = @ + 1]
  /\ UNCHANGED <<trial, j, nrepeat, bufVars>>

-----------------------------------------------------------------------------
(***************************************************************************)
(* The message loop: the driver's half of each call of the module.         *)
(***************************************************************************)

\* The loop that preposts a trial's receives.  SavePtrs and RestorePtrs make
\* its swaps of the pointers invisible afterwards.
DriverBurst(p) ==
  /\ pc[p] = "burst"
  /\ Goto(p, "sync")
  /\ UNCHANGED <<inside, colls, loopVars, bufVars>>

\* Slip: the pointers are advanced before each PrepostRecv instead of after it.
BurstHalf_AdvanceFirst(p, m) == IF m % 2 = 0 THEN s_ptr[p] ELSE r_ptr[p]

\* The half that the m-th PrepostRecv (from 0) of that loop posts.
BurstHalf(p, m) == IF m % 2 = 0 THEN r_ptr[p] ELSE s_ptr[p]

DriverPrepost(p) ==
  /\ pc[p] \in {"prepostFirst", "prepost", "prepostNext"}
  /\ Continue(p, AfterPrepost(p))
  /\ UNCHANGED <<inside, colls, n, trial, nrepeat, finished, bufVars>>

\* Slip: the stamp goes in the receive half.
SetupBufferData_WrongHalf(p) ==
  /\ setTag' = [setTag EXCEPT ![p] = (@ + 1) % TagMod]
  /\ buf' = [buf EXCEPT ![p][r_ptr[p]] = (setTag[p] + 1) % TagMod]

\* SetupBufferData: stamp the first and the last byte with the next tag.
SetupBufferData(p) ==
  /\ setTag' = [setTag EXCEPT ![p] = (@ + 1) % TagMod]
  /\ buf' = [buf EXCEPT ![p][s_ptr[p]] = (setTag[p] + 1) % TagMod]

DriverSend(p) ==
  /\ pc[p] = "send"
  /\ SetupBufferData(p)
  /\ Goto(p, "sending")
  /\ UNCHANGED <<inside, colls, loopVars, s_ptr, r_ptr, chkTag, failures>>

\* SendData has returned.  AdvancePtrs( &ds_ptr, &dr_ptr, ...) moves nothing
\* without RDMA buffers.
DriverSent(p) ==
  /\ pc[p] = "sending"
  /\ Continue(p, AfterSend(p))
  /\ UNCHANGED <<inside, colls, n, trial, nrepeat, finished, bufVars>>

\* Slip: the expected tag is not wrapped.
CheckBufferData_NoWrap(p) ==
  LET expected == chkTag[p] + 1
  IN  /\ chkTag' = [chkTag EXCEPT ![p] = expected]
      /\ failures' = [failures EXCEPT ![p] =
                        IF buf[p][r_ptr[p]] # expected THEN @ + 1 ELSE @]

\* CheckBufferData: the tag of the message read must be the next expected one.
CheckBufferData(p) ==
  LET expected == (chkTag[p] + 1) % TagMod
  IN  /\ chkTag' = [chkTag EXCEPT ![p] = expected]
      /\ failures' = [failures EXCEPT ![p] =
                        IF buf[p][r_ptr[p]] # expected THEN @ + 1 ELSE @]

\* AdvancePtrs( &s_ptr, &r_ptr, ...) with the cache: swap the two halves.
AdvancePtrs(p) ==
  /\ s_ptr' = [s_ptr EXCEPT ![p] = r_ptr[p]]
  /\ r_ptr' = [r_ptr EXCEPT ![p] = s_ptr[p]]

DriverRecv(p) ==
  /\ pc[p] = "recv"
  /\ CheckBufferData(p)
  /\ AdvancePtrs(p)
  /\ Continue(p, AfterRecv(p))
  /\ UNCHANGED <<inside, colls, n, trial, nrepeat, finished, buf, setTag>>

Done == \A p \in Proc : pc[p] = "done"

-----------------------------------------------------------------------------
(***************************************************************************)
(* Properties of the driver.                                               *)
(***************************************************************************)

CallRecord == [call : CollectiveCalls, n : Nat, trial : Nat, val : Nat]

\* Every variable of the driver holds a value of its type.
ControlTypeOK ==
  /\ pc       \in [Proc -> Labels]
  /\ inside   \in [Proc -> BOOLEAN]
  /\ colls    \in [Proc -> Seq(CallRecord)]
  /\ n        \in [Proc -> Nat]
  /\ trial    \in [Proc -> 0 .. NTrials - 1]
  /\ j        \in [Proc -> Nat]
  /\ nrepeat  \in [Proc -> Nat]
  /\ finished \in [Proc -> Nat]

BufferTypeOK ==
  /\ s_ptr    \in [Proc -> Half]
  /\ r_ptr    \in [Proc -> Half]
  /\ buf      \in [Proc -> [Half -> Tag \cup {Blank}]]
  /\ setTag   \in [Proc -> Tag]
  /\ chkTag   \in [Proc -> Tag]
  /\ failures \in [Proc -> Nat]

DriverTypeOK == ControlTypeOK /\ BufferTypeOK

\* The collectives of the processes match: the k-th call of any two processes
\* is the same call, of the same trial of the same test.  A Sync() that closes
\* a trial on one process never pairs with one that opens the next on another,
\* and no barrier is entered against a gather (netpipe.c:433, 461, 509, 641).
CollectivesMatch ==
  \A p, q \in Proc : \A k \in 1 .. Len(colls[p]) :
    k <= Len(colls[q]) =>
      /\ colls[p][k].call  = colls[q][k].call
      /\ colls[p][k].n     = colls[q][k].n
      /\ colls[p][k].trial = colls[q][k].trial

\* Process 0's clock brackets the messages of all pairs: whoever is in the
\* message loop of a trial, no process is in the message loop of another one,
\* and all of them repeat it the same number of times (netpipe.c:35-37, 381).
InLoop(p) == pc[p] \in {"prepost", "prepostNext", "send", "sending", "recv"}

TrialsDoNotOverlap ==
  \A p, q \in Proc : InLoop(p) /\ InLoop(q) =>
    n[p] = n[q] /\ trial[p] = trial[q] /\ nrepeat[p] = nrepeat[q]

\* No process counts a failure: each message read carries the tag of the
\* message its pair sent at that place, so no buffer was overwritten between
\* the arrival of its message and CheckBufferData, and no message was lost,
\* duplicated or reordered (netpipe.c:832-883, 24-33).
Integrity == \A p \in Proc : failures[p] = 0

\* With several pairs, process 0 stops its clock only when the messages of every
\* pair are done: the time reported is that of the last pair (netpipe.c:461).
ClockCoversAllPairs ==
  NPairs > 1 /\ pc[0] = "reset" => \A p \in Proc : ~InLoop(p)

\* Every process leaves the main loop (netpipe.c:352-643).
AllFinish == <>Done

-----------------------------------------------------------------------------
(***************************************************************************)
(* Why the collectives match: every process makes its calls in one order,  *)
(* which depends on nothing but the options of the run.                    *)
(***************************************************************************)

\* Every transmitter has a partner that also syncs twice, or no second Sync is made.
Aligned == NPairs = 1 \/ Mode = "bidir"

Key(r) == <<r.call, r.n, r.trial>>

FirstCall == <<"nrepeat", 1, 0>>

AfterTrial(m, t) ==
  IF t + 1 < NTrials THEN <<"sync", m, t + 1>>
                     ELSE <<IF Mode = "stream" THEN "mintime" ELSE "gather", m, 0>>

AfterLoop(m, t) == IF NPairs > 1 THEN <<"endsync", m, t>> ELSE AfterTrial(m, t)

\* The call that follows the call <<c, m, t>>.
NextCall(c, m, t) ==
  CASE c = "nrepeat" -> <<"sync", m, 0>>
    [] c = "sync"    -> AfterLoop(m, t)
    [] c = "endsync" -> AfterTrial(m, t)
    [] c = "mintime" -> <<"maxtime", m, 0>>
    [] c = "maxtime" -> <<"avgtime", m, 0>>
    [] c = "avgtime" -> <<"gather", m, 0>>
    [] c = "gather"  -> IF m % NPerts = 0 THEN <<"finish", m, 0>> ELSE <<"nrepeat", m + 1, 0>>
    [] OTHER         -> <<"nrepeat", m + 1, 0>>

CallAfter(r) == NextCall(r.call, r.n, r.trial)

Last(p) == colls[p][Len(colls[p])]

\* The log of p is in that order, and n only grows along it.
LogInOrder(p) ==
  \A k \in 1 .. Len(colls[p]) :
    /\ Key(colls[p][k]) = IF k = 1 THEN FirstCall ELSE CallAfter(colls[p][k - 1])
    /\ colls[p][k].call = "nrepeat" => colls[p][k].val \in Repeats
    /\ \A m \in 1 .. k - 1 : /\ colls[p][m].n <= colls[p][k].n
                             /\ colls[p][k].call = "nrepeat" => colls[p][m].n < colls[p][k].n

\* The call p makes next, by where p is.
Upcoming(p) ==
  CASE pc[p] \in CollectiveCalls          -> <<pc[p], n[p], trial[p]>>
    [] pc[p] \in {"burst", "prepostFirst"} -> <<"sync", n[p], trial[p]>>
    [] InLoop(p)                          -> AfterLoop(n[p], trial[p])
    [] OTHER                              -> AfterTrial(n[p], trial[p])

\* Everybody has made the last call p has made.
Passed(p, call) ==
  /\ colls[p] # << >>
  /\ Key(Last(p)) = <<call, n[p], trial[p]>>
  /\ \A q \in Proc : Len(colls[q]) >= Len(colls[p])

\* p is at the place in the main loop that its log says.
AtItsPlace(p) ==
  /\ pc[p] \notin CollectiveCalls => ~inside[p]
  /\ inside[p] => colls[p] # << >> /\ Key(Last(p)) = <<pc[p], n[p], trial[p]>>
  /\ ~inside[p] /\ pc[p] # "done" =>
       Upcoming(p) = IF colls[p] = << >> THEN FirstCall ELSE CallAfter(Last(p))
  /\ InLoop(p) => Passed(p, "sync")
  /\ pc[p] = "reset" /\ NPairs > 1 => Passed(p, "endsync")

\* p repeats as often as process 0 told everybody for this test.
CommonRepeats(p) ==
  pc[p] # "nrepeat" =>
    \E k \in 1 .. Len(colls[p]) :
      /\ k <= Len(colls[0])
      /\ colls[p][k].call = "nrepeat" /\ colls[p][k].n = n[p]
      /\ nrepeat[p] = colls[0][k].val

\* The inductive invariant behind CollectivesMatch, TrialsDoNotOverlap and
\* ClockCoversAllPairs when Aligned (netpipe.c:352-643).
DriverInv ==
  /\ ControlTypeOK
  /\ CollectivesMatch
  /\ \A p \in Proc : LogInOrder(p) /\ AtItsPlace(p) /\ CommonRepeats(p)
============================================================================
