--------------------------- MODULE NetPIPE_proofs ---------------------------
(***************************************************************************)
(* The driver, whatever communication module it is linked with, for any    *)
(* number of pairs (two or more of them with --bidir), of repeats, trials  *)
(* and tests: its collectives match and its trials do not overlap; how far *)
(* the processes are from each other; and what that says of the messages   *)
(* of a pair.  Each lemma about a step is about the driver's half of one   *)
(* action.                                                                 *)
(***************************************************************************)
EXTENDS NetPIPE, TLAPS

\* The invariant holds initially.
LEMMA InitDriverInv == DriverInit => DriverInv
<1> SUFFICES ASSUME DriverInit PROVE DriverInv
  OBVIOUS
<1> USE NetPIPEAssumption DEF DriverInit
<1>1. ControlTypeOK
  BY DEF ControlTypeOK, Labels, CollectiveCalls, Bcasts
<1>2. CollectivesMatch
  BY DEF CollectivesMatch, Proc
<1>3. ASSUME NEW p \in Proc PROVE LogInOrder(p) /\ AtItsPlace(p) /\ CommonRepeats(p)
  BY <1>3 DEF LogInOrder, AtItsPlace, CommonRepeats, Upcoming, FirstCall, InLoop,
     CollectiveCalls, Bcasts
<1> QED BY <1>1, <1>2, <1>3 DEF DriverInv

\* A process that moves without entering a collective keeps the invariant if
\* it stays at the place its log says.
LEMMA Move ==
  ASSUME DriverInv, NEW p \in Proc, UNCHANGED colls, ControlTypeOK',
         AtItsPlace(p)', CommonRepeats(p)',
         \A q \in Proc : q # p => /\ pc'[q] = pc[q] /\ inside'[q] = inside[q]
                                  /\ n'[q] = n[q] /\ trial'[q] = trial[q]
                                  /\ nrepeat'[q] = nrepeat[q]
  PROVE  DriverInv'
<1>1. CollectivesMatch'
  BY DEF DriverInv, CollectivesMatch
<1>2. ASSUME NEW q \in Proc PROVE LogInOrder(q)'
  BY DEF DriverInv, LogInOrder
<1>3. ASSUME NEW q \in Proc PROVE AtItsPlace(q)' /\ CommonRepeats(q)'
  <2>1. CASE q = p
    BY <2>1
  <2>2. CASE q # p
    <3>1. AtItsPlace(q) /\ CommonRepeats(q)
      BY DEF DriverInv
    <3>2. /\ pc'[q] = pc[q] /\ inside'[q] = inside[q] /\ n'[q] = n[q]
          /\ trial'[q] = trial[q] /\ nrepeat'[q] = nrepeat[q]
      BY <2>2
    <3>3. AtItsPlace(q)'
      BY <3>1, <3>2 DEF AtItsPlace, Upcoming, InLoop, Passed, Last, Key
    <3>4. CommonRepeats(q)'
      BY <3>1, <3>2 DEF CommonRepeats
    <3> QED BY <3>3, <3>4
  <2> QED BY <2>1, <2>2
<1> QED BY <1>1, <1>2, <1>3 DEF DriverInv

LoopLabels == {"prepost", "prepostNext", "send", "sending", "recv"}

\* Steps inside the message loop, and out of it, do not disturb the invariant.
LEMMA LoopMove ==
  ASSUME Aligned, DriverInv, NEW p \in Proc, NEW label \in LoopLabels \cup {"iterate"},
         UNCHANGED <<inside, colls, n, trial, nrepeat, finished>>,
         InLoop(p), Continue(p, label)
  PROVE  DriverInv'
<1> USE NetPIPEAssumption
<1>1. /\ ~inside[p] /\ colls[p] # << >>
      /\ AfterLoop(n[p], trial[p]) = CallAfter(Last(p))
      /\ Passed(p, "sync")
  BY DEF DriverInv, AtItsPlace, Upcoming, InLoop, CollectiveCalls, Barriers, Bcasts, Gathers, Passed
<1>2. \A q \in Proc : q # p => pc'[q] = pc[q]
  BY DEF Continue, Goto, DriverInv, ControlTypeOK
<1>3. /\ j' \in [Proc -> Nat]
      /\ pc' = [pc EXCEPT ![p] = pc'[p]]
      /\ pc'[p] \in LoopLabels \/ pc'[p] = LoopExit(p)
  <2>1. CASE label = "iterate"
    <3>1. IterationStart(p) \in LoopLabels
      BY DEF IterationStart, LoopLabels
    <3>2. CASE j[p] + 1 < nrepeat[p]
      BY <2>1, <3>1, <3>2 DEF Continue, Goto, DriverInv, ControlTypeOK
    <3>3. CASE ~(j[p] + 1 < nrepeat[p])
      BY <2>1, <3>3 DEF Continue, Goto, DriverInv, ControlTypeOK
    <3> QED BY <3>2, <3>3
  <2>2. CASE label # "iterate"
    BY <2>2 DEF Continue, Goto, DriverInv, ControlTypeOK
  <2> QED BY <2>1, <2>2
<1>4. LoopExit(p) = IF NPairs > 1 THEN "endsync" ELSE "reset"
  BY DEF LoopExit, Aligned, Transmitter
<1>5. ControlTypeOK'
  <2>1. pc'[p] \in Labels
    BY <1>3, <1>4 DEF LoopLabels, Labels, CollectiveCalls, Barriers
  <2> QED BY <1>3, <2>1 DEF DriverInv, ControlTypeOK
<1>6. AtItsPlace(p)'
  <2>1. CASE pc'[p] \in LoopLabels
    BY <1>1, <2>1 DEF AtItsPlace, LoopLabels, InLoop, Passed, Last, Upcoming,
       CollectiveCalls, Barriers, Bcasts, Gathers
  <2>2. CASE NPairs > 1 /\ pc'[p] = "endsync"
    BY <1>1, <2>2 DEF AtItsPlace, InLoop, Last, Upcoming, AfterLoop, CollectiveCalls, Barriers
  <2>3. CASE ~(NPairs > 1) /\ pc'[p] = "reset"
    BY <1>1, <2>3 DEF AtItsPlace, InLoop, Last, Upcoming, AfterLoop, CollectiveCalls,
       Barriers, Bcasts, Gathers
  <2> QED BY <1>3, <1>4, <2>1, <2>2, <2>3
<1>7. CommonRepeats(p)'
  BY DEF DriverInv, CommonRepeats, InLoop
<1> QED BY <1>2, <1>5, <1>6, <1>7, Move

LEMMA DriverSendInv ==
  ASSUME Aligned, DriverInv, NEW p \in Proc, DriverSend(p)
  PROVE  DriverInv'
<1>1. InLoop(p) /\ Continue(p, "sending") /\ UNCHANGED <<inside, colls, loopVars>>
  BY DEF DriverSend, InLoop, Continue, loopVars
<1> QED BY <1>1, LoopMove DEF LoopLabels, loopVars

LEMMA DriverSentInv ==
  ASSUME Aligned, DriverInv, NEW p \in Proc, DriverSent(p)
  PROVE  DriverInv'
<1>1. AfterSend(p) \in LoopLabels \cup {"iterate"}
  BY DEF AfterSend, LoopLabels
<1> QED BY <1>1, LoopMove DEF DriverSent, InLoop

LEMMA DriverRecvInv ==
  ASSUME Aligned, DriverInv, NEW p \in Proc, DriverRecv(p)
  PROVE  DriverInv'
<1>1. AfterRecv(p) \in LoopLabels \cup {"iterate"}
  BY DEF AfterRecv, LoopLabels
<1> QED BY <1>1, LoopMove DEF DriverRecv, InLoop

LEMMA DriverPrepostInv ==
  ASSUME Aligned, DriverInv, NEW p \in Proc, DriverPrepost(p)
  PROVE  DriverInv'
<1>1. CASE pc[p] = "prepostFirst"
  <2>1. pc' = [pc EXCEPT ![p] = "sync"] /\ UNCHANGED <<inside, colls, loopVars>>
    BY <1>1 DEF DriverPrepost, AfterPrepost, Continue, Goto, loopVars
  <2>2. ControlTypeOK'
    BY <2>1 DEF DriverInv, ControlTypeOK, loopVars, Labels, CollectiveCalls, Barriers
  <2>3. pc'[p] = "sync" /\ \A q \in Proc : q # p => pc'[q] = pc[q]
    BY <2>1 DEF DriverInv, ControlTypeOK
  <2>4. AtItsPlace(p)'
    BY <1>1, <2>1, <2>3 DEF DriverInv, AtItsPlace, InLoop, Last, Upcoming, loopVars,
       CollectiveCalls, Barriers, Bcasts, Gathers
  <2>5. CommonRepeats(p)'
    BY <1>1, <2>1 DEF DriverInv, CommonRepeats, loopVars
  <2> QED BY <2>1, <2>2, <2>3, <2>4, <2>5, Move DEF loopVars
<1>2. CASE pc[p] # "prepostFirst"
  <2>1. InLoop(p) /\ AfterPrepost(p) \in LoopLabels \cup {"iterate"}
    BY <1>2 DEF DriverPrepost, InLoop, AfterPrepost, LoopLabels
  <2> QED BY <2>1, LoopMove DEF DriverPrepost
<1> QED BY <1>1, <1>2

LEMMA DriverBurstInv ==
  ASSUME DriverInv, NEW p \in Proc, DriverBurst(p)
  PROVE  DriverInv'
<1>1. /\ pc[p] = "burst"
      /\ pc' = [pc EXCEPT ![p] = "sync"] /\ UNCHANGED <<inside, colls, loopVars>>
  BY DEF DriverBurst, Goto
<1>2. ControlTypeOK'
  BY <1>1 DEF DriverInv, ControlTypeOK, loopVars, Labels, CollectiveCalls, Barriers
<1>3. pc'[p] = "sync" /\ \A q \in Proc : q # p => pc'[q] = pc[q]
  BY <1>1 DEF DriverInv, ControlTypeOK
<1>4. AtItsPlace(p)'
  BY <1>1, <1>3 DEF DriverInv, AtItsPlace, InLoop, Last, Upcoming, loopVars,
     CollectiveCalls, Barriers, Bcasts, Gathers
<1>5. CommonRepeats(p)'
  BY <1>1, <1>3 DEF DriverInv, CommonRepeats, loopVars
<1> QED BY <1>1, <1>2, <1>3, <1>4, <1>5, Move DEF loopVars

-----------------------------------------------------------------------------
(***************************************************************************)
(* Leaving a collective.                                                   *)
(***************************************************************************)

\* Every call but the two barriers of a trial is made with the loop index at 0.
LEMMA TrialIsZero ==
  ASSUME DriverInv, NEW p \in Proc, inside[p], pc[p] \in Bcasts \cup Gathers
  PROVE  trial[p] = 0
<1> DEFINE k == Len(colls[p])
<1>1. k \in 1 .. Len(colls[p]) /\ Key(colls[p][k]) = <<pc[p], n[p], trial[p]>>
  BY DEF DriverInv, ControlTypeOK, AtItsPlace, Last
<1>2. <<pc[p], n[p], trial[p]>> = IF k = 1 THEN FirstCall ELSE CallAfter(colls[p][k - 1])
  BY <1>1 DEF DriverInv, LogInOrder
<1>3. CASE k = 1
  BY <1>2, <1>3 DEF FirstCall
<1>4. CASE k # 1
  BY <1>2, <1>4 DEF CallAfter, NextCall, AfterLoop, AfterTrial, Bcasts, Gathers
<1> QED BY <1>3, <1>4

\* A process that leaves a collective for another place, its log unchanged.
LEMMA LeaveMove ==
  ASSUME DriverInv, NEW p \in Proc, NEW call \in CollectiveCalls, NEW label \in Labels,
         Leave(p, call), Goto(p, label), UNCHANGED <<trial, j>>,
         n' \in [Proc -> Nat], nrepeat' \in [Proc -> Nat], finished' \in [Proc -> Nat],
         \A q \in Proc : q # p => n'[q] = n[q] /\ nrepeat'[q] = nrepeat[q],
         AtItsPlace(p)', CommonRepeats(p)'
  PROVE  DriverInv'
<1>1. pc' = [pc EXCEPT ![p] = label] /\ inside' = [inside EXCEPT ![p] = FALSE] /\ UNCHANGED colls
  BY DEF Goto, Leave
<1>2. \A q \in Proc : q # p => pc'[q] = pc[q] /\ inside'[q] = inside[q]
  BY <1>1 DEF DriverInv, ControlTypeOK
<1>3. ControlTypeOK'
  BY <1>1 DEF DriverInv, ControlTypeOK
<1> QED BY <1>1, <1>2, <1>3, Move

\* What p knows when it leaves a collective.
LEMMA LeaveFacts ==
  ASSUME DriverInv, NEW p \in Proc, NEW call \in CollectiveCalls, NEW label \in Labels,
         Leave(p, call), Goto(p, label)
  PROVE  /\ pc[p] = call /\ inside[p] /\ ~inside'[p] /\ pc'[p] = label
         /\ colls' = colls /\ colls[p] # << >>
         /\ Key(Last(p)) = <<call, n[p], trial[p]>>
         /\ CallAfter(Last(p)) = NextCall(call, n[p], trial[p])
<1>1. pc[p] = call /\ inside[p] /\ ~inside'[p] /\ pc'[p] = label /\ colls' = colls
  BY DEF Leave, Goto, DriverInv, ControlTypeOK
<1>2. colls[p] # << >> /\ Key(Last(p)) = <<call, n[p], trial[p]>>
  BY <1>1 DEF DriverInv, AtItsPlace
<1> QED BY <1>1, <1>2 DEF Key, CallAfter

LEMMA LeaveGatherInv ==
  ASSUME DriverInv, NEW p \in Proc, LeaveGather(p)
  PROVE  DriverInv'
<1> DEFINE label == IF n[p] % NPerts = 0 THEN "finish" ELSE "nrepeat"
<1>1. Leave(p, "gather") /\ Goto(p, label) /\ UNCHANGED <<trial, j, nrepeat, finished>>
  BY DEF LeaveGather
<1>2. "gather" \in CollectiveCalls /\ label \in CollectiveCalls \ {"gather"} /\ label \in Labels
  BY DEF CollectiveCalls, Gathers, Bcasts, Labels
<1>3. /\ pc[p] = "gather" /\ inside[p] /\ ~inside'[p] /\ pc'[p] = label
      /\ colls' = colls /\ colls[p] # << >>
      /\ CallAfter(Last(p)) = NextCall("gather", n[p], trial[p])
  BY <1>1, <1>2, LeaveFacts
<1>4. trial[p] = 0
  BY <1>3, TrialIsZero DEF Gathers
<1>5. /\ n' \in [Proc -> Nat] /\ \A q \in Proc : q # p => n'[q] = n[q]
      /\ n'[p] = IF label = "finish" THEN n[p] ELSE n[p] + 1
  BY DEF LeaveGather, DriverInv, ControlTypeOK
<1>6. AtItsPlace(p)'
  BY <1>1, <1>3, <1>4, <1>5 DEF AtItsPlace, InLoop, Last, Upcoming, NextCall,
     CollectiveCalls, Barriers, Bcasts
<1>7. CommonRepeats(p)'
  BY <1>1, <1>3, <1>5 DEF DriverInv, CommonRepeats
<1> QED BY <1>1, <1>2, <1>5, <1>6, <1>7, LeaveMove DEF DriverInv, ControlTypeOK

LEMMA LeaveTimesInv ==
  ASSUME DriverInv, NEW p \in Proc, LeaveTimes(p)
  PROVE  DriverInv'
<1>1. PICK step \in {<<"mintime", "maxtime">>, <<"maxtime", "avgtime">>, <<"avgtime", "gather">>} :
        Leave(p, step[1]) /\ Goto(p, step[2]) /\ UNCHANGED <<loopVars, bufVars>>
  BY DEF LeaveTimes
<1>2. step[1] \in CollectiveCalls /\ step[2] \in CollectiveCalls /\ step[2] \in Labels
  BY DEF CollectiveCalls, Gathers, Labels
<1>3. UNCHANGED <<n, trial, j, nrepeat, finished>>
  BY <1>1 DEF loopVars
<1>4. /\ pc[p] = step[1] /\ inside[p] /\ ~inside'[p] /\ pc'[p] = step[2]
      /\ colls' = colls /\ colls[p] # << >>
      /\ CallAfter(Last(p)) = NextCall(step[1], n[p], trial[p])
  BY <1>1, <1>2, LeaveFacts
<1>5. trial[p] = 0
  BY <1>4, TrialIsZero DEF Gathers
<1>6. NextCall(step[1], n[p], trial[p]) = <<step[2], n[p], 0>>
  BY DEF NextCall
<1>7. AtItsPlace(p)'
  BY <1>2, <1>3, <1>4, <1>5, <1>6 DEF AtItsPlace, InLoop, Last, Upcoming,
     CollectiveCalls, Barriers, Bcasts
<1>8. CommonRepeats(p)'
  BY <1>3, <1>4 DEF DriverInv, CommonRepeats
<1> QED BY <1>1, <1>2, <1>3, <1>7, <1>8, LeaveMove DEF DriverInv, ControlTypeOK

LEMMA LeaveSyncInv ==
  ASSUME DriverInv, NEW p \in Proc, LeaveSync(p)
  PROVE  DriverInv'
<1> DEFINE label == IterationStart(p)
<1>1. Leave(p, "sync") /\ Goto(p, label) /\ UNCHANGED <<n, trial, j, nrepeat, finished>>
  BY DEF LeaveSync, loopVars
<1>2. "sync" \in CollectiveCalls /\ label \in LoopLabels /\ label \in Labels
  BY DEF CollectiveCalls, Barriers, IterationStart, LoopLabels, Labels
<1>3. /\ pc[p] = "sync" /\ inside[p] /\ ~inside'[p] /\ pc'[p] = label
      /\ colls' = colls /\ colls[p] # << >>
      /\ Key(Last(p)) = <<"sync", n[p], trial[p]>>
      /\ CallAfter(Last(p)) = NextCall("sync", n[p], trial[p])
  BY <1>1, <1>2, LeaveFacts
<1>4. \A q \in Proc : Len(colls[q]) >= Len(colls[p])
  <2>1. Op(pc[p]) = "barrier"
    BY <1>3 DEF Op, Barriers, Bcasts
  <2>2. \A q \in Proc : Joined(p, q)
    BY <1>1, <2>1 DEF Leave, MayLeave
  <2> QED BY <2>2 DEF Joined
<1>5. NextCall("sync", n[p], trial[p]) = AfterLoop(n[p], trial[p])
  BY DEF NextCall
<1>6. AtItsPlace(p)'
  BY <1>1, <1>2, <1>3, <1>4, <1>5 DEF AtItsPlace, InLoop, Last, Upcoming, Passed,
     LoopLabels, CollectiveCalls, Barriers, Bcasts, Gathers
<1>7. CommonRepeats(p)'
  BY <1>1, <1>3 DEF DriverInv, CommonRepeats
<1> QED BY <1>1, <1>2, <1>6, <1>7, LeaveMove DEF DriverInv, ControlTypeOK

LEMMA LeaveEndsyncInv ==
  ASSUME DriverInv, NEW p \in Proc, LeaveEndsync(p)
  PROVE  DriverInv'
<1>1. Leave(p, "endsync") /\ Goto(p, "reset") /\ UNCHANGED <<n, trial, j, nrepeat, finished>>
  BY DEF LeaveEndsync, loopVars
<1>2. "endsync" \in CollectiveCalls /\ "reset" \in Labels
  BY DEF CollectiveCalls, Barriers, Labels
<1>3. /\ pc[p] = "endsync" /\ inside[p] /\ ~inside'[p] /\ pc'[p] = "reset"
      /\ colls' = colls /\ colls[p] # << >>
      /\ Key(Last(p)) = <<"endsync", n[p], trial[p]>>
      /\ CallAfter(Last(p)) = NextCall("endsync", n[p], trial[p])
  BY <1>1, <1>2, LeaveFacts
<1>4. \A q \in Proc : Len(colls[q]) >= Len(colls[p])
  <2>1. Op(pc[p]) = "barrier"
    BY <1>3 DEF Op, Barriers, Bcasts
  <2>2. \A q \in Proc : Joined(p, q)
    BY <1>1, <2>1 DEF Leave, MayLeave
  <2> QED BY <2>2 DEF Joined
<1>5. NextCall("endsync", n[p], trial[p]) = AfterTrial(n[p], trial[p])
  BY DEF NextCall
<1>6. AtItsPlace(p)'
  BY <1>1, <1>3, <1>4, <1>5 DEF AtItsPlace, InLoop, Last, Upcoming, Passed,
     CollectiveCalls, Barriers, Bcasts, Gathers
<1>7. CommonRepeats(p)'
  BY <1>1, <1>3 DEF DriverInv, CommonRepeats
<1> QED BY <1>1, <1>2, <1>6, <1>7, LeaveMove DEF DriverInv, ControlTypeOK

\* What a process knows when it leaves a broadcast: process 0 is in the same one
\* or past it, and has told the value.
LEMMA BcastFacts ==
  ASSUME DriverInv, NEW p \in Proc, NEW call \in Bcasts, Leave(p, call)
  PROVE  /\ Len(colls[p]) \in 1 .. Len(colls[0])
         /\ colls[p][Len(colls[p])].call = call
         /\ colls[p][Len(colls[p])].n = n[p]
         /\ colls[0][Len(colls[p])].call = call
         /\ colls[0][Len(colls[p])] \in CallRecord
         /\ RootValue(p) \in Nat
         /\ call = "nrepeat" => RootValue(p) \in Repeats
<1> USE NetPIPEAssumption
<1> DEFINE k == Len(colls[p])
<1>1. 0 \in Proc
  BY DEF Proc, NProcs
<1>2. pc[p] = call /\ inside[p] /\ call \in CollectiveCalls
  BY DEF Leave, CollectiveCalls
<1>3. colls[p] # << >> /\ Key(colls[p][k]) = <<call, n[p], trial[p]>>
  BY <1>2 DEF DriverInv, AtItsPlace, Last
<1>4. k <= Len(colls[0])
  BY <1>2 DEF Leave, MayLeave, Op, Bcasts, Barriers, Joined
<1>5. k \in 1 .. Len(colls[0])
  BY <1>1, <1>3, <1>4 DEF DriverInv, ControlTypeOK
<1>6. colls[0][k] \in CallRecord
  BY <1>1, <1>5 DEF DriverInv, ControlTypeOK
<1>7. colls[p][k].call = call /\ colls[p][k].n = n[p]
  BY <1>3 DEF Key
<1>8. k \in 1 .. Len(colls[p])
  BY <1>3 DEF DriverInv, ControlTypeOK
<1>9. colls[0][k].call = call
  BY <1>1, <1>4, <1>7, <1>8 DEF DriverInv, CollectivesMatch
<1>10. call = "nrepeat" => colls[0][k].val \in Repeats
  BY <1>1, <1>5, <1>9 DEF DriverInv, LogInOrder
<1> QED BY <1>5, <1>6, <1>7, <1>9, <1>10 DEF RootValue, CallRecord

LEMMA TrialStartLabel ==
  ASSUME NEW p \in Proc
  PROVE  TrialStart(p) \in {"burst", "prepostFirst", "sync"}
BY DEF TrialStart

LEMMA LeaveNrepeatInv ==
  ASSUME DriverInv, NEW p \in Proc, LeaveNrepeat(p)
  PROVE  DriverInv'
<1> DEFINE label == TrialStart(p)
           k == Len(colls[p])
<1>1. Leave(p, "nrepeat") /\ Goto(p, label) /\ UNCHANGED <<n, trial, j, finished>>
  BY DEF LeaveNrepeat
<1>2. "nrepeat" \in CollectiveCalls /\ "nrepeat" \in Bcasts /\ label \in Labels
  BY TrialStartLabel DEF CollectiveCalls, Bcasts, Barriers, Labels
<1>3. /\ pc[p] = "nrepeat" /\ inside[p] /\ ~inside'[p] /\ pc'[p] = label
      /\ colls' = colls /\ colls[p] # << >>
      /\ CallAfter(Last(p)) = NextCall("nrepeat", n[p], trial[p])
  BY <1>1, <1>2, LeaveFacts
<1>4. trial[p] = 0
  BY <1>2, <1>3, TrialIsZero
<1>5. /\ k \in 1 .. Len(colls[0])
      /\ colls[p][k].call = "nrepeat" /\ colls[p][k].n = n[p]
      /\ RootValue(p) \in Nat /\ RootValue(p) = colls[0][k].val
  BY <1>1, <1>2, BcastFacts DEF RootValue
<1>6. /\ nrepeat' \in [Proc -> Nat] /\ nrepeat'[p] = RootValue(p)
      /\ \A q \in Proc : q # p => nrepeat'[q] = nrepeat[q]
  BY <1>5 DEF LeaveNrepeat, DriverInv, ControlTypeOK
<1>7. NextCall("nrepeat", n[p], trial[p]) = <<"sync", n[p], 0>>
  BY DEF NextCall
<1>8. AtItsPlace(p)'
  BY <1>1, <1>3, <1>4, <1>7, TrialStartLabel DEF AtItsPlace, InLoop, Last, Upcoming,
     CollectiveCalls, Barriers, Bcasts, Gathers
<1>9. CommonRepeats(p)'
  BY <1>1, <1>3, <1>5, <1>6 DEF CommonRepeats
<1> QED BY <1>1, <1>2, <1>6, <1>8, <1>9, LeaveMove DEF DriverInv, ControlTypeOK

LEMMA LeaveFinishInv ==
  ASSUME DriverInv, NEW p \in Proc, LeaveFinish(p)
  PROVE  DriverInv'
<1> DEFINE label == IF RootValue(p) # 0 THEN "done" ELSE "nrepeat"
<1>1. Leave(p, "finish") /\ Goto(p, label) /\ UNCHANGED <<trial, j, nrepeat>>
  BY DEF LeaveFinish
<1>2. "finish" \in CollectiveCalls /\ "finish" \in Bcasts /\ label \in Labels
  BY DEF CollectiveCalls, Bcasts, Labels
<1>3. /\ pc[p] = "finish" /\ inside[p] /\ ~inside'[p] /\ pc'[p] = label
      /\ colls' = colls /\ colls[p] # << >>
      /\ CallAfter(Last(p)) = NextCall("finish", n[p], trial[p])
  BY <1>1, <1>2, LeaveFacts
<1>4. trial[p] = 0
  BY <1>2, <1>3, TrialIsZero
<1>5. /\ n' \in [Proc -> Nat] /\ \A q \in Proc : q # p => n'[q] = n[q]
      /\ n'[p] = IF label = "done" THEN n[p] ELSE n[p] + 1
  <2>1. CASE RootValue(p) # 0
    BY <2>1 DEF LeaveFinish, DriverInv, ControlTypeOK
  <2>2. CASE RootValue(p) = 0
    <3>1. n' = [n EXCEPT ![p] = @ + 1] /\ label # "done"
      BY <2>2 DEF LeaveFinish
    <3>2. n \in [Proc -> Nat]
      BY DEF DriverInv, ControlTypeOK
    <3> HIDE DEF label
    <3> QED BY <3>1, <3>2
  <2> QED BY <2>1, <2>2
<1>6. finished' \in [Proc -> Nat]
  BY <1>1, <1>2, BcastFacts DEF LeaveFinish, DriverInv, ControlTypeOK
<1>7. NextCall("finish", n[p], trial[p]) = <<"nrepeat", n[p] + 1, 0>>
  BY DEF NextCall
<1>8. AtItsPlace(p)'
  BY <1>1, <1>3, <1>4, <1>5, <1>7 DEF AtItsPlace, InLoop, Last, Upcoming,
     CollectiveCalls, Barriers, Bcasts, Gathers
<1>9. CommonRepeats(p)'
  BY <1>1, <1>3, <1>5 DEF DriverInv, CommonRepeats
<1> QED BY <1>1, <1>2, <1>5, <1>6, <1>8, <1>9, LeaveMove DEF DriverInv, ControlTypeOK

LEMMA DriverResetInv ==
  ASSUME DriverInv, NEW p \in Proc, DriverReset(p)
  PROVE  DriverInv'
<1> USE NetPIPEAssumption
<1> DEFINE again == trial[p] + 1 < NTrials
           label == IF again THEN TrialStart(p)
                    ELSE IF Mode = "stream" THEN "mintime" ELSE "gather"
<1>1. pc[p] = "reset" /\ UNCHANGED <<inside, colls, n, j, nrepeat, finished>>
  BY DEF DriverReset
<1>2. label \in Labels
  BY TrialStartLabel DEF Labels, CollectiveCalls, Barriers, Gathers
<1>3. pc' = [pc EXCEPT ![p] = label]
      /\ trial' = [trial EXCEPT ![p] = IF again THEN trial[p] + 1 ELSE 0]
  BY DEF DriverReset, Goto
<1>4. ControlTypeOK'
  <2>1. pc' \in [Proc -> Labels]
    BY <1>2, <1>3 DEF DriverInv, ControlTypeOK
  <2>2. trial' \in [Proc -> 0 .. NTrials - 1]
    BY <1>3 DEF DriverInv, ControlTypeOK
  <2> QED BY <1>1, <2>1, <2>2 DEF DriverInv, ControlTypeOK
<1>5. /\ pc'[p] = label /\ trial'[p] = IF again THEN trial[p] + 1 ELSE 0
      /\ \A q \in Proc : q # p => pc'[q] = pc[q] /\ trial'[q] = trial[q]
  BY <1>3 DEF DriverInv, ControlTypeOK
<1>6. /\ ~inside[p]
      /\ AfterTrial(n[p], trial[p]) = IF colls[p] = << >> THEN FirstCall ELSE CallAfter(Last(p))
  BY <1>1 DEF DriverInv, AtItsPlace, Upcoming, InLoop, CollectiveCalls, Barriers, Bcasts, Gathers
<1>7. AfterTrial(n[p], trial[p]) = IF again THEN <<"sync", n[p], trial[p] + 1>>
                                   ELSE <<IF Mode = "stream" THEN "mintime" ELSE "gather", n[p], 0>>
  BY DEF AfterTrial
<1>8. AtItsPlace(p)'
  <2>1. CASE again
    BY <1>1, <1>5, <1>6, <1>7, <2>1, TrialStartLabel DEF AtItsPlace, InLoop, Last, Upcoming,
       CollectiveCalls, Barriers, Bcasts, Gathers
  <2>2. CASE ~again
    BY <1>1, <1>5, <1>6, <1>7, <2>2 DEF AtItsPlace, InLoop, Last, Upcoming,
       CollectiveCalls, Barriers, Bcasts, Gathers
  <2> QED BY <2>1, <2>2
<1>9. CommonRepeats(p)'
  BY <1>1 DEF DriverInv, CommonRepeats
<1> QED BY <1>1, <1>4, <1>5, <1>8, <1>9, Move

-----------------------------------------------------------------------------
(***************************************************************************)
(* Entering a collective.                                                  *)
(***************************************************************************)

\* The number of the test never decreases from a call to the next, and grows
\* when the next is the broadcast of nrepeat.
LEMMA CallsGrow ==
  ASSUME NEW r \in CallRecord
  PROVE  /\ CallAfter(r)[2] \in Nat
         /\ CallAfter(r)[2] >= r.n
         /\ CallAfter(r)[1] = "nrepeat" => CallAfter(r)[2] > r.n
<1>1. r.n \in Nat /\ r.call \in CollectiveCalls
  BY DEF CallRecord
<1>2. \/ CallAfter(r)[2] = r.n /\ CallAfter(r)[1] # "nrepeat"
      \/ CallAfter(r)[2] = r.n + 1
  <2>1. \A m, t : /\ AfterTrial(m, t)[1] # "nrepeat" /\ AfterTrial(m, t)[2] = m
                  /\ AfterLoop(m, t)[1] # "nrepeat" /\ AfterLoop(m, t)[2] = m
    BY DEF AfterTrial, AfterLoop
  <2>2. CASE r.call \in Barriers
    BY <2>1, <2>2 DEF CallAfter, NextCall, Barriers
  <2>3. CASE r.call \in Bcasts \cup Gathers
    BY <2>3 DEF CallAfter, NextCall, Bcasts, Gathers
  <2> QED BY <1>1, <2>2, <2>3 DEF CollectiveCalls
<1> QED BY <1>1, <1>2

LEMMA EnterInv ==
  ASSUME DriverInv, NEW p \in Proc, EnterCollective(p)
  PROVE  DriverInv'
<1> USE NetPIPEAssumption
<1> DEFINE k == Len(colls[p]) + 1
<1>1. PICK v \in Contribution(p) :
        /\ colls' = [colls EXCEPT ![p] = Append(@,
                       [call |-> pc[p], n |-> n[p], trial |-> trial[p], val |-> v])]
        /\ nrepeat'  = [nrepeat EXCEPT ![p] = IF pc[p] = "nrepeat" THEN v ELSE @]
        /\ finished' = [finished EXCEPT ![p] = IF pc[p] = "finish" THEN v ELSE @]
  BY DEF EnterCollective
<1>2. /\ pc[p] \in CollectiveCalls /\ ~inside[p]
      /\ inside' = [inside EXCEPT ![p] = TRUE] /\ UNCHANGED <<pc, n, trial, j>>
  BY DEF EnterCollective
<1>3. v \in Nat /\ (pc[p] = "nrepeat" => v \in Repeats)
  BY DEF Contribution
<1> DEFINE r == [call |-> pc[p], n |-> n[p], trial |-> trial[p], val |-> v]
<1>4. r \in CallRecord
  BY <1>2, <1>3 DEF CallRecord, DriverInv, ControlTypeOK
<1>5. ControlTypeOK'
  <2>1. colls' \in [Proc -> Seq(CallRecord)]
    BY <1>1, <1>4 DEF DriverInv, ControlTypeOK
  <2>2. nrepeat' \in [Proc -> Nat] /\ finished' \in [Proc -> Nat]
    BY <1>1, <1>3 DEF DriverInv, ControlTypeOK
  <2>3. inside' \in [Proc -> BOOLEAN]
    BY <1>2 DEF DriverInv, ControlTypeOK
  <2> QED BY <1>2, <2>1, <2>2, <2>3 DEF DriverInv, ControlTypeOK
<1>6. /\ colls[p] \in Seq(CallRecord) /\ colls'[p] = Append(colls[p], r)
      /\ \A q \in Proc : q # p => colls'[q] = colls[q]
  BY <1>1 DEF DriverInv, ControlTypeOK
<1>7. /\ Len(colls'[p]) = k /\ k \in Nat /\ k >= 1 /\ colls'[p][k] = r
      /\ \A m \in 1 .. k - 1 : colls'[p][m] = colls[p][m]
      /\ Len(colls[p]) = k - 1
  BY <1>4, <1>6
<1>8. Key(r) = IF k = 1 THEN FirstCall ELSE CallAfter(colls[p][k - 1])
  <2>1. Key(r) = Upcoming(p)
    <3>1. Upcoming(p) = <<pc[p], n[p], trial[p]>>
      BY <1>2 DEF Upcoming, InLoop, CollectiveCalls, Barriers, Bcasts, Gathers
    <3> QED BY <3>1 DEF Key
  <2>2. pc[p] # "done"
    BY <1>2 DEF CollectiveCalls, Barriers, Bcasts, Gathers
  <2>3. colls[p] = << >> <=> k = 1
    BY <1>6
  <2> QED BY <1>2, <1>7, <2>1, <2>2, <2>3 DEF DriverInv, AtItsPlace, Last
<1> HIDE DEF r
<1>9. \A q \in Proc : \A m \in 1 .. Len(colls[q]) :
        colls'[q][m] = colls[q][m] /\ m <= Len(colls'[q])
  <2>1. ASSUME NEW q \in Proc, NEW m \in 1 .. Len(colls[q])
        PROVE  colls'[q][m] = colls[q][m] /\ m <= Len(colls'[q])
    <3>1. CASE q = p
      BY <1>7, <2>1, <3>1
    <3>2. CASE q # p
      BY <1>6, <2>1, <3>2
    <3> QED BY <3>1, <3>2
  <2> QED BY <2>1
<1>10. LogInOrder(p)'
  <2>1. ASSUME NEW m \in 1 .. k - 1
        PROVE  r.n >= colls[p][m].n /\ (r.call = "nrepeat" => r.n > colls[p][m].n)
    <3> DEFINE last == colls[p][k - 1]
    <3>1. k # 1 /\ k - 1 \in 1 .. Len(colls[p])
      BY <1>7, <2>1
    <3>2. last \in CallRecord /\ colls[p][m] \in CallRecord
      BY <1>6, <1>7, <2>1, <3>1
    <3>3. colls[p][m].n <= last.n
      BY <1>7, <2>1, <3>1, <3>2 DEF DriverInv, LogInOrder, CallRecord
    <3>4. r.n = CallAfter(last)[2] /\ r.call = CallAfter(last)[1]
      BY <1>8, <3>1 DEF Key
    <3>5. colls[p][m].n \in Nat /\ last.n \in Nat
      BY <3>2 DEF CallRecord
    <3> HIDE DEF last
    <3> QED BY <3>2, <3>3, <3>4, <3>5, CallsGrow
  <2>2. r.call = "nrepeat" => r.val \in Repeats
    BY <1>3 DEF r
  <2>3. ASSUME NEW m \in 1 .. Len(colls'[p])
        PROVE  /\ Key(colls'[p][m]) = IF m = 1 THEN FirstCall ELSE CallAfter(colls'[p][m - 1])
               /\ colls'[p][m].call = "nrepeat" => colls'[p][m].val \in Repeats
               /\ \A l \in 1 .. m - 1 :
                    /\ colls'[p][l].n <= colls'[p][m].n
                    /\ colls'[p][m].call = "nrepeat" => colls'[p][l].n < colls'[p][m].n
    <3>1. CASE m = k
      <4>1. /\ colls'[p][m] = r
            /\ \A l \in 1 .. m - 1 : colls'[p][l] = colls[p][l] /\ colls[p][l].n \in Nat
        <5>1. \A l \in 1 .. k - 1 : colls[p][l] \in CallRecord
          BY <1>6, <1>7
        <5> QED BY <1>7, <3>1, <5>1 DEF CallRecord
      <4>2. m # 1 => colls'[p][m - 1] = colls[p][m - 1]
        BY <1>7, <2>3, <3>1
      <4>3. r.n \in Nat
        BY <1>4 DEF CallRecord
      <4> QED BY <1>8, <2>1, <2>2, <3>1, <4>1, <4>2, <4>3
    <3>2. CASE m # k
      <4>1. m \in 1 .. Len(colls[p]) /\ \A l \in 1 .. m : colls'[p][l] = colls[p][l]
        BY <1>7, <2>3, <3>2
      <4>2. /\ Key(colls[p][m]) = IF m = 1 THEN FirstCall ELSE CallAfter(colls[p][m - 1])
            /\ colls[p][m].call = "nrepeat" => colls[p][m].val \in Repeats
            /\ \A l \in 1 .. m - 1 :
                 /\ colls[p][l].n <= colls[p][m].n
                 /\ colls[p][m].call = "nrepeat" => colls[p][l].n < colls[p][m].n
        BY <4>1 DEF DriverInv, LogInOrder
      <4> QED BY <4>1, <4>2
    <3> QED BY <3>1, <3>2
  <2> QED BY <2>3 DEF LogInOrder
<1>11. CollectivesMatch'
  <2>1. ASSUME NEW q \in Proc, q # p, k <= Len(colls[q])
        PROVE  Key(colls[q][k]) = Key(r)
    <3>1. k \in 1 .. Len(colls[q])
      BY <1>7, <2>1 DEF DriverInv, ControlTypeOK
    <3>2. Key(colls[q][k]) = IF k = 1 THEN FirstCall ELSE CallAfter(colls[q][k - 1])
      BY <3>1 DEF DriverInv, LogInOrder
    <3>3. CASE k = 1
      BY <1>8, <3>2, <3>3
    <3>4. CASE k # 1
      <4>1. /\ colls[q][k - 1].call = colls[p][k - 1].call
            /\ colls[q][k - 1].n = colls[p][k - 1].n
            /\ colls[q][k - 1].trial = colls[p][k - 1].trial
        <5>1. k - 1 \in 1 .. Len(colls[p]) /\ k - 1 <= Len(colls[q])
          BY <1>7, <3>1, <3>4
        <5> QED BY <5>1 DEF DriverInv, CollectivesMatch
      <4> QED BY <1>8, <3>2, <3>4, <4>1 DEF CallAfter
    <3> QED BY <3>3, <3>4
  <2>2. ASSUME NEW q1 \in Proc, NEW q2 \in Proc,
               NEW m \in 1 .. Len(colls'[q1]), m <= Len(colls'[q2])
        PROVE  Key(colls'[q1][m]) = Key(colls'[q2][m])
    <3>1. CASE q1 = q2
      BY <3>1
    <3>2. CASE q1 = p /\ q2 # p /\ m = k
      BY <1>6, <1>7, <2>1, <2>2, <3>2
    <3>3. CASE q2 = p /\ q1 # p /\ m = k
      BY <1>6, <1>7, <2>1, <2>2, <3>3
    <3>4. CASE q1 # q2 /\ ~(p \in {q1, q2} /\ m = k)
      <4>1. m \in 1 .. Len(colls[q1]) /\ m <= Len(colls[q2])
        BY <1>6, <1>7, <2>2, <3>4
      <4>2. m \in 1 .. Len(colls[q2])
        BY <4>1 DEF DriverInv, ControlTypeOK
      <4>3. Key(colls[q1][m]) = Key(colls[q2][m])
        BY <4>1 DEF DriverInv, CollectivesMatch, Key
      <4> QED BY <1>9, <4>1, <4>2, <4>3
    <3> QED BY <3>1, <3>2, <3>3, <3>4
  <2> QED BY <2>2 DEF CollectivesMatch, Key
<1>12. ASSUME NEW q \in Proc PROVE AtItsPlace(q)'
  <2>1. AtItsPlace(q)
    BY DEF DriverInv
  <2>2. \A q1 \in Proc : Len(colls[q1]) \in Nat /\ Len(colls'[q1]) \in Nat
                         /\ Len(colls'[q1]) >= Len(colls[q1])
    <3>1. ASSUME NEW q1 \in Proc PROVE Len(colls[q1]) \in Nat
      BY DEF DriverInv, ControlTypeOK
    <3>2. ASSUME NEW q1 \in Proc
          PROVE  Len(colls'[q1]) = IF q1 = p THEN Len(colls[q1]) + 1 ELSE Len(colls[q1])
      BY <1>6, <1>7, <3>2
    <3> QED BY <3>1, <3>2
  <2>3. CASE q = p
    <3>1. /\ pc'[p] = pc[p] /\ n'[p] = n[p] /\ trial'[p] = trial[p] /\ inside'[p]
          /\ pc[p] # "reset" /\ ~InLoop(p)
      BY <1>2 DEF InLoop, CollectiveCalls, Barriers, Bcasts, Gathers, DriverInv, ControlTypeOK
    <3>2. colls'[p] # << >> /\ Last(p)' = r
      BY <1>6, <1>7 DEF Last
    <3>3. Key(r) = <<pc[p], n[p], trial[p]>>
      BY DEF r, Key
    <3> QED BY <1>2, <2>3, <3>1, <3>2, <3>3 DEF AtItsPlace, InLoop, Key
  <2>4. CASE q # p
    <3>1. /\ pc'[q] = pc[q] /\ n'[q] = n[q] /\ trial'[q] = trial[q] /\ inside'[q] = inside[q]
          /\ colls'[q] = colls[q]
      BY <1>2, <1>6, <2>4 DEF DriverInv, ControlTypeOK
    <3>2. \A call : Passed(q, call) => Passed(q, call)'
      BY <2>2, <3>1 DEF Passed, Key, Last
    <3> QED BY <2>1, <3>1, <3>2 DEF AtItsPlace, InLoop, Upcoming, Key, Last
  <2> QED BY <2>3, <2>4
<1>13. ASSUME NEW q \in Proc PROVE CommonRepeats(q)'
  <2>1. SUFFICES ASSUME pc'[q] # "nrepeat"
                 PROVE  \E m \in 1 .. Len(colls'[q]) :
                          /\ m <= Len(colls'[0])
                          /\ colls'[q][m].call = "nrepeat" /\ colls'[q][m].n = n'[q]
                          /\ nrepeat'[q] = colls'[0][m].val
    BY DEF CommonRepeats
  <2>2. PICK m \in 1 .. Len(colls[q]) :
          /\ m <= Len(colls[0])
          /\ colls[q][m].call = "nrepeat" /\ colls[q][m].n = n[q]
          /\ nrepeat[q] = colls[0][m].val
    BY <1>2, <2>1 DEF DriverInv, CommonRepeats
  <2>3. 0 \in Proc
    BY DEF Proc, NProcs
  <2>4. m \in 1 .. Len(colls[0]) /\ Len(colls[q]) \in Nat /\ Len(colls'[q]) \in Nat
        /\ Len(colls'[0]) \in Nat
    <3>1. ASSUME NEW q1 \in Proc PROVE Len(colls[q1]) \in Nat
      BY DEF DriverInv, ControlTypeOK
    <3>2. ASSUME NEW q1 \in Proc PROVE Len(colls'[q1]) \in Nat
      BY <1>5 DEF ControlTypeOK
    <3> QED BY <2>2, <2>3, <3>1, <3>2
  <2>5. /\ colls'[q][m] = colls[q][m] /\ m \in 1 .. Len(colls'[q])
        /\ colls'[0][m] = colls[0][m] /\ m <= Len(colls'[0])
    BY <1>9, <2>2, <2>3, <2>4
  <2>6. nrepeat'[q] = nrepeat[q] /\ n'[q] = n[q]
    BY <1>1, <1>2, <2>1 DEF DriverInv, ControlTypeOK
  <2> QED BY <2>2, <2>5, <2>6
<1>14. ASSUME NEW q \in Proc PROVE LogInOrder(q)'
  <2>1. CASE q # p
    BY <1>6, <2>1 DEF DriverInv, LogInOrder
  <2> QED BY <1>10, <2>1
<1> QED BY <1>5, <1>11, <1>12, <1>13, <1>14 DEF DriverInv
-----------------------------------------------------------------------------
(***************************************************************************)
(* What the invariant gives.                                               *)
(***************************************************************************)

\* Two processes that are both past the last barrier of the other are at the
\* same call of their logs.
LEMMA SameCall ==
  ASSUME DriverInv, NEW p \in Proc, NEW q \in Proc, NEW c, NEW d, Passed(p, c), Passed(q, d)
  PROVE  /\ Len(colls[p]) = Len(colls[q])
         /\ c = d /\ n[p] = n[q] /\ trial[p] = trial[q]
<1>1. /\ Len(colls[p]) \in Nat /\ Len(colls[q]) \in Nat
      /\ colls[p] # << >> /\ colls[q] # << >>
      /\ Key(Last(p)) = <<c, n[p], trial[p]>> /\ Key(Last(q)) = <<d, n[q], trial[q]>>
  BY DEF DriverInv, ControlTypeOK, Passed
<1>2. Len(colls[p]) = Len(colls[q])
  BY <1>1 DEF Passed
<1>3. Key(Last(p)) = Key(Last(q))
  <2>1. Len(colls[p]) \in 1 .. Len(colls[p])
    BY <1>1 DEF DriverInv, ControlTypeOK
  <2> QED BY <1>2, <2>1 DEF DriverInv, CollectivesMatch, Last, Key
<1> QED BY <1>1, <1>2, <1>3

LEMMA InvTrialsDoNotOverlap == DriverInv => TrialsDoNotOverlap
<1> SUFFICES ASSUME DriverInv, NEW p \in Proc, NEW q \in Proc, InLoop(p), InLoop(q)
             PROVE  n[p] = n[q] /\ trial[p] = trial[q] /\ nrepeat[p] = nrepeat[q]
  BY DEF TrialsDoNotOverlap
<1>1. n[p] = n[q] /\ trial[p] = trial[q] /\ Len(colls[p]) = Len(colls[q])
  <2>1. Passed(p, "sync") /\ Passed(q, "sync")
    BY DEF DriverInv, AtItsPlace
  <2> QED BY <2>1, SameCall
<1>2. PICK k \in 1 .. Len(colls[p]) :
        /\ colls[p][k].call = "nrepeat" /\ colls[p][k].n = n[p]
        /\ nrepeat[p] = colls[0][k].val
  BY DEF DriverInv, CommonRepeats, InLoop
<1>3. PICK m \in 1 .. Len(colls[q]) :
        /\ colls[q][m].call = "nrepeat" /\ colls[q][m].n = n[q]
        /\ nrepeat[q] = colls[0][m].val
  BY DEF DriverInv, CommonRepeats, InLoop
<1>4. colls[p][m].call = "nrepeat" /\ colls[p][m].n = n[p] /\ m \in 1 .. Len(colls[p])
  BY <1>1, <1>3 DEF DriverInv, CollectivesMatch
<1>5. k = m
  <2>1. \A l1, l2 \in 1 .. Len(colls[p]) :
          l1 < l2 /\ colls[p][l2].call = "nrepeat" => colls[p][l1].n < colls[p][l2].n
    BY DEF DriverInv, ControlTypeOK, LogInOrder
  <2>2. ~(n[p] < n[p]) /\ k \in Int /\ m \in Int
    BY DEF DriverInv, ControlTypeOK
  <2> QED BY <1>2, <1>4, <2>1, <2>2
<1> QED BY <1>1, <1>2, <1>3, <1>5

LEMMA InvClockCoversAllPairs == DriverInv => ClockCoversAllPairs
<1> SUFFICES ASSUME DriverInv, NPairs > 1, pc[0] = "reset", NEW p \in Proc, InLoop(p)
             PROVE  FALSE
  BY DEF ClockCoversAllPairs
<1>1. 0 \in Proc
  BY NetPIPEAssumption DEF Proc, NProcs
<1>2. Passed(0, "endsync") /\ Passed(p, "sync")
  BY <1>1 DEF DriverInv, AtItsPlace
<1> QED BY <1>1, <1>2, SameCall
-----------------------------------------------------------------------------
(***************************************************************************)
(* The rounds of the main loop: how far the processes are from each other. *)
(* A trial of a test is a round; its first Sync() makes a process wait     *)
(* until every other has called it, so none is ever more than a round      *)
(* ahead, and only of processes that are bound to run their round.         *)
(***************************************************************************)

Tests       == NPerts * MaxTests
TrialLabels == LoopLabels \cup {"endsync", "reset"}
RoundLabels == TrialLabels \cup {"burst", "prepostFirst", "sync"}

\* p has left the Sync() that opens its trial.
InTrial(p) == pc[p] \in TrialLabels

\* p has at least called it.
Committed(p) == InTrial(p) \/ (pc[p] = "sync" /\ inside[p])

\* p is in a trial, and has not called it.
Waiting(p) == pc[p] \in {"burst", "prepostFirst"} \/ (pc[p] = "sync" /\ ~inside[p])

\* The places of a test in their order, the calls of a trial being one.
Stage(label, t) ==
  IF label = "nrepeat" THEN 0 ELSE IF label \in RoundLabels THEN t + 1 ELSE NTrials + 1

Place(p) == Stage(pc[p], trial[p])

\* The call r is one that p, where it is, may have made.
Behind(r, p) ==
  \/ r.n < n[p]
  \/ r.n = n[p] /\ Stage(r.call, r.trial) < Place(p)
  \/ r.n = n[p] /\ Stage(r.call, r.trial) = Place(p) /\ ~Waiting(p)

\* Every process has made the call that opens p's trial.
Synced(p) ==
  \E k \in 1 .. Len(colls[p]) :
    /\ Key(colls[p][k]) = <<"sync", n[p], trial[p]>>
    /\ \A q \in Proc : k <= Len(colls[q])

\* The rounds p has finished (and those of the test before the first).
Round(p) ==
  n[p] * NTrials + (IF pc[p] = "nrepeat" THEN 0
                    ELSE IF pc[p] \in RoundLabels THEN trial[p] ELSE NTrials)

\* Process 0 ends the main loop in its last test at the latest.
LastTestEnds(r) == r.call = "finish" /\ r.n >= Tests => r.val # 0

Rounded(p) ==
  /\ n[p] \in 1 .. Tests
  /\ \A k \in 1 .. Len(colls[p]) : Behind(colls[p][k], p) /\ LastTestEnds(colls[p][k])
  /\ InTrial(p) => Synced(p)
  /\ IF InLoop(p) THEN j[p] < nrepeat[p] ELSE j[p] = 0

\* The invariant of the rounds.
RoundInv ==
  /\ \A p \in Proc : Rounded(p)
  /\ \A p, q \in Proc : Round(p) > Round(q) => Round(p) = Round(q) + 1 /\ Committed(q)

\* The labels of the three parts of a test.
LEMMA LabelParts ==
  ASSUME NEW label \in Labels, label \notin RoundLabels
  PROVE  label \in {"nrepeat", "mintime", "maxtime", "avgtime", "gather", "finish", "done"}
BY DEF Labels, RoundLabels, TrialLabels, LoopLabels, CollectiveCalls, Barriers, Bcasts, Gathers

LEMMA InLoopLabel ==
  ASSUME NEW p \in Proc
  PROVE  /\ InLoop(p) <=> pc[p] \in LoopLabels
         /\ InTrial(p) <=> InLoop(p) \/ pc[p] \in {"endsync", "reset"}
BY DEF InLoop, LoopLabels, InTrial, TrialLabels

\* Products of integers: a test is at least as long as its rounds.
LEMMA Longer ==
  ASSUME NEW a \in Int, NEW b \in Int, a < b
  PROVE  /\ a * NTrials \in Int /\ b * NTrials \in Int
         /\ a * NTrials + NTrials <= b * NTrials
         /\ (a + 1) * NTrials = a * NTrials + NTrials
<1> DEFINE d == b - a - 1
<1>1. NTrials \in Nat /\ d \in Nat /\ b = a + 1 + d
  BY NetPIPEAssumption
<1>2. d * NTrials >= 0
  BY <1>1
<1>3. b * NTrials = a * NTrials + NTrials + d * NTrials
  BY <1>1
<1> QED BY <1>1, <1>2, <1>3

\* Where p is determines its round.
LEMMA RoundType ==
  ASSUME ControlTypeOK, NEW p \in Proc
  PROVE  /\ n[p] * NTrials \in Nat /\ Round(p) \in Nat /\ Place(p) \in Nat
         /\ Round(p) >= n[p] * NTrials /\ Round(p) <= n[p] * NTrials + NTrials
         /\ NTrials \in Nat \ {0} /\ trial[p] \in 0 .. NTrials - 1
<1>1. n[p] \in Nat /\ trial[p] \in 0 .. NTrials - 1 /\ NTrials \in Nat \ {0}
  BY NetPIPEAssumption DEF ControlTypeOK
<1>2. n[p] * NTrials \in Nat
  BY <1>1
<1> QED BY <1>1, <1>2 DEF Round, Place, Stage

-----------------------------------------------------------------------------

\* A process in its trial has been waited for: every other has made the call
\* that opens it.
LEMMA CalledSync ==
  ASSUME DriverInv, RoundInv, NEW p \in Proc, NEW q \in Proc, InTrial(p)
  PROVE  \E k \in 1 .. Len(colls[q]) : /\ colls[q][k] \in CallRecord
                                       /\ Key(colls[q][k]) = <<"sync", n[p], trial[p]>>
<1>1. PICK k \in 1 .. Len(colls[p]) : /\ Key(colls[p][k]) = <<"sync", n[p], trial[p]>>
                                      /\ k <= Len(colls[q])
  BY DEF RoundInv, Rounded, Synced
<1>2. k \in 1 .. Len(colls[q]) /\ colls[q] \in Seq(CallRecord)
  BY <1>1 DEF DriverInv, ControlTypeOK
<1>3. colls[q][k] \in CallRecord
  BY <1>2
<1>4. Key(colls[q][k]) = Key(colls[p][k])
  BY <1>1 DEF DriverInv, CollectivesMatch, Key
<1> QED BY <1>1, <1>2, <1>3, <1>4

\* So no process is in a round before it, and those in the same round run the
\* same trial of the same test.
LEMMA TrialIsLast ==
  ASSUME DriverInv, RoundInv, NEW p \in Proc, NEW q \in Proc, InTrial(p)
  PROVE  /\ Round(p) <= Round(q)
         /\ Round(p) = Round(q) => n[q] = n[p] /\ trial[q] = trial[p] /\ Committed(q)
<1>1. PICK k \in 1 .. Len(colls[q]) : /\ colls[q][k] \in CallRecord
                                      /\ Key(colls[q][k]) = <<"sync", n[p], trial[p]>>
  BY CalledSync
<1> DEFINE r == colls[q][k]
<1>2. r.call = "sync" /\ r.n = n[p] /\ r.trial = trial[p]
  BY <1>1 DEF Key
<1>3. Behind(r, q)
  BY DEF RoundInv, Rounded
<1>4. /\ n[p] \in Nat /\ n[q] \in Nat /\ pc[q] \in Labels
      /\ trial[p] \in 0 .. NTrials - 1 /\ trial[q] \in 0 .. NTrials - 1 /\ NTrials \in Nat \ {0}
  BY NetPIPEAssumption DEF DriverInv, ControlTypeOK
<1>5. Stage(r.call, r.trial) = trial[p] + 1
  BY <1>2 DEF Stage, RoundLabels
<1>6. pc[p] \in RoundLabels /\ pc[p] # "nrepeat"
  BY DEF InTrial, RoundLabels, TrialLabels, LoopLabels
<1>7. Round(p) = n[p] * NTrials + trial[p]
  BY <1>6 DEF Round
<1>8. CASE n[p] < n[q]
  <2>1. n[p] * NTrials + NTrials <= n[q] * NTrials /\ n[p] * NTrials \in Int
    <3>1. n[p] \in Int /\ n[q] \in Int
      BY <1>4
    <3> HIDE DEF r
    <3> QED BY <1>8, <3>1, Longer
  <2>2. Round(q) >= n[q] * NTrials /\ Round(q) \in Nat /\ n[q] * NTrials \in Nat
    BY RoundType DEF DriverInv
  <2>3. Round(p) < n[p] * NTrials + NTrials /\ Round(p) \in Int
    BY <1>4, <1>7, <2>1
  <2> HIDE DEF r
  <2> QED BY <1>4, <2>1, <2>2, <2>3
<1>9. CASE n[q] = n[p]
  <2>1. \/ trial[p] + 1 < Place(q)
        \/ trial[p] + 1 = Place(q) /\ ~Waiting(q)
    BY <1>2, <1>3, <1>4, <1>5, <1>9 DEF Behind
  <2>2. n[p] * NTrials \in Nat
    BY RoundType DEF DriverInv
  <2>3. CASE pc[q] = "nrepeat"
    BY <1>4, <2>1, <2>3 DEF Place, Stage
  <2>4. CASE pc[q] # "nrepeat" /\ pc[q] \in RoundLabels
    <3>1. Place(q) = trial[q] + 1 /\ Round(q) = n[q] * NTrials + trial[q]
      BY <2>4 DEF Place, Stage, Round
    <3>2. Round(p) = Round(q) => trial[p] = trial[q]
      BY <1>4, <1>7, <1>9, <2>2, <3>1
    <3>3. trial[p] = trial[q] => Committed(q)
      <4>1. pc[q] \in TrialLabels \cup {"burst", "prepostFirst", "sync"}
        BY <2>4 DEF RoundLabels
      <4> QED BY <1>4, <2>1, <3>1, <4>1 DEF Committed, Waiting, InTrial
    <3>4. Round(p) <= Round(q)
      BY <1>4, <1>7, <1>9, <2>1, <2>2, <3>1
    <3> QED BY <1>9, <3>2, <3>3, <3>4
  <2>5. CASE pc[q] # "nrepeat" /\ pc[q] \notin RoundLabels
    <3>1. Round(q) = n[q] * NTrials + NTrials
      BY <2>5 DEF Round
    <3> QED BY <1>4, <1>7, <1>9, <2>2, <3>1
  <2> QED BY <2>3, <2>4, <2>5
<1>10. n[p] < n[q] \/ n[q] = n[p]
  BY <1>2, <1>3, <1>4 DEF Behind
<1> QED BY <1>8, <1>9, <1>10

\* Two processes with the same test repeat it the same number of times, once they
\* have the number.
LEMMA SameRepeats ==
  ASSUME DriverInv, NEW p \in Proc, NEW q \in Proc, n[p] = n[q],
         pc[p] # "nrepeat", pc[q] # "nrepeat"
  PROVE  nrepeat[p] = nrepeat[q] /\ nrepeat[p] \in Nat \ {0}
<1>1. PICK k \in 1 .. Len(colls[p]) :
        /\ k <= Len(colls[0])
        /\ colls[p][k].call = "nrepeat" /\ colls[p][k].n = n[p]
        /\ nrepeat[p] = colls[0][k].val
  BY DEF DriverInv, CommonRepeats
<1>2. PICK m \in 1 .. Len(colls[q]) :
        /\ m <= Len(colls[0])
        /\ colls[q][m].call = "nrepeat" /\ colls[q][m].n = n[q]
        /\ nrepeat[q] = colls[0][m].val
  BY DEF DriverInv, CommonRepeats
<1>3. 0 \in Proc
  BY NetPIPEAssumption DEF Proc, NProcs
<1>4. /\ colls[0][k].call = "nrepeat" /\ colls[0][k].n = n[p] /\ k \in 1 .. Len(colls[0])
      /\ colls[0][m].call = "nrepeat" /\ colls[0][m].n = n[p] /\ m \in 1 .. Len(colls[0])
  <2>1. colls[0][k].call = "nrepeat" /\ colls[0][k].n = n[p]
    BY <1>1, <1>3 DEF DriverInv, CollectivesMatch
  <2>2. colls[0][m].call = "nrepeat" /\ colls[0][m].n = n[p]
    BY <1>2, <1>3 DEF DriverInv, CollectivesMatch
  <2>3. Len(colls[p]) \in Nat /\ Len(colls[q]) \in Nat /\ Len(colls[0]) \in Nat
    BY <1>3 DEF DriverInv, ControlTypeOK
  <2>4. k \in 1 .. Len(colls[0]) /\ m \in 1 .. Len(colls[0])
    BY <1>1, <1>2, <2>3
  <2> QED BY <2>1, <2>2, <2>4
<1>5. k = m
  <2>1. \A l1, l2 \in 1 .. Len(colls[0]) :
          l1 < l2 /\ colls[0][l2].call = "nrepeat" => colls[0][l1].n < colls[0][l2].n
    <3>1. LogInOrder(0) /\ colls[0] \in Seq(CallRecord)
      BY <1>3 DEF DriverInv, ControlTypeOK
    <3>2. ASSUME NEW l1 \in 1 .. Len(colls[0]), NEW l2 \in 1 .. Len(colls[0]),
                 l1 < l2, colls[0][l2].call = "nrepeat"
          PROVE  colls[0][l1].n < colls[0][l2].n
      <4>1. l1 \in 1 .. l2 - 1
        BY <3>1, <3>2
      <4> QED BY <3>1, <3>2, <4>1 DEF LogInOrder
    <3> QED BY <3>2
  <2>2. ~(n[p] < n[p]) /\ k \in Int /\ m \in Int
    BY DEF DriverInv, ControlTypeOK
  <2> QED BY <1>4, <2>1, <2>2
<1>6. nrepeat[p] \in Repeats
  BY <1>1, <1>3, <1>4 DEF DriverInv, LogInOrder
<1> QED BY <1>1, <1>2, <1>5, <1>6, NetPIPEAssumption
-----------------------------------------------------------------------------
(***************************************************************************)
(* The steps of the driver keep the rounds.                                *)
(***************************************************************************)

\* A step of p leaves the others where they are.
OthersStay(p) ==
  \A q \in Proc : q # p =>
    /\ pc'[q] = pc[q] /\ inside'[q] = inside[q] /\ n'[q] = n[q] /\ trial'[q] = trial[q]
    /\ j'[q] = j[q] /\ nrepeat'[q] = nrepeat[q] /\ colls'[q] = colls[q]

\* Nor does it end the round.
RoundStep(p) == OthersStay(p) /\ Round(p)' = Round(p)

\* p goes on, or stays.
Onward(p) ==
  \/ n'[p] > n[p]
  \/ n'[p] = n[p] /\ Place(p)' > Place(p)
  \/ n'[p] = n[p] /\ Place(p)' = Place(p) /\ (Waiting(p)' => Waiting(p))

\* The calls a process has made stay behind it.
LEMMA BehindKept ==
  ASSUME ControlTypeOK, ControlTypeOK', NEW p \in Proc, NEW r \in CallRecord,
         Behind(r, p), Onward(p)
  PROVE  Behind(r, p)'
<1> DEFINE s == Stage(r.call, r.trial)
<1>1. n[p] \in Nat /\ n'[p] \in Nat /\ Place(p) \in Nat /\ Place(p)' \in Nat
  BY RoundType, NetPIPEAssumption DEF ControlTypeOK, Place, Stage
<1>2. r.n \in Nat /\ s \in Int /\ s' = s
  BY NetPIPEAssumption DEF CallRecord, Stage
<1>3. \/ r.n < n[p]
      \/ r.n = n[p] /\ s < Place(p)
      \/ r.n = n[p] /\ s = Place(p) /\ ~Waiting(p)
  BY DEF Behind
<1> HIDE DEF s
<1>4. \/ r.n < n'[p]
      \/ r.n = n'[p] /\ s < Place(p)'
      \/ r.n = n'[p] /\ s = Place(p)' /\ ~Waiting(p)'
  BY <1>1, <1>2, <1>3 DEF Onward
<1> QED BY <1>2, <1>4 DEF Behind, s

\* What the invariant says of the others stays true.
LEMMA OtherRounded ==
  ASSUME DriverInv, RoundInv, NEW p \in Proc, OthersStay(p),
         Len(colls'[p]) >= Len(colls[p]), Len(colls'[p]) \in Nat,
         NEW q \in Proc, q # p
  PROVE  Rounded(q)' /\ Round(q)' = Round(q) /\ Committed(q)' = Committed(q)
<1>1. /\ pc'[q] = pc[q] /\ inside'[q] = inside[q] /\ n'[q] = n[q] /\ trial'[q] = trial[q]
      /\ j'[q] = j[q] /\ nrepeat'[q] = nrepeat[q] /\ colls'[q] = colls[q]
  BY DEF OthersStay
<1>2. Rounded(q)
  BY DEF RoundInv
<1>3. \A r : Behind(r, q)' = Behind(r, q)
  BY <1>1 DEF Behind, Place, Stage, Waiting
<1>4. InTrial(q)' = InTrial(q) /\ InLoop(q)' = InLoop(q)
  BY <1>1 DEF InTrial, InLoop
<1>5. Synced(q) => Synced(q)'
  <2>1. SUFFICES ASSUME NEW k \in 1 .. Len(colls[q]),
                        Key(colls[q][k]) = <<"sync", n[q], trial[q]>>,
                        \A x \in Proc : k <= Len(colls[x])
                 PROVE  Synced(q)'
    BY DEF Synced
  <2>2. ASSUME NEW x \in Proc PROVE k <= Len(colls'[x])
    <3>1. CASE x = p
      <4>1. k <= Len(colls[p]) /\ Len(colls[p]) \in Nat /\ k \in Int
        BY <2>1 DEF DriverInv, ControlTypeOK
      <4> QED BY <3>1, <4>1
    <3>2. CASE x # p
      BY <2>1, <3>2 DEF OthersStay
    <3> QED BY <3>1, <3>2
  <2> QED BY <1>1, <2>1, <2>2 DEF Synced, Key
<1>6. Rounded(q)'
  BY <1>1, <1>2, <1>3, <1>4, <1>5 DEF Rounded, LastTestEnds
<1> QED BY <1>1, <1>6 DEF Round, Committed, InTrial

\* A step of p within a round.
LEMMA RoundMove ==
  ASSUME DriverInv, RoundInv, NEW p \in Proc, OthersStay(p),
         Len(colls'[p]) >= Len(colls[p]), Len(colls'[p]) \in Nat,
         Rounded(p)', Round(p)' = Round(p), Committed(p) => Committed(p)'
  PROVE  RoundInv'
<1>1. \A q \in Proc : Rounded(q)' /\ Round(q)' = Round(q) /\ (Committed(q) => Committed(q)')
  BY OtherRounded
<1> QED BY <1>1 DEF RoundInv

\* When p makes no call, its own part needs this.
LEMMA OwnRounded ==
  ASSUME DriverInv, ControlTypeOK', RoundInv, NEW p \in Proc, UNCHANGED colls,
         n'[p] \in 1 .. Tests, Onward(p), InTrial(p)' => Synced(p)',
         IF InLoop(p)' THEN j'[p] < nrepeat'[p] ELSE j'[p] = 0
  PROVE  Rounded(p)'
<1>1. ASSUME NEW k \in 1 .. Len(colls[p])
      PROVE  Behind(colls[p][k], p)' /\ LastTestEnds(colls[p][k])
  <2>1. colls[p][k] \in CallRecord
    BY DEF DriverInv, ControlTypeOK
  <2>2. Behind(colls[p][k], p) /\ LastTestEnds(colls[p][k])
    BY DEF RoundInv, Rounded
  <2>3. PICK r \in CallRecord : r = colls[p][k]
    BY <2>1
  <2>4. Behind(r, p)'
    BY <2>2, <2>3, BehindKept DEF DriverInv
  <2>5. colls'[p][k] = r
    BY <2>3
  <2> QED BY <2>2, <2>3, <2>4, <2>5 DEF Behind, Waiting, Place
<1> QED BY <1>1 DEF Rounded, LastTestEnds

\* A process stays synced until its trial ends.
LEMMA SyncedKept ==
  ASSUME RoundInv, NEW p \in Proc, UNCHANGED colls, n'[p] = n[p], trial'[p] = trial[p],
         InTrial(p)
  PROVE  Synced(p)'
BY DEF RoundInv, Rounded, Synced

\* The message loop, whichever way the iteration goes on.
LEMMA LoopRounds ==
  ASSUME Aligned, DriverInv, DriverInv', RoundInv, NEW p \in Proc,
         NEW label \in LoopLabels \cup {"iterate"},
         UNCHANGED <<inside, colls, n, trial, nrepeat, finished>>,
         InLoop(p), Continue(p, label)
  PROVE  RoundInv' /\ RoundStep(p)
<1>1. /\ pc[p] \in LoopLabels /\ j[p] < nrepeat[p] /\ n[p] \in 1 .. Tests /\ InTrial(p)
  BY InLoopLabel DEF RoundInv, Rounded
<1>2. \A q \in Proc : q # p => pc'[q] = pc[q] /\ j'[q] = j[q]
  BY DEF Continue, Goto, DriverInv, ControlTypeOK
<1>3. \/ pc'[p] \in LoopLabels /\ j'[p] < nrepeat[p]
      \/ pc'[p] \in {"endsync", "reset"} /\ j'[p] = 0
  <2>1. CASE label = "iterate"
    <3>1. IterationStart(p) \in LoopLabels
      BY DEF IterationStart, LoopLabels
    <3>2. LoopExit(p) \in {"endsync", "reset"}
      BY DEF LoopExit
    <3>3. CASE j[p] + 1 < nrepeat[p]
      BY <2>1, <3>1, <3>3 DEF Continue, Goto, DriverInv, ControlTypeOK
    <3>4. CASE ~(j[p] + 1 < nrepeat[p])
      BY <2>1, <3>2, <3>4 DEF Continue, Goto, DriverInv, ControlTypeOK
    <3> QED BY <3>3, <3>4
  <2>2. CASE label # "iterate"
    BY <1>1, <2>2 DEF Continue, Goto, DriverInv, ControlTypeOK
  <2> QED BY <2>1, <2>2
<1>4. /\ InTrial(p)' /\ pc'[p] \in RoundLabels /\ pc[p] \in RoundLabels
      /\ pc[p] # "nrepeat" /\ pc'[p] # "nrepeat" /\ ~Waiting(p)'
  BY <1>1, <1>3 DEF InTrial, TrialLabels, RoundLabels, LoopLabels, Waiting
<1>5. Place(p)' = Place(p) /\ Round(p)' = Round(p)
  BY <1>4 DEF Place, Stage, Round
<1>6. Synced(p)'
  BY <1>1, SyncedKept
<1>7. IF InLoop(p)' THEN j'[p] < nrepeat'[p] ELSE j'[p] = 0
  <2>1. InLoop(p)' <=> pc'[p] \in LoopLabels
    BY DEF InLoop, LoopLabels
  <2> QED BY <1>3, <2>1 DEF LoopLabels
<1>8. Onward(p)
  BY <1>4, <1>5 DEF Onward
<1>9. Rounded(p)'
  BY <1>1, <1>6, <1>7, <1>8, OwnRounded DEF DriverInv
<1>10. OthersStay(p)
  BY <1>2 DEF OthersStay
<1>11. Len(colls[p]) \in Nat
  BY DEF DriverInv, ControlTypeOK
<1> QED BY <1>4, <1>5, <1>9, <1>10, <1>11, RoundMove DEF Committed, RoundStep

LEMMA DriverSendRounds ==
  ASSUME Aligned, DriverInv, DriverInv', RoundInv, NEW p \in Proc, DriverSend(p)
  PROVE  RoundInv' /\ RoundStep(p)
<1>1. InLoop(p) /\ Continue(p, "sending") /\ UNCHANGED <<inside, colls, loopVars>>
  BY DEF DriverSend, InLoop, Continue, loopVars
<1> QED BY <1>1, LoopRounds DEF LoopLabels, loopVars

LEMMA DriverSentRounds ==
  ASSUME Aligned, DriverInv, DriverInv', RoundInv, NEW p \in Proc, DriverSent(p)
  PROVE  RoundInv' /\ RoundStep(p)
<1>1. AfterSend(p) \in LoopLabels \cup {"iterate"}
  BY DEF AfterSend, LoopLabels
<1> QED BY <1>1, LoopRounds DEF DriverSent, InLoop

LEMMA DriverRecvRounds ==
  ASSUME Aligned, DriverInv, DriverInv', RoundInv, NEW p \in Proc, DriverRecv(p)
  PROVE  RoundInv' /\ RoundStep(p)
<1>1. AfterRecv(p) \in LoopLabels \cup {"iterate"}
  BY DEF AfterRecv, LoopLabels
<1> QED BY <1>1, LoopRounds DEF DriverRecv, InLoop

\* A process that moves between the calls outside the message loop, within a round.
LEMMA PlaceRounds ==
  ASSUME DriverInv, DriverInv', RoundInv, NEW p \in Proc, NEW label \in Labels,
         Goto(p, label), UNCHANGED <<colls, trial, j>>, ~InLoop(p), label \notin LoopLabels,
         \A q \in Proc : q # p => inside'[q] = inside[q] /\ n'[q] = n[q] /\ nrepeat'[q] = nrepeat[q],
         n'[p] \in 1 .. Tests, Onward(p), Round(p)' = Round(p),
         InTrial(p)' => InTrial(p) /\ n'[p] = n[p],
         Committed(p) => Committed(p)'
  PROVE  RoundInv' /\ RoundStep(p)
<1>1. pc'[p] = label /\ \A q \in Proc : q # p => pc'[q] = pc[q]
  BY DEF Goto, DriverInv, ControlTypeOK
<1>2. OthersStay(p)
  BY <1>1 DEF OthersStay
<1>3. ~InLoop(p)'
  BY <1>1 DEF InLoop, LoopLabels
<1>4. j'[p] = 0
  BY DEF RoundInv, Rounded
<1>5. InTrial(p)' => Synced(p)'
  BY SyncedKept
<1>6. Rounded(p)'
  BY <1>3, <1>4, <1>5, OwnRounded DEF DriverInv
<1>7. Len(colls[p]) \in Nat
  BY DEF DriverInv, ControlTypeOK
<1> QED BY <1>2, <1>6, <1>7, RoundMove DEF RoundStep

LEMMA DriverPrepostRounds ==
  ASSUME Aligned, DriverInv, DriverInv', RoundInv, NEW p \in Proc, DriverPrepost(p)
  PROVE  RoundInv' /\ RoundStep(p)
<1>1. CASE pc[p] = "prepostFirst"
  <2>1. Goto(p, "sync") /\ UNCHANGED <<inside, colls, loopVars>>
    BY <1>1 DEF DriverPrepost, AfterPrepost, Continue, loopVars
  <2>2. pc'[p] = "sync" /\ "sync" \in Labels
    BY <2>1 DEF Goto, DriverInv, ControlTypeOK, Labels, CollectiveCalls, Barriers
  <2>3. n[p] \in 1 .. Tests
    BY DEF RoundInv, Rounded
  <2>4. Place(p)' = Place(p) /\ Round(p)' = Round(p)
    BY <1>1, <2>1, <2>2 DEF Place, Stage, Round, RoundLabels, loopVars
  <2>5. Waiting(p) /\ ~InTrial(p) /\ ~InTrial(p)' /\ ~InLoop(p) /\ ~Committed(p)
    BY <1>1, <2>2 DEF Waiting, InTrial, InLoop, TrialLabels, LoopLabels, Committed
  <2>6. Onward(p)
    BY <2>1, <2>4, <2>5 DEF Onward, loopVars
  <2> QED BY <2>1, <2>2, <2>3, <2>4, <2>5, <2>6, PlaceRounds DEF LoopLabels, loopVars
<1>2. CASE pc[p] # "prepostFirst"
  <2>1. InLoop(p) /\ AfterPrepost(p) \in LoopLabels \cup {"iterate"}
    BY <1>2 DEF DriverPrepost, InLoop, AfterPrepost, LoopLabels
  <2> QED BY <2>1, LoopRounds DEF DriverPrepost
<1> QED BY <1>1, <1>2

LEMMA DriverBurstRounds ==
  ASSUME DriverInv, DriverInv', RoundInv, NEW p \in Proc, DriverBurst(p)
  PROVE  RoundInv' /\ RoundStep(p)
<1>1. pc[p] = "burst" /\ Goto(p, "sync") /\ UNCHANGED <<inside, colls, loopVars>>
  BY DEF DriverBurst
<1>2. pc'[p] = "sync" /\ "sync" \in Labels
  BY <1>1 DEF Goto, DriverInv, ControlTypeOK, Labels, CollectiveCalls, Barriers
<1>3. n[p] \in 1 .. Tests
  BY DEF RoundInv, Rounded
<1>4. Place(p)' = Place(p) /\ Round(p)' = Round(p)
  BY <1>1, <1>2 DEF Place, Stage, Round, RoundLabels, loopVars
<1>5. Waiting(p) /\ ~InTrial(p) /\ ~InTrial(p)' /\ ~InLoop(p) /\ ~Committed(p)
  BY <1>1, <1>2 DEF Waiting, InTrial, InLoop, TrialLabels, LoopLabels, Committed
<1>6. Onward(p)
  BY <1>1, <1>4, <1>5 DEF Onward, loopVars
<1> QED BY <1>1, <1>2, <1>3, <1>4, <1>5, <1>6, PlaceRounds DEF LoopLabels, loopVars

LEMMA LeaveTimesRounds ==
  ASSUME DriverInv, DriverInv', RoundInv, NEW p \in Proc, LeaveTimes(p)
  PROVE  RoundInv' /\ RoundStep(p)
<1>1. PICK step \in {<<"mintime", "maxtime">>, <<"maxtime", "avgtime">>, <<"avgtime", "gather">>} :
        Leave(p, step[1]) /\ Goto(p, step[2]) /\ UNCHANGED <<loopVars, bufVars>>
  BY DEF LeaveTimes
<1> DEFINE Late == {"mintime", "maxtime", "avgtime", "gather"}
<1>2. step[1] \in Late /\ step[2] \in Late
  BY DEF Late
<1>3. step[2] \in Labels
  BY <1>2 DEF Labels, CollectiveCalls, Gathers
<1>4. pc[p] = step[1] /\ pc'[p] = step[2] /\ UNCHANGED <<colls, n, trial, j, nrepeat>>
  BY <1>1 DEF Leave, Goto, DriverInv, ControlTypeOK, loopVars
<1>5. \A q \in Proc : q # p => inside'[q] = inside[q]
  BY <1>1 DEF Leave, DriverInv, ControlTypeOK
<1>6. \A label \in Late : /\ label \notin RoundLabels /\ label \notin TrialLabels
                          /\ label \notin LoopLabels /\ label # "nrepeat" /\ label # "sync"
                          /\ label \notin {"burst", "prepostFirst"}
  BY DEF RoundLabels, TrialLabels, LoopLabels
<1> HIDE DEF Late
<1>7. Place(p)' = Place(p) /\ Round(p)' = Round(p)
  BY <1>2, <1>4, <1>6 DEF Place, Stage, Round
<1>8. ~Waiting(p)' /\ ~InTrial(p)' /\ ~InLoop(p) /\ ~Committed(p)
  BY <1>2, <1>4, <1>6, InLoopLabel DEF Waiting, InTrial, Committed
<1>9. Onward(p) /\ n'[p] \in 1 .. Tests
  BY <1>4, <1>7, <1>8 DEF Onward, RoundInv, Rounded
<1> QED BY <1>1, <1>2, <1>3, <1>4, <1>5, <1>6, <1>7, <1>8, <1>9, PlaceRounds

LEMMA LeaveEndsyncRounds ==
  ASSUME DriverInv, DriverInv', RoundInv, NEW p \in Proc, LeaveEndsync(p)
  PROVE  RoundInv' /\ RoundStep(p)
<1>1. Leave(p, "endsync") /\ Goto(p, "reset") /\ UNCHANGED <<n, trial, j, nrepeat>>
  BY DEF LeaveEndsync, loopVars
<1>2. pc[p] = "endsync" /\ pc'[p] = "reset" /\ UNCHANGED colls /\ "reset" \in Labels
  BY <1>1 DEF Leave, Goto, DriverInv, ControlTypeOK, Labels
<1>3. \A q \in Proc : q # p => inside'[q] = inside[q]
  BY <1>1 DEF Leave, DriverInv, ControlTypeOK
<1>4. Place(p)' = Place(p) /\ Round(p)' = Round(p)
  BY <1>1, <1>2 DEF Place, Stage, Round, RoundLabels, TrialLabels
<1>5. ~Waiting(p)' /\ InTrial(p) /\ ~InLoop(p) /\ Committed(p)'
  BY <1>2 DEF Waiting, InTrial, InLoop, TrialLabels, LoopLabels, Committed
<1>6. Onward(p) /\ n'[p] \in 1 .. Tests
  BY <1>1, <1>4, <1>5 DEF Onward, RoundInv, Rounded
<1> QED BY <1>1, <1>2, <1>3, <1>4, <1>5, <1>6, PlaceRounds DEF LoopLabels
-----------------------------------------------------------------------------
\* Division by a positive number.
LEMMA ModRange ==
  ASSUME NEW T \in Nat \ {0}, NEW a \in Int
  PROVE  a % T \in 0 .. T - 1 /\ a \div T \in Int /\ a = T * (a \div T) + (a % T)
OBVIOUS

\* Quotient and remainder are unique.
LEMMA Unique ==
  ASSUME NEW T \in Nat \ {0}, NEW q1 \in Int, NEW q2 \in Int, NEW r1 \in 0 .. T - 1, NEW r2 \in 0 .. T - 1,
         T * q1 + r1 = T * q2 + r2
  PROVE q1 = q2 /\ r1 = r2
<1>1. CASE q1 < q2
  <2>1. PICK d \in Nat : q2 = q1 + 1 + d
    <3>1. q2 - q1 - 1 \in Nat
      BY <1>1
    <3> QED BY <3>1
  <2>2. T * q2 = T * q1 + T + T * d /\ T * d >= 0
    BY <2>1
  <2> QED BY <2>2
<1>2. CASE q2 < q1
  <2>1. PICK d \in Nat : q1 = q2 + 1 + d
    <3>1. q1 - q2 - 1 \in Nat
      BY <1>2
    <3> QED BY <3>1
  <2>2. T * q1 = T * q2 + T + T * d /\ T * d >= 0
    BY <2>1
  <2> QED BY <2>2
<1> QED BY <1>1, <1>2

\* A product is a multiple of its factors.
LEMMA Mult ==
  ASSUME NEW T \in Nat \ {0}, NEW a \in Int
  PROVE  (T * a) % T = 0
<1>1. T * a \in Int
  OBVIOUS
<1> DEFINE x == T * a
           q == x \div T
           r == x % T
<1>2. r \in 0 .. T - 1 /\ x = T * q + r /\ q \in Int
  BY <1>1, ModRange
<1>3. T * a + 0 = T * q + r /\ 0 \in 0 .. T - 1
  BY <1>2
<1> HIDE DEF q, r
<1> QED BY <1>2, <1>3, Unique DEF r

\* A remainder may be taken before or after an addition.
LEMMA ModAdd ==
  ASSUME NEW T \in Nat \ {0}, NEW a \in Int, NEW b \in Int
  PROVE  ((a % T) + b) % T = (a + b) % T
<1> DEFINE q == a \div T
           r == a % T
           q1 == (r + b) \div T
           r1 == (r + b) % T
           q2 == (a + b) \div T
           r2 == (a + b) % T
<1>1. r \in 0 .. T - 1 /\ a = T * q + r /\ q \in Int
  BY ModRange
<1>2. r + b \in Int /\ a + b \in Int
  BY <1>1
<1>3. r1 \in 0 .. T - 1 /\ r + b = T * q1 + r1 /\ q1 \in Int
  BY <1>2, ModRange
<1>4. r2 \in 0 .. T - 1 /\ a + b = T * q2 + r2 /\ q2 \in Int
  BY <1>2, ModRange
<1> HIDE DEF q, r, q1, r1, q2, r2
<1>5. T * (q1 + q) + r1 = T * q2 + r2 /\ q1 + q \in Int
  <2>1. T * (q1 + q) = T * q1 + T * q /\ T * q1 \in Int /\ T * q \in Int /\ T * q2 \in Int
    BY <1>1, <1>3, <1>4
  <2> QED BY <1>1, <1>3, <1>4, <2>1
<1>6. r1 = r2
  <2>1. PICK s \in Int : s = q1 + q
    BY <1>5
  <2>2. T * s + r1 = T * q2 + r2
    BY <1>5, <2>1
  <2>3. q2 \in Int /\ r1 \in 0 .. T - 1 /\ r2 \in 0 .. T - 1
    BY <1>3, <1>4
  <2> QED BY <2>2, <2>3, Unique
<1> QED BY <1>6 DEF r, r1, r2

LEMMA LeaveGatherRounds ==
  ASSUME DriverInv, DriverInv', RoundInv, NEW p \in Proc, LeaveGather(p)
  PROVE  RoundInv' /\ RoundStep(p)
<1> DEFINE label == IF n[p] % NPerts = 0 THEN "finish" ELSE "nrepeat"
<1>1. Leave(p, "gather") /\ Goto(p, label) /\ UNCHANGED <<trial, j, nrepeat>>
  BY DEF LeaveGather
<1>2. /\ pc[p] = "gather" /\ pc'[p] = label /\ UNCHANGED colls /\ label \in Labels
      /\ label \in {"finish", "nrepeat"}
  BY <1>1 DEF Leave, Goto, DriverInv, ControlTypeOK, Labels, CollectiveCalls, Bcasts
<1>3. \A q \in Proc : q # p => inside'[q] = inside[q]
  BY <1>1 DEF Leave, DriverInv, ControlTypeOK
<1>4. n[p] \in 1 .. Tests /\ Tests \in Nat
  BY NetPIPEAssumption DEF RoundInv, Rounded, Tests
<1>5. /\ \A q \in Proc : q # p => n'[q] = n[q]
      /\ n'[p] = IF label = "finish" THEN n[p] ELSE n[p] + 1
  BY DEF LeaveGather, DriverInv, ControlTypeOK
<1>6. label = "nrepeat" => n[p] # Tests
  <2>1. Tests % NPerts = 0
    BY NetPIPEAssumption, Mult DEF Tests
  <2> QED BY <2>1
<1>7. n'[p] \in 1 .. Tests
  BY <1>2, <1>4, <1>5, <1>6
<1>8. ~InTrial(p)' /\ ~InLoop(p) /\ ~Committed(p) /\ ~Waiting(p)'
  BY <1>2 DEF Waiting, InTrial, InLoop, TrialLabels, LoopLabels, Committed
<1>9. Round(p)' = Round(p)
  <2>1. (n[p] + 1) * NTrials = n[p] * NTrials + NTrials /\ n[p] * NTrials \in Int
    <3>1. n[p] \in Int /\ n[p] + 1 \in Int /\ n[p] < n[p] + 1
      BY <1>4
    <3> QED BY <3>1, Longer
  <2>2. Round(p) = n[p] * NTrials + NTrials
    BY <1>2 DEF Round, RoundLabels, TrialLabels, LoopLabels
  <2>3. Round(p)' = IF label = "finish" THEN n'[p] * NTrials + NTrials ELSE n'[p] * NTrials + 0
    BY <1>2 DEF Round, RoundLabels, TrialLabels, LoopLabels
  <2> HIDE DEF label
  <2> QED BY <1>2, <1>5, <2>1, <2>2, <2>3, NetPIPEAssumption
<1>10. Onward(p)
  <2>1. CASE label = "finish"
    <3>1. Place(p)' = Place(p)
      BY <1>2, <2>1 DEF Place, Stage, RoundLabels, TrialLabels, LoopLabels
    <3> QED BY <1>5, <1>8, <2>1, <3>1 DEF Onward
  <2>2. CASE label = "nrepeat"
    BY <1>4, <1>5, <2>2 DEF Onward
  <2> QED BY <1>2, <2>1, <2>2
<1>11. label \notin LoopLabels
  BY <1>2 DEF LoopLabels
<1> HIDE DEF label
<1> QED BY <1>1, <1>2, <1>3, <1>5, <1>7, <1>8, <1>9, <1>10, <1>11, PlaceRounds

LEMMA LeaveNrepeatRounds ==
  ASSUME DriverInv, DriverInv', RoundInv, NEW p \in Proc, LeaveNrepeat(p)
  PROVE  RoundInv' /\ RoundStep(p)
<1> DEFINE label == TrialStart(p)
<1>1. Leave(p, "nrepeat") /\ Goto(p, label) /\ UNCHANGED <<n, trial, j>>
  BY DEF LeaveNrepeat
<1>2. label \in {"burst", "prepostFirst", "sync"}
  BY TrialStartLabel
<1>3. label \in Labels
  BY <1>2 DEF Labels, CollectiveCalls, Barriers
<1>4. /\ pc[p] = "nrepeat" /\ inside[p] /\ pc'[p] = label /\ UNCHANGED colls
      /\ \A q \in Proc : q # p => inside'[q] = inside[q]
  BY <1>1 DEF Leave, Goto, DriverInv, ControlTypeOK
<1>5. \A q \in Proc : q # p => nrepeat'[q] = nrepeat[q]
  BY DEF LeaveNrepeat, DriverInv, ControlTypeOK
<1>6. trial[p] = 0
  BY <1>4, TrialIsZero DEF Bcasts
<1>7. n[p] \in 1 .. Tests
  BY DEF RoundInv, Rounded
<1> HIDE DEF label
<1>8. Round(p)' = Round(p) /\ Place(p) = 0 /\ Place(p)' = 1
  BY <1>1, <1>2, <1>4, <1>6 DEF Round, Place, Stage, RoundLabels
<1>9. ~InTrial(p)' /\ ~InLoop(p) /\ ~Committed(p) /\ label \notin LoopLabels
  BY <1>2, <1>4 DEF InTrial, InLoop, TrialLabels, LoopLabels, Committed
<1>10. Onward(p)
  BY <1>1, <1>8 DEF Onward
<1> QED BY <1>1, <1>3, <1>4, <1>5, <1>7, <1>8, <1>9, <1>10, PlaceRounds

LEMMA LeaveFinishRounds ==
  ASSUME DriverInv, DriverInv', RoundInv, NEW p \in Proc, LeaveFinish(p)
  PROVE  RoundInv' /\ RoundStep(p)
<1> DEFINE label == IF RootValue(p) # 0 THEN "done" ELSE "nrepeat"
           k == Len(colls[p])
<1>1. Leave(p, "finish") /\ Goto(p, label) /\ UNCHANGED <<trial, j, nrepeat>>
  BY DEF LeaveFinish
<1>2. /\ pc[p] = "finish" /\ pc'[p] = label /\ UNCHANGED colls /\ label \in Labels
      /\ label \in {"done", "nrepeat"}
  BY <1>1 DEF Leave, Goto, DriverInv, ControlTypeOK, Labels, CollectiveCalls, Bcasts
<1>3. \A q \in Proc : q # p => inside'[q] = inside[q]
  BY <1>1 DEF Leave, DriverInv, ControlTypeOK
<1>4. n[p] \in 1 .. Tests /\ Tests \in Nat
  BY NetPIPEAssumption DEF RoundInv, Rounded, Tests
<1>5. label = "nrepeat" => n[p] # Tests
  <2>1. /\ k \in 1 .. Len(colls[0]) /\ k \in 1 .. Len(colls[p])
        /\ colls[0][k].call = "finish" /\ colls[p][k].n = n[p]
        /\ RootValue(p) = colls[0][k].val
    <3>1. "finish" \in Bcasts
      BY DEF Bcasts
    <3>2. /\ k \in 1 .. Len(colls[0]) /\ colls[p][k].call = "finish"
          /\ colls[p][k].n = n[p] /\ colls[0][k].call = "finish"
      BY <1>1, <3>1, BcastFacts
    <3>3. k \in 1 .. Len(colls[p])
      BY <3>2 DEF DriverInv, ControlTypeOK
    <3> QED BY <3>2, <3>3 DEF RootValue
  <2>2. 0 \in Proc
    BY NetPIPEAssumption DEF Proc, NProcs
  <2>3. colls[0][k].n = n[p]
    BY <2>1, <2>2 DEF DriverInv, CollectivesMatch
  <2>4. LastTestEnds(colls[0][k])
    BY <2>1, <2>2 DEF RoundInv, Rounded
  <2> QED BY <1>4, <2>1, <2>3, <2>4 DEF LastTestEnds
<1>6. /\ \A q \in Proc : q # p => n'[q] = n[q]
      /\ n'[p] = IF label = "done" THEN n[p] ELSE n[p] + 1
  <2>1. CASE RootValue(p) # 0
    BY <2>1 DEF LeaveFinish, DriverInv, ControlTypeOK
  <2>2. CASE RootValue(p) = 0
    <3>1. n' = [n EXCEPT ![p] = @ + 1] /\ label # "done"
      BY <2>2 DEF LeaveFinish
    <3>2. n \in [Proc -> Nat]
      BY DEF DriverInv, ControlTypeOK
    <3> HIDE DEF label
    <3> QED BY <3>1, <3>2
  <2> QED BY <2>1, <2>2
<1> HIDE DEF label
<1>7. n'[p] \in 1 .. Tests
  BY <1>2, <1>4, <1>5, <1>6
<1>8. ~InTrial(p)' /\ ~InLoop(p) /\ ~Committed(p) /\ ~Waiting(p)'
  BY <1>2 DEF Waiting, InTrial, InLoop, TrialLabels, LoopLabels, Committed
<1>9. Round(p)' = Round(p)
  <2>1. (n[p] + 1) * NTrials = n[p] * NTrials + NTrials /\ n[p] * NTrials \in Int
    <3>1. n[p] \in Int /\ n[p] + 1 \in Int /\ n[p] < n[p] + 1
      BY <1>4
    <3> QED BY <3>1, Longer
  <2>2. Round(p) = n[p] * NTrials + NTrials
    BY <1>2 DEF Round, RoundLabels, TrialLabels, LoopLabels
  <2>3. Round(p)' = IF label = "done" THEN n'[p] * NTrials + NTrials ELSE n'[p] * NTrials + 0
    BY <1>2 DEF Round, RoundLabels, TrialLabels, LoopLabels
  <2> QED BY <1>2, <1>6, <2>1, <2>2, <2>3, NetPIPEAssumption
<1>10. Onward(p)
  <2>1. CASE label = "done"
    <3>1. Place(p)' = Place(p)
      BY <1>2, <2>1 DEF Place, Stage, RoundLabels, TrialLabels, LoopLabels
    <3> QED BY <1>6, <1>8, <2>1, <3>1 DEF Onward
  <2>2. CASE label = "nrepeat"
    BY <1>4, <1>6, <2>2 DEF Onward
  <2> QED BY <1>2, <2>1, <2>2
<1>11. label \notin LoopLabels
  BY <1>2 DEF LoopLabels
<1> QED BY <1>1, <1>2, <1>3, <1>6, <1>7, <1>8, <1>9, <1>10, <1>11, PlaceRounds

LEMMA LeaveSyncRounds ==
  ASSUME DriverInv, DriverInv', RoundInv, NEW p \in Proc, LeaveSync(p)
  PROVE  RoundInv' /\ RoundStep(p)
<1> DEFINE label == IterationStart(p)
<1>1. Leave(p, "sync") /\ Goto(p, label) /\ UNCHANGED <<n, trial, j, nrepeat>>
  BY DEF LeaveSync, loopVars
<1>2. label \in LoopLabels
  BY DEF IterationStart, LoopLabels
<1> HIDE DEF label
<1>3. /\ pc[p] = "sync" /\ pc'[p] = label /\ UNCHANGED colls
      /\ \A q \in Proc : q # p => inside'[q] = inside[q] /\ pc'[q] = pc[q]
  BY <1>1 DEF Leave, Goto, DriverInv, ControlTypeOK
<1>4. /\ InTrial(p)' /\ InLoop(p)' /\ pc'[p] \in RoundLabels /\ pc[p] \in RoundLabels
      /\ pc[p] # "nrepeat" /\ pc'[p] # "nrepeat" /\ ~Waiting(p)'
  BY <1>2, <1>3 DEF InTrial, InLoop, TrialLabels, RoundLabels, LoopLabels, Waiting
<1>5. Place(p)' = Place(p) /\ Round(p)' = Round(p)
  BY <1>1, <1>4 DEF Place, Stage, Round
<1>6. Synced(p)'
  <2>1. Passed(p, "sync")' /\ colls' \in [Proc -> Seq(CallRecord)]
    BY <1>4 DEF DriverInv, ControlTypeOK, AtItsPlace
  <2>2. Len(colls'[p]) \in 1 .. Len(colls'[p])
    BY <2>1 DEF Passed
  <2> QED BY <2>1, <2>2 DEF Passed, Synced, Last
<1>7. j'[p] < nrepeat'[p]
  <2>1. nrepeat[p] \in Nat \ {0}
    BY <1>3, SameRepeats
  <2>2. j[p] = 0
    BY <1>3 DEF RoundInv, Rounded, InLoop
  <2> QED BY <1>1, <2>1, <2>2
<1>8. Onward(p) /\ n'[p] \in 1 .. Tests
  BY <1>1, <1>4, <1>5 DEF Onward, RoundInv, Rounded
<1>9. Rounded(p)'
  BY <1>3, <1>4, <1>6, <1>7, <1>8, OwnRounded DEF DriverInv
<1>10. OthersStay(p)
  BY <1>1, <1>3 DEF OthersStay
<1>11. Len(colls[p]) \in Nat
  BY DEF DriverInv, ControlTypeOK
<1> QED BY <1>3, <1>4, <1>5, <1>9, <1>10, <1>11, RoundMove DEF Committed, RoundStep

\* The end of a trial is the step to the next round.
LEMMA ResetRound ==
  ASSUME DriverInv, DriverInv', RoundInv, NEW p \in Proc, DriverReset(p)
  PROVE  /\ OthersStay(p) /\ UNCHANGED colls /\ Rounded(p)'
         /\ Round(p)' = Round(p) + 1 /\ InTrial(p) /\ ~InTrial(p)'
         /\ pc'[p] \in {"burst", "prepostFirst", "sync", "mintime", "gather"}
<1> USE NetPIPEAssumption
<1> DEFINE again == trial[p] + 1 < NTrials
           label == IF again THEN TrialStart(p)
                    ELSE IF Mode = "stream" THEN "mintime" ELSE "gather"
<1>1. pc[p] = "reset" /\ UNCHANGED <<inside, colls, n, j, nrepeat>>
  BY DEF DriverReset
<1>2. pc' = [pc EXCEPT ![p] = label]
      /\ trial' = [trial EXCEPT ![p] = IF again THEN trial[p] + 1 ELSE 0]
  BY DEF DriverReset, Goto
<1>3. /\ pc'[p] = label /\ trial'[p] = IF again THEN trial[p] + 1 ELSE 0
      /\ \A q \in Proc : q # p => pc'[q] = pc[q] /\ trial'[q] = trial[q]
  BY <1>2 DEF DriverInv, ControlTypeOK
<1>4. OthersStay(p)
  BY <1>1, <1>3 DEF OthersStay
<1>5. /\ again => label \in {"burst", "prepostFirst", "sync"}
      /\ ~again => label \in {"mintime", "gather"}
  BY TrialStartLabel
<1>6. /\ trial[p] \in 0 .. NTrials - 1 /\ n[p] \in 1 .. Tests /\ n[p] * NTrials \in Nat
      /\ NTrials \in Nat \ {0}
  BY RoundType DEF DriverInv, ControlTypeOK, RoundInv, Rounded
<1> HIDE DEF label
<1>7. InTrial(p) /\ ~InLoop(p) /\ ~InTrial(p)' /\ ~InLoop(p)'
  BY <1>1, <1>3, <1>5 DEF InTrial, InLoop, TrialLabels, LoopLabels
<1>8. /\ Round(p) = n[p] * NTrials + trial[p] /\ Place(p) = trial[p] + 1
  BY <1>1 DEF Round, Place, Stage, RoundLabels, TrialLabels
<1>9. CASE again
  <2>1. pc'[p] \in RoundLabels /\ pc'[p] # "nrepeat"
    BY <1>3, <1>5, <1>9 DEF RoundLabels
  <2>2. Round(p)' = n[p] * NTrials + trial[p] + 1 /\ Place(p)' = trial[p] + 2
    BY <1>1, <1>3, <1>6, <1>9, <2>1 DEF Round, Place, Stage
  <2>3. Onward(p) /\ Round(p)' = Round(p) + 1
    BY <1>1, <1>6, <1>8, <2>2 DEF Onward
  <2>4. Rounded(p)'
    BY <1>1, <1>6, <1>7, <2>3, OwnRounded DEF DriverInv, RoundInv, Rounded
  <2> QED BY <1>1, <1>3, <1>4, <1>5, <1>7, <1>9, <2>3, <2>4
<1>10. CASE ~again
  <2>1. pc'[p] \notin RoundLabels /\ pc'[p] # "nrepeat"
    BY <1>3, <1>5, <1>10 DEF RoundLabels, TrialLabels, LoopLabels
  <2>2. Round(p)' = n[p] * NTrials + NTrials /\ Place(p)' = NTrials + 1
    BY <1>1, <2>1 DEF Round, Place, Stage
  <2>3. Onward(p) /\ Round(p)' = Round(p) + 1
    BY <1>1, <1>6, <1>8, <1>10, <2>2 DEF Onward
  <2>4. Rounded(p)'
    BY <1>1, <1>6, <1>7, <2>3, OwnRounded DEF DriverInv, RoundInv, Rounded
  <2> QED BY <1>1, <1>3, <1>4, <1>5, <1>7, <1>10, <2>3, <2>4
<1> QED BY <1>9, <1>10

LEMMA DriverResetRounds ==
  ASSUME DriverInv, DriverInv', RoundInv, NEW p \in Proc, DriverReset(p)
  PROVE  RoundInv'
<1>1. /\ OthersStay(p) /\ UNCHANGED colls /\ Rounded(p)'
      /\ Round(p)' = Round(p) + 1 /\ InTrial(p)
  BY ResetRound
<1>2. Len(colls[p]) \in Nat
  BY DEF DriverInv, ControlTypeOK
<1>3. \A q \in Proc : q # p => Rounded(q)' /\ Round(q)' = Round(q) /\ Committed(q)' = Committed(q)
  BY <1>1, <1>2, OtherRounded
<1>4. \A q \in Proc : Round(q) \in Nat
  BY RoundType DEF DriverInv
<1>5. ASSUME NEW x \in Proc, NEW y \in Proc, Round(x)' > Round(y)'
      PROVE  Round(x)' = Round(y)' + 1 /\ Committed(y)'
  <2>1. CASE x = p /\ y # p
    <3>1. Round(p) <= Round(y) /\ (Round(p) = Round(y) => Committed(y))
      BY <1>1, TrialIsLast
    <3> QED BY <1>1, <1>3, <1>4, <1>5, <2>1, <3>1
  <2>2. CASE x # p /\ y = p
    <3>1. Round(x) > Round(p) => Round(x) = Round(p) + 1
      BY DEF RoundInv
    <3> QED BY <1>1, <1>3, <1>4, <1>5, <2>2, <3>1
  <2>3. CASE x # p /\ y # p
    BY <1>3, <1>5, <2>3 DEF RoundInv
  <2>4. CASE x = p /\ y = p
    BY <1>1, <1>4, <1>5, <2>4
  <2> QED BY <2>1, <2>2, <2>3, <2>4
<1> QED BY <1>1, <1>3, <1>5 DEF RoundInv

LEMMA EnterRounds ==
  ASSUME DriverInv, DriverInv', RoundInv, NEW p \in Proc, EnterCollective(p)
  PROVE  RoundInv' /\ RoundStep(p)
<1> DEFINE k == Len(colls[p]) + 1
<1>1. PICK v \in Contribution(p) :
        /\ colls' = [colls EXCEPT ![p] = Append(@,
                       [call |-> pc[p], n |-> n[p], trial |-> trial[p], val |-> v])]
        /\ nrepeat'  = [nrepeat EXCEPT ![p] = IF pc[p] = "nrepeat" THEN v ELSE @]
  BY DEF EnterCollective
<1>2. /\ pc[p] \in CollectiveCalls /\ ~inside[p]
      /\ inside' = [inside EXCEPT ![p] = TRUE] /\ UNCHANGED <<pc, n, trial, j>>
  BY DEF EnterCollective
<1>3. v \in Nat /\ (pc[p] = "finish" /\ n[p] >= Tests => v # 0)
  BY NetPIPEAssumption DEF Contribution, Tests
<1>4. PICK r \in CallRecord :
        r = [call |-> pc[p], n |-> n[p], trial |-> trial[p], val |-> v]
  <2>1. n[p] \in Nat /\ trial[p] \in Nat
    BY DEF DriverInv, ControlTypeOK
  <2>2. [call |-> pc[p], n |-> n[p], trial |-> trial[p], val |-> v] \in CallRecord
    BY <1>2, <1>3, <2>1 DEF CallRecord
  <2> QED BY <2>2
<1>5. colls[p] \in Seq(CallRecord) /\ colls'[p] = Append(colls[p], r)
  BY <1>1, <1>4 DEF DriverInv, ControlTypeOK
<1>6. /\ Len(colls'[p]) = k /\ k \in Nat /\ Len(colls[p]) = k - 1 /\ colls'[p][k] = r
      /\ \A m \in 1 .. k - 1 : colls'[p][m] = colls[p][m] /\ colls[p][m] \in CallRecord
  BY <1>4, <1>5
<1>7. OthersStay(p)
  BY <1>1, <1>2 DEF OthersStay, DriverInv, ControlTypeOK
<1>8. /\ pc'[p] = pc[p] /\ n'[p] = n[p] /\ trial'[p] = trial[p] /\ j'[p] = j[p] /\ inside'[p]
      /\ Place(p)' = Place(p) /\ Round(p)' = Round(p) /\ InTrial(p)' = InTrial(p)
      /\ pc[p] \notin {"burst", "prepostFirst"} /\ ~InLoop(p) /\ ~InLoop(p)'
  BY <1>2 DEF Place, Round, InTrial, InLoop, CollectiveCalls, Barriers, Bcasts, Gathers,
     DriverInv, ControlTypeOK
<1>9. ~Waiting(p)' /\ Onward(p) /\ (Committed(p) => Committed(p)')
  BY <1>8 DEF Waiting, Onward, Committed
<1>10. Behind(r, p)' /\ LastTestEnds(r)
  <2>1. r.call = pc[p] /\ r.n = n[p] /\ r.trial = trial[p] /\ r.val = v
    BY <1>4
  <2>2. Stage(r.call, r.trial) = Place(p)
    BY <2>1 DEF Place
  <2>3. Behind(r, p)'
    BY <1>8, <1>9, <2>1, <2>2 DEF Behind
  <2> QED BY <1>3, <2>1, <2>3 DEF LastTestEnds
<1>11. ASSUME NEW m \in 1 .. Len(colls'[p])
       PROVE  Behind(colls[p][m], p)' /\ LastTestEnds(colls[p][m])'
  <2>1. CASE m = k
    <3>1. colls'[p][m] = r
      BY <1>6, <2>1
    <3> QED BY <1>10, <3>1 DEF Behind, LastTestEnds
  <2>2. CASE m # k
    <3>1. m \in 1 .. Len(colls[p]) /\ colls'[p][m] = colls[p][m]
      BY <1>6, <2>2
    <3>2. PICK e \in CallRecord : e = colls[p][m]
      BY <1>6, <3>1
    <3>3. Behind(e, p) /\ LastTestEnds(e)
      BY <3>1, <3>2 DEF RoundInv, Rounded
    <3>4. Behind(e, p)'
      BY <1>9, <3>3, BehindKept DEF DriverInv
    <3> QED BY <3>1, <3>2, <3>3, <3>4 DEF Behind, LastTestEnds
  <2> QED BY <2>1, <2>2
<1>12. InTrial(p)' => Synced(p)'
  <2>1. SUFFICES ASSUME InTrial(p) PROVE Synced(p)'
    BY <1>8
  <2>2. PICK m \in 1 .. Len(colls[p]) : /\ Key(colls[p][m]) = <<"sync", n[p], trial[p]>>
                                        /\ \A q \in Proc : m <= Len(colls[q])
    BY <2>1 DEF RoundInv, Rounded, Synced
  <2>3. m \in 1 .. Len(colls'[p]) /\ colls'[p][m] = colls[p][m]
    BY <1>6, <2>2
  <2>4. \A q \in Proc : m <= Len(colls'[q])
    BY <1>6, <1>7, <2>2, <2>3 DEF OthersStay
  <2> QED BY <1>8, <2>2, <2>3, <2>4 DEF Synced, Key
<1>13. Rounded(p)'
  BY <1>8, <1>11, <1>12 DEF RoundInv, Rounded
<1> QED BY <1>6, <1>7, <1>8, <1>9, <1>13, RoundMove DEF RoundStep

\* The invariant holds initially, and a step that does not move the driver keeps it.
LEMMA InitRounds == DriverInit => RoundInv
<1> SUFFICES ASSUME DriverInit PROVE RoundInv
  OBVIOUS
<1> USE NetPIPEAssumption DEF DriverInit
<1>1. ASSUME NEW p \in Proc PROVE Rounded(p) /\ Round(p) = NTrials
  <2>1. n[p] = 1 /\ pc[p] = "nrepeat" /\ colls[p] = << >> /\ j[p] = 0
    OBVIOUS
  <2>2. Tests >= 1 /\ Tests \in Nat
    BY DEF Tests
  <2>3. ~InTrial(p) /\ ~InLoop(p)
    BY <2>1 DEF InTrial, InLoop, TrialLabels, LoopLabels
  <2> QED BY <2>1, <2>2, <2>3 DEF Rounded, Round
<1>2. ASSUME NEW p \in Proc, NEW q \in Proc PROVE ~(Round(p) > Round(q))
  BY <1>1
<1> QED BY <1>1, <1>2 DEF RoundInv

LEMMA StutterRounds ==
  ASSUME RoundInv, UNCHANGED <<pc, inside, colls, loopVars>>
  PROVE  RoundInv'
BY DEF RoundInv, Rounded, Round, Committed, InTrial, InLoop, Synced, Behind, Waiting, Place,
   LastTestEnds, loopVars

LEMMA StutterDriver ==
  ASSUME DriverInv, UNCHANGED <<pc, inside, colls, loopVars>>
  PROVE  DriverInv'
BY DEF DriverInv, ControlTypeOK, CollectivesMatch, LogInOrder, AtItsPlace, Upcoming,
   CommonRepeats, InLoop, Passed, Last, loopVars

-----------------------------------------------------------------------------
(***************************************************************************)
(* Counting the messages of a pair.                                        *)
(***************************************************************************)

\* With --stream only the first half sends, and only the other receives.
Sends(p)    == Mode = "stream" => Transmitter(p)
Receives(p) == Mode = "stream" => ~Transmitter(p)

\* The messages p has sent, and checked, in the trial it is in.
OwnSent(p) ==
  IF ~Sends(p) THEN 0
  ELSE IF pc[p] \in {"endsync", "reset"} THEN nrepeat[p]
  ELSE IF pc[p] = "recv" /\ Transmitter(p) THEN j[p] + 1
  ELSE IF InLoop(p) THEN j[p] ELSE 0

OwnGot(p) ==
  IF ~Receives(p) THEN 0
  ELSE IF pc[p] \in {"endsync", "reset"} THEN nrepeat[p]
  ELSE IF pc[p] \in {"prepostNext", "send", "sending"} /\ ~Transmitter(p) THEN j[p] + 1
  ELSE IF InLoop(p) THEN j[p] ELSE 0

\* The same, in the round that the one of p and q is in which is behind.
Sent(p, q) == IF Round(p) > Round(q) THEN (IF Sends(p) THEN nrepeat[q] ELSE 0) ELSE OwnSent(p)
Got(p, q)  == IF Round(p) > Round(q) THEN (IF Receives(p) THEN nrepeat[q] ELSE 0) ELSE OwnGot(p)

\* The messages that p has stamped and q has not checked.
Unchecked(p, q) == Sent(p, q) + (IF pc[p] = "sending" THEN 1 ELSE 0) - Got(q, p)

LEMMA PairFacts ==
  ASSUME NEW p \in Proc
  PROVE  /\ Pair(p) \in Proc /\ Pair(p) # p /\ Pair(Pair(p)) = p
         /\ Sends(p) <=> Receives(Pair(p))
         /\ Receives(p) <=> Sends(Pair(p))
<1>1. NPairs \in Nat \ {0} /\ p \in 0 .. 2 * NPairs - 1
  BY NetPIPEAssumption DEF Proc, NProcs
<1>2. Pair(p) = 2 * NPairs - 1 - p
  BY DEF Pair, NProcs
<1>3. Pair(p) \in Proc /\ Pair(p) # p /\ Pair(Pair(p)) = p /\ (p < NPairs <=> ~(Pair(p) < NPairs))
  BY <1>1, <1>2 DEF Proc, NProcs, Pair
<1> QED BY <1>3 DEF Sends, Receives, Transmitter

\* Only those that send are at a send.
SendersSend == \A p \in Proc : pc[p] \in {"send", "sending"} => Sends(p)

LEMMA OwnFacts ==
  ASSUME DriverInv, RoundInv, SendersSend, NEW p \in Proc
  PROVE  /\ OwnSent(p) \in Nat /\ OwnGot(p) \in Nat /\ j[p] \in Nat /\ nrepeat[p] \in Nat
         /\ ~InTrial(p) => /\ OwnSent(p) = 0 /\ OwnGot(p) = 0
                           /\ pc[p] # "sending" /\ pc[p] # "recv"
         /\ pc[p] = "sending" => Sends(p)
         /\ OwnSent(p) + (IF pc[p] = "sending" THEN 1 ELSE 0) <= nrepeat[p]
         /\ ~Sends(p) => OwnSent(p) = 0
         /\ ~Receives(p) => OwnGot(p) = 0
         /\ pc[p] = "reset" =>
              /\ OwnSent(p) = IF Sends(p) THEN nrepeat[p] ELSE 0
              /\ OwnGot(p) = IF Receives(p) THEN nrepeat[p] ELSE 0
              /\ InTrial(p)
<1>1. j[p] \in Nat /\ nrepeat[p] \in Nat
  BY DEF DriverInv, ControlTypeOK
<1>2. InLoop(p) => j[p] < nrepeat[p]
  BY DEF RoundInv, Rounded
<1>3. InLoop(p) <=> pc[p] \in {"prepost", "prepostNext", "send", "sending", "recv"}
  BY DEF InLoop
<1>4. InTrial(p) <=> InLoop(p) \/ pc[p] \in {"endsync", "reset"}
  BY InLoopLabel
<1>5. pc[p] \in {"send", "sending"} => Sends(p)
  BY DEF SendersSend
<1>6. OwnSent(p) \in Nat /\ OwnGot(p) \in Nat
  BY <1>1 DEF OwnSent, OwnGot
<1>7. OwnSent(p) + (IF pc[p] = "sending" THEN 1 ELSE 0) <= nrepeat[p]
  BY <1>1, <1>2, <1>3, <1>5 DEF OwnSent
<1>8. ~InTrial(p) => OwnSent(p) = 0 /\ OwnGot(p) = 0 /\ pc[p] # "sending" /\ pc[p] # "recv"
  BY <1>3, <1>4 DEF OwnSent, OwnGot
<1>9. pc[p] = "reset" => /\ OwnSent(p) = IF Sends(p) THEN nrepeat[p] ELSE 0
                         /\ OwnGot(p) = IF Receives(p) THEN nrepeat[p] ELSE 0
                         /\ InTrial(p)
  BY <1>4 DEF OwnSent, OwnGot
<1>10. (~Sends(p) => OwnSent(p) = 0) /\ (~Receives(p) => OwnGot(p) = 0)
  BY DEF OwnSent, OwnGot
<1> QED BY <1>1, <1>5, <1>6, <1>7, <1>8, <1>9, <1>10

\* A process in a trial is not ahead: its counts are its own.
LEMMA TrialCounts ==
  ASSUME DriverInv, RoundInv, NEW p \in Proc, NEW q \in Proc, InTrial(p)
  PROVE  ~(Round(p) > Round(q)) /\ Sent(p, q) = OwnSent(p) /\ Got(p, q) = OwnGot(p)
<1>1. Round(p) <= Round(q)
  BY TrialIsLast
<1>2. Round(p) \in Nat /\ Round(q) \in Nat
  BY RoundType DEF DriverInv
<1> QED BY <1>1, <1>2 DEF Sent, Got

LEMMA CountTypes ==
  ASSUME DriverInv, RoundInv, SendersSend, NEW p \in Proc, NEW q \in Proc
  PROVE  Sent(p, q) \in Nat /\ Got(p, q) \in Nat /\ Unchecked(p, q) \in Int
<1>1. \A x \in Proc : OwnSent(x) \in Nat /\ OwnGot(x) \in Nat /\ nrepeat[x] \in Nat
  BY OwnFacts
<1>2. \A x, y \in Proc : Sent(x, y) \in Nat /\ Got(x, y) \in Nat
  BY <1>1 DEF Sent, Got
<1> QED BY <1>2 DEF Unchecked

\* All that is stamped for a process at the end of its trial has been checked.
LEMMA NoneLeft ==
  ASSUME DriverInv, RoundInv, SendersSend, NEW p \in Proc, pc[p] = "reset"
  PROVE  Unchecked(Pair(p), p) <= 0
<1> DEFINE q == Pair(p)
<1>1. q \in Proc /\ (Sends(q) <=> Receives(p))
  BY PairFacts
<1> HIDE DEF q
<1>2. /\ InTrial(p) /\ OwnGot(p) = IF Receives(p) THEN nrepeat[p] ELSE 0
      /\ nrepeat[p] \in Nat
  BY OwnFacts
<1>3. Got(p, q) = OwnGot(p) /\ Round(p) <= Round(q)
  BY <1>1, <1>2, TrialCounts, TrialIsLast
<1>4. /\ OwnSent(q) \in Nat /\ nrepeat[q] \in Nat
      /\ OwnSent(q) + (IF pc[q] = "sending" THEN 1 ELSE 0) <= nrepeat[q]
      /\ ~Sends(q) => OwnSent(q) = 0
      /\ ~InTrial(q) => pc[q] # "sending"
      /\ pc[q] = "sending" => Sends(q)
  BY <1>1, OwnFacts
<1>5. Round(p) \in Nat /\ Round(q) \in Nat
  BY <1>1, RoundType DEF DriverInv
<1>6. CASE Round(q) > Round(p)
  <2>1. ~InTrial(q)
    BY <1>1, <1>2, <1>5, <1>6, TrialIsLast
  <2>2. Sent(q, p) = IF Sends(q) THEN nrepeat[p] ELSE 0
    BY <1>6 DEF Sent
  <2>3. Unchecked(q, p) = 0
    BY <1>1, <1>2, <1>3, <1>4, <2>1, <2>2 DEF Unchecked
  <2> QED BY <2>3 DEF q
<1>7. CASE Round(q) = Round(p)
  <2>1. n[q] = n[p] /\ Committed(q)
    BY <1>1, <1>2, <1>7, TrialIsLast
  <2>2. pc[q] # "nrepeat" /\ pc[p] # "nrepeat"
    BY <2>1 DEF Committed, InTrial, TrialLabels, LoopLabels
  <2>3. nrepeat[q] = nrepeat[p]
    BY <1>1, <2>1, <2>2, SameRepeats
  <2>4. Sent(q, p) = OwnSent(q)
    BY <1>5, <1>7 DEF Sent
  <2>5. Unchecked(q, p) = OwnSent(q) + (IF pc[q] = "sending" THEN 1 ELSE 0) - OwnGot(p)
    BY <1>3, <2>4 DEF Unchecked
  <2>6. OwnGot(p) = IF Sends(q) THEN nrepeat[q] ELSE 0
    BY <1>1, <1>2, <2>3
  <2>7. Unchecked(q, p) <= 0
    BY <1>4, <2>5, <2>6
  <2> QED BY <2>7 DEF q
<1> QED BY <1>3, <1>5, <1>6, <1>7

-----------------------------------------------------------------------------
(***************************************************************************)
(* How a step of the driver changes the counts of a pair.                  *)
(***************************************************************************)

\* The driver of x has not moved.
LEMMA SameDriver ==
  ASSUME NEW p \in Proc, OthersStay(p), NEW x \in Proc, x # p
  PROVE  /\ pc'[x] = pc[x] /\ inside'[x] = inside[x] /\ colls'[x] = colls[x]
         /\ Round(x)' = Round(x)
<1>1. /\ pc'[x] = pc[x] /\ inside'[x] = inside[x] /\ colls'[x] = colls[x]
      /\ n'[x] = n[x] /\ trial'[x] = trial[x]
  BY DEF OthersStay
<1> QED BY <1>1 DEF Round

\* The counts of two processes that do not move.
LEMMA OtherCounts ==
  ASSUME NEW p \in Proc, OthersStay(p), NEW x \in Proc, NEW y \in Proc, x # p, y # p
  PROVE  Unchecked(x, y)' = Unchecked(x, y)
<1>1. ASSUME NEW z \in Proc, z # p
      PROVE  /\ pc'[z] = pc[z] /\ nrepeat'[z] = nrepeat[z] /\ Round(z)' = Round(z)
             /\ OwnSent(z)' = OwnSent(z) /\ OwnGot(z)' = OwnGot(z)
  <2>1. pc'[z] = pc[z] /\ j'[z] = j[z] /\ nrepeat'[z] = nrepeat[z] /\ n'[z] = n[z]
        /\ trial'[z] = trial[z]
    BY <1>1 DEF OthersStay
  <2> QED BY <2>1 DEF Round, OwnSent, OwnGot, InLoop, Sends, Receives
<1>2. /\ pc'[x] = pc[x] /\ nrepeat'[x] = nrepeat[x] /\ Round(x)' = Round(x)
      /\ OwnSent(x)' = OwnSent(x) /\ OwnGot(x)' = OwnGot(x)
  BY <1>1
<1>3. /\ pc'[y] = pc[y] /\ nrepeat'[y] = nrepeat[y] /\ Round(y)' = Round(y)
      /\ OwnSent(y)' = OwnSent(y) /\ OwnGot(y)' = OwnGot(y)
  BY <1>1
<1> QED BY <1>2, <1>3 DEF Unchecked, Sent, Got, Sends, Receives

\* What stays when p moves within a round.
LEMMA MoveCounts ==
  ASSUME DriverInv, RoundInv, NEW p \in Proc, NEW q \in Proc, q # p, OthersStay(p),
         Round(p)' = Round(p), Committed(p) => nrepeat'[p] = nrepeat[p]
  PROVE  /\ Sent(q, p)' = Sent(q, p) /\ Got(q, p)' = Got(q, p) /\ pc'[q] = pc[q]
         /\ Sent(p, q)' = IF Round(p) > Round(q) THEN Sent(p, q) ELSE OwnSent(p)'
         /\ Got(p, q)' = IF Round(p) > Round(q) THEN Got(p, q) ELSE OwnGot(p)'
<1>1. pc'[q] = pc[q] /\ j'[q] = j[q] /\ nrepeat'[q] = nrepeat[q] /\ n'[q] = n[q]
      /\ trial'[q] = trial[q]
  BY DEF OthersStay
<1>2. Round(q)' = Round(q) /\ OwnSent(q)' = OwnSent(q) /\ OwnGot(q)' = OwnGot(q)
  BY <1>1 DEF Round, OwnSent, OwnGot, InLoop, Sends, Receives
<1>3. Round(q) > Round(p) => nrepeat'[p] = nrepeat[p]
  BY DEF RoundInv
<1>4. Sent(q, p)' = Sent(q, p) /\ Got(q, p)' = Got(q, p)
  BY <1>2, <1>3 DEF Sent, Got, Sends, Receives
<1>5. /\ Sent(p, q)' = IF Round(p) > Round(q) THEN Sent(p, q) ELSE OwnSent(p)'
      /\ Got(p, q)' = IF Round(p) > Round(q) THEN Got(p, q) ELSE OwnGot(p)'
  BY <1>1, <1>2 DEF Sent, Got, Sends, Receives
<1> QED BY <1>1, <1>4, <1>5

\* A step of p that handles no message.
LEMMA QuietCounts ==
  ASSUME DriverInv, RoundInv, NEW p \in Proc, NEW q \in Proc, q # p, OthersStay(p),
         Round(p)' = Round(p), Committed(p) => nrepeat'[p] = nrepeat[p],
         OwnSent(p)' = OwnSent(p), OwnGot(p)' = OwnGot(p),
         (pc'[p] = "sending") <=> (pc[p] = "sending")
  PROVE  Unchecked(p, q)' = Unchecked(p, q) /\ Unchecked(q, p)' = Unchecked(q, p)
<1>1. /\ Sent(q, p)' = Sent(q, p) /\ Got(q, p)' = Got(q, p) /\ pc'[q] = pc[q]
      /\ Sent(p, q)' = IF Round(p) > Round(q) THEN Sent(p, q) ELSE OwnSent(p)'
      /\ Got(p, q)' = IF Round(p) > Round(q) THEN Got(p, q) ELSE OwnGot(p)'
  BY MoveCounts
<1>2. Sent(p, q)' = Sent(p, q) /\ Got(p, q)' = Got(p, q)
  BY <1>1 DEF Sent, Got
<1> QED BY <1>1, <1>2 DEF Unchecked

\* A step of p within its trial.
LEMMA TrialMove ==
  ASSUME DriverInv, RoundInv, NEW p \in Proc, NEW q \in Proc, q # p, OthersStay(p),
         Round(p)' = Round(p), nrepeat'[p] = nrepeat[p], InTrial(p)
  PROVE  /\ Unchecked(q, p) = Sent(q, p) + (IF pc[q] = "sending" THEN 1 ELSE 0) - OwnGot(p)
         /\ Unchecked(q, p)' = Sent(q, p) + (IF pc[q] = "sending" THEN 1 ELSE 0) - OwnGot(p)'
         /\ Unchecked(p, q) = OwnSent(p) + (IF pc[p] = "sending" THEN 1 ELSE 0) - Got(q, p)
         /\ Unchecked(p, q)' = OwnSent(p)' + (IF pc'[p] = "sending" THEN 1 ELSE 0) - Got(q, p)
<1>1. /\ Sent(q, p)' = Sent(q, p) /\ Got(q, p)' = Got(q, p) /\ pc'[q] = pc[q]
      /\ Sent(p, q)' = IF Round(p) > Round(q) THEN Sent(p, q) ELSE OwnSent(p)'
      /\ Got(p, q)' = IF Round(p) > Round(q) THEN Got(p, q) ELSE OwnGot(p)'
  BY MoveCounts
<1>2. ~(Round(p) > Round(q)) /\ Sent(p, q) = OwnSent(p) /\ Got(p, q) = OwnGot(p)
  BY TrialCounts
<1> QED BY <1>1, <1>2 DEF Unchecked

\* The step of p to the next round.
LEMMA ResetCounts ==
  ASSUME DriverInv, DriverInv', RoundInv, SendersSend, NEW p \in Proc, DriverReset(p)
  PROVE  LET q == Pair(p) IN
         Unchecked(p, q)' = Unchecked(p, q) /\ Unchecked(q, p)' = Unchecked(q, p)
<1> DEFINE q == Pair(p)
<1>1. q \in Proc /\ q # p /\ (Sends(q) <=> Receives(p)) /\ (Sends(p) <=> Receives(q))
  BY PairFacts
<1> HIDE DEF q
<1>2. /\ OthersStay(p) /\ Round(p)' = Round(p) + 1 /\ InTrial(p) /\ ~InTrial(p)'
      /\ pc[p] = "reset" /\ nrepeat' = nrepeat
      /\ pc'[p] \in {"burst", "prepostFirst", "sync", "mintime", "gather"}
  BY ResetRound DEF DriverReset
<1>3. pc'[q] = pc[q] /\ j'[q] = j[q] /\ nrepeat'[q] = nrepeat[q] /\ n'[q] = n[q]
      /\ trial'[q] = trial[q]
  BY <1>1, <1>2 DEF OthersStay
<1>4. Round(q)' = Round(q) /\ OwnSent(q)' = OwnSent(q) /\ OwnGot(q)' = OwnGot(q)
  BY <1>3 DEF Round, OwnSent, OwnGot, InLoop, Sends, Receives
<1>5. OwnSent(p)' = 0 /\ OwnGot(p)' = 0 /\ pc'[p] # "sending" /\ pc[p] # "sending"
  BY <1>2 DEF OwnSent, OwnGot, InLoop
<1>6. /\ OwnSent(p) = IF Sends(p) THEN nrepeat[p] ELSE 0
      /\ OwnGot(p) = IF Receives(p) THEN nrepeat[p] ELSE 0
      /\ nrepeat[p] \in Nat /\ OwnSent(q) \in Nat /\ OwnGot(q) \in Nat
  BY <1>1, <1>2, OwnFacts
<1>7. /\ Sent(p, q) = OwnSent(p) /\ Got(p, q) = OwnGot(p)
      /\ Round(p) <= Round(q) /\ Round(p) \in Nat /\ Round(q) \in Nat
  BY <1>1, <1>2, TrialCounts, TrialIsLast, RoundType DEF DriverInv
<1>8. CASE Round(q) = Round(p)
  <2>1. n[q] = n[p] /\ Committed(q)
    BY <1>1, <1>2, <1>8, TrialIsLast
  <2>2. pc[q] # "nrepeat" /\ pc[p] # "nrepeat"
    BY <1>2, <2>1 DEF Committed, InTrial, TrialLabels, LoopLabels
  <2>3. nrepeat[q] = nrepeat[p]
    BY <1>1, <2>1, <2>2, SameRepeats
  <2>4. /\ Sent(p, q)' = IF Sends(p) THEN nrepeat[q] ELSE 0
        /\ Got(p, q)' = IF Receives(p) THEN nrepeat[q] ELSE 0
    BY <1>2, <1>3, <1>4, <1>7, <1>8 DEF Sent, Got, Sends, Receives
  <2>5. /\ Sent(q, p)' = OwnSent(q) /\ Got(q, p)' = OwnGot(q)
        /\ Sent(q, p) = OwnSent(q) /\ Got(q, p) = OwnGot(q)
    BY <1>2, <1>4, <1>7, <1>8 DEF Sent, Got
  <2>6. Sent(p, q)' = Sent(p, q) /\ Got(p, q)' = Got(p, q)
    BY <1>6, <1>7, <2>3, <2>4
  <2> QED BY <1>3, <1>5, <2>5, <2>6 DEF Unchecked, q
<1>9. CASE Round(q) > Round(p)
  <2>1. Round(q) = Round(p) + 1 /\ ~InTrial(q)
    BY <1>1, <1>2, <1>7, <1>9, TrialIsLast DEF RoundInv
  <2>2. OwnSent(q) = 0 /\ OwnGot(q) = 0 /\ pc[q] # "sending"
    BY <1>1, <2>1, OwnFacts
  <2>3. /\ Sent(q, p) = IF Sends(q) THEN nrepeat[p] ELSE 0
        /\ Got(q, p) = IF Receives(q) THEN nrepeat[p] ELSE 0
    BY <1>9 DEF Sent, Got
  <2>4. Unchecked(p, q) = 0 /\ Unchecked(q, p) = 0
    BY <1>1, <1>5, <1>6, <1>7, <2>2, <2>3 DEF Unchecked
  <2>5. ~(Round(p)' > Round(q)') /\ ~(Round(q)' > Round(p)')
    BY <1>2, <1>4, <1>7, <2>1
  <2>6. Sent(p, q)' = 0 /\ Got(p, q)' = 0 /\ Sent(q, p)' = 0 /\ Got(q, p)' = 0
    BY <1>4, <1>5, <2>2, <2>5 DEF Sent, Got
  <2>7. Unchecked(p, q)' = 0 /\ Unchecked(q, p)' = 0
    BY <1>3, <1>5, <2>2, <2>6 DEF Unchecked
  <2> QED BY <2>4, <2>7 DEF q
<1> QED BY <1>7, <1>8, <1>9

\* A step that does not move the driver keeps its counts.
LEMMA StillCounts ==
  ASSUME UNCHANGED <<pc, inside, colls, loopVars>>, NEW p \in Proc
  PROVE  /\ RoundStep(p)
         /\ \A x, y \in Proc : Unchecked(x, y)' = Unchecked(x, y)
<1>1. \A x \in Proc : /\ Round(x)' = Round(x) /\ OwnSent(x)' = OwnSent(x)
                      /\ OwnGot(x)' = OwnGot(x)
  BY DEF Round, OwnSent, OwnGot, InLoop, Sends, Receives, loopVars
<1>2. RoundStep(p)
  BY <1>1 DEF RoundStep, OthersStay, loopVars
<1>3. \A x, y \in Proc : Sent(x, y)' = Sent(x, y) /\ Got(x, y)' = Got(x, y)
  BY <1>1 DEF Sent, Got, Sends, Receives, loopVars
<1>4. \A x, y \in Proc : Unchecked(x, y)' = Unchecked(x, y)
  BY <1>3 DEF Unchecked
<1> QED BY <1>2, <1>4

-----------------------------------------------------------------------------
(***************************************************************************)
(* Process 0 is the root of the gather of each test, and waits for all.    *)
(***************************************************************************)

\* Process 0 has finished the test x is in.
RootPast(x) == n[x] < n[0] \/ (n[x] = n[0] /\ pc[0] \in {"finish", "done"})

\* A process that it has passed is past its trials too.
RootWaits == \A x \in Proc : RootPast(x) => Place(x) = NTrials + 1

\* A step within a test.
LEMMA RootStays ==
  ASSUME RootWaits, NEW p \in Proc, OthersStay(p), n'[p] = n[p],
         pc'[p] \in {"finish", "done"} => pc[p] \in {"finish", "done"},
         Place(p) = NTrials + 1 => Place(p)' = NTrials + 1
  PROVE  RootWaits'
<1>1. 0 \in Proc
  BY NetPIPEAssumption DEF Proc, NProcs
<1>2. \A x \in Proc : x # p => pc'[x] = pc[x] /\ n'[x] = n[x] /\ trial'[x] = trial[x]
  BY DEF OthersStay
<1>3. \A x \in Proc : x # p => Place(x)' = Place(x)
  BY <1>2 DEF Place, Stage
<1>4. \A x \in Proc : RootPast(x)' => RootPast(x)
  BY <1>1, <1>2 DEF RootPast
<1> QED BY <1>3, <1>4 DEF RootWaits

\* The places of a trial are not past it.
LEMMA TrialPlace ==
  ASSUME ControlTypeOK, NEW p \in Proc, pc[p] \in RoundLabels \cup {"nrepeat"}
  PROVE  Place(p) # NTrials + 1
<1>1. trial[p] \in 0 .. NTrials - 1 /\ NTrials \in Nat \ {0}
  BY NetPIPEAssumption DEF ControlTypeOK
<1> QED BY <1>1 DEF Place, Stage

\* The steps of the message loop and of the trials.
LEMMA TrialRoot ==
  ASSUME RootWaits, DriverInv, NEW p \in Proc, OthersStay(p), n'[p] = n[p],
         pc[p] \in RoundLabels \cup {"nrepeat"},
         pc'[p] \notin {"finish", "done"}
  PROVE  RootWaits'
BY TrialPlace, RootStays DEF DriverInv

LEMMA LoopRoot ==
  ASSUME RootWaits, DriverInv, NEW p \in Proc, OthersStay(p), UNCHANGED n,
         NEW label \in LoopLabels \cup {"iterate", "sync"}, Continue(p, label),
         pc[p] \in RoundLabels
  PROVE  RootWaits'
<1>1. pc'[p] \in LoopLabels \cup {"endsync", "reset", "sync"}
  BY DEF Continue, Goto, IterationStart, LoopExit, LoopLabels, DriverInv, ControlTypeOK
<1>2. pc'[p] \notin {"finish", "done"}
  BY <1>1 DEF LoopLabels
<1> QED BY <1>2, TrialRoot

LEMMA EnterRoot ==
  ASSUME RootWaits, NEW p \in Proc, OthersStay(p), EnterCollective(p)
  PROVE  RootWaits'
<1>1. UNCHANGED <<pc, n, trial>>
  BY DEF EnterCollective
<1>2. Place(p)' = Place(p)
  BY <1>1 DEF Place, Stage
<1> QED BY <1>1, <1>2, RootStays

LEMMA LeaveTrialRoot ==
  ASSUME RootWaits, DriverInv, NEW p \in Proc, OthersStay(p),
         \/ LeaveNrepeat(p) \/ LeaveSync(p) \/ LeaveEndsync(p) \/ DriverReset(p)
         \/ DriverBurst(p)
  PROVE  RootWaits'
<1>1. /\ UNCHANGED n
      /\ pc[p] \in {"nrepeat", "sync", "endsync", "reset", "burst"}
      /\ \/ Goto(p, TrialStart(p)) \/ Goto(p, IterationStart(p)) \/ Goto(p, "reset")
         \/ Goto(p, "sync") \/ Goto(p, "mintime") \/ Goto(p, "gather")
  BY DEF LeaveNrepeat, LeaveSync, LeaveEndsync, DriverReset, DriverBurst, Leave, loopVars
<1>2. pc'[p] \notin {"finish", "done"}
  BY <1>1 DEF Goto, TrialStart, IterationStart, DriverInv, ControlTypeOK
<1>3. pc[p] \in RoundLabels \cup {"nrepeat"}
  BY <1>1 DEF RoundLabels, TrialLabels
<1> QED BY <1>1, <1>2, <1>3, TrialRoot

LEMMA LeaveTimesRoot ==
  ASSUME RootWaits, DriverInv, NEW p \in Proc, OthersStay(p), LeaveTimes(p)
  PROVE  RootWaits'
<1>1. UNCHANGED n /\ pc'[p] \in {"maxtime", "avgtime", "gather"}
  BY DEF LeaveTimes, Goto, loopVars, DriverInv, ControlTypeOK
<1>2. Place(p)' = NTrials + 1
  BY <1>1 DEF Place, Stage, RoundLabels, TrialLabels, LoopLabels
<1> QED BY <1>1, <1>2, RootStays

\* The end of a test.
LEMMA TestEndFacts ==
  ASSUME DriverInv, NEW p \in Proc, LeaveGather(p) \/ LeaveFinish(p)
  PROVE  /\ pc[p] \in {"gather", "finish"} /\ inside[p] /\ MayLeave(p)
         /\ \/ n'[p] = n[p] /\ pc'[p] \in {"finish", "done"}
            \/ n'[p] = n[p] + 1 /\ pc'[p] = "nrepeat"
<1>1. n \in [Proc -> Nat] /\ pc \in [Proc -> Labels]
  BY DEF DriverInv, ControlTypeOK
<1>2. CASE LeaveGather(p)
  BY <1>1, <1>2 DEF LeaveGather, Leave, Goto
<1>3. CASE LeaveFinish(p)
  <2>1. pc[p] = "finish" /\ inside[p] /\ MayLeave(p)
    BY <1>3 DEF LeaveFinish, Leave
  <2>2. CASE RootValue(p) # 0
    <3>1. pc' = [pc EXCEPT ![p] = "done"] /\ UNCHANGED n
      BY <1>3, <2>2 DEF LeaveFinish, Goto
    <3> QED BY <1>1, <2>1, <3>1
  <2>3. CASE RootValue(p) = 0
    <3>1. pc' = [pc EXCEPT ![p] = "nrepeat"] /\ n' = [n EXCEPT ![p] = @ + 1]
      BY <1>3, <2>3 DEF LeaveFinish, Goto
    <3> QED BY <1>1, <2>1, <3>1
  <2> QED BY <2>2, <2>3
<1> QED BY <1>2, <1>3

LEMMA TestEndRoot ==
  ASSUME RootWaits, DriverInv, RoundInv, NEW p \in Proc, OthersStay(p),
         LeaveGather(p) \/ LeaveFinish(p)
  PROVE  RootWaits'
<1>1. 0 \in Proc /\ NTrials \in Nat \ {0}
  BY NetPIPEAssumption DEF Proc, NProcs
<1>2. /\ pc[p] \in {"gather", "finish"} /\ inside[p] /\ MayLeave(p)
      /\ \/ n'[p] = n[p] /\ pc'[p] \in {"finish", "done"}
         \/ n'[p] = n[p] + 1 /\ pc'[p] = "nrepeat"
  BY TestEndFacts
<1>3. n[p] \in Nat /\ n[0] \in Nat /\ \A x \in Proc : n[x] \in Nat
  BY <1>1 DEF DriverInv, ControlTypeOK
<1>4. \A x \in Proc : x # p => pc'[x] = pc[x] /\ n'[x] = n[x] /\ trial'[x] = trial[x]
  BY DEF OthersStay
<1>5. \A x \in Proc : x # p => Place(x)' = Place(x)
  BY <1>4 DEF Place, Stage
<1>6. pc'[p] \in {"finish", "done"} => Place(p)' = NTrials + 1
  BY DEF Place, Stage, RoundLabels, TrialLabels, LoopLabels
<1>7. CASE p # 0
  <2>1. \A x \in Proc : x # p => (RootPast(x)' => RootPast(x))
    BY <1>1, <1>4, <1>7 DEF RootPast
  <2>2. ASSUME RootPast(p)', pc'[p] = "nrepeat" PROVE FALSE
    <3>1. n'[p] = n[p] + 1 /\ n'[0] = n[0] /\ pc'[0] = pc[0]
      BY <1>1, <1>2, <1>4, <1>7, <2>2
    <3>2. n[0] > n[p] + 1 \/ (n[0] = n[p] + 1 /\ pc[0] \in {"finish", "done"})
      BY <1>3, <2>2, <3>1 DEF RootPast
    <3>3. /\ n[p] * NTrials \in Nat /\ n[0] * NTrials \in Nat
          /\ Round(p) \in Nat /\ Round(0) \in Nat /\ Round(0) >= n[0] * NTrials
      BY <1>1, RoundType DEF DriverInv
    <3>4. Round(p) = n[p] * NTrials + NTrials
      BY <1>2 DEF Round, RoundLabels, TrialLabels, LoopLabels
    <3>5. (n[p] + 1) * NTrials = n[p] * NTrials + NTrials
      BY <1>3, Longer
    <3>6. CASE n[0] > n[p] + 1
      <4>1. (n[p] + 1) * NTrials + NTrials <= n[0] * NTrials
        <5>1. n[p] + 1 \in Int /\ n[0] \in Int /\ n[p] + 1 < n[0]
          BY <1>3, <3>6
        <5> QED BY <5>1, Longer
      <4>2. Round(0) > Round(p)
        BY <1>1, <3>3, <3>4, <3>5, <4>1
      <4>3. ~Committed(p)
        BY <1>2 DEF Committed, InTrial, TrialLabels, LoopLabels
      <4> QED BY <1>1, <4>2, <4>3 DEF RoundInv
    <3>7. CASE n[0] = n[p] + 1 /\ pc[0] \in {"finish", "done"}
      <4>1. Round(0) = (n[p] + 1) * NTrials + NTrials
        BY <3>7 DEF Round, RoundLabels, TrialLabels, LoopLabels
      <4>2. Round(0) > Round(p)
        BY <1>1, <3>3, <3>4, <3>5, <4>1
      <4>3. ~Committed(p)
        BY <1>2 DEF Committed, InTrial, TrialLabels, LoopLabels
      <4> QED BY <1>1, <4>2, <4>3 DEF RoundInv
    <3> QED BY <3>2, <3>6, <3>7
  <2> QED BY <1>2, <1>5, <1>6, <2>1, <2>2 DEF RootWaits
<1>8. CASE p = 0
  <2>1. ASSUME NEW x \in Proc, n[x] = n[0] PROVE Place(x) = NTrials + 1
    <3>1. CASE pc[0] = "finish"
      BY <2>1, <3>1 DEF RootWaits, RootPast
    <3>2. CASE pc[0] = "gather"
      <4>1. Joined(0, x)
        BY <1>2, <1>8, <3>2 DEF MayLeave, Op, Barriers, Bcasts
      <4>2. PICK k : k = Len(colls[0])
        OBVIOUS
      <4>3. k \in 1 .. Len(colls[0]) /\ k \in 1 .. Len(colls[x]) /\ colls[x] \in Seq(CallRecord)
        <5>1. colls[0] # << >> /\ colls[0] \in Seq(CallRecord) /\ colls[x] \in Seq(CallRecord)
          BY <1>1, <1>2, <1>8 DEF DriverInv, ControlTypeOK, AtItsPlace
        <5>2. Len(colls[0]) <= Len(colls[x])
          BY <4>1 DEF Joined
        <5> QED BY <4>2, <5>1, <5>2
      <4>4. Key(colls[0][k]) = <<"gather", n[0], trial[0]>>
        BY <1>1, <1>2, <1>8, <3>2, <4>2 DEF DriverInv, AtItsPlace, Last
      <4>5. colls[x][k].call = "gather" /\ colls[x][k].n = n[0]
        BY <1>1, <4>3, <4>4 DEF DriverInv, CollectivesMatch, Key
      <4>6. Behind(colls[x][k], x)
        BY <4>3 DEF RoundInv, Rounded
      <4>7. Stage(colls[x][k].call, colls[x][k].trial) = NTrials + 1
        BY <4>5 DEF Stage, RoundLabels, TrialLabels, LoopLabels
      <4>8. NTrials + 1 < Place(x) \/ NTrials + 1 = Place(x)
        BY <1>3, <2>1, <4>5, <4>6, <4>7 DEF Behind
      <4>9. Place(x) <= NTrials + 1
        <5>1. trial[x] \in 0 .. NTrials - 1
          BY DEF DriverInv, ControlTypeOK
        <5> QED BY <1>1, <5>1 DEF Place, Stage
      <4>10. Place(x) \in Nat
        BY RoundType DEF DriverInv
      <4> QED BY <1>1, <4>8, <4>9, <4>10
    <3> QED BY <1>2, <1>8, <3>1, <3>2
  <2>2. ASSUME NEW x \in Proc, x # 0, RootPast(x)' PROVE Place(x)' = NTrials + 1
    <3>1. n[x] < n[0] \/ n[x] = n[0]
      BY <1>2, <1>3, <1>4, <1>8, <2>2 DEF RootPast
    <3>2. Place(x) = NTrials + 1
      BY <2>1, <3>1 DEF RootWaits, RootPast
    <3> QED BY <1>5, <1>8, <2>2, <3>2
  <2>3. RootPast(0)' => pc'[0] \in {"finish", "done"}
    <3>1. n'[0] \in Nat
      BY <1>2, <1>3, <1>8
    <3> QED BY <3>1 DEF RootPast
  <2> QED BY <1>6, <1>8, <2>2, <2>3 DEF RootWaits
<1> QED BY <1>7, <1>8

LEMMA InitRoot == DriverInit => RootWaits
<1> SUFFICES ASSUME DriverInit PROVE RootWaits
  OBVIOUS
<1>1. 0 \in Proc
  BY NetPIPEAssumption DEF Proc, NProcs
<1>2. \A x \in Proc : ~RootPast(x)
  BY <1>1 DEF DriverInit, RootPast
<1> QED BY <1>2 DEF RootWaits

LEMMA StutterRoot ==
  ASSUME RootWaits, UNCHANGED <<pc, inside, colls, loopVars>>
  PROVE  RootWaits'
BY DEF RootWaits, RootPast, Place, Stage, loopVars
=============================================================================
