------------------------------ MODULE TcpSync ------------------------------
(***************************************************************************)
(* tcp_sync() of MP_Lite/tcp.c: the barrier between processes that are not *)
(* all on one node.  A token goes twice around the ring of processes, over *)
(* a blocking socket that is used for nothing else.  Process 0 starts each *)
(* of the laps; the others pass the token on, and the last of their calls  *)
(* is the send whose result is r1.                                         *)
(*                                                                         *)
(* A token is 4 bytes in an otherwise empty socket, so send() and recv()   *)
(* move it whole; a call that returns 0 or less is made again and changes  *)
(* nothing.                                                                *)
(***************************************************************************)
EXTENDS SyncCalls

Next1(p) == IF p = N - 1 THEN 0 ELSE p + 1      \* the process at the end of sd_next

VARIABLES
  tcp_pc,   \* "out", or the call of tcp_sync() a process is in: "r1" .. "r4"
  tokens,   \* tokens[p]: tokens in the socket from the process before p
  tcp_calls \* history: calls of tcp_sync() entered

tcpVars == <<tcp_pc, tokens, tcp_calls>>

TcpInit == /\ tcp_pc    = [p \in Rank |-> "out"]
           /\ tokens    = [p \in Rank |-> 0]
           /\ tcp_calls = [p \in Rank |-> 0]

\* Slip: a single lap, with which process 0 alone knows that all have entered.
After_OneLap(p, r) ==
  CASE r = "out" -> IF p = 0 THEN "r1" ELSE "r2"
    [] r = "r1"  -> IF p = 0 THEN "r2" ELSE "out"
    [] r = "r2"  -> IF p = 0 THEN "out" ELSE "r1"

\* Slip: process 0 starts the second lap before the first is over.
After_TwoTokens(p, r) ==
  CASE r = "out" -> IF p = 0 THEN "r1" ELSE "r2"
    [] r = "r1"  -> IF p = 0 THEN "r3" ELSE "out"
    [] r = "r2"  -> IF p = 0 THEN "r4" ELSE "r3"
    [] r = "r3"  -> IF p = 0 THEN "r2" ELSE "r4"
    [] r = "r4"  -> IF p = 0 THEN "out" ELSE "r1"

\* The order of the four calls.
After(p, r) ==
  CASE r = "out" -> IF p = 0 THEN "r1" ELSE "r2"
    [] r = "r1"  -> IF p = 0 THEN "r2" ELSE "out"
    [] r = "r2"  -> "r3"
    [] r = "r3"  -> "r4"
    [] r = "r4"  -> IF p = 0 THEN "out" ELSE "r1"

Goto(p) == tcp_pc' = [tcp_pc EXCEPT ![p] = After(p, @)]

TcpEnter(p) ==
  /\ tcp_pc[p] = "out" /\ tcp_calls[p] < MaxSyncs
  /\ Goto(p)
  /\ tcp_calls' = [tcp_calls EXCEPT ![p] = @ + 1]
  /\ UNCHANGED tokens

Send(p) ==
  /\ tcp_pc[p] \in {"r1", "r3"}
  /\ Goto(p)
  /\ tokens' = [tokens EXCEPT ![Next1(p)] = @ + 1]
  /\ UNCHANGED tcp_calls

Recv(p) ==
  /\ tcp_pc[p] \in {"r2", "r4"}
  /\ tokens[p] > 0
  /\ Goto(p)
  /\ tokens' = [tokens EXCEPT ![p] = @ - 1]
  /\ UNCHANGED tcp_calls

TcpAllDone == \A p \in Rank : tcp_pc[p] = "out" /\ tcp_calls[p] = MaxSyncs

TcpRun(p) == TcpEnter(p) \/ Send(p) \/ Recv(p)

TcpNext == (\E p \in Rank : TcpRun(p)) \/ (TcpAllDone /\ UNCHANGED tcpVars)

TcpSpec == TcpInit /\ [][TcpNext]_tcpVars

-----------------------------------------------------------------------------

\* Every variable holds a value of its type.
TcpTypeOK == /\ tcp_pc    \in [Rank -> {"out", "r1", "r2", "r3", "r4"}]
             /\ tokens    \in [Rank -> Nat]
             /\ tcp_calls \in [Rank -> 0 .. MaxSyncs]

\* There is never more than one token in the sockets, and none once everybody
\* is out of the same call: nothing a later tcp_sync() could mistake for its own
\* (tcp.c:3312-3318).
OneToken ==
  /\ \A p, q \in Rank : tokens[p] > 0 /\ tokens[q] > 0 => p = q /\ tokens[p] = 1
  /\ (\A p \in Rank : tcp_pc[p] = "out" /\ tcp_calls[p] = tcp_calls[0]) => \A p \in Rank : tokens[p] = 0

\* The number of calls p has returned from.
TcpReturned(p) == IF tcp_pc[p] = "out" THEN tcp_calls[p] ELSE tcp_calls[p] - 1

\* tcp_sync() implements the promise of MP_Sync().
TcpBarrier == INSTANCE Barrier WITH Proc <- Rank, entered <- tcp_calls, left <- [p \in Rank |-> TcpReturned(p)]
TcpImplementsBarrier == TcpBarrier!Spec

\* How often p has passed the token on, and received it.
Sent(p) ==
  2 * TcpReturned(p) +
  IF p = 0 THEN CASE tcp_pc[p] \in {"out", "r1"} -> 0
                  [] tcp_pc[p] \in {"r2", "r3"}  -> 1
                  [] tcp_pc[p] = "r4"            -> 2
           ELSE IF tcp_pc[p] \in {"r4", "r1"} THEN 1 ELSE 0

Received(p) ==
  2 * TcpReturned(p) +
  IF p = 0 THEN IF tcp_pc[p] \in {"r3", "r4"} THEN 1 ELSE 0
           ELSE CASE tcp_pc[p] \in {"out", "r2"} -> 0
                  [] tcp_pc[p] \in {"r3", "r4"}  -> 1
                  [] tcp_pc[p] = "r1"            -> 2

\* The reason it works: a socket holds what was sent and not received, and
\* nobody is ahead, in laps, of a process nearer to the start of the ring.
TcpIInv == /\ TcpTypeOK
           /\ \A p \in Rank : tcp_pc[p] # "out" => tcp_calls[p] > 0
           /\ \A p \in Rank : Sent(p) = Received(Next1(p)) + tokens[Next1(p)]
           /\ \A p, q \in Rank : p < q => Received(q) <= Sent(p)
           /\ \A p \in Rank : Received(0) <= Sent(p)
============================================================================
