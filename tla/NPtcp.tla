------------------------------- MODULE NPtcp -------------------------------
(***************************************************************************)
(* NPtcp: the driver of netpipe.c linked with src/src/tcp.c.               *)
(*                                                                         *)
(* The processes of a pair talk over one TCP connection, which the one of  *)
(* the first half makes and the other accepts, in Module_Setup() and, with *)
(* --reset or --stream, anew after every trial.  TCP is external: a        *)
(* connection is made when the pair listens, before it accepts; a write    *)
(* takes what there is room for, a read gives what there is; what was      *)
(* written is still read after a close, except that closing a socket with  *)
(* unread data, or a listening one with a connection not yet accepted,     *)
(* breaks the connection.  Reads of 0 bytes, at the end of the data of a   *)
(* closed connection, are no steps: readFully() tries for ever.            *)
(*                                                                         *)
(* The pairs are on different nodes.  --workload, which reads in           *)
(* Module_TestForCompletion(), is left out.                                *)
(***************************************************************************)
EXTENDS NetPIPE

CONSTANTS
  MsgSize,    \* buflen
  SockCap,    \* what a connection holds in one direction, in bytes
  Patience    \* seconds that connect() is tried for (20)

ASSUME NPtcpAssumption ==
  /\ ~Async                   \* PrepostRecv() is empty
  /\ MsgSize \in Nat \ {0} /\ SockCap \in Nat \ {0}
  /\ MsgSize =< SockCap       \* or a pair that sends first at both ends is stuck
  /\ Patience \in Nat

VARIABLES
  reset_conn,  \* --reset
  setup,       \* setup[p]: where p is in Module_Setup(); "up": not in it
  age,         \* age[p]: how often p has called it
  serv_sd,     \* serv_sd[p]: p listens
  backlog,     \* backlog[p]: the connections made to p and not accepted
  comm_sd,     \* comm_sd[p]: the connection of p, by the age of who made it
  tries,       \* tries[p]: how often connect() has failed
  wire,        \* wire[p][c]: the bytes to p in its connection c that p has not read
  broken,      \* <<p, c>>: the connection c between p and its pair is reset
  done,        \* done[p]: the bytes read or written in the current call
  failed       \* why the job has ended: "" if it has not

tcpVars == <<reset_conn, setup, age, serv_sd, backlog, comm_sd, tries, wire, broken,
             done, failed>>
vars == <<driverVars, tcpVars>>

Connector(p) == p < NPairs
Ages    == 1 .. 1 + MaxTests * NPerts * NTrials
Sync    == "SyncMe"
Pairing(p) == {p, Pair(p)}

Init ==
  /\ DriverInit
  /\ reset_conn \in BOOLEAN /\ (Mode = "stream" => reset_conn)
  /\ setup   = [p \in Proc |-> "exchange"]
  /\ age     = [p \in Proc |-> 1]
  /\ serv_sd = [p \in Proc |-> FALSE]
  /\ backlog = [p \in Proc |-> << >>]
  /\ comm_sd = [p \in Proc |-> 0]
  /\ tries   = [p \in Proc |-> 0]
  /\ wire    = [p \in Proc |-> [c \in Ages |-> << >>]]
  /\ broken  = {}
  /\ done    = [p \in Proc |-> << >>]
  /\ failed  = ""

-----------------------------------------------------------------------------
\* Slip: the host names are exchanged in the first Module_Setup() only.
Exchanged_Once(p) == age[p] = 1 => age[Pair(p)] >= 1

\* MPI_Sendrecv() with the pair returns when the pair has called it as often.
Exchanged(p) == age[Pair(p)] >= age[p]

\* Module_Setup() from the return of MPI_Sendrecv(): socket, bind and listen.
Listen(p) ==
  /\ setup[p] = "exchange"
  /\ Exchanged(p)
  /\ serv_sd' = [serv_sd EXCEPT ![p] = TRUE]
  /\ setup' = [setup EXCEPT ![p] = IF Connector(p) THEN "connect" ELSE "accept"]
  /\ UNCHANGED <<driverVars, reset_conn, age, backlog, comm_sd, tries, wire, broken, done,
                 failed>>

\* np_connect_to(): connect() succeeds.
Connect(p) ==
  /\ setup[p] = "connect"
  /\ serv_sd[Pair(p)]
  /\ comm_sd' = [comm_sd EXCEPT ![p] = age[p]]
  /\ backlog' = [backlog EXCEPT ![Pair(p)] = Append(@, age[p])]
  /\ setup' = [setup EXCEPT ![p] = "sync"]
  /\ UNCHANGED <<driverVars, reset_conn, age, serv_sd, tries, wire, broken, done, failed>>

\* Slip: the pair may take longer than that over its last message.
Refused_Always(p) ==
  /\ setup[p] = "connect"
  /\ ~serv_sd[Pair(p)]
  /\ IF tries[p] < Patience
     THEN tries' = [tries EXCEPT ![p] = @ + 1] /\ UNCHANGED failed
     ELSE failed' = "cannot connect" /\ UNCHANGED tries
  /\ UNCHANGED <<driverVars, reset_conn, setup, age, serv_sd, backlog, comm_sd, wire, broken,
                 done>>

\* connect() is refused: with --reset it is tried for ever, else for some time.
Refused(p) ==
  /\ setup[p] = "connect"
  /\ ~serv_sd[Pair(p)]
  /\ ~reset_conn
  /\ IF tries[p] < Patience
     THEN tries' = [tries EXCEPT ![p] = @ + 1] /\ UNCHANGED failed
     ELSE failed' = "cannot connect" /\ UNCHANGED tries
  /\ UNCHANGED <<driverVars, reset_conn, setup, age, serv_sd, backlog, comm_sd, wire, broken,
                 done>>

\* The end of Module_Setup(), which the driver called at its start or in Reset().
Established(p) ==
  /\ setup' = [setup EXCEPT ![p] = "up"]
  /\ IF pc[p] = "reset" THEN DriverReset(p) ELSE UNCHANGED driverVars

\* accept_from(): the oldest connection is accepted and tried with "SyncMe".
Accept(p) ==
  /\ setup[p] = "accept"
  /\ backlog[p] # << >>
  /\ comm_sd' = [comm_sd EXCEPT ![p] = Head(backlog[p])]
  /\ backlog' = [backlog EXCEPT ![p] = Tail(@)]
  /\ wire' = [wire EXCEPT ![Pair(p)][Head(backlog[p])] = Append(@, Sync)]
  /\ Established(p)
  /\ UNCHANGED <<reset_conn, age, serv_sd, tries, broken, done, failed>>

\* np_connect_to(): "Do a read here to make sure the socket is completely connected".
ReadSync(p) ==
  LET c == comm_sd[p]
  IN  /\ setup[p] = "sync"
      /\ \/ wire[p][c] # << >> \/ <<p, c>> \in broken
      /\ IF wire[p][c] # << >> /\ Head(wire[p][c]) = Sync
         THEN /\ wire' = [wire EXCEPT ![p][c] = Tail(@)]
              /\ Established(p)
              /\ UNCHANGED failed
         ELSE failed' = "no SyncMe" /\ UNCHANGED <<driverVars, setup, wire>>
      /\ UNCHANGED <<reset_conn, age, serv_sd, backlog, comm_sd, tries, broken, done>>

\* Module_Reset() with --reset: the sockets are closed and Module_Setup() is called.
Close(p) ==
  LET q      == Pair(p)
      mine   == comm_sd[p]
      unread == IF wire[p][mine] # << >> THEN {mine} ELSE {}
      lost   == unread \cup {backlog[p][i] : i \in DOMAIN backlog[p]}
  IN  /\ pc[p] = "reset" /\ setup[p] = "up" /\ reset_conn
      /\ broken'  = broken \cup (Pairing(p) \X lost)
      /\ wire'    = [wire EXCEPT ![p][mine] = << >>,
                                 ![q] = [c \in Ages |-> IF c \in lost THEN << >> ELSE @[c]]]
      /\ serv_sd' = [serv_sd EXCEPT ![p] = FALSE]
      /\ backlog' = [backlog EXCEPT ![p] = << >>]
      /\ comm_sd' = [comm_sd EXCEPT ![p] = 0]
      /\ age'     = [age EXCEPT ![p] = @ + 1]
      /\ setup'   = [setup EXCEPT ![p] = "exchange"]
      /\ UNCHANGED <<driverVars, reset_conn, tries, done, failed>>

\* Module_Reset() without it.
NoReset(p) == ~reset_conn /\ setup[p] = "up" /\ DriverReset(p) /\ UNCHANGED tcpVars

-----------------------------------------------------------------------------
Driver(p) ==
  /\ setup[p] = "up"
  /\ \/ EnterCollective(p) \/ LeaveNrepeat(p) \/ LeaveFinish(p) \/ LeaveSync(p)
     \/ LeaveEndsync(p) \/ LeaveTimes(p) \/ LeaveGather(p)
  /\ UNCHANGED tcpVars

\* SendData() is called.
SendData(p) ==
  /\ setup[p] = "up" /\ DriverSend(p)
  /\ done' = [done EXCEPT ![p] = << >>]
  /\ UNCHANGED <<reset_conn, setup, age, serv_sd, backlog, comm_sd, tries, wire, broken,
                 failed>>

\* writeFully(): write() takes some bytes.
Write(p) ==
  LET q    == Pair(p)
      c    == comm_sd[p]
      tag  == buf[p][s_ptr[p]]
      room == SockCap - Len(wire[q][c])
  IN  /\ pc[p] = "sending" /\ Len(done[p]) < MsgSize
      /\ \E k \in 1 .. MsgSize - Len(done[p]) :
           LET bytes == [i \in 1 .. k |-> tag]
           IN  /\ k =< room
               /\ wire' = [wire EXCEPT ![q][c] = IF <<p, c>> \in broken THEN @ ELSE @ \o bytes]
               /\ done' = [done EXCEPT ![p] = @ \o bytes]
      /\ UNCHANGED <<driverVars, reset_conn, setup, age, serv_sd, backlog, comm_sd, tries,
                     broken, failed>>

Written(p) ==
  /\ DriverSent(p) /\ Len(done[p]) = MsgSize
  /\ done' = [done EXCEPT ![p] = << >>]
  /\ UNCHANGED <<reset_conn, setup, age, serv_sd, backlog, comm_sd, tries, wire, broken,
                 failed>>

\* Slip: a read that gives less is taken for the whole message.
Complete_Once(p) == done[p] # << >>

\* "while( nbytes > 0 )": all of the message has been read.
Complete(p) == Len(done[p]) = MsgSize

\* readFully(): read() gives some bytes.  When they are all there they are in the half
\* r_ptr; the tag counts if it is that of the first and of the last byte.
Read(p) ==
  LET c == comm_sd[p]
  IN  /\ pc[p] = "recv" /\ ~Complete(p)
      /\ \E k \in 1 .. MsgSize - Len(done[p]) :
           /\ k =< Len(wire[p][c])
           /\ done' = [done EXCEPT ![p] = @ \o SubSeq(wire[p][c], 1, k)]
           /\ wire' = [wire EXCEPT ![p][c] = SubSeq(@, k + 1, Len(@))]
      /\ buf' = [buf EXCEPT ![p][r_ptr[p]] =
                   IF done'[p][1] = done'[p][Len(done'[p])] THEN done'[p][1] ELSE Blank]
      /\ UNCHANGED <<pc, inside, colls, loopVars, s_ptr, r_ptr, setTag, chkTag, failures>>
      /\ UNCHANGED <<reset_conn, setup, age, serv_sd, backlog, comm_sd, tries, broken, failed>>

RecvData(p) ==
  /\ DriverRecv(p) /\ Complete(p)
  /\ done' = [done EXCEPT ![p] = << >>]
  /\ UNCHANGED <<reset_conn, setup, age, serv_sd, backlog, comm_sd, tries, wire, broken,
                 failed>>

Step(p) ==
  /\ failed = ""
  /\ \/ Listen(p) \/ Connect(p) \/ Refused(p) \/ Accept(p) \/ ReadSync(p)
     \/ Close(p) \/ NoReset(p) \/ Driver(p)
     \/ SendData(p) \/ Write(p) \/ Written(p) \/ Read(p) \/ RecvData(p)

Next == \E p \in Proc : Step(p)

Spec == Init /\ [][Next]_vars

\* Every process runs, MPI delivers and so does TCP.
FairSpec == Spec /\ \A p \in Proc : WF_vars(Step(p))

-----------------------------------------------------------------------------
\* No connection is reset: the sockets of a trial are closed when their data have been
\* read, and nobody connects to the listening socket of the trial before, which the pair
\* is about to close (tcp.c:88-90, 400-408).
NothingLost == broken = {}

\* The connection is given up only while it is made without --reset, and every process
\* leaves the main loop otherwise (netpipe.c:352-643, tcp.c:195-208).
FinishOrGiveUp == <>(Done \/ (failed = "cannot connect" /\ ~reset_conn))
============================================================================
