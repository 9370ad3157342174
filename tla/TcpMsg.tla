------------------------------- MODULE TcpMsg -------------------------------
(***************************************************************************)
(* The message engine of MP_Lite/tcp.c: MP_ASend(), MP_ARecv(), MP_Wait()  *)
(* and MP_Test() over non-blocking sockets that a SIGIO handler keeps      *)
(* flowing.  Messages of a pair of processes share one byte stream; a      *)
(* header goes before each.  A message that nobody asked for yet is        *)
(* received into a buffer of the library and kept in msg_q.                *)
(*                                                                         *)
(* A process has one thread: the program, or the library it called (with   *)
(* signals blocked), or the handler.  What the library or the handler has  *)
(* yet to do is the sequence work[p] of calls of do_send() and do_recv();  *)
(* the program, and another run of the handler, wait until it is empty.    *)
(* A step is one call of read_msg() or write_msg(), so data may arrive     *)
(* between two of them.  MP_Wait() does not block signals: the handler may *)
(* run between the steps of Wait.                                          *)
(*                                                                         *)
(* One network interface (nics = 1).  Bytes are counted in units; a unit   *)
(* in a stream is <<n, i>>, the i-th of the sender's n-th message to that  *)
(* process.  A header that is read where none begins has arbitrary         *)
(* contents: from there on (derailed) the process is not modelled.  Nor    *)
(* after an entry was given out again that a queue still holds (Create).   *)
(***************************************************************************)
EXTENDS Integers, Sequences, SequencesExt, FiniteSets

CONSTANTS
  NProcs,      \* nprocs
  Programs,    \* what they may do: functions from Proc to sequences of calls
  HdrSize,     \* HDRSIZE, in units
  SockCap,     \* units a socket holds in one direction, both ends together
  MaxMsgs      \* MAX_MSGS, entries of msg_list

Proc == 0 .. NProcs - 1
Wild  == -1                                  \* a source or tag that matches all

\* peer is a destination or a source; i numbers the handles of the calls before.
CallType == [op : {"asend"}, peer : Proc, tag : Int, nbytes : Nat]
            \cup [op : {"arecv"}, peer : Proc \cup {Wild}, tag : Int, nbytes : Nat]
            \cup [op : {"wait", "test"}, i : Nat \ {0}]

\* The handles that the first n of the calls give out.
Given(calls, n) == Cardinality({k \in 1 .. n : calls[k].op \in {"asend", "arecv"}})

\* After g handles, calls only name handles that were given out before.
NamesGiven(calls, g) ==
  \A k \in 1 .. Len(calls) :
    calls[k].op \in {"wait", "test"} => calls[k].i <= g + Given(calls, k - 1)

ASSUME TcpMsgAssumption ==
  /\ NProcs \in Nat \ {0}
  /\ Programs \subseteq [Proc -> Seq(CallType)]
  /\ \A f \in Programs, p \in Proc : NamesGiven(f[p], 0)
  /\ HdrSize \in Nat \ {0} /\ SockCap \in Nat \ {0} /\ MaxMsgs \in Nat \ {0}

VARIABLES
  todo,      \* todo[p]: calls p has yet to complete
  pc,        \* "run", or where p is in MP_Wait(): "push", "block", "end"
  handle,    \* handle[p]: ids MP_ASend() and MP_ARecv() gave out; 0 after the wait
  msg_list,  \* msg_list[p]: the message entries of p
  mid,       \* the static mid of create_msg_entry
  send_q, recv_q, msg_q,   \* queues of entries, by process; recv_q also for Wild
  ractive, wactive,
  work,      \* work[p]: calls of do_send() and do_recv() not finished, innermost first
  wire,      \* wire[p][q]: what p has written to q and q has not read
  avail,     \* avail[p][q]: how much of it has arrived
  sigio,     \* sigio[p]: a SIGIO is pending
  derailed,  \* derailed[p]: p has lost track of where headers begin, or of an entry
  sent,      \* history: sent[p][q]: messages p has sent to q
  waited     \* history: waited[p]: what was received, by the number of the handle

queueVars == <<msg_list, mid, send_q, recv_q, msg_q, ractive, wactive>>
netVars   == <<wire, avail, sigio>>
userVars  == <<todo, pc, handle, sent, waited>>
vars == <<userVars, queueVars, work, netVars, derailed>>

\* flag: send_flag 1 ("send") and 3 ("buffered"), recv_flag 1 ("recv") and 2
\* ("drain": no look at msg_q).  used: buf is not NULL.  left: bytes of the body
\* to go (nleft is nhdr + left).  num and got say which message and what is in buf.
Entry(flag, peer, tag, nbytes) ==
  [used |-> TRUE, flag |-> flag, peer |-> peer, tag |-> tag, nbytes |-> nbytes,
   nhdr |-> HdrSize, left |-> nbytes, num |-> 0, got |-> << >>]

Free == [Entry("recv", Wild, Wild, 0) EXCEPT !.used = FALSE]

Task(call, q) == [call |-> call, node |-> q, msg |-> 0]

Init ==
  /\ todo \in Programs
  /\ pc       = [p \in Proc |-> "run"]
  /\ handle   = [p \in Proc |-> << >>]
  /\ msg_list = [p \in Proc |-> [m \in 1 .. MaxMsgs |-> Free]]
  /\ mid      = [p \in Proc |-> 0]
  /\ send_q   = [p \in Proc |-> [q \in Proc |-> << >>]]
  /\ recv_q   = [p \in Proc |-> [q \in Proc \cup {Wild} |-> << >>]]
  /\ msg_q    = [p \in Proc |-> [q \in Proc |-> << >>]]
  /\ ractive  = [p \in Proc |-> [q \in Proc |-> FALSE]]
  /\ wactive  = [p \in Proc |-> [q \in Proc |-> FALSE]]
  /\ work     = [p \in Proc |-> << >>]
  /\ wire     = [p \in Proc |-> [q \in Proc |-> << >>]]
  /\ avail    = [p \in Proc |-> [q \in Proc |-> 0]]
  /\ sigio    = [p \in Proc |-> FALSE]
  /\ derailed = [p \in Proc |-> FALSE]
  /\ sent     = [p \in Proc |-> [q \in Proc |-> << >>]]
  /\ waited   = [p \in Proc |-> << >>]

nleft(e) == e.nhdr + e.left

\* "h->nbytes <= p->nbytes && (p->tag < 0 || h->tag == p->tag)"
Matches(h, e) == h.nbytes <= e.nbytes /\ (e.tag < 0 \/ e.tag = h.tag)

\* The entry create_msg_entry() takes: the next one free after the last taken.
NextId(p) ==
  LET free == {k \in 1 .. MaxMsgs : ~msg_list[p][1 + ((mid[p] + k) % MaxMsgs)].used}
  IN  1 + ((mid[p] + Min(free)) % MaxMsgs)

EntryLeft(p) == \E m \in 1 .. MaxMsgs : ~msg_list[p][m].used

\* create_msg_entry() only looks whether an entry is free: a queue may still hold it,
\* or a handle name it, when all the others have been given out since.
Create(p, m) ==
  /\ mid' = [mid EXCEPT ![p] = m - 1]
  /\ derailed' = [derailed EXCEPT ![p] =
       Contains(handle[p], m) \/ \E q \in Proc \cup {Wild} : Contains(recv_q[p][q], m)]

\* What the entries after m in a queue are: msg->next.
After(queue, m) == SubSeq(queue, Min({i \in DOMAIN queue : queue[i] = m}) + 1, Len(queue))

\* post()
Post(queue, m) == Append(queue, m)

-----------------------------------------------------------------------------
(***************************************************************************)
(* The queue of messages nobody asked for.                                 *)
(***************************************************************************)

\* Where recv_from_q() finds a match for the entry e: <<source, place>>.
InMsgQ(p, e) ==
  { a \in UNION {{q} \X DOMAIN msg_q[p][q] : q \in Proc} :
      /\ e.peer \in {a[1], Wild}
      /\ LET x == msg_list[p][msg_q[p][a[1]][a[2]]] IN x.nhdr = 0 /\ Matches(x, e) }

\* The place where it finds one first: by source, then by place.
First(found) == CHOOSE a \in found : \A b \in found :
                  a[1] < b[1] \/ (a[1] = b[1] /\ a[2] <= b[2])

\* "Exchange msg with p at the head of the recv_q[src]"
TakePlace(queue, m, x) == <<m>> \o After(queue, x)

\* Slip: the search goes on to the last match.
TakeFromMsgQ_Last(p, m, e) ==
  LET found == InMsgQ(p, e)
      first == CHOOSE a \in found : \A b \in found :
                 a[1] > b[1] \/ (a[1] = b[1] /\ a[2] >= b[2])
      q     == first[1]
      x     == msg_q[p][q][first[2]]
      X     == msg_list[p][x]
  IN  /\ msg_list' = [msg_list EXCEPT
           ![p][m] = [X EXCEPT !.flag = e.flag],
           ![p][x].used = FALSE]
      /\ msg_q' = [msg_q EXCEPT ![p][q] = RemoveAt(@, first[2])]
      /\ recv_q' = IF X.left = 0 THEN recv_q
                   ELSE [recv_q EXCEPT ![p][q] = TakePlace(@, m, x)]

\* Slip: its entry is not given back.
TakeFromMsgQ_Keeps(p, m, e) ==
  LET first == First(InMsgQ(p, e))
      q     == first[1]
      x     == msg_q[p][q][first[2]]
      X     == msg_list[p][x]
  IN  /\ msg_list' = [msg_list EXCEPT
           ![p][m] = [X EXCEPT !.flag = e.flag]]
      /\ msg_q' = [msg_q EXCEPT ![p][q] = RemoveAt(@, first[2])]
      /\ recv_q' = IF X.left = 0 THEN recv_q
                   ELSE [recv_q EXCEPT ![p][q] = TakePlace(@, m, x)]

\* recv_from_q(): entry m becomes the message found; one that is still arriving
\* also takes its place in recv_q.
TakeFromMsgQ(p, m, e) ==
  LET first == First(InMsgQ(p, e))
      q     == first[1]
      x     == msg_q[p][q][first[2]]
      X     == msg_list[p][x]
  IN  /\ msg_list' = [msg_list EXCEPT
           ![p][m] = [X EXCEPT !.flag = e.flag],
           ![p][x].used = FALSE]
      /\ msg_q' = [msg_q EXCEPT ![p][q] = RemoveAt(@, first[2])]
      /\ recv_q' = IF X.left = 0 THEN recv_q
                   ELSE [recv_q EXCEPT ![p][q] = TakePlace(@, m, x)]

-----------------------------------------------------------------------------
(***************************************************************************)
(* The program.  Each call but MP_Wait() runs with signals blocked.        *)
(***************************************************************************)

\* The loops over the processes: for( node=0; node<nprocs; node++).
InTurn(S) == CHOOSE s \in [1 .. Cardinality(S) -> S] :
  \A i, j \in 1 .. Cardinality(S) : i < j => s[i] < s[j]

Tasks(call, S) == [i \in 1 .. Cardinality(S) |-> Task(call, InTurn(S)[i])]

\* Slip: the handler forgets the sends that wait for room.
HandlerWork_ReadsOnly(p, wild) ==
  Tasks("recv", {q \in Proc : ractive[p][q]})
  \o IF wild THEN Tasks("peek", Proc \ {p}) ELSE << >>

\* What a run of sigio_handler() has to do.
HandlerWork(p, wild) ==
  Tasks("send", {q \in Proc : wactive[p][q]})
  \o Tasks("recv", {q \in Proc : ractive[p][q]})
  \o IF wild THEN Tasks("peek", Proc \ {p}) ELSE << >>

Running(p) == work[p] = << >> /\ ~derailed[p]

Calls(p, op) == Running(p) /\ pc[p] = "run" /\ todo[p] # << >> /\ Head(todo[p]).op = op

ASend(p) ==
  /\ Calls(p, "asend") /\ EntryLeft(p)
  /\ LET c == Head(todo[p])
         m == NextId(p)
         k == Len(sent[p][c.peer]) + 1
         e == [Entry("send", c.peer, c.tag, c.nbytes) EXCEPT !.num = k]
         body == [i \in 1 .. c.nbytes |-> <<k, HdrSize + i>>]
     IN  /\ Create(p, m)
         /\ handle' = [handle EXCEPT ![p] = Append(@, m)]
         /\ sent' = [sent EXCEPT ![p][c.peer] = Append(@, [tag |-> c.tag, nbytes |-> c.nbytes])]
         /\ waited' = [waited EXCEPT ![p] = Append(@, << >>)]
         /\ \/ /\ c.peer = p
               /\ msg_list' = [msg_list EXCEPT ![p][m] =
                    [e EXCEPT !.flag = "buffered", !.nhdr = 0, !.left = 0, !.got = body]]
               /\ msg_q' = [msg_q EXCEPT ![p][p] = Post(@, m)]
               /\ UNCHANGED <<send_q, work>>
            \/ /\ c.peer # p
               /\ msg_list' = [msg_list EXCEPT ![p][m] = e]
               /\ send_q' = [send_q EXCEPT ![p][c.peer] = Post(@, m)]
               /\ work' = IF wactive[p][c.peer] THEN work
                          ELSE [work EXCEPT ![p] = <<Task("send", c.peer)>>]
               /\ UNCHANGED msg_q
  /\ todo' = [todo EXCEPT ![p] = Tail(@)]
  /\ UNCHANGED <<pc, recv_q, ractive, wactive, netVars>>

ARecv(p) ==
  /\ Calls(p, "arecv") /\ EntryLeft(p)
  /\ LET c == Head(todo[p])
         m == NextId(p)
         e == Entry("recv", c.peer, c.tag, c.nbytes)
     IN  /\ Create(p, m)
         /\ handle' = [handle EXCEPT ![p] = Append(@, m)]
         /\ waited' = [waited EXCEPT ![p] = Append(@, << >>)]
         /\ \/ /\ c.peer # p /\ InMsgQ(p, e) # {}
               /\ TakeFromMsgQ(p, m, e)
               /\ UNCHANGED work
            \/ /\ c.peer # p /\ InMsgQ(p, e) = {}
               /\ msg_list' = [msg_list EXCEPT ![p][m] = e]
               /\ recv_q' = [recv_q EXCEPT ![p][c.peer] = Post(@, m)]
               /\ work' = [work EXCEPT ![p] =
                    CASE c.peer = Wild         -> HandlerWork(p, TRUE)
                      [] c.peer # Wild /\ ~ractive[p][c.peer] -> <<Task("recv", c.peer)>>
                      [] OTHER                -> << >>]
               /\ UNCHANGED msg_q
            \/ /\ c.peer = p                       \* left to MP_Wait()
               /\ msg_list' = [msg_list EXCEPT ![p][m] = e]
               /\ UNCHANGED <<recv_q, msg_q, work>>
  /\ todo' = [todo EXCEPT ![p] = Tail(@)]
  /\ UNCHANGED <<pc, send_q, ractive, wactive, netVars, sent>>

Id(p)    == handle[p][Head(todo[p]).i]
Msg(p)   == msg_list[p][Id(p)]

\* "*msg_id = -1": MP_Wait() is over, and its entry free unless the rest of a
\* send is still to go.
Release(p) ==
  /\ waited' = [waited EXCEPT ![p][Head(todo[p]).i] =
       IF Msg(p).flag = "recv" THEN <<Msg(p)>> ELSE @]
  /\ handle' = [handle EXCEPT ![p][Head(todo[p]).i] = 0]
  /\ todo' = [todo EXCEPT ![p] = Tail(@)]

\* The tests of MP_Wait(), the first of which a handle of -1 ends at once.  The
\* process stops if the entry is free: "MP_Wait() has NULL msg".
Wait(p) ==
  /\ Calls(p, "wait")
  /\ \/ /\ Id(p) = 0
        /\ todo' = [todo EXCEPT ![p] = Tail(@)]
        /\ UNCHANGED <<pc, msg_list, recv_q, msg_q>>
     \/ /\ Id(p) # 0 /\ Msg(p).used
        /\ pc' = [pc EXCEPT ![p] =
             CASE nleft(Msg(p)) = 0 -> "end"
               [] nleft(Msg(p)) # 0 /\ Msg(p).flag = "send" -> "push"
               [] nleft(Msg(p)) # 0 /\ Msg(p).peer = p -> "end"
               [] OTHER -> "block"]
        /\ IF nleft(Msg(p)) # 0 /\ Msg(p).flag = "recv" /\ Msg(p).peer = p
           THEN /\ InMsgQ(p, Msg(p)) # {}          \* else the process stops
                /\ TakeFromMsgQ(p, Id(p), Msg(p))
           ELSE UNCHANGED <<msg_list, recv_q, msg_q>>
        /\ UNCHANGED todo
  /\ UNCHANGED <<handle, sent, waited, mid, send_q, ractive, wactive, work, netVars, derailed>>

\* Slip: a send is left to the handler; its buffer is the program's.
Push_Not(p) ==
  /\ Running(p) /\ pc[p] = "push"
  /\ pc' = [pc EXCEPT ![p] = "end"]
  /\ UNCHANGED <<todo, handle, sent, waited, queueVars, work, netVars, derailed>>

\* push_to_buffer()
Push(p) ==
  /\ Running(p) /\ pc[p] = "push"
  /\ msg_list' = [msg_list EXCEPT ![p][Id(p)].flag = "buffered"]
  /\ pc' = [pc EXCEPT ![p] = "end"]
  /\ UNCHANGED <<todo, handle, sent, waited, mid, send_q, recv_q, msg_q, ractive, wactive,
                 work, netVars, derailed>>

\* Slip: a header is taken for the message.
Block_Header(p) ==
  /\ Running(p) /\ pc[p] = "block" /\ Msg(p).nhdr = 0
  /\ pc' = [pc EXCEPT ![p] = "end"]
  /\ UNCHANGED <<todo, handle, sent, waited, queueVars, work, netVars, derailed>>

\* tcp_block()
Block(p) ==
  /\ Running(p) /\ pc[p] = "block" /\ nleft(Msg(p)) = 0
  /\ pc' = [pc EXCEPT ![p] = "end"]
  /\ UNCHANGED <<todo, handle, sent, waited, queueVars, work, netVars, derailed>>

WaitEnds(p) ==
  /\ Running(p) /\ pc[p] = "end"
  /\ Release(p)
  /\ msg_list' = IF Msg(p).flag = "buffered" THEN msg_list
                 ELSE [msg_list EXCEPT ![p][Id(p)].used = FALSE]
  /\ pc' = [pc EXCEPT ![p] = "run"]
  /\ UNCHANGED <<sent, mid, send_q, recv_q, msg_q, ractive, wactive, work, netVars, derailed>>

\* MP_Test(): MP_Wait() if there is nothing left to wait for.  The process stops as
\* in MP_Wait(); a handle of -1, which is not looked for here, is not modelled.
Test(p) ==
  /\ Calls(p, "test") /\ Id(p) # 0 /\ Msg(p).used
  /\ \/ /\ nleft(Msg(p)) = 0
        /\ Release(p)
        /\ msg_list' = IF Msg(p).flag = "buffered" THEN msg_list
                       ELSE [msg_list EXCEPT ![p][Id(p)].used = FALSE]
     \/ /\ nleft(Msg(p)) # 0
        /\ todo' = [todo EXCEPT ![p] = Tail(@)]
        /\ UNCHANGED <<handle, waited, msg_list>>
  /\ UNCHANGED <<pc, sent, mid, send_q, recv_q, msg_q, ractive, wactive, work, netVars, derailed>>

-----------------------------------------------------------------------------
(***************************************************************************)
(* The engine.                                                             *)
(***************************************************************************)

\* A SIGIO is taken between two steps of the program.
Handler(p) ==
  /\ Running(p) /\ sigio[p]
  /\ sigio' = [sigio EXCEPT ![p] = FALSE]
  /\ work' = [work EXCEPT ![p] = HandlerWork(p, recv_q[p][Wild] # << >>)]
  /\ UNCHANGED <<userVars, queueVars, wire, avail, derailed>>

Working(p, call) == ~derailed[p] /\ work[p] # << >> /\ Head(work[p]).call = call

Done(p) == work' = [work EXCEPT ![p] = Tail(@)]

\* do_send(): write_msg() until nothing is left or the socket is full, then the
\* next message of the queue.
Write(p) ==
  /\ Working(p, "send")
  /\ LET q     == Head(work[p]).node
         m     == Head(send_q[p][q])
         e     == msg_list[p][m]
         room  == SockCap - Len(wire[p][q])
         r     == Min({nleft(e), room})
         first == HdrSize + e.nbytes - nleft(e)
         more  == Tail(send_q[p][q]) # << >>
         full  == r < nleft(e)
     IN  /\ wire' = [wire EXCEPT ![p][q] = @ \o [i \in 1 .. r |-> <<e.num, first + i>>]]
         /\ msg_list' = [msg_list EXCEPT ![p][m] =
              [e EXCEPT !.nhdr = @ - Min({@, r}), !.left = @ - (r - Min({e.nhdr, r})),
                        !.used = full \/ e.flag # "buffered"]]
         /\ send_q' = IF full THEN send_q ELSE [send_q EXCEPT ![p][q] = Tail(@)]
         /\ IF r > 0 /\ (full \/ more) THEN UNCHANGED <<wactive, work>>
            ELSE Done(p) /\ wactive' = [wactive EXCEPT ![p][q] = full]
  /\ UNCHANGED <<userVars, mid, recv_q, msg_q, ractive, avail, sigio, derailed>>

\* do_recv() takes the first message of the queue; one without a header may be
\* in msg_q by now.
RecvStart(p) ==
  /\ Working(p, "recv") /\ Head(work[p]).msg = 0
  /\ LET q == Head(work[p]).node
         m == Head(recv_q[p][q])
         e == msg_list[p][m]
     IN  /\ work' = [work EXCEPT ![p][1].msg = m]
         /\ IF e.nhdr > 0 /\ e.flag # "drain" /\ InMsgQ(p, e) # {}
            THEN TakeFromMsgQ(p, m, e)
            ELSE UNCHANGED <<msg_list, msg_q, recv_q>>
  /\ UNCHANGED <<userVars, mid, send_q, ractive, wactive, netVars, derailed>>

\* Slip: a socket stays active when its queue is empty.
RecvDone_StaysActive(p) ==
  /\ Working(p, "recv") /\ Head(work[p]).msg # 0
  /\ LET q    == Head(work[p]).node
         m    == Head(work[p]).msg
         rest == After(recv_q[p][q], m)
     IN  /\ nleft(msg_list[p][m]) = 0
         /\ recv_q' = [recv_q EXCEPT ![p][q] = rest]
         /\ IF rest = << >> THEN Done(p) ELSE work' = [work EXCEPT ![p][1].msg = 0]
  /\ UNCHANGED <<userVars, msg_list, mid, send_q, msg_q, ractive, wactive, netVars, derailed>>

\* The message is complete: on to the next one of the queue, if any.
RecvDone(p) ==
  /\ Working(p, "recv") /\ Head(work[p]).msg # 0
  /\ LET q    == Head(work[p]).node
         m    == Head(work[p]).msg
         rest == After(recv_q[p][q], m)
     IN  /\ nleft(msg_list[p][m]) = 0
         /\ recv_q' = [recv_q EXCEPT ![p][q] = rest]
         /\ ractive' = IF rest = << >> THEN [ractive EXCEPT ![p][q] = FALSE] ELSE ractive
         /\ IF rest = << >> THEN Done(p) ELSE work' = [work EXCEPT ![p][1].msg = 0]
  /\ UNCHANGED <<userVars, msg_list, mid, send_q, msg_q, wactive, netVars, derailed>>

\* A step of the loop of do_recv() for its message m, entry e, from process q.
Reading(p, q, m) ==
  /\ Working(p, "recv") /\ Head(work[p]).msg = m /\ m # 0
  /\ Head(work[p]).node = q
  /\ nleft(msg_list[p][m]) > 0

\* Slip: nobody is told to try again.
ReadNothing_Idle(p, q, m) ==
  /\ Reading(p, q, m) /\ avail[q][p] = 0
  /\ Done(p)
  /\ UNCHANGED <<userVars, msg_list, mid, send_q, recv_q, msg_q, ractive, wactive, netVars, derailed>>

\* read() finds nothing: the message stays active.
ReadNothing(p, q, m) ==
  /\ Reading(p, q, m) /\ avail[q][p] = 0
  /\ ractive' = [ractive EXCEPT ![p][q] = TRUE]
  /\ Done(p)
  /\ UNCHANGED <<userVars, msg_list, mid, send_q, recv_q, msg_q, wactive, netVars, derailed>>

\* The reader takes r units; a writer that found the socket full is told.
Take(p, q, r) ==
  /\ wire'  = [wire EXCEPT ![q][p] = SubSeq(@, r + 1, Len(@))]
  /\ avail' = [avail EXCEPT ![q][p] = @ - r]
  /\ sigio' = [sigio EXCEPT ![q] = @ \/ wactive[q][p]]

\* What can be read of the body of e after r units of header.
Body(p, q, r, e) == SubSeq(wire[q][p], r + 1, r + Min({e.left, avail[q][p] - r}))

Fill(e, body) == [e EXCEPT !.left = @ - Len(body), !.got = @ \o body]

ReadBody(p, q, m) ==
  /\ Reading(p, q, m) /\ avail[q][p] > 0
  /\ LET e == msg_list[p][m]
     IN  /\ e.nhdr = 0
         /\ msg_list' = [msg_list EXCEPT ![p][m] = Fill(e, Body(p, q, 0, e))]
         /\ Take(p, q, Len(Body(p, q, 0, e)))
  /\ UNCHANGED <<userVars, mid, send_q, recv_q, msg_q, ractive, wactive, work, derailed>>

\* The next unit is the one of a header that m waits for.
AtHeader(p, q, m) == wire[q][p][1][2] = HdrSize - msg_list[p][m].nhdr + 1

ReadPartOfHeader(p, q, m) ==
  /\ Reading(p, q, m) /\ avail[q][p] > 0
  /\ msg_list[p][m].nhdr > avail[q][p] /\ AtHeader(p, q, m)
  /\ msg_list' = [msg_list EXCEPT ![p][m].nhdr = @ - avail[q][p]]
  /\ Take(p, q, avail[q][p])
  /\ UNCHANGED <<userVars, mid, send_q, recv_q, msg_q, ractive, wactive, work, derailed>>

\* Entries of recv_q other than the current one that match the header h, by place.
Asked(p, q, h) == {i \in DOMAIN recv_q[p][q] : Matches(h, msg_list[p][recv_q[p][q][i]])}

\* An entry of recv_q that has its header already, or expects another size.
Misfit(p, q, m, h) ==
  /\ ~Matches(h, msg_list[p][m])
  /\ Asked(p, q, h) # {}
  /\ LET e == msg_list[p][recv_q[p][q][Min(Asked(p, q, h))]]
     IN  e.nhdr = 0 \/ e.nbytes # h.nbytes

\* The rest of a header is there: check_header(), and the body as far as it goes.
ReadHeader(p, q, m) ==
  /\ Reading(p, q, m)
  /\ msg_list[p][m].nhdr > 0 /\ msg_list[p][m].nhdr <= avail[q][p] /\ AtHeader(p, q, m)
  /\ LET e == msg_list[p][m]
         k == wire[q][p][1][1]
         h == sent[q][p][k]
         Arrived(x) == [Fill(x, Body(p, q, e.nhdr, x)) EXCEPT !.nhdr = 0, !.num = k]
         TakeAll(x) == Take(p, q, e.nhdr + Len(Body(p, q, e.nhdr, x)))
         i == Min(Asked(p, q, h))
         x == recv_q[p][q][i]
         y == NextId(p)
         new == Entry("recv", q, h.tag, h.nbytes)
         own == [e EXCEPT !.peer = q, !.tag = h.tag, !.nbytes = h.nbytes, !.left = h.nbytes]
     IN  \/ /\ Matches(h, e)
            /\ msg_list' = [msg_list EXCEPT ![p][m] = Arrived(own)]
            /\ TakeAll(own)
            /\ UNCHANGED <<mid, recv_q, msg_q, derailed>>
         \/ /\ ~Matches(h, e) /\ Asked(p, q, h) # {} /\ ~Misfit(p, q, m, h)
            /\ msg_list' = [msg_list EXCEPT ![p][m].nhdr = HdrSize,
                                            ![p][x] = Arrived(@)]
            /\ TakeAll(msg_list[p][x])
            /\ recv_q' = [recv_q EXCEPT ![p][q] = <<x>> \o RemoveAt(@, i)]
            /\ UNCHANGED <<mid, msg_q, derailed>>
         \/ /\ ~Matches(h, e) /\ Asked(p, q, h) = {} /\ EntryLeft(p)
            /\ msg_list' = [msg_list EXCEPT ![p][m].nhdr = HdrSize, ![p][y] = Arrived(new)]
            /\ TakeAll(new)
            /\ Create(p, y)
            /\ recv_q' = [recv_q EXCEPT ![p][q] = <<y>> \o @]
            /\ msg_q' = [msg_q EXCEPT ![p][q] = Post(@, y)]
  /\ UNCHANGED <<userVars, send_q, ractive, wactive, work>>

\* A header is read where none begins, or goes to an entry it does not fit.
Derail(p, q, m) ==
  /\ Reading(p, q, m) /\ avail[q][p] > 0 /\ msg_list[p][m].nhdr > 0
  /\ \/ ~AtHeader(p, q, m)
     \/ /\ msg_list[p][m].nhdr <= avail[q][p]
        /\ Misfit(p, q, m, sent[q][p][wire[q][p][1][1]])
  /\ derailed' = [derailed EXCEPT ![p] = TRUE]
  /\ UNCHANGED <<userVars, queueVars, work, netVars>>

\* The handler looks at an idle socket for the receives from anyone.
Peek(p) ==
  /\ Working(p, "peek")
  /\ LET q == Head(work[p]).node
         h == sent[q][p][wire[q][p][1][1]]
         wild == recv_q[p][Wild]
         fits == {i \in DOMAIN wild : Matches(h, msg_list[p][wild[i]])}
         m == wild[Min(fits)]
         y == NextId(p)
     IN  \/ /\ ractive[p][q] \/ wild = << >> \/ avail[q][p] < HdrSize
            /\ Done(p)
            /\ UNCHANGED <<msg_list, mid, recv_q, msg_q, ractive, derailed>>
         \/ /\ ~ractive[p][q] /\ wild # << >> /\ avail[q][p] >= HdrSize
            /\ work' = [work EXCEPT ![p] = <<Task("recv", q)>> \o @]
            /\ \/ /\ fits # {}
                  /\ msg_list' = [msg_list EXCEPT ![p][m] =
                       [@ EXCEPT !.peer = q, !.tag = h.tag, !.nbytes = h.nbytes, !.left = h.nbytes]]
                  /\ recv_q' = [recv_q EXCEPT ![p][Wild] = RemoveAt(@, Min(fits)),
                                              ![p][q] = <<m>> \o @]
                  /\ ractive' = [ractive EXCEPT ![p][q] = TRUE]
                  /\ UNCHANGED <<mid, msg_q, derailed>>
               \/ /\ fits = {} /\ EntryLeft(p)
                  /\ msg_list' = [msg_list EXCEPT ![p][y] = Entry("drain", q, h.tag, h.nbytes)]
                  /\ Create(p, y)
                  /\ recv_q' = [recv_q EXCEPT ![p][q] = Post(@, y)]
                  /\ msg_q' = [msg_q EXCEPT ![p][q] = Post(@, y)]
                  /\ UNCHANGED ractive
  /\ UNCHANGED <<userVars, send_q, wactive, netVars>>

-----------------------------------------------------------------------------

\* The network brings k more units from q to p, which is told.
Deliver(q, p) ==
  /\ \E k \in 1 .. Len(wire[q][p]) - avail[q][p] :
       avail' = [avail EXCEPT ![q][p] = @ + k]
  /\ sigio' = [sigio EXCEPT ![p] = TRUE]
  /\ UNCHANGED <<userVars, queueVars, work, wire, derailed>>

Program(p) == \/ ASend(p) \/ ARecv(p) \/ Test(p)
              \/ Wait(p) \/ Push(p) \/ Block(p) \/ WaitEnds(p)

Read(p, q, m) == \/ ReadNothing(p, q, m) \/ ReadBody(p, q, m) \/ ReadPartOfHeader(p, q, m)
                 \/ ReadHeader(p, q, m) \/ Derail(p, q, m)

Engine(p) == \/ Write(p) \/ RecvStart(p) \/ RecvDone(p) \/ Peek(p)
             \/ \E q \in Proc, m \in 1 .. MaxMsgs : Read(p, q, m)

Next == \/ \E p \in Proc : Program(p) \/ Engine(p) \/ Handler(p)
        \/ \E q, p \in Proc : Deliver(q, p)

Spec == Init /\ [][Next]_vars

\* Processes run, pending signals are delivered, and so is data.
FairSpec ==
  /\ Spec
  /\ \A p \in Proc : WF_vars(Program(p)) /\ WF_vars(Engine(p)) /\ SF_vars(Handler(p))
  /\ \A q, p \in Proc : WF_vars(Deliver(q, p))

-----------------------------------------------------------------------------

EntryType ==
  [used : BOOLEAN, flag : {"send", "buffered", "recv", "drain"}, peer : Proc \cup {Wild},
   tag : Int, nbytes : Nat, nhdr : 0 .. HdrSize, left : Nat, num : Nat,
   got : Seq(Nat \X Nat)]

Ids == 1 .. MaxMsgs

\* Every variable holds a value of its type; a task is for a socket with
\* something in the queue that it serves.
TypeOK ==
  /\ pc \in [Proc -> {"run", "push", "block", "end"}]
  /\ msg_list \in [Proc -> [Ids -> EntryType]]
  /\ mid \in [Proc -> 0 .. MaxMsgs - 1]
  /\ \A p \in Proc : handle[p] \in Seq(0 .. MaxMsgs)
  /\ \A p, q \in Proc : /\ send_q[p][q] \in Seq(Ids) /\ msg_q[p][q] \in Seq(Ids)
                        /\ recv_q[p][q] \in Seq(Ids) /\ recv_q[p][Wild] \in Seq(Ids)
                        /\ wire[p][q] \in Seq(Nat \X Nat) /\ Len(wire[p][q]) <= SockCap
                        /\ avail[p][q] \in 0 .. Len(wire[p][q])
  /\ ractive \in [Proc -> [Proc -> BOOLEAN]] /\ wactive \in [Proc -> [Proc -> BOOLEAN]]
  /\ sigio \in [Proc -> BOOLEAN] /\ derailed \in [Proc -> BOOLEAN]
  /\ \A p \in Proc : \A i \in DOMAIN work[p] :
       LET task == work[p][i]
       IN  /\ task.call = "send" => send_q[p][task.node] # << >>
           /\ task.call = "recv" => recv_q[p][task.node] # << >>

\* The receive a process made with its i-th handle: what it asked for and got.
Receives(p) == {i \in DOMAIN waited[p] : waited[p][i] # << >>}
Result(p, i) == waited[p][i][1]

\* A receive that was waited for holds a whole message, and that one alone: of the
\* process, the size and, if it reports one, the tag that it reports (tcp.c:951-956),
\* from the first unit to the last.  (One that asked for any tag and that
\* check_header() found behind another keeps its tag of -1, tcp.c:3737-3757.)
Whole ==
  \A p \in Proc : \A i \in Receives(p) :
    LET r == Result(p, i)
    IN  /\ r.num \in DOMAIN sent[r.peer][p]
        /\ r.tag < 0 \/ r.tag = sent[r.peer][p][r.num].tag
        /\ r.nbytes = sent[r.peer][p][r.num].nbytes
        /\ r.got = [u \in 1 .. r.nbytes |-> <<r.num, HdrSize + u>>]

\* Of two receives that got messages of one process, tag and size, the one made first
\* got the one sent first (the order of the queues, tcp.c:66-73); so no message is
\* given to two receives.
InOrder ==
  \A p \in Proc : \A i, j \in Receives(p) :
    LET a == Result(p, i)
        b == Result(p, j)
    IN  (i < j /\ a.peer = b.peer /\ a.tag = b.tag /\ a.nbytes = b.nbytes) => a.num < b.num

\* The library never sends from memory that MP_Wait() has given back to the program
\* (tcp.c:884-887): the entry of a waited send still in a queue is a buffered one.
SendBufferGivenBack ==
  \A p, q \in Proc : \A i \in DOMAIN send_q[p][q] :
    LET m == send_q[p][q][i]
    IN  /\ msg_list[p][m].used
        /\ msg_list[p][m].flag = "send" => \E j \in DOMAIN handle[p] : handle[p][j] = m

\* An entry in use is one whose handle is out, or one of a message still to be sent
\* or to be asked for; only a send that completes between the two tests of MP_Wait()
\* (tcp.c:882-884) is buffered too late to be ever freed.
NoEntryLost ==
  \A p \in Proc : \A m \in Ids :
    msg_list[p][m].used =>
      \/ \E j \in DOMAIN handle[p] : handle[p][j] = m
      \/ \E q \in Proc : Contains(send_q[p][q], m) \/ Contains(msg_q[p][q], m)
      \/ msg_list[p][m].flag = "buffered" /\ nleft(msg_list[p][m]) = 0

\* No signal is missed: if a read or a write of an active socket would get
\* anywhere, there is a signal pending, or the engine is at work.
NoSignalMissed ==
  \A p, q \in Proc :
    work[p] = << >> /\ ~derailed[p] =>
      /\ ractive[p][q] /\ avail[q][p] > 0 => sigio[p]
      /\ wactive[p][q] /\ Len(wire[p][q]) < SockCap => sigio[p]
      /\ recv_q[p][Wild] # << >> /\ ~ractive[p][q] /\ avail[q][p] >= HdrSize => sigio[p]

\* A process takes the headers of a stream where its sender put them: what it does
\* not ask for yet is read to its end first (tcp.c:3728-3734).
StaysOnTrack == \A p \in Proc : ~derailed[p]

\* MP_Wait() or MP_Test() stops the process since the entry of the handle is free, "has
\* NULL msg" (tcp.c:880, 981): that of a message to oneself, which recv_from_q() frees when
\* the message is received (tcp.c:3608-3609).
NullMsg(p) ==
  /\ Calls(p, "wait") \/ Calls(p, "test")
  /\ Id(p) # 0 /\ ~Msg(p).used /\ Msg(p).flag = "buffered" /\ Msg(p).peer = p

AllDone == \A p, q \in Proc : todo[p] = << >> /\ send_q[p][q] = << >>

\* Every call returns and every message leaves, even if all send before they
\* receive messages larger than the sockets (tcp.c:61-63), unless a process derails or
\* is stopped.  No other entry is freed while MP_Wait() may still be called for it.
AllReturn == <>(AllDone \/ \E p \in Proc : derailed[p] \/ NullMsg(p))
=============================================================================
