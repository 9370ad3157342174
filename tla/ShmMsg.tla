------------------------------- MODULE ShmMsg -------------------------------
(***************************************************************************)
(* smp_send() and smp_recv() of MP_Lite/shm.c (GC == 2), the messages      *)
(* between the processes of one SMP node.  A sender copies its message     *)
(* into its own part of a shared pool, and passes the address through a    *)
(* FIFO (ShmFifo, here the queue it implements).  The receiver copies the  *)
(* message out and marks the entry; the sender collects marked entries     *)
(* when it looks for space.  A receiver keeps the headers of messages it   *)
(* did not ask for in a private queue.                                     *)
(*                                                                         *)
(* Memory is in units of one pool entry header.  The sender's list of      *)
(* entries is written as the stack of their addresses: nil_entry is below  *)
(* the bottom and "current" is the top, because current->next is nil_entry *)
(* whenever smp_send() returns.                                            *)
(***************************************************************************)
EXTENDS Integers, Sequences, SequencesExt

CONSTANTS
  Proc,        \* the processes of the node
  Programs,    \* what they may do: functions from Proc to sequences of calls
  PoolSize,    \* q_size: the part of the pool each process owns
  FifoCap,     \* FIFO_MAX - 1
  MSG_Q_SIZE   \* slots in the queue of headers, its head included

\* A call of smp_send or smp_recv; a tag below 0 asks for any.
CallType == [op : {"send", "recv"}, peer : Proc, tag : Int, size : Nat \ {0}]

ASSUME ShmMsgAssumption ==
  /\ Programs \subseteq [Proc -> Seq(CallType)]
  /\ PoolSize \in Nat \ {0, 1} /\ FifoCap \in Nat \ {0} /\ MSG_Q_SIZE \in Nat \ {0, 1}

VARIABLES
  todo,     \* todo[p]: calls p has yet to complete
  pc,       \* "call", "fifo", "ready", "read", "wait", or how p ended
  hdr,      \* hdr[p][a]: the header at address a of p's pool, if one is there
  data,     \* data[p][a]: number of the message whose payload is at a
  stack,    \* stack[p]: addresses of the entries on p's list, current last
  fifo,     \* fifo[s][d]: entries on their way from s to d
  entry,    \* new_entry of a sender, recv_entry of a receiver
  ptr,      \* the local hdr of smp_recv: the slot for the next stray header
  slots,    \* slots[p][x]: the header in slot x of p's queue
  ring,     \* ring[p]: p's slots as they are linked, from head_q->next to head_q
  n_buffered, tail_q,
  sent,     \* history: sent[p]: messages handed to smp_send, numbered from 1
  live,     \* history: live[p]: numbers of the messages not received yet
  got,      \* history: got[d][s]: messages smp_recv returned, in order
  stray     \* history: stray[p]: entries p read without a match, not received yet

poolVars  == <<hdr, data, stack>>
queueVars == <<ptr, slots, ring, n_buffered, tail_q>>
histVars  == <<sent, live, got, stray>>
vars == <<todo, pc, poolVars, fifo, entry, queueVars, histVars>>

\* A pointer to an entry is its address; the number of the message it was
\* handed out for comes along as history, in pointers and in headers.
Nil   == 0                                    \* the address of nil_entry
NoEntry == [at |-> Nil, num |-> 0]
Blank == [flag |-> 0, nbytes |-> 0, tag |-> 0, num |-> 0]
Empty == [src |-> -1, nbytes |-> 0, tag |-> 0, entry |-> NoEntry]
Wild  == 0                                    \* a pointer that points nowhere
Torn  == 0                                    \* a payload of several messages

Init ==
  /\ todo \in Programs
  /\ pc    = [p \in Proc |-> "call"]
  /\ hdr   = [p \in Proc |-> [a \in 0 .. PoolSize - 1 |-> Blank]]
  /\ data  = [p \in Proc |-> [a \in 0 .. PoolSize - 1 |-> Torn]]
  /\ stack = [p \in Proc |-> << >>]
  /\ fifo  = [p \in Proc |-> [q \in Proc |-> << >>]]
  /\ entry = [p \in Proc |-> NoEntry]
  /\ ptr   = [p \in Proc |-> Wild]
  /\ slots = [p \in Proc |-> [x \in 1 .. MSG_Q_SIZE |-> Empty]]
  /\ ring  = [p \in Proc |-> [k \in 1 .. MSG_Q_SIZE |-> k]]
  /\ n_buffered = [p \in Proc |-> 0]
  /\ tail_q = [p \in Proc |-> MSG_Q_SIZE]
  /\ sent  = [p \in Proc |-> << >>]
  /\ live  = [p \in Proc |-> {}]
  /\ got   = [p \in Proc |-> [q \in Proc |-> << >>]]
  /\ stray = [p \in Proc |-> {}]

Calls(p, op) == pc[p] # "abort" /\ todo[p] # << >> /\ Head(todo[p]).op = op
Call(p)      == Head(todo[p])
Return(p)    == /\ todo' = [todo EXCEPT ![p] = Tail(@)]
                /\ pc'   = [pc EXCEPT ![p] = "call"]

\* quitall() sends SIGQUIT to every process of the job.
QuitAll == pc' = [p \in Proc |-> "abort"]

-----------------------------------------------------------------------------
(***************************************************************************)
(* smp_send()                                                              *)
(***************************************************************************)

\* Slip: an entry is collected as soon as its message is ready.
Garbage_Ready(p, k) == hdr[p][stack[p][k]].flag # 0

\* The k-th entry of p's list is marked: its message is received.
Garbage(p, k) == hdr[p][stack[p][k]].flag = -1

\* Collection goes from the last entry down to one in use: the k-th, or nil_entry.
Collects(p, k) == \A m \in 1 .. Len(stack[p]) :
  /\ m = k => ~Garbage(p, m)
  /\ m > k => Garbage(p, m)

Current(list) == IF list = << >> THEN Nil ELSE Last(list)

\* Slip: the header of the entry at a is not counted.
End_NoHeader(p, a) == a + hdr[p][a].nbytes

\* The first address after the entry at a.
End(p, a) == a + 1 + hdr[p][a].nbytes

\* Slip: the new entry's own header is not counted.
Fits_NoHeader(p, a, nbytes) == PoolSize - End(p, a) > nbytes

\* Room after the entry at a for a header and nbytes of payload.
Fits(p, a, nbytes) == PoolSize - End(p, a) > 1 + nbytes

\* The new entry goes after the last of list: header, then payload.
Place(p, list) ==
  LET a == End(p, Current(list))
      c == Call(p)
      number == Len(sent[p]) + 1
  IN  /\ stack' = [stack EXCEPT ![p] = Append(list, a)]
      /\ hdr'   = [hdr EXCEPT ![p] = [b \in DOMAIN @ |->
                     IF b = a THEN [flag |-> 0, nbytes |-> c.size, tag |-> c.tag, num |-> number]
                     ELSE IF b \in a + 1 .. a + c.size THEN Blank ELSE @[b]]]
      /\ data'  = [data EXCEPT ![p] = [b \in DOMAIN @ |->
                     IF b \in a .. a + c.size THEN number ELSE @[b]]]
      /\ entry' = [entry EXCEPT ![p] = [at |-> a, num |-> number]]
      /\ sent'  = [sent EXCEPT ![p] = Append(@, [to |-> c.peer, tag |-> c.tag,
                                                 nbytes |-> c.size, at |-> a])]
      /\ live'  = [live EXCEPT ![p] = @ \cup {number}]
      /\ pc'    = [pc EXCEPT ![p] = "fifo"]

\* Collect, then look for space after current, then at the start of the pool.
\* There the code looks at the space of the whole pool: "next" still is nil_entry.
SendAlloc(p) ==
  /\ pc[p] = "call" /\ Calls(p, "send")
  /\ \E k \in 0 .. Len(stack[p]) :
       LET list == SubSeq(stack[p], 1, k)
           size == Call(p).size
       IN  /\ Collects(p, k)
           /\ IF Fits(p, Current(list), size) THEN Place(p, list)
              ELSE IF stack[p] = << >> THEN QuitAll /\ UNCHANGED <<poolVars, entry, sent, live>>
              ELSE IF Fits(p, Nil, size) THEN Place(p, << >>)
              ELSE /\ pc' = [pc EXCEPT ![p] = "spin"]        \* the loop never ends
                   /\ UNCHANGED <<poolVars, entry, sent, live>>
  /\ UNCHANGED <<todo, fifo, queueVars, got, stray>>

\* FIFOwrite: an address that finds the FIFO full is dropped.
SendFifo(p) ==
  /\ pc[p] = "fifo"
  /\ fifo' = [fifo EXCEPT ![p][Call(p).peer] = IF Len(@) < FifoCap THEN Append(@, entry[p]) ELSE @]
  /\ pc' = [pc EXCEPT ![p] = "ready"]
  /\ UNCHANGED <<todo, poolVars, entry, queueVars, histVars>>

\* Slip: the message is never marked ready.
SendReady_NoFlag(p) ==
  /\ pc[p] = "ready"
  /\ Return(p)
  /\ UNCHANGED <<poolVars, fifo, entry, queueVars, histVars>>

SendReady(p) ==
  /\ pc[p] = "ready"
  /\ hdr' = [hdr EXCEPT ![p][entry[p].at].flag = 1]
  /\ Return(p)
  /\ UNCHANGED <<data, stack, fifo, entry, queueVars, histVars>>

-----------------------------------------------------------------------------
(***************************************************************************)
(* smp_recv()                                                              *)
(***************************************************************************)

Wanted(c, nbytes, tag) == nbytes <= c.size /\ (c.tag < 0 \/ tag = c.tag)

\* The payload at address a of s: the number of its message, if it is of one.
Payload(s, a, nbytes) ==
  LET nums == {data[s][b] : b \in a + 1 .. a + nbytes}
  IN  IF \E m \in nums : nums = {m} THEN CHOOSE m \in nums : TRUE ELSE Torn

\* MP_memcpy from entry e of s, and the entry is marked for collection.
CopyOut(p, s, e, nbytes, tag) ==
  /\ got'  = [got EXCEPT ![p][s] = Append(@, [tag |-> tag, num |-> Payload(s, e.at, nbytes)])]
  /\ hdr'  = [hdr EXCEPT ![s][e.at].flag = -1]
  /\ data' = [data EXCEPT ![s][e.at] = Torn]
  /\ live' = [live EXCEPT ![s] = @ \ {e.num}]
  /\ Return(p)

Head_q == MSG_Q_SIZE        \* the slot that heads the queue, last on its ring

\* Slip: the slot before the first is not set.
PrevSlot_Unset(p, k) == IF k = 1 THEN Wild ELSE ring[p][k - 1]

PrevSlot(p, k) == IF k = 1 THEN Head_q ELSE ring[p][k - 1]

\* The k-th slot is unlinked and linked again after the tail.
Relinked(p, k) ==
  LET others == RemoveAt(ring[p], k)
      moved  == InsertAt(others, 1 + SelectInSeq(others, LAMBDA x : x = tail_q[p]), ring[p][k])
      h      == SelectInSeq(moved, LAMBDA x : x = Head_q)
  IN  SubSeq(moved, h + 1, MSG_Q_SIZE) \o SubSeq(moved, 1, h)

\* A header of the queue that the receive asks for.
IsWanted(p, k) == LET h == slots[p][ring[p][k]]
                  IN  h.src = Call(p).peer /\ Wanted(Call(p), h.nbytes, h.tag)

\* The search of the queue finds the k-th header; its slot goes after the tail.
RecvQueued(p) ==
  /\ pc[p] = "call" /\ Calls(p, "recv")
  /\ \E k \in 1 .. n_buffered[p] :
       LET h == slots[p][ring[p][k]]
       IN  /\ IsWanted(p, k) /\ \A m \in 1 .. k - 1 : ~IsWanted(p, m)
           /\ CopyOut(p, Call(p).peer, h.entry, h.nbytes, h.tag)
           /\ stray' = [stray EXCEPT ![p] = @ \ {<<Call(p).peer, h.entry>>}]
           /\ IF ring[p][k] = tail_q[p]
              THEN tail_q' = [tail_q EXCEPT ![p] = PrevSlot(p, k)] /\ UNCHANGED ring
              ELSE ring' = [ring EXCEPT ![p] = Relinked(p, k)] /\ UNCHANGED tail_q
           /\ n_buffered' = [n_buffered EXCEPT ![p] = @ - 1]
  /\ UNCHANGED <<stack, fifo, entry, ptr, slots, sent>>

\* What the search leaves in the local hdr: the slot after the last one looked at,
\* or, when it looked at none, whatever the uninitialised variable holds.
PtrAfterSearch(p) ==
  IF n_buffered[p] = 0 THEN {Wild} \cup 1 .. MSG_Q_SIZE
                       ELSE {ring[p][1 + (n_buffered[p] % MSG_Q_SIZE)]}

RecvSearch(p) ==
  /\ pc[p] = "call" /\ Calls(p, "recv")
  /\ \A k \in 1 .. n_buffered[p] : ~IsWanted(p, k)
  /\ \E x \in PtrAfterSearch(p) : ptr' = [ptr EXCEPT ![p] = x]
  /\ pc' = [pc EXCEPT ![p] = "read"]
  /\ UNCHANGED <<todo, poolVars, fifo, entry, slots, ring, n_buffered, tail_q, histVars>>

\* FIFOread, and the header is looked at.  A stray one goes into slot ptr.
RecvRead(p) ==
  /\ pc[p] = "read"
  /\ LET c == Call(p)
         s == c.peer
         e == Head(fifo[s][p])
         h == hdr[s][e.at]
     IN  /\ fifo[s][p] # << >>
         /\ fifo' = [fifo EXCEPT ![s][p] = Tail(@)]
         /\ IF Wanted(c, h.nbytes, h.tag)
            THEN /\ entry' = [entry EXCEPT ![p] = e]
                 /\ ptr' = [ptr EXCEPT ![p] = Wild]          \* not used again
                 /\ pc' = [pc EXCEPT ![p] = "wait"]
                 /\ UNCHANGED <<slots, n_buffered, tail_q, stray>>
            ELSE /\ stray' = [stray EXCEPT ![p] = @ \cup {<<s, e>>}]
                 /\ UNCHANGED <<entry, ptr>>
                 /\ IF n_buffered[p] = MSG_Q_SIZE THEN
                      QuitAll /\ UNCHANGED <<slots, n_buffered, tail_q>>
                    ELSE IF ptr[p] = Wild THEN           \* a store through a wild pointer
                      pc' = [pc EXCEPT ![p] = "crash"] /\ UNCHANGED <<slots, n_buffered, tail_q>>
                    ELSE
                      /\ slots' = [slots EXCEPT ![p][ptr[p]] =
                                     [src |-> s, nbytes |-> h.nbytes, tag |-> h.tag, entry |-> e]]
                      /\ tail_q' = [tail_q EXCEPT ![p] = ptr[p]]
                      /\ n_buffered' = [n_buffered EXCEPT ![p] = @ + 1]
                      /\ UNCHANGED pc
  /\ UNCHANGED <<todo, poolVars, ring, sent, live, got>>

\* Slip: the spinlock on the flag is left out.
RecvCopy_NoSpin(p) ==
  /\ pc[p] = "wait"
  /\ LET s == Call(p).peer
         h == hdr[s][entry[p].at]
     IN  CopyOut(p, s, entry[p], h.nbytes, h.tag)
  /\ UNCHANGED <<stack, fifo, entry, queueVars, sent, stray>>

\* spinlock( &flag, 0 ), then the copy.
RecvCopy(p) ==
  /\ pc[p] = "wait"
  /\ LET s == Call(p).peer
         h == hdr[s][entry[p].at]
     IN  h.flag # 0 /\ CopyOut(p, s, entry[p], h.nbytes, h.tag)
  /\ UNCHANGED <<stack, fifo, entry, queueVars, sent, stray>>

-----------------------------------------------------------------------------

Run(p) == \/ SendAlloc(p) \/ SendFifo(p) \/ SendReady(p)
          \/ RecvQueued(p) \/ RecvSearch(p) \/ RecvRead(p) \/ RecvCopy(p)

AllDone == \A p \in Proc : todo[p] = << >>

Next == (\E p \in Proc : Run(p)) \/ (AllDone /\ UNCHANGED vars)

Spec == Init /\ [][Next]_vars

\* spinlock() and FIFOread() yield to the other processes of the node.
FairSpec == Spec /\ \A p \in Proc : WF_vars(Run(p))

-----------------------------------------------------------------------------

\* The types; the slots of a queue stay one ring that ends in its head.
TypeOK ==
  \A p \in Proc :
    /\ pc[p] \in {"call", "fifo", "ready", "read", "wait", "abort", "crash", "spin"}
    /\ \A a \in 0 .. PoolSize - 1 : hdr[p][a].flag \in {-1, 0, 1} /\ hdr[p][a].nbytes \in Nat
    /\ \A q \in Proc : Len(fifo[p][q]) <= FifoCap
    /\ n_buffered[p] \in 0 .. MSG_Q_SIZE
    /\ tail_q[p] \in 1 .. MSG_Q_SIZE /\ ptr[p] \in 0 .. MSG_Q_SIZE
    /\ Range(ring[p]) = 1 .. MSG_Q_SIZE /\ Last(ring[p]) = Head_q

\* The entries on a process's list follow each other without a gap and lie in
\* its part of the pool: the unsigned comparison in smp_send (shm.c:470) never
\* sees a negative left side, and no entry runs into the next process's part.
ListInPool ==
  \A p \in Proc : \A k \in 1 .. Len(stack[p]) :
    /\ stack[p][k] = End(p, IF k = 1 THEN Nil ELSE stack[p][k - 1])
    /\ End(p, stack[p][k]) < PoolSize

\* As long as a message is not received, its entry is intact: neither a later
\* message of its sender nor a receiver's mark has overwritten it (shm.c:443-502).
PoolSafe ==
  \A p \in Proc : \A m \in live[p] :
    LET r == sent[p][m]
    IN  /\ hdr[p][r.at].num = m
        /\ hdr[p][r.at].flag # -1
        /\ \A b \in r.at + 1 .. r.at + r.nbytes : data[p][b] = m

\* The numbers of the messages of tag t that s has sent to d, and of those that
\* d has received from s.
SentNumbers(s, d, t) ==
  LET IsOne(m) == sent[s][m].to = d /\ sent[s][m].tag = t
  IN  SelectSeq([m \in 1 .. Len(sent[s]) |-> m], IsOne)

GotNumbers(d, s, t) ==
  LET IsOne(g) == g.tag = t
      ones == SelectSeq(got[d][s], IsOne)
  IN  [k \in 1 .. Len(ones) |-> ones[k].num]

\* A header read without a match is in the queue until it is received
\* (shm.c:32 "else store this header in the queue").
HeadersKept ==
  \A p \in Proc : \A x \in stray[p] :
    \E k \in 1 .. n_buffered[p] :
      slots[p][ring[p][k]].src = x[1] /\ slots[p][ring[p][k]].entry = x[2]

\* Unless a header is lost, messages of one tag between two processes are
\* received whole, once, and in the order they were sent (shm.c:505-515, 591-613).
InOrder ==
  HeadersKept =>
    \A s, d \in Proc : \A m \in 1 .. Len(sent[s]) :
      LET t == sent[s][m].tag
      IN  IsPrefix(GotNumbers(d, s, t), SentNumbers(s, d, t))

\* When all is done, and no header went through a queue, every entry still
\* listed is marked: none is lost to its pool (shm.c:515, 599, 609).
NoLeak ==
  AllDone /\ (\A p \in Proc : \A x \in 1 .. MSG_Q_SIZE : slots[p][x] = Empty)
    => \A p \in Proc : \A k \in 1 .. Len(stack[p]) : Garbage(p, k)

\* Every call returns, unless the job is stopped, a send looks for space for
\* ever, or a header goes where the queue does not have it.
Broken == ~HeadersKept \/ \E p \in Proc : pc[p] \in {"abort", "crash", "spin"}
AllReturn == <>(AllDone \/ Broken)
============================================================================
