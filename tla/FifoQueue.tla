----------------------------- MODULE FifoQueue -----------------------------
(***************************************************************************)
(* What a FIFO of MP_Lite/fifo.c gives the two processes that share it: a  *)
(* bounded queue between one writer and one reader.  A write that finds    *)
(* the queue full may give up, and the entry is then lost.  ShmFifo is     *)
(* shown to implement this specification.                                  *)
(***************************************************************************)
EXTENDS Naturals, Sequences

CONSTANTS Offset,      \* what can be put in the queue
          None,        \* no write in progress; nothing read yet
          Capacity     \* entries the queue holds at most

VARIABLES pending,     \* the entry being written, or None
          queue,       \* entries written and not read
          got,         \* the entry read last
          lost         \* number of writes that gave up

queueVars == <<pending, queue, got, lost>>

Init == /\ pending = None
        /\ queue = << >>
        /\ got = None
        /\ lost = 0

Write(v) == /\ pending = None
            /\ pending' = v
            /\ UNCHANGED <<queue, got, lost>>

Put == /\ pending # None
       /\ Len(queue) < Capacity
       /\ queue' = Append(queue, pending)
       /\ pending' = None
       /\ UNCHANGED <<got, lost>>

GiveUp == /\ pending # None
          /\ Len(queue) = Capacity
          /\ pending' = None
          /\ lost' = lost + 1
          /\ UNCHANGED <<queue, got>>

Get == /\ queue # << >>
       /\ got' = Head(queue)
       /\ queue' = Tail(queue)
       /\ UNCHANGED <<pending, lost>>

Next == (\E v \in Offset : Write(v)) \/ Put \/ GiveUp \/ Get

Spec == Init /\ [][Next]_queueVars
============================================================================
