------------------------------ MODULE ShmFifo ------------------------------
(***************************************************************************)
(* One FIFO of MP_Lite/fifo.c: a ring in shared memory between a process   *)
(* that calls FIFOwrite() and one that calls FIFOread(), without a lock.   *)
(* The writer alone moves sendpos and the reader alone moves recvpos; each *)
(* step below is one access to what the other process writes, or the store *)
(* that the other one waits for.                                           *)
(***************************************************************************)
EXTENDS Naturals, Sequences

CONSTANTS FIFO_MAX,    \* entries of the ring (40 in the code)
          nsmp,        \* a full FIFO is tried this many times
          Offset,      \* offsets into the pool
          None,        \* no offset
          MaxWrites    \* bound: calls of FIFOwrite

ASSUME ShmFifoAssumption ==
  /\ FIFO_MAX \in Nat \ {0, 1}
  /\ nsmp \in Nat \ {0}
  /\ None \notin Offset
  /\ MaxWrites \in Nat

VARIABLES
  sendpos,   \* where the next entry goes
  recvpos,   \* where the next entry comes from
  offset,    \* the ring
  wpc,       \* the writer: "idle", "try", "store" or "advance"
  tries,     \* its count of tries
  arg,       \* the offset it was given
  rpc,       \* the reader: "wait" or "advance"
  last,      \* the offset FIFOread returned last
  val,       \* the local offset of FIFOread
  writes,    \* history: calls of FIFOwrite
  lost       \* history: calls that gave up

fifoVars == <<sendpos, recvpos, offset, wpc, tries, arg, rpc, last, val, writes, lost>>

FifoInit ==
  /\ sendpos = 0 /\ recvpos = 0
  /\ offset  = [x \in 0 .. FIFO_MAX - 1 |-> None]
  /\ wpc = "idle" /\ tries = 0 /\ arg = None
  /\ rpc = "wait" /\ last = None /\ val = None
  /\ writes = 0 /\ lost = 0

\* Slip: the ring's last position is not looked at.
Full_NoWrap == sendpos + 1 = recvpos

Full == \/ sendpos + 1 = recvpos
        \/ sendpos + 1 = FIFO_MAX /\ recvpos = 0

Advance(pos) == IF pos = FIFO_MAX - 1 THEN 0 ELSE pos + 1

WriteCall ==
  /\ wpc = "idle" /\ writes < MaxWrites
  /\ arg' \in Offset
  /\ wpc' = "try" /\ tries' = 0
  /\ writes' = writes + 1
  /\ UNCHANGED <<sendpos, recvpos, offset, rpc, last, val, lost>>

\* The test of the loop; when j runs out the function just returns.
WriteTry ==
  /\ wpc = "try"
  /\ IF Full
     THEN /\ tries' = tries + 1
          /\ wpc'  = IF tries + 1 < nsmp THEN "try" ELSE "idle"
          /\ lost' = IF tries + 1 < nsmp THEN lost ELSE lost + 1
     ELSE wpc' = "store" /\ UNCHANGED <<tries, lost>>
  /\ UNCHANGED <<sendpos, recvpos, offset, arg, rpc, last, val, writes>>

WriteStore ==
  /\ wpc = "store"
  /\ offset' = [offset EXCEPT ![sendpos] = arg]
  /\ wpc' = "advance"
  /\ UNCHANGED <<sendpos, recvpos, tries, arg, rpc, last, val, writes, lost>>

WriteAdvance ==
  /\ wpc = "advance"
  /\ sendpos' = Advance(sendpos)
  /\ wpc' = "idle"
  /\ UNCHANGED <<recvpos, offset, tries, arg, rpc, last, val, writes, lost>>

\* Slip: the positions are compared as if they never wrapped.
ReadTake_NoWrap ==
  /\ rpc = "wait" /\ recvpos < sendpos
  /\ val' = offset[recvpos]
  /\ rpc' = "advance"
  /\ UNCHANGED <<sendpos, recvpos, offset, wpc, tries, arg, last, writes, lost>>

\* The wait is over: the entry is read.
ReadTake ==
  /\ rpc = "wait" /\ recvpos # sendpos
  /\ val' = offset[recvpos]
  /\ rpc' = "advance"
  /\ UNCHANGED <<sendpos, recvpos, offset, wpc, tries, arg, last, writes, lost>>

\* The position moves on, which frees the entry, and FIFOread returns.
ReadAdvance ==
  /\ rpc = "advance"
  /\ recvpos' = Advance(recvpos)
  /\ last' = val
  /\ rpc' = "wait"
  /\ UNCHANGED <<sendpos, offset, wpc, tries, arg, val, writes, lost>>

Writer == WriteCall \/ WriteTry \/ WriteStore \/ WriteAdvance
Reader == ReadTake \/ ReadAdvance

\* All written and all read: the reader waits for a message nobody sends.
Idle == writes = MaxWrites /\ wpc = "idle" /\ rpc = "wait" /\ recvpos = sendpos

FifoNext == Writer \/ Reader \/ (Idle /\ UNCHANGED fifoVars)

FifoSpec == FifoInit /\ [][FifoNext]_fifoVars

\* sched_yield() in both loops lets the other process run.
FifoFairSpec == FifoSpec /\ WF_fifoVars(Writer) /\ WF_fifoVars(Reader)

-----------------------------------------------------------------------------

\* Every variable holds a value of its type.
FifoTypeOK ==
  /\ sendpos \in 0 .. FIFO_MAX - 1
  /\ recvpos \in 0 .. FIFO_MAX - 1
  /\ offset  \in [0 .. FIFO_MAX - 1 -> Offset \cup {None}]
  /\ wpc \in {"idle", "try", "store", "advance"}
  /\ rpc \in {"wait", "advance"}
  /\ tries \in Nat
  /\ arg \in Offset \cup {None} /\ val \in Offset \cup {None} /\ last \in Offset \cup {None}
  /\ writes \in 0 .. MaxWrites
  /\ lost \in Nat

\* The entries of the ring in use, oldest first.
Pos(x)   == IF x < FIFO_MAX THEN x ELSE x - FIFO_MAX
Count    == IF recvpos <= sendpos THEN sendpos - recvpos ELSE sendpos + FIFO_MAX - recvpos
Contents == [k \in 1 .. Count |-> offset[Pos(recvpos + k - 1)]]

\* The reason it works: the test of the writer stays true while the reader only
\* makes room, and each local value is that of the position it is about to pass.
FifoInv ==
  /\ FifoTypeOK
  /\ wpc # "idle" => arg # None
  /\ wpc \in {"store", "advance"} => Count < FIFO_MAX - 1
  /\ wpc = "advance" => offset[sendpos] = arg
  /\ rpc = "advance" => Count > 0 /\ val = offset[recvpos]

\* The ring is a queue of FIFO_MAX - 1 entries: what is read is what was
\* written, in order, once (fifo.c:86-130).
Queue == INSTANCE FifoQueue WITH
           pending <- IF wpc = "idle" THEN None ELSE arg,
           queue <- Contents, got <- last, Capacity <- FIFO_MAX - 1
ImplementsQueue == Queue!Spec

\* Every entry that entered the ring is read.
Drained == <>Idle
============================================================================
