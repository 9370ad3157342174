# A TLA+ verification of NetPIPE 5.x

NetPIPE measures the throughput between pairs of processes: the driver
(`src/src/netpipe.c`) bounces messages of growing size through a *communication
module* chosen at link time (`mpi.c`, `tcp.c`, `ibverbs.c`, ...). The
repository also holds MP_Lite (`src/MP_Lite`), a small message-passing library
that the driver can be run on through its MPI interface.

This directory holds TLA+ modules of the parts whose correctness depends on
the order in which processes run, the TLC configurations that check small
instances of them, and TLAPS proofs for every value of the constants. Paths
below are relative to the repository.

## Reading guide

| module | models | proofs | TLC |
|---|---|---|---|
| `NetPIPE` | the driver, `src/netpipe.c` | `NetPIPE_proofs` (lemmas) | through the next two |
| `NPmpi` (EXTENDS `NetPIPE`) | the driver linked with `src/mpi.c` | `NPmpi_proofs` | `MCNPmpiModes`; `MCNPmpi`, two cfgs |
| `NPtcp` (EXTENDS `NetPIPE`) | the driver linked with `src/tcp.c` | `NPtcp_proofs` | `MCNPtcp` |
| `Barrier` | the promise of `MP_Sync()`, `MP_Lite/tcp.c:3325` | | as a PROPERTY of `MPSync` |
| `SyncCalls`, `SmpSync`, `TcpSync` | `smp_sync()`, `MP_Lite/shm.c:970`; `tcp_sync()`, `MP_Lite/tcp.c:3297` | `Node_proofs` | through `MPSync` |
| `MPSync` (EXTENDS both) | `MP_Sync()`, which is the one or the other | `Node_proofs` | `MCMPSync` |
| `FifoQueue` | what a FIFO of `MP_Lite/fifo.c` gives its two processes | | as a PROPERTY of `ShmFifo` |
| `ShmFifo` | `FIFOwrite()`, `FIFOread()`, `MP_Lite/fifo.c:84` | `Node_proofs` | `MCShmFifo` |
| `ShmMsg` | `smp_send()`, `smp_recv()`, `MP_Lite/shm.c:359` | `Node_proofs` | `MCShmMsg`, two cfgs |
| `TcpMsg` | the message engine of `MP_Lite/tcp.c` with its SIGIO handler | `TcpMsgInv_proofs`, `TcpMsg_proofs` | `MCTcpMsg`, two cfgs |
| `WinLock` | what the locks of one-sided windows promise, `MP_Lite/tcp.c:2774-2890` | `WinLock_proofs` | as a PROPERTY of `TcpWin` |
| `TcpWin` | one-sided communication of `MP_Lite/tcp.c` | `TcpWin_proofs` | `MCTcpWin` |
| `Collectives` | the collectives of `MP_Lite/mpcore.c` | | `MCCollectives` |

`PROJECT.json` lists the components, the runs, for each property a mutant of
the model that breaks it, the source lines of every definition, the hazards of
the code and the properties that answer them. The mutated definitions stand
next to the real ones and are marked "Slip:".

    tlc -config MCNPmpiModes.cfg MCNPmpiModes    # one run
    tlapm NPmpi_proofs.tla                       # one module of proofs

# 1. Inventory

## 1.1 The benchmark driver (`src/netpipe.c`)

*State.* Per process: the place in the main loop, the loop indices (test,
trial, repeat), `nrepeat`, `finished`, the double buffer `sr_buf` with its
pointers `s_ptr`, `r_ptr` (and `ds_ptr`, `dr_ptr` for RDMA), the two static
tags of `SetupBufferData` and `CheckBufferData`, `failures[]`, the clock.

*Operations.* For each size: agree on `nrepeat` (`Broadcast`), allocate
(`MallocBufs`), then `ntrials` times: prepost, `Sync`, exchange `nrepeat`
messages with the partner (`PrepostRecv`, `SetupBufferData`, `SendData`,
`RecvData`, `CheckBufferData`, `AdvancePtrs`), `Sync` again if there are several
pairs, `Reset`; then gather times and failures, free, and agree on whether to
stop.

*Interactions.* It calls the communication module; all processes run the same
program and meet in the collectives, the partners meet in the messages.

*Hard.* The same text is executed by transmitters and receivers in different
branches; what they do must stay in step for every combination of options
(`--stream`, `--bidir`, `--burst`, `--async`, several pairs). Receives are
posted ahead, so a message may land in a buffer before the program looks.

*Correct when* the collectives of all processes match; the messages of two
trials never mix; the clock of process 0 covers the messages of all pairs; the
checked tag is the one the partner stamped; all processes stop together.

## 1.2 The MPI module (`src/mpi.c`)

*State.* `stag`, `rtag`, `nrepeats`, `recvRequest[]`.
*Operations.* `Sync`, `Broadcast`, `Gather`, `SendData`, `PrepostRecv`,
`RecvData`, `Reset` (empty), `Module_TestForCompletion` (for `--workload`).
*Hard.* The tags are counted on each side alone and must agree; with `--burst` a
tag is also the index of a request; broadcasting `finished` resets the modulus
of the tags to 0 until the next broadcast.
*Correct when* `MPI_Wait` is called on live requests only, tags agree at the
start of each trial, and nothing is outstanding when the buffers are freed.

## 1.3 The TCP module (`src/tcp.c`)

*State.* One socket per process to its pair, the listening socket, buffer sizes.
*Operations.* `np_establish` (connect with retries, accept, exchange of
"SyncMe"), `readFully`, `writeFully`, `Reset` (reconnect with `--reset`), the
collectives through MPI.
*Hard.* A bounded byte stream under `--bidir`; retries of `connect`; end of file
read as "no bytes yet".
*Correct when* every byte written is read once and in order, no two processes
write for ever, and a connection joins the processes of the same trial.

## 1.4 InfiniBand verbs (`src/ibverbs.c`)

*State.* Queue pair, completion queues, counts of outstanding sends and receives,
`tx_depth`, `rx_depth`. *Operations.* post, poll, RDMA write with a poll on the
last byte, UD sends in packets. *Hard.* Every post must be matched with one
completion; `Broadcast` caps `nrepeat` by the depth of each side's own queue;
completion by a byte that may already hold the awaited value.
*Correct when* posts never exceed the depths and a message is never taken for
complete before its last byte has arrived.

## 1.5 MP_Lite

* **`MP_Sync`** (`tcp.c:3327`): `smp_sync()` when all processes are on one node,
  else `tcp_sync()`. State: a shared array with one counter modulo 10 per process;
  or a ring of sockets and a token. Correct when nobody returns from call *k*
  before all have entered it, and all return.
* **Shared-memory messages** (`shm.c`, `fifo.c`): a pool per process, a FIFO of
  offsets per ordered pair, flags of entries (in use, read, garbage), a queue of
  headers read out of order. Correct when every message is received once and in
  order per pair and tag, and no entry is reused while somebody reads it.
* **Shared-memory one-sided operations** (`shm.c:735-963`): a grid of `writes` and
  `reads` counters, a linked list of requests serviced in signal handlers.
* **TCP message engine** (`tcp.c`): blocking and asynchronous sends and receives
  served by a SIGIO handler that interrupts the same code, with queues of
  posted receives and of messages received early. Correct when the handler and
  the main program never both progress one message and no signal is lost.
* **One-sided operations over TCP** (`tcp.c`): windows, puts, gets and accumulates carried
  out by the handler of the target, synchronised by fences, post/start/complete/wait or
  locks; lists of requests and flags. Correct when synchronisation covers the puts before
  it, an exclusive lock excludes, and every call returns.
* **Collectives** (`mpcore.c`): broadcast, reductions and gathers over trees and
  masks, shifts, Cartesian topologies. Correct when each computes its reference
  on every process for every number of processes.
* **Locks** (`lock.c`): Lamport's bakery in shared memory, not called at present.
* **Start-up, status file, stall check** (`tcp.c:285-757`, `mpcore.c:635-806`).

## 1.6 The rest

`src/mpi3_shm.c` (a circular queue of messages in an MPI-3 window with its own
garbage collection), `src/mpi2.c` and `src/shmem_cxh.c` (all three written against an
older driver), `src/shmem.c` (puts and a poll on the last byte), `src/disk.c` (reads until end of file), `src/memcpy.c`, `src/theo.c`
(no state), clean-up programs, MPI and Fortran wrappers, utilities, hardware
back-ends out of use (`ib.c`, `via.c`) and `extras/` (not built).

# 2. Plan

Modules in the order they were written, the ones that carry the program's
purpose first.

1. `NetPIPE`, `NPmpi`: the driver and its principal module.
2. `Barrier`, `SmpSync`, `TcpSync`, composed in `MPSync`: what `MP_Sync`
   promises, and the two implementations that refine it.
3. `FifoQueue`, `ShmFifo`, `ShmMsg`: FIFOs, pool and queue of headers under
   `smp_send` and `smp_recv`.
4. `NPtcp` (EXTENDS `NetPIPE`): connect, handshake, bounded streams, `Reset`.
5. `TcpMsg`: messages, queues and the SIGIO handler.
6. `WinLock`, `TcpWin`: one-sided communication and its synchronisation; the
   locks of `TcpWin` refine `WinLock`.
7. `Collectives`: the algorithms of `mpcore.c` against their references, over
   all numbers of processes up to a bound.

All of these are done. Section 10 says what of the first plan is left out, and why.

# 3. The driver and its modules

## 3.1 Correspondence

One action is the code between two calls that may block; entering and leaving a
collective are separate steps. `pc[p]` names the place:

| `pc` | code |
|---|---|
| `nrepeat`, `finish` | `Broadcast(&nrepeat)`, `Broadcast(&finished)` |
| `burst`, `prepostFirst` | the preposts before `Sync()` |
| `sync`, `endsync` | the two `Sync()` of a trial |
| `prepost`, `prepostNext` | the transmitter's and the receiver's prepost inside the loop |
| `send`, `sending` | `SetupBufferData` and the start of `SendData`; its return |
| `recv` | `RecvData`, `CheckBufferData`, `AdvancePtrs` |
| `reset` | `Reset()` and the loop over trials |
| `mintime`, `maxtime`, `avgtime`, `gather` | the gathers (the first three with `--stream`) |

`NetPIPE` holds the driver's half of each action (`DriverSend`, `LeaveSync`, ...),
`NPmpi` conjoins that of `mpi.c`. `colls[p]` is the log of collective calls of
`p`: MPI matches the *k*-th call of one process with the *k*-th of every other,
and `MayLeave` says who may go on: a barrier needs everybody, a broadcast needs
its root, a gather only holds its root. A process whose call is matched with a
different *kind* of collective waits for ever (`Joined`).

MPI is external. `net[p]` holds the messages sent to `p` and not taken; a posted
receive takes the oldest message of its tag, and receives of different tags may
complete in any order (`Deliver`). A standard send may return at once or only
when its message is taken; a synchronous one (`--syncSend`) only when taken.

Abstractions. *Times* are a free choice: each process picks any `nrepeat` of
`Repeats` and may want to stop after any iteration; process 0's choice is then
broadcast. *Sizes* are left out; `n` counts tests, `NPerts` tests make an
iteration of the main loop and `MaxTests` bounds the iterations, the last being
`len > end` for everyone. *Contents* are the tag of the first and last byte. The
buffers are the two halves of the cache mode. `TagMod` stands for the 100 of
`SetupBufferData`. Left out: `--nocache`, `--workload` with
`Module_TestForCompletion`, offsets, the warm-up of the clock, output.

In `NPtcp` the same driver talks over one TCP connection. `setup[p]` is the place in
`Module_Setup()`, `age[p]` how often it was called, and

| action | code (`src/tcp.c`) |
|---|---|
| `Listen` | from the return of `MPI_Sendrecv()` of the names: socket, bind, listen |
| `Connect`, `Refused` | one turn of the loop over `connect()`, lines 195-202 |
| `Accept`, `ReadSync` | `accept_from()`, which writes "SyncMe"; the read of it, lines 206-207 |
| `SendData`, `Write`, `Written` | `writeFully()`, a step for each `write()` |
| `Read`, `RecvData` | `readFully()`, a step for each `read()` that gives bytes |
| `Close`, `NoReset` | `Module_Reset()` with and without `--reset` |

TCP is external: a connection is made once the pair listens, before it accepts; data
written stay readable after a close; but a close with unread data, or of a listening
socket with connections that are not accepted, resets the connection (`broken`).
The pairs are taken to be on different nodes. `readFully()` on a connection at end of
file tries for ever, which is no step.

## 3.2 Runs

| run | instance | checks |
|---|---|---|
| `mpi_modes` | 2 processes in one of three jobs: default mode, `Repeats` {1,3}, 2 sizes x 2 iterations; `--stream`, {2,4}; `--bidir --burst`, {2,3}; 2 trials each | `TypeOK`, `Integrity`, `TrialsDoNotOverlap`, `TagsAgreeAtSync`, `SendBufferStable`, `QuiescentAtFree`, `EveryRequestLive`, `AllFinish` |
| `mpi_pairs` | 4 processes, `--bidir --syncSend`, 2 trials | `CollectivesMatch`, `ClockCoversAllPairs` |
| `nptcp` | 2 processes, `--bidir`, with and without `--reset`, 2 trials, `Repeats` {1,2} | `Integrity`, `NothingLost`, `FinishOrGiveUp` |
| `mpi_aggregate` | 4 processes, one direction | violates `AllFinish` |

`MCNPmpiModes` chooses one of three instances of `NPmpi` at the start; its own
constants only cover the three in the types of the invariants.

* `CollectivesMatch`: the *k*-th collective of any two processes is the same call
  of the same trial of the same test.
* `TrialsDoNotOverlap`: processes that exchange messages do so in the same trial
  with the same number of repeats, although each computed its own.
* `ClockCoversAllPairs`: with several pairs process 0 stops its clock after the
  last message of all pairs.
* `Integrity`: no tag check fails, i.e. no buffer is overwritten between the
  arrival of its message and its check, whatever runs ahead.
* `EveryRequestLive`: `MPI_Wait` only on a posted receive, no slot posted twice.
* `SendBufferStable`: nothing arrives for a half that MPI still sends from.
* `QuiescentAtFree`: nothing is outstanding when the buffers are freed.
* `TagsAgreeAtSync`: when both partners wait to start the same trial, the next
  send tag is 0, nothing is in flight, and the first posted receive is for it.
* `AllFinish`: every process leaves the main loop.
* `NothingLost`: no connection is reset. With `--reset` a process closes its sockets
  while its pair may still be in the trial before; the exchange of names in the next
  `Module_Setup()` is what keeps it from connecting to a socket about to be closed.
* `FinishOrGiveUp`: every process leaves the main loop, or, without `--reset`, a
  connection was refused too often.

Bounds. Two processes are one pair; all interaction between pairs goes through
the collectives, so two pairs show the rest. Two trials and two iterations give
every kind of transition between a trial and its successor (same test, next
size, next iteration, end). The repeats contain an odd and an even number (the
halves swap an odd or even number of times per trial) and, against `TagMod` 4
or 5, let the tags of the data wrap within a test. A repeat of 1 makes the first
message the last. In `nptcp` messages have 2 units (`MsgSize`) and a connection
holds 3 (`SockCap`), so writes and reads come in parts and a message may be
followed by part of the next. `Patience` 2 stands for the 20 tries of `connect`.
A connection that holds less than a message would stop `--bidir` in both
processes; that is the module's assumption `MsgSize =< SockCap` and, in the code,
the listed hazard at `src/tcp.c:332`.

Fairness. `Certain(p)`: the operating system runs every process, and a send is
only sure to return once its message is taken, so `AllFinish` does not rely on
the buffering of `MPI_Send`. `Deliver(p)`: MPI makes progress on a message whose
receive is posted. In `NPtcp` weak fairness of each process: its steps are those calls
that can complete, and TCP delivers what it took.

## 3.3 The violation

*`mpi_aggregate`.* The second `Sync()` of a trial (`netpipe.c:461`) is in the
transmitters' branch. With several pairs and neither `--bidir` nor THEO, the
receivers call one barrier per trial and the transmitters two. In TLC's behaviour, of a
job with two trials, the second barrier of the transmitters in trial 0 is matched with the
barrier of the receivers in trial 1. The receivers go on to `RecvData` of trial 1 and wait
for data; the transmitters, at the start of trial 1, are in their third barrier, which no
receiver will enter. `netpipe.c:35-37` describes the two barriers for aggregate
measurements; lines 266-269 only warn that such runs may become out of sync.

*An observation without a run.* With `--stream --burst` and three repeats or more
`Integrity` does not hold: all receives of a trial are posted on two halves and the
sender does not wait for answers, so a third message can overwrite the first
before it is checked. In `--bidir --burst` the exchange keeps the partners in step,
and `mpi_modes` shows the same double buffer to be enough there. `netpipe.c:264`
forbids `--integrity` with `--burst`, but the first and last bytes are checked in
any mode.

## 3.4 Proofs of the driver

For any number of pairs, trials, tests and repeats, in every mode, under
`Aligned == NPairs = 1 \/ Mode = "bidir"`, which `mpi_aggregate` shows to be necessary:

| theorem of `NPmpi_proofs` | `Spec =>` |
|---|---|
| `DriverInvariance` | `[]DriverInv` |
| `MpiCollectivesMatch`, `MpiTrialsDoNotOverlap`, `MpiClockCoversAllPairs` | the property of the name |
| `MpiTypeCorrect` | `[]TypeOK` |
| `MpiInvariance` | `[]Inv`: the rounds, and the messages of every pair |
| `MpiIntegrity` | `[]Integrity`, unless `--stream` is run with `--burst` (`Paced`; see 3.3) |
| `MpiRequestsLive` | `[]RequestsLive`, of which `EveryRequestLive` is the instance in the run |
| `MpiSendBufferStable`, `MpiQuiescentAtFree`, `MpiTagsAgreeAtSync` | the property of the name |

| theorem of `NPtcp_proofs` | `Spec =>` |
|---|---|
| `TcpInvariance` | `[](TcpInv /\ GivenUp)`: rounds, sockets, bytes; with `--reset` nobody gives up |
| `TcpNothingLost`, `TcpIntegrity` | `[]NothingLost`, `[]Integrity`, for any sizes of messages and sockets |

The first three of the following arguments are made in `NetPIPE_proofs`, with a lemma for
each driver action; `NPmpi_proofs` and `NPtcp_proofs` add that their steps are driver
actions or leave the driver's control alone.

*Collectives.* `CollectivesMatch` alone is not inductive: that a process is
about to make the right next call depends on where it is. `DriverInv` says
(1) each log is a prefix of one fixed sequence of calls, described by its
successor function `CallAfter`, in which `n` never decreases (`LogInOrder`);
(2) each process is where its log says, so the next call it makes is the
successor of its last (`AtItsPlace`); in the message loop its last call was the
`Sync` of this trial and everybody has made it, since a barrier lets nobody go
before; (3) its `nrepeat` is the value process 0 gave in this test's
broadcast (`CommonRepeats`). From (1), any two logs agree where both are
defined. Two processes in their message loops have each seen the other's log
reach the length of their own, so the logs have equal length, the last calls
are the same, and so are test, trial and repeats.

*Rounds.* A broadcast does not wait for its receivers, a gather only for its root, so the
processes of a pair can be far apart in the text; the messages must not be. `Round(p)`
counts the trials a process has finished. `RoundInv`: no process is more than one round
ahead of another, and it is ahead only of processes that have called the `Sync` of
their trial (`Committed`), i.e. that will run it with the repeats they have.
`RootWaits` adds that the root of a gather is not past it before the others have made it.

*Counting.* `Sent(p, q)` and `Got(p, q)` are the messages that *p* has sent and checked in
*q*'s round, computed from where *p* is: its loop index while it is in that round, all of
them when it is a round ahead. `Unchecked(p, q)`, the difference of what *p* has stamped
and *q* has checked, then changes by one with each step that sends or checks and with
no other; it is 0 between trials. `OneAhead`: unless `--stream` is given
a process has sent at most one message more than it has checked; so the two of a pair have at
most two unchecked messages between them (`Pace`), which is why two halves of the buffer are
enough.

*Messages of MPI.* Of the receives of a process `Armed(p)` are those posted and not
waited for, by number; the tag of MPI is that number, the tag in the data is the number
modulo `TagMod`, counted on from the last one checked (`Stamp`). `Posting`: each armed
receive is complete or in the list of the posted ones, for the half that the pointers will be
at when its turn comes. `Coming`: the unchecked messages are each either on their way,
once, with their stamp, or in the half of their receive. `Tags`: `stag` and `rtag` of
`mpi.c` are these numbers. `Integrity` is then the case of the next message to be
checked; `SendBufferStable` that of the one after it; `QuiescentAtFree` and
`TagsAgreeAtSync` that of none. The type theorem needs one more fact, that the modulus of the tags
is positive wherever a tag is computed: `nrepeats` is 0 between `Broadcast(&finished)` and
the next `Broadcast(&nrepeat)` only.

*Bytes of TCP.* `Socket`: the age of a process's connection is the rounds it has
finished, so `RoundInv` bounds how far a pair's connections are apart, and `Linked` lists
the five states the pair can be in. `Pipe`: the bytes between two processes are those of
the unchecked messages, in order, but for what the writer still owes and the reader already has
in its buffer. A round ends with no unchecked message, hence no byte, so a close with
`--reset` loses nothing; and the next connection is made to a socket that listens in the
same age.

# 4. The barriers of MP_Lite

## 4.1 `Barrier`

`entered[p]` and `left[p]` count calls. `Leave(p)` requires that everybody has
entered as many calls as `p`.

## 4.2 `SmpSync`

Each process owns an entry of `sync_array`. `Enter` steps the private byte and
the entry; `Scan` is one turn of the loop, enabled when the entry read is the
process's byte or the next one modulo 10. The loop condition reads an entry
twice; an entry awaited cannot leave the two accepted values before the reader
itself enters the next call, so a second read changes nothing and one read per
turn is enough. `sched_yield()` is an opaque call, so the compiler reloads
the entry. `InitSmp` clears the entry of a slow process while others already
sync. The initial zeros are those of a fresh segment (see section 10).

Proved for every number of processes and calls: `SmpSyncInvariance` (`SmpIInv`),
`SmpSyncTogether`, `SmpSyncImplementsBarrier`. `SmpIInv`: counts differ by at most
one, entries show the counts modulo 10, and a scan has passed only processes that
entered the call. The counts differ by one at most because whoever enters has
returned from the previous call (`Together`), and ten values tell a count from
its neighbours.

## 4.3 `TcpSync`

`tokens[p]` is the content of the socket from the process before `p`, `tcp_pc` the
call (`r1` ... `r4`, after the variables of `tcp_sync`). The order of the calls
differs for process 0. A token is 4 bytes in a socket used
for nothing else, so it moves whole; a call with result 0 or less is repeated.
With two processes the two directions of one socket are the two links.

Proved for every number of processes and calls: `TcpSyncInvariance`,
`TcpSyncOneToken`, `TcpSyncImplementsBarrier`. The invariant counts how
often each process has sent and received in all (`Sent`, `Received`, two per
call). A socket holds the difference, and no process is ahead of one
nearer to process 0; so process 0 having received the token of the second
lap means everybody has passed on that of the first, i.e. has entered.

## 4.4 `MPSync`

`MP_Sync()` (`tcp.c:3327`) calls the one or the other; `smp_mode` is settled in
`MP_Init()`, and a process runs the actions of one module while the variables of
the other stand still.

Run `mp_sync`: 4 processes and 12 calls, more than the modulus of `smp_sync()`, so
bytes wrap and values of an earlier lap return; four processes are a first, a last and
two inner ones of the ring. `OneToken`: never two tokens in the ring and none
between calls. `ImplementsBarrier`: refinement of `Barrier` in both modes.
`AllReturn`: under weak fairness of each process everybody returns from all calls.
The scan that waits for equality alone breaks it: a process one call ahead is
missed for ever.

Proved for every number of processes and calls: `MPSyncInvariance`, `MPSyncSafe`
(`Together` and `OneToken`) and `MPSyncImplementsBarrier`, from the lemmas about the
steps of the two modules: each step of `MPSync` is one of the mode chosen, and the
counts that `Barrier` sees are those of that mode.

# 5. Messages through shared memory

`MP_Lite` uses this path with `USE_SHM` (undefined by default, `tcp.c:122`).

## 5.1 `ShmFifo`

One writer, one reader, one ring. A step is an access to what the other process
writes (`WriteTry` reads `recvpos`, `ReadTake` reads `sendpos` and the entry), or
a store that the other waits for (`WriteStore`, `WriteAdvance`, `ReadAdvance`).
`recvpos` and `sendpos` are `volatile`; the processor is taken to keep the
stores in program order, as x86 does. `WriteTry` counts its turns up to `nsmp`
and then returns without writing, which `lost` counts.

Run `shm_fifo`: a ring of four entries (three usable), seven writes of two
offsets, so positions wrap and the order shows. `ImplementsQueue`: refinement of
`FifoQueue`, whose queue is the entries between `recvpos` and `sendpos`.
`Drained`: under weak fairness of both processes (both loops yield) all
that was put in is read. A full FIFO loses the message (`WriteTry`, `GiveUp`),
and `smp_send` does not notice: with 39 messages on their way to one receiver
the next one is gone after `nsmp` tries.

Proved for any size of the ring, number of tries and writes (in `Node_proofs`):
`FifoInvariance` (`FifoInv`) and `FifoImplementsQueue`. `FifoInv` adds to the types what
each process knows between two steps: the writer, that there is room until it moves
`sendpos`, since the reader only makes more; the reader, that its value is
that of the entry it is about to free, since the writer only stores in the
free position.

## 5.2 `ShmMsg`

Several processes; each runs a program of sends and receives. The FIFO is the
queue `ShmFifo` implements, so a full one drops the address (`SendFifo`); in the
runs none is full.

| action | code |
|---|---|
| `SendAlloc` | collection, allocation, header and copy, `shm.c:441-510` |
| `SendFifo`, `SendReady` | `FIFOwrite`, then `flag = 1` |
| `RecvQueued`, `RecvSearch` | the search of the queue, with and without a match |
| `RecvRead` | `FIFOread` and the look at the header; a stray one goes to the queue |
| `RecvCopy` | `spinlock`, copy, `flag = -1` |

`SendAlloc` is one step because only this process writes what it reads, except
the marks, and an entry seen unmarked is just not collected. Memory is counted
in entry headers (64 bytes). The list of entries is a stack, since `current->next`
is `nil_entry` whenever `smp_send` returns; so entries are collected from the top,
and the search for space has two turns at most: after the last entry, then at
the start of the pool, where `next` still is `nil_entry`. The loop may not end
(`"spin"`) or stop the job (`"abort"`).

The local `hdr` of `smp_recv`, into which a stray header is stored, is
uninitialised when the queue is empty: `ptr` is then any slot or none
(`"crash"`). The queue is a ring of slots (`ring`) that a match relinks.

Histories: `sent`, `got`, and `live`, the numbers of the messages not received yet.

* `PoolSafe`: until a message is received its header and its payload are intact.
* `ListInPool`: the listed entries are contiguous and inside the process's part.
* `InOrder`: unless a header is lost, messages are received whole, once and in
  order per pair and tag.
* `NoLeak`: at the end, if no header went through the queue, all listed entries
  are marked for collection.
* `AllReturn`: every call returns unless the job is stopped, a send spins, or a
  header is lost or stored nowhere; both waits yield, so each process runs.

| run | instance | result |
|---|---|---|
| `shm_msg` | 3 processes, pool of 10, queue of 3 slots; the two families of programs below | all of these hold |
| `shm_bulk` | 3 messages that do not fit together | violates `PoolSafe` |

`InOrderPrograms`: two receivers, tags or any tag, and a third message that goes
at the end of the pool or over the first, already received one, while its
neighbour may be in use. `OrderPrograms`: three messages received in each order
of their tags, more stray headers than slots, messages larger than the pool
as the first of a process or after another. At most six calls per process are
one wrap and a send after it. In all of them a message only goes over received
ones: the answer that process 0 waits for orders the two. Without it `PoolSafe`
does not hold, which is what `shm_bulk` shows. The job may really stop or hang,
so deadlock is not checked, and `AllReturn` says when that may happen.

*The violation.* After `current = nil_entry` (`shm.c:476`) `next` is not set to the
first entry, so the whole pool is taken for free and unread messages are
overwritten, where the code means to stop with "Not enough memory to store the
new message!".

*An observation without a run.* `tail_q = hdr` (`shm.c:621`) uses a local that is not
set when the queue is empty and not advanced after the first stray header, so
headers get lost, where `shm.c:32` says they are stored. `InOrder` and `AllReturn`
name the case.

The late `flag = 1` (`shm.c:515`) is harmless for receives from the FIFO, which
wait for it; `NoLeak` and its mutant show why they must.

Proved for any size of the pool, the FIFOs and the queue, any number of processes and
any programs:

* `PoolListInPool` (`Spec => []ListInPool`). So even a wrap over entries in use
  never writes into the part of another process, and the unsigned comparison at
  `shm.c:470` never sees a negative number. `PoolInv` adds to `ListInPool` that
  `nil_entry` stays empty and that addresses grow along the list: a new entry then
  overwrites no header of the list it is added to (`PlaceKeeps`), a collected
  list is a prefix of the old one (`PrefixList`), and everything else only changes
  flags (`MarkKeeps`, `SizesKept`).
* `ShmTypeCorrect` (`Spec => []TypeOK`). The part that needs an argument is the ring: a
  match unlinks a slot and links it again after the tail, and what is then searched
  starts after the head. `RelinkedRing` shows that the result is a ring of the same slots
  ended by the head, wherever the tail is (`RemoveAtRange`, `InsertAtRange`, `TurnedRound`); so a
  header that gets lost (see above) is overwritten or skipped, but no slot is ever lost.

The assumption is that calls have positive sizes.

# 6. Messages over TCP: `TcpMsg`

`MP_ASend()`, `MP_ARecv()`, `MP_Wait()` and `MP_Test()` over non-blocking sockets that a
SIGIO handler keeps flowing. The blocking calls are made of these.

A process has one thread, so the handler is not a second process: `work[p]` is what
the library or the handler has yet to do, a sequence of calls of `do_send()` and
`do_recv()`, and neither the program nor another run of the handler goes on before it
is empty. What may happen between two steps is that data arrive (`Deliver`) and that a
signal becomes pending. `MP_Wait()` does not block signals, so the handler runs between
its steps.

| action | code (`MP_Lite/tcp.c`) |
|---|---|
| `ASend`, `ARecv`, `Test` | the call, with the entry and the queues it makes, up to its `do_send`/`do_recv` |
| `Wait`, `Push`, `Block`, `WaitEnds` | `MP_Wait()`: buffering a send that is not done, the wait for a signal, the freeing of the entry |
| `Handler` | the handler starts: which sockets it will try |
| `Write` | one `write_msg()` in `do_send()` |
| `RecvStart`, `RecvDone` | the ends of the loop of `do_recv()` |
| `ReadBody`, `ReadPartOfHeader`, `ReadHeader`, `ReadNothing` | one `read_msg()`, with `check_header()` when a header is complete |
| `Peek` | the look at a header with `MSG_PEEK` for receives from anyone |
| `Derail` | a read of a header where none begins |

Streams hold units, not bytes: `<<n, i>>` is the *i*-th unit of the sender's *n*-th
message, so what a read gives is known by where it stood. A header is two units
(`HdrSize`), a socket holds two (`SockCap`): headers come in parts, and a message
with a body never fits. A header read where none begins has arbitrary contents; from
there on the process (`derailed`) is not modelled.

A process also counts as `derailed` once `create_msg_entry()` has given out an entry that a
queue or a handle still holds (`Create`). It takes the next entry with `buf == NULL`
(`tcp.c:3647`), and an entry may be free and queued: `recv_from_q()` and `MP_Wait()` free a
message that is complete, while `recv_q` keeps it at its head until the next `do_recv()` of
that source. In the code this takes `MAX_MSGS` (10000, `globals.h:79`) messages in between;
what is stated of a process below says nothing of it from there on.

A call only names handles that were given out before it (`NamesGiven`). `MP_Wait()` and
`MP_Test()` of an entry that is free stop the process ("`MP_Wait() has NULL msg`",
`tcp.c:880`, 981): the guard of `Wait` and `Test`. `SelfLast`, one of the
programs of `tcp_msg`, comes to it.

Run `tcp_msg`: three processes and nine programs, named in `MCTcpMsg`: both send more
than a socket holds before they receive; two messages of one tag, waited for twice; a
receive posted in the other order, or late; a shorter message than asked for;
receives from anyone, of two senders and with a message in between; messages to
oneself, whose sends are waited for before or after they are received. Each is the
smallest in which one branch of the engine is taken, and `MaxMsgs` 4 entries make the search of `create_msg_entry` wrap.

* `Whole`: a receive that was waited for holds one message of the source, size and, unless it
  reports none, tag that it reports, from the first unit to the last.
* `InOrder`: of two receives alike, the one made first has the message sent first.
* `SendBufferGivenBack`: after `MP_Wait()` the library does not send from the program's
  memory.
* `NoEntryLost`: an entry in use can still be reached, but for the case below.
* `NoSignalMissed`: while a read or a write would get anywhere a signal is pending or
  the engine is at work.
* `AllReturn`: every call returns and every message leaves, unless a process derails or is
  stopped (below). Fairness: the process and what it has begun run (weak), pending signals are delivered (strong: the handler
  can only start while the library is idle).

`StaysOnTrack` does not hold (`tcp_track`). `read_msg()` gets the address of
`do_recv()`'s own entry from a copy, so when `check_header()` puts another entry at
the head of the queue `do_recv()` goes on with the old one (`tcp.c:1297`), and what
was still to come of the other message's body is taken for a header.

The assertion of `MP_Wait()` and `MP_Test()` that the entry of a handle is in use does fail.
`recv_from_q()` frees the entry of a message to oneself when it is received
(`tcp.c:3608-3609`), though the handle of its `MP_ASend()` is still out: send to oneself,
receive, wait for the receive, then for the send (`SelfLast`), and the job ends with
"`MP_Wait() has NULL msg`". A program that waits for the send first (`Self`) is not stopped.
`AllReturn` leaves out a process that is stopped so (`NullMsg`), and no other: `MP_Wait()`
of any other message finds its entry in use, or it would not return.

Proved for any number of processes, any programs (of calls that name handles given out
before), any size of the header, the sockets and the list of entries: `TcpMsgInvariance`
(`IInv`), and from it `TypeOK`, `Whole`, `SendBufferGivenBack`, `NoEntryLost` and
`NoSignalMissed`. None of these is inductive. `IInv` has a part for each thing they
need to know, and it is stated about one process, or one of its streams, at a time:

* `Always`, of every process: `TaskPart`, what the calls of `do_send()` and `do_recv()` that a
  run of the handler has not finished may be about; `KeptPart` and `QueuedPart`, where an entry
  in use is found.
* `History`: an entry whose header was received (`Holds`) has the source, size and tag of one
  message, and of its body the first units and no other. This is kept by a receive that
  was waited for.
* `Out`, of a sender: its queue to *q* is the messages that are not gone, in order; what is on the
  wire is a piece of the stream of all messages to *q*, and the next unit to be written
  (`NextOut`) follows the last one on the wire. Only the first message has begun.
* `In`, of a receiver that is not `derailed`: the next unit of the stream is the next one of the
  message it has begun to read, or the first of a header (`StreamPart`). So a header is read
  only where one begins, and the units of a body are those of its message. It rests on there
  being one message at most that has begun, behind messages that are complete (`RecvPart`), on
  `do_recv()` being at the first of those that are not (`PlacePart`), and on an entry made from
  a peek being given the very header that was seen (`DrainPart`). `AwakePart` and `SignalPart`:
  what is asked for is looked for, and where there is something to do there is a signal or a
  task.
* `OnTrack`, of the same: what nobody asked for yet, and receives from anyone.

`In` and `OnTrack` are lost when a process derails; `Always`, `History` and `Out` are kept by
the step that derails it and by all later ones of the others, so `Whole`, `SendBufferGivenBack` and
`NoEntryLost` hold in every state, and what they say of the other processes is not weakened. The proof goes
by the steps of the model: the calls of a program; the socket's units that arrive and the signal;
then the handler's steps by what they do, a write, the look of `do_recv()`, a header from
a peek, a header in full or in part, a body. Each has a lemma for each part of `IInv` that it
disturbs.

*Observations, of the same code, that need no run.*

* A send that completes between the two tests of `MP_Wait()` (lines 882-887) is
  buffered although it is done, and its entry is never freed. `NoEntryLost` excludes it.
* A second message that nobody asked for, of a tag of which one is already kept, can
  match the completed entry that is still at the head of `recv_q`.
* When `check_header()` finds a match elsewhere in the queue it does not call
  `set_message()`, so a receive that asked for any tag keeps the tag -1 (lines 3737-3757).
* A wildcard receive that was posted never sees a message put in `msg_q` later.
* `MP_Testall` (1000-1026) blocks signals and does not unblock them.

# 7. One-sided communication: `WinLock`, `TcpWin`

## 7.1 `WinLock`

Locks of windows alone: a request is on its way for any time (`Ask`, `Arrive`), is
granted or queued by `do_lock()`, and its caller returns some time after it was
granted (`Return`). An unlock waits for an answer as well.

Proved for any set of processes: `WinLockInvariance` and `WinLockExclusion` (`Spec =>
[]Exclusion`: who holds a window for writing is alone with it). `Exclusion` speaks of
what processes believe, the window of a number, so the invariant ties the two. A lock
is owned from when `do_lock()` grants it, when its owner does not know yet, until
`do_lock()` takes it back, when its owner has long given it up. `Counts`: the count of
a window is the number of owners, 1 if it is locked for writing, and whoever has it
for writing finds it so locked. `Queues`: the queue is made of calls that wait for
this window, each once, so an unlock lets in as many owners as entries.

## 7.2 `TcpWin`

Puts, accumulates and gets, and the three ways to synchronise them. The one-sided
channels are sequences of requests; a step is a call, or its part up to a place where
the handler may run, or one request carried out by the handler of the target.
A window holds one number. The linked lists `msgids` and `get_complete` keep their defect:
removing the last node leaves the tail pointer at freed memory (`tcp.c:1541-1543`,
943-947), so what is added next is on no list; a wait for such a request calls `exit(-1)`
(`exited`).

| action | code (`MP_Lite/tcp.c`) |
|---|---|
| `APut`, `AGet` | `MP_APut()`, `MP_AAccumulate()`, `MP_AGet()`; the window of the caller is accessed at once |
| `WaitOne`, `WaitHead` | `MP_Wait()` on a request, and the wait for the earlier ones of the window |
| `LockOwn`, `LockOther`, `LockReturn` | `MP_Win_lock()` and `MP_Win_unlock()` with `do_lock()` |
| `FenceSend`, `FenceFlag` | `MP_Win_fence()`: a flag to each other process; the wait for theirs, one after the other |
| `PostSend`, `PostMark`, `WinWait` | `MP_Win_post()`, in two steps for each process of the group, and `MP_Win_wait()` |
| `Start`, `CompleteSend`, `CompleteReset` | `MP_Win_start()` and `MP_Win_complete()` |
| `RecvPut`, ..., `RecvComplete` | the SIGIO handler's `service_os_socket()`, by kind of request |

Run `tcp_win`: three processes, ten programs. `Counting`: everybody locks, gets, adds
one, unlocks. `Mixed`, `Readers`: shared and exclusive, own windows and others', two
locks at a time. `Fences`: more fences than flags. `Epochs`, `Targets`: two epochs on one
process, a process that is both. `Gets`: waited for in any order. `Lost`, `Astray`, `Posting`: the
defects of the lists, and of flags that are set after the message is sent.

* `Flushed`: a fence of the target, `MP_Win_wait()` of the target and
  `MP_Win_unlock()` of the origin have the puts before them carried out.
* `Counted`: under exclusive locks no update is lost.
* `Answered`: a get marked as complete has its own answer in its own buffer, in any order
  of waits, as long as the list has all the gets that are to be answered.
* `ImplementsLocks`: with `call` and `holds` as in the module, `WinLock`. So what is
  proved of `WinLock` holds of the queue and messages of `TcpWin`.
* `AllReturn`: every call returns unless `exit(-1)` was called, or a post or a complete
  came before the flag it changes was set (`missed`). Weak fairness of programs
  and handlers: waits spin, and a request makes a signal.

Two assumptions say of the programs what the code takes for granted. `LocksInTurn`: a
process locks a window it has not locked, and unlocks one it has ("it is assumed the user
will comply with the rules", `tcp.c:1805`). `PostsInTurn`: between two calls of
`MP_Win_post()` there is one of `MP_Win_wait()`, which ends the epoch of the first; nothing in
the messages tells the completes of two epochs apart.

Proved for any number of processes, any programs with these two properties and any number
of calls:

* `TcpWinImplementsLocks`: `Spec => ImplementsLocks`, step by step. `IInv`
  (`TcpWinInvariance`) says that a request for a lock is a ticket: it is in one place at most, a
  message to the window's process, an entry of the window's queue, a message back or the flag
  `lock_granted`, of a call that waits for it and about what the call asked for. So the flag
  of one call is never raised by the answer to another. The loop over the queue in
  `do_lock()` is one step here and several grants of `WinLock` at once: `Served(w, n)`
  is the window after *n* of them, and `Turns(w)` how many it makes.
* `TcpWinExclusion`: `WinLockExclusion`, carried over by the refinement.
* `TcpWinFlushed`: `Spec => []Flushed`. A process says that it is done with a message that
  follows its puts in the same stream: the flag of a fence, the complete of an epoch, the
  request to unlock; and what the property promises is only promised after that message has
  been taken. For locks (`LockPair`) a put is made by who holds the lock or has the unlock
  behind it. For fences (`FencePair`) the flags are numbered by the fences; of those from *p*
  to *q* at most two are sent and not met, since *p* cannot end a fence that *q* has
  not begun, so no two have the same index, and a put of fence *k* has the flags
  of *k* and of later fences behind it. For epochs (`Epoch`, `StartPair`, `Access`) an
  epoch is in one place: the post on its way, the knowledge of it in `post_received`, the
  complete on its way; as long as it is in one of them `MP_Win_wait()` of the target finds
  `post_sent` set. The proof found that `Flushed` has to allow for a process that
  has called `exit(-1)` on a stray answer while it waits for an unlock.

Without its condition (`NoneAstray`) `Answered` would not hold in `tcp_win`. The comment
at `tcp.c:913-915` has gets waited for in another order than they were requested. But if the
last of the list is waited for first, the tail is left behind (943-947): the next get is on
no list (2034-2035), its answer marks the first get that has no mark (2470-2472), and a get
made after it is taken for complete before its data have come. (If there is none without a mark
`recv_get_reply_data()` runs off the list.) The program is two gets, a wait for the second, a
get, a wait for the first, a get (`Astray` in `MCTcpWin`, which `tcp_win` runs).

*Observations without a run:* `MP_Win_post()` sets and
`MP_Win_complete()` clears the flag of a process after the message to it is sent (1759,
1703-1704), so the answer, or the next post, may come before, which is `missed`;
`MP_Win_complete()` tells every process that posted, in its group or
not; readers overtake queued writers (comment at 2685-2688), so a writer may wait as long
as readers come; a get is checked with an offset that is not scaled (2002).

# 8. Collectives: `Collectives`

Each process makes of a call, its place among the participants and their number a list of
turns: receives posted, messages sent, the receive waited for. The lists are operators
(`SumTurns`, `GatherTurns`, `BcastTurns`, `ShiftTurns`, `SSendTurns`, `SRecvTurns`), and
`Begin`, `Wait`, `NoWait` carry them out on messages that come in order per pair and tag,
as `TcpMsg` shows. `trial` is the code's table of which places of the next power of
two have data in a round; the last process stands in for those that no process has.
A vector is what has become of everybody's data: how often each one's is in the sum, or
whose is in each block.

Run `collectives`: six processes, so with 1 to 6 participants there are the powers of
two and those between with one and two places missing; masks that are not ranges; roots
of each kind; calls in a row with the same and with different participants;
shifts in rings of two and three.

* `Right`: what a call promises is in the vector when it returns.
* `Bypass`: the data of `MP_SSend` and `MP_SShift` never come before their receive.
* `Drained`: nothing is left over for a later call with the same tag.
* `AllReturn`: under weak fairness of each process every call returns.

# 9. What is proved and what is only checked

Proved, for all values of the constants under the assumptions below:

| run | proved of its properties |
|---|---|
| `mpi_modes` | `TypeOK`, `Integrity`, `TrialsDoNotOverlap`, `TagsAgreeAtSync`, `SendBufferStable`, `QuiescentAtFree`, `EveryRequestLive`: all but `AllFinish` |
| `mpi_pairs` | `CollectivesMatch`, `ClockCoversAllPairs`: all |
| `nptcp` | `Integrity`, `NothingLost` |
| `mp_sync` | `OneToken`, `ImplementsBarrier` |
| `shm_fifo` | `ImplementsQueue` |
| `shm_msg` | `TypeOK`, `ListInPool` |
| `tcp_msg` | `TypeOK`, `Whole`, `SendBufferGivenBack`, `NoEntryLost`, `NoSignalMissed`: all but `InOrder` and `AllReturn` |
| `tcp_win` | `ImplementsLocks`, `Flushed`; and `Exclusion` of the `WinLock` it implements |

TLC only:

* *Liveness*: `AllFinish`, `AllReturn`, `FinishOrGiveUp`, `Drained` of `shm_fifo`. Liveness
  under fairness and `ENABLED` are beyond the proof system used.
* *`ShmMsg` but for `TypeOK` and `ListInPool`*: `PoolSafe` does not hold for arbitrary programs
  (`shm_bulk`), nor do `InOrder` and `NoLeak` after that; in `shm_msg` they hold of the programs
  chosen.
* *`Counted` and `Answered` of `TcpWin`*: the first is about programs that only add
  under exclusive locks; the second needs an invariant of the three lists that
  counts the gets which are on none of them.
* *`InOrder` of `TcpMsg`*: needs, beyond `IInv`, that the queues of receives keep the order
  of the handles and that nothing posted earlier waits where a match was found. Receives from
  anyone move from one queue to another, a receive for any tag may report none, and entries are
  reused, so this is a second invariant about all handles, past and present.
* *`StaysOnTrack` of `TcpMsg`* does not hold (`tcp_track`); what the theorems say of
  a process in terms of its queues is said while it is not `derailed`.
* *`Collectives`*: what a call computes is by induction over the turns of its rounds, for
  every participant; the library's induction theorems take an operator as parameter, which the
  provers cannot instantiate. (Where a proof only needs a least number with a property,
  `LeastOfNat` in `TcpWin_proofs` gives it.)

Assumptions of the proofs: the named assumptions on the constants in each module
(types, `Burst => Async`, at least two processes, a pool of two units or more,
`MsgSize =< SockCap`, calls of positive size, handles given out before they are named, `LocksInTurn`, `PostsInTurn`), which TLC
evaluates in every run; and `Aligned` and `Paced` where stated.

# 10. Not modelled

What of the first plan is left out, and why:

* *One-sided operations on shared memory* (`shm.c:735-963`): compiled only with
  `USE_SHM`, which `tcp.c:122` undefines. Their hazards are listed; the operations
  themselves are modelled on the path that is built (`TcpWin`).
* *InfiniBand verbs* (`src/ibverbs.c`): whether posts and polls match depends on which
  work requests make completions and in which order, i.e. on rules of the hardware that
  nothing in the repository states. The same holds of `MP_Lite/ib.c` and `via.c`.
* *`src/mpi3_shm.c`, `src/mpi2.c`, `src/shmem_cxh.c`*: written against the structures of
  an older driver; they do not link with `netpipe.c`.
* *`src/shmem.c`*: declares its functions otherwise than `netpipe.h`, has no
  `Module_Reset()`, and says itself that it is untested.
* *`lock.c`* (bakery): nothing calls it.
* *The schedule of sizes, the pointer walk of `--nocache`, `disk.c`, `memcpy.c`,
  `theo.c`*: arithmetic or I/O of one process, without interaction.
* *An abstract specification of the exchange* that `NPmpi` and `NPtcp` would both
  refine: `TrialsDoNotOverlap`, `TagsAgreeAtSync` and `Integrity` state what it would say.
* `--workload` with `DoWork` and `Module_TestForCompletion`; datatypes and offsets of
  windows; probes, `MP_Testall`, several network interfaces; the Cartesian topology.
* One-sided requests of which only a part has come: they are read into static or
  stack memory (`tcp.c:2366`, 2900), so their contents would be arbitrary.

The faults that are not modelled:

* A crash of a process: an MPI job is killed as a whole; in MP_Lite a dead peer
  leaves `tcp_sync` in an endless loop (listed as a hazard).
* A shared segment left by an earlier run: `shm.c:272` reuses the key 100, and the
  remedy is to run `shm_cleanup`.
* `malloc(0)` in `Broadcast` with `--burst` (`mpi.c:268`) is taken to succeed, as
  it does with glibc.
* The fallback of an abort: `ERRCHECK` ends the whole job.

Most lines of the repository are in none of these modules: retired and duplicate
back-ends (`ib.c`, `via.c`, everything under `extras/`), translations of the MPI and
Fortran interfaces onto MP_Lite, parsing of arguments, timing and output.
