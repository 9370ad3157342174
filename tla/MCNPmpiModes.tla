--------------------------- MODULE MCNPmpiModes ---------------------------
(***************************************************************************)
(* NPmpi for TLC.  SpecOfModes is about three jobs of two processes, one   *)
(* of which is chosen at the start: the default, --stream and --bidir with *)
(* --burst.  The invariants of NPmpi do not depend on the mode, except for *)
(* RequestsLive; the cfg gives the constants values that cover all three.  *)
(***************************************************************************)
EXTENDS NPmpi

VARIABLE job

\* Uni-directional ping-pong.
PingPong == INSTANCE NPmpi WITH NPairs <- 1, Mode <- "pingpong", Burst <- FALSE,
              Async <- TRUE, NTrials <- 2, Repeats <- {1, 3}, NPerts <- 2, MaxTests <- 2,
              TagMod <- 4, SyncSend <- FALSE

\* --stream with standard sends that may return at once.
Stream   == INSTANCE NPmpi WITH NPairs <- 1, Mode <- "stream", Burst <- FALSE,
              Async <- TRUE, NTrials <- 2, Repeats <- {2, 4}, NPerts <- 1, MaxTests <- 2,
              TagMod <- 4, SyncSend <- FALSE

\* --bidir --burst: all receives of a trial preposted on two halves.
Bursts   == INSTANCE NPmpi WITH NPairs <- 1, Mode <- "bidir", Burst <- TRUE,
              Async <- TRUE, NTrials <- 2, Repeats <- {2, 3}, NPerts <- 1, MaxTests <- 2,
              TagMod <- 5, SyncSend <- FALSE

Jobs == {"pingpong", "stream", "burst"}

InitOfModes ==
  /\ job \in Jobs
  /\ \/ job = "pingpong" /\ PingPong!Init
     \/ job = "stream" /\ Stream!Init
     \/ job = "burst" /\ Bursts!Init

NextOfModes ==
  /\ UNCHANGED job
  /\ \/ job = "pingpong" /\ PingPong!Next
     \/ job = "stream" /\ Stream!Next
     \/ job = "burst" /\ Bursts!Next

\* What is certain to happen to p, and MPI, in each of the jobs.
CertainOfModes(p) == UNCHANGED job /\ \/ job = "pingpong" /\ PingPong!Certain(p)
                                      \/ job = "stream" /\ Stream!Certain(p)
                                      \/ job = "burst" /\ Bursts!Certain(p)
DeliverOfModes(p) == UNCHANGED job /\ \/ job = "pingpong" /\ PingPong!Deliver(p)
                                      \/ job = "stream" /\ Stream!Deliver(p)
                                      \/ job = "burst" /\ Bursts!Deliver(p)

SpecOfModes ==
  /\ InitOfModes /\ [][NextOfModes]_<<vars, job>>
  /\ \A p \in 0 .. 1 : /\ WF_<<vars, job>>(CertainOfModes(p))
                       /\ WF_<<vars, job>>(DeliverOfModes(p))

\* RequestsLive in each of the jobs: MPI_Wait is only ever called on the request of a
\* receive that was posted, and no MPI_Irecv overwrites one in use (mpi.c:188-219).
EveryRequestLive == CASE job = "pingpong" -> PingPong!RequestsLive
                      [] job = "stream"   -> Stream!RequestsLive
                      [] job = "burst"    -> Bursts!RequestsLive
============================================================================
