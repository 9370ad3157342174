---------------------------- MODULE Collectives ----------------------------
(***************************************************************************)
(* The collective operations of MP_Lite/mpcore.c on top of MP_Send(),      *)
(* MP_ARecv() and MP_Wait(): broadcast, global sums (maxima, minima) and   *)
(* gather along binary trees, with a mask of participants, and the         *)
(* synchronous send, receive and shift.                                    *)
(*                                                                         *)
(* Each process makes of a call, its place among the participants and      *)
(* their number a list of turns: the receives it posts, then the messages  *)
(* it sends, then the receive it waits for, as the loops of the code do.   *)
(* MP_Send() does not wait (TcpMsg); messages of a pair with the same tag  *)
(* come in order, and what has come is put in the vector when it is        *)
(* waited for.                                                             *)
(*                                                                         *)
(* A vector is what has become of the participants' data: in a sum, how    *)
(* often each one's is in it; in the others, whose data is in each block.  *)
(***************************************************************************)
EXTENDS Integers, Sequences, SequencesExt, FiniteSets, FiniteSetsExt

CONSTANTS
  NProcs,     \* nprocs
  Programs    \* what they may do: functions from Proc to sequences of calls

Proc == 0 .. NProcs - 1

CallType == [op : {"sum", "gather"}, mask : SUBSET Proc]
            \cup [op : {"bcast"}, mask : SUBSET Proc, root : Proc]
            \cup [op : {"shift"}, dest : Proc, src : Proc, blocks : Nat]
            \cup [op : {"ssend"}, dest : Proc]
            \cup [op : {"srecv"}, src : Proc]

ASSUME CollectivesAssumption ==
  /\ NProcs \in Nat \ {0}
  /\ Programs \subseteq [Proc -> Seq(CallType)]

VARIABLES
  todo,      \* todo[p]: the calls p has yet to make
  call,      \* call[p]: the one it is in, or the last
  turns,     \* turns[p]: its turns, from the one that p is in; << >> outside a call
  vec,       \* vec[p]: the vector of that call
  posted,    \* posted[p]: the receives p has not waited for
  wire       \* wire[p][q]: the messages from p that q has not received

vars == <<todo, call, turns, vec, posted, wire>>

-----------------------------------------------------------------------------
(***************************************************************************)
(* The lists.  A message is about the blocks lo .. hi of the vector; how   *)
(* says what MP_Wait() makes of the data.                                  *)
(***************************************************************************)
Msg(q, tag, blocks) == [peer |-> q, tag |-> tag, lo |-> blocks[1], hi |-> blocks[2]]
For(q, tag, how)    == [peer |-> q, tag |-> tag, how |-> how]
Turn(posts, sends, wait) == [posts |-> posts, sends |-> sends, wait |-> wait]

All   == <<0, NProcs - 1>>
Token == <<0, -1>>

BcastTag == <<"bcast", 0>>
UserTag  == <<"user", 0>>

When(cond, seq) == IF cond THEN seq ELSE << >>

\* The numbers below n; concatenation of f(x) over a sequence.
Below(n)        == [i \in 1 .. n |-> i - 1]
Each(seq, f(_)) == FoldLeft(LAMBDA acc, x : acc \o f(x), << >>, seq)

\* vproc[]: the participants, by number; the root of a broadcast comes first.
Members(mask)           == SelectSeq(Below(NProcs), LAMBDA n : n \in mask)
MembersFrom(root, mask) == <<root>> \o Members(mask \ {root})
Place(vproc, p)         == (CHOOSE i \in DOMAIN vproc : vproc[i] = p) - 1

\* np in the loop "for(np=1; np<mxprocs; np=np*2)", and mxprocs.
Rounds(nvprocs)  == SelectSeq([k \in 1 .. nvprocs |-> 2 ^ (k - 1)], LAMBDA b : b < nvprocs)
mxprocs(nvprocs) == 2 ^ Len(Rounds(nvprocs))

\* i ^ np for a power of two np.
Xor(i, np) == IF (i \div np) % 2 = 0 THEN i + np ELSE i - np

\* Slip: the places beyond the last process never get data.
trial_Real(nvprocs, np) == [i \in 0 .. mxprocs(nvprocs) - 1 |-> IF i < nvprocs THEN 1 ELSE 0]

\* trial[] in the round np: not 0 where there is data, also at places that no process
\* has; the last process stands in for those.
trial(nvprocs, np) ==
  LET places == Below(mxprocs(nvprocs))
      first  == [i \in 0 .. mxprocs(nvprocs) - 1 |-> IF i < nvprocs THEN 1 ELSE 0]
      round(t, b) == FoldLeft(LAMBDA u, i : [u EXCEPT ![i] = @ + u[Xor(i, b)]], t, places)
  IN  FoldLeft(round, first, SelectSeq(Rounds(nvprocs), LAMBDA b : b < np))

\* Slip: also for places that have no data.
StandIn_All(t, np, nvprocs) ==
  SelectSeq(Below(mxprocs(nvprocs)), LAMBDA vp : vp >= nvprocs /\ Xor(vp, np) < nvprocs - 1)

\* Slip: the place before the last one is left out.
StandIn_Short(t, np, nvprocs) ==
  SelectSeq(Below(mxprocs(nvprocs)), LAMBDA vp :
    vp >= nvprocs /\ t[vp] # 0 /\ Xor(vp, np) < nvprocs - 2)

\* The places without a process that the last process sends for.
StandIn(t, np, nvprocs) ==
  SelectSeq(Below(mxprocs(nvprocs)), LAMBDA vp :
    vp >= nvprocs /\ t[vp] # 0 /\ Xor(vp, np) < nvprocs - 1)

\* One round of MP_Global() and MP_Global_gather() at the place me of vproc: receive
\* what the partner has, send what I have, to the partner and, from the last process,
\* to the partners of the places it stands in for.
Round(vproc, me, np, tag, own, others, how) ==
  LET nvprocs == Len(vproc)
      t       == trial(nvprocs, np)
      source  == IF Xor(me, np) >= nvprocs THEN nvprocs - 1 ELSE Xor(me, np)
      got     == t[Xor(me, np)] # 0
      dest    == Xor(me, np)
      send(d) == Msg(vproc[d + 1], tag, own)
  IN  Turn(When(got, <<Msg(vproc[source + 1], tag, others)>>),
           When(dest < nvprocs, <<send(dest)>>)
           \o When(me = nvprocs - 1,
                   Each(StandIn(t, np, nvprocs), LAMBDA vp : <<send(Xor(vp, np))>>)),
           When(got, <<For(vproc[source + 1], tag, how)>>))

\* MP_Global(): whole vectors, with a tag for each round.
SumTurns(vproc, me) ==
  Each(Rounds(Len(vproc)), LAMBDA np :
    <<Round(vproc, me, np, <<"sum", np>>, All, All, "add")>>)

\* The blocks that the group of place i has in round np: offset, and snd_fct or rcv_fct.
Group(i, np, nvprocs) ==
  LET fct == IF i + (np - (i % np)) > nvprocs THEN nvprocs % np ELSE np
  IN  <<i - (i % np), i - (i % np) + fct - 1>>

\* Where a receive is written: the offset is computed after source is corrected.
Offset(source, np, blocks) ==
  <<source - (source % np), source - (source % np) + (blocks[2] - blocks[1])>>

\* MP_Global_gather()
GatherTurns(vproc, me) ==
  LET nvprocs == Len(vproc)
      partner(np) == Xor(me, np)
      source(np)  == IF partner(np) >= nvprocs THEN nvprocs - 1 ELSE partner(np)
  IN  Each(Rounds(nvprocs), LAMBDA np :
        <<Round(vproc, me, np, <<"gather", 0>>, Group(me, np, nvprocs),
                Offset(source(np), np, Group(partner(np), np, nvprocs)), "copy")>>)

\* MP_Bcast_masked(): the receive is posted and waited for at the largest b that divides
\* my place; the sends are those of the b below it, the largest first.
BcastTurns(vproc, me) ==
  LET falling == Reverse(Rounds(Len(vproc)))
      mine    == Max({b \in ToSet(falling) : me % b = 0})
      source  == vproc[me - mine + 1]
      dests   == SelectSeq(falling, LAMBDA b : (me = 0 \/ b < mine) /\ me + b < Len(vproc))
      sends   == Turn(<< >>, Each(dests, LAMBDA b : <<Msg(vproc[me + b + 1], BcastTag, All)>>),
                      << >>)
  IN  When(me # 0, <<Turn(<<Msg(source, BcastTag, All)>>, << >>,
                          <<For(source, BcastTag, "copy")>>)>>)
      \o <<sends>>

\* Slip: the token says that the receive will be posted.
ShiftTurns_TokenFirst(src, dest, blocks) ==
  Each(Below(blocks), LAMBDA k :
    << Turn(<<Msg(dest, <<"token", k>>, Token)>>, <<Msg(src, <<"token", k>>, Token)>>, << >>),
       Turn(<<Msg(src, <<"shift", k>>, All)>>, << >>, <<For(dest, <<"token", k>>, "drop")>>),
       Turn(<< >>, <<Msg(dest, <<"shift", k>>, All)>>, <<For(src, <<"shift", k>>, "copy")>>) >>)

\* MP_SShift(): block by block, with two tags for each.
ShiftTurns(src, dest, blocks) ==
  Each(Below(blocks), LAMBDA k :
    << Turn(<<Msg(src, <<"shift", k>>, All), Msg(dest, <<"token", k>>, Token)>>,
            <<Msg(src, <<"token", k>>, Token)>>, <<For(dest, <<"token", k>>, "drop")>>),
       Turn(<< >>, <<Msg(dest, <<"shift", k>>, All)>>, <<For(src, <<"shift", k>>, "copy")>>) >>)

\* MP_SSend() and MP_SRecv(): one tag for the token and the data.
SSendTurns(dest) ==
  << Turn(<<Msg(dest, UserTag, Token)>>, << >>, <<For(dest, UserTag, "drop")>>),
     Turn(<< >>, <<Msg(dest, UserTag, All)>>, << >>) >>
SRecvTurns(src)  ==
  << Turn(<<Msg(src, UserTag, All)>>, <<Msg(src, UserTag, Token)>>,
          <<For(src, UserTag, "copy")>>) >>

\* "if( nprocs == 1 || mask[myproc] != 1 ) return", "if( nvprocs <= 1 ) return".
TurnsIn(c, p) ==
  LET alone == p \notin c.mask \/ Cardinality(c.mask) = 1
      vproc == IF c.op = "bcast" THEN MembersFrom(c.root, c.mask) ELSE Members(c.mask)
  IN  CASE c.op = "sum"    -> When(~alone, SumTurns(vproc, Place(vproc, p)))
        [] c.op = "gather" -> When(~alone, GatherTurns(vproc, Place(vproc, p)))
        [] c.op = "bcast"  -> When(~alone, BcastTurns(vproc, Place(vproc, p)))
        [] c.op = "shift"  -> ShiftTurns(c.src, c.dest, c.blocks)
        [] c.op = "ssend"  -> SSendTurns(c.dest)
        [] c.op = "srecv"  -> SRecvTurns(c.src)

Calls   == UNION {ToSet(prog[p]) : prog \in Programs, p \in Proc}
TurnsOf == [c \in Calls, p \in Proc |-> TurnsIn(c, p)]

\* The vector that p calls with: blocks are named for whose they are, plus one.
Own(c, p) ==
  [i \in Proc |->
     CASE c.op = "sum"    -> IF i = p THEN 1 ELSE 0
       [] c.op = "gather" -> IF p \in c.mask /\ i = Place(Members(c.mask), p)
                             THEN p + 1 ELSE 0
       [] c.op = "bcast"  -> IF p = c.root THEN p + 1 ELSE 0
       [] c.op = "srecv"  -> 0
       [] OTHER           -> p + 1]

-----------------------------------------------------------------------------
NoCall == [op |-> "none"]

Init ==
  /\ todo   \in Programs
  /\ call   = [p \in Proc |-> NoCall]
  /\ turns  = [p \in Proc |-> << >>]
  /\ vec    = [p \in Proc |-> [i \in Proc |-> 0]]
  /\ posted = [p \in Proc |-> << >>]
  /\ wire   = [p \in Proc |-> [q \in Proc |-> << >>]]

\* The data of a message: a shift sends buf_out, which stays as it was, the others vec.
Data(c, p, v, m) ==
  LET from == IF c.op = "shift" THEN Own(c, p) ELSE v
  IN  [i \in 1 .. (m.hi - m.lo + 1) |-> from[m.lo + i - 1]]

\* p takes the first turn of next, if there is one: it posts and it sends.  The call is
\* c, its vector v; the receives r were posted and the messages w sent before.
Take(p, next, c, v, r, w) ==
  LET turn    == IF next = << >> THEN Turn(<< >>, << >>, << >>) ELSE Head(next)
      to(q)   == SelectSeq(turn.sends, LAMBDA m : m.peer = q)
      msgs(q) == [i \in DOMAIN to(q) |->
                    [tag |-> to(q)[i].tag, data |-> Data(c, p, v, to(q)[i])]]
  IN  /\ turns'  = [turns EXCEPT ![p] = next]
      /\ vec'    = [vec EXCEPT ![p] = v]
      /\ posted' = [posted EXCEPT ![p] = r \o turn.posts]
      /\ wire'   = [w EXCEPT ![p] = [q \in Proc |-> @[q] \o msgs(q)]]

Begin(p) ==
  /\ turns[p] = << >> /\ todo[p] # << >>
  /\ LET c == Head(todo[p])
     IN  /\ todo' = [todo EXCEPT ![p] = Tail(@)]
         /\ call' = [call EXCEPT ![p] = c]
         /\ Take(p, TurnsOf[c, p], c, Own(c, p), posted[p], wire)

\* What MP_Wait() makes of the vector v when data has come for the receive r.
After(v, r, data, how) ==
  [i \in Proc |->
     LET at == i - r.lo + 1
     IN  CASE how = "add"  -> v[i] + data[at]
           [] how = "copy" -> IF at \in DOMAIN data THEN data[at] ELSE v[i]
           [] OTHER        -> v[i]]

\* MP_Wait(): the receive takes the first message with its tag, and with no more data
\* than it asks for.
Wait(p) ==
  /\ turns[p] # << >> /\ Head(turns[p]).wait # << >>
  /\ LET f == Head(turns[p]).wait[1]
         n == CHOOSE i \in DOMAIN posted[p] :
                posted[p][i].peer = f.peer /\ posted[p][i].tag = f.tag
         r == posted[p][n]
         came == {i \in DOMAIN wire[f.peer][p] :
                    LET m == wire[f.peer][p][i]
                    IN  m.tag = f.tag /\ Len(m.data) =< r.hi - r.lo + 1}
     IN  /\ came # {}
         /\ Take(p, Tail(turns[p]), call[p],
                 After(vec[p], r, wire[f.peer][p][Min(came)].data, f.how),
                 RemoveAt(posted[p], n),
                 [wire EXCEPT ![f.peer][p] = RemoveAt(@, Min(came))])
  /\ UNCHANGED <<todo, call>>

\* A turn in which nothing is waited for.
NoWait(p) ==
  /\ turns[p] # << >> /\ Head(turns[p]).wait = << >>
  /\ Take(p, Tail(turns[p]), call[p], vec[p], posted[p], wire)
  /\ UNCHANGED <<todo, call>>

Next == \E p \in Proc : Begin(p) \/ Wait(p) \/ NoWait(p)

Spec == Init /\ [][Next]_vars

\* The processes run.
FairSpec == Spec /\ \A p \in Proc : WF_vars(Begin(p) \/ Wait(p) \/ NoWait(p))

-----------------------------------------------------------------------------
\* When a call has returned, its vector is what it promises: the sum has each
\* participant's data once, for any number of participants; block i of a gather is
\* that of participant i; the others have the data of the root or the sender.
Right ==
  \A p \in Proc : turns[p] = << >> =>
    LET c == call[p]
    IN  CASE c.op = "sum" /\ p \in c.mask ->
               vec[p] = [i \in Proc |-> IF i \in c.mask THEN 1 ELSE 0]
          [] c.op = "gather" /\ p \in c.mask ->
               \A i \in DOMAIN Members(c.mask) : vec[p][i - 1] = Members(c.mask)[i] + 1
          [] c.op = "bcast" /\ p \in c.mask -> \A i \in Proc : vec[p][i] = c.root + 1
          [] c.op \in {"shift", "srecv"} -> \A i \in Proc : vec[p][i] = c.src + 1
          [] OTHER -> TRUE

\* "Guarantee prepost ... and bypass buffers": the data of a synchronous send or shift
\* never comes before the receive for it is posted.
Bypass ==
  \A p, q \in Proc : \A i \in DOMAIN wire[p][q] :
    LET m == wire[p][q][i]
    IN  m.data # << >> /\ m.tag[1] \in {"shift", "user"} =>
          \E r \in ToSet(posted[q]) : r.peer = p /\ r.tag = m.tag /\ r.hi > r.lo

\* What one call sends, it also receives: when all is done no message is left for a
\* later call of the same tag to take.
AllDone == \A p \in Proc : todo[p] = << >> /\ turns[p] = << >>
Drained == AllDone => \A p, q \in Proc : wire[p][q] = << >> /\ posted[p] = << >>

\* Every call returns, on every process.
AllReturn == <>AllDone
=============================================================================
