------------------------------- MODULE TcpWin -------------------------------
(***************************************************************************)
(* One-sided communication of MP_Lite/tcp.c: MP_APut(), MP_AGet() and      *)
(* MP_AAccumulate() into windows of other processes, and the three ways to *)
(* synchronise them: fences, start/complete with post/wait, and locks.     *)
(*                                                                         *)
(* The request, its answer and the signals of the synchronisation all go   *)
(* over one-sided channels, one stream for each pair of processes; the     *)
(* SIGIO handler of the target carries out what comes.  A step is a call,  *)
(* or the part of one up to a place where the handler may run; or one      *)
(* message that the handler takes.  TcpMsg shows how the streams carry     *)
(* messages; here they are sequences.  One window on each process, which   *)
(* holds one number; put stands also for accumulate.                       *)
(*                                                                         *)
(* Not modelled: a message of which only a part has come (the requests are *)
(* read into static or stack memory), GET_BUF_Q_SIZE and LOCK_Q_SIZE, and  *)
(* the count that post/wait share with locks (tcp.c:1803: the two are not  *)
(* used together).                                                         *)
(***************************************************************************)
EXTENDS Integers, Sequences, SequencesExt, FiniteSets

CONSTANTS
  NProcs,      \* nprocs
  Programs     \* what they may do: functions from Proc to sequences of calls

Proc == 0 .. NProcs - 1

\* i numbers the asynchronous calls before; "add" puts the number that the get i
\* brought, plus one.
CallType == [op : {"aput", "aget", "unlock"}, rank : Proc]
            \cup [op : {"add"}, rank : Proc, i : Nat \ {0}]
            \cup [op : {"lock"}, rank : Proc, type : {1, 2}]
            \cup [op : {"wait"}, i : Nat \ {0}]
            \cup [op : {"fence", "complete", "win_wait"}]
            \cup [op : {"start", "post"}, group : SUBSET Proc]

\* The i-th of some calls is about the lock of r; of the calls on one lock, each
\* "unlock" comes next after a "lock" and no "lock" does, held being the locks had
\* before.  MP_Win_lock() and MP_Win_unlock() do not check it: "it is assumed the
\* user will comply with the rules" (tcp.c:1805).
OnLock(calls, i, r) == calls[i].op \in {"lock", "unlock"} /\ calls[i].rank = r
LocksInTurn(calls, held) ==
  \A r \in Proc : \A j \in DOMAIN calls :
    OnLock(calls, j, r) =>
      ( calls[j].op = "unlock" <=>
        \/ r \in held /\ \A i \in 1 .. j - 1 : ~OnLock(calls, i, r)
        \/ \E i \in 1 .. j - 1 : /\ OnLock(calls, i, r) /\ calls[i].op = "lock"
                                /\ \A k \in i + 1 .. j - 1 : ~OnLock(calls, k, r) )

ASSUME TcpWinAssumption ==
  /\ NProcs \in Nat \ {0}
  /\ Programs \subseteq [Proc -> Seq(CallType)]
  /\ \A prog \in Programs : \A p \in Proc : LocksInTurn(prog[p], {})

\* A post is waited for before the next one: MP_Win_wait() is what ends its epoch, and
\* nothing in the messages tells the complete of one epoch from that of another.
PostsInTurn(calls) ==
  \A i, j \in DOMAIN calls :
    i < j /\ calls[i].op = "post" /\ calls[j].op = "post" =>
      \E k \in i + 1 .. j - 1 : calls[k].op = "win_wait"

ASSUME PostsAssumption ==
  \A prog \in Programs : \A p \in Proc : PostsInTurn(prog[p])

VARIABLES
  todo,          \* todo[p]: calls p has yet to complete
  pc,            \* pc[p]: where p is in the first of them, and the loop's i
  req,           \* req[p]: the asynchronous calls p has made, in order
  msgids,        \* msgids[p]: the window's queue of message ids
  gets,          \* gets[p][q]: the list get_complete[q]
  get_buf,       \* get_buf[p][q]: get_buf_addr_q[q], as numbers of calls
  wire,          \* wire[p][q]: messages from p to q
  win,           \* win[p]: locked, count and lock_q of the window on p
  lock_granted,  \* lock_granted[p], or unlock_granted
  procs,         \* procs[p][q][i]: the flag i that a fence of q has set on p
  fence_index,
  post_sent, post_received,    \* the sets of processes whose flag is 1
  mem,           \* mem[p]: the number in the window on p
  exited,        \* exited[p]: p has called exit(-1)
  missed,        \* history: a post or complete came that changed no flag
  holds,         \* history: the locks p has, as <<rank, type>>
  fences,        \* history: the fences p has returned from
  access,        \* history: the processes that p has started an epoch on
  exposed,       \* history: the processes p has posted to and not waited for
  added          \* history: added[r]: the calls "add" on the window on r

progVars == <<todo, pc, req, exited>>
listVars == <<msgids, gets, get_buf>>
lockVars == <<win, lock_granted, holds>>
fenceVars == <<procs, fence_index, fences>>
pscwVars == <<post_sent, post_received, access, exposed, missed>>
memVars  == <<mem, added>>
vars == <<progVars, listVars, wire, lockVars, fenceVars, pscwVars, memVars>>

Run == [at |-> "run", i |-> 0]
Nothing == [items |-> << >>, astray |-> FALSE]

Init ==
  /\ todo \in Programs
  /\ pc            = [p \in Proc |-> Run]
  /\ req           = [p \in Proc |-> << >>]
  /\ msgids        = [p \in Proc |-> Nothing]
  /\ gets          = [p \in Proc |-> [q \in Proc |-> Nothing]]
  /\ get_buf       = [p \in Proc |-> [q \in Proc |-> << >>]]
  /\ wire          = [p \in Proc |-> [q \in Proc |-> << >>]]
  /\ win           = [p \in Proc |-> [locked |-> 0, count |-> 0, lock_q |-> << >>]]
  /\ lock_granted  = [p \in Proc |-> FALSE]
  /\ procs         = [p \in Proc |-> [q \in Proc |-> [i \in 0 .. 1 |-> FALSE]]]
  /\ fence_index   = [p \in Proc |-> 0]
  /\ post_sent     = [p \in Proc |-> {}]
  /\ post_received = [p \in Proc |-> {}]
  /\ mem           = [p \in Proc |-> 0]
  /\ exited        = [p \in Proc |-> FALSE]
  /\ missed        = FALSE
  /\ holds         = [p \in Proc |-> {}]
  /\ fences        = [p \in Proc |-> 0]
  /\ access        = [p \in Proc |-> {}]
  /\ exposed       = [p \in Proc |-> {}]
  /\ added         = [p \in Proc |-> 0]

-----------------------------------------------------------------------------
(***************************************************************************)
(* The linked lists.  Removing the last node of a list leaves the tail     *)
(* pointer at freed memory, and what is then added is not on the list, or  *)
(* after the next such addition either, until the list has been empty.     *)
(***************************************************************************)
Add(list, x) ==
  IF list.items = << >> THEN [items |-> <<x>>, astray |-> FALSE]
  ELSE IF list.astray THEN list
  ELSE [list EXCEPT !.items = Append(@, x)]

\* Remove the i-th node.
Take(list, i) ==
  [items |-> RemoveAt(list.items, i), astray |-> list.astray \/ i = Len(list.items)]

PlaceOf(list, Test(_)) == {i \in DOMAIN list.items : Test(list.items[i])}

\* Calls to other processes that add an id and wait at once: rem_msgid() exits
\* when add_msgid() lost the id.
Loses(list) == list.items # << >> /\ list.astray
AddTake(list) == IF list.items = << >> THEN list ELSE [list EXCEPT !.astray = TRUE]

-----------------------------------------------------------------------------
Calls(p, ops) == /\ ~exited[p] /\ todo[p] # << >>
                 /\ Head(todo[p]).op \in ops
At(p, at) == pc[p].at = at
Call(p) == Head(todo[p])

Return(p) == todo' = [todo EXCEPT ![p] = Tail(@)] /\ pc' = [pc EXCEPT ![p] = Run]
Goto(p, at, i) == pc' = [pc EXCEPT ![p] = [at |-> at, i |-> i]] /\ UNCHANGED todo

Send(p, q, msg) == wire' = [wire EXCEPT ![p][q] = Append(@, msg)]

\* The lock of r that p has.
Holding(p, r) == \E t \in {1, 2} : <<r, t>> \in holds[p]

\* What a put is: era and sync say, for the properties, what must flush it.
PutMsg(p, q, val) ==
  [kind |-> "put", val |-> val, era |-> fences[p],
   sync |-> CASE Holding(p, q) -> "lock"
              [] ~Holding(p, q) /\ q \in access[p] -> "start"
              [] OTHER -> "fence"]

\* A number no window holds: the put's data is of no interest.
Blank == -1

\* Entries of req: num and val are what the buffer holds, num the call it is for.
Request(p, get, rank, num, val) ==
  req' = [req EXCEPT ![p] = Append(@, [get |-> get, rank |-> rank,
                                       num |-> num, val |-> val])]
NewId(p) == Len(req[p]) + 1

\* MP_APut(), MP_AAccumulate(): signals are blocked until it returns.
APut(p) ==
  /\ Calls(p, {"aput", "add"})
  /\ LET q   == Call(p).rank
         val == IF Call(p).op = "add" THEN req[p][Call(p).i].val + 1 ELSE Blank
     IN  /\ IF q = p
            THEN /\ mem' = IF val = Blank THEN mem ELSE [mem EXCEPT ![p] = val]
                 /\ UNCHANGED wire
            ELSE Send(p, q, PutMsg(p, q, val)) /\ UNCHANGED mem
         /\ added' = IF val = Blank THEN added ELSE [added EXCEPT ![q] = @ + 1]
         /\ Request(p, FALSE, q, 0, 0)
  /\ msgids' = [msgids EXCEPT ![p] = Add(@, NewId(p))]
  /\ Return(p)
  /\ UNCHANGED <<exited, gets, get_buf, lockVars, fenceVars, pscwVars>>

\* MP_AGet()
AGet(p) ==
  /\ Calls(p, {"aget"})
  /\ LET q == Call(p).rank
     IN  IF q = p
         THEN /\ Request(p, TRUE, p, NewId(p), mem[p])
              /\ UNCHANGED <<gets, get_buf, wire>>
         ELSE /\ Request(p, TRUE, q, 0, 0)
              /\ gets' = [gets EXCEPT ![p][q] = Add(@, [mid |-> NewId(p), val |-> 0])]
              /\ get_buf' = [get_buf EXCEPT ![p][q] = Append(@, NewId(p))]
              /\ Send(p, q, [kind |-> "get", num |-> NewId(p)])
  /\ msgids' = [msgids EXCEPT ![p] = Add(@, NewId(p))]
  /\ Return(p)
  /\ UNCHANGED <<exited, lockVars, fenceVars, pscwVars, memVars>>

\* MP_Wait() for the call id of p, if it waits no longer.  The rest of a put or of
\* a request is pushed to a send buffer; a get waits for the reply.
Wait(p, id) ==
  LET remote == req[p][id].get /\ req[p][id].rank # p
      q      == req[p][id].rank
      ofId(x) == x.mid = id
      isId(x) == x = id
      place  == PlaceOf(gets[p][q], ofId)
      node   == PlaceOf(msgids[p], isId)
  IN  /\ exited' = [exited EXCEPT ![p] = node = {} \/ (remote /\ place = {})]
      /\ gets' = IF ~remote \/ place = {} THEN gets
                 ELSE [gets EXCEPT ![p][q] = Take(@, Min(place))]
      /\ remote => \A i \in place : gets[p][q].items[i].val = 1
      /\ msgids' = IF exited'[p] THEN msgids
                   ELSE [msgids EXCEPT ![p] = Take(@, Min(node))]
      /\ UNCHANGED <<get_buf, wire, lockVars, fenceVars, pscwVars, memVars, req>>

WaitOne(p) ==
  /\ Calls(p, {"wait"})
  /\ Wait(p, Call(p).i)
  /\ Return(p)

\* "while(mid != -1)": MP_Win_fence(), MP_Win_complete() and MP_Win_unlock() wait
\* for the ids of the queue first.
WaitHead(p) ==
  /\ Calls(p, {"fence", "complete", "unlock"}) /\ At(p, "run")
  /\ msgids[p].items # << >>
  /\ Wait(p, Head(msgids[p].items))
  /\ UNCHANGED <<todo, pc>>

-----------------------------------------------------------------------------
(***************************************************************************)
(* Locks.                                                                  *)
(***************************************************************************)

\* try_lock(): type 0 unlocks, 1 is shared, 2 exclusive.
try_lock(w, type) ==
  CASE type = 0 -> [granted |-> TRUE,
                    w |-> [w EXCEPT !.count = @ - 1,
                                    !.locked = IF w.count = 1 THEN 0 ELSE @]]
    [] (type = 1 /\ w.locked \in {0, 1}) \/ (type = 2 /\ w.locked = 0) ->
                   [granted |-> TRUE,
                    w |-> [w EXCEPT !.count = @ + 1, !.locked = type]]
    [] OTHER    -> [granted |-> FALSE, w |-> w]

\* The window w when the loop over the queue in do_lock() has granted n entries.
Served(w, n) ==
  [w EXCEPT !.count = @ + n, !.locked = IF n = 0 THEN @ ELSE w.lock_q[n].type,
            !.lock_q = SubSeq(@, n + 1, Len(@))]

\* How many it grants: it goes on until try_lock() refuses one, or none is left.
Turns(w) ==
  CHOOSE n \in 0 .. Len(w.lock_q) :
    /\ \A i \in 1 .. n : try_lock(Served(w, i - 1), w.lock_q[i].type).granted
    /\ n < Len(w.lock_q) => ~try_lock(Served(w, n), w.lock_q[n + 1].type).granted

\* The loop: the window after it, and the processes whose flag signal_safe_put() sets.
ServeQueue(w, src) ==
  [w |-> Served(w, Turns(w)), told |-> {src} \cup {w.lock_q[i].src : i \in 1 .. Turns(w)}]

\* Slip: the queue is served whenever somebody unlocks.
do_lock_Early(w, src, type) ==
  LET r == try_lock(w, type)
  IN  CASE type # 0 /\ r.granted  -> [w |-> r.w, told |-> {src}]
        [] type # 0 /\ ~r.granted -> [w |-> [w EXCEPT !.lock_q =
                                              Append(@, [src |-> src, type |-> type])],
                                      told |-> {}]
        [] OTHER                  -> ServeQueue([r.w EXCEPT !.locked = 0], src)

\* do_lock(): the window afterwards, and the processes that are told.
do_lock(w, src, type) ==
  LET r == try_lock(w, type)
  IN  CASE type # 0 /\ r.granted  -> [w |-> r.w, told |-> {src}]
        [] type # 0 /\ ~r.granted -> [w |-> [w EXCEPT !.lock_q =
                                              Append(@, [src |-> src, type |-> type])],
                                      told |-> {}]
        [] type = 0 /\ r.w.locked = 0 -> ServeQueue(r.w, src)
        [] OTHER                      -> [w |-> r.w, told |-> {src}]

\* signal_safe_put() of LOCK_CONFIRM by p to each of told.
Tell(p, told, from) ==
  /\ wire' = [a \in Proc |-> [b \in Proc |->
       LET rest == IF b = p /\ a = from /\ from # p THEN Tail(wire[a][b]) ELSE wire[a][b]
       IN  IF a = p /\ b \in told \ {p} THEN Append(rest, [kind |-> "grant"]) ELSE rest]]
  /\ lock_granted' = IF p \in told THEN [lock_granted EXCEPT ![p] = TRUE] ELSE lock_granted

LockType(p) == IF Call(p).op = "lock" THEN Call(p).type ELSE 0

\* MP_Win_lock() and MP_Win_unlock(), the latter when nothing is left to wait for.
LockCall(p) ==
  /\ Calls(p, {"lock", "unlock"}) /\ At(p, "run")
  /\ Call(p).op = "unlock" => msgids[p].items = << >>
  /\ holds' = [holds EXCEPT ![p] = @ \ {<<Call(p).rank, 1>>, <<Call(p).rank, 2>>}]
  /\ Goto(p, "granted", 0)

LockOwn(p) ==
  /\ LockCall(p) /\ Call(p).rank = p
  /\ LET d == do_lock(win[p], p, LockType(p))
     IN  win' = [win EXCEPT ![p] = d.w] /\ Tell(p, d.told, p)
  /\ UNCHANGED <<req, exited, listVars, fenceVars, pscwVars, memVars>>

LockOther(p) ==
  /\ LockCall(p) /\ Call(p).rank # p
  /\ Send(p, Call(p).rank, [kind |-> "lock", type |-> LockType(p)])
  /\ exited' = [exited EXCEPT ![p] = Loses(msgids[p])]
  /\ msgids' = [msgids EXCEPT ![p] = AddTake(@)]
  /\ UNCHANGED <<req, gets, get_buf, win, lock_granted, fenceVars, pscwVars, memVars>>

\* Slip: the call does not wait for the flag.
LockReturn_AtOnce(p) ==
  /\ Calls(p, {"lock", "unlock"}) /\ At(p, "granted")
  /\ lock_granted' = [lock_granted EXCEPT ![p] = FALSE]
  /\ holds' = IF LockType(p) = 0 THEN holds
              ELSE [holds EXCEPT ![p] = @ \cup {<<Call(p).rank, LockType(p)>>}]
  /\ Return(p)
  /\ UNCHANGED <<req, exited, listVars, wire, win, fenceVars, pscwVars, memVars>>

\* "while( !lock_granted )": the flag is a variable of the call.
LockReturn(p) ==
  /\ Calls(p, {"lock", "unlock"}) /\ At(p, "granted") /\ lock_granted[p]
  /\ lock_granted' = [lock_granted EXCEPT ![p] = FALSE]
  /\ holds' = IF LockType(p) = 0 THEN holds
              ELSE [holds EXCEPT ![p] = @ \cup {<<Call(p).rank, LockType(p)>>}]
  /\ Return(p)
  /\ UNCHANGED <<req, exited, listVars, wire, win, fenceVars, pscwVars, memVars>>

-----------------------------------------------------------------------------
(***************************************************************************)
(* Fences.                                                                 *)
(***************************************************************************)

\* The next process from i on, without p.
NextProc(p, i) == {k \in Proc : k >= i /\ k # p}

\* Slip: the flags of one index only.
Flip_Not(index) == index

Flip(index) == 1 - index

\* MP_Win_fence(): p puts its number into a flag of every other process ...
FenceSend(p) ==
  /\ Calls(p, {"fence"}) /\ pc[p].at \in {"run", "send"}
  /\ msgids[p].items = << >>
  /\ LET rest == NextProc(p, pc[p].i)
     IN  IF rest = {} THEN Goto(p, "flags", 0) /\ UNCHANGED wire
         ELSE /\ Send(p, Min(rest), [kind |-> "flag", index |-> fence_index[p]])
              /\ Goto(p, "send", Min(rest) + 1)
  /\ UNCHANGED <<req, exited, listVars, lockVars, fenceVars, pscwVars, memVars>>

\* ... and waits for theirs, one after the other.
FenceFlag(p) ==
  /\ Calls(p, {"fence"}) /\ At(p, "flags")
  /\ LET rest == NextProc(p, pc[p].i)
         q    == Min(rest)
     IN  IF rest = {}
         THEN /\ fence_index' = [fence_index EXCEPT ![p] = Flip(@)]
              /\ fences' = [fences EXCEPT ![p] = @ + 1]
              /\ Return(p)
              /\ UNCHANGED procs
         ELSE /\ procs[p][q][fence_index[p]]
              /\ procs' = [procs EXCEPT ![p][q][fence_index[p]] = FALSE]
              /\ Goto(p, "flags", q + 1)
              /\ UNCHANGED <<fence_index, fences>>
  /\ UNCHANGED <<req, exited, listVars, wire, lockVars, pscwVars, memVars>>

-----------------------------------------------------------------------------
(***************************************************************************)
(* Post, start, complete and wait.                                         *)
(***************************************************************************)

\* MP_Win_post(): to each of the group a message, or a flag of p itself ...
PostSend(p) ==
  /\ Calls(p, {"post"}) /\ At(p, "run")
  /\ LET rest == {k \in Call(p).group : k >= pc[p].i}
         k    == Min(rest)
         others == Call(p).group \ {p}
     IN  IF rest = {}
         THEN /\ exited' = [exited EXCEPT ![p] =
                   \/ others # {} /\ Loses(msgids[p])
                   \/ Cardinality(others) > 1 /\ msgids[p].items # << >>]
              /\ msgids' = [msgids EXCEPT ![p] = IF others = {} THEN @ ELSE AddTake(@)]
              /\ Return(p)
              /\ UNCHANGED <<wire, post_received, exposed>>
         ELSE /\ IF k = p
                 THEN post_received' = [post_received EXCEPT ![p] = @ \cup {p}]
                      /\ UNCHANGED wire
                 ELSE Send(p, k, [kind |-> "post"]) /\ UNCHANGED post_received
              /\ exposed' = [exposed EXCEPT ![p] = @ \cup {k}]
              /\ Goto(p, "mark", k)
              /\ UNCHANGED <<exited, msgids>>
  /\ UNCHANGED <<req, gets, get_buf, lockVars, fenceVars, post_sent, access, missed, memVars>>

\* ... and only then post_sent.
PostMark(p) ==
  /\ Calls(p, {"post"}) /\ At(p, "mark")
  /\ post_sent' = [post_sent EXCEPT ![p] = @ \cup {pc[p].i}]
  /\ Goto(p, "run", pc[p].i + 1)
  /\ UNCHANGED <<req, exited, listVars, wire, lockVars, fenceVars, post_received, access,
                 exposed, missed, memVars>>

\* MP_Win_start() waits until each of the group has posted.
Start(p) ==
  /\ Calls(p, {"start"})
  /\ Call(p).group \subseteq post_received[p]
  /\ access' = [access EXCEPT ![p] = Call(p).group]
  /\ Return(p)
  /\ UNCHANGED <<req, exited, listVars, wire, lockVars, fenceVars, post_sent, post_received,
                 exposed, missed, memVars>>

\* Slip: the message overtakes what is on its way.
SendComplete_First(p, k) == wire' = [wire EXCEPT ![p][k] = <<[kind |-> "complete"]>> \o @]

SendComplete(p, k) == Send(p, k, [kind |-> "complete"])

\* MP_Win_complete(): to every process that has posted ...
CompleteSend(p) ==
  /\ Calls(p, {"complete"}) /\ At(p, "run")
  /\ msgids[p].items = << >>
  /\ LET rest == {k \in post_received[p] : k >= pc[p].i}
         k    == Min(rest)
     IN  IF rest = {}
         THEN /\ access' = [access EXCEPT ![p] = {}]
              /\ Return(p)
              /\ UNCHANGED <<wire, post_sent>>
         ELSE /\ IF k = p
                 THEN post_sent' = [post_sent EXCEPT ![p] = @ \ {p}] /\ UNCHANGED wire
                 ELSE SendComplete(p, k) /\ UNCHANGED post_sent
              /\ Goto(p, "reset", k)
              /\ UNCHANGED access
  /\ UNCHANGED <<req, exited, listVars, lockVars, fenceVars, post_received, exposed, missed,
                 memVars>>

\* ... and only then "Reset post_received for proc i".
CompleteReset(p) ==
  /\ Calls(p, {"complete"}) /\ At(p, "reset")
  /\ post_received' = [post_received EXCEPT ![p] = @ \ {pc[p].i}]
  /\ Goto(p, "run", pc[p].i + 1)
  /\ UNCHANGED <<req, exited, listVars, wire, lockVars, fenceVars, post_sent, access, exposed,
                 missed, memVars>>

\* MP_Win_wait(); MP_Win_test() until it is true.
WinWait(p) ==
  /\ Calls(p, {"win_wait"})
  /\ post_sent[p] = {}
  /\ exposed' = [exposed EXCEPT ![p] = {}]
  /\ Return(p)
  /\ UNCHANGED <<req, exited, listVars, wire, lockVars, fenceVars, post_sent, post_received,
                 access, missed, memVars>>

-----------------------------------------------------------------------------
(***************************************************************************)
(* What the handler of p does with a message of q: service_os_socket().    *)
(***************************************************************************)
Comes(q, p, kind) ==
  /\ ~exited[p] /\ wire[q][p] # << >>
  /\ Head(wire[q][p]).kind = kind
Msg(q, p) == Head(wire[q][p])
Consume(q, p) == wire' = [wire EXCEPT ![q][p] = Tail(@)]

RecvPut(q, p) ==
  /\ Comes(q, p, "put")
  /\ mem' = IF Msg(q, p).val = Blank THEN mem ELSE [mem EXCEPT ![p] = Msg(q, p).val]
  /\ Consume(q, p)
  /\ UNCHANGED <<progVars, listVars, lockVars, fenceVars, pscwVars, added>>

\* The put of a fence.
RecvFlag(q, p) ==
  /\ Comes(q, p, "flag")
  /\ procs' = [procs EXCEPT ![p][q][Msg(q, p).index] = TRUE]
  /\ Consume(q, p)
  /\ UNCHANGED <<progVars, listVars, lockVars, fence_index, fences, pscwVars, memVars>>

\* The put of LOCK_CONFIRM.
RecvGrant(q, p) ==
  /\ Comes(q, p, "grant")
  /\ lock_granted' = [lock_granted EXCEPT ![p] = TRUE]
  /\ Consume(q, p)
  /\ UNCHANGED <<progVars, listVars, win, holds, fenceVars, pscwVars, memVars>>

RecvGet(q, p) ==
  /\ Comes(q, p, "get")
  /\ wire' = [wire EXCEPT
       ![q][p] = Tail(@),
       ![p][q] = Append(@, [kind |-> "reply", num |-> Msg(q, p).num, val |-> mem[p]])]
  /\ UNCHANGED <<progVars, listVars, lockVars, fenceVars, pscwVars, memVars>>

\* Slip: the buffer is the last one asked for.
NextBuf_Last(queue) == Last(queue)

NextBuf(queue) == Head(queue)

\* The data goes to the buffer at the head of its queue, and the first get that is
\* not marked is marked.
RecvReply(q, p) ==
  LET open(x) == x.val = 0
      places  == PlaceOf(gets[p][q], open)
  IN  /\ Comes(q, p, "reply")
      /\ req' = [req EXCEPT ![p][NextBuf(get_buf[p][q])].num = Msg(q, p).num,
                            ![p][NextBuf(get_buf[p][q])].val = Msg(q, p).val]
      /\ get_buf' = [get_buf EXCEPT ![p][q] = Tail(@)]
      /\ exited' = [exited EXCEPT ![p] = places = {}]
      /\ gets' = IF places = {} THEN gets
                 ELSE [gets EXCEPT ![p][q].items[Min(places)].val = 1]
      /\ Consume(q, p)
      /\ UNCHANGED <<todo, pc, msgids, lockVars, fenceVars, pscwVars, memVars>>

RecvLock(q, p) ==
  /\ Comes(q, p, "lock")
  /\ LET d == do_lock(win[p], q, Msg(q, p).type)
     IN  win' = [win EXCEPT ![p] = d.w] /\ Tell(p, d.told, q)
  /\ UNCHANGED <<progVars, listVars, holds, fenceVars, pscwVars, memVars>>

RecvPost(q, p) ==
  /\ Comes(q, p, "post")
  /\ missed' = (missed \/ q \in post_received[p])
  /\ post_received' = [post_received EXCEPT ![p] = @ \cup {q}]
  /\ Consume(q, p)
  /\ UNCHANGED <<progVars, listVars, lockVars, fenceVars, post_sent, access, exposed, memVars>>

RecvComplete(q, p) ==
  /\ Comes(q, p, "complete")
  /\ missed' = (missed \/ q \notin post_sent[p])
  /\ post_sent' = [post_sent EXCEPT ![p] = @ \ {q}]
  /\ Consume(q, p)
  /\ UNCHANGED <<progVars, listVars, lockVars, fenceVars, post_received, access, exposed,
                 memVars>>

Handle(p) ==
  \E q \in Proc \ {p} :
    \/ RecvPut(q, p) \/ RecvFlag(q, p) \/ RecvGrant(q, p) \/ RecvGet(q, p)
    \/ RecvReply(q, p) \/ RecvLock(q, p) \/ RecvPost(q, p) \/ RecvComplete(q, p)

Program(p) ==
  \/ APut(p) \/ AGet(p) \/ WaitOne(p) \/ WaitHead(p)
  \/ LockOwn(p) \/ LockOther(p) \/ LockReturn(p)
  \/ FenceSend(p) \/ FenceFlag(p)
  \/ PostSend(p) \/ PostMark(p) \/ Start(p) \/ CompleteSend(p) \/ CompleteReset(p)
  \/ WinWait(p)

Next == \E p \in Proc : Handle(p) \/ Program(p)

Spec == Init /\ [][Next]_vars

\* A process that waits spins, and a message makes a signal: the system runs the
\* processes and their handlers.
FairSpec == Spec /\ \A p \in Proc : WF_vars(Program(p)) /\ WF_vars(Handle(p))

-----------------------------------------------------------------------------
MsgType == [kind : {"put"}, val : Int, era : Nat, sync : {"lock", "start", "fence"}]
           \cup [kind : {"flag"}, index : {0, 1}]
           \cup [kind : {"grant", "post", "complete"}]
           \cup [kind : {"get"}, num : Nat]
           \cup [kind : {"reply"}, num : Nat, val : Nat]
           \cup [kind : {"lock"}, type : 0 .. 2]
WinType == [locked : 0 .. 2, count : 0 .. NProcs,
            lock_q : Seq([src : Proc, type : {1, 2}])]

\* Every variable holds a value of its type; a window never has more
\* locks than processes, and count never goes below 0.
TypeOK ==
  /\ todo \in [Proc -> Seq(CallType)]
  /\ pc \in [Proc -> [at : {"run", "granted", "send", "flags", "mark", "reset"}, i : Nat]]
  /\ req \in [Proc -> Seq([get : BOOLEAN, rank : Proc, num : Nat, val : Nat])]
  /\ msgids \in [Proc -> [items : Seq(Nat), astray : BOOLEAN]]
  /\ gets \in [Proc -> [Proc -> [items : Seq([mid : Nat, val : 0 .. 1]), astray : BOOLEAN]]]
  /\ get_buf \in [Proc -> [Proc -> Seq(Nat)]]
  /\ wire \in [Proc -> [Proc -> Seq(MsgType)]]
  /\ win \in [Proc -> WinType]
  /\ lock_granted \in [Proc -> BOOLEAN]
  /\ procs \in [Proc -> [Proc -> [0 .. 1 -> BOOLEAN]]]
  /\ fence_index \in [Proc -> 0 .. 1]
  /\ post_sent \in [Proc -> SUBSET Proc] /\ post_received \in [Proc -> SUBSET Proc]
  /\ mem \in [Proc -> Nat] /\ exited \in [Proc -> BOOLEAN] /\ missed \in BOOLEAN
  /\ holds \in [Proc -> SUBSET (Proc \X {1, 2})]
  /\ fences \in [Proc -> Nat] /\ added \in [Proc -> Nat]
  /\ access \in [Proc -> SUBSET Proc] /\ exposed \in [Proc -> SUBSET Proc]

\* p waits for the answer to a request to unlock r.
Unlocking(p, r) == At(p, "granted") /\ Call(p).op = "unlock" /\ Call(p).rank = r

\* A synchronisation call promises that the puts before it have arrived: fence k of
\* the target ("All incoming put calls have now completed"), MP_Win_wait() of the
\* target, MP_Win_unlock() of the origin ("all other traffic on the one-sided
\* channels must have gone through").
Flushed ==
  \A p, q \in Proc : \A i \in DOMAIN wire[p][q] :
    LET m == wire[p][q][i]
    IN  m.kind = "put" =>
          CASE m.sync = "fence" -> m.era >= fences[q]
            [] m.sync = "lock"  -> Holding(p, q) \/ Unlocking(p, q)
            [] m.sync = "start" -> p \in exposed[q]

\* What get, lock and add do together is one step of everybody's: under exclusive
\* locks no "add" is lost.  (Windows that nobody locks are only put to otherwise.)
Counted ==
  \A r \in Proc :
    win[r].locked = 0 => mem[r] = added[r]

\* Get x of p to q has its own answer in its own buffer if it is marked as complete.
OwnAnswer(p, x) == x.val = 1 => req[p][x.mid].num = x.mid

\* The gets of p to q that have no answer yet are those that are not marked in the list:
\* none was added behind the tail that MP_Wait() left (tcp.c:943-947).
NoneAstray(p, q) ==
  Len(get_buf[p][q]) = Cardinality({i \in DOMAIN gets[p][q].items : gets[p][q].items[i].val = 0})

\* A get that is marked as complete has its own answer in its own buffer, in
\* whatever order the gets are waited for (recv_get_reply_data(), tcp.c:2470-2477), as
\* long as the list has all that are to be answered.
Answered ==
  \A p, q \in Proc :
    ~exited[p] /\ NoneAstray(p, q) =>
      \A i \in DOMAIN gets[p][q].items : OwnAnswer(p, gets[p][q].items[i])

\* The locks, in terms of WinLock.
Asked(p, r)  == \E i \in DOMAIN wire[p][r] : wire[p][r][i].kind = "lock"
Queued(p, r) == \E i \in DOMAIN win[r].lock_q : win[r].lock_q[i].src = p

call ==
  [p \in Proc |->
     IF todo[p] = << >> \/ ~At(p, "granted")
     THEN [stage |-> "out", rank |-> CHOOSE r \in Proc : TRUE, type |-> 0]
     ELSE [stage |-> CASE Asked(p, Call(p).rank)  -> "asked"
                       [] Queued(p, Call(p).rank) -> "queued"
                       [] OTHER                   -> "granted",
           rank |-> Call(p).rank, type |-> LockType(p)]]

Promise == INSTANCE WinLock

\* do_lock(), its queue and its messages keep the promise of WinLock: who asks is
\* granted, or queued and granted when the window is free, once.
ImplementsLocks == Promise!Spec

\* Every call returns, unless a process has exited or a flag was set too late.
AllDone   == \A p \in Proc : todo[p] = << >>
AllReturn == <>(AllDone \/ missed \/ \E p \in Proc : exited[p])
=============================================================================
