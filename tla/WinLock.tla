------------------------------ MODULE WinLock ------------------------------
(***************************************************************************)
(* The locks of the one-sided windows of MP_Lite/tcp.c: what try_lock()    *)
(* and do_lock() make of the requests of MP_Win_lock() and                 *)
(* MP_Win_unlock().  A window belongs to one process, its rank, and may be *)
(* locked by many for reading (type 1) or by one for writing (type 2);     *)
(* type 0 is the request to unlock.  A request that cannot be granted      *)
(* waits in the window's queue.                                            *)
(*                                                                         *)
(* Here a request, and the answer, is on its way for any time; TcpWin,     *)
(* which carries them in its messages, implements this specification.      *)
(***************************************************************************)
EXTENDS Integers, Sequences, FiniteSets

CONSTANT Proc        \* the processes; each is also the rank of its window

VARIABLES
  win,      \* win[r]: locked, count and lock_q of the window of r
  call,     \* call[p]: the request p waits for, and where it is
  holds     \* holds[p]: the locks p has, as <<rank, type>>

lockVars == <<win, call, holds>>

NoCall == [stage |-> "out", rank |-> CHOOSE r \in Proc : TRUE, type |-> 0]

Init == /\ win   = [r \in Proc |-> [locked |-> 0, count |-> 0, lock_q |-> << >>]]
        /\ call  = [p \in Proc |-> NoCall]
        /\ holds = [p \in Proc |-> {}]

\* "window is not locked or only has a shared lock"; an unlock is always granted.
Grants(w, type) == \/ type = 0
                   \/ type = 1 /\ w.locked \in {0, 1}
                   \/ type = 2 /\ w.locked = 0

\* try_lock() of a request that is granted.
TryLock(w, type) ==
  IF type = 0
  THEN [w EXCEPT !.count = @ - 1, !.locked = IF w.count = 1 THEN 0 ELSE @]
  ELSE [w EXCEPT !.count = @ + 1, !.locked = type]

\* The loop of do_lock() over the queue of a window that nobody holds grants the
\* first n entries: a writer, or the readers before the next writer.
Leading(queue, n) ==
  \/ n = 0 /\ queue = << >>
  \/ n = 1 /\ Len(queue) >= 1 /\ queue[1].type = 2
  \/ /\ n \in 1 .. Len(queue)
     /\ \A i \in 1 .. n : queue[i].type = 1
     /\ n < Len(queue) => queue[n + 1].type = 2

\* How many entries of the queue an unlock lets in.
LetIn(w, n) == IF TryLock(w, 0).locked = 0 THEN Leading(w.lock_q, n) ELSE n = 0

AfterUnlock(w, n) ==
  [locked |-> IF n = 0 THEN TryLock(w, 0).locked ELSE w.lock_q[1].type,
   count  |-> TryLock(w, 0).count + n,
   lock_q |-> SubSeq(w.lock_q, n + 1, Len(w.lock_q))]

Enqueue(w, p, type) == [w EXCEPT !.lock_q = Append(@, [src |-> p, type |-> type])]

\* The processes that do_lock() answers.
Told(w, p, type, n) ==
  CASE type = 0                    -> {p} \cup {w.lock_q[i].src : i \in 1 .. n}
    [] type # 0 /\ Grants(w, type) -> {p}
    [] OTHER                       -> {}

\* What do_lock() makes of the window.
DoLock(w, p, type, n) ==
  CASE type = 0                    -> AfterUnlock(w, n)
    [] type # 0 /\ Grants(w, type) -> TryLock(w, type)
    [] OTHER                       -> Enqueue(w, p, type)

\* do_lock(p, type) at r, which the request has reached.
Serve(r, p, type) ==
  \E n \in 0 .. Len(win[r].lock_q) :
    /\ IF type = 0 THEN LetIn(win[r], n) ELSE n = 0
    /\ win' = [win EXCEPT ![r] = DoLock(@, p, type, n)]
    /\ LET told == Told(win[r], p, type, n)
       IN  call' = [q \in Proc |->
             CASE q \in told           -> [stage |-> "granted", rank |-> r,
                                           type |-> IF q = p THEN type ELSE call[q].type]
               [] q \notin told /\ q = p -> [stage |-> "queued", rank |-> r, type |-> type]
               [] OTHER                -> call[q]]

\* The lock of r that p has.
Holding(p, r) == \E t \in {1, 2} : <<r, t>> \in holds[p]

\* p asks for a lock, or gives one back, and must wait for the answer.
Request(p, r, type) ==
  /\ call[p].stage = "out"
  /\ IF type = 0 THEN Holding(p, r) ELSE ~Holding(p, r)
  /\ holds' = [holds EXCEPT ![p] = @ \ {<<r, 1>>, <<r, 2>>}]

Ask(p, r, type) ==
  /\ Request(p, r, type)
  /\ call' = [call EXCEPT ![p] = [stage |-> "asked", rank |-> r, type |-> type]]
  /\ UNCHANGED win

\* The window is p's own: do_lock() is called at once.
AskSelf(p, type) == Request(p, p, type) /\ Serve(p, p, type)

Arrive(p) ==
  /\ call[p].stage = "asked"
  /\ Serve(call[p].rank, p, call[p].type)
  /\ UNCHANGED holds

\* The answer has come: the call returns.
Return(p) ==
  /\ call[p].stage = "granted"
  /\ call' = [call EXCEPT ![p] = NoCall]
  /\ holds' = IF call[p].type = 0 THEN holds
              ELSE [holds EXCEPT ![p] = @ \cup {<<call[p].rank, call[p].type>>}]
  /\ UNCHANGED win

Next == \E p \in Proc :
          \/ \E r \in Proc, type \in {0, 1, 2} : r # p /\ Ask(p, r, type)
          \/ \E type \in {0, 1, 2} : AskSelf(p, type)
          \/ Arrive(p)
          \/ Return(p)

Spec == Init /\ [][Next]_lockVars

-----------------------------------------------------------------------------

\* A process that holds a window for writing is alone with it (tcp.c:1803-1810).
Exclusion ==
  \A p, q \in Proc : \A r \in Proc :
    p # q /\ <<r, 2>> \in holds[p] => ~Holding(q, r)
=============================================================================
