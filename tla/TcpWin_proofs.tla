---------------------------- MODULE TcpWin_proofs ----------------------------
(***************************************************************************)
(* The locks of TcpWin implement those of WinLock, for any number of       *)
(* processes and any programs that lock and unlock in turn; so nobody      *)
(* holds a window together with one that writes to it.                     *)
(*                                                                         *)
(* A request of WinLock is, in TcpWin, a message to the window's process,  *)
(* an entry of the window's queue, a message back or the flag that the     *)
(* message sets.  The invariant says that it is one of them at most, and   *)
(* that of a call that is waiting.                                         *)
(*                                                                         *)
(* And every call of synchronisation flushes the puts that it promises to, *)
(* when post and MP_Win_wait() are called in turn.                         *)
(***************************************************************************)
EXTENDS TcpWin, SequenceTheorems, WellFoundedInduction, TLAPS

Locks == INSTANCE WinLock_proofs

Window == [locked : 0 .. 2, count : Int, lock_q : Seq([src : Proc, type : {1, 2}])]

\* A sequence, of whatever.
IsSeq(s) == s \in Seq({s[i] : i \in DOMAIN s})

\* p waits for the answer to its first call, which is about a lock.
Waiting(p) == pc[p].at = "granted"

LockTypes ==
  /\ todo \in [Proc -> Seq(CallType)]
  /\ pc = [p \in Proc |-> pc[p]]
  /\ wire = [p \in Proc |-> [q \in Proc |-> wire[p][q]]]
  /\ \A p, q \in Proc : IsSeq(wire[p][q])
  /\ win \in [Proc -> Window]
  /\ lock_granted \in [Proc -> BOOLEAN]
  /\ holds \in [Proc -> SUBSET (Proc \X {1, 2})]

\* The windows whose lock p had before the first of its calls.
Had(p) == {r \in Proc : Holding(p, r) \/ (Waiting(p) /\ Call(p).op = "unlock" /\ Call(p).rank = r)}

\* Who waits does so in such a call and is without the lock; the locks p has are what
\* its calls take them to be.
InCall(p) == /\ Waiting(p) => /\ todo[p] # << >> /\ Call(p).op \in {"lock", "unlock"}
                              /\ ~Holding(p, Call(p).rank)
             /\ lock_granted[p] => Waiting(p)
             /\ LocksInTurn(todo[p], Had(p))

\* The places of p's request to r: in the messages to r, in the queue of r's window, in
\* the messages from r.
Places(s, kind) == {i \in DOMAIN s : s[i].kind = kind}
AskedAt(p, r)   == Places(wire[p][r], "lock")
QueuedAt(p, r)  == {i \in DOMAIN win[r].lock_q : win[r].lock_q[i].src = p}
GrantedAt(p, r) == Places(wire[r][p], "grant")

\* It is in one at most; then p waits for it, and what the place says of it is true.
Ticket(p, r) ==
  /\ \A i, j \in AskedAt(p, r) : i = j
  /\ \A i, j \in QueuedAt(p, r) : i = j
  /\ \A i, j \in GrantedAt(p, r) : i = j
  /\ AskedAt(p, r) # {} => QueuedAt(p, r) = {} /\ GrantedAt(p, r) = {} /\ p # r
  /\ QueuedAt(p, r) # {} => GrantedAt(p, r) = {}
  /\ AskedAt(p, r) \cup QueuedAt(p, r) \cup GrantedAt(p, r) # {} =>
       Waiting(p) /\ Call(p).rank = r /\ ~lock_granted[p]
  /\ \A i \in AskedAt(p, r) : wire[p][r][i].type = LockType(p)
  /\ \A i \in QueuedAt(p, r) : win[r].lock_q[i].type = LockType(p)

IInv == /\ LockTypes
        /\ \A p \in Proc : InCall(p)
        /\ \A p, r \in Proc : Ticket(p, r)

-----------------------------------------------------------------------------
(***************************************************************************)
(* Sequences.                                                              *)
(***************************************************************************)

\* A set of numbers has a least one.
LEMMA LeastOfNat ==
  ASSUME NEW S, S \subseteq Nat, S # {}
  PROVE  \E m \in S : \A n \in S : m <= n
<1> DEFINE R == {ss \in Nat \X Nat : ss[1] < ss[2]}
<1>1. OpToRel(<, Nat) = R
  BY DEF OpToRel
<1>2. IsWellFoundedOn(R, Nat)
  BY <1>1, NatLessThanWellFounded
<1>3. \E x \in S : \A y \in S : ~ (<<y, x>> \in R)
  <2> HIDE DEF R
  <2> QED BY <1>2, WFMin
<1>4. \A x, y \in Nat : ~ (<<y, x>> \in R) => x <= y
  OBVIOUS
<1> QED BY <1>3, <1>4

\* A sequence is one of its own elements.
LEMMA SeqOfItself ==
  ASSUME NEW S, NEW s \in Seq(S)
  PROVE  IsSeq(s)
<1> DEFINE R == {s[i] : i \in DOMAIN s}
<1>1. Len(s) \in Nat /\ s \in [1 .. Len(s) -> S] /\ DOMAIN s = 1 .. Len(s)
  OBVIOUS
<1>2. s \in [1 .. Len(s) -> R]
  BY <1>1
<1>3. \E n \in Nat : s \in [1 .. n -> R]
  BY <1>1, <1>2
<1>4. s \in UNION {[1 .. n -> R] : n \in Nat}
  <2> HIDE DEF R
  <2> QED BY <1>3
<1> QED BY <1>4, SeqDef DEF IsSeq

\* Adding a message to a stream.
LEMMA AddMessage ==
  ASSUME NEW s, IsSeq(s), NEW m
  PROVE  /\ IsSeq(Append(s, m)) /\ Len(s) \in Nat
         /\ DOMAIN s = 1 .. Len(s) /\ DOMAIN Append(s, m) = 1 .. Len(s) + 1
         /\ \A i \in 1 .. Len(s) : Append(s, m)[i] = s[i]
         /\ Append(s, m)[Len(s) + 1] = m
<1> DEFINE S == {s[i] : i \in DOMAIN s} \cup {m}
           t == Append(s, m)
<1>1. s \in Seq(S)
  BY DEF IsSeq
<1>2. /\ t \in Seq(S) /\ Len(t) = Len(s) + 1 /\ DOMAIN t = 1 .. Len(s) + 1 /\ DOMAIN s = 1 .. Len(s)
      /\ Len(s) \in Nat
      /\ \A i \in 1 .. Len(s) : t[i] = s[i]
      /\ t[Len(s) + 1] = m
  <2> HIDE DEF S
  <2>1. m \in S
    BY DEF S
  <2> QED BY <1>1, <2>1
<1>3. IsSeq(t)
  BY <1>2, SeqOfItself
<1> QED BY <1>2, <1>3

\* Taking the first message from one.
LEMMA TakeMessage ==
  ASSUME NEW s, IsSeq(s), s # << >>
  PROVE  /\ IsSeq(Tail(s)) /\ Len(s) \in Nat \ {0}
         /\ DOMAIN s = 1 .. Len(s) /\ DOMAIN Tail(s) = 1 .. Len(s) - 1
         /\ \A i \in 1 .. Len(s) - 1 : Tail(s)[i] = s[i + 1]
         /\ Head(s) = s[1]
<1> DEFINE S == {s[i] : i \in DOMAIN s}
           t == Tail(s)
<1>1. s \in Seq(S)
  BY DEF IsSeq
<1>2. /\ t \in Seq(S) /\ Len(t) = Len(s) - 1 /\ DOMAIN t = 1 .. Len(s) - 1 /\ DOMAIN s = 1 .. Len(s)
      /\ Len(s) \in Nat \ {0}
      /\ \A i \in 1 .. Len(s) - 1 : t[i] = s[i + 1]
      /\ Head(s) = s[1]
  <2> HIDE DEF S
  <2> QED BY <1>1
<1>3. IsSeq(t)
  BY <1>2, SeqOfItself
<1> QED BY <1>2, <1>3

-----------------------------------------------------------------------------
(***************************************************************************)
(* do_lock().                                                              *)
(***************************************************************************)
Entry == [src : Proc, type : {1, 2}]

\* The fields of a window, and a window with another queue.
LEMMA Fields ==
  ASSUME NEW w \in Window
  PROVE  /\ w.locked \in 0 .. 2 /\ w.count \in Int /\ w.lock_q \in Seq(Entry)
         /\ Len(w.lock_q) \in Nat
         /\ w = [locked |-> w.locked, count |-> w.count, lock_q |-> w.lock_q]
BY DEF Window, Entry

\* A window whose queue is replaced keeps its other fields.
LEMMA Requeued ==
  ASSUME NEW w \in Window, NEW q
  PROVE  [w EXCEPT !.lock_q = q] = [locked |-> w.locked, count |-> w.count, lock_q |-> q]
BY DEF Window

\* What makes a window.
LEMMA WindowOf ==
  ASSUME NEW l \in 0 .. 2, NEW c \in Int, NEW q \in Seq(Entry)
  PROVE  [locked |-> l, count |-> c, lock_q |-> q] \in Window
BY DEF Window, Entry

\* What try_lock() makes of a window.
LEMMA TryLockFields ==
  ASSUME NEW w \in Window, NEW type \in 0 .. 2
  PROVE  /\ try_lock(w, type).granted <=> Promise!Grants(w, type)
         /\ type = 0 => try_lock(w, type).w = [locked |-> IF w.count = 1 THEN 0 ELSE w.locked,
                                               count |-> w.count - 1, lock_q |-> w.lock_q]
         /\ type # 0 /\ Promise!Grants(w, type) =>
              try_lock(w, type).w = [locked |-> type, count |-> w.count + 1, lock_q |-> w.lock_q]
         /\ try_lock(w, type).w \in Window
<1> DEFINE unlocked == [w EXCEPT !.count = @ - 1, !.locked = IF w.count = 1 THEN 0 ELSE @]
           granted  == [w EXCEPT !.count = @ + 1, !.locked = type]
<1>1. w.locked \in 0 .. 2 /\ w.count \in Int /\ w.lock_q \in Seq(Entry)
  BY Fields
<1>2. unlocked = [locked |-> IF w.count = 1 THEN 0 ELSE w.locked,
                  count |-> w.count - 1, lock_q |-> w.lock_q]
  <2>1. PICK x : x = unlocked
    OBVIOUS
  <2>2. x = [locked |-> IF w.count = 1 THEN 0 ELSE w.locked,
             count |-> w.count - 1, lock_q |-> w.lock_q]
    BY <2>1 DEF Window
  <2> QED BY <2>1, <2>2
<1>3. granted = [locked |-> type, count |-> w.count + 1, lock_q |-> w.lock_q]
  <2>1. PICK x : x = granted
    OBVIOUS
  <2>2. x = [locked |-> type, count |-> w.count + 1, lock_q |-> w.lock_q]
    BY <2>1 DEF Window
  <2> QED BY <2>1, <2>2
<1>4. unlocked \in Window /\ granted \in Window
  <2>1. (IF w.count = 1 THEN 0 ELSE w.locked) \in 0 .. 2 /\ w.count - 1 \in Int /\ w.count + 1 \in Int
    BY <1>1
  <2> HIDE DEF unlocked, granted
  <2> QED BY <1>1, <1>2, <1>3, <2>1, WindowOf
<1>5. CASE type = 0
  <2>1. try_lock(w, type) = [granted |-> TRUE, w |-> unlocked]
    BY <1>5 DEF try_lock
  <2> HIDE DEF unlocked, granted
  <2> QED BY <1>2, <1>4, <1>5, <2>1 DEF Promise!Grants
<1>6. CASE type # 0 /\ Promise!Grants(w, type)
  <2>1. try_lock(w, type) = [granted |-> TRUE, w |-> granted]
    BY <1>6 DEF try_lock, Promise!Grants
  <2> HIDE DEF unlocked, granted
  <2> QED BY <1>3, <1>4, <1>6, <2>1
<1>7. CASE type # 0 /\ ~Promise!Grants(w, type)
  <2>1. try_lock(w, type) = [granted |-> FALSE, w |-> w]
    BY <1>7 DEF try_lock, Promise!Grants
  <2> HIDE DEF unlocked, granted
  <2> QED BY <1>7, <2>1
<1> QED BY <1>5, <1>6, <1>7

\* What the loop has made of a window after n turns.
LEMMA ServedFields ==
  ASSUME NEW w \in Window, NEW n \in 0 .. Len(w.lock_q)
  PROVE  /\ Served(w, n) = [locked |-> IF n = 0 THEN w.locked ELSE w.lock_q[n].type,
                            count |-> w.count + n,
                            lock_q |-> SubSeq(w.lock_q, n + 1, Len(w.lock_q))]
         /\ Served(w, n) \in Window
         /\ \A i \in 1 .. Len(w.lock_q) : w.lock_q[i].src \in Proc /\ w.lock_q[i].type \in {1, 2}
<1> DEFINE l == IF n = 0 THEN w.locked ELSE w.lock_q[n].type
           c == w.count + n
           q == SubSeq(w.lock_q, n + 1, Len(w.lock_q))
<1>1. w.lock_q \in Seq(Entry) /\ w.count \in Int /\ w.locked \in 0 .. 2 /\ Len(w.lock_q) \in Nat
  BY Fields
<1>2. \A i \in 1 .. Len(w.lock_q) : w.lock_q[i] \in Entry
  BY <1>1
<1>3. \A i \in 1 .. Len(w.lock_q) : w.lock_q[i].src \in Proc /\ w.lock_q[i].type \in {1, 2}
  BY <1>2 DEF Entry
<1>4. l \in 0 .. 2 /\ c \in Int /\ q \in Seq(Entry)
  <2>1. n # 0 => n \in 1 .. Len(w.lock_q)
    BY <1>1
  <2> QED BY <1>1, <1>3, <2>1
<1>5. Served(w, n) = [locked |-> l, count |-> c, lock_q |-> q]
  <2>1. PICK x : x = Served(w, n)
    OBVIOUS
  <2>2. x = [locked |-> IF n = 0 THEN w.locked ELSE w.lock_q[n].type,
             count |-> w.count + n,
             lock_q |-> SubSeq(w.lock_q, n + 1, Len(w.lock_q))]
    BY <2>1 DEF Window, Served
  <2> QED BY <2>1, <2>2
<1>6. Served(w, n) \in Window
  <2> HIDE DEF l, c, q
  <2> QED BY <1>4, <1>5, WindowOf
<1> QED BY <1>3, <1>5, <1>6

\* Served is the loop: the window after turn i + 1 is what try_lock() makes of the one
\* after turn i, without the entry that it has granted.
LEMMA ServedByTurns ==
  ASSUME NEW w \in Window, NEW i \in 0 .. Len(w.lock_q) - 1,
         try_lock(Served(w, i), w.lock_q[i + 1].type).granted
  PROVE  LET next == try_lock(Served(w, i), w.lock_q[i + 1].type).w
         IN  Served(w, i + 1) = [next EXCEPT !.lock_q = Tail(@)]
<1> DEFINE q == w.lock_q
           next == try_lock(Served(w, i), q[i + 1].type).w
<1>1. q \in Seq(Entry) /\ w.count \in Int /\ Len(q) \in Nat
  BY Fields
<1>2. /\ i \in 0 .. Len(q) /\ i + 1 \in 0 .. Len(q) /\ i + 1 \in 1 .. Len(q) /\ i + 1 # 0
      /\ q[i + 1].type \in 0 .. 2 /\ q[i + 1].type # 0
  <2>1. i \in 0 .. Len(q) /\ i + 1 \in 0 .. Len(q) /\ i + 1 \in 1 .. Len(q) /\ i + 1 # 0
    BY <1>1
  <2>2. q[i + 1].type \in {1, 2}
    BY <2>1, ServedFields
  <2> QED BY <2>1, <2>2
<1>3. Served(w, i) \in Window /\ Served(w, i).count = w.count + i
      /\ Served(w, i).lock_q = SubSeq(q, i + 1, Len(q))
  BY <1>2, ServedFields
<1>4. next = [locked |-> q[i + 1].type, count |-> (w.count + i) + 1,
              lock_q |-> SubSeq(q, i + 1, Len(q))]
  <2>1. Promise!Grants(Served(w, i), q[i + 1].type)
    BY <1>2, <1>3, TryLockFields
  <2> QED BY <1>2, <1>3, <2>1, TryLockFields
<1>5. Served(w, i + 1) = [locked |-> q[i + 1].type, count |-> w.count + (i + 1),
                          lock_q |-> SubSeq(q, (i + 1) + 1, Len(q))]
  BY <1>2, ServedFields
<1>6. Tail(SubSeq(q, i + 1, Len(q))) = SubSeq(q, (i + 1) + 1, Len(q))
  BY <1>1
<1>7. (w.count + i) + 1 = w.count + (i + 1)
  BY <1>1
<1>8. next \in Window
  BY <1>2, <1>3, TryLockFields
<1>9. [next EXCEPT !.lock_q = Tail(@)] =
        [locked |-> next.locked, count |-> next.count, lock_q |-> Tail(next.lock_q)]
  <2> HIDE DEF next
  <2> QED BY <1>8, Requeued
<1> QED
  <2> HIDE DEF q, next
  <2>1. Served(w, i + 1) = [next EXCEPT !.lock_q = Tail(@)]
    BY <1>4, <1>5, <1>6, <1>7, <1>9
  <2> QED BY <2>1 DEF q, next

\* The loop ends.
LEMMA TurnsEnd ==
  ASSUME NEW w \in Window
  PROVE  /\ Turns(w) \in 0 .. Len(w.lock_q)
         /\ \A i \in 1 .. Turns(w) : try_lock(Served(w, i - 1), w.lock_q[i].type).granted
         /\ Turns(w) < Len(w.lock_q) =>
              ~try_lock(Served(w, Turns(w)), w.lock_q[Turns(w) + 1].type).granted
<1> DEFINE len == Len(w.lock_q)
           G(i) == try_lock(Served(w, i - 1), w.lock_q[i].type).granted
           Ends(n) == (\A i \in 1 .. n : G(i)) /\ (n < len => ~G(n + 1))
           S == {n \in 0 .. len : n = len \/ ~G(n + 1)}
<1>1. len \in Nat
  BY DEF Window
<1>2. PICK n \in S : \A k \in S : n <= k
  <2>1. S \subseteq Nat /\ len \in S
    BY <1>1
  <2> HIDE DEF S
  <2> QED BY <2>1, LeastOfNat
<1>3. n \in 0 .. len /\ Ends(n)
  <2>1. n \in 0 .. len /\ (n < len => ~G(n + 1))
    BY <1>1, <1>2
  <2>2. ASSUME NEW i \in 1 .. n PROVE G(i)
    <3>1. i - 1 \in 0 .. len /\ i - 1 < n /\ (i - 1) + 1 = i
      BY <1>1, <2>1, <2>2
    <3>2. i - 1 \notin S
      <4> HIDE DEF S
      <4> QED BY <1>2, <3>1, <2>1
    <3>3. G((i - 1) + 1)
      <4> HIDE DEF G
      <4> QED BY <3>1, <3>2
    <3> QED BY <3>1, <3>3
  <2> QED BY <2>1, <2>2
<1>4. Turns(w) = CHOOSE k \in 0 .. len : Ends(k)
  <2>1. \A k \in 0 .. len : (k + 1) - 1 = k
    BY <1>1
  <2>2. \A k \in 0 .. len : G(k + 1) = try_lock(Served(w, k), w.lock_q[k + 1].type).granted
    BY <2>1
  <2>3. \A k \in 0 .. len : Ends(k) <=>
          /\ \A i \in 1 .. k : try_lock(Served(w, i - 1), w.lock_q[i].type).granted
          /\ k < len => ~try_lock(Served(w, k), w.lock_q[k + 1].type).granted
    BY <2>2
  <2> QED BY <2>3 DEF Turns
<1>5. Turns(w) \in 0 .. len /\ Ends(Turns(w))
  <2> HIDE DEF Ends
  <2> QED BY <1>3, <1>4
<1>6. Turns(w) < len => (Turns(w) + 1) - 1 = Turns(w)
  BY <1>1, <1>5
<1> QED BY <1>5, <1>6

\* do_lock() is DoLock of WinLock, with as many entries let in as its loop makes turns.
LEMMA DoLockServes ==
  ASSUME NEW w \in Window, NEW src \in Proc, NEW type \in 0 .. 2
  PROVE  \E n \in 0 .. Len(w.lock_q) :
           /\ IF type = 0 THEN Promise!LetIn(w, n) ELSE n = 0
           /\ do_lock(w, src, type).w = Promise!DoLock(w, src, type, n)
           /\ do_lock(w, src, type).told = Promise!Told(w, src, type, n)
           /\ do_lock(w, src, type).w \in Window
<1> DEFINE r == try_lock(w, type)
           q == w.lock_q
           d == do_lock(w, src, type)
           Agrees(n) == /\ IF type = 0 THEN Promise!LetIn(w, n) ELSE n = 0
                        /\ d.w = Promise!DoLock(w, src, type, n)
                        /\ d.told = Promise!Told(w, src, type, n)
                        /\ d.w \in Window
<1> SUFFICES \E n \in 0 .. Len(q) : Agrees(n)
  OBVIOUS
<1>1. /\ w.locked \in 0 .. 2 /\ w.count \in Int /\ q \in Seq(Entry) /\ Len(q) \in Nat
      /\ 0 \in 0 .. Len(q)
  BY Fields
<1>2. CASE type # 0 /\ Promise!Grants(w, type)
  <2>1. r.granted /\ r.w = [locked |-> type, count |-> w.count + 1, lock_q |-> q] /\ r.w \in Window
    BY <1>2, TryLockFields
  <2>2. d = [w |-> r.w, told |-> {src}]
    BY <1>2, <2>1 DEF do_lock
  <2>3. Promise!DoLock(w, src, type, 0) = Promise!TryLock(w, type)
    BY <1>2 DEF Promise!DoLock
  <2>4. Promise!TryLock(w, type) = [locked |-> type, count |-> w.count + 1, lock_q |-> q]
    <3>1. PICK x : x = [w EXCEPT !.count = @ + 1, !.locked = type]
      OBVIOUS
    <3>2. x = [locked |-> type, count |-> w.count + 1, lock_q |-> q]
      BY <3>1 DEF Window
    <3>3. Promise!TryLock(w, type) = x
      BY <1>2, <3>1 DEF Promise!TryLock
    <3> QED BY <3>2, <3>3
  <2>5. Promise!Told(w, src, type, 0) = {src}
    BY <1>2 DEF Promise!Told
  <2>6. Agrees(0)
    <3> HIDE DEF r, d
    <3> QED BY <1>2, <2>1, <2>2, <2>3, <2>4, <2>5
  <2> QED BY <1>1, <2>6
<1>3. CASE type # 0 /\ ~Promise!Grants(w, type)
  <2>1. ~r.granted
    BY <1>3, TryLockFields
  <2>2. d = [w |-> Promise!Enqueue(w, src, type), told |-> {}]
    BY <1>3, <2>1 DEF do_lock, Promise!Enqueue
  <2>3. Promise!DoLock(w, src, type, 0) = Promise!Enqueue(w, src, type)
    BY <1>3 DEF Promise!DoLock
  <2>4. Promise!Told(w, src, type, 0) = {}
    BY <1>3 DEF Promise!Told
  <2>5. Promise!Enqueue(w, src, type) \in Window
    <3>1. Promise!Enqueue(w, src, type) =
            [locked |-> w.locked, count |-> w.count, lock_q |-> Append(q, [src |-> src, type |-> type])]
      BY Requeued DEF Promise!Enqueue
    <3>2. [src |-> src, type |-> type] \in Entry
      BY <1>3 DEF Entry
    <3>3. Append(q, [src |-> src, type |-> type]) \in Seq(Entry)
      BY <1>1, <3>2
    <3> QED BY <1>1, <3>1, <3>3, WindowOf
  <2>6. Agrees(0)
    <3> HIDE DEF d
    <3> QED BY <1>3, <2>2, <2>3, <2>4, <2>5
  <2> QED BY <1>1, <2>6
<1>4. CASE type = 0
  <2>1. /\ r.w = [locked |-> IF w.count = 1 THEN 0 ELSE w.locked, count |-> w.count - 1, lock_q |-> q]
        /\ r.w \in Window /\ r.granted
    BY <1>4, TryLockFields DEF Promise!Grants
  <2>2. Promise!TryLock(w, 0) = r.w
    <3>1. PICK x : x = [w EXCEPT !.count = @ - 1, !.locked = IF w.count = 1 THEN 0 ELSE @]
      OBVIOUS
    <3>2. x = [locked |-> IF w.count = 1 THEN 0 ELSE w.locked, count |-> w.count - 1, lock_q |-> q]
      BY <3>1 DEF Window
    <3>3. Promise!TryLock(w, 0) = x
      BY <3>1 DEF Promise!TryLock
    <3> QED BY <2>1, <3>2, <3>3
  <2>3. CASE r.w.locked # 0
    <3>1. d = [w |-> r.w, told |-> {src}]
      BY <1>4, <2>3 DEF do_lock
    <3>2. Promise!LetIn(w, 0)
      BY <2>2, <2>3 DEF Promise!LetIn
    <3>3. Promise!DoLock(w, src, type, 0) = Promise!AfterUnlock(w, 0)
      BY <1>4 DEF Promise!DoLock
    <3>4. Promise!AfterUnlock(w, 0) = r.w
      <4>1. SubSeq(q, 0 + 1, Len(q)) = q
        BY <1>1
      <4>2. Promise!AfterUnlock(w, 0) = [locked |-> r.w.locked, count |-> r.w.count + 0, lock_q |-> q]
        BY <2>2, <4>1 DEF Promise!AfterUnlock
      <4>3. r.w.count + 0 = r.w.count /\ r.w.lock_q = q
        BY <1>1, <2>1
      <4>4. r.w = [locked |-> r.w.locked, count |-> r.w.count, lock_q |-> r.w.lock_q]
        BY <2>1, Fields
      <4> QED BY <4>2, <4>3, <4>4
    <3>5. Promise!Told(w, src, type, 0) = {src}
      BY <1>4 DEF Promise!Told
    <3>6. Agrees(0)
      <4> HIDE DEF r, d
      <4> QED BY <1>4, <2>1, <3>1, <3>2, <3>3, <3>4, <3>5
    <3> QED BY <1>1, <3>6
  <2>4. CASE r.w.locked = 0
    <3> DEFINE u == r.w
               n == Turns(u)
    <3>1. u \in Window /\ u.lock_q = q /\ u.count = w.count - 1 /\ u.locked = 0
      BY <2>1, <2>4
    <3>2. d = [w |-> Served(u, n), told |-> {src} \cup {q[i].src : i \in 1 .. n}]
      <4>1. d = ServeQueue(r.w, src)
        BY <1>4, <2>4 DEF do_lock
      <4>2. ServeQueue(u, src) = [w |-> Served(u, n), told |-> {src} \cup {u.lock_q[i].src : i \in 1 .. n}]
        BY DEF ServeQueue
      <4> HIDE DEF n, q, d
      <4>3. ServeQueue(u, src) = [w |-> Served(u, n), told |-> {src} \cup {q[i].src : i \in 1 .. n}]
        <5> HIDE DEF u
        <5> QED BY <3>1, <4>2
      <4> QED BY <4>1, <4>3
    <3> HIDE DEF u, q
    <3>3. /\ n \in 0 .. Len(q)
          /\ \A i \in 1 .. n : try_lock(Served(u, i - 1), q[i].type).granted
          /\ n < Len(q) => ~try_lock(Served(u, n), q[n + 1].type).granted
      BY <3>1, TurnsEnd
    <3> HIDE DEF n
    <3>4. \A i \in 1 .. Len(q) : q[i].type \in {1, 2} /\ q[i].type \in 0 .. 2
      <4>1. 0 \in 0 .. Len(u.lock_q)
        BY <1>1, <3>1 DEF q
      <4>2. \A i \in 1 .. Len(q) : q[i].type \in {1, 2}
        BY <3>1, <4>1, ServedFields
      <4> QED BY <4>2
    <3>5. ASSUME NEW i \in 0 .. Len(q) - 1
          PROVE  /\ i + 1 \in 1 .. Len(q)
                 /\ try_lock(Served(u, i), q[i + 1].type).granted <=>
                    \/ i = 0
                    \/ q[i + 1].type = 1 /\ q[i].type = 1
      <4>1. i \in 0 .. Len(q) /\ i + 1 \in 1 .. Len(q) /\ (i # 0 => i \in 1 .. Len(q))
        BY <1>1
      <4>2. Served(u, i) \in Window /\ Served(u, i).locked = IF i = 0 THEN 0 ELSE q[i].type
        BY <3>1, <4>1, ServedFields
      <4>3. try_lock(Served(u, i), q[i + 1].type).granted <=>
              Promise!Grants(Served(u, i), q[i + 1].type)
        BY <3>4, <4>1, <4>2, TryLockFields
      <4> QED BY <3>4, <4>1, <4>2, <4>3 DEF Promise!Grants
    <3>6. Promise!Leading(q, n)
      <4>1. CASE Len(q) = 0
        <5>1. n = 0 /\ q = << >>
          BY <1>1, <3>3, <4>1 DEF q
        <5> QED BY <5>1 DEF Promise!Leading
      <4>2. CASE Len(q) # 0
        <5>1. n # 0
          <6>1. 0 \in 0 .. Len(q) - 1 /\ 0 < Len(q)
            BY <1>1, <4>2 DEF q
          <6> QED BY <3>3, <3>5, <6>1
        <5>2. \A i \in 2 .. n : q[i].type = 1 /\ q[i - 1].type = 1
          <6> TAKE i \in 2 .. n
          <6>1. i - 1 \in 0 .. Len(q) - 1 /\ i - 1 # 0 /\ (i - 1) + 1 = i /\ i \in 1 .. n
            BY <1>1, <3>3 DEF q
          <6>2. try_lock(Served(u, i - 1), q[(i - 1) + 1].type).granted
            BY <3>3, <6>1
          <6>3. q[(i - 1) + 1].type = 1 /\ q[i - 1].type = 1
            BY <3>5, <6>1, <6>2
          <6> QED BY <6>1, <6>3
        <5>3. n < Len(q) => ~(q[n + 1].type = 1 /\ q[n].type = 1) /\ n + 1 \in 1 .. Len(q)
          <6>1. n < Len(q) => n \in 0 .. Len(q) - 1
            BY <1>1, <3>3 DEF q
          <6> QED BY <3>3, <3>5, <5>1, <6>1
        <5>4. n \in 1 .. Len(q) /\ Len(q) >= 1
          BY <1>1, <3>3, <5>1 DEF q
        <5>5. CASE q[1].type = 2
          <6>1. ~ (n >= 2)
            <7>1. n >= 2 => 2 \in 2 .. n /\ 2 - 1 = 1
              BY <5>4, <1>1 DEF q
            <7> QED BY <5>2, <5>5, <7>1
          <6>2. n = 1
            BY <5>4, <6>1, <1>1 DEF q
          <6> QED BY <5>4, <5>5, <6>2 DEF Promise!Leading
        <5>6. CASE q[1].type = 1
          <6>1. \A i \in 1 .. n : q[i].type = 1
            <7>1. \A i \in 1 .. n : i = 1 \/ i \in 2 .. n
              BY <5>4, <1>1 DEF q
            <7> QED BY <5>2, <5>6, <7>1
          <6>2. n < Len(q) => q[n + 1].type = 2
            <7>1. n \in 1 .. n
              BY <5>4, <1>1 DEF q
            <7> QED BY <3>4, <5>3, <6>1, <7>1
          <6> QED BY <5>4, <6>1, <6>2 DEF Promise!Leading
        <5>7. 1 \in 1 .. Len(q)
          BY <5>4, <1>1 DEF q
        <5> QED BY <3>4, <5>5, <5>6, <5>7
      <4> QED BY <4>1, <4>2
    <3>7. Promise!LetIn(w, n)
      BY <2>2, <2>4, <3>6 DEF Promise!LetIn, q, u
    <3>8. Promise!AfterUnlock(w, n) = Served(u, n)
      <4> DEFINE last  == IF n = 0 THEN u.locked ELSE q[n].type
                 first == IF n = 0 THEN u.locked ELSE q[1].type
      <4>1. Served(u, n) = [locked |-> last, count |-> u.count + n,
                            lock_q |-> SubSeq(q, n + 1, Len(q))]
        BY <3>1, <3>3, ServedFields
      <4>2. first = last
        <5>1. n # 0 => n \in 1 .. n /\ 1 \in 1 .. n
          BY <3>3, <1>1 DEF q
        <5> QED BY <3>6, <5>1 DEF Promise!Leading
      <4>3. Promise!AfterUnlock(w, n) = [locked |-> first, count |-> u.count + n,
                                         lock_q |-> SubSeq(q, n + 1, Len(q))]
        BY <2>2 DEF Promise!AfterUnlock, u, q
      <4> HIDE DEF first, last
      <4> QED BY <4>1, <4>2, <4>3
    <3>9. Promise!DoLock(w, src, type, n) = Promise!AfterUnlock(w, n)
      BY <1>4 DEF Promise!DoLock
    <3>10. Promise!Told(w, src, type, n) = {src} \cup {q[i].src : i \in 1 .. n}
      BY <1>4 DEF Promise!Told, q
    <3>11. Served(u, n) \in Window
      BY <3>1, <3>3, ServedFields
    <3>12. Agrees(n)
      <4> HIDE DEF d
      <4> QED BY <1>4, <3>2, <3>7, <3>8, <3>9, <3>10, <3>11
    <3> QED BY <3>3, <3>12 DEF q
  <2> QED BY <2>3, <2>4
<1> QED BY <1>2, <1>3, <1>4

-----------------------------------------------------------------------------
(***************************************************************************)
(* Steps that have nothing to do with locks.                               *)
(***************************************************************************)
OfLocks == {"lock", "grant"}

\* A message that is not about locks is sent, or received.
QuietChange(s, t) ==
  \/ t = s
  \/ \E m : m.kind \notin OfLocks /\ t = Append(s, m)
  \/ s # << >> /\ Head(s).kind \notin OfLocks /\ t = Tail(s)

QuietWire == /\ wire' = [a \in Proc |-> [b \in Proc |-> wire'[a][b]]]
             /\ \A a, b \in Proc : QuietChange(wire[a][b], wire'[a][b])

\* p goes on in a call, or completes one that is not about a lock.
QuietCall(p) ==
  /\ pc' = [q \in Proc |-> pc'[q]]
  /\ \A q \in Proc \ {p} : Waiting(q)' <=> Waiting(q)
  /\ \/ todo' = todo /\ (Waiting(p)' <=> Waiting(p))
     \/ /\ ~Waiting(p) /\ ~Waiting(p)'
        /\ todo[p] # << >> /\ Call(p).op \notin {"lock", "unlock"}
        /\ todo' = [todo EXCEPT ![p] = Tail(@)]

\* The messages about locks stay, though all may move up by one place.
LEMMA QuietPlaces ==
  ASSUME NEW s, IsSeq(s), NEW t, QuietChange(s, t)
  PROVE  /\ IsSeq(t)
         /\ \E d \in {0, 1} : \A k \in OfLocks :
              /\ Places(t, k) = {i - d : i \in Places(s, k)}
              /\ \A i \in Places(s, k) : t[i - d] = s[i]
<1>1. CASE t = s
  <2>1. \A k : Places(s, k) \subseteq Int
    BY <1>1 DEF IsSeq, Places
  <2>2. \A k \in OfLocks : /\ Places(t, k) = {i - 0 : i \in Places(s, k)}
                           /\ \A i \in Places(s, k) : t[i - 0] = s[i]
    BY <1>1, <2>1
  <2> QED BY <1>1, <2>2
<1>2. ASSUME NEW m, m.kind \notin OfLocks, t = Append(s, m)
      PROVE  IsSeq(t) /\ \A k \in OfLocks : /\ Places(t, k) = {i - 0 : i \in Places(s, k)}
                                            /\ \A i \in Places(s, k) : t[i - 0] = s[i]
  <2>1. /\ IsSeq(t) /\ Len(s) \in Nat
        /\ DOMAIN s = 1 .. Len(s) /\ DOMAIN t = 1 .. Len(s) + 1
        /\ \A i \in 1 .. Len(s) : t[i] = s[i]
        /\ t[Len(s) + 1] = m
    BY <1>2, AddMessage
  <2>2. ASSUME NEW k \in OfLocks
        PROVE  /\ Places(t, k) = {i - 0 : i \in Places(s, k)}
               /\ \A i \in Places(s, k) : t[i - 0] = s[i]
    BY <1>2, <2>1 DEF Places
  <2> QED BY <2>1, <2>2
<1>3. ASSUME s # << >>, Head(s).kind \notin OfLocks, t = Tail(s)
      PROVE  IsSeq(t) /\ \A k \in OfLocks : /\ Places(t, k) = {i - 1 : i \in Places(s, k)}
                                            /\ \A i \in Places(s, k) : t[i - 1] = s[i]
  <2>1. /\ IsSeq(t) /\ Len(s) \in Nat \ {0}
        /\ DOMAIN s = 1 .. Len(s) /\ DOMAIN t = 1 .. Len(s) - 1
        /\ \A i \in 1 .. Len(s) - 1 : t[i] = s[i + 1]
        /\ s[1].kind \notin OfLocks
    BY <1>3, TakeMessage
  <2>2. ASSUME NEW k \in OfLocks, NEW i \in Places(s, k)
        PROVE  i \in 2 .. Len(s) /\ i - 1 \in Places(t, k) /\ t[i - 1] = s[i]
    <3>1. i \in 1 .. Len(s) /\ s[i].kind = k /\ i # 1
      BY <2>1, <2>2 DEF Places
    <3>2. i - 1 \in 1 .. Len(s) - 1 /\ (i - 1) + 1 = i
      BY <2>1, <3>1
    <3> QED BY <2>1, <3>1, <3>2 DEF Places
  <2>3. ASSUME NEW k \in OfLocks, NEW j \in Places(t, k)
        PROVE  j \in {i - 1 : i \in Places(s, k)}
    <3>1. j \in 1 .. Len(s) - 1 /\ t[j].kind = k
      BY <2>1 DEF Places
    <3>2. j + 1 \in Places(s, k) /\ (j + 1) - 1 = j
      BY <2>1, <3>1 DEF Places
    <3> QED BY <3>2
  <2>4. ASSUME NEW k \in OfLocks PROVE Places(t, k) = {i - 1 : i \in Places(s, k)}
    BY <2>2, <2>3
  <2> QED BY <2>1, <2>2, <2>4
<1> QED BY <1>1, <1>2, <1>3 DEF QuietChange

\* Some calls are in turn after the first when the locks had are those after it.
LEMMA TailInTurn ==
  ASSUME NEW calls \in Seq(CallType), calls # << >>, NEW held, NEW after,
         LocksInTurn(calls, held),
         \A r \in Proc : r \in after <=> IF OnLock(calls, 1, r) THEN calls[1].op = "lock"
                                         ELSE r \in held
  PROVE  LocksInTurn(Tail(calls), after)
<1> DEFINE t == Tail(calls)
<1> SUFFICES ASSUME NEW r \in Proc, NEW j \in DOMAIN t, OnLock(t, j, r)
             PROVE  t[j].op = "unlock" <=>
                    \/ r \in after /\ \A i \in 1 .. j - 1 : ~OnLock(t, i, r)
                    \/ \E i \in 1 .. j - 1 : /\ OnLock(t, i, r) /\ t[i].op = "lock"
                                            /\ \A k \in i + 1 .. j - 1 : ~OnLock(t, k, r)
  BY DEF LocksInTurn
<1>1. /\ Len(calls) \in Nat \ {0} /\ DOMAIN calls = 1 .. Len(calls) /\ DOMAIN t = 1 .. Len(calls) - 1
      /\ \A i \in 1 .. Len(calls) - 1 : t[i] = calls[i + 1]
  OBVIOUS
<1> HIDE DEF t
<1>2. /\ j \in Nat \ {0} /\ j + 1 \in DOMAIN calls /\ t[j] = calls[j + 1]
      /\ OnLock(calls, j + 1, r)
  BY <1>1 DEF OnLock
<1>3. \A i \in 1 .. j - 1 : /\ t[i] = calls[i + 1] /\ i + 1 \in 2 .. j
                            /\ OnLock(t, i, r) <=> OnLock(calls, i + 1, r)
  BY <1>1, <1>2 DEF OnLock
<1>4. \A i \in 2 .. j : /\ i - 1 \in 1 .. j - 1 /\ (i - 1) + 1 = i
  BY <1>2
<1>5. calls[j + 1].op = "unlock" <=>
        \/ r \in held /\ \A i \in 1 .. j : ~OnLock(calls, i, r)
        \/ \E i \in 1 .. j : /\ OnLock(calls, i, r) /\ calls[i].op = "lock"
                             /\ \A k \in i + 1 .. j : ~OnLock(calls, k, r)
  <2>1. (j + 1) - 1 = j
    BY <1>2
  <2> QED BY <1>2, <2>1 DEF LocksInTurn
<1> DEFINE None == \A i \in 2 .. j : ~OnLock(calls, i, r)
           Some == \E i \in 2 .. j : /\ OnLock(calls, i, r) /\ calls[i].op = "lock"
                                     /\ \A k \in i + 1 .. j : ~OnLock(calls, k, r)
<1>6. (\A i \in 1 .. j - 1 : ~OnLock(t, i, r)) <=> None
  BY <1>3, <1>4
<1>7. (\E i \in 1 .. j - 1 : /\ OnLock(t, i, r) /\ t[i].op = "lock"
                             /\ \A k \in i + 1 .. j - 1 : ~OnLock(t, k, r)) <=> Some
  <2>1. ASSUME NEW i \in 1 .. j - 1
        PROVE  (\A k \in i + 1 .. j - 1 : ~OnLock(t, k, r)) <=>
               (\A k \in (i + 1) + 1 .. j : ~OnLock(calls, k, r))
    <3>1. \A k \in i + 1 .. j - 1 : k \in 1 .. j - 1 /\ k + 1 \in (i + 1) + 1 .. j
      BY <1>2
    <3>2. \A k \in (i + 1) + 1 .. j : k \in 2 .. j /\ k - 1 \in i + 1 .. j - 1
      BY <1>2
    <3> QED BY <1>3, <1>4, <3>1, <3>2
  <2> QED BY <1>3, <1>4, <2>1
<1>8. /\ (\A i \in 1 .. j : ~OnLock(calls, i, r)) <=> ~OnLock(calls, 1, r) /\ None
      /\ (\E i \in 1 .. j : /\ OnLock(calls, i, r) /\ calls[i].op = "lock"
                            /\ \A k \in i + 1 .. j : ~OnLock(calls, k, r)) <=>
           Some \/ (OnLock(calls, 1, r) /\ calls[1].op = "lock" /\ None)
  <2>1. 1 .. j = {1} \cup 2 .. j /\ 1 + 1 .. j = 2 .. j
    BY <1>2
  <2> QED BY <2>1
<1> QED
  <2> HIDE DEF None, Some
  <2> QED BY <1>2, <1>5, <1>6, <1>7, <1>8

\* Between the places of a request and what they say nothing changes but the numbers of
\* the messages.
LEMMA QuietTicket ==
  ASSUME LockTypes, NEW p \in Proc, NEW r \in Proc, Ticket(p, r), QuietWire,
         UNCHANGED <<win, lock_granted>>,
         Waiting(p)' <=> Waiting(p), Waiting(p) => todo'[p] = todo[p]
  PROVE  /\ Ticket(p, r)'
         /\ AskedAt(p, r)' = {} <=> AskedAt(p, r) = {}
         /\ QueuedAt(p, r)' = QueuedAt(p, r)
<1>1. PICK d \in {0, 1} : /\ AskedAt(p, r)' = {i - d : i \in AskedAt(p, r)}
                          /\ \A i \in AskedAt(p, r) : wire'[p][r][i - d] = wire[p][r][i]
  <2>1. IsSeq(wire[p][r]) /\ QuietChange(wire[p][r], wire'[p][r])
    BY DEF LockTypes, QuietWire
  <2> QED BY <2>1, QuietPlaces DEF AskedAt, OfLocks
<1>2. PICK e \in {0, 1} : GrantedAt(p, r)' = {i - e : i \in GrantedAt(p, r)}
  <2>1. IsSeq(wire[r][p]) /\ QuietChange(wire[r][p], wire'[r][p])
    BY DEF LockTypes, QuietWire
  <2> QED BY <2>1, QuietPlaces DEF GrantedAt, OfLocks
<1>3. QueuedAt(p, r)' = QueuedAt(p, r) /\ win' = win /\ lock_granted' = lock_granted
  BY DEF QueuedAt
<1>4. Waiting(p) => LockType(p)' = LockType(p) /\ Call(p)' = Call(p)
  BY DEF LockType, Call
<1>5. AskedAt(p, r) \cup QueuedAt(p, r) \cup GrantedAt(p, r) # {} =>
        Waiting(p) /\ Call(p).rank = r /\ ~lock_granted[p]
  BY DEF Ticket
<1>6. (\A i, j \in AskedAt(p, r)' : i = j) /\ (\A i, j \in GrantedAt(p, r)' : i = j)
      /\ (\A i, j \in QueuedAt(p, r)' : i = j)
  BY <1>1, <1>2, <1>3 DEF Ticket
<1>7. /\ AskedAt(p, r)' = {} <=> AskedAt(p, r) = {}
      /\ GrantedAt(p, r)' = {} <=> GrantedAt(p, r) = {}
  BY <1>1, <1>2
<1>8. \A i \in AskedAt(p, r)' : wire'[p][r][i].type = LockType(p)'
  <2>1. ASSUME NEW i \in AskedAt(p, r) PROVE wire'[p][r][i - d].type = LockType(p)'
    BY <1>1, <1>4, <1>5 DEF Ticket
  <2> QED BY <1>1, <2>1
<1>9. \A i \in QueuedAt(p, r)' : win'[r].lock_q[i].type = LockType(p)'
  BY <1>3, <1>4, <1>5 DEF Ticket
<1>10. AskedAt(p, r)' \cup QueuedAt(p, r)' \cup GrantedAt(p, r)' # {} =>
         Waiting(p)' /\ Call(p).rank' = r /\ ~lock_granted'[p]
  BY <1>3, <1>4, <1>5, <1>7
<1>11. /\ AskedAt(p, r)' # {} => QueuedAt(p, r)' = {} /\ GrantedAt(p, r)' = {} /\ p # r
       /\ QueuedAt(p, r)' # {} => GrantedAt(p, r)' = {}
  BY <1>3, <1>7 DEF Ticket
<1> QED BY <1>3, <1>6, <1>7, <1>8, <1>9, <1>10, <1>11 DEF Ticket

\* The calls of a process stay in turn.
LEMMA QuietInCall ==
  ASSUME LockTypes, NEW p \in Proc, NEW q \in Proc, InCall(q), QuietCall(p),
         UNCHANGED <<lock_granted, holds>>
  PROVE  /\ InCall(q)' /\ todo' \in [Proc -> Seq(CallType)]
         /\ Waiting(q)' <=> Waiting(q)
         /\ Waiting(q) => todo'[q] = todo[q]
<1>1. \A r : Holding(q, r)' <=> Holding(q, r)
  BY DEF Holding
<1>2. CASE todo'[q] = todo[q] /\ (Waiting(q)' <=> Waiting(q)) /\ todo' \in [Proc -> Seq(CallType)]
  <2>1. Had(q)' = Had(q)
    BY <1>1, <1>2 DEF Had, Call
  <2> QED BY <1>1, <1>2, <2>1 DEF InCall, Call
<1>3. CASE /\ q = p /\ ~Waiting(p) /\ ~Waiting(p)' /\ todo[p] # << >>
           /\ Call(p).op \notin {"lock", "unlock"} /\ todo' = [todo EXCEPT ![p] = Tail(@)]
  <2>1. Had(p) = {r \in Proc : Holding(p, r)} /\ Had(p)' = Had(p)
    BY <1>1, <1>3 DEF Had
  <2>2. todo[p] \in Seq(CallType) /\ todo' \in [Proc -> Seq(CallType)] /\ todo'[p] = Tail(todo[p])
    BY <1>3 DEF LockTypes
  <2>3. \A r : ~OnLock(todo[p], 1, r)
    BY <1>3, <2>2 DEF OnLock, Call
  <2>4. LocksInTurn(Tail(todo[p]), Had(p))
    BY <1>3, <2>2, <2>3, TailInTurn DEF InCall
  <2> QED BY <1>1, <1>3, <2>1, <2>2, <2>4 DEF InCall
<1>4. todo' = todo => todo' \in [Proc -> Seq(CallType)]
  BY DEF LockTypes
<1>5. q # p => todo'[q] = todo[q] /\ todo' \in [Proc -> Seq(CallType)]
  <2>1. todo \in [Proc -> Seq(CallType)]
    BY DEF LockTypes
  <2>2. todo[p] # << >> => Tail(todo[p]) \in Seq(CallType)
    BY <2>1
  <2>3. todo' = todo \/ (todo[p] # << >> /\ todo' = [todo EXCEPT ![p] = Tail(@)])
    BY DEF QuietCall
  <2> QED BY <2>1, <2>2, <2>3
<1> QED BY <1>2, <1>3, <1>4, <1>5 DEF QuietCall

\* A step that is not about locks keeps the invariant, and is none of WinLock.
LEMMA QuietKeeps ==
  ASSUME IInv, NEW p \in Proc, QuietCall(p), QuietWire, UNCHANGED <<win, lock_granted, holds>>
  PROVE  IInv' /\ UNCHANGED <<win, call, holds>>
<1>1. \A q \in Proc : /\ InCall(q)' /\ todo' \in [Proc -> Seq(CallType)]
                      /\ Waiting(q)' <=> Waiting(q)
                      /\ Waiting(q) => todo'[q] = todo[q]
  BY QuietInCall DEF IInv
<1>2. \A q, r \in Proc : /\ Ticket(q, r)'
                         /\ AskedAt(q, r)' = {} <=> AskedAt(q, r) = {}
                         /\ QueuedAt(q, r)' = QueuedAt(q, r)
  BY <1>1, QuietTicket DEF IInv
<1>3. LockTypes'
  <2>1. \A a, b \in Proc : IsSeq(wire'[a][b])
    BY QuietPlaces DEF IInv, LockTypes, QuietWire
  <2> QED BY <1>1, <2>1 DEF IInv, LockTypes, QuietWire, QuietCall
<1>4. call' = call
  <2>1. \A q, r \in Proc : (Asked(q, r)' <=> Asked(q, r)) /\ (Queued(q, r)' <=> Queued(q, r))
    BY <1>2 DEF Asked, Queued, AskedAt, QueuedAt, Places
  <2>2. \A q \in Proc : Waiting(q) => todo[q] # << >> /\ Call(q).rank \in Proc
    <3> TAKE q \in Proc
    <3> HAVE Waiting(q)
    <3>1. todo[q] \in Seq(CallType) /\ todo[q] # << >> /\ Call(q).op \in {"lock", "unlock"}
      BY DEF IInv, LockTypes, InCall
    <3>2. Call(q) \in CallType
      BY <3>1 DEF Call
    <3>3. Call(q).rank \in Proc
      BY <3>1, <3>2 DEF CallType
    <3> QED BY <3>1, <3>3
  <2>3. ASSUME NEW q \in Proc PROVE call'[q] = call[q]
    <3>1. CASE Waiting(q)
      <4>1. todo'[q] = todo[q] /\ Waiting(q)' /\ Call(q)' = Call(q) /\ LockType(q)' = LockType(q)
        BY <1>1, <3>1 DEF Call, LockType
      <4>2. (Asked(q, Call(q).rank))' <=> Asked(q, Call(q).rank)
        BY <2>1, <2>2, <3>1, <4>1
      <4>3. (Queued(q, Call(q).rank))' <=> Queued(q, Call(q).rank)
        BY <2>1, <2>2, <3>1, <4>1
      <4> QED BY <3>1, <4>1, <4>2, <4>3 DEF call, Waiting, At
    <3>2. CASE ~Waiting(q)
      BY <1>1, <3>2 DEF call, Waiting, At
    <3> QED BY <3>1, <3>2
  <2> QED BY <2>3 DEF call
<1> QED BY <1>1, <1>2, <1>3, <1>4 DEF IInv

\* The three things that happen to the messages.
LEMMA NothingSent ==
  ASSUME LockTypes, UNCHANGED wire
  PROVE  QuietWire
BY DEF LockTypes, QuietWire, QuietChange

\* A message that is not about locks is sent: Send().
LEMMA QuietlySent ==
  ASSUME LockTypes, NEW p \in Proc, NEW q, NEW m, m.kind \notin OfLocks, Send(p, q, m)
  PROVE  QuietWire
<1>1. wire = [a \in Proc |-> [b \in Proc |-> wire[a][b]]]
  BY DEF LockTypes
<1>2. wire' = [wire EXCEPT ![p][q] = Append(@, m)]
  BY DEF Send
<1>3. wire' = [a \in Proc |-> [b \in Proc |-> IF a = p /\ b = q THEN Append(wire[a][b], m)
                                             ELSE wire[a][b]]]
  BY <1>1, <1>2
<1>4. \A a, b \in Proc : QuietChange(wire[a][b], wire'[a][b])
  BY <1>3 DEF QuietChange
<1> QED BY <1>3, <1>4 DEF QuietWire

\* A message that is not about locks is taken: Consume().
LEMMA QuietlyReceived ==
  ASSUME LockTypes, NEW p \in Proc, NEW q \in Proc, wire[q][p] # << >>,
         Head(wire[q][p]).kind \notin OfLocks, Consume(q, p)
  PROVE  QuietWire
<1>1. wire = [a \in Proc |-> [b \in Proc |-> wire[a][b]]]
  BY DEF LockTypes
<1>2. wire' = [wire EXCEPT ![q][p] = Tail(@)]
  BY DEF Consume
<1>3. wire' = [a \in Proc |-> [b \in Proc |-> IF a = q /\ b = p THEN Tail(wire[a][b])
                                             ELSE wire[a][b]]]
  BY <1>1, <1>2
<1>4. \A a, b \in Proc : QuietChange(wire[a][b], wire'[a][b])
  BY <1>3 DEF QuietChange
<1> QED BY <1>3, <1>4 DEF QuietWire

\* The three things that happen to the calls.
LEMMA NoCallMoves ==
  ASSUME LockTypes, NEW p \in Proc, UNCHANGED <<todo, pc>>
  PROVE  QuietCall(p)
BY DEF LockTypes, QuietCall, Waiting

\* A call that is not about locks returns.
LEMMA QuietReturn ==
  ASSUME LockTypes, NEW p \in Proc, InCall(p), NEW ops, Calls(p, ops),
         "lock" \notin ops, "unlock" \notin ops, Return(p)
  PROVE  QuietCall(p)
<1>1. todo[p] # << >> /\ Call(p).op \notin {"lock", "unlock"} /\ ~Waiting(p)
  BY DEF Calls, InCall, Call
<1>2. pc' = [pc EXCEPT ![p] = Run] /\ todo' = [todo EXCEPT ![p] = Tail(@)]
  BY DEF Return
<1>3. pc' = [q \in Proc |-> IF q = p THEN Run ELSE pc[q]]
  BY <1>2 DEF LockTypes
<1>4. ~Waiting(p)' /\ \A q \in Proc \ {p} : Waiting(q)' <=> Waiting(q)
  BY <1>3 DEF Waiting, Run
<1> QED BY <1>1, <1>2, <1>3, <1>4 DEF QuietCall

\* A call that is not about locks goes on to another of its places.
LEMMA QuietGoto ==
  ASSUME LockTypes, NEW p \in Proc, InCall(p), NEW ops, Calls(p, ops),
         "lock" \notin ops, "unlock" \notin ops, NEW at, NEW i, at # "granted", Goto(p, at, i)
  PROVE  QuietCall(p)
<1>1. ~Waiting(p)
  BY DEF Calls, InCall, Call
<1>2. pc' = [pc EXCEPT ![p] = [at |-> at, i |-> i]] /\ todo' = todo
  BY DEF Goto
<1>3. pc' = [q \in Proc |-> IF q = p THEN [at |-> at, i |-> i] ELSE pc[q]]
  BY <1>2 DEF LockTypes
<1>4. ~Waiting(p)' /\ \A q \in Proc \ {p} : Waiting(q)' <=> Waiting(q)
  BY <1>3 DEF Waiting
<1> QED BY <1>1, <1>2, <1>3, <1>4 DEF QuietCall

\* Every step but those of the locks is quiet.
QuietProgram(p) ==
  \/ APut(p) \/ AGet(p) \/ WaitOne(p) \/ WaitHead(p)
  \/ FenceSend(p) \/ FenceFlag(p)
  \/ PostSend(p) \/ PostMark(p) \/ Start(p) \/ CompleteSend(p) \/ CompleteReset(p)
  \/ WinWait(p)

QuietHandle(q, p) ==
  \/ RecvPut(q, p) \/ RecvFlag(q, p) \/ RecvGet(q, p)
  \/ RecvReply(q, p) \/ RecvPost(q, p) \/ RecvComplete(q, p)

\* The calls but MP_Win_lock() and MP_Win_unlock() leave the locks alone.
LEMMA ProgramIsQuiet ==
  ASSUME IInv, NEW p \in Proc, QuietProgram(p)
  PROVE  QuietCall(p) /\ QuietWire /\ UNCHANGED <<win, lock_granted, holds>>
<1>i. LockTypes /\ InCall(p)
  BY DEF IInv
<1>1. CASE APut(p)
  <2>1. QuietCall(p)
    BY <1>i, <1>1, QuietReturn DEF APut
  <2>2. QuietWire
    BY <1>i, <1>1, NothingSent, QuietlySent DEF APut, PutMsg, OfLocks
  <2> QED BY <1>1, <2>1, <2>2 DEF APut, lockVars
<1>2. CASE AGet(p)
  <2>1. QuietCall(p)
    BY <1>i, <1>2, QuietReturn DEF AGet
  <2>2. QuietWire
    BY <1>i, <1>2, NothingSent, QuietlySent DEF AGet, OfLocks
  <2> QED BY <1>2, <2>1, <2>2 DEF AGet, lockVars
<1>3. CASE WaitOne(p)
  <2>1. QuietCall(p)
    BY <1>i, <1>3, QuietReturn DEF WaitOne
  <2>2. QuietWire /\ UNCHANGED lockVars
    BY <1>i, <1>3, NothingSent DEF WaitOne, Wait
  <2> QED BY <2>1, <2>2 DEF lockVars
<1>4. CASE WaitHead(p)
  <2>1. QuietCall(p)
    BY <1>i, <1>4, NoCallMoves DEF WaitHead
  <2>2. QuietWire /\ UNCHANGED lockVars
    BY <1>i, <1>4, NothingSent DEF WaitHead, Wait
  <2> QED BY <2>1, <2>2 DEF lockVars
<1>5. CASE FenceSend(p)
  <2>1. QuietCall(p)
    BY <1>i, <1>5, QuietGoto DEF FenceSend
  <2>2. QuietWire
    BY <1>i, <1>5, NothingSent, QuietlySent DEF FenceSend, OfLocks
  <2> QED BY <1>5, <2>1, <2>2 DEF FenceSend, lockVars
<1>6. CASE FenceFlag(p)
  <2>1. QuietCall(p)
    BY <1>i, <1>6, QuietGoto, QuietReturn DEF FenceFlag
  <2>2. QuietWire
    BY <1>i, <1>6, NothingSent DEF FenceFlag
  <2> QED BY <1>6, <2>1, <2>2 DEF FenceFlag, lockVars
<1>7. CASE PostSend(p)
  <2>1. QuietCall(p)
    BY <1>i, <1>7, QuietGoto, QuietReturn DEF PostSend
  <2>2. QuietWire
    BY <1>i, <1>7, NothingSent, QuietlySent DEF PostSend, OfLocks
  <2> QED BY <1>7, <2>1, <2>2 DEF PostSend, lockVars
<1>8. CASE PostMark(p)
  <2>1. QuietCall(p)
    BY <1>i, <1>8, QuietGoto DEF PostMark
  <2>2. QuietWire
    BY <1>i, <1>8, NothingSent DEF PostMark
  <2> QED BY <1>8, <2>1, <2>2 DEF PostMark, lockVars
<1>9. CASE Start(p)
  <2>1. QuietCall(p)
    BY <1>i, <1>9, QuietReturn DEF Start
  <2>2. QuietWire
    BY <1>i, <1>9, NothingSent DEF Start
  <2> QED BY <1>9, <2>1, <2>2 DEF Start, lockVars
<1>10. CASE CompleteSend(p)
  <2>1. QuietCall(p)
    BY <1>i, <1>10, QuietGoto, QuietReturn DEF CompleteSend
  <2>2. QuietWire
    BY <1>i, <1>10, NothingSent, QuietlySent DEF CompleteSend, SendComplete, OfLocks
  <2> QED BY <1>10, <2>1, <2>2 DEF CompleteSend, lockVars
<1>11. CASE CompleteReset(p)
  <2>1. QuietCall(p)
    BY <1>i, <1>11, QuietGoto DEF CompleteReset
  <2>2. QuietWire
    BY <1>i, <1>11, NothingSent DEF CompleteReset
  <2> QED BY <1>11, <2>1, <2>2 DEF CompleteReset, lockVars
<1>12. CASE WinWait(p)
  <2>1. QuietCall(p)
    BY <1>i, <1>12, QuietReturn DEF WinWait
  <2>2. QuietWire
    BY <1>i, <1>12, NothingSent DEF WinWait
  <2> QED BY <1>12, <2>1, <2>2 DEF WinWait, lockVars
<1> QED BY <1>1, <1>2, <1>3, <1>4, <1>5, <1>6, <1>7, <1>8, <1>9, <1>10, <1>11, <1>12
        DEF QuietProgram

\* So does the handler but for requests and answers.
LEMMA HandleIsQuiet ==
  ASSUME IInv, NEW p \in Proc, NEW q \in Proc \ {p}, QuietHandle(q, p)
  PROVE  QuietCall(p) /\ QuietWire /\ UNCHANGED <<win, lock_granted, holds>>
<1>i. LockTypes
  BY DEF IInv
<1>1. QuietCall(p) /\ UNCHANGED <<win, lock_granted, holds>>
  BY <1>i, NoCallMoves DEF QuietHandle, RecvPut, RecvFlag, RecvGet, RecvReply, RecvPost,
                           RecvComplete, progVars, lockVars
<1>2. CASE RecvPut(q, p) \/ RecvFlag(q, p) \/ RecvReply(q, p) \/ RecvPost(q, p) \/ RecvComplete(q, p)
  <2>1. /\ Consume(q, p)
        /\ \/ Comes(q, p, "put") \/ Comes(q, p, "flag") \/ Comes(q, p, "reply")
           \/ Comes(q, p, "post") \/ Comes(q, p, "complete")
    BY <1>2 DEF RecvPut, RecvFlag, RecvReply, RecvPost, RecvComplete
  <2>2. wire[q][p] # << >> /\ Head(wire[q][p]).kind \notin OfLocks
    BY <2>1 DEF Comes, OfLocks
  <2> QED BY <1>i, <1>1, <2>1, <2>2, QuietlyReceived
<1>3. CASE RecvGet(q, p)
  <2> DEFINE m == [kind |-> "reply", num |-> Msg(q, p).num, val |-> mem[p]]
  <2>1. wire = [a \in Proc |-> [b \in Proc |-> wire[a][b]]]
    BY <1>i DEF LockTypes
  <2>2. /\ wire' = [wire EXCEPT ![q][p] = Tail(@), ![p][q] = Append(@, m)]
        /\ wire[q][p] # << >> /\ Head(wire[q][p]).kind = "get"
    BY <1>3 DEF RecvGet, Comes
  <2>3. m.kind \notin OfLocks
    BY DEF OfLocks
  <2> HIDE DEF m
  <2>4. wire' = [a \in Proc |-> [b \in Proc |->
                   CASE a = q /\ b = p -> Tail(wire[a][b])
                     [] a = p /\ b = q -> Append(wire[a][b], m)
                     [] OTHER -> wire[a][b]]]
    BY <2>1, <2>2
  <2>5. \A a, b \in Proc : QuietChange(wire[a][b], wire'[a][b])
    <3> TAKE a \in Proc, b \in Proc
    <3>1. CASE a = q /\ b = p
      BY <2>2, <2>4, <3>1 DEF QuietChange, OfLocks
    <3>2. CASE a = p /\ b = q
      BY <2>3, <2>4, <3>2 DEF QuietChange
    <3>3. CASE ~(a = q /\ b = p) /\ ~(a = p /\ b = q)
      BY <2>4, <3>3 DEF QuietChange
    <3> QED BY <3>1, <3>2, <3>3
  <2>6. QuietWire
    BY <2>4, <2>5 DEF QuietWire
  <2> QED BY <1>1, <2>6
<1> QED BY <1>2, <1>3 DEF QuietHandle

-----------------------------------------------------------------------------
(***************************************************************************)
(* The steps of the locks.                                                 *)
(***************************************************************************)

\* A process that waits does so in a call on a lock of some window.
LEMMA WaitingCall ==
  ASSUME LockTypes, NEW p \in Proc, InCall(p), Waiting(p)
  PROVE  /\ todo[p] \in Seq(CallType) /\ todo[p] # << >> /\ Call(p) \in CallType
         /\ Call(p).rank \in Proc /\ LockType(p) \in 0 .. 2
         /\ LockType(p) = 0 <=> Call(p).op = "unlock"
<1>1. todo[p] \in Seq(CallType) /\ todo[p] # << >> /\ Call(p).op \in {"lock", "unlock"}
  BY DEF LockTypes, InCall
<1>2. Call(p) \in CallType
  BY <1>1 DEF Call
<1>3. Call(p).rank \in Proc /\ (Call(p).op = "lock" => Call(p).type \in {1, 2})
  BY <1>1, <1>2 DEF CallType
<1> QED BY <1>1, <1>2, <1>3 DEF LockType

\* A process that does not wait, or has its answer, has no request anywhere.
LEMMA NoTicket ==
  ASSUME NEW p, NEW r, Ticket(p, r), ~Waiting(p) \/ lock_granted[p] \/ Call(p).rank # r
  PROVE  AskedAt(p, r) = {} /\ QueuedAt(p, r) = {} /\ GrantedAt(p, r) = {}
BY DEF Ticket

\* A request whose place moves up is still where it was.
Moves(p, r, d, n, e) ==
  /\ AskedAt(p, r)' = {i - d : i \in AskedAt(p, r)}
  /\ \A i \in AskedAt(p, r) : wire'[p][r][i - d] = wire[p][r][i]
  /\ QueuedAt(p, r)' = {i - n : i \in QueuedAt(p, r)}
  /\ \A i \in QueuedAt(p, r) : win'[r].lock_q[i - n] = win[r].lock_q[i]
  /\ GrantedAt(p, r)' = {i - e : i \in GrantedAt(p, r)}
  /\ AskedAt(p, r) \cup QueuedAt(p, r) \cup GrantedAt(p, r) # {} =>
       /\ Waiting(p)' /\ todo'[p] = todo[p] /\ (lock_granted'[p] <=> lock_granted[p])

\* Then all that its places say is still true.
LEMMA TicketMoves ==
  ASSUME NEW p, NEW r, Ticket(p, r), NEW d, NEW n, NEW e, Moves(p, r, d, n, e)
  PROVE  /\ Ticket(p, r)'
         /\ AskedAt(p, r)' = {} <=> AskedAt(p, r) = {}
         /\ QueuedAt(p, r)' = {} <=> QueuedAt(p, r) = {}
<1>1. AskedAt(p, r) \cup QueuedAt(p, r) \cup GrantedAt(p, r) # {} =>
        /\ Waiting(p)' /\ Call(p)' = Call(p) /\ LockType(p)' = LockType(p)
        /\ Call(p).rank = r /\ ~lock_granted'[p]
  BY DEF Ticket, LockType, Call, Moves
<1>2. (\A i, j \in AskedAt(p, r)' : i = j) /\ (\A i, j \in GrantedAt(p, r)' : i = j)
      /\ (\A i, j \in QueuedAt(p, r)' : i = j)
  BY DEF Ticket, Moves
<1>3. /\ AskedAt(p, r)' = {} <=> AskedAt(p, r) = {}
      /\ QueuedAt(p, r)' = {} <=> QueuedAt(p, r) = {}
      /\ GrantedAt(p, r)' = {} <=> GrantedAt(p, r) = {}
  BY DEF Moves
<1>4. \A i \in AskedAt(p, r)' : wire'[p][r][i].type = LockType(p)'
  <2>1. ASSUME NEW i \in AskedAt(p, r) PROVE wire'[p][r][i - d].type = LockType(p)'
    BY <1>1 DEF Ticket, Moves
  <2> QED BY <2>1 DEF Moves
<1>5. \A i \in QueuedAt(p, r)' : win'[r].lock_q[i].type = LockType(p)'
  <2>1. ASSUME NEW i \in QueuedAt(p, r) PROVE win'[r].lock_q[i - n].type = LockType(p)'
    BY <1>1 DEF Ticket, Moves
  <2> QED BY <2>1 DEF Moves
<1>6. /\ AskedAt(p, r)' # {} => QueuedAt(p, r)' = {} /\ GrantedAt(p, r)' = {} /\ p # r
      /\ QueuedAt(p, r)' # {} => GrantedAt(p, r)' = {}
  BY <1>3 DEF Ticket
<1>7. AskedAt(p, r)' \cup QueuedAt(p, r)' \cup GrantedAt(p, r)' # {} =>
        Waiting(p)' /\ Call(p).rank' = r /\ ~lock_granted'[p]
  BY <1>1, <1>3
<1> QED BY <1>2, <1>3, <1>4, <1>5, <1>6, <1>7 DEF Ticket

\* The places in a stream that stays, is added to, or is taken from.
LEMMA PlacesSame ==
  ASSUME NEW s, IsSeq(s), NEW k
  PROVE  Places(s, k) = {i - 0 : i \in Places(s, k)} /\ \A i \in Places(s, k) : i \in Int /\ s[i - 0] = s[i]
<1>1. Places(s, k) \subseteq Int
  BY DEF IsSeq, Places
<1> QED BY <1>1

\* A message at the end is a new place of its kind.
LEMMA PlacesAdded ==
  ASSUME NEW s, IsSeq(s), NEW m, NEW k
  PROVE  /\ m.kind # k => Places(Append(s, m), k) = {i - 0 : i \in Places(s, k)}
         /\ m.kind = k => Places(Append(s, m), k) = Places(s, k) \cup {Len(s) + 1}
         /\ \A i \in Places(s, k) : Append(s, m)[i - 0] = s[i]
         /\ Append(s, m)[Len(s) + 1] = m
         /\ Len(s) \in Nat
<1> DEFINE t == Append(s, m)
<1>1. /\ Len(s) \in Nat /\ DOMAIN s = 1 .. Len(s) /\ DOMAIN t = 1 .. Len(s) + 1
      /\ \A i \in 1 .. Len(s) : t[i] = s[i]
      /\ t[Len(s) + 1] = m
  BY AddMessage
<1> HIDE DEF t
<1>2. ASSUME m.kind # k PROVE Places(t, k) = {i - 0 : i \in Places(s, k)}
  BY <1>1, <1>2 DEF Places
<1>3. ASSUME m.kind = k PROVE Places(t, k) = Places(s, k) \cup {Len(s) + 1}
  BY <1>1, <1>3 DEF Places
<1>4. \A i \in Places(s, k) : t[i - 0] = s[i]
  BY <1>1 DEF Places
<1> QED BY <1>1, <1>2, <1>3, <1>4 DEF t

\* Without its first message a stream has the other places, one lower.
LEMMA PlacesTaken ==
  ASSUME NEW s, IsSeq(s), s # << >>, NEW k
  PROVE  /\ Head(s).kind # k => /\ Places(Tail(s), k) = {i - 1 : i \in Places(s, k)}
                                /\ \A i \in Places(s, k) : Tail(s)[i - 1] = s[i]
         /\ Head(s).kind = k => 1 \in Places(s, k)
         /\ Places(s, k) = {1} => Places(Tail(s), k) = {}
<1> DEFINE t == Tail(s)
<1>1. /\ Len(s) \in Nat \ {0} /\ DOMAIN s = 1 .. Len(s) /\ DOMAIN t = 1 .. Len(s) - 1
      /\ \A i \in 1 .. Len(s) - 1 : t[i] = s[i + 1]
      /\ Head(s) = s[1]
  BY TakeMessage
<1> HIDE DEF t
<1>2. \A j \in Places(t, k) : j + 1 \in Places(s, k) /\ (j + 1) - 1 = j /\ j + 1 # 1
  BY <1>1 DEF Places
<1>3. ASSUME Head(s).kind # k, NEW i \in Places(s, k)
      PROVE  i - 1 \in Places(t, k) /\ t[i - 1] = s[i]
  <2>1. i \in 1 .. Len(s) /\ i # 1 /\ s[i].kind = k
    BY <1>1, <1>3 DEF Places
  <2>2. i - 1 \in 1 .. Len(s) - 1 /\ (i - 1) + 1 = i
    BY <1>1, <2>1
  <2> QED BY <1>1, <2>1, <2>2 DEF Places
<1>4. ASSUME Head(s).kind # k PROVE Places(t, k) = {i - 1 : i \in Places(s, k)}
  BY <1>2, <1>3, <1>4
<1>5. Head(s).kind = k => 1 \in Places(s, k)
  BY <1>1 DEF Places
<1>6. Places(s, k) = {1} => Places(t, k) = {}
  BY <1>2
<1> QED BY <1>3, <1>4, <1>5, <1>6 DEF t

\* The request of WinLock that p waits for, before and after a step.
LEMMA CallOf ==
  ASSUME NEW p \in Proc
  PROVE  /\ ~Waiting(p) => call[p] = Promise!NoCall
         /\ Waiting(p) /\ todo[p] # << >> =>
              call[p] = [stage |-> CASE AskedAt(p, Call(p).rank) # {}  -> "asked"
                                     [] QueuedAt(p, Call(p).rank) # {} -> "queued"
                                     [] OTHER                          -> "granted",
                         rank |-> Call(p).rank, type |-> LockType(p)]
<1>1. \A r : (Asked(p, r) <=> AskedAt(p, r) # {}) /\ (Queued(p, r) <=> QueuedAt(p, r) # {})
  BY DEF Asked, Queued, AskedAt, QueuedAt, Places
<1>2. ~Waiting(p) => call[p] = Promise!NoCall
  BY DEF call, Waiting, At, Promise!NoCall
<1>3. Waiting(p) /\ todo[p] # << >> =>
        call[p] = [stage |-> CASE Asked(p, Call(p).rank)  -> "asked"
                               [] Queued(p, Call(p).rank) -> "queued"
                               [] OTHER                   -> "granted",
                   rank |-> Call(p).rank, type |-> LockType(p)]
  BY DEF call, Waiting, At
<1> QED BY <1>1, <1>2, <1>3

\* The same after a step that leaves p in its call.
LEMMA CallOfNext ==
  ASSUME NEW p \in Proc
  PROVE  /\ ~Waiting(p)' => call'[p] = Promise!NoCall
         /\ Waiting(p)' /\ todo'[p] # << >> /\ todo'[p] = todo[p] =>
              \A r : r = Call(p).rank =>
              call'[p] = [stage |-> CASE AskedAt(p, r)' # {}  -> "asked"
                                      [] QueuedAt(p, r)' # {} -> "queued"
                                      [] OTHER                -> "granted",
                          rank |-> r, type |-> LockType(p)]
<1>1. \A r : (Asked(p, r)' <=> AskedAt(p, r)' # {}) /\ (Queued(p, r)' <=> QueuedAt(p, r)' # {})
  BY DEF Asked, Queued, AskedAt, QueuedAt, Places
<1>2. ~Waiting(p)' => call'[p] = Promise!NoCall
  BY DEF call, Waiting, At, Promise!NoCall
<1>3. ASSUME Waiting(p)', todo'[p] # << >>, todo'[p] = todo[p], NEW r, r = Call(p).rank
      PROVE  call'[p] = [stage |-> CASE AskedAt(p, r)' # {}  -> "asked"
                                     [] QueuedAt(p, r)' # {} -> "queued"
                                     [] OTHER                -> "granted",
                         rank |-> r, type |-> LockType(p)]
  <2>1. Call(p)' = Call(p) /\ LockType(p)' = LockType(p) /\ Call(p)'.rank = r
    BY <1>3 DEF Call, LockType
  <2>2. call'[p] = [stage |-> CASE Asked(p, Call(p).rank)'  -> "asked"
                                [] Queued(p, Call(p).rank)' -> "queued"
                                [] OTHER                    -> "granted",
                    rank |-> Call(p)'.rank, type |-> LockType(p)']
    BY <1>3 DEF call, Waiting, At
  <2>3. (Asked(p, Call(p).rank)' <=> Asked(p, r)') /\ (Queued(p, Call(p).rank)' <=> Queued(p, r)')
    BY <2>1
  <2> QED BY <1>1, <2>1, <2>2, <2>3
<1> QED BY <1>2, <1>3

\* A call of WinLock moves when its request does, or it starts or returns.
LEMMA CallSame ==
  ASSUME LockTypes, NEW p \in Proc, InCall(p), Waiting(p)' <=> Waiting(p),
         Waiting(p) => /\ todo'[p] = todo[p]
                       /\ AskedAt(p, Call(p).rank) = {} <=> \A r : r = Call(p).rank => AskedAt(p, r)' = {}
                       /\ QueuedAt(p, Call(p).rank) = {} <=> \A r : r = Call(p).rank => QueuedAt(p, r)' = {}
  PROVE  call'[p] = call[p]
<1>1. CASE ~Waiting(p)
  BY <1>1, CallOf, CallOfNext
<1>2. CASE Waiting(p)
  <2>1. todo[p] # << >>
    BY <1>2, WaitingCall
  <2>2. PICK r : r = Call(p).rank
    OBVIOUS
  <2>3. (AskedAt(p, r)' = {} <=> AskedAt(p, r) = {}) /\ (QueuedAt(p, r)' = {} <=> QueuedAt(p, r) = {})
    BY <1>2, <2>2
  <2>4. call'[p] = [stage |-> CASE AskedAt(p, r)' # {}  -> "asked"
                                [] QueuedAt(p, r)' # {} -> "queued"
                                [] OTHER                -> "granted",
                    rank |-> r, type |-> LockType(p)]
    BY <1>2, <2>1, <2>2, CallOfNext
  <2>5. call[p] = [stage |-> CASE AskedAt(p, r) # {}  -> "asked"
                               [] QueuedAt(p, r) # {} -> "queued"
                               [] OTHER               -> "granted",
                   rank |-> r, type |-> LockType(p)]
    BY <1>2, <2>1, <2>2, CallOf
  <2> QED BY <2>3, <2>4, <2>5
<1> QED BY <1>1, <1>2

\* No request is in no place.
LEMMA EmptyTicket ==
  ASSUME NEW p, NEW r, AskedAt(p, r)' = {}, QueuedAt(p, r)' = {}, GrantedAt(p, r)' = {}
  PROVE  Ticket(p, r)'
BY DEF Ticket

\* The queue of a window that stays.
LEMMA QueueSame ==
  ASSUME LockTypes, NEW p, NEW r \in Proc, win'[r] = win[r]
  PROVE  /\ QueuedAt(p, r)' = {i - 0 : i \in QueuedAt(p, r)} /\ QueuedAt(p, r)' = QueuedAt(p, r)
         /\ \A i \in QueuedAt(p, r) : win'[r].lock_q[i - 0] = win[r].lock_q[i]
<1>1. QueuedAt(p, r) \subseteq Int
  <2>1. win[r] \in Window
    BY DEF LockTypes
  <2>2. win[r].lock_q \in Seq(Entry)
    BY <2>1, Fields
  <2> QED BY <2>2 DEF QueuedAt
<1>2. QueuedAt(p, r)' = QueuedAt(p, r)
  BY DEF QueuedAt
<1> QED BY <1>1, <1>2

\* The answer comes: the flag is the answer.
LEMMA GrantComes ==
  ASSUME IInv, NEW p \in Proc, NEW q \in Proc \ {p}, RecvGrant(q, p)
  PROVE  IInv' /\ UNCHANGED <<win, call, holds>>
<1>i. LockTypes /\ (\A a \in Proc : InCall(a)) /\ (\A a, b \in Proc : Ticket(a, b))
  BY DEF IInv
<1>1. /\ wire[q][p] # << >> /\ Head(wire[q][p]).kind = "grant"
      /\ wire' = [wire EXCEPT ![q][p] = Tail(@)]
      /\ lock_granted' = [lock_granted EXCEPT ![p] = TRUE]
      /\ todo' = todo /\ pc' = pc /\ win' = win /\ holds' = holds
  BY DEF RecvGrant, Comes, Consume, progVars
<1>2. wire' = [a \in Proc |-> [b \in Proc |-> IF a = q /\ b = p THEN Tail(wire[a][b]) ELSE wire[a][b]]]
  <2>1. wire = [a \in Proc |-> [b \in Proc |-> wire[a][b]]]
    BY <1>i DEF LockTypes
  <2> QED BY <1>1, <2>1
<1>3. \A a, b \in Proc : IsSeq(wire[a][b])
  BY <1>i DEF LockTypes
<1>4. lock_granted' = [a \in Proc |-> IF a = p THEN TRUE ELSE lock_granted[a]]
  BY <1>1, <1>i DEF LockTypes
<1>5. 1 \in GrantedAt(p, q)
  BY <1>1, <1>3, PlacesTaken DEF GrantedAt
<1>6. /\ GrantedAt(p, q) = {1} /\ AskedAt(p, q) = {} /\ QueuedAt(p, q) = {}
      /\ Waiting(p) /\ Call(p).rank = q /\ ~lock_granted[p]
  BY <1>5, <1>i DEF Ticket
<1>7. \A a \in Proc : (Waiting(a)' <=> Waiting(a)) /\ Call(a)' = Call(a) /\ Had(a)' = Had(a)
  BY <1>1 DEF Waiting, Call, Had, Holding
<1>8. ASSUME NEW a \in Proc, NEW b \in Proc
      PROVE  /\ Ticket(a, b)'
             /\ AskedAt(a, b)' = {} <=> AskedAt(a, b) = {}
             /\ QueuedAt(a, b)' = {} <=> QueuedAt(a, b) = {}
  <2>0. /\ QueuedAt(a, b)' = {i - 0 : i \in QueuedAt(a, b)} /\ QueuedAt(a, b)' = QueuedAt(a, b)
        /\ \A i \in QueuedAt(a, b) : win'[b].lock_q[i - 0] = win[b].lock_q[i]
    BY <1>1, <1>i, QueueSame
  <2>1. CASE a = p /\ b = q
    <3>1. wire'[p][q] = wire[p][q] /\ wire'[q][p] = Tail(wire[q][p])
      BY <1>2
    <3>2. Places(wire[q][p], "grant") = {1} => Places(Tail(wire[q][p]), "grant") = {}
      BY <1>1, <1>3, PlacesTaken
    <3>3. AskedAt(p, q)' = AskedAt(p, q) /\ GrantedAt(p, q)' = {}
      BY <1>6, <3>1, <3>2 DEF AskedAt, GrantedAt
    <3> QED BY <1>6, <2>0, <2>1, <3>3, EmptyTicket
  <2>2. CASE ~(a = p /\ b = q)
    <3>1. PICK d \in {0, 1} : /\ AskedAt(a, b)' = {i - d : i \in AskedAt(a, b)}
                              /\ \A i \in AskedAt(a, b) : wire'[a][b][i - d] = wire[a][b][i]
      <4>1. CASE a = q /\ b = p
        <5>1. wire'[q][p] = Tail(wire[q][p])
          BY <1>2
        <5>2. /\ Places(Tail(wire[q][p]), "lock") = {i - 1 : i \in Places(wire[q][p], "lock")}
              /\ \A i \in Places(wire[q][p], "lock") : Tail(wire[q][p])[i - 1] = wire[q][p][i]
          BY <1>1, <1>3, PlacesTaken
        <5> QED BY <4>1, <5>1, <5>2 DEF AskedAt
      <4>2. CASE ~(a = q /\ b = p)
        BY <1>2, <1>3, <4>2, PlacesSame DEF AskedAt
      <4> QED BY <4>1, <4>2
    <3>2. GrantedAt(a, b)' = {i - 0 : i \in GrantedAt(a, b)}
      BY <1>2, <1>3, <2>2, PlacesSame DEF GrantedAt
    <3>3. AskedAt(a, b) \cup QueuedAt(a, b) \cup GrantedAt(a, b) # {} =>
            /\ Waiting(a)' /\ todo'[a] = todo[a] /\ (lock_granted'[a] <=> lock_granted[a])
      BY <1>1, <1>4, <1>6, <1>7, <1>i, <2>2 DEF Ticket
    <3>4. Moves(a, b, d, 0, 0)
      BY <2>0, <3>1, <3>2, <3>3 DEF Moves
    <3> QED BY <1>i, <3>4, TicketMoves
  <2> QED BY <2>1, <2>2
<1>9. \A a \in Proc : InCall(a)'
  <2> TAKE a \in Proc
  <2>1. \A r : Holding(a, r)' <=> Holding(a, r)
    BY <1>1 DEF Holding
  <2> QED BY <1>1, <1>4, <1>6, <1>7, <1>i, <2>1 DEF InCall
<1>10. LockTypes'
  <2>1. \A a, b \in Proc : IsSeq(wire'[a][b])
    BY <1>1, <1>2, <1>3, TakeMessage
  <2>2. wire' = [a \in Proc |-> [b \in Proc |-> wire'[a][b]]]
    BY <1>2
  <2>3. lock_granted' \in [Proc -> BOOLEAN]
    BY <1>4, <1>i DEF LockTypes
  <2> QED BY <1>1, <1>i, <2>1, <2>2, <2>3 DEF LockTypes
<1>11. call' = call
  <2>1. ASSUME NEW a \in Proc PROVE call'[a] = call[a]
    <3>1. Waiting(a) => Call(a).rank \in Proc
      BY <1>i, WaitingCall
    <3> QED BY <1>1, <1>7, <1>8, <1>i, <3>1, CallSame
  <2> QED BY <2>1 DEF call
<1> QED BY <1>1, <1>8, <1>9, <1>10, <1>11 DEF IInv

\* A request that is where it was.
LEMMA TicketStays ==
  ASSUME NEW p, NEW r, Ticket(p, r), AskedAt(p, r)' = AskedAt(p, r),
         QueuedAt(p, r)' = QueuedAt(p, r), GrantedAt(p, r)' = GrantedAt(p, r),
         \A i \in AskedAt(p, r) : wire'[p][r][i] = wire[p][r][i],
         win'[r] = win[r],
         AskedAt(p, r) \cup QueuedAt(p, r) \cup GrantedAt(p, r) # {} =>
           /\ Waiting(p)' /\ todo'[p] = todo[p] /\ (lock_granted'[p] <=> lock_granted[p])
  PROVE  Ticket(p, r)'
<1>1. AskedAt(p, r) \cup QueuedAt(p, r) \cup GrantedAt(p, r) # {} =>
        /\ Waiting(p)' /\ Call(p)' = Call(p) /\ LockType(p)' = LockType(p)
        /\ Call(p).rank = r /\ ~lock_granted'[p]
  BY DEF Ticket, LockType, Call
<1>2. \A i \in AskedAt(p, r) : wire'[p][r][i].type = LockType(p)'
  BY <1>1 DEF Ticket
<1>3. \A i \in QueuedAt(p, r) : win'[r].lock_q[i].type = LockType(p)'
  BY <1>1 DEF Ticket
<1> QED BY <1>1, <1>2, <1>3 DEF Ticket

\* The answer is taken: the call returns, with the lock or without.
LEMMA LockReturns ==
  ASSUME IInv, NEW p \in Proc, LockReturn(p)
  PROVE  IInv' /\ Promise!Return(p)
<1>i. LockTypes /\ (\A a \in Proc : InCall(a)) /\ (\A a, b \in Proc : Ticket(a, b))
  BY DEF IInv
<1>1. /\ Waiting(p) /\ lock_granted[p] /\ todo[p] # << >> /\ Call(p).op \in {"lock", "unlock"}
      /\ lock_granted' = [lock_granted EXCEPT ![p] = FALSE]
      /\ todo' = [todo EXCEPT ![p] = Tail(@)] /\ pc' = [pc EXCEPT ![p] = Run]
      /\ holds' = IF LockType(p) = 0 THEN holds
                  ELSE [holds EXCEPT ![p] = @ \cup {<<Call(p).rank, LockType(p)>>}]
      /\ wire' = wire /\ win' = win
  BY DEF LockReturn, Calls, Call, At, Waiting, Return
<1>2. /\ todo[p] \in Seq(CallType) /\ Call(p).rank \in Proc /\ LockType(p) \in 0 .. 2
      /\ LockType(p) = 0 <=> Call(p).op = "unlock"
      /\ ~Holding(p, Call(p).rank)
  BY <1>1, <1>i, WaitingCall DEF InCall
<1>3. /\ pc' = [a \in Proc |-> IF a = p THEN Run ELSE pc[a]]
      /\ lock_granted' = [a \in Proc |-> IF a = p THEN FALSE ELSE lock_granted[a]]
      /\ todo' = [a \in Proc |-> IF a = p THEN Tail(todo[p]) ELSE todo[a]]
  BY <1>1, <1>i DEF LockTypes
<1>4. /\ ~Waiting(p)' /\ ~lock_granted'[p] /\ todo'[p] = Tail(todo[p])
      /\ \A a \in Proc \ {p} : /\ Waiting(a)' <=> Waiting(a)
                               /\ todo'[a] = todo[a] /\ (lock_granted'[a] <=> lock_granted[a])
  BY <1>3 DEF Waiting, Run
<1>5. /\ holds' \in [Proc -> SUBSET (Proc \X {1, 2})]
      /\ \A a \in Proc \ {p} : holds'[a] = holds[a]
      /\ holds'[p] = holds[p] \cup IF LockType(p) = 0 THEN {} ELSE {<<Call(p).rank, LockType(p)>>}
  <2>1. LockType(p) # 0 => <<Call(p).rank, LockType(p)>> \in Proc \X {1, 2}
    BY <1>2
  <2> QED BY <1>1, <1>i, <2>1 DEF LockTypes
<1>6. \A r \in Proc : Holding(p, r)' <=> IF r = Call(p).rank THEN LockType(p) # 0 ELSE Holding(p, r)
  BY <1>2, <1>5 DEF Holding
<1>7. ASSUME NEW a \in Proc, NEW b \in Proc
      PROVE  /\ Ticket(a, b)' /\ AskedAt(a, b)' = AskedAt(a, b) /\ QueuedAt(a, b)' = QueuedAt(a, b)
             /\ a = p => AskedAt(a, b) = {} /\ QueuedAt(a, b) = {}
  <2>1. /\ AskedAt(a, b)' = AskedAt(a, b) /\ QueuedAt(a, b)' = QueuedAt(a, b)
        /\ GrantedAt(a, b)' = GrantedAt(a, b)
    BY <1>1 DEF AskedAt, QueuedAt, GrantedAt
  <2>2. CASE a = p
    <3>1. AskedAt(a, b) = {} /\ QueuedAt(a, b) = {} /\ GrantedAt(a, b) = {}
      BY <1>1, <1>i, <2>2, NoTicket
    <3> QED BY <2>1, <3>1, EmptyTicket
  <2>3. CASE a # p
    <3>1. AskedAt(a, b) \cup QueuedAt(a, b) \cup GrantedAt(a, b) # {} => Waiting(a)
      BY <1>i DEF Ticket
    <3> QED BY <1>1, <1>4, <1>i, <2>1, <2>3, <3>1, TicketStays
  <2> QED BY <2>2, <2>3
<1>8. ASSUME NEW a \in Proc PROVE InCall(a)'
  <2>1. CASE a = p
    <3>1. \A r \in Proc : OnLock(todo[p], 1, r) <=> r = Call(p).rank
      BY <1>1, <1>2 DEF OnLock, Call
    <3>2. \A r \in Proc : r \in Had(p)' <=> IF OnLock(todo[p], 1, r) THEN todo[p][1].op = "lock"
                                            ELSE r \in Had(p)
      BY <1>1, <1>2, <1>4, <1>6, <3>1 DEF Had, Call
    <3>3. LocksInTurn(Tail(todo[p]), Had(p)')
      BY <1>1, <1>2, <1>i, <3>2, TailInTurn DEF InCall
    <3> QED BY <1>4, <2>1, <3>3 DEF InCall
  <2>2. CASE a # p
    <3>1. Call(a)' = Call(a) /\ (Waiting(a)' <=> Waiting(a)) /\ \A r : Holding(a, r)' <=> Holding(a, r)
      BY <1>4, <1>5, <2>2 DEF Call, Holding
    <3>2. Had(a)' = Had(a)
      BY <3>1 DEF Had
    <3> QED BY <1>4, <1>i, <2>2, <3>1, <3>2 DEF InCall
  <2> QED BY <2>1, <2>2
<1>9. LockTypes'
  <2>1. todo' \in [Proc -> Seq(CallType)]
    <3>1. Tail(todo[p]) \in Seq(CallType)
      BY <1>1, <1>2
    <3> QED BY <1>3, <1>i, <3>1 DEF LockTypes
  <2>2. lock_granted' \in [Proc -> BOOLEAN] /\ pc' = [a \in Proc |-> pc'[a]]
    BY <1>3, <1>i DEF LockTypes
  <2> QED BY <1>1, <1>5, <1>i, <2>1, <2>2 DEF LockTypes
<1>10. Promise!Return(p)
  <2>1. call[p] = [stage |-> "granted", rank |-> Call(p).rank, type |-> LockType(p)]
    BY <1>1, <1>2, <1>7, CallOf
  <2>2. \A a \in Proc : call'[a] = IF a = p THEN Promise!NoCall ELSE call[a]
    <3> TAKE a \in Proc
    <3>1. CASE a = p
      BY <1>4, <3>1, CallOfNext
    <3>2. CASE a # p
      <4>1. Waiting(a) => Call(a).rank \in Proc
        BY <1>i, WaitingCall
      <4> QED BY <1>4, <1>7, <1>i, <3>2, <4>1, CallSame
    <3> QED BY <3>1, <3>2
  <2>3. call' = [call EXCEPT ![p] = Promise!NoCall]
    <3>1. call = [a \in Proc |-> call[a]] /\ call' = [a \in Proc |-> call'[a]]
      BY DEF call
    <3> HIDE DEF call
    <3> QED BY <2>2, <3>1
  <2> HIDE DEF call
  <2> QED BY <1>1, <2>1, <2>3 DEF Promise!Return
<1> QED BY <1>7, <1>8, <1>9, <1>10 DEF IInv

\* A call on a lock begins to wait.  Until then there is no request of it; what it asks
\* for is in turn; and the lock is not counted as had while it waits.
LEMMA LockCallWaits ==
  ASSUME IInv, NEW p \in Proc, LockCall(p)
  PROVE  /\ ~Waiting(p) /\ ~lock_granted[p] /\ call[p] = Promise!NoCall
         /\ Call(p).rank \in Proc /\ LockType(p) \in 0 .. 2
         /\ IF LockType(p) = 0 THEN Holding(p, Call(p).rank) ELSE ~Holding(p, Call(p).rank)
         /\ \A r \in Proc : AskedAt(p, r) = {} /\ QueuedAt(p, r) = {} /\ GrantedAt(p, r) = {}
         /\ todo' = todo /\ pc' = [a \in Proc |-> pc'[a]]
         /\ Waiting(p)' /\ \A a \in Proc \ {p} : Waiting(a)' <=> Waiting(a)
         /\ holds' \in [Proc -> SUBSET (Proc \X {1, 2})]
         /\ \A a \in Proc : (lock_granted'[a] => Waiting(a)') => InCall(a)'
<1>i. LockTypes /\ (\A a \in Proc : InCall(a)) /\ (\A a, b \in Proc : Ticket(a, b))
  BY DEF IInv
<1>r. PICK rank : rank = Call(p).rank
  OBVIOUS
<1>1. /\ todo[p] # << >> /\ Call(p).op \in {"lock", "unlock"} /\ pc[p].at = "run"
      /\ holds' = [holds EXCEPT ![p] = @ \ {<<rank, 1>>, <<rank, 2>>}]
      /\ pc' = [pc EXCEPT ![p] = [at |-> "granted", i |-> 0]] /\ todo' = todo
  BY <1>r DEF LockCall, Calls, Call, At, Goto
<1>2. ~Waiting(p) /\ ~lock_granted[p]
  BY <1>1, <1>i DEF Waiting, InCall
<1>3. /\ todo[p] \in Seq(CallType) /\ rank \in Proc /\ LockType(p) \in 0 .. 2
      /\ LockType(p) = 0 <=> Call(p).op = "unlock"
  <2>1. todo[p] \in Seq(CallType)
    BY <1>i DEF LockTypes
  <2>2. Call(p) \in CallType
    BY <1>1, <2>1 DEF Call
  <2>3. Call(p).rank \in Proc /\ (Call(p).op = "lock" => Call(p).type \in {1, 2})
    BY <1>1, <2>2 DEF CallType
  <2> QED BY <1>1, <1>r, <2>1, <2>3 DEF LockType
<1>4. Had(p) = {r \in Proc : Holding(p, r)}
  BY <1>2 DEF Had
<1>5. Call(p).op = "unlock" <=> rank \in Had(p)
  <2>1. 1 \in DOMAIN todo[p] /\ OnLock(todo[p], 1, rank) /\ todo[p][1] = Call(p)
    BY <1>1, <1>3, <1>r DEF OnLock, Call
  <2>2. 1 .. 1 - 1 = {}
    OBVIOUS
  <2> QED BY <1>3, <1>i, <2>1, <2>2 DEF InCall, LocksInTurn
<1>6. pc' = [a \in Proc |-> IF a = p THEN [at |-> "granted", i |-> 0] ELSE pc[a]]
  BY <1>1, <1>i DEF LockTypes
<1>7. Waiting(p)' /\ \A a \in Proc \ {p} : Waiting(a)' <=> Waiting(a)
  BY <1>6 DEF Waiting
<1>8. /\ holds' \in [Proc -> SUBSET (Proc \X {1, 2})]
      /\ \A a \in Proc \ {p} : holds'[a] = holds[a]
      /\ holds'[p] = holds[p] \ {<<rank, 1>>, <<rank, 2>>}
  BY <1>1, <1>i DEF LockTypes
<1>9. \A r \in Proc : Holding(p, r)' <=> (r # rank /\ Holding(p, r))
  BY <1>8 DEF Holding
<1>10. ASSUME NEW a \in Proc, lock_granted'[a] => Waiting(a)' PROVE InCall(a)'
  <2>1. Call(a)' = Call(a) /\ todo'[a] = todo[a]
    BY <1>1 DEF Call
  <2>2. CASE a = p
    <3>1. Had(p)' = Had(p)
      <4>1. \A r \in Proc : r \in Had(p)' <=> Holding(p, r)' \/ (Call(p).op = "unlock" /\ rank = r)
        BY <1>7, <1>r, <2>1, <2>2 DEF Had
      <4>2. \A r \in Proc : r \in Had(p)' <=> r \in Had(p)
        BY <1>4, <1>5, <1>9, <4>1
      <4> QED BY <4>2 DEF Had
    <3>2. ~Holding(p, rank)'
      BY <1>3, <1>9
    <3>3. ~Holding(p, Call(p).rank)'
      BY <1>r, <2>1, <2>2, <3>2 DEF Holding
    <3> QED BY <1>1, <1>10, <1>i, <2>1, <2>2, <3>1, <3>3 DEF InCall
  <2>3. CASE a # p
    <3>1. \A r : Holding(a, r)' <=> Holding(a, r)
      BY <1>8, <2>3 DEF Holding
    <3>2. Had(a)' = Had(a)
      BY <1>7, <2>1, <2>3, <3>1 DEF Had
    <3> QED BY <1>7, <1>10, <1>i, <2>1, <2>3, <3>1, <3>2 DEF InCall
  <2> QED BY <2>2, <2>3
<1>11. \A r \in Proc : AskedAt(p, r) = {} /\ QueuedAt(p, r) = {} /\ GrantedAt(p, r) = {}
  BY <1>2, <1>i, NoTicket
<1>12. call[p] = Promise!NoCall
  BY <1>2, CallOf
<1>13. IF LockType(p) = 0 THEN Holding(p, rank) ELSE ~Holding(p, rank)
  BY <1>3, <1>4, <1>5
<1>14. pc' = [a \in Proc |-> pc'[a]]
  BY <1>6
<1> QED BY <1>1, <1>2, <1>3, <1>7, <1>8, <1>10, <1>11, <1>12, <1>13, <1>14, <1>r

\* The request goes to another process.
LEMMA OtherIsAsked ==
  ASSUME IInv, NEW p \in Proc, LockOther(p)
  PROVE  /\ IInv' /\ Call(p).rank \in Proc \ {p} /\ LockType(p) \in {0, 1, 2}
         /\ Promise!Ask(p, Call(p).rank, LockType(p))
<1>i. LockTypes /\ (\A a \in Proc : InCall(a)) /\ (\A a, b \in Proc : Ticket(a, b))
  BY DEF IInv
<1>r. PICK r : r = Call(p).rank
  OBVIOUS
<1>m. PICK m : m = [kind |-> "lock", type |-> LockType(p)]
  OBVIOUS
<1>1. /\ LockCall(p) /\ r # p /\ wire' = [wire EXCEPT ![p][r] = Append(@, m)]
      /\ win' = win /\ lock_granted' = lock_granted
  BY <1>r, <1>m DEF LockOther, Send
<1>2. /\ ~Waiting(p) /\ ~lock_granted[p] /\ call[p] = Promise!NoCall
      /\ r \in Proc /\ LockType(p) \in 0 .. 2
      /\ IF LockType(p) = 0 THEN Holding(p, r) ELSE ~Holding(p, r)
      /\ \A b \in Proc : AskedAt(p, b) = {} /\ QueuedAt(p, b) = {} /\ GrantedAt(p, b) = {}
      /\ todo' = todo /\ pc' = [a \in Proc |-> pc'[a]]
      /\ Waiting(p)' /\ \A a \in Proc \ {p} : Waiting(a)' <=> Waiting(a)
      /\ holds' \in [Proc -> SUBSET (Proc \X {1, 2})]
      /\ \A a \in Proc : (lock_granted'[a] => Waiting(a)') => InCall(a)'
  BY <1>1, <1>r, LockCallWaits
<1>3. \A a \in Proc : InCall(a)'
  BY <1>1, <1>2, <1>i DEF InCall
<1>4. holds' = [holds EXCEPT ![p] = @ \ {<<r, 1>>, <<r, 2>>}]
  BY <1>1, <1>r DEF LockCall
<1>5. wire' = [a \in Proc |-> [b \in Proc |-> IF a = p /\ b = r THEN Append(wire[a][b], m)
                                             ELSE wire[a][b]]]
  <2>1. wire = [a \in Proc |-> [b \in Proc |-> wire[a][b]]]
    BY <1>i DEF LockTypes
  <2> QED BY <1>1, <2>1
<1>6. \A a, b \in Proc : IsSeq(wire[a][b])
  BY <1>i DEF LockTypes
<1>7. ASSUME NEW a \in Proc, NEW b \in Proc
      PROVE  /\ Ticket(a, b)'
             /\ a # p => /\ AskedAt(a, b)' = {} <=> AskedAt(a, b) = {}
                         /\ QueuedAt(a, b)' = {} <=> QueuedAt(a, b) = {}
             /\ a = p /\ b = r => AskedAt(a, b)' # {}
  <2>1. /\ QueuedAt(a, b)' = {i - 0 : i \in QueuedAt(a, b)} /\ QueuedAt(a, b)' = QueuedAt(a, b)
        /\ \A i \in QueuedAt(a, b) : win'[b].lock_q[i - 0] = win[b].lock_q[i]
    BY <1>1, <1>i, QueueSame
  <2>2. GrantedAt(a, b)' = {i - 0 : i \in GrantedAt(a, b)}
    <3>1. CASE b = p /\ a = r
      <4>1. wire'[b][a] = Append(wire[b][a], m)
        BY <1>5, <3>1
      <4> QED BY <1>6, <1>m, <4>1, PlacesAdded DEF GrantedAt
    <3>2. CASE ~(b = p /\ a = r)
      <4>1. wire'[b][a] = wire[b][a]
        BY <1>5, <3>2
      <4> QED BY <1>6, <4>1, PlacesSame DEF GrantedAt
    <3> QED BY <3>1, <3>2
  <2>3. CASE a = p /\ b = r
    <3>1. wire'[p][r] = Append(wire[p][r], m) /\ AskedAt(p, r) = {} /\ IsSeq(wire[p][r])
      BY <1>2, <1>5, <1>6
    <3>2. AskedAt(p, r)' = {Len(wire[p][r]) + 1} /\ wire'[p][r][Len(wire[p][r]) + 1] = m
      <4>1. m.kind = "lock"
        BY <1>m
      <4>2. /\ Places(Append(wire[p][r], m), "lock") = Places(wire[p][r], "lock") \cup {Len(wire[p][r]) + 1}
            /\ Append(wire[p][r], m)[Len(wire[p][r]) + 1] = m
        <5>1. PICK s : s = wire[p][r]
          OBVIOUS
        <5>2. IsSeq(s)
          BY <3>1, <5>1
        <5>3. Places(Append(s, m), "lock") = Places(s, "lock") \cup {Len(s) + 1}
          BY <4>1, <5>2, PlacesAdded
        <5>4. Append(s, m)[Len(s) + 1] = m
          BY <5>2, PlacesAdded
        <5> QED BY <5>1, <5>3, <5>4
      <4> QED BY <3>1, <4>2 DEF AskedAt
    <3>3. QueuedAt(p, r)' = {} /\ GrantedAt(p, r)' = {}
      BY <1>2, <2>1, <2>2, <2>3
    <3>4. LockType(p)' = LockType(p) /\ Call(p)' = Call(p) /\ Call(p)'.rank = r
      BY <1>2, <1>r DEF LockType, Call
    <3> QED BY <1>1, <1>2, <1>m, <2>3, <3>2, <3>3, <3>4 DEF Ticket
  <2>4. CASE ~(a = p /\ b = r)
    <3>1. /\ AskedAt(a, b)' = {i - 0 : i \in AskedAt(a, b)}
          /\ \A i \in AskedAt(a, b) : wire'[a][b][i - 0] = wire[a][b][i]
      <4>1. wire'[a][b] = wire[a][b]
        BY <1>5, <2>4
      <4> QED BY <1>6, <4>1, PlacesSame DEF AskedAt
    <3>2. AskedAt(a, b) \cup QueuedAt(a, b) \cup GrantedAt(a, b) # {} =>
            /\ Waiting(a)' /\ todo'[a] = todo[a] /\ (lock_granted'[a] <=> lock_granted[a])
      BY <1>1, <1>2, <1>i DEF Ticket
    <3>3. Moves(a, b, 0, 0, 0)
      BY <2>1, <2>2, <3>1, <3>2 DEF Moves
    <3> QED BY <1>i, <2>4, <3>3, TicketMoves
  <2> QED BY <2>3, <2>4
<1>8. LockTypes'
  <2>1. \A a, b \in Proc : IsSeq(wire'[a][b])
    BY <1>5, <1>6, AddMessage
  <2>2. wire' = [a \in Proc |-> [b \in Proc |-> wire'[a][b]]]
    BY <1>5
  <2> QED BY <1>1, <1>2, <1>i, <2>1, <2>2 DEF LockTypes
<1>9. Promise!Ask(p, r, LockType(p))
  <2>1. call'[p] = [stage |-> "asked", rank |-> r, type |-> LockType(p)]
    <3>1. todo[p] # << >>
      BY <1>1 DEF LockCall, Calls
    <3>2. AskedAt(p, r)' # {} /\ QueuedAt(p, r)' = {}
      BY <1>2, <1>7 DEF Ticket
    <3>3. todo'[p] # << >> /\ todo'[p] = todo[p]
      BY <1>2, <3>1
    <3>4. call'[p] = [stage |-> CASE AskedAt(p, r)' # {}  -> "asked"
                                  [] QueuedAt(p, r)' # {} -> "queued"
                                  [] OTHER                -> "granted",
                      rank |-> r, type |-> LockType(p)]
      BY <1>2, <1>r, <3>3, CallOfNext
    <3>5. (CASE AskedAt(p, r)' # {}  -> "asked"
             [] QueuedAt(p, r)' # {} -> "queued"
             [] OTHER                -> "granted") = "asked"
      BY <3>2
    <3> QED BY <3>4, <3>5
  <2>2. ASSUME NEW a \in Proc, a # p PROVE call'[a] = call[a]
    <3>1. Waiting(a) => Call(a).rank \in Proc
      BY <1>i, WaitingCall
    <3> QED BY <1>2, <1>7, <1>i, <2>2, <3>1, CallSame
  <2>3. call' = [call EXCEPT ![p] = [stage |-> "asked", rank |-> r, type |-> LockType(p)]]
    <3>1. call = [a \in Proc |-> call[a]] /\ call' = [a \in Proc |-> call'[a]]
      BY DEF call
    <3> HIDE DEF call
    <3> QED BY <2>1, <2>2, <3>1
  <2>4. Promise!Holding(p, r) <=> Holding(p, r)
    BY DEF Promise!Holding, Holding
  <2>5. call[p].stage = "out"
    BY <1>2 DEF Promise!NoCall
  <2> HIDE DEF call
  <2> QED BY <1>1, <1>2, <1>4, <2>3, <2>4, <2>5 DEF Promise!Ask, Promise!Request
<1> QED BY <1>1, <1>2, <1>3, <1>7, <1>8, <1>9, <1>r DEF IInv

\* What do_lock() makes of a queue q: it lets in the first n, and src; or src waits too.
QueueAfter(q, src, type, n, told, after) ==
  \/ /\ told = {src} \cup {q[i].src : i \in 1 .. n}
     /\ DOMAIN after = 1 .. Len(q) - n
     /\ \A i \in 1 .. Len(q) - n : after[i] = q[i + n]
  \/ /\ n = 0 /\ told = {}
     /\ DOMAIN after = 1 .. Len(q) + 1
     /\ \A i \in 1 .. Len(q) : after[i] = q[i]
     /\ after[Len(q) + 1] = [src |-> src, type |-> type]

\* That is what do_lock() of WinLock does.
LEMMA DoLockQueue ==
  ASSUME NEW w \in Window, NEW src \in Proc, NEW type \in 0 .. 2,
         NEW n \in 0 .. Len(w.lock_q), type # 0 => n = 0
  PROVE  QueueAfter(w.lock_q, src, type, n, Promise!Told(w, src, type, n),
                    Promise!DoLock(w, src, type, n).lock_q)
<1>t. PICK told : told = Promise!Told(w, src, type, n)
  OBVIOUS
<1>a. PICK after : after = Promise!DoLock(w, src, type, n).lock_q
  OBVIOUS
<1> SUFFICES QueueAfter(w.lock_q, src, type, n, told, after)
  BY <1>t, <1>a
<1> DEFINE q == w.lock_q
<1>1. q \in Seq(Entry) /\ Len(q) \in Nat
  BY Fields
<1>2. CASE type = 0
  <2>1. told = {src} \cup {q[i].src : i \in 1 .. n}
    BY <1>2, <1>t DEF Promise!Told
  <2>2. after = SubSeq(q, n + 1, Len(q))
    BY <1>2, <1>a DEF Promise!DoLock, Promise!AfterUnlock
  <2>3. DOMAIN after = 1 .. Len(q) - n /\ \A i \in 1 .. Len(q) - n : after[i] = q[i + n]
    <3>1. PICK s \in Seq(Entry) : s = q
      BY <1>1
    <3>2. n \in 0 .. Len(s) /\ Len(s) \in Nat
      BY <1>1, <3>1
    <3>3. PICK t : t = SubSeq(s, n + 1, Len(s))
      OBVIOUS
    <3>4. DOMAIN t = 1 .. Len(s) - n /\ \A i \in 1 .. Len(s) - n : t[i] = s[i + n]
      BY <3>1, <3>2, <3>3
    <3> HIDE DEF q
    <3> QED BY <2>2, <3>1, <3>3, <3>4
  <2> HIDE DEF q
  <2> QED BY <2>1, <2>3 DEF q, QueueAfter
<1>3. CASE type # 0 /\ Promise!Grants(w, type)
  <2>1. told = {src} /\ n = 0
    BY <1>3, <1>t DEF Promise!Told
  <2>2. after = q
    BY <1>3, <1>a DEF Promise!DoLock, Promise!TryLock, Window
  <2>3. DOMAIN q = 1 .. Len(q) - 0 /\ \A i \in 1 .. Len(q) - 0 : q[i] = q[i + 0]
    BY <1>1
  <2>4. {src} = {src} \cup {q[i].src : i \in 1 .. 0}
    OBVIOUS
  <2> HIDE DEF q
  <2> QED BY <2>1, <2>2, <2>3, <2>4 DEF q, QueueAfter
<1>4. CASE type # 0 /\ ~Promise!Grants(w, type)
  <2>1. told = {} /\ n = 0
    BY <1>4, <1>t DEF Promise!Told
  <2>2. after = Append(q, [src |-> src, type |-> type])
    BY <1>4, <1>a DEF Promise!DoLock, Promise!Enqueue, Window
  <2>3. IsSeq(q)
    BY <1>1, SeqOfItself
  <2> HIDE DEF q
  <2>4. /\ DOMAIN after = 1 .. Len(q) + 1
        /\ \A i \in 1 .. Len(q) : after[i] = q[i]
        /\ after[Len(q) + 1] = [src |-> src, type |-> type]
    BY <2>2, <2>3, AddMessage
  <2> QED BY <2>1, <2>4 DEF q, QueueAfter
<1> QED BY <1>2, <1>3, <1>4

\* The request of src has reached the window of r, and do_lock() has been called for it.
Reached(src, r, type) ==
  /\ todo' = todo /\ pc' = [a \in Proc |-> pc'[a]]
  /\ Waiting(src)' /\ \A a \in Proc \ {src} : Waiting(a)' <=> Waiting(a)
  /\ todo[src] # << >> /\ Call(src).rank = r /\ LockType(src) = type
  /\ ~lock_granted[src]
  /\ \A b \in Proc : /\ QueuedAt(src, b) = {} /\ GrantedAt(src, b) = {}
                     /\ b # r \/ src = r => AskedAt(src, b) = {}
  /\ src # r => wire[src][r] # << >> /\ Head(wire[src][r]).kind = "lock"
  /\ LET d == do_lock(win[r], src, type)
     IN  win' = [win EXCEPT ![r] = d.w] /\ Tell(r, d.told, src)

\* Where the requests on r's window are then, told being those who are answered and n
\* how many come from the queue.
Answers(src, r, type, n, told) ==
  /\ n \in 0 .. Len(win[r].lock_q)
  /\ IF type = 0 THEN Promise!LetIn(win[r], n) ELSE n = 0
  /\ win' \in [Proc -> Window]
  /\ \A b \in Proc \ {r} : win'[b] = win[b]
  /\ win' = [win EXCEPT ![r] = Promise!DoLock(@, src, type, n)]
  /\ told = Promise!Told(win[r], src, type, n)
  /\ Tell(r, told, src)

\* do_lock() of TcpWin gives one of the answers of WinLock.
LEMMA AnswersOf ==
  ASSUME LockTypes, NEW src \in Proc, NEW r \in Proc, NEW type \in 0 .. 2, Reached(src, r, type)
  PROVE  \E n, told : Answers(src, r, type, n, told)
<1>1. win \in [Proc -> Window] /\ win[r] \in Window
  BY DEF LockTypes
<1>2. PICK d : d = do_lock(win[r], src, type)
  OBVIOUS
<1>3. PICK n \in 0 .. Len(win[r].lock_q) :
        /\ IF type = 0 THEN Promise!LetIn(win[r], n) ELSE n = 0
        /\ d.w = Promise!DoLock(win[r], src, type, n)
        /\ d.told = Promise!Told(win[r], src, type, n)
        /\ d.w \in Window
  BY <1>1, <1>2, DoLockServes
<1>4. win' = [win EXCEPT ![r] = d.w] /\ Tell(r, d.told, src)
  BY <1>2 DEF Reached
<1>5. win' \in [Proc -> Window] /\ \A b \in Proc \ {r} : win'[b] = win[b]
  BY <1>1, <1>3, <1>4
<1>6. Answers(src, r, type, n, d.told)
  BY <1>3, <1>4, <1>5 DEF Answers
<1> QED BY <1>6

\* The messages and the flags afterwards.
Sent(src, r, told) ==
  \A a, b \in Proc :
    wire'[a][b] = IF a = src /\ b = r /\ src # r THEN Tail(wire[a][b])
                  ELSE IF a = r /\ b \in told \ {r} THEN Append(wire[a][b], [kind |-> "grant"])
                  ELSE wire[a][b]
Flagged(r, told) ==
  \A a \in Proc : lock_granted'[a] = IF a = r /\ r \in told THEN TRUE ELSE lock_granted[a]

\* signal_safe_put() to each of told does that.
LEMMA ToldWire ==
  ASSUME LockTypes, NEW src \in Proc, NEW r \in Proc, NEW told, Tell(r, told, src)
  PROVE  /\ wire' = [a \in Proc |-> [b \in Proc |-> wire'[a][b]]]
         /\ Sent(src, r, told)
         /\ lock_granted' \in [Proc -> BOOLEAN]
         /\ Flagged(r, told)
<1>1. \A a, b \in Proc :
        wire'[a][b] = LET rest == IF b = r /\ a = src /\ src # r THEN Tail(wire[a][b]) ELSE wire[a][b]
                      IN  IF a = r /\ b \in told \ {r} THEN Append(rest, [kind |-> "grant"]) ELSE rest
  BY DEF Tell
<1>2. wire' = [a \in Proc |-> [b \in Proc |-> wire'[a][b]]]
  BY DEF Tell
<1>3. lock_granted \in [Proc -> BOOLEAN]
  BY DEF LockTypes
<1>4. lock_granted' = IF r \in told THEN [lock_granted EXCEPT ![r] = TRUE] ELSE lock_granted
  BY DEF Tell
<1> QED BY <1>1, <1>2, <1>3, <1>4 DEF Sent, Flagged

\* The queue afterwards.
LEMMA QueueThen ==
  ASSUME LockTypes, NEW src \in Proc, NEW r \in Proc, NEW type \in 0 .. 2, NEW n, NEW told,
         Answers(src, r, type, n, told), NEW a \in Proc,
         \A i, j \in QueuedAt(a, r) : i = j, QueuedAt(src, r) = {}
  PROVE  /\ a \in told => QueuedAt(a, r)' = {}
         /\ a \in told /\ a # src => QueuedAt(a, r) # {}
         /\ a \notin told /\ a # src =>
              /\ QueuedAt(a, r)' = {i - n : i \in QueuedAt(a, r)}
              /\ \A i \in QueuedAt(a, r) : win'[r].lock_q[i - n] = win[r].lock_q[i]
         /\ src \notin told => \E k : QueuedAt(src, r)' = {k} /\ win'[r].lock_q[k].type = type
         /\ src \notin told => told = {}
<1>1. PICK w : w = win[r]
  OBVIOUS
<1>2. PICK q : q = w.lock_q
  OBVIOUS
<1>3. w \in Window /\ q \in Seq(Entry) /\ Len(q) \in Nat /\ DOMAIN q = 1 .. Len(q)
  <2>1. w \in Window
    BY <1>1 DEF LockTypes
  <2> QED BY <1>2, <2>1, Fields
<1>4. PICK after : after = Promise!DoLock(w, src, type, n).lock_q
  OBVIOUS
<1>5. n \in 0 .. Len(q) /\ (type # 0 => n = 0) /\ told = Promise!Told(w, src, type, n)
  BY <1>1, <1>2 DEF Answers
<1>6. win'[r].lock_q = after
  <2>1. win' = [win EXCEPT ![r] = Promise!DoLock(w, src, type, n)]
    BY <1>1 DEF Answers
  <2>2. win'[r] = Promise!DoLock(w, src, type, n)
    BY <2>1 DEF LockTypes
  <2> QED BY <1>4, <2>2
<1>7. /\ QueuedAt(a, r) = {i \in DOMAIN q : q[i].src = a}
      /\ QueuedAt(a, r)' = {i \in DOMAIN after : after[i].src = a}
      /\ QueuedAt(src, r) = {i \in DOMAIN q : q[i].src = src}
      /\ QueuedAt(src, r)' = {i \in DOMAIN after : after[i].src = src}
  BY <1>1, <1>2, <1>6 DEF QueuedAt
<1>8. QueueAfter(q, src, type, n, told, after)
  <2>1. n \in 0 .. Len(w.lock_q)
    BY <1>2, <1>5
  <2>2. QueueAfter(w.lock_q, src, type, n, Promise!Told(w, src, type, n),
                   Promise!DoLock(w, src, type, n).lock_q)
    BY <1>3, <1>5, <2>1, DoLockQueue
  <2> QED BY <1>2, <1>4, <1>5, <2>2
<1>9. CASE /\ told = {src} \cup {q[i].src : i \in 1 .. n}
           /\ DOMAIN after = 1 .. Len(q) - n
           /\ \A i \in 1 .. Len(q) - n : after[i] = q[i + n]
  <2>1. \A i \in 1 .. Len(q) - n : i + n \in 1 .. Len(q) /\ (i + n) - n = i /\ i + n > n
    BY <1>3, <1>5
  <2>2. \A i \in 1 .. Len(q) : i > n => i - n \in 1 .. Len(q) - n /\ (i - n) + n = i
    BY <1>3, <1>5
  <2>3. \A i \in 1 .. n : i \in 1 .. Len(q) /\ ~(i > n)
    BY <1>3, <1>5
  <2>4. ASSUME a \in told PROVE QueuedAt(a, r)' = {}
    <3>1. SUFFICES ASSUME NEW i \in 1 .. Len(q) - n, q[i + n].src = a PROVE FALSE
      BY <1>7, <1>9
    <3>2. i + n \in QueuedAt(a, r)
      BY <1>3, <1>7, <2>1, <3>1
    <3>3. a # src
      BY <1>7, <3>2
    <3>4. PICK j \in 1 .. n : q[j].src = a
      BY <1>9, <2>4, <3>3
    <3>5. j \in QueuedAt(a, r)
      BY <1>3, <1>7, <2>3, <3>4
    <3> QED BY <2>1, <2>3, <3>2, <3>5
  <2>5. a \in told /\ a # src => QueuedAt(a, r) # {}
    BY <1>3, <1>7, <1>9, <2>3
  <2>6. ASSUME a \notin told
        PROVE  /\ QueuedAt(a, r)' = {i - n : i \in QueuedAt(a, r)}
               /\ \A i \in QueuedAt(a, r) : after[i - n] = q[i]
    <3>1. ASSUME NEW i \in QueuedAt(a, r) PROVE i - n \in QueuedAt(a, r)' /\ after[i - n] = q[i]
      <4>1. i \in 1 .. Len(q) /\ q[i].src = a
        BY <1>3, <1>7
      <4>2. i \notin 1 .. n
        BY <1>9, <2>6, <4>1
      <4>3. i > n
        BY <1>5, <4>1, <4>2
      <4> QED BY <1>7, <1>9, <2>2, <4>1, <4>3
    <3>2. ASSUME NEW i \in QueuedAt(a, r)' PROVE i + n \in QueuedAt(a, r) /\ (i + n) - n = i
      BY <1>3, <1>7, <1>9, <2>1
    <3>3. QueuedAt(a, r)' \subseteq {i - n : i \in QueuedAt(a, r)}
      BY <3>2
    <3> QED BY <3>1, <3>3
  <2> QED BY <1>1, <1>2, <1>6, <1>9, <2>4, <2>5, <2>6
<1>10. CASE /\ n = 0 /\ told = {}
            /\ DOMAIN after = 1 .. Len(q) + 1
            /\ \A i \in 1 .. Len(q) : after[i] = q[i]
            /\ after[Len(q) + 1] = [src |-> src, type |-> type]
  <2>1. ASSUME a # src
        PROVE  /\ QueuedAt(a, r)' = {i - n : i \in QueuedAt(a, r)}
               /\ \A i \in QueuedAt(a, r) : after[i - n] = q[i]
    <3>1. \A i \in 1 .. Len(q) : i - n = i
      BY <1>10
    <3>2. \A i \in 1 .. Len(q) + 1 : i # Len(q) + 1 => i \in 1 .. Len(q)
      BY <1>3
    <3>3. after[Len(q) + 1].src = src
      BY <1>10
    <3> QED BY <1>3, <1>7, <1>10, <2>1, <3>1, <3>2, <3>3
  <2>2. QueuedAt(src, r)' = {Len(q) + 1} /\ after[Len(q) + 1].type = type
    <3>1. after[Len(q) + 1].src = src /\ after[Len(q) + 1].type = type
      BY <1>10
    <3>2. \A i \in 1 .. Len(q) + 1 : i # Len(q) + 1 => i \in 1 .. Len(q)
      BY <1>3
    <3>3. Len(q) + 1 \in 1 .. Len(q) + 1
      BY <1>3
    <3> QED BY <1>3, <1>7, <1>10, <3>1, <3>2, <3>3
  <2> QED BY <1>1, <1>2, <1>6, <1>10, <2>1, <2>2
<1> QED BY <1>8, <1>9, <1>10 DEF QueueAfter

\* What a request that is served leaves of the places of all requests.
Served1(a, b, src, r, told) ==
  /\ Ticket(a, b)'
  /\ a \in told /\ b = r => AskedAt(a, b)' = {} /\ QueuedAt(a, b)' = {}
  /\ a = src /\ b = r /\ src \notin told => AskedAt(a, b)' = {} /\ QueuedAt(a, b)' # {}
  /\ a # src /\ (a \notin told \/ b # r) => /\ AskedAt(a, b)' = {} <=> AskedAt(a, b) = {}
                                            /\ QueuedAt(a, b)' = {} <=> QueuedAt(a, b) = {}

\* Every request is where it should be once do_lock() has told the processes.
LEMMA ServedTickets ==
  ASSUME LockTypes, \A a, b \in Proc : Ticket(a, b),
         NEW src \in Proc, NEW r \in Proc, NEW type \in 0 .. 2, NEW n, NEW told,
         Reached(src, r, type), Answers(src, r, type, n, told),
         NEW a \in Proc, NEW b \in Proc
  PROVE  Served1(a, b, src, r, told)
<1>1. /\ todo' = todo
      /\ Waiting(src)' /\ \A c \in Proc \ {src} : Waiting(c)' <=> Waiting(c)
      /\ Call(src).rank = r /\ LockType(src) = type
      /\ ~lock_granted[src]
      /\ \A c \in Proc : /\ QueuedAt(src, c) = {} /\ GrantedAt(src, c) = {}
                         /\ c # r \/ src = r => AskedAt(src, c) = {}
      /\ src # r => wire[src][r] # << >> /\ Head(wire[src][r]).kind = "lock"
  BY DEF Reached
<1>2. /\ \A c, d \in Proc :
           wire'[c][d] = IF c = src /\ d = r /\ src # r THEN Tail(wire[c][d])
                         ELSE IF c = r /\ d \in told \ {r}
                              THEN Append(wire[c][d], [kind |-> "grant"])
                              ELSE wire[c][d]
      /\ \A c \in Proc : lock_granted'[c] = IF c = r /\ r \in told THEN TRUE ELSE lock_granted[c]
  <2>1. Tell(r, told, src)
    BY DEF Answers
  <2>2. Sent(src, r, told) /\ Flagged(r, told)
    BY <2>1, ToldWire
  <2> QED BY <2>2 DEF Sent, Flagged
<1>3. \A c, d \in Proc : IsSeq(wire[c][d])
  BY DEF LockTypes
<1>4. \A c \in Proc :
        /\ c \in told => QueuedAt(c, r)' = {}
        /\ c \in told /\ c # src => QueuedAt(c, r) # {}
        /\ c \notin told /\ c # src =>
             /\ QueuedAt(c, r)' = {i - n : i \in QueuedAt(c, r)}
             /\ \A i \in QueuedAt(c, r) : win'[r].lock_q[i - n] = win[r].lock_q[i]
        /\ src \notin told => \E k : QueuedAt(src, r)' = {k} /\ win'[r].lock_q[k].type = type
        /\ src \notin told => told = {}
  BY <1>1, QueueThen DEF Ticket
<1>5. \A c \in told \cap Proc : /\ Waiting(c)' /\ Call(c).rank = r /\ ~lock_granted[c]
                                /\ GrantedAt(c, r) = {}
                                /\ c # src \/ src = r => AskedAt(c, r) = {}
  <2> TAKE c \in told \cap Proc
  <2>1. CASE c = src
    BY <1>1, <2>1
  <2>2. CASE c # src
    BY <1>1, <1>4, <2>2 DEF Ticket
  <2> QED BY <2>1, <2>2
<1>6. Call(a)' = Call(a) /\ LockType(a)' = LockType(a) /\ todo'[a] = todo[a]
  BY <1>1 DEF Call, LockType
<1>7. AskedAt(src, r)' = {}
  <2>1. CASE src = r
    BY <1>1, <1>2, <2>1 DEF AskedAt
  <2>2. CASE src # r
    <3>1. PICK s : s = wire[src][r]
      OBVIOUS
    <3>2. IsSeq(s) /\ s # << >> /\ Head(s).kind = "lock" /\ wire'[src][r] = Tail(s)
      BY <1>1, <1>2, <1>3, <2>2, <3>1
    <3>3. 1 \in Places(s, "lock") /\ Places(s, "lock") = AskedAt(src, r)
      BY <3>1, <3>2, PlacesTaken DEF AskedAt
    <3>4. Places(s, "lock") = {1}
      BY <3>3 DEF Ticket
    <3>5. Places(Tail(s), "lock") = {}
      BY <3>2, <3>4, PlacesTaken
    <3> QED BY <3>2, <3>5 DEF AskedAt
  <2> QED BY <2>1, <2>2
<1>8. ASSUME ~(a = src /\ b = r)
      PROVE  /\ AskedAt(a, b)' = {i - 0 : i \in AskedAt(a, b)}
             /\ \A i \in AskedAt(a, b) : wire'[a][b][i - 0] = wire[a][b][i]
  <2>1. PICK s : s = wire[a][b]
    OBVIOUS
  <2>2. PICK m : m = [kind |-> "grant"]
    OBVIOUS
  <2>3. IsSeq(s) /\ (wire'[a][b] = s \/ wire'[a][b] = Append(s, m)) /\ m.kind # "lock"
    BY <1>2, <1>3, <1>8, <2>1, <2>2
  <2>4. /\ Places(s, "lock") = {i - 0 : i \in Places(s, "lock")}
        /\ \A i \in Places(s, "lock") : s[i - 0] = s[i]
    BY <2>3, PlacesSame
  <2>5. Places(Append(s, m), "lock") = {i - 0 : i \in Places(s, "lock")}
    BY <2>3, PlacesAdded
  <2>6. \A i \in Places(s, "lock") : Append(s, m)[i - 0] = s[i]
    <3>1. DOMAIN s = 1 .. Len(s) /\ \A i \in 1 .. Len(s) : Append(s, m)[i] = s[i]
      BY <2>3, AddMessage
    <3> QED BY <3>1 DEF Places
  <2> QED BY <2>1, <2>3, <2>4, <2>5, <2>6 DEF AskedAt
<1>9. ASSUME ~(b = r /\ a \in told \ {r})
      PROVE  \E e \in {0, 1} : GrantedAt(a, b)' = {i - e : i \in GrantedAt(a, b)}
  <2>1. PICK s : s = wire[b][a]
    OBVIOUS
  <2>2. CASE b = src /\ a = r /\ src # r
    <3>1. IsSeq(s) /\ s # << >> /\ Head(s).kind # "grant" /\ wire'[b][a] = Tail(s)
      BY <1>1, <1>2, <1>3, <2>1, <2>2
    <3>2. Places(Tail(s), "grant") = {i - 1 : i \in Places(s, "grant")}
      BY <3>1, PlacesTaken
    <3> QED BY <2>1, <3>1, <3>2 DEF GrantedAt
  <2>3. CASE ~(b = src /\ a = r /\ src # r)
    <3>1. IsSeq(s) /\ wire'[b][a] = s
      BY <1>2, <1>3, <1>9, <2>1, <2>3
    <3>2. Places(s, "grant") = {i - 0 : i \in Places(s, "grant")}
      BY <3>1, PlacesSame
    <3> QED BY <2>1, <3>1, <3>2 DEF GrantedAt
  <2> QED BY <2>2, <2>3
<1>10. CASE b = r /\ a \in told
  <2>1. AskedAt(a, r)' = {}
    <3>1. CASE a = src
      BY <1>7, <3>1
    <3>2. CASE a # src
      BY <1>5, <1>8, <1>10, <3>2
    <3> QED BY <3>1, <3>2
  <2>2. QueuedAt(a, r)' = {}
    BY <1>4, <1>10
  <2>3. CASE a = r
    <3>1. GrantedAt(a, r)' = {}
      BY <1>5, <1>9, <1>10, <2>3
    <3> QED BY <1>10, <2>1, <2>2, <3>1, EmptyTicket DEF Served1
  <2>4. CASE a # r
    <3>1. PICK s : s = wire[r][a]
      OBVIOUS
    <3>2. PICK m : m = [kind |-> "grant"]
      OBVIOUS
    <3>3. IsSeq(s) /\ wire'[r][a] = Append(s, m) /\ m.kind = "grant" /\ Places(s, "grant") = {}
      <4>1. wire'[r][a] = Append(s, m)
        BY <1>2, <1>10, <2>4, <3>1, <3>2
      <4> QED BY <1>3, <1>5, <1>10, <3>1, <3>2, <4>1 DEF GrantedAt
    <3>4. GrantedAt(a, r)' = {Len(s) + 1}
      <4>1. Places(Append(s, m), "grant") = Places(s, "grant") \cup {Len(s) + 1}
        BY <3>3, PlacesAdded
      <4> QED BY <3>3, <4>1 DEF GrantedAt
    <3>5. Waiting(a)' /\ Call(a)'.rank = r /\ ~lock_granted'[a]
      BY <1>2, <1>5, <1>6, <1>10, <2>4
    <3>6. Ticket(a, r)'
      BY <2>1, <2>2, <3>4, <3>5 DEF Ticket
    <3> QED BY <1>10, <2>1, <2>2, <3>6 DEF Served1
  <2> QED BY <2>3, <2>4
<1>11. CASE b = r /\ a \notin told /\ a = src
  <2>1. PICK k : QueuedAt(src, r)' = {k} /\ win'[r].lock_q[k].type = type
    BY <1>4, <1>11
  <2>2. GrantedAt(src, r)' = {}
    BY <1>1, <1>9, <1>11
  <2>3. Waiting(src)' /\ Call(src)'.rank = r /\ ~lock_granted'[src] /\ LockType(src)' = type
    BY <1>1, <1>2, <1>6, <1>11
  <2>4. Ticket(src, r)'
    BY <1>7, <2>1, <2>2, <2>3 DEF Ticket
  <2> QED BY <1>7, <1>11, <2>1, <2>4 DEF Served1
<1>12. ASSUME ~(b = r /\ (a \in told \/ a = src)) PROVE Served1(a, b, src, r, told)
  <2>1. PICK e \in {0, 1} : GrantedAt(a, b)' = {i - e : i \in GrantedAt(a, b)}
    BY <1>9, <1>12
  <2>2. \E k : /\ QueuedAt(a, b)' = {i - k : i \in QueuedAt(a, b)}
               /\ \A i \in QueuedAt(a, b) : win'[b].lock_q[i - k] = win[b].lock_q[i]
    <3>1. CASE b = r
      BY <1>4, <1>12, <3>1
    <3>2. CASE b # r
      <4>1. win'[b] = win[b]
        BY <3>2 DEF Answers
      <4> QED BY <4>1, QueueSame
    <3> QED BY <3>1, <3>2
  <2>3. PICK k : /\ QueuedAt(a, b)' = {i - k : i \in QueuedAt(a, b)}
                 /\ \A i \in QueuedAt(a, b) : win'[b].lock_q[i - k] = win[b].lock_q[i]
    BY <2>2
  <2>4. AskedAt(a, b) \cup QueuedAt(a, b) \cup GrantedAt(a, b) # {} =>
          /\ Waiting(a)' /\ todo'[a] = todo[a] /\ (lock_granted'[a] <=> lock_granted[a])
    <3> SUFFICES ASSUME AskedAt(a, b) \cup QueuedAt(a, b) \cup GrantedAt(a, b) # {}
                 PROVE  Waiting(a)' /\ (lock_granted'[a] <=> lock_granted[a])
      BY <1>6
    <3>1. Waiting(a) /\ Call(a).rank = b
      BY DEF Ticket
    <3>2. Waiting(a)'
      BY <1>1, <3>1
    <3>3. ~(a = r /\ r \in told)
      BY <1>5, <1>12, <3>1
    <3> QED BY <1>2, <3>2, <3>3
  <2>5. Moves(a, b, 0, k, e)
    BY <1>8, <1>12, <2>1, <2>3, <2>4 DEF Moves
  <2> QED BY <1>12, <2>5, TicketMoves DEF Served1
<1> QED BY <1>10, <1>11, <1>12

\* A request that is served is served as WinLock says, and the others stay true.
LEMMA RequestServed ==
  ASSUME IInv, NEW src \in Proc, NEW r \in Proc, NEW type \in 0 .. 2, Reached(src, r, type)
  PROVE  /\ \A a, b \in Proc : Ticket(a, b)'
         /\ \A a \in Proc : lock_granted'[a] => Waiting(a)'
         /\ wire' = [a \in Proc |-> [b \in Proc |-> wire'[a][b]]]
         /\ \A a, b \in Proc : IsSeq(wire'[a][b])
         /\ win' \in [Proc -> Window]
         /\ lock_granted' \in [Proc -> BOOLEAN]
         /\ Promise!Serve(r, src, type)
<1>i. LockTypes /\ (\A a \in Proc : InCall(a)) /\ (\A a, b \in Proc : Ticket(a, b))
  BY DEF IInv
<1>1. PICK n, told : Answers(src, r, type, n, told)
  BY <1>i, AnswersOf
<1>2. \A a, b \in Proc : Served1(a, b, src, r, told)
  BY <1>1, <1>i, ServedTickets
<1>3. /\ n \in 0 .. Len(win[r].lock_q)
      /\ IF type = 0 THEN Promise!LetIn(win[r], n) ELSE n = 0
      /\ win' \in [Proc -> Window]
      /\ win' = [win EXCEPT ![r] = Promise!DoLock(@, src, type, n)]
      /\ told = Promise!Told(win[r], src, type, n)
      /\ Tell(r, told, src)
  BY <1>1 DEF Answers
<1>4. /\ todo' = todo /\ Waiting(src)' /\ \A a \in Proc \ {src} : Waiting(a)' <=> Waiting(a)
      /\ todo[src] # << >> /\ Call(src).rank = r /\ LockType(src) = type
      /\ QueuedAt(src, r) = {}
      /\ src # r => wire[src][r] # << >>
  BY DEF Reached
<1>5. /\ wire' = [a \in Proc |-> [b \in Proc |-> wire'[a][b]]]
      /\ Sent(src, r, told)
      /\ lock_granted' \in [Proc -> BOOLEAN]
      /\ Flagged(r, told)
  BY <1>3, <1>i, ToldWire
<1>6. \A a, b \in Proc : IsSeq(wire'[a][b])
  <2> TAKE a \in Proc, b \in Proc
  <2>1. PICK m : m = [kind |-> "grant"]
    OBVIOUS
  <2>2. IsSeq(wire[a][b])
    BY <1>i DEF LockTypes
  <2>3. IsSeq(Append(wire[a][b], m))
    BY <2>2, AddMessage
  <2>4. wire[a][b] # << >> => IsSeq(Tail(wire[a][b]))
    BY <2>2, TakeMessage
  <2>5. \/ a = src /\ b = r /\ src # r /\ wire'[a][b] = Tail(wire[a][b])
        \/ wire'[a][b] = Append(wire[a][b], m) \/ wire'[a][b] = wire[a][b]
    BY <1>5, <2>1 DEF Sent
  <2> QED BY <1>4, <2>2, <2>3, <2>4, <2>5
\* Who is told and did not ask was in the queue.
<1>7. ASSUME NEW a \in Proc, a \in told, a # src
      PROVE  Waiting(a) /\ Call(a).rank = r /\ AskedAt(a, r) = {} /\ QueuedAt(a, r) # {}
  <2>1. QueuedAt(a, r) # {}
    BY <1>1, <1>4, <1>7, <1>i, QueueThen DEF Ticket
  <2> QED BY <1>i, <2>1 DEF Ticket
<1>8. \A a \in Proc : lock_granted'[a] => Waiting(a)'
  <2> TAKE a \in Proc
  <2>1. lock_granted'[a] => (a = r /\ r \in told) \/ lock_granted[a]
    BY <1>5 DEF Flagged
  <2> QED BY <1>4, <1>7, <1>i, <2>1 DEF InCall
<1>9. ASSUME NEW a \in Proc
      PROVE  call'[a] = CASE a \in told              -> [stage |-> "granted", rank |-> r,
                                                         type |-> IF a = src THEN type ELSE call[a].type]
                          [] a \notin told /\ a = src -> [stage |-> "queued", rank |-> r, type |-> type]
                          [] OTHER                   -> call[a]
  <2>1. Waiting(a)' /\ todo[a] # << >> => 
          \A b : b = Call(a).rank =>
              call'[a] = [stage |-> CASE AskedAt(a, b)' # {}  -> "asked"
                                      [] QueuedAt(a, b)' # {} -> "queued"
                                      [] OTHER                -> "granted",
                          rank |-> b, type |-> LockType(a)]
    BY <1>4, CallOfNext
  <2>2. CASE a \in told
    <3>1. Waiting(a)' /\ todo[a] # << >> /\ Call(a).rank = r
      BY <1>4, <1>7, <1>i, <2>2, WaitingCall
    <3>2. AskedAt(a, r)' = {} /\ QueuedAt(a, r)' = {}
      BY <1>2, <2>2 DEF Served1
    <3>3. call'[a] = [stage |-> "granted", rank |-> r, type |-> LockType(a)]
      BY <2>1, <3>1, <3>2
    <3>4. a # src => call[a].type = LockType(a)
      <4>1. a # src => Waiting(a) /\ todo[a] # << >>
        BY <1>7, <2>2, <3>1
      <4>2. a # src => call[a] = [stage |-> CASE AskedAt(a, Call(a).rank) # {}  -> "asked"
                                              [] QueuedAt(a, Call(a).rank) # {} -> "queued"
                                              [] OTHER                          -> "granted",
                                  rank |-> Call(a).rank, type |-> LockType(a)]
        BY <4>1, CallOf
      <4> HIDE DEF call
      <4> QED BY <4>2
    <3> HIDE DEF call
    <3> QED BY <1>4, <2>2, <3>3, <3>4
  <2>3. CASE a \notin told /\ a = src
    <3>1. AskedAt(a, r)' = {} /\ QueuedAt(a, r)' # {}
      BY <1>2, <2>3 DEF Served1
    <3>2. call'[a] = [stage |-> "queued", rank |-> r, type |-> type]
      BY <1>4, <2>1, <2>3, <3>1
    <3> HIDE DEF call
    <3> QED BY <2>3, <3>2
  <2>4. CASE a \notin told /\ a # src
    <3>1. Waiting(a) => Call(a).rank \in Proc
      BY <1>i, WaitingCall
    <3>2. \A b \in Proc : /\ AskedAt(a, b)' = {} <=> AskedAt(a, b) = {}
                          /\ QueuedAt(a, b)' = {} <=> QueuedAt(a, b) = {}
      BY <1>2, <2>4 DEF Served1
    <3>3. call'[a] = call[a]
      BY <1>4, <1>i, <2>4, <3>1, <3>2, CallSame
    <3> HIDE DEF call
    <3> QED BY <2>4, <3>3
  <2> QED BY <2>2, <2>3, <2>4
<1>10. Promise!Serve(r, src, type)
  <2>1. call' = [a \in Proc |->
                   CASE a \in told              -> [stage |-> "granted", rank |-> r,
                                                    type |-> IF a = src THEN type ELSE call[a].type]
                     [] a \notin told /\ a = src -> [stage |-> "queued", rank |-> r, type |-> type]
                     [] OTHER                   -> call[a]]
    <3>1. call' = [a \in Proc |-> call'[a]]
      BY DEF call
    <3> HIDE DEF call
    <3> QED BY <1>9, <3>1
  <2> HIDE DEF call
  <2> QED BY <1>3, <2>1 DEF Promise!Serve
<1>11. \A a, b \in Proc : Ticket(a, b)'
  BY <1>2 DEF Served1
<1> QED BY <1>3, <1>5, <1>6, <1>8, <1>10, <1>11

\* The request is for the window of p itself.
LEMMA OwnIsServed ==
  ASSUME IInv, NEW p \in Proc, LockOwn(p)
  PROVE  IInv' /\ LockType(p) \in {0, 1, 2} /\ Promise!AskSelf(p, LockType(p))
<1>1. LockCall(p) /\ Call(p).rank = p
  BY DEF LockOwn
<1>2. /\ ~Waiting(p) /\ ~lock_granted[p] /\ call[p] = Promise!NoCall
      /\ LockType(p) \in 0 .. 2
      /\ IF LockType(p) = 0 THEN Holding(p, p) ELSE ~Holding(p, p)
      /\ \A r \in Proc : AskedAt(p, r) = {} /\ QueuedAt(p, r) = {} /\ GrantedAt(p, r) = {}
      /\ todo' = todo /\ pc' = [a \in Proc |-> pc'[a]]
      /\ Waiting(p)' /\ \A a \in Proc \ {p} : Waiting(a)' <=> Waiting(a)
      /\ holds' \in [Proc -> SUBSET (Proc \X {1, 2})]
      /\ \A a \in Proc : (lock_granted'[a] => Waiting(a)') => InCall(a)'
  BY <1>1, LockCallWaits
<1>3. todo[p] # << >> /\ holds' = [holds EXCEPT ![p] = @ \ {<<p, 1>>, <<p, 2>>}]
  BY <1>1 DEF LockCall, Calls
<1>4. Reached(p, p, LockType(p))
  <2>1. LET d == do_lock(win[p], p, LockType(p))
        IN  win' = [win EXCEPT ![p] = d.w] /\ Tell(p, d.told, p)
    BY DEF LockOwn
  <2> HIDE DEF call
  <2> QED BY <1>1, <1>2, <1>3, <2>1 DEF Reached
<1>5. /\ \A a, b \in Proc : Ticket(a, b)'
      /\ \A a \in Proc : lock_granted'[a] => Waiting(a)'
      /\ wire' = [a \in Proc |-> [b \in Proc |-> wire'[a][b]]]
      /\ \A a, b \in Proc : IsSeq(wire'[a][b])
      /\ win' \in [Proc -> Window]
      /\ lock_granted' \in [Proc -> BOOLEAN]
      /\ Promise!Serve(p, p, LockType(p))
  BY <1>2, <1>4, RequestServed
<1>6. LockTypes'
  BY <1>2, <1>5 DEF IInv, LockTypes
<1>7. Promise!AskSelf(p, LockType(p))
  <2>1. Promise!Holding(p, p) <=> Holding(p, p)
    BY DEF Promise!Holding, Holding
  <2>2. call[p].stage = "out"
    BY <1>2 DEF Promise!NoCall
  <2> HIDE DEF call
  <2> QED BY <1>2, <1>3, <1>5, <2>1, <2>2 DEF Promise!AskSelf, Promise!Request
<1> QED BY <1>2, <1>5, <1>6, <1>7 DEF IInv

\* The request arrives at another process.
LEMMA ArrivalIsServed ==
  ASSUME IInv, NEW p \in Proc, NEW q \in Proc \ {p}, RecvLock(q, p)
  PROVE  IInv' /\ Promise!Arrive(q)
<1>i. LockTypes /\ (\A a \in Proc : InCall(a)) /\ (\A a, b \in Proc : Ticket(a, b))
  BY DEF IInv
<1>1. /\ wire[q][p] # << >> /\ Head(wire[q][p]).kind = "lock"
      /\ todo' = todo /\ pc' = pc /\ holds' = holds
  BY DEF RecvLock, Comes, progVars
<1>2. 1 \in AskedAt(q, p) /\ Head(wire[q][p]) = wire[q][p][1]
  <2>1. IsSeq(wire[q][p])
    BY <1>i DEF LockTypes
  <2> QED BY <1>1, <2>1, PlacesTaken, TakeMessage DEF AskedAt
<1>3. /\ Waiting(q) /\ Call(q).rank = p /\ ~lock_granted[q]
      /\ QueuedAt(q, p) = {} /\ GrantedAt(q, p) = {}
      /\ Head(wire[q][p]).type = LockType(q)
  BY <1>2, <1>i DEF Ticket
<1>4. todo[q] # << >> /\ LockType(q) \in 0 .. 2
  BY <1>3, <1>i, WaitingCall
<1>5. Reached(q, p, LockType(q))
  <2>1. LET d == do_lock(win[p], q, LockType(q))
        IN  win' = [win EXCEPT ![p] = d.w] /\ Tell(p, d.told, q)
    BY <1>3 DEF RecvLock, Msg
  <2>2. \A b \in Proc : b # p => AskedAt(q, b) = {} /\ QueuedAt(q, b) = {} /\ GrantedAt(q, b) = {}
    BY <1>3, <1>i, NoTicket
  <2>3. (\A a \in Proc : Waiting(a)' <=> Waiting(a)) /\ pc' = [a \in Proc |-> pc'[a]]
    BY <1>1, <1>i DEF Waiting, LockTypes
  <2> QED BY <1>1, <1>3, <1>4, <2>1, <2>2, <2>3 DEF Reached
<1>6. /\ \A a, b \in Proc : Ticket(a, b)'
      /\ \A a \in Proc : lock_granted'[a] => Waiting(a)'
      /\ wire' = [a \in Proc |-> [b \in Proc |-> wire'[a][b]]]
      /\ \A a, b \in Proc : IsSeq(wire'[a][b])
      /\ win' \in [Proc -> Window]
      /\ lock_granted' \in [Proc -> BOOLEAN]
      /\ Promise!Serve(p, q, LockType(q))
  BY <1>4, <1>5, RequestServed
<1>7. LockTypes'
  BY <1>1, <1>6, <1>i DEF LockTypes
<1>8. ASSUME NEW a \in Proc PROVE InCall(a)'
  <2>1. Call(a)' = Call(a) /\ (Waiting(a)' <=> Waiting(a)) /\ \A r : Holding(a, r)' <=> Holding(a, r)
    BY <1>1 DEF Call, Waiting, Holding
  <2>2. Had(a)' = Had(a)
    BY <2>1 DEF Had
  <2> QED BY <1>1, <1>6, <1>i, <2>1, <2>2 DEF InCall
<1>9. Promise!Arrive(q)
  <2>1. call[q] = [stage |-> "asked", rank |-> p, type |-> LockType(q)]
    <3>1. AskedAt(q, p) # {}
      BY <1>2
    <3> QED BY <1>3, <1>4, <3>1, CallOf
  <2> HIDE DEF call
  <2> QED BY <1>1, <1>6, <2>1 DEF Promise!Arrive
<1> QED BY <1>6, <1>7, <1>8, <1>9 DEF IInv

-----------------------------------------------------------------------------
(***************************************************************************)
(* The theorems.                                                           *)
(***************************************************************************)

\* Nobody waits at the beginning, and the programs are in turn.
LEMMA InitInv ==
  ASSUME Init
  PROVE  IInv /\ Promise!Init
<1>1. todo \in [Proc -> Seq(CallType)] /\ \A p \in Proc : LocksInTurn(todo[p], {})
  BY TcpWinAssumption DEF Init
<1>2. \A p \in Proc : ~Waiting(p) /\ Had(p) = {} /\ ~lock_granted[p] /\ call[p] = Promise!NoCall
  <2> TAKE p \in Proc
  <2>1. ~Waiting(p)
    BY DEF Init, Waiting, Run
  <2>2. \A r : ~Holding(p, r)
    BY DEF Init, Holding
  <2> QED BY <2>1, <2>2, CallOf DEF Init, Had
<1>3. \A p \in Proc : InCall(p)
  BY <1>1, <1>2 DEF InCall
<1>4. LockTypes
  <2>1. << >> \in Seq([src : Proc, type : {1, 2}])
    OBVIOUS
  <2>2. [locked |-> 0, count |-> 0, lock_q |-> << >>] \in Window
    BY <2>1 DEF Window
  <2>3. \A p, q \in Proc : IsSeq(wire[p][q])
    <3>1. << >> \in Seq({})
      OBVIOUS
    <3> QED BY <3>1, SeqOfItself DEF Init
  <2> QED BY <1>1, <2>2, <2>3 DEF Init, LockTypes
<1>5. \A p, r \in Proc : Ticket(p, r)
  <2> TAKE p \in Proc, r \in Proc
  <2>1. wire[p][r] = << >> /\ wire[r][p] = << >> /\ win[r].lock_q = << >>
    BY DEF Init
  <2>2. AskedAt(p, r) = {} /\ QueuedAt(p, r) = {} /\ GrantedAt(p, r) = {}
    BY <2>1 DEF AskedAt, QueuedAt, GrantedAt, Places
  <2> QED BY <2>2 DEF Ticket
<1>6. Promise!Init
  <2>1. call = [p \in Proc |-> call[p]]
    BY DEF call
  <2> HIDE DEF call
  <2> QED BY <1>2, <2>1 DEF Init, Promise!Init
<1> QED BY <1>3, <1>4, <1>5, <1>6 DEF IInv

\* A step that changes nothing.
LEMMA StutterInv ==
  ASSUME IInv, UNCHANGED vars
  PROVE  IInv' /\ UNCHANGED Promise!lockVars
<1>1. /\ todo' = todo /\ pc' = pc /\ wire' = wire /\ win' = win /\ lock_granted' = lock_granted
      /\ holds' = holds
  BY DEF vars, progVars, lockVars
<1>2. \A p : Waiting(p)' = Waiting(p) /\ Call(p)' = Call(p) /\ LockType(p)' = LockType(p)
  BY <1>1 DEF Waiting, Call, LockType
<1>3. \A p, r : /\ Holding(p, r)' = Holding(p, r) /\ AskedAt(p, r)' = AskedAt(p, r)
                /\ QueuedAt(p, r)' = QueuedAt(p, r) /\ GrantedAt(p, r)' = GrantedAt(p, r)
  BY <1>1 DEF Holding, AskedAt, QueuedAt, GrantedAt
<1>4. IInv'
  <2>1. LockTypes'
    BY <1>1 DEF IInv, LockTypes
  <2>2. ASSUME NEW p \in Proc PROVE InCall(p)'
    <3>1. Had(p)' = Had(p)
      BY <1>2, <1>3 DEF Had
    <3> QED BY <1>1, <1>2, <1>3, <3>1 DEF IInv, InCall, Holding, Call
  <2>3. ASSUME NEW p \in Proc, NEW r \in Proc PROVE Ticket(p, r)'
    <3>1. Ticket(p, r)
      BY DEF IInv
    <3> QED BY <1>1, <1>2, <1>3, <3>1 DEF Ticket
  <2> QED BY <2>1, <2>2, <2>3 DEF IInv
<1>5. call' = call
  BY <1>1 DEF call, Asked, Queued, At, Call, LockType
<1> QED BY <1>1, <1>4, <1>5 DEF Promise!lockVars

\* Every step keeps the invariant, and is a step of WinLock or none of it.
LEMMA NextInv ==
  ASSUME IInv, [Next]_vars
  PROVE  IInv' /\ [Promise!Next]_(Promise!lockVars)
<1>1. CASE UNCHANGED vars
  BY <1>1, StutterInv
<1>2. ASSUME NEW p \in Proc, QuietProgram(p) PROVE IInv' /\ UNCHANGED Promise!lockVars
  BY <1>2, ProgramIsQuiet, QuietKeeps DEF Promise!lockVars
<1>3. ASSUME NEW p \in Proc, NEW q \in Proc \ {p}, QuietHandle(q, p)
      PROVE  IInv' /\ UNCHANGED Promise!lockVars
  BY <1>3, HandleIsQuiet, QuietKeeps DEF Promise!lockVars
<1>4. ASSUME NEW p \in Proc, LockOwn(p) PROVE IInv' /\ Promise!Next
  BY <1>4, OwnIsServed DEF Promise!Next
<1>5. ASSUME NEW p \in Proc, LockOther(p) PROVE IInv' /\ Promise!Next
  BY <1>5, OtherIsAsked DEF Promise!Next
<1>6. ASSUME NEW p \in Proc, LockReturn(p) PROVE IInv' /\ Promise!Next
  BY <1>6, LockReturns DEF Promise!Next
<1>7. ASSUME NEW p \in Proc, NEW q \in Proc \ {p}, RecvGrant(q, p)
      PROVE  IInv' /\ UNCHANGED Promise!lockVars
  BY <1>7, GrantComes DEF Promise!lockVars
<1>8. ASSUME NEW p \in Proc, NEW q \in Proc \ {p}, RecvLock(q, p) PROVE IInv' /\ Promise!Next
  BY <1>8, ArrivalIsServed DEF Promise!Next
<1>9. ASSUME NEW p \in Proc, Program(p) PROVE IInv' /\ [Promise!Next]_(Promise!lockVars)
  <2>1. QuietProgram(p) \/ LockOwn(p) \/ LockOther(p) \/ LockReturn(p)
    BY <1>9 DEF Program, QuietProgram
  <2> QED BY <1>2, <1>4, <1>5, <1>6, <2>1
<1>10. ASSUME NEW p \in Proc, Handle(p) PROVE IInv' /\ [Promise!Next]_(Promise!lockVars)
  <2>1. PICK q \in Proc \ {p} : QuietHandle(q, p) \/ RecvGrant(q, p) \/ RecvLock(q, p)
    BY <1>10 DEF Handle, QuietHandle
  <2> QED BY <1>3, <1>7, <1>8, <2>1
<1> QED BY <1>1, <1>9, <1>10 DEF Next

\* Of every process a request is in one place at most, it waits for it there, and its
\* calls are in turn with the locks it has: what do_lock() and the handler rely on.
THEOREM TcpWinInvariance == Spec => []IInv
<1>1. Init => IInv
  BY InitInv
<1>2. IInv /\ [Next]_vars => IInv'
  BY NextInv
<1> QED BY <1>1, <1>2, PTL DEF Spec

\* do_lock(), its queue and its messages keep the promise of WinLock: who asks is
\* granted, or queued and granted when the window is free, once.
THEOREM TcpWinImplementsLocks == Spec => ImplementsLocks
<1>1. Init => Promise!Init
  BY InitInv
<1>2. IInv /\ [Next]_vars => [Promise!Next]_(Promise!lockVars)
  BY NextInv
<1> QED BY <1>1, <1>2, TcpWinInvariance, PTL DEF Spec, ImplementsLocks, Promise!Spec

\* The definitions of WinLock are the same wherever they are instantiated.
LEMMA SameInit == Promise!Init <=> Locks!Init
BY DEF Promise!Init, Locks!Init, Promise!NoCall, Locks!NoCall

\* And so are their steps.
LEMMA SameNext ==
  [Promise!Next]_(Promise!lockVars) <=> [Locks!Next]_(Locks!lockVars)
BY DEF Promise!Next, Promise!Ask, Promise!AskSelf, Promise!Arrive, Promise!Return,
       Promise!Request, Promise!Serve, Promise!Holding, Promise!DoLock, Promise!Told,
       Promise!Grants, Promise!Enqueue, Promise!AfterUnlock, Promise!LetIn, Promise!Leading,
       Promise!TryLock, Promise!lockVars, Promise!NoCall,
       Locks!Next, Locks!Ask, Locks!AskSelf, Locks!Arrive, Locks!Return,
       Locks!Request, Locks!Serve, Locks!Holding, Locks!DoLock, Locks!Told,
       Locks!Grants, Locks!Enqueue, Locks!AfterUnlock, Locks!LetIn, Locks!Leading,
       Locks!TryLock, Locks!lockVars, Locks!NoCall

\* A process that holds a window for writing is alone with it, over the messages and
\* the queue of tcp.c.
THEOREM TcpWinExclusion == Spec => []Promise!Exclusion
<1>1. ImplementsLocks => Locks!Spec
  BY SameInit, SameNext, PTL DEF ImplementsLocks, Promise!Spec, Locks!Spec
<1>2. Promise!Exclusion <=> Locks!Exclusion
  BY DEF Promise!Exclusion, Locks!Exclusion, Promise!Holding, Locks!Holding
<1>3. Locks!Spec => []Locks!Exclusion
  BY Locks!WinLockExclusion
<1> QED BY <1>1, <1>2, <1>3, TcpWinImplementsLocks, PTL

-----------------------------------------------------------------------------
(***************************************************************************)
(* What flushes a put.  Each way to synchronise sends a message after the  *)
(* puts, in the same stream: a fence the flag with its number, complete    *)
(* its signal, unlock its request.  A promise is made when that message    *)
(* has been taken, so no put is before it any more.                        *)
(***************************************************************************)

\* A message of a kind, or a flag of an index, comes after the i-th.
Later(s, i, kind)  == \E j \in Places(s, kind) : j > i
Flags(s, x)        == {j \in Places(s, "flag") : s[j].index = x}
FlagLater(s, i, x) == \E j \in Flags(s, x) : j > i

\* What can become of a stream in a step.
Adds(s, t, m) == t = Append(s, m)
Takes(s, t)   == s # << >> /\ t = Tail(s)

\* What was behind a put stays behind it.
LEMMA OldPuts ==
  ASSUME NEW s, IsSeq(s), NEW t, t = s \/ Takes(s, t), NEW i \in Places(t, "put")
  PROVE  \E k \in Places(s, "put") :
           /\ t[i] = s[k]
           /\ \A kind : Later(s, k, kind) => Later(t, i, kind)
           /\ \A x : FlagLater(s, k, x) => FlagLater(t, i, x)
<1>1. CASE t = s
  BY <1>1
<1>2. CASE Takes(s, t)
  <2>1. /\ Len(s) \in Nat \ {0}
        /\ DOMAIN s = 1 .. Len(s) /\ DOMAIN t = 1 .. Len(s) - 1
        /\ \A j \in 1 .. Len(s) - 1 : t[j] = s[j + 1]
    BY <1>2, TakeMessage DEF Takes
  <2>2. i \in 1 .. Len(s) - 1 /\ i + 1 \in Places(s, "put") /\ t[i] = s[i + 1]
    BY <2>1 DEF Places
  <2>3. ASSUME NEW kind, NEW j \in Places(s, kind), j > i + 1
        PROVE  j - 1 \in Places(t, kind) /\ j - 1 > i /\ t[j - 1] = s[j]
    <3>1. j \in 1 .. Len(s) /\ s[j].kind = kind
      BY <2>1 DEF Places
    <3>2. j - 1 \in 1 .. Len(s) - 1 /\ (j - 1) + 1 = j /\ j - 1 > i
      BY <2>1, <2>2, <2>3, <3>1
    <3> QED BY <2>1, <3>1, <3>2 DEF Places
  <2>4. \A kind : Later(s, i + 1, kind) => Later(t, i, kind)
    BY <2>3 DEF Later
  <2>5. \A x : FlagLater(s, i + 1, x) => FlagLater(t, i, x)
    BY <2>3 DEF FlagLater, Flags
  <2> QED BY <2>2, <2>4, <2>5
<1> QED BY <1>1, <1>2

\* And behind all of them is a message that is added.
LEMMA NewPuts ==
  ASSUME NEW s, IsSeq(s), NEW t, NEW m, Adds(s, t, m), NEW i \in Places(t, "put")
  PROVE  \/ /\ m.kind = "put" /\ t[i] = m
         \/ \E k \in Places(s, "put") :
              /\ t[i] = s[k]
              /\ \A kind : Later(s, k, kind) \/ m.kind = kind => Later(t, i, kind)
              /\ \A x : FlagLater(s, k, x) \/ (m.kind = "flag" /\ m.index = x) => FlagLater(t, i, x)
<1>1. /\ Len(s) \in Nat
      /\ DOMAIN s = 1 .. Len(s) /\ DOMAIN t = 1 .. Len(s) + 1
      /\ \A j \in 1 .. Len(s) : t[j] = s[j]
      /\ t[Len(s) + 1] = m
  BY AddMessage DEF Adds
<1>2. i \in 1 .. Len(s) + 1 /\ t[i].kind = "put"
  BY <1>1 DEF Places
<1>3. CASE i = Len(s) + 1
  BY <1>1, <1>2, <1>3
<1>4. CASE i \in 1 .. Len(s)
  <2>1. i \in Places(s, "put") /\ t[i] = s[i] /\ Len(s) + 1 > i
    BY <1>1, <1>2, <1>4 DEF Places
  <2>2. \A kind : Places(s, kind) \subseteq Places(t, kind)
    BY <1>1 DEF Places
  <2>3. \A kind : m.kind = kind => Len(s) + 1 \in Places(t, kind)
    BY <1>1 DEF Places
  <2>4. \A j \in DOMAIN s : t[j] = s[j]
    BY <1>1
  <2>5. \A kind : Later(s, i, kind) \/ m.kind = kind => Later(t, i, kind)
    BY <2>1, <2>2, <2>3 DEF Later
  <2>6. \A x : FlagLater(s, i, x) => FlagLater(t, i, x)
    BY <2>2, <2>4 DEF FlagLater, Flags, Places
  <2>7. \A x : m.kind = "flag" /\ m.index = x => FlagLater(t, i, x)
    BY <1>1, <2>1, <2>3 DEF FlagLater, Flags
  <2> QED BY <2>1, <2>5, <2>6, <2>7
<1>5. i = Len(s) + 1 \/ i \in 1 .. Len(s)
  BY <1>1, <1>2
<1> QED BY <1>3, <1>4, <1>5

\* The flags of an index after a message was added.
LEMMA FlagsAdded ==
  ASSUME NEW s, IsSeq(s), NEW t, NEW m, Adds(s, t, m), NEW x
  PROVE  /\ m.kind = "flag" /\ m.index = x => Flags(t, x) = Flags(s, x) \cup {Len(s) + 1}
         /\ ~(m.kind = "flag" /\ m.index = x) => Flags(t, x) = Flags(s, x)
<1>1. /\ Len(s) \in Nat
      /\ DOMAIN s = 1 .. Len(s) /\ DOMAIN t = 1 .. Len(s) + 1
      /\ \A j \in 1 .. Len(s) : t[j] = s[j]
      /\ t[Len(s) + 1] = m
  BY AddMessage DEF Adds
<1>2. DOMAIN t = DOMAIN s \cup {Len(s) + 1}
  BY <1>1
<1>3. \A j : j \in Flags(t, x) <=> j \in Flags(s, x) \/ (j = Len(s) + 1 /\ m.kind = "flag" /\ m.index = x)
  <2> TAKE j
  <2>1. CASE j \in DOMAIN s
    <3>1. j # Len(s) + 1 /\ t[j] = s[j]
      BY <1>1, <2>1
    <3> QED BY <1>2, <2>1, <3>1 DEF Flags, Places
  <2>2. CASE j = Len(s) + 1
    <3>1. j \notin DOMAIN s
      BY <1>1, <2>2
    <3> QED BY <1>1, <1>2, <2>2, <3>1 DEF Flags, Places
  <2>3. CASE j \notin DOMAIN s /\ j # Len(s) + 1
    BY <1>2, <2>3 DEF Flags, Places
  <2> QED BY <2>1, <2>2, <2>3
<1> QED BY <1>3

\* And after the first was taken.
LEMMA FlagsTaken ==
  ASSUME NEW s, IsSeq(s), NEW t, Takes(s, t), NEW x
  PROVE  /\ ~(Head(s).kind = "flag" /\ Head(s).index = x) => Flags(t, x) = {j - 1 : j \in Flags(s, x)}
         /\ Head(s).kind = "flag" /\ Head(s).index = x => 1 \in Flags(s, x)
         /\ Flags(t, x) \subseteq {j - 1 : j \in Flags(s, x) \ {1}}
         /\ Flags(s, x) \subseteq Nat \ {0}
<1>1. /\ Len(s) \in Nat \ {0}
      /\ DOMAIN s = 1 .. Len(s) /\ DOMAIN t = 1 .. Len(s) - 1
      /\ \A j \in 1 .. Len(s) - 1 : t[j] = s[j + 1]
      /\ Head(s) = s[1]
  BY TakeMessage DEF Takes
<1>2. \A j \in Flags(t, x) : j + 1 \in Flags(s, x) \ {1} /\ (j + 1) - 1 = j
  <2> TAKE j \in Flags(t, x)
  <2>1. j \in 1 .. Len(s) - 1 /\ t[j].kind = "flag" /\ t[j].index = x
    BY <1>1 DEF Flags, Places
  <2>2. j + 1 \in 1 .. Len(s) /\ (j + 1) - 1 = j /\ j + 1 # 1
    BY <1>1, <2>1
  <2> QED BY <1>1, <2>1, <2>2 DEF Flags, Places
<1>3. ASSUME NEW j \in Flags(s, x), j # 1 PROVE j - 1 \in Flags(t, x)
  <2>1. j \in 1 .. Len(s) /\ s[j].kind = "flag" /\ s[j].index = x
    BY <1>1 DEF Flags, Places
  <2>2. j - 1 \in 1 .. Len(s) - 1 /\ (j - 1) + 1 = j
    BY <1>1, <1>3, <2>1
  <2> QED BY <1>1, <2>1, <2>2 DEF Flags, Places
<1>4. 1 \in Flags(s, x) <=> Head(s).kind = "flag" /\ Head(s).index = x
  <2>1. 1 \in DOMAIN s
    BY <1>1
  <2> QED BY <1>1, <2>1 DEF Flags, Places
<1>5. Flags(s, x) \subseteq Nat \ {0}
  BY <1>1 DEF Flags, Places
<1>6. Flags(t, x) \subseteq {j - 1 : j \in Flags(s, x) \ {1}}
  BY <1>2
<1>7. ASSUME 1 \notin Flags(s, x) PROVE Flags(t, x) = {j - 1 : j \in Flags(s, x)}
  BY <1>2, <1>3, <1>7
<1> QED BY <1>4, <1>5, <1>6, <1>7

-----------------------------------------------------------------------------
(***************************************************************************)
(* The flags of the fences that go from one process to another.  Fences    *)
(* are numbered; of the flags sent, met are those that the other has       *)
(* waited for, and the rest are in the stream or raised.  There are two    *)
(* at most, so the two indices tell them apart.                            *)
(***************************************************************************)

\* A flag of index x is under way.
Out(x, met, sent) == \E k \in met .. sent - 1 : k % 2 = x

FlagsAre(s, raised, met, sent) ==
  /\ met \in Nat /\ sent \in Nat /\ met <= sent /\ sent <= met + 2
  /\ \A i \in Places(s, "flag") : s[i].index \in 0 .. 1
  /\ \A x \in 0 .. 1 :
       /\ \A i, j \in Flags(s, x) : i = j
       /\ x \in raised => Flags(s, x) = {}
       /\ x \in raised \/ Flags(s, x) # {} <=> Out(x, met, sent)

\* A put made before fence n is followed by the flags of n and the fences after it.
PutsAre(s, met, sent) ==
  \A i \in Places(s, "put") : s[i].sync = "fence" =>
    /\ s[i].era \in Nat /\ met <= s[i].era
    /\ \A k \in met .. sent - 1 : s[i].era <= k => FlagLater(s, i, k % 2)

\* The flag of the next fence has an index of which none is under way.
LEMMA OutSent ==
  ASSUME NEW met \in Nat, NEW sent \in Nat, met <= sent, sent <= met + 1
  PROVE  /\ ~Out(sent % 2, met, sent) /\ sent % 2 \in 0 .. 1
         /\ \A x : Out(x, met, sent + 1) <=> Out(x, met, sent) \/ x = sent % 2
<1>1. sent % 2 \in 0 .. 1
  OBVIOUS
<1>2. \A k \in met .. sent - 1 : k + 1 = sent
  OBVIOUS
<1>3. \A k \in Nat : k + 1 = sent => k % 2 # sent % 2
  OBVIOUS
<1>4. ~Out(sent % 2, met, sent)
  <2>1. \A k \in met .. sent - 1 : k \in Nat
    OBVIOUS
  <2> QED BY <1>2, <1>3, <2>1 DEF Out
<1>5. met .. (sent + 1) - 1 = (met .. sent - 1) \cup {sent}
  OBVIOUS
<1>6. \A x : Out(x, met, sent + 1) <=> Out(x, met, sent) \/ x = sent % 2
  BY <1>5 DEF Out
<1> QED BY <1>1, <1>4, <1>6

\* The flag that is met is under way, and then no longer.
LEMMA OutMet ==
  ASSUME NEW met \in Nat, NEW sent \in Nat, met <= sent, sent <= met + 2,
         Out(met % 2, met, sent)
  PROVE  /\ met + 1 <= sent /\ met % 2 \in 0 .. 1
         /\ \A x : Out(x, met + 1, sent) <=> Out(x, met, sent) /\ x # met % 2
<1>1. met % 2 \in 0 .. 1
  OBVIOUS
<1>2. met + 1 <= sent
  BY DEF Out
<1>3. met .. sent - 1 = {met} \cup (met + 1 .. sent - 1)
  BY <1>2
<1>4. \A k \in met + 1 .. sent - 1 : k = met + 1
  OBVIOUS
<1>5. (met + 1) % 2 # met % 2
  OBVIOUS
<1>6. \A x : Out(x, met + 1, sent) <=> Out(x, met, sent) /\ x # met % 2
  BY <1>3, <1>4, <1>5 DEF Out
<1> QED BY <1>1, <1>2, <1>6

\* A message of another kind comes or goes.
LEMMA FlagsStay ==
  ASSUME NEW s, IsSeq(s), NEW t, NEW raised, NEW met, NEW sent, FlagsAre(s, raised, met, sent),
         t = s \/ (\E m : m.kind # "flag" /\ Adds(s, t, m))
               \/ (Takes(s, t) /\ Head(s).kind # "flag")
  PROVE  FlagsAre(t, raised, met, sent)
<1>1. CASE t = s
  BY <1>1
<1>2. ASSUME NEW m, m.kind # "flag", Adds(s, t, m) PROVE FlagsAre(t, raised, met, sent)
  <2>1. \A x : Flags(t, x) = Flags(s, x)
    BY <1>2, FlagsAdded
  <2>2. \A i \in Places(t, "flag") : t[i].index \in 0 .. 1
    <3>1. /\ Len(s) \in Nat
          /\ DOMAIN s = 1 .. Len(s) /\ DOMAIN t = 1 .. Len(s) + 1
          /\ \A j \in 1 .. Len(s) : t[j] = s[j]
          /\ t[Len(s) + 1] = m
      BY <1>2, AddMessage DEF Adds
    <3>2. \A i \in Places(t, "flag") : i \in Places(s, "flag") /\ t[i] = s[i]
      BY <1>2, <3>1 DEF Places
    <3> QED BY <3>2 DEF FlagsAre
  <2> QED BY <2>1, <2>2 DEF FlagsAre
<1>3. ASSUME Takes(s, t), Head(s).kind # "flag" PROVE FlagsAre(t, raised, met, sent)
  <2>1. \A x : Flags(t, x) = {j - 1 : j \in Flags(s, x)}
    BY <1>3, FlagsTaken
  <2>2. \A i \in Places(t, "flag") : t[i].index \in 0 .. 1
    <3>1. /\ Len(s) \in Nat \ {0}
          /\ DOMAIN s = 1 .. Len(s) /\ DOMAIN t = 1 .. Len(s) - 1
          /\ \A j \in 1 .. Len(s) - 1 : t[j] = s[j + 1]
      BY <1>3, TakeMessage DEF Takes
    <3>2. \A i \in Places(t, "flag") : i + 1 \in Places(s, "flag") /\ t[i] = s[i + 1]
      BY <3>1 DEF Places
    <3> QED BY <3>2 DEF FlagsAre
  <2>3. \A x \in 0 .. 1 : Flags(t, x) = {} <=> Flags(s, x) = {}
    BY <2>1
  <2>4. \A x \in 0 .. 1 : \A i, j \in Flags(t, x) : i = j
    BY <2>1 DEF FlagsAre
  <2> QED BY <2>2, <2>3, <2>4 DEF FlagsAre
<1> QED BY <1>1, <1>2, <1>3

\* The flag of a fence is sent.
LEMMA FlagsSent ==
  ASSUME NEW s, IsSeq(s), NEW t, NEW raised, NEW met, NEW sent, FlagsAre(s, raised, met, sent),
         sent <= met + 1, NEW m, m.kind = "flag", m.index = sent % 2, Adds(s, t, m)
  PROVE  FlagsAre(t, raised, met, sent + 1)
<1>1. met \in Nat /\ sent \in Nat /\ met <= sent
  BY DEF FlagsAre
<1>2. /\ ~Out(sent % 2, met, sent) /\ sent % 2 \in 0 .. 1
      /\ \A x : Out(x, met, sent + 1) <=> Out(x, met, sent) \/ x = sent % 2
  BY <1>1, OutSent
<1>3. PICK y : y = sent % 2
  OBVIOUS
<1>4. Flags(s, y) = {} /\ y \notin raised
  BY <1>2, <1>3 DEF FlagsAre
<1>5. Flags(t, y) = {Len(s) + 1} /\ \A x : x # y => Flags(t, x) = Flags(s, x)
  <2>1. m.index = y
    BY <1>3
  <2>2. Flags(t, y) = Flags(s, y) \cup {Len(s) + 1}
    BY <2>1, FlagsAdded
  <2>3. \A x : x # y => Flags(t, x) = Flags(s, x)
    BY <2>1, FlagsAdded
  <2> QED BY <1>4, <2>2, <2>3
<1>6. \A i \in Places(t, "flag") : t[i].index \in 0 .. 1
  <2>1. /\ Len(s) \in Nat
        /\ DOMAIN s = 1 .. Len(s) /\ DOMAIN t = 1 .. Len(s) + 1
        /\ \A j \in 1 .. Len(s) : t[j] = s[j]
        /\ t[Len(s) + 1] = m
    BY AddMessage DEF Adds
  <2>2. \A i \in Places(t, "flag") : (i \in Places(s, "flag") /\ t[i] = s[i]) \/ t[i] = m
    BY <2>1 DEF Places
  <2> QED BY <1>2, <2>2 DEF FlagsAre
<1>7. ASSUME NEW x \in 0 .. 1
      PROVE  /\ \A i, j \in Flags(t, x) : i = j
             /\ x \in raised => Flags(t, x) = {}
             /\ x \in raised \/ Flags(t, x) # {} <=> Out(x, met, sent + 1)
  <2>1. CASE x = y
    BY <1>2, <1>3, <1>4, <1>5, <2>1
  <2>2. CASE x # y
    BY <1>2, <1>3, <1>5, <2>2 DEF FlagsAre
  <2> QED BY <2>1, <2>2
<1>8. sent + 1 \in Nat /\ met <= sent + 1 /\ sent + 1 <= met + 2
  BY <1>1
<1> QED BY <1>1, <1>6, <1>7, <1>8 DEF FlagsAre

\* It arrives and is raised.
LEMMA FlagsRaised ==
  ASSUME NEW s, IsSeq(s), NEW t, NEW raised, NEW met, NEW sent, FlagsAre(s, raised, met, sent),
         Takes(s, t), Head(s).kind = "flag"
  PROVE  /\ Head(s).index \in 0 .. 1
         /\ FlagsAre(t, raised \cup {Head(s).index}, met, sent)
<1>1. PICK y : y = Head(s).index
  OBVIOUS
<1>2. 1 \in Flags(s, y) /\ Flags(t, y) \subseteq {j - 1 : j \in Flags(s, y) \ {1}}
  BY <1>1, FlagsTaken
<1>3. y \in 0 .. 1
  <2>1. 1 \in Places(s, "flag") /\ s[1].index = y
    BY <1>2 DEF Flags
  <2> QED BY <2>1 DEF FlagsAre
<1>4. Flags(t, y) = {}
  BY <1>2, <1>3 DEF FlagsAre
<1>5. \A x : x # y => Flags(t, x) = {j - 1 : j \in Flags(s, x)}
  BY <1>1, FlagsTaken
<1>6. \A i \in Places(t, "flag") : t[i].index \in 0 .. 1
  <2>1. /\ Len(s) \in Nat \ {0}
        /\ DOMAIN s = 1 .. Len(s) /\ DOMAIN t = 1 .. Len(s) - 1
        /\ \A j \in 1 .. Len(s) - 1 : t[j] = s[j + 1]
    BY TakeMessage DEF Takes
  <2>2. \A i \in Places(t, "flag") : i + 1 \in Places(s, "flag") /\ t[i] = s[i + 1]
    BY <2>1 DEF Places
  <2> QED BY <2>2 DEF FlagsAre
<1>7. ASSUME NEW x \in 0 .. 1
      PROVE  /\ \A i, j \in Flags(t, x) : i = j
             /\ x \in raised \cup {y} => Flags(t, x) = {}
             /\ x \in raised \cup {y} \/ Flags(t, x) # {} <=> Out(x, met, sent)
  <2>1. CASE x = y
    BY <1>2, <1>4, <2>1 DEF FlagsAre
  <2>2. CASE x # y
    <3>1. Flags(t, x) = {} <=> Flags(s, x) = {}
      BY <1>5, <2>2
    <3>2. \A i, j \in Flags(t, x) : i = j
      BY <1>5, <2>2 DEF FlagsAre
    <3> QED BY <2>2, <3>1, <3>2 DEF FlagsAre
  <2> QED BY <2>1, <2>2
<1> QED BY <1>1, <1>3, <1>6, <1>7 DEF FlagsAre

\* The fence that waits for it goes on, and no flag of that index is behind it.
LEMMA FlagsMet ==
  ASSUME NEW s, NEW raised, NEW met, NEW sent, FlagsAre(s, raised, met, sent), met % 2 \in raised
  PROVE  /\ FlagsAre(s, raised \ {met % 2}, met + 1, sent)
         /\ met \in met .. sent - 1 /\ Flags(s, met % 2) = {}
<1>1. met \in Nat /\ sent \in Nat /\ met <= sent /\ sent <= met + 2 /\ met % 2 \in 0 .. 1
  <2>1. met \in Nat /\ sent \in Nat /\ met <= sent /\ sent <= met + 2
    BY DEF FlagsAre
  <2> QED BY <2>1
<1>2. Out(met % 2, met, sent) /\ Flags(s, met % 2) = {}
  BY <1>1 DEF FlagsAre
<1>3. /\ met + 1 <= sent
      /\ \A x : Out(x, met + 1, sent) <=> Out(x, met, sent) /\ x # met % 2
  BY <1>1, <1>2, OutMet
<1>4. PICK y : y = met % 2
  OBVIOUS
<1>5. ASSUME NEW x \in 0 .. 1
      PROVE  /\ \A i, j \in Flags(s, x) : i = j
             /\ x \in raised \ {y} => Flags(s, x) = {}
             /\ x \in raised \ {y} \/ Flags(s, x) # {} <=> Out(x, met + 1, sent)
  <2>1. CASE x = y
    BY <1>2, <1>3, <1>4, <2>1
  <2>2. CASE x # y
    BY <1>3, <1>4, <2>2 DEF FlagsAre
  <2> QED BY <2>1, <2>2
<1>6. met + 1 \in Nat /\ sent <= (met + 1) + 2 /\ met \in met .. sent - 1
  BY <1>1, <1>3
<1>7. \A i \in Places(s, "flag") : s[i].index \in 0 .. 1
  BY DEF FlagsAre
<1> QED BY <1>1, <1>2, <1>3, <1>4, <1>5, <1>6, <1>7 DEF FlagsAre

\* The puts when a message is taken, or one is added that is no put, or the put of who has
\* sent just the flags of the fences before.
LEMMA PutsStay ==
  ASSUME NEW s, IsSeq(s), NEW t, NEW met \in Nat, NEW sent \in Nat, PutsAre(s, met, sent),
         \/ t = s \/ Takes(s, t)
         \/ \E m : /\ Adds(s, t, m)
                   /\ m.kind = "put" => m.era = sent /\ met <= sent
  PROVE  PutsAre(t, met, sent)
<1> SUFFICES ASSUME NEW i \in Places(t, "put"), t[i].sync = "fence"
             PROVE  /\ t[i].era \in Nat /\ met <= t[i].era
                    /\ \A k \in met .. sent - 1 : t[i].era <= k => FlagLater(t, i, k % 2)
  BY DEF PutsAre
<1>1. ASSUME NEW j \in Places(s, "put"), t[i] = s[j], \A x : FlagLater(s, j, x) => FlagLater(t, i, x)
      PROVE  /\ t[i].era \in Nat /\ met <= t[i].era
             /\ \A k \in met .. sent - 1 : t[i].era <= k => FlagLater(t, i, k % 2)
  BY <1>1 DEF PutsAre
<1>2. CASE t = s \/ Takes(s, t)
  BY <1>1, <1>2, OldPuts
<1>3. ASSUME NEW m, Adds(s, t, m), m.kind = "put" => m.era = sent /\ met <= sent
      PROVE  /\ t[i].era \in Nat /\ met <= t[i].era
             /\ \A k \in met .. sent - 1 : t[i].era <= k => FlagLater(t, i, k % 2)
  <2>1. CASE m.kind = "put" /\ t[i] = m
    <3>1. t[i].era = sent /\ met <= sent
      BY <1>3, <2>1
    <3>2. \A k \in met .. sent - 1 : ~(sent <= k)
      OBVIOUS
    <3> QED BY <3>1, <3>2
  <2>2. CASE \E j \in Places(s, "put") : t[i] = s[j] /\ \A x : FlagLater(s, j, x) => FlagLater(t, i, x)
    BY <1>1, <2>2
  <2> QED BY <1>3, <2>1, <2>2, NewPuts
<1> QED BY <1>2, <1>3

\* All of them are behind the next flag.
LEMMA PutsFlagged ==
  ASSUME NEW s, IsSeq(s), NEW t, NEW met \in Nat, NEW sent \in Nat, met <= sent, PutsAre(s, met, sent),
         NEW m, Adds(s, t, m), m.kind = "flag", m.index = sent % 2
  PROVE  PutsAre(t, met, sent + 1)
<1> SUFFICES ASSUME NEW i \in Places(t, "put"), t[i].sync = "fence"
             PROVE  /\ t[i].era \in Nat /\ met <= t[i].era
                    /\ \A k \in met .. (sent + 1) - 1 : t[i].era <= k => FlagLater(t, i, k % 2)
  BY DEF PutsAre
<1>1. PICK j \in Places(s, "put") :
              /\ t[i] = s[j]
              /\ \A x : FlagLater(s, j, x) \/ (m.kind = "flag" /\ m.index = x) => FlagLater(t, i, x)
  BY NewPuts
<1>2. met .. (sent + 1) - 1 = (met .. sent - 1) \cup {sent}
  OBVIOUS
<1> QED BY <1>1, <1>2 DEF PutsAre

\* When a flag was met, no put from before it is left.
LEMMA PutsMet ==
  ASSUME NEW s, NEW met \in Nat, NEW sent \in Nat, PutsAre(s, met, sent),
         met \in met .. sent - 1, Flags(s, met % 2) = {}
  PROVE  PutsAre(s, met + 1, sent)
<1> SUFFICES ASSUME NEW i \in Places(s, "put"), s[i].sync = "fence"
             PROVE  /\ s[i].era \in Nat /\ met + 1 <= s[i].era
                    /\ \A k \in met + 1 .. sent - 1 : s[i].era <= k => FlagLater(s, i, k % 2)
  BY DEF PutsAre
<1>1. /\ s[i].era \in Nat /\ met <= s[i].era
      /\ \A k \in met .. sent - 1 : s[i].era <= k => FlagLater(s, i, k % 2)
  BY DEF PutsAre
<1>2. ~(s[i].era <= met)
  BY <1>1 DEF FlagLater
<1>3. met + 1 <= s[i].era
  BY <1>1, <1>2
<1>4. \A k \in met + 1 .. sent - 1 : k \in met .. sent - 1
  OBVIOUS
<1> QED BY <1>1, <1>3, <1>4

-----------------------------------------------------------------------------
(***************************************************************************)
(* The invariant.                                                          *)
(***************************************************************************)
Ats == {"run", "granted", "send", "flags", "mark", "reset"}

FlushTypes ==
  /\ pc \in [Proc -> [at : Ats, i : Nat]]
  /\ procs \in [Proc -> [Proc -> [0 .. 1 -> BOOLEAN]]]
  /\ fence_index \in [Proc -> 0 .. 1] /\ fences \in [Proc -> Nat]
  /\ post_sent \in [Proc -> SUBSET Proc] /\ post_received \in [Proc -> SUBSET Proc]
  /\ access \in [Proc -> SUBSET Proc] /\ exposed \in [Proc -> SUBSET Proc]

Doing(p, op) == todo[p] # << >> /\ Call(p).op = op

\* Only these calls have places within; a fence uses the flag of its number.
Place(p) ==
  /\ pc[p].at \in {"send", "flags"} => Doing(p, "fence")
  /\ pc[p].at = "mark" => Doing(p, "post") /\ pc[p].i \in Proc
  /\ pc[p].at = "reset" => Doing(p, "complete") /\ pc[p].i \in Proc
  /\ pc[p].at = "run" /\ pc[p].i # 0 => Doing(p, "post") \/ Doing(p, "complete")
  /\ fence_index[p] = fences[p] % 2

\* A call of post finds nothing exposed but what it has posted itself.
Posts(p) ==
  /\ PostsInTurn(todo[p])
  /\ Doing(p, "post") =>
       \A k \in exposed[p] : k < pc[p].i \/ (k = pc[p].i /\ pc[p].at = "mark")
  /\ exposed[p] # {} =>
       \A j \in DOMAIN todo[p] : j > 1 /\ todo[p][j].op = "post" =>
         \E i \in 1 .. j - 1 : todo[p][i].op = "win_wait"

\* How many flags p has sent to q, and how many of p's q has waited for.
SentBy(p, q) == fences[p] + IF pc[p].at = "flags" \/ (pc[p].at = "send" /\ pc[p].i > q) THEN 1 ELSE 0
MetBy(q, p)  == fences[q] + IF pc[q].at = "flags" /\ pc[q].i > p THEN 1 ELSE 0
Raised(q, p) == {x \in 0 .. 1 : procs[q][p][x]}

FencePair(p, q) == /\ FlagsAre(wire[p][q], Raised(q, p), MetBy(q, p), SentBy(p, q))
                   /\ PutsAre(wire[p][q], MetBy(q, p), SentBy(p, q))

\* A put under a lock is before the request to unlock, when p has it no longer.
LockPair(p, q) ==
  \A i \in Places(wire[p][q], "put") : wire[p][q][i].sync = "lock" =>
    \/ Holding(p, q)
    \/ Unlocking(p, q) /\ Later(wire[p][q], i, "lock")

\* p has the post of q, and has not completed its epoch.
Received(p, q) == q \in post_received[p] /\ ~(pc[p].at = "reset" /\ pc[p].i = q)

\* A put of an epoch is before the complete, when p has completed it.
StartPair(p, q) ==
  \A i \in Places(wire[p][q], "put") : wire[p][q][i].sync = "start" =>
    Received(p, q) \/ Later(wire[p][q], i, "complete")

PostAt(p, q)     == Places(wire[q][p], "post")
CompleteAt(p, q) == Places(wire[p][q], "complete")

\* An epoch of p on q is in one place: q's post, p's knowledge of it, or p's complete.  As
\* long as it is in one, q's window is exposed to p, and q waits for it, or will.
Exposing(q, p) == p \in exposed[q] /\ (p \in post_sent[q] \/ (pc[q].at = "mark" /\ pc[q].i = p))

EpochIs(posts, completes, received, exposing) ==
  /\ \A i, j \in posts : i = j
  /\ \A i, j \in completes : i = j
  /\ posts # {} => completes = {} /\ ~received
  /\ completes # {} => ~received
  /\ posts # {} \/ completes # {} \/ received => exposing

Epoch(p, q) == EpochIs(PostAt(p, q), CompleteAt(p, q), Received(p, q), Exposing(q, p))

\* p puts where it has been let in, till it completes.
Access(p, q) == q \in access[p] => Received(p, q) \/ Doing(p, "complete")

\* No put goes to who makes it, and each is flushed in one of three ways.
PutsFit(p, q) ==
  \A i \in Places(wire[p][q], "put") : p # q /\ wire[p][q][i].sync \in {"lock", "start", "fence"}

FlushInv ==
  /\ FlushTypes
  /\ \A p \in Proc : Place(p) /\ Posts(p)
  /\ \A p, q \in Proc : PutsFit(p, q)
  /\ \A p, q \in Proc : p # q =>
       FencePair(p, q) /\ LockPair(p, q) /\ StartPair(p, q) /\ Epoch(p, q) /\ Access(p, q)

-----------------------------------------------------------------------------
(***************************************************************************)
(* What each step does to the messages.                                    *)
(***************************************************************************)

\* What a put of a to b says of a.
PutFits(a, b, m) ==
  /\ a # b /\ (Doing(a, "aput") \/ Doing(a, "add"))
  /\ m.era = fences[a] /\ m.sync \in {"lock", "start", "fence"}
  /\ m.sync = "lock" => Holding(a, b)
  /\ m.sync = "start" => b \in access[a]

\* In a step of p, or of its handler: p sends messages of the kinds K, and takes one of k.
Adding(p, a, b, K) ==
  a = p /\ \E m : /\ m.kind \in K /\ Adds(wire[a][b], wire'[a][b], m)
                  /\ m.kind = "put" => PutFits(a, b, m)
Taking(p, a, b, k) ==
  b = p /\ Takes(wire[a][b], wire'[a][b]) /\ Head(wire[a][b]).kind \in k

Traffic(p, K, k) ==
  \A a, b \in Proc :
    wire'[a][b] = wire[a][b] \/ Adding(p, a, b, K) \/ Taking(p, a, b, k)

\* What a step makes of a stream.
LEMMA Traffics ==
  ASSUME LockTypes, NEW p, NEW K, NEW k, Traffic(p, K, k), NEW a \in Proc, NEW b \in Proc
  PROVE  /\ IsSeq(wire[a][b])
         /\ \/ wire'[a][b] = wire[a][b]
            \/ b = p /\ Takes(wire[a][b], wire'[a][b]) /\ Head(wire[a][b]).kind \in k
            \/ a = p /\ \E m : /\ Adds(wire[a][b], wire'[a][b], m) /\ m.kind \in K
                               /\ m.kind = "put" => PutFits(a, b, m)
BY DEF LockTypes, Traffic, Adding, Taking

\* Nothing moves.
LEMMA NoTraffic ==
  ASSUME NEW p, NEW K, NEW k, UNCHANGED wire
  PROVE  Traffic(p, K, k)
BY DEF Traffic

\* Send().
LEMMA SendTraffic ==
  ASSUME LockTypes, NEW p \in Proc, NEW q, NEW K, NEW k, NEW m, Send(p, q, m), m.kind \in K,
         m.kind = "put" => PutFits(p, q, m)
  PROVE  Traffic(p, K, k)
<1>1. wire = [a \in Proc |-> [b \in Proc |-> wire[a][b]]]
  BY DEF LockTypes
<1>2. wire' = [a \in Proc |-> [b \in Proc |-> IF a = p /\ b = q THEN Append(wire[a][b], m)
                                             ELSE wire[a][b]]]
  BY <1>1 DEF Send
<1>3. ASSUME NEW a \in Proc, NEW b \in Proc
      PROVE  wire'[a][b] = wire[a][b] \/ Adding(p, a, b, K)
  <2>1. CASE a = p /\ b = q
    BY <1>2, <2>1 DEF Adding, Adds
  <2>2. CASE ~(a = p /\ b = q)
    BY <1>2, <2>2
  <2> QED BY <2>1, <2>2
<1> QED BY <1>3 DEF Traffic

\* Consume().
LEMMA TakeTraffic ==
  ASSUME LockTypes, NEW p \in Proc, NEW q \in Proc, NEW K, NEW kind, Comes(q, p, kind), Consume(q, p)
  PROVE  Traffic(p, K, {kind})
<1>1. wire = [a \in Proc |-> [b \in Proc |-> wire[a][b]]]
  BY DEF LockTypes
<1>2. wire' = [a \in Proc |-> [b \in Proc |-> IF a = q /\ b = p THEN Tail(wire[a][b])
                                             ELSE wire[a][b]]]
  BY <1>1 DEF Consume
<1>3. wire[q][p] # << >> /\ Head(wire[q][p]).kind = kind
  BY DEF Comes
<1>4. ASSUME NEW a \in Proc, NEW b \in Proc
      PROVE  wire'[a][b] = wire[a][b] \/ Taking(p, a, b, {kind})
  <2>1. CASE a = q /\ b = p
    BY <1>2, <1>3, <2>1 DEF Taking, Takes
  <2>2. CASE ~(a = q /\ b = p)
    BY <1>2, <2>2
  <2> QED BY <2>1, <2>2
<1> QED BY <1>4 DEF Traffic

\* Tell(), by p, in a step that takes a request of q or is p's own.
LEMMA TellTraffic ==
  ASSUME LockTypes, NEW p \in Proc, NEW q \in Proc, NEW told, Tell(p, told, q),
         q # p => wire[q][p] # << >> /\ Head(wire[q][p]).kind = "lock"
  PROVE  Traffic(p, {"grant"}, {"lock"})
<1> DEFINE m == [kind |-> "grant"]
<1>1. ASSUME NEW a \in Proc, NEW b \in Proc
      PROVE  wire'[a][b] =
               LET rest == IF b = p /\ a = q /\ q # p THEN Tail(wire[a][b]) ELSE wire[a][b]
               IN  IF a = p /\ b \in told \ {p} THEN Append(rest, m) ELSE rest
  BY DEF Tell
<1>2. m.kind \in {"grant"} /\ m.kind # "put"
  OBVIOUS
<1> HIDE DEF m
<1>3. ASSUME NEW a \in Proc, NEW b \in Proc
      PROVE  wire'[a][b] = wire[a][b] \/ Adding(p, a, b, {"grant"}) \/ Taking(p, a, b, {"lock"})
  <2>1. CASE b = p /\ a = q /\ q # p
    BY <1>1, <2>1 DEF Taking, Takes
  <2>2. CASE ~(b = p /\ a = q /\ q # p) /\ a = p /\ b \in told \ {p}
    <3>1. wire'[a][b] = Append(wire[a][b], m)
      BY <1>1, <2>2
    <3> QED BY <1>2, <2>2, <3>1 DEF Adding, Adds
  <2>3. CASE ~(b = p /\ a = q /\ q # p) /\ ~(a = p /\ b \in told \ {p})
    BY <1>1, <2>3
  <2> QED BY <2>1, <2>2, <2>3
<1> QED BY <1>3 DEF Traffic

\* The messages of each call.
LEMMA ProgramTraffic ==
  ASSUME LockTypes, NEW p \in Proc
  PROVE  /\ APut(p) => Traffic(p, {"put"}, {})
         /\ AGet(p) => Traffic(p, {"get"}, {})
         /\ LockOwn(p) => Traffic(p, {"grant"}, {"lock"})
         /\ LockOther(p) => Traffic(p, {"lock"}, {})
         /\ FenceSend(p) => Traffic(p, {"flag"}, {})
         /\ PostSend(p) => Traffic(p, {"post"}, {})
         /\ CompleteSend(p) => Traffic(p, {"complete"}, {})
         /\ WaitOne(p) \/ WaitHead(p) \/ LockReturn(p) \/ FenceFlag(p) \/ PostMark(p) \/ Start(p)
            \/ CompleteReset(p) \/ WinWait(p) => UNCHANGED wire
<1>1. ASSUME APut(p) PROVE Traffic(p, {"put"}, {})
  <2>1. CASE UNCHANGED wire
    BY <2>1, NoTraffic
  <2>2. ASSUME NEW q, NEW val, q # p, Send(p, q, PutMsg(p, q, val)) PROVE Traffic(p, {"put"}, {})
    <3>1. PICK m : m = PutMsg(p, q, val)
      OBVIOUS
    <3>2. m.kind = "put" /\ m.era = fences[p]
          /\ m.sync = CASE Holding(p, q) -> "lock"
                        [] ~Holding(p, q) /\ q \in access[p] -> "start"
                        [] OTHER -> "fence"
      BY <3>1 DEF PutMsg
    <3>3. m.sync = "lock" => Holding(p, q)
      BY <3>2
    <3>4. m.sync = "start" => q \in access[p]
      BY <3>2
    <3>5. Doing(p, "aput") \/ Doing(p, "add")
      BY <1>1 DEF APut, Calls, Doing, Call
    <3>6. PutFits(p, q, m)
      <4>1. m.sync \in {"lock", "start", "fence"}
        BY <3>2
      <4> QED BY <2>2, <3>2, <3>3, <3>4, <3>5, <4>1 DEF PutFits
    <3>7. Send(p, q, m) /\ m.kind \in {"put"}
      BY <2>2, <3>1, <3>2
    <3> QED BY <3>6, <3>7, SendTraffic
  <2> QED BY <1>1, <2>1, <2>2 DEF APut
<1>2. ASSUME AGet(p) PROVE Traffic(p, {"get"}, {})
  <2>1. CASE UNCHANGED wire
    BY <2>1, NoTraffic
  <2>2. ASSUME NEW q, NEW num, Send(p, q, [kind |-> "get", num |-> num]) PROVE Traffic(p, {"get"}, {})
    <3>1. PICK m : m = [kind |-> "get", num |-> num]
      OBVIOUS
    <3>2. m.kind \in {"get"} /\ m.kind # "put" /\ Send(p, q, m)
      BY <2>2, <3>1
    <3> QED BY <3>2, SendTraffic
  <2> QED BY <1>2, <2>1, <2>2 DEF AGet
<1>3. ASSUME LockOwn(p) PROVE Traffic(p, {"grant"}, {"lock"})
  BY <1>3, TellTraffic DEF LockOwn
<1>4. ASSUME LockOther(p) PROVE Traffic(p, {"lock"}, {})
  BY <1>4, SendTraffic DEF LockOther
<1>5. ASSUME FenceSend(p) PROVE Traffic(p, {"flag"}, {})
  BY <1>5, NoTraffic, SendTraffic DEF FenceSend
<1>6. ASSUME PostSend(p) PROVE Traffic(p, {"post"}, {})
  BY <1>6, NoTraffic, SendTraffic DEF PostSend
<1>7. ASSUME CompleteSend(p) PROVE Traffic(p, {"complete"}, {})
  BY <1>7, NoTraffic, SendTraffic DEF CompleteSend, SendComplete
<1>8. ASSUME WaitOne(p) \/ WaitHead(p) \/ LockReturn(p) \/ FenceFlag(p) \/ PostMark(p) \/ Start(p)
             \/ CompleteReset(p) \/ WinWait(p)
      PROVE  UNCHANGED wire
  BY <1>8 DEF WaitOne, WaitHead, Wait, LockReturn, FenceFlag, PostMark, Start, CompleteReset, WinWait
<1> QED BY <1>1, <1>2, <1>3, <1>4, <1>5, <1>6, <1>7, <1>8

\* And of the handler.
LEMMA HandleTraffic ==
  ASSUME LockTypes, NEW p \in Proc, NEW q \in Proc \ {p}
  PROVE  /\ RecvPut(q, p) => Traffic(p, {}, {"put"})
         /\ RecvFlag(q, p) => Traffic(p, {}, {"flag"})
         /\ RecvGrant(q, p) => Traffic(p, {}, {"grant"})
         /\ RecvGet(q, p) => Traffic(p, {"reply"}, {"get"})
         /\ RecvReply(q, p) => Traffic(p, {}, {"reply"})
         /\ RecvLock(q, p) => Traffic(p, {"grant"}, {"lock"})
         /\ RecvPost(q, p) => Traffic(p, {}, {"post"})
         /\ RecvComplete(q, p) => Traffic(p, {}, {"complete"})
<1>1. ASSUME NEW kind, Comes(q, p, kind), Consume(q, p) PROVE Traffic(p, {}, {kind})
  BY <1>1, TakeTraffic
<1>2. ASSUME RecvLock(q, p) PROVE Traffic(p, {"grant"}, {"lock"})
  <2>1. wire[q][p] # << >> /\ Head(wire[q][p]).kind = "lock"
    BY <1>2 DEF RecvLock, Comes
  <2> QED BY <1>2, <2>1, TellTraffic DEF RecvLock
<1>3. ASSUME RecvGet(q, p) PROVE Traffic(p, {"reply"}, {"get"})
  <2> DEFINE m == [kind |-> "reply", num |-> Msg(q, p).num, val |-> mem[p]]
  <2>1. wire = [a \in Proc |-> [b \in Proc |-> wire[a][b]]]
    BY DEF LockTypes
  <2>2. /\ wire' = [wire EXCEPT ![q][p] = Tail(@), ![p][q] = Append(@, m)]
        /\ wire[q][p] # << >> /\ Head(wire[q][p]).kind = "get"
    BY <1>3 DEF RecvGet, Comes
  <2>3. m.kind \in {"reply"} /\ m.kind # "put"
    OBVIOUS
  <2> HIDE DEF m
  <2>4. wire' = [a \in Proc |-> [b \in Proc |->
                   CASE a = q /\ b = p -> Tail(wire[a][b])
                     [] a = p /\ b = q -> Append(wire[a][b], m)
                     [] OTHER -> wire[a][b]]]
    BY <2>1, <2>2
  <2>5. ASSUME NEW a \in Proc, NEW b \in Proc
        PROVE  wire'[a][b] = wire[a][b] \/ Adding(p, a, b, {"reply"}) \/ Taking(p, a, b, {"get"})
    <3>1. CASE a = q /\ b = p
      BY <2>2, <2>4, <3>1 DEF Taking, Takes
    <3>2. CASE a = p /\ b = q
      BY <2>3, <2>4, <3>2 DEF Adding, Adds
    <3>3. CASE ~(a = q /\ b = p) /\ ~(a = p /\ b = q)
      BY <2>4, <3>3
    <3> QED BY <3>1, <3>2, <3>3
  <2> QED BY <2>5 DEF Traffic
<1> QED BY <1>1, <1>2, <1>3 DEF RecvPut, RecvFlag, RecvGrant, RecvReply, RecvPost, RecvComplete

-----------------------------------------------------------------------------
(***************************************************************************)
(* Places in the program.                                                  *)
(***************************************************************************)

\* The least of some processes.
LEMMA MinOf ==
  ASSUME NEW S, S \subseteq Proc, S # {}
  PROVE  Min(S) \in S /\ \A x \in S : Min(S) <= x
<1>1. S \subseteq Nat
  BY TcpWinAssumption DEF Proc
<1>2. \E m \in S : \A n \in S : m <= n
  BY <1>1, LeastOfNat
<1>3. Min(S) = CHOOSE x \in S : \A y \in S : x <= y
  BY DEF Min
<1> QED BY <1>2, <1>3

\* The other processes.
Others(p) == \A a \in Proc \ {p} : pc'[a] = pc[a] /\ todo'[a] = todo[a]

\* A call returns.
LEMMA Returns ==
  ASSUME LockTypes, FlushTypes, NEW p \in Proc, Return(p)
  PROVE  /\ pc' \in [Proc -> [at : Ats, i : Nat]] /\ Others(p)
         /\ pc'[p].at = "run" /\ pc'[p].i = 0 /\ todo'[p] = Tail(todo[p])
<1>1. pc' = [pc EXCEPT ![p] = Run] /\ todo' = [todo EXCEPT ![p] = Tail(@)]
  BY DEF Return
<1>2. pc \in [Proc -> [at : Ats, i : Nat]] /\ Run \in [at : Ats, i : Nat]
  BY DEF FlushTypes, Run, Ats
<1>3. Run.at = "run" /\ Run.i = 0
  BY DEF Run
<1>4. DOMAIN todo = Proc
  BY DEF LockTypes
<1> QED BY <1>1, <1>2, <1>3, <1>4 DEF Others

\* It goes on.
LEMMA Goes ==
  ASSUME FlushTypes, NEW p \in Proc, NEW at \in Ats, NEW i \in Nat, Goto(p, at, i)
  PROVE  /\ pc' \in [Proc -> [at : Ats, i : Nat]] /\ Others(p)
         /\ pc'[p].at = at /\ pc'[p].i = i /\ todo' = todo
<1>1. pc' = [pc EXCEPT ![p] = [at |-> at, i |-> i]] /\ todo' = todo
  BY DEF Goto
<1>2. pc \in [Proc -> [at : Ats, i : Nat]]
  BY DEF FlushTypes
<1> QED BY <1>1, <1>2 DEF Others

\* Nobody is in two calls at a time.
LEMMA InNoFence ==
  ASSUME NEW p, Place(p), todo[p] # << >>, Call(p).op # "fence"
  PROVE  pc[p].at \notin {"send", "flags"}
BY DEF Place, Doing

\* The first call is no fence.
NoFenceCall(p) == todo[p] # << >> /\ Call(p).op # "fence"

\* Where each call goes.
LEMMA ProgramPlaces ==
  ASSUME LockTypes, FlushTypes, NEW p \in Proc, Place(p), Program(p)
  PROVE  /\ pc' \in [Proc -> [at : Ats, i : Nat]] /\ Others(p)
         /\ \/ FenceSend(p) \/ FenceFlag(p)
            \/ pc' = pc
            \/ pc[p].at \notin {"send", "flags"} /\ pc'[p].at \notin {"send", "flags"}
<1>n. \A a \in Proc : a \in Nat /\ a + 1 \in Nat
  BY TcpWinAssumption DEF Proc
<1>p. pc[p].i \in Nat /\ pc[p].i + 1 \in Nat
  <2>1. pc[p].i \in Nat
    BY DEF FlushTypes
  <2> QED BY <2>1
<1>c. \A ops : Calls(p, ops) => todo[p] # << >> /\ Call(p).op \in ops
  BY DEF Calls, Call
<1>u. UNCHANGED <<todo, pc>> => pc' \in [Proc -> [at : Ats, i : Nat]] /\ Others(p)
  BY DEF FlushTypes, Others
<1>a. {"run", "granted", "send", "flags", "mark", "reset"} \subseteq Ats
  BY DEF Ats
<1>1. CASE APut(p) \/ AGet(p) \/ WaitOne(p) \/ LockReturn(p) \/ Start(p) \/ WinWait(p)
  <2>1. Return(p)
    BY <1>1 DEF APut, AGet, WaitOne, LockReturn, Start, WinWait
  <2>2. \E ops : Calls(p, ops) /\ "fence" \notin ops
    <3>1. APut(p) => Calls(p, {"aput", "add"})
      BY DEF APut
    <3>2. AGet(p) => Calls(p, {"aget"})
      BY DEF AGet
    <3>3. WaitOne(p) => Calls(p, {"wait"})
      BY DEF WaitOne
    <3>4. LockReturn(p) => Calls(p, {"lock", "unlock"})
      BY DEF LockReturn
    <3>5. Start(p) => Calls(p, {"start"})
      BY DEF Start
    <3>6. WinWait(p) => Calls(p, {"win_wait"})
      BY DEF WinWait
    <3> QED BY <1>1, <3>1, <3>2, <3>3, <3>4, <3>5, <3>6
  <2>3. NoFenceCall(p)
    BY <1>c, <2>2 DEF NoFenceCall
  <2> QED BY <2>1, <2>3, Returns, InNoFence DEF NoFenceCall
<1>2. CASE WaitHead(p)
  BY <1>2, <1>u DEF WaitHead
<1>3. CASE LockOwn(p) \/ LockOther(p)
  <2>1. Goto(p, "granted", 0) /\ NoFenceCall(p)
    BY <1>3, <1>c DEF LockOwn, LockOther, LockCall, NoFenceCall
  <2>2. "granted" \in Ats /\ 0 \in Nat
    BY DEF Ats
  <2> QED BY <2>1, <2>2, Goes, InNoFence DEF NoFenceCall
<1>4. CASE FenceSend(p)
  <2>1. NextProc(p, pc[p].i) # {} => Min(NextProc(p, pc[p].i)) \in Proc
    BY MinOf DEF NextProc
  <2>2. \E at \in {"flags", "send"}, i \in Nat : Goto(p, at, i)
    <3>1. CASE NextProc(p, pc[p].i) = {}
      BY <1>4, <3>1 DEF FenceSend
    <3>2. CASE NextProc(p, pc[p].i) # {}
      BY <1>4, <1>n, <2>1, <3>2 DEF FenceSend
    <3> QED BY <3>1, <3>2
  <2> QED BY <1>4, <1>a, <2>2, Goes
<1>5. CASE FenceFlag(p)
  <2>1. NextProc(p, pc[p].i) # {} => Min(NextProc(p, pc[p].i)) \in Proc
    BY MinOf DEF NextProc
  <2>2. Return(p) \/ \E i \in Nat : Goto(p, "flags", i)
    <3>1. CASE NextProc(p, pc[p].i) = {}
      BY <1>5, <3>1 DEF FenceFlag
    <3>2. CASE NextProc(p, pc[p].i) # {}
      BY <1>5, <1>n, <2>1, <3>2 DEF FenceFlag
    <3> QED BY <3>1, <3>2
  <2>3. CASE Return(p)
    BY <1>5, <2>3, Returns
  <2>4. CASE \E i \in Nat : Goto(p, "flags", i)
    BY <1>5, <1>a, <2>4, Goes
  <2> QED BY <2>2, <2>3, <2>4
<1>6. CASE PostSend(p)
  <2>1. NoFenceCall(p) /\ Call(p).group \subseteq Proc
    <3>1. NoFenceCall(p) /\ Call(p).op = "post"
      BY <1>6, <1>c DEF PostSend, NoFenceCall
    <3>2. Call(p) \in CallType
      BY <3>1 DEF NoFenceCall, LockTypes, Call
    <3> QED BY <3>1, <3>2 DEF CallType
  <2> DEFINE rest == {k \in Call(p).group : k >= pc[p].i}
  <2>2. rest # {} => Min(rest) \in Proc
    BY <2>1, MinOf
  <2>3. Return(p) \/ \E i \in Nat : Goto(p, "mark", i)
    BY <1>6, <1>n, <2>2 DEF PostSend
  <2>4. CASE Return(p)
    BY <2>1, <2>4, Returns, InNoFence DEF NoFenceCall
  <2>5. CASE \E i \in Nat : Goto(p, "mark", i)
    BY <1>a, <2>1, <2>5, Goes, InNoFence DEF NoFenceCall
  <2> QED BY <2>3, <2>4, <2>5
<1>7. CASE PostMark(p) \/ CompleteReset(p)
  <2>1. Goto(p, "run", pc[p].i + 1) /\ NoFenceCall(p)
    BY <1>7, <1>c DEF PostMark, CompleteReset, NoFenceCall
  <2>2. "run" \in Ats
    BY DEF Ats
  <2> QED BY <1>p, <2>1, <2>2, Goes, InNoFence DEF NoFenceCall
<1>8. CASE CompleteSend(p)
  <2>1. NoFenceCall(p)
    BY <1>8, <1>c DEF CompleteSend, NoFenceCall
  <2> DEFINE rest == {k \in post_received[p] : k >= pc[p].i}
  <2>2. rest # {} => Min(rest) \in Proc
    <3>1. rest \subseteq Proc
      BY DEF FlushTypes
    <3> QED BY <3>1, MinOf
  <2>3. Return(p) \/ \E i \in Nat : Goto(p, "reset", i)
    BY <1>8, <1>n, <2>2 DEF CompleteSend
  <2>4. CASE Return(p)
    BY <2>1, <2>4, Returns, InNoFence DEF NoFenceCall
  <2>5. CASE \E i \in Nat : Goto(p, "reset", i)
    BY <1>a, <2>1, <2>5, Goes, InNoFence DEF NoFenceCall
  <2> QED BY <2>3, <2>4, <2>5
<1> QED BY <1>1, <1>2, <1>3, <1>4, <1>5, <1>6, <1>7, <1>8 DEF Program

-----------------------------------------------------------------------------
(***************************************************************************)
(* Fences.                                                                 *)
(***************************************************************************)

\* The numbers of flags change in fences only.
LEMMA SameCounts ==
  ASSUME NEW p \in Proc, Others(p), UNCHANGED fences,
         pc' = pc \/ (pc[p].at \notin {"send", "flags"} /\ pc'[p].at \notin {"send", "flags"})
  PROVE  \A a, b \in Proc : SentBy(a, b)' = SentBy(a, b) /\ MetBy(a, b)' = MetBy(a, b)
BY DEF SentBy, MetBy, Others

\* They are those of one fence.
LEMMA FenceTypes ==
  ASSUME FlushTypes, NEW p \in Proc, NEW q \in Proc
  PROVE  /\ fences[p] \in Nat /\ pc[p].i \in Nat /\ p \in Nat
         /\ SentBy(p, q) \in Nat /\ MetBy(p, q) \in Nat
         /\ SentBy(p, q) \in fences[p] .. fences[p] + 1 /\ MetBy(p, q) \in fences[p] .. fences[p] + 1
         /\ Raised(p, q) \subseteq 0 .. 1
<1>1. fences[p] \in Nat /\ pc[p].i \in Nat /\ p \in Nat
  BY TcpWinAssumption DEF FlushTypes, Proc
<1>2. (SentBy(p, q) = fences[p] \/ SentBy(p, q) = fences[p] + 1) /\ (MetBy(p, q) = fences[p] \/ MetBy(p, q) = fences[p] + 1)
  <2>1. fences[p] + 0 = fences[p]
    BY <1>1
  <2> QED BY <2>1 DEF SentBy, MetBy
<1> QED BY <1>1, <1>2 DEF Raised

\* Nothing has happened between two processes.
LEMMA FenceSame ==
  ASSUME NEW a, NEW b, FencePair(a, b), wire'[a][b] = wire[a][b],
         Raised(b, a)' = Raised(b, a), MetBy(b, a)' = MetBy(b, a), SentBy(a, b)' = SentBy(a, b)
  PROVE  FencePair(a, b)'
BY DEF FencePair

\* Steps of other calls, and of the handler with other messages.
LEMMA FenceQuiet ==
  ASSUME LockTypes, FlushInv, NEW p \in Proc, NEW K, NEW k, Traffic(p, K, k),
         "flag" \notin K, "flag" \notin k, UNCHANGED <<fences, procs>>,
         \A a, b \in Proc : SentBy(a, b)' = SentBy(a, b) /\ MetBy(a, b)' = MetBy(a, b)
  PROVE  \A a, b \in Proc : a # b => FencePair(a, b)'
<1> SUFFICES ASSUME NEW a \in Proc, NEW b \in Proc, a # b PROVE FencePair(a, b)'
  OBVIOUS
<1>1. FencePair(a, b) /\ Place(a) /\ FlushTypes /\ IsSeq(wire[a][b])
  BY DEF FlushInv, LockTypes
<1>2. Raised(b, a)' = Raised(b, a) /\ MetBy(b, a)' = MetBy(b, a) /\ SentBy(a, b)' = SentBy(a, b)
  BY DEF Raised
<1>3. PICK s, t, r, met, sent : /\ s = wire[a][b] /\ t = wire'[a][b] /\ r = Raised(b, a)
                                /\ met = MetBy(b, a) /\ sent = SentBy(a, b)
  OBVIOUS
<1>4. /\ met \in Nat /\ sent \in Nat /\ IsSeq(s)
      /\ FlagsAre(s, r, met, sent) /\ PutsAre(s, met, sent) /\ met <= sent
  BY <1>1, <1>3, FenceTypes DEF FencePair, FlagsAre
<1>5. \/ t = s
      \/ \E m : /\ Adds(s, t, m) /\ m.kind # "flag"
                /\ m.kind = "put" => m.era = sent
      \/ Takes(s, t) /\ Head(s).kind # "flag"
  <2>1. ASSUME NEW m, m.kind = "put", PutFits(a, b, m) PROVE m.era = sent
    <3>1. pc[a].at \notin {"send", "flags"}
      BY <1>1, <2>1, InNoFence DEF PutFits, Doing
    <3>2. SentBy(a, b) = fences[a]
      BY <1>1, <3>1, FenceTypes DEF SentBy
    <3> QED BY <1>3, <2>1, <3>2 DEF PutFits
  <2>2. wire'[a][b] = wire[a][b] \/ Adding(p, a, b, K) \/ Taking(p, a, b, k)
    BY DEF Traffic
  <2> QED BY <1>3, <2>1, <2>2 DEF Adding, Taking
<1>6. FlagsAre(t, r, met, sent)
  BY <1>4, <1>5, FlagsStay
<1>7. PutsAre(t, met, sent)
  BY <1>4, <1>5, PutsStay
<1> QED BY <1>2, <1>3, <1>6, <1>7 DEF FencePair

\* The processes that a fence of p has still to come to: the first, and none before it.
LEMMA NextOf ==
  ASSUME FlushTypes, NEW p \in Proc, NextProc(p, pc[p].i) # {}
  PROVE  LET q == Min(NextProc(p, pc[p].i))
         IN  /\ q \in Proc /\ q # p /\ q >= pc[p].i
             /\ \A b \in Proc : b # p /\ b # q => (b < pc[p].i <=> b < q)
<1> DEFINE rest == NextProc(p, pc[p].i)
           q == Min(rest)
<1>1. q \in rest /\ \A x \in rest : q <= x
  <2>1. rest \subseteq Proc /\ rest # {}
    BY DEF NextProc
  <2> HIDE DEF rest
  <2> QED BY <2>1, MinOf
<1>2. q \in Proc /\ q # p /\ q >= pc[p].i
  BY <1>1 DEF NextProc
<1>3. pc[p].i \in Nat /\ Proc \subseteq Nat
  BY TcpWinAssumption DEF FlushTypes, Proc
<1>4. ASSUME NEW b \in Proc, b # p, b # q PROVE b < pc[p].i <=> b < q
  <2> HIDE DEF q
  <2>1. b \in Nat /\ q \in Nat /\ pc[p].i \in Nat
    BY <1>2, <1>3
  <2>2. b \in rest => q <= b
    BY <1>1
  <2>3. b >= pc[p].i => b \in rest
    BY <1>4 DEF NextProc
  <2> QED BY <1>2, <1>4, <2>1, <2>2, <2>3
<1> QED BY <1>2, <1>4

\* A fence sends its flags: one more, to one process.
LEMMA FenceSendCounts ==
  ASSUME LockTypes, FlushTypes, NEW p \in Proc, Place(p), FenceSend(p)
  PROVE  /\ \A a, b \in Proc : MetBy(a, b)' = MetBy(a, b)
         /\ \A a, b \in Proc : a # p => SentBy(a, b)' = SentBy(a, b)
         /\ \/ wire' = wire /\ \A b \in Proc \ {p} : SentBy(p, b)' = SentBy(p, b)
            \/ \E q \in Proc \ {p} :
                 /\ SentBy(p, q) = fences[p] /\ SentBy(p, q)' = fences[p] + 1
                 /\ MetBy(p, q) = fences[p]
                 /\ \A b \in Proc \ {p, q} : SentBy(p, b)' = SentBy(p, b)
                 /\ Send(p, q, [kind |-> "flag", index |-> fence_index[p]])
<1> DEFINE rest == NextProc(p, pc[p].i)
<1>1. /\ pc[p].i \in Nat /\ fences[p] \in Nat /\ Proc \subseteq Nat
      /\ fences' = fences
  BY TcpWinAssumption DEF FlushTypes, Proc, FenceSend, fenceVars
<1>2. pc[p].at = "send" \/ (pc[p].at = "run" /\ pc[p].i = 0)
  BY DEF FenceSend, Calls, Call, Place, Doing
<1>3. \A b \in Proc : MetBy(p, b) = fences[p]
                      /\ SentBy(p, b) = fences[p] + IF b < pc[p].i THEN 1 ELSE 0
  <2> TAKE b \in Proc
  <2>1. b \in Nat /\ (pc[p].i > b <=> b < pc[p].i)
    BY <1>1
  <2>2. pc[p].i = 0 => ~(b < pc[p].i)
    BY <2>1
  <2> QED BY <1>1, <1>2, <2>1, <2>2 DEF MetBy, SentBy
<1>4. CASE rest = {}
  <2>1. Goto(p, "flags", 0) /\ wire' = wire
    BY <1>4 DEF FenceSend
  <2>2. Others(p) /\ pc'[p].at = "flags" /\ pc'[p].i = 0
    <3>1. "flags" \in Ats /\ 0 \in Nat
      BY DEF Ats
    <3> QED BY <2>1, <3>1, Goes
  <2>3. \A b \in Proc \ {p} : b < pc[p].i
    BY <1>1, <1>4 DEF NextProc
  <2>4. \A b \in Proc : MetBy(p, b)' = fences[p] /\ SentBy(p, b)' = fences[p] + 1
    <3>1. \A b \in Proc : ~(0 > b)
      BY <1>1
    <3> QED BY <1>1, <2>2, <3>1 DEF MetBy, SentBy
  <2>5. \A a, b \in Proc : a # p => MetBy(a, b)' = MetBy(a, b) /\ SentBy(a, b)' = SentBy(a, b)
    BY <1>1, <2>2 DEF MetBy, SentBy, Others
  <2> QED BY <1>3, <2>1, <2>3, <2>4, <2>5
<1>5. CASE rest # {}
  <2>1. PICK q : q = Min(rest)
    OBVIOUS
  <2>2. /\ q \in Proc /\ q # p /\ q >= pc[p].i
        /\ \A b \in Proc : b # p /\ b # q => (b < pc[p].i <=> b < q)
    BY <1>5, <2>1, NextOf
  <2>3. Goto(p, "send", q + 1) /\ Send(p, q, [kind |-> "flag", index |-> fence_index[p]])
    BY <1>5, <2>1 DEF FenceSend
  <2>4. Others(p) /\ pc'[p].at = "send" /\ pc'[p].i = q + 1
    <3>1. "send" \in Ats /\ q + 1 \in Nat
      BY <1>1, <2>2 DEF Ats
    <3> QED BY <2>3, <3>1, Goes
  <2>5. \A b \in Proc : MetBy(p, b)' = fences[p]
                        /\ SentBy(p, b)' = fences[p] + IF q + 1 > b THEN 1 ELSE 0
    BY <1>1, <2>4 DEF MetBy, SentBy
  <2>6. \A a, b \in Proc : a # p => MetBy(a, b)' = MetBy(a, b) /\ SentBy(a, b)' = SentBy(a, b)
    BY <1>1, <2>4 DEF MetBy, SentBy, Others
  <2>7. SentBy(p, q) = fences[p] /\ SentBy(p, q)' = fences[p] + 1
    <3>1. ~(q < pc[p].i) /\ q + 1 > q
      BY <1>1, <2>2
    <3> QED BY <1>1, <1>3, <2>2, <2>5, <3>1
  <2>8. \A b \in Proc \ {p, q} : SentBy(p, b)' = SentBy(p, b)
    <3>1. \A b \in Proc \ {p, q} : q + 1 > b <=> b < pc[p].i
      BY <1>1, <2>2
    <3> QED BY <1>3, <2>5, <3>1
  <2> QED BY <1>3, <2>2, <2>3, <2>5, <2>6, <2>7, <2>8
<1> QED BY <1>4, <1>5

\* A fence waits for the flags: it has met one more, of one process.
LEMMA FenceFlagCounts ==
  ASSUME LockTypes, FlushTypes, NEW p \in Proc, FenceFlag(p)
  PROVE  /\ \A a, b \in Proc : a # b => SentBy(a, b)' = SentBy(a, b)
         /\ \A a, b \in Proc : a # p => MetBy(a, b)' = MetBy(a, b)
         /\ \/ procs' = procs /\ \A b \in Proc \ {p} : MetBy(p, b)' = MetBy(p, b)
            \/ \E q \in Proc \ {p} :
                 /\ MetBy(p, q) = fences[p] /\ MetBy(p, q)' = fences[p] + 1
                 /\ \A b \in Proc \ {p, q} : MetBy(p, b)' = MetBy(p, b)
                 /\ procs[p][q][fence_index[p]]
                 /\ procs' = [procs EXCEPT ![p][q][fence_index[p]] = FALSE]
<1> DEFINE rest == NextProc(p, pc[p].i)
<1>1. /\ pc[p].i \in Nat /\ fences[p] \in Nat /\ Proc \subseteq Nat /\ fences \in [Proc -> Nat]
      /\ pc[p].at = "flags"
  BY TcpWinAssumption DEF FlushTypes, Proc, FenceFlag, At
<1>2. \A b \in Proc : SentBy(p, b) = fences[p] + 1
                      /\ MetBy(p, b) = fences[p] + IF b < pc[p].i THEN 1 ELSE 0
  <2> TAKE b \in Proc
  <2>1. pc[p].i > b <=> b < pc[p].i
    BY <1>1
  <2> QED BY <1>1, <2>1 DEF MetBy, SentBy
<1>3. CASE rest = {}
  <2>1. fences' = [fences EXCEPT ![p] = @ + 1] /\ procs' = procs /\ Return(p)
    BY <1>3 DEF FenceFlag
  <2>2. Others(p) /\ pc'[p].at = "run"
    BY <2>1, Returns
  <2>3. fences'[p] = fences[p] + 1 /\ \A a \in Proc \ {p} : fences'[a] = fences[a]
    BY <1>1, <2>1
  <2>4. \A b \in Proc \ {p} : b < pc[p].i
    BY <1>1, <1>3 DEF NextProc
  <2>5. \A b \in Proc : MetBy(p, b)' = fences[p] + 1 /\ SentBy(p, b)' = fences[p] + 1
    <3>1. (fences[p] + 1) + 0 = fences[p] + 1
      BY <1>1
    <3> QED BY <2>2, <2>3, <3>1 DEF MetBy, SentBy
  <2>6. \A a, b \in Proc : a # p => MetBy(a, b)' = MetBy(a, b) /\ SentBy(a, b)' = SentBy(a, b)
    BY <2>2, <2>3 DEF MetBy, SentBy, Others
  <2> QED BY <1>2, <2>1, <2>4, <2>5, <2>6
<1>4. CASE rest # {}
  <2>1. PICK q : q = Min(rest)
    OBVIOUS
  <2>2. /\ q \in Proc /\ q # p /\ q >= pc[p].i
        /\ \A b \in Proc : b # p /\ b # q => (b < pc[p].i <=> b < q)
    BY <1>4, <2>1, NextOf
  <2>3. /\ Goto(p, "flags", q + 1) /\ procs[p][q][fence_index[p]] /\ fences' = fences
        /\ procs' = [procs EXCEPT ![p][q][fence_index[p]] = FALSE]
    BY <1>4, <2>1 DEF FenceFlag
  <2>4. Others(p) /\ pc'[p].at = "flags" /\ pc'[p].i = q + 1
    <3>1. "flags" \in Ats /\ q + 1 \in Nat
      BY <1>1, <2>2 DEF Ats
    <3> QED BY <2>3, <3>1, Goes
  <2>5. \A b \in Proc : SentBy(p, b)' = fences[p] + 1
                        /\ MetBy(p, b)' = fences[p] + IF q + 1 > b THEN 1 ELSE 0
    BY <1>1, <2>3, <2>4 DEF MetBy, SentBy
  <2>6. \A a, b \in Proc : a # p => MetBy(a, b)' = MetBy(a, b) /\ SentBy(a, b)' = SentBy(a, b)
    BY <2>3, <2>4 DEF MetBy, SentBy, Others
  <2>7. MetBy(p, q) = fences[p] /\ MetBy(p, q)' = fences[p] + 1
    <3>1. ~(q < pc[p].i) /\ q + 1 > q
      BY <1>1, <2>2
    <3> QED BY <1>1, <1>2, <2>2, <2>5, <3>1
  <2>8. \A b \in Proc \ {p, q} : MetBy(p, b)' = MetBy(p, b)
    <3>1. \A b \in Proc \ {p, q} : q + 1 > b <=> b < pc[p].i
      BY <1>1, <2>2
    <3> QED BY <1>2, <2>5, <3>1
  <2> QED BY <1>2, <2>2, <2>3, <2>5, <2>6, <2>7, <2>8
<1> QED BY <1>3, <1>4

\* The flag that is sent has the number of the fence, whose index no other on its way has.
LEMMA FenceSendPairs ==
  ASSUME LockTypes, FlushInv, NEW p \in Proc, FenceSend(p)
  PROVE  \A a, b \in Proc : a # b => FencePair(a, b)'
<1> SUFFICES ASSUME NEW a \in Proc, NEW b \in Proc, a # b PROVE FencePair(a, b)'
  OBVIOUS
<1>1. FlushTypes /\ Place(p) /\ FencePair(a, b)
  BY DEF FlushInv
<1>2. Raised(b, a)' = Raised(b, a) /\ MetBy(b, a)' = MetBy(b, a)
  <2>1. procs' = procs
    BY DEF FenceSend, fenceVars
  <2> QED BY <1>1, <2>1, FenceSendCounts DEF Raised
<1>3. CASE wire'[a][b] = wire[a][b] /\ SentBy(a, b)' = SentBy(a, b)
  BY <1>1, <1>2, <1>3, FenceSame
<1>4. ASSUME a = p, SentBy(a, b) = fences[a], SentBy(a, b)' = fences[a] + 1, MetBy(a, b) = fences[a],
             Send(a, b, [kind |-> "flag", index |-> fence_index[a]])
      PROVE  FencePair(a, b)'
  <2>1. PICK m : m = [kind |-> "flag", index |-> fence_index[a]]
    OBVIOUS
  <2>2. PICK s, t, r, met, sent : /\ s = wire[a][b] /\ t = wire'[a][b] /\ r = Raised(b, a)
                                  /\ met = MetBy(b, a) /\ sent = SentBy(a, b)
    OBVIOUS
  <2>3. Adds(s, t, m) /\ IsSeq(s)
    <3>1. wire' = [wire EXCEPT ![a][b] = Append(@, m)]
      BY <1>4, <2>1 DEF Send
    <3> QED BY <2>2, <3>1 DEF LockTypes, Adds
  <2>4. m.kind = "flag" /\ m.index = sent % 2
    BY <1>1, <1>4, <2>1, <2>2 DEF Place
  <2>5. FlagsAre(s, r, met, sent) /\ PutsAre(s, met, sent)
    BY <1>1, <2>2 DEF FencePair
  <2>6. met \in Nat /\ sent \in Nat /\ met <= sent
    BY <2>5 DEF FlagsAre
  <2>7. sent <= met + 1
    <3>1. FlagsAre(wire[b][a], Raised(a, b), MetBy(a, b), SentBy(b, a))
      BY DEF FlushInv, FencePair
    <3>2. MetBy(a, b) <= SentBy(b, a)
      BY <3>1 DEF FlagsAre
    <3>3. /\ fences[b] \in Nat /\ SentBy(b, a) \in fences[b] .. fences[b] + 1
          /\ met \in fences[b] .. fences[b] + 1
      BY <1>1, <2>2, FenceTypes
    <3> QED BY <1>4, <2>2, <2>6, <3>2, <3>3
  <2>8. FlagsAre(t, r, met, sent + 1)
    BY <2>3, <2>4, <2>5, <2>7, FlagsSent
  <2>9. PutsAre(t, met, sent + 1)
    BY <2>3, <2>4, <2>5, <2>6, PutsFlagged
  <2>10. SentBy(a, b)' = sent + 1
    BY <1>4, <2>2
  <2> QED BY <1>2, <2>2, <2>8, <2>9, <2>10 DEF FencePair
<1>5. CASE a # p \/ (wire' = wire /\ \A c \in Proc \ {p} : SentBy(p, c)' = SentBy(p, c))
  <2>1. SentBy(a, b)' = SentBy(a, b)
    BY <1>1, <1>5, FenceSendCounts
  <2>2. wire'[a][b] = wire[a][b]
    <3>1. wire = [c \in Proc |-> [d \in Proc |-> wire[c][d]]]
      BY DEF LockTypes
    <3>2. wire' = wire \/ \E q, m : Send(p, q, m)
      BY DEF FenceSend
    <3>3. ASSUME NEW q, NEW m, Send(p, q, m), a # p PROVE wire'[a] = wire[a]
      BY <3>1, <3>3 DEF Send
    <3> QED BY <1>5, <3>2, <3>3
  <2> QED BY <1>3, <2>1, <2>2
<1>6. ASSUME a = p, NEW q \in Proc \ {p},
             SentBy(p, q) = fences[p], SentBy(p, q)' = fences[p] + 1, MetBy(p, q) = fences[p],
             \A c \in Proc \ {p, q} : SentBy(p, c)' = SentBy(p, c),
             Send(p, q, [kind |-> "flag", index |-> fence_index[p]])
      PROVE  FencePair(a, b)'
  <2>1. CASE b = q
    BY <1>4, <1>6, <2>1
  <2>2. CASE b # q
    <3>1. wire = [c \in Proc |-> [d \in Proc |-> wire[c][d]]]
      BY DEF LockTypes
    <3>2. wire'[a][b] = wire[a][b]
      BY <1>6, <2>2, <3>1 DEF Send
    <3> QED BY <1>3, <1>6, <2>2, <3>2
  <2> QED BY <2>1, <2>2
<1> QED BY <1>1, <1>5, <1>6, FenceSendCounts

\* The flag that a fence waits for is that of its number: when it is met, no put from
\* before it is left.
LEMMA FenceFlagPairs ==
  ASSUME LockTypes, FlushInv, NEW p \in Proc, FenceFlag(p)
  PROVE  \A a, b \in Proc : a # b => FencePair(a, b)'
<1> SUFFICES ASSUME NEW a \in Proc, NEW b \in Proc, a # b PROVE FencePair(a, b)'
  OBVIOUS
<1>1. FlushTypes /\ Place(p) /\ FencePair(a, b)
  BY DEF FlushInv
<1>2. wire'[a][b] = wire[a][b] /\ SentBy(a, b)' = SentBy(a, b)
  <2>1. wire' = wire
    BY DEF FenceFlag
  <2> QED BY <1>1, <2>1, FenceFlagCounts
<1>3. CASE Raised(b, a)' = Raised(b, a) /\ MetBy(b, a)' = MetBy(b, a)
  BY <1>1, <1>2, <1>3, FenceSame
<1>4. ASSUME b = p, MetBy(b, a) = fences[b], MetBy(b, a)' = fences[b] + 1,
             procs[b][a][fence_index[b]], procs' = [procs EXCEPT ![b][a][fence_index[b]] = FALSE]
      PROVE  FencePair(a, b)'
  <2>1. PICK s, r, met, sent : /\ s = wire[a][b] /\ r = Raised(b, a)
                               /\ met = MetBy(b, a) /\ sent = SentBy(a, b)
    OBVIOUS
  <2>2. FlagsAre(s, r, met, sent) /\ PutsAre(s, met, sent)
    BY <1>1, <2>1 DEF FencePair
  <2>3. met \in Nat /\ sent \in Nat
    BY <2>2 DEF FlagsAre
  <2>4. fence_index[b] = met % 2 /\ fence_index[b] \in 0 .. 1
    BY <1>1, <1>4, <2>1 DEF Place, FlushTypes
  <2>5. met % 2 \in r /\ Raised(b, a)' = r \ {met % 2}
    <3>1. PICK x : x = fence_index[b]
      OBVIOUS
    <3>2. procs \in [Proc -> [Proc -> [0 .. 1 -> BOOLEAN]]] /\ procs' = [procs EXCEPT ![b][a][x] = FALSE]
      BY <1>1, <1>4, <3>1 DEF FlushTypes
    <3>3. x \in 0 .. 1 /\ procs[b][a][x] = TRUE
      BY <1>4, <2>4, <3>1, <3>2
    <3>4. \A y \in 0 .. 1 : procs'[b][a][y] = IF y = x THEN FALSE ELSE procs[b][a][y]
      BY <3>2, <3>3
    <3>5. x \in Raised(b, a) /\ Raised(b, a)' = Raised(b, a) \ {x}
      BY <3>3, <3>4 DEF Raised
    <3> QED BY <2>1, <2>4, <3>1, <3>5
  <2>6. FlagsAre(s, r \ {met % 2}, met + 1, sent) /\ met \in met .. sent - 1 /\ Flags(s, met % 2) = {}
    BY <2>2, <2>5, FlagsMet
  <2>7. PutsAre(s, met + 1, sent)
    BY <2>2, <2>3, <2>6, PutsMet
  <2>8. MetBy(b, a)' = met + 1
    BY <1>4, <2>1
  <2> QED BY <1>2, <2>1, <2>5, <2>6, <2>7, <2>8 DEF FencePair
<1>5. ASSUME NEW q \in Proc \ {p}, procs' = [procs EXCEPT ![p][q][fence_index[p]] = FALSE],
             ~(b = p /\ a = q)
      PROVE  Raised(b, a)' = Raised(b, a)
  <2>1. procs \in [Proc -> [Proc -> [0 .. 1 -> BOOLEAN]]]
    BY <1>1 DEF FlushTypes
  <2>2. procs'[b][a] = procs[b][a]
    BY <1>5, <2>1
  <2> QED BY <2>2 DEF Raised
<1>6. CASE procs' = procs /\ \A c \in Proc \ {p} : MetBy(p, c)' = MetBy(p, c)
  <2>1. MetBy(b, a)' = MetBy(b, a)
    BY <1>1, <1>6, FenceFlagCounts
  <2>2. Raised(b, a)' = Raised(b, a)
    BY <1>6 DEF Raised
  <2> QED BY <1>3, <2>1, <2>2
<1>7. ASSUME NEW q \in Proc \ {p},
             MetBy(p, q) = fences[p], MetBy(p, q)' = fences[p] + 1,
             \A c \in Proc \ {p, q} : MetBy(p, c)' = MetBy(p, c),
             procs[p][q][fence_index[p]], procs' = [procs EXCEPT ![p][q][fence_index[p]] = FALSE]
      PROVE  FencePair(a, b)'
  <2>1. CASE b = p /\ a = q
    BY <1>4, <1>7, <2>1
  <2>2. CASE ~(b = p /\ a = q)
    <3>1. MetBy(b, a)' = MetBy(b, a)
      BY <1>1, <1>7, <2>2, FenceFlagCounts
    <3> QED BY <1>3, <1>5, <1>7, <2>2, <3>1
  <2> QED BY <2>1, <2>2
<1> QED BY <1>1, <1>6, <1>7, FenceFlagCounts

\* A flag arrives.
LEMMA RecvFlagPairs ==
  ASSUME LockTypes, FlushInv, NEW p \in Proc, NEW q \in Proc \ {p}, RecvFlag(q, p)
  PROVE  \A a, b \in Proc : a # b => FencePair(a, b)'
<1> SUFFICES ASSUME NEW a \in Proc, NEW b \in Proc, a # b PROVE FencePair(a, b)'
  OBVIOUS
<1>1. FlushTypes /\ FencePair(a, b)
  BY DEF FlushInv
<1>2. SentBy(a, b)' = SentBy(a, b) /\ MetBy(b, a)' = MetBy(b, a)
  BY DEF RecvFlag, progVars, SentBy, MetBy
<1>3. PICK x : x = Head(wire[q][p]).index
  OBVIOUS
<1>4. /\ procs' = [procs EXCEPT ![p][q][x] = TRUE]
      /\ wire' = [wire EXCEPT ![q][p] = Tail(@)] /\ Takes(wire[q][p], Tail(wire[q][p]))
      /\ Head(wire[q][p]).kind = "flag"
  BY <1>3 DEF RecvFlag, Comes, Msg, Consume, Takes
<1>5. wire = [c \in Proc |-> [d \in Proc |-> wire[c][d]]] /\ procs \in [Proc -> [Proc -> [0 .. 1 -> BOOLEAN]]]
  BY <1>1 DEF LockTypes, FlushTypes
<1>6. CASE a = q /\ b = p
  <2>1. PICK s, t, r, met, sent : /\ s = wire[a][b] /\ t = wire'[a][b] /\ r = Raised(b, a)
                                  /\ met = MetBy(b, a) /\ sent = SentBy(a, b)
    OBVIOUS
  <2>2. IsSeq(s) /\ Takes(s, t) /\ Head(s).kind = "flag" /\ Head(s).index = x
    BY <1>3, <1>4, <1>5, <1>6, <2>1 DEF LockTypes
  <2>3. FlagsAre(s, r, met, sent) /\ PutsAre(s, met, sent)
    BY <1>1, <2>1 DEF FencePair
  <2>4. met \in Nat /\ sent \in Nat
    BY <2>3 DEF FlagsAre
  <2>5. x \in 0 .. 1 /\ FlagsAre(t, r \cup {x}, met, sent)
    BY <2>2, <2>3, FlagsRaised
  <2>6. PutsAre(t, met, sent)
    BY <2>2, <2>3, <2>4, PutsStay
  <2>7. Raised(b, a)' = r \cup {x}
    <3>1. PICK f : f = procs[b][a]
      OBVIOUS
    <3>2. f \in [0 .. 1 -> BOOLEAN] /\ procs'[b][a] = [f EXCEPT ![x] = TRUE]
      BY <1>4, <1>5, <1>6, <3>1
    <3>3. \A y \in 0 .. 1 : procs'[b][a][y] <=> (y = x \/ procs[b][a][y])
      BY <2>5, <3>1, <3>2
    <3> QED BY <2>1, <2>5, <3>3 DEF Raised
  <2> QED BY <1>2, <2>1, <2>5, <2>6, <2>7 DEF FencePair
<1>7. CASE ~(a = q /\ b = p)
  <2>1. wire'[a][b] = wire[a][b]
    BY <1>4, <1>5, <1>7
  <2>2. procs'[b][a] = procs[b][a]
    BY <1>4, <1>5, <1>7
  <2> QED BY <1>1, <1>2, <2>1, <2>2, FenceSame DEF Raised
<1> QED BY <1>6, <1>7

\* What a handler leaves alone.
LEMMA HandleLeaves ==
  ASSUME NEW p \in Proc, NEW q \in Proc \ {p},
         \/ RecvPut(q, p) \/ RecvFlag(q, p) \/ RecvGrant(q, p) \/ RecvGet(q, p)
         \/ RecvReply(q, p) \/ RecvLock(q, p) \/ RecvPost(q, p) \/ RecvComplete(q, p)
  PROVE  /\ UNCHANGED <<todo, pc, fence_index, fences, access, exposed, holds>>
         /\ ~RecvFlag(q, p) => UNCHANGED procs
         /\ ~RecvPost(q, p) => UNCHANGED post_received
         /\ ~RecvComplete(q, p) => UNCHANGED post_sent
<1>1. UNCHANGED <<todo, pc, fence_index, fences, access, exposed, holds>>
  BY DEF RecvPut, RecvFlag, RecvGrant, RecvGet, RecvReply, RecvLock, RecvPost, RecvComplete,
         progVars, lockVars, fenceVars, pscwVars
<1>2. ~RecvFlag(q, p) => UNCHANGED procs
  BY DEF RecvPut, RecvGrant, RecvGet, RecvReply, RecvLock, RecvPost, RecvComplete, fenceVars
<1>3. ~RecvPost(q, p) => UNCHANGED post_received
  BY DEF RecvPut, RecvFlag, RecvGrant, RecvGet, RecvReply, RecvLock, RecvComplete, pscwVars
<1>4. ~RecvComplete(q, p) => UNCHANGED post_sent
  BY DEF RecvPut, RecvFlag, RecvGrant, RecvGet, RecvReply, RecvLock, RecvPost, pscwVars
<1> QED BY <1>1, <1>2, <1>3, <1>4

\* What the calls leave alone.
LEMMA ProgramLeaves ==
  ASSUME NEW p \in Proc, Program(p)
  PROVE  /\ ~FenceSend(p) /\ ~FenceFlag(p) => UNCHANGED <<fences, fence_index, procs>>
         /\ ~PostSend(p) => exposed' = exposed \/ WinWait(p)
         /\ ~LockOwn(p) /\ ~LockOther(p) /\ ~LockReturn(p) => UNCHANGED holds
         /\ ~Start(p) /\ ~CompleteSend(p) => UNCHANGED access
         /\ ~PostMark(p) /\ ~CompleteSend(p) => UNCHANGED post_sent
         /\ ~PostSend(p) /\ ~CompleteReset(p) => UNCHANGED post_received
<1>1. ~FenceSend(p) /\ ~FenceFlag(p) => UNCHANGED <<fences, fence_index, procs>>
  BY DEF Program, APut, AGet, WaitOne, WaitHead, Wait, LockOwn, LockOther, LockReturn, PostSend,
         PostMark, Start, CompleteSend, CompleteReset, WinWait, fenceVars
<1>2. ~PostSend(p) => exposed' = exposed \/ WinWait(p)
  BY DEF Program, APut, AGet, WaitOne, WaitHead, Wait, LockOwn, LockOther, LockReturn, FenceSend,
         FenceFlag, PostMark, Start, CompleteSend, CompleteReset, pscwVars
<1>3. ~LockOwn(p) /\ ~LockOther(p) /\ ~LockReturn(p) => UNCHANGED holds
  BY DEF Program, APut, AGet, WaitOne, WaitHead, Wait, FenceSend, FenceFlag, PostSend,
         PostMark, Start, CompleteSend, CompleteReset, WinWait, lockVars
<1>4. ~Start(p) /\ ~CompleteSend(p) => UNCHANGED access
  BY DEF Program, APut, AGet, WaitOne, WaitHead, Wait, LockOwn, LockOther, LockReturn, FenceSend,
         FenceFlag, PostSend, PostMark, CompleteReset, WinWait, pscwVars
<1>5. ~PostMark(p) /\ ~CompleteSend(p) => UNCHANGED post_sent
  BY DEF Program, APut, AGet, WaitOne, WaitHead, Wait, LockOwn, LockOther, LockReturn, FenceSend,
         FenceFlag, PostSend, Start, CompleteReset, WinWait, pscwVars
<1>6. ~PostSend(p) /\ ~CompleteReset(p) => UNCHANGED post_received
  BY DEF Program, APut, AGet, WaitOne, WaitHead, Wait, LockOwn, LockOther, LockReturn, FenceSend,
         FenceFlag, PostMark, Start, CompleteSend, WinWait, pscwVars
<1> QED BY <1>1, <1>2, <1>3, <1>4, <1>5, <1>6

\* The flags and the puts of fences stay as they should be.
LEMMA FenceNext ==
  ASSUME LockTypes, FlushInv, NEW p \in Proc, Handle(p) \/ Program(p)
  PROVE  \A a, b \in Proc : a # b => FencePair(a, b)'
<1>1. FlushTypes /\ Place(p)
  BY DEF FlushInv
<1>2. CASE FenceSend(p) \/ FenceFlag(p)
  BY <1>2, FenceSendPairs, FenceFlagPairs
<1>3. CASE Program(p) /\ ~FenceSend(p) /\ ~FenceFlag(p)
  <2>1. UNCHANGED <<fences, procs>>
    BY <1>3, ProgramLeaves
  <2>2. \A a, b \in Proc : SentBy(a, b)' = SentBy(a, b) /\ MetBy(a, b)' = MetBy(a, b)
    <3>1. /\ Others(p)
          /\ pc' = pc \/ (pc[p].at \notin {"send", "flags"} /\ pc'[p].at \notin {"send", "flags"})
      BY <1>1, <1>3, ProgramPlaces
    <3> QED BY <2>1, <3>1, SameCounts
  <2>3. \E K, k : Traffic(p, K, k) /\ "flag" \notin K /\ "flag" \notin k
    <3>1. UNCHANGED wire => Traffic(p, {}, {})
      BY NoTraffic
    <3>2. \/ APut(p) \/ AGet(p) \/ LockOwn(p) \/ LockOther(p) \/ PostSend(p) \/ CompleteSend(p)
          \/ WaitOne(p) \/ WaitHead(p) \/ LockReturn(p) \/ PostMark(p) \/ Start(p)
          \/ CompleteReset(p) \/ WinWait(p)
      BY <1>3 DEF Program
    <3>3. \/ Traffic(p, {"put"}, {}) \/ Traffic(p, {"get"}, {}) \/ Traffic(p, {"grant"}, {"lock"})
          \/ Traffic(p, {"lock"}, {}) \/ Traffic(p, {"post"}, {}) \/ Traffic(p, {"complete"}, {})
          \/ Traffic(p, {}, {})
      BY <3>1, <3>2, ProgramTraffic
    <3> QED BY <3>3
  <2> QED BY <2>1, <2>2, <2>3, FenceQuiet
<1>4. CASE Handle(p)
  <2>1. PICK q \in Proc \ {p} :
          \/ RecvPut(q, p) \/ RecvFlag(q, p) \/ RecvGrant(q, p) \/ RecvGet(q, p)
          \/ RecvReply(q, p) \/ RecvLock(q, p) \/ RecvPost(q, p) \/ RecvComplete(q, p)
    BY <1>4 DEF Handle
  <2>2. CASE RecvFlag(q, p)
    BY <2>2, RecvFlagPairs
  <2>3. CASE ~RecvFlag(q, p)
    <3>1. UNCHANGED <<fences, procs, pc>>
      BY <2>1, <2>3, HandleLeaves
    <3>2. \A a, b \in Proc : SentBy(a, b)' = SentBy(a, b) /\ MetBy(a, b)' = MetBy(a, b)
      BY <3>1 DEF SentBy, MetBy
    <3>3. \/ Traffic(p, {}, {"put"}) \/ Traffic(p, {}, {"grant"}) \/ Traffic(p, {"reply"}, {"get"})
          \/ Traffic(p, {}, {"reply"}) \/ Traffic(p, {"grant"}, {"lock"}) \/ Traffic(p, {}, {"post"})
          \/ Traffic(p, {}, {"complete"})
      BY <2>1, <2>3, HandleTraffic
    <3>4. \E K, k : Traffic(p, K, k) /\ "flag" \notin K /\ "flag" \notin k
      BY <3>3
    <3> QED BY <3>1, <3>2, <3>4, FenceQuiet
  <2> QED BY <2>2, <2>3
<1> QED BY <1>2, <1>3, <1>4

\* Every put is sent as it should be.
LEMMA FitNext ==
  ASSUME LockTypes, FlushInv, NEW p \in Proc, NEW K, NEW k, Traffic(p, K, k)
  PROVE  \A a, b \in Proc : PutsFit(a, b)'
<1> SUFFICES ASSUME NEW a \in Proc, NEW b \in Proc PROVE PutsFit(a, b)'
  OBVIOUS
<1>1. PICK s, t : s = wire[a][b] /\ t = wire'[a][b]
  OBVIOUS
<1>2. \A i \in Places(s, "put") : a # b /\ s[i].sync \in {"lock", "start", "fence"}
  BY <1>1 DEF FlushInv, PutsFit
<1>3. IsSeq(s) /\ (\/ t = s \/ Takes(s, t)
                   \/ \E m : Adds(s, t, m) /\ (m.kind = "put" => PutFits(a, b, m)))
  BY <1>1, Traffics
<1>4. ASSUME NEW i \in Places(t, "put") PROVE a # b /\ t[i].sync \in {"lock", "start", "fence"}
  <2>1. CASE t = s \/ Takes(s, t)
    BY <1>2, <1>3, <2>1, OldPuts
  <2>2. ASSUME NEW m, Adds(s, t, m), m.kind = "put" => PutFits(a, b, m)
        PROVE  a # b /\ t[i].sync \in {"lock", "start", "fence"}
    BY <1>2, <1>3, <2>2, NewPuts DEF PutFits
  <2> QED BY <1>3, <2>1, <2>2
<1> QED BY <1>1, <1>4 DEF PutsFit

-----------------------------------------------------------------------------
(***************************************************************************)
(* The calls.                                                              *)
(***************************************************************************)

\* In which call each step is.
LEMMA CallOps ==
  ASSUME NEW p
  PROVE  /\ APut(p) => todo[p] # << >> /\ Call(p).op \in {"aput", "add"}
         /\ AGet(p) => todo[p] # << >> /\ Call(p).op = "aget"
         /\ WaitOne(p) => todo[p] # << >> /\ Call(p).op = "wait"
         /\ WaitHead(p) => todo[p] # << >> /\ Call(p).op \in {"fence", "complete", "unlock"}
         /\ LockOwn(p) \/ LockOther(p) \/ LockReturn(p) => todo[p] # << >> /\ Call(p).op \in {"lock", "unlock"}
         /\ FenceSend(p) \/ FenceFlag(p) => todo[p] # << >> /\ Call(p).op = "fence"
         /\ PostSend(p) \/ PostMark(p) => todo[p] # << >> /\ Call(p).op = "post"
         /\ Start(p) => todo[p] # << >> /\ Call(p).op = "start"
         /\ CompleteSend(p) \/ CompleteReset(p) => todo[p] # << >> /\ Call(p).op = "complete"
         /\ WinWait(p) => todo[p] # << >> /\ Call(p).op = "win_wait"
<1>1. \A ops : Calls(p, ops) => todo[p] # << >> /\ Call(p).op \in ops
  BY DEF Calls, Call
<1>2. APut(p) => Calls(p, {"aput", "add"})
  BY DEF APut
<1>3. AGet(p) => Calls(p, {"aget"})
  BY DEF AGet
<1>4. WaitOne(p) => Calls(p, {"wait"})
  BY DEF WaitOne
<1>5. WaitHead(p) => Calls(p, {"fence", "complete", "unlock"})
  BY DEF WaitHead
<1>6. LockOwn(p) \/ LockOther(p) \/ LockReturn(p) => Calls(p, {"lock", "unlock"})
  BY DEF LockOwn, LockOther, LockCall, LockReturn
<1>7. FenceSend(p) \/ FenceFlag(p) => Calls(p, {"fence"})
  BY DEF FenceSend, FenceFlag
<1>8. PostSend(p) \/ PostMark(p) => Calls(p, {"post"})
  BY DEF PostSend, PostMark
<1>9. Start(p) => Calls(p, {"start"})
  BY DEF Start
<1>10. CompleteSend(p) \/ CompleteReset(p) => Calls(p, {"complete"})
  BY DEF CompleteSend, CompleteReset
<1>11. WinWait(p) => Calls(p, {"win_wait"})
  BY DEF WinWait
<1> QED BY <1>1, <1>2, <1>3, <1>4, <1>5, <1>6, <1>7, <1>8, <1>9, <1>10, <1>11

\* A call goes on, and it is none of post.
Within(p) ==
  \/ pc' = pc /\ todo' = todo /\ ~Doing(p, "post")
  \/ Goto(p, "granted", 0) /\ ~Doing(p, "post")
  \/ Doing(p, "fence") /\ \E at \in {"send", "flags"}, i \in Nat : Goto(p, at, i)
  \/ Doing(p, "complete") /\ \E i \in Proc : Goto(p, "reset", i)
  \/ Doing(p, "complete") /\ Goto(p, "run", pc[p].i + 1)

\* Where each step goes: the call returns, or it goes on.
LEMMA Steps ==
  ASSUME LockTypes, FlushTypes, NEW p \in Proc, Program(p)
  PROVE  \/ Return(p) /\ exposed' = exposed /\ ~Doing(p, "win_wait") /\ todo[p] # << >>
         \/ WinWait(p)
         \/ PostSend(p) /\ \E k \in Call(p).group : /\ k \in Proc /\ k >= pc[p].i /\ Goto(p, "mark", k)
                                                    /\ exposed' = [exposed EXCEPT ![p] = @ \cup {k}]
                                                    /\ IF k = p THEN wire' = wire /\ post_received' = [post_received EXCEPT ![p] = @ \cup {p}]
                                                       ELSE Send(p, k, [kind |-> "post"]) /\ post_received' = post_received
         \/ PostMark(p)
         \/ Within(p) /\ exposed' = exposed
<1>n. \A a \in Proc : a \in Nat /\ a + 1 \in Nat
  BY TcpWinAssumption DEF Proc
<1>1. CASE APut(p) \/ AGet(p) \/ WaitOne(p) \/ LockReturn(p) \/ Start(p)
  <2>1. Return(p)
    BY <1>1 DEF APut, AGet, WaitOne, LockReturn, Start
  <2>2. exposed' = exposed
    BY <1>1 DEF APut, AGet, WaitOne, Wait, LockReturn, Start, pscwVars
  <2>3. todo[p] # << >> /\ Call(p).op # "win_wait"
    BY <1>1, CallOps
  <2> QED BY <2>1, <2>2, <2>3 DEF Doing
<1>2. CASE WaitHead(p) \/ LockOwn(p) \/ LockOther(p)
  <2>1. ~Doing(p, "post")
    BY <1>2, CallOps DEF Doing
  <2>2. (pc' = pc /\ todo' = todo) \/ Goto(p, "granted", 0)
    BY <1>2 DEF WaitHead, LockOwn, LockOther, LockCall
  <2>3. exposed' = exposed
    BY <1>2 DEF WaitHead, Wait, LockOwn, LockOther, pscwVars
  <2> QED BY <2>1, <2>2, <2>3 DEF Within
<1>3. CASE FenceSend(p)
  <2>1. Doing(p, "fence") /\ exposed' = exposed
    BY <1>3, CallOps DEF FenceSend, pscwVars, Doing
  <2>2. NextProc(p, pc[p].i) # {} => Min(NextProc(p, pc[p].i)) \in Proc
    BY MinOf DEF NextProc
  <2>3. \E at \in {"send", "flags"}, i \in Nat : Goto(p, at, i)
    <3>1. CASE NextProc(p, pc[p].i) = {}
      BY <1>3, <3>1 DEF FenceSend
    <3>2. CASE NextProc(p, pc[p].i) # {}
      BY <1>3, <1>n, <2>2, <3>2 DEF FenceSend
    <3> QED BY <3>1, <3>2
  <2> QED BY <2>1, <2>3 DEF Within
<1>4. CASE FenceFlag(p)
  <2>1. todo[p] # << >> /\ Call(p).op = "fence" /\ exposed' = exposed
    BY <1>4, CallOps DEF FenceFlag, pscwVars
  <2>2. NextProc(p, pc[p].i) # {} => Min(NextProc(p, pc[p].i)) \in Proc
    BY MinOf DEF NextProc
  <2>3. Return(p) \/ \E i \in Nat : Goto(p, "flags", i)
    <3>1. CASE NextProc(p, pc[p].i) = {}
      BY <1>4, <3>1 DEF FenceFlag
    <3>2. CASE NextProc(p, pc[p].i) # {}
      BY <1>4, <1>n, <2>2, <3>2 DEF FenceFlag
    <3> QED BY <3>1, <3>2
  <2> QED BY <2>1, <2>3 DEF Within, Doing
<1>5. CASE PostSend(p)
  <2> DEFINE rest == {k \in Call(p).group : k >= pc[p].i}
  <2>1. todo[p] # << >> /\ Call(p).op = "post"
    BY <1>5, CallOps
  <2>2. Call(p).group \subseteq Proc
    <3>1. Call(p) \in CallType
      BY <2>1 DEF LockTypes, Call
    <3> QED BY <2>1, <3>1 DEF CallType
  <2>3. CASE rest = {}
    <3>1. Return(p) /\ exposed' = exposed
      BY <1>5, <2>3 DEF PostSend
    <3> QED BY <2>1, <3>1 DEF Doing
  <2>4. CASE rest # {}
    <3>1. PICK k : k = Min(rest)
      OBVIOUS
    <3>2. k \in Call(p).group /\ k \in Proc /\ k >= pc[p].i
      <4>1. rest \subseteq Proc
        BY <2>2
      <4>2. k \in rest
        <5> HIDE DEF rest
        <5> QED BY <2>4, <3>1, <4>1, MinOf
      <4> QED BY <2>2, <4>2
    <3>3. /\ Goto(p, "mark", k) /\ exposed' = [exposed EXCEPT ![p] = @ \cup {k}]
          /\ IF k = p THEN wire' = wire /\ post_received' = [post_received EXCEPT ![p] = @ \cup {p}]
             ELSE Send(p, k, [kind |-> "post"]) /\ post_received' = post_received
      BY <1>5, <2>4, <3>1 DEF PostSend
    <3> QED BY <1>5, <3>2, <3>3
  <2> QED BY <2>3, <2>4
<1>6. CASE CompleteSend(p)
  <2> DEFINE rest == {k \in post_received[p] : k >= pc[p].i}
  <2>1. todo[p] # << >> /\ Call(p).op = "complete" /\ exposed' = exposed
    BY <1>6, CallOps DEF CompleteSend
  <2>2. rest # {} => Min(rest) \in Proc
    <3>1. rest \subseteq Proc
      BY DEF FlushTypes
    <3> QED BY <3>1, MinOf
  <2>3. Return(p) \/ \E i \in Proc : Goto(p, "reset", i)
    BY <1>6, <2>2 DEF CompleteSend
  <2> QED BY <2>1, <2>3 DEF Within, Doing
<1>7. CASE CompleteReset(p)
  <2>1. todo[p] # << >> /\ Call(p).op = "complete" /\ exposed' = exposed
    BY <1>7, CallOps DEF CompleteReset
  <2>2. Goto(p, "run", pc[p].i + 1)
    BY <1>7 DEF CompleteReset
  <2> QED BY <2>1, <2>2 DEF Within, Doing
<1> QED BY <1>1, <1>2, <1>3, <1>4, <1>5, <1>6, <1>7 DEF Program

\* The calls stay where they can be.
LEMMA PlaceNext ==
  ASSUME LockTypes, FlushInv, NEW p \in Proc, Handle(p) \/ Program(p)
  PROVE  \A a \in Proc : Place(a)'
<1> SUFFICES ASSUME NEW a \in Proc PROVE Place(a)'
  OBVIOUS
<1>1. FlushTypes /\ Place(a) /\ Place(p)
  BY DEF FlushInv
<1>2. CASE Handle(p)
  <2>1. UNCHANGED <<todo, pc, fence_index, fences>>
    BY <1>2, HandleLeaves DEF Handle
  <2> QED BY <1>1, <2>1 DEF Place, Doing, Call
<1>3. CASE Program(p)
  <2>1. /\ fence_index[a] \in 0 .. 1 /\ fences[a] \in Nat /\ pc[p].i \in Nat /\ 0 \in Nat
        /\ fence_index \in [Proc -> 0 .. 1] /\ fences \in [Proc -> Nat] /\ pc[p].i + 1 \in Nat
    <3>1. pc[p].i \in Nat
      BY <1>1 DEF FlushTypes
    <3> QED BY <1>1, <3>1 DEF FlushTypes
  <2>2. fence_index'[a] = fences'[a] % 2
    <3>1. CASE fence_index' = fence_index /\ fences' = fences
      BY <1>1, <3>1 DEF Place
    <3>2. CASE fence_index' = [fence_index EXCEPT ![p] = 1 - @] /\ fences' = [fences EXCEPT ![p] = @ + 1]
      <4>1. CASE a = p
        <5>1. fence_index'[a] = 1 - fence_index[a] /\ fences'[a] = fences[a] + 1
          BY <2>1, <3>2, <4>1
        <5>2. fence_index[a] = fences[a] % 2
          BY <1>1 DEF Place
        <5>3. \A n \in Nat : (n + 1) % 2 = 1 - (n % 2)
          OBVIOUS
        <5> QED BY <2>1, <5>1, <5>2, <5>3
      <4>2. CASE a # p
        BY <1>1, <2>1, <3>2, <4>2 DEF Place
      <4> QED BY <4>1, <4>2
    <3>3. FenceSend(p) => fence_index' = fence_index /\ fences' = fences
      BY DEF FenceSend, fenceVars
    <3>4. FenceFlag(p) => \/ fence_index' = fence_index /\ fences' = fences
                          \/ fence_index' = [fence_index EXCEPT ![p] = 1 - @] /\ fences' = [fences EXCEPT ![p] = @ + 1]
      BY DEF FenceFlag, Flip
    <3> QED BY <1>3, <3>1, <3>2, <3>3, <3>4, ProgramLeaves
  <2>3. Others(p) /\ (a # p => pc'[a] = pc[a] /\ todo'[a] = todo[a])
    BY <1>1, <1>3, ProgramPlaces DEF Others
  <2>4. CASE a # p
    BY <1>1, <2>2, <2>3, <2>4 DEF Place, Doing, Call
  <2>5. CASE a = p /\ Return(p)
    <3>1. pc'[p].at = "run" /\ pc'[p].i = 0
      BY <1>1, <2>5, Returns
    <3> QED BY <2>2, <2>5, <3>1 DEF Place
  <2>6. ASSUME a = p, NEW at \in Ats, NEW i \in Nat, Goto(p, at, i),
               at \in {"send", "flags"} => Doing(p, "fence"),
               at = "mark" => Doing(p, "post") /\ i \in Proc,
               at = "reset" => Doing(p, "complete") /\ i \in Proc,
               at = "run" => Doing(p, "post") \/ Doing(p, "complete")
        PROVE  Place(a)'
    <3>1. pc'[p].at = at /\ pc'[p].i = i /\ todo' = todo
      BY <1>1, <2>6, Goes
    <3>2. \A op : Doing(p, op)' <=> Doing(p, op)
      BY <3>1 DEF Doing, Call
    <3>3. \A op : Doing(a, op)' <=> Doing(p, op)
      BY <2>6, <3>2
    <3> QED BY <2>2, <2>6, <3>1, <3>3 DEF Place
  <2>7. Proc \subseteq Nat /\ Ats = {"run", "granted", "send", "flags", "mark", "reset"}
    BY TcpWinAssumption DEF Proc, Ats
  <2>8. ASSUME a = p, Within(p) PROVE Place(a)'
    <3>1. CASE pc' = pc /\ todo' = todo
      BY <1>1, <2>2, <2>8, <3>1 DEF Place, Doing, Call
    <3>2. CASE Goto(p, "granted", 0)
      BY <2>1, <2>6, <2>7, <2>8, <3>2
    <3>3. CASE Doing(p, "fence") /\ \E at \in {"send", "flags"}, i \in Nat : Goto(p, at, i)
      BY <2>6, <2>7, <2>8, <3>3
    <3>4. CASE Doing(p, "complete") /\ \E i \in Proc : Goto(p, "reset", i)
      BY <2>6, <2>7, <2>8, <3>4
    <3>5. CASE Doing(p, "complete") /\ Goto(p, "run", pc[p].i + 1)
      BY <2>1, <2>6, <2>7, <2>8, <3>5
    <3> QED BY <2>8, <3>1, <3>2, <3>3, <3>4, <3>5 DEF Within
  <2>9. CASE a = p /\ PostMark(p)
    <3>1. Goto(p, "run", pc[p].i + 1) /\ Doing(p, "post")
      BY <2>9, CallOps DEF PostMark, Doing
    <3> QED BY <2>1, <2>6, <2>7, <2>9, <3>1
  <2>10. ASSUME a = p, PostSend(p), NEW k \in Proc, Goto(p, "mark", k) PROVE Place(a)'
    <3>1. Doing(p, "post")
      BY <2>10, CallOps DEF Doing
    <3> QED BY <2>6, <2>7, <2>10, <3>1
  <2>11. WinWait(p) => Return(p)
    BY DEF WinWait
  <2> QED BY <1>1, <1>3, <2>4, <2>5, <2>8, <2>9, <2>10, <2>11, Steps
<1> QED BY <1>2, <1>3

\* The rest of some calls in turn is in turn.
LEMMA RestInTurn ==
  ASSUME NEW calls \in Seq(CallType), calls # << >>, PostsInTurn(calls)
  PROVE  PostsInTurn(Tail(calls))
<1>1. /\ Len(calls) \in Nat \ {0} /\ DOMAIN calls = 1 .. Len(calls)
      /\ DOMAIN Tail(calls) = 1 .. Len(calls) - 1
      /\ \A i \in 1 .. Len(calls) - 1 : Tail(calls)[i] = calls[i + 1]
  OBVIOUS
<1>2. PICK t : t = Tail(calls)
  OBVIOUS
<1> SUFFICES ASSUME NEW i \in DOMAIN t, NEW j \in DOMAIN t, i < j, t[i].op = "post", t[j].op = "post"
             PROVE  \E k \in i + 1 .. j - 1 : t[k].op = "win_wait"
  BY <1>2 DEF PostsInTurn
<1>3. i \in 1 .. Len(calls) - 1 /\ j \in 1 .. Len(calls) - 1
  BY <1>1, <1>2
<1>4. i + 1 \in DOMAIN calls /\ j + 1 \in DOMAIN calls /\ i + 1 < j + 1
      /\ calls[i + 1].op = "post" /\ calls[j + 1].op = "post"
  BY <1>1, <1>2, <1>3
<1>5. PICK k \in (i + 1) + 1 .. (j + 1) - 1 : calls[k].op = "win_wait"
  BY <1>4 DEF PostsInTurn
<1>6. k - 1 \in i + 1 .. j - 1 /\ k - 1 \in 1 .. Len(calls) - 1 /\ (k - 1) + 1 = k
  BY <1>1, <1>3, <1>5
<1>7. t[k - 1].op = "win_wait"
  BY <1>1, <1>2, <1>5, <1>6
<1> QED BY <1>6, <1>7

\* A post finds nothing exposed but its own.
LEMMA PostsNext ==
  ASSUME LockTypes, FlushInv, NEW p \in Proc, Handle(p) \/ Program(p)
  PROVE  \A a \in Proc : Posts(a)'
<1> SUFFICES ASSUME NEW a \in Proc PROVE Posts(a)'
  OBVIOUS
<1>1. FlushTypes /\ Posts(a) /\ Place(p)
  BY DEF FlushInv
<1>2. CASE Handle(p)
  <2>1. UNCHANGED <<todo, pc, exposed>>
    BY <1>2, HandleLeaves DEF Handle
  <2> QED BY <1>1, <2>1 DEF Posts, Doing, Call
<1>3. CASE Program(p)
  <2>1. a # p => pc'[a] = pc[a] /\ todo'[a] = todo[a]
    BY <1>1, <1>3, ProgramPlaces DEF Others
  <2>2. exposed \in [Proc -> SUBSET Proc] /\ pc[p].i \in Nat /\ Proc \subseteq Nat
    BY <1>1, TcpWinAssumption DEF FlushTypes, Proc
  <2>t. todo[p] \in Seq(CallType)
    BY DEF LockTypes
  <2>3. CASE a # p
    <3>1. exposed'[a] = exposed[a]
      <4>1. WinWait(p) => exposed' = [exposed EXCEPT ![p] = {}]
        BY DEF WinWait
      <4>2. PostMark(p) => exposed' = exposed
        BY DEF PostMark
      <4>3. exposed' = exposed \/ \E S : exposed' = [exposed EXCEPT ![p] = S]
        BY <1>1, <1>3, <4>1, <4>2, Steps
      <4> QED BY <2>2, <2>3, <4>3
    <3> QED BY <1>1, <2>1, <2>3, <3>1 DEF Posts, Doing, Call
  <2>4. ASSUME a = p, Return(p), todo[p] # << >>,
               exposed'[p] = {} \/ (exposed'[p] = exposed[p] /\ ~Doing(p, "win_wait"))
        PROVE  Posts(a)'
    <3>1. PICK calls, t, E : calls = todo[p] /\ t = todo'[p] /\ E = exposed'[p]
      OBVIOUS
    <3>2. calls \in Seq(CallType) /\ calls # << >> /\ t = Tail(calls)
      BY <1>1, <2>4, <3>1, <2>t, Returns
    <3>3. PostsInTurn(t)
      BY <1>1, <2>4, <3>1, <3>2, RestInTurn DEF Posts
    <3>4. /\ Len(calls) \in Nat \ {0} /\ DOMAIN calls = 1 .. Len(calls)
          /\ DOMAIN t = 1 .. Len(calls) - 1
          /\ \A i \in 1 .. Len(calls) - 1 : t[i] = calls[i + 1]
      BY <3>2
    <3>5. ASSUME E # {}, NEW j \in DOMAIN t, t[j].op = "post"
          PROVE  \E i \in 1 .. j - 1 : t[i].op = "win_wait"
      <4>1. E = exposed[p] /\ calls[1].op # "win_wait"
        BY <2>4, <3>1, <3>5 DEF Doing, Call
      <4>2. j \in 1 .. Len(calls) - 1 /\ j + 1 \in DOMAIN calls /\ j + 1 > 1 /\ calls[j + 1].op = "post"
        BY <3>4, <3>5
      <4>3. PICK i \in 1 .. (j + 1) - 1 : calls[i].op = "win_wait"
        BY <1>1, <2>4, <3>1, <3>5, <4>1, <4>2 DEF Posts
      <4>4. i # 1
        BY <4>1, <4>3
      <4>5. i - 1 \in 1 .. j - 1 /\ i - 1 \in 1 .. Len(calls) - 1 /\ (i - 1) + 1 = i
        BY <3>4, <4>2, <4>3, <4>4
      <4>6. t[i - 1].op = "win_wait"
        BY <3>4, <4>3, <4>5
      <4> QED BY <4>5, <4>6
    <3>6. ASSUME E # {}, t # << >>, t[1].op = "post" PROVE FALSE
      <4>1. t \in Seq(CallType) /\ 1 \in DOMAIN t
        BY <3>2, <3>6
      <4>2. \E i \in 1 .. 1 - 1 : t[i].op = "win_wait"
        BY <3>5, <3>6, <4>1
      <4> QED BY <4>2
    <3>7. Doing(p, "post")' => t # << >> /\ t[1].op = "post"
      BY <3>1 DEF Doing, Call
    <3> QED BY <2>4, <3>1, <3>3, <3>5, <3>6, <3>7 DEF Posts
  <2>5. ASSUME a = p, todo'[p] = todo[p], exposed' = exposed, ~Doing(p, "post") PROVE Posts(a)'
    <3>1. ~Doing(p, "post")'
      BY <2>5 DEF Doing, Call
    <3> QED BY <1>1, <2>5, <3>1 DEF Posts
  <2>6. CASE a = p /\ PostMark(p)
    <3>1. Goto(p, "run", pc[p].i + 1) /\ exposed' = exposed /\ pc[p].at = "mark" /\ Doing(p, "post")
      BY <2>6, CallOps DEF PostMark, At, Doing
    <3>2. pc'[p].i = pc[p].i + 1 /\ todo' = todo
      <4>1. "run" \in Ats /\ pc[p].i + 1 \in Nat
        BY <2>2 DEF Ats
      <4> QED BY <1>1, <3>1, <4>1, Goes
    <3>3. \A k \in exposed[p] : k < pc[p].i + 1
      <4> TAKE k \in exposed[p]
      <4>1. k \in Nat
        BY <2>2
      <4>2. k < pc[p].i \/ k = pc[p].i
        BY <1>1, <2>6, <3>1 DEF Posts
      <4> QED BY <2>2, <4>1, <4>2
    <3> QED BY <1>1, <2>6, <3>1, <3>2, <3>3 DEF Posts
  <2>7. ASSUME a = p, PostSend(p), NEW k \in Proc, k >= pc[p].i, Goto(p, "mark", k),
               exposed' = [exposed EXCEPT ![p] = @ \cup {k}]
        PROVE  Posts(a)'
    <3>1. Doing(p, "post") /\ pc[p].at = "run"
      BY <2>7, CallOps DEF PostSend, At, Doing
    <3>2. pc'[p].i = k /\ pc'[p].at = "mark" /\ todo' = todo
      <4>1. "mark" \in Ats /\ k \in Nat
        BY <2>2 DEF Ats
      <4> QED BY <1>1, <2>7, <4>1, Goes
    <3>3. exposed'[p] = exposed[p] \cup {k}
      BY <2>2, <2>7
    <3>4. \A x \in exposed'[p] : x < k \/ x = k
      <4> TAKE x \in exposed'[p]
      <4>1. x \in exposed[p] => x < pc[p].i
        BY <1>1, <2>7, <3>1 DEF Posts
      <4>2. x \in exposed[p] => x \in Nat
        BY <2>2
      <4>3. k \in Nat
        BY <2>2
      <4> QED BY <2>2, <2>7, <3>3, <4>1, <4>2, <4>3
    <3>5. ASSUME NEW j \in DOMAIN todo[p], j > 1, todo[p][j].op = "post"
          PROVE  \E i \in 1 .. j - 1 : todo[p][i].op = "win_wait"
      <4>1. 1 \in DOMAIN todo[p] /\ todo[p][1].op = "post"
        BY <2>t, <3>1 DEF Doing, Call
      <4>2. PICK i \in 1 + 1 .. j - 1 : todo[p][i].op = "win_wait"
        BY <1>1, <2>7, <3>5, <4>1 DEF Posts, PostsInTurn
      <4>3. i \in 1 .. j - 1
        BY <4>2
      <4> QED BY <4>2, <4>3
    <3> QED BY <1>1, <2>7, <3>2, <3>4, <3>5 DEF Posts
  <2>8. Within(p) => todo'[p] = todo[p] /\ ~Doing(p, "post")
    BY DEF Within, Goto, Doing
  <2>9. WinWait(p) => Return(p) /\ todo[p] # << >> /\ exposed'[p] = {}
    BY <2>2, CallOps DEF WinWait
  <2> QED BY <1>1, <1>3, <2>3, <2>4, <2>5, <2>6, <2>7, <2>8, <2>9, Steps
<1> QED BY <1>2, <1>3

\* Functions that change at one place.
LEMMA SetAt ==
  ASSUME NEW f \in [Proc -> SUBSET Proc], NEW p \in Proc, NEW S, S \subseteq Proc
  PROVE  [f EXCEPT ![p] = S] \in [Proc -> SUBSET Proc]
OBVIOUS

\* A flag is raised or taken down.
LEMMA FlagAt ==
  ASSUME NEW f \in [Proc -> [Proc -> [0 .. 1 -> BOOLEAN]]], NEW p \in Proc, NEW q \in Proc, NEW x,
         NEW v \in BOOLEAN
  PROVE  [f EXCEPT ![p][q][x] = v] \in [Proc -> [Proc -> [0 .. 1 -> BOOLEAN]]]
<1>1. PICK g : g = f[p][q]
  OBVIOUS
<1>2. g \in [0 .. 1 -> BOOLEAN]
  BY <1>1
<1>3. [g EXCEPT ![x] = v] \in [0 .. 1 -> BOOLEAN]
  BY <1>2, Zenon
<1>4. PICK h : h = [g EXCEPT ![x] = v]
  OBVIOUS
<1>5. [f EXCEPT ![p][q][x] = v] = [f EXCEPT ![p] = [f[p] EXCEPT ![q] = h]]
  BY <1>1, <1>4
<1>6. h \in [0 .. 1 -> BOOLEAN]
  BY <1>3, <1>4
<1>7. [f[p] EXCEPT ![q] = h] \in [Proc -> [0 .. 1 -> BOOLEAN]]
  BY <1>6
<1> QED BY <1>5, <1>7

\* Every variable of the synchronisation keeps its type.
LEMMA TypesNext ==
  ASSUME LockTypes, FlushInv, NEW p \in Proc, Handle(p) \/ Program(p)
  PROVE  FlushTypes'
<1>1. /\ pc \in [Proc -> [at : Ats, i : Nat]]
      /\ procs \in [Proc -> [Proc -> [0 .. 1 -> BOOLEAN]]]
      /\ fence_index \in [Proc -> 0 .. 1] /\ fences \in [Proc -> Nat]
      /\ post_sent \in [Proc -> SUBSET Proc] /\ post_received \in [Proc -> SUBSET Proc]
      /\ access \in [Proc -> SUBSET Proc] /\ exposed \in [Proc -> SUBSET Proc]
      /\ FlushTypes /\ Place(p)
  BY DEF FlushInv, FlushTypes
<1>2. CASE Handle(p)
  <2>1. PICK q \in Proc \ {p} :
          \/ RecvPut(q, p) \/ RecvFlag(q, p) \/ RecvGrant(q, p) \/ RecvGet(q, p)
          \/ RecvReply(q, p) \/ RecvLock(q, p) \/ RecvPost(q, p) \/ RecvComplete(q, p)
    BY <1>2 DEF Handle
  <2>2. UNCHANGED <<pc, fence_index, fences, access, exposed>>
    BY <2>1, HandleLeaves
  <2>3. procs' \in [Proc -> [Proc -> [0 .. 1 -> BOOLEAN]]]
    <3>1. CASE RecvFlag(q, p)
      <4>1. PICK x : x = Msg(q, p).index
        OBVIOUS
      <4>2. procs' = [procs EXCEPT ![p][q][x] = TRUE]
        BY <3>1, <4>1 DEF RecvFlag
      <4> QED BY <1>1, <4>2, FlagAt
    <3>2. CASE ~RecvFlag(q, p)
      BY <1>1, <2>1, <3>2, HandleLeaves
    <3> QED BY <3>1, <3>2
  <2>4. post_sent' \in [Proc -> SUBSET Proc]
    <3>1. RecvComplete(q, p) => post_sent' = [post_sent EXCEPT ![p] = post_sent[p] \ {q}]
      BY DEF RecvComplete
    <3>2. [post_sent EXCEPT ![p] = post_sent[p] \ {q}] \in [Proc -> SUBSET Proc]
      <4>1. post_sent[p] \ {q} \subseteq Proc
        BY <1>1
      <4> QED BY <1>1, <4>1, SetAt, Zenon
    <3>3. ~RecvComplete(q, p) => post_sent' = post_sent
      BY <2>1, HandleLeaves
    <3> QED BY <1>1, <3>1, <3>2, <3>3, Zenon
  <2>5. post_received' \in [Proc -> SUBSET Proc]
    <3>1. RecvPost(q, p) => post_received' = [post_received EXCEPT ![p] = post_received[p] \cup {q}]
      BY DEF RecvPost
    <3>2. [post_received EXCEPT ![p] = post_received[p] \cup {q}] \in [Proc -> SUBSET Proc]
      <4>1. post_received[p] \cup {q} \subseteq Proc
        BY <1>1
      <4> QED BY <1>1, <4>1, SetAt, Zenon
    <3>3. ~RecvPost(q, p) => post_received' = post_received
      BY <2>1, HandleLeaves
    <3> QED BY <1>1, <3>1, <3>2, <3>3, Zenon
  <2> QED BY <1>1, <2>2, <2>3, <2>4, <2>5 DEF FlushTypes
<1>3. CASE Program(p)
  <2>1. pc' \in [Proc -> [at : Ats, i : Nat]]
    BY <1>1, <1>3, ProgramPlaces
  <2>2. procs' \in [Proc -> [Proc -> [0 .. 1 -> BOOLEAN]]]
    <3>1. FenceSend(p) => procs' = procs
      BY DEF FenceSend, fenceVars
    <3>2. ASSUME NEW q \in Proc, NEW x, procs' = [procs EXCEPT ![p][q][x] = FALSE]
          PROVE  procs' \in [Proc -> [Proc -> [0 .. 1 -> BOOLEAN]]]
      BY <1>1, <3>2, FlagAt
    <3>3. CASE FenceFlag(p)
      <4>1. procs' = procs \/ \E q \in Proc \ {p} : procs' = [procs EXCEPT ![p][q][fence_index[p]] = FALSE]
        BY <1>1, <3>3, FenceFlagCounts
      <4> QED BY <1>1, <3>2, <4>1
    <3> QED BY <1>1, <1>3, <3>1, <3>3, ProgramLeaves
  <2>3. fence_index' \in [Proc -> 0 .. 1] /\ fences' \in [Proc -> Nat]
    <3>1. FenceSend(p) => fence_index' = fence_index /\ fences' = fences
      BY DEF FenceSend, fenceVars
    <3>2. FenceFlag(p) => \/ fence_index' = fence_index /\ fences' = fences
                          \/ fence_index' = [fence_index EXCEPT ![p] = 1 - @] /\ fences' = [fences EXCEPT ![p] = @ + 1]
      BY DEF FenceFlag, Flip
    <3>3. 1 - fence_index[p] \in 0 .. 1 /\ fences[p] + 1 \in Nat
      <4>1. fence_index[p] \in 0 .. 1 /\ fences[p] \in Nat
        BY <1>1
      <4> QED BY <4>1
    <3> QED BY <1>1, <1>3, <3>1, <3>2, <3>3, ProgramLeaves
  <2>4. post_sent' \in [Proc -> SUBSET Proc]
    <3>1. PostMark(p) => post_sent' = [post_sent EXCEPT ![p] = post_sent[p] \cup {pc[p].i}] /\ pc[p].i \in Proc
      BY <1>1 DEF PostMark, At, Place
    <3>2. CompleteSend(p) => \/ post_sent' = post_sent
                             \/ post_sent' = [post_sent EXCEPT ![p] = post_sent[p] \ {p}]
      BY DEF CompleteSend
    <3>3. \A S : S \subseteq Proc => [post_sent EXCEPT ![p] = S] \in [Proc -> SUBSET Proc]
      BY <1>1, SetAt, Zenon
    <3>4. (pc[p].i \in Proc => post_sent[p] \cup {pc[p].i} \subseteq Proc) /\ post_sent[p] \ {p} \subseteq Proc
      BY <1>1
    <3>5. ~PostMark(p) /\ ~CompleteSend(p) => post_sent' = post_sent
      BY <1>3, ProgramLeaves
    <3>6. CASE PostMark(p)
      <4>1. [post_sent EXCEPT ![p] = post_sent[p] \cup {pc[p].i}] \in [Proc -> SUBSET Proc]
        BY <3>1, <3>3, <3>4, <3>6, Zenon
      <4> QED BY <3>1, <3>6, <4>1, Zenon
    <3>7. CASE CompleteSend(p)
      <4>1. [post_sent EXCEPT ![p] = post_sent[p] \ {p}] \in [Proc -> SUBSET Proc]
        BY <3>3, <3>4, Zenon
      <4> QED BY <1>1, <3>2, <3>7, <4>1, Zenon
    <3> QED BY <1>1, <3>5, <3>6, <3>7, Zenon
  <2>5. post_received' \in [Proc -> SUBSET Proc]
    <3>1. PostSend(p) => \/ post_received' = post_received
                         \/ post_received' = [post_received EXCEPT ![p] = post_received[p] \cup {p}]
      BY DEF PostSend
    <3>2. CompleteReset(p) => post_received' = [post_received EXCEPT ![p] = post_received[p] \ {pc[p].i}]
      BY DEF CompleteReset
    <3>3. post_received[p] \cup {p} \subseteq Proc /\ post_received[p] \ {pc[p].i} \subseteq Proc
      BY <1>1
    <3> QED BY <1>1, <1>3, <3>1, <3>2, <3>3, ProgramLeaves, SetAt
  <2>6. access' \in [Proc -> SUBSET Proc]
    <3>1. Start(p) => access' = [access EXCEPT ![p] = Call(p).group] /\ Call(p).group \subseteq Proc
      <4>1. Start(p) => Call(p).group \subseteq post_received[p]
        BY DEF Start
      <4> QED BY <1>1, <4>1 DEF Start
    <3>2. CompleteSend(p) => access' = access \/ access' = [access EXCEPT ![p] = {}]
      BY DEF CompleteSend
    <3> QED BY <1>1, <1>3, <3>1, <3>2, ProgramLeaves
  <2>7. exposed' \in [Proc -> SUBSET Proc]
    <3>1. WinWait(p) => exposed' = [exposed EXCEPT ![p] = {}]
      BY DEF WinWait
    <3>2. PostMark(p) => exposed' = exposed
      BY DEF PostMark
    <3>3. exposed' = exposed \/ exposed' = [exposed EXCEPT ![p] = {}]
          \/ \E k \in Proc : exposed' = [exposed EXCEPT ![p] = exposed[p] \cup {k}]
      BY <1>1, <1>3, <3>1, <3>2, Steps
    <3>4. (\A k \in Proc : exposed[p] \cup {k} \subseteq Proc) /\ {} \subseteq Proc
      BY <1>1
    <3>5. \A S : S \subseteq Proc => [exposed EXCEPT ![p] = S] \in [Proc -> SUBSET Proc]
      BY <1>1, SetAt, Zenon
    <3>6. CASE exposed' = [exposed EXCEPT ![p] = {}]
      BY <3>4, <3>5, <3>6, Zenon
    <3>7. ASSUME NEW k \in Proc, exposed' = [exposed EXCEPT ![p] = exposed[p] \cup {k}]
          PROVE  exposed' \in [Proc -> SUBSET Proc]
      <4>1. [exposed EXCEPT ![p] = exposed[p] \cup {k}] \in [Proc -> SUBSET Proc]
        BY <3>4, <3>5, Zenon
      <4> QED BY <3>7, <4>1, Zenon
    <3> QED BY <1>1, <3>3, <3>6, <3>7, Zenon
  <2> QED BY <2>1, <2>2, <2>3, <2>4, <2>5, <2>6, <2>7 DEF FlushTypes
<1> QED BY <1>2, <1>3

-----------------------------------------------------------------------------
(***************************************************************************)
(* Locks.                                                                  *)
(***************************************************************************)

\* A put under a lock that p has on q, in some messages, or that it unlocks.
LockStream(s, holding, unlocking) ==
  \A i \in Places(s, "put") : s[i].sync = "lock" => holding \/ (unlocking /\ Later(s, i, "lock"))

\* What becomes of them when a message comes or goes: a lock is not given up before the
\* puts under it have the request to unlock behind them.
LEMMA LockStreamNext ==
  ASSUME NEW s, IsSeq(s), NEW t, NEW h, NEW u, NEW hh, NEW uu, LockStream(s, h, u),
         \/ /\ t = s \/ Takes(s, t)
            /\ h => hh
            /\ u => hh \/ uu
         \/ \E m : /\ Adds(s, t, m)
                   /\ m.kind = "put" => (m.sync = "lock" => hh)
                   /\ h => hh \/ (uu /\ m.kind = "lock")
                   /\ u => hh \/ uu
  PROVE  LockStream(t, hh, uu)
<1> SUFFICES ASSUME NEW i \in Places(t, "put"), t[i].sync = "lock"
             PROVE  hh \/ (uu /\ Later(t, i, "lock"))
  BY DEF LockStream
<1>1. CASE (t = s \/ Takes(s, t)) /\ (h => hh) /\ (u => hh \/ uu)
  BY <1>1, OldPuts DEF LockStream
<1>2. ASSUME NEW m, Adds(s, t, m), m.kind = "put" => (m.sync = "lock" => hh),
             h => hh \/ (uu /\ m.kind = "lock"), u => hh \/ uu
      PROVE  hh \/ (uu /\ Later(t, i, "lock"))
  BY <1>2, NewPuts DEF LockStream
<1> QED BY <1>1, <1>2

\* Steps in which nobody loses a lock.
LEMMA LockQuiet ==
  ASSUME LockTypes, FlushInv, NEW p, NEW K, NEW k, Traffic(p, K, k),
         NEW a \in Proc, NEW b \in Proc, a # b,
         Holding(a, b) => Holding(a, b)', Unlocking(a, b) => Holding(a, b)' \/ Unlocking(a, b)'
  PROVE  LockPair(a, b)'
<1>1. PICK s, t, h, u, hh, uu : /\ s = wire[a][b] /\ t = wire'[a][b]
                                /\ h = Holding(a, b) /\ u = Unlocking(a, b)
                                /\ hh = Holding(a, b)' /\ uu = Unlocking(a, b)'
  OBVIOUS
<1>2. LockStream(s, h, u) /\ IsSeq(s)
  BY <1>1, Traffics DEF FlushInv, LockPair, LockStream
<1>3. \/ t = s \/ Takes(s, t)
      \/ \E m : Adds(s, t, m) /\ (m.kind = "put" => (m.sync = "lock" => hh))
  BY <1>1, Traffics DEF PutFits
<1>4. LockStream(t, hh, uu)
  BY <1>1, <1>2, <1>3, LockStreamNext
<1> QED BY <1>1, <1>4 DEF LockPair, LockStream

\* A lock that p has on another window when it calls MP_Win_lock() or MP_Win_unlock().
LEMMA LockCallHolds ==
  ASSUME LockTypes, NEW p \in Proc, LockCall(p), NEW a \in Proc, NEW b \in Proc,
         a # p \/ b # Call(p).rank
  PROVE  Holding(a, b)' <=> Holding(a, b)
<1>1. PICK rank : rank = Call(p).rank
  OBVIOUS
<1>2. holds' = [holds EXCEPT ![p] = @ \ {<<rank, 1>>, <<rank, 2>>}] /\ holds \in [Proc -> SUBSET (Proc \X {1, 2})]
  BY <1>1 DEF LockCall, LockTypes
<1>3. CASE a # p
  BY <1>2, <1>3 DEF Holding
<1>4. CASE a = p /\ b # rank
  <2>1. holds'[a] = holds[a] \ {<<rank, 1>>, <<rank, 2>>}
    BY <1>2, <1>4
  <2>2. \A x : <<b, x>> \in holds'[a] <=> <<b, x>> \in holds[a]
    BY <1>4, <2>1
  <2> QED BY <2>2 DEF Holding
<1> QED BY <1>1, <1>3, <1>4

\* Who has asked to unlock goes on to wait in steps of others.
LEMMA UnlockingSame ==
  ASSUME NEW a, NEW b, pc'[a] = pc[a], todo'[a] = todo[a]
  PROVE  Unlocking(a, b)' <=> Unlocking(a, b)
BY DEF Unlocking, At, Call

\* Puts under a lock are before the request to unlock.
LEMMA LockNext ==
  ASSUME IInv, FlushInv, NEW p \in Proc, Handle(p) \/ Program(p), NEW K, NEW k, Traffic(p, K, k)
  PROVE  \A a, b \in Proc : a # b => LockPair(a, b)'
<1> SUFFICES ASSUME NEW a \in Proc, NEW b \in Proc, a # b PROVE LockPair(a, b)'
  OBVIOUS
<1>1. LockTypes /\ FlushTypes /\ Place(p) /\ InCall(a) /\ InCall(p)
  BY DEF IInv, FlushInv
<1>2. CASE Handle(p)
  <2>1. UNCHANGED <<todo, pc, holds>>
    BY <1>2, HandleLeaves DEF Handle
  <2> QED BY <1>1, <2>1, LockQuiet, UnlockingSame DEF Holding
<1>3. CASE QuietProgram(p)
  <2>1. QuietCall(p) /\ holds' = holds
    BY <1>3, ProgramIsQuiet
  <2>2. a # p => pc'[a] = pc[a] /\ todo'[a] = todo[a]
    <3>1. Program(p)
      BY <1>3 DEF QuietProgram, Program
    <3> QED BY <1>1, <3>1, ProgramPlaces DEF Others
  <2>3. Unlocking(a, b) => Unlocking(a, b)'
    BY <2>1, <2>2, UnlockingSame DEF QuietCall, Unlocking, At, Call, Waiting
  <2> QED BY <1>1, <2>1, <2>3, LockQuiet DEF Holding
<1>4. ASSUME LockCall(p), Program(p) PROVE Others(p) /\ (Unlocking(a, b) => Unlocking(a, b)')
  <2>1. Others(p) /\ ~Waiting(p)
    BY <1>1, <1>4, LockCallWaits, ProgramPlaces
  <2> QED BY <2>1, UnlockingSame DEF Unlocking, At, Waiting, Others
<1>5. CASE LockOwn(p)
  <2>1. LockCall(p) /\ Call(p).rank = p /\ Program(p)
    BY <1>5 DEF LockOwn, Program
  <2>2. Holding(a, b)' <=> Holding(a, b)
    BY <1>1, <2>1, LockCallHolds
  <2> QED BY <1>1, <1>4, <2>1, <2>2, LockQuiet
<1>6. CASE LockOther(p)
  <2>1. LockCall(p) /\ Program(p)
    BY <1>6 DEF LockOther, Program
  <2>2. CASE a # p \/ b # Call(p).rank
    <3>1. Holding(a, b)' <=> Holding(a, b)
      BY <1>1, <2>1, <2>2, LockCallHolds
    <3> QED BY <1>1, <1>4, <2>1, <3>1, LockQuiet
  <2>3. CASE a = p /\ b = Call(p).rank
    <3>1. ~Waiting(p) /\ (LockType(p) # 0 => ~Holding(p, b)) /\ todo' = todo /\ Waiting(p)'
      BY <2>1, <2>3, LockCallWaits
    <3>2. LockType(p) = 0 => Call(p).op = "unlock"
      <4>1. Call(p).op = "lock" => Call(p).type \in {1, 2}
        <5>1. todo[p] # << >>
          BY <1>6, CallOps
        <5>2. Call(p) \in CallType
          BY <1>1, <5>1 DEF LockTypes, Call
        <5> QED BY <5>2 DEF CallType
      <4>2. Call(p).op \in {"lock", "unlock"}
        BY <1>6, CallOps
      <4> QED BY <4>1, <4>2 DEF LockType
    <3>3. LockType(p) = 0 => Unlocking(a, b)'
      BY <2>3, <3>1, <3>2 DEF Unlocking, Waiting, At, Call
    <3>4. PICK s, t, h, u, hh, uu, m : /\ s = wire[a][b] /\ t = wire'[a][b]
                                       /\ h = Holding(a, b) /\ u = Unlocking(a, b)
                                       /\ hh = Holding(a, b)' /\ uu = Unlocking(a, b)'
                                       /\ m = [kind |-> "lock", type |-> LockType(p)]
      OBVIOUS
    <3>5. LockStream(s, h, u) /\ IsSeq(s)
      BY <1>1, <3>4 DEF FlushInv, LockPair, LockStream, LockTypes
    <3>6. Adds(s, t, m)
      <4>1. wire = [c \in Proc |-> [d \in Proc |-> wire[c][d]]]
        BY <1>1 DEF LockTypes
      <4>2. wire' = [wire EXCEPT ![a][b] = Append(@, m)]
        BY <1>6, <2>3, <3>4 DEF LockOther, Send
      <4> QED BY <3>4, <4>1, <4>2 DEF Adds
    <3>7. m.kind = "lock" /\ ~u /\ (h => uu)
      BY <2>3, <3>1, <3>3, <3>4 DEF Unlocking, Waiting, At
    <3>8. LockStream(t, hh, uu)
      BY <3>5, <3>6, <3>7, LockStreamNext
    <3> QED BY <3>4, <3>8 DEF LockPair, LockStream
  <2> QED BY <2>2, <2>3
<1>7. CASE LockReturn(p)
  <2>1. Holding(a, b) => Holding(a, b)'
    <3>1. holds \in [Proc -> SUBSET (Proc \X {1, 2})]
      BY <1>1 DEF LockTypes
    <3>2. holds[a] \subseteq holds'[a]
      BY <1>7, <3>1 DEF LockReturn
    <3> QED BY <3>2 DEF Holding
  <2>2. CASE a # p
    <3>1. pc'[a] = pc[a] /\ todo'[a] = todo[a]
      <4>1. Program(p)
        BY <1>7 DEF Program
      <4> QED BY <1>1, <2>2, <4>1, ProgramPlaces DEF Others
    <3> QED BY <1>1, <2>1, <3>1, LockQuiet, UnlockingSame
  <2>3. CASE a = p
    <3>1. wire' = wire /\ lock_granted[p]
      BY <1>7 DEF LockReturn
    <3>2. AskedAt(a, b) = {}
      BY <2>3, <3>1, NoTicket DEF IInv
    <3>3. \A i \in Places(wire[a][b], "put") : wire[a][b][i].sync = "lock" => Holding(a, b)
      BY <3>2 DEF FlushInv, LockPair, Later, AskedAt
    <3> QED BY <2>1, <3>1, <3>3 DEF LockPair
  <2> QED BY <2>2, <2>3
<1>8. Program(p) => QuietProgram(p) \/ LockOwn(p) \/ LockOther(p) \/ LockReturn(p)
  BY DEF Program, QuietProgram
<1> QED BY <1>2, <1>3, <1>5, <1>6, <1>7, <1>8

-----------------------------------------------------------------------------
(***************************************************************************)
(* Epochs.                                                                 *)
(***************************************************************************)

\* A put of an epoch, in some messages.
StartStream(s, received) ==
  \A i \in Places(s, "put") : s[i].sync = "start" => received \/ Later(s, i, "complete")

\* An epoch is completed after its puts.
LEMMA StartStreamNext ==
  ASSUME NEW s, IsSeq(s), NEW t, NEW r, NEW rr, StartStream(s, r),
         \/ (t = s \/ Takes(s, t)) /\ (r => rr)
         \/ \E m : /\ Adds(s, t, m)
                   /\ m.kind = "put" => (m.sync = "start" => rr)
                   /\ r => rr \/ m.kind = "complete"
  PROVE  StartStream(t, rr)
<1> SUFFICES ASSUME NEW i \in Places(t, "put"), t[i].sync = "start"
             PROVE  rr \/ Later(t, i, "complete")
  BY DEF StartStream
<1>1. CASE (t = s \/ Takes(s, t)) /\ (r => rr)
  BY <1>1, OldPuts DEF StartStream
<1>2. ASSUME NEW m, Adds(s, t, m), m.kind = "put" => (m.sync = "start" => rr),
             r => rr \/ m.kind = "complete"
      PROVE  rr \/ Later(t, i, "complete")
  BY <1>2, NewPuts DEF StartStream
<1> QED BY <1>1, <1>2

\* One message of a kind at most.
OneOf(s, c) == \A i, j \in Places(s, c) : i = j

\* It stays one, or is taken, when none is sent.
LEMMA OneStays ==
  ASSUME NEW s, IsSeq(s), NEW t, NEW c, OneOf(s, c),
         t = s \/ Takes(s, t) \/ \E m : Adds(s, t, m) /\ m.kind # c
  PROVE  OneOf(t, c) /\ (Places(t, c) # {} => Places(s, c) # {})
<1>1. CASE t = s
  BY <1>1
<1>2. ASSUME Takes(s, t) PROVE OneOf(t, c) /\ (Places(t, c) # {} => Places(s, c) # {})
  <2>1. s # << >> /\ t = Tail(s)
    BY <1>2 DEF Takes
  <2>2. CASE Head(s).kind = c
    <3>1. 1 \in Places(s, c)
      BY <2>1, <2>2, PlacesTaken
    <3>2. Places(s, c) = {1}
      BY <3>1 DEF OneOf
    <3>3. Places(t, c) = {}
      BY <2>1, <3>2, PlacesTaken
    <3> QED BY <3>3 DEF OneOf
  <2>3. CASE Head(s).kind # c
    <3>1. Places(t, c) = {i - 1 : i \in Places(s, c)}
      BY <2>1, <2>3, PlacesTaken
    <3> QED BY <3>1 DEF OneOf
  <2> QED BY <2>2, <2>3
<1>3. ASSUME NEW m, Adds(s, t, m), m.kind # c
      PROVE  OneOf(t, c) /\ (Places(t, c) # {} => Places(s, c) # {})
  <2>1. Places(t, c) = {i - 0 : i \in Places(s, c)}
    BY <1>3, PlacesAdded DEF Adds
  <2> QED BY <2>1 DEF OneOf
<1> QED BY <1>1, <1>2, <1>3

\* It is taken.
LEMMA OneTaken ==
  ASSUME NEW s, IsSeq(s), s # << >>, NEW c, OneOf(s, c), Head(s).kind = c
  PROVE  Places(s, c) # {} /\ Places(Tail(s), c) = {}
<1>1. 1 \in Places(s, c)
  BY PlacesTaken
<1>2. Places(s, c) = {1}
  BY <1>1 DEF OneOf
<1> QED BY <1>2, PlacesTaken

\* It is sent.
LEMMA OneSent ==
  ASSUME NEW s, IsSeq(s), NEW m, Places(s, m.kind) = {}
  PROVE  OneOf(Append(s, m), m.kind)
<1>1. Places(Append(s, m), m.kind) = {Len(s) + 1}
  BY PlacesAdded
<1> QED BY <1>1 DEF OneOf

\* A step of p that has nothing to do with epochs, but for starting one or for a return.
Plain(p) ==
  /\ Others(p) /\ UNCHANGED <<exposed, post_sent, post_received>>
  /\ pc' = pc \/ (pc[p].at \notin {"mark", "reset"} /\ pc'[p].at \notin {"mark", "reset"})
  /\ \E K, k : Traffic(p, K, k) /\ {"post", "complete"} \cap (K \cup k) = {}
  /\ \A a \in Proc \ {p} : access'[a] = access[a]
  /\ \/ todo' = todo /\ access' = access
     \/ ~Doing(p, "complete") /\ access' = access
     \/ access'[p] = {}
     \/ access'[p] \subseteq post_received[p] /\ pc'[p].at = "run"

\* The steps of each process.
LEMMA EpochSteps ==
  ASSUME LockTypes, FlushInv, NEW p \in Proc, Program(p)
  PROVE  \/ Plain(p)
         \/ PostMark(p) \/ CompleteReset(p) \/ WinWait(p)
         \/ PostSend(p) /\ \E k \in Call(p).group : /\ k \in Proc /\ k >= pc[p].i /\ Goto(p, "mark", k)
                                                    /\ exposed' = [exposed EXCEPT ![p] = @ \cup {k}]
                                                    /\ IF k = p THEN wire' = wire /\ post_received' = [post_received EXCEPT ![p] = @ \cup {p}]
                                                       ELSE Send(p, k, [kind |-> "post"]) /\ post_received' = post_received
         \/ CompleteSend(p) /\ \E k \in post_received[p] : /\ Goto(p, "reset", k)
                                                           /\ access' = access
                                                           /\ IF k = p THEN wire' = wire /\ post_sent' = [post_sent EXCEPT ![p] = @ \ {p}]
                                                              ELSE Send(p, k, [kind |-> "complete"]) /\ post_sent' = post_sent
<1>1. FlushTypes /\ Place(p) /\ access \in [Proc -> SUBSET Proc]
  BY DEF FlushInv, FlushTypes
<1>t. UNCHANGED wire => \E K, k : Traffic(p, K, k) /\ {"post", "complete"} \cap (K \cup k) = {}
  <2>1. {"post", "complete"} \cap ({} \cup {}) = {}
    OBVIOUS
  <2> QED BY <2>1, NoTraffic
<1>2. CASE PostSend(p)
  <2>1. todo[p] # << >> /\ Call(p).op = "post" /\ pc[p].at = "run"
    BY <1>2, CallOps DEF PostSend, At
  <2>2. CASE Return(p) /\ wire' = wire /\ post_received' = post_received /\ exposed' = exposed
    <3>1. Others(p) /\ pc'[p].at = "run"
      BY <1>1, <2>2, Returns
    <3>2. post_sent' = post_sent /\ access' = access
      BY <1>2 DEF PostSend
    <3>3. ~Doing(p, "complete")
      BY <2>1 DEF Doing
    <3> QED BY <1>t, <2>1, <2>2, <3>1, <3>2, <3>3 DEF Plain
  <2>3. Return(p) => wire' = wire /\ post_received' = post_received /\ exposed' = exposed
    <3>1. ASSUME NEW k, Return(p), Goto(p, "mark", k) PROVE FALSE
      <4>1. pc' = [pc EXCEPT ![p] = Run] /\ pc' = [pc EXCEPT ![p] = [at |-> "mark", i |-> k]] /\ DOMAIN pc = Proc
        BY <1>1, <3>1 DEF Return, Goto, FlushTypes
      <4>2. pc'[p].at = "run" /\ pc'[p].at = "mark"
        BY <4>1 DEF Run
      <4> QED BY <4>2
    <3> QED BY <1>2, <3>1 DEF PostSend
  <2> QED BY <1>1, <1>2, <2>1, <2>2, <2>3, Steps DEF Within, PostMark, WinWait, Calls, Call, Doing
<1>3. CASE CompleteSend(p)
  <2> DEFINE rest == {k \in post_received[p] : k >= pc[p].i}
  <2>1. todo[p] # << >> /\ Call(p).op = "complete" /\ pc[p].at = "run"
    BY <1>3, CallOps DEF CompleteSend, At
  <2>2. CASE rest = {}
    <3>1. access' = [access EXCEPT ![p] = {}] /\ Return(p) /\ wire' = wire /\ post_sent' = post_sent
          /\ post_received' = post_received /\ exposed' = exposed
      BY <1>3, <2>2 DEF CompleteSend
    <3>2. Others(p) /\ pc'[p].at = "run"
      BY <1>1, <3>1, Returns
    <3>3. access'[p] = {} /\ \A a \in Proc \ {p} : access'[a] = access[a]
      BY <1>1, <3>1
    <3> QED BY <1>t, <2>1, <3>1, <3>2, <3>3 DEF Plain
  <2>3. CASE rest # {}
    <3>1. PICK k : k = Min(rest)
      OBVIOUS
    <3>2. k \in post_received[p]
      <4>1. rest \subseteq Proc
        BY <1>1 DEF FlushTypes
      <4>2. k \in rest
        <5> HIDE DEF rest
        <5> QED BY <2>3, <3>1, <4>1, MinOf
      <4> QED BY <4>2
    <3>3. /\ Goto(p, "reset", k) /\ access' = access
          /\ IF k = p THEN wire' = wire /\ post_sent' = [post_sent EXCEPT ![p] = @ \ {p}]
             ELSE Send(p, k, [kind |-> "complete"]) /\ post_sent' = post_sent
      BY <1>3, <2>3, <3>1 DEF CompleteSend, SendComplete
    <3> QED BY <1>3, <3>2, <3>3
  <2> QED BY <2>2, <2>3
<1>4. CASE Program(p) /\ ~PostSend(p) /\ ~PostMark(p) /\ ~CompleteSend(p) /\ ~CompleteReset(p) /\ ~WinWait(p)
  <2>1. Others(p) /\ UNCHANGED <<exposed, post_sent, post_received>> /\ (~Start(p) => access' = access)
    BY <1>1, <1>4, ProgramPlaces, ProgramLeaves
  <2>2. \E K, k : Traffic(p, K, k) /\ {"post", "complete"} \cap (K \cup k) = {}
    <3>1. \/ APut(p) \/ AGet(p) \/ LockOwn(p) \/ LockOther(p) \/ FenceSend(p)
          \/ WaitOne(p) \/ WaitHead(p) \/ LockReturn(p) \/ FenceFlag(p) \/ Start(p)
      BY <1>4 DEF Program
    <3>2. \/ Traffic(p, {"put"}, {}) \/ Traffic(p, {"get"}, {}) \/ Traffic(p, {"grant"}, {"lock"})
          \/ Traffic(p, {"lock"}, {}) \/ Traffic(p, {"flag"}, {}) \/ UNCHANGED wire
      BY <3>1, ProgramTraffic
    <3>3. /\ {"post", "complete"} \cap ({"put"} \cup {}) = {}
          /\ {"post", "complete"} \cap ({"get"} \cup {}) = {}
          /\ {"post", "complete"} \cap ({"grant"} \cup {"lock"}) = {}
          /\ {"post", "complete"} \cap ({"lock"} \cup {}) = {}
          /\ {"post", "complete"} \cap ({"flag"} \cup {}) = {}
      OBVIOUS
    <3> QED BY <1>t, <3>2, <3>3
  <2>3. todo[p] # << >> /\ (Call(p).op \notin {"post", "complete"} \/ WaitHead(p))
    BY <1>4, CallOps DEF Program
  <2>4. WaitHead(p) => pc' = pc /\ todo' = todo /\ ~Start(p)
    BY CallOps DEF WaitHead
  <2>5. ~WaitHead(p) => pc[p].at \notin {"mark", "reset"}
    BY <1>1, <2>3 DEF Place, Doing
  <2>6. ~WaitHead(p) => pc' = pc \/ pc'[p].at \notin {"mark", "reset"}
    <3>1. Return(p) => pc'[p].at = "run"
      BY <1>1, Returns
    <3>2. ASSUME NEW at \in {"granted", "send", "flags"}, NEW i \in Nat, Goto(p, at, i) PROVE pc'[p].at = at
      <4>1. at \in Ats
        BY <3>2 DEF Ats
      <4> QED BY <1>1, <3>2, <4>1, Goes
    <3>3. ASSUME Within(p), ~WaitHead(p) PROVE pc' = pc \/ pc'[p].at \notin {"mark", "reset"}
      <4>1. ~Doing(p, "complete")
        BY <2>3, <3>3 DEF Doing
      <4>2. 0 \in Nat
        OBVIOUS
      <4> QED BY <3>2, <3>3, <4>1, <4>2 DEF Within
    <3> QED BY <1>1, <1>4, <3>1, <3>3, Steps
  <2>7. CASE Start(p)
    <3>1. access' = [access EXCEPT ![p] = Call(p).group] /\ Call(p).group \subseteq post_received[p] /\ Return(p)
      BY <2>7 DEF Start
    <3>2. access'[p] = Call(p).group /\ \A a \in Proc \ {p} : access'[a] = access[a]
      BY <1>1, <3>1
    <3>3. pc'[p].at = "run"
      BY <1>1, <3>1, Returns
    <3> QED BY <2>1, <2>2, <2>4, <2>5, <2>7, <3>1, <3>2, <3>3 DEF Plain
  <2>8. CASE ~Start(p)
    <3>1. todo' = todo \/ ~Doing(p, "complete")
      BY <2>3, <2>4 DEF Doing
    <3>2. pc' = pc \/ (pc[p].at \notin {"mark", "reset"} /\ pc'[p].at \notin {"mark", "reset"})
      BY <2>4, <2>5, <2>6
    <3> QED BY <2>1, <2>2, <2>8, <3>1, <3>2 DEF Plain
  <2> QED BY <2>7, <2>8
<1> QED BY <1>2, <1>3, <1>4

\* What a process knows of posts and what is exposed stay when nothing of them changes.
LEMMA ReceivedStays ==
  ASSUME NEW a, NEW b, post_received'[a] = post_received[a],
         \/ pc'[a] = pc[a]
         \/ pc[a].at # "reset" /\ pc'[a].at # "reset"
  PROVE  Received(a, b)' <=> Received(a, b)
BY DEF Received

\* A window stays exposed.
LEMMA ExposingStays ==
  ASSUME NEW a, NEW b, exposed[b] \subseteq exposed'[b], a \in post_sent[b] => a \in post_sent'[b],
         \/ pc'[b] = pc[b]
         \/ pc[b].at # "mark"
  PROVE  Exposing(b, a) => Exposing(b, a)'
BY DEF Exposing

\* Nothing new of an epoch in the messages.
LEMMA EpochStays ==
  ASSUME LockTypes, NEW a \in Proc, NEW b \in Proc, Epoch(a, b),
         NEW p, NEW K, NEW k, Traffic(p, K, k), {"post", "complete"} \cap K = {},
         Received(a, b)' => Received(a, b), Exposing(b, a) => Exposing(b, a)'
  PROVE  Epoch(a, b)'
<1>1. /\ OneOf(wire[b][a], "post") /\ OneOf(wire[a][b], "complete")
  BY DEF Epoch, EpochIs, PostAt, CompleteAt, OneOf
<1>2. ASSUME NEW c \in Proc, NEW d \in Proc, NEW kind, kind \in {"post", "complete"}, OneOf(wire[c][d], kind)
      PROVE  OneOf(wire'[c][d], kind) /\ (Places(wire'[c][d], kind) # {} => Places(wire[c][d], kind) # {})
  <2>1. IsSeq(wire[c][d])
    BY DEF LockTypes
  <2>2. \/ wire'[c][d] = wire[c][d] \/ Takes(wire[c][d], wire'[c][d])
        \/ \E m : Adds(wire[c][d], wire'[c][d], m) /\ m.kind # kind
    <3>1. kind \notin K
      BY <1>2
    <3> QED BY <3>1, Traffics
  <2> QED BY <1>2, <2>1, <2>2, OneStays
<1>3. /\ OneOf(wire'[b][a], "post") /\ OneOf(wire'[a][b], "complete")
      /\ PostAt(a, b)' # {} => PostAt(a, b) # {}
      /\ CompleteAt(a, b)' # {} => CompleteAt(a, b) # {}
  BY <1>1, <1>2 DEF PostAt, CompleteAt
<1>4. PICK P, C, r, x : P = PostAt(a, b) /\ C = CompleteAt(a, b) /\ r = Received(a, b) /\ x = Exposing(b, a)
  OBVIOUS
<1>5. PICK PP, CC, rr, xx : PP = PostAt(a, b)' /\ CC = CompleteAt(a, b)' /\ rr = Received(a, b)' /\ xx = Exposing(b, a)'
  OBVIOUS
<1>6. EpochIs(P, C, r, x)
  BY <1>4 DEF Epoch
<1>7. (\A i, j \in PP : i = j) /\ (\A i, j \in CC : i = j)
  BY <1>3, <1>5 DEF OneOf, PostAt, CompleteAt
<1>8. (PP # {} => P # {}) /\ (CC # {} => C # {}) /\ (rr => r) /\ (x => xx)
  BY <1>3, <1>4, <1>5
<1>9. EpochIs(PP, CC, rr, xx)
  BY <1>6, <1>7, <1>8 DEF EpochIs
<1> QED BY <1>5, <1>9 DEF Epoch

\* The calls that have nothing to do with epochs.
LEMMA PlainEpochs ==
  ASSUME LockTypes, FlushInv, NEW p \in Proc, Plain(p), NEW a \in Proc, NEW b \in Proc, a # b
  PROVE  /\ Received(a, b)' <=> Received(a, b)
         /\ Epoch(a, b)' /\ Access(a, b)'
<1>1. Epoch(a, b) /\ Access(a, b)
  BY DEF FlushInv
<1>2. Received(a, b)' <=> Received(a, b)
  <2>1. pc'[a] = pc[a] \/ (pc[a].at # "reset" /\ pc'[a].at # "reset")
    BY DEF Plain, Others
  <2> QED BY <2>1, ReceivedStays DEF Plain
<1>3. Exposing(b, a) => Exposing(b, a)'
  <2>1. pc'[b] = pc[b] \/ pc[b].at # "mark"
    BY DEF Plain, Others
  <2> QED BY <2>1, ExposingStays DEF Plain
<1>4. Epoch(a, b)'
  <2>1. PICK K, k : Traffic(p, K, k) /\ {"post", "complete"} \cap (K \cup k) = {}
    BY DEF Plain
  <2>2. {"post", "complete"} \cap K = {}
    BY <2>1
  <2> QED BY <1>1, <1>2, <1>3, <2>1, <2>2, EpochStays
<1>5. Access(a, b)'
  <2>1. CASE a # p
    <3>1. Doing(a, "complete")' <=> Doing(a, "complete")
      BY <2>1 DEF Plain, Others, Doing, Call
    <3>2. access'[a] = access[a]
      BY <2>1 DEF Plain
    <3> QED BY <1>1, <1>2, <3>1, <3>2 DEF Access
  <2>2. CASE a = p
    <3>1. CASE todo' = todo /\ access' = access
      BY <1>1, <1>2, <3>1 DEF Access, Doing, Call
    <3>2. CASE ~Doing(p, "complete") /\ access' = access
      BY <1>1, <1>2, <2>2, <3>2 DEF Access
    <3>3. CASE access'[p] = {}
      BY <2>2, <3>3 DEF Access
    <3>4. CASE access'[p] \subseteq post_received[p] /\ pc'[p].at = "run"
      BY <2>2, <3>4 DEF Access, Received, Plain
    <3> QED BY <3>1, <3>2, <3>3, <3>4 DEF Plain
  <2> QED BY <2>1, <2>2
<1> QED BY <1>2, <1>4, <1>5

\* Nothing of the epoch when there is nothing of it anywhere.
LEMMA NoEpoch ==
  ASSUME NEW a, NEW b, PostAt(a, b)' = {}, CompleteAt(a, b)' = {}, ~Received(a, b)'
  PROVE  Epoch(a, b)'
BY DEF Epoch, EpochIs

\* A post is sent: the window has not been exposed to that process before.
LEMMA PostEpochs ==
  ASSUME LockTypes, FlushInv, NEW p \in Proc, PostSend(p), NEW k \in Proc, k >= pc[p].i, Goto(p, "mark", k),
         exposed' = [exposed EXCEPT ![p] = @ \cup {k}],
         IF k = p THEN wire' = wire /\ post_received' = [post_received EXCEPT ![p] = @ \cup {p}]
         ELSE Send(p, k, [kind |-> "post"]) /\ post_received' = post_received,
         NEW a \in Proc, NEW b \in Proc, a # b
  PROVE  /\ Received(a, b)' <=> Received(a, b)
         /\ Epoch(a, b)' /\ Access(a, b)'
<1>1. Epoch(a, b) /\ Access(a, b) /\ FlushTypes /\ Place(p) /\ Posts(p)
  BY DEF FlushInv
<1>2. /\ pc[p].at = "run" /\ Doing(p, "post") /\ post_sent' = post_sent /\ access' = access
      /\ Proc \subseteq Nat /\ pc[p].i \in Nat
  <2>1. pc[p].at = "run" /\ post_sent' = post_sent /\ access' = access
    BY DEF PostSend, At
  <2>2. Doing(p, "post")
    BY CallOps DEF Doing
  <2>3. Proc \subseteq Nat
    BY TcpWinAssumption DEF Proc
  <2>4. pc[p].i \in Nat
    BY <1>1 DEF FlushTypes
  <2> QED BY <2>1, <2>2, <2>3, <2>4
<1>3. Others(p) /\ pc'[p].at = "mark" /\ pc'[p].i = k /\ todo' = todo
  <2>1. "mark" \in Ats /\ k \in Nat
    BY <1>2 DEF Ats
  <2> QED BY <1>1, <2>1, Goes
<1>4. Received(a, b)' <=> Received(a, b)
  <2>1. (b \in post_received'[a]) <=> (b \in post_received[a])
    <3>1. post_received \in [Proc -> SUBSET Proc]
      BY <1>1 DEF FlushTypes
    <3> QED BY <3>1
  <2>2. pc'[a] = pc[a] \/ (a = p /\ pc[a].at # "reset" /\ pc'[a].at # "reset")
    BY <1>2, <1>3 DEF Others
  <2> QED BY <2>1, <2>2 DEF Received
<1>5. exposed'[p] = exposed[p] \cup {k} /\ \A c \in Proc \ {p} : exposed'[c] = exposed[c]
  BY <1>1 DEF FlushTypes
<1>6. Exposing(b, a) => Exposing(b, a)'
  <2>1. exposed[b] \subseteq exposed'[b]
    BY <1>5
  <2>2. pc'[b] = pc[b] \/ pc[b].at # "mark"
    BY <1>2, <1>3 DEF Others
  <2> QED BY <1>2, <2>1, <2>2, ExposingStays
<1>7. Access(a, b)'
  BY <1>1, <1>2, <1>3, <1>4 DEF Access, Doing, Call
<1>8. Epoch(a, b)'
  <2>1. CASE k = p
    BY <1>1, <1>4, <1>6, <2>1, EpochStays, NoTraffic
  <2>2. CASE k # p
    <3>1. wire = [c \in Proc |-> [d \in Proc |-> wire[c][d]]]
      BY DEF LockTypes
    <3>2. PICK m : m = [kind |-> "post"]
      OBVIOUS
    <3>3. wire' = [wire EXCEPT ![p][k] = Append(@, m)] /\ m.kind = "post"
      BY <2>2, <3>2 DEF Send
    <3>4. CASE b = p /\ a = k
      <4>1. a \notin exposed[b]
        <5>1. a \in exposed[b] => a < pc[p].i
          BY <1>1, <1>2, <3>4 DEF Posts
        <5> QED BY <1>2, <3>4, <5>1
      <4>2. PostAt(a, b) = {} /\ CompleteAt(a, b) = {} /\ ~Received(a, b)
        BY <1>1, <4>1 DEF Epoch, EpochIs, Exposing
      <4>3. wire'[a][b] = wire[a][b] /\ wire'[b][a] = Append(wire[b][a], m) /\ IsSeq(wire[b][a])
        BY <2>2, <3>1, <3>3, <3>4 DEF LockTypes
      <4>4. CompleteAt(a, b)' = {} /\ \A i, j \in PostAt(a, b)' : i = j
        BY <3>3, <4>2, <4>3, OneSent DEF PostAt, CompleteAt, OneOf
      <4>5. Exposing(b, a)'
        BY <1>3, <1>5, <3>4 DEF Exposing
      <4> QED BY <1>4, <4>2, <4>4, <4>5 DEF Epoch, EpochIs
    <3>5. CASE ~(b = p /\ a = k)
      <4>1. wire'[b][a] = wire[b][a]
        BY <3>1, <3>3, <3>5
      <4>2. wire'[a][b] = wire[a][b] \/ wire'[a][b] = Append(wire[a][b], m)
        BY <3>1, <3>3
      <4>3. OneOf(wire[a][b], "complete") /\ IsSeq(wire[a][b])
        BY <1>1 DEF Epoch, EpochIs, CompleteAt, OneOf, LockTypes
      <4>4. OneOf(wire'[a][b], "complete") /\ (CompleteAt(a, b)' # {} => CompleteAt(a, b) # {})
        BY <3>3, <4>2, <4>3, OneStays DEF Adds, CompleteAt
      <4>5. PostAt(a, b)' = PostAt(a, b)
        BY <4>1 DEF PostAt
      <4>6. \A i, j \in CompleteAt(a, b)' : i = j
        BY <4>4 DEF OneOf, CompleteAt
      <4> QED BY <1>1, <1>4, <1>6, <4>4, <4>5, <4>6 DEF Epoch, EpochIs
    <3> QED BY <3>4, <3>5
  <2> QED BY <2>1, <2>2
<1> QED BY <1>4, <1>7, <1>8

\* As long as a process has not completed an epoch it knows of it; a complete that it sends
\* goes the way of the puts.
Keeps(a, b) ==
  Received(a, b) => \/ Received(a, b)'
                    \/ \E m : m.kind = "complete" /\ Adds(wire[a][b], wire'[a][b], m)

\* The post is noted.
LEMMA MarkEpochs ==
  ASSUME LockTypes, FlushInv, NEW p \in Proc, PostMark(p), NEW a \in Proc, NEW b \in Proc, a # b
  PROVE  Keeps(a, b) /\ Epoch(a, b)' /\ Access(a, b)'
<1>1. Epoch(a, b) /\ Access(a, b) /\ FlushTypes /\ Place(p)
  BY DEF FlushInv
<1>2. PICK i : i = pc[p].i
  OBVIOUS
<1>3. /\ pc[p].at = "mark" /\ wire' = wire /\ exposed' = exposed /\ access' = access
      /\ post_received' = post_received
      /\ post_sent' = [post_sent EXCEPT ![p] = @ \cup {i}] /\ Goto(p, "run", i + 1)
  BY <1>2 DEF PostMark, At
<1>4. post_sent \in [Proc -> SUBSET Proc]
  BY <1>1 DEF FlushTypes
<1>5. Others(p) /\ pc'[p].at = "run" /\ todo' = todo
  <2>1. "run" \in Ats
    BY DEF Ats
  <2>2. i + 1 \in Nat
    <3>1. i \in Nat
      BY <1>1, <1>2 DEF FlushTypes
    <3> QED BY <3>1
  <2> QED BY <1>1, <1>3, <2>1, <2>2, Goes
<1>6. Received(a, b)' <=> Received(a, b)
  <2>1. pc'[a] = pc[a] \/ (pc[a].at # "reset" /\ pc'[a].at # "reset")
    BY <1>3, <1>5 DEF Others
  <2> QED BY <1>3, <2>1, ReceivedStays
<1>7. Exposing(b, a) => Exposing(b, a)'
  <2>1. CASE b = p
    <3>1. post_sent'[b] = post_sent[b] \cup {i}
      BY <1>3, <1>4, <2>1
    <3> QED BY <1>2, <1>3, <2>1, <3>1 DEF Exposing
  <2>2. CASE b # p
    <3>1. post_sent'[b] = post_sent[b] /\ pc'[b] = pc[b]
      BY <1>3, <1>4, <1>5, <2>2 DEF Others
    <3> QED BY <1>3, <3>1 DEF Exposing
  <2> QED BY <2>1, <2>2
<1>8. Epoch(a, b)'
  <2>1. Traffic(p, {}, {}) /\ {"post", "complete"} \cap {} = {}
    BY <1>3, NoTraffic
  <2> QED BY <1>1, <1>6, <1>7, <2>1, EpochStays
<1>9. Access(a, b)'
  BY <1>1, <1>3, <1>5, <1>6 DEF Access, Doing, Call
<1> QED BY <1>6, <1>8, <1>9 DEF Keeps

\* A complete is noted.
LEMMA ResetEpochs ==
  ASSUME LockTypes, FlushInv, NEW p \in Proc, CompleteReset(p), NEW a \in Proc, NEW b \in Proc, a # b
  PROVE  Keeps(a, b) /\ Epoch(a, b)' /\ Access(a, b)'
<1>1. Epoch(a, b) /\ Access(a, b) /\ FlushTypes /\ Place(p)
  BY DEF FlushInv
<1>2. PICK i : i = pc[p].i
  OBVIOUS
<1>3. /\ pc[p].at = "reset" /\ wire' = wire /\ exposed' = exposed /\ access' = access
      /\ post_sent' = post_sent
      /\ post_received' = [post_received EXCEPT ![p] = @ \ {i}] /\ Goto(p, "run", i + 1)
  BY <1>2 DEF CompleteReset, At
<1>4. post_received \in [Proc -> SUBSET Proc]
  BY <1>1 DEF FlushTypes
<1>5. Others(p) /\ pc'[p].at = "run" /\ todo' = todo
  <2>1. "run" \in Ats
    BY DEF Ats
  <2>2. i + 1 \in Nat
    <3>1. i \in Nat
      BY <1>1, <1>2 DEF FlushTypes
    <3> QED BY <3>1
  <2> QED BY <1>1, <1>3, <2>1, <2>2, Goes
<1>6. Received(a, b)' <=> Received(a, b)
  <2>1. CASE a = p
    <3>1. post_received'[a] = post_received[a] \ {i}
      BY <1>3, <1>4, <2>1
    <3> QED BY <1>2, <1>3, <1>5, <2>1, <3>1 DEF Received
  <2>2. CASE a # p
    <3>1. post_received'[a] = post_received[a] /\ pc'[a] = pc[a]
      BY <1>3, <1>4, <1>5, <2>2 DEF Others
    <3> QED BY <3>1, ReceivedStays
  <2> QED BY <2>1, <2>2
<1>7. Exposing(b, a) => Exposing(b, a)'
  <2>1. pc'[b] = pc[b] \/ pc[b].at # "mark"
    BY <1>3, <1>5 DEF Others
  <2> QED BY <1>3, <2>1, ExposingStays
<1>8. Epoch(a, b)'
  <2>1. Traffic(p, {}, {}) /\ {"post", "complete"} \cap {} = {}
    BY <1>3, NoTraffic
  <2> QED BY <1>1, <1>6, <1>7, <2>1, EpochStays
<1>9. Access(a, b)'
  BY <1>1, <1>3, <1>5, <1>6 DEF Access, Doing, Call
<1> QED BY <1>6, <1>8, <1>9 DEF Keeps

\* Who has waited for all completes has nothing of an epoch left.
LEMMA WaitEpochs ==
  ASSUME LockTypes, FlushInv, NEW p \in Proc, WinWait(p), NEW a \in Proc, NEW b \in Proc, a # b
  PROVE  Keeps(a, b) /\ Epoch(a, b)' /\ Access(a, b)'
<1>1. Epoch(a, b) /\ Access(a, b) /\ FlushTypes /\ Place(p)
  BY DEF FlushInv
<1>2. /\ wire' = wire /\ access' = access /\ post_sent' = post_sent /\ post_received' = post_received
      /\ post_sent[p] = {} /\ exposed' = [exposed EXCEPT ![p] = {}] /\ Return(p)
  BY DEF WinWait
<1>3. ~Doing(p, "complete") /\ pc[p].at \notin {"mark", "reset"}
  <2>1. todo[p] # << >> /\ Call(p).op = "win_wait"
    BY CallOps
  <2> QED BY <1>1, <2>1 DEF Place, Doing
<1>4. Others(p) /\ pc'[p].at = "run"
  BY <1>1, <1>2, Returns
<1>5. Received(a, b)' <=> Received(a, b)
  <2>1. pc'[a] = pc[a] \/ (pc[a].at # "reset" /\ pc'[a].at # "reset")
    BY <1>3, <1>4 DEF Others
  <2> QED BY <1>2, <2>1, ReceivedStays
<1>6. CASE b = p
  <2>1. ~Exposing(b, a)
    BY <1>2, <1>3, <1>6 DEF Exposing
  <2>2. PostAt(a, b) = {} /\ CompleteAt(a, b) = {} /\ ~Received(a, b)
    BY <1>1, <2>1 DEF Epoch, EpochIs
  <2>3. PostAt(a, b)' = {} /\ CompleteAt(a, b)' = {}
    BY <1>2, <2>2 DEF PostAt, CompleteAt
  <2>4. ~Received(a, b)'
    BY <1>5, <2>2
  <2>5. Epoch(a, b)'
    BY <2>3, <2>4, NoEpoch
  <2>6. Access(a, b)'
    <3>1. Doing(a, "complete")' <=> Doing(a, "complete")
      BY <1>4, <1>6 DEF Others, Doing, Call
    <3> QED BY <1>1, <1>2, <1>5, <3>1 DEF Access
  <2> QED BY <1>5, <2>5, <2>6 DEF Keeps
<1>7. CASE b # p
  <2>1. Exposing(b, a) => Exposing(b, a)'
    <3>1. exposed'[b] = exposed[b]
      BY <1>1, <1>2, <1>7 DEF FlushTypes
    <3>2. pc'[b] = pc[b]
      BY <1>4, <1>7 DEF Others
    <3> QED BY <1>2, <3>1, <3>2, ExposingStays
  <2>2. Epoch(a, b)'
    BY <1>1, <1>2, <1>5, <2>1, EpochStays, NoTraffic
  <2>3. Access(a, b)'
    <3>1. CASE a = p
      BY <1>1, <1>2, <1>3, <1>5, <3>1 DEF Access
    <3>2. CASE a # p
      <4>1. Doing(a, "complete")' <=> Doing(a, "complete")
        BY <1>4, <3>2 DEF Others, Doing, Call
      <4> QED BY <1>1, <1>2, <1>5, <4>1 DEF Access
    <3> QED BY <3>1, <3>2
  <2> QED BY <1>5, <2>2, <2>3 DEF Keeps
<1> QED BY <1>6, <1>7

\* A complete is sent: who knows of the post has no complete on its way.
LEMMA CompleteEpochs ==
  ASSUME LockTypes, FlushInv, NEW p \in Proc, CompleteSend(p), NEW k \in post_received[p],
         Goto(p, "reset", k), access' = access,
         IF k = p THEN wire' = wire /\ post_sent' = [post_sent EXCEPT ![p] = @ \ {p}]
         ELSE Send(p, k, [kind |-> "complete"]) /\ post_sent' = post_sent,
         NEW a \in Proc, NEW b \in Proc, a # b
  PROVE  Keeps(a, b) /\ Epoch(a, b)' /\ Access(a, b)'
<1>1. Epoch(a, b) /\ Access(a, b) /\ FlushTypes /\ Place(p)
  BY DEF FlushInv
<1>2. pc[p].at = "run" /\ Doing(p, "complete") /\ post_received' = post_received /\ exposed' = exposed
  <2>1. pc[p].at = "run" /\ post_received' = post_received /\ exposed' = exposed
    BY DEF CompleteSend, At
  <2>2. Doing(p, "complete")
    BY CallOps DEF Doing
  <2> QED BY <2>1, <2>2
<1>3. k \in Proc /\ post_sent \in [Proc -> SUBSET Proc]
  BY <1>1 DEF FlushTypes
<1>4. Others(p) /\ pc'[p].at = "reset" /\ pc'[p].i = k /\ todo' = todo
  <2>1. "reset" \in Ats
    BY DEF Ats
  <2>2. k \in Nat
    BY <1>3, TcpWinAssumption DEF Proc
  <2> QED BY <1>1, <2>1, <2>2, Goes
<1>5. Received(a, b)' <=> Received(a, b) /\ ~(a = p /\ b = k)
  <2>1. CASE a = p
    BY <1>2, <1>4, <2>1 DEF Received
  <2>2. CASE a # p
    <3>1. pc'[a] = pc[a]
      BY <1>4, <2>2 DEF Others
    <3> QED BY <1>2, <2>2, <3>1 DEF Received
  <2> QED BY <2>1, <2>2
<1>6. Exposing(b, a) => Exposing(b, a)'
  <2>1. pc'[b] = pc[b] \/ pc[b].at # "mark"
    BY <1>2, <1>4 DEF Others
  <2>2. a \in post_sent[b] => a \in post_sent'[b]
    BY <1>3
  <2> QED BY <1>2, <2>1, <2>2, ExposingStays
<1>7. Access(a, b)'
  <2>1. Doing(a, "complete")' <=> Doing(a, "complete")
    BY <1>4 DEF Doing, Call
  <2> QED BY <1>1, <1>2, <1>5, <2>1 DEF Access
<1>8. CASE k = p
  <2>1. Traffic(p, {}, {}) /\ {"post", "complete"} \cap {} = {}
    BY <1>8, NoTraffic
  <2>2. Received(a, b)' <=> Received(a, b)
    BY <1>5, <1>8
  <2>3. Epoch(a, b)'
    BY <1>1, <1>6, <2>1, <2>2, EpochStays
  <2> QED BY <1>7, <2>2, <2>3 DEF Keeps
<1>9. CASE k # p
  <2>1. wire = [c \in Proc |-> [d \in Proc |-> wire[c][d]]]
    BY DEF LockTypes
  <2>2. PICK m : m = [kind |-> "complete"]
    OBVIOUS
  <2>3. wire' = [wire EXCEPT ![p][k] = Append(@, m)] /\ m.kind = "complete" /\ post_sent' = post_sent
    BY <1>9, <2>2 DEF Send
  <2>4. CASE a = p /\ b = k
    <3>1. Received(a, b)
      BY <1>2, <2>4 DEF Received
    <3>2. PostAt(a, b) = {} /\ CompleteAt(a, b) = {} /\ Exposing(b, a)
      BY <1>1, <3>1 DEF Epoch, EpochIs
    <3>3. wire'[a][b] = Append(wire[a][b], m) /\ wire'[b][a] = wire[b][a] /\ IsSeq(wire[a][b])
      BY <1>3, <2>1, <2>3, <2>4 DEF LockTypes
    <3>4. PostAt(a, b)' = {} /\ \A i, j \in CompleteAt(a, b)' : i = j
      BY <2>3, <3>2, <3>3, OneSent DEF PostAt, CompleteAt, OneOf
    <3>5. Exposing(b, a)' /\ ~Received(a, b)'
      BY <1>5, <1>6, <2>4, <3>2
    <3>6. Epoch(a, b)'
      BY <3>4, <3>5 DEF Epoch, EpochIs
    <3>7. Adds(wire[a][b], wire'[a][b], m)
      BY <3>3 DEF Adds
    <3> QED BY <1>7, <2>3, <3>6, <3>7 DEF Keeps
  <2>5. CASE ~(a = p /\ b = k)
    <3>1. wire'[a][b] = wire[a][b]
      BY <2>1, <2>3, <2>5
    <3>2. wire'[b][a] = wire[b][a] \/ wire'[b][a] = Append(wire[b][a], m)
      BY <2>1, <2>3
    <3>3. OneOf(wire[b][a], "post") /\ IsSeq(wire[b][a])
      BY <1>1 DEF Epoch, EpochIs, PostAt, OneOf, LockTypes
    <3>4. OneOf(wire'[b][a], "post") /\ (PostAt(a, b)' # {} => PostAt(a, b) # {})
      BY <2>3, <3>2, <3>3, OneStays DEF Adds, PostAt
    <3>5. CompleteAt(a, b)' = CompleteAt(a, b)
      BY <3>1 DEF CompleteAt
    <3>6. \A i, j \in PostAt(a, b)' : i = j
      BY <3>4 DEF OneOf, PostAt
    <3>7. Received(a, b)' <=> Received(a, b)
      BY <1>5, <2>5
    <3>8. Epoch(a, b)'
      BY <1>1, <1>6, <3>4, <3>5, <3>6, <3>7 DEF Epoch, EpochIs
    <3> QED BY <1>7, <3>7, <3>8 DEF Keeps
  <2> QED BY <2>4, <2>5
<1> QED BY <1>8, <1>9

\* A post arrives.
LEMMA RecvPostEpochs ==
  ASSUME LockTypes, FlushInv, NEW p \in Proc, NEW q \in Proc \ {p}, RecvPost(q, p),
         NEW a \in Proc, NEW b \in Proc, a # b
  PROVE  Keeps(a, b) /\ Epoch(a, b)' /\ Access(a, b)'
<1>1. Epoch(a, b) /\ Access(a, b) /\ FlushTypes
  BY DEF FlushInv
<1>2. UNCHANGED <<todo, pc, access, exposed, post_sent>>
  BY HandleLeaves DEF RecvPost, RecvComplete
<1>3. /\ post_received' = [post_received EXCEPT ![p] = @ \cup {q}]
      /\ wire[q][p] # << >> /\ Head(wire[q][p]).kind = "post" /\ wire' = [wire EXCEPT ![q][p] = Tail(@)]
  BY DEF RecvPost, Comes, Consume
<1>4. Exposing(b, a)' <=> Exposing(b, a)
  BY <1>2 DEF Exposing
<1>5. post_received \in [Proc -> SUBSET Proc]
  BY <1>1 DEF FlushTypes
<1>6. Received(a, b) => Received(a, b)'
  BY <1>2, <1>3, <1>5 DEF Received
<1>7. Access(a, b)'
  BY <1>1, <1>2, <1>6 DEF Access, Doing, Call
<1>8. CASE a = p /\ b = q
  <2>1. wire = [c \in Proc |-> [d \in Proc |-> wire[c][d]]] /\ IsSeq(wire[b][a])
    BY DEF LockTypes
  <2>2. wire'[b][a] = Tail(wire[b][a]) /\ wire'[a][b] = wire[a][b]
    BY <1>3, <1>8, <2>1
  <2>3. OneOf(wire[b][a], "post")
    BY <1>1 DEF Epoch, EpochIs, PostAt, OneOf
  <2>4. PostAt(a, b) # {} /\ PostAt(a, b)' = {}
    BY <1>3, <1>8, <2>1, <2>2, <2>3, OneTaken DEF PostAt
  <2>5. CompleteAt(a, b)' = {} /\ Exposing(b, a)'
    BY <1>1, <1>4, <2>2, <2>4 DEF Epoch, EpochIs, CompleteAt
  <2>6. Epoch(a, b)'
    BY <2>4, <2>5 DEF Epoch, EpochIs
  <2> QED BY <1>6, <1>7, <2>6 DEF Keeps
<1>9. CASE ~(a = p /\ b = q)
  <2>1. Received(a, b)' <=> Received(a, b)
    <3>1. b \in post_received'[a] <=> b \in post_received[a]
      BY <1>3, <1>5, <1>9
    <3> QED BY <1>2, <3>1 DEF Received
  <2>2. Traffic(p, {}, {"post"}) /\ {"post", "complete"} \cap {} = {}
    BY HandleTraffic
  <2>3. Epoch(a, b)'
    BY <1>1, <1>4, <2>1, <2>2, EpochStays
  <2> QED BY <1>7, <2>1, <2>3 DEF Keeps
<1> QED BY <1>8, <1>9

\* A complete arrives.
LEMMA RecvCompleteEpochs ==
  ASSUME LockTypes, FlushInv, NEW p \in Proc, NEW q \in Proc \ {p}, RecvComplete(q, p),
         NEW a \in Proc, NEW b \in Proc, a # b
  PROVE  Keeps(a, b) /\ Epoch(a, b)' /\ Access(a, b)'
<1>1. Epoch(a, b) /\ Access(a, b) /\ FlushTypes
  BY DEF FlushInv
<1>2. UNCHANGED <<todo, pc, access, exposed, post_received>>
  BY HandleLeaves DEF RecvPost, RecvComplete
<1>3. /\ post_sent' = [post_sent EXCEPT ![p] = @ \ {q}]
      /\ wire[q][p] # << >> /\ Head(wire[q][p]).kind = "complete" /\ wire' = [wire EXCEPT ![q][p] = Tail(@)]
  BY DEF RecvComplete, Comes, Consume
<1>4. Received(a, b)' <=> Received(a, b)
  BY <1>2 DEF Received
<1>5. post_sent \in [Proc -> SUBSET Proc]
  BY <1>1 DEF FlushTypes
<1>7. Access(a, b)'
  BY <1>1, <1>2, <1>4 DEF Access, Doing, Call
<1>8. CASE a = q /\ b = p
  <2>1. wire = [c \in Proc |-> [d \in Proc |-> wire[c][d]]] /\ IsSeq(wire[a][b])
    BY DEF LockTypes
  <2>2. wire'[a][b] = Tail(wire[a][b]) /\ wire'[b][a] = wire[b][a]
    BY <1>3, <1>8, <2>1
  <2>3. OneOf(wire[a][b], "complete")
    BY <1>1 DEF Epoch, EpochIs, CompleteAt, OneOf
  <2>4. CompleteAt(a, b) # {} /\ CompleteAt(a, b)' = {}
    BY <1>3, <1>8, <2>1, <2>2, <2>3, OneTaken DEF CompleteAt
  <2>5. PostAt(a, b)' = {} /\ ~Received(a, b)'
    BY <1>1, <1>4, <2>2, <2>4 DEF Epoch, EpochIs, PostAt
  <2>6. Epoch(a, b)'
    BY <2>4, <2>5, NoEpoch
  <2> QED BY <1>4, <1>7, <2>6 DEF Keeps
<1>9. CASE ~(a = q /\ b = p)
  <2>1. Exposing(b, a) => Exposing(b, a)'
    <3>1. a \in post_sent'[b] <=> a \in post_sent[b]
      BY <1>3, <1>5, <1>9
    <3> QED BY <1>2, <3>1 DEF Exposing
  <2>2. Traffic(p, {}, {"complete"}) /\ {"post", "complete"} \cap {} = {}
    BY HandleTraffic
  <2>3. Epoch(a, b)'
    BY <1>1, <1>4, <2>1, <2>2, EpochStays
  <2> QED BY <1>4, <1>7, <2>3 DEF Keeps
<1> QED BY <1>8, <1>9

\* The other messages.
LEMMA HandleEpochs ==
  ASSUME LockTypes, FlushInv, NEW p \in Proc, NEW q \in Proc \ {p},
         \/ RecvPut(q, p) \/ RecvFlag(q, p) \/ RecvGrant(q, p) \/ RecvGet(q, p)
         \/ RecvReply(q, p) \/ RecvLock(q, p),
         ~RecvPost(q, p), ~RecvComplete(q, p),
         NEW a \in Proc, NEW b \in Proc, a # b
  PROVE  Keeps(a, b) /\ Epoch(a, b)' /\ Access(a, b)'
<1>1. Epoch(a, b) /\ Access(a, b)
  BY DEF FlushInv
<1>2. UNCHANGED <<todo, pc, access, exposed, post_received, post_sent>>
  BY HandleLeaves
<1>3. (Received(a, b)' <=> Received(a, b)) /\ (Exposing(b, a)' <=> Exposing(b, a))
  BY <1>2 DEF Received, Exposing
<1>4. PICK K, k : Traffic(p, K, k) /\ {"post", "complete"} \cap K = {}
  <2>1. \/ Traffic(p, {}, {"put"}) \/ Traffic(p, {}, {"flag"}) \/ Traffic(p, {}, {"grant"})
        \/ Traffic(p, {"reply"}, {"get"}) \/ Traffic(p, {}, {"reply"}) \/ Traffic(p, {"grant"}, {"lock"})
    BY HandleTraffic
  <2>2. {"post", "complete"} \cap {} = {} /\ {"post", "complete"} \cap {"reply"} = {}
        /\ {"post", "complete"} \cap {"grant"} = {}
    OBVIOUS
  <2> QED BY <2>1, <2>2
<1>5. Epoch(a, b)'
  BY <1>1, <1>3, <1>4, EpochStays
<1>6. Access(a, b)'
  BY <1>1, <1>2, <1>3 DEF Access, Doing, Call
<1> QED BY <1>3, <1>5, <1>6 DEF Keeps

\* An epoch stays in one place.
LEMMA EpochNext ==
  ASSUME LockTypes, FlushInv, NEW p \in Proc, Handle(p) \/ Program(p)
  PROVE  \A a, b \in Proc : a # b => Keeps(a, b) /\ Epoch(a, b)' /\ Access(a, b)'
<1> SUFFICES ASSUME NEW a \in Proc, NEW b \in Proc, a # b
             PROVE  Keeps(a, b) /\ Epoch(a, b)' /\ Access(a, b)'
  OBVIOUS
<1>1. CASE Handle(p)
  <2>1. PICK q \in Proc \ {p} :
          \/ RecvPut(q, p) \/ RecvFlag(q, p) \/ RecvGrant(q, p) \/ RecvGet(q, p)
          \/ RecvReply(q, p) \/ RecvLock(q, p) \/ RecvPost(q, p) \/ RecvComplete(q, p)
    BY <1>1 DEF Handle
  <2>2. CASE RecvPost(q, p)
    BY <2>2, RecvPostEpochs
  <2>3. CASE RecvComplete(q, p)
    BY <2>3, RecvCompleteEpochs
  <2>4. CASE ~RecvPost(q, p) /\ ~RecvComplete(q, p)
    BY <2>1, <2>4, HandleEpochs
  <2> QED BY <2>2, <2>3, <2>4
<1>2. CASE Program(p)
  <2>1. CASE Plain(p)
    BY <2>1, PlainEpochs DEF Keeps
  <2>2. ASSUME PostSend(p),
               NEW k \in Call(p).group, k \in Proc, k >= pc[p].i, Goto(p, "mark", k),
               exposed' = [exposed EXCEPT ![p] = @ \cup {k}],
               IF k = p THEN wire' = wire /\ post_received' = [post_received EXCEPT ![p] = @ \cup {p}]
               ELSE Send(p, k, [kind |-> "post"]) /\ post_received' = post_received
        PROVE  Keeps(a, b) /\ Epoch(a, b)' /\ Access(a, b)'
    BY <2>2, PostEpochs DEF Keeps
  <2>3. ASSUME CompleteSend(p), NEW k \in post_received[p], Goto(p, "reset", k), access' = access,
               IF k = p THEN wire' = wire /\ post_sent' = [post_sent EXCEPT ![p] = @ \ {p}]
               ELSE Send(p, k, [kind |-> "complete"]) /\ post_sent' = post_sent
        PROVE  Keeps(a, b) /\ Epoch(a, b)' /\ Access(a, b)'
    BY <2>3, CompleteEpochs
  <2> QED BY <1>2, <2>1, <2>2, <2>3, EpochSteps, MarkEpochs, ResetEpochs, WaitEpochs
<1> QED BY <1>1, <1>2

\* The puts of an epoch are before its complete.
LEMMA StartNext ==
  ASSUME LockTypes, FlushInv, NEW p \in Proc, Handle(p) \/ Program(p), NEW K, NEW k, Traffic(p, K, k)
  PROVE  \A a, b \in Proc : a # b => StartPair(a, b)'
<1> SUFFICES ASSUME NEW a \in Proc, NEW b \in Proc, a # b PROVE StartPair(a, b)'
  OBVIOUS
<1>1. StartPair(a, b) /\ Access(a, b) /\ Keeps(a, b)
  BY EpochNext DEF FlushInv
<1>2. PICK s, t, r, rr : /\ s = wire[a][b] /\ t = wire'[a][b]
                         /\ r = Received(a, b) /\ rr = Received(a, b)'
  OBVIOUS
<1>3. StartStream(s, r) /\ IsSeq(s)
  BY <1>1, <1>2 DEF StartPair, StartStream, LockTypes
<1>4. ASSUME NEW m, m.kind = "complete", Adds(s, t, m) PROVE StartStream(t, rr)
  BY <1>3, <1>4, StartStreamNext
<1>5. ASSUME r => rr PROVE StartStream(t, rr)
  <2>1. ASSUME NEW m, PutFits(a, b, m), m.sync = "start" PROVE rr
    <3>1. b \in access[a] /\ ~Doing(a, "complete")
      BY <2>1 DEF PutFits, Doing
    <3> QED BY <1>1, <1>2, <1>5, <3>1 DEF Access
  <2>2. \/ t = s \/ Takes(s, t)
        \/ \E m : Adds(s, t, m) /\ (m.kind = "put" => (m.sync = "start" => rr))
    BY <1>2, <2>1, Traffics
  <2>3. CASE t = s \/ Takes(s, t)
    BY <1>3, <1>5, <2>3, StartStreamNext
  <2>4. ASSUME NEW m, Adds(s, t, m), m.kind = "put" => (m.sync = "start" => rr) PROVE StartStream(t, rr)
    <3>1. r => rr \/ m.kind = "complete"
      BY <1>5
    <3> QED BY <1>3, <2>4, <3>1, StartStreamNext
  <2> QED BY <2>2, <2>3, <2>4
<1>6. (r => rr) \/ \E m : m.kind = "complete" /\ Adds(s, t, m)
  BY <1>1, <1>2 DEF Keeps
<1>7. StartStream(t, rr)
  BY <1>4, <1>5, <1>6
<1> QED BY <1>2, <1>7 DEF StartPair, StartStream

-----------------------------------------------------------------------------
(***************************************************************************)
(* The theorem.                                                            *)
(***************************************************************************)

\* It holds at the start.
LEMMA InitFlush == Init => FlushInv
<1> SUFFICES ASSUME Init PROVE FlushInv
  OBVIOUS
<1>1. /\ pc = [p \in Proc |-> Run] /\ wire = [p \in Proc |-> [q \in Proc |-> << >>]]
      /\ procs = [p \in Proc |-> [q \in Proc |-> [i \in 0 .. 1 |-> FALSE]]]
      /\ fence_index = [p \in Proc |-> 0] /\ fences = [p \in Proc |-> 0]
      /\ post_sent = [p \in Proc |-> {}] /\ post_received = [p \in Proc |-> {}]
      /\ access = [p \in Proc |-> {}] /\ exposed = [p \in Proc |-> {}]
      /\ todo \in Programs
  BY DEF Init
<1>2. Run \in [at : Ats, i : Nat] /\ Run.at = "run" /\ Run.i = 0
  BY DEF Run, Ats
<1>3. FlushTypes
  <2>1. pc \in [Proc -> [at : Ats, i : Nat]]
    BY <1>1, <1>2
  <2>2. procs \in [Proc -> [Proc -> [0 .. 1 -> BOOLEAN]]]
    BY <1>1
  <2>3. /\ fence_index \in [Proc -> 0 .. 1] /\ fences \in [Proc -> Nat]
        /\ post_sent \in [Proc -> SUBSET Proc] /\ post_received \in [Proc -> SUBSET Proc]
        /\ access \in [Proc -> SUBSET Proc] /\ exposed \in [Proc -> SUBSET Proc]
    BY <1>1
  <2> QED BY <2>1, <2>2, <2>3 DEF FlushTypes
<1>4. ASSUME NEW p \in Proc PROVE Place(p) /\ Posts(p)
  <2>1. pc[p].at = "run" /\ pc[p].i = 0 /\ fence_index[p] = 0 /\ fences[p] = 0 /\ exposed[p] = {}
    BY <1>1, <1>2
  <2>2. Place(p)
    BY <2>1 DEF Place
  <2>3. PostsInTurn(todo[p])
    BY <1>1, PostsAssumption
  <2> QED BY <2>1, <2>2, <2>3 DEF Posts
<1>5. \A p, q \in Proc : wire[p][q] = << >>
  BY <1>1
<1>6. \A p, q \in Proc : \A kind : Places(wire[p][q], kind) = {}
  BY <1>5 DEF Places
<1>7. ASSUME NEW p \in Proc, NEW q \in Proc
      PROVE  PutsFit(p, q) /\ FencePair(p, q) /\ LockPair(p, q) /\ StartPair(p, q) /\ Epoch(p, q) /\ Access(p, q)
  <2>1. Raised(q, p) = {} /\ MetBy(q, p) = 0 /\ SentBy(p, q) = 0
    BY <1>1, <1>2 DEF Raised, MetBy, SentBy
  <2>2. \A x : ~Out(x, 0, 0) /\ Flags(wire[p][q], x) = {}
    <3>1. 0 .. 0 - 1 = {}
      OBVIOUS
    <3> QED BY <1>6, <3>1 DEF Out, Flags
  <2>3. FlagsAre(wire[p][q], {}, 0, 0)
    BY <1>6, <2>2 DEF FlagsAre
  <2>4. PutsAre(wire[p][q], 0, 0)
    BY <1>6 DEF PutsAre
  <2>5. LockPair(p, q) /\ StartPair(p, q)
    BY <1>6 DEF LockPair, StartPair
  <2>8. PutsFit(p, q)
    BY <1>6 DEF PutsFit
  <2>6. ~Received(p, q) /\ access[p] = {}
    BY <1>1 DEF Received
  <2>7. Epoch(p, q) /\ Access(p, q)
    BY <1>6, <2>6 DEF Epoch, EpochIs, PostAt, CompleteAt, Access
  <2> QED BY <2>1, <2>3, <2>4, <2>5, <2>7, <2>8 DEF FencePair
<1> QED BY <1>3, <1>4, <1>7 DEF FlushInv

\* Every step keeps it.
LEMMA NextFlush ==
  ASSUME IInv, FlushInv, Next
  PROVE  FlushInv'
<1>1. PICK p \in Proc : Handle(p) \/ Program(p)
  BY DEF Next
<1>2. LockTypes
  BY DEF IInv
<1>3. \E K, k : Traffic(p, K, k)
  <2>1. CASE Handle(p)
    BY <1>2, <2>1, HandleTraffic DEF Handle
  <2>2. CASE Program(p)
    BY <1>2, <2>2, ProgramTraffic, NoTraffic DEF Program
  <2> QED BY <1>1, <2>1, <2>2
<1>4. FlushTypes' /\ (\A a \in Proc : Place(a)') /\ (\A a \in Proc : Posts(a)')
  BY <1>1, <1>2, TypesNext, PlaceNext, PostsNext
<1>5. \A a, b \in Proc : PutsFit(a, b)'
  BY <1>2, <1>3, FitNext
<1>6. \A a, b \in Proc : a # b => FencePair(a, b)'
  BY <1>1, <1>2, FenceNext
<1>7. \A a, b \in Proc : a # b => LockPair(a, b)'
  BY <1>1, <1>3, LockNext
<1>8. \A a, b \in Proc : a # b => StartPair(a, b)'
  BY <1>1, <1>2, <1>3, StartNext
<1>9. \A a, b \in Proc : a # b => Epoch(a, b)' /\ Access(a, b)'
  BY <1>1, <1>2, EpochNext
<1> QED BY <1>4, <1>5, <1>6, <1>7, <1>8, <1>9 DEF FlushInv

\* So does a step of nothing.
LEMMA StutterFlush ==
  ASSUME FlushInv, UNCHANGED vars
  PROVE  FlushInv'
<1>1. UNCHANGED <<todo, pc, wire, holds, procs, fence_index, fences, post_sent, post_received,
                  access, exposed>>
  BY DEF vars, progVars, lockVars, fenceVars, pscwVars
<1>2. FlushTypes' /\ (\A p \in Proc : Place(p)' /\ Posts(p)')
  <2>1. FlushTypes'
    BY <1>1 DEF FlushInv, FlushTypes
  <2>2. ASSUME NEW p \in Proc PROVE Place(p)' /\ Posts(p)'
    <3>1. Place(p) /\ Posts(p)
      BY DEF FlushInv
    <3>2. \A op : Doing(p, op)' <=> Doing(p, op)
      BY <1>1 DEF Doing, Call
    <3>3. Place(p)'
      BY <1>1, <3>1, <3>2 DEF Place
    <3>4. Posts(p)'
      BY <1>1, <3>1, <3>2 DEF Posts
    <3> QED BY <3>3, <3>4
  <2> QED BY <2>1, <2>2
<1>3. \A p, q \in Proc : PutsFit(p, q)'
  BY <1>1 DEF FlushInv, PutsFit, Places
<1>4. ASSUME NEW p \in Proc, NEW q \in Proc, p # q
      PROVE  FencePair(p, q)' /\ LockPair(p, q)' /\ StartPair(p, q)' /\ Epoch(p, q)' /\ Access(p, q)'
  <2>1. FencePair(p, q) /\ LockPair(p, q) /\ StartPair(p, q) /\ Epoch(p, q) /\ Access(p, q)
    BY <1>4 DEF FlushInv
  <2>2. FencePair(p, q)'
    BY <1>1, <2>1, FenceSame DEF Raised, MetBy, SentBy
  <2>3. LockPair(p, q)'
    BY <1>1, <2>1 DEF LockPair, Holding, Unlocking, At, Call, Later, Places
  <2>4. StartPair(p, q)'
    BY <1>1, <2>1 DEF StartPair, Received, Later, Places
  <2>5. Epoch(p, q)'
    BY <1>1, <2>1 DEF Epoch, PostAt, CompleteAt, Received, Exposing, Places
  <2>6. Access(p, q)'
    BY <1>1, <2>1 DEF Access, Received, Doing, Call
  <2> QED BY <2>2, <2>3, <2>4, <2>5, <2>6
<1> QED BY <1>2, <1>3, <1>4 DEF FlushInv

\* What it says of the puts is what is promised.
LEMMA FlushInvFlushed ==
  ASSUME IInv, FlushInv
  PROVE  Flushed
<1> SUFFICES ASSUME NEW p \in Proc, NEW q \in Proc, NEW i \in DOMAIN wire[p][q],
                    wire[p][q][i].kind = "put"
             PROVE  LET m == wire[p][q][i]
                    IN  CASE m.sync = "fence" -> m.era >= fences[q]
                          [] m.sync = "lock"  -> Holding(p, q) \/ Unlocking(p, q)
                          [] m.sync = "start" -> p \in exposed[q]
  BY DEF Flushed
<1>1. i \in Places(wire[p][q], "put")
  BY DEF Places
<1>2. p # q
  BY <1>1 DEF FlushInv, PutsFit
<1>3. FencePair(p, q) /\ LockPair(p, q) /\ StartPair(p, q) /\ Epoch(p, q) /\ FlushTypes
  BY <1>2 DEF FlushInv
<1>4. wire[p][q][i].sync = "fence" => wire[p][q][i].era >= fences[q]
  <2>1. ASSUME wire[p][q][i].sync = "fence" PROVE wire[p][q][i].era >= fences[q]
    <3>1. wire[p][q][i].era \in Nat /\ MetBy(q, p) <= wire[p][q][i].era
      BY <1>1, <1>3, <2>1 DEF FencePair, PutsAre
    <3>2. fences[q] \in Nat /\ MetBy(q, p) \in fences[q] .. fences[q] + 1
      BY <1>3, FenceTypes
    <3> QED BY <3>1, <3>2
  <2> QED BY <2>1
<1>5. wire[p][q][i].sync = "lock" => Holding(p, q) \/ Unlocking(p, q)
  BY <1>1, <1>3 DEF LockPair
<1>6. wire[p][q][i].sync = "start" => p \in exposed[q]
  <2>1. ASSUME wire[p][q][i].sync = "start" PROVE p \in exposed[q]
    <3>1. Received(p, q) \/ CompleteAt(p, q) # {}
      BY <1>1, <1>3, <2>1 DEF StartPair, Later, CompleteAt
    <3>2. Exposing(q, p)
      BY <1>3, <3>1 DEF Epoch, EpochIs
    <3> QED BY <3>2 DEF Exposing
  <2> QED BY <2>1
<1>7. wire[p][q][i].sync \in {"fence", "lock", "start"}
  BY <1>1 DEF FlushInv, PutsFit
<1> QED BY <1>4, <1>5, <1>6, <1>7

\* A call of synchronisation returns after the puts that it promises: of MP_Win_fence(),
\* MP_Win_wait() and MP_Win_unlock(), and of any number of processes.
THEOREM TcpWinFlushed == Spec => []Flushed
<1>1. IInv /\ FlushInv /\ [Next]_vars => FlushInv'
  BY NextFlush, StutterFlush
<1>2. IInv /\ FlushInv => Flushed
  BY FlushInvFlushed
<1> QED BY <1>1, <1>2, InitFlush, TcpWinInvariance, PTL DEF Spec
=============================================================================
