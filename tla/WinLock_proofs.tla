--------------------------- MODULE WinLock_proofs ---------------------------
(***************************************************************************)
(* For any processes, a process that holds a window for writing is alone   *)
(* with it.                                                                *)
(*                                                                         *)
(* A lock is owned from the moment do_lock() grants it, when the owner     *)
(* does not know yet, to the moment do_lock() takes it back, when the      *)
(* owner has long given it up.  The invariant relates the count and the    *)
(* state that a window keeps to the owners that exist in the system, and   *)
(* the queue to the calls that wait.                                       *)
(***************************************************************************)
EXTENDS WinLock, FiniteSetTheorems, FunctionTheorems, TLAPS

Stage    == {"out", "asked", "queued", "granted"}
CallType == [stage : Stage, rank : Proc, type : 0 .. 2]
Entry    == [src : Proc, type : {1, 2}]
WinType  == [locked : 0 .. 2, count : Nat, lock_q : Seq(Entry)]

TypeOK == /\ win \in [Proc -> WinType]
          /\ call \in [Proc -> CallType]
          /\ holds \in [Proc -> SUBSET (Proc \X {1, 2})]

\* p has a lock of r, or is about to hear so, or about to be heard giving it back.
Owns(p, r) ==
  \/ Holding(p, r)
  \/ call[p].rank = r /\ call[p].stage = "granted" /\ call[p].type # 0
  \/ call[p].rank = r /\ call[p].stage = "asked" /\ call[p].type = 0

Owners(r) == {p \in Proc : Owns(p, r)}

\* p has r for writing.
Writes(p, r) == \/ <<r, 2>> \in holds[p]
                \/ call[p].rank = r /\ call[p].stage = "granted" /\ call[p].type = 2

\* What a call is about, the process does not have.
CallsApart == \A p \in Proc : call[p].stage # "out" => ~Holding(p, call[p].rank)

\* The count of a window, and its state.
Counts(r) == /\ IsFiniteSet(Owners(r))
             /\ win[r].count = Cardinality(Owners(r))
             /\ win[r].locked = 0 => win[r].count = 0
             /\ win[r].locked = 2 => win[r].count = 1
             /\ \A p \in Proc : Writes(p, r) => win[r].locked = 2

\* The queue of a window: the calls that wait for it, once each.
Queues(r) == /\ \A i \in DOMAIN win[r].lock_q :
                  call[win[r].lock_q[i].src] =
                    [stage |-> "queued", rank |-> r, type |-> win[r].lock_q[i].type]
             /\ \A i, j \in DOMAIN win[r].lock_q :
                  i # j => win[r].lock_q[i].src # win[r].lock_q[j].src

IInv == /\ TypeOK
        /\ CallsApart
        /\ \A r \in Proc : Counts(r) /\ Queues(r)

-----------------------------------------------------------------------------
\* The first n of a queue are n processes.
LEMMA FirstOfQueue ==
  ASSUME NEW queue \in Seq(Entry), NEW n \in 0 .. Len(queue),
         \A i, j \in DOMAIN queue : i # j => queue[i].src # queue[j].src
  PROVE  /\ IsFiniteSet({queue[i].src : i \in 1 .. n})
         /\ Cardinality({queue[i].src : i \in 1 .. n}) = n
<1> DEFINE S == {queue[i].src : i \in 1 .. n}
           f == [i \in 1 .. n |-> queue[i].src]
<1>1. f \in Bijection(1 .. n, S)
  <2>1. \A i, j \in 1 .. n : i # j => f[i] # f[j]
    OBVIOUS
  <2>2. f \in [1 .. n -> S]
    OBVIOUS
  <2>3. \A s \in S : \E i \in 1 .. n : f[i] = s
    OBVIOUS
  <2> QED  BY <2>1, <2>2, <2>3 DEF Bijection, Injection, Surjection, IsInjective
<1>2. ExistsBijection(1 .. n, S)
  BY <1>1 DEF ExistsBijection
<1>3. n \in Nat
  OBVIOUS
<1>4. IsFiniteSet(S)
  BY <1>2, <1>3, FS_NatBijection
<1> QED  BY <1>2, <1>3, <1>4, FS_CountingElements

\* Who is told waits in the queue, or is the one that asks.
LEMMA ToldWait ==
  ASSUME IInv, NEW r \in Proc, NEW p \in Proc, NEW type \in 0 .. 2,
         NEW n \in 0 .. Len(win[r].lock_q), type # 0 => n = 0
  PROVE  /\ Told(win[r], p, type, n) \subseteq Proc
         /\ \A q \in Told(win[r], p, type, n) :
              q # p => /\ call[q].stage = "queued" /\ call[q].rank = r
                       /\ call[q].type \in {1, 2}
<1> DEFINE queue == win[r].lock_q
<1>1. queue \in Seq(Entry)
  BY DEF IInv, TypeOK, WinType
<1>2. \A i \in 1 .. n : queue[i] \in Entry /\ i \in DOMAIN queue
  BY <1>1
<1>3. \A i \in 1 .. n : call[queue[i].src] =
                          [stage |-> "queued", rank |-> r, type |-> queue[i].type]
  BY <1>2 DEF IInv, Queues
<1>4. \A i \in 1 .. n : /\ queue[i].src \in Proc
                        /\ call[queue[i].src].stage = "queued"
                        /\ call[queue[i].src].rank = r
                        /\ call[queue[i].src].type \in {1, 2}
  <2> TAKE i \in 1 .. n
  <2>1. queue[i].src \in Proc /\ queue[i].type \in {1, 2}
    BY <1>2 DEF Entry
  <2>2. call[queue[i].src] = [stage |-> "queued", rank |-> r, type |-> queue[i].type]
    BY <1>3
  <2> HIDE DEF queue
  <2> QED  BY <2>1, <2>2
<1>5. Told(win[r], p, type, n) \subseteq {p} \cup {queue[i].src : i \in 1 .. n}
  BY DEF Told
<1> QED  BY <1>4, <1>5

\* A call of a process that waits in no queue may change.
LEMMA QueuesKept ==
  ASSUME IInv, NEW p \in Proc, call[p].stage # "queued", NEW c,
         call' = [call EXCEPT ![p] = c], win' = win
  PROVE  \A s \in Proc : Queues(s)'
<1> TAKE s \in Proc
<1>1. /\ Queues(s) /\ win[s].lock_q \in Seq(Entry)
      /\ call \in [Proc -> CallType]
  BY DEF IInv, TypeOK, WinType
<1>2. \A i \in DOMAIN win[s].lock_q : call'[win[s].lock_q[i].src] = call[win[s].lock_q[i].src]
  <2> TAKE i \in DOMAIN win[s].lock_q
  <2>1. win[s].lock_q[i] \in Entry
    BY <1>1
  <2>2. call[win[s].lock_q[i].src] =
          [stage |-> "queued", rank |-> s, type |-> win[s].lock_q[i].type]
    BY <1>1 DEF Queues
  <2>3. call[win[s].lock_q[i].src].stage = "queued"
    BY <2>2
  <2>4. win[s].lock_q[i].src \in Proc /\ win[s].lock_q[i].src # p
    BY <2>1, <2>3 DEF Entry
  <2> QED  BY <2>4, <1>1
<1> QED  BY <1>1, <1>2 DEF Queues

\* do_lock() keeps the invariant, for a request that is on its way or of the window's
\* own process.
LEMMA ServeKeeps ==
  ASSUME IInv, NEW r \in Proc, NEW p \in Proc, NEW type \in 0 .. 2,
         Serve(r, p, type),
         call[p].stage \in {"out", "asked"},
         call[p].stage = "asked" => call[p].rank = r /\ call[p].type = type,
         type = 0 => Owns(p, r),
         type # 0 => ~Owns(p, r),
         holds' = [holds EXCEPT ![p] = @ \ {<<r, 1>>, <<r, 2>>}]
  PROVE  IInv'
<1> DEFINE w     == win[r]
           queue == win[r].lock_q
<1>1. PICK n \in 0 .. Len(queue) :
        /\ IF type = 0 THEN LetIn(w, n) ELSE n = 0
        /\ win' = [win EXCEPT ![r] = DoLock(w, p, type, n)]
        /\ call' = [q \in Proc |->
             CASE q \in Told(w, p, type, n) -> [stage |-> "granted", rank |-> r,
                                  type |-> IF q = p THEN type ELSE call[q].type]
               [] q \notin Told(w, p, type, n) /\ q = p ->
                                 [stage |-> "queued", rank |-> r, type |-> type]
               [] OTHER                -> call[q]]
  BY DEF Serve
<1> DEFINE told  == Told(w, p, type, n)
           First == {queue[i].src : i \in 1 .. n}
<1> HIDE DEF told
<1>w. /\ w \in WinType
      /\ queue \in Seq(Entry)
      /\ win \in [Proc -> WinType] /\ call \in [Proc -> CallType]
      /\ holds \in [Proc -> SUBSET (Proc \X {1, 2})]
  BY DEF IInv, TypeOK, WinType
<1>t. /\ told \subseteq Proc
      /\ \A q \in told : q # p => /\ call[q].stage = "queued" /\ call[q].rank = r
                                  /\ call[q].type \in {1, 2}
  BY <1>1, ToldWait DEF told
\* The calls afterwards.
<1>c. call' = [q \in Proc |->
        CASE q \in told              -> [stage |-> "granted", rank |-> r,
                                         type |-> IF q = p THEN type ELSE call[q].type]
          [] q \notin told /\ q = p  -> [stage |-> "queued", rank |-> r, type |-> type]
          [] OTHER                   -> call[q]]
  BY <1>1 DEF told
<1>c1. \A q \in Proc : q # p /\ q \notin told => call'[q] = call[q]
  BY <1>c
<1>c2. \A q \in Proc : q # p /\ q \in told =>
          /\ call'[q] = [stage |-> "granted", rank |-> r, type |-> call[q].type]
          /\ call'[q].stage = "granted" /\ call'[q].rank = r
          /\ call'[q].type = call[q].type
  <2> TAKE q \in Proc
  <2> HAVE q # p /\ q \in told
  <2>1. call'[q] = [stage |-> "granted", rank |-> r, type |-> call[q].type]
    BY <1>c
  <2> QED  BY <2>1
<1>c3. /\ call'[p] = [stage |-> IF p \in told THEN "granted" ELSE "queued",
                      rank |-> r, type |-> type]
       /\ call'[p].stage = IF p \in told THEN "granted" ELSE "queued"
       /\ call'[p].rank = r /\ call'[p].type = type
  <2>1. call'[p] = [stage |-> IF p \in told THEN "granted" ELSE "queued",
                    rank |-> r, type |-> type]
    BY <1>c
  <2> QED  BY <2>1
<1>c4. call' \in [Proc -> CallType]
  <2>1. \A q \in Proc : call'[q] \in CallType
    <3> TAKE q \in Proc
    <3>1. call[q] \in CallType
      BY <1>w
    <3>2. CASE q = p
      BY <3>2, <1>c3 DEF CallType, Stage
    <3>3. CASE q # p /\ q \in told
      <4>1. call[q].type \in 0 .. 2
        BY <3>1 DEF CallType
      <4>2. call'[q] = [stage |-> "granted", rank |-> r, type |-> call[q].type]
        BY <3>3, <1>c2
      <4> QED  BY <4>1, <4>2 DEF CallType, Stage
    <3>4. CASE q # p /\ q \notin told
      BY <3>1, <3>4, <1>c1
    <3> QED  BY <3>2, <3>3, <3>4
  <2> QED  BY <2>1, <1>c
\* The locks afterwards.
<1>h1. holds' \in [Proc -> SUBSET (Proc \X {1, 2})]
  BY <1>w
<1>h2. \A q \in Proc : q # p => holds'[q] = holds[q]
  BY <1>w
<1>h3. holds'[p] = holds[p] \ {<<r, 1>>, <<r, 2>>}
  BY <1>w
<1>h4. \A q, s \in Proc : ~(q = p /\ s = r) => (Holding(q, s)' <=> Holding(q, s))
  <2> TAKE q, s \in Proc
  <2> HAVE ~(q = p /\ s = r)
  <2>1. CASE q # p
    BY <2>1, <1>h2 DEF Holding
  <2>2. CASE q = p /\ s # r
    BY <2>2, <1>h3 DEF Holding
  <2> QED  BY <2>1, <2>2
<1>h5. ~Holding(p, r)'
  BY <1>h3 DEF Holding
\* The windows afterwards.
<1>d1. win' = [win EXCEPT ![r] = DoLock(w, p, type, n)]
  BY <1>1
<1>d2. win'[r] = DoLock(w, p, type, n)
  BY <1>d1, <1>w
<1>d3. \A s \in Proc : s # r => win'[s] = win[s]
  BY <1>d1, <1>w
\* Who owns what afterwards.
<1>o1. \A s \in Proc : s # r => Owners(s)' = Owners(s)
  <2> SUFFICES ASSUME NEW s \in Proc, s # r, NEW q \in Proc
               PROVE  Owns(q, s)' <=> Owns(q, s)
    BY DEF Owners
  <2>1. Holding(q, s)' <=> Holding(q, s)
    BY <1>h4
  <2>2. CASE q = p
    <3>1. call'[q].rank # s
      BY <1>c3, <2>2
    <3>2. ~(call[q].rank = s /\ call[q].stage \in {"granted", "asked"})
      BY <2>2
    <3> QED  BY <2>1, <3>1, <3>2 DEF Owns
  <2>3. CASE q # p /\ q \in told
    BY <2>1, <2>3, <1>c2, <1>t DEF Owns
  <2>4. CASE q # p /\ q \notin told
    BY <2>1, <2>4, <1>c1 DEF Owns
  <2> QED  BY <2>2, <2>3, <2>4
<1>o2. \A s, q \in Proc : s # r => (Writes(q, s)' <=> Writes(q, s))
  <2> SUFFICES ASSUME NEW s \in Proc, s # r, NEW q \in Proc
               PROVE  Writes(q, s)' <=> Writes(q, s)
    OBVIOUS
  <2>1. <<s, 2>> \in holds'[q] <=> <<s, 2>> \in holds[q]
    BY <1>h2, <1>h3
  <2>2. CASE q = p
    <3>1. call'[q].rank # s
      BY <1>c3, <2>2
    <3>2. ~(call[q].rank = s /\ call[q].stage = "granted")
      BY <2>2
    <3> QED  BY <2>1, <3>1, <3>2 DEF Writes
  <2>3. CASE q # p /\ q \in told
    BY <2>1, <2>3, <1>c2, <1>t DEF Writes
  <2>4. CASE q # p /\ q \notin told
    BY <2>1, <2>4, <1>c1 DEF Writes
  <2> QED  BY <2>2, <2>3, <2>4
<1>o3. \A q \in Proc : q # p /\ q \notin told =>
          (Owns(q, r)' <=> Owns(q, r)) /\ (Writes(q, r)' <=> Writes(q, r))
  BY <1>c1, <1>h2 DEF Owns, Writes, Holding
<1>o4. \A q \in Proc : q # p /\ q \in told => Owns(q, r)'
  <2> TAKE q \in Proc
  <2> HAVE q # p /\ q \in told
  <2>1. call[q].type # 0
    BY <1>t
  <2> QED  BY <2>1, <1>c2 DEF Owns
<1>o5. Owns(p, r)' <=> type # 0 /\ p \in told
  BY <1>c3, <1>h5 DEF Owns
<1>o6. \A q \in Proc : q # p /\ q \in told =>
          (Writes(q, r)' <=> <<r, 2>> \in holds[q] \/ call[q].type = 2)
  BY <1>c2, <1>h2 DEF Writes
<1>o7. Writes(p, r)' <=> p \in told /\ type = 2
  BY <1>c3, <1>h3 DEF Writes
\* The invariant, part by part.
<1>2. CallsApart'
  <2> SUFFICES ASSUME NEW q \in Proc, call'[q].stage # "out", NEW s \in Proc,
                      s = call'[q].rank
               PROVE  ~Holding(q, s)'
    BY <1>c4 DEF CallsApart, Holding, CallType
  <2>1. CASE q = p
    BY <2>1, <1>c3, <1>h5
  <2>2. CASE q # p /\ q \in told
    <3>1. s = r /\ call[q].rank = r /\ call[q].stage = "queued"
      BY <2>2, <1>c2, <1>t
    <3>2. ~Holding(q, r)
      BY <3>1 DEF IInv, CallsApart
    <3> QED  BY <2>2, <3>1, <3>2, <1>h4
  <2>3. CASE q # p /\ q \notin told
    <3>1. call'[q] = call[q]
      BY <2>3, <1>c1
    <3>2. ~Holding(q, s)
      BY <3>1 DEF IInv, CallsApart
    <3> QED  BY <2>3, <3>2, <1>h4
  <2> QED  BY <2>1, <2>2, <2>3
\* Processes that wait at a window keep waiting, unless they are told.
<1>3. \A s \in Proc : s # r => (Counts(s) /\ Queues(s))'
  <2> SUFFICES ASSUME NEW s \in Proc, s # r
               PROVE  Counts(s)' /\ Queues(s)'
    OBVIOUS
  <2>1. Counts(s) /\ Queues(s) /\ win'[s] = win[s] /\ win[s] \in WinType
    BY <1>d3, <1>w DEF IInv
  <2>2. Counts(s)'
    BY <2>1, <1>o1, <1>o2 DEF Counts
  <2>3. \A i \in DOMAIN win[s].lock_q : call'[win[s].lock_q[i].src] = call[win[s].lock_q[i].src]
    <3> TAKE i \in DOMAIN win[s].lock_q
    <3> DEFINE q == win[s].lock_q[i].src
    <3>1. q \in Proc
      <4>1. win[s].lock_q \in Seq(Entry)
        BY <2>1 DEF WinType
      <4>2. win[s].lock_q[i] \in Entry
        BY <4>1
      <4> QED  BY <4>2 DEF Entry
    <3>2. call[q].stage = "queued" /\ call[q].rank = s
      <4>1. call[q] = [stage |-> "queued", rank |-> s, type |-> win[s].lock_q[i].type]
        BY <2>1 DEF Queues
      <4> QED  BY <4>1
    <3>3. q # p /\ q \notin told
      BY <3>2, <1>t
    <3> QED  BY <3>1, <3>3, <1>c1
  <2>4. Queues(s)'
    BY <2>1, <2>3 DEF Queues
  <2> QED  BY <2>2, <2>4
<1>q1. \A i \in DOMAIN queue : queue[i] \in Entry
  BY <1>w
<1>q2. \A i \in DOMAIN queue :
         call[queue[i].src] = [stage |-> "queued", rank |-> r, type |-> queue[i].type]
  BY DEF IInv, Queues
<1>q3. \A i, j \in DOMAIN queue : i # j => queue[i].src # queue[j].src
  BY DEF IInv, Queues
<1>q4. \A i \in DOMAIN queue : queue[i].src # p
  <2> SUFFICES ASSUME NEW i \in DOMAIN queue, queue[i].src = p PROVE FALSE
    OBVIOUS
  <2>1. call[p] = [stage |-> "queued", rank |-> r, type |-> queue[i].type]
    BY <1>q2
  <2>2. call[p].stage = "queued"
    BY <2>1
  <2> QED  BY <2>2
<1>k. /\ IsFiniteSet(Owners(r)) /\ Cardinality(Owners(r)) \in Nat
      /\ w.count = Cardinality(Owners(r))
      /\ w.locked = 0 => w.count = 0
      /\ w.locked = 2 => w.count = 1
      /\ \A q \in Proc : Writes(q, r) => w.locked = 2
  BY FS_CardinalityType DEF IInv, Counts
\* What is left is the window that was asked.
<1>r. ASSUME win'[r] \in WinType, Counts(r)', Queues(r)'
      PROVE  IInv'
  <2>1. win' \in [Proc -> WinType]
    BY <1>r, <1>d1, <1>w
  <2>2. TypeOK'
    BY <2>1, <1>c4, <1>h1 DEF TypeOK
  <2>3. \A s \in Proc : Counts(s)' /\ Queues(s)'
    BY <1>r, <1>3
  <2> QED  BY <2>2, <2>3, <1>2 DEF IInv
<1>4. CASE type = 0
  <2>1. told = {p} \cup First
    BY <1>4 DEF told, Told
  <2>2. win'[r] = AfterUnlock(w, n)
    BY <1>4, <1>d2 DEF DoLock
  <2>3. LetIn(w, n)
    BY <1>1, <1>4
  <2>4. p \in Owners(r)
    BY <1>4 DEF Owners
  <2>5. /\ IsFiniteSet(First) /\ Cardinality(First) = n
        /\ First \subseteq Proc /\ p \notin First
    <3>1. IsFiniteSet(First) /\ Cardinality(First) = n
      BY <1>w, <1>q3, FirstOfQueue
    <3>2. \A i \in 1 .. n : queue[i].src \in Proc /\ queue[i].src # p
      BY <1>w, <1>q1, <1>q4 DEF Entry
    <3> QED  BY <3>1, <3>2
  <2>6. /\ IsFiniteSet(Owners(r) \ {p})
        /\ Cardinality(Owners(r) \ {p}) = w.count - 1
        /\ w.count \in Nat /\ w.count >= 1
    <3>1. /\ IsFiniteSet(Owners(r) \ {p})
          /\ Cardinality(Owners(r) \ {p}) = w.count - 1
      BY <1>k, <2>4, FS_RemoveElement
    <3>2. Cardinality(Owners(r) \ {p}) \in Nat
      BY <3>1, FS_CardinalityType
    <3> QED  BY <1>k, <3>1, <3>2
  <2>7. Owners(r)' = (Owners(r) \ {p}) \cup First
    <3> SUFFICES ASSUME NEW q \in Proc
                 PROVE  Owns(q, r)' <=> (Owns(q, r) /\ q # p) \/ q \in First
      BY <2>5 DEF Owners
    <3>1. CASE q = p
      BY <3>1, <1>o5, <1>4, <2>5
    <3>2. CASE q # p
      BY <3>2, <1>o3, <1>o4, <2>1
    <3> QED  BY <3>1, <3>2
  <2>t. TryLock(w, 0) = [locked |-> IF w.count = 1 THEN 0 ELSE w.locked,
                         count |-> w.count - 1, lock_q |-> queue]
    BY <1>w DEF TryLock, WinType
  \* Nobody is let in: the others keep what they have.
  <2>8. CASE n = 0
    <3>1. First = {}
      BY <2>8
    <3>2. /\ win'[r].locked = IF w.count = 1 THEN 0 ELSE w.locked
          /\ win'[r].count = w.count - 1
          /\ win'[r].lock_q = SubSeq(queue, 1, Len(queue))
          /\ win'[r] \in [locked : 0 .. 2, count : Int, lock_q : Seq(Entry)]
      <4>1. win'[r] = [locked |-> TryLock(w, 0).locked,
                       count |-> TryLock(w, 0).count + 0,
                       lock_q |-> SubSeq(queue, 1, Len(queue))]
        BY <2>2, <2>8 DEF AfterUnlock
      <4>2. win'[r] = [locked |-> IF w.count = 1 THEN 0 ELSE w.locked,
                       count |-> (w.count - 1) + 0,
                       lock_q |-> SubSeq(queue, 1, Len(queue))]
        <5>1. TryLock(w, 0).locked = (IF w.count = 1 THEN 0 ELSE w.locked)
              /\ TryLock(w, 0).count = w.count - 1
          BY <2>t
        <5> QED  BY <4>1, <5>1
      <4>3. (w.count - 1) + 0 = w.count - 1
        BY <2>6
      <4>4. SubSeq(queue, 1, Len(queue)) \in Seq(Entry)
        BY <1>w
      <4>5. w.locked \in 0 .. 2
        BY <1>w DEF WinType
      <4> QED  BY <4>2, <4>3, <4>4, <4>5, <2>6
    <3>3. SubSeq(queue, 1, Len(queue)) = queue
      BY <1>w
    <3>4. win'[r] \in WinType
      BY <3>2, <2>6 DEF WinType
    <3>5. Counts(r)'
      <4>1. Owners(r)' = Owners(r) \ {p}
        BY <2>7, <3>1
      <4>2. IsFiniteSet(Owners(r)') /\ win'[r].count = Cardinality(Owners(r)')
        BY <4>1, <2>6, <3>2
      <4>3. win'[r].locked = 0 => win'[r].count = 0
        BY <3>2, <2>6, <1>k
      <4>4. win'[r].locked # 2
        BY <3>2, <1>k
      <4>5. \A q \in Proc : ~Writes(q, r)'
        <5> SUFFICES ASSUME NEW q \in Proc, Writes(q, r)' PROVE FALSE
          OBVIOUS
        <5>1. CASE q = p
          BY <5>1, <1>o7, <1>4
        <5>2. CASE q # p
          <6>1. Writes(q, r) /\ w.locked = 2 /\ w.count = 1
            BY <5>2, <2>1, <3>1, <1>o3, <1>k
          <6>2. q \in Owners(r) \ {p}
            BY <5>2, <6>1 DEF Writes, Owns, Owners, Holding
          <6>3. Cardinality(Owners(r) \ {p}) = 0
            BY <2>6, <6>1
          <6> QED  BY <2>6, <6>2, <6>3, FS_EmptySet
        <5> QED  BY <5>1, <5>2
      <4> QED  BY <4>2, <4>3, <4>4, <4>5 DEF Counts
    <3>6. Queues(r)'
      <4>1. win'[r].lock_q = queue
        BY <3>2, <3>3
      <4>2. \A i \in DOMAIN queue : call'[queue[i].src] = call[queue[i].src]
        <5> TAKE i \in DOMAIN queue
        <5>1. queue[i].src \in Proc /\ queue[i].src # p
          BY <1>q1, <1>q4 DEF Entry
        <5>2. queue[i].src \notin told
          BY <5>1, <2>1, <3>1
        <5> QED  BY <5>1, <5>2, <1>c1
      <4>3. \A i \in DOMAIN queue :
              call'[queue[i].src] =
                [stage |-> "queued", rank |-> r, type |-> queue[i].type]
        <5> TAKE i \in DOMAIN queue
        <5>1. call'[queue[i].src] = call[queue[i].src]
          BY <4>2
        <5> QED  BY <5>1, <1>q2
      <4> HIDE DEF queue
      <4> QED  BY <4>1, <4>3, <1>q3 DEF Queues
    <3> QED  BY <3>4, <3>5, <3>6, <1>r
  \* The window is free: a writer, or n readers.
  <2>9. CASE n # 0
    <3> DEFINE type1 == queue[1].type
    <3>1. /\ n \in 1 .. Len(queue) /\ Len(queue) \in Nat
          /\ 1 \in DOMAIN queue /\ type1 \in {1, 2}
      BY <1>w, <2>9, <1>q1 DEF Entry
    <3>2. Leading(queue, n) /\ w.count = 1
      <4>1. TryLock(w, 0).locked = 0 /\ Leading(queue, n)
        BY <2>3, <2>9 DEF LetIn
      <4>2. TryLock(w, 0).locked = IF w.count = 1 THEN 0 ELSE w.locked
        BY <1>w DEF TryLock, WinType
      <4> QED  BY <4>1, <4>2, <1>k, <2>6
    <3>3. /\ type1 = 2 => n = 1
          /\ \A i \in 1 .. n : queue[i].type = type1
      BY <3>1, <3>2 DEF Leading
    <3>4. Owners(r) \ {p} = {}
      <4>1. Cardinality(Owners(r) \ {p}) = 0
        BY <2>6, <3>2
      <4> QED  BY <2>6, <4>1, FS_EmptySet
    <3>5. /\ win'[r].locked = type1
          /\ win'[r].count = n
          /\ win'[r].lock_q = SubSeq(queue, n + 1, Len(queue))
          /\ win'[r] \in WinType
      <4>1. win'[r] = [locked |-> type1,
                       count |-> TryLock(w, 0).count + n,
                       lock_q |-> SubSeq(queue, n + 1, Len(queue))]
        BY <2>2, <2>9 DEF AfterUnlock
      <4>2. win'[r] = [locked |-> type1, count |-> (w.count - 1) + n,
                       lock_q |-> SubSeq(queue, n + 1, Len(queue))]
        <5>1. TryLock(w, 0).count = w.count - 1
          BY <2>t
        <5> QED  BY <4>1, <5>1
      <4>3. (w.count - 1) + n = n
        BY <3>1, <3>2
      <4>4. SubSeq(queue, n + 1, Len(queue)) \in Seq(Entry)
        BY <1>w, <3>1
      <4> QED  BY <4>2, <4>3, <4>4, <3>1 DEF WinType
    <3>6. Counts(r)'
      <4>1. Owners(r)' = First
        BY <2>7, <3>4
      <4>2. IsFiniteSet(Owners(r)') /\ win'[r].count = Cardinality(Owners(r)')
        BY <4>1, <2>5, <3>5
      <4>3. win'[r].locked # 0 /\ (win'[r].locked = 2 => win'[r].count = 1)
        BY <3>1, <3>3, <3>5
      <4>4. \A q \in Proc : Writes(q, r)' => win'[r].locked = 2
        <5> TAKE q \in Proc
        <5> HAVE Writes(q, r)'
        <5>1. CASE q = p
          BY <5>1, <1>o7, <1>4
        <5>2. CASE q # p /\ q \notin told
          <6>1. q \in Owners(r) \ {p}
            BY <5>2, <1>o3 DEF Writes, Owns, Owners, Holding
          <6> QED  BY <6>1, <3>4
        <5>3. CASE q # p /\ q \in told
          <6>1. PICK i \in 1 .. n : q = queue[i].src
            BY <5>3, <2>1
          <6>2. i \in DOMAIN queue
            BY <1>w, <3>1
          <6>3. call[q] = [stage |-> "queued", rank |-> r, type |-> type1]
            BY <6>1, <6>2, <1>q2, <3>3
          <6>4. call[q].type = type1 /\ call[q].stage # "out" /\ call[q].rank = r
            BY <6>3
          <6>5. ~Holding(q, r)
            BY <6>4 DEF IInv, CallsApart
          <6>6. <<r, 2>> \notin holds[q]
            BY <6>5 DEF Holding
          <6>7. call[q].type = 2
            BY <5>3, <6>6, <1>o6
          <6> QED  BY <6>4, <6>7, <3>5
        <5> QED  BY <5>1, <5>2, <5>3
      <4> QED  BY <4>2, <4>3, <4>4 DEF Counts
    <3>7. Queues(r)'
      <4> DEFINE rest == SubSeq(queue, n + 1, Len(queue))
      <4>1. \A i \in DOMAIN rest : n + i \in DOMAIN queue /\ rest[i] = queue[n + i]
        BY <1>w, <3>1
      <4>2. \A i \in DOMAIN rest : call'[rest[i].src] = call[rest[i].src]
        <5> TAKE i \in DOMAIN rest
        <5> DEFINE q == queue[n + i].src
        <5>1. n + i \in DOMAIN queue /\ rest[i] = queue[n + i] /\ i \in Nat \ {0}
          BY <4>1, <1>w, <3>1
        <5>2. q \in Proc /\ q # p
          BY <5>1, <1>q1, <1>q4 DEF Entry
        <5>3. \A j \in 1 .. n : j \in DOMAIN queue /\ j # n + i
          BY <5>1, <1>w, <3>1
        <5>4. q \notin told
          BY <5>1, <5>2, <5>3, <1>q3, <2>1
        <5> QED  BY <5>1, <5>2, <5>4, <1>c1
      <4>3. \A i \in DOMAIN rest :
              call'[rest[i].src] = [stage |-> "queued", rank |-> r, type |-> rest[i].type]
        <5> TAKE i \in DOMAIN rest
        <5>1. n + i \in DOMAIN queue /\ rest[i] = queue[n + i]
          BY <4>1
        <5>2. call'[rest[i].src] = call[rest[i].src]
          BY <4>2
        <5>3. call[queue[n + i].src] =
                [stage |-> "queued", rank |-> r, type |-> queue[n + i].type]
          BY <5>1, <1>q2
        <5> HIDE DEF rest, queue
        <5> QED  BY <5>1, <5>2, <5>3
      <4>4. \A i, j \in DOMAIN rest : i # j => rest[i].src # rest[j].src
        <5> TAKE i, j \in DOMAIN rest
        <5> HAVE i # j
        <5>1. n + i # n + j
          BY <1>w, <3>1
        <5> QED  BY <5>1, <4>1, <1>q3
      <4>5. win'[r].lock_q = rest
        BY <3>5
      <4> HIDE DEF rest
      <4> QED  BY <4>3, <4>4, <4>5 DEF Queues
    <3> QED  BY <3>5, <3>6, <3>7, <1>r
  <2> QED  BY <2>8, <2>9
<1>5. CASE type # 0 /\ Grants(w, type)
  <2>1. told = {p} /\ type \in {1, 2}
    BY <1>5 DEF told, Told
  <2>2. win'[r] = TryLock(w, type)
    BY <1>5, <1>d2 DEF DoLock
  <2>3. win'[r] = [locked |-> type, count |-> w.count + 1, lock_q |-> queue]
    BY <2>2, <1>5, <1>w DEF TryLock, WinType
  <2>4. win'[r] \in WinType
    BY <2>1, <2>3, <1>w, <1>k DEF WinType
  <2>5. p \notin Owners(r)
    BY <1>5 DEF Owners
  <2>6. Owners(r)' = Owners(r) \cup {p}
    <3> SUFFICES ASSUME NEW q \in Proc
                 PROVE  Owns(q, r)' <=> Owns(q, r) \/ q = p
      BY DEF Owners
    <3>1. CASE q = p
      BY <3>1, <1>o5, <1>5, <2>1
    <3>2. CASE q # p
      BY <3>2, <1>o3, <2>1
    <3> QED  BY <3>1, <3>2
  <2>7. IsFiniteSet(Owners(r)') /\ Cardinality(Owners(r)') = w.count + 1
    BY <1>k, <2>5, <2>6, FS_AddElement
  <2>8. w.locked = 0 \/ (type = 1 /\ w.locked = 1)
    BY <1>5, <2>1 DEF Grants
  <2>9. Counts(r)'
    <3>1. win'[r].locked = type /\ win'[r].count = w.count + 1
      BY <2>3
    <3>2. win'[r].locked # 0 /\ (win'[r].locked = 2 => win'[r].count = 1)
      BY <3>1, <2>1, <2>8, <1>k
    <3>3. \A q \in Proc : Writes(q, r)' => win'[r].locked = 2
      <4> TAKE q \in Proc
      <4> HAVE Writes(q, r)'
      <4>1. CASE q = p
        BY <4>1, <3>1, <1>o7
      <4>2. CASE q # p
        BY <4>2, <2>1, <2>8, <1>o3, <1>k
      <4> QED  BY <4>1, <4>2
    <3> QED  BY <3>1, <3>2, <3>3, <2>7 DEF Counts
  <2>10. Queues(r)'
    <3>1. win'[r].lock_q = queue
      BY <2>3
    <3>2. \A i \in DOMAIN queue : call'[queue[i].src] = call[queue[i].src]
      BY <2>1, <1>q1, <1>q4, <1>c1 DEF Entry
    <3>3. \A i \in DOMAIN queue :
            call'[queue[i].src] =
              [stage |-> "queued", rank |-> r, type |-> queue[i].type]
      <4> TAKE i \in DOMAIN queue
      <4>1. call'[queue[i].src] = call[queue[i].src]
        BY <3>2
      <4> QED  BY <4>1, <1>q2
    <3> HIDE DEF queue
    <3> QED  BY <3>1, <3>3, <1>q3 DEF Queues
  <2> QED  BY <2>4, <2>9, <2>10, <1>r
<1>6. CASE type # 0 /\ ~Grants(w, type)
  <2> DEFINE entry == [src |-> p, type |-> type]
             longer == Append(queue, entry)
  <2>1. told = {} /\ type \in {1, 2}
    BY <1>6 DEF told, Told
  <2>2. win'[r] = [w EXCEPT !.lock_q = longer]
    BY <1>6, <1>d2 DEF DoLock, Enqueue
  <2>3. entry \in Entry
    BY <2>1 DEF Entry
  <2>4. longer \in Seq(Entry)
    BY <2>3, <1>w
  <2>5. /\ win'[r].locked = w.locked /\ win'[r].count = w.count
        /\ win'[r].lock_q = longer /\ win'[r] \in WinType
    BY <2>2, <2>4, <1>w DEF WinType
  <2>6. Owners(r)' = Owners(r)
    <3> SUFFICES ASSUME NEW q \in Proc PROVE Owns(q, r)' <=> Owns(q, r)
      BY DEF Owners
    <3>1. CASE q = p
      BY <3>1, <1>o5, <1>6, <2>1
    <3>2. CASE q # p
      BY <3>2, <1>o3, <2>1
    <3> QED  BY <3>1, <3>2
  <2>7. \A q \in Proc : Writes(q, r)' => Writes(q, r)
    <3> TAKE q \in Proc
    <3>1. CASE q = p
      BY <3>1, <1>o7, <2>1
    <3>2. CASE q # p
      BY <3>2, <1>o3, <2>1
    <3> QED  BY <3>1, <3>2
  <2>8. Counts(r)'
    BY <2>5, <2>6, <2>7, <1>k DEF Counts
  <2>9. Queues(r)'
    <3>1. /\ DOMAIN longer = 1 .. Len(queue) + 1 /\ DOMAIN queue = 1 .. Len(queue)
          /\ longer[Len(queue) + 1] = entry
          /\ \A i \in DOMAIN queue : longer[i] = queue[i]
      BY <2>3, <1>w
    <3>2. \A i \in DOMAIN queue : call'[queue[i].src] = call[queue[i].src]
      BY <2>1, <1>q1, <1>q4, <1>c1 DEF Entry
    <3>3. call'[p] = [stage |-> "queued", rank |-> r, type |-> type]
      BY <1>c3, <2>1
    <3>4. entry.src = p /\ entry.type = type
      OBVIOUS
    <3> HIDE DEF longer, entry
    <3>5. Len(queue) \in Nat
      BY <1>w
    <3>6. \A i \in DOMAIN longer : i \in DOMAIN queue \/ i = Len(queue) + 1
      BY <3>1, <3>5
    <3>7. \A i \in DOMAIN longer :
            call'[longer[i].src] = [stage |-> "queued", rank |-> r, type |-> longer[i].type]
      <4> TAKE i \in DOMAIN longer
      <4>1. CASE i \in DOMAIN queue
        BY <4>1, <3>1, <3>2, <1>q2
      <4>2. CASE i = Len(queue) + 1
        BY <4>2, <3>1, <3>3, <3>4
      <4> QED  BY <4>1, <4>2, <3>6
    <3>8. \A i, j \in DOMAIN longer : i # j => longer[i].src # longer[j].src
      <4> TAKE i, j \in DOMAIN longer
      <4> HAVE i # j
      <4>1. CASE i \in DOMAIN queue /\ j \in DOMAIN queue
        BY <4>1, <3>1, <1>q3
      <4>2. CASE i \in DOMAIN queue /\ j = Len(queue) + 1
        BY <4>2, <3>1, <3>4, <1>q4
      <4>3. CASE i = Len(queue) + 1 /\ j \in DOMAIN queue
        BY <4>3, <3>1, <3>4, <1>q4
      <4> QED  BY <4>1, <4>2, <4>3, <3>6
    <3> QED  BY <2>5, <3>7, <3>8 DEF Queues
  <2> QED  BY <2>5, <2>8, <2>9, <1>r
<1> QED  BY <1>4, <1>5, <1>6

-----------------------------------------------------------------------------
LEMMA InitKeeps == Init => IInv
<1> SUFFICES ASSUME Init PROVE IInv
  OBVIOUS
<1>1. \A p \in Proc : /\ call[p] = NoCall /\ holds[p] = {}
                      /\ NoCall.stage = "out" /\ NoCall.rank \in Proc /\ NoCall.type = 0
  BY DEF Init, NoCall
<1>2. \A p, r \in Proc : ~Owns(p, r) /\ ~Writes(p, r) /\ ~Holding(p, r)
  BY <1>1 DEF Owns, Writes, Holding
<1>3. \A r \in Proc : win[r] = [locked |-> 0, count |-> 0, lock_q |-> << >>]
  BY DEF Init
<1>4. TypeOK
  <2>1. Proc # {} => NoCall \in CallType
    BY DEF NoCall, CallType, Stage
  <2>2. << >> \in Seq(Entry)
    OBVIOUS
  <2>3. [locked |-> 0, count |-> 0, lock_q |-> << >>] \in WinType
    BY <2>2 DEF WinType
  <2> QED  BY <2>1, <2>3 DEF Init, TypeOK
<1>5. \A r \in Proc : Counts(r)
  <2> TAKE r \in Proc
  <2>1. Owners(r) = {}
    BY <1>2 DEF Owners
  <2> QED  BY <1>2, <1>3, <2>1, FS_EmptySet DEF Counts
<1>6. \A r \in Proc : Queues(r)
  BY <1>3 DEF Queues
<1>7. CallsApart
  BY <1>1 DEF CallsApart
<1> QED  BY <1>4, <1>5, <1>6, <1>7 DEF IInv

\* A call that is on its way, and one that returns, change no owner.
LEMMA AskKeeps ==
  ASSUME IInv, NEW p \in Proc, NEW r \in Proc, NEW type \in 0 .. 2, Ask(p, r, type)
  PROVE  IInv'
<1>w. /\ call \in [Proc -> CallType] /\ holds \in [Proc -> SUBSET (Proc \X {1, 2})]
      /\ win \in [Proc -> WinType] /\ win' = win
  BY DEF Ask, IInv, TypeOK
<1>1. /\ call' = [call EXCEPT ![p] = [stage |-> "asked", rank |-> r, type |-> type]]
      /\ holds' = [holds EXCEPT ![p] = @ \ {<<r, 1>>, <<r, 2>>}]
      /\ call[p].stage = "out"
      /\ IF type = 0 THEN Holding(p, r) ELSE ~Holding(p, r)
  BY DEF Ask, Request
<1>2. /\ call'[p].stage = "asked" /\ call'[p].rank = r /\ call'[p].type = type
      /\ \A q \in Proc : q # p => call'[q] = call[q] /\ holds'[q] = holds[q]
      /\ holds'[p] = holds[p] \ {<<r, 1>>, <<r, 2>>}
  <2>1. call'[p] = [stage |-> "asked", rank |-> r, type |-> type]
    BY <1>1, <1>w
  <2>2. \A q \in Proc : q # p => call'[q] = call[q] /\ holds'[q] = holds[q]
    BY <1>1, <1>w
  <2> QED  BY <2>1, <2>2, <1>1, <1>w
<1>3. TypeOK'
  <2>1. [stage |-> "asked", rank |-> r, type |-> type] \in CallType
    BY DEF CallType, Stage
  <2> QED  BY <2>1, <1>1, <1>w DEF TypeOK
<1>4. ~Holding(p, r)'
  BY <1>2 DEF Holding
<1>5. \A s \in Proc : s # r => (Holding(p, s)' <=> Holding(p, s))
  BY <1>2 DEF Holding
<1>6. CallsApart'
  <2> SUFFICES ASSUME NEW q \in Proc, call'[q].stage # "out", NEW s, s = call'[q].rank
               PROVE  ~Holding(q, s)'
    BY DEF CallsApart, Holding
  <2>1. CASE q = p
    BY <2>1, <1>2, <1>4
  <2>2. CASE q # p
    <3>1. ~Holding(q, s)
      BY <2>2, <1>2 DEF IInv, CallsApart
    <3> QED  BY <2>2, <3>1, <1>2 DEF Holding
  <2> QED  BY <2>1, <2>2
<1>7. \A s \in Proc : Owners(s)' = Owners(s)
  <2> SUFFICES ASSUME NEW s \in Proc, NEW q \in Proc
               PROVE  Owns(q, s)' <=> Owns(q, s)
    BY DEF Owners
  <2>1. CASE q # p
    BY <2>1, <1>2 DEF Owns, Holding
  <2>2. CASE q = p /\ s # r
    BY <2>2, <1>1, <1>2, <1>5 DEF Owns
  <2>3. CASE q = p /\ s = r
    <3>1. Owns(p, r)' <=> type = 0
      BY <1>2, <1>4 DEF Owns
    <3>2. Owns(p, r) <=> Holding(p, r)
      BY <1>1 DEF Owns
    <3> QED  BY <2>3, <3>1, <3>2, <1>1
  <2> QED  BY <2>1, <2>2, <2>3
<1>8. \A s, q \in Proc : Writes(q, s)' => Writes(q, s)
  <2> TAKE s, q \in Proc
  <2>1. CASE q # p
    BY <2>1, <1>2 DEF Writes
  <2>2. CASE q = p
    BY <2>2, <1>2 DEF Writes
  <2> QED  BY <2>1, <2>2
<1>9. \A s \in Proc : Counts(s)'
  <2> TAKE s \in Proc
  <2>1. Counts(s)
    BY DEF IInv
  <2> QED  BY <2>1, <1>w, <1>7, <1>8 DEF Counts
<1>10. \A s \in Proc : Queues(s)'
  BY <1>1, <1>w, QueuesKept DEF IInv
<1> QED  BY <1>3, <1>6, <1>9, <1>10 DEF IInv

LEMMA ReturnKeeps ==
  ASSUME IInv, NEW p \in Proc, Return(p)
  PROVE  IInv'
<1> DEFINE r == call[p].rank
           t == call[p].type
<1>w. /\ call \in [Proc -> CallType] /\ holds \in [Proc -> SUBSET (Proc \X {1, 2})]
      /\ win \in [Proc -> WinType] /\ win' = win
  BY DEF Return, IInv, TypeOK
<1>n. NoCall \in CallType /\ NoCall.stage = "out"
  BY DEF NoCall, CallType, Stage
<1>1. /\ call' = [call EXCEPT ![p] = NoCall]
      /\ call[p].stage = "granted"
      /\ holds' = IF t = 0 THEN holds ELSE [holds EXCEPT ![p] = @ \cup {<<r, t>>}]
  BY DEF Return
<1>t. r \in Proc /\ t \in 0 .. 2
  <2>1. call[p] \in CallType
    BY <1>w
  <2> QED  BY <2>1 DEF CallType
<1>2. /\ call'[p].stage = "out"
      /\ \A q \in Proc : q # p => call'[q] = call[q] /\ holds'[q] = holds[q]
      /\ holds'[p] = IF t = 0 THEN holds[p] ELSE holds[p] \cup {<<r, t>>}
  BY <1>1, <1>w, <1>n
<1>3. TypeOK'
  <2>1. t # 0 => <<r, t>> \in Proc \X {1, 2}
    BY <1>t
  <2>2. holds' \in [Proc -> SUBSET (Proc \X {1, 2})]
    BY <2>1, <1>1, <1>w
  <2> QED  BY <2>2, <1>1, <1>w, <1>n DEF TypeOK
<1>4. CallsApart'
  <2> SUFFICES ASSUME NEW q \in Proc, call'[q].stage # "out", NEW s, s = call'[q].rank
               PROVE  ~Holding(q, s)'
    BY DEF CallsApart, Holding
  <2>1. q # p
    BY <1>2
  <2>2. ~Holding(q, s)
    BY <2>1, <1>2 DEF IInv, CallsApart
  <2> QED  BY <2>1, <2>2, <1>2 DEF Holding
<1>5. \A s \in Proc : Owners(s)' = Owners(s)
  <2> SUFFICES ASSUME NEW s \in Proc, NEW q \in Proc
               PROVE  Owns(q, s)' <=> Owns(q, s)
    BY DEF Owners
  <2>1. CASE q # p
    BY <2>1, <1>2 DEF Owns, Holding
  <2>2. CASE q = p
    <3>1. Owns(p, s)' <=> Holding(p, s)'
      BY <1>2 DEF Owns
    <3>2. Owns(p, s) <=> Holding(p, s) \/ (r = s /\ t # 0)
      BY <1>1 DEF Owns
    <3>3. Holding(p, s)' <=> Holding(p, s) \/ (r = s /\ t # 0)
      BY <1>2, <1>t DEF Holding
    <3> QED  BY <2>2, <3>1, <3>2, <3>3
  <2> QED  BY <2>1, <2>2
<1>6. \A s, q \in Proc : Writes(q, s)' => Writes(q, s)
  <2> TAKE s, q \in Proc
  <2>1. CASE q # p
    BY <2>1, <1>2 DEF Writes
  <2>2. CASE q = p
    BY <2>2, <1>1, <1>2, <1>t DEF Writes
  <2> QED  BY <2>1, <2>2
<1>7. \A s \in Proc : Counts(s)'
  <2> TAKE s \in Proc
  <2>1. Counts(s)
    BY DEF IInv
  <2> QED  BY <2>1, <1>w, <1>5, <1>6 DEF Counts
<1>8. \A s \in Proc : Queues(s)'
  BY <1>1, <1>w, QueuesKept DEF IInv
<1> QED  BY <1>3, <1>4, <1>7, <1>8 DEF IInv

\* A request comes at the window, or is made there.
LEMMA ArriveKeeps ==
  ASSUME IInv, NEW p \in Proc, Arrive(p)
  PROVE  IInv'
<1> DEFINE r == call[p].rank
           t == call[p].type
<1>1. call[p].stage = "asked" /\ Serve(r, p, t) /\ holds' = holds
  BY DEF Arrive
<1>2. /\ call[p] \in CallType
      /\ holds \in [Proc -> SUBSET (Proc \X {1, 2})]
  BY DEF IInv, TypeOK
<1>3. r \in Proc /\ t \in 0 .. 2
  BY <1>2 DEF CallType
<1>4. ~Holding(p, r)
  BY <1>1 DEF IInv, CallsApart
<1>5. holds' = [holds EXCEPT ![p] = @ \ {<<r, 1>>, <<r, 2>>}]
  BY <1>1, <1>2, <1>4 DEF Holding
<1>6. (t = 0 => Owns(p, r)) /\ (t # 0 => ~Owns(p, r))
  BY <1>1, <1>4 DEF Owns
<1> HIDE DEF r, t
<1>7. r = call[p].rank /\ t = call[p].type
  BY DEF r, t
<1> QED  BY <1>1, <1>3, <1>5, <1>6, <1>7, ServeKeeps

LEMMA AskSelfKeeps ==
  ASSUME IInv, NEW p \in Proc, NEW type \in 0 .. 2, AskSelf(p, type)
  PROVE  IInv'
<1>1. /\ call[p].stage = "out" /\ Serve(p, p, type)
      /\ holds' = [holds EXCEPT ![p] = @ \ {<<p, 1>>, <<p, 2>>}]
      /\ IF type = 0 THEN Holding(p, p) ELSE ~Holding(p, p)
  BY DEF AskSelf, Request
<1>2. (type = 0 => Owns(p, p)) /\ (type # 0 => ~Owns(p, p))
  BY <1>1 DEF Owns
<1> QED  BY <1>1, <1>2, ServeKeeps

LEMMA NextKeeps == IInv /\ [Next]_lockVars => IInv'
<1> SUFFICES ASSUME IInv, [Next]_lockVars PROVE IInv'
  OBVIOUS
<1>1. ASSUME NEW p \in Proc, NEW r \in Proc, NEW type \in {0, 1, 2}, Ask(p, r, type)
      PROVE  IInv'
  BY <1>1, AskKeeps
<1>2. ASSUME NEW p \in Proc, NEW type \in {0, 1, 2}, AskSelf(p, type)
      PROVE  IInv'
  BY <1>2, AskSelfKeeps
<1>3. ASSUME NEW p \in Proc, Arrive(p) PROVE IInv'
  BY <1>3, ArriveKeeps
<1>4. ASSUME NEW p \in Proc, Return(p) PROVE IInv'
  BY <1>4, ReturnKeeps
<1>5. CASE UNCHANGED lockVars
  <2>1. win' = win /\ call' = call /\ holds' = holds
    BY <1>5 DEF lockVars
  <2>2. TypeOK'
    BY <2>1 DEF IInv, TypeOK
  <2>3. CallsApart'
    BY <2>1 DEF IInv, CallsApart, Holding
  <2>4. \A r \in Proc : Owners(r)' = Owners(r)
    BY <2>1 DEF Owners, Owns, Holding
  <2>5. \A r, p \in Proc : Writes(p, r)' <=> Writes(p, r)
    BY <2>1 DEF Writes
  <2>6. \A r \in Proc : Counts(r)'
    BY <2>1, <2>4, <2>5 DEF IInv, Counts
  <2>7. \A r \in Proc : Queues(r)'
    BY <2>1 DEF IInv, Queues
  <2> QED  BY <2>2, <2>3, <2>6, <2>7 DEF IInv
<1> QED  BY <1>1, <1>2, <1>3, <1>4, <1>5 DEF Next

\* What a window keeps of its locks (count, locked, lock_q) agrees with what the
\* processes have and wait for, whatever is on its way.
THEOREM WinLockInvariance == Spec => []IInv
<1>1. Init => IInv
  BY InitKeeps
<1>2. IInv /\ [Next]_lockVars => IInv'
  BY NextKeeps
<1> QED  BY <1>1, <1>2, PTL DEF Spec

\* A process that holds a window for writing is alone with it: try_lock() and
\* do_lock() never let two in, however requests and answers are delayed.
THEOREM WinLockExclusion == Spec => []Exclusion
<1>1. IInv => Exclusion
  <2> SUFFICES ASSUME IInv, NEW p \in Proc, NEW q \in Proc, NEW r \in Proc,
                      p # q, <<r, 2>> \in holds[p], Holding(q, r)
               PROVE  FALSE
    BY DEF Exclusion
  <2>1. Counts(r)
    BY DEF IInv
  <2>2. Writes(p, r) /\ p \in Owners(r) /\ q \in Owners(r)
    BY DEF Writes, Owners, Owns, Holding
  <2>3. IsFiniteSet(Owners(r)) /\ Cardinality(Owners(r)) = 1
    BY <2>1, <2>2 DEF Counts
  <2>4. \E x : Owners(r) = {x}
    BY <2>3, FS_Singleton
  <2> QED  BY <2>2, <2>4
<1> QED  BY <1>1, WinLockInvariance, PTL
=============================================================================
