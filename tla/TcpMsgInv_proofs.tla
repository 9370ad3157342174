-------------------------- MODULE TcpMsgInv_proofs --------------------------
(***************************************************************************)
(* Facts about the message engine of MP_Lite/tcp.c for every number of     *)
(* processes, every program, every size of the header, the sockets and the *)
(* list of entries.  First the operators the engine is built from: the     *)
(* loops over the processes, the queues, the choice of a free entry, the   *)
(* calls a run of the handler makes.  Then the invariant IInv, what leaves *)
(* its parts alone, and the first steps that keep it: those of the world,  *)
(* of MP_Wait() and MP_Test(), of the handler between its calls, and the   *)
(* half of the engine that writes.  TcpMsg_proofs has the rest.            *)
(***************************************************************************)
EXTENDS TcpMsg, FiniteSetTheorems, SequenceTheorems, WellFoundedInduction, TLAPS

-----------------------------------------------------------------------------
\* A set of numbers has a least one.
LEMMA LeastOfNat ==
  ASSUME NEW S, S \subseteq Nat, S # {}
  PROVE  \E m \in S : \A n \in S : m <= n
<1> DEFINE R == {ss \in Nat \X Nat : ss[1] < ss[2]}
<1>1. OpToRel(<, Nat) = R
  BY DEF OpToRel
<1>2. IsWellFoundedOn(R, Nat)
  BY Zenon, <1>1, NatLessThanWellFounded
<1>3. \E x \in S : \A y \in S : ~ (<<y, x>> \in R)
  <2> HIDE DEF R
  <2> QED BY <1>2, WFMin
<1>4. \A x, y \in Nat : ~ (<<y, x>> \in R) => x <= y
  OBVIOUS
<1> QED BY <1>3, <1>4

\* Min of a set of numbers is the least of them.
LEMMA MinOf ==
  ASSUME NEW S, S \subseteq Nat, S # {}
  PROVE  Min(S) \in S /\ \A n \in S : Min(S) <= n
BY LeastOfNat DEF Min

\* A set of processes has a last one.
LEMMA LastProc ==
  ASSUME NProcs \in Nat, NEW S, S \subseteq Proc, S # {}
  PROVE  \E z \in S : \A x \in S : x <= z
<1> DEFINE D == {NProcs - x : x \in S}
<1>1. S \subseteq Int /\ \A x \in S : x >= 0 /\ x < NProcs
  BY DEF Proc
<1>2. D \subseteq Nat /\ D # {}
  <2>1. ASSUME NEW x \in S PROVE NProcs - x \in Nat
    <3>1. x \in Int /\ x >= 0 /\ x < NProcs
      BY <1>1
    <3> QED BY <3>1
  <2> QED BY <2>1
<1>3. PICK d \in D : \A c \in D : d <= c
  <2> HIDE DEF D
  <2> QED BY <1>2, LeastOfNat
<1>4. PICK z \in S : d = NProcs - z
  BY <1>3
<1>5. \A x \in S : NProcs - z <= NProcs - x
  BY <1>3, <1>4
<1> QED BY <1>1, <1>4, <1>5

\* The processes are finitely many.
LEMMA ProcFinite ==
  ASSUME NProcs \in Nat
  PROVE  /\ IsFiniteSet(Proc)
         /\ \A S \in SUBSET Proc : IsFiniteSet(S) /\ Cardinality(S) \in Nat
<1>1. IsFiniteSet(Proc)
  BY FS_Interval DEF Proc
<1>2. ASSUME NEW S \in SUBSET Proc PROVE IsFiniteSet(S) /\ Cardinality(S) \in Nat
  BY <1>1, FS_Subset, FS_CardinalityType
<1> QED BY <1>1, <1>2

\* In turn, from 0 up.
Increasing(S, s) ==
  /\ s \in [1 .. Cardinality(S) -> S]
  /\ \A i, j \in 1 .. Cardinality(S) : i < j => s[i] < s[j]

\* One more process at the end.
LEMMA OneMoreInTurn ==
  ASSUME NProcs \in Nat, NEW S, S \subseteq Proc, NEW z \in S, \A x \in S : x <= z,
         NEW s, Increasing(S \ {z}, s)
  PROVE  \E t : Increasing(S, t)
<1> DEFINE n == Cardinality(S)
           t == [i \in 1 .. n |-> IF i = n THEN z ELSE s[i]]
<1>1. n \in Nat \ {0} /\ Cardinality(S \ {z}) = n - 1
  BY Zenon, ProcFinite, FS_RemoveElement, FS_EmptySet
<1>2. s \in [1 .. n - 1 -> S \ {z}] /\ \A i, j \in 1 .. n - 1 : i < j => s[i] < s[j]
  BY Zenon, <1>1 DEF Increasing
<1>3. t \in [1 .. n -> S]
  BY <1>1, <1>2
<1>4. ASSUME NEW i \in 1 .. n, NEW j \in 1 .. n, i < j PROVE t[i] < t[j]
  <2>1. i \in 1 .. n - 1 /\ t[i] = s[i] /\ s[i] \in S /\ s[i] # z
    BY <1>1, <1>2, <1>4
  <2>2. s[i] \in Int /\ z \in Int /\ s[i] <= z
    <3>1. s[i] \in Proc /\ z \in Proc /\ s[i] <= z
      BY <2>1
    <3>2. Proc \subseteq Int
      BY DEF Proc
    <3> QED BY <3>1, <3>2
  <2>3. CASE j = n
    BY <2>1, <2>2, <2>3
  <2>4. CASE j # n
    BY <1>1, <1>2, <1>4, <2>1, <2>4
  <2> QED BY <2>3, <2>4
<1> QED BY <1>3, <1>4 DEF Increasing

\* The loops over the processes are well defined.
LEMMA InTurnExists ==
  ASSUME NProcs \in Nat
  PROVE  \A S \in SUBSET Proc : \E s : Increasing(S, s)
<1> DEFINE Bad == {S \in SUBSET Proc : ~ \E s : Increasing(S, s)}
           N == {Cardinality(S) : S \in Bad}
<1>1. SUFFICES ASSUME Bad # {} PROVE FALSE
  OBVIOUS
<1>2. N \subseteq Nat /\ N # {}
  BY <1>1, ProcFinite
<1>3. PICK n \in N : \A k \in N : n <= k
  <2> HIDE DEF N
  <2> QED BY <1>2, LeastOfNat
<1>4. PICK S \in Bad : n = Cardinality(S)
  BY <1>3
<1>5. S # {}
  <2>1. SUFFICES ASSUME S = {} PROVE FALSE
    OBVIOUS
  <2>2. Cardinality(S) = 0
    BY <2>1, FS_EmptySet
  <2>3. [i \in 1 .. 0 |-> 0] \in [1 .. 0 -> S]
    OBVIOUS
  <2>4. Increasing(S, [i \in 1 .. 0 |-> 0])
    BY <2>2, <2>3 DEF Increasing
  <2> QED BY <1>4, <2>4
<1>6. PICK z \in S : \A x \in S : x <= z
  BY <1>4, <1>5, LastProc
<1>7. S \ {z} \in SUBSET Proc /\ Cardinality(S \ {z}) = n - 1 /\ n \in Nat
  BY <1>4, ProcFinite, FS_RemoveElement
<1>8. S \ {z} \notin Bad
  <2>1. SUFFICES ASSUME S \ {z} \in Bad PROVE FALSE
    OBVIOUS
  <2>2. n - 1 \in N
    BY <1>7, <2>1
  <2> HIDE DEF N
  <2> QED BY <1>3, <1>7, <2>2
<1>9. PICK s : Increasing(S \ {z}, s)
  BY <1>7, <1>8
<1>10. \E t : Increasing(S, t)
  BY <1>4, <1>6, <1>9, OneMoreInTurn
<1> QED BY <1>4, <1>10

\* A loop over some processes comes to each of them once.
LEMMA InTurnIsAll ==
  ASSUME NProcs \in Nat, NEW S, S \subseteq Proc
  PROVE  /\ Cardinality(S) \in Nat
         /\ InTurn(S) \in [1 .. Cardinality(S) -> S]
         /\ \A i, j \in 1 .. Cardinality(S) : InTurn(S)[i] = InTurn(S)[j] => i = j
         /\ \A q \in S : \E i \in 1 .. Cardinality(S) : InTurn(S)[i] = q
<1> DEFINE n == Cardinality(S)
           s == InTurn(S)
<1>1. IsFiniteSet(S) /\ n \in Nat
  BY ProcFinite
<1>2. s \in [1 .. n -> S] /\ \A i, j \in 1 .. n : i < j => s[i] < s[j]
  BY InTurnExists DEF InTurn, Increasing
<1> HIDE DEF s
<1>3. ASSUME NEW i \in 1 .. n, NEW j \in 1 .. n, s[i] = s[j] PROVE i = j
  <2>1. s[i] \in Int /\ s[j] \in Int
    <3>1. s[i] \in Proc /\ s[j] \in Proc
      BY <1>2, <1>3
    <3>2. Proc \subseteq Int
      BY DEF Proc
    <3> QED BY <3>1, <3>2
  <2> QED BY <1>1, <1>2, <1>3, <2>1
<1>4. s \in Injection(1 .. n, S)
  BY <1>2, <1>3 DEF Injection, IsInjective
<1>5. Cardinality(1 .. n) = n
  BY <1>1, FS_Interval
<1>6. s \in Surjection(1 .. n, S)
  BY <1>1, <1>4, <1>5, FS_Injection
<1> QED BY <1>1, <1>2, <1>3, <1>6 DEF s, Surjection

\* One sequence after another.
Joined(S, s, t, u) ==
  /\ u \in Seq(S) /\ Len(u) = Len(s) + Len(t)
  /\ \A j \in 1 .. Len(s) + Len(t) : u[j] = IF j <= Len(s) THEN s[j] ELSE t[j - Len(s)]

\* Which is what the concatenation is.
LEMMA JoinedIs ==
  ASSUME NEW S, NEW s, NEW t, s \in Seq(S), t \in Seq(S)
  PROVE  Joined(S, s, t, s \o t)
BY Zenon, ConcatProperties DEF Joined

\* A stretch of a sequence.
Stretch(S, s, m, n, u) ==
  /\ u \in Seq(S) /\ Len(u) = IF m <= n THEN n - m + 1 ELSE 0
  /\ \A j \in 1 .. n - m + 1 : u[j] = s[m + j - 1]

\* Which is what SubSeq() gives.
LEMMA StretchIs ==
  ASSUME NEW S, NEW s, NEW m, NEW n, m \in Int, n \in Int, \A j \in m .. n : s[j] \in S
  PROVE  Stretch(S, s, m, n, SubSeq(s, m, n))
<1>1. /\ SubSeq(s, m, n) \in Seq(S)
      /\ Len(SubSeq(s, m, n)) = IF m <= n THEN n - m + 1 ELSE 0
      /\ \A j \in 1 .. n - m + 1 : SubSeq(s, m, n)[j] = s[m + j - 1]
  BY SMTT(30), SubSeqProperties
<1> QED BY Zenon, <1>1 DEF Stretch

\* The first of a sequence removed: RemoveAt.
LEMMA RemoveAtFacts ==
  ASSUME NEW S, NEW s, NEW i, s \in Seq(S), i \in 1 .. Len(s)
  PROVE  /\ RemoveAt(s, i) \in Seq(S)
         /\ Len(RemoveAt(s, i)) = Len(s) - 1
         /\ \A j \in 1 .. Len(s) - 1 : RemoveAt(s, i)[j] = IF j < i THEN s[j] ELSE s[j + 1]
<1> DEFINE a == SubSeq(s, 1, i - 1)
           b == SubSeq(s, i + 1, Len(s))
<1>1. Len(s) \in Nat /\ \A j \in 1 .. Len(s) : s[j] \in S
  OBVIOUS
<1>2. /\ a \in Seq(S) /\ Len(a) = i - 1
      /\ \A j \in 1 .. i - 1 : a[j] = s[j]
  <2>1. \A j \in 1 .. i - 1 : s[j] \in S
    BY <1>1
  <2>2. /\ SubSeq(s, 1, i - 1) \in Seq(S)
        /\ Len(SubSeq(s, 1, i - 1)) = IF 1 <= i - 1 THEN i - 1 - 1 + 1 ELSE 0
        /\ \A j \in 1 .. i - 1 - 1 + 1 : SubSeq(s, 1, i - 1)[j] = s[1 + j - 1]
    <3>1. Stretch(S, s, 1, i - 1, SubSeq(s, 1, i - 1))
      BY SMTT(30), <2>1, StretchIs
    <3> QED BY Zenon, <3>1 DEF Stretch
  <2> QED BY <1>1, <2>2
<1>3. /\ b \in Seq(S) /\ Len(b) = Len(s) - i
      /\ \A j \in 1 .. Len(s) - i : b[j] = s[i + j]
  <2>1. \A j \in i + 1 .. Len(s) : s[j] \in S
    BY <1>1
  <2>2. /\ SubSeq(s, i + 1, Len(s)) \in Seq(S)
        /\ Len(SubSeq(s, i + 1, Len(s))) = IF i + 1 <= Len(s) THEN Len(s) - (i + 1) + 1 ELSE 0
        /\ \A j \in 1 .. Len(s) - (i + 1) + 1 : SubSeq(s, i + 1, Len(s))[j] = s[i + 1 + j - 1]
    <3>1. Stretch(S, s, i + 1, Len(s), SubSeq(s, i + 1, Len(s)))
      BY SMTT(30), <1>1, <2>1, StretchIs
    <3> QED BY Zenon, <3>1 DEF Stretch
  <2> QED BY <1>1, <2>2
<1>4. RemoveAt(s, i) = a \o b
  BY DEF RemoveAt
<1> HIDE DEF a, b
<1>5. /\ a \o b \in Seq(S) /\ Len(a \o b) = Len(a) + Len(b)
      /\ \A j \in 1 .. Len(a) + Len(b) : (a \o b)[j] = IF j <= Len(a) THEN a[j] ELSE b[j - Len(a)]
  BY Zenon, <1>2, <1>3, ConcatProperties
<1>6. Len(a) + Len(b) = Len(s) - 1
  BY <1>1, <1>2, <1>3
<1>7. ASSUME NEW j \in 1 .. Len(s) - 1
      PROVE  (a \o b)[j] = IF j < i THEN s[j] ELSE s[j + 1]
  <2>1. j \in 1 .. Len(a) + Len(b)
    BY <1>6
  <2>2. CASE j < i
    BY <1>2, <1>5, <2>1, <2>2
  <2>3. CASE ~(j < i)
    <3>1. j - Len(a) \in 1 .. Len(s) - i /\ i + (j - Len(a)) = j + 1 /\ ~(j <= Len(a))
      BY <1>1, <1>2, <2>3
    <3> QED BY Zenon, <1>3, <1>5, <2>1, <2>3, <3>1
  <2> QED BY <2>2, <2>3
<1> QED BY <1>4, <1>5, <1>6, <1>7

\* No entry stands twice in a queue.
Once(s) == \A i, j \in 1 .. Len(s) : s[i] = s[j] => i = j

\* What stands after x, which is the k-th.
TailFrom(s, x, k) ==
  /\ After(s, x) \in Seq(Ids) /\ Len(After(s, x)) = Len(s) - k
  /\ \A j \in 1 .. Len(s) - k : After(s, x)[j] = s[k + j]

\* What comes after an entry of a queue in which no entry stands twice.
LEMMA AfterFacts ==
  ASSUME NEW s, NEW k, NEW x, s \in Seq(Ids), k \in 1 .. Len(s), s[k] = x, Once(s)
  PROVE  TailFrom(s, x, k)
<1>1. Len(s) \in Nat /\ DOMAIN s = 1 .. Len(s) /\ \A j \in 1 .. Len(s) : s[j] \in Ids
  OBVIOUS
<1>2. {i \in DOMAIN s : s[i] = s[k]} = {k}
  <2>1. \A j \in 1 .. Len(s) : s[j] = s[k] => j = k
    BY Zenon DEF Once
  <2> QED BY <1>1, <2>1
<1>3. Min({k}) = k
  <2>1. {k} \subseteq Nat /\ {k} # {}
    OBVIOUS
  <2>2. Min({k}) \in {k}
    BY <2>1, MinOf
  <2> QED BY <2>2
<1>4. After(s, x) = SubSeq(s, k + 1, Len(s))
  BY <1>2, <1>3 DEF After
<1>5. /\ SubSeq(s, k + 1, Len(s)) \in Seq(Ids)
      /\ Len(SubSeq(s, k + 1, Len(s))) = IF k + 1 <= Len(s) THEN Len(s) - (k + 1) + 1 ELSE 0
      /\ \A j \in 1 .. Len(s) - (k + 1) + 1 : SubSeq(s, k + 1, Len(s))[j] = s[k + 1 + j - 1]
  <2>1. \A j \in k + 1 .. Len(s) : s[j] \in Ids
    BY <1>1
  <2>2. Stretch(Ids, s, k + 1, Len(s), SubSeq(s, k + 1, Len(s)))
    BY SMTT(30), <1>1, <2>1, StretchIs
  <2> QED BY Zenon, <2>2 DEF Stretch
<1>6. ASSUME NEW j \in 1 .. Len(s) - k PROVE SubSeq(s, k + 1, Len(s))[j] = s[k + j]
  <2>1. j \in 1 .. Len(s) - (k + 1) + 1 /\ k + 1 + j - 1 = k + j
    BY <1>1
  <2> QED BY <1>5, <2>1
<1>7. Len(SubSeq(s, k + 1, Len(s))) = Len(s) - k
  <2>1. PICK n \in Nat : n = Len(s)
    BY Zenon, <1>1
  <2>2. k \in 1 .. n
    BY <2>1
  <2>3. (IF k + 1 <= n THEN n - (k + 1) + 1 ELSE 0) = n - k
    BY <2>2
  <2> QED BY <1>5, <2>1, <2>3
<1> QED BY Zenon, <1>4, <1>5, <1>6, <1>7 DEF TailFrom

\* Something put in front.
PutFirst(S, s, x, t) ==
  /\ t \in Seq(S) /\ Len(t) = Len(s) + 1 /\ t[1] = x
  /\ \A j \in 1 .. Len(s) : t[j + 1] = s[j]
  /\ Head(t) = x /\ t # << >> /\ Tail(t) = s

\* Which is what putting <<x>> before s gives.
LEMMA InFront ==
  ASSUME NEW S, NEW s, NEW x, s \in Seq(S), x \in S
  PROVE  PutFirst(S, s, x, <<x>> \o s)
<1>1. Len(s) \in Nat /\ <<x>> \in Seq(S) /\ Len(<<x>>) = 1 /\ <<x>>[1] = x
  OBVIOUS
<1>2. /\ <<x>> \o s \in Seq(S) /\ Len(<<x>> \o s) = Len(<<x>>) + Len(s)
      /\ \A j \in 1 .. Len(<<x>>) + Len(s) :
           (<<x>> \o s)[j] = IF j <= Len(<<x>>) THEN <<x>>[j] ELSE s[j - Len(<<x>>)]
  <2>1. Joined(S, <<x>>, s, <<x>> \o s)
    BY Zenon, <1>1, JoinedIs
  <2> QED BY Zenon, <2>1 DEF Joined
<1>3. <<x>> \o s # << >> /\ Head(<<x>> \o s) = x
  BY <1>1, <1>2
<1>4. PICK t : t = <<x>> \o s
  OBVIOUS
<1>5. t \in Seq(S) /\ t # << >> /\ Len(t) = Len(s) + 1 /\ \A j \in 1 .. Len(s) : t[j + 1] = s[j]
  BY <1>1, <1>2, <1>3, <1>4
<1>6. /\ Tail(t) \in Seq(S) /\ Len(Tail(t)) = Len(t) - 1
      /\ \A j \in 1 .. Len(Tail(t)) : Tail(t)[j] = t[j + 1]
  BY <1>5, HeadTailProperties
<1>7. Tail(t) = s
  BY <1>1, <1>5, <1>6, SeqEqual
<1>8. t[1] = x
  BY <1>1, <1>2, <1>4
<1> QED BY Zenon, <1>3, <1>4, <1>5, <1>7, <1>8 DEF PutFirst

\* The remainder by MaxMsgs.
LEMMA ModIds ==
  ASSUME NEW n \in Nat \ {0}, NEW a \in Nat
  PROVE  a % n \in 0 .. n - 1
OBVIOUS

\* A number and the number n more have the same remainder.
LEMMA ModTurn ==
  ASSUME NEW n \in Nat \ {0}, NEW a \in 0 .. n - 1
  PROVE  a % n = a /\ (a + n) % n = a
<1>1. a % n = a
  OBVIOUS
<1>2. (a + n) % n = a
  <2> DEFINE x == a + n
             q == x \div n
             r == x % n
  <2>1. r \in 0 .. n - 1 /\ x = n * q + r /\ q \in Int
    OBVIOUS
  <2> HIDE DEF q, r
  <2>2. CASE q <= 0
    <3>1. PICK d \in Nat : q = 0 - d
      <4>1. 0 - q \in Nat
        BY <2>1, <2>2
      <4> QED BY <2>1, <4>1
    <3>2. n * q = 0 - n * d /\ n * d >= 0
      BY <3>1
    <3> QED BY <2>1, <3>2
  <2>3. CASE q >= 2
    <3>1. PICK d \in Nat : q = 2 + d
      <4>1. q - 2 \in Nat
        BY <2>1, <2>3
      <4> QED BY <2>1, <4>1
    <3>2. n * q = n + n + n * d /\ n * d >= 0
      BY <3>1
    <3> QED BY <2>1, <3>2
  <2>4. CASE q = 1
    BY <2>1, <2>4 DEF r
  <2> QED BY <2>1, <2>2, <2>3, <2>4
<1> QED BY <1>1, <1>2

Peers(p) == Proc \ {p}
SentMsg  == [tag : Int, nbytes : Nat]
TaskType == [call : {"send", "recv", "peek"}, node : Proc, msg : 0 .. MaxMsgs]

\* Every variable holds a value of its type.
Types ==
  /\ todo \in [Proc -> Seq(CallType)]
  /\ pc \in [Proc -> {"run", "push", "block", "end"}]
  /\ handle \in [Proc -> Seq(0 .. MaxMsgs)]
  /\ waited \in [Proc -> Seq(Seq(EntryType))]
  /\ msg_list \in [Proc -> [Ids -> EntryType]]
  /\ mid \in [Proc -> 0 .. MaxMsgs - 1]
  /\ send_q \in [Proc -> [Proc -> Seq(Ids)]]
  /\ msg_q \in [Proc -> [Proc -> Seq(Ids)]]
  /\ recv_q \in [Proc -> [Proc \cup {Wild} -> Seq(Ids)]]
  /\ ractive \in [Proc -> [Proc -> BOOLEAN]]
  /\ wactive \in [Proc -> [Proc -> BOOLEAN]]
  /\ work \in [Proc -> Seq(TaskType)]
  /\ wire \in [Proc -> [Proc -> Seq(Nat \X Nat)]]
  /\ avail \in [Proc -> [Proc -> Nat]]
  /\ sigio \in [Proc -> BOOLEAN]
  /\ derailed \in [Proc -> BOOLEAN]
  /\ sent \in [Proc -> [Proc -> Seq(SentMsg)]]

\* What a process has for another.
LEMMA RowTypes ==
  ASSUME Types, NEW p \in Proc, NEW q \in Proc
  PROVE  /\ msg_list[p] \in [Ids -> EntryType] /\ handle[p] \in Seq(0 .. MaxMsgs)
         /\ send_q[p][q] \in Seq(Ids) /\ msg_q[p][q] \in Seq(Ids)
         /\ recv_q[p][q] \in Seq(Ids) /\ recv_q[p][Wild] \in Seq(Ids)
         /\ wire[p][q] \in Seq(Nat \X Nat) /\ avail[p][q] \in Nat /\ sent[p][q] \in Seq(SentMsg)
<1>1. /\ msg_list \in [Proc -> [Ids -> EntryType]] /\ handle \in [Proc -> Seq(0 .. MaxMsgs)]
      /\ send_q \in [Proc -> [Proc -> Seq(Ids)]] /\ msg_q \in [Proc -> [Proc -> Seq(Ids)]]
      /\ recv_q \in [Proc -> [Proc \cup {Wild} -> Seq(Ids)]]
  BY Zenon DEF Types
<1>2. /\ wire \in [Proc -> [Proc -> Seq(Nat \X Nat)]] /\ avail \in [Proc -> [Proc -> Nat]]
      /\ sent \in [Proc -> [Proc -> Seq(SentMsg)]]
  BY Zenon DEF Types
<1>3. q \in Proc \cup {Wild} /\ Wild \in Proc \cup {Wild}
  BY Zenon
<1>4. /\ msg_list[p] \in [Ids -> EntryType] /\ handle[p] \in Seq(0 .. MaxMsgs)
      /\ send_q[p][q] \in Seq(Ids) /\ msg_q[p][q] \in Seq(Ids)
  BY Zenon, <1>1
<1>5. recv_q[p][q] \in Seq(Ids) /\ recv_q[p][Wild] \in Seq(Ids)
  BY Zenon, <1>1, <1>3
<1>6. wire[p][q] \in Seq(Nat \X Nat) /\ avail[p][q] \in Nat /\ sent[p][q] \in Seq(SentMsg)
  BY Zenon, <1>2
<1> QED BY Zenon, <1>4, <1>5, <1>6

\* The entry create_msg_entry() takes is a free one.
LEMMA NextIdIsFree ==
  ASSUME TcpMsgAssumption, Types, NEW p \in Proc, EntryLeft(p)
  PROVE  /\ NextId(p) \in Ids /\ ~msg_list[p][NextId(p)].used
         /\ NextId(p) - 1 \in 0 .. MaxMsgs - 1
<1> DEFINE free == {k \in 1 .. MaxMsgs : ~msg_list[p][1 + ((mid[p] + k) % MaxMsgs)].used}
<1>1. MaxMsgs \in Nat \ {0} /\ mid[p] \in 0 .. MaxMsgs - 1
  BY DEF TcpMsgAssumption, Types
<1>2. PICK m \in 1 .. MaxMsgs : ~msg_list[p][m].used
  BY DEF EntryLeft
<1>3. free # {}
  <2>1. CASE m - 1 > mid[p]
    <3>1. m - 1 - mid[p] \in 1 .. MaxMsgs /\ mid[p] + (m - 1 - mid[p]) = m - 1 /\ m - 1 \in 0 .. MaxMsgs - 1
      BY <1>1, <2>1
    <3>2. (m - 1) % MaxMsgs = m - 1
      BY <1>1, <3>1, ModTurn
    <3>3. 1 + ((mid[p] + (m - 1 - mid[p])) % MaxMsgs) = 1 + (m - 1)
      BY <3>1, <3>2, Zenon
    <3>4. 1 + (m - 1) = m
      BY <1>1
    <3> QED BY <1>2, <3>1, <3>3, <3>4
  <2>2. CASE ~(m - 1 > mid[p])
    <3>1. /\ m - 1 - mid[p] + MaxMsgs \in 1 .. MaxMsgs
          /\ mid[p] + (m - 1 - mid[p] + MaxMsgs) = m - 1 + MaxMsgs /\ m - 1 \in 0 .. MaxMsgs - 1
      BY <1>1, <2>2
    <3>2. (m - 1 + MaxMsgs) % MaxMsgs = m - 1
      BY <1>1, <3>1, ModTurn
    <3>3. 1 + ((mid[p] + (m - 1 - mid[p] + MaxMsgs)) % MaxMsgs) = 1 + (m - 1)
      BY <3>1, <3>2, Zenon
    <3>4. 1 + (m - 1) = m
      BY <1>1
    <3> QED BY <1>2, <3>1, <3>3, <3>4
  <2> QED BY <2>1, <2>2
<1>4. Min(free) \in free
  <2>1. free \subseteq Nat
    OBVIOUS
  <2> HIDE DEF free
  <2> QED BY <1>3, <2>1, MinOf
<1>5. NextId(p) = 1 + ((mid[p] + Min(free)) % MaxMsgs)
  BY DEF NextId
<1>6. PICK k : k = Min(free)
  OBVIOUS
<1>7. k \in 1 .. MaxMsgs /\ ~msg_list[p][1 + ((mid[p] + k) % MaxMsgs)].used
  BY Zenon, <1>4, <1>6
<1>8. mid[p] + k \in Nat
  <2>1. \A a \in Nat, b \in 1 .. MaxMsgs : a + b \in Nat
    BY <1>1
  <2>2. mid[p] \in Nat
    BY <1>1
  <2> QED BY Zenon, <1>7, <2>1, <2>2
<1>9. (mid[p] + k) % MaxMsgs \in 0 .. MaxMsgs - 1
  BY <1>1, <1>8, ModIds
<1> HIDE DEF free
<1> QED BY <1>1, <1>5, <1>6, <1>7, <1>9 DEF Ids

\* After a call, fewer are left that name handles, and more handles.
LEMMA NamesGivenNext ==
  ASSUME NEW calls \in Seq(CallType), NEW g \in Nat, NamesGiven(calls, g), calls # << >>
  PROVE  /\ Head(calls).op \in {"wait", "test"} => Head(calls).i <= g
         /\ Head(calls).op \in {"asend", "arecv"} => NamesGiven(Tail(calls), g + 1)
         /\ NamesGiven(Tail(calls), g) \/ Head(calls).op \in {"asend", "arecv"}
<1>1. /\ Len(calls) \in Nat \ {0} /\ Head(calls) = calls[1] /\ calls[1] \in CallType
      /\ Tail(calls) \in Seq(CallType) /\ Len(Tail(calls)) = Len(calls) - 1
      /\ \A k \in 1 .. Len(calls) - 1 : Tail(calls)[k] = calls[k + 1]
  OBVIOUS
<1>2. \A k \in 1 .. Len(calls) : calls[k].op \in {"wait", "test"} => calls[k].i <= g + Given(calls, k - 1)
  BY DEF NamesGiven
<1>3. Given(calls, 0) = 0
  <2>1. {k \in 1 .. 0 : calls[k].op \in {"asend", "arecv"}} = {}
    OBVIOUS
  <2> QED BY <2>1, FS_EmptySet DEF Given
<1>4. Head(calls).op \in {"wait", "test"} => Head(calls).i <= g
  <2>1. 1 \in 1 .. Len(calls) /\ 1 - 1 = 0
    BY <1>1
  <2>2. calls[1].op \in {"wait", "test"} => calls[1].i <= g + Given(calls, 0)
    BY <1>2, <2>1
  <2> QED BY <1>1, <1>3, <2>2
<1> DEFINE one == IF calls[1].op \in {"asend", "arecv"} THEN 1 ELSE 0
<1>5. ASSUME NEW k \in 1 .. Len(calls) - 1
      PROVE  Given(calls, k) = one + Given(Tail(calls), k - 1) /\ Given(Tail(calls), k - 1) \in Nat
  <2> DEFINE A == {n \in 1 .. k : calls[n].op \in {"asend", "arecv"}}
             B == {n \in 1 .. k - 1 : Tail(calls)[n].op \in {"asend", "arecv"}}
             f == [n \in B |-> n + 1]
  <2>1. IsFiniteSet(1 .. k) /\ IsFiniteSet(1 .. k - 1)
    BY SMTT(30), <1>1, FS_Interval
  <2>2. IsFiniteSet(A) /\ IsFiniteSet(B) /\ Cardinality(A) \in Nat /\ Cardinality(B) \in Nat
    BY <2>1, FS_Subset, FS_CardinalityType
  <2>3. \A n \in 1 .. k - 1 : n \in B <=> n + 1 \in A
    BY <1>1
  <2>4. f \in Bijection(B, A \ {1})
    <3>1. f \in [B -> A \ {1}]
      BY <2>3
    <3>2. \A m, n \in B : f[m] = f[n] => m = n
      OBVIOUS
    <3>3. ASSUME NEW n \in A \ {1} PROVE \E m \in B : f[m] = n
      <4>1. n - 1 \in 1 .. k - 1 /\ n - 1 + 1 = n
        BY <3>3
      <4>2. n - 1 \in B
        BY <2>3, <4>1
      <4> QED BY <4>1, <4>2
    <3> HIDE DEF f, A, B
    <3> QED BY <3>1, <3>2, <3>3 DEF Bijection, Injection, Surjection, IsInjective
  <2>5. Cardinality(A \ {1}) = Cardinality(B)
    <3> HIDE DEF f, A, B
    <3> QED BY <2>2, <2>4, FS_Bijection DEF ExistsBijection
  <2>6. 1 \in A <=> calls[1].op \in {"asend", "arecv"}
    BY <1>1
  <2>7. Cardinality(A \ {1}) = Cardinality(A) - one
    <3>1. Cardinality(A \ {1}) = IF 1 \in A THEN Cardinality(A) - 1 ELSE Cardinality(A)
      <4> HIDE DEF A
      <4> QED BY <2>2, FS_RemoveElement
    <3> HIDE DEF A
    <3> QED BY <2>2, <2>6, <3>1
  <2>8. Given(calls, k) = Cardinality(A) /\ Given(Tail(calls), k - 1) = Cardinality(B)
    BY DEF Given
  <2> HIDE DEF A, B, one
  <2>9. one \in Nat
    BY DEF one
  <2> QED BY <2>2, <2>5, <2>7, <2>8, <2>9
<1>6. ASSUME NEW k \in 1 .. Len(calls) - 1, Tail(calls)[k].op \in {"wait", "test"}
      PROVE  Tail(calls)[k].i <= (g + one) + Given(Tail(calls), k - 1)
  <2>1. k + 1 \in 1 .. Len(calls) /\ Tail(calls)[k] = calls[k + 1] /\ k + 1 - 1 = k
    BY <1>1
  <2>2. calls[k + 1].i <= g + Given(calls, k)
    BY <1>2, <1>6, <2>1
  <2>3. one \in Nat /\ Given(calls, k) = one + Given(Tail(calls), k - 1) /\ Given(Tail(calls), k - 1) \in Nat
    BY <1>5
  <2>4. g + Given(calls, k) = (g + one) + Given(Tail(calls), k - 1)
    BY <2>3
  <2> QED BY <2>1, <2>2, <2>4
<1>7. NamesGiven(Tail(calls), g + one)
  BY <1>1, <1>6 DEF NamesGiven
<1>8. calls[1].op \in {"asend", "arecv"} => one = 1
  OBVIOUS
<1>9. calls[1].op \notin {"asend", "arecv"} => g + one = g
  OBVIOUS
<1> QED BY <1>1, <1>4, <1>7, <1>8, <1>9

\* The calls of one loop of the handler.
CallsTo(call, S, K) ==
  /\ K \in Seq(TaskType) /\ Len(K) \in Nat
  /\ \A i \in 1 .. Len(K) : K[i].call = call /\ K[i].node \in S /\ K[i].msg = 0
  /\ \A i, j \in 1 .. Len(K) : K[i].node = K[j].node => i = j
  /\ \A q \in S : \E i \in 1 .. Len(K) : K[i].node = q

\* They are one call for each of the sockets.
LEMMA TasksFacts ==
  ASSUME TcpMsgAssumption, NEW call, NEW S, call \in {"send", "recv", "peek"}, S \subseteq Proc
  PROVE  CallsTo(call, S, Tasks(call, S))
<1> DEFINE n == Cardinality(S)
           s == InTurn(S)
           K == Tasks(call, S)
<1>1. /\ n \in Nat /\ s \in [1 .. n -> S]
      /\ \A i, j \in 1 .. n : s[i] = s[j] => i = j
      /\ \A q \in S : \E i \in 1 .. n : s[i] = q
  BY InTurnIsAll DEF TcpMsgAssumption
<1>2. K = [i \in 1 .. n |-> Task(call, s[i])]
  BY DEF Tasks
<1> HIDE DEF n, s, K
<1>3. \A i \in 1 .. n : K[i] \in TaskType /\ K[i].call = call /\ K[i].node = s[i] /\ K[i].msg = 0
  <2>1. 0 \in 0 .. MaxMsgs
    BY DEF TcpMsgAssumption
  <2> QED BY <1>1, <1>2, <2>1 DEF Task, TaskType
<1>4. K \in [1 .. n -> TaskType]
  BY <1>2, <1>3
<1>5. K \in Seq(TaskType) /\ Len(K) = n
  <2>1. K \in Seq(TaskType)
    BY <1>1, <1>4, SeqDef
  <2> QED BY <1>1, <1>4, <2>1, LenProperties
<1>6. ASSUME NEW i \in 1 .. Len(K), NEW j \in 1 .. Len(K), K[i].node = K[j].node
      PROVE  i = j
  <2>1. i \in 1 .. n /\ j \in 1 .. n
    BY <1>5
  <2>2. s[i] = s[j]
    BY <1>3, <1>6, <2>1
  <2> QED BY <1>1, <2>1, <2>2
<1>7. ASSUME NEW q \in S PROVE \E i \in 1 .. Len(K) : K[i].node = q
  <2>1. PICK i \in 1 .. n : s[i] = q
    BY <1>1
  <2>2. i \in 1 .. Len(K) /\ K[i].node = q
    BY <1>3, <1>5, <2>1
  <2> QED BY <2>2
<1>8. \A i \in 1 .. Len(K) : K[i].call = call /\ K[i].node \in S /\ K[i].msg = 0
  BY <1>1, <1>3, <1>5
<1>9. Len(K) \in Nat
  BY <1>1, <1>5
<1>10. CallsTo(call, S, K)
  BY Zenon, <1>5, <1>6, <1>7, <1>8, <1>9 DEF CallsTo
<1> QED BY Zenon, <1>10 DEF K

\* The calls of a run of the handler.
LEMMA HandlerWorkFacts ==
  ASSUME TcpMsgAssumption, Types, NEW p \in Proc, NEW wild \in BOOLEAN
  PROVE  LET K == HandlerWork(p, wild)
         IN  /\ K \in Seq(TaskType) /\ Len(K) \in Nat
             /\ \A i \in 1 .. Len(K) :
                  /\ K[i].msg = 0 /\ K[i].node \in Proc
                  /\ \/ K[i].call = "send" /\ wactive[p][K[i].node]
                     \/ K[i].call = "recv" /\ ractive[p][K[i].node]
                     \/ K[i].call = "peek" /\ wild /\ K[i].node # p
                  /\ K[i].call = "peek" => \A j \in 1 .. Len(K) : i < j => K[j].call = "peek"
             /\ \A i, j \in 1 .. Len(K) : K[i].call = K[j].call /\ K[i].node = K[j].node => i = j
             /\ \A q \in Proc :
                  /\ wactive[p][q] => \E i \in 1 .. Len(K) : K[i].call = "send" /\ K[i].node = q
                  /\ ractive[p][q] => \E i \in 1 .. Len(K) : K[i].call = "recv" /\ K[i].node = q
                  /\ wild /\ q # p => \E i \in 1 .. Len(K) : K[i].call = "peek" /\ K[i].node = q
<1> DEFINE SA == {q \in Proc : wactive[p][q]}
           SB == {q \in Proc : ractive[p][q]}
           SC == IF wild THEN Proc \ {p} ELSE {}
<1>1. PICK A : A = Tasks("send", SA)
  OBVIOUS
<1>2. PICK B : B = Tasks("recv", SB)
  OBVIOUS
<1>3. PICK C : C = IF wild THEN Tasks("peek", Proc \ {p}) ELSE << >>
  OBVIOUS
<1>4. /\ A \in Seq(TaskType) /\ Len(A) \in Nat
      /\ \A i \in 1 .. Len(A) : A[i].call = "send" /\ A[i].node \in SA /\ A[i].msg = 0
      /\ \A i, j \in 1 .. Len(A) : A[i].node = A[j].node => i = j
      /\ \A q \in SA : \E i \in 1 .. Len(A) : A[i].node = q
  <2>1. SA \subseteq Proc
    OBVIOUS
  <2> HIDE DEF SA
  <2>2. "send" \in {"send", "recv", "peek"}
    OBVIOUS
  <2>3. CallsTo("send", SA, A)
    BY SMTT(30), <1>1, <2>1, <2>2, TasksFacts
  <2> QED BY Zenon, <2>3 DEF CallsTo
<1>5. /\ B \in Seq(TaskType) /\ Len(B) \in Nat
      /\ \A i \in 1 .. Len(B) : B[i].call = "recv" /\ B[i].node \in SB /\ B[i].msg = 0
      /\ \A i, j \in 1 .. Len(B) : B[i].node = B[j].node => i = j
      /\ \A q \in SB : \E i \in 1 .. Len(B) : B[i].node = q
  <2>1. SB \subseteq Proc
    OBVIOUS
  <2> HIDE DEF SB
  <2>2. "recv" \in {"send", "recv", "peek"}
    OBVIOUS
  <2>3. CallsTo("recv", SB, B)
    BY SMTT(30), <1>2, <2>1, <2>2, TasksFacts
  <2> QED BY Zenon, <2>3 DEF CallsTo
<1>6. /\ C \in Seq(TaskType) /\ Len(C) \in Nat
      /\ \A i \in 1 .. Len(C) : C[i].call = "peek" /\ C[i].node \in SC /\ C[i].msg = 0
      /\ \A i, j \in 1 .. Len(C) : C[i].node = C[j].node => i = j
      /\ \A q \in SC : \E i \in 1 .. Len(C) : C[i].node = q
  <2>1. CASE wild
    <3>1. Proc \ {p} \subseteq Proc /\ SC = Proc \ {p} /\ C = Tasks("peek", Proc \ {p})
      BY <1>3, <2>1
    <3> DEFINE Z == Proc \ {p}
    <3>2. Z \subseteq Proc /\ SC = Z /\ C = Tasks("peek", Z)
      BY <3>1
    <3> HIDE DEF SC, Z
    <3>3. "peek" \in {"send", "recv", "peek"}
      OBVIOUS
    <3>4. CallsTo("peek", SC, C)
      BY SMTT(30), <3>2, <3>3, TasksFacts
    <3> QED BY Zenon, <3>4 DEF CallsTo
  <2>2. CASE ~wild
    <3>1. C = << >> /\ SC = {} /\ << >> \in Seq(TaskType) /\ Len(<< >>) = 0
      BY <1>3, <2>2
    <3> QED BY <3>1
  <2> QED BY <2>1, <2>2
<1>7. PICK D : D = A \o B
  OBVIOUS
<1>8. /\ D \in Seq(TaskType) /\ Len(D) = Len(A) + Len(B)
      /\ \A i \in 1 .. Len(A) + Len(B) : D[i] = IF i <= Len(A) THEN A[i] ELSE B[i - Len(A)]
  <2>1. Joined(TaskType, A, B, D)
    BY Zenon, <1>4, <1>5, <1>7, JoinedIs
  <2> QED BY Zenon, <2>1 DEF Joined
<1>9. PICK K : K = D \o C
  OBVIOUS
<1>10. /\ K \in Seq(TaskType) /\ Len(K) = Len(D) + Len(C)
       /\ \A i \in 1 .. Len(D) + Len(C) : K[i] = IF i <= Len(D) THEN D[i] ELSE C[i - Len(D)]
  <2>1. Joined(TaskType, D, C, K)
    BY Zenon, <1>6, <1>8, <1>9, JoinedIs
  <2> QED BY Zenon, <2>1 DEF Joined
<1>11. K = HandlerWork(p, wild)
  <2>1. HandlerWork(p, wild) = A \o B \o C
    BY <1>1, <1>2, <1>3 DEF HandlerWork
  <2> QED BY <1>7, <1>9, <2>1
<1>12. PICK a \in Nat : a = Len(A)
  BY <1>4
<1>13. PICK b \in Nat : b = Len(B)
  BY <1>5
<1>14. PICK c \in Nat : c = Len(C)
  BY <1>6
<1>15. Len(K) = a + b + c /\ Len(D) = a + b
  BY <1>8, <1>10, <1>12, <1>13, <1>14
<1>16. ASSUME NEW i \in 1 .. a + b + c
       PROVE  /\ i <= a => K[i] = A[i]
              /\ i > a /\ i <= a + b => K[i] = B[i - a] /\ i - a \in 1 .. b
              /\ i > a + b => K[i] = C[i - a - b] /\ i - a - b \in 1 .. c
  <2>1. K[i] = IF i <= a + b THEN D[i] ELSE C[i - (a + b)]
    BY <1>10, <1>14, <1>15
  <2>2. i <= a + b => D[i] = IF i <= a THEN A[i] ELSE B[i - a]
    BY <1>8, <1>12, <1>13
  <2>3. i - (a + b) = i - a - b
    OBVIOUS
  <2>4. i <= a => K[i] = A[i]
    BY <2>1, <2>2
  <2>5. i > a /\ i <= a + b => K[i] = B[i - a] /\ i - a \in 1 .. b
    BY <2>1, <2>2
  <2>6. i > a + b => K[i] = C[i - a - b] /\ i - a - b \in 1 .. c
    BY <2>1, <2>3
  <2> QED BY <2>4, <2>5, <2>6
<1>17. ASSUME NEW i \in 1 .. a + b + c
       PROVE  /\ i <= a => i \in 1 .. a /\ K[i].call = "send" /\ K[i].node \in SA /\ K[i].msg = 0
              /\ i > a /\ i <= a + b => K[i].call = "recv" /\ K[i].node \in SB /\ K[i].msg = 0
              /\ i > a + b => K[i].call = "peek" /\ K[i].node \in SC /\ K[i].msg = 0
  <2>1. CASE i <= a
    <3>1. i \in 1 .. a
      BY <2>1
    <3> HIDE DEF SA, SB, SC
    <3> QED BY <1>4, <1>12, <1>16, <2>1, <3>1
  <2>2. CASE i > a /\ i <= a + b
    <3> HIDE DEF SA, SB, SC
    <3> QED BY <1>5, <1>13, <1>16, <2>2
  <2>3. CASE i > a + b
    <3> HIDE DEF SA, SB, SC
    <3> QED BY <1>6, <1>14, <1>16, <2>3
  <2> QED BY <2>1, <2>2, <2>3
<1>18. ASSUME NEW i \in 1 .. a + b + c
       PROVE  /\ K[i].msg = 0 /\ K[i].node \in Proc
              /\ \/ K[i].call = "send" /\ wactive[p][K[i].node]
                 \/ K[i].call = "recv" /\ ractive[p][K[i].node]
                 \/ K[i].call = "peek" /\ wild /\ K[i].node # p
  BY <1>17
<1>19. ASSUME NEW i \in 1 .. a + b + c, K[i].call = "peek", NEW j \in 1 .. a + b + c, i < j
       PROVE  K[j].call = "peek"
  <2>1. i > a + b
    BY <1>17, <1>19
  <2>2. j > a + b
    BY <1>19, <2>1
  <2> QED BY <1>17, <2>2
<1>20. ASSUME NEW i \in 1 .. a + b + c, NEW j \in 1 .. a + b + c, K[i].call = K[j].call, K[i].node = K[j].node
       PROVE  i = j
  <2> HIDE DEF SA, SB, SC
  <2>1. CASE i <= a
    <3>1. j <= a /\ i \in 1 .. a /\ j \in 1 .. a
      BY SMTT(30), <1>17, <1>20, <2>1
    <3> QED BY <1>4, <1>12, <1>16, <1>20, <2>1, <3>1
  <2>2. CASE i > a /\ i <= a + b
    <3>1. j > a /\ j <= a + b
      BY SMTT(30), <1>17, <1>20, <2>2
    <3>2. B[i - a].node = B[j - a].node /\ i - a \in 1 .. b /\ j - a \in 1 .. b
      BY Zenon, <1>16, <1>20, <2>2, <3>1
    <3>3. i - a = j - a
      <4>1. \A k, l \in 1 .. b : B[k].node = B[l].node => k = l
        BY <1>5, <1>13
      <4> QED BY Zenon, <3>2, <4>1
    <3> QED BY <3>3
  <2>3. CASE i > a + b
    <3>1. j > a + b
      BY SMTT(30), <1>17, <1>20, <2>3
    <3>2. C[i - a - b].node = C[j - a - b].node /\ i - a - b \in 1 .. c /\ j - a - b \in 1 .. c
      BY Zenon, <1>16, <1>20, <2>3, <3>1
    <3>3. i - a - b = j - a - b
      <4>1. \A k, l \in 1 .. c : C[k].node = C[l].node => k = l
        BY <1>6, <1>14
      <4> QED BY Zenon, <3>2, <4>1
    <3> QED BY <3>3
  <2> QED BY <2>1, <2>2, <2>3
<1>21. ASSUME NEW q \in Proc, wactive[p][q]
       PROVE  \E i \in 1 .. a + b + c : K[i].call = "send" /\ K[i].node = q
  <2>1. PICK i \in 1 .. a : A[i].node = q
    BY Zenon, <1>4, <1>12, <1>21
  <2>2. i \in 1 .. a + b + c /\ i <= a
    OBVIOUS
  <2> QED BY <1>16, <1>17, <2>1, <2>2
<1>22. ASSUME NEW q \in Proc, ractive[p][q]
       PROVE  \E i \in 1 .. a + b + c : K[i].call = "recv" /\ K[i].node = q
  <2>1. PICK i \in 1 .. b : B[i].node = q
    BY <1>5, <1>13, <1>22
  <2>2. i + a \in 1 .. a + b + c /\ i + a > a /\ i + a <= a + b /\ (i + a) - a = i
    OBVIOUS
  <2>3. K[i + a] = B[i] /\ K[i + a].call = "recv"
    BY <1>16, <1>17, <2>2
  <2> QED BY <2>1, <2>2, <2>3
<1>23. ASSUME NEW q \in Proc, wild, q # p
       PROVE  \E i \in 1 .. a + b + c : K[i].call = "peek" /\ K[i].node = q
  <2>1. PICK i \in 1 .. c : C[i].node = q
    BY <1>6, <1>14, <1>23
  <2>2. i + a + b \in 1 .. a + b + c /\ i + a + b > a + b /\ (i + a + b) - a - b = i
    OBVIOUS
  <2>3. K[i + a + b] = C[i] /\ K[i + a + b].call = "peek"
    BY <1>16, <1>17, <2>2
  <2> QED BY <2>1, <2>2, <2>3
<1> HIDE DEF SA, SB, SC
<1>24. Len(K) = a + b + c /\ Len(K) \in Nat
  BY <1>15
<1>25. \A i \in 1 .. Len(K) :
         /\ K[i].msg = 0 /\ K[i].node \in Proc
         /\ \/ K[i].call = "send" /\ wactive[p][K[i].node]
            \/ K[i].call = "recv" /\ ractive[p][K[i].node]
            \/ K[i].call = "peek" /\ wild /\ K[i].node # p
         /\ K[i].call = "peek" => \A j \in 1 .. Len(K) : i < j => K[j].call = "peek"
  BY Zenon, <1>18, <1>19, <1>24
<1>26. \A i, j \in 1 .. Len(K) : K[i].call = K[j].call /\ K[i].node = K[j].node => i = j
  BY <1>20, <1>24
<1>27. \A q \in Proc :
         /\ wactive[p][q] => \E i \in 1 .. Len(K) : K[i].call = "send" /\ K[i].node = q
         /\ ractive[p][q] => \E i \in 1 .. Len(K) : K[i].call = "recv" /\ K[i].node = q
         /\ wild /\ q # p => \E i \in 1 .. Len(K) : K[i].call = "peek" /\ K[i].node = q
  BY <1>21, <1>22, <1>23, <1>24
<1> QED BY <1>10, <1>11, <1>24, <1>25, <1>26, <1>27

-----------------------------------------------------------------------------
(***************************************************************************)
(* The invariant.  Its parts are about one process p, or p and another     *)
(* process q, and take the values they are about as arguments: L is        *)
(* msg_list[p], H handle[p], S send_q[p], R recv_q[p], M msg_q[p], K       *)
(* work[p], sq, rq and mq the queues for q, sn the messages sent and w the *)
(* wire between the two.                                                   *)
(***************************************************************************)

Complete(e) == nleft(e) = 0
Begun(e)    == nleft(e) > 0 /\ e.nhdr < HdrSize
Gone(e)     == HdrSize + e.nbytes - nleft(e)        \* units that were sent or received
Named(H, m) == \E j \in 1 .. Len(H) : H[j] = m

\* Nothing is sent to, or received from, oneself through a socket.
OwnPart(S, R, ra, wa, w, av, p) ==
  S[p] = << >> /\ R[p] = << >> /\ ~ra[p] /\ ~wa[p] /\ w[p] = << >> /\ av[p] = 0

\* Calls name handles that were given out; a process in MP_Wait() has one to wait for.
HandlePart(td, H, W, c) ==
  /\ NamesGiven(td, Len(H)) /\ Len(W) = Len(H)
  /\ c # "run" => td # << >> /\ Head(td).op = "wait" /\ H[Head(td).i] # 0

\* A body comes after its header; what nobody asked for is from another process.
EntryPart(L, p) ==
  \A m \in Ids : /\ L[m].left <= L[m].nbytes
                 /\ L[m].nhdr > 0 => L[m].left = L[m].nbytes /\ L[m].got = << >>
                 /\ L[m].flag = "drain" => L[m].peer # p

\* The messages to q that are not gone are the last ones, in order; only the first
\* of them may have begun.
SendPart(L, H, sq, sn, q) ==
  /\ Len(sq) <= Len(sn)
  /\ \A i \in 1 .. Len(sq) :
       LET e == L[sq[i]]
       IN  /\ e.used /\ e.flag \in {"send", "buffered"} /\ e.peer = q
           /\ e.num = Len(sn) - Len(sq) + i /\ e.nbytes = sn[e.num].nbytes
           /\ nleft(e) > 0 /\ (i > 1 => e.nhdr = HdrSize)
           /\ e.flag = "send" => Named(H, sq[i])

\* The unit that comes after u in the stream of the messages sn, and the one to be
\* written next.
Following(sn, u) == IF u[2] < HdrSize + sn[u[1]].nbytes THEN <<u[1], u[2] + 1>> ELSE <<u[1] + 1, 1>>
NextOut(L, sq, sn) == IF sq = << >> THEN <<Len(sn) + 1, 1>>
                      ELSE <<L[Head(sq)].num, Gone(L[Head(sq)]) + 1>>

\* What is on the wire is a piece of that stream.
WirePart(L, sq, sn, w) ==
  /\ \A i \in 1 .. Len(w) : /\ w[i][1] \in 1 .. Len(sn)
                            /\ w[i][2] \in 1 .. HdrSize + sn[w[i][1]].nbytes
                            /\ i < Len(w) => w[i + 1] = Following(sn, w[i])
  /\ w # << >> => NextOut(L, sq, sn) = Following(sn, w[Len(w)])

\* A send that is not done is in its queue, and every entry in use can be reached.
QueuedPart(L, S) ==
  \A m \in Ids : L[m].used /\ L[m].flag \in {"send", "buffered"} /\ nleft(L[m]) > 0
                   => \E q \in Proc : Contains(S[q], m)
KeptPart(L, H, S, M) ==
  \A m \in Ids : L[m].used => \/ Named(H, m)
                              \/ \E q \in Proc : Contains(S[q], m) \/ Contains(M[q], m)
                              \/ L[m].flag = "buffered" /\ Complete(L[m])

\* An entry whose header was received holds what came of one message, and a receive
\* that was waited for holds all of one.
Holds(e, all, p) ==
  /\ e.peer \in Proc /\ e.num \in 1 .. Len(all[e.peer][p])
  /\ e.tag < 0 \/ e.tag = all[e.peer][p][e.num].tag
  /\ e.nbytes = all[e.peer][p][e.num].nbytes
  /\ e.got = [u \in 1 .. e.nbytes - e.left |-> <<e.num, HdrSize + u>>]
ContentPart(L, all, p) ==
  \A m \in Ids : L[m].nhdr = 0 /\ (L[m].flag \in {"recv", "drain"} \/ L[m].peer = p) => Holds(L[m], all, p)
WaitedPart(W, all, p) ==
  \A i \in 1 .. Len(W) : W[i] # << >> => Holds(W[i][1], all, p) /\ W[i][1].left = 0

\* Tasks are distinct and for others, with something in the queue they serve; looks
\* for receives from anyone come last.  The message that is read is in its queue.
TaskPart(K, S, R, p) ==
  /\ \A i \in 1 .. Len(K) :
       /\ K[i].node # p
       /\ K[i].call = "send" => S[K[i].node] # << >>
       /\ K[i].call = "recv" => R[K[i].node] # << >>
       /\ i > 1 \/ K[i].call # "recv" => K[i].msg = 0
       /\ K[i].call = "peek" => \A j \in 1 .. Len(K) : i < j => K[j].call = "peek"
  /\ \A i, j \in 1 .. Len(K) : K[i].call = K[j].call /\ K[i].node = K[j].node => i = j
ActivePart(S, R, ra, wa) == \A q \in Proc : (wa[q] => S[q] # << >>) /\ (ra[q] => R[q] # << >>)

\* How far the wait of a process has come.
PcPart(L, td, H, c) ==
  LET e == L[H[Head(td).i]]
  IN  /\ c = "push" => e.flag = "send"
      /\ c = "end"  => e.flag = "buffered" \/ Complete(e)

\* Receives from anyone.
WildPart(L, rw) ==
  /\ \A i \in 1 .. Len(rw) : LET e == L[rw[i]]
                           IN  e.used /\ e.flag = "recv" /\ e.peer = Wild /\ e.nhdr = HdrSize
  /\ Once(rw)

\* Messages nobody asked for.
MsgPart(L, H, mq, rq, p, q) ==
  /\ \A i \in 1 .. Len(mq) :
       LET e == L[mq[i]]
       IN  /\ e.used /\ e.peer = q
           /\ q = p => e.flag = "buffered" /\ Complete(e)
           /\ q # p => /\ e.flag = "drain" \/ (e.flag = "recv" /\ e.nhdr = 0)
                       /\ Complete(e) \/ Contains(rq, mq[i])
                       /\ ~Named(H, mq[i])
  /\ Once(mq)

\* The messages from q that are received: one at a time.
RecvPart(L, rq, q) ==
  /\ \A i \in 1 .. Len(rq) :
       LET e == L[rq[i]]
       IN  /\ e.flag \in {"recv", "drain"} /\ e.peer = q /\ (~Complete(e) => e.used)
           /\ Begun(e) => \A j \in 1 .. i - 1 : Complete(L[rq[j]])
  /\ Once(rq)

\* No message that nobody asked for matches e.
NoMatch(L, mq, e) == \A i \in 1 .. Len(mq) : L[mq[i]].nhdr = 0 => ~Matches(L[mq[i]], e)

\* do_recv() is at work on the messages from q.
AtRecv(K, q) == K # << >> /\ Head(K).call = "recv" /\ Head(K).node = q

\* A header is read in parts only for a receive that cannot be in msg_q, and an entry
\* made from a peek gets the header that was seen.
HeaderPart(L, mq, rq) ==
  \A i \in 1 .. Len(rq) : Begun(L[rq[i]]) /\ L[rq[i]].nhdr > 0 =>
    L[rq[i]].flag = "recv" /\ NoMatch(L, mq, L[rq[i]])
DrainPart(L, rq, K, q, w, av, sn) ==
  \A i \in 1 .. Len(rq) : L[rq[i]].flag = "drain" /\ L[rq[i]].nhdr > 0 =>
    /\ Len(rq) = 1 /\ AtRecv(K, q) /\ L[rq[i]].nhdr = HdrSize /\ av >= HdrSize
    /\ L[rq[i]].tag = sn[w[1][1]].tag /\ L[rq[i]].nbytes = sn[w[1][1]].nbytes

\* Where do_recv() is in the queue.
PlacePart(L, mq, rq, K, q) ==
  AtRecv(K, q) /\ Head(K).msg # 0 =>
    \E k \in 1 .. Len(rq) :
      /\ rq[k] = Head(K).msg
      /\ \A j \in 1 .. k - 1 : L[rq[j]].nhdr = 0 /\ (Complete(L[rq[k]]) => Complete(L[rq[j]]))
      /\ L[rq[k]].nhdr > 0 /\ L[rq[k]].flag = "recv" => NoMatch(L, mq, L[rq[k]])

\* What is asked of q is looked for.
AwakePart(rq, K, ra, q) == rq # << >> => ra[q] \/ AtRecv(K, q)

\* The next unit u from q is the next one of the message that has begun, or the first of one.
StreamPart(L, rq, u) ==
  /\ \A i \in 1 .. Len(rq) : Begun(L[rq[i]]) =>
       u[2] = Gone(L[rq[i]]) + 1 /\ (L[rq[i]].nhdr = 0 => u[1] = L[rq[i]].num)
  /\ (\A i \in 1 .. Len(rq) : ~Begun(L[rq[i]])) => u[2] = 1
NextIn(L, sq, sn, w) == IF w = << >> THEN NextOut(L, sq, sn) ELSE Head(w)

\* Where there is something to do there is a signal or a task.
HasTask(K, call, q) == \E i \in 1 .. Len(K) : K[i].call = call /\ K[i].node = q
SignalPart(K, ra, wa, rw, room, av, sig, q) ==
  /\ wa[q] /\ room => sig \/ HasTask(K, "send", q)
  /\ ra[q] /\ av > 0 => sig \/ HasTask(K, "recv", q)
  /\ rw # << >> /\ av >= HdrSize => sig \/ HasTask(K, "peek", q)

Always(p) ==
  /\ OwnPart(send_q[p], recv_q[p], ractive[p], wactive[p], wire[p], avail[p], p)
  /\ HandlePart(todo[p], handle[p], waited[p], pc[p])
  /\ EntryPart(msg_list[p], p)
  /\ QueuedPart(msg_list[p], send_q[p])
  /\ KeptPart(msg_list[p], handle[p], send_q[p], msg_q[p])
  /\ TaskPart(work[p], send_q[p], recv_q[p], p)
  /\ ActivePart(send_q[p], recv_q[p], ractive[p], wactive[p])

History(p) ==
  /\ ContentPart(msg_list[p], sent, p)
  /\ WaitedPart(waited[p], sent, p)

Out(p, q) ==
  /\ SendPart(msg_list[p], handle[p], send_q[p][q], sent[p][q], q)
  /\ WirePart(msg_list[p], send_q[p][q], sent[p][q], wire[p][q])
  /\ Len(wire[p][q]) <= SockCap /\ avail[p][q] <= Len(wire[p][q])

OnTrack(p) ==
  /\ PcPart(msg_list[p], todo[p], handle[p], pc[p])
  /\ WildPart(msg_list[p], recv_q[p][Wild])
  /\ \A q \in Proc : MsgPart(msg_list[p], handle[p], msg_q[p][q], recv_q[p][q], p, q)

In(p, q) ==
  /\ RecvPart(msg_list[p], recv_q[p][q], q)
  /\ HeaderPart(msg_list[p], msg_q[p][q], recv_q[p][q])
  /\ DrainPart(msg_list[p], recv_q[p][q], work[p], q, wire[q][p], avail[q][p], sent[q][p])
  /\ PlacePart(msg_list[p], msg_q[p][q], recv_q[p][q], work[p], q)
  /\ AwakePart(recv_q[p][q], work[p], ractive[p], q)
  /\ StreamPart(msg_list[p], recv_q[p][q], NextIn(msg_list[q], send_q[q][p], sent[q][p], wire[q][p]))
  /\ SignalPart(work[p], ractive[p], wactive[p], recv_q[p][Wild], Len(wire[p][q]) < SockCap,
                avail[q][p], sigio[p], q)

IInv ==
  /\ Types
  /\ \A p \in Proc : Always(p) /\ History(p) /\ (~derailed[p] => OnTrack(p))
  /\ \A p \in Proc : \A q \in Peers(p) : Out(p, q) /\ (~derailed[p] => In(p, q))

-----------------------------------------------------------------------------
(* What does not concern an entry or a queue leaves its part alone. *)

\* A message that is not gone.
Outgoing(e) == e.used /\ e.flag \in {"send", "buffered"} /\ nleft(e) > 0

\* It stays as it is, but may become a buffered one: what is sent next is the same.
StillOutgoing(e, e2) ==
  /\ e2.used /\ e2.flag \in {e.flag, "buffered"} /\ e2.peer = e.peer /\ e2.num = e.num
  /\ e2.nbytes = e.nbytes /\ e2.nhdr = e.nhdr /\ e2.left = e.left

\* What is sent next is the same if the entries to be sent stay outgoing.
LEMMA NextOutKept ==
  ASSUME NEW L, NEW L2, NEW H, NEW sq \in Seq(Ids), NEW sn, NEW q, SendPart(L, H, sq, sn, q),
         \A m \in Ids : Outgoing(L[m]) => StillOutgoing(L[m], L2[m])
  PROVE  NextOut(L2, sq, sn) = NextOut(L, sq, sn)
<1>1. CASE sq = << >>
  BY <1>1 DEF NextOut
<1>2. CASE sq # << >>
  <2>1. 1 \in 1 .. Len(sq) /\ Head(sq) = sq[1]
    BY <1>2
  <2>2. sq[1] \in Ids /\ Outgoing(L[sq[1]])
    BY <2>1 DEF SendPart, Outgoing
  <2>3. StillOutgoing(L[Head(sq)], L2[Head(sq)])
    BY <2>1, <2>2
  <2> QED BY <1>2, <2>3 DEF NextOut, Gone, StillOutgoing, nleft
<1> QED BY <1>1, <1>2

\* The queue and the stream to q, if the entries in the queue stay outgoing and no
\* handle of those that are not buffered is given back.
LEMMA OutKept ==
  ASSUME NEW L, NEW L2, NEW H, NEW H2, NEW sq \in Seq(Ids), NEW sn, NEW q,
         SendPart(L, H, sq, sn, q),
         \A m \in Ids : Outgoing(L[m]) => StillOutgoing(L[m], L2[m]),
         \A m \in Ids : Outgoing(L[m]) /\ L2[m].flag = "send" /\ Named(H, m) => Named(H2, m)
  PROVE  /\ SendPart(L2, H2, sq, sn, q)
         /\ \A w : WirePart(L, sq, sn, w) => WirePart(L2, sq, sn, w)
<1>1. \A i \in 1 .. Len(sq) : sq[i] \in Ids /\ Outgoing(L[sq[i]])
  BY DEF SendPart, Outgoing
<1>2. \A i \in 1 .. Len(sq) : StillOutgoing(L[sq[i]], L2[sq[i]]) /\ nleft(L2[sq[i]]) = nleft(L[sq[i]])
  BY <1>1 DEF StillOutgoing, nleft
<1>3. SendPart(L2, H2, sq, sn, q)
  <2>1. ASSUME NEW i \in 1 .. Len(sq)
        PROVE  LET e == L2[sq[i]]
               IN  /\ e.used /\ e.flag \in {"send", "buffered"} /\ e.peer = q
                   /\ e.num = Len(sn) - Len(sq) + i /\ e.nbytes = sn[e.num].nbytes
                   /\ nleft(e) > 0 /\ (i > 1 => e.nhdr = HdrSize)
                   /\ e.flag = "send" => Named(H2, sq[i])
    <3>1. LET e == L[sq[i]]
          IN  /\ e.used /\ e.flag \in {"send", "buffered"} /\ e.peer = q
              /\ e.num = Len(sn) - Len(sq) + i /\ e.nbytes = sn[e.num].nbytes
              /\ nleft(e) > 0 /\ (i > 1 => e.nhdr = HdrSize)
              /\ e.flag = "send" => Named(H, sq[i])
      BY DEF SendPart
    <3>2. L2[sq[i]].flag = "send" => Named(H2, sq[i])
      <4>1. L2[sq[i]].flag = "send" => L[sq[i]].flag = "send"
        BY <1>2 DEF StillOutgoing
      <4> QED BY <1>1, <3>1, <4>1
    <3> QED BY <1>2, <3>1, <3>2 DEF StillOutgoing
  <2> QED BY <2>1 DEF SendPart
<1>4. NextOut(L2, sq, sn) = NextOut(L, sq, sn)
  BY NextOutKept
<1> QED BY <1>3, <1>4 DEF WirePart

\* More messages sent: those sent before are the same.
Grown(sn, sn2) == Len(sn) <= Len(sn2) /\ \A n \in 1 .. Len(sn) : sn2[n] = sn[n]

\* What an entry holds is still of a message that was sent.
LEMMA GrownHolds ==
  ASSUME NEW all \in [Proc -> [Proc -> Seq(SentMsg)]], NEW all2 \in [Proc -> [Proc -> Seq(SentMsg)]],
         \A s, r \in Proc : Grown(all[s][r], all2[s][r]),
         NEW p \in Proc, NEW e, Holds(e, all, p)
  PROVE  Holds(e, all2, p)
<1>1. e.peer \in Proc /\ e.num \in 1 .. Len(all[e.peer][p])
  BY Zenon DEF Holds
<1>2. Grown(all[e.peer][p], all2[e.peer][p])
  BY <1>1
<1>3. Len(all[e.peer][p]) \in Nat /\ Len(all2[e.peer][p]) \in Nat
  BY SMTT(30), <1>1
<1>4. e.num \in 1 .. Len(all2[e.peer][p]) /\ all2[e.peer][p][e.num] = all[e.peer][p][e.num]
  BY SMTT(30), <1>1, <1>2, <1>3 DEF Grown
<1> QED BY Zenon, <1>1, <1>4 DEF Holds

\* The contents of the entries, and of the receives that were waited for.
LEMMA GrownHistory ==
  ASSUME NEW all \in [Proc -> [Proc -> Seq(SentMsg)]], NEW all2 \in [Proc -> [Proc -> Seq(SentMsg)]],
         \A s, r \in Proc : Grown(all[s][r], all2[s][r]), NEW p \in Proc, NEW L, NEW W
  PROVE  /\ ContentPart(L, all, p) => ContentPart(L, all2, p)
         /\ WaitedPart(W, all, p) => WaitedPart(W, all2, p)
<1>1. \A e : Holds(e, all, p) => Holds(e, all2, p)
  BY Zenon, GrownHolds
<1> QED BY <1>1 DEF ContentPart, WaitedPart

\* What one process keeps about itself.
SameRows(x) ==
  /\ todo'[x] = todo[x] /\ pc'[x] = pc[x] /\ handle'[x] = handle[x] /\ waited'[x] = waited[x]
  /\ msg_list'[x] = msg_list[x] /\ send_q'[x] = send_q[x] /\ recv_q'[x] = recv_q[x]
  /\ msg_q'[x] = msg_q[x] /\ ractive'[x] = ractive[x] /\ wactive'[x] = wactive[x]
  /\ work'[x] = work[x] /\ derailed'[x] = derailed[x]

\* A process that takes no step: its own parts.
LEMMA OtherKept ==
  ASSUME IInv, Types', NEW x \in Proc, SameRows(x), wire'[x][x] = wire[x][x], avail'[x][x] = avail[x][x],
         \A s, r \in Proc : Grown(sent[s][r], sent'[s][r])
  PROVE  Always(x)' /\ History(x)' /\ (~derailed'[x] => OnTrack(x)')
<1> USE DEF SameRows
<1>1. Always(x) /\ History(x) /\ (~derailed[x] => OnTrack(x))
  BY DEF IInv
<1>2. Always(x)'
  BY <1>1 DEF Always, OwnPart
<1>3. sent \in [Proc -> [Proc -> Seq(SentMsg)]] /\ sent' \in [Proc -> [Proc -> Seq(SentMsg)]]
  BY Zenon DEF IInv, Types
<1>4. History(x)'
  BY Zenon, <1>1, <1>3, GrownHistory DEF History
<1>5. ~derailed'[x] => OnTrack(x)'
  BY <1>1 DEF OnTrack
<1> QED BY <1>2, <1>4, <1>5

\* The units of a wire from the first one to the end of its message.
LEMMA WireFlow ==
  ASSUME HdrSize \in Nat \ {0}, NEW sn \in Seq(SentMsg), NEW w \in Seq(Nat \X Nat), w # << >>,
         \A i \in 1 .. Len(w) : /\ w[i][1] \in 1 .. Len(sn)
                                /\ i < Len(w) => w[i + 1] = Following(sn, w[i]),
         NEW r \in 1 .. Len(w), w[1][2] + r - 1 <= HdrSize + sn[w[1][1]].nbytes
  PROVE  \A d \in 1 .. r : w[d] = <<w[1][1], w[1][2] + d - 1>>
<1>1. Len(w) \in Nat /\ 1 \in 1 .. Len(w) /\ w[1] \in Nat \X Nat
  BY SMTT(30)
<1>2. PICK n \in Nat, j \in Nat : w[1] = <<n, j>>
  <2>1. \A u \in Nat \X Nat : u = <<u[1], u[2]>> /\ u[1] \in Nat /\ u[2] \in Nat
    OBVIOUS
  <2> QED BY <1>1, <2>1
<1>3. w[1][1] = n /\ w[1][2] = j
  BY <1>2
<1>4. PICK size \in Nat : size = HdrSize + sn[n].nbytes
  <2>1. n \in 1 .. Len(sn)
    BY <1>1, <1>3
  <2>2. sn[n] \in SentMsg
    BY <2>1
  <2> QED BY SMTT(30), <2>2 DEF SentMsg
<1>5. PICK l \in Nat : l = Len(w)
  BY <1>1
<1>6. r \in 1 .. l /\ j + r - 1 <= size
  BY <1>3, <1>4, <1>5
<1>7. ASSUME NEW d \in 1 .. r, d < r, w[d] = <<n, j + d - 1>>
      PROVE  w[d + 1] = <<n, j + (d + 1) - 1>>
  <2>1. d \in 1 .. Len(w) /\ d < Len(w)
    BY SMTT(30), <1>5, <1>6, <1>7
  <2>2. w[d + 1] = Following(sn, w[d])
    BY <2>1
  <2>3. j + d - 1 < size /\ j + d - 1 + 1 = j + (d + 1) - 1
    BY <1>6, <1>7
  <2>4. Following(sn, <<n, j + d - 1>>) = <<n, j + d - 1 + 1>>
    BY <1>4, <2>3 DEF Following
  <2> QED BY <1>7, <2>2, <2>3, <2>4
<1> DEFINE Good(d) == w[d] = <<n, j + d - 1>>
           Bad == {d \in 1 .. r : ~Good(d)}
<1>8. Good(1)
  <2>1. j + 1 - 1 = j
    OBVIOUS
  <2> QED BY <1>2, <2>1
<1>9. \A d \in 1 .. r : d < r /\ Good(d) => Good(d + 1)
  BY <1>7
<1> HIDE DEF Good
<1>10. Bad = {}
  <2>1. SUFFICES ASSUME Bad # {} PROVE FALSE
    OBVIOUS
  <2>2. Bad \subseteq Nat
    BY <1>6
  <2>3. PICK d \in Bad : \A c \in Bad : d <= c
    <3> HIDE DEF Bad
    <3> QED BY Zenon, <2>1, <2>2, LeastOfNat
  <2>4. d \in 1 .. r /\ ~Good(d)
    BY <2>3
  <2>5. d - 1 \in 1 .. r /\ d - 1 < r /\ (d - 1) + 1 = d /\ ~(d <= d - 1)
    BY <1>6, <1>8, <2>4
  <2>6. Good(d - 1)
    BY <2>3, <2>5
  <2> QED BY <1>9, <2>4, <2>5, <2>6
<1>11. \A d \in 1 .. r : Good(d)
  BY Zenon, <1>10
<1> QED BY Zenon, <1>3, <1>11 DEF Good

\* What is on the wire after the first r units were read.
LEMMA WireTaken ==
  ASSUME NEW L, NEW sq, NEW sn, NEW w \in Seq(Nat \X Nat), NEW r \in 0 .. Len(w),
         WirePart(L, sq, sn, w)
  PROVE  /\ SubSeq(w, r + 1, Len(w)) \in Seq(Nat \X Nat) /\ Len(SubSeq(w, r + 1, Len(w))) = Len(w) - r
         /\ WirePart(L, sq, sn, SubSeq(w, r + 1, Len(w)))
         /\ r = 0 => SubSeq(w, r + 1, Len(w)) = w
         /\ r > 0 => NextIn(L, sq, sn, SubSeq(w, r + 1, Len(w))) = Following(sn, w[r])
<1>0. PICK w2 : w2 = SubSeq(w, r + 1, Len(w))
  OBVIOUS
<1>1. Len(w) \in Nat /\ \A i \in 1 .. Len(w) : w[i] \in Nat \X Nat
  OBVIOUS
<1>2. /\ w2 \in Seq(Nat \X Nat)
      /\ Len(w2) = IF r + 1 <= Len(w) THEN Len(w) - (r + 1) + 1 ELSE 0
      /\ \A i \in 1 .. Len(w) - (r + 1) + 1 : w2[i] = w[r + 1 + i - 1]
  <2>1. \A i \in r + 1 .. Len(w) : w[i] \in Nat \X Nat
    BY <1>1
  <2>2. r + 1 \in Int /\ Len(w) \in Int
    BY <1>1
  <2>3. Stretch(Nat \X Nat, w, r + 1, Len(w), w2)
    BY Zenon, <1>0, <2>1, <2>2, StretchIs
  <2> QED BY Zenon, <2>3 DEF Stretch
<1>3. PICK n \in Nat : n = Len(w)
  BY <1>1
<1>4. Len(w2) = n - r
  <2>1. r \in 0 .. n
    BY <1>3
  <2>2. (IF r + 1 <= n THEN n - (r + 1) + 1 ELSE 0) = n - r
    BY <2>1
  <2> QED BY <1>2, <1>3, <2>2
<1>5. \A i \in 1 .. n - r : w2[i] = w[r + i] /\ r + i \in 1 .. n
  <2>1. ASSUME NEW i \in 1 .. n - r PROVE w2[i] = w[r + i] /\ r + i \in 1 .. n
    <3>1. i \in 1 .. n - (r + 1) + 1 /\ r + 1 + i - 1 = r + i /\ r + i \in 1 .. n
      BY <1>3
    <3> QED BY <1>2, <1>3, <3>1
  <2> QED BY <2>1
<1>6. /\ \A i \in 1 .. n : /\ w[i][1] \in 1 .. Len(sn)
                           /\ w[i][2] \in 1 .. HdrSize + sn[w[i][1]].nbytes
                           /\ i < n => w[i + 1] = Following(sn, w[i])
      /\ w # << >> => NextOut(L, sq, sn) = Following(sn, w[n])
  BY <1>3 DEF WirePart
<1>7. w2 # << >> => n - r > 0 /\ w # << >>
  <2>1. CASE n - r > 0
    <3>1. n > 0
      BY <1>3, <2>1
    <3> QED BY <1>3, <2>1, <3>1
  <2>2. CASE ~(n - r > 0)
    <3>1. Len(w2) = 0
      BY <1>3, <1>4, <2>2
    <3> QED BY <1>2, <3>1
  <2> QED BY <2>1, <2>2
<1>8. WirePart(L, sq, sn, w2)
  <2>1. ASSUME NEW i \in 1 .. Len(w2)
        PROVE  /\ w2[i][1] \in 1 .. Len(sn)
               /\ w2[i][2] \in 1 .. HdrSize + sn[w2[i][1]].nbytes
               /\ i < Len(w2) => w2[i + 1] = Following(sn, w2[i])
    <3>1. i \in 1 .. n - r /\ w2[i] = w[r + i] /\ r + i \in 1 .. n
      BY <1>4, <1>5
    <3>2. i < Len(w2) => i + 1 \in 1 .. n - r /\ r + i < n /\ r + (i + 1) = r + i + 1
      BY SMTT(30), <1>3, <1>4
    <3>3. i < Len(w2) => w2[i + 1] = w[r + i + 1]
      BY <1>5, <3>2
    <3> QED BY <1>6, <3>1, <3>2, <3>3
  <2>2. w2 # << >> => NextOut(L, sq, sn) = Following(sn, w2[Len(w2)])
    <3>1. ASSUME w2 # << >> PROVE w2[n - r] = w[n]
      <4>1. n - r \in 1 .. n - r /\ r + (n - r) = n
        BY <1>3, <1>7, <3>1
      <4> QED BY <1>5, <4>1
    <3> QED BY <1>4, <1>6, <1>7, <3>1
  <2> QED BY <2>1, <2>2 DEF WirePart
<1>9. ASSUME r = 0 PROVE w2 = w
  <2>1. Len(w2) = Len(w) /\ \A i \in 1 .. Len(w) : w2[i] = w[i]
    BY <1>3, <1>4, <1>5, <1>9
  <2> QED BY Zenon, <1>2, <2>1, SeqEqual
<1>10. ASSUME r > 0 PROVE NextIn(L, sq, sn, w2) = Following(sn, w[r])
  <2>1. CASE r = n
    <3>1. w2 = << >>
      BY <1>2, <1>4, <2>1
    <3>2. w # << >>
      BY <1>3, <1>10, <2>1
    <3> QED BY <1>6, <2>1, <3>1, <3>2 DEF NextIn
  <2>2. CASE r # n
    <3>1. 1 \in 1 .. n - r /\ r \in 1 .. n /\ r < n
      BY <1>3, <1>10, <2>2
    <3>2. w2 # << >> /\ Head(w2) = w2[1]
      <4>1. Len(w2) > 0
        BY <1>3, <1>4, <3>1
      <4>2. w2 # << >>
        <5>1. PICK k : k = Len(w2)
          OBVIOUS
        <5>2. k # 0
          BY <4>1, <5>1
        <5>3. Len(<< >>) = 0
          OBVIOUS
        <5> QED BY <5>1, <5>2, <5>3
      <4> QED BY <1>2, <4>2, HeadTailProperties
    <3>3. w2[1] = w[r + 1] /\ w[r + 1] = Following(sn, w[r])
      BY <1>5, <1>6, <3>1
    <3> QED BY <3>2, <3>3 DEF NextIn
  <2> QED BY <2>1, <2>2
<1> QED BY <1>0, <1>2, <1>3, <1>4, <1>8, <1>9, <1>10

\* No entry of a queue of unexpected messages matches.
LEMMA NoneInMsgQ ==
  ASSUME Types, NEW p \in Proc, NEW e, e.peer \in Proc
  PROVE  InMsgQ(p, e) = {} <=> NoMatch(msg_list[p], msg_q[p][e.peer], e)
<1>1. Wild \notin Proc
  BY DEF Wild, Proc
<1>2. PICK s : s = msg_q[p][e.peer]
  OBVIOUS
<1>3. s \in Seq(Ids) /\ DOMAIN s = 1 .. Len(s)
  <2>1. msg_q \in [Proc -> [Proc -> Seq(Ids)]]
    BY DEF Types
  <2>2. s \in Seq(Ids)
    BY <1>2, <2>1
  <2> QED BY <2>2
<1>4. ASSUME NEW i \in 1 .. Len(s), msg_list[p][s[i]].nhdr = 0, Matches(msg_list[p][s[i]], e)
      PROVE  <<e.peer, i>> \in InMsgQ(p, e)
  <2> DEFINE a == <<e.peer, i>>
  <2>1. a[1] = e.peer /\ a[2] = i
    OBVIOUS
  <2>2. a \in {e.peer} \X DOMAIN msg_q[p][e.peer]
    BY Zenon, <1>2, <1>3, <1>4
  <2>3. a \in UNION {{q} \X DOMAIN msg_q[p][q] : q \in Proc}
    BY <2>2
  <2> QED BY Zenon, <1>2, <1>4, <2>1, <2>3 DEF InMsgQ
<1>5. ASSUME NEW a \in InMsgQ(p, e)
      PROVE  \E i \in 1 .. Len(s) : msg_list[p][s[i]].nhdr = 0 /\ Matches(msg_list[p][s[i]], e)
  <2>1. PICK q \in Proc : a \in {q} \X DOMAIN msg_q[p][q]
    BY Zenon, <1>5 DEF InMsgQ
  <2>2. a[1] = q /\ a[2] \in DOMAIN msg_q[p][q]
    BY <2>1
  <2>3. /\ e.peer \in {a[1], Wild}
        /\ msg_list[p][msg_q[p][a[1]][a[2]]].nhdr = 0 /\ Matches(msg_list[p][msg_q[p][a[1]][a[2]]], e)
    BY Zenon, <1>5 DEF InMsgQ
  <2>4. q = e.peer
    BY Zenon, <1>1, <2>2, <2>3
  <2> QED BY Zenon, <1>2, <1>3, <2>2, <2>3, <2>4
<1> QED BY Zenon, <1>2, <1>4, <1>5 DEF NoMatch

\* The first place in the order of the search.
LEMMA FirstFound ==
  ASSUME NEW A, A # {}, \A a \in A : a[1] \in Nat /\ a[2] \in Nat
  PROVE  \E a \in A : \A b \in A : a[1] < b[1] \/ (a[1] = b[1] /\ a[2] <= b[2])
<1> DEFINE N1 == {a[1] : a \in A}
<1>1. PICK n \in N1 : \A k \in N1 : n <= k
  <2>1. N1 \subseteq Nat /\ N1 # {}
    OBVIOUS
  <2> HIDE DEF N1
  <2> QED BY <2>1, LeastOfNat
<1> DEFINE A1 == {a \in A : a[1] = n}
           N2 == {a[2] : a \in A1}
<1>2. PICK k \in N2 : \A l \in N2 : k <= l
  <2>1. N2 \subseteq Nat /\ N2 # {}
    BY <1>1
  <2> HIDE DEF N2
  <2> QED BY <2>1, LeastOfNat
<1>3. PICK a \in A : a[1] = n /\ a[2] = k
  BY <1>2
<1>4. ASSUME NEW b \in A PROVE a[1] < b[1] \/ (a[1] = b[1] /\ a[2] <= b[2])
  <2>1. n <= b[1] /\ n \in Nat /\ b[1] \in Nat
    BY <1>1
  <2>2. CASE n = b[1]
    BY <1>2, <1>3, <2>2
  <2>3. CASE n # b[1]
    BY <1>3, <2>1, <2>3
  <2> QED BY <2>2, <2>3
<1> QED BY <1>4

\* Entry m becomes the one found: the i-th of msg_q[p][q], x.
Exchanged(p, m, e, q, i, x) ==
  /\ e.peer \in {q, Wild} /\ x = msg_q[p][q][i]
  /\ msg_list[p][x].nhdr = 0 /\ Matches(msg_list[p][x], e)
  /\ msg_list' = [msg_list EXCEPT ![p][m] = [msg_list[p][x] EXCEPT !.flag = e.flag],
                                  ![p][x].used = FALSE]
  /\ msg_q' = [msg_q EXCEPT ![p][q] = RemoveAt(@, i)]
  /\ recv_q' = IF msg_list[p][x].left = 0 THEN recv_q
               ELSE [recv_q EXCEPT ![p][q] = TakePlace(@, m, x)]

\* recv_from_q(): what it takes, and what becomes of the entries.
LEMMA TakeFacts ==
  ASSUME TcpMsgAssumption, Types, NEW p \in Proc, NEW m \in Ids, NEW e, InMsgQ(p, e) # {},
         TakeFromMsgQ(p, m, e)
  PROVE  \E q \in Proc : \E i \in 1 .. Len(msg_q[p][q]) : \E x \in Ids : Exchanged(p, m, e, q, i, x)
<1>1. \A a \in InMsgQ(p, e) :
        /\ a[1] \in Proc /\ a[2] \in 1 .. Len(msg_q[p][a[1]]) /\ e.peer \in {a[1], Wild}
        /\ msg_list[p][msg_q[p][a[1]][a[2]]].nhdr = 0
        /\ Matches(msg_list[p][msg_q[p][a[1]][a[2]]], e)
  <2> TAKE a \in InMsgQ(p, e)
  <2>1. PICK q \in Proc : a \in {q} \X DOMAIN msg_q[p][q]
    BY Zenon DEF InMsgQ
  <2>2. a[1] = q /\ a[2] \in DOMAIN msg_q[p][q]
    BY <2>1
  <2>3. DOMAIN msg_q[p][q] = 1 .. Len(msg_q[p][q])
    BY DEF Types
  <2> QED BY Zenon, <2>2, <2>3 DEF InMsgQ
<1>2. \A a \in InMsgQ(p, e) : a[1] \in Nat /\ a[2] \in Nat
  <2>1. Proc \subseteq Nat
    BY DEF Proc, TcpMsgAssumption
  <2> QED BY <1>1, <2>1
<1>3. First(InMsgQ(p, e)) \in InMsgQ(p, e)
  <2>1. \E a \in InMsgQ(p, e) : \A b \in InMsgQ(p, e) : a[1] < b[1] \/ (a[1] = b[1] /\ a[2] <= b[2])
    BY <1>2, FirstFound
  <2> QED BY <2>1 DEF First
<1>4. PICK f : f = First(InMsgQ(p, e))
  OBVIOUS
<1>5. PICK q \in Proc : q = f[1]
  BY Zenon, <1>1, <1>3, <1>4
<1>6. PICK i \in 1 .. Len(msg_q[p][q]) : i = f[2]
  BY Zenon, <1>1, <1>3, <1>4, <1>5
<1>7. PICK x \in Ids : x = msg_q[p][q][i]
  <2>1. msg_q[p][q] \in Seq(Ids)
    BY DEF Types
  <2> QED BY <2>1
<1>8. e.peer \in {q, Wild} /\ msg_list[p][x].nhdr = 0 /\ Matches(msg_list[p][x], e)
  BY Zenon, <1>1, <1>3, <1>4, <1>5, <1>6, <1>7
<1>9. /\ msg_list' = [msg_list EXCEPT ![p][m] = [msg_list[p][x] EXCEPT !.flag = e.flag],
                                      ![p][x].used = FALSE]
      /\ msg_q' = [msg_q EXCEPT ![p][q] = RemoveAt(@, i)]
      /\ recv_q' = IF msg_list[p][x].left = 0 THEN recv_q
                   ELSE [recv_q EXCEPT ![p][q] = TakePlace(@, m, x)]
  <2>1. /\ msg_list' = [msg_list EXCEPT ![p][m] = [msg_list[p][msg_q[p][f[1]][f[2]]] EXCEPT !.flag = e.flag],
                                        ![p][msg_q[p][f[1]][f[2]]].used = FALSE]
        /\ msg_q' = [msg_q EXCEPT ![p][f[1]] = RemoveAt(@, f[2])]
        /\ recv_q' = IF msg_list[p][msg_q[p][f[1]][f[2]]].left = 0 THEN recv_q
                     ELSE [recv_q EXCEPT ![p][f[1]] = TakePlace(@, m, msg_q[p][f[1]][f[2]])]
    BY Zenon, <1>4 DEF TakeFromMsgQ
  <2> QED BY Zenon, <1>5, <1>6, <1>7, <2>1
<1>10. Exchanged(p, m, e, q, i, x)
  BY Zenon, <1>7, <1>8, <1>9 DEF Exchanged
<1> QED BY <1>10

\* What the parts about receiving look at in an entry.
SameBut(e, e2) ==
  /\ e2.flag = e.flag /\ e2.peer = e.peer /\ e2.tag = e.tag /\ e2.nbytes = e.nbytes
  /\ e2.nhdr = e.nhdr /\ e2.left = e.left /\ e2.num = e.num
  /\ e.used /\ nleft(e) > 0 => e2.used

\* The parts about the messages from q, if no entry they are about changes and no
\* message is added to those nobody asked for.
LEMMA QueueSame ==
  ASSUME NEW L, NEW L2, NEW mq, NEW mq2, NEW rq, NEW K, NEW q, NEW w, NEW av, NEW sn, NEW u,
         \A i \in 1 .. Len(rq) : SameBut(L[rq[i]], L2[rq[i]]),
         \A i \in 1 .. Len(mq2) : SameBut(L[mq2[i]], L2[mq2[i]]) /\ \E j \in 1 .. Len(mq) : mq2[i] = mq[j]
  PROVE  /\ (\A i \in 1 .. Len(rq) : Complete(L[rq[i]]) \/ nleft(L[rq[i]]) > 0)
              => (RecvPart(L, rq, q) => RecvPart(L2, rq, q))
         /\ HeaderPart(L, mq, rq) => HeaderPart(L2, mq2, rq)
         /\ DrainPart(L, rq, K, q, w, av, sn) => DrainPart(L2, rq, K, q, w, av, sn)
         /\ PlacePart(L, mq, rq, K, q) => PlacePart(L2, mq2, rq, K, q)
         /\ StreamPart(L, rq, u) => StreamPart(L2, rq, u)
         /\ \A i \in 1 .. Len(rq) : NoMatch(L, mq, L[rq[i]]) => NoMatch(L2, mq2, L2[rq[i]])
<1>1. \A i \in 1 .. Len(rq) : /\ Complete(L2[rq[i]]) <=> Complete(L[rq[i]])
                              /\ Begun(L2[rq[i]]) <=> Begun(L[rq[i]])
                              /\ Gone(L2[rq[i]]) = Gone(L[rq[i]])
  BY DEF SameBut, Complete, Begun, Gone, nleft
<1>2. ASSUME NEW i \in 1 .. Len(rq), NoMatch(L, mq, L[rq[i]]) PROVE NoMatch(L2, mq2, L2[rq[i]])
  <2>1. ASSUME NEW k \in 1 .. Len(mq2), L2[mq2[k]].nhdr = 0 PROVE ~Matches(L2[mq2[k]], L2[rq[i]])
    <3>1. PICK j \in 1 .. Len(mq) : mq2[k] = mq[j]
      OBVIOUS
    <3>2. SameBut(L[mq[j]], L2[mq[j]]) /\ SameBut(L[rq[i]], L2[rq[i]])
      BY <3>1
    <3>3. ~Matches(L[mq[j]], L[rq[i]])
      <4>1. L[mq[j]].nhdr = 0
        BY <2>1, <3>1, <3>2 DEF SameBut
      <4> QED BY Zenon, <1>2, <4>1 DEF NoMatch
    <3> QED BY <3>1, <3>2, <3>3 DEF Matches, SameBut
  <2> QED BY <2>1 DEF NoMatch
<1>3. ASSUME \A i \in 1 .. Len(rq) : Complete(L[rq[i]]) \/ nleft(L[rq[i]]) > 0, RecvPart(L, rq, q)
      PROVE  RecvPart(L2, rq, q)
  <2>1. Once(rq)
    BY <1>3 DEF RecvPart
  <2>2. ASSUME NEW i \in 1 .. Len(rq)
        PROVE  /\ L2[rq[i]].flag \in {"recv", "drain"} /\ L2[rq[i]].peer = q
               /\ ~Complete(L2[rq[i]]) => L2[rq[i]].used
               /\ Begun(L2[rq[i]]) => \A j \in 1 .. i - 1 : Complete(L2[rq[j]])
    <3>1. /\ L[rq[i]].flag \in {"recv", "drain"} /\ L[rq[i]].peer = q
          /\ ~Complete(L[rq[i]]) => L[rq[i]].used
          /\ Begun(L[rq[i]]) => \A j \in 1 .. i - 1 : Complete(L[rq[j]])
      BY Zenon, <1>3 DEF RecvPart
    <3>2. /\ L2[rq[i]].flag = L[rq[i]].flag /\ L2[rq[i]].peer = L[rq[i]].peer
          /\ L[rq[i]].used /\ nleft(L[rq[i]]) > 0 => L2[rq[i]].used
      BY Zenon DEF SameBut
    <3>3. Complete(L[rq[i]]) \/ nleft(L[rq[i]]) > 0
      BY <1>3
    <3>4. ASSUME Begun(L2[rq[i]]) PROVE \A j \in 1 .. i - 1 : Complete(L2[rq[j]])
      <4> TAKE j \in 1 .. i - 1
      <4>1. j \in 1 .. Len(rq)
        OBVIOUS
      <4> QED BY Zenon, <1>1, <3>1, <3>4, <4>1
    <3> QED BY Zenon, <1>1, <3>1, <3>2, <3>3, <3>4
  <2> QED BY Zenon, <2>1, <2>2 DEF RecvPart
<1>4. ASSUME HeaderPart(L, mq, rq) PROVE HeaderPart(L2, mq2, rq)
  BY <1>1, <1>2, <1>4 DEF HeaderPart, SameBut
<1>5. ASSUME DrainPart(L, rq, K, q, w, av, sn) PROVE DrainPart(L2, rq, K, q, w, av, sn)
  BY <1>5 DEF DrainPart, SameBut
<1>6. ASSUME PlacePart(L, mq, rq, K, q) PROVE PlacePart(L2, mq2, rq, K, q)
  <2>1. SUFFICES ASSUME AtRecv(K, q), Head(K).msg # 0
                 PROVE \E k \in 1 .. Len(rq) :
                         /\ rq[k] = Head(K).msg
                         /\ \A j \in 1 .. k - 1 : L2[rq[j]].nhdr = 0 /\ (Complete(L2[rq[k]]) => Complete(L2[rq[j]]))
                         /\ L2[rq[k]].nhdr > 0 /\ L2[rq[k]].flag = "recv" => NoMatch(L2, mq2, L2[rq[k]])
    BY DEF PlacePart
  <2>2. PICK k \in 1 .. Len(rq) :
          /\ rq[k] = Head(K).msg
          /\ \A j \in 1 .. k - 1 : L[rq[j]].nhdr = 0 /\ (Complete(L[rq[k]]) => Complete(L[rq[j]]))
          /\ L[rq[k]].nhdr > 0 /\ L[rq[k]].flag = "recv" => NoMatch(L, mq, L[rq[k]])
    BY <1>6, <2>1 DEF PlacePart
  <2>3. L2[rq[k]].nhdr > 0 /\ L2[rq[k]].flag = "recv" => NoMatch(L2, mq2, L2[rq[k]])
    BY <1>2, <2>2 DEF SameBut
  <2>4. ASSUME NEW j \in 1 .. k - 1
        PROVE  L2[rq[j]].nhdr = 0 /\ (Complete(L2[rq[k]]) => Complete(L2[rq[j]]))
    <3>1. k <= Len(rq) => j \in 1 .. Len(rq)
      OBVIOUS
    <3>2. j \in 1 .. Len(rq)
      BY <3>1
    <3> QED BY <1>1, <2>2, <3>2 DEF SameBut
  <2> QED BY <2>2, <2>3, <2>4
<1>7. ASSUME StreamPart(L, rq, u) PROVE StreamPart(L2, rq, u)
  <2>1. ASSUME NEW i \in 1 .. Len(rq), Begun(L2[rq[i]])
        PROVE  u[2] = Gone(L2[rq[i]]) + 1 /\ (L2[rq[i]].nhdr = 0 => u[1] = L2[rq[i]].num)
    <3>1. Begun(L[rq[i]]) /\ Gone(L2[rq[i]]) = Gone(L[rq[i]])
      BY Zenon, <1>1, <2>1
    <3>2. u[2] = Gone(L[rq[i]]) + 1 /\ (L[rq[i]].nhdr = 0 => u[1] = L[rq[i]].num)
      BY Zenon, <1>7, <3>1 DEF StreamPart
    <3>3. L2[rq[i]].nhdr = L[rq[i]].nhdr /\ L2[rq[i]].num = L[rq[i]].num
      BY Zenon DEF SameBut
    <3> QED BY Zenon, <3>1, <3>2, <3>3
  <2>2. ASSUME \A i \in 1 .. Len(rq) : ~Begun(L2[rq[i]]) PROVE u[2] = 1
    BY Zenon, <1>1, <1>7, <2>2 DEF StreamPart
  <2> QED BY Zenon, <2>1, <2>2 DEF StreamPart
<1> QED BY <1>2, <1>3, <1>4, <1>5, <1>6, <1>7

\* The same, said of all the parts at once.
QueueParts(L, mq, rq, K, q, w, av, sn, u) ==
  /\ RecvPart(L, rq, q) /\ HeaderPart(L, mq, rq) /\ DrainPart(L, rq, K, q, w, av, sn)
  /\ PlacePart(L, mq, rq, K, q) /\ StreamPart(L, rq, u)
Alike(L, L2, mq, mq2, rq) ==
  /\ \A i \in 1 .. Len(rq) : SameBut(L[rq[i]], L2[rq[i]]) /\ (Complete(L[rq[i]]) \/ nleft(L[rq[i]]) > 0)
  /\ \A i \in 1 .. Len(mq2) : SameBut(L[mq2[i]], L2[mq2[i]]) /\ \E j \in 1 .. Len(mq) : mq2[i] = mq[j]

\* The parts hold of the entries afterwards if they held of the ones before.
LEMMA PartsSame ==
  ASSUME NEW L, NEW L2, NEW mq, NEW mq2, NEW rq, NEW K, NEW q, NEW w, NEW av, NEW sn, NEW u,
         Alike(L, L2, mq, mq2, rq), QueueParts(L, mq, rq, K, q, w, av, sn, u)
  PROVE  QueueParts(L2, mq2, rq, K, q, w, av, sn, u)
<1>1. /\ \A i \in 1 .. Len(rq) : SameBut(L[rq[i]], L2[rq[i]])
      /\ \A i \in 1 .. Len(mq2) : SameBut(L[mq2[i]], L2[mq2[i]]) /\ \E j \in 1 .. Len(mq) : mq2[i] = mq[j]
      /\ \A i \in 1 .. Len(rq) : Complete(L[rq[i]]) \/ nleft(L[rq[i]]) > 0
  BY Zenon DEF Alike
<1>2. (RecvPart(L, rq, q) => RecvPart(L2, rq, q)) /\ (HeaderPart(L, mq, rq) => HeaderPart(L2, mq2, rq))
  BY Zenon, <1>1, QueueSame
<1>3. DrainPart(L, rq, K, q, w, av, sn) => DrainPart(L2, rq, K, q, w, av, sn)
  BY Zenon, <1>1, QueueSame
<1>4. PlacePart(L, mq, rq, K, q) => PlacePart(L2, mq2, rq, K, q)
  BY Zenon, <1>1, QueueSame
<1>5. StreamPart(L, rq, u) => StreamPart(L2, rq, u)
  BY Zenon, <1>1, QueueSame
<1> QED BY Zenon, <1>2, <1>3, <1>4, <1>5 DEF QueueParts

\* The messages from q nobody asked for, if none of them changes or gets a handle.
LEMMA MsgSame ==
  ASSUME NEW L, NEW L2, NEW H, NEW H2, NEW mq, NEW rq, NEW p, NEW q, MsgPart(L, H, mq, rq, p, q),
         \A i \in 1 .. Len(mq) : L2[mq[i]] = L[mq[i]] /\ (Named(H2, mq[i]) => Named(H, mq[i]))
  PROVE  MsgPart(L2, H2, mq, rq, p, q)
BY DEF MsgPart

\* Another process, and what it gets from q.
LEMMA InKept ==
  ASSUME TcpMsgAssumption, Types, Types', NEW x \in Proc, NEW q \in Peers(x), In(x, q), SameRows(x),
         avail[q][x] <= Len(wire[q][x]),
         WirePart(msg_list[q], send_q[q][x], sent[q][x], wire[q][x]),
         Grown(sent[q][x], sent'[q][x]),
         NextIn(msg_list[q], send_q[q][x], sent[q][x], wire[q][x])'
           = NextIn(msg_list[q], send_q[q][x], sent[q][x], wire[q][x]),
         wire[q][x] # << >> => wire'[q][x][1] = wire[q][x][1],
         avail[q][x] <= avail'[q][x],
         avail'[q][x] = avail[q][x] \/ sigio'[x],
         sigio[x] => sigio'[x],
         Len(wire[x][q]) <= Len(wire'[x][q]) \/ sigio'[x] \/ ~wactive[x][q]
  PROVE  In(x, q)'
<1> USE DEF SameRows
<1>1. x # q /\ q \in Proc
  BY DEF Peers
<1>2. /\ RecvPart(msg_list[x], recv_q[x][q], q)'
      /\ HeaderPart(msg_list[x], msg_q[x][q], recv_q[x][q])'
      /\ PlacePart(msg_list[x], msg_q[x][q], recv_q[x][q], work[x], q)'
      /\ AwakePart(recv_q[x][q], work[x], ractive[x], q)'
  BY DEF In
<1>3. StreamPart(msg_list[x], recv_q[x][q], NextIn(msg_list[q], send_q[q][x], sent[q][x], wire[q][x]))'
  BY DEF In
<1>4. /\ wire \in [Proc -> [Proc -> Seq(Nat \X Nat)]] /\ wire' \in [Proc -> [Proc -> Seq(Nat \X Nat)]]
      /\ avail \in [Proc -> [Proc -> Nat]] /\ avail' \in [Proc -> [Proc -> Nat]]
      /\ sent \in [Proc -> [Proc -> Seq(SentMsg)]]
      /\ HdrSize \in Nat \ {0} /\ SockCap \in Nat
  BY Zenon DEF Types, TcpMsgAssumption
<1>5. /\ wire[q][x] \in Seq(Nat \X Nat) /\ Len(wire[q][x]) \in Nat
      /\ avail[q][x] \in Nat /\ avail'[q][x] \in Nat
      /\ Len(wire[x][q]) \in Nat /\ Len(wire'[x][q]) \in Nat
  <2>1. /\ wire[q][x] \in Seq(Nat \X Nat) /\ wire[x][q] \in Seq(Nat \X Nat) /\ wire'[x][q] \in Seq(Nat \X Nat)
        /\ avail[q][x] \in Nat /\ avail'[q][x] \in Nat
    BY Zenon, <1>1, <1>4
  <2> QED BY SMTT(30), <2>1
<1>51. /\ avail[q][x] >= HdrSize => Len(wire[q][x]) > 0 /\ avail'[q][x] >= HdrSize
       /\ Len(wire[x][q]) <= Len(wire'[x][q]) /\ Len(wire'[x][q]) < SockCap => Len(wire[x][q]) < SockCap
  <2>1. PICK a1 \in Nat, a2 \in Nat, l \in Nat, l1 \in Nat, l2 \in Nat :
          /\ a1 = avail[q][x] /\ a2 = avail'[q][x] /\ l = Len(wire[q][x])
          /\ l1 = Len(wire[x][q]) /\ l2 = Len(wire'[x][q])
    BY Zenon, <1>5
  <2>2. a1 <= a2 /\ a1 <= l
    BY <2>1
  <2>3. a1 >= HdrSize => l > 0 /\ a2 >= HdrSize
    BY <1>4, <2>2
  <2>4. l1 <= l2 /\ l2 < SockCap => l1 < SockCap
    BY <1>4
  <2> QED BY <2>1, <2>3, <2>4
<1>6. DrainPart(msg_list[x], recv_q[x][q], work[x], q, wire[q][x], avail[q][x], sent[q][x])'
  <2>1. DrainPart(msg_list[x], recv_q[x][q], work[x], q, wire[q][x], avail[q][x], sent[q][x])
    BY DEF In
  <2>2. ASSUME NEW i \in 1 .. Len(recv_q[x][q]), msg_list[x][recv_q[x][q][i]].flag = "drain",
               msg_list[x][recv_q[x][q][i]].nhdr > 0
        PROVE  /\ Len(recv_q[x][q]) = 1 /\ AtRecv(work[x], q) /\ msg_list[x][recv_q[x][q][i]].nhdr = HdrSize
               /\ avail'[q][x] >= HdrSize
               /\ msg_list[x][recv_q[x][q][i]].tag = sent'[q][x][wire'[q][x][1][1]].tag
               /\ msg_list[x][recv_q[x][q][i]].nbytes = sent'[q][x][wire'[q][x][1][1]].nbytes
    <3>1. /\ Len(recv_q[x][q]) = 1 /\ AtRecv(work[x], q) /\ msg_list[x][recv_q[x][q][i]].nhdr = HdrSize
          /\ avail[q][x] >= HdrSize
          /\ msg_list[x][recv_q[x][q][i]].tag = sent[q][x][wire[q][x][1][1]].tag
          /\ msg_list[x][recv_q[x][q][i]].nbytes = sent[q][x][wire[q][x][1][1]].nbytes
      BY Zenon, <2>1, <2>2 DEF DrainPart
    <3>2. Len(wire[q][x]) \in Nat /\ Len(wire[q][x]) > 0 /\ wire[q][x] # << >>
      <4>1. Len(wire[q][x]) \in Nat /\ Len(wire[q][x]) > 0
        BY Zenon, <1>5, <1>51, <3>1
      <4> QED BY <1>5, <4>1
    <3>3. wire[q][x][1][1] \in 1 .. Len(sent[q][x])
      <4>1. 1 \in 1 .. Len(wire[q][x])
        BY <3>2
      <4> QED BY Zenon, <4>1 DEF WirePart
    <3>4. sent'[q][x][wire[q][x][1][1]] = sent[q][x][wire[q][x][1][1]]
      BY Zenon, <3>3 DEF Grown
    <3> QED BY Zenon, <1>51, <3>1, <3>2, <3>4
  <2>3. msg_list'[x] = msg_list[x] /\ recv_q'[x] = recv_q[x] /\ work'[x] = work[x]
    BY Zenon
  <2>4. DrainPart(msg_list[x], recv_q[x][q], work[x], q, wire'[q][x], avail'[q][x], sent'[q][x])
    BY Zenon, <2>2 DEF DrainPart
  <2> QED BY Zenon, <2>3, <2>4
<1>7. SignalPart(work[x], ractive[x], wactive[x], recv_q[x][Wild], Len(wire[x][q]) < SockCap,
                 avail[q][x], sigio[x], q)'
  <2>1. SignalPart(work[x], ractive[x], wactive[x], recv_q[x][Wild], Len(wire[x][q]) < SockCap,
                   avail[q][x], sigio[x], q)
    BY DEF In
  <2>2. CASE sigio'[x]
    BY <2>2 DEF SignalPart
  <2>3. CASE ~sigio'[x]
    <3>1. avail'[q][x] = avail[q][x] /\ ~sigio[x]
      BY <2>3
    <3>2. wactive[x][q] /\ Len(wire'[x][q]) < SockCap => Len(wire[x][q]) < SockCap
      BY <1>51, <2>3
    <3> QED BY <2>1, <3>1, <3>2 DEF SignalPart
  <2> QED BY <2>2, <2>3
<1> QED BY <1>2, <1>3, <1>6, <1>7 DEF In

\* A step of p that leaves the wires alone keeps the invariant if it keeps p's parts.
Quiet(p) ==
  /\ wire' = wire /\ avail' = avail
  /\ \A x \in Peers(p) : SameRows(x) /\ sigio'[x] = sigio[x] /\ sent'[x] = sent[x]
  /\ \A y \in Proc : Grown(sent[p][y], sent'[p][y])
OwnParts(p) == /\ Always(p)' /\ History(p)' /\ (~derailed'[p] => OnTrack(p)')
               /\ \A q \in Peers(p) : ~derailed'[p] => In(p, q)'
SendParts(p) == \A q \in Peers(p) :
  /\ Out(p, q)'
  /\ NextOut(msg_list[p], send_q[p][q], sent[p][q])' = NextOut(msg_list[p], send_q[p][q], sent[p][q])

\* So the invariant is kept if p's own parts and its streams are.
LEMMA OwnStep ==
  ASSUME TcpMsgAssumption, IInv, Types', NEW p \in Proc, Quiet(p), OwnParts(p), SendParts(p)
  PROVE  IInv'
<1>1. \A s, r \in Proc : Grown(sent[s][r], sent'[s][r])
  <2>1. TAKE s, r \in Proc
  <2>2. CASE s = p
    BY <2>2 DEF Quiet
  <2>3. CASE s # p
    <3>1. sent'[s] = sent[s]
      BY <2>3 DEF Quiet, Peers
    <3>2. Len(sent[s][r]) \in Nat
      BY DEF IInv, Types
    <3> QED BY <3>1, <3>2 DEF Grown
  <2> QED BY <2>2, <2>3
<1>2. ASSUME NEW x \in Proc PROVE Always(x)' /\ History(x)' /\ (~derailed'[x] => OnTrack(x)')
  <2>1. CASE x = p
    BY <2>1 DEF OwnParts
  <2>2. CASE x # p
    <3>1. SameRows(x) /\ wire'[x][x] = wire[x][x] /\ avail'[x][x] = avail[x][x]
      BY <2>2 DEF Quiet, Peers
    <3> QED BY <1>1, <3>1, OtherKept
  <2> QED BY <2>1, <2>2
<1>3. ASSUME NEW x \in Proc, NEW q \in Peers(x) PROVE Out(x, q)' /\ (~derailed'[x] => In(x, q)')
  <2>1. CASE x = p
    BY <2>1 DEF OwnParts, SendParts
  <2>2. CASE x # p
    <3>1. SameRows(x) /\ wire' = wire /\ avail' = avail /\ sigio'[x] = sigio[x] /\ sent'[x] = sent[x]
      BY <2>2 DEF Quiet, Peers
    <3>2. q \in Proc /\ x # q /\ x \in Peers(q)
      BY DEF Peers
    <3>3. Out(x, q) /\ Out(q, x) /\ (~derailed[x] => In(x, q)) /\ Types
      BY <3>2 DEF IInv
    <3>4. Out(x, q)'
      BY <3>1, <3>3 DEF Out, SameRows
    <3>5. NextOut(msg_list[q], send_q[q][x], sent[q][x])' = NextOut(msg_list[q], send_q[q][x], sent[q][x])
      <4>1. CASE q = p
        BY <3>2, <4>1 DEF SendParts
      <4>2. CASE q # p
        <5>1. SameRows(q) /\ sent'[q] = sent[q]
          BY <3>2, <4>2 DEF Quiet, Peers
        <5> QED BY <5>1 DEF SameRows
      <4> QED BY <4>1, <4>2
    <3>6. NextIn(msg_list[q], send_q[q][x], sent[q][x], wire[q][x])'
            = NextIn(msg_list[q], send_q[q][x], sent[q][x], wire[q][x])
      BY <3>1, <3>5 DEF NextIn
    <3>7. ~derailed'[x] => In(x, q)
      BY <3>1, <3>3 DEF SameRows
    <3>8. avail[q][x] \in Nat /\ Len(wire[x][q]) \in Nat
      BY <3>2, <3>3 DEF Types
    <3>9. avail[q][x] <= Len(wire[q][x]) /\ WirePart(msg_list[q], send_q[q][x], sent[q][x], wire[q][x])
      BY <3>3 DEF Out
    <3>10. /\ wire[q][x] # << >> => wire'[q][x][1] = wire[q][x][1]
           /\ avail[q][x] <= avail'[q][x] /\ avail'[q][x] = avail[q][x]
           /\ sigio[x] => sigio'[x]
           /\ Len(wire[x][q]) <= Len(wire'[x][q])
      BY <3>1, <3>8
    <3>11. Grown(sent[q][x], sent'[q][x])
      BY <1>1, <3>2
    <3>12. ~derailed'[x] => In(x, q)'
      BY <3>1, <3>3, <3>6, <3>7, <3>9, <3>10, <3>11, InKept
    <3> QED BY <3>4, <3>12
  <2> QED BY <2>1, <2>2
<1> QED BY <1>2, <1>3 DEF IInv

\* A step in which p reads r units from q, likewise.
LEMMA ReadStep ==
  ASSUME TcpMsgAssumption, IInv, Types', NEW p \in Proc, NEW q \in Peers(p), NEW r \in 0 .. avail[q][p],
         Take(p, q, r), \A x \in Peers(p) : SameRows(x), sent' = sent, OwnParts(p), SendParts(p)
  PROVE  IInv'
<1>1. Types /\ q \in Proc /\ q # p /\ p \in Peers(q)
  BY DEF IInv, Peers
<1>2. /\ wire \in [Proc -> [Proc -> Seq(Nat \X Nat)]] /\ avail \in [Proc -> [Proc -> Nat]]
      /\ sigio \in [Proc -> BOOLEAN] /\ sent \in [Proc -> [Proc -> Seq(SentMsg)]]
  BY Zenon, <1>1 DEF Types
<1>3. /\ wire'[q][p] = SubSeq(wire[q][p], r + 1, Len(wire[q][p])) /\ avail'[q][p] = avail[q][p] - r
      /\ sigio'[q] = (sigio[q] \/ wactive[q][p])
      /\ \A s, t \in Proc : s # q \/ t # p => wire'[s][t] = wire[s][t] /\ avail'[s][t] = avail[s][t]
      /\ \A s \in Proc : s # q => sigio'[s] = sigio[s]
  BY Zenon, <1>1, <1>2 DEF Take
<1>4. \A s, t \in Proc : Grown(sent[s][t], sent'[s][t])
  <2>1. TAKE s, t \in Proc
  <2>2. Len(sent[s][t]) \in Nat
    BY <1>2
  <2> QED BY <2>2 DEF Grown
<1>5. ASSUME NEW x \in Proc PROVE Always(x)' /\ History(x)' /\ (~derailed'[x] => OnTrack(x)')
  <2>1. CASE x = p
    BY <2>1 DEF OwnParts
  <2>2. CASE x # p
    <3>1. SameRows(x) /\ wire'[x][x] = wire[x][x] /\ avail'[x][x] = avail[x][x]
      BY <1>3, <2>2 DEF Peers
    <3> QED BY <1>4, <3>1, OtherKept
  <2> QED BY <2>1, <2>2
<1>6. ASSUME NEW x \in Proc, NEW y \in Peers(x) PROVE Out(x, y)' /\ (~derailed'[x] => In(x, y)')
  <2>1. CASE x = p
    BY <2>1 DEF OwnParts, SendParts
  <2>2. CASE x # p
    <3>1. SameRows(x) /\ y \in Proc /\ x # y /\ x \in Peers(y)
      BY <2>2 DEF Peers
    <3>2. Out(x, y) /\ Out(y, x) /\ (~derailed[x] => In(x, y))
      BY <3>1 DEF IInv
    <3>3. Out(x, y)'
      <4>1. CASE x = q /\ y = p
        <5>1. /\ wire[q][p] \in Seq(Nat \X Nat) /\ Len(wire[q][p]) \in Nat /\ avail[q][p] \in Nat
          BY <1>1, <1>2
        <5>2. /\ WirePart(msg_list[q], send_q[q][p], sent[q][p], wire[q][p])
              /\ Len(wire[q][p]) <= SockCap /\ avail[q][p] <= Len(wire[q][p])
              /\ SendPart(msg_list[q], handle[q], send_q[q][p], sent[q][p], p)
          BY <3>2, <4>1 DEF Out
        <5>3. PICK a \in Nat, l \in Nat : a = avail[q][p] /\ l = Len(wire[q][p])
          BY <5>1
        <5>4. r \in 0 .. Len(wire[q][p])
          BY <5>2, <5>3
        <5>5. /\ WirePart(msg_list[q], send_q[q][p], sent[q][p], wire'[q][p])
              /\ Len(wire'[q][p]) = Len(wire[q][p]) - r
          <6>1. PICK w \in Seq(Nat \X Nat) : w = wire[q][p]
            BY <5>1
          <6>2. r \in 0 .. Len(w) /\ WirePart(msg_list[q], send_q[q][p], sent[q][p], w)
            BY <5>2, <5>4, <6>1
          <6>3. /\ WirePart(msg_list[q], send_q[q][p], sent[q][p], SubSeq(w, r + 1, Len(w)))
                /\ Len(SubSeq(w, r + 1, Len(w))) = Len(w) - r
            BY <6>2, WireTaken
          <6> QED BY <1>3, <6>1, <6>3
        <5>6. SockCap \in Nat
          BY DEF TcpMsgAssumption
        <5>7. Len(wire'[q][p]) <= SockCap /\ avail'[q][p] <= Len(wire'[q][p])
          <6>1. PICK l2, a2 : l2 = Len(wire'[q][p]) /\ a2 = avail'[q][p]
            BY Zenon
          <6>2. l2 = l - r /\ a2 = a - r /\ l <= SockCap /\ a <= l
            BY Zenon, <1>3, <5>2, <5>3, <5>5, <6>1
          <6>3. r \in Nat /\ r <= l
            BY <5>3, <5>4
          <6>4. l2 <= SockCap /\ a2 <= l2
            BY SMTT(30), <5>3, <5>6, <6>2, <6>3
          <6> QED BY Zenon, <6>1, <6>4
        <5> QED BY <3>1, <4>1, <5>2, <5>5, <5>7 DEF Out, SameRows
      <4>2. CASE x # q \/ y # p
        <5>1. wire'[x][y] = wire[x][y] /\ avail'[x][y] = avail[x][y]
          BY <1>3, <3>1, <4>2
        <5> QED BY <3>1, <3>2, <5>1 DEF Out, SameRows
      <4> QED BY <4>1, <4>2
    <3>4. NextOut(msg_list[y], send_q[y][x], sent[y][x])' = NextOut(msg_list[y], send_q[y][x], sent[y][x])
      <4>1. CASE y = p
        BY <3>1, <4>1 DEF SendParts
      <4>2. CASE y # p
        <5>1. SameRows(y)
          BY <3>1, <4>2 DEF Peers
        <5> QED BY <5>1 DEF SameRows
      <4> QED BY <4>1, <4>2
    <3>5. wire'[y][x] = wire[y][x] /\ avail'[y][x] = avail[y][x]
      BY <1>3, <2>2, <3>1
    <3>6. NextIn(msg_list[y], send_q[y][x], sent[y][x], wire[y][x])'
            = NextIn(msg_list[y], send_q[y][x], sent[y][x], wire[y][x])
      BY <3>4, <3>5 DEF NextIn
    <3>7. ~derailed'[x] => In(x, y)
      BY <3>1, <3>2 DEF SameRows
    <3>8. avail[y][x] \in Nat /\ Len(wire[x][y]) \in Nat
      BY <1>2, <3>1
    <3>9. avail[y][x] <= Len(wire[y][x]) /\ WirePart(msg_list[y], send_q[y][x], sent[y][x], wire[y][x])
      BY <3>2 DEF Out
    <3>10. /\ wire[y][x] # << >> => wire'[y][x][1] = wire[y][x][1]
           /\ avail[y][x] <= avail'[y][x] /\ avail'[y][x] = avail[y][x]
      BY <3>5, <3>8
    <3>11. Grown(sent[y][x], sent'[y][x])
      BY <1>4, <3>1
    <3>12. /\ sigio[x] => sigio'[x]
           /\ Len(wire[x][y]) <= Len(wire'[x][y]) \/ sigio'[x] \/ ~wactive[x][y]
      <4>1. CASE x = q /\ y = p
        BY Zenon, <1>3, <4>1
      <4>2. CASE x # q \/ y # p
        <5>1. wire'[x][y] = wire[x][y]
          BY <1>3, <3>1, <4>2
        <5>2. Len(wire[x][y]) <= Len(wire'[x][y])
          BY <3>8, <5>1
        <5>3. sigio[x] => sigio'[x]
          BY Zenon, <1>3
        <5> QED BY <5>2, <5>3
      <4> QED BY <4>1, <4>2
    <3>13. ~derailed'[x] => In(x, y)'
      BY <1>1, <3>1, <3>6, <3>7, <3>9, <3>10, <3>11, <3>12, InKept
    <3> QED BY <3>3, <3>13
  <2> QED BY <2>1, <2>2
<1> QED BY <1>5, <1>6 DEF IInv

\* A step in which p writes to q, likewise.
LEMMA WriteStep ==
  ASSUME TcpMsgAssumption, IInv, Types', NEW p \in Proc, NEW q \in Peers(p),
         \A s, t \in Proc : s # p \/ t # q => wire'[s][t] = wire[s][t],
         wire[p][q] # << >> => wire'[p][q][1] = wire[p][q][1], wire'[p][q] \in Seq(Nat \X Nat),
         NextIn(msg_list[p], send_q[p][q], sent[p][q], wire[p][q])'
           = NextIn(msg_list[p], send_q[p][q], sent[p][q], wire[p][q]),
         \A y \in Peers(p) : y # q => NextOut(msg_list[p], send_q[p][y], sent[p][y])'
                                        = NextOut(msg_list[p], send_q[p][y], sent[p][y]),
         avail' = avail, sigio' = sigio, sent' = sent,
         \A x \in Peers(p) : SameRows(x), OwnParts(p), \A y \in Peers(p) : Out(p, y)'
  PROVE  IInv'
<1>1. Types /\ q \in Proc /\ q # p /\ p \in Peers(q)
  BY DEF IInv, Peers
<1>2. /\ wire \in [Proc -> [Proc -> Seq(Nat \X Nat)]] /\ avail \in [Proc -> [Proc -> Nat]]
      /\ sigio \in [Proc -> BOOLEAN] /\ sent \in [Proc -> [Proc -> Seq(SentMsg)]]
  BY Zenon, <1>1 DEF Types
<1>4. \A s, t \in Proc : Grown(sent[s][t], sent'[s][t])
  <2>1. TAKE s, t \in Proc
  <2>2. Len(sent[s][t]) \in Nat
    BY <1>2
  <2> QED BY <2>2 DEF Grown
<1>5. ASSUME NEW x \in Proc PROVE Always(x)' /\ History(x)' /\ (~derailed'[x] => OnTrack(x)')
  <2>1. CASE x = p
    BY <2>1 DEF OwnParts
  <2>2. CASE x # p
    <3>1. SameRows(x) /\ wire'[x][x] = wire[x][x] /\ avail'[x][x] = avail[x][x]
      BY <2>2 DEF Peers
    <3> QED BY <1>4, <3>1, OtherKept
  <2> QED BY <2>1, <2>2
<1>6. ASSUME NEW x \in Proc, NEW y \in Peers(x) PROVE Out(x, y)' /\ (~derailed'[x] => In(x, y)')
  <2>1. CASE x = p
    BY <2>1 DEF OwnParts
  <2>2. CASE x # p
    <3>1. SameRows(x) /\ y \in Proc /\ x # y /\ x \in Peers(y) /\ wire'[x][y] = wire[x][y]
      BY <2>2 DEF Peers
    <3>2. Out(x, y) /\ Out(y, x) /\ (~derailed[x] => In(x, y))
      BY <3>1 DEF IInv
    <3>3. Out(x, y)'
      BY <3>1, <3>2 DEF Out, SameRows
    <3>6. /\ NextIn(msg_list[y], send_q[y][x], sent[y][x], wire[y][x])'
               = NextIn(msg_list[y], send_q[y][x], sent[y][x], wire[y][x])
          /\ wire[y][x] # << >> => wire'[y][x][1] = wire[y][x][1]
      <4>1. CASE y = p /\ x = q
        BY <4>1
      <4>2. CASE y # p \/ x # q
        <5>1. wire'[y][x] = wire[y][x]
          BY <3>1, <4>2
        <5>2. NextOut(msg_list[y], send_q[y][x], sent[y][x])' = NextOut(msg_list[y], send_q[y][x], sent[y][x])
          <6>1. CASE y = p
            BY <3>1, <4>2, <6>1
          <6>2. CASE y # p
            <7>1. SameRows(y)
              BY <3>1, <6>2 DEF Peers
            <7> QED BY <7>1 DEF SameRows
          <6> QED BY <6>1, <6>2
        <5> QED BY <5>1, <5>2 DEF NextIn
      <4> QED BY <4>1, <4>2
    <3>7. ~derailed'[x] => In(x, y)
      BY <3>1, <3>2 DEF SameRows
    <3>8. avail[y][x] \in Nat /\ Len(wire[x][y]) \in Nat
      BY <1>2, <3>1
    <3>9. avail[y][x] <= Len(wire[y][x]) /\ WirePart(msg_list[y], send_q[y][x], sent[y][x], wire[y][x])
      BY <3>2 DEF Out
    <3>10. avail[y][x] <= avail'[y][x] /\ avail'[y][x] = avail[y][x] /\ Len(wire[x][y]) <= Len(wire'[x][y])
           /\ (sigio[x] => sigio'[x])
      BY <3>1, <3>8
    <3>11. Grown(sent[y][x], sent'[y][x])
      BY <1>4, <3>1
    <3>13. ~derailed'[x] => In(x, y)'
      BY Zenon, <1>1, <3>1, <3>6, <3>7, <3>9, <3>10, <3>11, InKept
    <3> QED BY <3>3, <3>13
  <2> QED BY <2>1, <2>2
<1> QED BY <1>5, <1>6 DEF IInv

\* Data arrives.
LEMMA DeliverStep ==
  ASSUME TcpMsgAssumption, IInv, NEW q \in Proc, NEW p \in Proc, Deliver(q, p)
  PROVE  IInv'
<1>1. Types
  BY DEF IInv
<1>2. /\ wire \in [Proc -> [Proc -> Seq(Nat \X Nat)]] /\ avail \in [Proc -> [Proc -> Nat]]
      /\ sigio \in [Proc -> BOOLEAN] /\ sent \in [Proc -> [Proc -> Seq(SentMsg)]]
  BY <1>1 DEF Types
<1>3. PICK k \in 1 .. Len(wire[q][p]) - avail[q][p] : avail' = [avail EXCEPT ![q][p] = @ + k]
  BY DEF Deliver
<1>4. sigio' = [sigio EXCEPT ![p] = TRUE] /\ UNCHANGED <<userVars, queueVars, work, wire, derailed>>
  BY DEF Deliver
<1>5. q # p
  <2>1. SUFFICES ASSUME q = p PROVE FALSE
    OBVIOUS
  <2>2. Always(p)
    BY DEF IInv
  <2>3. wire[p][p] = << >> /\ avail[p][p] = 0
    BY <2>2 DEF Always, OwnPart
  <2>4. Len(wire[q][p]) - avail[q][p] = 0
    BY <2>1, <2>3
  <2> QED BY <1>3, <2>4
<1>6. PICK a \in Nat, l \in Nat : a = avail[q][p] /\ l = Len(wire[q][p])
  BY SMTT(30), <1>2
<1>7. avail'[q][p] = a + k /\ a + k <= l /\ a + k >= a /\ a + k \in Nat
  <2>1. avail'[q][p] = a + k
    BY <1>2, <1>3, <1>6
  <2>2. k \in 1 .. l - a
    BY <1>3, <1>6
  <2> QED BY <2>1, <2>2
<1>8. /\ \A s, t \in Proc : s # q \/ t # p => avail'[s][t] = avail[s][t]
      /\ sigio'[p] /\ \A s \in Proc : sigio[s] => sigio'[s]
  BY <1>2, <1>3, <1>4
<1>9. Types'
  <2>1. avail' \in [Proc -> [Proc -> Nat]] /\ sigio' \in [Proc -> BOOLEAN]
    BY Zenon, <1>2, <1>3, <1>4, <1>6, <1>7
  <2> QED BY Zenon, <1>1, <1>4, <2>1 DEF Types, userVars, queueVars
<1>10. \A x \in Proc : SameRows(x)
  BY <1>4 DEF SameRows, userVars, queueVars
<1>11. sent' = sent /\ wire' = wire /\ msg_list' = msg_list /\ send_q' = send_q
  BY <1>4 DEF userVars, queueVars
<1>12. \A s, t \in Proc : Grown(sent[s][t], sent'[s][t])
  <2>1. TAKE s, t \in Proc
  <2>2. Len(sent[s][t]) \in Nat
    BY <1>2
  <2> QED BY <1>11, <2>2 DEF Grown
<1>13. ASSUME NEW x \in Proc PROVE Always(x)' /\ History(x)' /\ (~derailed'[x] => OnTrack(x)')
  <2>1. SameRows(x) /\ wire'[x][x] = wire[x][x] /\ avail'[x][x] = avail[x][x]
    BY <1>5, <1>8, <1>10, <1>11
  <2> QED BY <1>9, <1>12, <2>1, OtherKept
<1>14. ASSUME NEW x \in Proc, NEW y \in Peers(x) PROVE Out(x, y)' /\ (~derailed'[x] => In(x, y)')
  <2>1. SameRows(x) /\ y \in Proc /\ x # y /\ x \in Peers(y)
    BY <1>10 DEF Peers
  <2>2. Out(x, y) /\ Out(y, x) /\ (~derailed[x] => In(x, y))
    BY <2>1 DEF IInv
  <2>3. avail'[x][y] <= Len(wire'[x][y])
    <3>1. CASE x = q /\ y = p
      BY <1>6, <1>7, <1>11, <3>1
    <3>2. CASE x # q \/ y # p
      BY <1>8, <1>11, <2>1, <2>2, <3>2 DEF Out
    <3> QED BY <3>1, <3>2
  <2>4. Out(x, y)'
    BY <1>11, <2>1, <2>2, <2>3 DEF Out, SameRows
  <2>5. NextIn(msg_list[y], send_q[y][x], sent[y][x], wire[y][x])'
          = NextIn(msg_list[y], send_q[y][x], sent[y][x], wire[y][x])
    BY <1>11
  <2>6. avail[y][x] \in Nat /\ Len(wire[x][y]) \in Nat
    BY <1>2, <2>1
  <2>7. avail[y][x] <= Len(wire[y][x]) /\ WirePart(msg_list[y], send_q[y][x], sent[y][x], wire[y][x])
    BY <2>2 DEF Out
  <2>8. avail[y][x] <= avail'[y][x] /\ (avail'[y][x] = avail[y][x] \/ sigio'[x])
    <3>1. CASE y = q /\ x = p
      BY <1>6, <1>7, <1>8, <3>1
    <3>2. CASE y # q \/ x # p
      BY <1>8, <2>1, <2>6, <3>2
    <3> QED BY <3>1, <3>2
  <2>9. Len(wire[x][y]) <= Len(wire'[x][y]) /\ (sigio[x] => sigio'[x])
        /\ (wire[y][x] # << >> => wire'[y][x][1] = wire[y][x][1])
    BY <1>8, <1>11, <2>1, <2>6
  <2>10. Grown(sent[y][x], sent'[y][x])
    BY <1>12, <2>1
  <2>11. ~derailed'[x] => In(x, y)
    BY <2>1, <2>2 DEF SameRows
  <2>12. ~derailed'[x] => In(x, y)'
    BY <1>1, <1>9, <2>1, <2>5, <2>7, <2>8, <2>9, <2>10, <2>11, InKept
  <2> QED BY <2>4, <2>12
<1> QED BY <1>9, <1>13, <1>14 DEF IInv

\* The queues and the streams of p in a step that leaves them alone.
LEMMA OutQuiet ==
  ASSUME IInv, NEW p \in Proc,
         send_q'[p] = send_q[p], sent'[p] = sent[p], wire' = wire, avail' = avail,
         \A m \in Ids : Outgoing(msg_list[p][m]) => StillOutgoing(msg_list[p][m], msg_list'[p][m]),
         \A m \in Ids : Outgoing(msg_list[p][m]) /\ msg_list'[p][m].flag = "send" /\ Named(handle[p], m)
                          => Named(handle'[p], m)
  PROVE  SendParts(p)
<1>1. ASSUME NEW q \in Peers(p)
      PROVE  /\ Out(p, q)'
             /\ NextOut(msg_list[p], send_q[p][q], sent[p][q])' = NextOut(msg_list[p], send_q[p][q], sent[p][q])
  <2>1. Out(p, q) /\ q \in Proc
    BY DEF IInv, Peers
  <2>2. PICK sq \in Seq(Ids) : sq = send_q[p][q]
    <3>1. Types
      BY Zenon DEF IInv
    <3>2. send_q \in [Proc -> [Proc -> Seq(Ids)]]
      BY Zenon, <3>1 DEF Types
    <3> QED BY Zenon, <2>1, <3>2
  <2>3. PICK sn, w : sn = sent[p][q] /\ w = wire[p][q]
    OBVIOUS
  <2>4. SendPart(msg_list[p], handle[p], sq, sn, q) /\ WirePart(msg_list[p], sq, sn, w)
    BY <2>1, <2>2, <2>3 DEF Out
  <2>5. PICK L, L2, H, H2 : L = msg_list[p] /\ L2 = msg_list'[p] /\ H = handle[p] /\ H2 = handle'[p]
    OBVIOUS
  <2>6. /\ \A m \in Ids : Outgoing(L[m]) => StillOutgoing(L[m], L2[m])
        /\ \A m \in Ids : Outgoing(L[m]) /\ L2[m].flag = "send" /\ Named(H, m) => Named(H2, m)
        /\ SendPart(L, H, sq, sn, q) /\ WirePart(L, sq, sn, w)
    BY <2>4, <2>5
  <2>7. /\ SendPart(L2, H2, sq, sn, q) /\ NextOut(L2, sq, sn) = NextOut(L, sq, sn)
        /\ WirePart(L2, sq, sn, w)
    <3>1. SendPart(L2, H2, sq, sn, q)
      BY <2>6, OutKept, Zenon
    <3>3. NextOut(L2, sq, sn) = NextOut(L, sq, sn)
      BY <2>6, NextOutKept
    <3>2. WirePart(L2, sq, sn, w)
      BY <2>6, OutKept, Zenon
    <3> QED BY <3>1, <3>2, <3>3
  <2> QED BY <2>1, <2>2, <2>3, <2>5, <2>7 DEF Out
<1> QED BY <1>1 DEF SendParts

\* What a call of MP_Wait() or MP_Test() may do to an entry: push_to_buffer() makes
\* of it a buffered one; one that is done is freed.
Touched(e, e2, named) ==
  /\ e2.peer = e.peer /\ e2.tag = e.tag /\ e2.nbytes = e.nbytes /\ e2.nhdr = e.nhdr
  /\ e2.left = e.left /\ e2.num = e.num /\ e2.got = e.got
  /\ e2.flag = e.flag \/ (e.flag = "send" /\ e2.flag = "buffered")
  /\ e2.used = e.used \/ (~e2.used /\ Complete(e) /\ e2.flag # "buffered" /\ named)

\* Such a step keeps the invariant.
LEMMA UserStep ==
  ASSUME TcpMsgAssumption, IInv, Types', NEW p \in Proc, work[p] = << >>, ~derailed[p],
         UNCHANGED <<sent, send_q, recv_q, msg_q, ractive, wactive, work, netVars, derailed>>,
         \A x \in Peers(p) : SameRows(x),
         \A m \in Ids : Touched(msg_list[p][m], msg_list'[p][m], Named(handle[p], m)),
         \A m \in Ids : Named(handle'[p], m) => Named(handle[p], m),
         \A m \in Ids : Named(handle[p], m) /\ ~Named(handle'[p], m)
                          => ~msg_list'[p][m].used \/ msg_list'[p][m].flag = "buffered",
         HandlePart(todo[p], handle[p], waited[p], pc[p])', WaitedPart(waited[p], sent, p)',
         PcPart(msg_list[p], todo[p], handle[p], pc[p])'
  PROVE  IInv'
<1>1. /\ Types /\ Always(p) /\ History(p) /\ OnTrack(p) /\ \A q \in Peers(p) : Out(p, q) /\ In(p, q)
  BY DEF IInv
<1>2. /\ sent' = sent /\ send_q' = send_q /\ recv_q' = recv_q /\ msg_q' = msg_q /\ ractive' = ractive
      /\ wactive' = wactive /\ work' = work /\ wire' = wire /\ avail' = avail /\ sigio' = sigio
      /\ derailed' = derailed
  BY DEF netVars
<1>3. PICK L, L2, H, H2 : L = msg_list[p] /\ L2 = msg_list'[p] /\ H = handle[p] /\ H2 = handle'[p]
  OBVIOUS
<1>4. /\ L \in [Ids -> EntryType] /\ L2 \in [Ids -> EntryType]
      /\ \A m \in Ids : Touched(L[m], L2[m], Named(H, m))
      /\ \A m \in Ids : Named(H2, m) => Named(H, m)
      /\ \A m \in Ids : Named(H, m) /\ ~Named(H2, m) => ~L2[m].used \/ L2[m].flag = "buffered"
  BY Zenon, <1>1, <1>3 DEF Types
<1>5. \A m \in Ids : L[m].left \in Nat /\ L[m].nhdr \in Nat /\ nleft(L[m]) \in Nat /\ nleft(L2[m]) = nleft(L[m])
  <2>1. \A e \in EntryType : e.left \in Nat /\ e.nhdr \in Nat /\ nleft(e) \in Nat
    <3>1. HdrSize \in Nat
      BY DEF TcpMsgAssumption
    <3> QED BY <3>1 DEF EntryType, nleft
  <2> QED BY <1>4, <2>1 DEF Touched, nleft
<1>6. \A m \in Ids : nleft(L[m]) > 0 => ~Complete(L[m])
  BY <1>5 DEF Complete
<1>7. Always(p)'
  <2>1. EntryPart(L2, p)
    <3>1. EntryPart(L, p)
      BY <1>1, <1>3 DEF Always
    <3>2. SUFFICES ASSUME NEW m \in Ids
                   PROVE  /\ L2[m].left <= L2[m].nbytes
                          /\ L2[m].nhdr > 0 => L2[m].left = L2[m].nbytes /\ L2[m].got = << >>
                          /\ L2[m].flag = "drain" => L2[m].peer # p
      BY Zenon DEF EntryPart
    <3>3. /\ L[m].left <= L[m].nbytes
          /\ L[m].nhdr > 0 => L[m].left = L[m].nbytes /\ L[m].got = << >>
          /\ L[m].flag = "drain" => L[m].peer # p
      BY Zenon, <3>1 DEF EntryPart
    <3>4. /\ L2[m].peer = L[m].peer /\ L2[m].nbytes = L[m].nbytes /\ L2[m].nhdr = L[m].nhdr
          /\ L2[m].left = L[m].left /\ L2[m].got = L[m].got
          /\ L2[m].flag = "drain" => L[m].flag = "drain"
      BY <1>4 DEF Touched
    <3> QED BY Zenon, <3>3, <3>4
  <2>2. QueuedPart(L2, send_q[p])
    <3>1. QueuedPart(L, send_q[p])
      BY <1>1, <1>3 DEF Always
    <3>2. SUFFICES ASSUME NEW m \in Ids, L2[m].used, L2[m].flag \in {"send", "buffered"}, nleft(L2[m]) > 0
                   PROVE  \E q \in Proc : Contains(send_q[p][q], m)
      BY Zenon DEF QueuedPart
    <3>3. Touched(L[m], L2[m], Named(H, m)) /\ nleft(L2[m]) = nleft(L[m])
      BY Zenon, <1>4, <1>5
    <3>4. L[m].used /\ L[m].flag \in {"send", "buffered"}
      BY <3>2, <3>3 DEF Touched
    <3>5. nleft(L[m]) > 0
      BY Zenon, <3>2, <3>3
    <3> QED BY Zenon, <3>1, <3>4, <3>5 DEF QueuedPart
  <2>3. KeptPart(L2, H2, send_q[p], msg_q[p])
    <3>1. KeptPart(L, H, send_q[p], msg_q[p]) /\ QueuedPart(L2, send_q[p])
      BY <1>1, <1>3, <2>2 DEF Always
    <3>2. ASSUME NEW m \in Ids, L2[m].used
          PROVE  \/ Named(H2, m)
                 \/ \E q \in Proc : Contains(send_q[p][q], m) \/ Contains(msg_q[p][q], m)
                 \/ L2[m].flag = "buffered" /\ Complete(L2[m])
      <4>1. L[m].used
        BY <1>4, <3>2 DEF Touched
      <4>2. CASE Named(H, m) /\ ~Named(H2, m)
        <5>1. L2[m].flag = "buffered"
          BY <1>4, <3>2, <4>2
        <5>2. CASE nleft(L2[m]) > 0
          BY <3>1, <3>2, <5>1, <5>2 DEF QueuedPart
        <5>3. CASE ~(nleft(L2[m]) > 0)
          <6>1. nleft(L2[m]) = 0
            BY <1>5, <5>3
          <6> QED BY <5>1, <6>1 DEF Complete
        <5> QED BY <5>2, <5>3
      <4>3. CASE ~Named(H, m)
        <5>1. (\E q \in Proc : Contains(send_q[p][q], m) \/ Contains(msg_q[p][q], m))
              \/ (L[m].flag = "buffered" /\ Complete(L[m]))
          <6>1. KeptPart(L, H, send_q[p], msg_q[p])
            BY <3>1
          <6> QED BY <4>1, <4>3, <6>1 DEF KeptPart
        <5> QED BY <1>4, <1>5, <5>1 DEF Touched, Complete
      <4> QED BY <4>2, <4>3
    <3> QED BY <3>2 DEF KeptPart
  <2> QED BY <1>1, <1>2, <1>3, <2>1, <2>2, <2>3 DEF Always
<1>8. History(p)'
  <2>1. ContentPart(L2, sent, p)
    <3>1. ContentPart(L, sent, p)
      BY <1>1, <1>3 DEF History
    <3>2. ASSUME NEW m \in Ids, L2[m].nhdr = 0, L2[m].flag \in {"recv", "drain"} \/ L2[m].peer = p
          PROVE  Holds(L2[m], sent, p)
      <4>1. Holds(L[m], sent, p)
        <5>1. Touched(L[m], L2[m], Named(H, m))
          BY Zenon, <1>4
        <5>2. L[m].nhdr = 0 /\ (L[m].flag \in {"recv", "drain"} \/ L[m].peer = p)
          BY <3>2, <5>1 DEF Touched
        <5> QED BY Zenon, <3>1, <5>2 DEF ContentPart
      <4> QED BY ZenonT(30), <1>4, <4>1 DEF Holds, Touched
    <3> QED BY <3>2 DEF ContentPart
  <2> QED BY <1>2, <1>3, <2>1 DEF History
<1>9. OnTrack(p)'
  <2>1. WildPart(L2, recv_q[p][Wild])
    <3>1. WildPart(L, recv_q[p][Wild])
      BY <1>1, <1>3 DEF OnTrack
    <3>2. recv_q[p][Wild] \in Seq(Ids)
      BY <1>1 DEF Types
    <3>3. ASSUME NEW i \in 1 .. Len(recv_q[p][Wild])
          PROVE LET e == L2[recv_q[p][Wild][i]] IN e.used /\ e.flag = "recv" /\ e.peer = Wild /\ e.nhdr = HdrSize
      <4>1. PICK m \in Ids : m = recv_q[p][Wild][i]
        BY <3>2
      <4>2. L[m].used /\ L[m].flag = "recv" /\ L[m].peer = Wild /\ L[m].nhdr = HdrSize
        BY <3>1, <4>1 DEF WildPart
      <4>3. ~Complete(L[m])
        <5>1. HdrSize \in Nat \ {0}
          BY DEF TcpMsgAssumption
        <5>2. nleft(L[m]) > 0
          BY <1>5, <4>2, <5>1 DEF nleft
        <5> QED BY <1>6, <5>2
      <4>4. Touched(L[m], L2[m], Named(H, m))
        BY <1>4
      <4>5. L2[m].used /\ L2[m].flag = "recv" /\ L2[m].peer = Wild /\ L2[m].nhdr = HdrSize
        BY Zenon, <4>2, <4>3, <4>4 DEF Touched
      <4> QED BY <4>1, <4>5
    <3> QED BY Zenon, <3>1, <3>3 DEF WildPart
  <2>2. ASSUME NEW q \in Proc PROVE MsgPart(L2, H2, msg_q[p][q], recv_q[p][q], p, q)
    <3>1. MsgPart(L, H, msg_q[p][q], recv_q[p][q], p, q)
      BY <1>1, <1>3 DEF OnTrack
    <3>2. msg_q[p][q] \in Seq(Ids)
      BY <1>1 DEF Types
    <3>3. ASSUME NEW i \in 1 .. Len(msg_q[p][q])
          PROVE  LET e == L2[msg_q[p][q][i]]
                 IN  /\ e.used /\ e.peer = q
                     /\ q = p => e.flag = "buffered" /\ Complete(e)
                     /\ q # p => /\ e.flag = "drain" \/ (e.flag = "recv" /\ e.nhdr = 0)
                                 /\ Complete(e) \/ Contains(recv_q[p][q], msg_q[p][q][i])
                                 /\ ~Named(H2, msg_q[p][q][i])
      <4>1. PICK m \in Ids : m = msg_q[p][q][i]
        BY <3>2
      <4>2. /\ L[m].used /\ L[m].peer = q
            /\ q = p => L[m].flag = "buffered" /\ Complete(L[m])
            /\ q # p => /\ L[m].flag = "drain" \/ (L[m].flag = "recv" /\ L[m].nhdr = 0)
                        /\ Complete(L[m]) \/ Contains(recv_q[p][q], m)
                        /\ ~Named(H, m)
        BY Zenon, <3>1, <4>1 DEF MsgPart
      <4>3. Touched(L[m], L2[m], Named(H, m)) /\ (Complete(L2[m]) <=> Complete(L[m]))
        BY <1>4, <1>5 DEF Complete
      <4>4. L2[m].used /\ L2[m].peer = q
        BY Zenon, <4>2, <4>3 DEF Touched
      <4>5. q = p => L2[m].flag = "buffered" /\ Complete(L2[m])
        BY <4>2, <4>3 DEF Touched
      <4>6. q # p => /\ L2[m].flag = "drain" \/ (L2[m].flag = "recv" /\ L2[m].nhdr = 0)
                     /\ Complete(L2[m]) \/ Contains(recv_q[p][q], m)
                     /\ ~Named(H2, m)
        BY <1>4, <4>2, <4>3 DEF Touched
      <4> QED BY Zenon, <4>1, <4>4, <4>5, <4>6
    <3> QED BY Zenon, <3>1, <3>3 DEF MsgPart
  <2> QED BY <1>2, <1>3, <2>1, <2>2 DEF OnTrack
<1>10. ASSUME NEW q \in Peers(p) PROVE In(p, q)'
  <2>1. In(p, q) /\ MsgPart(L, H, msg_q[p][q], recv_q[p][q], p, q) /\ q # p /\ q \in Proc
    BY <1>1, <1>3 DEF OnTrack, Peers
  <2>2. PICK mq \in Seq(Ids), rq \in Seq(Ids) : mq = msg_q[p][q] /\ rq = recv_q[p][q]
    BY Zenon, <1>1, <2>1, RowTypes
  <2>3. \A i \in 1 .. Len(rq) : rq[i] \in Ids /\ L[rq[i]].flag \in {"recv", "drain"}
    <3>1. RecvPart(L, rq, q)
      BY Zenon, <1>3, <2>1, <2>2 DEF In
    <3>2. \A i \in 1 .. Len(rq) : L[rq[i]].flag \in {"recv", "drain"}
      BY Zenon, <3>1 DEF RecvPart
    <3>3. \A i \in 1 .. Len(rq) : rq[i] \in Ids
      BY <2>2
    <3> QED BY Zenon, <3>2, <3>3
  <2>4. \A i \in 1 .. Len(mq) : mq[i] \in Ids /\ L[mq[i]].flag \in {"recv", "drain"}
    <3>1. MsgPart(L, H, mq, rq, p, q)
      BY Zenon, <2>1, <2>2
    <3>2. \A i \in 1 .. Len(mq) : L[mq[i]].flag = "drain" \/ (L[mq[i]].flag = "recv" /\ L[mq[i]].nhdr = 0)
      BY Zenon, <2>1, <3>1 DEF MsgPart
    <3>3. \A i \in 1 .. Len(mq) : mq[i] \in Ids
      BY <2>2
    <3> QED BY <3>2, <3>3
  <2>5. \A m \in Ids : L[m].flag \in {"recv", "drain"} => SameBut(L[m], L2[m])
    BY <1>4, <1>6 DEF Touched, SameBut
  <2>6. PICK K, w, av, sn, u : /\ K = work[p] /\ w = wire[q][p] /\ av = avail[q][p] /\ sn = sent[q][p]
                               /\ u = NextIn(msg_list[q], send_q[q][p], sent[q][p], wire[q][p])
    OBVIOUS
  <2>7. /\ RecvPart(L, rq, q) /\ HeaderPart(L, mq, rq) /\ DrainPart(L, rq, K, q, w, av, sn)
        /\ PlacePart(L, mq, rq, K, q) /\ StreamPart(L, rq, u)
    BY Zenon, <1>3, <2>1, <2>2, <2>6 DEF In
  <2>8. /\ RecvPart(L2, rq, q) /\ HeaderPart(L2, mq, rq) /\ DrainPart(L2, rq, K, q, w, av, sn)
        /\ PlacePart(L2, mq, rq, K, q) /\ StreamPart(L2, rq, u)
    <3>1. \A i \in 1 .. Len(rq) : SameBut(L[rq[i]], L2[rq[i]])
      BY <2>3, <2>5
    <3>2. \A i \in 1 .. Len(mq) : SameBut(L[mq[i]], L2[mq[i]]) /\ \E j \in 1 .. Len(mq) : mq[i] = mq[j]
      BY <2>4, <2>5
    <3>3. \A i \in 1 .. Len(rq) : Complete(L[rq[i]]) \/ nleft(L[rq[i]]) > 0
      BY <1>5, <2>3 DEF Complete
    <3>4. Alike(L, L2, mq, mq, rq) /\ QueueParts(L, mq, rq, K, q, w, av, sn, u)
      BY Zenon, <2>7, <3>1, <3>2, <3>3 DEF Alike, QueueParts
    <3>5. QueueParts(L2, mq, rq, K, q, w, av, sn, u)
      BY Zenon, <3>4, PartsSame
    <3> QED BY Zenon, <3>5 DEF QueueParts
  <2>9. NextIn(msg_list[q], send_q[q][p], sent[q][p], wire[q][p])' = u
    <3>1. msg_list'[q] = msg_list[q]
      BY <2>1 DEF SameRows, Peers
    <3> QED BY <1>2, <2>6, <3>1
  <2> QED BY Zenon, <1>2, <1>3, <2>1, <2>2, <2>6, <2>8, <2>9 DEF In
<1>11. SendParts(p)
  <2>1. \A m \in Ids : Outgoing(L[m]) => StillOutgoing(L[m], L2[m])
    BY <1>4, <1>6 DEF Outgoing, StillOutgoing, Touched
  <2>2. ASSUME NEW m \in Ids, Outgoing(L[m]), L2[m].flag = "send", Named(H, m) PROVE Named(H2, m)
    <3>1. L2[m].used
      BY <2>1, <2>2 DEF StillOutgoing
    <3> QED BY <1>4, <2>2, <3>1
  <2> QED BY <1>2, <1>3, <2>1, <2>2, OutQuiet
<1>12. Quiet(p)
  <2>1. \A y \in Proc : Grown(sent[p][y], sent'[p][y])
    <3>1. \A y \in Proc : Len(sent[p][y]) \in Nat
      BY <1>1 DEF Types
    <3> QED BY <1>2, <3>1 DEF Grown
  <2> QED BY <1>2, <2>1 DEF Quiet
<1> QED BY <1>7, <1>8, <1>9, <1>10, <1>11, <1>12, OwnStep DEF OwnParts

\* A call that names a handle, and what comes after it.
LEMMA CallFacts ==
  ASSUME IInv, NEW p \in Proc, todo[p] # << >>, Head(todo[p]).op \in {"wait", "test"}
  PROVE  /\ Head(todo[p]).i \in 1 .. Len(handle[p]) /\ Len(waited[p]) = Len(handle[p])
         /\ Tail(todo[p]) \in Seq(CallType) /\ NamesGiven(Tail(todo[p]), Len(handle[p]))
         /\ Id(p) \in 0 .. MaxMsgs
<1>1. Types /\ HandlePart(todo[p], handle[p], waited[p], pc[p])
  BY DEF IInv, Always
<1>2. PICK calls \in Seq(CallType) : calls = todo[p]
  BY <1>1 DEF Types
<1>3. handle[p] \in Seq(0 .. MaxMsgs) /\ Len(handle[p]) \in Nat
  <2>1. handle[p] \in Seq(0 .. MaxMsgs)
    BY <1>1 DEF Types
  <2> QED BY <2>1
<1>4. Head(calls) \in CallType /\ Tail(calls) \in Seq(CallType) /\ calls # << >>
  BY <1>2
<1>5. Head(calls).i \in Nat \ {0}
  BY <1>2, <1>4 DEF CallType
<1>6. NamesGiven(calls, Len(handle[p])) /\ Len(waited[p]) = Len(handle[p])
  BY <1>1, <1>2 DEF HandlePart
<1>7. PICK g \in Nat : g = Len(handle[p])
  BY <1>3
<1>8. /\ Head(calls).op \in {"wait", "test"} => Head(calls).i <= g
      /\ NamesGiven(Tail(calls), g) \/ Head(calls).op \in {"asend", "arecv"}
  BY <1>4, <1>6, <1>7, NamesGivenNext
<1>9. Head(calls).i \in 1 .. g /\ NamesGiven(Tail(calls), g)
  BY <1>2, <1>5, <1>8
<1>10. handle[p][Head(calls).i] \in 0 .. MaxMsgs
  <2>1. PICK i \in 1 .. g : i = Head(calls).i
    BY <1>9
  <2>2. handle[p][i] \in 0 .. MaxMsgs
    <3>1. PICK H, S : H = handle[p] /\ S = 0 .. MaxMsgs
      OBVIOUS
    <3>2. H \in Seq(S) /\ i \in 1 .. Len(H)
      BY <1>3, <1>7, <3>1
    <3>3. H[i] \in S
      BY <3>2
    <3> QED BY <3>1, <3>3
  <2> QED BY <2>1, <2>2
<1> QED BY <1>2, <1>4, <1>6, <1>7, <1>9, <1>10 DEF Id

\* The type of an entry.
LEMMA EntryFacts ==
  ASSUME TcpMsgAssumption
  PROVE  \A e \in EntryType :
           /\ e.left \in Nat /\ e.nhdr \in 0 .. HdrSize /\ e.nhdr \in Nat /\ nleft(e) \in Nat /\ HdrSize \in Nat \ {0}
           /\ e.nbytes \in Nat /\ e.num \in Nat /\ e.got \in Seq(Nat \X Nat) /\ e.peer \in Proc \cup {Wild}
           /\ e.tag \in Int /\ e.used \in BOOLEAN /\ e.flag \in {"send", "buffered", "recv", "drain"}
           /\ nleft(e) > 0 <=> ~Complete(e)
           /\ Complete(e) <=> e.nhdr = 0 /\ e.left = 0
<1>1. HdrSize \in Nat \ {0}
  BY DEF TcpMsgAssumption
<1> QED BY SMTT(30), <1>1 DEF EntryType, nleft, Complete

\* What is not 0 is an entry.
LEMMA IdOrNone ==
  ASSUME TcpMsgAssumption
  PROVE  \A x : x \in 0 .. MaxMsgs /\ x # 0 => x \in Ids
BY DEF TcpMsgAssumption, Ids

\* Release(): MP_Wait() and MP_Test() end.
LEMMA ReleaseStep ==
  ASSUME TcpMsgAssumption, IInv, NEW p \in Proc, Running(p),
         todo[p] # << >>, Head(todo[p]).op \in {"wait", "test"}, Id(p) # 0,
         Complete(Msg(p)) \/ Msg(p).flag = "buffered",
         Release(p), pc' \in [Proc -> {"run", "push", "block", "end"}], pc'[p] = "run",
         \A x \in Peers(p) : pc'[x] = pc[x],
         msg_list' = IF Msg(p).flag = "buffered" THEN msg_list
                     ELSE [msg_list EXCEPT ![p][Id(p)].used = FALSE],
         UNCHANGED <<sent, mid, send_q, recv_q, msg_q, ractive, wactive, work, netVars, derailed>>
  PROVE  IInv'
<1>1. Types /\ Always(p) /\ History(p) /\ OnTrack(p) /\ work[p] = << >> /\ ~derailed[p]
  BY DEF IInv, Running
<1>2. PICK i, m : i = Head(todo[p]).i /\ m = Id(p)
  OBVIOUS
<1>3. /\ i \in 1 .. Len(handle[p]) /\ Len(waited[p]) = Len(handle[p])
      /\ Tail(todo[p]) \in Seq(CallType) /\ NamesGiven(Tail(todo[p]), Len(handle[p]))
      /\ m \in 0 .. MaxMsgs
  BY <1>2, CallFacts
<1>4. m \in Ids /\ m = handle[p][i] /\ m # 0
  <2>1. m # 0
    BY <1>2
  <2>2. m = handle[p][i]
    BY Zenon, <1>2 DEF Id
  <2>3. m \in 0 .. MaxMsgs
    BY <1>3
  <2> QED BY <2>1, <2>2, <2>3, IdOrNone
<1>5. PICK L, L2 : L = msg_list[p] /\ L2 = msg_list'[p]
  BY Zenon
<1>6. L \in [Ids -> EntryType] /\ Msg(p) = L[m]
  BY <1>1, <1>2, <1>5 DEF Types, Msg
<1>7. /\ todo' = [todo EXCEPT ![p] = Tail(@)]
      /\ handle' = [handle EXCEPT ![p][i] = 0]
      /\ waited' = [waited EXCEPT ![p][i] = IF L[m].flag = "recv" THEN <<L[m]>> ELSE @]
  BY <1>2, <1>6 DEF Release
<1>8. handle[p] \in Seq(0 .. MaxMsgs) /\ waited[p] \in Seq(Seq(EntryType)) /\ Len(handle[p]) \in Nat
  <2>1. handle[p] \in Seq(0 .. MaxMsgs) /\ waited[p] \in Seq(Seq(EntryType))
    BY <1>1 DEF Types
  <2> QED BY <2>1
<1>9. PICK H, H2 : H = handle[p] /\ H2 = [handle[p] EXCEPT ![i] = 0]
  BY Zenon
<1>10. H2 \in Seq(0 .. MaxMsgs) /\ Len(H2) = Len(H) /\ \A j \in 1 .. Len(H) : H2[j] = IF j = i THEN 0 ELSE H[j]
  <2>1. 0 \in 0 .. MaxMsgs
    BY DEF TcpMsgAssumption
  <2> QED BY SMTT(30), <1>3, <1>8, <1>9, <2>1
<1>11. PICK W, W2 : W = waited[p] /\ W2 = [waited[p] EXCEPT ![i] = IF L[m].flag = "recv" THEN <<L[m]>> ELSE @]
  OBVIOUS
<1>12. W2 \in Seq(Seq(EntryType)) /\ Len(W2) = Len(W)
       /\ \A j \in 1 .. Len(W) : W2[j] = IF j = i /\ L[m].flag = "recv" THEN <<L[m]>> ELSE W[j]
  <2>1. L[m] \in EntryType
    BY <1>4, <1>6
  <2>2. <<L[m]>> \in Seq(EntryType)
    BY <2>1
  <2>3. W[i] \in Seq(EntryType)
    BY SMTT(30), <1>3, <1>8, <1>11
  <2>4. PICK v \in Seq(EntryType) : v = IF L[m].flag = "recv" THEN <<L[m]>> ELSE W[i]
    BY Zenon, <2>2, <2>3
  <2>5. W2 = [W EXCEPT ![i] = v]
    BY <1>11, <2>4
  <2>6. W \in Seq(Seq(EntryType)) /\ i \in 1 .. Len(W)
    BY Zenon, <1>3, <1>8, <1>11
  <2>7. W2 \in Seq(Seq(EntryType)) /\ Len(W2) = Len(W) /\ \A j \in 1 .. Len(W) : W2[j] = IF j = i THEN v ELSE W[j]
    BY SMTT(30), <2>5, <2>6
  <2> QED BY <2>4, <2>7
<1>13. /\ todo \in [Proc -> Seq(CallType)] /\ handle \in [Proc -> Seq(0 .. MaxMsgs)]
       /\ waited \in [Proc -> Seq(Seq(EntryType))] /\ msg_list \in [Proc -> [Ids -> EntryType]]
  BY Zenon, <1>1 DEF Types
<1>14. todo'[p] = Tail(todo[p]) /\ handle'[p] = H2 /\ waited'[p] = W2
  BY <1>7, <1>9, <1>11, <1>13
<1>15. /\ todo' \in [Proc -> Seq(CallType)] /\ handle' \in [Proc -> Seq(0 .. MaxMsgs)]
       /\ waited' \in [Proc -> Seq(Seq(EntryType))]
  BY Zenon, <1>3, <1>7, <1>9, <1>10, <1>11, <1>12, <1>13
<1>16. msg_list' = IF L[m].flag = "buffered" THEN msg_list ELSE [msg_list EXCEPT ![p][m].used = FALSE]
  BY <1>2, <1>6
<1>17. /\ msg_list' \in [Proc -> [Ids -> EntryType]]
       /\ \A x \in Proc : x # p => msg_list'[x] = msg_list[x]
       /\ \A n \in Ids : n # m => L2[n] = L[n]
       /\ L2[m] = IF L[m].flag = "buffered" THEN L[m] ELSE [L[m] EXCEPT !.used = FALSE]
  <2>1. CASE L[m].flag = "buffered"
    BY Zenon, <1>4, <1>5, <1>13, <1>16, <2>1
  <2>2. CASE L[m].flag # "buffered"
    <3>1. [L[m] EXCEPT !.used = FALSE] \in EntryType
      <4>1. L[m] \in EntryType
        BY <1>4, <1>6
      <4> QED BY Zenon, <4>1 DEF EntryType
    <3>2. PICK e2 \in EntryType : e2 = [L[m] EXCEPT !.used = FALSE]
      BY <3>1
    <3>3. PICK L3 : L3 = [L EXCEPT ![m] = e2]
      OBVIOUS
    <3>31. L3 \in [Ids -> EntryType]
      BY <1>4, <1>6, <3>2, <3>3
    <3>32. msg_list' = [msg_list EXCEPT ![p] = L3]
      BY Zenon, <1>5, <1>6, <1>13, <1>16, <2>2, <3>2, <3>3
    <3>4. msg_list' \in [Proc -> [Ids -> EntryType]]
      BY Zenon, <1>13, <3>31, <3>32
    <3>5. \A x \in Proc : x # p => msg_list'[x] = msg_list[x]
      BY <1>13, <3>32
    <3>6. L2 = [L EXCEPT ![m] = e2]
      BY Zenon, <1>5, <1>13, <3>3, <3>32
    <3>7. \A n \in Ids : L2[n] = IF n = m THEN e2 ELSE L[n]
      BY <1>6, <3>6
    <3> QED BY Zenon, <1>4, <2>2, <3>2, <3>4, <3>5, <3>7
  <2> QED BY <2>1, <2>2
<1>18. Types'
  BY Zenon, <1>1, <1>15, <1>17 DEF Types, netVars
<1>19. \A x \in Peers(p) : SameRows(x)
  BY <1>7, <1>13, <1>17 DEF SameRows, Peers
<1>20. /\ \A n \in Ids : Named(H2, n) => Named(H, n)
       /\ \A n \in Ids : n # m /\ Named(H, n) => Named(H2, n)
       /\ Named(H, m)
  <2>1. 0 \notin Ids
    BY DEF Ids
  <2> QED BY SMTT(30), <1>3, <1>4, <1>9, <1>10, <2>1 DEF Named
<1>21. ASSUME NEW n \in Ids PROVE Touched(L[n], L2[n], Named(H, n))
  <2>1. L[n] \in EntryType
    BY <1>6
  <2>2. CASE n # m
    BY <1>17, <2>2 DEF Touched
  <2>3. CASE n = m /\ L[m].flag = "buffered"
    BY <1>17, <2>3 DEF Touched
  <2>4. CASE n = m /\ L[m].flag # "buffered"
    <3>1. Complete(L[m])
      BY <1>6, <2>4
    <3>2. L2[m] = [L[m] EXCEPT !.used = FALSE]
      BY <1>17, <2>4
    <3> QED BY Zenon, <1>20, <2>1, <2>4, <3>1, <3>2 DEF Touched, EntryType
  <2> QED BY <2>2, <2>3, <2>4
<1>22. ASSUME NEW n \in Ids, Named(H, n), ~Named(H2, n) PROVE ~L2[n].used \/ L2[n].flag = "buffered"
  <2>1. n = m /\ L[n] \in EntryType
    BY <1>6, <1>20, <1>22
  <2> QED BY <1>17, <2>1 DEF EntryType
<1>23. HandlePart(todo[p], handle[p], waited[p], pc[p])'
  <2>1. NamesGiven(Tail(todo[p]), Len(H2)) /\ Len(W2) = Len(H2)
    BY <1>3, <1>9, <1>10, <1>11, <1>12
  <2> QED BY <1>14, <2>1 DEF HandlePart
<1>24. WaitedPart(waited[p], sent, p)'
  <2>1. WaitedPart(W, sent, p) /\ ContentPart(L, sent, p)
    BY <1>1, <1>5, <1>11 DEF History
  <2>2. ASSUME NEW j \in 1 .. Len(W2), W2[j] # << >> PROVE Holds(W2[j][1], sent, p) /\ W2[j][1].left = 0
    <3>1. j \in 1 .. Len(W)
      BY <1>12
    <3>2. CASE j = i /\ L[m].flag = "recv"
      <4>1. W2[j][1] = L[m]
        BY <1>12, <3>1, <3>2
      <4>2. Complete(L[m]) /\ L[m] \in EntryType
        BY <1>4, <1>6, <3>2
      <4>3. L[m].nhdr = 0 /\ L[m].left = 0
        BY <4>2, EntryFacts
      <4>4. Holds(L[m], sent, p)
        BY <1>4, <2>1, <3>2, <4>3 DEF ContentPart
      <4> QED BY <4>1, <4>3, <4>4
    <3>3. CASE ~(j = i /\ L[m].flag = "recv")
      <4>1. W2[j] = W[j]
        BY <1>12, <3>1, <3>3
      <4> QED BY <2>1, <2>2, <3>1, <4>1 DEF WaitedPart
    <3> QED BY <3>2, <3>3
  <2> QED BY <1>14, <2>2 DEF WaitedPart
<1>25. PcPart(msg_list[p], todo[p], handle[p], pc[p])'
  BY DEF PcPart
<1> QED BY ZenonT(60), <1>1, <1>5, <1>9, <1>14, <1>18, <1>19, <1>20, <1>21, <1>22, <1>23, <1>24, <1>25, UserStep

\* One entry of p changes.
LEMMA OneEntry ==
  ASSUME Types, NEW p \in Proc, NEW m \in Ids, NEW e \in EntryType,
         msg_list' = [msg_list EXCEPT ![p][m] = e]
  PROVE  /\ msg_list' \in [Proc -> [Ids -> EntryType]]
         /\ \A x \in Proc : x # p => msg_list'[x] = msg_list[x]
         /\ msg_list'[p] = [msg_list[p] EXCEPT ![m] = e]
         /\ \A n \in Ids : msg_list'[p][n] = IF n = m THEN e ELSE msg_list[p][n]
<1>1. msg_list \in [Proc -> [Ids -> EntryType]]
  BY DEF Types
<1>2. PICK L, L2 : L = msg_list[p] /\ L2 = [L EXCEPT ![m] = e]
  BY Zenon
<1>3. L \in [Ids -> EntryType]
  BY <1>1, <1>2
<1>4. L2 \in [Ids -> EntryType] /\ \A n \in Ids : L2[n] = IF n = m THEN e ELSE L[n]
  BY <1>2, <1>3
<1>5. msg_list' = [msg_list EXCEPT ![p] = L2]
  BY <1>1, <1>2
<1> QED BY <1>1, <1>2, <1>4, <1>5

\* push_to_buffer()
LEMMA PushStep ==
  ASSUME TcpMsgAssumption, IInv, NEW p \in Proc, Push(p)
  PROVE  IInv'
<1>1. Types /\ Always(p) /\ History(p) /\ OnTrack(p) /\ work[p] = << >> /\ ~derailed[p] /\ pc[p] = "push"
  BY DEF IInv, Push, Running
<1>2. todo[p] # << >> /\ Head(todo[p]).op = "wait" /\ Id(p) # 0
  BY <1>1 DEF Always, HandlePart, Id
<1>3. Id(p) \in 0 .. MaxMsgs
  BY <1>2, CallFacts
<1>4. PICK m \in Ids : m = Id(p)
  <2>1. MaxMsgs \in Nat
    BY DEF TcpMsgAssumption
  <2> QED BY <1>2, <1>3, <2>1 DEF Ids
<1>5. PICK L, L2, e2 : L = msg_list[p] /\ L2 = msg_list'[p] /\ e2 = [L[m] EXCEPT !.flag = "buffered"]
  BY Zenon
<1>6. L \in [Ids -> EntryType] /\ L[m] \in EntryType
  BY <1>1, <1>5 DEF Types
<1>7. e2 \in EntryType
  BY Zenon, <1>5, <1>6 DEF EntryType
<1>8. msg_list' = [msg_list EXCEPT ![p][m] = e2]
  BY <1>1, <1>4, <1>5 DEF Push, Types
<1>9. /\ msg_list' \in [Proc -> [Ids -> EntryType]]
      /\ \A x \in Proc : x # p => msg_list'[x] = msg_list[x]
      /\ \A n \in Ids : L2[n] = IF n = m THEN e2 ELSE L[n]
  BY ZenonT(30), <1>1, <1>5, <1>7, <1>8, OneEntry
<1>10. pc' = [pc EXCEPT ![p] = "end"]
       /\ UNCHANGED <<todo, handle, sent, waited, mid, send_q, recv_q, msg_q, ractive, wactive,
                 work, netVars, derailed>>
  BY DEF Push
<1>11. pc \in [Proc -> {"run", "push", "block", "end"}]
  BY <1>1 DEF Types
<1>12. pc' \in [Proc -> {"run", "push", "block", "end"}] /\ pc'[p] = "end" /\ \A x \in Peers(p) : pc'[x] = pc[x]
  BY <1>10, <1>11 DEF Peers
<1>13. Types'
  BY Zenon, <1>1, <1>9, <1>10, <1>12 DEF Types, netVars
<1>14. \A x \in Peers(p) : SameRows(x)
  BY <1>9, <1>10, <1>12 DEF SameRows, Peers
<1>15. L[m].flag = "send"
  BY Zenon, <1>1, <1>4, <1>5 DEF OnTrack, PcPart, Id
<1>16. \A n \in Ids : Touched(L[n], L2[n], Named(handle[p], n))
  <2> TAKE n \in Ids
  <2>1. L[n] \in EntryType
    BY <1>6
  <2>2. CASE n # m
    BY <1>9, <2>2 DEF Touched
  <2>3. CASE n = m
    <3>1. L2[n] = [L[n] EXCEPT !.flag = "buffered"]
      BY <1>5, <1>9, <2>3
    <3>2. L[n].flag = "send"
      BY <1>15, <2>3
    <3> QED BY <2>1, <3>1, <3>2 DEF Touched, EntryType
  <2> QED BY <2>2, <2>3
<1>17. HandlePart(todo[p], handle[p], waited[p], pc[p])'
  <2>1. HandlePart(todo[p], handle[p], waited[p], pc[p])
    BY <1>1 DEF Always
  <2> QED BY <1>1, <1>10, <2>1 DEF HandlePart
<1>18. WaitedPart(waited[p], sent, p)'
  BY <1>1, <1>10 DEF History
<1>19. PcPart(msg_list[p], todo[p], handle[p], pc[p])'
  <2>1. msg_list'[p][m].flag = "buffered"
    BY <1>5, <1>6, <1>9 DEF EntryType
  <2> QED BY Zenon, <1>4, <1>10, <1>12, <2>1 DEF PcPart, Id
<1> QED BY <1>1, <1>5, <1>10, <1>13, <1>14, <1>16, <1>17, <1>18, <1>19, UserStep

\* A step of a call that changes no entry.
LEMMA NoEntryStep ==
  ASSUME TcpMsgAssumption, IInv, NEW p \in Proc, Running(p),
         UNCHANGED <<handle, sent, waited, queueVars, work, netVars, derailed>>,
         todo' \in [Proc -> Seq(CallType)], pc' \in [Proc -> {"run", "push", "block", "end"}],
         \A x \in Peers(p) : todo'[x] = todo[x] /\ pc'[x] = pc[x],
         HandlePart(todo'[p], handle[p], waited[p], pc'[p]),
         PcPart(msg_list[p], todo'[p], handle[p], pc'[p])
  PROVE  IInv'
<1>1. Types /\ History(p) /\ work[p] = << >> /\ ~derailed[p]
  BY DEF IInv, Running
<1>2. Types'
  BY Zenon, <1>1 DEF Types, queueVars, netVars
<1>3. \A x \in Peers(p) : SameRows(x)
  BY DEF SameRows, queueVars
<1>4. \A n \in Ids : Touched(msg_list[p][n], msg_list'[p][n], Named(handle[p], n))
  BY DEF Touched, queueVars
<1>5. WaitedPart(waited[p], sent, p)'
  BY <1>1 DEF History
<1>6. HandlePart(todo[p], handle[p], waited[p], pc[p])' /\ PcPart(msg_list[p], todo[p], handle[p], pc[p])'
  BY DEF queueVars
<1>7. handle' = handle
  OBVIOUS
<1> QED BY Zenon, <1>1, <1>2, <1>3, <1>4, <1>5, <1>6, <1>7, UserStep DEF queueVars

\* tcp_block() returns.
LEMMA BlockStep ==
  ASSUME TcpMsgAssumption, IInv, NEW p \in Proc, Block(p)
  PROVE  IInv'
<1>1. Types /\ Always(p) /\ Running(p) /\ pc[p] = "block" /\ nleft(Msg(p)) = 0
  BY DEF IInv, Block
<1>2. pc' = [pc EXCEPT ![p] = "end"] /\ UNCHANGED <<todo, handle, sent, waited, queueVars, work, netVars, derailed>>
  BY DEF Block
<1>3. pc \in [Proc -> {"run", "push", "block", "end"}] /\ todo \in [Proc -> Seq(CallType)]
  BY Zenon, <1>1 DEF Types
<1>4. pc' \in [Proc -> {"run", "push", "block", "end"}] /\ pc'[p] = "end" /\ \A x \in Peers(p) : pc'[x] = pc[x]
  BY <1>2, <1>3 DEF Peers
<1>5. HandlePart(todo[p], handle[p], waited[p], "end")
  BY <1>1 DEF Always, HandlePart
<1>6. PcPart(msg_list[p], todo[p], handle[p], "end")
  BY <1>1 DEF PcPart, Complete, Msg, Id
<1> QED BY <1>1, <1>2, <1>3, <1>4, <1>5, <1>6, NoEntryStep

\* The end of MP_Wait().
LEMMA WaitEndsStep ==
  ASSUME TcpMsgAssumption, IInv, NEW p \in Proc, WaitEnds(p)
  PROVE  IInv'
<1>1. Types /\ Always(p) /\ OnTrack(p) /\ Running(p) /\ pc[p] = "end"
  BY DEF IInv, WaitEnds, Running
<1>2. todo[p] # << >> /\ Head(todo[p]).op \in {"wait", "test"} /\ Id(p) # 0
  BY <1>1 DEF Always, HandlePart, Id
<1>3. Complete(Msg(p)) \/ Msg(p).flag = "buffered"
  BY Zenon, <1>1 DEF OnTrack, PcPart, Msg, Id
<1>4. /\ Release(p) /\ pc' = [pc EXCEPT ![p] = "run"]
      /\ msg_list' = IF Msg(p).flag = "buffered" THEN msg_list
                     ELSE [msg_list EXCEPT ![p][Id(p)].used = FALSE]
      /\ UNCHANGED <<sent, mid, send_q, recv_q, msg_q, ractive, wactive, work, netVars, derailed>>
  BY DEF WaitEnds
<1>5. pc \in [Proc -> {"run", "push", "block", "end"}]
  BY <1>1 DEF Types
<1>6. pc' \in [Proc -> {"run", "push", "block", "end"}] /\ pc'[p] = "run" /\ \A x \in Peers(p) : pc'[x] = pc[x]
  BY <1>4, <1>5 DEF Peers
<1> QED BY Zenon, <1>1, <1>2, <1>3, <1>4, <1>6, ReleaseStep

\* MP_Test()
LEMMA TestStep ==
  ASSUME TcpMsgAssumption, IInv, NEW p \in Proc, Test(p)
  PROVE  IInv'
<1>1. Types /\ Always(p) /\ Running(p) /\ pc[p] = "run" /\ todo[p] # << >> /\ Head(todo[p]).op = "test" /\ Id(p) # 0
  BY DEF IInv, Test, Calls
<1>2. UNCHANGED <<pc, sent, mid, send_q, recv_q, msg_q, ractive, wactive, work, netVars, derailed>>
  BY DEF Test
<1>3. pc \in [Proc -> {"run", "push", "block", "end"}] /\ todo \in [Proc -> Seq(CallType)]
  BY Zenon, <1>1 DEF Types
<1>4. CASE /\ nleft(Msg(p)) = 0 /\ Release(p)
           /\ msg_list' = IF Msg(p).flag = "buffered" THEN msg_list
                          ELSE [msg_list EXCEPT ![p][Id(p)].used = FALSE]
  <2>1. Complete(Msg(p))
    BY <1>4 DEF Complete
  <2> QED BY Zenon, <1>1, <1>2, <1>3, <1>4, <2>1, ReleaseStep
<1>5. CASE todo' = [todo EXCEPT ![p] = Tail(@)] /\ UNCHANGED <<handle, waited, msg_list>>
  <2>1. Tail(todo[p]) \in Seq(CallType) /\ NamesGiven(Tail(todo[p]), Len(handle[p])) /\ Len(waited[p]) = Len(handle[p])
    BY <1>1, CallFacts
  <2>2. todo' \in [Proc -> Seq(CallType)] /\ todo'[p] = Tail(todo[p]) /\ \A x \in Peers(p) : todo'[x] = todo[x]
    BY <1>3, <1>5, <2>1 DEF Peers
  <2>3. HandlePart(todo'[p], handle[p], waited[p], pc'[p]) /\ PcPart(msg_list[p], todo'[p], handle[p], pc'[p])
    BY Zenon, <1>1, <1>2, <2>1, <2>2 DEF HandlePart, PcPart
  <2> QED BY Zenon, <1>1, <1>2, <1>3, <1>5, <2>2, <2>3, NoEntryStep DEF queueVars
<1> QED BY <1>4, <1>5 DEF Test

\* An entry put at the head of a queue.
LEMMA IdInFront ==
  ASSUME NEW s \in Seq(Ids), NEW x \in Ids
  PROVE  /\ <<x>> \o s \in Seq(Ids) /\ Len(<<x>> \o s) = Len(s) + 1 /\ (<<x>> \o s)[1] = x
         /\ <<x>> \o s # << >> /\ \A j \in 1 .. Len(s) : (<<x>> \o s)[j + 1] = s[j]
<1>1. PutFirst(Ids, s, x, <<x>> \o s)
  BY Zenon, InFront
<1> QED BY Zenon, <1>1 DEF PutFirst

\* recv_from_q() makes entry m of p the i-th message of msg_q[p][q], x.
Takes(p, m, q, i, x) ==
  /\ x = msg_q[p][q][i] /\ x # m /\ msg_list[p][x].nhdr = 0
  /\ msg_list' = [msg_list EXCEPT ![p][m] = [msg_list[p][x] EXCEPT !.flag = "recv"], ![p][x].used = FALSE]
  /\ msg_q' = [msg_q EXCEPT ![p][q] = RemoveAt(@, i)]
  /\ recv_q' = IF msg_list[p][x].left = 0 THEN recv_q ELSE [recv_q EXCEPT ![p][q] = TakePlace(@, m, x)]

\* What is taken from msg_q is in use, for nobody, and not begun after another.
TakenAway(p, q, x) ==
  LET X == msg_list[p][x]
      rq == recv_q[p][q]
  IN  /\ X \in EntryType /\ X.used /\ X.peer = q /\ X.nhdr = 0 /\ (Complete(X) <=> X.left = 0)
      /\ Holds(X, sent, p) /\ X.flag # "send"
      /\ q = p => Complete(X)
      /\ q # p => ~Named(handle[p], x) /\ X.flag \in {"recv", "drain"}
      /\ ~Complete(X) => \E k \in 1 .. Len(rq) :
           /\ rq[k] = x /\ \A j \in 1 .. k - 1 : Complete(msg_list[p][rq[j]])
           /\ \A j \in k + 1 .. Len(rq) : ~Begun(msg_list[p][rq[j]])

\* What it took was in use, for nobody, and not begun after another.
LEMMA TakenFrom ==
  ASSUME TcpMsgAssumption, IInv, NEW p \in Proc, ~derailed[p], NEW m \in Ids, NEW q \in Proc,
         NEW i \in 1 .. Len(msg_q[p][q]), NEW x \in Ids, Takes(p, m, q, i, x)
  PROVE  TakenAway(p, q, x)
<1>1. Types /\ Always(p) /\ History(p) /\ OnTrack(p) /\ \A y \in Peers(p) : In(p, y)
  BY DEF IInv
<1>2. PICK L, X : L = msg_list[p] /\ X = msg_list[p][x]
  OBVIOUS
<1>3. X \in EntryType /\ X.nhdr = 0 /\ (Complete(X) <=> X.left = 0) /\ (nleft(X) > 0 <=> ~Complete(X))
      /\ HdrSize \in Nat \ {0}
  <2>1. msg_list \in [Proc -> [Ids -> EntryType]]
    BY <1>1 DEF Types
  <2>2. X \in EntryType /\ X.nhdr = 0
    BY Zenon, <1>2, <2>1 DEF Takes
  <2> QED BY <2>2, EntryFacts
<1>4. MsgPart(L, handle[p], msg_q[p][q], recv_q[p][q], p, q)
  BY <1>1, <1>2 DEF OnTrack
<1>5. /\ X.used /\ X.peer = q
      /\ q = p => X.flag = "buffered" /\ Complete(X)
      /\ q # p => /\ X.flag = "drain" \/ (X.flag = "recv" /\ X.nhdr = 0)
                  /\ Complete(X) \/ Contains(recv_q[p][q], x)
                  /\ ~Named(handle[p], x)
  BY Zenon, <1>2, <1>4 DEF MsgPart, Takes
<1>6. Holds(X, sent, p)
  BY <1>1, <1>2, <1>3, <1>5 DEF History, ContentPart
<1>7. ASSUME ~Complete(X)
      PROVE  \E k \in 1 .. Len(recv_q[p][q]) :
                  /\ recv_q[p][q][k] = x /\ \A j \in 1 .. k - 1 : Complete(msg_list[p][recv_q[p][q][j]])
                  /\ \A j \in k + 1 .. Len(recv_q[p][q]) : ~Begun(msg_list[p][recv_q[p][q][j]])
  <2>1. q # p /\ Contains(recv_q[p][q], x)
    BY <1>5, <1>7
  <2>0. recv_q \in [Proc -> [Proc \cup {Wild} -> Seq(Ids)]]
    BY Zenon, <1>1 DEF Types
  <2>2. PICK rq \in Seq(Ids) : rq = recv_q[p][q]
    BY <2>0
  <2>3. PICK k \in 1 .. Len(rq) : rq[k] = x
    BY <2>1, <2>2 DEF Contains
  <2>4. RecvPart(L, rq, q)
    BY <1>1, <1>2, <2>1, <2>2 DEF In, Peers
  <2>5. Begun(X)
    BY <1>3, <1>7 DEF Begun
  <2>6. \A j \in 1 .. k - 1 : Complete(L[rq[j]])
    BY <1>2, <2>3, <2>4, <2>5 DEF RecvPart
  <2>7. ASSUME NEW j \in k + 1 .. Len(rq), Begun(L[rq[j]]) PROVE FALSE
    <3>1. Len(rq) \in Nat
      BY <2>2
    <3>2. j \in 1 .. Len(rq) /\ k \in 1 .. j - 1
      BY <3>1
    <3>3. Complete(L[rq[k]])
      BY <2>4, <2>7, <3>2 DEF RecvPart
    <3> QED BY <1>2, <1>7, <2>3, <3>3
  <2> QED BY Zenon, <1>2, <2>2, <2>3, <2>6, <2>7
<1>8. X.flag # "send"
  BY <1>5
<1>9. q = p => Complete(X)
  BY <1>5
<1>10. q # p => ~Named(handle[p], x) /\ X.flag \in {"recv", "drain"}
  BY <1>5
<1> QED BY Zenon, <1>2, <1>3, <1>5, <1>6, <1>7, <1>8, <1>9, <1>10 DEF TakenAway

\* The entries and the queues afterwards.
TakenTo(p, m, q, i, x) ==
  LET X == msg_list[p][x]
      rq == recv_q[p][q]
      rq2 == recv_q'[p][q]
  IN  /\ msg_list' \in [Proc -> [Ids -> EntryType]]
      /\ msg_q' \in [Proc -> [Proc -> Seq(Ids)]]
      /\ recv_q' \in [Proc -> [Proc \cup {Wild} -> Seq(Ids)]]
      /\ \A y \in Proc : y # p => msg_list'[y] = msg_list[y] /\ msg_q'[y] = msg_q[y] /\ recv_q'[y] = recv_q[y]
      /\ \A n \in Ids : msg_list'[p][n] = IF n = m THEN [X EXCEPT !.flag = "recv"]
                                          ELSE IF n = x THEN [X EXCEPT !.used = FALSE]
                                          ELSE msg_list[p][n]
      /\ msg_q'[p][q] = RemoveAt(msg_q[p][q], i)
      /\ \A y \in Proc : y # q => msg_q'[p][y] = msg_q[p][y]
      /\ \A y \in Proc \cup {Wild} : y # q => recv_q'[p][y] = recv_q[p][y]
      /\ Complete(X) => rq2 = rq
      /\ ~Complete(X) => \E k \in 1 .. Len(rq) :
           /\ rq[k] = x /\ \A j \in 1 .. k - 1 : Complete(msg_list[p][rq[j]])
           /\ \A j \in k + 1 .. Len(rq) : ~Begun(msg_list[p][rq[j]])
           /\ Len(rq2) = Len(rq) - k + 1 /\ rq2[1] = m /\ rq2 # << >>
           /\ \A j \in 1 .. Len(rq) - k : rq2[j + 1] = rq[k + j]

\* This is what recv_from_q() leaves.
LEMMA TakenRows ==
  ASSUME TcpMsgAssumption, IInv, NEW p \in Proc, ~derailed[p], NEW m \in Ids, NEW q \in Proc,
         NEW i \in 1 .. Len(msg_q[p][q]), NEW x \in Ids, Takes(p, m, q, i, x)
  PROVE  TakenTo(p, m, q, i, x)
<1>1. Types
  BY DEF IInv
<1>2. PICK L, X, A, B : /\ L = msg_list[p] /\ X = msg_list[p][x]
                        /\ A = [X EXCEPT !.flag = "recv"] /\ B = [X EXCEPT !.used = FALSE]
  OBVIOUS
<1>3. /\ X \in EntryType /\ (Complete(X) <=> X.left = 0) /\ (q = p => Complete(X))
      /\ ~Complete(X) => \E k \in 1 .. Len(recv_q[p][q]) :
                  /\ recv_q[p][q][k] = x /\ \A j \in 1 .. k - 1 : Complete(msg_list[p][recv_q[p][q][j]])
                  /\ \A j \in k + 1 .. Len(recv_q[p][q]) : ~Begun(msg_list[p][recv_q[p][q][j]])
  <2>1. /\ msg_list[p][x] \in EntryType /\ (Complete(msg_list[p][x]) <=> msg_list[p][x].left = 0)
        /\ q = p => Complete(msg_list[p][x])
        /\ ~Complete(msg_list[p][x]) => \E k \in 1 .. Len(recv_q[p][q]) :
              /\ recv_q[p][q][k] = x /\ \A j \in 1 .. k - 1 : Complete(msg_list[p][recv_q[p][q][j]])
              /\ \A j \in k + 1 .. Len(recv_q[p][q]) : ~Begun(msg_list[p][recv_q[p][q][j]])
    <3>1. TakenAway(p, q, x)
      BY Zenon, TakenFrom
    <3> QED BY Zenon, <3>1 DEF TakenAway
  <2> QED BY Zenon, <1>2, <2>1
<1>4. A \in EntryType /\ B \in EntryType
  BY Zenon, <1>2, <1>3 DEF EntryType
<1>5. msg_list \in [Proc -> [Ids -> EntryType]] /\ msg_q \in [Proc -> [Proc -> Seq(Ids)]]
      /\ recv_q \in [Proc -> [Proc \cup {Wild} -> Seq(Ids)]]
  BY Zenon, <1>1 DEF Types
<1>6. PICK L1, L2 : L1 = [L EXCEPT ![m] = A] /\ L2 = [L1 EXCEPT ![x] = B]
  BY Zenon
<1>7. L \in [Ids -> EntryType] /\ x # m
  BY Zenon, <1>2, <1>5 DEF Takes
<1>8. L1 \in [Ids -> EntryType] /\ L1[x] = X
  BY <1>2, <1>4, <1>6, <1>7
<1>9. /\ L2 \in [Ids -> EntryType]
      /\ \A n \in Ids : L2[n] = IF n = m THEN A ELSE IF n = x THEN B ELSE L[n]
  BY <1>4, <1>6, <1>7, <1>8
<1>10. msg_list' = [msg_list EXCEPT ![p] = L2]
  <2>1. msg_list' = [[msg_list EXCEPT ![p][m] = A] EXCEPT ![p][x].used = FALSE]
    BY Zenon, <1>2 DEF Takes
  <2>2. [msg_list EXCEPT ![p][m] = A] = [msg_list EXCEPT ![p] = L1]
    BY <1>2, <1>5, <1>6
  <2>3. [[msg_list EXCEPT ![p] = L1] EXCEPT ![p][x].used = FALSE] = [[msg_list EXCEPT ![p] = L1] EXCEPT ![p] = L2]
    BY Zenon, <1>2, <1>5, <1>6, <1>8
  <2>4. [[msg_list EXCEPT ![p] = L1] EXCEPT ![p] = L2] = [msg_list EXCEPT ![p] = L2]
    BY Zenon, <1>5
  <2> QED BY Zenon, <2>1, <2>2, <2>3, <2>4
<1>11. PICK mq \in Seq(Ids), rq \in Seq(Ids) : mq = msg_q[p][q] /\ rq = recv_q[p][q]
  BY <1>5
<1>12. RemoveAt(mq, i) \in Seq(Ids)
  BY <1>11, RemoveAtFacts
<1>13. msg_q' = [msg_q EXCEPT ![p][q] = RemoveAt(mq, i)]
  BY Zenon, <1>5, <1>11 DEF Takes
<1>14. msg_q' \in [Proc -> [Proc -> Seq(Ids)]] /\ msg_q'[p][q] = RemoveAt(mq, i)
       /\ (\A y \in Proc : y # q => msg_q'[p][y] = msg_q[p][y])
       /\ (\A y \in Proc : y # p => msg_q'[y] = msg_q[y])
  <2>1. PICK M : M = [msg_q[p] EXCEPT ![q] = RemoveAt(mq, i)]
    BY Zenon
  <2>2. M \in [Proc -> Seq(Ids)] /\ M[q] = RemoveAt(mq, i) /\ \A y \in Proc : y # q => M[y] = msg_q[p][y]
    BY <1>5, <1>12, <2>1
  <2>3. msg_q' = [msg_q EXCEPT ![p] = M]
    BY <1>5, <1>13, <2>1
  <2> QED BY Zenon, <1>5, <2>2, <2>3
<1>15. CASE Complete(X)
  <2>1. recv_q' = recv_q
    BY Zenon, <1>2, <1>3, <1>15 DEF Takes
  <2> QED BY Zenon, <1>2, <1>5, <1>9, <1>10, <1>11, <1>14, <1>15, <2>1 DEF TakenTo
<1>16. CASE ~Complete(X)
  <2>1. PICK k \in 1 .. Len(rq) :
                  /\ rq[k] = x /\ \A j \in 1 .. k - 1 : Complete(L[rq[j]])
                  /\ \A j \in k + 1 .. Len(rq) : ~Begun(L[rq[j]])
    BY <1>2, <1>3, <1>11, <1>16
  <2>2. Once(rq) /\ q # p
    <3>1. q # p
      BY <1>3, <1>16
    <3>2. RecvPart(msg_list[p], recv_q[p][q], q)
      BY <3>1 DEF IInv, In, Peers
    <3> QED BY <1>11, <3>1, <3>2 DEF RecvPart
  <2>3. PICK s : s = After(rq, x)
    OBVIOUS
  <2>4. s \in Seq(Ids) /\ Len(s) = Len(rq) - k /\ \A j \in 1 .. Len(rq) - k : s[j] = rq[k + j]
    <3>1. rq \in Seq(Ids) /\ k \in 1 .. Len(rq) /\ rq[k] = x
      BY Zenon, <1>11, <2>1
    <3>2. TailFrom(rq, x, k)
      BY Zenon, <2>2, <3>1, AfterFacts
    <3> QED BY Zenon, <2>3, <3>2 DEF TailFrom
  <2>5. PICK t : t = <<m>> \o s
    BY Zenon
  <2>6. t \in Seq(Ids) /\ Len(t) = Len(s) + 1 /\ t[1] = m /\ t # << >> /\ \A j \in 1 .. Len(s) : t[j + 1] = s[j]
    <3>1. /\ <<m>> \o s \in Seq(Ids) /\ Len(<<m>> \o s) = Len(s) + 1 /\ (<<m>> \o s)[1] = m
          /\ <<m>> \o s # << >> /\ \A j \in 1 .. Len(s) : (<<m>> \o s)[j + 1] = s[j]
      BY <2>4, IdInFront
    <3> QED BY <2>5, <3>1, Zenon
  <2>7. recv_q' = [recv_q EXCEPT ![p][q] = t]
    BY Zenon, <1>2, <1>3, <1>5, <1>11, <1>16, <2>3, <2>5 DEF Takes, TakePlace
  <2>8. recv_q' \in [Proc -> [Proc \cup {Wild} -> Seq(Ids)]] /\ recv_q'[p][q] = t
        /\ (\A y \in Proc \cup {Wild} : y # q => recv_q'[p][y] = recv_q[p][y])
        /\ (\A y \in Proc : y # p => recv_q'[y] = recv_q[y])
    <3>1. PICK M : M = [recv_q[p] EXCEPT ![q] = t]
      OBVIOUS
    <3>2. /\ M \in [Proc \cup {Wild} -> Seq(Ids)] /\ M[q] = t
          /\ \A y \in Proc \cup {Wild} : y # q => M[y] = recv_q[p][y]
      BY Zenon, <1>5, <2>6, <3>1
    <3>3. recv_q' = [recv_q EXCEPT ![p] = M]
      BY <1>5, <2>7, <3>1
    <3> QED BY Zenon, <1>5, <3>2, <3>3
  <2>9. Len(t) = Len(rq) - k + 1 /\ \A j \in 1 .. Len(rq) - k : t[j + 1] = rq[k + j]
    BY Zenon, <2>4, <2>6
  <2>10. \E l \in 1 .. Len(recv_q[p][q]) :
                  /\ recv_q[p][q][l] = x /\ \A j \in 1 .. l - 1 : Complete(msg_list[p][recv_q[p][q][j]])
                  /\ \A j \in l + 1 .. Len(recv_q[p][q]) : ~Begun(msg_list[p][recv_q[p][q][j]])
                  /\ Len(recv_q'[p][q]) = Len(recv_q[p][q]) - l + 1 /\ recv_q'[p][q][1] = m /\ recv_q'[p][q] # << >>
                  /\ \A j \in 1 .. Len(recv_q[p][q]) - l : recv_q'[p][q][j + 1] = recv_q[p][q][l + j]
    BY Zenon, <1>2, <1>11, <2>1, <2>6, <2>8, <2>9
  <2> QED BY ZenonT(30), <1>2, <1>5, <1>9, <1>10, <1>11, <1>14, <1>16, <2>8, <2>10 DEF TakenTo
<1> QED BY <1>15, <1>16

\* Membership in a queue.
LEMMA ContainsIs ==
  ASSUME NEW s, NEW m
  PROVE  Contains(s, m) <=> \E j \in 1 .. Len(s) : s[j] = m
BY DEF Contains

\* An entry taken out of a queue.
LEMMA IdRemoved ==
  ASSUME NEW s \in Seq(Ids), NEW i \in 1 .. Len(s)
  PROVE  /\ RemoveAt(s, i) \in Seq(Ids) /\ Len(RemoveAt(s, i)) = Len(s) - 1 /\ Len(s) \in Nat
         /\ \A j \in 1 .. Len(s) - 1 : RemoveAt(s, i)[j] = IF j < i THEN s[j] ELSE s[j + 1]
<1>1. Len(s) \in Nat /\ \A j \in 1 .. Len(s) : s[j] \in Ids
  OBVIOUS
<1>2. /\ RemoveAt(s, i) \in Seq(Ids) /\ Len(RemoveAt(s, i)) = Len(s) - 1
      /\ \A j \in 1 .. Len(s) - 1 : RemoveAt(s, i)[j] = IF j < i THEN s[j] ELSE s[j + 1]
  BY RemoveAtFacts
<1> QED BY <1>1, <1>2

\* recv_from_q() keeps what p says about itself, but for what has begun with the
\* messages that arrive.
LEMMA Taken ==
  ASSUME TcpMsgAssumption, IInv, NEW p \in Proc, ~derailed[p], NEW m \in Ids, NEW q \in Proc,
         NEW i \in 1 .. Len(msg_q[p][q]), NEW x \in Ids, Takes(p, m, q, i, x),
         UNCHANGED <<send_q, sent, ractive, wactive, wire, avail>>,
         ~Outgoing(msg_list[p][m]), \A y \in Proc : ~Contains(msg_q[p][y], m),
         Named(handle'[p], m), \A n \in Ids : Named(handle[p], n) => Named(handle'[p], n),
         \A n \in Ids : n # m /\ Named(handle'[p], n) => Named(handle[p], n),
         HandlePart(todo[p], handle[p], waited[p], pc[p])', WaitedPart(waited[p], sent, p)',
         TaskPart(work[p], send_q[p], recv_q[p], p)',
         ~derailed'[p] => ~Contains(recv_q[p][Wild], m) /\ PcPart(msg_list[p], todo[p], handle[p], pc[p])'
  PROVE  Always(p)' /\ History(p)' /\ (~derailed'[p] => OnTrack(p)') /\ SendParts(p)
<1>1. Types /\ Always(p) /\ History(p) /\ OnTrack(p)
  BY DEF IInv
<1>2. PICK L, L2, X, H, H2 : /\ L = msg_list[p] /\ L2 = msg_list'[p] /\ X = msg_list[p][x]
                             /\ H = handle[p] /\ H2 = handle'[p]
  OBVIOUS
<1>3. /\ L \in [Ids -> EntryType] /\ X = L[x] /\ x # m
      /\ msg_q \in [Proc -> [Proc -> Seq(Ids)]] /\ recv_q \in [Proc -> [Proc \cup {Wild} -> Seq(Ids)]]
  BY Zenon, <1>1, <1>2 DEF Types, Takes
<1>4. /\ X \in EntryType /\ X.used /\ X.peer = q /\ X.nhdr = 0 /\ (Complete(X) <=> X.left = 0)
      /\ Holds(X, sent, p) /\ X.flag # "send"
      /\ q = p => Complete(X)
      /\ q # p => ~Named(H, x) /\ X.flag \in {"recv", "drain"}
  <2>1. TakenAway(p, q, x)
    BY Zenon, TakenFrom
  <2> QED BY Zenon, <1>2, <2>1 DEF TakenAway
<1>49. TakenTo(p, m, q, i, x)
  BY Zenon, TakenRows
<1>50. /\ msg_q' \in [Proc -> [Proc -> Seq(Ids)]] /\ recv_q' \in [Proc -> [Proc \cup {Wild} -> Seq(Ids)]]
       /\ \A n \in Ids : msg_list'[p][n] = IF n = m THEN [msg_list[p][x] EXCEPT !.flag = "recv"]
                                            ELSE IF n = x THEN [msg_list[p][x] EXCEPT !.used = FALSE]
                                            ELSE msg_list[p][n]
       /\ msg_q'[p][q] = RemoveAt(msg_q[p][q], i)
       /\ \A y \in Proc : y # q => msg_q'[p][y] = msg_q[p][y]
       /\ \A y \in Proc \cup {Wild} : y # q => recv_q'[p][y] = recv_q[p][y]
       /\ Complete(msg_list[p][x]) => recv_q'[p][q] = recv_q[p][q]
  BY Zenon, <1>49 DEF TakenTo
<1>51. ~Complete(msg_list[p][x]) => \E k \in 1 .. Len(recv_q[p][q]) :
         /\ recv_q[p][q][k] = x /\ \A j \in 1 .. k - 1 : Complete(msg_list[p][recv_q[p][q][j]])
         /\ \A j \in k + 1 .. Len(recv_q[p][q]) : ~Begun(msg_list[p][recv_q[p][q][j]])
         /\ Len(recv_q'[p][q]) = Len(recv_q[p][q]) - k + 1 /\ recv_q'[p][q][1] = m /\ recv_q'[p][q] # << >>
         /\ \A j \in 1 .. Len(recv_q[p][q]) - k : recv_q'[p][q][j + 1] = recv_q[p][q][k + j]
  BY <1>49 DEF TakenTo
<1>5. /\ msg_q' \in [Proc -> [Proc -> Seq(Ids)]] /\ recv_q' \in [Proc -> [Proc \cup {Wild} -> Seq(Ids)]]
      /\ \A n \in Ids : L2[n] = IF n = m THEN [X EXCEPT !.flag = "recv"]
                                ELSE IF n = x THEN [X EXCEPT !.used = FALSE] ELSE L[n]
      /\ msg_q'[p][q] = RemoveAt(msg_q[p][q], i)
      /\ \A y \in Proc : y # q => msg_q'[p][y] = msg_q[p][y]
      /\ \A y \in Proc \cup {Wild} : y # q => recv_q'[p][y] = recv_q[p][y]
      /\ Complete(X) => recv_q'[p][q] = recv_q[p][q]
  BY Zenon, <1>2, <1>50
<1>6. ~Complete(X) => \E k \in 1 .. Len(recv_q[p][q]) :
         /\ recv_q[p][q][k] = x /\ \A j \in 1 .. k - 1 : Complete(L[recv_q[p][q][j]])
         /\ Len(recv_q'[p][q]) = Len(recv_q[p][q]) - k + 1 /\ recv_q'[p][q][1] = m /\ recv_q'[p][q] # << >>
         /\ \A j \in 1 .. Len(recv_q[p][q]) - k : recv_q'[p][q][j + 1] = recv_q[p][q][k + j]
  BY Zenon, <1>2, <1>51
<1>61. msg_q \in [Proc -> [Proc -> Seq(Ids)]] /\ recv_q \in [Proc -> [Proc \cup {Wild} -> Seq(Ids)]]
       /\ msg_q' \in [Proc -> [Proc -> Seq(Ids)]] /\ recv_q' \in [Proc -> [Proc \cup {Wild} -> Seq(Ids)]]
  BY Zenon, <1>3, <1>5
<1>7. /\ L2[m] = [X EXCEPT !.flag = "recv"] /\ L2[x] = [X EXCEPT !.used = FALSE]
      /\ \A n \in Ids : n # m /\ n # x => L2[n] = L[n]
  BY Zenon, <1>3, <1>5
<1>8. /\ L2[m].flag = "recv" /\ L2[m].peer = q /\ L2[m].nhdr = 0 /\ L2[m].left = X.left /\ L2[m].used
      /\ L2[m].tag = X.tag /\ L2[m].nbytes = X.nbytes /\ L2[m].num = X.num /\ L2[m].got = X.got
      /\ L2[x].flag = X.flag /\ L2[x].peer = q /\ L2[x].nhdr = 0 /\ L2[x].left = X.left /\ ~L2[x].used
      /\ L2[x].tag = X.tag /\ L2[x].nbytes = X.nbytes /\ L2[x].num = X.num /\ L2[x].got = X.got
  BY <1>4, <1>7 DEF EntryType
<1>9. \A y \in Proc : \A n \in Ids : n # x => (Contains(msg_q[p][y], n) <=> Contains(msg_q'[p][y], n))
  <2>1. TAKE y \in Proc
  <2>2. CASE y # q
    BY Zenon, <1>5, <2>2
  <2>3. CASE y = q
    <3>1. PICK mq \in Seq(Ids) : mq = msg_q[p][q]
      BY <1>3
    <3>2. PICK mq2 : mq2 = RemoveAt(mq, i)
      OBVIOUS
    <3>3. /\ mq2 \in Seq(Ids) /\ Len(mq2) = Len(mq) - 1 /\ Len(mq) \in Nat /\ i \in 1 .. Len(mq)
          /\ \A j \in 1 .. Len(mq) - 1 : mq2[j] = IF j < i THEN mq[j] ELSE mq[j + 1]
      BY Zenon, <3>1, <3>2, IdRemoved
    <3>4. mq[i] = x
      BY Zenon, <3>1 DEF Takes
    <3>5. ASSUME NEW n \in Ids, n # x PROVE (\E j \in 1 .. Len(mq) : mq[j] = n) <=> \E j \in 1 .. Len(mq2) : mq2[j] = n
      <4>1. ASSUME NEW j \in 1 .. Len(mq), mq[j] = n PROVE \E l \in 1 .. Len(mq2) : mq2[l] = n
        <5>1. CASE j < i
          <6>1. j \in 1 .. Len(mq2) /\ mq2[j] = n
            BY <3>3, <4>1, <5>1
          <6> QED BY <6>1
        <5>2. CASE j > i
          <6>1. j - 1 \in 1 .. Len(mq2) /\ ~(j - 1 < i) /\ j - 1 + 1 = j
            BY <3>3, <5>2
          <6>2. mq2[j - 1] = n
            BY <3>3, <4>1, <6>1
          <6> QED BY <6>1, <6>2
        <5>3. j # i
          BY <3>4, <3>5, <4>1
        <5> QED BY <3>3, <5>1, <5>2, <5>3
      <4>2. ASSUME NEW j \in 1 .. Len(mq2), mq2[j] = n PROVE \E l \in 1 .. Len(mq) : mq[l] = n
        <5>1. j \in 1 .. Len(mq) /\ j + 1 \in 1 .. Len(mq) /\ j \in 1 .. Len(mq) - 1
          BY <3>3
        <5> QED BY Zenon, <3>3, <4>2, <5>1
      <4> QED BY <4>1, <4>2
    <3>6. msg_q'[p][q] = mq2
      BY <1>5, <3>1, <3>2
    <3>7. \A n \in Ids : (Contains(mq, n) <=> \E j \in 1 .. Len(mq) : mq[j] = n)
                        /\ (Contains(mq2, n) <=> \E j \in 1 .. Len(mq2) : mq2[j] = n)
      BY <3>3, ContainsIs
    <3>8. \A n \in Ids : n # x => (Contains(mq, n) <=> Contains(mq2, n))
      BY <3>5, <3>7
    <3> QED BY <2>3, <3>1, <3>6, <3>8
  <2> QED BY <2>2, <2>3
<1>10. ASSUME NEW y \in Proc, NEW n \in Ids, n # x, Contains(recv_q[p][y], n), ~Complete(L[n])
       PROVE  Contains(recv_q'[p][y], n)
  <2>1. CASE y # q \/ Complete(X)
    BY Zenon, <1>5, <1>10, <2>1
  <2>2. CASE y = q /\ ~Complete(X)
    <3>1. PICK rq \in Seq(Ids), rq2 \in Seq(Ids) : rq = recv_q[p][q] /\ rq2 = recv_q'[p][q]
      BY Zenon, <1>61
    <3>2. PICK k \in 1 .. Len(rq) :
            /\ rq[k] = x /\ Len(rq2) = Len(rq) - k + 1
            /\ \A j \in 1 .. k - 1 : Complete(L[rq[j]])
            /\ \A j \in 1 .. Len(rq) - k : rq2[j + 1] = rq[k + j]
      BY Zenon, <1>6, <2>2, <3>1
    <3>3. PICK j \in 1 .. Len(rq) : rq[j] = n
      <4>1. Contains(rq, n)
        BY Zenon, <1>10, <2>2, <3>1
      <4> QED BY Zenon, <4>1, ContainsIs
    <3>4. ~(j < k) /\ j # k
      BY <1>10, <3>2, <3>3
    <3>5. j - k \in 1 .. Len(rq) - k /\ k + (j - k) = j /\ j - k + 1 \in 1 .. Len(rq) - k + 1
      BY <3>4
    <3>6. j - k + 1 \in 1 .. Len(rq2) /\ rq2[j - k + 1] = n
      BY Zenon, <3>2, <3>3, <3>5
    <3> QED BY <2>2, <3>1, <3>6, ContainsIs
  <2> QED BY <2>1, <2>2
<1>11. Always(p)'
  <2>1. OwnPart(send_q[p], recv_q[p], ractive[p], wactive[p], wire[p], avail[p], p)'
    <3>1. recv_q'[p][p] = recv_q[p][p]
      BY Zenon, <1>4, <1>5
    <3> QED BY <1>1, <3>1 DEF Always, OwnPart
  <2>2. EntryPart(L2, p)
    <3>1. EntryPart(L, p)
      BY <1>1, <1>2 DEF Always
    <3>2. X.left <= X.nbytes /\ (X.flag = "drain" => X.peer # p)
      BY <1>3, <3>1 DEF EntryPart
    <3>3. ASSUME NEW n \in Ids
          PROVE  /\ L2[n].left <= L2[n].nbytes
                 /\ L2[n].nhdr > 0 => L2[n].left = L2[n].nbytes /\ L2[n].got = << >>
                 /\ L2[n].flag = "drain" => L2[n].peer # p
      <4>1. CASE n = m
        BY <1>4, <1>8, <3>2, <4>1
      <4>2. CASE n = x
        BY <1>4, <1>8, <3>2, <4>2
      <4>3. CASE n # m /\ n # x
        BY Zenon, <1>7, <3>1, <4>3 DEF EntryPart
      <4> QED BY <4>1, <4>2, <4>3
    <3> QED BY <3>3 DEF EntryPart
  <2>3. QueuedPart(L2, send_q[p])
    <3>1. QueuedPart(L, send_q[p])
      BY <1>1, <1>2 DEF Always
    <3>2. ASSUME NEW n \in Ids, L2[n].used, L2[n].flag \in {"send", "buffered"}, nleft(L2[n]) > 0
          PROVE  \E y \in Proc : Contains(send_q[p][y], n)
      <4>1. n # m /\ n # x
        BY <1>8, <3>2
      <4> QED BY Zenon, <1>7, <3>1, <3>2, <4>1 DEF QueuedPart
    <3> QED BY <3>2 DEF QueuedPart
  <2>4. KeptPart(L2, H2, send_q[p], msg_q'[p])
    <3>1. KeptPart(L, H, send_q[p], msg_q[p])
      BY <1>1, <1>2 DEF Always
    <3>2. ASSUME NEW n \in Ids, L2[n].used, ~Named(H2, n)
          PROVE  \/ \E y \in Proc : Contains(send_q[p][y], n) \/ Contains(msg_q'[p][y], n)
                 \/ L2[n].flag = "buffered" /\ Complete(L2[n])
      <4>1. n # m /\ n # x /\ ~Named(H, n)
        BY <1>2, <1>8, <3>2
      <4>2. L2[n] = L[n]
        BY <1>7, <4>1
      <4>3. \A y \in Proc : Contains(msg_q[p][y], n) => Contains(msg_q'[p][y], n)
        BY <1>9, <4>1
      <4> QED BY <3>1, <3>2, <4>1, <4>2, <4>3 DEF KeptPart
    <3> QED BY <3>2 DEF KeptPart
  <2>5. ActivePart(send_q[p], recv_q'[p], ractive[p], wactive[p])
    <3>1. ActivePart(send_q[p], recv_q[p], ractive[p], wactive[p])
      BY <1>1 DEF Always
    <3>2. \A y \in Proc : recv_q[p][y] # << >> => recv_q'[p][y] # << >>
      BY Zenon, <1>5, <1>6
    <3> QED BY <3>1, <3>2 DEF ActivePart
  <2> QED BY <1>1, <1>2, <2>1, <2>2, <2>3, <2>4, <2>5 DEF Always
<1>12. History(p)'
  <2>1. ContentPart(L, sent, p)
    BY <1>1, <1>2 DEF History
  <2>2. ASSUME NEW n \in Ids, L2[n].nhdr = 0, L2[n].flag \in {"recv", "drain"} \/ L2[n].peer = p
        PROVE  Holds(L2[n], sent, p)
    <3>1. CASE n = m \/ n = x
      <4>1. /\ L2[n].peer = X.peer /\ L2[n].num = X.num /\ L2[n].tag = X.tag /\ L2[n].nbytes = X.nbytes
            /\ L2[n].left = X.left /\ L2[n].got = X.got
        BY <1>4, <1>8, <3>1
      <4> QED BY <1>4, <4>1 DEF Holds
    <3>2. CASE n # m /\ n # x
      BY <1>7, <2>1, <2>2, <3>2 DEF ContentPart
    <3> QED BY <3>1, <3>2
  <2>3. ContentPart(L2, sent, p)
    BY <2>2 DEF ContentPart
  <2> QED BY <1>2, <2>3 DEF History
<1>13. ASSUME ~derailed'[p] PROVE OnTrack(p)'
  <2>1. Wild \notin Proc
    BY DEF Wild, Proc
  <2>2. WildPart(L2, recv_q'[p][Wild])
    <3>1. PICK rw \in Seq(Ids) : rw = recv_q[p][Wild]
      BY <1>3
    <3>2. WildPart(L, rw) /\ recv_q'[p][Wild] = rw /\ ~Contains(rw, m)
      <4>1. WildPart(L, rw)
        BY <1>1, <1>2, <3>1 DEF OnTrack
      <4>2. recv_q'[p][Wild] = rw
        BY <1>5, <2>1, <3>1
      <4> QED BY <1>13, <3>1, <4>1, <4>2
    <3>3. \A j \in 1 .. Len(rw) : L2[rw[j]] = L[rw[j]]
      <4> TAKE j \in 1 .. Len(rw)
      <4>1. rw[j] \in Ids /\ rw[j] # m
        BY <3>1, <3>2, ContainsIs
      <4>2. L[rw[j]].peer = Wild
        BY <3>2 DEF WildPart
      <4>3. rw[j] # x
        BY Zenon, <1>3, <1>4, <2>1, <4>2
      <4> QED BY <1>7, <4>1, <4>3
    <3> QED BY <3>2, <3>3 DEF WildPart
  <2>3. ASSUME NEW y \in Proc PROVE MsgPart(L2, H2, msg_q'[p][y], recv_q'[p][y], p, y)
    <3>1. PICK mq \in Seq(Ids), mq2 \in Seq(Ids) : mq = msg_q[p][y] /\ mq2 = msg_q'[p][y]
      BY Zenon, <1>61
    <3>2. MsgPart(L, H, mq, recv_q[p][y], p, y)
      BY <1>1, <1>2, <3>1 DEF OnTrack
    <3>3. Once(mq) /\ Once(mq2) /\ ~Contains(mq2, x)
      <4>1. Once(mq)
        BY <3>2 DEF MsgPart
      <4>2. CASE y # q
        <5>1. mq2 = mq
          BY <1>5, <3>1, <4>2
        <5>2. ASSUME NEW j \in 1 .. Len(mq), mq[j] = x PROVE FALSE
          <6>1. L[mq[j]].peer = y
            BY <3>2 DEF MsgPart
          <6> QED BY Zenon, <1>3, <1>4, <4>2, <5>2, <6>1
        <5> QED BY <4>1, <5>1, <5>2, ContainsIs
      <4>3. CASE y = q
        <5>1. /\ mq2 = RemoveAt(mq, i) /\ Len(mq2) = Len(mq) - 1 /\ Len(mq) \in Nat /\ i \in 1 .. Len(mq)
              /\ \A j \in 1 .. Len(mq) - 1 : mq2[j] = IF j < i THEN mq[j] ELSE mq[j + 1]
          <6>1. i \in 1 .. Len(mq) /\ mq \in Seq(Ids)
            BY <3>1, <4>3
          <6>2. mq2 = RemoveAt(mq, i)
            BY <1>5, <3>1, <4>3
          <6> QED BY Zenon, <6>1, <6>2, IdRemoved
        <5>2. mq[i] = x
          BY Zenon, <3>1, <4>3 DEF Takes
        <5>3. \A j \in 1 .. Len(mq2) : mq2[j] # x
          <6> TAKE j \in 1 .. Len(mq2)
          <6>1. j \in 1 .. Len(mq) /\ j + 1 \in 1 .. Len(mq) /\ j \in 1 .. Len(mq) - 1
            BY <5>1
          <6>2. CASE j < i
            BY <4>1, <5>1, <5>2, <6>1, <6>2 DEF Once
          <6>3. CASE ~(j < i)
            <7>1. j + 1 # i
              BY <5>1, <6>3
            <7> QED BY <4>1, <5>1, <5>2, <6>1, <6>3, <7>1 DEF Once
          <6> QED BY <6>2, <6>3
        <5>4. ASSUME NEW j \in 1 .. Len(mq2), NEW l \in 1 .. Len(mq2), mq2[j] = mq2[l] PROVE j = l
          <6>1. /\ j \in 1 .. Len(mq) /\ j + 1 \in 1 .. Len(mq) /\ j \in 1 .. Len(mq) - 1
                /\ l \in 1 .. Len(mq) /\ l + 1 \in 1 .. Len(mq) /\ l \in 1 .. Len(mq) - 1
            BY <5>1
          <6>2. CASE j < i /\ l < i
            BY <4>1, <5>1, <5>4, <6>1, <6>2 DEF Once
          <6>3. CASE j < i /\ ~(l < i)
            <7>1. mq[j] = mq[l + 1]
              BY <5>1, <5>4, <6>1, <6>3
            <7>2. j = l + 1
              BY <4>1, <6>1, <7>1 DEF Once
            <7> QED BY <5>1, <6>3, <7>2
          <6>4. CASE ~(j < i) /\ l < i
            <7>1. mq[l] = mq[j + 1]
              BY <5>1, <5>4, <6>1, <6>4
            <7>2. l = j + 1
              BY Zenon, <4>1, <6>1, <7>1 DEF Once
            <7> QED BY <5>1, <6>4, <7>2
          <6>5. CASE ~(j < i) /\ ~(l < i)
            <7>1. mq[j + 1] = mq[l + 1]
              BY Zenon, <5>1, <5>4, <6>1, <6>5
            <7>2. j + 1 = l + 1
              BY <4>1, <6>1, <7>1 DEF Once
            <7> QED BY <7>2
          <6> QED BY <6>2, <6>3, <6>4, <6>5
        <5>5. ~Contains(mq2, x)
          BY <5>1, <5>3, ContainsIs
        <5> QED BY <4>1, <5>4, <5>5 DEF Once
      <4> QED BY <4>2, <4>3
    <3>4. ASSUME NEW j \in 1 .. Len(mq2)
          PROVE  LET e == L2[mq2[j]]
                 IN  /\ e.used /\ e.peer = y
                     /\ y = p => e.flag = "buffered" /\ Complete(e)
                     /\ y # p => /\ e.flag = "drain" \/ (e.flag = "recv" /\ e.nhdr = 0)
                                 /\ Complete(e) \/ Contains(recv_q'[p][y], mq2[j])
                                 /\ ~Named(H2, mq2[j])
      <4>1. PICK n \in Ids : n = mq2[j]
        BY <3>1
      <4>2. Contains(mq2, n) /\ n # x
        BY <3>1, <3>3, <4>1, ContainsIs
      <4>3. Contains(mq, n)
        BY <1>9, <3>1, <4>2
      <4>4. PICK l \in 1 .. Len(mq) : mq[l] = n
        BY Zenon, <3>1, <4>3, ContainsIs
      <4>5. n # m
        BY <3>1, <4>3
      <4>6. L2[n] = L[n] /\ (Named(H2, n) => Named(H, n))
        BY <1>2, <1>7, <4>2, <4>5
      <4>7. /\ L[n].used /\ L[n].peer = y
            /\ y = p => L[n].flag = "buffered" /\ Complete(L[n])
            /\ y # p => /\ L[n].flag = "drain" \/ (L[n].flag = "recv" /\ L[n].nhdr = 0)
                        /\ Complete(L[n]) \/ Contains(recv_q[p][y], n)
                        /\ ~Named(H, n)
        BY <3>2, <4>4 DEF MsgPart
      <4>8. Contains(recv_q[p][y], n) /\ ~Complete(L[n]) => Contains(recv_q'[p][y], n)
        BY <1>10, <4>2
      <4> QED BY <4>1, <4>6, <4>7, <4>8
    <3> QED BY Zenon, <3>1, <3>3, <3>4 DEF MsgPart
  <2> QED BY <1>2, <1>13, <2>2, <2>3 DEF OnTrack
<1>14. SendParts(p)
  <2>1. \A n \in Ids : Outgoing(L[n]) => StillOutgoing(L[n], L2[n])
    <3> TAKE n \in Ids
    <3>1. CASE n = m
      BY <1>2, <3>1
    <3>2. CASE n = x
      <4>1. ~Outgoing(X)
        <5>1. Complete(X) \/ X.flag \in {"recv", "drain"}
          BY <1>4
        <5>2. Complete(X) => ~(nleft(X) > 0)
          BY DEF Complete
        <5> QED BY <5>1, <5>2 DEF Outgoing
      <4> QED BY <1>3, <3>2, <4>1
    <3>3. CASE n # m /\ n # x
      <4>1. L2[n] = L[n]
        BY <1>7, <3>3
      <4> QED BY <4>1 DEF Outgoing, StillOutgoing
    <3> QED BY <3>1, <3>2, <3>3
  <2> QED BY <1>2, <2>1, OutQuiet
<1> QED BY <1>11, <1>12, <1>13, <1>14

\* The parts about what p gets from y, in a step of p that leaves the messages from y
\* and the stream alone, and is not at work on them unless it was.
LEMMA InSame ==
  ASSUME TcpMsgAssumption, Types, NEW p \in Proc, NEW y \in Peers(p), In(p, y),
         recv_q'[p][y] = recv_q[p][y],
         \A i \in 1 .. Len(recv_q[p][y]) :
           SameBut(msg_list[p][recv_q[p][y][i]], msg_list'[p][recv_q[p][y][i]]),
         \A i \in 1 .. Len(msg_q'[p][y]) :
           /\ SameBut(msg_list[p][msg_q'[p][y][i]], msg_list'[p][msg_q'[p][y][i]])
           /\ \E j \in 1 .. Len(msg_q[p][y]) : msg_q'[p][y][i] = msg_q[p][y][j],
         work'[p] = work[p] \/ (~AtRecv(work[p], y) /\ ~(AtRecv(work'[p], y) /\ Head(work'[p]).msg # 0)),
         ractive'[p][y] = ractive[p][y], wire'[y][p] = wire[y][p], avail'[y][p] = avail[y][p],
         sent'[y][p] = sent[y][p], msg_list'[y] = msg_list[y], send_q'[y] = send_q[y],
         SignalPart(work[p], ractive[p], wactive[p], recv_q[p][Wild], Len(wire[p][y]) < SockCap,
                    avail[y][p], sigio[p], y)'
  PROVE  In(p, y)'
<1>1. y \in Proc /\ y # p
  BY DEF Peers
<1>2. PICK L, L2, K, K2, w, av, sn, u :
        /\ L = msg_list[p] /\ L2 = msg_list'[p] /\ K = work[p] /\ K2 = work'[p]
        /\ w = wire[y][p] /\ av = avail[y][p] /\ sn = sent[y][p]
        /\ u = NextIn(msg_list[y], send_q[y][p], sent[y][p], wire[y][p])
  BY Zenon
<1>3. PICK mq, mq2, rq : mq = msg_q[p][y] /\ mq2 = msg_q'[p][y] /\ rq = recv_q[p][y]
  BY Zenon
<1>4. rq \in Seq(Ids) /\ L \in [Ids -> EntryType]
  <2>1. recv_q \in [Proc -> [Proc \cup {Wild} -> Seq(Ids)]] /\ msg_list \in [Proc -> [Ids -> EntryType]]
    BY Zenon DEF Types
  <2> QED BY Zenon, <1>1, <1>2, <1>3, <2>1
<1>5. /\ \A i \in 1 .. Len(rq) : SameBut(L[rq[i]], L2[rq[i]])
      /\ \A i \in 1 .. Len(mq2) : SameBut(L[mq2[i]], L2[mq2[i]]) /\ \E j \in 1 .. Len(mq) : mq2[i] = mq[j]
  BY Zenon, <1>2, <1>3
<1>6. /\ RecvPart(L, rq, y) /\ HeaderPart(L, mq, rq) /\ DrainPart(L, rq, K, y, w, av, sn)
      /\ PlacePart(L, mq, rq, K, y) /\ StreamPart(L, rq, u)
  BY Zenon, <1>2, <1>3 DEF In
<1>7. \A i \in 1 .. Len(rq) : Complete(L[rq[i]]) \/ nleft(L[rq[i]]) > 0
  <2> TAKE i \in 1 .. Len(rq)
  <2>1. L[rq[i]] \in EntryType
    BY <1>4
  <2> QED BY Zenon, <2>1, EntryFacts
<1>8. /\ RecvPart(L2, rq, y) /\ HeaderPart(L2, mq2, rq) /\ DrainPart(L2, rq, K, y, w, av, sn)
      /\ PlacePart(L2, mq2, rq, K, y) /\ StreamPart(L2, rq, u)
  <2>1. Alike(L, L2, mq, mq2, rq) /\ QueueParts(L, mq, rq, K, y, w, av, sn, u)
    BY Zenon, <1>5, <1>6, <1>7 DEF Alike, QueueParts
  <2>2. QueueParts(L2, mq2, rq, K, y, w, av, sn, u)
    BY Zenon, <2>1, PartsSame
  <2> QED BY Zenon, <2>2 DEF QueueParts
<1>9. CASE K2 = K
  <2>1. AwakePart(rq, K2, ractive'[p], y)
    BY Zenon, <1>2, <1>3, <1>9 DEF In, AwakePart
  <2>2. NextIn(msg_list[y], send_q[y][p], sent[y][p], wire[y][p])' = u
    BY <1>2
  <2> QED BY Zenon, <1>2, <1>3, <1>8, <1>9, <2>1, <2>2 DEF In
<1>10. CASE ~AtRecv(K, y) /\ ~(AtRecv(K2, y) /\ Head(K2).msg # 0)
  <2>1. AwakePart(rq, K2, ractive'[p], y)
    BY Zenon, <1>2, <1>3, <1>10 DEF In, AwakePart
  <2>2. NextIn(msg_list[y], send_q[y][p], sent[y][p], wire[y][p])' = u
    BY <1>2
  <2>3. DrainPart(L2, rq, K2, y, w, av, sn) /\ PlacePart(L2, mq2, rq, K2, y)
    BY Zenon, <1>8, <1>10 DEF DrainPart, PlacePart
  <2> QED BY Zenon, <1>2, <1>3, <1>8, <2>1, <2>2, <2>3 DEF In
<1> QED BY Zenon, <1>2, <1>9, <1>10

\* Entries that do not change are the same.
LEMMA SameIsSame ==
  ASSUME NEW e
  PROVE  SameBut(e, e)
BY DEF SameBut

\* do_recv() notes which message it is at.
LEMMA MsgNoted ==
  ASSUME Types, NEW p \in Proc, NEW m \in 0 .. MaxMsgs, work[p] # << >>, Head(work[p]).call = "recv",
         work' = [work EXCEPT ![p][1].msg = m], TaskPart(work[p], send_q[p], recv_q[p], p)
  PROVE  /\ work' \in [Proc -> Seq(TaskType)]
         /\ \A x \in Proc : x # p => work'[x] = work[x]
         /\ work'[p] # << >> /\ Head(work'[p]).call = "recv"
         /\ Head(work'[p]).node = Head(work[p]).node /\ Head(work'[p]).msg = m
         /\ \A call, y : HasTask(work'[p], call, y) <=> HasTask(work[p], call, y)
         /\ TaskPart(work'[p], send_q[p], recv_q[p], p)
<1>1. work \in [Proc -> Seq(TaskType)]
  BY DEF Types
<1>2. PICK K \in Seq(TaskType) : K = work[p]
  BY <1>1
<1>3. PICK t : t = [K[1] EXCEPT !.msg = m]
  OBVIOUS
<1>4. PICK K2 : K2 = [K EXCEPT ![1] = t]
  OBVIOUS
<1>5. Len(K) \in Nat \ {0} /\ Head(K) = K[1] /\ K[1] \in TaskType
  BY <1>2
<1>6. t \in TaskType /\ t.call = "recv" /\ t.node = K[1].node /\ t.msg = m
  BY Zenon, <1>2, <1>3, <1>5 DEF TaskType
<1>7. K2 \in Seq(TaskType) /\ Len(K2) = Len(K) /\ K2[1] = t /\ \A i \in 2 .. Len(K) : K2[i] = K[i]
  BY <1>4, <1>5, <1>6
<1>8. Head(K2) = t /\ K2 # << >>
  BY <1>5, <1>7
<1>9. work' = [work EXCEPT ![p] = K2]
  BY <1>1, <1>2, <1>3, <1>4
<1>10. work' \in [Proc -> Seq(TaskType)] /\ work'[p] = K2 /\ \A x \in Proc : x # p => work'[x] = work[x]
  BY Zenon, <1>1, <1>7, <1>9
<1>11. \A i \in 1 .. Len(K) : K2[i].call = K[i].call /\ K2[i].node = K[i].node /\ (i > 1 => K2[i].msg = K[i].msg)
  <2> TAKE i \in 1 .. Len(K)
  <2>1. CASE i = 1
    BY <1>2, <1>5, <1>6, <1>7, <2>1
  <2>2. CASE i # 1
    <3>1. i \in 2 .. Len(K)
      BY <2>2
    <3> QED BY <1>7, <3>1
  <2> QED BY <2>1, <2>2
<1>12. TaskPart(K2, send_q[p], recv_q[p], p)
  <2>1. TaskPart(K, send_q[p], recv_q[p], p)
    BY <1>2
  <2>2. 1 \in 1 .. Len(K) /\ K[1].call = "recv"
    BY <1>2, <1>5
  <2>3. ASSUME NEW i \in 1 .. Len(K2)
        PROVE  /\ K2[i].node # p
               /\ K2[i].call = "send" => send_q[p][K2[i].node] # << >>
               /\ K2[i].call = "recv" => recv_q[p][K2[i].node] # << >>
               /\ i > 1 \/ K2[i].call # "recv" => K2[i].msg = 0
               /\ K2[i].call = "peek" => \A j \in 1 .. Len(K2) : i < j => K2[j].call = "peek"
    <3>1. /\ K[i].node # p
          /\ K[i].call = "send" => send_q[p][K[i].node] # << >>
          /\ K[i].call = "recv" => recv_q[p][K[i].node] # << >>
          /\ i > 1 \/ K[i].call # "recv" => K[i].msg = 0
          /\ K[i].call = "peek" => \A j \in 1 .. Len(K) : i < j => K[j].call = "peek"
      BY <1>7, <2>1 DEF TaskPart
    <3>2. i > 1 \/ K2[i].call # "recv" => K2[i].msg = 0
      <4>1. CASE i = 1
        BY <1>11, <2>2, <4>1
      <4>2. CASE i # 1
        BY <1>7, <1>11, <3>1, <4>2
      <4> QED BY <4>1, <4>2
    <3> QED BY Zenon, <1>7, <1>11, <3>1, <3>2
  <2>4. ASSUME NEW i \in 1 .. Len(K2), NEW j \in 1 .. Len(K2), K2[i].call = K2[j].call, K2[i].node = K2[j].node
        PROVE  i = j
    BY <1>7, <1>11, <2>1, <2>4 DEF TaskPart
  <2> QED BY <2>3, <2>4 DEF TaskPart
<1>13. \A call, y : HasTask(K2, call, y) <=> HasTask(K, call, y)
  BY Zenon, <1>7, <1>11 DEF HasTask
<1>14. Head(K2).call = "recv" /\ Head(K2).node = Head(K).node /\ Head(K2).msg = m
  <2>1. t.node = Head(K).node
    BY <1>5, <1>6
  <2> QED BY <1>6, <1>8, <2>1
<1> QED BY Zenon, <1>2, <1>8, <1>10, <1>12, <1>13, <1>14

\* What recv_from_q() finds for a receive.
LEMMA FoundTaken ==
  ASSUME TcpMsgAssumption, Types, NEW p \in Proc, NEW m \in Ids, NEW e, InMsgQ(p, e) # {}, e.flag = "recv",
         TakeFromMsgQ(p, m, e), ~msg_list[p][m].used \/ nleft(msg_list[p][m]) > 0,
         \A y \in Proc : ~Contains(msg_q[p][y], m)
  PROVE  \E q \in Proc : \E i \in 1 .. Len(msg_q[p][q]) : \E x \in Ids :
           e.peer \in {q, Wild} /\ Takes(p, m, q, i, x) /\ Matches(msg_list[p][x], e)
<1>1. PICK q \in Proc : \E i \in 1 .. Len(msg_q[p][q]) : \E x \in Ids : Exchanged(p, m, e, q, i, x)
  BY TakeFacts
<1>2. PICK i \in 1 .. Len(msg_q[p][q]) : \E x \in Ids : Exchanged(p, m, e, q, i, x)
  BY <1>1
<1>3. PICK x \in Ids : Exchanged(p, m, e, q, i, x)
  BY <1>2
<1>4. x # m
  <2>1. msg_q[p][q] \in Seq(Ids)
    BY DEF Types
  <2>2. Contains(msg_q[p][q], x)
    BY Zenon, <1>3, <2>1, ContainsIs DEF Exchanged
  <2> QED BY <2>2
<1>5. Takes(p, m, q, i, x)
  BY Zenon, <1>3, <1>4 DEF Takes, Exchanged
<1>6. e.peer \in {q, Wild} /\ Matches(msg_list[p][x], e)
  BY Zenon, <1>3 DEF Exchanged
<1> QED BY <1>5, <1>6

\* MP_Wait()
LEMMA WaitStep ==
  ASSUME TcpMsgAssumption, IInv, NEW p \in Proc, Wait(p)
  PROVE  IInv'
<1>1. /\ Types /\ Always(p) /\ History(p) /\ OnTrack(p) /\ \A y \in Peers(p) : Out(p, y) /\ In(p, y)
      /\ Running(p) /\ pc[p] = "run" /\ todo[p] # << >> /\ Head(todo[p]).op = "wait"
      /\ work[p] = << >> /\ ~derailed[p]
  BY DEF IInv, Wait, Calls, Running
<1>2. UNCHANGED <<handle, sent, waited, mid, send_q, ractive, wactive, work, netVars, derailed>>
  BY DEF Wait
<1>3. pc \in [Proc -> {"run", "push", "block", "end"}] /\ todo \in [Proc -> Seq(CallType)]
  BY Zenon, <1>1 DEF Types
<1>4. /\ Tail(todo[p]) \in Seq(CallType) /\ NamesGiven(Tail(todo[p]), Len(handle[p]))
      /\ Head(todo[p]).i \in 1 .. Len(handle[p])
      /\ Len(waited[p]) = Len(handle[p]) /\ Id(p) \in 0 .. MaxMsgs
  BY <1>1, CallFacts
<1>5. CASE todo' = [todo EXCEPT ![p] = Tail(@)] /\ UNCHANGED <<pc, msg_list, recv_q, msg_q>>
  <2>1. todo' \in [Proc -> Seq(CallType)] /\ todo'[p] = Tail(todo[p]) /\ \A x \in Peers(p) : todo'[x] = todo[x]
    BY <1>3, <1>4, <1>5 DEF Peers
  <2>2. HandlePart(todo'[p], handle[p], waited[p], pc'[p]) /\ PcPart(msg_list[p], todo'[p], handle[p], pc'[p])
    BY Zenon, <1>1, <1>4, <1>5, <2>1 DEF HandlePart, PcPart
  <2> QED BY Zenon, <1>1, <1>2, <1>3, <1>5, <2>1, <2>2, NoEntryStep DEF queueVars
<1>6. CASE /\ Id(p) # 0 /\ Msg(p).used
           /\ pc' = [pc EXCEPT ![p] =
             CASE nleft(Msg(p)) = 0 -> "end"
               [] nleft(Msg(p)) # 0 /\ Msg(p).flag = "send" -> "push"
               [] nleft(Msg(p)) # 0 /\ Msg(p).peer = p -> "end"
               [] OTHER -> "block"]
           /\ IF nleft(Msg(p)) # 0 /\ Msg(p).flag = "recv" /\ Msg(p).peer = p
              THEN InMsgQ(p, Msg(p)) # {} /\ TakeFromMsgQ(p, Id(p), Msg(p))
              ELSE UNCHANGED <<msg_list, recv_q, msg_q>>
           /\ UNCHANGED todo
  <2>1. PICK m \in Ids : m = Id(p)
    <3>1. MaxMsgs \in Nat
      BY DEF TcpMsgAssumption
    <3> QED BY <1>4, <1>6, <3>1 DEF Ids
  <2>2. PICK e : e = Msg(p)
    OBVIOUS
  <2>3. msg_list \in [Proc -> [Ids -> EntryType]] /\ e = msg_list[p][m]
    BY <1>1, <2>1, <2>2 DEF Types, Msg
  <2>4. e \in EntryType /\ nleft(e) \in Nat /\ e.flag \in {"send", "buffered", "recv", "drain"}
    <3>1. e \in EntryType
      BY <2>3
    <3> QED BY <3>1, EntryFacts
  <2>5. PICK c : c = CASE nleft(e) = 0 -> "end"
                     [] nleft(e) # 0 /\ e.flag = "send" -> "push"
                     [] nleft(e) # 0 /\ e.peer = p -> "end"
                     [] OTHER -> "block"
    OBVIOUS
  <2>52. nleft(e) # 0 /\ e.flag = "send" => e.peer # p
    <3>1. SUFFICES ASSUME nleft(e) # 0, e.flag = "send" PROVE e.peer # p
      OBVIOUS
    <3>2. PICK y \in Proc : Contains(send_q[p][y], m)
      <4>1. msg_list[p][m].used /\ nleft(msg_list[p][m]) > 0 /\ msg_list[p][m].flag = "send"
        BY <1>6, <2>2, <2>3, <2>4, <3>1
      <4> QED BY <1>1, <4>1 DEF Always, QueuedPart
    <3>3. send_q \in [Proc -> [Proc -> Seq(Ids)]]
      BY <1>1 DEF Types
    <3>4. PICK j \in 1 .. Len(send_q[p][y]) : send_q[p][y][j] = m
      <4>1. send_q[p][y] \in Seq(Ids)
        BY <3>3
      <4> QED BY <3>2, <4>1, ContainsIs
    <3>5. y # p
      <4>1. send_q[p][p] = << >>
        BY <1>1 DEF Always, OwnPart
      <4> QED BY <3>4, <4>1
    <3>6. msg_list[p][m].peer = y
      <4>1. SendPart(msg_list[p], handle[p], send_q[p][y], sent[p][y], y)
        BY <1>1, <3>5 DEF Out, Peers
      <4> QED BY Zenon, <3>4, <4>1 DEF SendPart
    <3> QED BY <2>3, <3>5, <3>6
  <2>51. /\ c \in {"push", "end", "block"}
         /\ c = "push" => e.flag = "send"
         /\ c = "end" => nleft(e) = 0 \/ (nleft(e) # 0 /\ e.flag # "send" /\ e.peer = p)
         /\ nleft(e) # 0 /\ e.flag # "send" /\ e.peer = p => c = "end"
    <3>1. CASE nleft(e) = 0
      <4>1. c = "end"
        BY <2>5, <3>1
      <4> QED BY <3>1, <4>1
    <3>2. CASE nleft(e) # 0 /\ e.flag = "send"
      <4>1. e.peer # p
        BY <2>52, <3>2
      <4>2. c = "push"
        BY <2>5, <3>2, <4>1
      <4> QED BY <3>2, <4>2
    <3>3. CASE nleft(e) # 0 /\ e.flag # "send" /\ e.peer = p
      <4>1. c = "end"
        BY <2>5, <3>3
      <4> QED BY <3>3, <4>1
    <3>4. CASE nleft(e) # 0 /\ e.flag # "send" /\ e.peer # p
      <4>1. c = "block"
        BY <2>5, <3>4
      <4> QED BY <3>4, <4>1
    <3> QED BY <3>1, <3>2, <3>3, <3>4
  <2>6. pc' \in [Proc -> {"run", "push", "block", "end"}] /\ pc'[p] = c /\ \A x \in Peers(p) : pc'[x] = pc[x]
    <3>1. pc' = [pc EXCEPT ![p] = c]
      BY <1>6, <2>2, <2>5
    <3> QED BY <1>3, <2>51, <3>1 DEF Peers
  <2>7. HandlePart(todo[p], handle[p], waited[p], c)
    BY <1>1, <1>6 DEF Always, HandlePart, Id
  <2>8. CASE ~(nleft(e) # 0 /\ e.flag = "recv" /\ e.peer = p)
    <3>1. UNCHANGED <<msg_list, recv_q, msg_q>>
      BY <1>6, <2>2, <2>8
    <3>2. c = "end" => e.flag = "buffered" \/ Complete(e)
      <4>1. e.flag = "drain" => e.peer # p
        BY <1>1, <2>3 DEF Always, EntryPart
      <4> QED BY <2>4, <2>51, <2>8, <4>1 DEF Complete
    <3>3. PcPart(msg_list[p], todo[p], handle[p], c)
      BY Zenon, <2>1, <2>3, <2>51, <3>2 DEF PcPart, Id
    <3> QED BY Zenon, <1>1, <1>2, <1>3, <1>6, <2>6, <2>7, <3>1, <3>3, NoEntryStep DEF queueVars
  <2>9. CASE nleft(e) # 0 /\ e.flag = "recv" /\ e.peer = p
    <3>1. InMsgQ(p, e) # {} /\ TakeFromMsgQ(p, m, e)
      BY <1>6, <2>1, <2>2, <2>9
    <3>2. Named(handle[p], m)
      BY <1>4, <2>1 DEF Named, Id
    <3>3. ASSUME NEW y \in Proc PROVE ~Contains(msg_q[p][y], m)
      <4>1. MsgPart(msg_list[p], handle[p], msg_q[p][y], recv_q[p][y], p, y) /\ msg_q[p][y] \in Seq(Ids)
        BY <1>1 DEF OnTrack, Types
      <4>2. SUFFICES ASSUME NEW j \in 1 .. Len(msg_q[p][y]), msg_q[p][y][j] = m PROVE FALSE
        BY <4>1, ContainsIs
      <4> QED BY Zenon, <2>3, <2>9, <3>2, <4>1, <4>2 DEF MsgPart
    <3>4. nleft(e) > 0
      BY <2>4, <2>9
    <3>41. PICK q \in Proc : \E i \in 1 .. Len(msg_q[p][q]) : \E x \in Ids :
             e.peer \in {q, Wild} /\ Takes(p, m, q, i, x) /\ Matches(msg_list[p][x], e)
      BY <1>1, <2>3, <2>9, <3>1, <3>3, <3>4, FoundTaken
    <3>42. PICK i \in 1 .. Len(msg_q[p][q]) : \E x \in Ids : e.peer \in {q, Wild} /\ Takes(p, m, q, i, x)
      BY <3>41
    <3>5. PICK x \in Ids : e.peer \in {q, Wild} /\ Takes(p, m, q, i, x)
      BY <3>42
    <3>6. q = p
      <4>1. p # Wild
        BY DEF Proc, Wild
      <4> QED BY <2>9, <3>5, <4>1
    <3>7. TakenTo(p, m, q, i, x)
      BY Zenon, <1>1, <3>5, TakenRows
    <3>8. Complete(msg_list[p][x]) /\ msg_list[p][x].peer = p /\ msg_list[p][x] \in EntryType
      <4>1. TakenAway(p, q, x)
        BY Zenon, <1>1, <3>5, TakenFrom
      <4> QED BY Zenon, <3>6, <4>1 DEF TakenAway
    <3>9. PICK L, L2 : L = msg_list[p] /\ L2 = msg_list'[p]
      OBVIOUS
    <3>10. /\ msg_list' \in [Proc -> [Ids -> EntryType]]
           /\ msg_q' \in [Proc -> [Proc -> Seq(Ids)]]
           /\ recv_q' \in [Proc -> [Proc \cup {Wild} -> Seq(Ids)]]
           /\ \A y \in Proc : y # p => msg_list'[y] = msg_list[y] /\ msg_q'[y] = msg_q[y] /\ recv_q'[y] = recv_q[y]
           /\ \A n \in Ids : n # m /\ n # x => L2[n] = L[n]
           /\ L2[m] = [L[x] EXCEPT !.flag = "recv"]
           /\ \A y \in Proc : y # p => msg_q'[p][y] = msg_q[p][y]
           /\ \A y \in Proc \cup {Wild} : recv_q'[p][y] = recv_q[p][y]
      BY <3>6, <3>7, <3>8, <3>9 DEF TakenTo
    <3>11. Types'
      BY Zenon, <1>1, <1>2, <1>6, <2>6, <3>10 DEF Types, netVars
    <3>12. \A y \in Peers(p) : SameRows(y)
      BY <1>2, <1>6, <2>6, <3>10 DEF SameRows, Peers
    <3>13. ~Outgoing(msg_list[p][m])
      BY <2>3, <2>9 DEF Outgoing
    <3>14. Complete(L2[m])
      <4>1. L2[m].nhdr = L[x].nhdr /\ L2[m].left = L[x].left
        BY <3>8, <3>9, <3>10 DEF EntryType
      <4> QED BY <3>8, <3>9, <4>1 DEF Complete, nleft
    <3>15. PcPart(msg_list[p], todo[p], handle[p], pc[p])'
      <4>1. handle'[p][Head(todo'[p]).i] = m
        BY <1>2, <1>6, <2>1 DEF Id
      <4>2. c = "end"
        BY <2>51, <2>9
      <4> QED BY <2>6, <3>9, <3>14, <4>1, <4>2 DEF PcPart
    <3>16. ~Contains(recv_q[p][Wild], m)
      <4>1. WildPart(msg_list[p], recv_q[p][Wild]) /\ recv_q \in [Proc -> [Proc \cup {Wild} -> Seq(Ids)]]
        BY Zenon, <1>1 DEF OnTrack, Types
      <4>2. recv_q[p][Wild] \in Seq(Ids) /\ p # Wild
        BY <4>1 DEF Wild, Proc
      <4>3. SUFFICES ASSUME NEW j \in 1 .. Len(recv_q[p][Wild]), recv_q[p][Wild][j] = m PROVE FALSE
        BY <4>2, ContainsIs
      <4> QED BY <2>3, <2>9, <4>1, <4>2, <4>3 DEF WildPart
    <3>17. HandlePart(todo[p], handle[p], waited[p], pc[p])' /\ WaitedPart(waited[p], sent, p)'
      BY <1>1, <1>2, <1>6, <2>6, <2>7 DEF History
    <3>18. TaskPart(work[p], send_q[p], recv_q[p], p)'
      BY <1>1, <1>2 DEF TaskPart
    <3>19. Always(p)' /\ History(p)' /\ (~derailed'[p] => OnTrack(p)') /\ SendParts(p)
      <4>1. UNCHANGED <<send_q, sent, ractive, wactive, wire, avail>> /\ handle' = handle
        BY <1>2 DEF netVars
      <4> QED BY <1>1, <3>2, <3>3, <3>5, <3>13, <3>15, <3>16, <3>17, <3>18, <4>1, Taken
    <3>20. ASSUME NEW y \in Peers(p) PROVE In(p, y)'
      <4>1. In(p, y) /\ MsgPart(msg_list[p], handle[p], msg_q[p][y], recv_q[p][y], p, y) /\ y # p /\ y \in Proc
        BY <1>1 DEF OnTrack, Peers
      <4>2. PICK mq \in Seq(Ids), rq \in Seq(Ids) : mq = msg_q[p][y] /\ rq = recv_q[p][y]
        BY Zenon, <1>1, <4>1, RowTypes
      <4>3. \A j \in 1 .. Len(rq) : L2[rq[j]] = L[rq[j]]
        <5> TAKE j \in 1 .. Len(rq)
        <5>1. rq[j] \in Ids /\ L[rq[j]].peer = y
          BY SMTT(30), <3>9, <4>1, <4>2 DEF In, RecvPart
        <5> QED BY Zenon, <2>3, <2>9, <3>8, <3>9, <3>10, <4>1, <5>1
      <4>4. \A j \in 1 .. Len(mq) : L2[mq[j]] = L[mq[j]]
        <5> TAKE j \in 1 .. Len(mq)
        <5>1. mq[j] \in Ids /\ L[mq[j]].peer = y
          BY <3>9, <4>1, <4>2 DEF MsgPart
        <5> QED BY Zenon, <2>3, <2>9, <3>8, <3>9, <3>10, <4>1, <5>1
      <4>5. recv_q'[p][y] = rq /\ msg_q'[p][y] = mq /\ recv_q'[p][Wild] = recv_q[p][Wild] /\ msg_list'[y] = msg_list[y]
        BY <3>10, <4>1, <4>2
      <4>6. SignalPart(work[p], ractive[p], wactive[p], recv_q[p][Wild], Len(wire[p][y]) < SockCap,
                    avail[y][p], sigio[p], y)'
        <5>1. SignalPart(work[p], ractive[p], wactive[p], recv_q[p][Wild], Len(wire[p][y]) < SockCap,
                    avail[y][p], sigio[p], y)
          BY <4>1 DEF In
        <5> QED BY <1>2, <4>5, <5>1 DEF netVars
      <4> QED BY Zenon, <1>1, <1>2, <3>9, <4>1, <4>2, <4>3, <4>4, <4>5, <4>6, InSame, SameIsSame DEF netVars
    <3>21. Quiet(p)
      <4>1. \A y \in Proc : Grown(sent[p][y], sent'[p][y])
        <5>1. \A y \in Proc : Len(sent[p][y]) \in Nat
          BY <1>1 DEF Types
        <5> QED BY <1>2, <5>1 DEF Grown
      <4> QED BY <1>2, <3>12, <4>1 DEF Quiet, netVars
    <3> QED BY <3>11, <3>19, <3>20, <3>21, OwnStep DEF OwnParts
  <2> QED BY <2>8, <2>9
<1> QED BY <1>5, <1>6 DEF Wait

\* Messages that are sent stay sent.
LEMMA GrownSame ==
  ASSUME Types, NEW p \in Proc, sent'[p] = sent[p]
  PROVE  \A y \in Proc : Grown(sent[p][y], sent'[p][y])
<1>1. \A y \in Proc : Len(sent[p][y]) \in Nat
  BY DEF Types
<1> QED BY <1>1 DEF Grown

\* The queue that the first task of p serves.
LEMMA RecvTask ==
  ASSUME TcpMsgAssumption, IInv, NEW p \in Proc, Working(p, "recv")
  PROVE  LET q == Head(work[p]).node
         IN  /\ q \in Peers(p) /\ q \in Proc /\ q # p /\ recv_q[p][q] \in Seq(Ids) /\ recv_q[p][q] # << >>
             /\ Head(recv_q[p][q]) = recv_q[p][q][1] /\ recv_q[p][q][1] \in Ids
             /\ Len(recv_q[p][q]) \in Nat \ {0}
             /\ AtRecv(work[p], q) /\ \A y \in Proc : y # q => ~AtRecv(work[p], y)
             /\ Head(work[p]).msg \in 0 .. MaxMsgs
             /\ In(p, q) /\ Out(p, q) /\ Always(p) /\ History(p) /\ OnTrack(p)
<1>1. Types /\ Always(p) /\ ~derailed[p] /\ work[p] # << >> /\ Head(work[p]).call = "recv"
  BY DEF IInv, Working
<1>2. PICK K \in Seq(TaskType) : K = work[p]
  BY <1>1 DEF Types
<1>3. Head(K) = K[1] /\ K[1] \in TaskType /\ 1 \in 1 .. Len(K)
  BY <1>1, <1>2
<1>4. PICK q : q = Head(K).node
  OBVIOUS
<1>5. q \in Proc /\ Head(K).msg \in 0 .. MaxMsgs
  BY <1>3, <1>4 DEF TaskType
<1>6. TaskPart(K, send_q[p], recv_q[p], p)
  BY <1>1, <1>2 DEF Always
<1>7. q # p /\ recv_q[p][q] # << >>
  BY <1>1, <1>2, <1>3, <1>4, <1>6 DEF TaskPart
<1>8. PICK rq \in Seq(Ids) : rq = recv_q[p][q]
  <2>1. recv_q \in [Proc -> [Proc \cup {Wild} -> Seq(Ids)]]
    BY Zenon, <1>1 DEF Types
  <2> QED BY <1>5, <2>1
<1>9. Len(rq) \in Nat \ {0} /\ Head(rq) = rq[1] /\ rq[1] \in Ids
  BY <1>7, <1>8
<1>10. In(p, q) /\ Out(p, q) /\ Always(p) /\ History(p) /\ OnTrack(p)
  BY <1>1, <1>5, <1>7 DEF IInv, Peers
<1>11. AtRecv(K, q) /\ \A y \in Proc : y # q => ~AtRecv(K, y)
  BY <1>1, <1>2, <1>4 DEF AtRecv
<1> QED BY Zenon, <1>2, <1>4, <1>5, <1>7, <1>8, <1>9, <1>10, <1>11 DEF Peers

\* do_recv() starts with the message m from q, which it does not take from msg_q.
StartsWith(p, q, m) ==
  /\ RecvStart(p) /\ UNCHANGED <<msg_list, msg_q, recv_q>>
  /\ q = Head(work[p]).node /\ m = Head(recv_q[p][q])
  /\ msg_list[p][m].nhdr > 0 /\ msg_list[p][m].flag # "drain" => InMsgQ(p, msg_list[p][m]) = {}

\* A step of the engine that only notes which message it is at.
LEMMA StartQuiet ==
  ASSUME TcpMsgAssumption, IInv, NEW p \in Proc, NEW q, NEW m, StartsWith(p, q, m)
  PROVE  IInv'
<1>0. q = Head(work[p]).node /\ m = Head(recv_q[p][q])
  BY Zenon DEF StartsWith
<1>1. /\ Types /\ Working(p, "recv") /\ Head(work[p]).msg = 0 /\ work' = [work EXCEPT ![p][1].msg = m]
      /\ UNCHANGED <<userVars, mid, send_q, ractive, wactive, netVars, derailed>>
      /\ ~derailed[p] /\ work[p] # << >> /\ Head(work[p]).call = "recv"
      /\ UNCHANGED <<msg_list, msg_q, recv_q>>
  BY Zenon DEF IInv, RecvStart, Working, StartsWith
<1>2. /\ q \in Peers(p) /\ q \in Proc /\ q # p /\ recv_q[p][q] \in Seq(Ids) /\ recv_q[p][q] # << >>
      /\ m = recv_q[p][q][1] /\ recv_q[p][q][1] \in Ids
      /\ Len(recv_q[p][q]) \in Nat \ {0}
      /\ AtRecv(work[p], q) /\ \A y \in Proc : y # q => ~AtRecv(work[p], y)
      /\ In(p, q) /\ Always(p) /\ History(p) /\ OnTrack(p)
  BY Zenon, <1>0, <1>1, RecvTask
<1>3. m \in Ids /\ m \in 0 .. MaxMsgs
  <2>1. m \in Ids
    BY <1>2
  <2>2. MaxMsgs \in Nat
    BY DEF TcpMsgAssumption
  <2> QED BY <2>1, <2>2 DEF Ids
<1>4. /\ work' \in [Proc -> Seq(TaskType)]
      /\ \A x \in Proc : x # p => work'[x] = work[x]
      /\ work'[p] # << >> /\ Head(work'[p]).call = "recv"
      /\ Head(work'[p]).node = Head(work[p]).node /\ Head(work'[p]).msg = m
      /\ \A call, y : HasTask(work'[p], call, y) <=> HasTask(work[p], call, y)
      /\ TaskPart(work'[p], send_q[p], recv_q[p], p)
  BY Zenon, <1>0, <1>1, <1>2, <1>3, MsgNoted DEF Always
<1>5. /\ sent' = sent /\ send_q' = send_q /\ recv_q' = recv_q /\ msg_q' = msg_q /\ ractive' = ractive
      /\ wactive' = wactive /\ wire' = wire /\ avail' = avail /\ sigio' = sigio
      /\ derailed' = derailed /\ msg_list' = msg_list /\ handle' = handle /\ todo' = todo /\ pc' = pc
      /\ waited' = waited /\ mid' = mid
  BY <1>1 DEF netVars, userVars
<1>6. Types'
  BY Zenon, <1>1, <1>4, <1>5 DEF Types
<1>7. \A x \in Peers(p) : SameRows(x)
  BY <1>4, <1>5 DEF SameRows, Peers
<1>8. Always(p)' /\ History(p)' /\ OnTrack(p)'
  BY <1>2, <1>4, <1>5 DEF Always, History, OnTrack
<1>9. \A y \in Peers(p) : SignalPart(work[p], ractive[p], wactive[p], recv_q[p][Wild], Len(wire[p][y]) < SockCap,
                    avail[y][p], sigio[p], y)'
  <2> TAKE y \in Peers(p)
  <2>1. SignalPart(work[p], ractive[p], wactive[p], recv_q[p][Wild], Len(wire[p][y]) < SockCap,
                    avail[y][p], sigio[p], y)
    BY <1>1 DEF IInv, In
  <2> QED BY <1>4, <1>5, <2>1 DEF SignalPart
<1>10. ASSUME NEW y \in Peers(p) PROVE In(p, y)'
  <2>1. In(p, y) /\ y \in Proc
    BY <1>1 DEF IInv, Peers
  <2>2. CASE y # q
    <3>1. ~AtRecv(work[p], y) /\ ~AtRecv(work'[p], y)
      BY <1>2, <1>4, <2>1, <2>2 DEF AtRecv
    <3>2. /\ \A i \in 1 .. Len(recv_q[p][y]) : SameBut(msg_list[p][recv_q[p][y][i]], msg_list'[p][recv_q[p][y][i]])
          /\ \A i \in 1 .. Len(msg_q'[p][y]) :
               /\ SameBut(msg_list[p][msg_q'[p][y][i]], msg_list'[p][msg_q'[p][y][i]])
               /\ \E j \in 1 .. Len(msg_q[p][y]) : msg_q'[p][y][i] = msg_q[p][y][j]
      BY <1>5, SameIsSame
    <3> QED BY Zenon, <1>1, <1>5, <1>9, <2>1, <3>1, <3>2, InSame
  <2>3. CASE y = q
    <3>1. PICK L, mq, rq, K, K2 : /\ L = msg_list[p] /\ mq = msg_q[p][q] /\ rq = recv_q[p][q]
                                  /\ K = work[p] /\ K2 = work'[p]
      OBVIOUS
    <3>2. AtRecv(K2, q) /\ Head(K2).msg = m
      BY Zenon, <1>0, <1>4, <3>1 DEF AtRecv
    <3>3. PlacePart(L, mq, rq, K2, q)
      <4>1. 1 \in 1 .. Len(rq) /\ rq[1] = m /\ \A j \in 1 .. 1 - 1 : FALSE
        <5>1. Len(rq) \in Nat \ {0} /\ rq[1] = m
          BY <1>2, <3>1
        <5>2. 1 \in 1 .. Len(rq)
          BY <5>1
        <5>3. \A j \in 1 .. 1 - 1 : FALSE
          OBVIOUS
        <5> QED BY <5>1, <5>2, <5>3
      <4>2. L[m].peer = q /\ L[m].flag \in {"recv", "drain"}
        BY Zenon, <1>2, <3>1, <4>1 DEF In, RecvPart
      <4>3. ASSUME L[m].nhdr > 0, L[m].flag = "recv" PROVE NoMatch(L, mq, L[m])
        <5>1. InMsgQ(p, L[m]) = {}
          BY Zenon, <3>1, <4>3 DEF StartsWith
        <5>2. InMsgQ(p, L[m]) = {} <=> NoMatch(msg_list[p], msg_q[p][L[m].peer], L[m])
          BY Zenon, <1>1, <1>2, <4>2, NoneInMsgQ
        <5> QED BY <3>1, <4>2, <5>1, <5>2
      <4> QED BY <3>2, <4>1, <4>3 DEF PlacePart
    <3>4. DrainPart(L, rq, K2, q, wire[q][p], avail[q][p], sent[q][p])
      BY Zenon, <1>2, <3>1, <3>2 DEF In, DrainPart
    <3>5. AwakePart(rq, K2, ractive[p], q)
      BY <3>2 DEF AwakePart
    <3> QED BY <1>2, <1>5, <1>9, <2>3, <3>1, <3>3, <3>4, <3>5 DEF In
  <2> QED BY <2>2, <2>3
<1>11. SendParts(p)
  <2>1. \A n \in Ids : Outgoing(msg_list[p][n]) => StillOutgoing(msg_list[p][n], msg_list'[p][n])
    BY <1>5 DEF Outgoing, StillOutgoing
  <2> QED BY <1>5, <2>1, OutQuiet
<1>12. Quiet(p)
  <2>1. \A y \in Proc : Grown(sent[p][y], sent'[p][y])
    BY <1>1, <1>5, GrownSame
  <2> QED BY <1>5, <1>7, <2>1 DEF Quiet
<1> QED BY <1>6, <1>8, <1>10, <1>11, <1>12, OwnStep DEF OwnParts

\* The queues of the processes whose message recv_from_q() did not take.
LEMMA TakenElsewhere ==
  ASSUME TcpMsgAssumption, Types, NEW p \in Proc, NEW m \in Ids, NEW q \in Proc,
         NEW i \in 1 .. Len(msg_q[p][q]), NEW x \in Ids, TakenTo(p, m, q, i, x), msg_list[p][x].peer = q,
         NEW y \in Peers(p), y # q, In(p, y),
         MsgPart(msg_list[p], handle[p], msg_q[p][y], recv_q[p][y], p, y),
         \A j \in 1 .. Len(recv_q[p][y]) : recv_q[p][y][j] # m,
         \A j \in 1 .. Len(msg_q[p][y]) : msg_q[p][y][j] # m,
         work'[p] = work[p] \/ (~AtRecv(work[p], y) /\ ~(AtRecv(work'[p], y) /\ Head(work'[p]).msg # 0)),
         UNCHANGED <<send_q, sent, ractive, wire, avail>>,
         SignalPart(work[p], ractive[p], wactive[p], recv_q[p][Wild], Len(wire[p][y]) < SockCap,
                    avail[y][p], sigio[p], y)'
  PROVE  In(p, y)'
<1>1. y \in Proc /\ y # p
  BY DEF Peers
<1>2. PICK mq \in Seq(Ids), rq \in Seq(Ids) : mq = msg_q[p][y] /\ rq = recv_q[p][y]
  <2>1. /\ msg_q \in [Proc -> [Proc -> Seq(Ids)]]
        /\ recv_q \in [Proc -> [Proc \cup {Wild} -> Seq(Ids)]]
    BY Zenon DEF Types
  <2> QED BY <1>1, <2>1
<1>3. PICK L, L2 : L = msg_list[p] /\ L2 = msg_list'[p]
  OBVIOUS
<1>4. /\ \A n \in Ids : n # m /\ n # x => L2[n] = L[n]
      /\ recv_q'[p][y] = rq /\ msg_q'[p][y] = mq /\ msg_list'[y] = msg_list[y]
  BY <1>1, <1>2, <1>3 DEF TakenTo
<1>5. \A j \in 1 .. Len(rq) : L2[rq[j]] = L[rq[j]]
  <2> TAKE j \in 1 .. Len(rq)
  <2>2. RecvPart(L, rq, y) /\ \A k \in 1 .. Len(rq) : rq[k] # m
    BY Zenon, <1>2, <1>3 DEF In
  <2>3. rq[j] \in Ids
    BY <1>2
  <2>1. rq[j] \in Ids /\ L[rq[j]].peer = y /\ rq[j] # m
    BY Zenon, <2>2, <2>3 DEF RecvPart
  <2> QED BY <1>3, <1>4, <2>1
<1>6. \A j \in 1 .. Len(mq) : L2[mq[j]] = L[mq[j]]
  <2> TAKE j \in 1 .. Len(mq)
  <2>0. MsgPart(L, handle[p], mq, rq, p, y)
    BY <1>2, <1>3
  <2>1. L[mq[j]].peer = y
    BY Zenon, <2>0 DEF MsgPart
  <2>2. mq[j] \in Ids
    BY <1>2
  <2>3. mq[j] # m
    BY <1>2
  <2> QED BY Zenon, <1>3, <1>4, <2>1, <2>2, <2>3
<1>7. \A j \in 1 .. Len(recv_q[p][y]) :
        SameBut(msg_list[p][recv_q[p][y][j]], msg_list'[p][recv_q[p][y][j]])
  BY <1>2, <1>3, <1>5, SameIsSame
<1>8. \A j \in 1 .. Len(msg_q'[p][y]) :
        /\ SameBut(msg_list[p][msg_q'[p][y][j]], msg_list'[p][msg_q'[p][y][j]])
        /\ \E k \in 1 .. Len(msg_q[p][y]) : msg_q'[p][y][j] = msg_q[p][y][k]
  BY <1>2, <1>3, <1>4, <1>6, SameIsSame
<1>9. /\ recv_q'[p][y] = recv_q[p][y] /\ ractive'[p][y] = ractive[p][y] /\ wire'[y][p] = wire[y][p]
      /\ avail'[y][p] = avail[y][p] /\ sent'[y][p] = sent[y][p] /\ msg_list'[y] = msg_list[y] /\ send_q'[y] = send_q[y]
  BY <1>2, <1>4
<1> QED BY Zenon, <1>7, <1>8, <1>9, InSame

\* do_recv() starts with the message m from q, which it takes from msg_q.
StartsTaking(p, q, m) ==
  /\ RecvStart(p)
  /\ q = Head(work[p]).node /\ m = Head(recv_q[p][q])
  /\ msg_list[p][m].nhdr > 0 /\ msg_list[p][m].flag # "drain"
  /\ InMsgQ(p, msg_list[p][m]) # {}

\* What it takes is complete.
LEMMA StartTakes ==
  ASSUME TcpMsgAssumption, IInv, NEW p \in Proc, NEW q, NEW m, StartsTaking(p, q, m)
  PROVE  IInv'
<1>0. /\ q = Head(work[p]).node /\ m = Head(recv_q[p][q])
      /\ msg_list[p][m].nhdr > 0 /\ msg_list[p][m].flag # "drain"
      /\ InMsgQ(p, msg_list[p][m]) # {}
  BY Zenon DEF StartsTaking
<1>1. /\ Types /\ Working(p, "recv") /\ work' = [work EXCEPT ![p][1].msg = m]
      /\ TakeFromMsgQ(p, m, msg_list[p][m])
      /\ UNCHANGED <<userVars, mid, send_q, ractive, wactive, netVars, derailed>>
      /\ ~derailed[p] /\ work[p] # << >> /\ Head(work[p]).call = "recv"
  BY Zenon DEF IInv, RecvStart, Working, StartsTaking
<1>2. /\ q \in Peers(p) /\ q \in Proc /\ q # p /\ recv_q[p][q] \in Seq(Ids) /\ recv_q[p][q] # << >>
      /\ m = recv_q[p][q][1] /\ m \in Ids
      /\ Len(recv_q[p][q]) \in Nat \ {0}
      /\ AtRecv(work[p], q) /\ \A y \in Proc : y # q => ~AtRecv(work[p], y)
      /\ In(p, q) /\ Always(p) /\ History(p) /\ OnTrack(p)
  BY Zenon, <1>0, <1>1, RecvTask
<1>3. /\ sent' = sent /\ send_q' = send_q /\ ractive' = ractive
      /\ wactive' = wactive /\ wire' = wire /\ avail' = avail /\ sigio' = sigio
      /\ derailed' = derailed /\ handle' = handle /\ todo' = todo /\ pc' = pc
      /\ waited' = waited /\ mid' = mid
  BY <1>1 DEF netVars, userVars
<1>4. PICK L, L2, rq, mq : L = msg_list[p] /\ L2 = msg_list'[p] /\ rq = recv_q[p][q] /\ mq = msg_q[p][q]
  OBVIOUS
<1>5. L \in [Ids -> EntryType] /\ rq \in Seq(Ids) /\ mq \in Seq(Ids) /\ rq[1] = m /\ Len(rq) \in Nat \ {0}
  <2>1. msg_list \in [Proc -> [Ids -> EntryType]] /\ msg_q \in [Proc -> [Proc -> Seq(Ids)]]
    BY Zenon, <1>1 DEF Types
  <2> QED BY <1>2, <1>4, <2>1
<1>6. /\ L[m] \in EntryType /\ L[m].nhdr > 0 /\ L[m].flag # "drain" /\ nleft(L[m]) > 0 /\ ~Complete(L[m])
      /\ L[m].flag \in {"recv", "drain"} /\ L[m].peer = q /\ L[m].used
  <2>1. L[m] \in EntryType /\ L[m].nhdr > 0 /\ L[m].flag # "drain"
    BY Zenon, <1>0, <1>2, <1>4, <1>5
  <2>2. nleft(L[m]) > 0 /\ ~Complete(L[m])
    BY <2>1, EntryFacts
  <2>3. RecvPart(L, rq, q) /\ 1 \in 1 .. Len(rq)
    BY <1>2, <1>4, <1>5 DEF In
  <2>4. L[m].flag \in {"recv", "drain"} /\ L[m].peer = q /\ L[m].used
    BY <1>5, <2>2, <2>3 DEF RecvPart
  <2> QED BY <2>1, <2>2, <2>4
<1>7. L[m].flag = "recv"
  BY <1>6
<1>8. ASSUME NEW y \in Proc PROVE ~Contains(msg_q[p][y], m)
  <2>1. MsgPart(L, handle[p], msg_q[p][y], recv_q[p][y], p, y)
    BY <1>2, <1>4 DEF OnTrack
  <2>2. msg_q[p][y] \in Seq(Ids)
    BY <1>1 DEF Types
  <2>3. SUFFICES ASSUME NEW j \in 1 .. Len(msg_q[p][y]), msg_q[p][y][j] = m PROVE FALSE
    BY <2>2, ContainsIs
  <2>4. /\ y = p => L[m].flag = "buffered"
        /\ y # p => L[m].flag = "drain" \/ L[m].nhdr = 0
    BY Zenon, <2>1, <2>3 DEF MsgPart
  <2>5. L[m].nhdr # 0
    BY <1>6
  <2> QED BY <1>7, <2>4, <2>5
<1>9. Named(handle[p], m)
  <2>1. KeptPart(L, handle[p], send_q[p], msg_q[p])
    BY <1>2, <1>4 DEF Always
  <2>2. SUFFICES ASSUME NEW y \in Proc, Contains(send_q[p][y], m) PROVE FALSE
    BY <1>2, <1>6, <1>7, <1>8, <2>1 DEF KeptPart
  <2>3. send_q[p][y] \in Seq(Ids)
    BY <1>1 DEF Types
  <2>4. PICK j \in 1 .. Len(send_q[p][y]) : send_q[p][y][j] = m
    BY <2>2, <2>3, ContainsIs
  <2>5. y # p
    <3>1. send_q[p][p] = << >>
      BY <1>2 DEF Always, OwnPart
    <3> QED BY <2>4, <3>1
  <2>6. SendPart(L, handle[p], send_q[p][y], sent[p][y], y)
    BY <1>1, <1>4, <2>5 DEF IInv, Out, Peers
  <2>7. L[m].flag \in {"send", "buffered"}
    BY Zenon, <2>4, <2>6 DEF SendPart
  <2> QED BY <1>7, <2>7
<1>10. PICK q2 \in Proc : \E i \in 1 .. Len(msg_q[p][q2]) : \E x \in Ids :
         L[m].peer \in {q2, Wild} /\ Takes(p, m, q2, i, x) /\ Matches(L[x], L[m])
  BY Zenon, <1>0, <1>1, <1>2, <1>4, <1>6, <1>7, <1>8, FoundTaken
<1>11. PICK i \in 1 .. Len(msg_q[p][q2]) : \E x \in Ids : L[m].peer \in {q2, Wild} /\ Takes(p, m, q2, i, x)
  BY <1>10
<1>12. PICK x \in Ids : L[m].peer \in {q2, Wild} /\ Takes(p, m, q2, i, x)
  BY <1>11
<1>13. q2 = q
  <2>1. q # Wild
    BY <1>2 DEF Proc, Wild
  <2> QED BY <1>6, <1>12, <2>1
<1>14. Takes(p, m, q, i, x) /\ i \in 1 .. Len(msg_q[p][q])
  BY <1>12, <1>13
<1>15. TakenTo(p, m, q, i, x)
  BY Zenon, <1>1, <1>2, <1>14, TakenRows
<1>16. /\ L[x] \in EntryType /\ L[x].peer = q /\ L[x].nhdr = 0 /\ ~Named(handle[p], x)
       /\ ~Complete(L[x]) => \E k \in 1 .. Len(rq) :
                  rq[k] = x /\ \A j \in 1 .. k - 1 : Complete(L[rq[j]])
  <2>1. TakenAway(p, q, x)
    BY Zenon, <1>1, <1>2, <1>14, TakenFrom
  <2>2. /\ L[x] \in EntryType /\ L[x].peer = q /\ L[x].nhdr = 0 /\ ~Named(handle[p], x)
        /\ ~Complete(L[x]) => \E k \in 1 .. Len(recv_q[p][q]) :
                  recv_q[p][q][k] = x /\ \A j \in 1 .. k - 1 : Complete(L[recv_q[p][q][j]])
    BY Zenon, <1>2, <1>4, <2>1 DEF TakenAway
  <2> QED BY ZenonT(60), <1>2, <1>4, <2>2
<1>17. Complete(L[x]) /\ x # m
  <2>1. x # m
    BY Zenon, <1>14 DEF Takes
  <2>2. SUFFICES ASSUME ~Complete(L[x]) PROVE FALSE
    BY <2>1
  <2>3. PICK k \in 1 .. Len(rq) : rq[k] = x /\ \A j \in 1 .. k - 1 : Complete(L[rq[j]])
    BY <1>16, <2>2
  <2>4. k # 1
    BY <1>5, <2>1, <2>3
  <2>5. 1 \in 1 .. k - 1
    BY <1>5, <2>3, <2>4
  <2> QED BY <1>5, <1>6, <2>3, <2>5
<1>18. /\ msg_list' \in [Proc -> [Ids -> EntryType]]
       /\ msg_q' \in [Proc -> [Proc -> Seq(Ids)]]
       /\ recv_q' \in [Proc -> [Proc \cup {Wild} -> Seq(Ids)]]
       /\ \A y \in Proc : y # p => msg_list'[y] = msg_list[y] /\ msg_q'[y] = msg_q[y] /\ recv_q'[y] = recv_q[y]
       /\ \A n \in Ids : n # m /\ n # x => L2[n] = L[n]
       /\ L2[m] = [L[x] EXCEPT !.flag = "recv"] /\ L2[x] = [L[x] EXCEPT !.used = FALSE]
       /\ \A y \in Proc : y # q => msg_q'[p][y] = msg_q[p][y]
       /\ \A y \in Proc \cup {Wild} : recv_q'[p][y] = recv_q[p][y]
  BY Zenon, <1>2, <1>4, <1>15, <1>17 DEF TakenTo
<1>19. /\ L2[m].flag = "recv" /\ L2[m].peer = q /\ L2[m].nhdr = 0 /\ L2[m].left = L[x].left /\ Complete(L2[m])
       /\ SameBut(L[x], [L[x] EXCEPT !.used = FALSE])
  <2>1. L2[m].flag = "recv" /\ L2[m].peer = q /\ L2[m].nhdr = 0 /\ L2[m].left = L[x].left
    BY Zenon, <1>16, <1>18 DEF EntryType
  <2>2. L[x].left = 0 /\ nleft(L[x]) = 0
    BY <1>16, <1>17, EntryFacts DEF Complete
  <2> QED BY <1>16, <2>1, <2>2 DEF Complete, nleft, SameBut, EntryType
<1>20. /\ work' \in [Proc -> Seq(TaskType)]
       /\ \A y \in Proc : y # p => work'[y] = work[y]
       /\ work'[p] # << >> /\ Head(work'[p]).call = "recv"
       /\ Head(work'[p]).node = q /\ Head(work'[p]).msg = m
       /\ \A call, y : HasTask(work'[p], call, y) <=> HasTask(work[p], call, y)
       /\ TaskPart(work'[p], send_q[p], recv_q[p], p)
  <2>1. m \in 0 .. MaxMsgs
    BY <1>2 DEF TcpMsgAssumption, Ids
  <2>2. TaskPart(work[p], send_q[p], recv_q[p], p)
    BY <1>2 DEF Always
  <2> QED BY Zenon, <1>0, <1>1, <2>1, <2>2, MsgNoted
<1>21. Types'
  BY ZenonT(30), <1>1, <1>3, <1>18, <1>20 DEF Types
<1>22. \A y \in Peers(p) : SameRows(y)
  BY <1>3, <1>18, <1>20 DEF SameRows, Peers
<1>23. TaskPart(work[p], send_q[p], recv_q[p], p)'
  <2>1. \A j \in 1 .. Len(work'[p]) : work'[p][j].node \in Proc
    <3>1. PICK K \in Seq(TaskType) : K = work'[p]
      BY <1>20
    <3>2. \A j \in 1 .. Len(K) : K[j] \in TaskType
      BY <3>1
    <3>3. \A t \in TaskType : t.node \in Proc
      BY DEF TaskType
    <3> QED BY <3>1, <3>2, <3>3
  <2> QED BY <1>3, <1>18, <1>20, <2>1 DEF TaskPart
<1>24. PcPart(msg_list[p], todo[p], handle[p], pc[p])'
  <2>1. SUFFICES ASSUME pc[p] # "run" PROVE PcPart(L2, todo[p], handle[p], pc[p])
    BY Zenon, <1>3, <1>4 DEF PcPart
  <2>2. PICK n : n = handle[p][Head(todo[p]).i]
    OBVIOUS
  <2>3. n # 0 /\ Head(todo[p]).i \in 1 .. Len(handle[p])
    <3>1. HandlePart(todo[p], handle[p], waited[p], pc[p])
      BY <1>2 DEF Always
    <3>2. todo[p] # << >> /\ Head(todo[p]).op = "wait" /\ n # 0
      BY <2>1, <2>2, <3>1 DEF HandlePart
    <3> QED BY <3>2, CallFacts
  <2>4. n \in Ids /\ n # x
    <3>0. handle \in [Proc -> Seq(0 .. MaxMsgs)]
      BY <1>1 DEF Types
    <3>1. n \in 0 .. MaxMsgs
      BY SMTT(30), <2>2, <2>3, <3>0
    <3>2. Named(handle[p], n)
      BY <2>2, <2>3 DEF Named
    <3> QED BY <1>16, <2>3, <3>1, <3>2, IdOrNone
  <2>5. PcPart(L, todo[p], handle[p], pc[p])
    BY <1>2, <1>4 DEF OnTrack
  <2>6. CASE n = m
    <3>1. pc[p] # "push" /\ pc[p] # "end"
      BY <1>6, <1>7, <2>2, <2>5, <2>6 DEF PcPart
    <3> QED BY Zenon, <3>1 DEF PcPart
  <2>7. CASE n # m
    BY Zenon, <1>18, <2>2, <2>4, <2>5, <2>7 DEF PcPart
  <2> QED BY <2>6, <2>7
<1>25. ~Contains(recv_q[p][Wild], m)
  <2>1. WildPart(L, recv_q[p][Wild])
    BY <1>2, <1>4 DEF OnTrack
  <2>2. recv_q[p][Wild] \in Seq(Ids)
    BY SMTT(30), <1>1 DEF Types
  <2>3. SUFFICES ASSUME NEW j \in 1 .. Len(recv_q[p][Wild]), recv_q[p][Wild][j] = m PROVE FALSE
    BY <2>2, ContainsIs
  <2>4. L[m].peer = Wild
    BY <2>1, <2>3 DEF WildPart
  <2>5. q # Wild
    BY <1>2 DEF Proc, Wild
  <2> QED BY <1>6, <2>4, <2>5
<1>26. Always(p)' /\ History(p)' /\ (~derailed'[p] => OnTrack(p)') /\ SendParts(p)
  <2>1. ~Outgoing(msg_list[p][m])
    BY <1>4, <1>7 DEF Outgoing
  <2>2. HandlePart(todo[p], handle[p], waited[p], pc[p])' /\ WaitedPart(waited[p], sent, p)'
    BY <1>2, <1>3 DEF Always, History
  <2>3. UNCHANGED <<send_q, sent, ractive, wactive, wire, avail>> /\ handle'[p] = handle[p]
    BY <1>3
  <2> QED BY Zenon, <1>1, <1>2, <1>8, <1>9, <1>14, <1>23, <1>24, <1>25, <2>1, <2>2, <2>3, Taken
<1>27. \A y \in Peers(p) : SignalPart(work[p], ractive[p], wactive[p], recv_q[p][Wild], Len(wire[p][y]) < SockCap,
                    avail[y][p], sigio[p], y)'
  <2> TAKE y \in Peers(p)
  <2>1. SignalPart(work[p], ractive[p], wactive[p], recv_q[p][Wild], Len(wire[p][y]) < SockCap,
                    avail[y][p], sigio[p], y)
    BY <1>1 DEF IInv, In
  <2>2. recv_q'[p][Wild] = recv_q[p][Wild]
    BY <1>18
  <2> QED BY <1>3, <1>20, <2>1, <2>2 DEF SignalPart
<1>28. ASSUME NEW y \in Peers(p), y # q PROVE In(p, y)'
  <2>1. In(p, y) /\ y \in Proc /\ MsgPart(msg_list[p], handle[p], msg_q[p][y], recv_q[p][y], p, y)
    BY <1>1, <1>2 DEF IInv, Peers, OnTrack
  <2>2. ~AtRecv(work[p], y) /\ ~AtRecv(work'[p], y)
    BY <1>2, <1>20, <1>28, <2>1 DEF AtRecv
  <2>3. \A j \in 1 .. Len(recv_q[p][y]) : recv_q[p][y][j] # m
    BY Zenon, <1>4, <1>6, <1>28, <2>1 DEF In, RecvPart
  <2>4. \A j \in 1 .. Len(msg_q[p][y]) : msg_q[p][y][j] # m
    <3>1. msg_q[p][y] \in Seq(Ids)
      BY <1>1, <2>1 DEF Types
    <3> QED BY <1>8, <2>1, <3>1, ContainsIs
  <2>5. UNCHANGED <<send_q, sent, ractive, wire, avail>> /\ msg_list[p][x].peer = q
    BY <1>3, <1>4, <1>16
  <2>6. SignalPart(work[p], ractive[p], wactive[p], recv_q[p][Wild], Len(wire[p][y]) < SockCap,
                    avail[y][p], sigio[p], y)'
    BY <1>27
  <2>7. Types /\ m \in Ids /\ q \in Proc /\ i \in 1 .. Len(msg_q[p][q]) /\ y # q
    BY <1>1, <1>2, <1>14, <1>28
  <2> QED BY <1>15, <2>1, <2>2, <2>3, <2>4, <2>5, <2>6, <2>7, TakenElsewhere
<1>29. In(p, q)'
  <2>1. /\ RecvPart(L, rq, q) /\ HeaderPart(L, mq, rq)
        /\ DrainPart(L, rq, work[p], q, wire[q][p], avail[q][p], sent[q][p])
        /\ StreamPart(L, rq, NextIn(msg_list[q], send_q[q][p], sent[q][p], wire[q][p]))
    BY <1>2, <1>4 DEF In
  <2>2. \A j \in 1 .. Len(rq) : rq[j] \in Ids /\ (j # 1 => rq[j] # m /\ SameBut(L[rq[j]], L2[rq[j]]))
    <3> TAKE j \in 1 .. Len(rq)
    <3>1. rq[j] \in Ids
      BY <1>5
    <3>2. j # 1 => rq[j] # m
      <4>1. 1 \in 1 .. Len(rq)
        BY <1>5
      <4> QED BY <1>5, <2>1, <4>1 DEF RecvPart, Once
    <3>3. rq[j] # m => SameBut(L[rq[j]], L2[rq[j]])
      BY <1>18, <1>19, <3>1, SameIsSame
    <3> QED BY <3>1, <3>2, <3>3
  <2>3. \A j \in 1 .. Len(rq) : ~Begun(L[rq[j]])
    <3> SUFFICES ASSUME NEW j \in 1 .. Len(rq), Begun(L[rq[j]]) PROVE FALSE
      OBVIOUS
    <3>1. CASE j = 1
      <4>1. NoMatch(L, mq, L[m])
        BY <1>5, <1>6, <2>1, <3>1 DEF HeaderPart
      <4>2. InMsgQ(p, L[m]) = {} <=> NoMatch(msg_list[p], msg_q[p][L[m].peer], L[m])
        BY Zenon, <1>1, <1>2, <1>6, NoneInMsgQ
      <4> QED BY Zenon, <1>0, <1>4, <1>6, <4>1, <4>2
    <3>2. CASE j # 1
      <4>1. 1 \in 1 .. j - 1
        BY <1>5, <3>2
      <4>2. Complete(L[rq[1]])
        BY <2>1, <4>1 DEF RecvPart
      <4> QED BY <1>5, <1>6, <4>2
    <3> QED BY <3>1, <3>2
  <2>4. \A j \in 1 .. Len(rq) : ~Begun(L2[rq[j]])
    <3> TAKE j \in 1 .. Len(rq)
    <3>1. CASE j = 1
      <4>1. nleft(L2[m]) = 0
        BY <1>19 DEF Complete
      <4> QED BY <1>5, <3>1, <4>1 DEF Begun
    <3>2. CASE j # 1
      BY <2>2, <2>3, <3>2 DEF Begun, SameBut, nleft
    <3> QED BY <3>1, <3>2
  <2>5. RecvPart(L2, rq, q)
    <3>1. ASSUME NEW j \in 1 .. Len(rq)
          PROVE  L2[rq[j]].flag \in {"recv", "drain"} /\ L2[rq[j]].peer = q /\ (~Complete(L2[rq[j]]) => L2[rq[j]].used)
      <4>1. CASE j = 1
        BY <1>5, <1>19, <4>1
      <4>2. CASE j # 1
        <5>1. /\ L[rq[j]].flag \in {"recv", "drain"} /\ L[rq[j]].peer = q
              /\ (~Complete(L[rq[j]]) => L[rq[j]].used)
          BY <2>1 DEF RecvPart
        <5>2. nleft(L[rq[j]]) > 0 <=> ~Complete(L[rq[j]])
          BY Zenon, <1>5, <2>2, EntryFacts
        <5> QED BY <2>2, <4>2, <5>1, <5>2 DEF SameBut, Complete, nleft
      <4> QED BY <4>1, <4>2
    <3> QED BY <2>1, <2>4, <3>1 DEF RecvPart
  <2>6. HeaderPart(L2, msg_q'[p][q], rq)
    BY <2>4 DEF HeaderPart
  <2>7. DrainPart(L2, rq, work'[p], q, wire[q][p], avail[q][p], sent[q][p])
    <3> SUFFICES ASSUME NEW j \in 1 .. Len(rq), L2[rq[j]].flag = "drain", L2[rq[j]].nhdr > 0 PROVE FALSE
      BY Zenon DEF DrainPart
    <3>1. j # 1
      BY <1>5, <1>19
    <3>2. L[rq[j]].flag = "drain" /\ L[rq[j]].nhdr > 0
      BY <2>2, <3>1 DEF SameBut
    <3>3. Len(rq) = 1
      BY Zenon, <2>1, <3>2 DEF DrainPart
    <3> QED BY <3>1, <3>3
  <2>8. PlacePart(L2, msg_q'[p][q], rq, work'[p], q)
    <3>1. 1 \in 1 .. Len(rq) /\ \A j \in 1 .. 1 - 1 : FALSE
      BY <1>5
    <3>2. rq[1] = Head(work'[p]).msg /\ ~(L2[rq[1]].nhdr > 0)
      BY <1>5, <1>19, <1>20
    <3> QED BY <3>1, <3>2 DEF PlacePart
  <2>9. AwakePart(rq, work'[p], ractive[p], q)
    BY <1>20 DEF AwakePart, AtRecv
  <2>10. StreamPart(L2, rq, NextIn(msg_list[q], send_q[q][p], sent[q][p], wire[q][p]))
    BY <2>1, <2>3, <2>4 DEF StreamPart
  <2>11. recv_q'[p][q] = rq /\ msg_list'[q] = msg_list[q]
    BY <1>2, <1>4, <1>18
  <2> QED BY Zenon, <1>2, <1>3, <1>4, <1>27, <2>5, <2>6, <2>7, <2>8, <2>9, <2>10, <2>11 DEF In
<1>30. Quiet(p)
  <2>1. \A y \in Proc : Grown(sent[p][y], sent'[p][y])
    BY <1>1, <1>3, GrownSame
  <2> QED BY <1>3, <1>22, <2>1 DEF Quiet
<1> QED BY <1>21, <1>26, <1>28, <1>29, <1>30, OwnStep DEF OwnParts

\* do_recv() starts with the first message of the queue.
LEMMA RecvStartStep ==
  ASSUME TcpMsgAssumption, IInv, NEW p \in Proc, RecvStart(p)
  PROVE  IInv'
<1>1. PICK q, m : q = Head(work[p]).node /\ m = Head(recv_q[p][q])
  OBVIOUS
<1>2. CASE msg_list[p][m].nhdr > 0 /\ msg_list[p][m].flag # "drain" /\ InMsgQ(p, msg_list[p][m]) # {}
  <2>1. StartsTaking(p, q, m)
    BY Zenon, <1>1, <1>2 DEF StartsTaking
  <2> QED BY <2>1, StartTakes
<1>3. CASE ~(msg_list[p][m].nhdr > 0 /\ msg_list[p][m].flag # "drain" /\ InMsgQ(p, msg_list[p][m]) # {})
  <2>1. UNCHANGED <<msg_list, msg_q, recv_q>>
    BY Zenon, <1>1, <1>3 DEF RecvStart
  <2>2. StartsWith(p, q, m)
    BY Zenon, <1>1, <1>3, <2>1 DEF StartsWith
  <2> QED BY <2>2, StartQuiet
<1> QED BY <1>2, <1>3

\* A call of do_send() or do_recv(), or a look at a socket, is done.
LEMMA TaskDone ==
  ASSUME Types, NEW p \in Proc, work[p] # << >>, Done(p), TaskPart(work[p], send_q[p], recv_q[p], p)
  PROVE  /\ work' \in [Proc -> Seq(TaskType)]
         /\ \A x \in Proc : x # p => work'[x] = work[x]
         /\ TaskPart(work'[p], send_q[p], recv_q[p], p)
         /\ \A call, y : HasTask(work'[p], call, y)
                           <=> HasTask(work[p], call, y) /\ ~(call = Head(work[p]).call /\ y = Head(work[p]).node)
         /\ work'[p] # << >> => Head(work'[p]).msg = 0
<1>1. PICK K \in Seq(TaskType) : K = work[p]
  BY DEF Types
<1>2. PICK K2 : K2 = Tail(K)
  OBVIOUS
<1>3. K # << >> /\ Len(K) \in Nat \ {0} /\ Head(K) = K[1]
  BY <1>1
<1>4. /\ K2 \in Seq(TaskType) /\ Len(K2) \in Nat /\ Len(K2) = Len(K) - 1
      /\ \A i \in 1 .. Len(K2) : K2[i] = K[i + 1]
  BY <1>1, <1>2, <1>3
<1>5. work' \in [Proc -> Seq(TaskType)] /\ work'[p] = K2 /\ \A x \in Proc : x # p => work'[x] = work[x]
  <2>1. work \in [Proc -> Seq(TaskType)]
    BY DEF Types
  <2>2. work' = [work EXCEPT ![p] = K2]
    BY <1>1, <1>2 DEF Done
  <2> QED BY <1>4, <2>1, <2>2
<1>6. \A i \in 1 .. Len(K2) : i + 1 \in 1 .. Len(K) /\ i + 1 > 1
  BY <1>3, <1>4
<1>7. TaskPart(K, send_q[p], recv_q[p], p)
  BY <1>1
<1>8. TaskPart(K2, send_q[p], recv_q[p], p)
  <2>1. ASSUME NEW i \in 1 .. Len(K2)
        PROVE /\ K2[i].node # p
              /\ K2[i].call = "send" => send_q[p][K2[i].node] # << >>
              /\ K2[i].call = "recv" => recv_q[p][K2[i].node] # << >>
              /\ K2[i].msg = 0
              /\ K2[i].call = "peek" => \A j \in 1 .. Len(K2) : i < j => K2[j].call = "peek"
    <3>1. i + 1 \in 1 .. Len(K) /\ i + 1 > 1 /\ K2[i] = K[i + 1]
      BY <1>4, <1>6
    <3>2. /\ K2[i].node # p
          /\ K2[i].call = "send" => send_q[p][K2[i].node] # << >>
          /\ K2[i].call = "recv" => recv_q[p][K2[i].node] # << >>
          /\ K2[i].msg = 0
      BY <1>7, <3>1 DEF TaskPart
    <3>3. ASSUME K2[i].call = "peek", NEW j \in 1 .. Len(K2), i < j PROVE K2[j].call = "peek"
      <4>1. j + 1 \in 1 .. Len(K) /\ i + 1 < j + 1 /\ K2[j] = K[j + 1]
        BY <1>4, <1>6, <3>1, <3>3
      <4> QED BY <1>7, <3>1, <3>3, <4>1 DEF TaskPart
    <3> QED BY <3>2, <3>3
  <2>2. ASSUME NEW i \in 1 .. Len(K2), NEW j \in 1 .. Len(K2),
               K2[i].call = K2[j].call, K2[i].node = K2[j].node
        PROVE  i = j
    <3>1. i + 1 \in 1 .. Len(K) /\ j + 1 \in 1 .. Len(K) /\ K2[i] = K[i + 1] /\ K2[j] = K[j + 1]
      BY Zenon, <1>4, <1>6
    <3>2. i + 1 = j + 1
      BY <1>7, <2>2, <3>1 DEF TaskPart
    <3> QED BY <3>2
  <2> QED BY <2>1, <2>2 DEF TaskPart
<1>9. ASSUME NEW call, NEW y
      PROVE  HasTask(K2, call, y) <=> HasTask(K, call, y) /\ ~(call = Head(K).call /\ y = Head(K).node)
  <2>1. ASSUME HasTask(K2, call, y) PROVE HasTask(K, call, y) /\ ~(call = Head(K).call /\ y = Head(K).node)
    <3>1. PICK i \in 1 .. Len(K2) : K2[i].call = call /\ K2[i].node = y
      BY <2>1 DEF HasTask
    <3>2. i + 1 \in 1 .. Len(K) /\ K[i + 1].call = call /\ K[i + 1].node = y /\ i + 1 # 1 /\ 1 \in 1 .. Len(K)
      BY <1>3, <1>4, <1>6, <3>1
    <3>3. ~(call = Head(K).call /\ y = Head(K).node)
      BY Zenon, <1>3, <1>7, <3>2 DEF TaskPart
    <3> QED BY <3>2, <3>3 DEF HasTask
  <2>2. ASSUME HasTask(K, call, y), ~(call = Head(K).call /\ y = Head(K).node) PROVE HasTask(K2, call, y)
    <3>1. PICK i \in 1 .. Len(K) : K[i].call = call /\ K[i].node = y
      BY <2>2 DEF HasTask
    <3>2. i # 1
      BY <1>3, <2>2, <3>1
    <3>3. i - 1 \in 1 .. Len(K2) /\ (i - 1) + 1 = i
      BY <1>3, <1>4, <3>2
    <3>4. K2[i - 1] = K[i]
      BY <1>4, <3>3
    <3> QED BY <3>1, <3>3, <3>4 DEF HasTask
  <2> QED BY <2>1, <2>2
<1>10. K2 # << >> => Head(K2).msg = 0
  <2>1. SUFFICES ASSUME K2 # << >> PROVE Head(K2).msg = 0
    OBVIOUS
  <2>2. 1 \in 1 .. Len(K2) /\ Head(K2) = K2[1]
    BY <1>4, <2>1
  <2>3. K2[1] = K[1 + 1] /\ 1 + 1 \in 1 .. Len(K) /\ 1 + 1 > 1
    BY <1>4, <1>6, <2>2
  <2> QED BY <1>7, <2>2, <2>3 DEF TaskPart
<1> QED BY <1>1, <1>5, <1>8, <1>9, <1>10

\* A step of p that does not touch what it sends.
LEMMA SendsSame ==
  ASSUME IInv, NEW p \in Proc, UNCHANGED <<msg_list, handle, send_q, sent, wire, avail>>
  PROVE  SendParts(p)
<1>1. \A n \in Ids : Outgoing(msg_list[p][n]) => StillOutgoing(msg_list[p][n], msg_list'[p][n])
  BY DEF Outgoing, StillOutgoing
<1> QED BY <1>1, OutQuiet

\* A queue whose entries do not change.
LEMMA AllSame ==
  ASSUME NEW p, NEW y, UNCHANGED <<msg_list, msg_q>>
  PROVE  /\ \A i \in 1 .. Len(recv_q[p][y]) : SameBut(msg_list[p][recv_q[p][y][i]], msg_list'[p][recv_q[p][y][i]])
         /\ \A i \in 1 .. Len(msg_q'[p][y]) :
               /\ SameBut(msg_list[p][msg_q'[p][y][i]], msg_list'[p][msg_q'[p][y][i]])
               /\ \E j \in 1 .. Len(msg_q[p][y]) : msg_q'[p][y][i] = msg_q[p][y][j]
BY SameIsSame
\* A step of p that does not touch the queue for y, nor a call of do_recv() for it.
LEMMA InIdle ==
  ASSUME TcpMsgAssumption, Types, NEW p \in Proc, NEW y \in Peers(p), In(p, y),
         UNCHANGED <<msg_list, msg_q, send_q, sent, wire, avail>>, recv_q'[p][y] = recv_q[p][y],
         work'[p] = work[p] \/ (~AtRecv(work[p], y) /\ ~(AtRecv(work'[p], y) /\ Head(work'[p]).msg # 0)),
         ractive'[p][y] = ractive[p][y],
         SignalPart(work[p], ractive[p], wactive[p], recv_q[p][Wild], Len(wire[p][y]) < SockCap,
                    avail[y][p], sigio[p], y)'
  PROVE  In(p, y)'
<1>1. /\ \A i \in 1 .. Len(recv_q[p][y]) : SameBut(msg_list[p][recv_q[p][y][i]], msg_list'[p][recv_q[p][y][i]])
      /\ \A i \in 1 .. Len(msg_q'[p][y]) :
            /\ SameBut(msg_list[p][msg_q'[p][y][i]], msg_list'[p][msg_q'[p][y][i]])
            /\ \E j \in 1 .. Len(msg_q[p][y]) : msg_q'[p][y][i] = msg_q[p][y][j]
  BY Zenon, AllSame
<1> QED BY Zenon, <1>1, InSame

\* What a run of the handler has to do is well formed.
LEMMA HandlerTasks ==
  ASSUME TcpMsgAssumption, Types, NEW p \in Proc, Always(p), NEW wild \in BOOLEAN
  PROVE  /\ HandlerWork(p, wild) \in Seq(TaskType)
         /\ TaskPart(HandlerWork(p, wild), send_q[p], recv_q[p], p)
         /\ HandlerWork(p, wild) # << >> => Head(HandlerWork(p, wild)).msg = 0
         /\ \A y \in Proc : /\ wactive[p][y] => HasTask(HandlerWork(p, wild), "send", y)
                            /\ ractive[p][y] => HasTask(HandlerWork(p, wild), "recv", y)
                            /\ wild /\ y # p => HasTask(HandlerWork(p, wild), "peek", y)
<1> DEFINE K == HandlerWork(p, wild)
<1>2. /\ K \in Seq(TaskType) /\ Len(K) \in Nat
      /\ \A i \in 1 .. Len(K) :
           /\ K[i].msg = 0 /\ K[i].node \in Proc
           /\ \/ K[i].call = "send" /\ wactive[p][K[i].node]
              \/ K[i].call = "recv" /\ ractive[p][K[i].node]
              \/ K[i].call = "peek" /\ wild /\ K[i].node # p
           /\ K[i].call = "peek" => \A j \in 1 .. Len(K) : i < j => K[j].call = "peek"
      /\ \A i, j \in 1 .. Len(K) : K[i].call = K[j].call /\ K[i].node = K[j].node => i = j
      /\ \A q \in Proc :
           /\ wactive[p][q] => \E i \in 1 .. Len(K) : K[i].call = "send" /\ K[i].node = q
           /\ ractive[p][q] => \E i \in 1 .. Len(K) : K[i].call = "recv" /\ K[i].node = q
           /\ wild /\ q # p => \E i \in 1 .. Len(K) : K[i].call = "peek" /\ K[i].node = q
  BY HandlerWorkFacts
<1> HIDE DEF K
<1>3. /\ ~ractive[p][p] /\ ~wactive[p][p]
      /\ \A q \in Proc : (wactive[p][q] => send_q[p][q] # << >>) /\ (ractive[p][q] => recv_q[p][q] # << >>)
  BY DEF Always, OwnPart, ActivePart
<1>4. TaskPart(K, send_q[p], recv_q[p], p)
  <2>1. ASSUME NEW i \in 1 .. Len(K)
        PROVE /\ K[i].node # p /\ K[i].msg = 0
              /\ K[i].call = "send" => send_q[p][K[i].node] # << >>
              /\ K[i].call = "recv" => recv_q[p][K[i].node] # << >>
    <3>1. CASE K[i].call = "send"
      BY <1>2, <1>3, <3>1
    <3>2. CASE K[i].call = "recv"
      BY <1>2, <1>3, <3>2
    <3>3. CASE K[i].call = "peek"
      BY <1>2, <3>3
    <3> QED BY <1>2, <3>1, <3>2, <3>3
  <2> QED BY <1>2, <2>1 DEF TaskPart
<1>5. K # << >> => Head(K).msg = 0
  <2>1. K # << >> => Head(K) = K[1] /\ 1 \in 1 .. Len(K)
    BY <1>2
  <2> QED BY <1>2, <2>1
<1>6. \A y \in Proc : /\ wactive[p][y] => HasTask(K, "send", y)
                      /\ ractive[p][y] => HasTask(K, "recv", y)
                      /\ wild /\ y # p => HasTask(K, "peek", y)
  BY <1>2 DEF HasTask
<1> QED BY <1>2, <1>4, <1>5, <1>6 DEF K

\* sigio_handler() is called.
LEMMA HandlerStep ==
  ASSUME TcpMsgAssumption, IInv, NEW p \in Proc, Handler(p)
  PROVE  IInv'
<1>1. PICK wild \in BOOLEAN : wild = (recv_q[p][Wild] # << >>)
  BY Zenon
<1>2. /\ Types /\ Always(p) /\ History(p) /\ OnTrack(p) /\ ~derailed[p] /\ work[p] = << >>
      /\ \A y \in Peers(p) : In(p, y) /\ y \in Proc /\ y # p
      /\ work' = [work EXCEPT ![p] = HandlerWork(p, wild)] /\ sigio' = [sigio EXCEPT ![p] = FALSE]
      /\ UNCHANGED <<userVars, queueVars, wire, avail, derailed>>
  BY <1>1 DEF IInv, Handler, Running, Peers
<1>3. /\ sent' = sent /\ send_q' = send_q /\ recv_q' = recv_q /\ msg_q' = msg_q /\ ractive' = ractive
      /\ wactive' = wactive /\ wire' = wire /\ avail' = avail
      /\ derailed' = derailed /\ msg_list' = msg_list /\ handle' = handle /\ todo' = todo /\ pc' = pc
      /\ waited' = waited /\ mid' = mid
  BY <1>2 DEF userVars, queueVars
<1>4. PICK K : K = HandlerWork(p, wild)
  OBVIOUS
<1>5. /\ K \in Seq(TaskType) /\ TaskPart(K, send_q[p], recv_q[p], p) /\ (K # << >> => Head(K).msg = 0)
      /\ \A y \in Proc : /\ wactive[p][y] => HasTask(K, "send", y)
                         /\ ractive[p][y] => HasTask(K, "recv", y)
                         /\ wild /\ y # p => HasTask(K, "peek", y)
  BY <1>2, <1>4, HandlerTasks
<1>6. /\ work' \in [Proc -> Seq(TaskType)] /\ work'[p] = K /\ \A x \in Proc : x # p => work'[x] = work[x]
      /\ sigio' \in [Proc -> BOOLEAN] /\ \A x \in Proc : x # p => sigio'[x] = sigio[x]
  <2>1. work \in [Proc -> Seq(TaskType)] /\ sigio \in [Proc -> BOOLEAN]
    BY Zenon, <1>2 DEF Types
  <2> QED BY <1>2, <1>4, <1>5, <2>1
<1>7. Types'
  BY Zenon, <1>2, <1>3, <1>6 DEF Types
<1>8. Always(p)' /\ History(p)' /\ OnTrack(p)'
  BY <1>2, <1>3, <1>5, <1>6 DEF Always, History, OnTrack
<1>9. ASSUME NEW y \in Peers(p) PROVE In(p, y)'
  <2>1. SignalPart(work[p], ractive[p], wactive[p], recv_q[p][Wild], Len(wire[p][y]) < SockCap,
                    avail[y][p], sigio[p], y)'
    BY Zenon, <1>1, <1>2, <1>3, <1>5, <1>6 DEF SignalPart
  <2>2. ~AtRecv(work[p], y) /\ ~(AtRecv(work'[p], y) /\ Head(work'[p]).msg # 0)
    BY <1>2, <1>5, <1>6 DEF AtRecv
  <2>3. Types /\ In(p, y)
    BY <1>2
  <2> QED BY <1>3, <2>1, <2>2, <2>3, InIdle
<1>10. SendParts(p)
  BY <1>3, SendsSame
<1>11. Quiet(p)
  <2>1. \A y \in Proc : Grown(sent[p][y], sent'[p][y])
    BY <1>2, <1>3, GrownSame
  <2> QED BY <1>3, <1>6, <2>1 DEF Quiet, SameRows, Peers
<1> QED BY <1>7, <1>8, <1>9, <1>10, <1>11, OwnStep DEF OwnParts

\* A header is read where none begins: what p is to read is no longer known.
LEMMA DerailStep ==
  ASSUME TcpMsgAssumption, IInv, NEW p \in Proc, NEW q, NEW m, Derail(p, q, m)
  PROVE  IInv'
<1>1. /\ Types /\ Always(p) /\ History(p) /\ derailed' = [derailed EXCEPT ![p] = TRUE]
      /\ UNCHANGED <<userVars, queueVars, work, netVars>>
  BY DEF IInv, Derail
<1>2. /\ sent' = sent /\ send_q' = send_q /\ recv_q' = recv_q /\ msg_q' = msg_q /\ ractive' = ractive
      /\ wactive' = wactive /\ wire' = wire /\ avail' = avail /\ sigio' = sigio /\ work' = work
      /\ msg_list' = msg_list /\ handle' = handle /\ todo' = todo /\ pc' = pc
      /\ waited' = waited /\ mid' = mid
  BY <1>1 DEF userVars, queueVars, netVars
<1>3. derailed' \in [Proc -> BOOLEAN] /\ derailed'[p] /\ \A x \in Proc : x # p => derailed'[x] = derailed[x]
  <2>1. derailed \in [Proc -> BOOLEAN]
    BY <1>1 DEF Types
  <2> QED BY <1>1, <2>1
<1>4. Types'
  BY Zenon, <1>1, <1>2, <1>3 DEF Types
<1>5. Always(p)' /\ History(p)'
  BY <1>1, <1>2 DEF Always, History
<1>6. SendParts(p)
  BY <1>2, SendsSame
<1>7. Quiet(p)
  <2>1. \A y \in Proc : Grown(sent[p][y], sent'[p][y])
    BY <1>1, <1>2, GrownSame
  <2> QED BY <1>2, <1>3, <2>1 DEF Quiet, SameRows, Peers
<1> QED BY <1>3, <1>4, <1>5, <1>6, <1>7, OwnStep DEF OwnParts

\* read() finds nothing.
LEMMA ReadNothingStep ==
  ASSUME TcpMsgAssumption, IInv, NEW p \in Proc, NEW q, NEW m, ReadNothing(p, q, m)
  PROVE  IInv'
<1>1. /\ Types /\ Working(p, "recv") /\ q = Head(work[p]).node /\ Head(work[p]).call = "recv" /\ Done(p)
      /\ ~derailed[p] /\ work[p] # << >> /\ avail[q][p] = 0
      /\ ractive' = [ractive EXCEPT ![p][q] = TRUE]
      /\ UNCHANGED <<userVars, msg_list, mid, send_q, recv_q, msg_q, wactive, netVars, derailed>>
  BY DEF IInv, ReadNothing, Reading, Working
<1>2. /\ q \in Peers(p) /\ q \in Proc /\ q # p /\ recv_q[p][q] # << >>
      /\ AtRecv(work[p], q) /\ \A y \in Proc : y # q => ~AtRecv(work[p], y)
      /\ In(p, q) /\ Always(p) /\ History(p) /\ OnTrack(p)
  BY Zenon, <1>1, RecvTask
<1>3. /\ sent' = sent /\ send_q' = send_q /\ recv_q' = recv_q /\ msg_q' = msg_q /\ sigio' = sigio
      /\ wactive' = wactive /\ wire' = wire /\ avail' = avail
      /\ derailed' = derailed /\ msg_list' = msg_list /\ handle' = handle /\ todo' = todo /\ pc' = pc
      /\ waited' = waited /\ mid' = mid
  BY <1>1 DEF userVars, netVars
<1>4. /\ work' \in [Proc -> Seq(TaskType)]
      /\ \A x \in Proc : x # p => work'[x] = work[x]
      /\ TaskPart(work'[p], send_q[p], recv_q[p], p)
      /\ \A call, y : HasTask(work'[p], call, y)
                        <=> HasTask(work[p], call, y) /\ ~(call = "recv" /\ y = q)
      /\ work'[p] # << >> => Head(work'[p]).msg = 0
  <2>1. TaskPart(work[p], send_q[p], recv_q[p], p)
    BY <1>2 DEF Always
  <2> QED BY ZenonT(30), <1>1, <2>1, TaskDone
<1>5. /\ ractive' \in [Proc -> [Proc -> BOOLEAN]] /\ ractive'[p][q]
      /\ \A x \in Proc : x # p => ractive'[x] = ractive[x]
      /\ \A y \in Proc : y # q => ractive'[p][y] = ractive[p][y]
  <2>1. ractive \in [Proc -> [Proc -> BOOLEAN]]
    BY <1>1 DEF Types
  <2> QED BY <1>1, <1>2, <2>1
<1>6. Types'
  BY ZenonT(30), <1>1, <1>3, <1>4, <1>5 DEF Types
<1>7. Always(p)' /\ History(p)' /\ OnTrack(p)'
  <2>1. ActivePart(send_q[p], recv_q[p], ractive[p], wactive[p])'
    BY <1>2, <1>3, <1>5 DEF Always, ActivePart
  <2>2. OwnPart(send_q[p], recv_q[p], ractive[p], wactive[p], wire[p], avail[p], p)'
    BY <1>2, <1>3, <1>5 DEF Always, OwnPart
  <2> QED BY <1>2, <1>3, <1>4, <2>1, <2>2 DEF Always, History, OnTrack
<1>8. ASSUME NEW y \in Peers(p) PROVE In(p, y)'
  <2>1. In(p, y) /\ y \in Proc /\ y # p
    BY <1>1 DEF IInv, Peers
  <2>2. SignalPart(work[p], ractive[p], wactive[p], recv_q[p][Wild], Len(wire[p][y]) < SockCap,
                    avail[y][p], sigio[p], y)'
    <3>1. SignalPart(work[p], ractive[p], wactive[p], recv_q[p][Wild], Len(wire[p][y]) < SockCap,
                    avail[y][p], sigio[p], y)
      BY <2>1 DEF In
    <3>2. CASE y = q
      BY <1>1, <1>3, <1>4, <3>1, <3>2 DEF SignalPart
    <3>3. CASE y # q
      BY <1>3, <1>4, <1>5, <2>1, <3>1, <3>3 DEF SignalPart
    <3> QED BY <3>2, <3>3
  <2>3. CASE y # q
    <3>1. ~AtRecv(work[p], y) /\ ~(AtRecv(work'[p], y) /\ Head(work'[p]).msg # 0)
      BY <1>2, <1>4, <2>1, <2>3 DEF AtRecv
    <3>2. /\ \A i \in 1 .. Len(recv_q[p][y]) : SameBut(msg_list[p][recv_q[p][y][i]], msg_list'[p][recv_q[p][y][i]])
          /\ \A i \in 1 .. Len(msg_q'[p][y]) :
               /\ SameBut(msg_list[p][msg_q'[p][y][i]], msg_list'[p][msg_q'[p][y][i]])
               /\ \E j \in 1 .. Len(msg_q[p][y]) : msg_q'[p][y][i] = msg_q[p][y][j]
      BY <1>3, AllSame
    <3>3. ractive'[p][y] = ractive[p][y]
      BY <1>5, <2>1, <2>3
    <3> QED BY Zenon, <1>1, <1>3, <2>1, <2>2, <3>1, <3>2, <3>3, InSame
  <2>4. CASE y = q
    <3>1. PICK L, mq, rq : L = msg_list[p] /\ mq = msg_q[p][q] /\ rq = recv_q[p][q]
      OBVIOUS
    <3>2. ~(AtRecv(work'[p], q) /\ Head(work'[p]).msg # 0)
      BY <1>4 DEF AtRecv
    <3>3. DrainPart(L, rq, work'[p], q, wire[q][p], avail[q][p], sent[q][p])
      <4>1. DrainPart(L, rq, work[p], q, wire[q][p], avail[q][p], sent[q][p])
        BY <1>2, <3>1 DEF In
      <4>2. ~(avail[q][p] >= HdrSize)
        BY <1>1 DEF TcpMsgAssumption
      <4> QED BY Zenon, <4>1, <4>2 DEF DrainPart
    <3>4. PlacePart(L, mq, rq, work'[p], q)
      BY <3>2 DEF PlacePart
    <3>5. AwakePart(rq, work'[p], ractive'[p], q)
      BY <1>5 DEF AwakePart
    <3> QED BY <1>2, <1>3, <2>2, <2>4, <3>1, <3>3, <3>4, <3>5 DEF In
  <2> QED BY <2>3, <2>4
<1>9. SendParts(p)
  BY <1>3, SendsSame
<1>10. Quiet(p)
  <2>1. \A y \in Proc : Grown(sent[p][y], sent'[p][y])
    BY <1>1, <1>3, GrownSame
  <2> QED BY <1>3, <1>4, <1>5, <2>1 DEF Quiet, SameRows, Peers
<1> QED BY <1>6, <1>7, <1>8, <1>9, <1>10, OwnStep DEF OwnParts

\* Entries of a queue after one of them.
LEMMA IdsAfter ==
  ASSUME NEW s \in Seq(Ids), NEW k \in 1 .. Len(s), Once(s)
  PROVE  /\ After(s, s[k]) \in Seq(Ids) /\ Len(After(s, s[k])) = Len(s) - k
         /\ \A j \in 1 .. Len(s) - k : After(s, s[k])[j] = s[k + j]
<1>1. s \in Seq(Ids) /\ k \in 1 .. Len(s) /\ Once(s)
  OBVIOUS
<1>2. TailFrom(s, s[k], k)
  BY Zenon, <1>1, AfterFacts
<1> QED BY Zenon, <1>2 DEF TailFrom

\* What is left of the queue for q when its first k entries are complete and gone:
\* t has the others.
Rest(L, rq, k, t) ==
  /\ rq \in Seq(Ids) /\ k \in 1 .. Len(rq) /\ \A j \in 1 .. k : Complete(L[rq[j]])
  /\ t \in Seq(Ids) /\ Len(t) = Len(rq) - k
  /\ \A j \in 1 .. Len(rq) - k : t[j] = rq[k + j]

\* What holds of the queue holds of the rest.
LEMMA RestKept ==
  ASSUME NEW L, NEW rq, NEW k, NEW t, Rest(L, rq, k, t), NEW q, NEW mq, NEW u,
         RecvPart(L, rq, q), HeaderPart(L, mq, rq), StreamPart(L, rq, u)
  PROVE  RecvPart(L, t, q) /\ HeaderPart(L, mq, t) /\ StreamPart(L, t, u)
<1>1. /\ rq \in Seq(Ids) /\ k \in 1 .. Len(rq) /\ Len(rq) \in Nat /\ Len(t) = Len(rq) - k
      /\ \A j \in 1 .. k : Complete(L[rq[j]])
  BY DEF Rest
<1>2. \A j \in 1 .. Len(t) : t[j] = rq[k + j] /\ k + j \in 1 .. Len(rq)
  BY <1>1 DEF Rest
<1>3. RecvPart(L, t, q)
  <2>1. ASSUME NEW i \in 1 .. Len(t)
        PROVE  LET e == L[t[i]]
               IN  /\ e.flag \in {"recv", "drain"} /\ e.peer = q /\ (~Complete(e) => e.used)
                   /\ Begun(e) => \A j \in 1 .. i - 1 : Complete(L[t[j]])
    <3>1. t[i] = rq[k + i] /\ k + i \in 1 .. Len(rq)
      BY <1>2
    <3>2. LET e == L[rq[k + i]]
          IN  /\ e.flag \in {"recv", "drain"} /\ e.peer = q /\ (~Complete(e) => e.used)
              /\ Begun(e) => \A j \in 1 .. (k + i) - 1 : Complete(L[rq[j]])
      BY <3>1 DEF RecvPart
    <3>3. \A j \in 1 .. i - 1 : j \in 1 .. Len(t) /\ k + j \in 1 .. (k + i) - 1
      BY <1>1
    <3> QED BY Zenon, <1>2, <3>1, <3>2, <3>3
  <2>2. Once(t)
    <3>1. ASSUME NEW i \in 1 .. Len(t), NEW j \in 1 .. Len(t), t[i] = t[j] PROVE i = j
      <4>1. k + i \in 1 .. Len(rq) /\ k + j \in 1 .. Len(rq) /\ rq[k + i] = rq[k + j]
        BY <1>2, <3>1
      <4>2. k + i = k + j
        BY <4>1 DEF RecvPart, Once
      <4> QED BY <1>1, <4>2
    <3> QED BY <3>1 DEF Once
  <2> QED BY <2>1, <2>2 DEF RecvPart
<1>4. HeaderPart(L, mq, t)
  BY <1>2 DEF HeaderPart
<1>5. StreamPart(L, t, u)
  <2>1. ASSUME \A i \in 1 .. Len(t) : ~Begun(L[t[i]]), NEW i \in 1 .. Len(rq) PROVE ~Begun(L[rq[i]])
    <3>1. CASE i <= k
      <4>1. Complete(L[rq[i]])
        BY <1>1, <3>1
      <4> QED BY <4>1 DEF Complete, Begun
    <3>2. CASE ~(i <= k)
      <4>1. i - k \in 1 .. Len(t) /\ k + (i - k) = i
        BY <1>1, <3>2
      <4>2. t[i - k] = rq[i]
        BY <1>2, <4>1
      <4> QED BY <2>1, <4>1, <4>2
    <3> QED BY <3>1, <3>2
  <2>2. (\A i \in 1 .. Len(t) : ~Begun(L[t[i]])) => u[2] = 1
    BY <2>1 DEF StreamPart
  <2> QED BY <1>2, <2>2 DEF StreamPart
<1> QED BY <1>3, <1>4, <1>5

\* A message is complete: do_recv() goes on to the next one, if any.
LEMMA RecvDoneStep ==
  ASSUME TcpMsgAssumption, IInv, NEW p \in Proc, RecvDone(p)
  PROVE  IInv'
<1>1. PICK q, m, t : /\ q = Head(work[p]).node /\ m = Head(work[p]).msg
                     /\ t = After(recv_q[p][q], m)
  OBVIOUS
<1>2. /\ Types /\ Working(p, "recv") /\ Head(work[p]).call = "recv" /\ m # 0
      /\ ~derailed[p] /\ work[p] # << >> /\ nleft(msg_list[p][m]) = 0
      /\ recv_q' = [recv_q EXCEPT ![p][q] = t]
      /\ ractive' = IF t = << >> THEN [ractive EXCEPT ![p][q] = FALSE] ELSE ractive
      /\ IF t = << >> THEN Done(p) ELSE work' = [work EXCEPT ![p][1].msg = 0]
      /\ UNCHANGED <<userVars, msg_list, mid, send_q, msg_q, wactive, netVars, derailed>>
  BY Zenon, <1>1 DEF IInv, RecvDone, Working
<1>3. /\ q \in Peers(p) /\ q \in Proc /\ q # p /\ recv_q[p][q] \in Seq(Ids)
      /\ AtRecv(work[p], q) /\ \A y \in Proc : y # q => ~AtRecv(work[p], y)
      /\ In(p, q) /\ Always(p) /\ History(p) /\ OnTrack(p)
  BY Zenon, <1>1, <1>2, RecvTask
<1>4. /\ sent' = sent /\ send_q' = send_q /\ msg_q' = msg_q /\ sigio' = sigio
      /\ wactive' = wactive /\ wire' = wire /\ avail' = avail
      /\ derailed' = derailed /\ msg_list' = msg_list /\ handle' = handle /\ todo' = todo /\ pc' = pc
      /\ waited' = waited /\ mid' = mid
  BY <1>2 DEF userVars, netVars
<1>5. PICK L, rq, mq : L = msg_list[p] /\ rq = recv_q[p][q] /\ mq = msg_q[p][q]
  OBVIOUS
<1>6. /\ RecvPart(L, rq, q) /\ HeaderPart(L, mq, rq)
      /\ DrainPart(L, rq, work[p], q, wire[q][p], avail[q][p], sent[q][p])
      /\ PlacePart(L, mq, rq, work[p], q)
      /\ StreamPart(L, rq, NextIn(msg_list[q], send_q[q][p], sent[q][p], wire[q][p]))
  BY <1>3, <1>5 DEF In
<1>7. PICK k \in 1 .. Len(rq) : rq[k] = m /\ \A j \in 1 .. k - 1 : Complete(L[rq[k]]) => Complete(L[rq[j]])
  BY Zenon, <1>1, <1>2, <1>3, <1>6 DEF PlacePart
<1>8. Rest(L, rq, k, t)
  <2>1. rq \in Seq(Ids) /\ Once(rq) /\ t = After(rq, rq[k])
    BY Zenon, <1>1, <1>3, <1>5, <1>6, <1>7 DEF RecvPart
  <2>2. Complete(L[rq[k]])
    BY <1>2, <1>5, <1>7 DEF Complete
  <2>3. \A j \in 1 .. k : Complete(L[rq[j]])
    <3> TAKE j \in 1 .. k
    <3>1. Len(rq) \in Nat
      BY <2>1
    <3>2. j = k \/ j \in 1 .. k - 1
      BY <3>1
    <3> QED BY <1>7, <2>2, <3>2
  <2>4. t \in Seq(Ids) /\ Len(t) = Len(rq) - k /\ \A j \in 1 .. Len(rq) - k : t[j] = rq[k + j]
    BY Zenon, <2>1, IdsAfter
  <2> QED BY <2>1, <2>3, <2>4 DEF Rest
<1>9. /\ RecvPart(L, t, q) /\ HeaderPart(L, mq, t)
      /\ StreamPart(L, t, NextIn(msg_list[q], send_q[q][p], sent[q][p], wire[q][p]))
  BY <1>6, <1>8, RestKept
<1>10. /\ recv_q' \in [Proc -> [Proc \cup {Wild} -> Seq(Ids)]] /\ recv_q'[p][q] = t
       /\ \A y \in Proc : y # p => recv_q'[y] = recv_q[y]
       /\ \A y \in Proc \cup {Wild} : y # q => recv_q'[p][y] = recv_q[p][y]
  <2>1. recv_q \in [Proc -> [Proc \cup {Wild} -> Seq(Ids)]]
    BY Zenon, <1>2 DEF Types
  <2>2. t \in Seq(Ids)
    BY <1>8 DEF Rest
  <2> QED BY <1>2, <1>3, <2>1, <2>2
<1>101. recv_q'[p][Wild] = recv_q[p][Wild]
  <2>1. q # Wild /\ Wild \in Proc \cup {Wild}
    BY <1>3 DEF Proc, Wild
  <2> QED BY <1>10, <2>1
<1>11. /\ ractive' \in [Proc -> [Proc -> BOOLEAN]] /\ (ractive'[p][q] => ractive[p][q] /\ t # << >>)
       /\ (t # << >> => ractive' = ractive)
       /\ \A x \in Proc : x # p => ractive'[x] = ractive[x]
       /\ \A y \in Proc : y # q => ractive'[p][y] = ractive[p][y]
  <2>1. ractive \in [Proc -> [Proc -> BOOLEAN]]
    BY <1>2 DEF Types
  <2>2. CASE t = << >>
    <3>1. ractive' = [ractive EXCEPT ![p][q] = FALSE]
      BY <1>2, <2>2
    <3> QED BY <1>3, <2>1, <2>2, <3>1
  <2>3. CASE t # << >>
    <3>1. ractive' = ractive
      BY <1>2, <2>3
    <3> QED BY <2>1, <2>3, <3>1
  <2> QED BY <2>2, <2>3
<1>12. TaskPart(work[p], send_q[p], recv_q[p], p)
  BY <1>3 DEF Always
<1>13. /\ work' \in [Proc -> Seq(TaskType)]
       /\ \A x \in Proc : x # p => work'[x] = work[x]
       /\ TaskPart(work'[p], send_q[p], recv_q[p], p)
       /\ \A y \in Proc : /\ HasTask(work[p], "send", y) => HasTask(work'[p], "send", y)
                          /\ HasTask(work[p], "peek", y) => HasTask(work'[p], "peek", y)
                          /\ y # q => (HasTask(work[p], "recv", y) => HasTask(work'[p], "recv", y))
       /\ t # << >> => HasTask(work'[p], "recv", q) /\ AtRecv(work'[p], q)
       /\ t = << >> => ~HasTask(work'[p], "recv", q) /\ ~AtRecv(work'[p], q)
       /\ work'[p] # << >> => Head(work'[p]).msg = 0
  <2>1. CASE t = << >>
    <3>1. /\ work' \in [Proc -> Seq(TaskType)]
          /\ \A x \in Proc : x # p => work'[x] = work[x]
          /\ TaskPart(work'[p], send_q[p], recv_q[p], p)
          /\ \A call, y : HasTask(work'[p], call, y)
                            <=> HasTask(work[p], call, y) /\ ~(call = Head(work[p]).call /\ y = Head(work[p]).node)
          /\ work'[p] # << >> => Head(work'[p]).msg = 0
      BY Zenon, <1>2, <1>12, <2>1, TaskDone
    <3>2. ~HasTask(work'[p], "recv", q)
      BY Zenon, <1>1, <1>2, <3>1
    <3>3. AtRecv(work'[p], q) => HasTask(work'[p], "recv", q)
      <4>1. PICK K \in Seq(TaskType) : K = work'[p]
        BY <3>1
      <4>2. K # << >> => 1 \in 1 .. Len(K) /\ Head(K) = K[1]
        BY <4>1
      <4> QED BY <4>1, <4>2 DEF AtRecv, HasTask
    <3> QED BY Zenon, <1>1, <1>2, <2>1, <3>1, <3>2, <3>3
  <2>2. CASE t # << >>
    <3>1. 0 \in 0 .. MaxMsgs
      BY DEF TcpMsgAssumption
    <3>2. work' = [work EXCEPT ![p][1].msg = 0]
      BY <1>2, <2>2
    <3>3. /\ work' \in [Proc -> Seq(TaskType)]
          /\ \A x \in Proc : x # p => work'[x] = work[x]
          /\ work'[p] # << >> /\ Head(work'[p]).call = "recv"
          /\ Head(work'[p]).node = Head(work[p]).node /\ Head(work'[p]).msg = 0
          /\ \A call, y : HasTask(work'[p], call, y) <=> HasTask(work[p], call, y)
          /\ TaskPart(work'[p], send_q[p], recv_q[p], p)
      BY Zenon, <1>2, <1>12, <3>1, <3>2, MsgNoted
    <3>4. AtRecv(work'[p], q)
      BY <1>1, <3>3 DEF AtRecv
    <3>5. HasTask(work'[p], "recv", q)
      <4>1. PICK K \in Seq(TaskType) : K = work'[p]
        BY <3>3
      <4>2. K # << >> => 1 \in 1 .. Len(K) /\ Head(K) = K[1]
        BY <4>1
      <4> QED BY <3>4, <4>1, <4>2 DEF AtRecv, HasTask
    <3> QED BY <2>2, <3>3, <3>4, <3>5
  <2> QED BY <2>1, <2>2
<1>14. Types'
  BY <1>2, <1>4, <1>10, <1>11, <1>13 DEF Types
<1>15. TaskPart(work[p], send_q[p], recv_q[p], p)'
  <2>1. PICK K \in Seq(TaskType) : K = work'[p]
    BY <1>13
  <2>2. ASSUME NEW i \in 1 .. Len(K), K[i].call = "recv" PROVE recv_q'[p][K[i].node] # << >>
    <3>1. recv_q[p][K[i].node] # << >>
      BY <1>13, <2>1, <2>2 DEF TaskPart
    <3>2. K[i].node \in Proc
      <4>1. K[i] \in TaskType
        BY <2>1
      <4> QED BY <4>1 DEF TaskType
    <3>3. CASE K[i].node = q
      <4>1. HasTask(K, "recv", q)
        BY <2>2, <3>3 DEF HasTask
      <4> QED BY <1>10, <1>13, <2>1, <3>3, <4>1
    <3>4. CASE K[i].node # q
      BY Zenon, <1>10, <3>1, <3>2, <3>4
    <3> QED BY <3>3, <3>4
  <2> QED BY Zenon, <1>4, <1>13, <2>1, <2>2 DEF TaskPart
<1>16. Always(p)'
  <2>1. ActivePart(send_q[p], recv_q[p], ractive[p], wactive[p])'
    <3>1. ActivePart(send_q[p], recv_q[p], ractive[p], wactive[p])
      BY <1>3 DEF Always
    <3> QED BY Zenon, <1>4, <1>10, <1>11, <3>1 DEF ActivePart
  <2>2. OwnPart(send_q[p], recv_q[p], ractive[p], wactive[p], wire[p], avail[p], p)'
    <3>1. OwnPart(send_q[p], recv_q[p], ractive[p], wactive[p], wire[p], avail[p], p)
      BY <1>3 DEF Always
    <3> QED BY <1>3, <1>4, <1>10, <1>11, <3>1 DEF OwnPart
  <2> QED BY <1>3, <1>4, <1>15, <2>1, <2>2 DEF Always
<1>17. History(p)' /\ OnTrack(p)'
  <2>1. ASSUME NEW y \in Proc PROVE MsgPart(L, handle[p], msg_q[p][y], recv_q'[p][y], p, y)
    <3>1. MsgPart(L, handle[p], msg_q[p][y], recv_q[p][y], p, y)
      BY <1>3, <1>5 DEF OnTrack
    <3>2. CASE y # q
      <4>1. recv_q'[p][y] = recv_q[p][y]
        BY <1>10, <3>2
      <4> QED BY <3>1, <4>1
    <3>3. CASE y = q
      <4>1. mq \in Seq(Ids)
        <5>1. msg_q \in [Proc -> [Proc -> Seq(Ids)]]
          BY <1>2 DEF Types
        <5> QED BY <1>3, <1>5, <5>1
      <4>2. ASSUME NEW i \in 1 .. Len(mq) PROVE Complete(L[mq[i]]) \/ Contains(t, mq[i])
        <5>1. Complete(L[mq[i]]) \/ Contains(rq, mq[i])
          BY Zenon, <1>3, <1>5, <3>1, <3>3 DEF MsgPart
        <5>2. SUFFICES ASSUME ~Complete(L[mq[i]]), Contains(rq, mq[i]) PROVE Contains(t, mq[i])
          BY <5>1
        <5>3. PICK j \in 1 .. Len(rq) : rq[j] = mq[i]
          BY <1>8, <5>2, ContainsIs DEF Rest
        <5>4. ~(j \in 1 .. k)
          BY <1>8, <5>2, <5>3 DEF Rest
        <5>5. Len(rq) \in Nat
          BY <1>8 DEF Rest
        <5>6. j - k \in 1 .. Len(rq) - k /\ k + (j - k) = j
          BY <5>4, <5>5
        <5>7. t[j - k] = mq[i] /\ Len(t) = Len(rq) - k
          BY <1>8, <5>3, <5>6 DEF Rest
        <5> QED BY <1>8, <5>6, <5>7, ContainsIs DEF Rest
      <4>3. MsgPart(L, handle[p], mq, t, p, q)
        BY Zenon, <1>3, <1>5, <3>1, <3>3, <4>2 DEF MsgPart
      <4> QED BY <1>5, <1>10, <3>3, <4>3
    <3> QED BY <3>2, <3>3
  <2>2. WildPart(msg_list[p], recv_q[p][Wild])'
    BY <1>3, <1>4, <1>101 DEF OnTrack
  <2> QED BY <1>3, <1>4, <1>5, <2>1, <2>2 DEF History, OnTrack
<1>18. ASSUME NEW y \in Peers(p)
       PROVE  SignalPart(work[p], ractive[p], wactive[p], recv_q[p][Wild], Len(wire[p][y]) < SockCap,
                    avail[y][p], sigio[p], y)'
  <2>1. y \in Proc /\ SignalPart(work[p], ractive[p], wactive[p], recv_q[p][Wild], Len(wire[p][y]) < SockCap,
                    avail[y][p], sigio[p], y)
    BY <1>2 DEF IInv, In, Peers
  <2>2. wactive[p][y] /\ Len(wire[p][y]) < SockCap => sigio[p] \/ HasTask(work'[p], "send", y)
    BY <1>13, <2>1 DEF SignalPart
  <2>3. ractive'[p][y] /\ avail[y][p] > 0 => sigio[p] \/ HasTask(work'[p], "recv", y)
    BY Zenon, <1>11, <1>13, <2>1 DEF SignalPart
  <2>4. recv_q[p][Wild] # << >> /\ avail[y][p] >= HdrSize => sigio[p] \/ HasTask(work'[p], "peek", y)
    BY <1>13, <2>1 DEF SignalPart
  <2> QED BY <1>4, <1>101, <2>2, <2>3, <2>4 DEF SignalPart
<1>19. ASSUME NEW y \in Peers(p) PROVE In(p, y)'
  <2>1. In(p, y) /\ y \in Proc /\ y # p
    BY <1>2 DEF IInv, Peers
  <2>2. CASE y # q
    <3>1. ~AtRecv(work[p], y) /\ ~(AtRecv(work'[p], y) /\ Head(work'[p]).msg # 0)
      BY <1>3, <1>13, <2>1, <2>2 DEF AtRecv
    <3>2. ractive'[p][y] = ractive[p][y] /\ recv_q'[p][y] = recv_q[p][y]
      BY <1>10, <1>11, <2>1, <2>2
    <3> QED BY Zenon, <1>2, <1>4, <1>18, <2>1, <3>1, <3>2, InIdle
  <2>3. CASE y = q
    <3>1. DrainPart(L, t, work'[p], q, wire[q][p], avail[q][p], sent[q][p])
      <4> SUFFICES ASSUME NEW i \in 1 .. Len(t), L[t[i]].flag = "drain", L[t[i]].nhdr > 0 PROVE FALSE
        BY Zenon DEF DrainPart
      <4>1. Len(rq) \in Nat /\ Len(t) = Len(rq) - k /\ t[i] = rq[k + i]
        BY <1>8 DEF Rest
      <4>2. k + i \in 1 .. Len(rq) /\ Len(rq) # 1
        BY <4>1
      <4> QED BY Zenon, <1>6, <4>1, <4>2 DEF DrainPart
    <3>2. PlacePart(L, mq, t, work'[p], q)
      BY <1>13 DEF PlacePart, AtRecv
    <3>3. AwakePart(t, work'[p], ractive'[p], q)
      BY <1>13 DEF AwakePart
    <3>4. msg_q'[p][q] = mq /\ msg_list'[p] = L /\ recv_q'[p][q] = t
      BY <1>4, <1>5, <1>10
    <3> QED BY <1>4, <1>9, <1>18, <2>3, <3>1, <3>2, <3>3, <3>4 DEF In
  <2> QED BY <2>2, <2>3
<1>20. SendParts(p)
  BY <1>4, SendsSame
<1>21. Quiet(p)
  <2>1. \A y \in Proc : Grown(sent[p][y], sent'[p][y])
    BY <1>2, <1>4, GrownSame
  <2> QED BY <1>4, <1>10, <1>11, <1>13, <2>1 DEF Quiet, SameRows, Peers
<1> QED BY <1>14, <1>16, <1>17, <1>19, <1>20, <1>21, OwnStep DEF OwnParts

\* An entry of which r more units were written.
Written(e, e2, r) ==
  /\ e2.flag = e.flag /\ e2.peer = e.peer /\ e2.tag = e.tag /\ e2.nbytes = e.nbytes /\ e2.num = e.num
  /\ e2.got = e.got /\ e2.used = (r < nleft(e) \/ e.flag # "buffered")
  /\ nleft(e2) = nleft(e) - r /\ e2.left <= e.left /\ (e2.nhdr > 0 => e2.left = e.left)
  /\ e.nhdr = 0 => e2.nhdr = 0

\* What write_msg() leaves of an entry once r units have been taken by the
\* socket: still an entry of the list, with r units fewer to go.
LEMMA IsWritten ==
  ASSUME TcpMsgAssumption, NEW e \in EntryType, e.used, NEW r \in 0 .. nleft(e), NEW e2,
         e2 = [e EXCEPT !.nhdr = @ - Min({@, r}), !.left = @ - (r - Min({e.nhdr, r})),
                        !.used = r < nleft(e) \/ e.flag # "buffered"]
  PROVE  e2 \in EntryType /\ Written(e, e2, r)
<1>1. /\ e.left \in Nat /\ e.nhdr \in 0 .. HdrSize /\ e.nhdr \in Nat /\ nleft(e) \in Nat /\ HdrSize \in Nat
      /\ nleft(e) = e.nhdr + e.left /\ r \in Nat
  BY EntryFacts DEF nleft
<1>2. PICK d : d = Min({e.nhdr, r})
  OBVIOUS
<1>3. d \in {e.nhdr, r} /\ d <= e.nhdr /\ d <= r
  <2>1. {e.nhdr, r} \subseteq Nat /\ {e.nhdr, r} # {}
    BY <1>1
  <2>2. Min({e.nhdr, r}) \in {e.nhdr, r} /\ \A n \in {e.nhdr, r} : Min({e.nhdr, r}) <= n
    BY Zenon, <2>1, MinOf
  <2> QED BY <1>2, <2>2
<1>4. e2 = [e EXCEPT !.nhdr = e.nhdr - d, !.left = e.left - (r - d),
                     !.used = r < nleft(e) \/ e.flag # "buffered"]
  BY <1>2
<1>5. e.nhdr - d \in 0 .. HdrSize /\ e.left - (r - d) \in Nat
  <2>1. \A s, a, l, k, c \in Nat : a \in 0 .. s /\ c \in {a, k} /\ c <= a /\ c <= k /\ k <= a + l
                                  => a - c \in 0 .. s /\ l - (k - c) \in Nat
    OBVIOUS
  <2>2. d \in Nat /\ r <= e.nhdr + e.left
    BY <1>1, <1>3
  <2> QED BY Zenon, <1>1, <1>3, <2>1, <2>2
<1>6. e2 \in EntryType
  BY Zenon, <1>4, <1>5 DEF EntryType
<1>7. /\ e2.flag = e.flag /\ e2.peer = e.peer /\ e2.tag = e.tag /\ e2.nbytes = e.nbytes /\ e2.num = e.num
      /\ e2.got = e.got /\ e2.used = (r < nleft(e) \/ e.flag # "buffered")
      /\ e2.nhdr = e.nhdr - d /\ e2.left = e.left - (r - d)
  BY <1>4 DEF EntryType
<1>8. nleft(e2) = nleft(e) - r
  BY SMTT(30), <1>1, <1>3, <1>7 DEF nleft
<1>9. e2.left <= e.left /\ (e2.nhdr > 0 => e2.left = e.left) /\ (e.nhdr = 0 => e2.nhdr = 0)
  BY SMTT(30), <1>1, <1>3, <1>7
<1> QED BY <1>1, <1>6, <1>7, <1>8, <1>9 DEF Written

\* Units written, and two pieces of a stream.
LEMMA GoneFacts ==
  ASSUME TcpMsgAssumption, NEW e \in EntryType, e.left <= e.nbytes
  PROVE  Gone(e) \in Nat /\ Gone(e) = HdrSize + e.nbytes - nleft(e) /\ nleft(e) <= HdrSize + e.nbytes
<1>1. e.left \in Nat /\ e.nhdr \in 0 .. HdrSize /\ e.nhdr \in Nat /\ HdrSize \in Nat /\ e.nbytes \in Nat
  BY EntryFacts
<1> QED BY <1>1 DEF Gone, nleft

\* The r units of message n that go on the wire after g earlier ones are a
\* sequence of units, in order.
LEMMA UnitsOnWire ==
  ASSUME NEW n \in Nat, NEW g \in Nat, NEW r \in Nat
  PROVE  \A u : u = [i \in 1 .. r |-> <<n, g + i>>]
           => u \in Seq(Nat \X Nat) /\ Len(u) = r /\ \A i \in 1 .. r : u[i] = <<n, g + i>>
<1>1. \A i \in 1 .. r : g + i \in Nat
  OBVIOUS
<1>2. \A i \in 1 .. r : <<n, g + i>> \in Nat \X Nat
  BY <1>1
<1> QED BY <1>2

\* Two pieces of a stream one after the other: the second keeps its order,
\* behind the first.
Follows(w, u, v) ==
  /\ v \in Seq(Nat \X Nat) /\ Len(v) = Len(w) + Len(u)
  /\ \A i \in 1 .. Len(w) : v[i] = w[i]
  /\ \A i \in 1 .. Len(u) : v[Len(w) + i] = u[i]

\* Which is what their concatenation is.
LEMMA StreamJoin ==
  ASSUME NEW w, NEW u, w \in Seq(Nat \X Nat), u \in Seq(Nat \X Nat)
  PROVE  Follows(w, u, w \o u)
<1>1. Len(w) \in Nat /\ Len(u) \in Nat
  OBVIOUS
<1>2. PICK v : v = w \o u
  OBVIOUS
<1>3. /\ v \in Seq(Nat \X Nat) /\ Len(v) = Len(w) + Len(u)
      /\ \A j \in 1 .. Len(w) + Len(u) : v[j] = IF j <= Len(w) THEN w[j] ELSE u[j - Len(w)]
  <2>1. Joined(Nat \X Nat, w, u, v)
    BY Zenon, <1>2, JoinedIs
  <2> QED BY Zenon, <2>1 DEF Joined
<1>4. \A i \in 1 .. Len(w) : v[i] = w[i]
  <2>1. \A a, b \in Nat : \A i \in 1 .. a : i \in 1 .. a + b /\ i <= a
    OBVIOUS
  <2> QED BY Zenon, <1>1, <1>3, <2>1
<1>5. \A i \in 1 .. Len(u) : v[Len(w) + i] = u[i]
  <2>1. \A a, b \in Nat : \A i \in 1 .. b : a + i \in 1 .. a + b /\ ~(a + i <= a) /\ a + i - a = i
    OBVIOUS
  <2> TAKE i \in 1 .. Len(u)
  <2>2. Len(w) + i \in 1 .. Len(w) + Len(u) /\ ~(Len(w) + i <= Len(w)) /\ Len(w) + i - Len(w) = i
    BY Zenon, <1>1, <2>1
  <2>3. PICK j : j = Len(w) + i
    OBVIOUS
  <2>4. j \in 1 .. Len(w) + Len(u) /\ ~(j <= Len(w)) /\ j - Len(w) = i
    BY <2>2, <2>3
  <2>5. v[j] = u[j - Len(w)]
    BY Zenon, <1>3, <2>4
  <2> QED BY Zenon, <2>3, <2>4, <2>5
<1> QED BY Zenon, <1>2, <1>3, <1>4, <1>5 DEF Follows

\* write_msg() puts r units of the first message to q, of those in sq, on the wire.
Writes(L, L2, sq, sq2, w, w2, r) ==
  LET e == L[sq[1]]
  IN  /\ sq # << >> /\ r \in 0 .. nleft(e) /\ Written(e, L2[sq[1]], r)
      /\ \A n \in Ids : n # sq[1] => L2[n] = L[n]
      /\ sq2 = IF r < nleft(e) THEN sq ELSE Tail(sq)
      /\ w2 = w \o [i \in 1 .. r |-> <<e.num, Gone(e) + i>>]

\* A unit of one of the messages sn.
InStream(sn, v) == v[1] \in 1 .. Len(sn) /\ v[2] \in 1 .. HdrSize + sn[v[1]].nbytes

\* It does so for what is queued and on the wire from p to q.
WritesFor(L, L2, H, sq, sq2, sn, w, w2, r, p, q) ==
  /\ L \in [Ids -> EntryType] /\ L2 \in [Ids -> EntryType]
  /\ sq \in Seq(Ids) /\ sn \in Seq(SentMsg) /\ w \in Seq(Nat \X Nat)
  /\ Writes(L, L2, sq, sq2, w, w2, r)
  /\ EntryPart(L, p) /\ SendPart(L, H, sq, sn, q) /\ WirePart(L, sq, sn, w)

\* The queue and the stream are as before, further on.
LEMMA WrittenStream ==
  ASSUME TcpMsgAssumption, NEW L, NEW L2, NEW H, NEW p, NEW q, NEW sq, NEW sq2, NEW sn, NEW w, NEW w2, NEW r,
         WritesFor(L, L2, H, sq, sq2, sn, w, w2, r, p, q)
  PROVE  /\ SendPart(L2, H, sq2, sn, q) /\ WirePart(L2, sq2, sn, w2)
         /\ w2 \in Seq(Nat \X Nat) /\ Len(w2) = Len(w) + r /\ (w # << >> => w2[1] = w[1])
         /\ NextIn(L2, sq2, sn, w2) = NextIn(L, sq, sn, w)
<1>01. L \in [Ids -> EntryType] /\ L2 \in [Ids -> EntryType] /\ EntryPart(L, p)
  BY DEF WritesFor
<1>02. sq \in Seq(Ids) /\ Writes(L, L2, sq, sq2, w, w2, r)
  BY DEF WritesFor
<1>03. SendPart(L, H, sq, sn, q)
  BY DEF WritesFor
<1>04. WirePart(L, sq, sn, w)
  BY DEF WritesFor
<1>05. sn \in Seq(SentMsg)
  BY DEF WritesFor
<1>06. w \in Seq(Nat \X Nat)
  BY DEF WritesFor
<1>1. PICK m : m = sq[1]
  OBVIOUS
<1>2. PICK e : e = L[m]
  OBVIOUS
<1>3. PICK e2 : e2 = L2[m]
  OBVIOUS
<1>4. PICK g : g = Gone(e)
  OBVIOUS
<1>5. /\ sq # << >> /\ r \in 0 .. nleft(e) /\ Written(e, e2, r)
      /\ \A n \in Ids : n # m => L2[n] = L[n]
      /\ sq2 = IF r < nleft(e) THEN sq ELSE Tail(sq)
      /\ w2 = w \o [i \in 1 .. r |-> <<e.num, g + i>>]
  BY <1>02, <1>1, <1>2, <1>3, <1>4 DEF Writes
<1>6. Len(sq) \in Nat \ {0} /\ 1 \in 1 .. Len(sq) /\ Head(sq) = m /\ m \in Ids
      /\ \A i \in 1 .. Len(sq) : sq[i] \in Ids
  BY <1>02, <1>1, <1>5
<1>7. e \in EntryType /\ e2 \in EntryType /\ L[m] = e /\ L2[m] = e2
  BY <1>01, <1>2, <1>3, <1>6
<1>8. Len(sn) \in Nat /\ Len(w) \in Nat
  BY <1>05, <1>06
<1>9. Len(sq) <= Len(sn)
      /\ \A i \in 1 .. Len(sq) :
           /\ L[sq[i]].used /\ L[sq[i]].flag \in {"send", "buffered"} /\ L[sq[i]].peer = q
           /\ L[sq[i]].num = Len(sn) - Len(sq) + i /\ L[sq[i]].nbytes = sn[L[sq[i]].num].nbytes
           /\ nleft(L[sq[i]]) > 0 /\ (i > 1 => L[sq[i]].nhdr = HdrSize)
           /\ L[sq[i]].flag = "send" => Named(H, sq[i])
  BY <1>03 DEF SendPart
<1>10. /\ e.num = Len(sn) - Len(sq) + 1 /\ e.nbytes = sn[e.num].nbytes /\ nleft(e) > 0 /\ e.peer = q
       /\ e.flag \in {"send", "buffered"} /\ (e.flag = "send" => Named(H, m))
  <2>1. /\ L[sq[1]].num = Len(sn) - Len(sq) + 1 /\ L[sq[1]].nbytes = sn[L[sq[1]].num].nbytes
        /\ nleft(L[sq[1]]) > 0 /\ L[sq[1]].peer = q /\ L[sq[1]].flag \in {"send", "buffered"}
        /\ L[sq[1]].flag = "send" => Named(H, sq[1])
    BY Zenon, <1>6, <1>9
  <2> QED BY Zenon, <1>1, <1>7, <2>1
<1>11. e.num \in 1 .. Len(sn) /\ e.num \in Nat /\ e.nbytes \in Nat /\ nleft(e) \in Nat /\ HdrSize \in Nat \ {0}
       /\ r \in Nat /\ nleft(e2) \in Nat
  <2>1. e.num \in 1 .. Len(sn)
    BY <1>6, <1>8, <1>9, <1>10
  <2> QED BY <1>5, <1>7, <2>1, EntryFacts
<1>12. /\ g = HdrSize + e.nbytes - nleft(e) /\ g \in Nat /\ Gone(e2) = g + r
       /\ e2.num = e.num /\ nleft(e2) = nleft(e) - r
  <2>1. e.left <= e.nbytes /\ e.nhdr <= HdrSize /\ nleft(e) = e.nhdr + e.left /\ e.left \in Nat /\ e.nhdr \in Nat
    <3>1. e.left <= e.nbytes
      BY <1>01, <1>6, <1>7 DEF EntryPart
    <3>2. e.nhdr \in 0 .. HdrSize /\ e.left \in Nat /\ e.nhdr \in Nat
      BY <1>7, EntryFacts
    <3> QED BY <1>11, <3>1, <3>2 DEF nleft
  <2>2. g = HdrSize + e.nbytes - nleft(e) /\ g \in Nat
    BY <1>4, <1>7, <2>1, GoneFacts
  <2>3. Gone(e2) = HdrSize + e.nbytes - nleft(e2) /\ e2.num = e.num /\ nleft(e2) = nleft(e) - r
    BY <1>5 DEF Gone, Written
  <2> QED BY SMTT(30), <1>11, <2>2, <2>3
<1>13. PICK u : u = [i \in 1 .. r |-> <<e.num, g + i>>]
  BY Zenon
<1>14. /\ u \in Seq(Nat \X Nat) /\ Len(u) = r /\ \A i \in 1 .. r : u[i] = <<e.num, g + i>>
  <2>1. \A v : v = [i \in 1 .. r |-> <<e.num, g + i>>]
           => v \in Seq(Nat \X Nat) /\ Len(v) = r /\ \A i \in 1 .. r : v[i] = <<e.num, g + i>>
    <3>1. e.num \in Nat /\ g \in Nat /\ r \in Nat
      BY <1>11, <1>12
    <3> QED BY <3>1, UnitsOnWire
  <2> QED BY <1>13, <2>1
<1>15. /\ w2 = w \o u /\ w2 \in Seq(Nat \X Nat) /\ Len(w2) = Len(w) + r
       /\ \A i \in 1 .. Len(w) : w2[i] = w[i]
       /\ \A i \in 1 .. r : w2[Len(w) + i] = <<e.num, g + i>>
  <2>1. w2 = w \o u
    BY <1>5, <1>13
  <2>2. /\ w2 \in Seq(Nat \X Nat) /\ Len(w2) = Len(w) + r
        /\ \A i \in 1 .. Len(w) : w2[i] = w[i]
        /\ \A i \in 1 .. r : w2[Len(w) + i] = u[i]
    <3>1. Follows(w, u, w2)
      BY Zenon, <1>06, <1>14, <2>1, StreamJoin
    <3> QED BY Zenon, <1>14, <3>1 DEF Follows
  <2> QED BY Zenon, <1>14, <2>1, <2>2
<1>151. /\ Len(w2) \in Nat /\ Len(w2) = Len(w) + r
        /\ \A i \in 1 .. Len(w) : w2[i] = w[i]
  BY <1>8, <1>11, <1>15
<1>152. \A i \in 1 .. r : w2[Len(w) + i] = <<e.num, g + i>>
  BY Zenon, <1>15
<1>16. NextOut(L, sq, sn) = <<e.num, g + 1>>
  BY <1>4, <1>5, <1>6, <1>7 DEF NextOut
<1>17. \A i \in 1 .. Len(sq) : i > 1 => L2[sq[i]] = L[sq[i]]
  <2> SUFFICES ASSUME NEW i \in 1 .. Len(sq), i > 1 PROVE L2[sq[i]] = L[sq[i]]
    OBVIOUS
  <2>1. L[sq[i]].num = Len(sn) - Len(sq) + i
    BY <1>9
  <2>2. sq[i] # m
    BY <1>6, <1>7, <1>8, <1>10, <2>1
  <2> QED BY <1>5, <1>6, <2>2
<1>18. \A n \in Ids : L[n].nhdr = HdrSize => Gone(L[n]) = 0
  <2> SUFFICES ASSUME NEW n \in Ids, L[n].nhdr = HdrSize PROVE Gone(L[n]) = 0
    OBVIOUS
  <2>1. L[n] \in EntryType /\ L[n].left = L[n].nbytes
    BY <1>01, <1>11 DEF EntryPart
  <2>2. L[n].left \in Nat
    BY <2>1, EntryFacts
  <2> QED BY <1>11, <2>1, <2>2 DEF Gone, nleft
<1>19. /\ SendPart(L2, H, sq2, sn, q)
       /\ NextOut(L2, sq2, sn) = IF r < nleft(e) THEN <<e.num, g + r + 1>> ELSE <<e.num + 1, 1>>
  <2>1. CASE r < nleft(e)
    <3>1. sq2 = sq /\ e2.used /\ e2.flag = e.flag /\ e2.peer = e.peer /\ e2.nbytes = e.nbytes
      BY Zenon, <1>5, <2>1 DEF Written
    <3>2. NextOut(L2, sq2, sn) = <<e.num, g + r + 1>>
      BY Zenon, <1>5, <1>6, <1>7, <1>12, <3>1 DEF NextOut
    <3>3. ASSUME NEW i \in 1 .. Len(sq)
          PROVE  /\ L2[sq[i]].used /\ L2[sq[i]].flag \in {"send", "buffered"} /\ L2[sq[i]].peer = q
                 /\ L2[sq[i]].num = Len(sn) - Len(sq) + i /\ L2[sq[i]].nbytes = sn[L2[sq[i]].num].nbytes
                 /\ nleft(L2[sq[i]]) > 0 /\ (i > 1 => L2[sq[i]].nhdr = HdrSize)
                 /\ L2[sq[i]].flag = "send" => Named(H, sq[i])
      <4>1. CASE i = 1
        <5>1. nleft(e2) > 0
          BY <1>11, <1>12, <2>1
        <5>2. sq[i] = m
          BY <1>1, <4>1
        <5> QED BY <1>7, <1>10, <1>12, <3>1, <4>1, <5>1, <5>2
      <4>2. CASE i # 1
        <5>1. i > 1
          BY <4>2
        <5>2. L2[sq[i]] = L[sq[i]]
          BY Zenon, <1>17, <5>1
        <5>3. /\ L[sq[i]].used /\ L[sq[i]].flag \in {"send", "buffered"} /\ L[sq[i]].peer = q
              /\ L[sq[i]].num = Len(sn) - Len(sq) + i /\ L[sq[i]].nbytes = sn[L[sq[i]].num].nbytes
              /\ nleft(L[sq[i]]) > 0 /\ (i > 1 => L[sq[i]].nhdr = HdrSize)
              /\ L[sq[i]].flag = "send" => Named(H, sq[i])
          BY Zenon, <1>9
        <5> QED BY Zenon, <5>2, <5>3
      <4> QED BY <4>1, <4>2
    <3>4. SendPart(L2, H, sq2, sn, q)
      BY <1>9, <3>1, <3>3 DEF SendPart
    <3> QED BY <2>1, <3>2, <3>4
  <2>2. CASE ~(r < nleft(e))
    <3>1. /\ sq2 = Tail(sq) /\ sq2 \in Seq(Ids) /\ Len(sq2) = Len(sq) - 1
          /\ \A i \in 1 .. Len(sq2) : sq2[i] = sq[i + 1] /\ i + 1 \in 1 .. Len(sq) /\ i + 1 > 1
      BY <1>02, <1>5, <1>6, <2>2
    <3>2. ASSUME NEW i \in 1 .. Len(sq2)
          PROVE  /\ L2[sq2[i]].used /\ L2[sq2[i]].flag \in {"send", "buffered"} /\ L2[sq2[i]].peer = q
                 /\ L2[sq2[i]].num = Len(sn) - Len(sq2) + i /\ L2[sq2[i]].nbytes = sn[L2[sq2[i]].num].nbytes
                 /\ nleft(L2[sq2[i]]) > 0 /\ L2[sq2[i]].nhdr = HdrSize
                 /\ L2[sq2[i]].flag = "send" => Named(H, sq2[i])
      <4>1. sq2[i] = sq[i + 1] /\ i + 1 \in 1 .. Len(sq) /\ i + 1 > 1
        BY <3>1
      <4>2. L2[sq2[i]] = L[sq[i + 1]]
        BY <1>17, <4>1
      <4>3. Len(sn) - Len(sq2) + i = Len(sn) - Len(sq) + (i + 1)
        BY <1>6, <1>8, <3>1
      <4>4. PICK j \in 1 .. Len(sq) : j = i + 1 /\ j > 1
        BY Zenon, <4>1
      <4>5. /\ L[sq[j]].used /\ L[sq[j]].flag \in {"send", "buffered"} /\ L[sq[j]].peer = q
            /\ L[sq[j]].num = Len(sn) - Len(sq) + j /\ L[sq[j]].nbytes = sn[L[sq[j]].num].nbytes
            /\ nleft(L[sq[j]]) > 0 /\ L[sq[j]].nhdr = HdrSize
            /\ L[sq[j]].flag = "send" => Named(H, sq[j])
        BY Zenon, <1>9, <4>4
      <4> QED BY Zenon, <4>1, <4>2, <4>3, <4>4, <4>5
    <3>3. Len(sq2) <= Len(sn)
      BY <1>6, <1>8, <1>9, <3>1
    <3>4. SendPart(L2, H, sq2, sn, q)
      BY Zenon, <3>2, <3>3 DEF SendPart
    <3>5. NextOut(L2, sq2, sn) = <<e.num + 1, 1>>
      <4>1. CASE sq2 = << >>
        <5>0. Len(sq2) = 0
          BY Zenon, <3>1, <4>1
        <5>1. Len(sq) = 1
          BY <1>6, <3>1, <5>0
        <5>2. e.num + 1 = Len(sn) + 1
          BY <1>8, <1>10, <5>1
        <5> QED BY <4>1, <5>2 DEF NextOut
      <4>2. CASE sq2 # << >>
        <5>1. 1 \in 1 .. Len(sq2) /\ Head(sq2) = sq2[1] /\ sq2[1] = sq[2] /\ 2 \in 1 .. Len(sq)
          BY <1>6, <3>1, <4>2
        <5>2. L2[sq2[1]] = L[sq[2]] /\ sq[2] \in Ids
          BY <1>6, <1>17, <5>1
        <5>3. L2[Head(sq2)].num = e.num + 1
          <6>1. L[sq[2]].num = Len(sn) - Len(sq) + 2
            BY <1>9, <5>1
          <6> QED BY <1>6, <1>8, <1>10, <5>1, <5>2, <6>1
        <5>4. Gone(L2[Head(sq2)]) = 0
          BY <1>18, <3>2, <5>1, <5>2
        <5> QED BY <4>2, <5>3, <5>4 DEF NextOut
      <4> QED BY <4>1, <4>2
    <3> QED BY <2>2, <3>4, <3>5
  <2> QED BY <2>1, <2>2
<1>20. /\ \A i \in 1 .. Len(w) : InStream(sn, w[i]) /\ (i < Len(w) => w[i + 1] = Following(sn, w[i]))
       /\ w # << >> => Following(sn, w[Len(w)]) = <<e.num, g + 1>>
  BY <1>04, <1>16 DEF WirePart, InStream
<1>21. \A i \in 1 .. r : /\ g + i \in 1 .. HdrSize + e.nbytes
                         /\ i < r => g + i < HdrSize + e.nbytes
                         /\ (r < nleft(e) => g + i < HdrSize + e.nbytes)
                         /\ (~(r < nleft(e)) /\ i = r => ~(g + i < HdrSize + e.nbytes))
  <2>1. r <= nleft(e)
    BY <1>5, <1>11
  <2>4. \A a, b \in Nat : a + b \in Nat
    OBVIOUS
  <2>5. HdrSize \in Nat /\ e.nbytes \in Nat /\ r \in Nat /\ nleft(e) \in Nat /\ g \in Nat
    BY <1>11, <1>12
  <2>2. r \in Nat /\ nleft(e) \in Nat /\ g \in Nat /\ HdrSize + e.nbytes \in Nat
    BY Zenon, <2>4, <2>5
  <2>3. g + nleft(e) = HdrSize + e.nbytes
    <3>1. PICK a \in Nat, b \in Nat, c \in Nat : a = HdrSize /\ b = e.nbytes /\ c = nleft(e)
      BY Zenon, <2>5
    <3>2. g = a + b - c
      BY Zenon, <1>12, <3>1
    <3>3. g + c = a + b
      BY <3>2
    <3> QED BY Zenon, <3>1, <3>3
  <2> QED BY <2>1, <2>2, <2>3
<1>22. \A i \in 1 .. r : Following(sn, <<e.num, g + i>>)
                          = IF g + i < HdrSize + e.nbytes THEN <<e.num, g + i + 1>> ELSE <<e.num + 1, 1>>
  BY <1>10 DEF Following
<1>23. ASSUME NEW i \in 1 .. Len(w2)
       PROVE  /\ InStream(sn, w2[i])
              /\ i < Len(w2) => w2[i + 1] = Following(sn, w2[i])
  <2>1. CASE i < Len(w)
    <3>1. i \in 1 .. Len(w) /\ i + 1 \in 1 .. Len(w)
      BY <1>8, <2>1
    <3>2. w2[i] = w[i] /\ w2[i + 1] = w[i + 1]
      BY <1>151, <3>1
    <3>3. InStream(sn, w[i])
      BY <1>20, <3>1
    <3>4. w[i + 1] = Following(sn, w[i])
      BY <1>20, <2>1, <3>1
    <3> QED BY <3>2, <3>3, <3>4
  <2>2. CASE i = Len(w)
    <3>1. i \in 1 .. Len(w) /\ w # << >> /\ w2[i] = w[i]
      BY <1>06, <1>8, <1>15, <2>2
    <3>2. i < Len(w2) => w2[i + 1] = <<e.num, g + 1>>
      <4>1. SUFFICES ASSUME i < Len(w2) PROVE w2[i + 1] = <<e.num, g + 1>>
        OBVIOUS
      <4>2. 1 \in 1 .. r
        BY <1>8, <1>11, <1>15, <2>2, <4>1
      <4> QED BY Zenon, <1>15, <2>2, <4>2
    <3>3. w2[i] = w[Len(w)] /\ Len(w) \in 1 .. Len(w)
      BY <2>2, <3>1
    <3>4. Following(sn, w2[i]) = <<e.num, g + 1>>
      BY <1>20, <3>1, <3>3
    <3>5. InStream(sn, w2[i])
      <4>1. InStream(sn, w[Len(w)])
        BY <1>20, <3>3
      <4> QED BY <3>3, <4>1
    <3> QED BY <3>2, <3>4, <3>5
  <2>3. CASE i > Len(w)
    <3>1. PICK d : d = i - Len(w)
      OBVIOUS
    <3>2. d \in 1 .. r /\ i = Len(w) + d
      BY <1>8, <1>11, <1>15, <2>3, <3>1
    <3>3. w2[i] = <<e.num, g + d>>
      BY Zenon, <1>15, <3>2
    <3>4. i < Len(w2) => w2[i + 1] = Following(sn, w2[i])
      <4>1. SUFFICES ASSUME i < Len(w2) PROVE w2[i + 1] = Following(sn, w2[i])
        OBVIOUS
      <4>2. d < r /\ d + 1 \in 1 .. r /\ i + 1 = Len(w) + (d + 1) /\ g + (d + 1) = g + d + 1
        <5>1. Len(w) \in Nat /\ r \in Nat /\ g \in Nat /\ Len(w2) = Len(w) + r
          BY <1>8, <1>11, <1>12, <1>151
        <5> QED BY <3>2, <4>1, <5>1
      <4>3. w2[i + 1] = <<e.num, g + d + 1>>
        BY <1>152, <4>2
      <4> QED BY Zenon, <1>21, <1>22, <3>2, <3>3, <4>2, <4>3
    <3>5. w2[i][1] = e.num /\ w2[i][2] = g + d
      BY <3>3
    <3> QED BY Zenon, <1>10, <1>11, <1>21, <3>2, <3>4, <3>5 DEF InStream
  <2> QED BY <1>8, <2>1, <2>2, <2>3
<1>24. w2 # << >> => NextOut(L2, sq2, sn) = Following(sn, w2[Len(w2)])
  <2>1. SUFFICES ASSUME w2 # << >> PROVE NextOut(L2, sq2, sn) = Following(sn, w2[Len(w2)])
    OBVIOUS
  <2>2. CASE r = 0
    <3>1. Len(w2) = Len(w) /\ r < nleft(e) /\ g + r + 1 = g + 1
      <4>1. Len(w) \in Nat /\ nleft(e) \in Nat /\ nleft(e) > 0 /\ g \in Nat /\ Len(w2) = Len(w) + r
        BY Zenon, <1>8, <1>10, <1>11, <1>12, <1>151
      <4> QED BY <2>2, <4>1
    <3>2. Len(w2) # 0
      BY <1>15, <2>1
    <3>3. w # << >> /\ Len(w) \in 1 .. Len(w)
      BY <1>06, <1>8, <3>1, <3>2
    <3> QED BY Zenon, <1>15, <1>19, <1>20, <3>1, <3>3
  <2>3. CASE r # 0
    <3>1. r \in 1 .. r
      BY <1>11, <2>3
    <3>2. w2[Len(w2)] = <<e.num, g + r>>
      BY Zenon, <1>15, <3>1
    <3> QED BY Zenon, <1>19, <1>21, <1>22, <3>1, <3>2
  <2> QED BY <2>2, <2>3
<1>25. WirePart(L2, sq2, sn, w2)
  BY <1>23, <1>24 DEF WirePart, InStream
<1>26. w # << >> => w2[1] = w[1]
  <2>1. w # << >> => 1 \in 1 .. Len(w)
    BY <1>06, <1>8
  <2> QED BY <1>15, <2>1
<1>27. NextIn(L2, sq2, sn, w2) = NextIn(L, sq, sn, w)
  <2>1. CASE w # << >>
    <3>1. w2 # << >> /\ Head(w2) = w2[1] /\ Head(w) = w[1]
      BY <1>06, <1>8, <1>11, <1>15, <2>1
    <3> QED BY <1>26, <2>1, <3>1 DEF NextIn
  <2>2. CASE w = << >> /\ r = 0
    <3>1. w2 = << >> /\ r < nleft(e) /\ g + r + 1 = g + 1
      BY <1>06, <1>8, <1>10, <1>12, <1>15, <2>2
    <3> QED BY <1>16, <1>19, <2>2, <3>1 DEF NextIn
  <2>3. CASE w = << >> /\ r # 0
    <3>1. 1 \in 1 .. r /\ Len(w) = 0 /\ Len(w) + 1 = 1
      BY <1>11, <2>3
    <3>2. w2[1] = <<e.num, g + 1>> /\ Len(w2) = r
      BY <1>11, <1>15, <3>1
    <3>3. w2 # << >> /\ Head(w2) = w2[1]
      BY <1>15, <3>1, <3>2
    <3> QED BY <1>16, <2>3, <3>2, <3>3 DEF NextIn
  <2> QED BY <2>1, <2>2, <2>3
<1> QED BY <1>15, <1>19, <1>25, <1>26, <1>27

\* The queue for a process that write_msg() did not write to.
LEMMA OutElsewhere ==
  ASSUME NEW L, NEW L2, NEW H, NEW sq \in Seq(Ids), NEW sn, NEW q,
         SendPart(L, H, sq, sn, q), \A i \in 1 .. Len(sq) : L2[sq[i]] = L[sq[i]]
  PROVE  /\ SendPart(L2, H, sq, sn, q) /\ NextOut(L2, sq, sn) = NextOut(L, sq, sn)
         /\ \A w : WirePart(L, sq, sn, w) => WirePart(L2, sq, sn, w)
<1>1. SendPart(L2, H, sq, sn, q)
  BY DEF SendPart
<1>2. NextOut(L2, sq, sn) = NextOut(L, sq, sn)
  <2>1. CASE sq = << >>
    BY <2>1 DEF NextOut
  <2>2. CASE sq # << >>
    <3>1. 1 \in 1 .. Len(sq) /\ Head(sq) = sq[1]
      BY <2>2
    <3> QED BY <2>2, <3>1 DEF NextOut
  <2> QED BY <2>1, <2>2
<1> QED BY <1>1, <1>2 DEF WirePart

\* The queue that the first task of p serves.
LEMMA SendTask ==
  ASSUME TcpMsgAssumption, IInv, NEW p \in Proc, Working(p, "send")
  PROVE  LET q == Head(work[p]).node
         IN  /\ q \in Peers(p) /\ q \in Proc /\ q # p /\ send_q[p][q] \in Seq(Ids) /\ send_q[p][q] # << >>
             /\ Head(send_q[p][q]) = send_q[p][q][1] /\ send_q[p][q][1] \in Ids
             /\ HasTask(work[p], "send", q) /\ \A y \in Proc : ~AtRecv(work[p], y)
             /\ Out(p, q) /\ Always(p) /\ History(p) /\ OnTrack(p)
<1>1. Types /\ Always(p) /\ ~derailed[p] /\ work[p] # << >> /\ Head(work[p]).call = "send"
  BY DEF IInv, Working
<1>2. PICK K \in Seq(TaskType) : K = work[p]
  BY <1>1 DEF Types
<1>3. Head(K) = K[1] /\ K[1] \in TaskType /\ 1 \in 1 .. Len(K)
  BY <1>1, <1>2
<1>4. PICK q : q = Head(K).node
  OBVIOUS
<1>5. q \in Proc
  BY <1>3, <1>4 DEF TaskType
<1>6. TaskPart(K, send_q[p], recv_q[p], p)
  BY <1>1, <1>2 DEF Always
<1>7. q # p /\ send_q[p][q] # << >>
  BY <1>1, <1>2, <1>3, <1>4, <1>6 DEF TaskPart
<1>8. PICK sq \in Seq(Ids) : sq = send_q[p][q]
  <2>1. send_q \in [Proc -> [Proc -> Seq(Ids)]]
    BY <1>1 DEF Types
  <2> QED BY <1>5, <2>1
<1>9. Head(sq) = sq[1] /\ sq[1] \in Ids
  BY <1>7, <1>8
<1>10. Out(p, q) /\ Always(p) /\ History(p) /\ OnTrack(p)
  BY <1>1, <1>5, <1>7 DEF IInv, Peers
<1>11. HasTask(K, "send", q) /\ \A y \in Proc : ~AtRecv(K, y)
  BY <1>1, <1>2, <1>3, <1>4 DEF AtRecv, HasTask
<1> QED BY <1>2, <1>4, <1>5, <1>7, <1>8, <1>9, <1>10, <1>11 DEF Peers

\* What write_msg() changes, for the r units of the entry m that go to q: rows of p.
WriteRows(p, q, m, e, r) ==
  LET full == r < nleft(e)
  IN  /\ e = msg_list[p][m] /\ q = Head(work[p]).node /\ m = send_q[p][q][1] /\ r \in 0 .. nleft(e)
      /\ r <= SockCap - Len(wire[p][q]) /\ (full => r = SockCap - Len(wire[p][q]))
      /\ e.used /\ nleft(e) > 0 /\ e.flag \in {"send", "buffered"} /\ e.peer = q
      /\ wire' = [wire EXCEPT ![p][q] = wire[p][q] \o [i \in 1 .. r |-> <<e.num, Gone(e) + i>>]]
      /\ msg_list' \in [Proc -> [Ids -> EntryType]] /\ Written(e, msg_list'[p][m], r)
      /\ \A x \in Proc : x # p => msg_list'[x] = msg_list[x]
      /\ \A n \in Ids : n # m => msg_list'[p][n] = msg_list[p][n]
      /\ send_q' \in [Proc -> [Proc -> Seq(Ids)]]
      /\ send_q'[p][q] = IF full THEN send_q[p][q] ELSE Tail(send_q[p][q])
      /\ \A x \in Proc : x # p => send_q'[x] = send_q[x]
      /\ \A y \in Proc : y # q => send_q'[p][y] = send_q[p][y]
      /\ IF r > 0 /\ (full \/ Tail(send_q[p][q]) # << >>) THEN UNCHANGED <<wactive, work>>
         ELSE Done(p) /\ wactive' = [wactive EXCEPT ![p][q] = full]
      /\ UNCHANGED <<userVars, mid, recv_q, msg_q, ractive, avail, sigio, derailed>>

\* do_send() calls write_msg().
LEMMA WriteFacts ==
  ASSUME TcpMsgAssumption, IInv, NEW p \in Proc, Write(p)
  PROVE  \E q \in Peers(p) : \E m \in Ids : \E e \in EntryType : \E r : WriteRows(p, q, m, e, r)
<1>1. PICK q, m, e, r, w : /\ q = Head(work[p]).node /\ m = Head(send_q[p][q]) /\ e = msg_list[p][m]
                           /\ w = wire[p][q] /\ r = Min({nleft(e), SockCap - Len(w)})
  BY Zenon
<1>2. PICK e2 : e2 = [e EXCEPT !.nhdr = @ - Min({@, r}), !.left = @ - (r - Min({e.nhdr, r})),
                               !.used = r < nleft(e) \/ e.flag # "buffered"]
  OBVIOUS
<1>3. /\ Types /\ Working(p, "send")
      /\ wire' = [wire EXCEPT ![p][q] = @ \o [i \in 1 .. r |-> <<e.num, (HdrSize + e.nbytes - nleft(e)) + i>>]]
      /\ msg_list' = [msg_list EXCEPT ![p][m] = e2]
      /\ send_q' = IF r < nleft(e) THEN send_q ELSE [send_q EXCEPT ![p][q] = Tail(@)]
      /\ IF r > 0 /\ (r < nleft(e) \/ Tail(send_q[p][q]) # << >>) THEN UNCHANGED <<wactive, work>>
         ELSE Done(p) /\ wactive' = [wactive EXCEPT ![p][q] = r < nleft(e)]
      /\ UNCHANGED <<userVars, mid, recv_q, msg_q, ractive, avail, sigio, derailed>>
  BY Zenon, <1>1, <1>2 DEF IInv, Write
<1>4. /\ q \in Peers(p) /\ q \in Proc /\ q # p /\ send_q[p][q] \in Seq(Ids) /\ send_q[p][q] # << >>
      /\ m = send_q[p][q][1] /\ m \in Ids /\ Out(p, q)
  BY Zenon, <1>1, <1>3, SendTask
<1>5. /\ msg_list \in [Proc -> [Ids -> EntryType]] /\ e \in EntryType
      /\ send_q \in [Proc -> [Proc -> Seq(Ids)]]
  <2>1. msg_list \in [Proc -> [Ids -> EntryType]] /\ send_q \in [Proc -> [Proc -> Seq(Ids)]]
    BY Zenon, <1>3 DEF Types
  <2> QED BY Zenon, <1>1, <1>4, <2>1
<1>6. e.used /\ nleft(e) > 0 /\ e.flag \in {"send", "buffered"} /\ e.peer = q
  <2>1. 1 \in 1 .. Len(send_q[p][q])
    BY <1>4
  <2>2. SendPart(msg_list[p], handle[p], send_q[p][q], sent[p][q], q)
    BY <1>4 DEF Out
  <2>3. LET f == msg_list[p][send_q[p][q][1]]
        IN  f.used /\ nleft(f) > 0 /\ f.flag \in {"send", "buffered"} /\ f.peer = q
    BY Zenon, <2>1, <2>2 DEF SendPart
  <2> QED BY Zenon, <1>1, <1>4, <2>3
<1>7. /\ r \in 0 .. nleft(e) /\ r <= SockCap - Len(w) /\ (r < nleft(e) => r = SockCap - Len(w))
  <2>1. nleft(e) \in Nat
    BY <1>5, EntryFacts
  <2>2. SockCap - Len(w) \in Nat
    <3>1. wire \in [Proc -> [Proc -> Seq(Nat \X Nat)]]
      BY Zenon, <1>3 DEF Types
    <3>2. Len(w) \in Nat
      <4>1. w \in Seq(Nat \X Nat)
        BY Zenon, <1>1, <1>4, <3>1
      <4> QED BY <4>1
    <3>3. Len(w) <= SockCap /\ SockCap \in Nat
      BY Zenon, <1>1, <1>4 DEF Out, TcpMsgAssumption
    <3> QED BY <3>2, <3>3
  <2>3. {nleft(e), SockCap - Len(w)} \subseteq Nat /\ {nleft(e), SockCap - Len(w)} # {}
    BY <2>1, <2>2
  <2>4. r \in {nleft(e), SockCap - Len(w)} /\ \A n \in {nleft(e), SockCap - Len(w)} : r <= n
    BY Zenon, <1>1, <2>3, MinOf
  <2> QED BY <2>1, <2>2, <2>4
<1>8. e2 \in EntryType /\ Written(e, e2, r)
  <2>1. \A n \in 0 .. nleft(e) : \A f : f = [e EXCEPT !.nhdr = @ - Min({@, n}), !.left = @ - (n - Min({e.nhdr, n})),
                               !.used = n < nleft(e) \/ e.flag # "buffered"] => f \in EntryType /\ Written(e, f, n)
    BY Zenon, <1>5, <1>6, IsWritten
  <2> QED BY Zenon, <1>2, <1>7, <2>1
<1>9. /\ msg_list' \in [Proc -> [Ids -> EntryType]] /\ msg_list'[p][m] = e2
      /\ \A x \in Proc : x # p => msg_list'[x] = msg_list[x]
      /\ \A n \in Ids : n # m => msg_list'[p][n] = msg_list[p][n]
  <2>1. Types /\ m \in Ids /\ e2 \in EntryType /\ msg_list' = [msg_list EXCEPT ![p][m] = e2]
    BY <1>3, <1>4, <1>8
  <2> QED BY Zenon, <2>1, OneEntry
<1>10. /\ send_q' \in [Proc -> [Proc -> Seq(Ids)]]
       /\ send_q'[p][q] = IF r < nleft(e) THEN send_q[p][q] ELSE Tail(send_q[p][q])
       /\ \A x \in Proc : x # p => send_q'[x] = send_q[x]
       /\ \A y \in Proc : y # q => send_q'[p][y] = send_q[p][y]
  <2>1. CASE r < nleft(e)
    <3>1. send_q' = send_q
      BY <1>3, <2>1
    <3> QED BY <1>5, <2>1, <3>1
  <2>2. CASE ~(r < nleft(e))
    <3>1. PICK t : t = Tail(send_q[p][q])
      BY Zenon
    <3>2. t \in Seq(Ids)
      BY <1>4, <3>1
    <3>3. send_q' = [send_q EXCEPT ![p][q] = t]
      BY <1>3, <2>2, <3>1
    <3> QED BY <1>4, <1>5, <2>2, <3>1, <3>2, <3>3
  <2> QED BY <2>1, <2>2
<1>11. wire' = [wire EXCEPT ![p][q] = wire[p][q] \o [i \in 1 .. r |-> <<e.num, Gone(e) + i>>]]
  BY <1>3 DEF Gone
<1>12. WriteRows(p, q, m, e, r)
  BY Zenon, <1>1, <1>3, <1>4, <1>6, <1>7, <1>8, <1>9, <1>10, <1>11 DEF WriteRows
<1> QED BY <1>4, <1>5, <1>12

\* do_send() calls write_msg().
LEMMA SendStep ==
  ASSUME TcpMsgAssumption, IInv, NEW p \in Proc, Write(p)
  PROVE  IInv'
<1>1. PICK q \in Peers(p) : \E m \in Ids : \E e \in EntryType : \E r : WriteRows(p, q, m, e, r)
  BY WriteFacts
<1>2. PICK m \in Ids : \E e \in EntryType : \E r : WriteRows(p, q, m, e, r)
  BY <1>1
<1>3. PICK e \in EntryType : \E r : WriteRows(p, q, m, e, r)
  BY <1>2
<1>4. PICK r : WriteRows(p, q, m, e, r)
  BY <1>3
<1>5. PICK L, L2, sq, sq2, w : /\ L = msg_list[p] /\ L2 = msg_list'[p] /\ sq = send_q[p][q] /\ sq2 = send_q'[p][q]
                               /\ w = wire[p][q]
  OBVIOUS
<1>6. PICK w2 : w2 = w \o [i \in 1 .. r |-> <<e.num, Gone(e) + i>>]
  BY Zenon
<1>7. PICK full : full = (r < nleft(e))
  OBVIOUS
<1>8. /\ Types /\ ~derailed[p] /\ Working(p, "send") /\ work[p] # << >> /\ Head(work[p]).call = "send"
  BY Zenon DEF IInv, Write, Working
<1>9. /\ e = L[m] /\ q = Head(work[p]).node /\ m = sq[1] /\ r \in 0 .. nleft(e)
      /\ r <= SockCap - Len(w) /\ (r < nleft(e) => r = SockCap - Len(w))
      /\ e.used /\ nleft(e) > 0 /\ e.flag \in {"send", "buffered"} /\ e.peer = q
      /\ Written(e, L2[m], r)
      /\ \A n \in Ids : n # m => L2[n] = L[n]
      /\ sq2 = IF r < nleft(e) THEN sq ELSE Tail(sq)
  BY Zenon, <1>4, <1>5 DEF WriteRows
<1>10. /\ wire' = [wire EXCEPT ![p][q] = w2]
       /\ msg_list' \in [Proc -> [Ids -> EntryType]]
       /\ \A x \in Proc : x # p => msg_list'[x] = msg_list[x]
       /\ send_q' \in [Proc -> [Proc -> Seq(Ids)]]
       /\ \A x \in Proc : x # p => send_q'[x] = send_q[x]
       /\ \A y \in Proc : y # q => send_q'[p][y] = send_q[p][y]
  BY Zenon, <1>4, <1>5, <1>6 DEF WriteRows
<1>11. IF r > 0 /\ (r < nleft(e) \/ Tail(sq) # << >>) THEN UNCHANGED <<wactive, work>>
       ELSE Done(p) /\ wactive' = [wactive EXCEPT ![p][q] = r < nleft(e)]
  BY Zenon, <1>4, <1>5 DEF WriteRows
<1>12. /\ sent' = sent /\ recv_q' = recv_q /\ msg_q' = msg_q /\ sigio' = sigio
       /\ ractive' = ractive /\ avail' = avail
       /\ derailed' = derailed /\ handle' = handle /\ todo' = todo /\ pc' = pc
       /\ waited' = waited /\ mid' = mid
  BY Zenon, <1>4 DEF WriteRows, userVars
<1>13. /\ q \in Proc /\ q # p /\ sq \in Seq(Ids) /\ sq # << >> /\ 1 \in 1 .. Len(sq)
       /\ HasTask(work[p], "send", q) /\ \A y \in Proc : ~AtRecv(work[p], y)
       /\ Out(p, q) /\ Always(p) /\ History(p) /\ OnTrack(p)
  <2>1. /\ q \in Proc /\ q # p /\ sq \in Seq(Ids) /\ sq # << >>
        /\ HasTask(work[p], "send", q) /\ \A y \in Proc : ~AtRecv(work[p], y)
        /\ Out(p, q) /\ Always(p) /\ History(p) /\ OnTrack(p)
    BY Zenon, <1>5, <1>8, <1>9, SendTask
  <2>2. 1 \in 1 .. Len(sq)
    BY <2>1
  <2> QED BY <2>1, <2>2
<1>14. /\ L \in [Ids -> EntryType] /\ L2 \in [Ids -> EntryType] /\ w \in Seq(Nat \X Nat) /\ Len(w) \in Nat
       /\ sent[p][q] \in Seq(SentMsg) /\ SockCap \in Nat \ {0}
  <2>1. /\ msg_list \in [Proc -> [Ids -> EntryType]] /\ wire \in [Proc -> [Proc -> Seq(Nat \X Nat)]]
        /\ sent \in [Proc -> [Proc -> Seq(SentMsg)]]
    BY Zenon, <1>8 DEF Types
  <2>2. w \in Seq(Nat \X Nat)
    BY <1>5, <1>13, <2>1
  <2>3. Len(w) \in Nat
    BY <2>2
  <2>4. L \in [Ids -> EntryType] /\ L2 \in [Ids -> EntryType] /\ sent[p][q] \in Seq(SentMsg)
    BY Zenon, <1>5, <1>10, <1>13, <2>1
  <2> QED BY <2>2, <2>3, <2>4 DEF TcpMsgAssumption
<1>15. /\ SendPart(L2, handle[p], sq2, sent[p][q], q) /\ WirePart(L2, sq2, sent[p][q], w2)
       /\ w2 \in Seq(Nat \X Nat) /\ Len(w2) = Len(w) + r /\ (w # << >> => w2[1] = w[1])
       /\ NextIn(L2, sq2, sent[p][q], w2) = NextIn(L, sq, sent[p][q], w)
  <2>1. Writes(L, L2, sq, sq2, w, w2, r)
    BY Zenon, <1>6, <1>9, <1>13 DEF Writes
  <2>2. EntryPart(L, p) /\ SendPart(L, handle[p], sq, sent[p][q], q) /\ WirePart(L, sq, sent[p][q], w)
    BY <1>5, <1>13 DEF Always, Out
  <2>3. WritesFor(L, L2, handle[p], sq, sq2, sent[p][q], w, w2, r, p, q)
    BY <1>13, <1>14, <2>1, <2>2 DEF WritesFor
  <2> QED BY <2>3, WrittenStream
<1>16. r \in Nat /\ nleft(e) \in Nat /\ Len(w2) <= SockCap /\ (r < nleft(e) => Len(w2) = SockCap) /\ Len(w2) \in Nat
  <2>1. nleft(e) \in Nat
    BY EntryFacts
  <2>2. r \in Nat
    BY <1>9, <2>1
  <2>3. PICK n, l, l2 : n = nleft(e) /\ l = Len(w) /\ l2 = Len(w2)
    OBVIOUS
  <2>4. r \in 0 .. n /\ r <= SockCap - l /\ (r < n => r = SockCap - l)
    BY Zenon, <1>9, <2>3
  <2>5. l \in Nat /\ SockCap \in Nat /\ n \in Nat /\ l2 = l + r
    BY Zenon, <1>14, <1>15, <2>1, <2>3
  <2>6. l2 \in Nat /\ l2 <= SockCap /\ (r < n => l2 = SockCap)
    BY <2>2, <2>4, <2>5
  <2> QED BY Zenon, <2>1, <2>2, <2>3, <2>6
<1>17. /\ wire' \in [Proc -> [Proc -> Seq(Nat \X Nat)]] /\ wire'[p][q] = w2
       /\ \A s, t \in Proc : s # p \/ t # q => wire'[s][t] = wire[s][t]
  <2>1. wire \in [Proc -> [Proc -> Seq(Nat \X Nat)]]
    BY <1>8 DEF Types
  <2> QED BY <1>10, <1>13, <1>15, <2>1
<1>18. TaskPart(work[p], send_q[p], recv_q[p], p)
  BY <1>13 DEF Always
<1>19. /\ work' \in [Proc -> Seq(TaskType)]
       /\ \A x \in Proc : x # p => work'[x] = work[x]
       /\ TaskPart(work'[p], send_q[p], recv_q[p], p)
       /\ \A y \in Proc : /\ HasTask(work[p], "recv", y) => HasTask(work'[p], "recv", y)
                          /\ HasTask(work[p], "peek", y) => HasTask(work'[p], "peek", y)
                          /\ y # q => (HasTask(work[p], "send", y) => HasTask(work'[p], "send", y))
       /\ HasTask(work'[p], "send", q) => work'[p] = work[p] /\ wactive' = wactive /\ sq2 # << >>
       /\ ~HasTask(work'[p], "send", q) => wactive' = [wactive EXCEPT ![p][q] = r < nleft(e)]
       /\ work'[p] = work[p] \/ (work'[p] # << >> => Head(work'[p]).msg = 0)
  <2>1. CASE r > 0 /\ (r < nleft(e) \/ Tail(sq) # << >>)
    <3>1. work' = work /\ wactive' = wactive
      BY <1>11, <2>1
    <3>2. sq2 # << >>
      BY <1>9, <1>13, <2>1
    <3>3. work \in [Proc -> Seq(TaskType)]
      BY <1>8 DEF Types
    <3> QED BY <1>13, <1>18, <3>1, <3>2, <3>3
  <2>2. CASE ~(r > 0 /\ (r < nleft(e) \/ Tail(sq) # << >>))
    <3>1. Done(p) /\ wactive' = [wactive EXCEPT ![p][q] = r < nleft(e)]
      BY <1>11, <2>2
    <3>2. /\ work' \in [Proc -> Seq(TaskType)]
          /\ \A x \in Proc : x # p => work'[x] = work[x]
          /\ TaskPart(work'[p], send_q[p], recv_q[p], p)
          /\ \A call, y : HasTask(work'[p], call, y)
                            <=> HasTask(work[p], call, y) /\ ~(call = Head(work[p]).call /\ y = Head(work[p]).node)
          /\ work'[p] # << >> => Head(work'[p]).msg = 0
      BY Zenon, <1>8, <1>18, <3>1, TaskDone
    <3>3. ~HasTask(work'[p], "send", q)
      BY <1>8, <1>9, <3>2
    <3> QED BY Zenon, <1>8, <1>9, <3>1, <3>2, <3>3
  <2> QED BY Zenon, <2>1, <2>2
<1>20. /\ wactive' \in [Proc -> [Proc -> BOOLEAN]]
       /\ \A x \in Proc : x # p => wactive'[x] = wactive[x]
       /\ \A y \in Proc : y # q => wactive'[p][y] = wactive[p][y]
       /\ ~HasTask(work'[p], "send", q) => (wactive'[p][q] <=> r < nleft(e))
  <2>1. wactive \in [Proc -> [Proc -> BOOLEAN]]
    BY <1>8 DEF Types
  <2>2. CASE HasTask(work'[p], "send", q)
    BY <1>19, <2>1, <2>2
  <2>3. CASE ~HasTask(work'[p], "send", q)
    <3>1. CASE r < nleft(e)
      <4>1. (r < nleft(e)) = TRUE
        BY <3>1
      <4>2. wactive' = [wactive EXCEPT ![p][q] = TRUE]
        BY Zenon, <1>19, <2>3, <4>1
      <4> QED BY <1>13, <2>1, <2>3, <3>1, <4>2
    <3>2. CASE ~(r < nleft(e))
      <4>1. (r < nleft(e)) = FALSE
        BY <3>2
      <4>2. wactive' = [wactive EXCEPT ![p][q] = FALSE]
        BY Zenon, <1>19, <2>3, <4>1
      <4> QED BY <1>13, <2>1, <2>3, <3>2, <4>2
    <3> QED BY <3>1, <3>2
  <2> QED BY <2>2, <2>3
<1>21. Types'
  BY Zenon, <1>8, <1>10, <1>12, <1>17, <1>19, <1>20 DEF Types
<1>22. \A x \in Peers(p) : SameRows(x)
  BY <1>10, <1>12, <1>19, <1>20 DEF SameRows, Peers
<1>23. \A y \in Proc : \A n \in Ids : n # m => (Contains(send_q[p][y], n) => Contains(send_q'[p][y], n))
  <2>1. SUFFICES ASSUME NEW y \in Proc, NEW n \in Ids, n # m, Contains(send_q[p][y], n) PROVE Contains(send_q'[p][y], n)
    OBVIOUS
  <2>2. CASE y # q
    BY <1>10, <2>1, <2>2
  <2>3. CASE y = q /\ r < nleft(e)
    BY Zenon, <1>5, <1>9, <2>1, <2>3
  <2>4. CASE y = q /\ ~(r < nleft(e))
    <3>1. PICK j \in 1 .. Len(sq) : sq[j] = n
      BY <1>5, <1>13, <2>1, <2>4, ContainsIs
    <3>2. j # 1
      BY <1>9, <2>1, <3>1
    <3>3. sq2 = Tail(sq) /\ sq2 \in Seq(Ids)
      BY <1>9, <1>13, <2>4
    <3>4. j - 1 \in 1 .. Len(sq2) /\ sq2[j - 1] = n
      BY <1>13, <3>1, <3>2, <3>3
    <3> QED BY ZenonT(30), <1>5, <2>4, <3>3, <3>4, ContainsIs
  <2> QED BY <2>2, <2>3, <2>4
<1>24. r < nleft(e) => Contains(send_q'[p][q], m)
  BY SMTT(30), <1>5, <1>9, <1>13, ContainsIs
<1>25. /\ L2[m] \in EntryType /\ L2[m].flag = e.flag /\ L2[m].peer = q /\ L2[m].got = e.got /\ L2[m].nbytes = e.nbytes
       /\ L2[m].left <= e.left /\ nleft(L2[m]) = nleft(e) - r
       /\ (L2[m].nhdr > 0 => L2[m].left = e.left) /\ (e.nhdr = 0 => L2[m].nhdr = 0)
       /\ L2[m].used = (r < nleft(e) \/ e.flag # "buffered")
  <2>1. L2[m] \in EntryType
    BY <1>14
  <2> QED BY <1>9, <2>1 DEF Written
<1>26. EntryPart(L2, p)
  <2>1. EntryPart(L, p)
    BY <1>5, <1>13 DEF Always
  <2>2. /\ L2[m].left <= L2[m].nbytes
        /\ L2[m].nhdr > 0 => L2[m].left = L2[m].nbytes /\ L2[m].got = << >>
        /\ L2[m].flag = "drain" => L2[m].peer # p
    <3>1. e.left <= e.nbytes /\ (e.nhdr > 0 => e.left = e.nbytes /\ e.got = << >>)
      BY <1>9, <2>1 DEF EntryPart
    <3>2. e.left \in Nat /\ e.nbytes \in Nat /\ L2[m].left \in Nat /\ e.nhdr \in Nat /\ L2[m].nhdr \in Nat
      BY <1>25, EntryFacts
    <3> QED BY SMTT(30), <1>9, <1>13, <1>25, <3>1, <3>2
  <2>3. \A n \in Ids : n # m => L2[n] = L[n]
    BY <1>9
  <2> QED BY Zenon, <2>1, <2>2, <2>3 DEF EntryPart
<1>27. QueuedPart(L2, send_q'[p])
  <2>1. QueuedPart(L, send_q[p])
    BY <1>5, <1>13 DEF Always
  <2>2. SUFFICES ASSUME NEW n \in Ids, L2[n].used, L2[n].flag \in {"send", "buffered"}, nleft(L2[n]) > 0
                 PROVE \E y \in Proc : Contains(send_q'[p][y], n)
    BY DEF QueuedPart
  <2>3. CASE n = m
    <3>1. r < nleft(e)
      BY <1>16, <1>25, <2>2, <2>3
    <3> QED BY <1>13, <1>24, <2>3, <3>1
  <2>4. CASE n # m
    BY <1>9, <1>23, <2>1, <2>2, <2>4 DEF QueuedPart
  <2> QED BY <2>3, <2>4
<1>28. KeptPart(L2, handle[p], send_q'[p], msg_q[p])
  <2>1. KeptPart(L, handle[p], send_q[p], msg_q[p])
    BY <1>5, <1>13 DEF Always
  <2>2. SUFFICES ASSUME NEW n \in Ids, L2[n].used
                 PROVE \/ Named(handle[p], n)
                       \/ \E y \in Proc : Contains(send_q'[p][y], n) \/ Contains(msg_q[p][y], n)
                       \/ L2[n].flag = "buffered" /\ Complete(L2[n])
    BY DEF KeptPart
  <2>3. CASE n = m
    <3>1. CASE r < nleft(e)
      BY <1>13, <1>24, <2>3, <3>1
    <3>2. CASE ~(r < nleft(e))
      <4>1. e.flag = "send"
        BY Zenon, <1>9, <1>25, <2>2, <2>3, <3>2
      <4>2. SendPart(L, handle[p], sq, sent[p][q], q)
        BY <1>5, <1>13 DEF Out
      <4> QED BY Zenon, <1>9, <1>13, <2>3, <4>1, <4>2 DEF SendPart
    <3> QED BY <3>1, <3>2
  <2>4. CASE n # m
    BY <1>9, <1>23, <2>1, <2>2, <2>4 DEF KeptPart
  <2> QED BY <2>3, <2>4
<1>29. TaskPart(work'[p], send_q'[p], recv_q[p], p)
  <2>1. PICK K \in Seq(TaskType) : K = work'[p]
    BY <1>19
  <2>2. ASSUME NEW i \in 1 .. Len(K), K[i].call = "send" PROVE send_q'[p][K[i].node] # << >>
    <3>1. send_q[p][K[i].node] # << >>
      BY <1>19, <2>1, <2>2 DEF TaskPart
    <3>2. K[i].node \in Proc
      <4>1. K[i] \in TaskType
        BY <2>1
      <4> QED BY <4>1 DEF TaskType
    <3>3. CASE K[i].node = q
      <4>1. HasTask(K, "send", q)
        BY <2>2, <3>3 DEF HasTask
      <4> QED BY <1>5, <1>19, <2>1, <3>3, <4>1
    <3>4. CASE K[i].node # q
      BY Zenon, <1>10, <3>1, <3>2, <3>4
    <3> QED BY <3>3, <3>4
  <2> QED BY <1>19, <2>1, <2>2 DEF TaskPart
<1>30. ActivePart(send_q'[p], recv_q[p], ractive[p], wactive'[p])
  <2>1. ActivePart(send_q[p], recv_q[p], ractive[p], wactive[p])
    BY <1>13 DEF Always
  <2>2. wactive'[p][q] => send_q'[p][q] # << >>
    <3>1. CASE HasTask(work'[p], "send", q)
      BY <1>5, <1>19, <3>1
    <3>2. CASE ~HasTask(work'[p], "send", q)
      BY Zenon, <1>5, <1>9, <1>13, <1>20, <3>2
    <3> QED BY <3>1, <3>2
  <2> QED BY Zenon, <1>10, <1>20, <2>1, <2>2 DEF ActivePart
<1>31. OwnPart(send_q'[p], recv_q[p], ractive[p], wactive'[p], wire'[p], avail[p], p)
  <2>1. OwnPart(send_q[p], recv_q[p], ractive[p], wactive[p], wire[p], avail[p], p)
    BY <1>13 DEF Always
  <2> QED BY Zenon, <1>10, <1>13, <1>17, <1>20, <2>1 DEF OwnPart
<1>32. Always(p)'
  <2>1. HandlePart(todo[p], handle[p], waited[p], pc[p])
    BY <1>13 DEF Always
  <2> QED BY <1>5, <1>12, <1>26, <1>27, <1>28, <1>29, <1>30, <1>31, <2>1 DEF Always
<1>33. History(p)'
  <2>1. ContentPart(L, sent, p) /\ WaitedPart(waited[p], sent, p)
    BY <1>5, <1>13 DEF History
  <2>2. ~(L2[m].flag \in {"recv", "drain"} \/ L2[m].peer = p)
    BY Zenon, <1>9, <1>13, <1>25
  <2>3. ContentPart(L2, sent, p)
    BY Zenon, <1>9, <2>1, <2>2 DEF ContentPart
  <2> QED BY <1>5, <1>12, <2>1, <2>3 DEF History
<1>34. \A y \in Proc : \A i \in 1 .. Len(msg_q[p][y]) : msg_q[p][y][i] # m
  <2> SUFFICES ASSUME NEW y \in Proc, NEW i \in 1 .. Len(msg_q[p][y]), msg_q[p][y][i] = m PROVE FALSE
    OBVIOUS
  <2>1. MsgPart(L, handle[p], msg_q[p][y], recv_q[p][y], p, y)
    BY <1>5, <1>13 DEF OnTrack
  <2>2. y = p => Complete(L[m])
    BY <2>1 DEF MsgPart
  <2>3. y # p => L[m].flag = "drain" \/ L[m].flag = "recv"
    BY Zenon, <2>1 DEF MsgPart
  <2>4. ~Complete(L[m])
    BY <1>9 DEF Complete
  <2> QED BY <1>9, <2>2, <2>3, <2>4
<1>35. OnTrack(p)'
  <2>1. PcPart(L2, todo[p], handle[p], pc[p])
    <3>1. PcPart(L, todo[p], handle[p], pc[p])
      BY <1>5, <1>13 DEF OnTrack
    <3>2. SUFFICES ASSUME pc[p] # "run" PROVE PcPart(L2, todo[p], handle[p], pc[p])
      BY Zenon DEF PcPart
    <3>3. PICK n : n = handle[p][Head(todo[p]).i]
      OBVIOUS
    <3>4. n # 0 /\ Head(todo[p]).i \in 1 .. Len(handle[p])
      <4>1. HandlePart(todo[p], handle[p], waited[p], pc[p])
        BY <1>13 DEF Always
      <4>2. todo[p] # << >> /\ Head(todo[p]).op = "wait" /\ n # 0
        BY <3>2, <3>3, <4>1 DEF HandlePart
      <4> QED BY <4>2, CallFacts
    <3>5. n \in Ids
      <4>0. handle \in [Proc -> Seq(0 .. MaxMsgs)]
        BY <1>8 DEF Types
      <4>1. n \in 0 .. MaxMsgs
        BY <3>3, <3>4, <4>0
      <4> QED BY <3>4, <4>1, IdOrNone
    <3>6. CASE n = m
      <4>1. pc[p] = "push" => e.flag = "send"
        BY <1>9, <3>1, <3>3, <3>6 DEF PcPart
      <4>2. pc[p] = "end" => e.flag = "buffered" \/ Complete(e)
        BY <1>9, <3>1, <3>3, <3>6 DEF PcPart
      <4>3. ~Complete(e)
        BY <1>9 DEF Complete
      <4> QED BY <1>25, <3>3, <3>6, <4>1, <4>2, <4>3 DEF PcPart
    <3>7. CASE n # m
      BY Zenon, <1>9, <3>1, <3>3, <3>5, <3>7 DEF PcPart
    <3> QED BY <3>6, <3>7
  <2>2. WildPart(L2, recv_q[p][Wild])
    <3>1. WildPart(L, recv_q[p][Wild]) /\ recv_q[p][Wild] \in Seq(Ids)
      BY SMTT(30), <1>5, <1>8, <1>13 DEF OnTrack, Types
    <3>2. \A i \in 1 .. Len(recv_q[p][Wild]) : recv_q[p][Wild][i] \in Ids /\ recv_q[p][Wild][i] # m
      <4> TAKE i \in 1 .. Len(recv_q[p][Wild])
      <4>1. L[recv_q[p][Wild][i]].flag = "recv"
        BY <3>1 DEF WildPart
      <4>2. recv_q[p][Wild][i] \in Ids
        BY <3>1
      <4> QED BY Zenon, <1>9, <4>1, <4>2
    <3>3. \A i \in 1 .. Len(recv_q[p][Wild]) : L2[recv_q[p][Wild][i]] = L[recv_q[p][Wild][i]]
      BY Zenon, <1>9, <3>2
    <3> QED BY <3>1, <3>3 DEF WildPart
  <2>3. ASSUME NEW y \in Proc PROVE MsgPart(L2, handle[p], msg_q[p][y], recv_q[p][y], p, y)
    <3>1. MsgPart(L, handle[p], msg_q[p][y], recv_q[p][y], p, y)
      BY <1>5, <1>13 DEF OnTrack
    <3>2. msg_q[p][y] \in Seq(Ids)
      BY <1>8 DEF Types
    <3>3. \A i \in 1 .. Len(msg_q[p][y]) : L2[msg_q[p][y][i]] = L[msg_q[p][y][i]]
      BY <1>9, <1>34, <3>2
    <3> QED BY <3>1, <3>3, MsgSame
  <2> QED BY <1>5, <1>12, <2>1, <2>2, <2>3 DEF OnTrack
<1>36. ASSUME NEW y \in Peers(p)
       PROVE  SignalPart(work[p], ractive[p], wactive[p], recv_q[p][Wild], Len(wire[p][y]) < SockCap,
                    avail[y][p], sigio[p], y)'
  <2>1. y \in Proc /\ SignalPart(work[p], ractive[p], wactive[p], recv_q[p][Wild], Len(wire[p][y]) < SockCap,
                    avail[y][p], sigio[p], y)
    BY <1>8 DEF IInv, In, Peers
  <2>2. wactive'[p][y] /\ Len(wire'[p][y]) < SockCap => sigio[p] \/ HasTask(work'[p], "send", y)
    <3>1. CASE y = q
      <4>1. CASE HasTask(work'[p], "send", q)
        BY <3>1, <4>1
      <4>2. CASE ~HasTask(work'[p], "send", q)
        <5>1. wactive'[p][q] => Len(w2) = SockCap
          BY <1>16, <1>20, <4>2
        <5> QED BY <1>14, <1>17, <3>1, <5>1
      <4> QED BY <4>1, <4>2
    <3>2. CASE y # q
      <4>1. wactive'[p][y] = wactive[p][y] /\ wire'[p][y] = wire[p][y]
        BY <1>17, <1>20, <2>1, <3>2
      <4> QED BY <1>19, <2>1, <3>2, <4>1 DEF SignalPart
    <3> QED BY <3>1, <3>2
  <2>3. ractive[p][y] /\ avail[y][p] > 0 => sigio[p] \/ HasTask(work'[p], "recv", y)
    BY <1>19, <2>1 DEF SignalPart
  <2>4. recv_q[p][Wild] # << >> /\ avail[y][p] >= HdrSize => sigio[p] \/ HasTask(work'[p], "peek", y)
    BY <1>19, <2>1 DEF SignalPart
  <2> QED BY <1>12, <2>2, <2>3, <2>4 DEF SignalPart
<1>37. ASSUME NEW y \in Peers(p) PROVE In(p, y)'
  <2>1. In(p, y) /\ y \in Proc /\ y # p
    BY <1>8 DEF IInv, Peers
  <2>2. work'[p] = work[p] \/ (~AtRecv(work[p], y) /\ ~(AtRecv(work'[p], y) /\ Head(work'[p]).msg # 0))
    BY <1>13, <1>19, <2>1 DEF AtRecv
  <2>3. \A i \in 1 .. Len(recv_q[p][y]) :
           SameBut(msg_list[p][recv_q[p][y][i]], msg_list'[p][recv_q[p][y][i]])
    <3> TAKE i \in 1 .. Len(recv_q[p][y])
    <3>1. recv_q[p][y] \in Seq(Ids)
      BY <1>8, <2>1 DEF Types
    <3>2. recv_q[p][y][i] \in Ids
      BY <3>1
    <3>3. L[recv_q[p][y][i]].flag \in {"recv", "drain"}
      BY Zenon, <1>5, <2>1 DEF In, RecvPart
    <3>4. L2[recv_q[p][y][i]] = L[recv_q[p][y][i]]
      BY Zenon, <1>9, <3>2, <3>3
    <3> QED BY <1>5, <3>4, SameIsSame
  <2>4. \A i \in 1 .. Len(msg_q'[p][y]) :
           /\ SameBut(msg_list[p][msg_q'[p][y][i]], msg_list'[p][msg_q'[p][y][i]])
           /\ \E j \in 1 .. Len(msg_q[p][y]) : msg_q'[p][y][i] = msg_q[p][y][j]
    <3>1. msg_q' = msg_q
      BY <1>12
    <3>2. msg_q[p][y] \in Seq(Ids)
      BY <1>8, <2>1 DEF Types
    <3>3. \A i \in 1 .. Len(msg_q[p][y]) : L2[msg_q[p][y][i]] = L[msg_q[p][y][i]]
      BY SMTT(30), <1>9, <1>34, <2>1, <3>2
    <3> QED BY <1>5, <3>1, <3>3, SameIsSame
  <2>5. /\ recv_q'[p][y] = recv_q[p][y] /\ ractive'[p][y] = ractive[p][y] /\ wire'[y][p] = wire[y][p]
        /\ avail'[y][p] = avail[y][p] /\ sent'[y][p] = sent[y][p] /\ msg_list'[y] = msg_list[y]
        /\ send_q'[y] = send_q[y]
    BY <1>10, <1>12, <1>17, <2>1
  <2>6. SignalPart(work[p], ractive[p], wactive[p], recv_q[p][Wild], Len(wire[p][y]) < SockCap,
                    avail[y][p], sigio[p], y)'
    BY <1>36
  <2>7. Types
    BY <1>8
  <2> QED BY Zenon, <2>1, <2>2, <2>3, <2>4, <2>5, <2>6, <2>7, InSame
<1>38. ASSUME NEW y \in Peers(p)
       PROVE  /\ Out(p, y)'
              /\ y # q => NextOut(msg_list[p], send_q[p][y], sent[p][y])' = NextOut(msg_list[p], send_q[p][y], sent[p][y])
  <2>1. Out(p, y) /\ y \in Proc /\ y # p
    BY <1>8 DEF IInv, Peers
  <2>2. CASE y = q
    <3>1. avail[p][q] <= Len(w2)
      <4>1. avail[p][q] <= Len(w) /\ avail[p][q] \in Nat
        BY <1>5, <1>8, <1>13 DEF Out, Types
      <4>2. Len(w) \in Nat /\ Len(w2) = Len(w) + r /\ r \in Nat
        BY Zenon, <1>14, <1>15, <1>16
      <4> QED BY <4>1, <4>2
    <3> QED BY Zenon, <1>5, <1>12, <1>15, <1>16, <1>17, <2>2, <3>1 DEF Out
  <2>3. CASE y # q
    <3>1. SendPart(L, handle[p], send_q[p][y], sent[p][y], y)
      BY <1>5, <2>1 DEF Out
    <3>2. send_q[p][y] \in Seq(Ids)
      BY <1>8, <2>1 DEF Types
    <3>3. \A i \in 1 .. Len(send_q[p][y]) : L2[send_q[p][y][i]] = L[send_q[p][y][i]]
      <4> TAKE i \in 1 .. Len(send_q[p][y])
      <4>1. L[send_q[p][y][i]].peer = y
        BY Zenon, <3>1 DEF SendPart
      <4>2. send_q[p][y][i] \in Ids
        BY <3>2
      <4> QED BY Zenon, <1>9, <2>3, <4>1, <4>2
    <3>4. /\ SendPart(L2, handle[p], send_q[p][y], sent[p][y], y)
          /\ NextOut(L2, send_q[p][y], sent[p][y]) = NextOut(L, send_q[p][y], sent[p][y])
          /\ \A v : WirePart(L, send_q[p][y], sent[p][y], v) => WirePart(L2, send_q[p][y], sent[p][y], v)
      <4>1. PICK H, S, N : H = handle[p] /\ S = send_q[p][y] /\ N = sent[p][y]
        OBVIOUS
      <4>2. SendPart(L, H, S, N, y) /\ S \in Seq(Ids) /\ \A i \in 1 .. Len(S) : L2[S[i]] = L[S[i]]
        BY <3>1, <3>2, <3>3, <4>1
      <4>3. /\ SendPart(L2, H, S, N, y) /\ NextOut(L2, S, N) = NextOut(L, S, N)
            /\ \A v : WirePart(L, S, N, v) => WirePart(L2, S, N, v)
        BY <4>2, OutElsewhere
      <4> QED BY <4>1, <4>3
    <3>5. send_q'[p][y] = send_q[p][y] /\ wire'[p][y] = wire[p][y]
      BY <1>10, <1>17, <2>1, <2>3
    <3> QED BY <1>5, <1>12, <2>1, <3>4, <3>5 DEF Out
  <2> QED BY <2>2, <2>3
<1>39. NextIn(msg_list[p], send_q[p][q], sent[p][q], wire[p][q])'
           = NextIn(msg_list[p], send_q[p][q], sent[p][q], wire[p][q])
  BY <1>5, <1>12, <1>15, <1>17
<1>40. /\ wire[p][q] # << >> => wire'[p][q][1] = wire[p][q][1]
       /\ wire'[p][q] \in Seq(Nat \X Nat)
  BY <1>5, <1>15, <1>17
<1>41. OwnParts(p)
  BY <1>32, <1>33, <1>35, <1>37 DEF OwnParts
<1> QED BY Zenon, <1>12, <1>17, <1>21, <1>22, <1>38, <1>39, <1>40, <1>41, WriteStep
=============================================================================
