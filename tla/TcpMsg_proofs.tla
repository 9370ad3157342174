---------------------------- MODULE TcpMsg_proofs ----------------------------
(***************************************************************************)
(* The message engine of MP_Lite/tcp.c keeps its promises for every number *)
(* of processes, every program, every size of the header, the sockets and  *)
(* the list of entries.  TcpMsgInv_proofs has the invariant IInv and the   *)
(* first steps that keep it.  Here are the others: the calls that post a   *)
(* message, MP_ASend() and MP_ARecv(), and the half of the engine that     *)
(* reads.  Last, that every behaviour keeps IInv, and the properties of    *)
(* the engine that follow from it.                                         *)
(***************************************************************************)
EXTENDS TcpMsgInv_proofs

-----------------------------------------------------------------------------
\* create_msg_entry() gives out entry m of p: nothing holds it, or p derails.
Made(p, m) ==
  /\ m \in Ids /\ ~msg_list[p][m].used /\ ~derailed[p]
  /\ mid' \in [Proc -> 0 .. MaxMsgs - 1] /\ derailed' \in [Proc -> BOOLEAN]
  /\ \A x \in Proc : x # p => derailed'[x] = derailed[x]
  /\ ~derailed'[p] => /\ ~Named(handle[p], m)
                      /\ \A y \in Proc \cup {Wild} : \A j \in 1 .. Len(recv_q[p][y]) : recv_q[p][y][j] # m
  /\ \A y \in Proc : /\ \A j \in 1 .. Len(send_q[p][y]) : send_q[p][y][j] # m
                     /\ \A j \in 1 .. Len(msg_q[p][y]) : msg_q[p][y][j] # m

\* What create_msg_entry() takes.
LEMMA NewEntry ==
  ASSUME TcpMsgAssumption, IInv, NEW p \in Proc, ~derailed[p], EntryLeft(p)
  PROVE  \A m : m = NextId(p) /\ Create(p, m) => Made(p, m)
<1>1. SUFFICES ASSUME NEW m, m = NextId(p), Create(p, m) PROVE Made(p, m)
  OBVIOUS
<1>2. Types /\ OnTrack(p) /\ Always(p) /\ \A y \in Peers(p) : Out(p, y)
  BY DEF IInv
<1>3. m \in Ids /\ ~msg_list[p][m].used /\ m - 1 \in 0 .. MaxMsgs - 1
  BY <1>1, <1>2, NextIdIsFree
<1>4. PICK b : b = (Contains(handle[p], m) \/ \E q \in Proc \cup {Wild} : Contains(recv_q[p][q], m))
  OBVIOUS
<1>5. mid' = [mid EXCEPT ![p] = m - 1] /\ derailed' = [derailed EXCEPT ![p] = b]
  BY <1>1, <1>4 DEF Create
<1>6. mid' \in [Proc -> 0 .. MaxMsgs - 1]
  <2>1. mid \in [Proc -> 0 .. MaxMsgs - 1]
    BY <1>2 DEF Types
  <2> QED BY <1>3, <1>5, <2>1
<1>7. b \in BOOLEAN
  BY <1>4
<1>8. derailed' \in [Proc -> BOOLEAN] /\ derailed'[p] = b /\ \A x \in Proc : x # p => derailed'[x] = derailed[x]
  <2>1. derailed \in [Proc -> BOOLEAN]
    BY <1>2 DEF Types
  <2> QED BY <1>5, <1>7, <2>1
<1>9. ASSUME ~b PROVE ~Named(handle[p], m)
  <2>1. handle[p] \in Seq(0 .. MaxMsgs)
    BY <1>2 DEF Types
  <2>2. ~Contains(handle[p], m)
    BY Zenon, <1>4, <1>9
  <2> QED BY <2>1, <2>2 DEF Contains, Named
<1>10. ASSUME ~b, NEW y \in Proc \cup {Wild}, NEW j \in 1 .. Len(recv_q[p][y]) PROVE recv_q[p][y][j] # m
  <2>1. recv_q \in [Proc -> [Proc \cup {Wild} -> Seq(Ids)]]
    BY Zenon, <1>2 DEF Types
  <2>2. recv_q[p][y] \in Seq(Ids)
    BY <2>1
  <2>3. ~Contains(recv_q[p][y], m)
    BY Zenon, <1>4, <1>10
  <2> QED BY <2>2, <2>3, ContainsIs
<1>11. ASSUME NEW y \in Proc, NEW j \in 1 .. Len(send_q[p][y]) PROVE send_q[p][y][j] # m
  <2>1. CASE y = p
    <3>1. send_q[p][y] = << >>
      BY <1>2, <2>1 DEF Always, OwnPart
    <3> QED BY <3>1
  <2>2. CASE y # p
    <3>1. SendPart(msg_list[p], handle[p], send_q[p][y], sent[p][y], y)
      BY <1>2, <2>2 DEF Out, Peers
    <3> QED BY Zenon, <1>3, <3>1 DEF SendPart
  <2> QED BY <2>1, <2>2
<1>12. ASSUME NEW y \in Proc, NEW j \in 1 .. Len(msg_q[p][y]) PROVE msg_q[p][y][j] # m
  <2>1. MsgPart(msg_list[p], handle[p], msg_q[p][y], recv_q[p][y], p, y)
    BY <1>2 DEF OnTrack
  <2> QED BY Zenon, <1>3, <2>1 DEF MsgPart
<1> QED BY <1>3, <1>6, <1>8, <1>9, <1>10, <1>11, <1>12 DEF Made

\* It holds a message, or a receive, from now on.
Adds(p, m) ==
  /\ Made(p, m)
  /\ msg_list' \in [Proc -> [Ids -> EntryType]] /\ \A x \in Proc : x # p => msg_list'[x] = msg_list[x]
  /\ \A n \in Ids : n # m => msg_list'[p][n] = msg_list[p][n]
  /\ msg_list'[p][m].left <= msg_list'[p][m].nbytes
  /\ msg_list'[p][m].nhdr > 0 => msg_list'[p][m].left = msg_list'[p][m].nbytes /\ msg_list'[p][m].got = << >>
  /\ msg_list'[p][m].flag = "drain" => msg_list'[p][m].peer # p

\* The queues do not notice.
LEMMA AddsKept ==
  ASSUME TcpMsgAssumption, IInv, NEW p \in Proc, NEW m, Adds(p, m)
  PROVE  /\ EntryPart(msg_list'[p], p)
         /\ \A y \in Proc : /\ \A j \in 1 .. Len(send_q[p][y]) :
                                 msg_list'[p][send_q[p][y][j]] = msg_list[p][send_q[p][y][j]]
                            /\ \A j \in 1 .. Len(msg_q[p][y]) :
                                 msg_list'[p][msg_q[p][y][j]] = msg_list[p][msg_q[p][y][j]]
         /\ ~derailed'[p] => \A y \in Proc \cup {Wild} : \A j \in 1 .. Len(recv_q[p][y]) :
                                 msg_list'[p][recv_q[p][y][j]] = msg_list[p][recv_q[p][y][j]]
<1>1. Types /\ Always(p)
  BY DEF IInv
<1>2. PICK L, L2 : L = msg_list[p] /\ L2 = msg_list'[p]
  OBVIOUS
<1>3. \A n \in Ids : n # m => L2[n] = L[n]
  BY <1>2 DEF Adds
<1>4. EntryPart(L2, p)
  <2>1. EntryPart(L, p)
    BY <1>1, <1>2 DEF Always
  <2>2. /\ L2[m].left <= L2[m].nbytes /\ (L2[m].nhdr > 0 => L2[m].left = L2[m].nbytes /\ L2[m].got = << >>)
        /\ L2[m].flag = "drain" => L2[m].peer # p
    BY <1>2 DEF Adds
  <2> QED BY <1>3, <2>1, <2>2 DEF EntryPart
<1>5. ASSUME NEW y \in Proc
      PROVE  /\ \A j \in 1 .. Len(send_q[p][y]) : L2[send_q[p][y][j]] = L[send_q[p][y][j]]
             /\ \A j \in 1 .. Len(msg_q[p][y]) : L2[msg_q[p][y][j]] = L[msg_q[p][y][j]]
  <2>1. PICK S, M : S = send_q[p][y] /\ M = msg_q[p][y]
    OBVIOUS
  <2>2. S \in Seq(Ids) /\ M \in Seq(Ids)
    BY <1>1, <2>1 DEF Types
  <2>3. (\A j \in 1 .. Len(S) : S[j] # m) /\ (\A j \in 1 .. Len(M) : M[j] # m)
    BY <2>1 DEF Adds, Made
  <2>4. \A j \in 1 .. Len(S) : L2[S[j]] = L[S[j]]
    BY <1>3, <2>2, <2>3
  <2>5. \A j \in 1 .. Len(M) : L2[M[j]] = L[M[j]]
    BY <1>3, <2>2, <2>3
  <2> QED BY <2>1, <2>4, <2>5
<1>6. ASSUME ~derailed'[p], NEW y \in Proc \cup {Wild}
      PROVE  \A j \in 1 .. Len(recv_q[p][y]) : L2[recv_q[p][y][j]] = L[recv_q[p][y][j]]
  <2>1. PICK R : R = recv_q[p][y]
    OBVIOUS
  <2>2. R \in Seq(Ids)
    BY SMTT(30), <1>1, <2>1 DEF Types
  <2>3. \A j \in 1 .. Len(R) : R[j] # m
    BY <1>6, <2>1 DEF Adds, Made
  <2>4. \A j \in 1 .. Len(R) : L2[R[j]] = L[R[j]]
    BY <1>3, <2>2, <2>3
  <2> QED BY <2>1, <2>4
<1> QED BY Zenon, <1>2, <1>4, <1>5, <1>6

\* Nor do the messages that are sent, and those from anyone or nobody asked for, if m
\* gets a handle at most.
LEMMA AddsParts ==
  ASSUME TcpMsgAssumption, IInv, NEW p \in Proc, NEW m, Adds(p, m), NEW H,
         \A n : Named(handle[p], n) => Named(H, n), \A n : n # m /\ Named(H, n) => Named(handle[p], n)
  PROVE  /\ ~derailed'[p] => WildPart(msg_list'[p], recv_q[p][Wild])
         /\ \A y \in Proc : MsgPart(msg_list'[p], H, msg_q[p][y], recv_q[p][y], p, y)
         /\ \A y \in Peers(p) :
              /\ SendPart(msg_list'[p], H, send_q[p][y], sent[p][y], y)
              /\ WirePart(msg_list'[p], send_q[p][y], sent[p][y], wire[p][y])
              /\ NextOut(msg_list'[p], send_q[p][y], sent[p][y]) = NextOut(msg_list[p], send_q[p][y], sent[p][y])
<1>1. Types /\ Always(p) /\ OnTrack(p) /\ \A y \in Peers(p) : Out(p, y)
  BY DEF IInv, Adds, Made
<1>2. PICK L, L2, H1 : L = msg_list[p] /\ L2 = msg_list'[p] /\ H1 = handle[p]
  OBVIOUS
<1>3. /\ \A y \in Proc : /\ \A j \in 1 .. Len(send_q[p][y]) : L2[send_q[p][y][j]] = L[send_q[p][y][j]]
                         /\ \A j \in 1 .. Len(msg_q[p][y]) : L2[msg_q[p][y][j]] = L[msg_q[p][y][j]]
      /\ ~derailed'[p] => \A y \in Proc \cup {Wild} : \A j \in 1 .. Len(recv_q[p][y]) :
                              L2[recv_q[p][y][j]] = L[recv_q[p][y][j]]
  <2>1. /\ \A y \in Proc : /\ \A j \in 1 .. Len(send_q[p][y]) :
                                msg_list'[p][send_q[p][y][j]] = msg_list[p][send_q[p][y][j]]
                           /\ \A j \in 1 .. Len(msg_q[p][y]) :
                                msg_list'[p][msg_q[p][y][j]] = msg_list[p][msg_q[p][y][j]]
        /\ ~derailed'[p] => \A y \in Proc \cup {Wild} : \A j \in 1 .. Len(recv_q[p][y]) :
                                msg_list'[p][recv_q[p][y][j]] = msg_list[p][recv_q[p][y][j]]
    BY Zenon, AddsKept
  <2>2. ASSUME NEW y \in Proc
        PROVE  /\ \A j \in 1 .. Len(send_q[p][y]) : L2[send_q[p][y][j]] = L[send_q[p][y][j]]
               /\ \A j \in 1 .. Len(msg_q[p][y]) : L2[msg_q[p][y][j]] = L[msg_q[p][y][j]]
    BY Zenon, <1>2, <2>1
  <2>3. ASSUME ~derailed'[p], NEW y \in Proc \cup {Wild}, NEW j \in 1 .. Len(recv_q[p][y])
        PROVE  L2[recv_q[p][y][j]] = L[recv_q[p][y][j]]
    BY Zenon, <1>2, <2>1, <2>3
  <2> QED BY Zenon, <2>2, <2>3
<1>4. ASSUME ~derailed'[p] PROVE WildPart(L2, recv_q[p][Wild])
  <2>1. WildPart(L, recv_q[p][Wild])
    BY <1>1, <1>2 DEF OnTrack
  <2>2. \A j \in 1 .. Len(recv_q[p][Wild]) : L2[recv_q[p][Wild][j]] = L[recv_q[p][Wild][j]]
    BY <1>3, <1>4
  <2> QED BY <2>1, <2>2 DEF WildPart
<1>5. ASSUME NEW y \in Proc PROVE MsgPart(L2, H, msg_q[p][y], recv_q[p][y], p, y)
  <2>1. MsgPart(L, H1, msg_q[p][y], recv_q[p][y], p, y)
    BY <1>1, <1>2 DEF OnTrack
  <2>2. PICK M : M = msg_q[p][y]
    OBVIOUS
  <2>3. \A j \in 1 .. Len(M) : M[j] # m /\ L2[M[j]] = L[M[j]]
    BY <1>3, <2>2 DEF Adds, Made
  <2>4. \A j \in 1 .. Len(M) : L2[M[j]] = L[M[j]] /\ (Named(H, M[j]) => Named(H1, M[j]))
    BY <1>2, <2>3
  <2> QED BY <2>1, <2>2, <2>4, MsgSame
<1>6. ASSUME NEW y \in Peers(p)
      PROVE  /\ SendPart(L2, H, send_q[p][y], sent[p][y], y)
             /\ WirePart(L2, send_q[p][y], sent[p][y], wire[p][y])
             /\ NextOut(L2, send_q[p][y], sent[p][y]) = NextOut(L, send_q[p][y], sent[p][y])
  <2>1. PICK S, N, w : S = send_q[p][y] /\ N = sent[p][y] /\ w = wire[p][y]
    OBVIOUS
  <2>2. S \in Seq(Ids) /\ \A j \in 1 .. Len(S) : L2[S[j]] = L[S[j]]
    BY <1>1, <1>3, <2>1 DEF Types, Peers
  <2>3. SendPart(L, H1, S, N, y) /\ WirePart(L, S, N, w)
    BY <1>1, <1>2, <2>1 DEF Out
  <2>4. SendPart(L2, H1, S, N, y) /\ NextOut(L2, S, N) = NextOut(L, S, N) /\ WirePart(L2, S, N, w)
    <3>1. /\ SendPart(L2, H1, S, N, y) /\ NextOut(L2, S, N) = NextOut(L, S, N)
          /\ \A v : WirePart(L, S, N, v) => WirePart(L2, S, N, v)
      BY Zenon, <2>2, <2>3, OutElsewhere
    <3> QED BY <2>3, <3>1
  <2>5. SendPart(L2, H, S, N, y)
    <3>1. \A n : Named(H1, n) => Named(H, n)
      BY <1>2
    <3> QED BY <2>4, <3>1 DEF SendPart
  <2> QED BY <2>1, <2>4, <2>5
<1> QED BY <1>2, <1>4, <1>5, <1>6

\* A message posted for q after those in sq: entry m, the message h.
Posts(L, H, sq, sn, q, m, h) ==
  /\ sq \in Seq(Ids) /\ sn \in Seq(SentMsg) /\ h \in SentMsg /\ m \in Ids
  /\ SendPart(L, H, sq, sn, q)
  /\ L[m].used /\ L[m].flag = "send" /\ L[m].peer = q /\ L[m].num = Len(sn) + 1 /\ L[m].nbytes = h.nbytes
  /\ L[m].nhdr = HdrSize /\ L[m].left = h.nbytes /\ Named(H, m)

\* A sequence t, that is s with e at its end.
Longer(s, e, t) ==
  /\ Len(s) \in Nat /\ Len(t) = Len(s) + 1 /\ t[Len(s) + 1] = e /\ t # << >>
  /\ \A i \in 1 .. Len(s) : t[i] = s[i]

\* It is what Append returns.
LEMMA AppendLonger ==
  ASSUME NEW S, NEW s, NEW e, s \in Seq(S), e \in S
  PROVE  Append(s, e) \in Seq(S) /\ Longer(s, e, Append(s, e))
<1>1. PICK t : t = Append(s, e)
  OBVIOUS
<1>2. /\ t \in Seq(S) /\ Len(s) \in Nat /\ Len(t) = Len(s) + 1 /\ t[Len(s) + 1] = e
      /\ \A i \in 1 .. Len(s) : t[i] = s[i]
  BY <1>1
<1>3. t # << >>
  BY <1>2
<1> QED BY Zenon, <1>1, <1>2, <1>3 DEF Longer

\* It is the last one of the stream.
LEMMA Posted ==
  ASSUME TcpMsgAssumption, NEW L, NEW H, NEW sq, NEW sn, NEW q, NEW m, NEW h, Posts(L, H, sq, sn, q, m, h)
  PROVE  /\ SendPart(L, H, Append(sq, m), Append(sn, h), q)
         /\ NextOut(L, Append(sq, m), Append(sn, h)) = NextOut(L, sq, sn)
         /\ \A w : w \in Seq(Nat \X Nat) /\ WirePart(L, sq, sn, w) => WirePart(L, Append(sq, m), Append(sn, h), w)
         /\ Append(sn, h) \in Seq(SentMsg) /\ Append(sq, m) \in Seq(Ids) /\ Append(sq, m) # << >>
         /\ Grown(sn, Append(sn, h))
<1>1. sq \in Seq(Ids) /\ sn \in Seq(SentMsg) /\ h \in SentMsg /\ m \in Ids /\ SendPart(L, H, sq, sn, q)
  BY DEF Posts
<1>2. PICK t, tn : t = Append(sq, m) /\ tn = Append(sn, h)
  BY Zenon
<1>3. /\ tn \in Seq(SentMsg) /\ Len(tn) = Len(sn) + 1 /\ tn[Len(sn) + 1] = h /\ Len(sn) \in Nat
      /\ \A i \in 1 .. Len(sn) : tn[i] = sn[i]
  <2>1. Append(sn, h) \in Seq(SentMsg) /\ Longer(sn, h, Append(sn, h))
    BY Zenon, <1>1, AppendLonger
  <2>2. tn \in Seq(SentMsg) /\ Longer(sn, h, tn)
    BY Zenon, <1>2, <2>1
  <2> QED BY <2>2 DEF Longer
<1>4. /\ t \in Seq(Ids) /\ Len(t) = Len(sq) + 1 /\ t[Len(sq) + 1] = m /\ Len(sq) \in Nat /\ t # << >>
      /\ \A i \in 1 .. Len(sq) : t[i] = sq[i]
  <2>1. Append(sq, m) \in Seq(Ids) /\ Longer(sq, m, Append(sq, m))
    BY Zenon, <1>1, AppendLonger
  <2>2. t \in Seq(Ids) /\ Longer(sq, m, t)
    BY Zenon, <1>2, <2>1
  <2> QED BY <2>2 DEF Longer
<1>5. HdrSize \in Nat \ {0} /\ h.nbytes \in Nat
  BY <1>1 DEF TcpMsgAssumption, SentMsg
<1>6. Len(sq) <= Len(sn)
  BY <1>1 DEF SendPart
<1>7. ASSUME NEW i \in 1 .. Len(t)
      PROVE  LET e == L[t[i]]
             IN  /\ e.used /\ e.flag \in {"send", "buffered"} /\ e.peer = q
                 /\ e.num = Len(tn) - Len(t) + i /\ e.nbytes = tn[e.num].nbytes
                 /\ nleft(e) > 0 /\ (i > 1 => e.nhdr = HdrSize)
                 /\ e.flag = "send" => Named(H, t[i])
  <2>1. CASE i = Len(sq) + 1
    <3>1. t[i] = m /\ Len(tn) - Len(t) + i = Len(sn) + 1
      BY <1>3, <1>4, <2>1
    <3>2. nleft(L[m]) > 0
      BY <1>5 DEF Posts, nleft
    <3> QED BY Zenon, <1>3, <3>1, <3>2 DEF Posts
  <2>2. CASE i \in 1 .. Len(sq)
    <3>1. t[i] = sq[i] /\ Len(tn) - Len(t) = Len(sn) - Len(sq)
      BY <1>3, <1>4, <2>2
    <3>2. LET e == L[sq[i]]
          IN  /\ e.used /\ e.flag \in {"send", "buffered"} /\ e.peer = q
              /\ e.num = Len(sn) - Len(sq) + i /\ e.nbytes = sn[e.num].nbytes
              /\ nleft(e) > 0 /\ (i > 1 => e.nhdr = HdrSize)
              /\ e.flag = "send" => Named(H, sq[i])
      BY <1>1, <2>2 DEF SendPart
    <3>3. Len(sn) - Len(sq) + i \in 1 .. Len(sn)
      BY <1>3, <1>4, <1>6, <2>2
    <3>4. tn[Len(sn) - Len(sq) + i] = sn[Len(sn) - Len(sq) + i]
      BY <1>3, <3>3
    <3> QED BY <3>1, <3>2, <3>4
  <2>3. i = Len(sq) + 1 \/ i \in 1 .. Len(sq)
    BY <1>4
  <2> QED BY <2>1, <2>2, <2>3
<1>8. SendPart(L, H, t, tn, q)
  <2>1. Len(t) <= Len(tn)
    BY <1>3, <1>4, <1>6
  <2> QED BY <1>7, <2>1 DEF SendPart
<1>9. NextOut(L, t, tn) = NextOut(L, sq, sn)
  <2>1. Head(t) = t[1]
    BY <1>4
  <2>2. CASE sq = << >>
    <3>1. t[1] = m
      BY <1>4, <2>2
    <3>2. L[m].num = Len(sn) + 1 /\ Gone(L[m]) + 1 = 1
      BY <1>5 DEF Posts, Gone, nleft
    <3> QED BY <1>4, <2>1, <2>2, <3>1, <3>2 DEF NextOut
  <2>3. CASE sq # << >>
    <3>1. t[1] = sq[1] /\ Head(sq) = sq[1]
      BY <1>1, <1>4, <2>3
    <3> QED BY <1>4, <2>1, <2>3, <3>1 DEF NextOut
  <2> QED BY <2>2, <2>3
<1>10. ASSUME NEW w \in Seq(Nat \X Nat), WirePart(L, sq, sn, w) PROVE WirePart(L, t, tn, w)
  <2>1. \A i \in 1 .. Len(w) : /\ w[i][1] \in 1 .. Len(sn) /\ w[i][1] \in 1 .. Len(tn)
                               /\ Following(tn, w[i]) = Following(sn, w[i]) /\ tn[w[i][1]] = sn[w[i][1]]
    <3> TAKE i \in 1 .. Len(w)
    <3>1. w[i][1] \in 1 .. Len(sn)
      BY <1>10 DEF WirePart
    <3>2. tn[w[i][1]] = sn[w[i][1]] /\ w[i][1] \in 1 .. Len(tn)
      BY SMTT(30), <1>3, <3>1
    <3> QED BY <3>1, <3>2 DEF Following
  <2>2. \A i \in 1 .. Len(w) : /\ w[i][1] \in 1 .. Len(tn)
                               /\ w[i][2] \in 1 .. HdrSize + tn[w[i][1]].nbytes
                               /\ i < Len(w) => w[i + 1] = Following(tn, w[i])
    BY Zenon, <1>10, <2>1 DEF WirePart
  <2>3. w # << >> => NextOut(L, t, tn) = Following(tn, w[Len(w)])
    <3>1. w # << >> => Len(w) \in 1 .. Len(w)
      BY <1>10
    <3> QED BY <1>9, <1>10, <2>1, <3>1 DEF WirePart
  <2> QED BY <2>2, <2>3 DEF WirePart
<1>11. Grown(sn, tn)
  BY <1>3 DEF Grown
<1> QED BY <1>2, <1>3, <1>4, <1>8, <1>9, <1>10, <1>11

\* MP_ASend() and MP_ARecv() give out the handle of entry m.
GivesOut(p, m) ==
  /\ m \in Ids /\ pc[p] = "run" /\ todo[p] # << >> /\ Head(todo[p]).op \in {"asend", "arecv"}
  /\ todo' = [todo EXCEPT ![p] = Tail(@)]
  /\ handle' = [handle EXCEPT ![p] = Append(@, m)]
  /\ waited' = [waited EXCEPT ![p] = Append(@, << >>)]

\* What is known of a process that has done so.
GivenOut(p, m) ==
  /\ todo' \in [Proc -> Seq(CallType)] /\ handle' \in [Proc -> Seq(0 .. MaxMsgs)]
  /\ waited' \in [Proc -> Seq(Seq(EntryType))]
  /\ \A x \in Proc : x # p => todo'[x] = todo[x] /\ handle'[x] = handle[x] /\ waited'[x] = waited[x]
  /\ HandlePart(todo'[p], handle'[p], waited'[p], pc[p])
  /\ Named(handle'[p], m) /\ \A n : Named(handle[p], n) => Named(handle'[p], n)
  /\ \A n : n # m /\ Named(handle'[p], n) => Named(handle[p], n)

\* A call that gives out a handle leaves that.
LEMMA OneMoreHandle ==
  ASSUME TcpMsgAssumption, IInv, NEW p \in Proc, NEW m, GivesOut(p, m)
  PROVE  /\ GivenOut(p, m)
         /\ \A all : WaitedPart(waited[p], all, p) => WaitedPart(waited'[p], all, p)
<1>1. /\ Types /\ m \in Ids /\ pc[p] = "run" /\ todo[p] # << >> /\ Head(todo[p]).op \in {"asend", "arecv"}
      /\ todo' = [todo EXCEPT ![p] = Tail(@)]
      /\ handle' = [handle EXCEPT ![p] = Append(@, m)]
      /\ waited' = [waited EXCEPT ![p] = Append(@, << >>)]
      /\ HandlePart(todo[p], handle[p], waited[p], pc[p])
  BY DEF IInv, GivesOut, Always
<1>2. /\ todo \in [Proc -> Seq(CallType)] /\ handle \in [Proc -> Seq(0 .. MaxMsgs)]
      /\ waited \in [Proc -> Seq(Seq(EntryType))]
  BY Zenon, <1>1 DEF Types
<1>3. PICK t, H, W : t = todo[p] /\ H = handle[p] /\ W = waited[p]
  OBVIOUS
<1>4. t \in Seq(CallType) /\ t # << >> /\ H \in Seq(0 .. MaxMsgs) /\ W \in Seq(Seq(EntryType))
  BY <1>1, <1>2, <1>3
<1>5. PICK H2, W2 : H2 = Append(H, m) /\ W2 = Append(W, << >>)
  BY Zenon
<1>6. m \in 0 .. MaxMsgs
  <2>1. MaxMsgs \in Nat
    BY DEF TcpMsgAssumption
  <2> QED BY <1>1, <2>1 DEF Ids
<1>7. /\ H2 \in Seq(0 .. MaxMsgs) /\ Len(H2) = Len(H) + 1 /\ H2[Len(H) + 1] = m /\ Len(H) \in Nat
      /\ \A j \in 1 .. Len(H) : H2[j] = H[j]
  BY <1>4, <1>5, <1>6
<1>8. << >> \in Seq(EntryType)
  OBVIOUS
<1>9. /\ W2 \in Seq(Seq(EntryType)) /\ Len(W2) = Len(W) + 1 /\ W2[Len(W) + 1] = << >> /\ Len(W) \in Nat
      /\ \A j \in 1 .. Len(W) : W2[j] = W[j]
  BY <1>4, <1>5, <1>8
<1>10. todo' \in [Proc -> Seq(CallType)] /\ todo'[p] = Tail(t) /\ \A x \in Proc : x # p => todo'[x] = todo[x]
  <2>1. Tail(t) \in Seq(CallType)
    BY <1>4
  <2> QED BY <1>1, <1>2, <1>3, <2>1
<1>11. handle' \in [Proc -> Seq(0 .. MaxMsgs)] /\ handle'[p] = H2 /\ \A x \in Proc : x # p => handle'[x] = handle[x]
  BY <1>1, <1>2, <1>3, <1>5, <1>7
<1>12. waited' \in [Proc -> Seq(Seq(EntryType))] /\ waited'[p] = W2 /\ \A x \in Proc : x # p => waited'[x] = waited[x]
  BY <1>1, <1>2, <1>3, <1>5, <1>9
<1>13. HandlePart(Tail(t), H2, W2, pc[p])
  <2>1. NamesGiven(t, Len(H)) /\ Len(W) = Len(H)
    BY <1>1, <1>3 DEF HandlePart
  <2>2. NamesGiven(Tail(t), Len(H) + 1)
    BY Zenon, <1>1, <1>3, <1>4, <1>7, <2>1, NamesGivenNext
  <2> QED BY <1>1, <1>7, <1>9, <2>1, <2>2 DEF HandlePart
<1>14. Named(H2, m)
  <2>1. Len(H) + 1 \in 1 .. Len(H2)
    BY <1>7
  <2> QED BY <1>7, <2>1 DEF Named
<1>15. ASSUME NEW n, Named(H, n) PROVE Named(H2, n)
  <2>1. PICK j \in 1 .. Len(H) : H[j] = n
    BY <1>15 DEF Named
  <2>2. j \in 1 .. Len(H2) /\ H2[j] = n
    BY <1>7, <2>1
  <2> QED BY <2>2 DEF Named
<1>16. ASSUME NEW n, n # m, Named(H2, n) PROVE Named(H, n)
  <2>1. PICK j \in 1 .. Len(H2) : H2[j] = n
    BY <1>16 DEF Named
  <2>2. j \in 1 .. Len(H) /\ H[j] = n
    BY <1>7, <1>16, <2>1
  <2> QED BY <2>2 DEF Named
<1>17. ASSUME NEW all, WaitedPart(W, all, p) PROVE WaitedPart(W2, all, p)
  <2>1. \A i \in 1 .. Len(W2) : i = Len(W) + 1 \/ i \in 1 .. Len(W)
    BY <1>9
  <2> QED BY Zenon, <1>9, <1>17, <2>1 DEF WaitedPart
<1> QED BY <1>3, <1>10, <1>11, <1>12, <1>13, <1>14, <1>15, <1>16, <1>17 DEF GivenOut

\* A list of one task, for q, or none.
LEMMA OneTask ==
  ASSUME NEW call \in {"send", "recv"}, NEW q \in Proc, MaxMsgs \in Nat
  PROVE  /\ <<Task(call, q)>> \in Seq(TaskType) /\ <<Task(call, q)>> # << >>
         /\ Head(<<Task(call, q)>>).msg = 0 /\ Head(<<Task(call, q)>>).call = call
         /\ Head(<<Task(call, q)>>).node = q
         /\ HasTask(<<Task(call, q)>>, call, q)
         /\ \A S, R, p : q # p /\ (call = "send" => S[q] # << >>) /\ (call = "recv" => R[q] # << >>)
                           => TaskPart(<<Task(call, q)>>, S, R, p)
<1>1. PICK K : K = <<Task(call, q)>>
  BY Zenon
<1>2. Task(call, q) \in TaskType /\ Task(call, q).msg = 0 /\ Task(call, q).call = call /\ Task(call, q).node = q
  BY DEF Task, TaskType
<1>3. K \in Seq(TaskType) /\ Len(K) = 1 /\ K[1] = Task(call, q) /\ Head(K) = Task(call, q) /\ K # << >>
  BY <1>1, <1>2
<1>4. HasTask(K, call, q)
  <2>1. 1 \in 1 .. Len(K)
    BY <1>3
  <2> QED BY <1>2, <1>3, <2>1 DEF HasTask
<1>5. ASSUME NEW S, NEW R, NEW p, q # p, call = "send" => S[q] # << >>, call = "recv" => R[q] # << >>
      PROVE TaskPart(K, S, R, p)
  <2>1. \A i \in 1 .. Len(K) : i = 1
    BY <1>3
  <2> QED BY <1>2, <1>3, <1>5, <2>1 DEF TaskPart
<1> QED BY <1>1, <1>2, <1>3, <1>4, <1>5

\* Nothing to do.
LEMMA NoTask ==
  ASSUME NEW S, NEW R, NEW p
  PROVE  TaskPart(<< >>, S, R, p)
BY DEF TaskPart

\* MP_ASend() and MP_ARecv() take the call c and entry m.
Asks(p, c, m, op) ==
  /\ Calls(p, op) /\ EntryLeft(p) /\ c = Head(todo[p]) /\ m = NextId(p) /\ Create(p, m)
  /\ todo' = [todo EXCEPT ![p] = Tail(@)]
  /\ handle' = [handle EXCEPT ![p] = Append(@, m)]
  /\ waited' = [waited EXCEPT ![p] = Append(@, << >>)]

\* MP_ASend() to another process.
SentEntry(p, c) == [Entry("send", c.peer, c.tag, c.nbytes) EXCEPT !.num = Len(sent[p][c.peer]) + 1]

SendsTo(p, c, m) ==
  /\ Asks(p, c, m, "asend") /\ c.peer # p
  /\ sent' = [sent EXCEPT ![p][c.peer] = Append(@, [tag |-> c.tag, nbytes |-> c.nbytes])]
  /\ msg_list' = [msg_list EXCEPT ![p][m] = SentEntry(p, c)]
  /\ send_q' = [send_q EXCEPT ![p][c.peer] = Post(@, m)]
  /\ work' = IF wactive[p][c.peer] THEN work ELSE [work EXCEPT ![p] = <<Task("send", c.peer)>>]
  /\ UNCHANGED <<msg_q, pc, recv_q, ractive, wactive, netVars>>

\* What the two calls have in common.
LEMMA AskFacts ==
  ASSUME TcpMsgAssumption, IInv, NEW p \in Proc, NEW c, NEW m, NEW op \in {"asend", "arecv"}, Asks(p, c, m, op)
  PROVE  /\ Made(p, m) /\ GivenOut(p, m) /\ \A all : WaitedPart(waited[p], all, p) => WaitedPart(waited'[p], all, p)
         /\ work[p] = << >> /\ ~derailed[p] /\ pc[p] = "run" /\ m \in Ids
         /\ c.op = op /\ c \in CallType /\ c.peer \in Proc \cup {Wild} /\ c.tag \in Int /\ c.nbytes \in Nat
         /\ (op = "asend" => c.peer \in Proc)
<1>1. /\ Types /\ work[p] = << >> /\ ~derailed[p] /\ pc[p] = "run" /\ todo[p] # << >>
      /\ c = Head(todo[p]) /\ c.op = op /\ EntryLeft(p) /\ m = NextId(p) /\ Create(p, m)
  BY DEF IInv, Asks, Calls, Running
<1>2. Made(p, m)
  BY <1>1, NewEntry
<1>3. m \in Ids
  BY <1>2 DEF Made
<1>4. GivesOut(p, m)
  BY <1>1, <1>3 DEF GivesOut, Asks
<1>5. GivenOut(p, m) /\ \A all : WaitedPart(waited[p], all, p) => WaitedPart(waited'[p], all, p)
  BY <1>4, OneMoreHandle
<1>6. c \in CallType
  <2>1. todo[p] \in Seq(CallType)
    BY <1>1 DEF Types
  <2> QED BY <1>1, <2>1
<1>7. c.peer \in Proc \cup {Wild} /\ c.tag \in Int /\ c.nbytes \in Nat /\ (op = "asend" => c.peer \in Proc)
  BY <1>1, <1>6 DEF CallType
<1> QED BY <1>1, <1>2, <1>3, <1>5, <1>6, <1>7

\* The new entry of a message.
LEMMA SentEntryIs ==
  ASSUME TcpMsgAssumption, Types, NEW p \in Proc, NEW c, c.peer \in Proc, c.tag \in Int, c.nbytes \in Nat
  PROVE  /\ SentEntry(p, c) \in EntryType /\ SentEntry(p, c).used /\ SentEntry(p, c).flag = "send"
         /\ SentEntry(p, c).peer = c.peer /\ SentEntry(p, c).tag = c.tag /\ SentEntry(p, c).nbytes = c.nbytes
         /\ SentEntry(p, c).nhdr = HdrSize /\ SentEntry(p, c).left = c.nbytes /\ SentEntry(p, c).got = << >>
         /\ SentEntry(p, c).num = Len(sent[p][c.peer]) + 1
<1>1. sent[p][c.peer] \in Seq(SentMsg) /\ HdrSize \in 0 .. HdrSize
  BY SMTT(30) DEF Types, TcpMsgAssumption
<1>2. Len(sent[p][c.peer]) + 1 \in Nat /\ << >> \in Seq(Nat \X Nat)
  BY <1>1
<1> QED BY Zenon, <1>1, <1>2 DEF SentEntry, Entry, EntryType

\* MP_ASend() to another process.
LEMMA SendsToStep ==
  ASSUME TcpMsgAssumption, IInv, NEW p \in Proc, NEW c, NEW m, SendsTo(p, c, m)
  PROVE  IInv'
<1>1. /\ Asks(p, c, m, "asend") /\ c.peer # p
      /\ sent' = [sent EXCEPT ![p][c.peer] = Append(@, [tag |-> c.tag, nbytes |-> c.nbytes])]
      /\ msg_list' = [msg_list EXCEPT ![p][m] = SentEntry(p, c)]
      /\ send_q' = [send_q EXCEPT ![p][c.peer] = Append(@, m)]
      /\ work' = IF wactive[p][c.peer] THEN work ELSE [work EXCEPT ![p] = <<Task("send", c.peer)>>]
      /\ UNCHANGED <<msg_q, pc, recv_q, ractive, wactive, netVars>>
  BY DEF SendsTo, Post
<1>2. /\ Made(p, m) /\ GivenOut(p, m) /\ \A all : WaitedPart(waited[p], all, p) => WaitedPart(waited'[p], all, p)
      /\ work[p] = << >> /\ ~derailed[p] /\ pc[p] = "run" /\ m \in Ids
      /\ c.peer \in Proc /\ c.tag \in Int /\ c.nbytes \in Nat
  BY Zenon, <1>1, AskFacts
<1>3. PICK q \in Peers(p) : q = c.peer /\ q \in Proc /\ q # p
  BY <1>1, <1>2 DEF Peers
<1>4. /\ Types /\ Always(p) /\ History(p) /\ OnTrack(p) /\ MaxMsgs \in Nat /\ HdrSize \in Nat \ {0}
      /\ \A y \in Peers(p) : In(p, y) /\ Out(p, y) /\ y \in Proc /\ y # p
  BY <1>2 DEF IInv, Peers, TcpMsgAssumption
<1>5. PICK e : e = SentEntry(p, c)
  OBVIOUS
<1>6. /\ e \in EntryType /\ e.used /\ e.flag = "send" /\ e.peer = q /\ e.nbytes = c.nbytes
      /\ e.nhdr = HdrSize /\ e.left = c.nbytes /\ e.got = << >> /\ e.num = Len(sent[p][q]) + 1
  BY <1>2, <1>3, <1>4, <1>5, SentEntryIs
<1>7. /\ msg_list' \in [Proc -> [Ids -> EntryType]]
      /\ \A x \in Proc : x # p => msg_list'[x] = msg_list[x]
      /\ \A n \in Ids : msg_list'[p][n] = IF n = m THEN e ELSE msg_list[p][n]
  <2>1. msg_list' = [msg_list EXCEPT ![p][m] = e]
    BY <1>1, <1>5
  <2>2. Types /\ m \in Ids /\ e \in EntryType
    BY <1>2, <1>4, <1>6
  <2> QED BY Zenon, <2>1, <2>2, OneEntry
<1>8. Adds(p, m)
  BY <1>2, <1>6, <1>7 DEF Adds
<1>9. PICK L, L2, H, H2 : L = msg_list[p] /\ L2 = msg_list'[p] /\ H = handle[p] /\ H2 = handle'[p]
  OBVIOUS
<1>10. /\ EntryPart(L2, p)
       /\ \A y \in Proc : \A j \in 1 .. Len(msg_q[p][y]) : L2[msg_q[p][y][j]] = L[msg_q[p][y][j]]
       /\ ~derailed'[p] => \A y \in Proc \cup {Wild} : \A j \in 1 .. Len(recv_q[p][y]) :
                               L2[recv_q[p][y][j]] = L[recv_q[p][y][j]]
  <2>1. /\ EntryPart(msg_list'[p], p)
        /\ \A y \in Proc : \A j \in 1 .. Len(msg_q[p][y]) :
             msg_list'[p][msg_q[p][y][j]] = msg_list[p][msg_q[p][y][j]]
        /\ ~derailed'[p] => \A y \in Proc \cup {Wild} : \A j \in 1 .. Len(recv_q[p][y]) :
             msg_list'[p][recv_q[p][y][j]] = msg_list[p][recv_q[p][y][j]]
    BY Zenon, <1>8, AddsKept
  <2> QED BY Zenon, <1>9, <2>1
<1>11. /\ todo' \in [Proc -> Seq(CallType)] /\ handle' \in [Proc -> Seq(0 .. MaxMsgs)]
       /\ waited' \in [Proc -> Seq(Seq(EntryType))]
       /\ \A x \in Proc : x # p => todo'[x] = todo[x] /\ handle'[x] = handle[x] /\ waited'[x] = waited[x]
       /\ HandlePart(todo'[p], H2, waited'[p], pc[p]) /\ Named(H2, m)
       /\ \A n : Named(H, n) => Named(H2, n)
       /\ \A n : n # m /\ Named(H2, n) => Named(H, n)
  BY Zenon, <1>2, <1>9 DEF GivenOut
<1>12. /\ ~derailed'[p] => WildPart(L2, recv_q[p][Wild])
       /\ \A y \in Proc : MsgPart(L2, H2, msg_q[p][y], recv_q[p][y], p, y)
       /\ \A y \in Peers(p) :
            /\ SendPart(L2, H2, send_q[p][y], sent[p][y], y)
            /\ WirePart(L2, send_q[p][y], sent[p][y], wire[p][y])
            /\ NextOut(L2, send_q[p][y], sent[p][y]) = NextOut(L, send_q[p][y], sent[p][y])
  BY Zenon, <1>8, <1>9, <1>11, AddsParts
<1>13. PICK h, sn, sq : h = [tag |-> c.tag, nbytes |-> c.nbytes] /\ sn = sent[p][q] /\ sq = send_q[p][q]
  BY Zenon
<1>14. /\ sent \in [Proc -> [Proc -> Seq(SentMsg)]] /\ send_q \in [Proc -> [Proc -> Seq(Ids)]]
       /\ wire \in [Proc -> [Proc -> Seq(Nat \X Nat)]] /\ work \in [Proc -> Seq(TaskType)]
  BY Zenon, <1>4 DEF Types
<1>15. Posts(L2, H2, sq, sn, q, m, h)
  <2>1. h \in SentMsg /\ h.nbytes = c.nbytes
    BY <1>2, <1>13 DEF SentMsg
  <2>2. sn \in Seq(SentMsg) /\ sq \in Seq(Ids)
    BY SMTT(30), <1>3, <1>13, <1>14
  <2>3. L2[m] = e
    BY <1>2, <1>7, <1>9
  <2> QED BY Zenon, <1>2, <1>3, <1>6, <1>11, <1>12, <1>13, <2>1, <2>2, <2>3 DEF Posts
<1>16. PICK sn2, sq2 : sn2 = Append(sn, h) /\ sq2 = Append(sq, m)
  BY Zenon
<1>17. /\ SendPart(L2, H2, sq2, sn2, q) /\ NextOut(L2, sq2, sn2) = NextOut(L2, sq, sn)
       /\ \A w : w \in Seq(Nat \X Nat) /\ WirePart(L2, sq, sn, w) => WirePart(L2, sq2, sn2, w)
       /\ sn2 \in Seq(SentMsg) /\ sq2 \in Seq(Ids) /\ sq2 # << >> /\ Grown(sn, sn2)
  BY <1>15, <1>16, Posted
<1>18. /\ sent' \in [Proc -> [Proc -> Seq(SentMsg)]] /\ sent'[p][q] = sn2
       /\ \A x \in Proc : x # p => sent'[x] = sent[x]
       /\ \A y \in Proc : y # q => sent'[p][y] = sent[p][y]
  BY Zenon, <1>1, <1>3, <1>13, <1>14, <1>16, <1>17
<1>19. /\ send_q' \in [Proc -> [Proc -> Seq(Ids)]] /\ send_q'[p][q] = sq2
       /\ \A x \in Proc : x # p => send_q'[x] = send_q[x]
       /\ \A y \in Proc : y # q => send_q'[p][y] = send_q[p][y]
  BY Zenon, <1>1, <1>3, <1>13, <1>14, <1>16, <1>17
<1>20. /\ msg_q' = msg_q /\ pc' = pc /\ recv_q' = recv_q /\ ractive' = ractive /\ wactive' = wactive
       /\ wire' = wire /\ avail' = avail /\ sigio' = sigio
  BY <1>1 DEF netVars
<1>21. /\ work' \in [Proc -> Seq(TaskType)] /\ \A x \in Proc : x # p => work'[x] = work[x]
       /\ TaskPart(work'[p], send_q'[p], recv_q[p], p)
       /\ work'[p] # << >> => Head(work'[p]).call = "send" /\ Head(work'[p]).msg = 0
  <2>1. CASE wactive[p][q]
    <3>1. work' = work
      BY <1>1, <1>3, <2>1
    <3>2. TaskPart(work'[p], send_q'[p], recv_q[p], p)
      BY <1>2, <3>1, NoTask
    <3> QED BY <1>2, <1>14, <3>1, <3>2
  <2>2. CASE ~wactive[p][q]
    <3>1. PICK K : K = <<Task("send", q)>>
      BY Zenon
    <3>2. K \in Seq(TaskType) /\ Head(K).call = "send" /\ Head(K).msg = 0 /\ TaskPart(K, send_q'[p], recv_q[p], p)
      BY Zenon, <1>3, <1>4, <1>17, <1>19, <3>1, OneTask
    <3>3. work' = [work EXCEPT ![p] = K]
      BY <1>1, <1>3, <2>2, <3>1
    <3> QED BY <1>14, <3>2, <3>3
  <2> QED BY <2>1, <2>2
<1>22. Types'
  BY Zenon, <1>2, <1>4, <1>7, <1>11, <1>18, <1>19, <1>20, <1>21 DEF Types, Made
<1>23. \A x \in Peers(p) : SameRows(x)
  BY <1>2, <1>7, <1>11, <1>19, <1>20, <1>21 DEF SameRows, Peers, Made
<1>24. \A y \in Proc : \A n \in Ids : Contains(send_q[p][y], n) => Contains(send_q'[p][y], n)
  <2>1. TAKE y \in Proc
  <2>2. TAKE n \in Ids
  <2>3. CASE y # q
    BY <1>19, <2>3
  <2>4. CASE y = q
    <3>1. SUFFICES ASSUME Contains(sq, n) PROVE Contains(sq2, n)
      BY <1>13, <1>19, <2>4
    <3>2. sq \in Seq(Ids)
      BY ZenonT(30), <1>3, <1>13, <1>14
    <3>3. PICK j \in 1 .. Len(sq) : sq[j] = n
      BY <3>1, <3>2, ContainsIs
    <3>4. j \in 1 .. Len(sq2) /\ sq2[j] = n
      BY <1>2, <1>16, <3>2, <3>3
    <3> QED BY <1>17, <3>4, ContainsIs
  <2> QED BY <2>3, <2>4
<1>25. Contains(send_q'[p][q], m)
  <2>1. sq \in Seq(Ids)
    BY <1>3, <1>13, <1>14
  <2>2. Len(sq) + 1 \in 1 .. Len(sq2) /\ sq2[Len(sq) + 1] = m
    BY <1>2, <1>16, <2>1
  <2> QED BY <1>17, <1>19, <2>2, ContainsIs
<1>26. Always(p)'
  <2>1. /\ OwnPart(send_q[p], recv_q[p], ractive[p], wactive[p], wire[p], avail[p], p)
        /\ QueuedPart(L, send_q[p]) /\ KeptPart(L, H, send_q[p], msg_q[p])
        /\ ActivePart(send_q[p], recv_q[p], ractive[p], wactive[p])
    BY <1>4, <1>9 DEF Always
  <2>2. OwnPart(send_q'[p], recv_q[p], ractive[p], wactive[p], wire[p], avail[p], p)
    BY <1>3, <1>19, <2>1 DEF OwnPart
  <2>3. QueuedPart(L2, send_q'[p])
    <3>1. SUFFICES ASSUME NEW n \in Ids, L2[n].used, L2[n].flag \in {"send", "buffered"}, nleft(L2[n]) > 0
                   PROVE \E y \in Proc : Contains(send_q'[p][y], n)
      BY DEF QueuedPart
    <3>2. CASE n = m
      BY <1>3, <1>25, <3>2
    <3>3. CASE n # m
      <4>1. L2[n] = L[n]
        BY <1>7, <1>9, <3>3
      <4>2. PICK y \in Proc : Contains(send_q[p][y], n)
        BY <2>1, <3>1, <4>1 DEF QueuedPart
      <4> QED BY <1>24, <4>2
    <3> QED BY <3>2, <3>3
  <2>4. KeptPart(L2, H2, send_q'[p], msg_q[p])
    BY Zenon, <1>7, <1>9, <1>11, <1>24, <2>1 DEF KeptPart
  <2>5. ActivePart(send_q'[p], recv_q[p], ractive[p], wactive[p])
    BY Zenon, <1>17, <1>19, <2>1 DEF ActivePart
  <2> QED BY <1>9, <1>10, <1>11, <1>20, <1>21, <2>2, <2>3, <2>4, <2>5 DEF Always
<1>27. \A s, t \in Proc : Grown(sent[s][t], sent'[s][t])
  <2> TAKE s, t \in Proc
  <2>1. CASE s = p /\ t = q
    BY <1>13, <1>17, <1>18, <2>1
  <2>2. CASE ~(s = p /\ t = q)
    <3>1. sent'[s][t] = sent[s][t]
      BY Zenon, <1>18, <2>2
    <3>2. sent[s][t] \in Seq(SentMsg)
      BY <1>14
    <3> QED BY <3>1, <3>2 DEF Grown
  <2> QED BY <2>1, <2>2
<1>28. History(p)'
  <2>1. ContentPart(L, sent', p) /\ WaitedPart(waited[p], sent', p)
    BY Zenon, <1>4, <1>9, <1>14, <1>18, <1>27, GrownHistory DEF History
  <2>2. ContentPart(L2, sent', p)
    BY <1>3, <1>6, <1>7, <1>9, <2>1 DEF ContentPart
  <2> QED BY <1>2, <1>9, <2>1, <2>2 DEF History
<1>29. ~derailed'[p] => OnTrack(p)'
  <2>1. PcPart(L2, todo'[p], H2, pc[p])
    BY <1>2 DEF PcPart
  <2> QED BY <1>9, <1>12, <1>20, <2>1 DEF OnTrack
<1>30. ASSUME ~derailed'[p], NEW y \in Peers(p) PROVE In(p, y)'
  <2>1. In(p, y) /\ y \in Proc /\ y # p
    BY <1>4
  <2>2. SignalPart(work[p], ractive[p], wactive[p], recv_q[p][Wild], Len(wire[p][y]) < SockCap,
                    avail[y][p], sigio[p], y)
    BY <2>1 DEF In
  <2>3. SignalPart(work[p], ractive[p], wactive[p], recv_q[p][Wild], Len(wire[p][y]) < SockCap,
                    avail[y][p], sigio[p], y)'
    BY <1>2, <1>20, <2>2 DEF SignalPart, HasTask
  <2>4. \A i \in 1 .. Len(recv_q[p][y]) : SameBut(msg_list[p][recv_q[p][y][i]], msg_list'[p][recv_q[p][y][i]])
    BY Zenon, <1>9, <1>10, <1>30, <2>1, SameIsSame
  <2>5. \A i \in 1 .. Len(msg_q'[p][y]) :
           /\ SameBut(msg_list[p][msg_q'[p][y][i]], msg_list'[p][msg_q'[p][y][i]])
           /\ \E j \in 1 .. Len(msg_q[p][y]) : msg_q'[p][y][i] = msg_q[p][y][j]
    BY <1>9, <1>10, <1>20, <2>1, SameIsSame
  <2>6. ~AtRecv(work[p], y) /\ ~(AtRecv(work'[p], y) /\ Head(work'[p]).msg # 0)
    BY <1>2, <1>21 DEF AtRecv
  <2>7. /\ recv_q'[p][y] = recv_q[p][y] /\ ractive'[p][y] = ractive[p][y] /\ wire'[y][p] = wire[y][p]
        /\ avail'[y][p] = avail[y][p] /\ sent'[y][p] = sent[y][p] /\ msg_list'[y] = msg_list[y]
        /\ send_q'[y] = send_q[y]
    BY Zenon, <1>7, <1>18, <1>19, <1>20, <2>1
  <2> QED BY Zenon, <1>4, <2>1, <2>3, <2>4, <2>5, <2>6, <2>7, InSame
<1>31. SendParts(p)
  <2>1. ASSUME NEW y \in Peers(p)
        PROVE  /\ SendPart(L2, H2, send_q'[p][y], sent'[p][y], y)
               /\ WirePart(L2, send_q'[p][y], sent'[p][y], wire[p][y])
               /\ NextOut(L2, send_q'[p][y], sent'[p][y]) = NextOut(L, send_q[p][y], sent[p][y])
    <3>1. y \in Proc
      BY <1>4
    <3>2. CASE y # q
      BY <1>12, <1>18, <1>19, <3>1, <3>2
    <3>3. CASE y = q
      <4>1. wire[p][q] \in Seq(Nat \X Nat)
        BY <1>3, <1>14
      <4>2. WirePart(L2, sq, sn, wire[p][q]) /\ NextOut(L2, sq, sn) = NextOut(L, sq, sn)
        BY <1>3, <1>12, <1>13
      <4>3. WirePart(L2, sq2, sn2, wire[p][q])
        BY <1>17, <4>1, <4>2
      <4> QED BY Zenon, <1>13, <1>17, <1>18, <1>19, <3>3, <4>2, <4>3
    <3> QED BY <3>2, <3>3
  <2>2. ASSUME NEW y \in Peers(p) PROVE Len(wire[p][y]) <= SockCap /\ avail[p][y] <= Len(wire[p][y])
    BY <1>4 DEF Out
  <2> QED BY <1>9, <1>20, <2>1, <2>2 DEF SendParts, Out
<1>32. Quiet(p)
  <2>1. \A x \in Peers(p) : SameRows(x) /\ sigio'[x] = sigio[x] /\ sent'[x] = sent[x]
    BY <1>18, <1>20, <1>23 DEF Peers
  <2> QED BY <1>20, <1>27, <2>1 DEF Quiet
<1> QED BY <1>22, <1>26, <1>28, <1>29, <1>30, <1>31, <1>32, OwnStep DEF OwnParts

\* MP_ASend() to oneself: what goes to msg_q at once.
OwnEntry(p, c) ==
  LET k == Len(sent[p][c.peer]) + 1
  IN  [SentEntry(p, c) EXCEPT !.flag = "buffered", !.nhdr = 0, !.left = 0,
                              !.got = [i \in 1 .. c.nbytes |-> <<k, HdrSize + i>>]]

SendsOwn(p, c, m) ==
  /\ Asks(p, c, m, "asend") /\ c.peer = p
  /\ sent' = [sent EXCEPT ![p][c.peer] = Append(@, [tag |-> c.tag, nbytes |-> c.nbytes])]
  /\ msg_list' = [msg_list EXCEPT ![p][m] = OwnEntry(p, c)]
  /\ msg_q' = [msg_q EXCEPT ![p][p] = Post(@, m)]
  /\ UNCHANGED <<send_q, work, pc, recv_q, ractive, wactive, netVars>>

\* The new entry.
OwnNew(p, c, e) ==
  /\ e \in EntryType /\ e.used /\ e.flag = "buffered"
  /\ e.peer = c.peer /\ e.tag = c.tag /\ e.nbytes = c.nbytes
  /\ e.nhdr = 0 /\ e.left = 0 /\ e.num = Len(sent[p][c.peer]) + 1
  /\ e.got = [i \in 1 .. c.nbytes |-> <<Len(sent[p][c.peer]) + 1, HdrSize + i>>]

\* It has what the call asks for.
LEMMA OwnEntryIs ==
  ASSUME TcpMsgAssumption, Types, NEW p \in Proc, NEW c, c.peer \in Proc, c.tag \in Int, c.nbytes \in Nat
  PROVE  OwnNew(p, c, OwnEntry(p, c))
<1>1. PICK e : e = SentEntry(p, c)
  OBVIOUS
<1>2. /\ e \in EntryType /\ e.used /\ e.peer = c.peer /\ e.tag = c.tag /\ e.nbytes = c.nbytes
      /\ e.num = Len(sent[p][c.peer]) + 1
  BY <1>1, SentEntryIs
<1>3. PICK k : k = Len(sent[p][c.peer]) + 1
  OBVIOUS
<1>4. k \in Nat
  <2>1. sent[p][c.peer] \in Seq(SentMsg)
    BY SMTT(30) DEF Types
  <2> QED BY <1>3, <2>1
<1>5. PICK g : g = [i \in 1 .. c.nbytes |-> <<k, HdrSize + i>>]
  OBVIOUS
<1>6. g \in Seq(Nat \X Nat)
  <2>1. HdrSize \in Nat /\ c.nbytes \in Nat
    BY DEF TcpMsgAssumption
  <2> QED BY Zenon, <1>4, <1>5, <2>1, UnitsOnWire
<1>7. 0 \in 0 .. HdrSize
  BY DEF TcpMsgAssumption
<1>8. OwnEntry(p, c) = [e EXCEPT !.flag = "buffered", !.nhdr = 0, !.left = 0, !.got = g]
  BY <1>1, <1>3, <1>5 DEF OwnEntry
<1>9. PICK o : o = OwnEntry(p, c)
  OBVIOUS
<1>10. /\ o.used = e.used /\ o.flag = "buffered" /\ o.peer = e.peer /\ o.tag = e.tag /\ o.nbytes = e.nbytes
       /\ o.nhdr = 0 /\ o.left = 0 /\ o.num = e.num /\ o.got = g
  BY Zenon, <1>2, <1>8, <1>9 DEF EntryType
<1>11. o \in EntryType
  <2>1. PICK e1 : e1 = [e EXCEPT !.flag = "buffered", !.nhdr = 0]
    OBVIOUS
  <2>2. e1 \in EntryType
    BY Zenon, <1>2, <1>7, <2>1 DEF EntryType
  <2>3. o = [e1 EXCEPT !.left = 0, !.got = g]
    BY <1>8, <1>9, <2>1
  <2> QED BY Zenon, <1>6, <2>2, <2>3 DEF EntryType
<1> QED BY ZenonT(30), <1>2, <1>3, <1>5, <1>9, <1>10, <1>11 DEF OwnNew

\* The messages a process sent to itself, with one more, m.
LEMMA OwnPosted ==
  ASSUME NEW L, NEW H, NEW H2, NEW mq \in Seq(Ids), NEW rq, NEW p, NEW m \in Ids,
         MsgPart(L, H, mq, rq, p, p), \A j \in 1 .. Len(mq) : mq[j] # m,
         L[m].used, L[m].peer = p, L[m].flag = "buffered", Complete(L[m])
  PROVE  MsgPart(L, H2, Append(mq, m), rq, p, p) /\ Append(mq, m) \in Seq(Ids)
<1>1. PICK t : t = Append(mq, m)
  BY Zenon
<1>2. /\ t \in Seq(Ids) /\ Len(t) = Len(mq) + 1 /\ t[Len(mq) + 1] = m /\ Len(mq) \in Nat
      /\ \A j \in 1 .. Len(mq) : t[j] = mq[j]
  BY <1>1
<1>3. \A j \in 1 .. Len(t) : j = Len(mq) + 1 \/ j \in 1 .. Len(mq)
  BY <1>2
<1>4. Once(t)
  BY <1>2, <1>3 DEF Once, MsgPart
<1>5. ASSUME NEW i \in 1 .. Len(t)
      PROVE L[t[i]].used /\ L[t[i]].peer = p /\ L[t[i]].flag = "buffered" /\ Complete(L[t[i]])
  <2>1. CASE i = Len(mq) + 1
    BY <1>2, <2>1
  <2>2. CASE i \in 1 .. Len(mq)
    BY <1>2, <2>2 DEF MsgPart
  <2> QED BY <1>3, <2>1, <2>2
<1> QED BY <1>1, <1>2, <1>4, <1>5 DEF MsgPart

\* MP_ASend() to oneself.
LEMMA SendsOwnStep ==
  ASSUME TcpMsgAssumption, IInv, NEW p \in Proc, NEW c, NEW m, SendsOwn(p, c, m)
  PROVE  IInv'
<1>1. /\ Asks(p, c, m, "asend") /\ c.peer = p
      /\ sent' = [sent EXCEPT ![p][c.peer] = Append(@, [tag |-> c.tag, nbytes |-> c.nbytes])]
      /\ msg_list' = [msg_list EXCEPT ![p][m] = OwnEntry(p, c)]
      /\ msg_q' = [msg_q EXCEPT ![p][p] = Append(@, m)]
      /\ UNCHANGED <<send_q, work, pc, recv_q, ractive, wactive, netVars>>
  BY DEF SendsOwn, Post
<1>2. /\ Made(p, m) /\ GivenOut(p, m) /\ \A all : WaitedPart(waited[p], all, p) => WaitedPart(waited'[p], all, p)
      /\ work[p] = << >> /\ ~derailed[p] /\ pc[p] = "run" /\ m \in Ids
      /\ c.peer \in Proc /\ c.tag \in Int /\ c.nbytes \in Nat
  BY Zenon, <1>1, AskFacts
<1>4. /\ Types /\ Always(p) /\ History(p) /\ OnTrack(p) /\ MaxMsgs \in Nat /\ HdrSize \in Nat \ {0}
      /\ \A y \in Peers(p) : In(p, y) /\ Out(p, y) /\ y \in Proc /\ y # p
  BY <1>2 DEF IInv, Peers, TcpMsgAssumption
<1>5. PICK e : e = OwnEntry(p, c)
  OBVIOUS
<1>6. /\ e \in EntryType /\ e.used /\ e.flag = "buffered" /\ e.peer = p /\ e.nbytes = c.nbytes /\ e.tag = c.tag
      /\ e.nhdr = 0 /\ e.left = 0 /\ e.num = Len(sent[p][p]) + 1
      /\ e.got = [i \in 1 .. c.nbytes |-> <<Len(sent[p][p]) + 1, HdrSize + i>>]
  <2>1. OwnNew(p, c, e)
    BY Zenon, <1>2, <1>4, <1>5, OwnEntryIs
  <2>2. c.peer = p
    BY Zenon, <1>1
  <2> QED BY Zenon, <2>1, <2>2 DEF OwnNew
<1>7. /\ msg_list' \in [Proc -> [Ids -> EntryType]]
      /\ \A x \in Proc : x # p => msg_list'[x] = msg_list[x]
      /\ \A n \in Ids : msg_list'[p][n] = IF n = m THEN e ELSE msg_list[p][n]
  <2>1. msg_list' = [msg_list EXCEPT ![p][m] = e]
    BY <1>1, <1>5
  <2>2. Types /\ m \in Ids /\ e \in EntryType
    BY <1>2, <1>4, <1>6
  <2> QED BY Zenon, <2>1, <2>2, OneEntry
<1>8. Adds(p, m)
  BY <1>2, <1>6, <1>7 DEF Adds
<1>9. PICK L, L2, H, H2 : L = msg_list[p] /\ L2 = msg_list'[p] /\ H = handle[p] /\ H2 = handle'[p]
  OBVIOUS
<1>91. L2[m] = e /\ Complete(e) /\ \A n \in Ids : n # m => L2[n] = L[n]
  BY <1>2, <1>6, <1>7, <1>9 DEF Complete, nleft
<1>10. /\ EntryPart(L2, p)
       /\ \A y \in Proc : \A j \in 1 .. Len(msg_q[p][y]) : L2[msg_q[p][y][j]] = L[msg_q[p][y][j]]
       /\ ~derailed'[p] => \A y \in Proc \cup {Wild} : \A j \in 1 .. Len(recv_q[p][y]) :
                               L2[recv_q[p][y][j]] = L[recv_q[p][y][j]]
  <2>1. /\ EntryPart(msg_list'[p], p)
        /\ \A y \in Proc : \A j \in 1 .. Len(msg_q[p][y]) :
             msg_list'[p][msg_q[p][y][j]] = msg_list[p][msg_q[p][y][j]]
        /\ ~derailed'[p] => \A y \in Proc \cup {Wild} : \A j \in 1 .. Len(recv_q[p][y]) :
             msg_list'[p][recv_q[p][y][j]] = msg_list[p][recv_q[p][y][j]]
    BY Zenon, <1>8, AddsKept
  <2> QED BY Zenon, <1>9, <2>1
<1>11. /\ todo' \in [Proc -> Seq(CallType)] /\ handle' \in [Proc -> Seq(0 .. MaxMsgs)]
       /\ waited' \in [Proc -> Seq(Seq(EntryType))]
       /\ \A x \in Proc : x # p => todo'[x] = todo[x] /\ handle'[x] = handle[x] /\ waited'[x] = waited[x]
       /\ HandlePart(todo'[p], H2, waited'[p], pc[p]) /\ Named(H2, m)
       /\ \A n : Named(H, n) => Named(H2, n)
       /\ \A n : n # m /\ Named(H2, n) => Named(H, n)
  BY Zenon, <1>2, <1>9 DEF GivenOut
<1>12. /\ ~derailed'[p] => WildPart(L2, recv_q[p][Wild])
       /\ \A y \in Proc : MsgPart(L2, H2, msg_q[p][y], recv_q[p][y], p, y)
       /\ \A y \in Peers(p) :
            /\ SendPart(L2, H2, send_q[p][y], sent[p][y], y)
            /\ WirePart(L2, send_q[p][y], sent[p][y], wire[p][y])
            /\ NextOut(L2, send_q[p][y], sent[p][y]) = NextOut(L, send_q[p][y], sent[p][y])
  BY Zenon, <1>8, <1>9, <1>11, AddsParts
<1>13. PICK h, sn, mq : h = [tag |-> c.tag, nbytes |-> c.nbytes] /\ sn = sent[p][p] /\ mq = msg_q[p][p]
  BY Zenon
<1>14. /\ sent \in [Proc -> [Proc -> Seq(SentMsg)]] /\ msg_q \in [Proc -> [Proc -> Seq(Ids)]]
  BY Zenon, <1>4 DEF Types
<1>15. mq \in Seq(Ids) /\ sn \in Seq(SentMsg) /\ h \in SentMsg
  BY <1>2, <1>13, <1>14 DEF SentMsg
<1>16. PICK sn2, mq2 : sn2 = Append(sn, h) /\ mq2 = Append(mq, m)
  BY Zenon
<1>17. MsgPart(L2, H2, mq2, recv_q[p][p], p, p) /\ mq2 \in Seq(Ids)
  <2>1. MsgPart(L2, H2, mq, recv_q[p][p], p, p)
    BY <1>12, <1>13
  <2>2. \A j \in 1 .. Len(mq) : mq[j] # m
    BY <1>2, <1>13 DEF Made
  <2> QED BY Zenon, <1>2, <1>6, <1>15, <1>16, <1>91, <2>1, <2>2, OwnPosted
<1>18. sn2 \in Seq(SentMsg) /\ Len(sn2) = Len(sn) + 1 /\ sn2[Len(sn) + 1] = h /\ Grown(sn, sn2) /\ Len(sn) \in Nat
  <2>1. /\ sn2 \in Seq(SentMsg) /\ Len(sn2) = Len(sn) + 1 /\ sn2[Len(sn) + 1] = h /\ Len(sn) \in Nat
        /\ \A n \in 1 .. Len(sn) : sn2[n] = sn[n]
    BY <1>15, <1>16
  <2> QED BY <2>1 DEF Grown
<1>19. /\ sent' \in [Proc -> [Proc -> Seq(SentMsg)]] /\ sent'[p][p] = sn2
       /\ \A x \in Proc : x # p => sent'[x] = sent[x]
       /\ \A y \in Proc : y # p => sent'[p][y] = sent[p][y]
  BY <1>1, <1>13, <1>14, <1>16, <1>18
<1>20. /\ msg_q' \in [Proc -> [Proc -> Seq(Ids)]] /\ msg_q'[p][p] = mq2
       /\ \A x \in Proc : x # p => msg_q'[x] = msg_q[x]
       /\ \A y \in Proc : y # p => msg_q'[p][y] = msg_q[p][y]
  BY Zenon, <1>1, <1>13, <1>14, <1>16, <1>17
<1>21. /\ send_q' = send_q /\ work' = work /\ pc' = pc /\ recv_q' = recv_q /\ ractive' = ractive
       /\ wactive' = wactive /\ wire' = wire /\ avail' = avail /\ sigio' = sigio
  BY <1>1 DEF netVars
<1>22. Types'
  BY Zenon, <1>2, <1>4, <1>7, <1>11, <1>19, <1>20, <1>21 DEF Types, Made
<1>23. \A x \in Peers(p) : SameRows(x)
  BY <1>2, <1>7, <1>11, <1>20, <1>21 DEF SameRows, Peers, Made
<1>24. \A y \in Proc : \A n \in Ids : Contains(msg_q[p][y], n) => Contains(msg_q'[p][y], n)
  <2>1. TAKE y \in Proc
  <2>2. TAKE n \in Ids
  <2>3. CASE y # p
    BY <1>20, <2>3
  <2>4. CASE y = p
    <3>1. SUFFICES ASSUME Contains(mq, n) PROVE Contains(mq2, n)
      BY <1>13, <1>20, <2>4
    <3>2. PICK j \in 1 .. Len(mq) : mq[j] = n
      BY <1>15, <3>1, ContainsIs
    <3>3. j \in 1 .. Len(mq2) /\ mq2[j] = n
      BY <1>2, <1>15, <1>16, <3>2
    <3> QED BY <1>17, <3>3, ContainsIs
  <2> QED BY <2>3, <2>4
<1>26. Always(p)'
  <2>1. /\ OwnPart(send_q[p], recv_q[p], ractive[p], wactive[p], wire[p], avail[p], p)
        /\ QueuedPart(L, send_q[p]) /\ KeptPart(L, H, send_q[p], msg_q[p])
        /\ ActivePart(send_q[p], recv_q[p], ractive[p], wactive[p])
        /\ TaskPart(work[p], send_q[p], recv_q[p], p)
    BY <1>4, <1>9 DEF Always
  <2>3. QueuedPart(L2, send_q[p])
    <3>1. SUFFICES ASSUME NEW n \in Ids, L2[n].used, L2[n].flag \in {"send", "buffered"}, nleft(L2[n]) > 0
                   PROVE \E y \in Proc : Contains(send_q[p][y], n)
      BY DEF QueuedPart
    <3>2. CASE n = m
      BY <1>91, <3>1, <3>2 DEF Complete
    <3>3. CASE n # m
      BY <1>91, <2>1, <3>1, <3>3 DEF QueuedPart
    <3> QED BY <3>2, <3>3
  <2>4. KeptPart(L2, H2, send_q[p], msg_q'[p])
    BY Zenon, <1>11, <1>24, <1>91, <2>1 DEF KeptPart
  <2> QED BY Zenon, <1>9, <1>10, <1>11, <1>21, <2>1, <2>3, <2>4 DEF Always
<1>27. \A s, t \in Proc : Grown(sent[s][t], sent'[s][t])
  <2> TAKE s, t \in Proc
  <2>1. CASE s = p /\ t = p
    BY <1>13, <1>18, <1>19, <2>1
  <2>2. CASE ~(s = p /\ t = p)
    <3>1. sent'[s][t] = sent[s][t]
      BY <1>19, <2>2
    <3>2. sent[s][t] \in Seq(SentMsg)
      BY <1>14
    <3> QED BY <3>1, <3>2 DEF Grown
  <2> QED BY <2>1, <2>2
<1>28. History(p)'
  <2>1. ContentPart(L, sent', p) /\ WaitedPart(waited[p], sent', p)
    BY Zenon, <1>4, <1>9, <1>14, <1>19, <1>27, GrownHistory DEF History
  <2>2. Holds(e, sent', p)
    <3>1. e.num = Len(sn) + 1 /\ e.num \in 1 .. Len(sn2) /\ sn2[e.num] = h
      BY <1>6, <1>13, <1>18
    <3>2. e.nbytes - e.left = c.nbytes
      BY <1>2, <1>6
    <3>3. h.tag = e.tag /\ h.nbytes = e.nbytes
      BY <1>6, <1>13
    <3>4. e.got = [u \in 1 .. e.nbytes - e.left |-> <<e.num, HdrSize + u>>]
      BY <1>6, <3>2
    <3> QED BY <1>6, <1>19, <3>1, <3>3, <3>4 DEF Holds
  <2>3. ContentPart(L2, sent', p)
    BY <1>91, <2>1, <2>2 DEF ContentPart
  <2> QED BY <1>2, <1>9, <2>1, <2>3 DEF History
<1>29. ~derailed'[p] => OnTrack(p)'
  <2>1. PcPart(L2, todo'[p], H2, pc[p])
    BY <1>2 DEF PcPart
  <2>2. \A y \in Proc : MsgPart(L2, H2, msg_q'[p][y], recv_q[p][y], p, y)
    BY Zenon, <1>12, <1>17, <1>20
  <2> QED BY <1>9, <1>12, <1>21, <2>1, <2>2 DEF OnTrack
<1>30. ASSUME ~derailed'[p], NEW y \in Peers(p) PROVE In(p, y)'
  <2>1. In(p, y) /\ y \in Proc /\ y # p
    BY <1>4
  <2>2. SignalPart(work[p], ractive[p], wactive[p], recv_q[p][Wild], Len(wire[p][y]) < SockCap,
                    avail[y][p], sigio[p], y)
    BY <2>1 DEF In
  <2>3. SignalPart(work[p], ractive[p], wactive[p], recv_q[p][Wild], Len(wire[p][y]) < SockCap,
                    avail[y][p], sigio[p], y)'
    BY <1>21, <2>2
  <2>4. \A i \in 1 .. Len(recv_q[p][y]) : SameBut(msg_list[p][recv_q[p][y][i]], msg_list'[p][recv_q[p][y][i]])
    BY <1>9, <1>10, <1>30, <2>1, SameIsSame
  <2>5. \A i \in 1 .. Len(msg_q'[p][y]) :
           /\ SameBut(msg_list[p][msg_q'[p][y][i]], msg_list'[p][msg_q'[p][y][i]])
           /\ \E j \in 1 .. Len(msg_q[p][y]) : msg_q'[p][y][i] = msg_q[p][y][j]
    <3>1. msg_q'[p][y] = msg_q[p][y] /\ \A i \in 1 .. Len(msg_q[p][y]) : L2[msg_q[p][y][i]] = L[msg_q[p][y][i]]
      BY <1>10, <1>20, <2>1
    <3> QED BY <1>9, <3>1, SameIsSame
  <2>7. /\ recv_q'[p][y] = recv_q[p][y] /\ ractive'[p][y] = ractive[p][y] /\ wire'[y][p] = wire[y][p]
        /\ avail'[y][p] = avail[y][p] /\ sent'[y][p] = sent[y][p] /\ msg_list'[y] = msg_list[y]
        /\ send_q'[y] = send_q[y] /\ work'[p] = work[p]
    BY <1>7, <1>19, <1>21, <2>1
  <2> QED BY Zenon, <1>4, <2>1, <2>3, <2>4, <2>5, <2>7, InSame
<1>31. SendParts(p)
  <2>2. ASSUME NEW y \in Peers(p) PROVE Len(wire[p][y]) <= SockCap /\ avail[p][y] <= Len(wire[p][y])
    BY <1>4 DEF Out
  <2>3. \A y \in Peers(p) : sent'[p][y] = sent[p][y]
    BY <1>19 DEF Peers
  <2> QED BY <1>9, <1>12, <1>21, <2>2, <2>3 DEF SendParts, Out
<1>32. Quiet(p)
  <2>1. \A x \in Peers(p) : SameRows(x) /\ sigio'[x] = sigio[x] /\ sent'[x] = sent[x]
    BY <1>19, <1>21, <1>23 DEF Peers
  <2> QED BY <1>21, <1>27, <2>1 DEF Quiet
<1> QED BY <1>22, <1>26, <1>28, <1>29, <1>30, <1>31, <1>32, OwnStep DEF OwnParts

\* MP_ASend()
LEMMA ASendStep ==
  ASSUME TcpMsgAssumption, IInv, NEW p \in Proc, ASend(p)
  PROVE  IInv'
<1>1. PICK c, m : c = Head(todo[p]) /\ m = NextId(p)
  OBVIOUS
<1>2. Asks(p, c, m, "asend")
  BY Zenon, <1>1 DEF ASend, Asks
<1>3. CASE c.peer = p
  <2>1. SendsOwn(p, c, m)
    BY Zenon, <1>1, <1>2, <1>3 DEF ASend, SendsOwn, OwnEntry, SentEntry
  <2> QED BY <2>1, SendsOwnStep
<1>4. CASE c.peer # p
  <2>1. SendsTo(p, c, m)
    BY Zenon, <1>1, <1>2, <1>4 DEF ASend, SendsTo, SentEntry
  <2> QED BY <2>1, SendsToStep
<1> QED BY <1>3, <1>4

\* A receive posted behind those in rq: entry m.
NewLast(L, rq, m, q, mq, u) ==
  /\ rq \in Seq(Ids) /\ m \in Ids
  /\ RecvPart(L, rq, q) /\ HeaderPart(L, mq, rq) /\ StreamPart(L, rq, u)
  /\ \A j \in 1 .. Len(rq) : rq[j] # m
  /\ L[m].used /\ L[m].flag = "recv" /\ L[m].peer = q /\ ~Begun(L[m])
AddedLast(L, rq, rq2, m, q, mq, u) ==
  /\ rq2 \in Seq(Ids) /\ rq2 # << >>
  /\ RecvPart(L, rq2, q) /\ HeaderPart(L, mq, rq2) /\ StreamPart(L, rq2, u)
  /\ \A n \in Ids : Contains(rq, n) => Contains(rq2, n)
  /\ \A i \in 1 .. Len(rq2) : rq2[i] = m \/ \E j \in 1 .. Len(rq) : rq2[i] = rq[j]

\* A receive posted last keeps what is known of its queue.
LEMMA RecvPosted ==
  ASSUME NEW L, NEW rq, NEW m, NEW q, NEW mq, NEW u, NewLast(L, rq, m, q, mq, u)
  PROVE  AddedLast(L, rq, Append(rq, m), m, q, mq, u)
<1> /\ rq \in Seq(Ids) /\ m \in Ids
    /\ RecvPart(L, rq, q) /\ HeaderPart(L, mq, rq) /\ StreamPart(L, rq, u)
    /\ \A j \in 1 .. Len(rq) : rq[j] # m
    /\ L[m].used /\ L[m].flag = "recv" /\ L[m].peer = q /\ ~Begun(L[m])
  BY Zenon DEF NewLast
<1>1. PICK t : t = Append(rq, m)
  BY Zenon
<1>2. /\ t \in Seq(Ids) /\ Len(t) = Len(rq) + 1 /\ t[Len(rq) + 1] = m /\ Len(rq) \in Nat /\ t # << >>
      /\ \A j \in 1 .. Len(rq) : t[j] = rq[j]
  BY <1>1
<1>3. \A j \in 1 .. Len(t) : j = Len(rq) + 1 \/ j \in 1 .. Len(rq)
  BY <1>2
<1>4. Once(t)
  BY <1>2, <1>3 DEF Once, RecvPart
<1>5. ASSUME NEW i \in 1 .. Len(t)
      PROVE LET e == L[t[i]]
             IN  /\ e.flag \in {"recv", "drain"} /\ e.peer = q /\ (~Complete(e) => e.used)
                 /\ Begun(e) => \A j \in 1 .. i - 1 : Complete(L[t[j]])
  <2>1. CASE i = Len(rq) + 1
    BY <1>2, <2>1
  <2>2. CASE i \in 1 .. Len(rq)
    <3>1. LET e == L[rq[i]]
          IN  /\ e.flag \in {"recv", "drain"} /\ e.peer = q /\ (~Complete(e) => e.used)
              /\ Begun(e) => \A j \in 1 .. i - 1 : Complete(L[rq[j]])
      BY <2>2 DEF RecvPart
    <3>2. \A j \in 1 .. i - 1 : t[j] = rq[j]
      BY <1>2, <2>2
    <3> QED BY <1>2, <2>2, <3>1, <3>2
  <2> QED BY <1>3, <2>1, <2>2
<1>6. RecvPart(L, t, q)
  BY <1>4, <1>5 DEF RecvPart
<1>7. HeaderPart(L, mq, t)
  BY <1>2, <1>3 DEF HeaderPart
<1>8. StreamPart(L, t, u)
  <2>1. ASSUME NEW i \in 1 .. Len(t), Begun(L[t[i]])
        PROVE  u[2] = Gone(L[t[i]]) + 1 /\ (L[t[i]].nhdr = 0 => u[1] = L[t[i]].num)
    <3>1. i \in 1 .. Len(rq) /\ t[i] = rq[i]
      BY <1>2, <1>3, <2>1
    <3> QED BY <2>1, <3>1 DEF StreamPart
  <2>2. (\A i \in 1 .. Len(t) : ~Begun(L[t[i]])) => u[2] = 1
    <3>1. \A i \in 1 .. Len(rq) : i \in 1 .. Len(t)
      BY <1>2
    <3> QED BY <1>2, <3>1 DEF StreamPart
  <2> QED BY <2>1, <2>2 DEF StreamPart
<1>9. ASSUME NEW n \in Ids, Contains(rq, n) PROVE Contains(t, n)
  <2>1. PICK j \in 1 .. Len(rq) : rq[j] = n
    BY <1>9, ContainsIs
  <2>2. j \in 1 .. Len(t) /\ t[j] = n
    BY <1>2, <2>1
  <2> QED BY <1>2, <2>2, ContainsIs
<1>10. \A i \in 1 .. Len(t) : t[i] = m \/ \E j \in 1 .. Len(rq) : t[i] = rq[j]
  BY <1>2, <1>3
<1> QED BY Zenon, <1>1, <1>2, <1>6, <1>7, <1>8, <1>9, <1>10 DEF AddedLast

\* A receive from anyone.
LEMMA WildPosted ==
  ASSUME NEW L, NEW rw \in Seq(Ids), NEW m \in Ids, WildPart(L, rw), \A j \in 1 .. Len(rw) : rw[j] # m,
         L[m].used, L[m].flag = "recv", L[m].peer = Wild, L[m].nhdr = HdrSize
  PROVE  WildPart(L, Append(rw, m)) /\ Append(rw, m) \in Seq(Ids)
<1>1. PICK t : t = Append(rw, m)
  BY Zenon
<1>2. /\ t \in Seq(Ids) /\ Len(t) = Len(rw) + 1 /\ t[Len(rw) + 1] = m /\ Len(rw) \in Nat
      /\ \A j \in 1 .. Len(rw) : t[j] = rw[j]
  BY <1>1
<1>3. \A j \in 1 .. Len(t) : j = Len(rw) + 1 \/ j \in 1 .. Len(rw)
  BY <1>2
<1>4. Once(t)
  BY <1>2, <1>3 DEF Once, WildPart
<1>5. ASSUME NEW i \in 1 .. Len(t)
      PROVE L[t[i]].used /\ L[t[i]].flag = "recv" /\ L[t[i]].peer = Wild /\ L[t[i]].nhdr = HdrSize
  <2>1. CASE i = Len(rw) + 1
    BY <1>2, <2>1
  <2>2. CASE i \in 1 .. Len(rw)
    BY <1>2, <2>2 DEF WildPart
  <2> QED BY <1>3, <2>1, <2>2
<1> QED BY <1>1, <1>2, <1>4, <1>5 DEF WildPart

\* The new entry of a receive.
RecvArgs(flag, peer, tag, nbytes) ==
  flag \in {"recv", "drain"} /\ peer \in Proc \cup {Wild} /\ tag \in Int /\ nbytes \in Nat
NewRecv(e, flag, peer, tag, nbytes) ==
  /\ e \in EntryType /\ e.used /\ e.flag = flag /\ e.peer = peer /\ e.tag = tag /\ e.nbytes = nbytes
  /\ e.nhdr = HdrSize /\ e.left = nbytes /\ e.got = << >> /\ e.nhdr > 0
  /\ ~Begun(e) /\ ~Complete(e) /\ nleft(e) > 0

\* It has what is asked for, and nothing of it has come.
LEMMA RecvEntryIs ==
  ASSUME TcpMsgAssumption, NEW flag, NEW peer, NEW tag, NEW nbytes, RecvArgs(flag, peer, tag, nbytes)
  PROVE  NewRecv(Entry(flag, peer, tag, nbytes), flag, peer, tag, nbytes)
<1> flag \in {"recv", "drain"} /\ peer \in Proc \cup {Wild} /\ tag \in Int /\ nbytes \in Nat
  BY Zenon DEF RecvArgs
<1>1. PICK e : e = Entry(flag, peer, tag, nbytes)
  OBVIOUS
<1>2. HdrSize \in 0 .. HdrSize /\ HdrSize \in Nat \ {0} /\ << >> \in Seq(Nat \X Nat)
  BY DEF TcpMsgAssumption
<1>3. e = [used |-> TRUE, flag |-> flag, peer |-> peer, tag |-> tag, nbytes |-> nbytes,
           nhdr |-> HdrSize, left |-> nbytes, num |-> 0, got |-> << >>]
  BY <1>1 DEF Entry
<1>4. e \in EntryType
  BY <1>2, <1>3 DEF EntryType
<1>5. /\ e.used /\ e.flag = flag /\ e.peer = peer /\ e.tag = tag /\ e.nbytes = nbytes
      /\ e.nhdr = HdrSize /\ e.left = nbytes /\ e.got = << >>
  BY <1>3
<1>6. nleft(e) > 0 /\ ~Begun(e) /\ ~Complete(e) /\ e.nhdr > 0
  BY <1>2, <1>5 DEF nleft, Begun, Complete
<1> QED BY Zenon, <1>1, <1>4, <1>5, <1>6 DEF NewRecv

\* MP_ARecv() of what has not come: from oneself, from another process or from anyone.
ReceivesLater(p, c, m) ==
  /\ Asks(p, c, m, "arecv")
  /\ msg_list' = [msg_list EXCEPT ![p][m] = Entry("recv", c.peer, c.tag, c.nbytes)]
  /\ \/ c.peer = p /\ UNCHANGED <<recv_q, work>>
     \/ /\ c.peer # p
        /\ recv_q' = [recv_q EXCEPT ![p][c.peer] = Post(@, m)]
        /\ work' = [work EXCEPT ![p] =
             CASE c.peer = Wild         -> HandlerWork(p, TRUE)
               [] c.peer # Wild /\ ~ractive[p][c.peer] -> <<Task("recv", c.peer)>>
               [] OTHER                -> << >>]
  /\ UNCHANGED <<msg_q, pc, send_q, ractive, wactive, netVars, sent>>

\* What it does next.
LEMMA LaterWork ==
  ASSUME TcpMsgAssumption, IInv, NEW p \in Proc, NEW c, NEW m, ReceivesLater(p, c, m)
  PROVE  /\ work' \in [Proc -> Seq(TaskType)] /\ \A x \in Proc : x # p => work'[x] = work[x]
         /\ recv_q' \in [Proc -> [Proc \cup {Wild} -> Seq(Ids)]]
         /\ \A x \in Proc : x # p => recv_q'[x] = recv_q[x]
         /\ \A y \in Proc \cup {Wild} : recv_q'[p][y] = IF y = c.peer /\ y # p THEN Append(recv_q[p][y], m)
                                                        ELSE recv_q[p][y]
         /\ TaskPart(work'[p], send_q[p], recv_q'[p], p) /\ (work'[p] # << >> => Head(work'[p]).msg = 0)
         /\ c.peer \in Proc /\ c.peer # p => ractive[p][c.peer] \/ AtRecv(work'[p], c.peer)
         /\ c.peer = Wild => \A y \in Proc : /\ wactive[p][y] => HasTask(work'[p], "send", y)
                                             /\ ractive[p][y] => HasTask(work'[p], "recv", y)
                                             /\ y # p => HasTask(work'[p], "peek", y)
<1>1. Asks(p, c, m, "arecv")
  BY DEF ReceivesLater
<1>2. work[p] = << >> /\ m \in Ids /\ c.peer \in Proc \cup {Wild} /\ ~derailed[p]
  BY <1>1, AskFacts
<1>3. /\ Types /\ Always(p) /\ MaxMsgs \in Nat
      /\ work \in [Proc -> Seq(TaskType)] /\ recv_q \in [Proc -> [Proc \cup {Wild} -> Seq(Ids)]]
  BY Zenon DEF IInv, Types, TcpMsgAssumption
<1>4. Wild \notin Proc
  BY DEF Wild, Proc
<1>5. CASE c.peer = p
  <2>1. UNCHANGED <<recv_q, work>>
    BY <1>5 DEF ReceivesLater
  <2>2. work'[p] = << >> /\ work' = work /\ recv_q' = recv_q
    BY <1>2, <2>1
  <2>3. TaskPart(work'[p], send_q[p], recv_q'[p], p)
    BY <2>2, NoTask
  <2>4. \A y \in Proc \cup {Wild} : recv_q'[p][y] = IF y = c.peer /\ y # p THEN Append(recv_q[p][y], m)
                                                    ELSE recv_q[p][y]
    BY <1>5, <2>2
  <2>5. c.peer # Wild
    BY <1>4, <1>5
  <2>6. c.peer \in Proc /\ c.peer # p => ractive[p][c.peer] \/ AtRecv(work'[p], c.peer)
    BY <1>5
  <2> QED BY Zenon, <1>3, <2>2, <2>3, <2>4, <2>5, <2>6
<1>6. CASE c.peer # p
  <2>1. PICK q \in Proc \cup {Wild} : q = c.peer
    BY <1>2
  <2>2. PICK K : K = CASE q = Wild         -> HandlerWork(p, TRUE)
                       [] q # Wild /\ ~ractive[p][q] -> <<Task("recv", q)>>
                       [] OTHER                -> << >>
    BY Zenon
  <2>3. recv_q' = [recv_q EXCEPT ![p][q] = Append(@, m)] /\ work' = [work EXCEPT ![p] = K]
    BY Zenon, <1>6, <2>1, <2>2 DEF ReceivesLater, Post
  <2>4. Append(recv_q[p][q], m) \in Seq(Ids) /\ Append(recv_q[p][q], m) # << >>
    <3>1. recv_q[p][q] \in Seq(Ids)
      BY <1>3
    <3>2. m \in Ids
      BY Zenon, <1>2
    <3> QED BY SMTT(30), <3>1, <3>2, AppendProperties
  <2>5. /\ recv_q' \in [Proc -> [Proc \cup {Wild} -> Seq(Ids)]]
        /\ \A x \in Proc : x # p => recv_q'[x] = recv_q[x]
        /\ \A y \in Proc \cup {Wild} : recv_q'[p][y] = IF y = q THEN Append(recv_q[p][y], m) ELSE recv_q[p][y]
    BY Zenon, <1>3, <2>3, <2>4
  <2>6. \A y \in Proc : recv_q[p][y] # << >> => recv_q'[p][y] # << >>
    BY Zenon, <2>4, <2>5
  <2>7. /\ K \in Seq(TaskType) /\ TaskPart(K, send_q[p], recv_q'[p], p) /\ (K # << >> => Head(K).msg = 0)
        /\ q \in Proc => ractive[p][q] \/ AtRecv(K, q)
        /\ q = Wild => \A y \in Proc : /\ wactive[p][y] => HasTask(K, "send", y)
                                       /\ ractive[p][y] => HasTask(K, "recv", y)
                                       /\ y # p => HasTask(K, "peek", y)
    <3>1. CASE q = Wild
      <4>1. K = HandlerWork(p, TRUE)
        BY <2>2, <3>1
      <4>2. /\ K \in Seq(TaskType) /\ TaskPart(K, send_q[p], recv_q[p], p) /\ (K # << >> => Head(K).msg = 0)
            /\ \A y \in Proc : /\ wactive[p][y] => HasTask(K, "send", y)
                               /\ ractive[p][y] => HasTask(K, "recv", y)
                               /\ TRUE /\ y # p => HasTask(K, "peek", y)
        BY Zenon, <1>3, <4>1, HandlerTasks
      <4>3. \A i \in 1 .. Len(K) : K[i].node \in Proc
        <5>1. \A i \in 1 .. Len(K) : K[i] \in TaskType
          BY <4>2
        <5> QED BY <5>1 DEF TaskType
      <4>4. TaskPart(K, send_q[p], recv_q'[p], p)
        BY <2>6, <4>2, <4>3 DEF TaskPart
      <4> QED BY <1>4, <3>1, <4>2, <4>4
    <3>2. CASE q # Wild /\ ~ractive[p][q]
      <4>1. K = <<Task("recv", q)>>
        BY <2>2, <3>2
      <4>2. q \in Proc /\ q # p /\ recv_q'[p][q] # << >>
        BY Zenon, <1>6, <2>1, <2>4, <2>5, <3>2
      <4>3. /\ K \in Seq(TaskType) /\ K # << >> /\ Head(K).msg = 0 /\ Head(K).call = "recv" /\ Head(K).node = q
            /\ TaskPart(K, send_q[p], recv_q'[p], p)
        BY Zenon, <1>3, <4>1, <4>2, OneTask
      <4> QED BY <3>2, <4>3 DEF AtRecv
    <3>3. CASE q # Wild /\ ractive[p][q]
      <4>1. K = << >>
        BY <2>2, <3>3
      <4> QED BY <3>3, <4>1, NoTask
    <3> QED BY <3>1, <3>2, <3>3
  <2>8. work' \in [Proc -> Seq(TaskType)] /\ work'[p] = K /\ \A x \in Proc : x # p => work'[x] = work[x]
    BY <1>3, <2>3, <2>7
  <2>9. \A y \in Proc \cup {Wild} : recv_q'[p][y] = IF y = c.peer /\ y # p THEN Append(recv_q[p][y], m)
                                                    ELSE recv_q[p][y]
    BY <1>6, <2>1, <2>5
  <2> QED BY Zenon, <2>1, <2>5, <2>7, <2>8, <2>9
<1> QED BY Zenon, <1>5, <1>6

\* MP_ARecv() of what has not come.
LEMMA ReceivesLaterStep ==
  ASSUME TcpMsgAssumption, IInv, NEW p \in Proc, NEW c, NEW m, ReceivesLater(p, c, m)
  PROVE  IInv'
<1>1. /\ Asks(p, c, m, "arecv")
      /\ msg_list' = [msg_list EXCEPT ![p][m] = Entry("recv", c.peer, c.tag, c.nbytes)]
      /\ UNCHANGED <<msg_q, pc, send_q, ractive, wactive, netVars, sent>>
  BY DEF ReceivesLater
<1>2. /\ Made(p, m) /\ GivenOut(p, m) /\ \A all : WaitedPart(waited[p], all, p) => WaitedPart(waited'[p], all, p)
      /\ work[p] = << >> /\ ~derailed[p] /\ pc[p] = "run" /\ m \in Ids
      /\ c.peer \in Proc \cup {Wild} /\ c.tag \in Int /\ c.nbytes \in Nat
  BY Zenon, <1>1, AskFacts
<1>3. /\ work' \in [Proc -> Seq(TaskType)] /\ \A x \in Proc : x # p => work'[x] = work[x]
      /\ recv_q' \in [Proc -> [Proc \cup {Wild} -> Seq(Ids)]]
      /\ \A x \in Proc : x # p => recv_q'[x] = recv_q[x]
      /\ \A y \in Proc \cup {Wild} : recv_q'[p][y] = IF y = c.peer /\ y # p THEN Append(recv_q[p][y], m)
                                                     ELSE recv_q[p][y]
      /\ TaskPart(work'[p], send_q[p], recv_q'[p], p) /\ (work'[p] # << >> => Head(work'[p]).msg = 0)
      /\ c.peer \in Proc /\ c.peer # p => ractive[p][c.peer] \/ AtRecv(work'[p], c.peer)
      /\ c.peer = Wild => \A y \in Proc : /\ wactive[p][y] => HasTask(work'[p], "send", y)
                                          /\ ractive[p][y] => HasTask(work'[p], "recv", y)
                                          /\ y # p => HasTask(work'[p], "peek", y)
  BY Zenon, LaterWork
<1>4. /\ Types /\ Always(p) /\ History(p) /\ OnTrack(p) /\ MaxMsgs \in Nat /\ HdrSize \in Nat \ {0}
      /\ \A y \in Peers(p) : In(p, y) /\ Out(p, y) /\ y \in Proc /\ y # p
      /\ Wild \notin Proc
  <2>1. Types /\ Always(p) /\ History(p) /\ OnTrack(p)
    BY Zenon, <1>2 DEF IInv
  <2>2. ASSUME NEW y \in Peers(p) PROVE In(p, y) /\ Out(p, y) /\ y \in Proc /\ y # p
    BY Zenon, <1>2 DEF IInv, Peers
  <2>3. MaxMsgs \in Nat /\ HdrSize \in Nat \ {0}
    BY DEF TcpMsgAssumption
  <2>4. Wild \notin Proc
    BY DEF Wild, Proc
  <2> QED BY Zenon, <2>1, <2>2, <2>3, <2>4
<1>5. PICK e : e = Entry("recv", c.peer, c.tag, c.nbytes)
  OBVIOUS
<1>6. /\ e \in EntryType /\ e.used /\ e.flag = "recv" /\ e.peer = c.peer /\ e.nbytes = c.nbytes
      /\ e.nhdr = HdrSize /\ e.left = c.nbytes /\ e.got = << >> /\ ~Begun(e)
  <2>1. RecvArgs("recv", c.peer, c.tag, c.nbytes)
    BY <1>2 DEF RecvArgs
  <2>2. NewRecv(e, "recv", c.peer, c.tag, c.nbytes)
    BY Zenon, <1>2, <1>5, <2>1, RecvEntryIs
  <2> QED BY Zenon, <2>2 DEF NewRecv
<1>7. /\ msg_list' \in [Proc -> [Ids -> EntryType]]
      /\ \A x \in Proc : x # p => msg_list'[x] = msg_list[x]
      /\ \A n \in Ids : msg_list'[p][n] = IF n = m THEN e ELSE msg_list[p][n]
  <2>1. msg_list' = [msg_list EXCEPT ![p][m] = e]
    BY <1>1, <1>5
  <2>2. Types /\ m \in Ids /\ e \in EntryType
    BY <1>2, <1>4, <1>6
  <2> QED BY ZenonT(30), <2>1, <2>2, OneEntry
<1>8. Adds(p, m)
  BY <1>2, <1>6, <1>7 DEF Adds
<1>9. PICK L, L2, H, H2 : L = msg_list[p] /\ L2 = msg_list'[p] /\ H = handle[p] /\ H2 = handle'[p]
  OBVIOUS
<1>10. /\ EntryPart(L2, p)
       /\ \A y \in Proc : \A j \in 1 .. Len(msg_q[p][y]) : L2[msg_q[p][y][j]] = L[msg_q[p][y][j]]
       /\ ~derailed'[p] => \A y \in Proc \cup {Wild} : \A j \in 1 .. Len(recv_q[p][y]) :
                               L2[recv_q[p][y][j]] = L[recv_q[p][y][j]]
  <2>1. /\ EntryPart(msg_list'[p], p)
        /\ \A y \in Proc : \A j \in 1 .. Len(msg_q[p][y]) :
             msg_list'[p][msg_q[p][y][j]] = msg_list[p][msg_q[p][y][j]]
        /\ ~derailed'[p] => \A y \in Proc \cup {Wild} : \A j \in 1 .. Len(recv_q[p][y]) :
             msg_list'[p][recv_q[p][y][j]] = msg_list[p][recv_q[p][y][j]]
    BY Zenon, <1>8, AddsKept
  <2> QED BY Zenon, <1>9, <2>1
<1>11. /\ todo' \in [Proc -> Seq(CallType)] /\ handle' \in [Proc -> Seq(0 .. MaxMsgs)]
       /\ waited' \in [Proc -> Seq(Seq(EntryType))]
       /\ \A x \in Proc : x # p => todo'[x] = todo[x] /\ handle'[x] = handle[x] /\ waited'[x] = waited[x]
       /\ HandlePart(todo'[p], H2, waited'[p], pc[p]) /\ Named(H2, m)
       /\ \A n : Named(H, n) => Named(H2, n)
       /\ \A n : n # m /\ Named(H2, n) => Named(H, n)
  BY Zenon, <1>2, <1>9 DEF GivenOut
<1>12. /\ ~derailed'[p] => WildPart(L2, recv_q[p][Wild])
       /\ \A y \in Proc : MsgPart(L2, H2, msg_q[p][y], recv_q[p][y], p, y)
       /\ \A y \in Peers(p) :
            /\ SendPart(L2, H2, send_q[p][y], sent[p][y], y)
            /\ WirePart(L2, send_q[p][y], sent[p][y], wire[p][y])
            /\ NextOut(L2, send_q[p][y], sent[p][y]) = NextOut(L, send_q[p][y], sent[p][y])
  BY Zenon, <1>8, <1>9, <1>11, AddsParts
<1>13. /\ msg_q' = msg_q /\ pc' = pc /\ send_q' = send_q /\ ractive' = ractive /\ wactive' = wactive
       /\ wire' = wire /\ avail' = avail /\ sigio' = sigio /\ sent' = sent
  BY <1>1 DEF netVars
<1>14. Types'
  BY Zenon, <1>2, <1>3, <1>4, <1>7, <1>11, <1>13 DEF Types, Made
<1>15. \A x \in Peers(p) : SameRows(x)
  BY <1>2, <1>3, <1>7, <1>11, <1>13 DEF SameRows, Peers, Made
<1>16. \A y \in Proc \cup {Wild} : recv_q[p][y] \in Seq(Ids)
  BY SMTT(30), <1>4 DEF Types
<1>17. \A y \in Proc \cup {Wild} :
         /\ recv_q[p][y] # << >> => recv_q'[p][y] # << >>
         /\ \A n \in Ids : Contains(recv_q[p][y], n) => Contains(recv_q'[p][y], n)
  <2> TAKE y \in Proc \cup {Wild}
  <2>1. PICK s, t : s = recv_q[p][y] /\ t = recv_q'[p][y]
    OBVIOUS
  <2>2. s \in Seq(Ids) /\ (t = s \/ t = Append(s, m))
    BY Zenon, <1>3, <1>16, <2>1
  <2>3. CASE t = s
    BY <2>1, <2>3
  <2>4. CASE t = Append(s, m)
    <3>1. t \in Seq(Ids) /\ t # << >> /\ Len(t) = Len(s) + 1 /\ \A j \in 1 .. Len(s) : t[j] = s[j]
      BY <1>2, <2>2, <2>4
    <3>2. ASSUME NEW n \in Ids, Contains(s, n) PROVE Contains(t, n)
      <4>1. PICK j \in 1 .. Len(s) : s[j] = n
        BY <2>2, <3>2, ContainsIs
      <4>2. j \in 1 .. Len(t) /\ t[j] = n
        BY <2>2, <3>1, <4>1
      <4> QED BY <3>1, <4>2, ContainsIs
    <3> QED BY <2>1, <3>1, <3>2
  <2> QED BY <2>2, <2>3, <2>4
<1>18. Always(p)'
  <2>1. /\ OwnPart(send_q[p], recv_q[p], ractive[p], wactive[p], wire[p], avail[p], p)
        /\ QueuedPart(L, send_q[p]) /\ KeptPart(L, H, send_q[p], msg_q[p])
        /\ ActivePart(send_q[p], recv_q[p], ractive[p], wactive[p])
    BY <1>4, <1>9 DEF Always
  <2>2. OwnPart(send_q[p], recv_q'[p], ractive[p], wactive[p], wire[p], avail[p], p)
    BY <1>3, <2>1 DEF OwnPart
  <2>3. QueuedPart(L2, send_q[p])
    <3>1. SUFFICES ASSUME NEW n \in Ids, L2[n].used, L2[n].flag \in {"send", "buffered"}, nleft(L2[n]) > 0
                   PROVE \E y \in Proc : Contains(send_q[p][y], n)
      BY DEF QueuedPart
    <3>2. L2[n] = L[n]
      BY <1>6, <1>7, <1>9, <3>1
    <3> QED BY <2>1, <3>1, <3>2 DEF QueuedPart
  <2>4. KeptPart(L2, H2, send_q[p], msg_q[p])
    BY Zenon, <1>7, <1>9, <1>11, <2>1 DEF KeptPart
  <2>5. ActivePart(send_q[p], recv_q'[p], ractive[p], wactive[p])
    BY <1>17, <2>1 DEF ActivePart
  <2> QED BY <1>3, <1>9, <1>10, <1>11, <1>13, <2>2, <2>3, <2>4, <2>5 DEF Always
<1>19. History(p)'
  <2>1. ContentPart(L, sent, p) /\ WaitedPart(waited[p], sent, p)
    BY <1>4, <1>9 DEF History
  <2>2. ContentPart(L2, sent, p)
    BY <1>4, <1>6, <1>7, <1>9, <2>1 DEF ContentPart
  <2> QED BY <1>2, <1>9, <1>13, <2>1, <2>2 DEF History
<1>20. ASSUME ~derailed'[p] PROVE OnTrack(p)'
  <2>1. PcPart(L2, todo'[p], H2, pc[p])
    BY <1>2 DEF PcPart
  <2>2. WildPart(L2, recv_q'[p][Wild])
    <3>1. PICK rw : rw = recv_q[p][Wild]
      OBVIOUS
    <3>2. rw \in Seq(Ids) /\ WildPart(L2, rw) /\ \A j \in 1 .. Len(rw) : rw[j] # m
      BY <1>2, <1>12, <1>16, <1>20, <3>1 DEF Made
    <3>3. CASE c.peer = Wild
      <4>1. L2[m].used /\ L2[m].flag = "recv" /\ L2[m].peer = Wild /\ L2[m].nhdr = HdrSize
        BY <1>2, <1>6, <1>7, <1>9, <3>3
      <4>2. WildPart(L2, Append(rw, m))
        BY <1>2, <3>2, <4>1, WildPosted
      <4> QED BY Zenon, <1>2, <1>3, <1>4, <3>1, <3>3, <4>2
    <3>4. CASE c.peer # Wild
      BY <1>3, <3>1, <3>2, <3>4
    <3> QED BY <3>3, <3>4
  <2>3. ASSUME NEW y \in Proc PROVE MsgPart(L2, H2, msg_q[p][y], recv_q'[p][y], p, y)
    <3>1. MsgPart(L2, H2, msg_q[p][y], recv_q[p][y], p, y)
      BY <1>12
    <3>2. msg_q[p][y] \in Seq(Ids)
      BY <1>4 DEF Types
    <3>3. \A i \in 1 .. Len(msg_q[p][y]) : msg_q[p][y][i] \in Ids
      BY <3>2
    <3> QED BY Zenon, <1>17, <3>1, <3>3 DEF MsgPart
  <2> QED BY <1>9, <1>13, <2>1, <2>2, <2>3 DEF OnTrack
<1>21. ASSUME ~derailed'[p], NEW y \in Peers(p) PROVE In(p, y)'
  <2>1. In(p, y) /\ y \in Proc /\ y # p
    BY <1>4
  <2>2. SignalPart(work[p], ractive[p], wactive[p], recv_q[p][Wild], Len(wire[p][y]) < SockCap,
                    avail[y][p], sigio[p], y)
    BY <2>1 DEF In
  <2>3. SignalPart(work[p], ractive[p], wactive[p], recv_q[p][Wild], Len(wire[p][y]) < SockCap,
                    avail[y][p], sigio[p], y)'
    <3>1. CASE c.peer = Wild
      BY Zenon, <1>3, <1>13, <2>1, <3>1 DEF SignalPart
    <3>2. CASE c.peer # Wild
      <4>1. recv_q'[p][Wild] = recv_q[p][Wild]
        BY <1>3, <3>2
      <4> QED BY <1>2, <1>13, <2>2, <4>1 DEF SignalPart, HasTask
    <3> QED BY <3>1, <3>2
  <2>4. \A i \in 1 .. Len(recv_q[p][y]) : SameBut(msg_list[p][recv_q[p][y][i]], msg_list'[p][recv_q[p][y][i]])
    BY Zenon, <1>9, <1>10, <1>21, <2>1, SameIsSame
  <2>5. \A i \in 1 .. Len(msg_q'[p][y]) :
           /\ SameBut(msg_list[p][msg_q'[p][y][i]], msg_list'[p][msg_q'[p][y][i]])
           /\ \E j \in 1 .. Len(msg_q[p][y]) : msg_q'[p][y][i] = msg_q[p][y][j]
    BY <1>9, <1>10, <1>13, <2>1, SameIsSame
  <2>6. ~AtRecv(work[p], y) /\ ~(AtRecv(work'[p], y) /\ Head(work'[p]).msg # 0)
    BY <1>2, <1>3 DEF AtRecv
  <2>7. /\ ractive'[p][y] = ractive[p][y] /\ wire'[y][p] = wire[y][p]
        /\ avail'[y][p] = avail[y][p] /\ sent'[y][p] = sent[y][p] /\ msg_list'[y] = msg_list[y]
        /\ send_q'[y] = send_q[y]
    BY <1>7, <1>13, <2>1
  <2>8. CASE y # c.peer
    <3>1. recv_q'[p][y] = recv_q[p][y]
      BY <1>3, <2>1, <2>8
    <3> QED BY Zenon, <1>4, <2>1, <2>3, <2>4, <2>5, <2>6, <2>7, <3>1, InSame
  <2>9. CASE y = c.peer
    <3>1. PICK rq, mq, K, K2, w, av, sn, u :
            /\ rq = recv_q[p][y] /\ mq = msg_q[p][y] /\ K = work[p] /\ K2 = work'[p]
            /\ w = wire[y][p] /\ av = avail[y][p] /\ sn = sent[y][p]
            /\ u = NextIn(msg_list[y], send_q[y][p], sent[y][p], wire[y][p])
      OBVIOUS
    <3>2. rq \in Seq(Ids) /\ L \in [Ids -> EntryType] /\ recv_q'[p][y] = Append(rq, m)
      <4>1. msg_list \in [Proc -> [Ids -> EntryType]]
        BY <1>4 DEF Types
      <4> QED BY Zenon, <1>3, <1>9, <1>16, <2>1, <2>9, <3>1, <4>1
    <3>3. /\ RecvPart(L, rq, y) /\ HeaderPart(L, mq, rq) /\ DrainPart(L, rq, K, y, w, av, sn)
          /\ StreamPart(L, rq, u)
      BY <1>9, <2>1, <3>1 DEF In
    <3>4. \A i \in 1 .. Len(rq) : Complete(L[rq[i]]) \/ nleft(L[rq[i]]) > 0
      <4> TAKE i \in 1 .. Len(rq)
      <4>1. L[rq[i]] \in EntryType
        BY <3>2
      <4> QED BY <4>1, EntryFacts
    <3>5. /\ \A i \in 1 .. Len(rq) : SameBut(L[rq[i]], L2[rq[i]])
          /\ \A i \in 1 .. Len(mq) : SameBut(L[mq[i]], L2[mq[i]]) /\ \E j \in 1 .. Len(mq) : mq[i] = mq[j]
      BY Zenon, <1>9, <1>13, <2>4, <2>5, <3>1
    <3>6. /\ RecvPart(L2, rq, y) /\ HeaderPart(L2, mq, rq) /\ DrainPart(L2, rq, K, y, w, av, sn)
          /\ StreamPart(L2, rq, u)
      BY ZenonT(30), <3>3, <3>4, <3>5, QueueSame
    <3>7. /\ L2[m].used /\ L2[m].flag = "recv" /\ L2[m].peer = y /\ ~Begun(L2[m])
          /\ \A j \in 1 .. Len(rq) : rq[j] # m
      BY ZenonT(30), <1>2, <1>6, <1>7, <1>9, <1>21, <2>1, <2>9, <3>1 DEF Made
    <3>8. PICK rq2 : rq2 = Append(rq, m)
      BY Zenon
    <3>9. /\ RecvPart(L2, rq2, y) /\ HeaderPart(L2, mq, rq2) /\ StreamPart(L2, rq2, u)
          /\ \A i \in 1 .. Len(rq2) : rq2[i] = m \/ \E j \in 1 .. Len(rq) : rq2[i] = rq[j]
      <4>1. RecvPart(L2, rq, y) /\ HeaderPart(L2, mq, rq) /\ StreamPart(L2, rq, u)
        BY Zenon, <3>6
      <4>2. rq \in Seq(Ids) /\ m \in Ids
        BY Zenon, <1>2, <3>2
      <4>3. NewLast(L2, rq, m, y, mq, u)
        BY Zenon, <3>7, <4>1, <4>2 DEF NewLast
      <4>4. AddedLast(L2, rq, rq2, m, y, mq, u)
        BY Zenon, <3>8, <4>3, RecvPosted
      <4> QED BY Zenon, <4>4 DEF AddedLast
    <3>10. DrainPart(L2, rq2, K2, y, w, av, sn)
      <4>1. ASSUME NEW i \in 1 .. Len(rq2), L2[rq2[i]].flag = "drain", L2[rq2[i]].nhdr > 0 PROVE FALSE
        <5>1. rq2[i] # m
          BY Zenon, <3>7, <4>1
        <5>2. PICK j \in 1 .. Len(rq) : rq2[i] = rq[j]
          BY Zenon, <3>9, <5>1
        <5> QED BY Zenon, <2>6, <3>1, <3>6, <4>1, <5>2 DEF DrainPart
      <4> QED BY Zenon, <4>1 DEF DrainPart
    <3>11. PlacePart(L2, mq, rq2, K2, y)
      BY <2>6, <3>1 DEF PlacePart
    <3>12. AwakePart(rq2, K2, ractive[p], y)
      BY <1>3, <2>1, <2>9, <3>1 DEF AwakePart
    <3>13. NextIn(msg_list[y], send_q[y][p], sent[y][p], wire[y][p])' = u
      BY <2>7, <3>1
    <3> QED BY Zenon, <1>9, <1>13, <2>3, <2>7, <3>1, <3>2, <3>8, <3>9, <3>10, <3>11, <3>12, <3>13 DEF In
  <2> QED BY <2>8, <2>9
<1>22. SendParts(p)
  <2>1. ASSUME NEW y \in Peers(p) PROVE Len(wire[p][y]) <= SockCap /\ avail[p][y] <= Len(wire[p][y])
    BY <1>4 DEF Out
  <2> QED BY <1>9, <1>12, <1>13, <2>1 DEF SendParts, Out
<1>23. Quiet(p)
  <2>1. \A x \in Peers(p) : SameRows(x) /\ sigio'[x] = sigio[x] /\ sent'[x] = sent[x]
    BY <1>13, <1>15 DEF Peers
  <2>2. \A y \in Proc : Grown(sent[p][y], sent'[p][y])
    <3> TAKE y \in Proc
    <3>1. sent[p][y] \in Seq(SentMsg)
      BY <1>4 DEF Types
    <3> QED BY <1>13, <3>1 DEF Grown
  <2> QED BY <1>13, <2>1, <2>2 DEF Quiet
<1> QED BY <1>14, <1>18, <1>19, <1>20, <1>21, <1>22, <1>23, OwnStep DEF OwnParts

\* Entry m takes the place of the k-th of the queue rq, which has begun: rq2 is what is left.
TakesPlace(L, L2, rq, rq2, k, m) ==
  /\ rq \in Seq(Ids) /\ rq2 \in Seq(Ids) /\ k \in 1 .. Len(rq)
  /\ LET e == L[rq[k]]
     IN  /\ Begun(e) /\ e.nhdr = 0
         /\ L2[m].used /\ L2[m].flag = "recv" /\ L2[m].peer = e.peer /\ L2[m].num = e.num
         /\ L2[m].nhdr = 0 /\ L2[m].left = e.left /\ L2[m].nbytes = e.nbytes
  /\ \A j \in k + 1 .. Len(rq) : ~Begun(L[rq[j]]) /\ L2[rq[j]] = L[rq[j]] /\ rq[j] # m
  /\ Len(rq2) = Len(rq) - k + 1 /\ rq2[1] = m
  /\ \A j \in 1 .. Len(rq) - k : rq2[j + 1] = rq[k + j]

\* The others of what is left are as they were.
LEMMA OthersLeft ==
  ASSUME NEW L, NEW L2, NEW rq, NEW rq2, NEW k, NEW m, TakesPlace(L, L2, rq, rq2, k, m)
  PROVE  \A i \in 1 .. Len(rq2) : rq2[i] = m \/ \E j \in 1 .. Len(rq) : rq2[i] = rq[j] /\ L2[rq[j]] = L[rq[j]]
<1>1. /\ rq \in Seq(Ids) /\ rq2 \in Seq(Ids) /\ k \in 1 .. Len(rq) /\ Len(rq) \in Nat
      /\ Len(rq2) = Len(rq) - k + 1 /\ rq2[1] = m
      /\ \A j \in 1 .. Len(rq) - k : rq2[j + 1] = rq[k + j]
  BY DEF TakesPlace
<1> TAKE i \in 1 .. Len(rq2)
<1>2. CASE i = 1
  BY <1>1, <1>2
<1>3. CASE i # 1
  <2>1. i - 1 \in 1 .. Len(rq) - k /\ (i - 1) + 1 = i
    BY <1>1, <1>3
  <2>2. k + (i - 1) \in k + 1 .. Len(rq) /\ k + (i - 1) \in 1 .. Len(rq)
    BY <1>1, <2>1
  <2>3. rq2[(i - 1) + 1] = rq[k + (i - 1)]
    BY Zenon, <1>1, <2>1
  <2>4. L2[rq[k + (i - 1)]] = L[rq[k + (i - 1)]]
    BY <2>2 DEF TakesPlace
  <2> QED BY Zenon, <2>1, <2>2, <2>3, <2>4
<1> QED BY <1>2, <1>3

\* What arrives goes on arriving there.
LEMMA PlaceTaken ==
  ASSUME NEW L, NEW L2, NEW rq, NEW rq2, NEW k, NEW m, NEW q, NEW mq2, NEW u,
         TakesPlace(L, L2, rq, rq2, k, m), RecvPart(L, rq, q), StreamPart(L, rq, u)
  PROVE  RecvPart(L2, rq2, q) /\ HeaderPart(L2, mq2, rq2) /\ StreamPart(L2, rq2, u)
<1>1. /\ rq \in Seq(Ids) /\ rq2 \in Seq(Ids) /\ k \in 1 .. Len(rq) /\ Len(rq) \in Nat
      /\ Len(rq2) = Len(rq) - k + 1 /\ rq2[1] = m
      /\ \A j \in 1 .. Len(rq) - k : rq2[j + 1] = rq[k + j]
  BY DEF TakesPlace
<1>2. PICK e : e = L[rq[k]]
  OBVIOUS
<1>3. /\ Begun(e) /\ e.nhdr = 0 /\ e.peer = q
      /\ L2[m].used /\ L2[m].flag = "recv" /\ L2[m].peer = q /\ L2[m].num = e.num
      /\ L2[m].nhdr = 0 /\ L2[m].left = e.left /\ L2[m].nbytes = e.nbytes
  BY <1>1, <1>2 DEF TakesPlace, RecvPart
<1>4. ASSUME NEW i \in 2 .. Len(rq2)
      PROVE  /\ k + (i - 1) \in k + 1 .. Len(rq) /\ k + (i - 1) \in 1 .. Len(rq) /\ rq2[i] = rq[k + (i - 1)]
             /\ L2[rq2[i]] = L[rq2[i]] /\ ~Begun(L[rq2[i]]) /\ rq2[i] # m
  <2>1. i - 1 \in 1 .. Len(rq) - k /\ (i - 1) + 1 = i
    BY <1>1
  <2>2. k + (i - 1) \in k + 1 .. Len(rq) /\ k + (i - 1) \in 1 .. Len(rq)
    BY <1>1, <2>1
  <2>3. rq2[i] = rq[k + (i - 1)]
    <3>1. rq2[(i - 1) + 1] = rq[k + (i - 1)]
      BY Zenon, <1>1, <2>1
    <3> QED BY <2>1, <3>1
  <2> QED BY <2>2, <2>3 DEF TakesPlace
<1>5. \A i \in 1 .. Len(rq2) : i = 1 \/ i \in 2 .. Len(rq2)
  BY <1>1
<1>6. Once(rq2)
  <2>1. ASSUME NEW i \in 1 .. Len(rq2), NEW j \in 1 .. Len(rq2), rq2[i] = rq2[j] PROVE i = j
    <3>1. CASE i = 1 \/ j = 1
      BY Zenon, <1>1, <1>4, <1>5, <2>1, <3>1
    <3>2. CASE i # 1 /\ j # 1
      <4>1. i \in 2 .. Len(rq2) /\ j \in 2 .. Len(rq2)
        BY <1>5, <3>2
      <4>2. /\ k + (i - 1) \in 1 .. Len(rq) /\ k + (j - 1) \in 1 .. Len(rq)
            /\ rq[k + (i - 1)] = rq[k + (j - 1)]
        BY <1>4, <2>1, <4>1
      <4>3. k + (i - 1) = k + (j - 1)
        BY <4>2 DEF RecvPart, Once
      <4> QED BY <1>1, <4>3
    <3> QED BY <3>1, <3>2
  <2> QED BY <2>1 DEF Once
<1>7. ASSUME NEW i \in 1 .. Len(rq2)
      PROVE LET a == L2[rq2[i]]
             IN  /\ a.flag \in {"recv", "drain"} /\ a.peer = q /\ (~Complete(a) => a.used)
                 /\ Begun(a) => i = 1
  <2>1. CASE i = 1
    BY <1>1, <1>3, <2>1
  <2>2. CASE i \in 2 .. Len(rq2)
    <3>1. LET a == L[rq[k + (i - 1)]] IN a.flag \in {"recv", "drain"} /\ a.peer = q /\ (~Complete(a) => a.used)
      BY <1>4, <2>2 DEF RecvPart
    <3> QED BY <1>4, <2>2, <3>1
  <2> QED BY <1>5, <2>1, <2>2
<1>8. RecvPart(L2, rq2, q)
  <2>1. \A i \in 1 .. Len(rq2) : Begun(L2[rq2[i]]) => \A j \in 1 .. i - 1 : Complete(L2[rq2[j]])
    BY <1>7
  <2> QED BY <1>6, <1>7, <2>1 DEF RecvPart
<1>9. HeaderPart(L2, mq2, rq2)
  <2>1. \A i \in 1 .. Len(rq2) : Begun(L2[rq2[i]]) => L2[rq2[i]].nhdr = 0
    BY <1>1, <1>3, <1>7
  <2> QED BY <2>1 DEF HeaderPart
<1>10. StreamPart(L2, rq2, u)
  <2>1. nleft(L2[m]) = nleft(e) /\ Gone(L2[m]) = Gone(e) /\ Begun(L2[m])
    BY <1>3 DEF nleft, Gone, Begun
  <2>2. u[2] = Gone(e) + 1 /\ u[1] = e.num
    BY <1>1, <1>2, <1>3 DEF StreamPart
  <2>3. 1 \in 1 .. Len(rq2) /\ \A i \in 1 .. Len(rq2) : Begun(L2[rq2[i]]) => rq2[i] = m
    BY <1>1, <1>7
  <2> QED BY Zenon, <1>1, <1>3, <2>1, <2>2, <2>3 DEF StreamPart
<1> QED BY <1>8, <1>9, <1>10

\* MP_ARecv() of a message that has come, or begun to.
ReceivesNow(p, c, m) ==
  /\ Asks(p, c, m, "arecv") /\ c.peer # p
  /\ InMsgQ(p, Entry("recv", c.peer, c.tag, c.nbytes)) # {}
  /\ TakeFromMsgQ(p, m, Entry("recv", c.peer, c.tag, c.nbytes))
  /\ UNCHANGED <<work, pc, send_q, ractive, wactive, netVars, sent>>

\* The entry of the receive becomes the message that has come.
LEMMA ReceivesNowStep ==
  ASSUME TcpMsgAssumption, IInv, NEW p \in Proc, NEW c, NEW m, ReceivesNow(p, c, m)
  PROVE  IInv'
<1>1. /\ Asks(p, c, m, "arecv") /\ InMsgQ(p, Entry("recv", c.peer, c.tag, c.nbytes)) # {}
      /\ TakeFromMsgQ(p, m, Entry("recv", c.peer, c.tag, c.nbytes))
      /\ UNCHANGED <<work, pc, send_q, ractive, wactive, netVars, sent>>
  BY DEF ReceivesNow
<1>2. /\ Made(p, m) /\ GivenOut(p, m) /\ \A all : WaitedPart(waited[p], all, p) => WaitedPart(waited'[p], all, p)
      /\ work[p] = << >> /\ ~derailed[p] /\ pc[p] = "run" /\ m \in Ids
      /\ c.peer \in Proc \cup {Wild} /\ c.tag \in Int /\ c.nbytes \in Nat
  BY <1>1, AskFacts
<1>3. /\ Types /\ Always(p) /\ History(p) /\ OnTrack(p)
      /\ \A y \in Peers(p) : In(p, y) /\ Out(p, y) /\ y \in Proc /\ y # p
      /\ \A y \in Proc : y # Wild
  BY <1>2 DEF IInv, Peers, Wild, Proc
<1>4. /\ work' = work /\ pc' = pc /\ send_q' = send_q /\ ractive' = ractive /\ wactive' = wactive
      /\ wire' = wire /\ avail' = avail /\ sigio' = sigio /\ sent' = sent
  BY <1>1 DEF netVars
<1>5. PICK L, L2 : L = msg_list[p] /\ L2 = msg_list'[p]
  OBVIOUS
<1>6. L \in [Ids -> EntryType] /\ ~L[m].used
  <2>1. msg_list \in [Proc -> [Ids -> EntryType]]
    BY <1>3 DEF Types
  <2> QED BY <1>2, <1>5, <2>1 DEF Made
<1>7. \A y \in Proc : ~Contains(msg_q[p][y], m)
  <2> TAKE y \in Proc
  <2>1. msg_q[p][y] \in Seq(Ids)
    BY <1>3 DEF Types
  <2> QED BY Zenon, <1>2, <2>1, ContainsIs DEF Made
<1>8. PICK q \in Proc : \E i \in 1 .. Len(msg_q[p][q]) : \E x \in Ids : Takes(p, m, q, i, x)
  <2>1. PICK e : e = Entry("recv", c.peer, c.tag, c.nbytes)
    OBVIOUS
  <2>2. e.flag = "recv" /\ InMsgQ(p, e) # {} /\ TakeFromMsgQ(p, m, e)
    <3>1. RecvArgs("recv", c.peer, c.tag, c.nbytes)
      BY <1>2 DEF RecvArgs
    <3>2. NewRecv(e, "recv", c.peer, c.tag, c.nbytes)
      BY Zenon, <1>2, <2>1, <3>1, RecvEntryIs
    <3>3. e.flag = "recv"
      BY Zenon, <3>2 DEF NewRecv
    <3> QED BY Zenon, <1>1, <2>1, <3>3
  <2>3. \E r \in Proc : \E i \in 1 .. Len(msg_q[p][r]) : \E x \in Ids :
           e.peer \in {r, Wild} /\ Takes(p, m, r, i, x) /\ Matches(msg_list[p][x], e)
    BY <1>2, <1>3, <1>5, <1>6, <1>7, <2>2, FoundTaken
  <2> QED BY <2>3
<1>9. PICK i \in 1 .. Len(msg_q[p][q]) : \E x \in Ids : Takes(p, m, q, i, x)
  BY <1>8
<1>10. PICK x \in Ids : Takes(p, m, q, i, x)
  BY <1>9
<1>11. TakenTo(p, m, q, i, x)
  BY Zenon, <1>2, <1>10, TakenRows
<1>12. /\ L[x] \in EntryType /\ L[x].used /\ L[x].peer = q /\ L[x].nhdr = 0
       /\ q = p => Complete(L[x])
  <2>1. TakenAway(p, q, x)
    BY Zenon, <1>2, <1>10, TakenFrom
  <2> QED BY Zenon, <1>5, <2>1 DEF TakenAway
<1>13. /\ msg_list' \in [Proc -> [Ids -> EntryType]]
       /\ msg_q' \in [Proc -> [Proc -> Seq(Ids)]]
       /\ recv_q' \in [Proc -> [Proc \cup {Wild} -> Seq(Ids)]]
       /\ \A y \in Proc : y # p => msg_list'[y] = msg_list[y] /\ msg_q'[y] = msg_q[y] /\ recv_q'[y] = recv_q[y]
       /\ \A n \in Ids : n # m /\ n # x => L2[n] = L[n]
       /\ L2[m] = [L[x] EXCEPT !.flag = "recv"] /\ (x # m => L2[x] = [L[x] EXCEPT !.used = FALSE])
       /\ msg_q'[p][q] = RemoveAt(msg_q[p][q], i)
       /\ \A y \in Proc : y # q => msg_q'[p][y] = msg_q[p][y]
       /\ \A y \in Proc \cup {Wild} : y # q => recv_q'[p][y] = recv_q[p][y]
       /\ Complete(L[x]) => recv_q'[p][q] = recv_q[p][q]
       /\ ~Complete(L[x]) => \E k \in 1 .. Len(recv_q[p][q]) :
           /\ recv_q[p][q][k] = x
           /\ \A j \in k + 1 .. Len(recv_q[p][q]) : ~Begun(L[recv_q[p][q][j]])
           /\ Len(recv_q'[p][q]) = Len(recv_q[p][q]) - k + 1 /\ recv_q'[p][q][1] = m /\ recv_q'[p][q] # << >>
           /\ \A j \in 1 .. Len(recv_q[p][q]) - k : recv_q'[p][q][j + 1] = recv_q[p][q][k + j]
  BY Zenon, <1>2, <1>5, <1>11 DEF TakenTo
<1>14. x # m
  BY Zenon, <1>10 DEF Takes
<1>15. /\ todo' \in [Proc -> Seq(CallType)] /\ handle' \in [Proc -> Seq(0 .. MaxMsgs)]
       /\ waited' \in [Proc -> Seq(Seq(EntryType))]
       /\ \A y \in Proc : y # p => todo'[y] = todo[y] /\ handle'[y] = handle[y] /\ waited'[y] = waited[y]
       /\ HandlePart(todo'[p], handle'[p], waited'[p], pc[p]) /\ Named(handle'[p], m)
       /\ \A n : Named(handle[p], n) => Named(handle'[p], n)
       /\ \A n : n # m /\ Named(handle'[p], n) => Named(handle[p], n)
  BY Zenon, <1>2 DEF GivenOut
<1>16. Types'
  BY Zenon, <1>2, <1>3, <1>4, <1>13, <1>15 DEF Types, Made
<1>17. \A y \in Peers(p) : SameRows(y)
  BY <1>2, <1>4, <1>13, <1>15 DEF SameRows, Peers, Made
<1>18. \A y \in Proc \cup {Wild} : recv_q[p][y] \in Seq(Ids) /\ recv_q'[p][y] \in Seq(Ids)
  <2>1. recv_q \in [Proc -> [Proc \cup {Wild} -> Seq(Ids)]]
    BY Zenon, <1>3 DEF Types
  <2>2. recv_q' \in [Proc -> [Proc \cup {Wild} -> Seq(Ids)]]
    BY Zenon, <1>13
  <2> QED BY Zenon, <2>1, <2>2
<1>19. recv_q'[p][Wild] = recv_q[p][Wild]
  BY <1>3, <1>13
<1>20. Always(p)' /\ History(p)' /\ (~derailed'[p] => OnTrack(p)') /\ SendParts(p)
  <2>1. ~Outgoing(msg_list[p][m])
    BY <1>5, <1>6 DEF Outgoing
  <2>2. HandlePart(todo[p], handle[p], waited[p], pc[p])'
    BY <1>4, <1>15
  <2>3. WaitedPart(waited[p], sent, p)'
    BY <1>2, <1>3, <1>4 DEF History
  <2>4. UNCHANGED <<send_q, sent, ractive, wactive, wire, avail>>
    BY <1>4
  <2>5. TaskPart(work[p], send_q[p], recv_q[p], p)'
    BY <1>2, <1>4 DEF TaskPart
  <2>6. ASSUME ~derailed'[p] PROVE ~Contains(recv_q[p][Wild], m) /\ PcPart(msg_list[p], todo[p], handle[p], pc[p])'
    <3>1. ~Contains(recv_q[p][Wild], m)
      <4>1. recv_q[p][Wild] \in Seq(Ids)
        BY <1>18
      <4>2. \A j \in 1 .. Len(recv_q[p][Wild]) : recv_q[p][Wild][j] # m
        BY <1>2, <2>6 DEF Made
      <4> QED BY <4>1, <4>2, ContainsIs
    <3>2. PcPart(msg_list[p], todo[p], handle[p], pc[p])'
      BY Zenon, <1>2, <1>4 DEF PcPart
    <3> QED BY <3>1, <3>2
  <2>7. ~derailed[p] /\ m \in Ids
    BY <1>2
  <2> QED BY Zenon, <1>7, <1>10, <1>15, <2>1, <2>2, <2>3, <2>4, <2>5, <2>6, <2>7, Taken
<1>21. \A y \in Peers(p) : SignalPart(work[p], ractive[p], wactive[p], recv_q[p][Wild], Len(wire[p][y]) < SockCap,
                    avail[y][p], sigio[p], y)'
  <2> TAKE y \in Peers(p)
  <2>1. SignalPart(work[p], ractive[p], wactive[p], recv_q[p][Wild], Len(wire[p][y]) < SockCap,
                    avail[y][p], sigio[p], y)
    BY <1>3 DEF In
  <2> QED BY <1>4, <1>19, <2>1
<1>22. ASSUME ~derailed'[p], NEW y \in Peers(p) PROVE In(p, y)'
  <2>1. /\ In(p, y) /\ y \in Proc /\ y # p
        /\ MsgPart(msg_list[p], handle[p], msg_q[p][y], recv_q[p][y], p, y)
    BY <1>3 DEF OnTrack
  <2>2. \A j \in 1 .. Len(recv_q[p][y]) : recv_q[p][y][j] # m
    BY Zenon, <1>2, <1>22, <2>1 DEF Made
  <2>3. \A j \in 1 .. Len(msg_q[p][y]) : msg_q[p][y][j] # m
    BY <1>2, <2>1 DEF Made
  <2>4. UNCHANGED <<send_q, sent, ractive, wire, avail>> /\ msg_list[p][x].peer = q /\ work'[p] = work[p]
    BY <1>4, <1>5, <1>12
  <2>5. SignalPart(work[p], ractive[p], wactive[p], recv_q[p][Wild], Len(wire[p][y]) < SockCap,
                    avail[y][p], sigio[p], y)'
    BY <1>21
  <2>6. CASE y # q
    <3>1. Types /\ m \in Ids /\ q \in Proc /\ i \in 1 .. Len(msg_q[p][q])
      BY <1>2, <1>3
    <3> QED BY <1>11, <2>1, <2>2, <2>3, <2>4, <2>5, <2>6, <3>1, TakenElsewhere
  <2>7. PICK rq, rq2, mq : rq = recv_q[p][y] /\ rq2 = recv_q'[p][y] /\ mq = msg_q[p][y]
    OBVIOUS
  <2>8. rq \in Seq(Ids) /\ rq2 \in Seq(Ids) /\ mq \in Seq(Ids)
    <3>1. msg_q[p][y] \in Seq(Ids)
      BY <1>3, <2>1 DEF Types
    <3> QED BY <1>18, <2>1, <2>7, <3>1
  <2>9. ASSUME Complete(L[x]), NEW n \in Ids, n # m PROVE SameBut(L[n], L2[n])
    <3>1. CASE n = x
      <4>1. nleft(L[x]) = 0 /\ L2[x] = [L[x] EXCEPT !.used = FALSE]
        BY <1>13, <1>14, <2>9 DEF Complete
      <4> QED BY <1>12, <3>1, <4>1 DEF SameBut, EntryType
    <3>2. CASE n # x
      BY <1>13, <2>9, <3>2, SameIsSame
    <3> QED BY <3>1, <3>2
  <2>10. CASE y = q /\ Complete(L[x])
    <3>1. recv_q'[p][y] = recv_q[p][y]
      BY <1>13, <2>10
    <3>2. \A j \in 1 .. Len(recv_q[p][y]) : SameBut(msg_list[p][recv_q[p][y][j]], msg_list'[p][recv_q[p][y][j]])
      BY <1>5, <2>2, <2>7, <2>8, <2>9, <2>10
    <3>3. ASSUME NEW j \in 1 .. Len(msg_q'[p][y])
          PROVE /\ SameBut(msg_list[p][msg_q'[p][y][j]], msg_list'[p][msg_q'[p][y][j]])
                /\ \E k \in 1 .. Len(msg_q[p][y]) : msg_q'[p][y][j] = msg_q[p][y][k]
      <4>1. PICK mq2 : mq2 = msg_q'[p][y]
        OBVIOUS
      <4>2. mq2 = RemoveAt(mq, i) /\ i \in 1 .. Len(mq)
        BY <1>13, <2>7, <2>10, <4>1
      <4>3. /\ Len(mq2) = Len(mq) - 1 /\ Len(mq) \in Nat
            /\ \A l \in 1 .. Len(mq) - 1 : mq2[l] = IF l < i THEN mq[l] ELSE mq[l + 1]
        BY Zenon, <2>8, <4>2, IdRemoved
      <4>4. j \in 1 .. Len(mq) - 1 /\ j \in 1 .. Len(mq) /\ j + 1 \in 1 .. Len(mq)
        BY <4>1, <4>3
      <4>5. PICK k \in 1 .. Len(mq) : mq2[j] = mq[k]
        BY <4>3, <4>4
      <4>6. mq[k] \in Ids /\ mq[k] # m
        BY <2>3, <2>7, <2>8
      <4>7. SameBut(L[mq[k]], L2[mq[k]])
        BY <2>9, <2>10, <4>6
      <4> QED BY <1>5, <2>7, <4>1, <4>5, <4>7
    <3>4. /\ ractive'[p][y] = ractive[p][y] /\ wire'[y][p] = wire[y][p]
          /\ avail'[y][p] = avail[y][p] /\ sent'[y][p] = sent[y][p] /\ msg_list'[y] = msg_list[y]
          /\ send_q'[y] = send_q[y]
      BY <1>4, <1>13, <2>1
    <3> QED BY Zenon, <1>3, <2>1, <2>4, <2>5, <3>1, <3>2, <3>3, <3>4, InSame
  <2>11. CASE y = q /\ ~Complete(L[x])
    <3>1. PICK k \in 1 .. Len(rq) :
           /\ rq[k] = x
           /\ \A j \in k + 1 .. Len(rq) : ~Begun(L[rq[j]])
           /\ Len(rq2) = Len(rq) - k + 1 /\ rq2[1] = m /\ rq2 # << >>
           /\ \A j \in 1 .. Len(rq) - k : rq2[j + 1] = rq[k + j]
      BY <1>13, <2>7, <2>11
    <3>2. PICK w, av, sn, u :
            /\ w = wire[y][p] /\ av = avail[y][p] /\ sn = sent[y][p]
            /\ u = NextIn(msg_list[y], send_q[y][p], sent[y][p], wire[y][p])
      OBVIOUS
    <3>3. RecvPart(L, rq, y) /\ StreamPart(L, rq, u) /\ DrainPart(L, rq, work[p], y, w, av, sn)
          /\ AwakePart(rq, work[p], ractive[p], y)
      BY <1>5, <2>1, <2>7, <3>2 DEF In
    <3>4. Begun(L[x])
      <4>1. nleft(L[x]) > 0 /\ HdrSize \in Nat \ {0}
        BY <1>12, <2>11, EntryFacts DEF TcpMsgAssumption, Complete
      <4> QED BY <1>12, <4>1 DEF Begun
    <3>5. ASSUME NEW j \in k + 1 .. Len(rq) PROVE L2[rq[j]] = L[rq[j]] /\ rq[j] # m
      <4>1. j \in 1 .. Len(rq) /\ j # k /\ rq[j] \in Ids
        BY <2>8
      <4>2. rq[j] # x
        BY <3>1, <3>3, <4>1 DEF RecvPart, Once
      <4> QED BY Zenon, <1>13, <2>2, <2>7, <4>1, <4>2
    <3>6. /\ L2[m].used /\ L2[m].flag = "recv" /\ L2[m].peer = L[x].peer /\ L2[m].num = L[x].num
          /\ L2[m].nhdr = 0 /\ L2[m].left = L[x].left /\ L2[m].nbytes = L[x].nbytes
      <4>1. L2[m] = [L[x] EXCEPT !.flag = "recv"]
        BY <1>13
      <4>2. L[x] \in EntryType /\ L[x].used /\ L[x].nhdr = 0
        BY <1>12
      <4> QED BY <4>1, <4>2 DEF EntryType
    <3>7. TakesPlace(L, L2, rq, rq2, k, m)
      BY <1>12, <2>8, <3>1, <3>4, <3>5, <3>6 DEF TakesPlace
    <3>8. PICK mq2 : mq2 = msg_q'[p][y]
      OBVIOUS
    <3>9. /\ RecvPart(L2, rq2, y) /\ HeaderPart(L2, mq2, rq2) /\ StreamPart(L2, rq2, u)
          /\ \A l \in 1 .. Len(rq2) : rq2[l] = m \/ \E j \in 1 .. Len(rq) : rq2[l] = rq[j] /\ L2[rq[j]] = L[rq[j]]
      <4>1. RecvPart(L, rq, y) /\ StreamPart(L, rq, u)
        BY <3>3
      <4>2. RecvPart(L2, rq2, y) /\ HeaderPart(L2, mq2, rq2) /\ StreamPart(L2, rq2, u)
        BY <3>7, <4>1, PlaceTaken
      <4>3. \A l \in 1 .. Len(rq2) : rq2[l] = m \/ \E j \in 1 .. Len(rq) : rq2[l] = rq[j] /\ L2[rq[j]] = L[rq[j]]
        BY <3>7, OthersLeft
      <4> QED BY <4>2, <4>3
    <3>10. ~AtRecv(work[p], y)
      BY <1>2 DEF AtRecv
    <3>11. DrainPart(L2, rq2, work[p], y, w, av, sn)
      <4> SUFFICES ASSUME NEW l \in 1 .. Len(rq2), L2[rq2[l]].flag = "drain", L2[rq2[l]].nhdr > 0 PROVE FALSE
        BY Zenon DEF DrainPart
      <4>1. PICK j \in 1 .. Len(rq) : rq2[l] = rq[j] /\ L2[rq[j]] = L[rq[j]]
        BY Zenon, <3>6, <3>9
      <4> QED BY <3>3, <3>10, <4>1 DEF DrainPart
    <3>12. PlacePart(L2, mq2, rq2, work[p], y) /\ AwakePart(rq2, work[p], ractive[p], y)
      <4>1. rq # << >>
        BY <2>8, <3>1
      <4> QED BY <3>3, <3>10, <4>1 DEF PlacePart, AwakePart
    <3>13. NextIn(msg_list[y], send_q[y][p], sent[y][p], wire[y][p])' = u
      BY Zenon, <1>4, <1>13, <2>1, <3>2
    <3> QED BY Zenon, <1>4, <1>5, <2>5, <2>7, <3>2, <3>8, <3>9, <3>11, <3>12, <3>13 DEF In
  <2> QED BY <2>6, <2>10, <2>11
<1>23. Quiet(p)
  <2>1. \A y \in Proc : Grown(sent[p][y], sent'[p][y])
    BY <1>3, <1>4, GrownSame
  <2> QED BY <1>4, <1>17, <2>1 DEF Quiet
<1> QED BY <1>16, <1>20, <1>22, <1>23, OwnStep DEF OwnParts

\* MP_ARecv()
LEMMA ARecvStep ==
  ASSUME TcpMsgAssumption, IInv, NEW p \in Proc, ARecv(p)
  PROVE  IInv'
<1>1. PICK c, m : c = Head(todo[p]) /\ m = NextId(p)
  OBVIOUS
<1>2. PICK e : e = Entry("recv", c.peer, c.tag, c.nbytes)
  OBVIOUS
<1>3. Asks(p, c, m, "arecv")
  BY Zenon, <1>1 DEF ARecv, Asks
<1>4. UNCHANGED <<pc, send_q, ractive, wactive, netVars, sent>>
  BY Zenon DEF ARecv
<1>5. \/ /\ c.peer # p /\ InMsgQ(p, e) # {}
         /\ TakeFromMsgQ(p, m, e)
         /\ UNCHANGED work
      \/ /\ c.peer # p /\ InMsgQ(p, e) = {}
         /\ msg_list' = [msg_list EXCEPT ![p][m] = e]
         /\ recv_q' = [recv_q EXCEPT ![p][c.peer] = Post(@, m)]
         /\ work' = [work EXCEPT ![p] =
              CASE c.peer = Wild         -> HandlerWork(p, TRUE)
                [] c.peer # Wild /\ ~ractive[p][c.peer] -> <<Task("recv", c.peer)>>
                [] OTHER                -> << >>]
         /\ UNCHANGED msg_q
      \/ /\ c.peer = p
         /\ msg_list' = [msg_list EXCEPT ![p][m] = e]
         /\ UNCHANGED <<recv_q, msg_q, work>>
  BY Zenon, <1>1, <1>2 DEF ARecv
<1>6. CASE c.peer # p /\ InMsgQ(p, e) # {} /\ TakeFromMsgQ(p, m, e) /\ UNCHANGED work
  <2>1. ReceivesNow(p, c, m)
    BY <1>2, <1>3, <1>4, <1>6 DEF ReceivesNow
  <2> QED BY <2>1, ReceivesNowStep
<1>7. CASE ~(c.peer # p /\ InMsgQ(p, e) # {} /\ TakeFromMsgQ(p, m, e) /\ UNCHANGED work)
  <2>1. ReceivesLater(p, c, m)
    BY Zenon, <1>2, <1>3, <1>4, <1>5, <1>7 DEF ReceivesLater
  <2> QED BY <2>1, ReceivesLaterStep
<1> QED BY <1>6, <1>7

\* The handler looks at a socket when it has no call of do_send() or do_recv() left.
LEMMA PeekTask ==
  ASSUME TcpMsgAssumption, IInv, NEW p \in Proc, Working(p, "peek")
  PROVE  LET q == Head(work[p]).node
         IN  /\ q \in Peers(p) /\ q \in Proc /\ q # p /\ HasTask(work[p], "peek", q)
             /\ \A y : ~AtRecv(work[p], y) /\ ~HasTask(work[p], "send", y) /\ ~HasTask(work[p], "recv", y)
             /\ \A i \in 1 .. Len(work[p]) : work[p][i].call = "peek" /\ work[p][i].msg = 0
             /\ Types /\ In(p, q) /\ Out(p, q) /\ Always(p) /\ History(p) /\ OnTrack(p)
<1>1. Types /\ Always(p) /\ ~derailed[p] /\ work[p] # << >> /\ Head(work[p]).call = "peek"
  BY DEF IInv, Working
<1>2. PICK K \in Seq(TaskType) : K = work[p]
  BY <1>1 DEF Types
<1>3. Head(K) = K[1] /\ K[1] \in TaskType /\ 1 \in 1 .. Len(K)
  BY <1>1, <1>2
<1>4. PICK q : q = Head(K).node
  OBVIOUS
<1>5. q \in Proc
  BY <1>3, <1>4 DEF TaskType
<1>6. TaskPart(K, send_q[p], recv_q[p], p)
  BY <1>1, <1>2 DEF Always
<1>7. q # p
  BY <1>2, <1>3, <1>4, <1>6 DEF TaskPart
<1>8. \A i \in 1 .. Len(K) : K[i].call = "peek" /\ K[i].msg = 0
  <2> TAKE i \in 1 .. Len(K)
  <2>1. K[1].call = "peek"
    BY <1>1, <1>2, <1>3
  <2>2. CASE i = 1
    BY <1>3, <1>6, <2>1, <2>2 DEF TaskPart
  <2>3. CASE i # 1
    <3>1. 1 < i
      BY <2>3
    <3>2. K[i].call = "peek"
      BY <1>3, <1>6, <2>1, <3>1 DEF TaskPart
    <3> QED BY <1>6, <3>1, <3>2 DEF TaskPart
  <2> QED BY <2>2, <2>3
<1>9. HasTask(K, "peek", q)
  BY <1>3, <1>4, <1>8 DEF HasTask
<1>10. \A y : ~AtRecv(K, y) /\ ~HasTask(K, "send", y) /\ ~HasTask(K, "recv", y)
  BY <1>3, <1>8 DEF HasTask, AtRecv
<1>11. In(p, q) /\ Out(p, q) /\ Always(p) /\ History(p) /\ OnTrack(p)
  BY <1>1, <1>5, <1>7 DEF IInv, Peers
<1> QED BY <1>1, <1>2, <1>4, <1>5, <1>7, <1>8, <1>9, <1>10, <1>11 DEF Peers

\* The socket is active, nobody asks for messages from anyone, or no header is there.
PeeksNothing(p, q) ==
  /\ Working(p, "peek") /\ q = Head(work[p]).node
  /\ ractive[p][q] \/ recv_q[p][Wild] = << >> \/ avail[q][p] < HdrSize
  /\ Done(p)
  /\ UNCHANGED <<userVars, msg_list, mid, send_q, recv_q, msg_q, ractive, wactive, netVars, derailed>>

\* It goes on to the next socket.
LEMMA PeeksNothingStep ==
  ASSUME TcpMsgAssumption, IInv, NEW p \in Proc, NEW q, PeeksNothing(p, q)
  PROVE  IInv'
<1>1. /\ Types /\ Working(p, "peek") /\ q = Head(work[p]).node /\ Head(work[p]).call = "peek" /\ Done(p)
      /\ ~derailed[p] /\ work[p] # << >>
      /\ ractive[p][q] \/ recv_q[p][Wild] = << >> \/ avail[q][p] < HdrSize
      /\ UNCHANGED <<userVars, msg_list, mid, send_q, recv_q, msg_q, ractive, wactive, netVars, derailed>>
  BY DEF IInv, PeeksNothing, Working
<1>2. /\ q \in Peers(p) /\ q \in Proc /\ q # p
      /\ \A y : ~AtRecv(work[p], y) /\ ~HasTask(work[p], "send", y) /\ ~HasTask(work[p], "recv", y)
      /\ In(p, q) /\ Always(p) /\ History(p) /\ OnTrack(p)
  BY Zenon, <1>1, PeekTask
<1>3. /\ sent' = sent /\ send_q' = send_q /\ recv_q' = recv_q /\ msg_q' = msg_q /\ sigio' = sigio
      /\ wactive' = wactive /\ wire' = wire /\ avail' = avail /\ ractive' = ractive
      /\ derailed' = derailed /\ msg_list' = msg_list /\ handle' = handle /\ todo' = todo /\ pc' = pc
      /\ waited' = waited /\ mid' = mid
  BY <1>1 DEF userVars, netVars
<1>4. /\ work' \in [Proc -> Seq(TaskType)]
      /\ \A x \in Proc : x # p => work'[x] = work[x]
      /\ TaskPart(work'[p], send_q[p], recv_q[p], p)
      /\ \A call, y : HasTask(work'[p], call, y)
                        <=> HasTask(work[p], call, y) /\ ~(call = "peek" /\ y = q)
      /\ work'[p] # << >> => Head(work'[p]).msg = 0
  <2>1. TaskPart(work[p], send_q[p], recv_q[p], p)
    BY <1>2 DEF Always
  <2> QED BY ZenonT(30), <1>1, <2>1, TaskDone
<1>5. Types'
  BY <1>1, <1>3, <1>4 DEF Types
<1>6. Always(p)' /\ History(p)' /\ OnTrack(p)'
  BY <1>2, <1>3, <1>4 DEF Always, History, OnTrack
<1>7. ASSUME NEW y \in Peers(p) PROVE In(p, y)'
  <2>1. In(p, y) /\ y \in Proc /\ y # p
    BY <1>1 DEF IInv, Peers
  <2>2. SignalPart(work[p], ractive[p], wactive[p], recv_q[p][Wild], Len(wire[p][y]) < SockCap,
                    avail[y][p], sigio[p], y)'
    <3>1. SignalPart(work[p], ractive[p], wactive[p], recv_q[p][Wild], Len(wire[p][y]) < SockCap,
                    avail[y][p], sigio[p], y)
      BY <2>1 DEF In
    <3>2. CASE y = q
      <4>1. avail[q][p] \in Nat /\ HdrSize \in Nat \ {0}
        BY SMTT(30), <1>1, <1>2 DEF Types, TcpMsgAssumption
      <4>2. recv_q[p][Wild] # << >> /\ avail[q][p] >= HdrSize => ractive[p][q] /\ avail[q][p] > 0
        BY <1>1, <4>1
      <4>3. recv_q[p][Wild] # << >> /\ avail[q][p] >= HdrSize => sigio[p]
        BY <1>2, <3>1, <3>2, <4>2 DEF SignalPart
      <4> QED BY <1>2, <1>3, <1>4, <3>1, <3>2, <4>3 DEF SignalPart
    <3>3. CASE y # q
      BY <1>3, <1>4, <2>1, <3>1, <3>3 DEF SignalPart
    <3> QED BY <3>2, <3>3
  <2>3. ~AtRecv(work[p], y) /\ ~(AtRecv(work'[p], y) /\ Head(work'[p]).msg # 0)
    BY Zenon, <1>2, <1>4 DEF AtRecv
  <2> QED BY <1>1, <1>3, <2>1, <2>2, <2>3, InIdle
<1>8. SendParts(p)
  BY <1>3, SendsSame
<1>9. Quiet(p)
  <2>1. \A y \in Proc : Grown(sent[p][y], sent'[p][y])
    BY <1>1, <1>3, GrownSame
  <2> QED BY <1>3, <1>4, <2>1 DEF Quiet, SameRows, Peers
<1> QED BY <1>5, <1>6, <1>7, <1>8, <1>9, OwnStep DEF OwnParts

\* There is a header, h, on an idle socket, and somebody asks for messages from anyone.
PeeksAt(p, q, h) ==
  /\ Working(p, "peek") /\ q = Head(work[p]).node /\ h = sent[q][p][wire[q][p][1][1]]
  /\ ~ractive[p][q] /\ recv_q[p][Wild] # << >> /\ avail[q][p] >= HdrSize
  /\ work' = [work EXCEPT ![p] = <<Task("recv", q)>> \o @]
  /\ UNCHANGED <<userVars, send_q, wactive, netVars>>

\* Nothing is asked of that process, and a call of do_recv() is what comes next.
LEMMA PeekFacts ==
  ASSUME TcpMsgAssumption, IInv, NEW p \in Proc, NEW q, NEW h, PeeksAt(p, q, h)
  PROVE  /\ q \in Peers(p) /\ q \in Proc /\ q # p /\ recv_q[p][q] = << >> /\ h \in SentMsg /\ ~derailed[p]
         /\ \A y : ~AtRecv(work[p], y) /\ ~HasTask(work[p], "send", y) /\ ~HasTask(work[p], "recv", y)
         /\ work' \in [Proc -> Seq(TaskType)] /\ \A x \in Proc : x # p => work'[x] = work[x]
         /\ AtRecv(work'[p], q) /\ Head(work'[p]).msg = 0 /\ HasTask(work'[p], "recv", q)
         /\ \A y : y # q => ~AtRecv(work'[p], y)
         /\ \A y : HasTask(work[p], "peek", y) => HasTask(work'[p], "peek", y)
         /\ \A R : R[q] # << >> => TaskPart(work'[p], send_q[p], R, p)
         /\ Types /\ Always(p) /\ History(p) /\ OnTrack(p) /\ \A y \in Peers(p) : In(p, y) /\ Out(p, y)
         /\ wire[q][p] \in Seq(Nat \X Nat) /\ wire[q][p] # << >>
<1>1. /\ Working(p, "peek") /\ q = Head(work[p]).node /\ h = sent[q][p][wire[q][p][1][1]]
      /\ ~ractive[p][q] /\ recv_q[p][Wild] # << >> /\ avail[q][p] >= HdrSize
      /\ work' = [work EXCEPT ![p] = <<Task("recv", q)>> \o @]
  BY Zenon DEF PeeksAt
<1>2. /\ q \in Peers(p) /\ q \in Proc /\ q # p /\ HasTask(work[p], "peek", q)
      /\ \A y : ~AtRecv(work[p], y) /\ ~HasTask(work[p], "send", y) /\ ~HasTask(work[p], "recv", y)
      /\ \A i \in 1 .. Len(work[p]) : work[p][i].call = "peek" /\ work[p][i].msg = 0
      /\ Types /\ In(p, q) /\ Always(p) /\ History(p) /\ OnTrack(p)
  BY Zenon, <1>1, PeekTask
<1>3. recv_q[p][q] = << >>
  BY Zenon, <1>1, <1>2 DEF In, AwakePart
<1>4. ~derailed[p] /\ \A y \in Peers(p) : In(p, y) /\ Out(p, y)
  BY Zenon, <1>1 DEF IInv, Working
<1>5. wire[q][p] \in Seq(Nat \X Nat) /\ wire[q][p] # << >> /\ h \in SentMsg
  <2>1. /\ wire[q][p] \in Seq(Nat \X Nat) /\ Len(wire[q][p]) \in Nat /\ avail[q][p] \in Nat /\ HdrSize \in Nat \ {0}
        /\ sent[q][p] \in Seq(SentMsg)
    BY <1>2 DEF Types, TcpMsgAssumption
  <2>2. avail[q][p] <= Len(wire[q][p]) /\ WirePart(msg_list[q], send_q[q][p], sent[q][p], wire[q][p])
    BY <1>2 DEF IInv, Out, Peers
  <2>3. PICK a \in Nat, l \in Nat : a = avail[q][p] /\ l = Len(wire[q][p])
    BY Zenon, <2>1
  <2>4. l > 0
    <3>1. a >= HdrSize /\ a <= l
      BY Zenon, <1>1, <2>2, <2>3
    <3> QED BY <2>1, <3>1
  <2>5. 1 \in 1 .. Len(wire[q][p])
    BY <2>3, <2>4
  <2>6. wire[q][p][1][1] \in 1 .. Len(sent[q][p])
    BY Zenon, <2>2, <2>5 DEF WirePart
  <2>7. h \in SentMsg
    <3>1. PICK sn \in Seq(SentMsg) : sn = sent[q][p]
      BY <2>1
    <3>2. PICK n : n = wire[q][p][1][1]
      OBVIOUS
    <3>3. sn[n] \in SentMsg
      BY <2>6, <3>1, <3>2
    <3> QED BY Zenon, <1>1, <3>1, <3>2, <3>3
  <2>8. wire[q][p] # << >>
    BY <2>3, <2>4
  <2> QED BY <2>1, <2>7, <2>8
<1>6. PICK K \in Seq(TaskType) : K = work[p]
  BY <1>2 DEF Types
<1>7. PICK t : t = Task("recv", q)
  OBVIOUS
<1>8. t \in TaskType /\ t.call = "recv" /\ t.node = q /\ t.msg = 0
  BY <1>2, <1>7 DEF Task, TaskType, TcpMsgAssumption
<1>9. PICK K2 : K2 = <<t>> \o K
  OBVIOUS
<1>10. /\ K2 \in Seq(TaskType) /\ Len(K2) = Len(K) + 1 /\ K2[1] = t
       /\ \A j \in 1 .. Len(K) : K2[j + 1] = K[j]
       /\ Head(K2) = t /\ K2 # << >>
  <2>1. PutFirst(TaskType, K, t, K2)
    BY Zenon, <1>3, <1>8, <1>9, InFront
  <2> QED BY Zenon, <2>1 DEF PutFirst
<1>11. /\ work' \in [Proc -> Seq(TaskType)] /\ work'[p] = K2
       /\ \A x \in Proc : x # p => work'[x] = work[x]
  <2>1. work \in [Proc -> Seq(TaskType)]
    BY <1>2 DEF Types
  <2> QED BY Zenon, <1>1, <1>6, <1>7, <1>9, <1>10, <2>1
<1>12. \A i \in 1 .. Len(K2) : i # 1 => i - 1 \in 1 .. Len(K) /\ K2[i] = K[i - 1]
  <2> TAKE i \in 1 .. Len(K2)
  <2>1. Len(K) \in Nat
    BY <1>6
  <2>2. i # 1 => i - 1 \in 1 .. Len(K) /\ (i - 1) + 1 = i
    BY <1>10, <2>1
  <2> QED BY <1>10, <2>2
<1>13. AtRecv(K2, q) /\ HasTask(K2, "recv", q) /\ \A y : y # q => ~AtRecv(K2, y)
  <2>1. 1 \in 1 .. Len(K2)
    BY <1>6, <1>10
  <2> QED BY <1>8, <1>10, <2>1 DEF AtRecv, HasTask
<1>14. ASSUME NEW y, HasTask(K, "peek", y) PROVE HasTask(K2, "peek", y)
  <2>1. PICK i \in 1 .. Len(K) : K[i].call = "peek" /\ K[i].node = y
    BY <1>14 DEF HasTask
  <2>2. i + 1 \in 1 .. Len(K2) /\ K2[i + 1] = K[i]
    BY <1>6, <1>10
  <2> QED BY <2>1, <2>2 DEF HasTask
<1>15. ASSUME NEW R, R[q] # << >> PROVE TaskPart(K2, send_q[p], R, p)
  <2>1. TaskPart(K, send_q[p], recv_q[p], p) /\ \A i \in 1 .. Len(K) : K[i].call = "peek" /\ K[i].msg = 0
    BY Zenon, <1>2, <1>6 DEF Always
  <2>2. ASSUME NEW i \in 1 .. Len(K2)
        PROVE  /\ K2[i].node # p
               /\ K2[i].call = "send" => send_q[p][K2[i].node] # << >>
               /\ K2[i].call = "recv" => R[K2[i].node] # << >>
               /\ i > 1 \/ K2[i].call # "recv" => K2[i].msg = 0
               /\ K2[i].call = "peek" => \A j \in 1 .. Len(K2) : i < j => K2[j].call = "peek"
    <3>1. CASE i = 1
      BY <1>2, <1>8, <1>10, <1>15, <3>1
    <3>2. CASE i # 1
      <4>1. i - 1 \in 1 .. Len(K) /\ K2[i] = K[i - 1]
        BY <1>12, <3>2
      <4>2. K2[i].node # p /\ K2[i].call = "peek" /\ K2[i].msg = 0
        BY <2>1, <4>1 DEF TaskPart
      <4>3. \A j \in 1 .. Len(K2) : i < j => K2[j].call = "peek"
        BY <1>12, <2>1
      <4> QED BY <4>2, <4>3
    <3> QED BY <3>1, <3>2
  <2>3. ASSUME NEW i \in 1 .. Len(K2), NEW j \in 1 .. Len(K2), K2[i].call = K2[j].call /\ K2[i].node = K2[j].node
        PROVE  i = j
    <3>1. CASE i = 1 /\ j = 1
      BY <3>1
    <3>2. CASE i # 1 /\ j # 1
      <4>1. i - 1 \in 1 .. Len(K) /\ j - 1 \in 1 .. Len(K) /\ K2[i] = K[i - 1] /\ K2[j] = K[j - 1]
        BY <1>12, <3>2
      <4>2. i - 1 = j - 1
        BY Zenon, <2>1, <2>3, <4>1 DEF TaskPart
      <4> QED BY <4>2
    <3>3. CASE i = 1 /\ j # 1
      <4>1. j - 1 \in 1 .. Len(K) /\ K2[j] = K[j - 1]
        BY <1>12, <3>3
      <4>2. K2[j].call = "peek"
        BY <2>1, <4>1
      <4>3. K2[i].call = "recv"
        BY <1>8, <1>10, <3>3
      <4> QED BY <2>3, <4>2, <4>3
    <3>4. CASE i # 1 /\ j = 1
      <4>1. i - 1 \in 1 .. Len(K) /\ K2[i] = K[i - 1]
        BY <1>12, <3>4
      <4>2. K2[i].call = "peek"
        BY <2>1, <4>1
      <4>3. K2[j].call = "recv"
        BY <1>8, <1>10, <3>4
      <4> QED BY Zenon, <2>3, <4>2, <4>3
    <3> QED BY <3>1, <3>2, <3>3, <3>4
  <2> QED BY <2>2, <2>3 DEF TaskPart
<1>16. Head(K2).msg = 0
  BY <1>8, <1>10
<1> QED BY <1>2, <1>3, <1>4, <1>5, <1>6, <1>11, <1>13, <1>14, <1>15, <1>16

\* It is for the receive m from anyone, the i-th of them, which is one from q from now on.
PeeksFor(p, q, h, m, i) ==
  /\ PeeksAt(p, q, h) /\ i \in 1 .. Len(recv_q[p][Wild]) /\ m = recv_q[p][Wild][i]
  /\ msg_list' = [msg_list EXCEPT ![p][m] =
       [@ EXCEPT !.peer = q, !.tag = h.tag, !.nbytes = h.nbytes, !.left = h.nbytes]]
  /\ recv_q' = [recv_q EXCEPT ![p][Wild] = RemoveAt(@, i), ![p][q] = <<m>> \o @]
  /\ ractive' = [ractive EXCEPT ![p][q] = TRUE]
  /\ UNCHANGED <<mid, msg_q, derailed>>

\* The rows of p afterwards; e is what m was.
PeekedFor(p, q, h, m, i, e) ==
  /\ m \in Ids /\ e = msg_list[p][m]
  /\ e.used /\ e.flag = "recv" /\ e.peer = Wild /\ e.nhdr = HdrSize /\ ~Complete(e) /\ e.got = << >>
  /\ msg_list' \in [Proc -> [Ids -> EntryType]] /\ \A x \in Proc : x # p => msg_list'[x] = msg_list[x]
  /\ \A n \in Ids : n # m => msg_list'[p][n] = msg_list[p][n]
  /\ msg_list'[p][m].used /\ msg_list'[p][m].flag = "recv" /\ msg_list'[p][m].peer = q
  /\ msg_list'[p][m].nhdr = HdrSize /\ msg_list'[p][m].left = msg_list'[p][m].nbytes
  /\ msg_list'[p][m].got = << >>
  /\ recv_q' \in [Proc -> [Proc \cup {Wild} -> Seq(Ids)]] /\ \A x \in Proc : x # p => recv_q'[x] = recv_q[x]
  /\ \A y \in Proc : y # q => recv_q'[p][y] = recv_q[p][y]
  /\ recv_q'[p][q] = <<m>> /\ recv_q'[p][Wild] = RemoveAt(recv_q[p][Wild], i)
  /\ ractive' \in [Proc -> [Proc -> BOOLEAN]] /\ \A x \in Proc : x # p => ractive'[x] = ractive[x]
  /\ \A y \in Proc : y # q => ractive'[p][y] = ractive[p][y]
  /\ ractive'[p][q]

\* A peek for a receive from anyone leaves those rows.
LEMMA PeekForRows ==
  ASSUME TcpMsgAssumption, IInv, NEW p \in Proc, NEW q, NEW h, NEW m, NEW i, PeeksFor(p, q, h, m, i)
  PROVE  \E e : PeekedFor(p, q, h, m, i, e)
<1>1. /\ PeeksAt(p, q, h) /\ i \in 1 .. Len(recv_q[p][Wild]) /\ m = recv_q[p][Wild][i]
      /\ msg_list' = [msg_list EXCEPT ![p][m] =
           [@ EXCEPT !.peer = q, !.tag = h.tag, !.nbytes = h.nbytes, !.left = h.nbytes]]
      /\ recv_q' = [recv_q EXCEPT ![p][Wild] = RemoveAt(@, i), ![p][q] = <<m>> \o @]
      /\ ractive' = [ractive EXCEPT ![p][q] = TRUE]
  BY DEF PeeksFor
<1>2. /\ q \in Proc /\ q # p /\ recv_q[p][q] = << >> /\ h \in SentMsg
      /\ Types /\ Always(p) /\ OnTrack(p)
  BY Zenon, <1>1, PeekFacts
<1>3. /\ recv_q \in [Proc -> [Proc \cup {Wild} -> Seq(Ids)]] /\ msg_list \in [Proc -> [Ids -> EntryType]]
      /\ ractive \in [Proc -> [Proc -> BOOLEAN]] /\ Wild \notin Proc /\ HdrSize \in Nat \ {0}
  <2>1. Wild \notin Proc /\ HdrSize \in Nat \ {0}
    BY DEF Wild, Proc, TcpMsgAssumption
  <2> QED BY Zenon, <1>2, <2>1 DEF Types
<1>4. PICK rw \in Seq(Ids) : rw = recv_q[p][Wild]
  BY <1>3
<1>5. m \in Ids
  BY <1>1, <1>4
<1>6. PICK e \in EntryType : e = msg_list[p][m]
  BY <1>3, <1>5
<1>7. e.used /\ e.flag = "recv" /\ e.peer = Wild /\ e.nhdr = HdrSize
  BY Zenon, <1>1, <1>2, <1>4, <1>6 DEF OnTrack, WildPart
<1>8. ~Complete(e) /\ e.got = << >>
  <2>1. EntryPart(msg_list[p], p)
    BY <1>2 DEF Always
  <2>2. e.nhdr > 0
    BY <1>3, <1>7
  <2>3. e.got = << >>
    BY <1>5, <1>6, <2>1, <2>2 DEF EntryPart
  <2>4. ~Complete(e)
    BY <2>2, EntryFacts
  <2> QED BY <2>3, <2>4
<1>9. h.tag \in Int /\ h.nbytes \in Nat
  BY <1>2 DEF SentMsg
<1>10. PICK e2 : e2 = [e EXCEPT !.peer = q, !.tag = h.tag, !.nbytes = h.nbytes, !.left = h.nbytes]
  OBVIOUS
<1>11. /\ e2 \in EntryType /\ e2.used /\ e2.flag = "recv" /\ e2.peer = q /\ e2.nhdr = HdrSize
       /\ e2.left = e2.nbytes /\ e2.got = << >>
  <2>1. PICK e1 : e1 = [e EXCEPT !.peer = q, !.tag = h.tag]
    OBVIOUS
  <2>2. /\ e1 \in EntryType /\ e1.used = e.used /\ e1.flag = e.flag /\ e1.peer = q /\ e1.nhdr = e.nhdr
        /\ e1.got = e.got
    BY Zenon, <1>2, <1>9, <2>1 DEF EntryType
  <2>3. e2 = [e1 EXCEPT !.nbytes = h.nbytes, !.left = h.nbytes]
    BY <1>10, <2>1, <2>2 DEF EntryType
  <2>4. /\ e2 \in EntryType /\ e2.used = e1.used /\ e2.flag = e1.flag /\ e2.peer = e1.peer /\ e2.nhdr = e1.nhdr
        /\ e2.got = e1.got /\ e2.left = h.nbytes /\ e2.nbytes = h.nbytes
    BY Zenon, <1>9, <2>2, <2>3 DEF EntryType
  <2> QED BY <1>7, <1>8, <2>2, <2>4
<1>12. /\ msg_list' \in [Proc -> [Ids -> EntryType]] /\ \A x \in Proc : x # p => msg_list'[x] = msg_list[x]
       /\ \A n \in Ids : msg_list'[p][n] = IF n = m THEN e2 ELSE msg_list[p][n]
  <2>1. msg_list' = [msg_list EXCEPT ![p][m] = e2]
    BY <1>1, <1>3, <1>5, <1>6, <1>10
  <2>2. Types /\ m \in Ids /\ e2 \in EntryType
    BY <1>2, <1>5, <1>11
  <2> QED BY Zenon, <2>1, <2>2, OneEntry
<1>13. PICK r1, r2 : r1 = RemoveAt(rw, i) /\ r2 = <<m>> \o << >>
  BY Zenon
<1>14. r1 \in Seq(Ids) /\ r2 \in Seq(Ids) /\ r2 = <<m>>
  <2>1. i \in 1 .. Len(rw)
    BY <1>1, <1>4
  <2>2. r1 \in Seq(Ids)
    BY <1>13, <2>1, IdRemoved
  <2> QED BY <1>5, <1>13, <2>2
<1>15. /\ recv_q' \in [Proc -> [Proc \cup {Wild} -> Seq(Ids)]] /\ \A x \in Proc : x # p => recv_q'[x] = recv_q[x]
       /\ \A y \in Proc : y # q => recv_q'[p][y] = recv_q[p][y]
       /\ recv_q'[p][q] = r2 /\ recv_q'[p][Wild] = r1
  <2>1. q # Wild
    BY <1>2, <1>3
  <2>2. recv_q' = [recv_q EXCEPT ![p] = [recv_q[p] EXCEPT ![Wild] = r1, ![q] = r2]]
    BY Zenon, <1>1, <1>2, <1>3, <1>4, <1>13, <2>1
  <2>3. PICK f : f = [recv_q[p] EXCEPT ![Wild] = r1, ![q] = r2]
    BY Zenon
  <2>31. PICK g \in [Proc \cup {Wild} -> Seq(Ids)] : g = recv_q[p]
    BY Zenon, <1>3
  <2>4. /\ f \in [Proc \cup {Wild} -> Seq(Ids)] /\ f[q] = r2 /\ f[Wild] = r1
        /\ \A y \in Proc : y # q => f[y] = recv_q[p][y]
    <3>1. f = [g EXCEPT ![Wild] = r1, ![q] = r2] /\ q \in Proc
      BY <1>2, <2>3, <2>31
    <3>2. /\ f \in [Proc \cup {Wild} -> Seq(Ids)] /\ f[q] = r2 /\ f[Wild] = r1
          /\ \A y \in Proc : y # q => f[y] = g[y]
      BY <1>3, <1>14, <2>1, <3>1
    <3> QED BY <2>31, <3>2
  <2> QED BY Zenon, <1>3, <2>2, <2>3, <2>4
<1>16. /\ ractive' \in [Proc -> [Proc -> BOOLEAN]] /\ \A x \in Proc : x # p => ractive'[x] = ractive[x]
       /\ \A y \in Proc : y # q => ractive'[p][y] = ractive[p][y]
       /\ ractive'[p][q]
  BY Zenon, <1>1, <1>2, <1>3
<1>17. PeekedFor(p, q, h, m, i, e)
  BY Zenon, <1>4, <1>5, <1>6, <1>7, <1>8, <1>11, <1>12, <1>13, <1>14, <1>15, <1>16 DEF PeekedFor
<1> QED BY <1>17

\* Where there is something to do, if a call of do_recv() for q comes first.
LEMMA PeekSignal ==
  ASSUME TcpMsgAssumption, IInv, NEW p \in Proc, NEW q, NEW h, PeeksAt(p, q, h),
         recv_q'[p][Wild] # << >> => recv_q[p][Wild] # << >>,
         \A y \in Proc : y # q => ractive'[p][y] = ractive[p][y]
  PROVE  \A y \in Peers(p) : SignalPart(work[p], ractive[p], wactive[p], recv_q[p][Wild],
                                        Len(wire[p][y]) < SockCap, avail[y][p], sigio[p], y)'
<1>1. /\ \A y : ~HasTask(work[p], "send", y) /\ ~HasTask(work[p], "recv", y)
      /\ HasTask(work'[p], "recv", q)
      /\ \A y : HasTask(work[p], "peek", y) => HasTask(work'[p], "peek", y)
      /\ \A y \in Peers(p) : In(p, y)
  BY Zenon, PeekFacts
<1>2. wactive' = wactive /\ wire' = wire /\ avail' = avail /\ sigio' = sigio
  BY Zenon DEF PeeksAt, netVars
<1> TAKE y \in Peers(p)
<1>3. SignalPart(work[p], ractive[p], wactive[p], recv_q[p][Wild], Len(wire[p][y]) < SockCap,
                 avail[y][p], sigio[p], y)
  BY <1>1 DEF In
<1>4. CASE y = q
  BY <1>1, <1>2, <1>3, <1>4 DEF SignalPart
<1>5. CASE y # q
  <2>1. ractive'[p][y] = ractive[p][y]
    BY <1>5 DEF Peers
  <2> QED BY <1>1, <1>2, <1>3, <2>1 DEF SignalPart
<1> QED BY <1>4, <1>5

\* A queue with one message, of which nothing has come.
LEMMA OneAsked ==
  ASSUME NEW L, NEW m \in Ids, NEW q, NEW mq, NEW K, NEW ra, NEW u,
         L[m].used, L[m].flag \in {"recv", "drain"}, L[m].peer = q, ~Begun(L[m]), ~Complete(L[m]),
         AtRecv(K, q), Head(K).msg = 0, u[2] = 1
  PROVE  /\ RecvPart(L, <<m>>, q) /\ HeaderPart(L, mq, <<m>>) /\ PlacePart(L, mq, <<m>>, K, q)
         /\ AwakePart(<<m>>, K, ra, q) /\ StreamPart(L, <<m>>, u)
<1>1. PICK rq : rq = <<m>>
  BY Zenon
<1>2. Len(rq) = 1 /\ \A i \in 1 .. Len(rq) : rq[i] = m /\ i = 1
  BY <1>1
<1>3. RecvPart(L, rq, q)
  BY <1>2 DEF RecvPart, Once
<1>4. HeaderPart(L, mq, rq)
  BY <1>2 DEF HeaderPart
<1>5. PlacePart(L, mq, rq, K, q)
  BY DEF PlacePart
<1>6. AwakePart(rq, K, ra, q)
  BY DEF AwakePart
<1>7. StreamPart(L, rq, u)
  BY <1>2 DEF StreamPart
<1> QED BY <1>1, <1>3, <1>4, <1>5, <1>6, <1>7

\* A receive from anyone gets the next message of q.
LEMMA PeeksForStep ==
  ASSUME TcpMsgAssumption, IInv, NEW p \in Proc, NEW q, NEW h, NEW m, NEW i, PeeksFor(p, q, h, m, i)
  PROVE  IInv'
<1>1. /\ PeeksAt(p, q, h) /\ i \in 1 .. Len(recv_q[p][Wild]) /\ m = recv_q[p][Wild][i]
      /\ UNCHANGED <<mid, msg_q, derailed>>
  BY DEF PeeksFor
<1>2. /\ q \in Peers(p) /\ q \in Proc /\ q # p /\ recv_q[p][q] = << >> /\ ~derailed[p]
      /\ \A y : ~AtRecv(work[p], y)
      /\ work' \in [Proc -> Seq(TaskType)] /\ \A x \in Proc : x # p => work'[x] = work[x]
      /\ AtRecv(work'[p], q) /\ Head(work'[p]).msg = 0
      /\ \A R : R[q] # << >> => TaskPart(work'[p], send_q[p], R, p)
      /\ Types /\ Always(p) /\ History(p) /\ OnTrack(p) /\ \A y \in Peers(p) : In(p, y) /\ Out(p, y)
  BY Zenon, <1>1, PeekFacts
<1>3. PICK e : PeekedFor(p, q, h, m, i, e)
  BY PeekForRows
<1>4. /\ m \in Ids /\ e = msg_list[p][m]
      /\ e.used /\ e.flag = "recv" /\ e.peer = Wild /\ e.nhdr = HdrSize /\ ~Complete(e)
      /\ msg_list' \in [Proc -> [Ids -> EntryType]] /\ \A x \in Proc : x # p => msg_list'[x] = msg_list[x]
      /\ \A n \in Ids : n # m => msg_list'[p][n] = msg_list[p][n]
      /\ msg_list'[p][m].used /\ msg_list'[p][m].flag = "recv" /\ msg_list'[p][m].peer = q
      /\ msg_list'[p][m].nhdr = HdrSize /\ msg_list'[p][m].left = msg_list'[p][m].nbytes
      /\ msg_list'[p][m].got = << >>
      /\ recv_q' \in [Proc -> [Proc \cup {Wild} -> Seq(Ids)]] /\ \A x \in Proc : x # p => recv_q'[x] = recv_q[x]
      /\ \A y \in Proc : y # q => recv_q'[p][y] = recv_q[p][y]
      /\ recv_q'[p][q] = <<m>> /\ recv_q'[p][Wild] = RemoveAt(recv_q[p][Wild], i)
      /\ ractive' \in [Proc -> [Proc -> BOOLEAN]] /\ \A x \in Proc : x # p => ractive'[x] = ractive[x]
      /\ \A y \in Proc : y # q => ractive'[p][y] = ractive[p][y]
      /\ ractive'[p][q]
  BY Zenon, <1>3 DEF PeekedFor
<1>5. /\ mid' = mid /\ msg_q' = msg_q /\ derailed' = derailed /\ todo' = todo /\ pc' = pc /\ handle' = handle
      /\ waited' = waited /\ sent' = sent /\ send_q' = send_q /\ wactive' = wactive
      /\ wire' = wire /\ avail' = avail /\ sigio' = sigio
  BY Zenon, <1>1 DEF PeeksAt, userVars, netVars
<1>6. Types'
  BY Zenon, <1>2, <1>4, <1>5 DEF Types
<1>7. Wild \notin Proc /\ HdrSize \in Nat \ {0}
  BY DEF Wild, Proc, TcpMsgAssumption
<1>8. PICK L, L2, H : L = msg_list[p] /\ L2 = msg_list'[p] /\ H = handle[p]
  OBVIOUS
<1>9. PICK rw \in Seq(Ids) : rw = recv_q[p][Wild]
  <2>1. recv_q \in [Proc -> [Proc \cup {Wild} -> Seq(Ids)]]
    BY Zenon, <1>2 DEF Types
  <2> QED BY <2>1
<1>10. /\ RemoveAt(rw, i) \in Seq(Ids) /\ Len(RemoveAt(rw, i)) = Len(rw) - 1 /\ Len(rw) \in Nat
       /\ \A j \in 1 .. Len(rw) - 1 : RemoveAt(rw, i)[j] = IF j < i THEN rw[j] ELSE rw[j + 1]
  BY Zenon, <1>1, <1>9, IdRemoved
<1>11. ~Begun(L2[m]) /\ ~Complete(L2[m]) /\ L2[m] \in EntryType
  <2>1. L2[m] \in EntryType /\ L2[m].nhdr = HdrSize
    BY <1>2, <1>4, <1>8
  <2> QED BY <1>7, <2>1, EntryFacts DEF Begun
<1>12. \A y \in Proc : \A j \in 1 .. Len(msg_q[p][y]) : msg_q[p][y][j] \in Ids /\ msg_q[p][y][j] # m
  <2> TAKE y \in Proc
  <2>1. MsgPart(msg_list[p], handle[p], msg_q[p][y], recv_q[p][y], p, y)
    BY <1>2 DEF OnTrack
  <2>2. msg_q[p][y] \in Seq(Ids)
    BY <1>2 DEF Types
  <2> TAKE j \in 1 .. Len(msg_q[p][y])
  <2>3. msg_list[p][msg_q[p][y][j]].peer = y
    BY Zenon, <2>1 DEF MsgPart
  <2>4. msg_list[p][m].peer = Wild
    BY <1>4
  <2> QED BY <1>7, <2>2, <2>3, <2>4
<1>13. Always(p)'
  <2>1. /\ OwnPart(send_q[p], recv_q[p], ractive[p], wactive[p], wire[p], avail[p], p)
        /\ HandlePart(todo[p], H, waited[p], pc[p]) /\ EntryPart(L, p)
        /\ QueuedPart(L, send_q[p]) /\ KeptPart(L, H, send_q[p], msg_q[p])
        /\ ActivePart(send_q[p], recv_q[p], ractive[p], wactive[p])
    BY <1>2, <1>8 DEF Always
  <2>2. OwnPart(send_q[p], recv_q'[p], ractive'[p], wactive[p], wire[p], avail[p], p)
    BY Zenon, <1>2, <1>4, <2>1 DEF OwnPart
  <2>3. EntryPart(L2, p)
    <3>1. L2[m].left <= L2[m].nbytes
      BY SMTT(30), <1>4, <1>8, <1>11, EntryFacts
    <3>2. ASSUME NEW n \in Ids
          PROVE  /\ L2[n].left <= L2[n].nbytes
                 /\ L2[n].nhdr > 0 => L2[n].left = L2[n].nbytes /\ L2[n].got = << >>
                 /\ L2[n].flag = "drain" => L2[n].peer # p
      <4>1. CASE n = m
        BY <1>4, <1>8, <3>1, <4>1
      <4>2. CASE n # m
        <5>1. L2[n] = L[n]
          BY <1>4, <1>8, <4>2
        <5> QED BY <2>1, <5>1 DEF EntryPart
      <4> QED BY <4>1, <4>2
    <3> QED BY <3>2 DEF EntryPart
  <2>4. QueuedPart(L2, send_q[p])
    <3>1. SUFFICES ASSUME NEW n \in Ids, L2[n].used, L2[n].flag \in {"send", "buffered"}, nleft(L2[n]) > 0
                   PROVE \E y \in Proc : Contains(send_q[p][y], n)
      BY DEF QueuedPart
    <3>2. L2[n] = L[n]
      BY Zenon, <1>4, <1>8, <3>1
    <3> QED BY <2>1, <3>1, <3>2 DEF QueuedPart
  <2>5. KeptPart(L2, H, send_q[p], msg_q[p])
    <3>1. SUFFICES ASSUME NEW n \in Ids, L2[n].used
                   PROVE \/ Named(H, n)
                         \/ \E y \in Proc : Contains(send_q[p][y], n) \/ Contains(msg_q[p][y], n)
                         \/ L2[n].flag = "buffered" /\ Complete(L2[n])
      BY DEF KeptPart
    <3>2. CASE n = m
      <4>1. L[m].used /\ L[m].flag = "recv"
        BY <1>4, <1>8
      <4> QED BY <2>1, <3>1, <3>2, <4>1 DEF KeptPart
    <3>3. CASE n # m
      <4>1. L2[n] = L[n]
        BY <1>4, <1>8, <3>3
      <4> QED BY <2>1, <3>1, <4>1 DEF KeptPart
    <3> QED BY <3>2, <3>3
  <2>6. recv_q'[p][q] # << >>
    BY <1>4
  <2>7. ActivePart(send_q[p], recv_q'[p], ractive'[p], wactive[p])
    BY ZenonT(30), <1>4, <2>1, <2>6 DEF ActivePart
  <2>8. TaskPart(work'[p], send_q[p], recv_q'[p], p)
    BY <1>2, <2>6
  <2> QED BY <1>5, <1>8, <2>1, <2>2, <2>3, <2>4, <2>5, <2>7, <2>8 DEF Always
<1>14. History(p)'
  <2>1. ContentPart(L, sent, p) /\ WaitedPart(waited[p], sent, p)
    BY <1>2, <1>8 DEF History
  <2>2. L2[m].nhdr # 0
    BY <1>4, <1>7, <1>8
  <2>3. ContentPart(L2, sent, p)
    BY ZenonT(60), <1>4, <1>8, <2>1, <2>2 DEF ContentPart
  <2> QED BY <1>5, <1>8, <2>1, <2>3 DEF History
<1>15. OnTrack(p)'
  <2>1. /\ PcPart(L, todo[p], H, pc[p]) /\ WildPart(L, rw)
        /\ \A y \in Proc : MsgPart(L, H, msg_q[p][y], recv_q[p][y], p, y)
    BY <1>2, <1>8, <1>9 DEF OnTrack
  <2>2. PcPart(L2, todo[p], H, pc[p])
    <3>1. PICK n : n = H[Head(todo[p]).i]
      OBVIOUS
    <3>2. CASE n = m
      BY <1>4, <1>8, <2>1, <3>1, <3>2 DEF PcPart
    <3>3. CASE n # m
      <4>1. CASE pc[p] = "run"
        BY <4>1 DEF PcPart
      <4>2. CASE pc[p] # "run"
        <5>1. HandlePart(todo[p], H, waited[p], pc[p])
          BY <1>2, <1>8 DEF Always
        <5>2. todo[p] # << >> /\ Head(todo[p]).op = "wait" /\ n # 0
          BY <3>1, <4>2, <5>1 DEF HandlePart
        <5>3. Head(todo[p]).i \in 1 .. Len(handle[p]) /\ Id(p) \in 0 .. MaxMsgs
          BY <5>2, CallFacts
        <5>4. n \in 0 .. MaxMsgs
          BY <1>8, <3>1, <5>3 DEF Id
        <5>5. n \in Ids
          BY <5>2, <5>4, IdOrNone
        <5>6. L2[n] = L[n]
          BY <1>4, <1>8, <3>3, <5>5
        <5> QED BY <2>1, <3>1, <5>6 DEF PcPart
      <4> QED BY <4>1, <4>2
    <3> QED BY <3>2, <3>3
  <2>3. WildPart(L2, RemoveAt(rw, i))
    <3>1. PICK r : r = RemoveAt(rw, i)
      OBVIOUS
    <3>2. Once(rw) /\ m = rw[i] /\ i \in 1 .. Len(rw)
      BY <1>1, <1>9, <2>1 DEF WildPart
    <3>3. ASSUME NEW j \in 1 .. Len(r)
          PROVE \E k \in 1 .. Len(rw) : r[j] = rw[k] /\ k # i /\ k = IF j < i THEN j ELSE j + 1
      <4>1. j \in 1 .. Len(rw) - 1
        BY <1>10, <3>1
      <4>2. CASE j < i
        <5>1. j \in 1 .. Len(rw) /\ j # i /\ r[j] = rw[j]
          BY <1>10, <3>1, <4>1, <4>2
        <5> QED BY <4>2, <5>1
      <4>3. CASE ~(j < i)
        <5>1. j + 1 \in 1 .. Len(rw) /\ j + 1 # i /\ r[j] = rw[j + 1]
          BY <1>10, <3>1, <3>2, <4>1, <4>3
        <5> QED BY <4>3, <5>1
      <4> QED BY <4>2, <4>3
    <3>4. ASSUME NEW j \in 1 .. Len(r)
          PROVE  L2[r[j]].used /\ L2[r[j]].flag = "recv" /\ L2[r[j]].peer = Wild /\ L2[r[j]].nhdr = HdrSize
      <4>1. PICK k \in 1 .. Len(rw) : r[j] = rw[k] /\ k # i
        BY <3>3
      <4>2. rw[k] # m /\ rw[k] \in Ids
        BY <3>2, <4>1, <1>9 DEF Once
      <4>3. L2[r[j]] = L[rw[k]]
        BY <1>4, <1>8, <4>1, <4>2
      <4> QED BY <2>1, <4>1, <4>3 DEF WildPart
    <3>5. Once(r)
      <4>1. SUFFICES ASSUME NEW a \in 1 .. Len(r), NEW b \in 1 .. Len(r), r[a] = r[b] PROVE a = b
        BY DEF Once
      <4>2. PICK k \in 1 .. Len(rw) : r[a] = rw[k] /\ k # i /\ k = IF a < i THEN a ELSE a + 1
        BY <3>3
      <4>3. PICK l \in 1 .. Len(rw) : r[b] = rw[l] /\ l # i /\ l = IF b < i THEN b ELSE b + 1
        BY <3>3
      <4>4. k = l
        BY Zenon, <3>2, <4>1, <4>2, <4>3 DEF Once
      <4>5. Len(r) \in Nat /\ i \in Int
        BY <1>10, <3>1, <3>2
      <4>6. a \in Int /\ b \in Int
        BY <4>5
      <4>7. (IF a < i THEN a ELSE a + 1) = (IF b < i THEN b ELSE b + 1) /\ k # i
        BY <4>2, <4>3, <4>4
      <4>8. (IF a < i THEN a ELSE a + 1) # i /\ (IF b < i THEN b ELSE b + 1) # i
        BY <4>2, <4>3
      <4> QED BY <4>5, <4>6, <4>7, <4>8
    <3> QED BY <3>1, <3>4, <3>5 DEF WildPart
  <2>4. ASSUME NEW y \in Proc PROVE MsgPart(L2, H, msg_q[p][y], recv_q'[p][y], p, y)
    <3>1. MsgPart(L, H, msg_q[p][y], recv_q[p][y], p, y)
      BY <2>1
    <3>2. \A j \in 1 .. Len(msg_q[p][y]) : L2[msg_q[p][y][j]] = L[msg_q[p][y][j]]
      BY Zenon, <1>4, <1>8, <1>12
    <3>3. MsgPart(L2, H, msg_q[p][y], recv_q[p][y], p, y)
      BY <3>1, <3>2, MsgSame
    <3>4. CASE y # q
      BY <1>4, <3>3, <3>4
    <3>5. CASE y = q
      <4>1. ASSUME NEW n \in Ids PROVE ~Contains(recv_q[p][y], n)
        <5>1. PICK s : s = recv_q[p][y]
          OBVIOUS
        <5>11. s \in Seq(Ids) /\ s = << >>
          BY <1>2, <3>5, <5>1 DEF Types
        <5>2. ~\E j \in 1 .. Len(s) : s[j] = n
          BY <5>11
        <5>3. ~Contains(s, n)
          BY Zenon, <5>11, <5>2, ContainsIs
        <5> QED BY <1>2, <3>5, <5>1, <5>3
      <4> QED BY Zenon, <1>12, <3>3, <4>1 DEF MsgPart
    <3> QED BY <3>4, <3>5
  <2> QED BY <1>4, <1>5, <1>8, <1>9, <2>2, <2>3, <2>4 DEF OnTrack
<1>16. \A y \in Peers(p) : SignalPart(work[p], ractive[p], wactive[p], recv_q[p][Wild],
                                      Len(wire[p][y]) < SockCap, avail[y][p], sigio[p], y)'
  <2>1. recv_q[p][Wild] # << >>
    BY Zenon, <1>1 DEF PeeksAt
  <2>2. \A y \in Proc : y # q => ractive'[p][y] = ractive[p][y]
    BY <1>4
  <2>3. PeeksAt(p, q, h)
    BY <1>1
  <2>4. recv_q'[p][Wild] # << >> => recv_q[p][Wild] # << >>
    BY <2>1
  <2> QED BY <2>2, <2>3, <2>4, PeekSignal
<1>17. ASSUME NEW y \in Peers(p) PROVE In(p, y)'
  <2>1. In(p, y) /\ y \in Proc /\ y # p
    BY <1>2 DEF Peers
  <2>2. SignalPart(work[p], ractive[p], wactive[p], recv_q[p][Wild], Len(wire[p][y]) < SockCap,
                    avail[y][p], sigio[p], y)'
    BY <1>16
  <2>3. /\ wire'[y][p] = wire[y][p] /\ avail'[y][p] = avail[y][p] /\ sent'[y][p] = sent[y][p]
        /\ msg_list'[y] = msg_list[y] /\ send_q'[y] = send_q[y]
    BY <1>4, <1>5, <2>1
  <2>4. CASE y # q
    <3>1. recv_q'[p][y] = recv_q[p][y] /\ ractive'[p][y] = ractive[p][y]
      BY <1>4, <2>1, <2>4
    <3>2. \A j \in 1 .. Len(recv_q[p][y]) : SameBut(msg_list[p][recv_q[p][y][j]], msg_list'[p][recv_q[p][y][j]])
      <4> TAKE j \in 1 .. Len(recv_q[p][y])
      <4>1. recv_q[p][y] \in Seq(Ids)
        BY Zenon, <1>2, <2>1, RowTypes
      <4>2. msg_list[p][recv_q[p][y][j]].peer = y
        BY Zenon, <2>1 DEF In, RecvPart
      <4>3. recv_q[p][y][j] \in Ids /\ recv_q[p][y][j] # m
        <5>1. recv_q[p][y][j] \in Ids
          BY <4>1
        <5>2. msg_list[p][m].peer = Wild /\ y # Wild
          BY Zenon, <1>4, <1>7, <2>1
        <5> QED BY Zenon, <4>2, <5>1, <5>2
      <4> QED BY Zenon, <1>4, <4>3, SameIsSame
    <3>3. \A j \in 1 .. Len(msg_q'[p][y]) :
            /\ SameBut(msg_list[p][msg_q'[p][y][j]], msg_list'[p][msg_q'[p][y][j]])
            /\ \E k \in 1 .. Len(msg_q[p][y]) : msg_q'[p][y][j] = msg_q[p][y][k]
      BY SMTT(30), <1>4, <1>5, <1>12, <2>1, SameIsSame
    <3>4. ~AtRecv(work[p], y) /\ ~(AtRecv(work'[p], y) /\ Head(work'[p]).msg # 0)
      BY <1>2
    <3> QED BY Zenon, <1>2, <2>1, <2>2, <2>3, <3>1, <3>2, <3>3, <3>4, InSame
  <2>5. CASE y = q
    <3>1. PICK mq, K2, u : /\ mq = msg_q[p][q] /\ K2 = work'[p]
                           /\ u = NextIn(msg_list[q], send_q[q][p], sent[q][p], wire[q][p])
      OBVIOUS
    <3>2. u[2] = 1
      <4>1. StreamPart(L, << >>, u)
        BY <1>2, <1>8, <2>1, <2>5, <3>1 DEF In
      <4> QED BY <4>1 DEF StreamPart
    <3>3. /\ L2[m].used /\ L2[m].flag \in {"recv", "drain"} /\ L2[m].peer = q
          /\ AtRecv(K2, q) /\ Head(K2).msg = 0
      BY Zenon, <1>2, <1>4, <1>8, <3>1
    <3>4. /\ RecvPart(L2, <<m>>, q) /\ HeaderPart(L2, mq, <<m>>) /\ PlacePart(L2, mq, <<m>>, K2, q)
          /\ AwakePart(<<m>>, K2, ractive'[p], q) /\ StreamPart(L2, <<m>>, u)
      BY Zenon, <1>4, <1>11, <3>2, <3>3, OneAsked
    <3>5. DrainPart(L2, <<m>>, K2, q, wire[q][p], avail[q][p], sent[q][p])
      BY SMTT(30), <1>4, <1>8 DEF DrainPart
    <3>6. NextIn(msg_list[y], send_q[y][p], sent[y][p], wire[y][p])' = u
      BY <2>3, <2>5, <3>1
    <3> QED BY ZenonT(60), <1>4, <1>5, <1>8, <2>2, <2>3, <2>5, <3>1, <3>4, <3>5, <3>6 DEF In
  <2> QED BY <2>4, <2>5
<1>18. SendParts(p)
  <2>1. \A n \in Ids : Outgoing(msg_list[p][n]) => StillOutgoing(msg_list[p][n], msg_list'[p][n])
    <3> TAKE n \in Ids
    <3>1. CASE n = m
      BY Zenon, <1>4, <3>1 DEF Outgoing
    <3>2. CASE n # m
      <4>1. msg_list'[p][n] = msg_list[p][n]
        BY <1>4, <3>2
      <4> QED BY <4>1 DEF Outgoing, StillOutgoing
    <3> QED BY <3>1, <3>2
  <2> QED BY <1>5, <2>1, OutQuiet
<1>19. Quiet(p)
  <2>1. \A y \in Proc : Grown(sent[p][y], sent'[p][y])
    BY <1>2, <1>5, GrownSame
  <2> QED BY <1>2, <1>4, <1>5, <2>1 DEF Quiet, SameRows, Peers
<1> QED BY <1>6, <1>13, <1>14, <1>15, <1>17, <1>18, <1>19, OwnStep DEF OwnParts

\* Entry m is added to the messages mq from q that nobody asked for.
MsgAdds(L, H, mq, rq, rq2, p, q, m) ==
  /\ mq \in Seq(Ids) /\ m \in Ids /\ q # p /\ MsgPart(L, H, mq, rq, p, q)
  /\ \A n \in Ids : Contains(rq, n) => Contains(rq2, n)
  /\ \A j \in 1 .. Len(mq) : mq[j] # m
  /\ L[m].used /\ L[m].peer = q /\ (L[m].flag = "drain" \/ (L[m].flag = "recv" /\ L[m].nhdr = 0))
  /\ Complete(L[m]) \/ Contains(rq2, m)
  /\ ~Named(H, m)

\* What is known of them stays so.
LEMMA MsgAdded ==
  ASSUME NEW L, NEW H, NEW mq, NEW rq, NEW rq2, NEW p, NEW q, NEW m, MsgAdds(L, H, mq, rq, rq2, p, q, m)
  PROVE  /\ MsgPart(L, H, Append(mq, m), rq2, p, q) /\ Append(mq, m) \in Seq(Ids)
         /\ Contains(Append(mq, m), m) /\ \A n \in Ids : Contains(mq, n) => Contains(Append(mq, m), n)
         /\ \A i \in 1 .. Len(Append(mq, m)) : Append(mq, m)[i] = m \/ \E j \in 1 .. Len(mq) : Append(mq, m)[i] = mq[j]
<1>1. /\ mq \in Seq(Ids) /\ m \in Ids /\ q # p /\ MsgPart(L, H, mq, rq, p, q)
      /\ \A n \in Ids : Contains(rq, n) => Contains(rq2, n)
      /\ \A j \in 1 .. Len(mq) : mq[j] # m
  BY DEF MsgAdds
<1>2. /\ L[m].used /\ L[m].peer = q /\ (L[m].flag = "drain" \/ (L[m].flag = "recv" /\ L[m].nhdr = 0))
      /\ Complete(L[m]) \/ Contains(rq2, m)
      /\ ~Named(H, m)
  BY DEF MsgAdds
<1>3. PICK s : s = Append(mq, m)
  OBVIOUS
<1>4. /\ s \in Seq(Ids) /\ Len(s) = Len(mq) + 1 /\ s[Len(mq) + 1] = m /\ Len(mq) \in Nat
      /\ \A j \in 1 .. Len(mq) : s[j] = mq[j]
  BY <1>1, <1>3
<1>5. \A i \in 1 .. Len(s) : i = Len(mq) + 1 \/ i \in 1 .. Len(mq)
  BY <1>4
<1>6. ASSUME NEW i \in 1 .. Len(s)
      PROVE  /\ L[s[i]].used /\ L[s[i]].peer = q
             /\ L[s[i]].flag = "drain" \/ (L[s[i]].flag = "recv" /\ L[s[i]].nhdr = 0)
             /\ Complete(L[s[i]]) \/ Contains(rq2, s[i])
             /\ ~Named(H, s[i])
  <2>1. CASE i = Len(mq) + 1
    BY <1>2, <1>4, <2>1
  <2>2. CASE i \in 1 .. Len(mq)
    <3>1. s[i] = mq[i] /\ mq[i] \in Ids
      BY <1>1, <1>4, <2>2
    <3>2. /\ L[mq[i]].used /\ L[mq[i]].peer = q
          /\ L[mq[i]].flag = "drain" \/ (L[mq[i]].flag = "recv" /\ L[mq[i]].nhdr = 0)
          /\ Complete(L[mq[i]]) \/ Contains(rq, mq[i])
          /\ ~Named(H, mq[i])
      BY <1>1, <2>2 DEF MsgPart
    <3> QED BY <1>1, <3>1, <3>2
  <2> QED BY <1>5, <2>1, <2>2
<1>7. Once(s)
  <2>1. SUFFICES ASSUME NEW a \in 1 .. Len(s), NEW b \in 1 .. Len(s), s[a] = s[b] PROVE a = b
    BY DEF Once
  <2>2. CASE a \in 1 .. Len(mq) /\ b \in 1 .. Len(mq)
    BY <1>1, <1>4, <2>1, <2>2 DEF MsgPart, Once
  <2>3. CASE a \in 1 .. Len(mq) /\ b = Len(mq) + 1
    BY <1>1, <1>4, <2>1, <2>3
  <2>4. CASE a = Len(mq) + 1 /\ b \in 1 .. Len(mq)
    BY <1>1, <1>4, <2>1, <2>4
  <2>5. CASE a = Len(mq) + 1 /\ b = Len(mq) + 1
    BY <2>5
  <2> QED BY <1>5, <2>2, <2>3, <2>4, <2>5
<1>8. MsgPart(L, H, s, rq2, p, q)
  BY <1>1, <1>6, <1>7 DEF MsgPart
<1>9. Contains(s, m)
  <2>1. Len(mq) + 1 \in 1 .. Len(s)
    BY <1>4
  <2> QED BY <1>4, <2>1, ContainsIs
<1>10. ASSUME NEW n \in Ids, Contains(mq, n) PROVE Contains(s, n)
  <2>1. PICK j \in 1 .. Len(mq) : mq[j] = n
    BY <1>1, <1>10, ContainsIs
  <2>2. j \in 1 .. Len(s) /\ s[j] = n
    BY <1>4, <2>1
  <2> QED BY <1>4, <2>2, ContainsIs
<1>11. \A i \in 1 .. Len(s) : s[i] = m \/ \E j \in 1 .. Len(mq) : s[i] = mq[j]
  BY <1>4, <1>5
<1> QED BY <1>3, <1>4, <1>8, <1>9, <1>10, <1>11

\* It is for nobody: what it announces is received into a new entry, y.
PeeksNew(p, q, h, y) ==
  /\ PeeksAt(p, q, h) /\ EntryLeft(p) /\ y = NextId(p) /\ Create(p, y)
  /\ msg_list' = [msg_list EXCEPT ![p][y] = Entry("drain", q, h.tag, h.nbytes)]
  /\ recv_q' = [recv_q EXCEPT ![p][q] = Post(@, y)]
  /\ msg_q' = [msg_q EXCEPT ![p][q] = Post(@, y)]
  /\ UNCHANGED ractive

\* The rows of p afterwards.
PeekedNew(p, q, h, y) ==
  /\ Adds(p, y)
  /\ msg_list'[p][y].used /\ msg_list'[p][y].flag = "drain" /\ msg_list'[p][y].peer = q
  /\ msg_list'[p][y].tag = h.tag /\ msg_list'[p][y].nbytes = h.nbytes
  /\ msg_list'[p][y].nhdr = HdrSize /\ ~Begun(msg_list'[p][y]) /\ ~Complete(msg_list'[p][y])
  /\ recv_q' \in [Proc -> [Proc \cup {Wild} -> Seq(Ids)]] /\ \A x \in Proc : x # p => recv_q'[x] = recv_q[x]
  /\ \A x \in Proc \cup {Wild} : x # q => recv_q'[p][x] = recv_q[p][x]
  /\ recv_q'[p][q] = <<y>>
  /\ msg_q' \in [Proc -> [Proc -> Seq(Ids)]] /\ \A x \in Proc : x # p => msg_q'[x] = msg_q[x]
  /\ \A x \in Proc : x # q => msg_q'[p][x] = msg_q[p][x]
  /\ msg_q'[p][q] = Append(msg_q[p][q], y)

\* A peek at what nobody asked for leaves those rows.
LEMMA PeekNewRows ==
  ASSUME TcpMsgAssumption, IInv, NEW p \in Proc, NEW q, NEW h, NEW y, PeeksNew(p, q, h, y)
  PROVE  PeekedNew(p, q, h, y)
<1>1. /\ PeeksAt(p, q, h) /\ EntryLeft(p) /\ y = NextId(p) /\ Create(p, y)
      /\ msg_list' = [msg_list EXCEPT ![p][y] = Entry("drain", q, h.tag, h.nbytes)]
      /\ recv_q' = [recv_q EXCEPT ![p][q] = Append(@, y)]
      /\ msg_q' = [msg_q EXCEPT ![p][q] = Append(@, y)]
  BY DEF PeeksNew, Post
<1>2. /\ q \in Proc /\ q # p /\ recv_q[p][q] = << >> /\ h \in SentMsg /\ ~derailed[p] /\ Types
  BY <1>1, PeekFacts
<1>3. Made(p, y) /\ y \in Ids
  <2>1. Made(p, y)
    BY <1>1, <1>2, NewEntry
  <2> QED BY <2>1 DEF Made
<1>4. PICK e : e = Entry("drain", q, h.tag, h.nbytes)
  OBVIOUS
<1>5. h.tag \in Int /\ h.nbytes \in Nat
  BY <1>2 DEF SentMsg
<1>6. /\ e \in EntryType /\ e.used /\ e.flag = "drain" /\ e.peer = q /\ e.tag = h.tag /\ e.nbytes = h.nbytes
      /\ e.nhdr = HdrSize /\ e.left = e.nbytes /\ e.got = << >> /\ ~Begun(e) /\ ~Complete(e)
  <2>1. RecvArgs("drain", q, h.tag, h.nbytes)
    BY <1>2, <1>5 DEF RecvArgs
  <2>2. NewRecv(e, "drain", q, h.tag, h.nbytes)
    BY Zenon, <1>4, <2>1, RecvEntryIs
  <2> QED BY Zenon, <2>2, <1>4 DEF NewRecv
<1>7. /\ msg_list' \in [Proc -> [Ids -> EntryType]]
      /\ \A x \in Proc : x # p => msg_list'[x] = msg_list[x]
      /\ \A n \in Ids : msg_list'[p][n] = IF n = y THEN e ELSE msg_list[p][n]
  <2>1. msg_list' = [msg_list EXCEPT ![p][y] = e]
    BY <1>1, <1>4
  <2>2. Types /\ y \in Ids /\ e \in EntryType
    BY <1>2, <1>3, <1>6
  <2> QED BY Zenon, <2>1, <2>2, OneEntry
<1>8. msg_list'[p][y] = e
  BY <1>3, <1>7
<1>9. Adds(p, y)
  <2>1. \A n \in Ids : n # y => msg_list'[p][n] = msg_list[p][n]
    BY <1>7
  <2>2. e.left <= e.nbytes
    BY <1>6, EntryFacts
  <2> QED BY <1>2, <1>3, <1>6, <1>7, <1>8, <2>1, <2>2 DEF Adds
<1>10. /\ recv_q \in [Proc -> [Proc \cup {Wild} -> Seq(Ids)]] /\ msg_q \in [Proc -> [Proc -> Seq(Ids)]]
  BY Zenon, <1>2 DEF Types
<1>11. PICK s \in Seq(Ids) : s = msg_q[p][q]
  BY <1>2, <1>10
<1>12. PICK a, b : a = Append(s, y) /\ b = Append(<< >>, y)
  OBVIOUS
<1>13. a \in Seq(Ids) /\ b \in Seq(Ids) /\ b = <<y>>
  BY <1>3, <1>12
<1>14. /\ recv_q' \in [Proc -> [Proc \cup {Wild} -> Seq(Ids)]] /\ \A x \in Proc : x # p => recv_q'[x] = recv_q[x]
       /\ \A x \in Proc \cup {Wild} : x # q => recv_q'[p][x] = recv_q[p][x]
       /\ recv_q'[p][q] = b
  <2>1. recv_q' = [recv_q EXCEPT ![p][q] = b]
    BY <1>1, <1>2, <1>10, <1>12
  <2> QED BY Zenon, <1>2, <1>10, <1>13, <2>1
<1>15. /\ msg_q' \in [Proc -> [Proc -> Seq(Ids)]] /\ \A x \in Proc : x # p => msg_q'[x] = msg_q[x]
       /\ \A x \in Proc : x # q => msg_q'[p][x] = msg_q[p][x]
       /\ msg_q'[p][q] = a
  <2>1. msg_q' = [msg_q EXCEPT ![p][q] = a]
    BY <1>1, <1>2, <1>10, <1>11, <1>12
  <2> QED BY <1>2, <1>10, <1>13, <2>1
<1> QED BY Zenon, <1>6, <1>8, <1>9, <1>11, <1>12, <1>13, <1>14, <1>15 DEF PeekedNew

\* The wait of a process is not for an entry that no handle names.
LEMMA PcElsewhere ==
  ASSUME TcpMsgAssumption, IInv, NEW p \in Proc, NEW L2, NEW m, ~Named(handle[p], m),
         \A n \in Ids : n # m => L2[n] = msg_list[p][n], PcPart(msg_list[p], todo[p], handle[p], pc[p])
  PROVE  PcPart(L2, todo[p], handle[p], pc[p])
<1>1. PICK n : n = handle[p][Head(todo[p]).i]
  OBVIOUS
<1>2. CASE pc[p] = "run"
  BY <1>2 DEF PcPart
<1>3. CASE pc[p] # "run"
  <2>1. HandlePart(todo[p], handle[p], waited[p], pc[p])
    BY DEF IInv, Always
  <2>2. todo[p] # << >> /\ Head(todo[p]).op = "wait" /\ n # 0
    BY <1>1, <1>3, <2>1 DEF HandlePart
  <2>3. Head(todo[p]).i \in 1 .. Len(handle[p]) /\ Id(p) \in 0 .. MaxMsgs
    BY <2>2, CallFacts
  <2>4. n \in 0 .. MaxMsgs
    BY <1>1, <2>3 DEF Id
  <2>5. n \in Ids
    BY Zenon, <2>2, <2>4, IdOrNone
  <2>6. n # m
    BY <1>1, <2>3 DEF Named
  <2>7. L2[n] = msg_list[p][n]
    BY <2>5, <2>6
  <2> QED BY Zenon, <1>1, <2>7 DEF PcPart
<1> QED BY <1>2, <1>3

\* What nobody asked for is received.
LEMMA PeeksNewStep ==
  ASSUME TcpMsgAssumption, IInv, NEW p \in Proc, NEW q, NEW h, NEW m, PeeksNew(p, q, h, m)
  PROVE  IInv'
<1>1. PeeksAt(p, q, h) /\ PeekedNew(p, q, h, m) /\ ractive' = ractive
  BY Zenon, PeekNewRows DEF PeeksNew
<1>2. /\ q \in Peers(p) /\ q \in Proc /\ q # p /\ recv_q[p][q] = << >> /\ ~derailed[p]
      /\ \A y : ~AtRecv(work[p], y)
      /\ work' \in [Proc -> Seq(TaskType)] /\ \A x \in Proc : x # p => work'[x] = work[x]
      /\ AtRecv(work'[p], q) /\ Head(work'[p]).msg = 0
      /\ \A R : R[q] # << >> => TaskPart(work'[p], send_q[p], R, p)
      /\ Types /\ Always(p) /\ History(p) /\ OnTrack(p) /\ \A y \in Peers(p) : In(p, y) /\ Out(p, y)
  BY Zenon, <1>1, PeekFacts
<1>3. /\ avail[q][p] >= HdrSize /\ h = sent[q][p][wire[q][p][1][1]]
  BY Zenon, <1>1 DEF PeeksAt
<1>4. /\ Adds(p, m)
      /\ msg_list'[p][m].used /\ msg_list'[p][m].flag = "drain" /\ msg_list'[p][m].peer = q
      /\ msg_list'[p][m].tag = h.tag /\ msg_list'[p][m].nbytes = h.nbytes
      /\ msg_list'[p][m].nhdr = HdrSize /\ ~Begun(msg_list'[p][m]) /\ ~Complete(msg_list'[p][m])
      /\ recv_q' \in [Proc -> [Proc \cup {Wild} -> Seq(Ids)]] /\ \A x \in Proc : x # p => recv_q'[x] = recv_q[x]
      /\ \A x \in Proc \cup {Wild} : x # q => recv_q'[p][x] = recv_q[p][x]
      /\ recv_q'[p][q] = <<m>>
      /\ msg_q' \in [Proc -> [Proc -> Seq(Ids)]] /\ \A x \in Proc : x # p => msg_q'[x] = msg_q[x]
      /\ \A x \in Proc : x # q => msg_q'[p][x] = msg_q[p][x]
      /\ msg_q'[p][q] = Append(msg_q[p][q], m)
  BY Zenon, <1>1 DEF PeekedNew
<1>5. /\ todo' = todo /\ pc' = pc /\ handle' = handle
      /\ waited' = waited /\ sent' = sent /\ send_q' = send_q /\ wactive' = wactive
      /\ wire' = wire /\ avail' = avail /\ sigio' = sigio
  BY Zenon, <1>1 DEF PeeksAt, userVars, netVars
<1>6. /\ m \in Ids /\ Made(p, m)
      /\ msg_list' \in [Proc -> [Ids -> EntryType]] /\ \A x \in Proc : x # p => msg_list'[x] = msg_list[x]
      /\ \A n \in Ids : n # m => msg_list'[p][n] = msg_list[p][n]
  BY Zenon, <1>4 DEF Adds, Made
<1>7. /\ mid' \in [Proc -> 0 .. MaxMsgs - 1] /\ derailed' \in [Proc -> BOOLEAN]
      /\ \A x \in Proc : x # p => derailed'[x] = derailed[x]
      /\ ~derailed'[p] => /\ ~Named(handle[p], m)
                          /\ \A y \in Proc \cup {Wild} : \A j \in 1 .. Len(recv_q[p][y]) : recv_q[p][y][j] # m
      /\ \A y \in Proc : \A j \in 1 .. Len(msg_q[p][y]) : msg_q[p][y][j] # m
  BY <1>6 DEF Made
<1>8. Types'
  BY Zenon, <1>1, <1>2, <1>4, <1>5, <1>6, <1>7 DEF Types
<1>9. Wild \notin Proc /\ HdrSize \in Nat \ {0}
  BY DEF Wild, Proc, TcpMsgAssumption
<1>10. PICK L, L2, H : L = msg_list[p] /\ L2 = msg_list'[p] /\ H = handle[p]
  OBVIOUS
<1>11. /\ EntryPart(L2, p)
       /\ \A y \in Proc : \A j \in 1 .. Len(msg_q[p][y]) : L2[msg_q[p][y][j]] = L[msg_q[p][y][j]]
       /\ ~derailed'[p] => \A y \in Proc \cup {Wild} : \A j \in 1 .. Len(recv_q[p][y]) :
                               L2[recv_q[p][y][j]] = L[recv_q[p][y][j]]
  <2>1. Adds(p, m)
    BY Zenon, <1>4
  <2>2. /\ EntryPart(msg_list'[p], p)
        /\ \A y \in Proc : \A j \in 1 .. Len(msg_q[p][y]) :
             msg_list'[p][msg_q[p][y][j]] = msg_list[p][msg_q[p][y][j]]
        /\ ~derailed'[p] => \A y \in Proc \cup {Wild} : \A j \in 1 .. Len(recv_q[p][y]) :
             msg_list'[p][recv_q[p][y][j]] = msg_list[p][recv_q[p][y][j]]
    BY Zenon, <2>1, AddsKept
  <2> QED BY Zenon, <1>10, <2>2
<1>12. /\ ~derailed'[p] => WildPart(L2, recv_q[p][Wild])
       /\ \A y \in Proc : MsgPart(L2, H, msg_q[p][y], recv_q[p][y], p, y)
       /\ \A y \in Peers(p) :
            /\ SendPart(L2, H, send_q[p][y], sent[p][y], y)
            /\ WirePart(L2, send_q[p][y], sent[p][y], wire[p][y])
            /\ NextOut(L2, send_q[p][y], sent[p][y]) = NextOut(L, send_q[p][y], sent[p][y])
  BY ZenonT(30), <1>4, <1>10, AddsParts
<1>13. PICK mq : mq = msg_q[p][q]
  OBVIOUS
<1>14. mq \in Seq(Ids) /\ Contains(<<m>>, m) /\ \A n \in Ids : ~Contains(recv_q[p][q], n)
  <2>1. mq \in Seq(Ids)
    BY <1>2, <1>13 DEF Types
  <2>2. Contains(<<m>>, m)
    <3>1. <<m>> \in Seq(Ids) /\ 1 \in 1 .. Len(<<m>>) /\ <<m>>[1] = m
      BY <1>6
    <3> QED BY Zenon, <3>1, ContainsIs
  <2>3. PICK s : s = recv_q[p][q]
    OBVIOUS
  <2>4. s \in Seq(Ids) /\ s = << >>
    BY <1>2, <2>3 DEF Types
  <2>5. \A n : ~\E j \in 1 .. Len(s) : s[j] = n
    BY <2>4
  <2>6. \A n : ~Contains(s, n)
    BY Zenon, <2>4, <2>5, ContainsIs
  <2> QED BY <2>1, <2>2, <2>3, <2>6
<1>15. \A y \in Proc : \A n \in Ids : (n # m \/ y # q) /\ Contains(msg_q[p][y], n) => Contains(msg_q'[p][y], n)
  <2>1. mq \in Seq(Ids) /\ Append(mq, m) \in Seq(Ids) /\ Len(Append(mq, m)) = Len(mq) + 1 /\ Len(mq) \in Nat
        /\ \A j \in 1 .. Len(mq) : Append(mq, m)[j] = mq[j]
    BY <1>6, <1>14
  <2>2. ASSUME NEW n \in Ids, Contains(mq, n) PROVE Contains(Append(mq, m), n)
    <3>1. PICK j \in 1 .. Len(mq) : mq[j] = n
      BY <2>1, <2>2, ContainsIs
    <3>2. j \in 1 .. Len(Append(mq, m)) /\ Append(mq, m)[j] = n
      BY <2>1, <3>1
    <3> QED BY Zenon, <2>1, <3>2, ContainsIs
  <2> QED BY Zenon, <1>4, <1>13, <2>2
<1>16. Contains(msg_q'[p][q], m)
  <2>1. PICK s : s = Append(mq, m)
    BY Zenon
  <2>2. s \in Seq(Ids) /\ Len(mq) + 1 \in 1 .. Len(s) /\ s[Len(mq) + 1] = m
    BY <1>6, <1>14, <2>1
  <2>3. Contains(s, m)
    BY <2>2, ContainsIs
  <2> QED BY <1>4, <1>13, <2>1, <2>3
<1>17. Always(p)'
  <2>1. /\ OwnPart(send_q[p], recv_q[p], ractive[p], wactive[p], wire[p], avail[p], p)
        /\ HandlePart(todo[p], H, waited[p], pc[p])
        /\ QueuedPart(L, send_q[p]) /\ KeptPart(L, H, send_q[p], msg_q[p])
        /\ ActivePart(send_q[p], recv_q[p], ractive[p], wactive[p])
    BY <1>2, <1>10 DEF Always
  <2>2. OwnPart(send_q[p], recv_q'[p], ractive[p], wactive[p], wire[p], avail[p], p)
    BY Zenon, <1>2, <1>4, <2>1 DEF OwnPart
  <2>3. QueuedPart(L2, send_q[p])
    <3>1. SUFFICES ASSUME NEW n \in Ids, L2[n].used, L2[n].flag \in {"send", "buffered"}, nleft(L2[n]) > 0
                   PROVE \E y \in Proc : Contains(send_q[p][y], n)
      BY DEF QueuedPart
    <3>2. L2[n] = L[n]
      BY Zenon, <1>4, <1>6, <1>10, <3>1
    <3> QED BY <2>1, <3>1, <3>2 DEF QueuedPart
  <2>4. KeptPart(L2, H, send_q[p], msg_q'[p])
    <3>1. SUFFICES ASSUME NEW n \in Ids, L2[n].used
                   PROVE \/ Named(H, n)
                         \/ \E y \in Proc : Contains(send_q[p][y], n) \/ Contains(msg_q'[p][y], n)
                         \/ L2[n].flag = "buffered" /\ Complete(L2[n])
      BY DEF KeptPart
    <3>2. CASE n = m
      BY <1>2, <1>16, <3>2
    <3>3. CASE n # m
      <4>1. L2[n] = L[n]
        BY <1>6, <1>10, <3>3
      <4>2. \/ Named(H, n)
            \/ \E y \in Proc : Contains(send_q[p][y], n) \/ Contains(msg_q[p][y], n)
            \/ L[n].flag = "buffered" /\ Complete(L[n])
        BY <2>1, <3>1, <4>1 DEF KeptPart
      <4> QED BY <1>15, <3>3, <4>1, <4>2
    <3> QED BY <3>2, <3>3
  <2>5. recv_q'[p][q] # << >>
    BY <1>4
  <2>6. ActivePart(send_q[p], recv_q'[p], ractive[p], wactive[p])
    BY Zenon, <1>4, <2>1, <2>5 DEF ActivePart
  <2>7. TaskPart(work'[p], send_q[p], recv_q'[p], p)
    BY <1>2, <2>5
  <2> QED BY <1>1, <1>5, <1>10, <1>11, <2>1, <2>2, <2>3, <2>4, <2>6, <2>7 DEF Always
<1>18. History(p)'
  <2>1. ContentPart(L, sent, p) /\ WaitedPart(waited[p], sent, p)
    BY <1>2, <1>10 DEF History
  <2>2. L2[m].nhdr # 0
    BY Zenon, <1>4, <1>9, <1>10
  <2>3. ContentPart(L2, sent, p)
    BY <1>6, <1>10, <2>1, <2>2 DEF ContentPart
  <2> QED BY <1>5, <1>10, <2>1, <2>3 DEF History
<1>19. ASSUME ~derailed'[p] PROVE OnTrack(p)'
  <2>1. PcPart(L2, todo[p], H, pc[p])
    <3>1. PcPart(msg_list[p], todo[p], handle[p], pc[p]) /\ ~Named(handle[p], m)
      BY <1>2, <1>7, <1>19 DEF OnTrack
    <3>2. \A n \in Ids : n # m => L2[n] = msg_list[p][n]
      BY <1>6, <1>10
    <3> QED BY Zenon, <1>10, <3>1, <3>2, PcElsewhere
  <2>2. WildPart(L2, recv_q'[p][Wild])
    <3>1. recv_q'[p][Wild] = recv_q[p][Wild]
      BY <1>2, <1>4, <1>9
    <3> QED BY <1>12, <1>19, <3>1
  <2>3. ASSUME NEW y \in Proc PROVE MsgPart(L2, H, msg_q'[p][y], recv_q'[p][y], p, y)
    <3>1. MsgPart(L2, H, msg_q[p][y], recv_q[p][y], p, y)
      BY <1>12
    <3>2. CASE y # q
      BY <1>4, <3>1, <3>2
    <3>3. CASE y = q
      <4>1. PICK rq : rq = recv_q[p][q]
        OBVIOUS
      <4>2. /\ mq \in Seq(Ids) /\ m \in Ids /\ q # p /\ MsgPart(L2, H, mq, rq, p, q)
            /\ \A n \in Ids : ~Contains(rq, n)
            /\ \A j \in 1 .. Len(mq) : mq[j] # m
        BY <1>2, <1>6, <1>7, <1>13, <1>14, <3>1, <3>3, <4>1
      <4>3. L2[m].used /\ L2[m].peer = q /\ L2[m].flag = "drain" /\ ~Named(H, m)
        BY Zenon, <1>4, <1>7, <1>10, <1>19
      <4>4. MsgAdds(L2, H, mq, rq, <<m>>, p, q, m)
        BY <1>14, <4>2, <4>3 DEF MsgAdds
      <4>5. MsgPart(L2, H, Append(mq, m), <<m>>, p, q)
        BY <4>4, MsgAdded
      <4> QED BY Zenon, <1>4, <1>13, <3>3, <4>5
    <3> QED BY <3>2, <3>3
  <2> QED BY <1>5, <1>10, <2>1, <2>2, <2>3 DEF OnTrack
<1>20. \A y \in Peers(p) : SignalPart(work[p], ractive[p], wactive[p], recv_q[p][Wild],
                                      Len(wire[p][y]) < SockCap, avail[y][p], sigio[p], y)'
  <2>1. recv_q'[p][Wild] # << >> => recv_q[p][Wild] # << >>
    BY Zenon, <1>1 DEF PeeksAt
  <2>2. \A y \in Proc : y # q => ractive'[p][y] = ractive[p][y]
    BY <1>1
  <2>3. PeeksAt(p, q, h)
    BY <1>1
  <2> QED BY <2>1, <2>2, <2>3, PeekSignal
<1>21. ASSUME ~derailed'[p], NEW y \in Peers(p) PROVE In(p, y)'
  <2>1. In(p, y) /\ y \in Proc /\ y # p
    BY <1>2 DEF Peers
  <2>2. SignalPart(work[p], ractive[p], wactive[p], recv_q[p][Wild], Len(wire[p][y]) < SockCap,
                    avail[y][p], sigio[p], y)'
    BY <1>20
  <2>3. /\ wire'[y][p] = wire[y][p] /\ avail'[y][p] = avail[y][p] /\ sent'[y][p] = sent[y][p]
        /\ msg_list'[y] = msg_list[y] /\ send_q'[y] = send_q[y]
    BY <1>5, <1>6, <2>1
  <2>4. CASE y # q
    <3>1. recv_q'[p][y] = recv_q[p][y] /\ ractive'[p][y] = ractive[p][y] /\ msg_q'[p][y] = msg_q[p][y]
      BY <1>1, <1>4, <2>1, <2>4
    <3>2. \A j \in 1 .. Len(recv_q[p][y]) : SameBut(msg_list[p][recv_q[p][y][j]], msg_list'[p][recv_q[p][y][j]])
      BY <1>10, <1>11, <1>21, <2>1, SameIsSame
    <3>3. \A j \in 1 .. Len(msg_q'[p][y]) :
            /\ SameBut(msg_list[p][msg_q'[p][y][j]], msg_list'[p][msg_q'[p][y][j]])
            /\ \E k \in 1 .. Len(msg_q[p][y]) : msg_q'[p][y][j] = msg_q[p][y][k]
      BY <1>10, <1>11, <2>1, <3>1, SameIsSame
    <3>4. ~AtRecv(work[p], y) /\ ~(AtRecv(work'[p], y) /\ Head(work'[p]).msg # 0)
      BY <1>2
    <3> QED BY Zenon, <1>2, <2>1, <2>2, <2>3, <3>1, <3>2, <3>3, <3>4, InSame
  <2>5. CASE y = q
    <3>1. PICK mq2, K2, u : /\ mq2 = msg_q'[p][q] /\ K2 = work'[p]
                            /\ u = NextIn(msg_list[q], send_q[q][p], sent[q][p], wire[q][p])
      OBVIOUS
    <3>2. u[2] = 1
      <4>1. StreamPart(L, << >>, u)
        BY <1>2, <1>10, <2>1, <2>5, <3>1 DEF In
      <4> QED BY <4>1 DEF StreamPart
    <3>3. /\ L2[m].used /\ L2[m].flag \in {"recv", "drain"} /\ L2[m].peer = q
          /\ AtRecv(K2, q) /\ Head(K2).msg = 0 /\ ~Begun(L2[m]) /\ ~Complete(L2[m])
      BY Zenon, <1>2, <1>4, <1>10, <3>1
    <3>4. /\ RecvPart(L2, <<m>>, q) /\ HeaderPart(L2, mq2, <<m>>) /\ PlacePart(L2, mq2, <<m>>, K2, q)
          /\ AwakePart(<<m>>, K2, ractive'[p], q) /\ StreamPart(L2, <<m>>, u)
      BY Zenon, <1>6, <3>2, <3>3, OneAsked
    <3>5. DrainPart(L2, <<m>>, K2, q, wire[q][p], avail[q][p], sent[q][p])
      <4>1. PICK rq : rq = <<m>>
        OBVIOUS
      <4>2. Len(rq) = 1 /\ \A i \in 1 .. Len(rq) : rq[i] = m
        BY <4>1
      <4>3. L2[m].nhdr = HdrSize /\ L2[m].tag = h.tag /\ L2[m].nbytes = h.nbytes
        BY <1>4, <1>10
      <4>4. DrainPart(L2, rq, K2, q, wire[q][p], avail[q][p], sent[q][p])
        BY Zenon, <1>3, <3>3, <4>2, <4>3 DEF DrainPart
      <4> QED BY <4>1, <4>4
    <3>6. NextIn(msg_list[y], send_q[y][p], sent[y][p], wire[y][p])' = u
      BY <2>3, <2>5, <3>1
    <3> QED BY Zenon, <1>4, <1>5, <1>10, <2>2, <2>3, <2>5, <3>1, <3>4, <3>5, <3>6 DEF In
  <2> QED BY <2>4, <2>5
<1>22. SendParts(p)
  <2>1. ASSUME NEW y \in Peers(p) PROVE Len(wire[p][y]) <= SockCap /\ avail[p][y] <= Len(wire[p][y])
    BY <1>2 DEF Out
  <2> QED BY <1>5, <1>10, <1>12, <2>1 DEF SendParts, Out
<1>23. Quiet(p)
  <2>1. \A y \in Proc : Grown(sent[p][y], sent'[p][y])
    BY <1>2, <1>5, GrownSame
  <2> QED BY <1>1, <1>2, <1>4, <1>5, <1>6, <1>7, <2>1 DEF Quiet, SameRows, Peers
<1> QED BY <1>8, <1>17, <1>18, <1>19, <1>21, <1>22, <1>23, OwnStep DEF OwnParts

\* The handler looks at an idle socket.
LEMMA PeekStep ==
  ASSUME TcpMsgAssumption, IInv, NEW p \in Proc, Peek(p)
  PROVE  IInv'
<1> DEFINE q    == Head(work[p]).node
           h    == sent[q][p][wire[q][p][1][1]]
           wild == recv_q[p][Wild]
           fits == {i \in DOMAIN wild : Matches(h, msg_list[p][wild[i]])}
           m    == wild[Min(fits)]
           y    == NextId(p)
<1>1. Working(p, "peek") /\ UNCHANGED <<userVars, send_q, wactive, netVars>>
  BY Zenon DEF Peek
<1>2. \/ /\ ractive[p][q] \/ wild = << >> \/ avail[q][p] < HdrSize
         /\ Done(p)
         /\ UNCHANGED <<msg_list, mid, recv_q, msg_q, ractive, derailed>>
      \/ /\ ~ractive[p][q] /\ wild # << >> /\ avail[q][p] >= HdrSize
         /\ work' = [work EXCEPT ![p] = <<Task("recv", q)>> \o @]
         /\ fits # {}
         /\ msg_list' = [msg_list EXCEPT ![p][m] =
              [@ EXCEPT !.peer = q, !.tag = h.tag, !.nbytes = h.nbytes, !.left = h.nbytes]]
         /\ recv_q' = [recv_q EXCEPT ![p][Wild] = RemoveAt(@, Min(fits)), ![p][q] = <<m>> \o @]
         /\ ractive' = [ractive EXCEPT ![p][q] = TRUE]
         /\ UNCHANGED <<mid, msg_q, derailed>>
      \/ /\ ~ractive[p][q] /\ wild # << >> /\ avail[q][p] >= HdrSize
         /\ work' = [work EXCEPT ![p] = <<Task("recv", q)>> \o @]
         /\ EntryLeft(p)
         /\ msg_list' = [msg_list EXCEPT ![p][y] = Entry("drain", q, h.tag, h.nbytes)]
         /\ Create(p, y)
         /\ recv_q' = [recv_q EXCEPT ![p][q] = Post(@, y)]
         /\ msg_q' = [msg_q EXCEPT ![p][q] = Post(@, y)]
         /\ UNCHANGED ractive
  BY Zenon DEF Peek
<1>3. /\ q = Head(work[p]).node /\ h = sent[q][p][wire[q][p][1][1]] /\ wild = recv_q[p][Wild]
      /\ fits = {i \in DOMAIN wild : Matches(h, msg_list[p][wild[i]])}
  OBVIOUS
<1>4. m = wild[Min(fits)] /\ y = NextId(p)
  OBVIOUS
<1> HIDE DEF q, h, wild, fits, m, y
<1>5. CASE /\ ractive[p][q] \/ wild = << >> \/ avail[q][p] < HdrSize
           /\ Done(p)
           /\ UNCHANGED <<msg_list, mid, recv_q, msg_q, ractive, derailed>>
  <2>1. PeeksNothing(p, q)
    BY Zenon, <1>3, <1>1, <1>5 DEF PeeksNothing
  <2> QED BY <2>1, PeeksNothingStep
<1>6. CASE /\ ~ractive[p][q] /\ wild # << >> /\ avail[q][p] >= HdrSize
           /\ work' = [work EXCEPT ![p] = <<Task("recv", q)>> \o @]
           /\ fits # {}
           /\ msg_list' = [msg_list EXCEPT ![p][m] =
                [@ EXCEPT !.peer = q, !.tag = h.tag, !.nbytes = h.nbytes, !.left = h.nbytes]]
           /\ recv_q' = [recv_q EXCEPT ![p][Wild] = RemoveAt(@, Min(fits)), ![p][q] = <<m>> \o @]
           /\ ractive' = [ractive EXCEPT ![p][q] = TRUE]
           /\ UNCHANGED <<mid, msg_q, derailed>>
  <2>1. wild \in Seq(Ids)
    <3>1. recv_q \in [Proc -> [Proc \cup {Wild} -> Seq(Ids)]]
      BY Zenon DEF IInv, Types
    <3> QED BY Zenon, <1>3, <3>1
  <2>2. DOMAIN wild = 1 .. Len(wild) /\ 1 .. Len(wild) \subseteq Nat
    BY <2>1
  <2>3. fits \subseteq 1 .. Len(wild) /\ fits \subseteq Nat
    BY Zenon, <1>3, <2>2
  <2>4. Min(fits) \in 1 .. Len(wild)
    BY Zenon, <1>6, <2>3, MinOf
  <2>5. PeeksAt(p, q, h)
    BY Zenon, <1>3, <1>1, <1>6 DEF PeeksAt
  <2>6. PeeksFor(p, q, h, m, Min(fits))
    BY Zenon, <1>3, <1>4, <1>6, <2>4, <2>5 DEF PeeksFor
  <2> QED BY <2>6, PeeksForStep
<1>7. CASE /\ ~ractive[p][q] /\ wild # << >> /\ avail[q][p] >= HdrSize
           /\ work' = [work EXCEPT ![p] = <<Task("recv", q)>> \o @]
           /\ EntryLeft(p)
           /\ msg_list' = [msg_list EXCEPT ![p][y] = Entry("drain", q, h.tag, h.nbytes)]
           /\ Create(p, y)
           /\ recv_q' = [recv_q EXCEPT ![p][q] = Post(@, y)]
           /\ msg_q' = [msg_q EXCEPT ![p][q] = Post(@, y)]
           /\ UNCHANGED ractive
  <2>1. PeeksAt(p, q, h)
    BY Zenon, <1>3, <1>1, <1>7 DEF PeeksAt
  <2>2. PeeksNew(p, q, h, y)
    BY <1>4, <1>7, <2>1 DEF PeeksNew
  <2> QED BY <2>2, PeeksNewStep
<1> QED BY Zenon, <1>2, <1>5, <1>6, <1>7

\* The lesser of two numbers.
LEMMA MinOfTwo ==
  ASSUME NEW a \in Nat, NEW b \in Nat
  PROVE  Min({a, b}) \in Nat /\ Min({a, b}) <= a /\ Min({a, b}) <= b /\ (Min({a, b}) = a \/ Min({a, b}) = b)
<1>1. {a, b} \subseteq Nat /\ {a, b} # {}
  OBVIOUS
<1>2. Min({a, b}) \in {a, b} /\ \A n \in {a, b} : Min({a, b}) <= n
  BY <1>1, MinOf
<1> QED BY <1>2

\* The k-th message of rq, of which the next unit u is: nothing of the others is to come
\* before it.
NextFor(L, rq, k, u, p, q) ==
  /\ L \in [Ids -> EntryType] /\ rq \in Seq(Ids) /\ k \in 1 .. Len(rq)
  /\ EntryPart(L, p) /\ RecvPart(L, rq, q) /\ StreamPart(L, rq, u)
  /\ \A j \in 1 .. k - 1 : L[rq[j]].nhdr = 0
  /\ nleft(L[rq[k]]) > 0 /\ u[2] = Gone(L[rq[k]]) + 1

\* Then no other message of rq has begun to come, and all before it are there.
LEMMA OnlyBegun ==
  ASSUME TcpMsgAssumption, NEW L, NEW rq, NEW k, NEW u, NEW p, NEW q, NextFor(L, rq, k, u, p, q)
  PROVE  /\ \A i \in 1 .. Len(rq) : i # k => ~Begun(L[rq[i]])
         /\ \A j \in 1 .. k - 1 : Complete(L[rq[j]])
<1>1. /\ L \in [Ids -> EntryType] /\ rq \in Seq(Ids) /\ k \in 1 .. Len(rq)
      /\ EntryPart(L, p) /\ RecvPart(L, rq, q) /\ StreamPart(L, rq, u)
      /\ \A j \in 1 .. k - 1 : L[rq[j]].nhdr = 0
      /\ nleft(L[rq[k]]) > 0 /\ u[2] = Gone(L[rq[k]]) + 1
  BY DEF NextFor
<1>2. \A i \in 1 .. Len(rq) : rq[i] \in Ids /\ L[rq[i]] \in EntryType
  BY <1>1
<1>3. ~Complete(L[rq[k]]) /\ HdrSize \in Nat \ {0}
  BY <1>1, <1>2, EntryFacts
<1>4. ASSUME NEW j \in 1 .. k - 1 PROVE Complete(L[rq[j]])
  <2>1. j \in 1 .. Len(rq) /\ Len(rq) \in Nat
    BY <1>1
  <2>2. SUFFICES ASSUME ~Complete(L[rq[j]]) PROVE FALSE
    OBVIOUS
  <2>3. nleft(L[rq[j]]) > 0 /\ L[rq[j]].nhdr = 0
    BY Zenon, <1>1, <1>2, <2>1, <2>2, EntryFacts
  <2>4. Begun(L[rq[j]])
    BY <1>3, <2>3 DEF Begun
  <2>5. u[2] = Gone(L[rq[j]]) + 1
    BY <1>1, <2>1, <2>4 DEF StreamPart
  <2>6. PICK a, b : a = L[rq[j]] /\ b = L[rq[k]]
    OBVIOUS
  <2>7. /\ a \in EntryType /\ a.left <= a.nbytes /\ a.nhdr = 0
        /\ b \in EntryType /\ (b.nhdr > 0 => b.left = b.nbytes)
    BY <1>1, <1>2, <2>1, <2>3, <2>6 DEF EntryPart
  <2>8. /\ a.left \in Nat /\ a.nbytes \in Nat
        /\ b.left \in Nat /\ b.nbytes \in Nat /\ b.nhdr \in Nat
    BY <2>7, EntryFacts
  <2>9. b.nhdr > 0
    <3>1. SUFFICES ASSUME b.nhdr = 0 PROVE FALSE
      BY <2>8
    <3>2. Begun(b)
      BY <1>1, <1>3, <2>6, <3>1 DEF Begun
    <3>3. Complete(L[rq[j]])
      BY <1>1, <2>6, <3>2 DEF RecvPart
    <3> QED BY <2>2, <3>3
  <2>10. Gone(a) = Gone(b)
    <3>1. Gone(a) \in Int /\ Gone(b) \in Int
      <4>1. HdrSize \in Nat /\ nleft(a) \in Nat /\ nleft(b) \in Nat
        BY <2>7, EntryFacts
      <4>2. PICK h, x, y, n, m :
              h = HdrSize /\ x = nleft(a) /\ y = nleft(b) /\ n = a.nbytes /\ m = b.nbytes
        BY Zenon
      <4>3. h \in Nat /\ x \in Nat /\ y \in Nat /\ n \in Nat /\ m \in Nat
        BY Zenon, <2>8, <4>1, <4>2
      <4>4. h + n - x \in Int /\ h + m - y \in Int
        BY <4>3
      <4>5. Gone(a) = h + n - x /\ Gone(b) = h + m - y
        BY Zenon, <4>2 DEF Gone
      <4> QED BY Zenon, <4>4, <4>5
    <3>2. Gone(a) + 1 = Gone(b) + 1
      BY <1>1, <2>5, <2>6
    <3> QED BY <3>1, <3>2
  <2>11. Gone(a) >= HdrSize /\ Gone(b) < HdrSize
    BY SMTT(30), <1>3, <2>7, <2>8, <2>9 DEF Gone, nleft
  <2>12. Gone(b) \in Int
    BY <1>3, <2>7, <2>8 DEF Gone, nleft
  <2> QED BY <1>3, <2>10, <2>11, <2>12
<1>5. ASSUME NEW i \in 1 .. Len(rq), i # k, Begun(L[rq[i]]) PROVE FALSE
  <2>1. Len(rq) \in Nat
    BY <1>1
  <2>2. CASE i < k
    <3>1. i \in 1 .. k - 1
      BY <1>1, <2>1, <2>2
    <3>2. Complete(L[rq[i]])
      BY <1>4, <3>1
    <3> QED BY <1>5, <3>2 DEF Begun, Complete
  <2>3. CASE k < i
    <3>1. k \in 1 .. i - 1
      BY <1>1, <2>1, <2>3
    <3>2. Complete(L[rq[k]])
      BY <1>1, <1>5, <3>1 DEF RecvPart
    <3> QED BY <1>3, <3>2
  <2> QED BY <1>1, <1>5, <2>1, <2>2, <2>3
<1> QED BY <1>4, <1>5

\* The first g units of the body of the n-th message.
Units(n, g) == [u \in 1 .. g |-> <<n, HdrSize + u>>]

\* The next ones, after those that have come.
NextUnits(got, body, n, g) ==
  /\ n \in Nat /\ g \in Nat /\ got \in Seq(Nat \X Nat) /\ body \in Seq(Nat \X Nat)
  /\ got = Units(n, g)
  /\ \A d \in 1 .. Len(body) : body[d] = <<n, HdrSize + g + d>>

\* They are added to them.
LEMMA Filled ==
  ASSUME HdrSize \in Nat, NEW n, NEW got, NEW body, NEW g, NextUnits(got, body, n, g)
  PROVE  /\ got \o body \in Seq(Nat \X Nat)
         /\ got \o body = Units(n, g + Len(body))
<1>0. /\ n \in Nat /\ g \in Nat /\ got \in Seq(Nat \X Nat) /\ body \in Seq(Nat \X Nat)
      /\ got = [u \in 1 .. g |-> <<n, HdrSize + u>>]
      /\ \A d \in 1 .. Len(body) : body[d] = <<n, HdrSize + g + d>>
  BY Zenon DEF NextUnits, Units
<1>1. PICK b \in Nat : b = Len(body)
  BY <1>0
<1>2. Len(got) = g /\ \A d \in 1 .. g : got[d] = <<n, HdrSize + d>>
  <2>1. DOMAIN got = 1 .. g /\ DOMAIN got = 1 .. Len(got) /\ Len(got) \in Nat
    BY <1>0
  <2>2. Len(got) = g
    BY <1>0, <2>1
  <2> QED BY <1>0, <2>2
<1>3. PICK s : s = got \o body
  BY Zenon
<1>4. /\ s \in Seq(Nat \X Nat) /\ Len(s) = g + b
      /\ \A i \in 1 .. g : s[i] = got[i]
      /\ \A i \in 1 .. b : s[g + i] = body[i]
  <2>1. Follows(got, body, s)
    BY Zenon, <1>0, <1>3, StreamJoin
  <2> QED BY Zenon, <1>1, <1>2, <2>1 DEF Follows
<1>5. PICK t : t = [u \in 1 .. g + b |-> <<n, HdrSize + u>>]
  BY Zenon
<1>6. t \in Seq(Nat \X Nat) /\ Len(t) = g + b /\ \A i \in 1 .. g + b : t[i] = <<n, HdrSize + i>>
  <2>1. g + b \in Nat /\ n \in Nat
    BY <1>0, <1>1
  <2>2. PICK h, r : h = HdrSize /\ r = g + b
    BY Zenon
  <2>3. h \in Nat /\ r \in Nat /\ t = [u \in 1 .. r |-> <<n, h + u>>]
    BY Zenon, <1>5, <2>1, <2>2
  <2>4. t \in Seq(Nat \X Nat) /\ Len(t) = r /\ \A i \in 1 .. r : t[i] = <<n, h + i>>
    BY SMTT(30), <2>1, <2>3, UnitsOnWire
  <2> QED BY Zenon, <2>2, <2>4
<1>7. ASSUME NEW i \in 1 .. g + b PROVE s[i] = t[i]
  <2>1. CASE i <= g
    <3>1. i \in 1 .. g
      BY <1>0, <1>1, <2>1
    <3>2. got[i] = <<n, HdrSize + i>> /\ s[i] = got[i]
      BY Zenon, <1>2, <1>4, <3>1
    <3> QED BY <1>6, <3>2
  <2>2. CASE i > g
    <3>1. PICK d \in Int : d = i - g
      BY <1>0, <1>1
    <3>2. d \in 1 .. b /\ g + d = i
      BY <1>0, <1>1, <2>2, <3>1
    <3>3. body[d] = <<n, HdrSize + g + d>>
      BY <1>0, <1>1, <3>2
    <3>4. HdrSize + g + d = HdrSize + i
      BY <1>0, <1>1, <3>2
    <3> QED BY Zenon, <1>4, <1>6, <3>2, <3>3, <3>4
  <2> QED BY <1>0, <1>1, <2>1, <2>2
<1>8. s = t
  <2>1. DOMAIN s = 1 .. g + b /\ DOMAIN t = 1 .. g + b
    BY <1>1, <1>4, <1>6
  <2>2. s = [i \in DOMAIN s |-> s[i]] /\ t = [i \in DOMAIN t |-> t[i]]
    BY <1>4, <1>6
  <2> QED BY Zenon, <1>7, <2>1, <2>2
<1> QED BY Zenon, <1>0, <1>1, <1>3, <1>4, <1>5, <1>8 DEF Units

\* The queues and the streams of p in a step in which p reads.
LEMMA OutReading ==
  ASSUME IInv, NEW p \in Proc,
         send_q'[p] = send_q[p], sent'[p] = sent[p], wire'[p] = wire[p], avail'[p] = avail[p],
         handle'[p] = handle[p],
         \A m \in Ids : Outgoing(msg_list[p][m]) => msg_list'[p][m] = msg_list[p][m]
  PROVE  SendParts(p)
<1>1. ASSUME NEW q \in Peers(p)
      PROVE  /\ Out(p, q)'
             /\ NextOut(msg_list[p], send_q[p][q], sent[p][q])' = NextOut(msg_list[p], send_q[p][q], sent[p][q])
  <2>1. Out(p, q) /\ q \in Proc
    BY DEF IInv, Peers
  <2>2. PICK sq \in Seq(Ids) : sq = send_q[p][q]
    BY ZenonT(30), <2>1 DEF IInv, Types
  <2>3. PICK sn, w : sn = sent[p][q] /\ w = wire[p][q]
    OBVIOUS
  <2>4. SendPart(msg_list[p], handle[p], sq, sn, q) /\ WirePart(msg_list[p], sq, sn, w)
    BY <2>1, <2>2, <2>3 DEF Out
  <2>5. PICK L, L2, H : L = msg_list[p] /\ L2 = msg_list'[p] /\ H = handle[p]
    OBVIOUS
  <2>6. /\ \A m \in Ids : Outgoing(L[m]) => StillOutgoing(L[m], L2[m])
        /\ \A m \in Ids : Outgoing(L[m]) /\ L2[m].flag = "send" /\ Named(H, m) => Named(H, m)
        /\ SendPart(L, H, sq, sn, q) /\ WirePart(L, sq, sn, w)
    BY <2>4, <2>5 DEF Outgoing, StillOutgoing
  <2>7. /\ SendPart(L2, H, sq, sn, q) /\ NextOut(L2, sq, sn) = NextOut(L, sq, sn)
        /\ WirePart(L2, sq, sn, w)
    <3>1. SendPart(L2, H, sq, sn, q)
      BY <2>6, OutKept, Zenon
    <3>3. NextOut(L2, sq, sn) = NextOut(L, sq, sn)
      BY <2>6, NextOutKept
    <3>2. WirePart(L2, sq, sn, w)
      BY <2>6, OutKept, Zenon
    <3> QED BY <3>1, <3>2, <3>3
  <2> QED BY <2>1, <2>2, <2>3, <2>5, <2>7 DEF Out
<1> QED BY <1>1 DEF SendParts

\* The first r units of w are of its n-th message, from the o-th on.
Piece(L, sq, sn, w, r, n, o) ==
  /\ sn \in Seq(SentMsg) /\ w \in Seq(Nat \X Nat) /\ WirePart(L, sq, sn, w)
  /\ r \in 1 .. Len(w) /\ n = w[1][1] /\ o = w[1][2]
  /\ o + r - 1 <= HdrSize + sn[n].nbytes

AfterPiece(sn, n, o, r) == IF o + r - 1 < HdrSize + sn[n].nbytes THEN <<n, o + r>> ELSE <<n + 1, 1>>

\* They come one after the other, and the next is the next of the message, or of the
\* stream.
LEMMA PieceTaken ==
  ASSUME TcpMsgAssumption, NEW L, NEW sq, NEW sn, NEW w, NEW r, NEW n, NEW o, Piece(L, sq, sn, w, r, n, o)
  PROVE  /\ n \in 1 .. Len(sn) /\ o \in Nat \ {0} /\ sn[n].nbytes \in Nat /\ r \in Nat \ {0}
         /\ \A d \in 1 .. r : w[d] = <<n, o + d - 1>>
         /\ NextIn(L, sq, sn, SubSeq(w, r + 1, Len(w))) = AfterPiece(sn, n, o, r)
<1>1. /\ sn \in Seq(SentMsg) /\ w \in Seq(Nat \X Nat) /\ WirePart(L, sq, sn, w)
      /\ r \in 1 .. Len(w) /\ n = w[1][1] /\ o = w[1][2] /\ o + r - 1 <= HdrSize + sn[n].nbytes
  BY DEF Piece
<1>2. HdrSize \in Nat \ {0} /\ Len(w) \in Nat /\ r \in Nat \ {0} /\ r \in 0 .. Len(w) /\ 1 \in 1 .. Len(w) /\ w # << >>
  BY SMTT(30), <1>1 DEF TcpMsgAssumption
<1>3. \A i \in 1 .. Len(w) : /\ w[i][1] \in 1 .. Len(sn)
                             /\ w[i][2] \in 1 .. HdrSize + sn[w[i][1]].nbytes
                             /\ i < Len(w) => w[i + 1] = Following(sn, w[i])
  BY <1>1 DEF WirePart
<1>4. n \in 1 .. Len(sn) /\ o \in 1 .. HdrSize + sn[n].nbytes
  BY Zenon, <1>1, <1>2, <1>3
<1>5. sn[n].nbytes \in Nat /\ o \in Nat \ {0}
  <2>1. sn[n] \in SentMsg
    BY <1>1, <1>4
  <2>2. \A s \in SentMsg : s.nbytes \in Nat
    BY DEF SentMsg
  <2> QED BY <1>2, <1>4, <2>1, <2>2
<1>6. \A d \in 1 .. r : w[d] = <<n, o + d - 1>>
  BY <1>1, <1>2, <1>3, WireFlow
<1>7. NextIn(L, sq, sn, SubSeq(w, r + 1, Len(w))) = Following(sn, w[r])
  <2>1. r > 0
    BY <1>2
  <2>2. sn \in Seq(SentMsg) /\ w \in Seq(Nat \X Nat) /\ WirePart(L, sq, sn, w) /\ r \in 0 .. Len(w)
    BY <1>1, <1>2
  <2> QED BY SMTT(60), <2>1, <2>2, WireTaken
<1>8. w[r] = <<n, o + r - 1>> /\ o + r - 1 + 1 = o + r
  <2>1. r \in 1 .. r
    BY <1>2
  <2>2. w[r] = <<n, o + r - 1>>
    BY Zenon, <1>6, <2>1
  <2>3. o + r - 1 + 1 = o + r
    BY <1>2, <1>5
  <2> QED BY <2>2, <2>3
<1>9. Following(sn, <<n, o + r - 1>>) = AfterPiece(sn, n, o, r)
  BY <1>8 DEF Following, AfterPiece
<1> QED BY Zenon, <1>2, <1>4, <1>5, <1>6, <1>7, <1>8, <1>9

\* An entry that holds what has come of a message up to them.
Reaches(e, sn, n, o, r) ==
  /\ e \in EntryType /\ e.left <= e.nbytes /\ Gone(e) = o + r - 1
  /\ e.nhdr = 0 => e.num = n /\ e.nbytes = sn[n].nbytes
  /\ e.nhdr > 0 => e.left = e.nbytes

\* The next unit is the one that it waits for.
LEMMA NextReached ==
  ASSUME TcpMsgAssumption, NEW L, NEW sq, NEW sn, NEW w, NEW r, NEW n, NEW o, Piece(L, sq, sn, w, r, n, o),
         NEW e, Reaches(e, sn, n, o, r), NEW u, u = NextIn(L, sq, sn, SubSeq(w, r + 1, Len(w)))
  PROVE  /\ Begun(e) => u[2] = Gone(e) + 1 /\ (e.nhdr = 0 => u[1] = e.num)
         /\ ~Begun(e) => u[2] = 1
<1>1. /\ n \in 1 .. Len(sn) /\ o \in Nat \ {0} /\ sn[n].nbytes \in Nat /\ r \in Nat \ {0}
      /\ u = IF o + r - 1 < HdrSize + sn[n].nbytes THEN <<n, o + r>> ELSE <<n + 1, 1>>
  <2>1. Piece(L, sq, sn, w, r, n, o)
    OBVIOUS
  <2>2. /\ n \in 1 .. Len(sn) /\ o \in Nat \ {0} /\ sn[n].nbytes \in Nat /\ r \in Nat \ {0}
        /\ NextIn(L, sq, sn, SubSeq(w, r + 1, Len(w))) = AfterPiece(sn, n, o, r)
    BY <2>1, PieceTaken
  <2> QED BY <2>2 DEF AfterPiece
<1>2. /\ e \in EntryType /\ e.left <= e.nbytes /\ Gone(e) = o + r - 1
      /\ e.nhdr = 0 => e.num = n /\ e.nbytes = sn[n].nbytes
      /\ e.nhdr > 0 => e.left = e.nbytes
  BY DEF Reaches
<1>3. e.left \in Nat /\ e.nhdr \in 0 .. HdrSize /\ e.nhdr \in Nat /\ e.nbytes \in Nat /\ HdrSize \in Nat \ {0}
  BY <1>2, EntryFacts
<1>4. Gone(e) = HdrSize + e.nbytes - (e.nhdr + e.left)
  BY DEF Gone, nleft
<1>5. PICK s, h, l, b, x : s = sn[n].nbytes /\ h = e.nhdr /\ l = e.left /\ b = e.nbytes /\ x = o + r - 1
  OBVIOUS
<1>6. s \in Nat /\ h \in Nat /\ l \in Nat /\ b \in Nat /\ HdrSize \in Nat /\ HdrSize > 0
  BY <1>1, <1>3, <1>5
<1>7. /\ l <= b /\ Gone(e) = x /\ x = HdrSize + b - (h + l)
      /\ h = 0 => e.num = n /\ b = s
      /\ h > 0 => l = b
  BY Zenon, <1>2, <1>4, <1>5
<1>8. x \in Nat /\ x + 1 = o + r
  BY <1>1, <1>5
<1>9. /\ x < HdrSize + s => u[1] = n /\ u[2] = x + 1
      /\ ~(x < HdrSize + s) => u[2] = 1
  <2>1. u = IF x < HdrSize + s THEN <<n, x + 1>> ELSE <<n + 1, 1>>
    BY Zenon, <1>1, <1>5, <1>8
  <2> QED BY <2>1
<1>10. /\ h + l > 0 /\ h < HdrSize => x < HdrSize + s
       /\ h = HdrSize => x = 0 \/ ~(x < HdrSize + s)
       /\ h + l = 0 => ~(x < HdrSize + s)
  <2>1. /\ x \in Nat /\ x = HdrSize + b - (h + l) /\ l <= b
        /\ h = 0 => b = s
        /\ h > 0 => l = b
    BY Zenon, <1>7, <1>8
  <2> QED BY SMTT(30), <1>6, <2>1
<1>11. ASSUME Begun(e) PROVE u[2] = Gone(e) + 1 /\ (e.nhdr = 0 => u[1] = e.num)
  <2>1. h + l > 0 /\ h < HdrSize
    BY <1>5, <1>11 DEF Begun, nleft
  <2> QED BY Zenon, <1>5, <1>7, <1>9, <1>10, <2>1
<1>12. ASSUME ~Begun(e) PROVE u[2] = 1
  <2>1. ~(h + l > 0 /\ h < HdrSize)
    BY Zenon, <1>5, <1>12 DEF Begun, nleft
  <2>2. h + l = 0 \/ h = HdrSize
    <3>1. h <= HdrSize
      BY <1>3, <1>5
    <3> QED BY <1>6, <2>1, <3>1
  <2>3. x = 0 => u[2] = 1
    BY <1>6, <1>8, <1>9
  <2> QED BY Zenon, <1>9, <1>10, <2>2, <2>3
<1> QED BY Zenon, <1>11, <1>12

\* An unfinished receive from q gets on, or is set back to wait for a header.
Fills(e, e2, q, all, p) ==
  /\ e.flag \in {"recv", "drain"} /\ ~Complete(e) /\ e.peer = q
  /\ e2.flag = e.flag /\ e2.peer = q /\ e2.used = e.used
  /\ e2.left <= e2.nbytes /\ (e2.nhdr > 0 => e2.left = e2.nbytes /\ e2.got = << >>)
  /\ e.nhdr = 0 => e2.nhdr = 0
  /\ e2.nhdr = 0 => Holds(e2, all, p)

\* An entry is made for a message nobody asked for.
FillsNew(p, q, y) ==
  /\ Made(p, y) /\ msg_q'[p][q] = Append(msg_q[p][q], y) /\ Contains(recv_q'[p][q], y)
  /\ msg_list'[p][y].used /\ msg_list'[p][y].flag = "recv" /\ msg_list'[p][y].peer = q
  /\ msg_list'[p][y].nhdr = 0 /\ msg_list'[p][y].left <= msg_list'[p][y].nbytes
  /\ Holds(msg_list'[p][y], sent, p)

\* p reads r units from q; y is the entry that was made, if any.
Reads(p, q, r, y) ==
  /\ q \in Peers(p) /\ ~derailed[p] /\ r \in 1 .. avail[q][p] /\ Take(p, q, r)
  /\ UNCHANGED <<userVars, send_q, ractive, wactive, work>>
  /\ msg_list' \in [Proc -> [Ids -> EntryType]] /\ \A x \in Proc : x # p => msg_list'[x] = msg_list[x]
  /\ \A n \in Ids : n # y => msg_list'[p][n] = msg_list[p][n] \/ Fills(msg_list[p][n], msg_list'[p][n], q, sent, p)
  /\ recv_q' \in [Proc -> [Proc \cup {Wild} -> Seq(Ids)]] /\ \A x \in Proc : x # p => recv_q'[x] = recv_q[x]
  /\ \A x \in Proc \cup {Wild} : x # q => recv_q'[p][x] = recv_q[p][x]
  /\ recv_q'[p][q] # << >> /\ \A n \in Ids : Contains(recv_q[p][q], n) => Contains(recv_q'[p][q], n)
  /\ msg_q' \in [Proc -> [Proc -> Seq(Ids)]] /\ \A x \in Proc : x # p => msg_q'[x] = msg_q[x]
  /\ \A x \in Proc : x # q => msg_q'[p][x] = msg_q[p][x]
  /\ \/ y = 0 /\ UNCHANGED <<mid, msg_q, derailed>>
     \/ FillsNew(p, q, y)

\* What it changes besides the entries and the queue for q.
LEMMA ReadsRows ==
  ASSUME TcpMsgAssumption, IInv, NEW p \in Proc, NEW q, NEW r, NEW y, Reads(p, q, r, y)
  PROVE  /\ Types' /\ q \in Proc /\ q # p /\ r \in 0 .. avail[q][p] /\ \A x \in Peers(p) : SameRows(x)
         /\ todo' = todo /\ pc' = pc /\ handle' = handle /\ waited' = waited /\ sent' = sent
         /\ send_q' = send_q /\ ractive' = ractive /\ wactive' = wactive /\ work' = work
         /\ \A x \in Proc : x # q => wire'[x] = wire[x] /\ avail'[x] = avail[x] /\ sigio'[x] = sigio[x]
         /\ wire'[q][p] = SubSeq(wire[q][p], r + 1, Len(wire[q][p])) /\ avail'[q][p] = avail[q][p] - r
         /\ (y \notin Ids /\ msg_q' = msg_q /\ derailed' = derailed) \/ FillsNew(p, q, y)
<1>1. /\ q \in Peers(p) /\ ~derailed[p] /\ r \in 1 .. avail[q][p] /\ Take(p, q, r)
      /\ UNCHANGED <<userVars, send_q, ractive, wactive, work>>
      /\ msg_list' \in [Proc -> [Ids -> EntryType]] /\ \A x \in Proc : x # p => msg_list'[x] = msg_list[x]
      /\ recv_q' \in [Proc -> [Proc \cup {Wild} -> Seq(Ids)]] /\ \A x \in Proc : x # p => recv_q'[x] = recv_q[x]
      /\ msg_q' \in [Proc -> [Proc -> Seq(Ids)]] /\ \A x \in Proc : x # p => msg_q'[x] = msg_q[x]
      /\ \/ y = 0 /\ UNCHANGED <<mid, msg_q, derailed>>
         \/ FillsNew(p, q, y)
  BY Zenon DEF Reads
<1>2. q \in Proc /\ q # p
  BY <1>1 DEF Peers
<1>3. Types /\ Out(q, p)
  BY <1>2 DEF IInv, Peers
<1>4. /\ todo' = todo /\ pc' = pc /\ handle' = handle /\ waited' = waited /\ sent' = sent
      /\ send_q' = send_q /\ ractive' = ractive /\ wactive' = wactive /\ work' = work
  BY <1>1 DEF userVars
<1>5. /\ wire'  = [wire EXCEPT ![q][p] = SubSeq(wire[q][p], r + 1, Len(wire[q][p]))]
      /\ avail' = [avail EXCEPT ![q][p] = avail[q][p] - r]
      /\ sigio' = [sigio EXCEPT ![q] = sigio[q] \/ wactive[q][p]]
  BY <1>1 DEF Take
<1>6. /\ wire \in [Proc -> [Proc -> Seq(Nat \X Nat)]] /\ avail \in [Proc -> [Proc -> Nat]]
      /\ sigio \in [Proc -> BOOLEAN] /\ wactive \in [Proc -> [Proc -> BOOLEAN]]
      /\ mid \in [Proc -> 0 .. MaxMsgs - 1] /\ derailed \in [Proc -> BOOLEAN]
  BY Zenon, <1>3 DEF Types
<1>7. /\ wire[q][p] \in Seq(Nat \X Nat) /\ avail[q][p] \in Nat /\ avail[q][p] <= Len(wire[q][p])
      /\ WirePart(msg_list[q], send_q[q][p], sent[q][p], wire[q][p])
  <2>1. wire[q][p] \in Seq(Nat \X Nat) /\ avail[q][p] \in Nat
    BY <1>2, <1>6
  <2> QED BY <1>3, <2>1 DEF Out
<1>8. r \in 0 .. Len(wire[q][p]) /\ r \in 0 .. avail[q][p] /\ r \in Nat /\ avail[q][p] - r \in Nat
  <2>1. PICK a \in Nat, l \in Nat : a = avail[q][p] /\ l = Len(wire[q][p])
    BY <1>7
  <2>2. r \in 1 .. a /\ a <= l
    BY Zenon, <1>1, <1>7, <2>1
  <2>3. r \in 0 .. l /\ r \in 0 .. a /\ r \in Nat /\ a - r \in Nat
    BY <2>1, <2>2
  <2> QED BY Zenon, <2>1, <2>3
<1>9. SubSeq(wire[q][p], r + 1, Len(wire[q][p])) \in Seq(Nat \X Nat)
  BY Zenon, <1>7, <1>8, WireTaken
<1>10. /\ wire' \in [Proc -> [Proc -> Seq(Nat \X Nat)]]
       /\ \A x \in Proc : x # q => wire'[x] = wire[x]
       /\ wire'[q][p] = SubSeq(wire[q][p], r + 1, Len(wire[q][p]))
  BY Zenon, <1>2, <1>5, <1>6, <1>9
<1>11. /\ avail' \in [Proc -> [Proc -> Nat]]
       /\ \A x \in Proc : x # q => avail'[x] = avail[x]
       /\ avail'[q][p] = avail[q][p] - r
  BY Zenon, <1>2, <1>5, <1>6, <1>8
<1>12. sigio' \in [Proc -> BOOLEAN] /\ \A x \in Proc : x # q => sigio'[x] = sigio[x]
  <2>1. (sigio[q] \/ wactive[q][p]) \in BOOLEAN
    OBVIOUS
  <2> QED BY <1>2, <1>5, <1>6, <2>1
<1>13. /\ mid' \in [Proc -> 0 .. MaxMsgs - 1] /\ derailed' \in [Proc -> BOOLEAN]
       /\ \A x \in Proc : x # p => derailed'[x] = derailed[x]
       /\ (y \notin Ids /\ msg_q' = msg_q /\ derailed' = derailed) \/ FillsNew(p, q, y)
  <2>1. CASE y = 0 /\ UNCHANGED <<mid, msg_q, derailed>>
    <3>1. 0 \notin Ids
      BY DEF Ids
    <3> QED BY <1>6, <2>1, <3>1
  <2>2. CASE FillsNew(p, q, y)
    BY <2>2 DEF FillsNew, Made
  <2> QED BY <1>1, <2>1, <2>2
<1>14. Types'
  BY Zenon, <1>1, <1>3, <1>4, <1>10, <1>11, <1>12, <1>13 DEF Types
<1>15. \A x \in Peers(p) : SameRows(x)
  BY <1>1, <1>4, <1>13 DEF SameRows, Peers
<1> QED BY <1>2, <1>4, <1>8, <1>10, <1>11, <1>12, <1>13, <1>14, <1>15

\* Such a step keeps the invariant, if it keeps what is said of the messages from q.
LEMMA ReadsStep ==
  ASSUME TcpMsgAssumption, IInv, NEW p \in Proc, NEW q, NEW r, NEW y, Reads(p, q, r, y),
         ~derailed'[p] => In(p, q)'
  PROVE  IInv'
<1>1. /\ Types' /\ q \in Proc /\ q # p /\ r \in 0 .. avail[q][p] /\ \A x \in Peers(p) : SameRows(x)
      /\ todo' = todo /\ pc' = pc /\ handle' = handle /\ waited' = waited /\ sent' = sent
      /\ send_q' = send_q /\ ractive' = ractive /\ wactive' = wactive /\ work' = work
      /\ \A x \in Proc : x # q => wire'[x] = wire[x] /\ avail'[x] = avail[x] /\ sigio'[x] = sigio[x]
      /\ (y \notin Ids /\ msg_q' = msg_q /\ derailed' = derailed) \/ FillsNew(p, q, y)
  BY ReadsRows
<1>2. /\ q \in Peers(p) /\ ~derailed[p] /\ Take(p, q, r)
      /\ msg_list' \in [Proc -> [Ids -> EntryType]] /\ \A x \in Proc : x # p => msg_list'[x] = msg_list[x]
      /\ \A n \in Ids : n # y => msg_list'[p][n] = msg_list[p][n] \/ Fills(msg_list[p][n], msg_list'[p][n], q, sent, p)
      /\ \A x \in Proc \cup {Wild} : x # q => recv_q'[p][x] = recv_q[p][x]
      /\ recv_q'[p][q] # << >> /\ \A n \in Ids : Contains(recv_q[p][q], n) => Contains(recv_q'[p][q], n)
      /\ msg_q' \in [Proc -> [Proc -> Seq(Ids)]] /\ \A x \in Proc : x # q => msg_q'[p][x] = msg_q[p][x]
  BY DEF Reads
<1>3. /\ Types /\ Always(p) /\ History(p) /\ OnTrack(p) /\ \A x \in Peers(p) : In(p, x) /\ Out(p, x)
  BY <1>2 DEF IInv
<1>4. PICK L, L2, H : L = msg_list[p] /\ L2 = msg_list'[p] /\ H = handle[p]
  OBVIOUS
<1>5. /\ L \in [Ids -> EntryType] /\ L2 \in [Ids -> EntryType]
      /\ \A n \in Ids : n # y => L2[n] = L[n] \/ Fills(L[n], L2[n], q, sent, p)
      /\ Wild \notin Proc /\ p \in Proc
  <2>1. msg_list \in [Proc -> [Ids -> EntryType]]
    BY <1>3 DEF Types
  <2>2. Wild \notin Proc
    BY DEF Wild, Proc
  <2> QED BY <1>2, <1>4, <2>1, <2>2
<1>6. /\ y \in Ids => FillsNew(p, q, y) /\ Made(p, y)
      /\ ~FillsNew(p, q, y) => msg_q' = msg_q /\ derailed' = derailed
  BY Zenon, <1>1 DEF FillsNew
<1>7. /\ y \in Ids => /\ L2[y].used /\ L2[y].flag = "recv" /\ L2[y].peer = q /\ L2[y].nhdr = 0
                      /\ L2[y].left <= L2[y].nbytes /\ Holds(L2[y], sent, p)
                      /\ msg_q'[p][q] = Append(msg_q[p][q], y) /\ Contains(recv_q'[p][q], y)
      /\ y \in Ids => /\ ~L[y].used
                      /\ ~derailed'[p] => /\ ~Named(H, y)
                                          /\ \A x \in Proc \cup {Wild} : \A j \in 1 .. Len(recv_q[p][x]) : recv_q[p][x][j] # y
                      /\ \A x \in Proc : /\ \A j \in 1 .. Len(send_q[p][x]) : send_q[p][x][j] # y
                                         /\ \A j \in 1 .. Len(msg_q[p][x]) : msg_q[p][x][j] # y
  BY Zenon, <1>4, <1>6 DEF FillsNew, Made
\* Entries of other peers do not change.
<1>8. \A n \in Ids : n # y /\ (L[n].flag \notin {"recv", "drain"} \/ L[n].peer # q \/ Complete(L[n])) => L2[n] = L[n]
  BY <1>5 DEF Fills
<1>9. \A x \in Proc : \A n \in Ids : Contains(msg_q[p][x], n) => Contains(msg_q'[p][x], n)
  <2>1. CASE ~FillsNew(p, q, y)
    BY <1>6, <2>1
  <2>2. CASE FillsNew(p, q, y)
    <3>1. y \in Ids /\ msg_q'[p][q] = Append(msg_q[p][q], y)
      BY <2>2 DEF FillsNew, Made
    <3>2. PICK s : s = msg_q[p][q]
      OBVIOUS
    <3>3. s \in Seq(Ids)
      BY <1>1, <1>3, <3>2 DEF Types
    <3>4. PICK t : t = Append(s, y)
      BY Zenon
    <3>5. t \in Seq(Ids) /\ Len(t) = Len(s) + 1 /\ Len(s) \in Nat /\ \A j \in 1 .. Len(s) : t[j] = s[j]
      BY <3>1, <3>3, <3>4
    <3>6. ASSUME NEW n \in Ids, Contains(s, n) PROVE Contains(t, n)
      <4>1. PICK j \in 1 .. Len(s) : s[j] = n
        BY <3>3, <3>6, ContainsIs
      <4>2. j \in 1 .. Len(t) /\ t[j] = n
        BY <3>5, <4>1
      <4> QED BY <3>5, <4>2, ContainsIs
    <3> QED BY Zenon, <1>2, <3>1, <3>2, <3>4, <3>6
  <2> QED BY <2>1, <2>2
<1>10. y \in Ids => Contains(msg_q'[p][q], y)
  <2>1. SUFFICES ASSUME y \in Ids PROVE Contains(msg_q'[p][q], y)
    OBVIOUS
  <2>2. PICK s : s = msg_q[p][q]
    OBVIOUS
  <2>3. s \in Seq(Ids)
    BY <1>1, <1>3, <2>2 DEF Types
  <2>4. PICK t : t = Append(s, y)
    OBVIOUS
  <2>5. t \in Seq(Ids) /\ Len(s) + 1 \in 1 .. Len(t) /\ t[Len(s) + 1] = y
    BY <2>1, <2>3, <2>4
  <2>6. Contains(t, y)
    BY <2>5, ContainsIs
  <2> QED BY Zenon, <1>7, <2>1, <2>2, <2>4, <2>6
<1>11. Always(p)'
  <2>1. /\ OwnPart(send_q[p], recv_q[p], ractive[p], wactive[p], wire[p], avail[p], p)
        /\ HandlePart(todo[p], H, waited[p], pc[p]) /\ EntryPart(L, p)
        /\ QueuedPart(L, send_q[p]) /\ KeptPart(L, H, send_q[p], msg_q[p])
        /\ ActivePart(send_q[p], recv_q[p], ractive[p], wactive[p])
        /\ TaskPart(work[p], send_q[p], recv_q[p], p)
    BY <1>3, <1>4 DEF Always
  <2>2. OwnPart(send_q[p], recv_q'[p], ractive[p], wactive[p], wire[p], avail[p], p)
    BY <1>1, <1>2, <2>1 DEF OwnPart
  <2>3. EntryPart(L2, p)
    <3>1. SUFFICES ASSUME NEW n \in Ids
                   PROVE  /\ L2[n].left <= L2[n].nbytes
                          /\ L2[n].nhdr > 0 => L2[n].left = L2[n].nbytes /\ L2[n].got = << >>
                          /\ L2[n].flag = "drain" => L2[n].peer # p
      BY DEF EntryPart
    <3>2. CASE n = y
      BY <1>7, <3>2
    <3>3. CASE n # y /\ L2[n] = L[n]
      BY <2>1, <3>3 DEF EntryPart
    <3>4. CASE Fills(L[n], L2[n], q, sent, p)
      BY <1>1, <3>4 DEF Fills
    <3> QED BY <1>5, <3>2, <3>3, <3>4
  <2>4. QueuedPart(L2, send_q[p])
    <3>1. SUFFICES ASSUME NEW n \in Ids, L2[n].used, L2[n].flag \in {"send", "buffered"}, nleft(L2[n]) > 0
                   PROVE \E x \in Proc : Contains(send_q[p][x], n)
      BY DEF QueuedPart
    <3>2. n # y
      BY <1>7, <3>1
    <3>3. ~Fills(L[n], L2[n], q, sent, p)
      BY Zenon, <3>1 DEF Fills
    <3>4. L2[n] = L[n]
      BY <1>5, <3>2, <3>3
    <3> QED BY <2>1, <3>1, <3>4 DEF QueuedPart
  <2>5. KeptPart(L2, H, send_q[p], msg_q'[p])
    <3>1. SUFFICES ASSUME NEW n \in Ids, L2[n].used
                   PROVE \/ Named(H, n)
                         \/ \E x \in Proc : Contains(send_q[p][x], n) \/ Contains(msg_q'[p][x], n)
                         \/ L2[n].flag = "buffered" /\ Complete(L2[n])
      BY DEF KeptPart
    <3>2. CASE n = y
      BY <1>1, <1>10, <3>2
    <3>3. CASE n # y
      <4>1. L[n].used /\ (L[n].flag = "buffered" => L2[n] = L[n])
        BY <1>5, <3>1, <3>3 DEF Fills
      <4>2. \/ Named(H, n)
            \/ \E x \in Proc : Contains(send_q[p][x], n) \/ Contains(msg_q[p][x], n)
            \/ L[n].flag = "buffered" /\ Complete(L[n])
        BY <2>1, <4>1 DEF KeptPart
      <4> QED BY <1>9, <4>1, <4>2
    <3> QED BY <3>2, <3>3
  <2>6. ActivePart(send_q[p], recv_q'[p], ractive[p], wactive[p])
    BY Zenon, <1>2, <2>1 DEF ActivePart
  <2>7. TaskPart(work[p], send_q[p], recv_q'[p], p)
    <3>1. \A j \in 1 .. Len(work[p]) : work[p][j].node \in Proc
      <4>1. PICK K \in Seq(TaskType) : K = work[p]
        <5>1. work[p] \in Seq(TaskType)
          BY <1>3 DEF Types
        <5> QED BY <5>1
      <4>2. \A j \in 1 .. Len(K) : K[j] \in TaskType
        BY <4>1
      <4>3. \A t \in TaskType : t.node \in Proc
        BY DEF TaskType
      <4> QED BY <4>1, <4>2, <4>3
    <3>2. \A x \in Proc : recv_q[p][x] # << >> => recv_q'[p][x] # << >>
      BY Zenon, <1>2
    <3> QED BY Zenon, <2>1, <3>1, <3>2 DEF TaskPart
  <2>8. wire'[p] = wire[p] /\ avail'[p] = avail[p]
    BY <1>1, <1>5
  <2> QED BY <1>1, <1>4, <2>1, <2>2, <2>3, <2>4, <2>5, <2>6, <2>7, <2>8 DEF Always
<1>12. History(p)'
  <2>1. ContentPart(L, sent, p) /\ WaitedPart(waited[p], sent, p)
    BY <1>3, <1>4 DEF History
  <2>2. ContentPart(L2, sent, p)
    <3>1. SUFFICES ASSUME NEW n \in Ids, L2[n].nhdr = 0, L2[n].flag \in {"recv", "drain"} \/ L2[n].peer = p
                   PROVE  Holds(L2[n], sent, p)
      BY DEF ContentPart
    <3>2. CASE n = y
      BY <1>7, <3>2
    <3>3. CASE n # y /\ L2[n] = L[n]
      BY <2>1, <3>1, <3>3 DEF ContentPart
    <3>4. CASE Fills(L[n], L2[n], q, sent, p)
      BY <3>1, <3>4 DEF Fills
    <3> QED BY <1>5, <3>2, <3>3, <3>4
  <2> QED BY <1>1, <1>4, <2>1, <2>2 DEF History
<1>13. ASSUME ~derailed'[p] PROVE PcPart(L2, todo[p], H, pc[p])
  <2>1. PcPart(L, todo[p], H, pc[p])
    BY <1>3, <1>4 DEF OnTrack
  <2>2. PICK n : n = H[Head(todo[p]).i]
    OBVIOUS
  <2>3. CASE pc[p] = "run"
    BY <2>3 DEF PcPart
  <2>4. CASE pc[p] # "run"
    <3>1. HandlePart(todo[p], H, waited[p], pc[p])
      BY <1>3, <1>4 DEF Always
    <3>2. todo[p] # << >> /\ Head(todo[p]).op = "wait" /\ n # 0
      BY <2>2, <2>4, <3>1 DEF HandlePart
    <3>3. Head(todo[p]).i \in 1 .. Len(H) /\ Id(p) \in 0 .. MaxMsgs
      BY <1>4, <3>2, CallFacts
    <3>4. n \in 0 .. MaxMsgs
      BY <1>4, <2>2, <3>3 DEF Id
    <3>5. n \in Ids
      BY <3>2, <3>4, IdOrNone
    <3>6. n # y
      <4>1. Named(H, n)
        BY Zenon, <2>2, <3>3 DEF Named
      <4> QED BY <1>7, <1>13, <3>5, <4>1
    <3>7. CASE L2[n] = L[n]
      BY Zenon, <2>1, <2>2, <3>7 DEF PcPart
    <3>8. CASE Fills(L[n], L2[n], q, sent, p)
      <4>1. L[n].flag \in {"recv", "drain"} /\ ~Complete(L[n])
        BY <3>8 DEF Fills
      <4>2. pc[p] # "push" /\ pc[p] # "end"
        BY Zenon, <2>1, <2>2, <4>1 DEF PcPart
      <4> QED BY Zenon, <4>2 DEF PcPart
    <3> QED BY <1>5, <3>5, <3>6, <3>7, <3>8
  <2> QED BY <2>3, <2>4
<1>14. ASSUME ~derailed'[p], NEW x \in Proc \cup {Wild}, NEW j \in 1 .. Len(recv_q[p][x])
       PROVE  recv_q[p][x][j] \in Ids /\ recv_q[p][x][j] # y
  <2>1. recv_q[p][x] \in Seq(Ids)
    BY <1>3 DEF Types
  <2>2. recv_q[p][x][j] \in Ids
    BY <1>14, <2>1
  <2>3. y \in Ids => recv_q[p][x][j] # y
    BY <1>7, <1>14
  <2> QED BY <2>2, <2>3
<1>15. ASSUME NEW x \in Proc, NEW j \in 1 .. Len(msg_q[p][x])
       PROVE  msg_q[p][x][j] \in Ids /\ msg_q[p][x][j] # y
  <2>1. msg_q[p][x] \in Seq(Ids)
    BY <1>3 DEF Types
  <2>2. msg_q[p][x][j] \in Ids
    BY <1>15, <2>1
  <2>3. y \in Ids => msg_q[p][x][j] # y
    BY <1>7, <1>15
  <2> QED BY <2>2, <2>3
<1>16. ASSUME ~derailed'[p] PROVE WildPart(L2, recv_q'[p][Wild])
  <2>1. recv_q'[p][Wild] = recv_q[p][Wild] /\ WildPart(L, recv_q[p][Wild])
    BY <1>1, <1>2, <1>3, <1>4, <1>5 DEF OnTrack
  <2>2. ASSUME NEW j \in 1 .. Len(recv_q[p][Wild]) PROVE L2[recv_q[p][Wild][j]] = L[recv_q[p][Wild][j]]
    <3>1. recv_q[p][Wild][j] \in Ids /\ recv_q[p][Wild][j] # y
      BY <1>14, <1>16
    <3>2. L[recv_q[p][Wild][j]].peer = Wild
      BY <2>1 DEF WildPart
    <3> QED BY <1>1, <1>5, <1>8, <3>1, <3>2
  <2> QED BY SMTT(30), <2>1, <2>2 DEF WildPart
<1>17. ASSUME ~derailed'[p], NEW x \in Proc PROVE MsgPart(L2, H, msg_q'[p][x], recv_q'[p][x], p, x)
  <2>1. MsgPart(L, H, msg_q[p][x], recv_q[p][x], p, x)
    BY <1>3, <1>4 DEF OnTrack
  <2>2. CASE x # q
    <3>1. msg_q'[p][x] = msg_q[p][x] /\ recv_q'[p][x] = recv_q[p][x]
      BY <1>2, <2>2
    <3>2. ASSUME NEW j \in 1 .. Len(msg_q[p][x]) PROVE L2[msg_q[p][x][j]] = L[msg_q[p][x][j]]
      <4>1. msg_q[p][x][j] \in Ids /\ msg_q[p][x][j] # y
        BY <1>15
      <4>2. L[msg_q[p][x][j]].peer = x
        BY <2>1 DEF MsgPart
      <4> QED BY <1>8, <2>2, <4>1, <4>2
    <3> QED BY <2>1, <3>1, <3>2, MsgSame
  <2>3. CASE x = q
    <3>1. PICK mq, rq, rq2 : mq = msg_q[p][q] /\ rq = recv_q[p][q] /\ rq2 = recv_q'[p][q]
      OBVIOUS
    <3>2. mq \in Seq(Ids) /\ \A j \in 1 .. Len(mq) : mq[j] \in Ids /\ mq[j] # y
      <4>1. mq \in Seq(Ids)
        BY <1>1, <1>3, <3>1 DEF Types
      <4> QED BY <1>1, <1>15, <3>1, <4>1
    <3>3. \A n \in Ids : Contains(rq, n) => Contains(rq2, n)
      BY <1>2, <3>1
    <3>4. MsgPart(L, H, mq, rq, p, q)
      BY <2>1, <2>3, <3>1
    <3>5. MsgPart(L2, H, mq, rq2, p, q)
      <4>1. Once(mq)
        BY <3>4 DEF MsgPart
      <4>2. ASSUME NEW j \in 1 .. Len(mq)
            PROVE  /\ L2[mq[j]].used /\ L2[mq[j]].peer = q
                   /\ L2[mq[j]].flag = "drain" \/ (L2[mq[j]].flag = "recv" /\ L2[mq[j]].nhdr = 0)
                   /\ Complete(L2[mq[j]]) \/ Contains(rq2, mq[j])
                   /\ ~Named(H, mq[j])
        <5>1. PICK n \in Ids : n = mq[j] /\ n # y
          BY <3>2
        <5>2. /\ L[n].used /\ L[n].peer = q /\ (L[n].flag = "drain" \/ (L[n].flag = "recv" /\ L[n].nhdr = 0))
              /\ Complete(L[n]) \/ Contains(rq, n)
              /\ ~Named(H, n)
          BY <1>1, <3>4, <5>1 DEF MsgPart
        <5>3. CASE L2[n] = L[n]
          BY <3>3, <5>1, <5>2, <5>3
        <5>4. CASE Fills(L[n], L2[n], q, sent, p)
          <6>1. /\ ~Complete(L[n]) /\ L2[n].flag = L[n].flag /\ L2[n].peer = q /\ L2[n].used = L[n].used
                /\ L[n].nhdr = 0 => L2[n].nhdr = 0
            BY <5>4 DEF Fills
          <6> QED BY <3>3, <5>1, <5>2, <6>1
        <5> QED BY <1>5, <5>1, <5>3, <5>4
      <4> QED BY <1>1, <4>1, <4>2 DEF MsgPart
    <3>6. CASE ~FillsNew(p, q, y)
      BY <1>6, <2>3, <3>1, <3>5, <3>6
    <3>7. CASE FillsNew(p, q, y)
      <4>1. y \in Ids
        BY <3>7 DEF FillsNew, Made
      <4>2. MsgAdds(L2, H, mq, rq2, rq2, p, q, y)
        BY <1>1, <1>7, <1>17, <3>1, <3>2, <3>5, <4>1 DEF MsgAdds
      <4>3. MsgPart(L2, H, Append(mq, y), rq2, p, q)
        BY <4>2, MsgAdded
      <4> QED BY Zenon, <1>7, <2>3, <3>1, <4>1, <4>3
    <3> QED BY <3>6, <3>7
  <2> QED BY <2>2, <2>3
<1>18. ~derailed'[p] => OnTrack(p)'
  BY <1>1, <1>4, <1>13, <1>16, <1>17 DEF OnTrack
<1>19. SendParts(p)
  <2>1. ASSUME NEW n \in Ids, Outgoing(L[n]) PROVE L2[n] = L[n]
    <3>1. L[n].used /\ L[n].flag \in {"send", "buffered"}
      BY <2>1 DEF Outgoing
    <3>2. n # y
      BY <1>7, <3>1
    <3> QED BY <1>8, <3>1, <3>2
  <2>2. /\ send_q'[p] = send_q[p] /\ sent'[p] = sent[p] /\ wire'[p] = wire[p] /\ avail'[p] = avail[p]
        /\ handle'[p] = handle[p]
    BY <1>1, <1>5
  <2> QED BY <1>4, <2>1, <2>2, OutReading
<1>20. ASSUME ~derailed'[p], NEW x \in Peers(p) PROVE In(p, x)'
  <2>1. In(p, x) /\ x \in Proc /\ x # p
    BY <1>3 DEF Peers
  <2>2. CASE x = q
    BY <1>20, <2>2
  <2>3. CASE x # q
    <3>1. /\ recv_q'[p][x] = recv_q[p][x] /\ msg_q'[p][x] = msg_q[p][x] /\ RecvPart(L, recv_q[p][x], x)
          /\ MsgPart(L, H, msg_q[p][x], recv_q[p][x], p, x)
      BY Zenon, <1>2, <1>3, <1>4, <2>1, <2>3 DEF In, OnTrack
    <3>2. ASSUME NEW j \in 1 .. Len(recv_q[p][x])
          PROVE SameBut(msg_list[p][recv_q[p][x][j]], msg_list'[p][recv_q[p][x][j]])
      <4>1. recv_q[p][x][j] \in Ids /\ recv_q[p][x][j] # y
        BY <1>14, <1>20, <2>1
      <4>2. L[recv_q[p][x][j]].peer = x
        BY <3>1 DEF RecvPart
      <4>3. L2[recv_q[p][x][j]] = L[recv_q[p][x][j]]
        BY <1>8, <2>3, <4>1, <4>2
      <4> QED BY <1>4, <4>3, SameIsSame
    <3>3. ASSUME NEW j \in 1 .. Len(msg_q'[p][x])
          PROVE /\ SameBut(msg_list[p][msg_q'[p][x][j]], msg_list'[p][msg_q'[p][x][j]])
                /\ \E k \in 1 .. Len(msg_q[p][x]) : msg_q'[p][x][j] = msg_q[p][x][k]
      <4>1. j \in 1 .. Len(msg_q[p][x]) /\ msg_q'[p][x][j] = msg_q[p][x][j]
        BY <3>1
      <4>2. msg_q[p][x][j] \in Ids /\ msg_q[p][x][j] # y
        BY <1>15, <2>1, <4>1
      <4>3. L[msg_q[p][x][j]].peer = x
        BY <3>1, <4>1 DEF MsgPart
      <4>4. L2[msg_q[p][x][j]] = L[msg_q[p][x][j]]
        BY <1>8, <2>3, <4>2, <4>3
      <4> QED BY <1>4, <4>1, <4>4, SameIsSame
    <3>4. /\ wire'[x][p] = wire[x][p] /\ avail'[x][p] = avail[x][p] /\ sent'[x][p] = sent[x][p]
          /\ msg_list'[x] = msg_list[x] /\ send_q'[x] = send_q[x] /\ ractive'[p][x] = ractive[p][x]
          /\ work'[p] = work[p] /\ wire'[p] = wire[p] /\ sigio'[p] = sigio[p] /\ recv_q'[p][Wild] = recv_q[p][Wild]
      BY Zenon, <1>1, <1>2, <1>5, <2>1, <2>3
    <3>5. SignalPart(work[p], ractive[p], wactive[p], recv_q[p][Wild], Len(wire[p][x]) < SockCap,
                     avail[x][p], sigio[p], x)'
      <4>1. SignalPart(work[p], ractive[p], wactive[p], recv_q[p][Wild], Len(wire[p][x]) < SockCap,
                       avail[x][p], sigio[p], x)
        BY <2>1 DEF In
      <4> QED BY <1>1, <3>4, <4>1
    <3> QED BY Zenon, <1>3, <2>1, <3>1, <3>2, <3>3, <3>4, <3>5, InSame
  <2> QED BY <2>2, <2>3
<1>21. OwnParts(p)
  BY <1>11, <1>12, <1>18, <1>20 DEF OwnParts
<1> QED BY Zenon, <1>1, <1>2, <1>19, <1>21, ReadStep

\* The queue rq for q after a step in which its z-th message got on, m being the one
\* that do_recv() is at: only the z-th may have begun, and those before it are there.
Settled(L, mq, rq, q, z, m) ==
  /\ z \in 1 .. Len(rq) /\ Once(rq)
  /\ \A i \in 1 .. Len(rq) : /\ L[rq[i]].flag \in {"recv", "drain"} /\ L[rq[i]].peer = q
                             /\ ~Complete(L[rq[i]]) => L[rq[i]].used
                             /\ L[rq[i]].flag = "drain" => L[rq[i]].nhdr = 0
                             /\ i # z => ~Begun(L[rq[i]])
  /\ \A j \in 1 .. z - 1 : Complete(L[rq[j]])
  /\ Begun(L[rq[z]]) /\ L[rq[z]].nhdr > 0 => NoMatch(L, mq, L[rq[z]])
  /\ \E k \in 1 .. Len(rq) :
       /\ rq[k] = m
       /\ \A j \in 1 .. k - 1 : L[rq[j]].nhdr = 0 /\ (Complete(L[rq[k]]) => Complete(L[rq[j]]))
       /\ L[rq[k]].nhdr > 0 /\ L[rq[k]].flag = "recv" => NoMatch(L, mq, L[rq[k]])

\* What is said of such a queue holds.
LEMMA SettledParts ==
  ASSUME TcpMsgAssumption, NEW L, NEW mq, NEW rq, NEW q, NEW z, NEW K, K # << >>,
         rq \in Seq(Ids), L \in [Ids -> EntryType],
         Settled(L, mq, rq, q, z, Head(K).msg)
  PROVE  /\ RecvPart(L, rq, q) /\ HeaderPart(L, mq, rq) /\ PlacePart(L, mq, rq, K, q)
         /\ \A w, av, sn : DrainPart(L, rq, K, q, w, av, sn)
         /\ \A u : /\ Begun(L[rq[z]]) => u[2] = Gone(L[rq[z]]) + 1 /\ (L[rq[z]].nhdr = 0 => u[1] = L[rq[z]].num)
                   /\ ~Begun(L[rq[z]]) => u[2] = 1
                   => StreamPart(L, rq, u)
<1>1. /\ z \in 1 .. Len(rq) /\ Once(rq)
      /\ \A i \in 1 .. Len(rq) : /\ L[rq[i]].flag \in {"recv", "drain"} /\ L[rq[i]].peer = q
                                 /\ ~Complete(L[rq[i]]) => L[rq[i]].used
                                 /\ L[rq[i]].flag = "drain" => L[rq[i]].nhdr = 0
                                 /\ i # z => ~Begun(L[rq[i]])
      /\ \A j \in 1 .. z - 1 : Complete(L[rq[j]])
      /\ Begun(L[rq[z]]) /\ L[rq[z]].nhdr > 0 => NoMatch(L, mq, L[rq[z]])
  BY DEF Settled
<1>2. \A i \in 1 .. Len(rq) : L[rq[i]].nhdr \in Nat
  <2>1. \A i \in 1 .. Len(rq) : L[rq[i]] \in EntryType
    OBVIOUS
  <2> QED BY <2>1, EntryFacts
<1>3. RecvPart(L, rq, q)
  BY <1>1 DEF RecvPart
<1>4. HeaderPart(L, mq, rq)
  <2>1. ASSUME NEW i \in 1 .. Len(rq), Begun(L[rq[i]]) /\ L[rq[i]].nhdr > 0
        PROVE  L[rq[i]].flag = "recv" /\ NoMatch(L, mq, L[rq[i]])
    <3>1. i = z
      BY <1>1, <2>1
    <3>2. L[rq[i]].nhdr # 0
      BY <1>2, <2>1
    <3> QED BY <1>1, <2>1, <3>1, <3>2
  <2> QED BY <2>1 DEF HeaderPart
<1>5. PlacePart(L, mq, rq, K, q)
  <2>1. \E k \in 1 .. Len(rq) :
          /\ rq[k] = Head(K).msg
          /\ \A j \in 1 .. k - 1 : L[rq[j]].nhdr = 0 /\ (Complete(L[rq[k]]) => Complete(L[rq[j]]))
          /\ L[rq[k]].nhdr > 0 /\ L[rq[k]].flag = "recv" => NoMatch(L, mq, L[rq[k]])
    BY Zenon DEF Settled
  <2> QED BY <2>1 DEF PlacePart
<1>6. \A w, av, sn : DrainPart(L, rq, K, q, w, av, sn)
  <2>1. ASSUME NEW i \in 1 .. Len(rq), L[rq[i]].flag = "drain" /\ L[rq[i]].nhdr > 0 PROVE FALSE
    BY <1>1, <1>2, <2>1
  <2> QED BY <2>1 DEF DrainPart
<1>7. ASSUME NEW u,
             Begun(L[rq[z]]) => u[2] = Gone(L[rq[z]]) + 1 /\ (L[rq[z]].nhdr = 0 => u[1] = L[rq[z]].num),
             ~Begun(L[rq[z]]) => u[2] = 1
      PROVE  StreamPart(L, rq, u)
  <2>1. ASSUME NEW i \in 1 .. Len(rq), Begun(L[rq[i]])
        PROVE  u[2] = Gone(L[rq[i]]) + 1 /\ (L[rq[i]].nhdr = 0 => u[1] = L[rq[i]].num)
    <3>1. i = z
      BY <1>1, <2>1
    <3> QED BY <1>7, <2>1, <3>1
  <2>2. (\A i \in 1 .. Len(rq) : ~Begun(L[rq[i]])) => u[2] = 1
    BY <1>1, <1>7
  <2> QED BY <2>1, <2>2 DEF StreamPart
<1> QED BY <1>3, <1>4, <1>5, <1>6, <1>7

\* What p reads goes to the z-th message of its queue for q: all of it is of the n-th
\* message of q, from the o-th unit on.
GoesTo(p, q, r, z, n, o) ==
  /\ Piece(msg_list[q], send_q[q][p], sent[q][p], wire[q][p], r, n, o)
  /\ Reaches(msg_list'[p][recv_q'[p][q][z]], sent[q][p], n, o, r)
  /\ Settled(msg_list'[p], msg_q'[p][q], recv_q'[p][q], q, z, Head(work[p]).msg)
  /\ AtRecv(work[p], q)

\* Then what is said of the messages from q holds.
LEMMA GoesToIn ==
  ASSUME TcpMsgAssumption, IInv, NEW p \in Proc, NEW q, NEW r, NEW y, NEW z, NEW n, NEW o,
         Reads(p, q, r, y), GoesTo(p, q, r, z, n, o)
  PROVE  In(p, q)'
<1>1. /\ Types' /\ q \in Proc /\ q # p
      /\ sent' = sent /\ send_q' = send_q /\ ractive' = ractive /\ wactive' = wactive /\ work' = work
      /\ \A x \in Proc : x # q => wire'[x] = wire[x] /\ avail'[x] = avail[x] /\ sigio'[x] = sigio[x]
      /\ wire'[q][p] = SubSeq(wire[q][p], r + 1, Len(wire[q][p])) /\ avail'[q][p] = avail[q][p] - r
  BY ReadsRows
<1>2. /\ q \in Peers(p) /\ ~derailed[p] /\ r \in 1 .. avail[q][p]
      /\ \A x \in Proc : x # p => msg_list'[x] = msg_list[x]
      /\ \A x \in Proc \cup {Wild} : x # q => recv_q'[p][x] = recv_q[p][x]
  BY DEF Reads
<1>3. /\ Piece(msg_list[q], send_q[q][p], sent[q][p], wire[q][p], r, n, o)
      /\ Reaches(msg_list'[p][recv_q'[p][q][z]], sent[q][p], n, o, r)
      /\ Settled(msg_list'[p], msg_q'[p][q], recv_q'[p][q], q, z, Head(work[p]).msg)
      /\ AtRecv(work[p], q)
  BY DEF GoesTo
<1>4. PICK L2, mq2, rq2, K, u : /\ L2 = msg_list'[p] /\ mq2 = msg_q'[p][q] /\ rq2 = recv_q'[p][q] /\ K = work[p]
                                /\ u = NextIn(msg_list[q], send_q[q][p], sent[q][p],
                                              SubSeq(wire[q][p], r + 1, Len(wire[q][p])))
  OBVIOUS
<1>5. L2 \in [Ids -> EntryType] /\ rq2 \in Seq(Ids) /\ Settled(L2, mq2, rq2, q, z, Head(K).msg)
  BY SMTT(30), <1>1, <1>3, <1>4 DEF Types
<1>6. K # << >>
  BY <1>3, <1>4 DEF AtRecv
<1>7. /\ RecvPart(L2, rq2, q) /\ HeaderPart(L2, mq2, rq2) /\ PlacePart(L2, mq2, rq2, K, q)
      /\ \A w, av, sn : DrainPart(L2, rq2, K, q, w, av, sn)
      /\ \A v : /\ Begun(L2[rq2[z]]) => v[2] = Gone(L2[rq2[z]]) + 1 /\ (L2[rq2[z]].nhdr = 0 => v[1] = L2[rq2[z]].num)
                /\ ~Begun(L2[rq2[z]]) => v[2] = 1
                => StreamPart(L2, rq2, v)
  BY Zenon, <1>5, <1>6, SettledParts
<1>8. /\ Begun(L2[rq2[z]]) => u[2] = Gone(L2[rq2[z]]) + 1 /\ (L2[rq2[z]].nhdr = 0 => u[1] = L2[rq2[z]].num)
      /\ ~Begun(L2[rq2[z]]) => u[2] = 1
  BY SMTT(30), <1>3, <1>4, NextReached
<1>9. StreamPart(L2, rq2, u)
  BY <1>7, <1>8
<1>10. NextIn(msg_list[q], send_q[q][p], sent[q][p], wire[q][p])' = u
  BY <1>1, <1>2, <1>4
<1>11. SignalPart(work[p], ractive[p], wactive[p], recv_q[p][Wild], Len(wire[p][q]) < SockCap,
                  avail[q][p], sigio[p], q)'
  <2>1. SignalPart(work[p], ractive[p], wactive[p], recv_q[p][Wild], Len(wire[p][q]) < SockCap,
                   avail[q][p], sigio[p], q)
    BY <1>2 DEF IInv, In
  <2>2. wire'[p] = wire[p] /\ sigio'[p] = sigio[p] /\ recv_q'[p][Wild] = recv_q[p][Wild]
    <3>1. Wild \notin Proc
      BY DEF Wild, Proc
    <3> QED BY <1>1, <1>2, <3>1
  <2>3. /\ avail'[q][p] > 0 => avail[q][p] > 0
        /\ avail'[q][p] >= HdrSize => avail[q][p] >= HdrSize
    <3>1. avail[q][p] \in Nat /\ HdrSize \in Nat
      BY <1>1 DEF IInv, Types, TcpMsgAssumption
    <3> QED BY <1>1, <1>2, <3>1
  <2> QED BY <1>1, <2>1, <2>2, <2>3 DEF SignalPart
<1>12. AwakePart(rq2, K, ractive'[p], q)
  BY <1>3, <1>4 DEF AwakePart
<1> QED BY Zenon, <1>1, <1>4, <1>7, <1>9, <1>10, <1>11, <1>12 DEF In

\* do_recv() finds something to read for its message m from q.
Ready(p, q, m) ==
  /\ Reading(p, q, m) /\ avail[q][p] > 0
  /\ msg_list[p][m].nhdr > 0 => AtHeader(p, q, m)

\* What is so then: m is the k-th of the queue, entry e; n and o are the next unit.
ReadyAt(p, q, m, k, e, n, o) ==
  /\ q \in Peers(p) /\ q \in Proc /\ q # p /\ ~derailed[p] /\ AtRecv(work[p], q) /\ Head(work[p]).msg = m
  /\ m \in Ids /\ e = msg_list[p][m] /\ e \in EntryType
  /\ e.used /\ e.flag \in {"recv", "drain"} /\ e.peer = q /\ ~Complete(e)
  /\ e.left <= e.nbytes /\ (e.nhdr > 0 => e.left = e.nbytes /\ e.got = << >>)
  /\ e.nhdr = 0 => Holds(e, sent, p) /\ n = e.num
  /\ n = wire[q][p][1][1] /\ o = wire[q][p][1][2] /\ o = Gone(e) + 1
  /\ k \in 1 .. Len(recv_q[p][q]) /\ recv_q[p][q][k] = m
  /\ e.nhdr > 0 /\ e.flag = "recv" => NoMatch(msg_list[p], msg_q[p][q], e)
  /\ e.nhdr > 0 /\ e.flag = "drain" =>
       /\ e.nhdr = HdrSize /\ avail[q][p] >= HdrSize /\ Len(recv_q[p][q]) = 1
       /\ e.tag = sent[q][p][n].tag /\ e.nbytes = sent[q][p][n].nbytes
  /\ \A i \in 1 .. Len(recv_q[p][q]) : i # k =>
       /\ ~Begun(msg_list[p][recv_q[p][q][i]])
       /\ msg_list[p][recv_q[p][q][i]].flag = "drain" => msg_list[p][recv_q[p][q][i]].nhdr = 0
  /\ \A j \in 1 .. k - 1 : Complete(msg_list[p][recv_q[p][q][j]])

\* A step of the loop of do_recv() that reads finds its message in that place.
LEMMA ReadyFacts ==
  ASSUME TcpMsgAssumption, IInv, NEW p \in Proc, NEW q, NEW m, Ready(p, q, m)
  PROVE  \E k, e, n, o : ReadyAt(p, q, m, k, e, n, o)
<1>1. /\ Working(p, "recv") /\ Head(work[p]).msg = m /\ m # 0 /\ Head(work[p]).node = q
      /\ nleft(msg_list[p][m]) > 0 /\ avail[q][p] > 0 /\ ~derailed[p]
      /\ msg_list[p][m].nhdr > 0 => AtHeader(p, q, m)
  BY DEF Ready, Reading, Working
<1>2. /\ q \in Peers(p) /\ q \in Proc /\ q # p /\ recv_q[p][q] \in Seq(Ids)
      /\ AtRecv(work[p], q) /\ In(p, q) /\ Always(p) /\ History(p)
  BY Zenon, <1>1, RecvTask
<1>3. Types /\ Out(q, p)
  BY <1>2 DEF IInv, Peers
<1>4. PICK L, rq, mq, w, sn, u, av : /\ L = msg_list[p] /\ rq = recv_q[p][q] /\ mq = msg_q[p][q] /\ w = wire[q][p]
                                     /\ sn = sent[q][p] /\ av = avail[q][p]
                                     /\ u = NextIn(msg_list[q], send_q[q][p], sn, w)
  OBVIOUS
<1>5. L \in [Ids -> EntryType] /\ rq \in Seq(Ids) /\ w \in Seq(Nat \X Nat) /\ av \in Nat
  <2>1. /\ msg_list \in [Proc -> [Ids -> EntryType]] /\ wire \in [Proc -> [Proc -> Seq(Nat \X Nat)]]
        /\ avail \in [Proc -> [Proc -> Nat]]
    BY Zenon, <1>3 DEF Types
  <2> QED BY <1>2, <1>4, <2>1
<1>6. /\ RecvPart(L, rq, q) /\ StreamPart(L, rq, u) /\ PlacePart(L, mq, rq, work[p], q)
      /\ DrainPart(L, rq, work[p], q, w, av, sn)
  BY <1>2, <1>4 DEF In
<1>7. w # << >> /\ u = w[1] /\ HdrSize \in Nat \ {0}
  <2>1. av <= Len(w)
    BY <1>3, <1>4 DEF Out
  <2>2. w # << >>
    BY <1>1, <1>4, <1>5, <2>1
  <2>3. u = Head(w) /\ Head(w) = w[1]
    BY <1>4, <1>5, <2>2 DEF NextIn
  <2> QED BY <2>2, <2>3 DEF TcpMsgAssumption
<1>8. PICK k \in 1 .. Len(rq) :
        /\ rq[k] = m
        /\ \A j \in 1 .. k - 1 : L[rq[j]].nhdr = 0
        /\ L[rq[k]].nhdr > 0 /\ L[rq[k]].flag = "recv" => NoMatch(L, mq, L[rq[k]])
  BY <1>1, <1>2, <1>6 DEF PlacePart
<1>9. m \in Ids
  BY <1>5, <1>8
<1>10. PICK e : e = L[m]
  OBVIOUS
<1>11. /\ e \in EntryType /\ ~Complete(e) /\ nleft(e) > 0 /\ e.nhdr \in Nat /\ e.left \in Nat /\ e.nbytes \in Nat
  <2>1. e \in EntryType /\ nleft(e) > 0
    BY <1>1, <1>4, <1>5, <1>9, <1>10
  <2> QED BY <2>1, EntryFacts
<1>12. e.flag \in {"recv", "drain"} /\ e.peer = q /\ e.used
  BY Zenon, <1>6, <1>8, <1>10, <1>11 DEF RecvPart
<1>13. EntryPart(L, p)
  BY <1>2, <1>4 DEF Always
<1>14. e.left <= e.nbytes /\ (e.nhdr > 0 => e.left = e.nbytes /\ e.got = << >>)
  BY <1>9, <1>10, <1>13 DEF EntryPart
<1>15. e.nhdr = 0 => Holds(e, sent, p)
  <2>1. ContentPart(L, sent, p)
    BY <1>2, <1>4 DEF History
  <2> QED BY <1>9, <1>10, <1>12, <2>1 DEF ContentPart
<1>16. u[2] = Gone(e) + 1 /\ (e.nhdr = 0 => u[1] = e.num)
  <2>1. CASE e.nhdr = 0
    <3>1. Begun(L[rq[k]])
      BY <1>7, <1>8, <1>10, <1>11, <2>1 DEF Begun
    <3> QED BY <1>6, <1>8, <1>10, <3>1 DEF StreamPart
  <2>2. CASE e.nhdr > 0
    <3>1. w[1][2] = HdrSize - e.nhdr + 1
      BY <1>1, <1>4, <1>10, <2>2 DEF AtHeader
    <3>2. Gone(e) = HdrSize - e.nhdr
      <4>1. Gone(e) = HdrSize + e.nbytes - (e.nhdr + e.left)
        BY DEF Gone, nleft
      <4> QED BY <1>7, <1>11, <1>14, <2>2, <4>1
    <3>3. e.nhdr # 0
      BY <2>2
    <3> QED BY <1>7, <3>1, <3>2, <3>3
  <2> QED BY <1>11, <2>1, <2>2
<1>17. NextFor(L, rq, k, u, p, q)
  BY <1>5, <1>6, <1>8, <1>10, <1>11, <1>13, <1>16 DEF NextFor
<1>18. /\ \A i \in 1 .. Len(rq) : i # k => ~Begun(L[rq[i]])
       /\ \A j \in 1 .. k - 1 : Complete(L[rq[j]])
  BY <1>17, OnlyBegun
<1>19. ASSUME NEW i \in 1 .. Len(rq), i # k, L[rq[i]].flag = "drain" PROVE L[rq[i]].nhdr = 0
  <2>1. L[rq[i]].nhdr \in Nat
    <3>1. L[rq[i]] \in EntryType
      BY <1>5
    <3> QED BY <3>1, EntryFacts
  <2>2. SUFFICES ASSUME L[rq[i]].nhdr > 0 PROVE FALSE
    BY <2>1
  <2>3. Len(rq) = 1
    BY <1>6, <1>19, <2>2 DEF DrainPart
  <2> QED BY <1>19, <2>3
<1>20. e.nhdr > 0 /\ e.flag = "drain" =>
         /\ e.nhdr = HdrSize /\ av >= HdrSize /\ Len(rq) = 1
         /\ e.tag = sn[w[1][1]].tag /\ e.nbytes = sn[w[1][1]].nbytes
  BY <1>6, <1>8, <1>10 DEF DrainPart
<1>21. ReadyAt(p, q, m, k, e, w[1][1], w[1][2])
  BY Zenon, <1>1, <1>2, <1>4, <1>7, <1>8, <1>9, <1>10, <1>11, <1>12, <1>14, <1>15, <1>16, <1>18, <1>19, <1>20
  DEF ReadyAt
<1> QED BY <1>21

\* What may be read is of the message.
LEMMA ReadyPiece ==
  ASSUME TcpMsgAssumption, IInv, NEW p \in Proc, NEW q, NEW m, NEW k, NEW e, NEW n, NEW o,
         ReadyAt(p, q, m, k, e, n, o), NEW r \in 1 .. avail[q][p], o + r - 1 <= HdrSize + sent[q][p][n].nbytes
  PROVE  Piece(msg_list[q], send_q[q][p], sent[q][p], wire[q][p], r, n, o)
<1>1. q \in Proc /\ q # p /\ n = wire[q][p][1][1] /\ o = wire[q][p][1][2]
  BY Zenon DEF ReadyAt
<1>2. Types /\ Out(q, p)
  BY Zenon, <1>1 DEF IInv, Peers
<1>3. sent[q][p] \in Seq(SentMsg) /\ wire[q][p] \in Seq(Nat \X Nat) /\ avail[q][p] \in Nat
  BY <1>1, <1>2 DEF Types
<1>4. avail[q][p] <= Len(wire[q][p]) /\ WirePart(msg_list[q], send_q[q][p], sent[q][p], wire[q][p])
  BY <1>2 DEF Out
<1>5. r \in 1 .. Len(wire[q][p])
  BY <1>3, <1>4
<1> QED BY Zenon, <1>1, <1>3, <1>4, <1>5 DEF Piece

\* The message the next unit is of.
LEMMA ReadySent ==
  ASSUME TcpMsgAssumption, IInv, NEW p \in Proc, NEW q, NEW m, NEW k, NEW e, NEW n, NEW o,
         ReadyAt(p, q, m, k, e, n, o), Ready(p, q, m)
  PROVE  /\ n \in 1 .. Len(sent[q][p]) /\ o \in Nat \ {0} /\ sent[q][p][n] \in SentMsg
         /\ sent[q][p][n].nbytes \in Nat /\ sent[q][p][n].tag \in Int /\ n \in Nat
         /\ avail[q][p] \in Nat \ {0} /\ sent[q][p] \in Seq(SentMsg)
<1>1. q \in Proc /\ q # p /\ n = wire[q][p][1][1] /\ o = wire[q][p][1][2]
  BY Zenon DEF ReadyAt
<1>2. avail[q][p] \in Nat \ {0}
  BY <1>1 DEF Ready, IInv, Types
<1>3. 1 \in 1 .. avail[q][p]
  BY <1>2
<1>4. Types /\ Out(q, p)
  BY <1>1 DEF IInv, Peers
<1>5. sent[q][p] \in Seq(SentMsg) /\ wire[q][p] \in Seq(Nat \X Nat)
  BY <1>1, <1>4 DEF Types
<1>6. avail[q][p] <= Len(wire[q][p]) /\ WirePart(msg_list[q], send_q[q][p], sent[q][p], wire[q][p])
  BY <1>4 DEF Out
<1>7. 1 \in 1 .. Len(wire[q][p])
  BY <1>2, <1>5, <1>6
<1>8. n \in 1 .. Len(sent[q][p]) /\ o \in 1 .. HdrSize + sent[q][p][n].nbytes
  BY Zenon, <1>1, <1>6, <1>7 DEF WirePart
<1>9. sent[q][p][n] \in SentMsg
  BY <1>5, <1>8
<1>10. sent[q][p][n].nbytes \in Nat /\ sent[q][p][n].tag \in Int
  <2>1. \A s \in SentMsg : s.nbytes \in Nat /\ s.tag \in Int
    BY DEF SentMsg
  <2> QED BY <1>9, <2>1
<1> QED BY <1>2, <1>5, <1>8, <1>9, <1>10

\* r units go to message m itself: entry e becomes e2.
ReadsInto(p, q, m, k, e, n, o, r, e2) ==
  /\ ReadyAt(p, q, m, k, e, n, o)
  /\ r \in 1 .. avail[q][p] /\ Take(p, q, r) /\ o + r - 1 <= HdrSize + sent[q][p][n].nbytes
  /\ msg_list' = [msg_list EXCEPT ![p][m] = e2]
  /\ UNCHANGED <<userVars, mid, send_q, recv_q, msg_q, ractive, wactive, work, derailed>>
  /\ Fills(e, e2, q, sent, p) /\ Reaches(e2, sent[q][p], n, o, r)
  /\ e2.nhdr > 0 => e.flag = "recv" /\ e2.tag = e.tag /\ e2.nbytes = e.nbytes

\* Such a read keeps the invariant.
LEMMA ReadsIntoStep ==
  ASSUME TcpMsgAssumption, IInv, NEW p \in Proc, NEW q, NEW m, NEW k, NEW e, NEW n, NEW o, NEW r, NEW e2,
         ReadsInto(p, q, m, k, e, n, o, r, e2)
  PROVE  IInv'
<1>1. /\ ReadyAt(p, q, m, k, e, n, o)
      /\ r \in 1 .. avail[q][p] /\ Take(p, q, r) /\ o + r - 1 <= HdrSize + sent[q][p][n].nbytes
      /\ msg_list' = [msg_list EXCEPT ![p][m] = e2]
      /\ UNCHANGED <<userVars, mid, send_q, recv_q, msg_q, ractive, wactive, work, derailed>>
      /\ Fills(e, e2, q, sent, p) /\ Reaches(e2, sent[q][p], n, o, r)
      /\ e2.nhdr > 0 => e.flag = "recv" /\ e2.tag = e.tag /\ e2.nbytes = e.nbytes
  BY DEF ReadsInto
<1>2. /\ q \in Peers(p) /\ q \in Proc /\ q # p /\ ~derailed[p] /\ AtRecv(work[p], q) /\ Head(work[p]).msg = m
      /\ m \in Ids /\ e = msg_list[p][m] /\ e \in EntryType
      /\ k \in 1 .. Len(recv_q[p][q]) /\ recv_q[p][q][k] = m
      /\ e.nhdr > 0 /\ e.flag = "recv" => NoMatch(msg_list[p], msg_q[p][q], e)
      /\ \A i \in 1 .. Len(recv_q[p][q]) : i # k =>
           /\ ~Begun(msg_list[p][recv_q[p][q][i]])
           /\ msg_list[p][recv_q[p][q][i]].flag = "drain" => msg_list[p][recv_q[p][q][i]].nhdr = 0
      /\ \A j \in 1 .. k - 1 : Complete(msg_list[p][recv_q[p][q][j]])
      /\ e.used
  BY Zenon, <1>1 DEF ReadyAt
<1>3. Types /\ In(p, q) /\ OnTrack(p)
  BY <1>2 DEF IInv
<1>4. e2 \in EntryType
  BY <1>1 DEF Reaches
<1>5. /\ msg_list' \in [Proc -> [Ids -> EntryType]]
      /\ \A x \in Proc : x # p => msg_list'[x] = msg_list[x]
      /\ \A i \in Ids : msg_list'[p][i] = IF i = m THEN e2 ELSE msg_list[p][i]
  BY ZenonT(30), <1>1, <1>2, <1>3, <1>4, OneEntry
<1>6. PICK L, L2, rq, mq : L = msg_list[p] /\ L2 = msg_list'[p] /\ rq = recv_q[p][q] /\ mq = msg_q[p][q]
  OBVIOUS
<1>7. /\ L \in [Ids -> EntryType] /\ L2 \in [Ids -> EntryType] /\ rq \in Seq(Ids) /\ mq \in Seq(Ids)
      /\ L[m] = e /\ L2[m] = e2 /\ \A i \in Ids : i # m => L2[i] = L[i]
  <2>1. /\ msg_list \in [Proc -> [Ids -> EntryType]] /\ recv_q \in [Proc -> [Proc \cup {Wild} -> Seq(Ids)]]
        /\ msg_q \in [Proc -> [Proc -> Seq(Ids)]]
    BY Zenon, <1>3 DEF Types
  <2> QED BY <1>2, <1>5, <1>6, <2>1
<1>8. /\ e.flag \in {"recv", "drain"} /\ ~Complete(e) /\ e.peer = q
      /\ e2.flag = e.flag /\ e2.peer = q /\ e2.used = e.used
      /\ e.nhdr = 0 => e2.nhdr = 0
  BY <1>1 DEF Fills
<1>9. e.nhdr \in Nat /\ e2.nhdr \in Nat /\ \A x \in EntryType : Complete(x) => x.nhdr = 0
  BY Zenon, <1>2, <1>4, EntryFacts
<1>10. Reads(p, q, r, 0)
  <2>1. /\ recv_q' = recv_q /\ msg_q' = msg_q /\ recv_q \in [Proc -> [Proc \cup {Wild} -> Seq(Ids)]]
        /\ msg_q \in [Proc -> [Proc -> Seq(Ids)]]
    BY Zenon, <1>1, <1>3 DEF Types
  <2>2. recv_q'[p][q] # << >>
    BY <1>2, <1>6, <1>7, <2>1
  <2>3. \A i \in Ids : i # 0 => msg_list'[p][i] = msg_list[p][i] \/ Fills(msg_list[p][i], msg_list'[p][i], q, sent, p)
    BY <1>1, <1>2, <1>5
  <2> QED BY Zenon, <1>1, <1>2, <1>5, <2>1, <2>2, <2>3 DEF Reads
<1>11. RecvPart(L, rq, q) /\ MsgPart(L, handle[p], mq, rq, p, q)
  BY Zenon, <1>2, <1>3, <1>6 DEF In, OnTrack
<1>12. /\ \A i \in 1 .. Len(rq) : i # k => rq[i] # m /\ L2[rq[i]] = L[rq[i]]
       /\ rq[k] = m /\ L2[rq[k]] = e2 /\ Len(rq) \in Nat
  <2>1. Once(rq) /\ rq[k] = m /\ k \in 1 .. Len(rq)
    BY Zenon, <1>2, <1>6, <1>11 DEF RecvPart
  <2>2. \A i \in 1 .. Len(rq) : i # k => rq[i] # m /\ rq[i] \in Ids
    BY <1>7, <2>1 DEF Once
  <2> QED BY <1>7, <2>1, <2>2
<1>13. ASSUME e2.nhdr > 0 PROVE NoMatch(L2, mq, e2)
  <2>1. e.nhdr > 0 /\ e.flag = "recv" /\ e2.tag = e.tag /\ e2.nbytes = e.nbytes
    BY <1>1, <1>8, <1>9, <1>13
  <2>2. NoMatch(L, mq, e)
    BY <1>2, <1>6, <2>1
  <2>3. ASSUME NEW i \in 1 .. Len(mq) PROVE L2[mq[i]] = L[mq[i]]
    <3>1. mq[i] \in Ids
      BY <1>7
    <3>2. mq[i] # m
      <4>1. SUFFICES ASSUME mq[i] = m PROVE FALSE
        OBVIOUS
      <4>2. e.flag = "drain" \/ e.nhdr = 0
        BY <1>2, <1>7, <1>11, <4>1 DEF MsgPart
      <4>3. e.nhdr # 0 /\ e.flag # "drain"
        BY <2>1
      <4> QED BY <4>2, <4>3
    <3> QED BY <1>7, <3>1, <3>2
  <2> QED BY <2>1, <2>2, <2>3 DEF NoMatch, Matches
<1>14. Settled(L2, mq, rq, q, k, m)
  <2>1. k \in 1 .. Len(rq) /\ Once(rq)
    BY Zenon, <1>2, <1>6, <1>11 DEF RecvPart
  <2>2. ASSUME NEW i \in 1 .. Len(rq)
        PROVE  /\ L2[rq[i]].flag \in {"recv", "drain"} /\ L2[rq[i]].peer = q
               /\ ~Complete(L2[rq[i]]) => L2[rq[i]].used
               /\ L2[rq[i]].flag = "drain" => L2[rq[i]].nhdr = 0
               /\ i # k => ~Begun(L2[rq[i]])
    <3>1. CASE i = k
      <4>1. e2.flag = "drain" => e2.nhdr = 0
        BY <1>1, <1>8, <1>9
      <4> QED BY Zenon, <1>2, <1>8, <1>12, <3>1, <4>1
    <3>2. CASE i # k
      <4>1. /\ L[rq[i]].flag \in {"recv", "drain"} /\ L[rq[i]].peer = q
            /\ ~Complete(L[rq[i]]) => L[rq[i]].used
        BY Zenon, <1>11 DEF RecvPart
      <4>2. ~Begun(L[rq[i]]) /\ (L[rq[i]].flag = "drain" => L[rq[i]].nhdr = 0)
        BY Zenon, <1>2, <1>6, <3>2
      <4>3. L2[rq[i]] = L[rq[i]]
        BY Zenon, <1>12, <3>2
      <4> QED BY Zenon, <4>1, <4>2, <4>3
    <3> QED BY <3>1, <3>2
  <2>3. ASSUME NEW j \in 1 .. k - 1 PROVE Complete(L2[rq[j]]) /\ L2[rq[j]].nhdr = 0
    <3>1. j \in 1 .. Len(rq) /\ j # k
      BY <1>12, <2>1
    <3>2. Complete(L2[rq[j]])
      BY Zenon, <1>2, <1>6, <1>12, <3>1
    <3>3. L2[rq[j]] \in EntryType
      BY <1>7, <3>1
    <3> QED BY <1>9, <3>2, <3>3
  <2>4. Begun(L2[rq[k]]) /\ L2[rq[k]].nhdr > 0 => NoMatch(L2, mq, L2[rq[k]])
    BY <1>12, <1>13
  <2>5. /\ rq[k] = m
        /\ \A j \in 1 .. k - 1 : L2[rq[j]].nhdr = 0 /\ (Complete(L2[rq[k]]) => Complete(L2[rq[j]]))
        /\ L2[rq[k]].nhdr > 0 /\ L2[rq[k]].flag = "recv" => NoMatch(L2, mq, L2[rq[k]])
    BY <1>12, <1>13, <2>3
  <2> QED BY <2>1, <2>2, <2>3, <2>4, <2>5 DEF Settled
<1>15. GoesTo(p, q, r, k, n, o)
  <2>1. recv_q' = recv_q /\ msg_q' = msg_q
    BY <1>1
  <2>2. Piece(msg_list[q], send_q[q][p], sent[q][p], wire[q][p], r, n, o)
    BY <1>1, ReadyPiece
  <2>3. Reaches(msg_list'[p][recv_q'[p][q][k]], sent[q][p], n, o, r)
    BY <1>1, <1>6, <1>12, <2>1
  <2>4. Settled(msg_list'[p], msg_q'[p][q], recv_q'[p][q], q, k, Head(work[p]).msg)
    BY <1>2, <1>6, <1>14, <2>1
  <2> QED BY Zenon, <1>2, <2>2, <2>3, <2>4 DEF GoesTo
<1>16. In(p, q)'
  BY <1>10, <1>15, GoesToIn
<1> QED BY <1>10, <1>16, ReadsStep

\* After r units of w, b units of the body of its n-th message, of which g have come.
BodyAt(L, sq, sn, w, r, b, n, o, g, got) ==
  /\ Piece(L, sq, sn, w, r + b, n, o)
  /\ r \in Nat /\ b \in Nat /\ g \in Nat /\ o + r = HdrSize + g + 1
  /\ got = Units(n, g)

BodyCame(w, r, b, n, g, got) ==
  /\ Len(SubSeq(w, r + 1, r + b)) = b
  /\ got \o SubSeq(w, r + 1, r + b) \in Seq(Nat \X Nat)
  /\ got \o SubSeq(w, r + 1, r + b) = Units(n, g + b)

\* Together they are what has come of it.
LEMMA BodyArrives ==
  ASSUME TcpMsgAssumption, NEW L, NEW sq, NEW sn, NEW w, NEW r, NEW b, NEW n, NEW o, NEW g,
         NEW got, BodyAt(L, sq, sn, w, r, b, n, o, g, got)
  PROVE  BodyCame(w, r, b, n, g, got)
<1>1. /\ Piece(L, sq, sn, w, r + b, n, o)
      /\ r \in Nat /\ b \in Nat /\ g \in Nat /\ o + r = HdrSize + g + 1 /\ HdrSize \in Nat \ {0}
      /\ got = Units(n, g)
  BY DEF BodyAt, TcpMsgAssumption
<1>2. /\ w \in Seq(Nat \X Nat) /\ r + b \in 1 .. Len(w)
  BY <1>1 DEF Piece
<1>3. /\ n \in 1 .. Len(sn) /\ o \in Nat \ {0}
      /\ \A d \in 1 .. r + b : w[d] = <<n, o + d - 1>>
  BY SMTT(30), <1>1, PieceTaken
<1>4. PICK body : body = SubSeq(w, r + 1, r + b)
  BY Zenon
<1>5. body \in Seq(Nat \X Nat) /\ Len(body) = b /\ \A d \in 1 .. b : body[d] = w[r + d]
  <2>1. /\ r + 1 \in Int /\ r + b \in Int /\ (r + b) - (r + 1) + 1 = b
        /\ (IF r + 1 <= r + b THEN (r + b) - (r + 1) + 1 ELSE 0) = b
    BY <1>1
  <2>4. \A i \in r + 1 .. r + b : w[i] \in Nat \X Nat
    BY <1>1, <1>2
  <2>2. /\ body \in Seq(Nat \X Nat) /\ Len(body) = IF r + 1 <= r + b THEN (r + b) - (r + 1) + 1 ELSE 0
        /\ \A d \in 1 .. (r + b) - (r + 1) + 1 : body[d] = w[(r + 1) + d - 1]
    <3>1. Stretch(Nat \X Nat, w, r + 1, r + b, body)
      BY Zenon, <1>4, <2>1, <2>4, StretchIs
    <3> QED BY Zenon, <3>1 DEF Stretch
  <2>3. \A d \in 1 .. b : (r + 1) + d - 1 = r + d
    BY <1>1
  <2> QED BY Zenon, <2>1, <2>2, <2>3
<1>6. ASSUME NEW d \in 1 .. Len(body) PROVE body[d] = <<n, HdrSize + g + d>>
  <2>1. d \in 1 .. b /\ r + d \in 1 .. r + b
    <3>1. d \in 1 .. b
      BY Zenon, <1>5, <1>6
    <3>2. r \in Nat /\ b \in Nat
      BY Zenon, <1>1
    <3>3. \A a, c \in Nat : \A i \in 1 .. c : a + i \in 1 .. a + c
      OBVIOUS
    <3> QED BY Zenon, <3>1, <3>2, <3>3
  <2>2. o + (r + d) - 1 = HdrSize + g + d
    <3>1. /\ o \in Nat /\ r \in Nat /\ g \in Nat /\ HdrSize \in Nat
          /\ o + r = HdrSize + g + 1
      BY <1>1, <1>3
    <3>2. \A b1 \in Nat : \A i \in 1 .. b1 : i \in Nat
      OBVIOUS
    <3>3. d \in Nat
      BY Zenon, <1>1, <2>1, <3>2
    <3> QED BY SMTT(30), <3>1, <3>3
  <2> QED BY Zenon, <1>3, <1>5, <2>1, <2>2
<1>7. got \in Seq(Nat \X Nat)
  <2>1. n \in Nat
    BY <1>3
  <2>2. [u \in 1 .. g |-> <<n, HdrSize + u>>] \in Seq(Nat \X Nat)
    BY <1>1, <2>1, UnitsOnWire
  <2> QED BY Zenon, <1>1, <2>2 DEF Units
<1>8. /\ got \o body \in Seq(Nat \X Nat)
      /\ got \o body = Units(n, g + Len(body))
  <2>1. n \in Nat /\ HdrSize \in Nat /\ g \in Nat /\ body \in Seq(Nat \X Nat)
    BY <1>1, <1>3, <1>5
  <2>2. \A d \in 1 .. Len(body) : body[d] = <<n, HdrSize + g + d>>
    BY <1>6
  <2>3. got = Units(n, g)
    BY <1>1
  <2>4. NextUnits(got, body, n, g)
    BY Zenon, <1>7, <2>1, <2>2, <2>3 DEF NextUnits
  <2> QED BY Zenon, <2>1, <2>4, Filled
<1> QED BY Zenon, <1>4, <1>5, <1>8 DEF BodyCame

\* The entry x for which the rest of a header is read, and all of the body that is there.
Arrival(x, body, n) == [Fill(x, body) EXCEPT !.nhdr = 0, !.num = n]

Arrives(x, body, n, b, e2) ==
  /\ x \in EntryType /\ n \in Nat /\ b \in Nat /\ Len(body) = b /\ b <= x.left
  /\ x.got \o body \in Seq(Nat \X Nat) /\ e2 = Arrival(x, body, n)

\* Its fields.
LEMMA ArrivalIs ==
  ASSUME TcpMsgAssumption, NEW x, NEW body, NEW n, NEW b, NEW e2, Arrives(x, body, n, b, e2)
  PROVE  /\ e2 \in EntryType /\ e2.nhdr = 0 /\ e2.num = n /\ e2.left = x.left - b /\ e2.got = x.got \o body
         /\ e2.used = x.used /\ e2.flag = x.flag /\ e2.peer = x.peer /\ e2.tag = x.tag /\ e2.nbytes = x.nbytes
<1>0. /\ x \in EntryType /\ n \in Nat /\ b \in Nat /\ Len(body) = b /\ b <= x.left
      /\ x.got \o body \in Seq(Nat \X Nat) /\ e2 = Arrival(x, body, n)
  BY DEF Arrives
<1>1. PICK f : f = [x EXCEPT !.left = x.left - b, !.got = x.got \o body]
  OBVIOUS
<1>2. x.left \in Nat /\ x.left - b \in Nat /\ HdrSize \in Nat
  BY <1>0, EntryFacts
<1>3. /\ f \in EntryType /\ f.left = x.left - b /\ f.got = x.got \o body
      /\ f.used = x.used /\ f.flag = x.flag /\ f.peer = x.peer /\ f.tag = x.tag /\ f.nbytes = x.nbytes
  BY Zenon, <1>0, <1>1, <1>2 DEF EntryType
<1>4. e2 = [f EXCEPT !.nhdr = 0, !.num = n]
  BY <1>0, <1>1 DEF Arrival, Fill
<1>5. 0 \in 0 .. HdrSize
  BY <1>2
<1> QED BY Zenon, <1>0, <1>3, <1>4, <1>5 DEF EntryType

\* The rest of the header that m waits for is there, and goes to entry x with a buffer
\* of the size that it says: x becomes e2.
HeaderFor(p, q, m, k, e, n, o, x, body, e2) ==
  /\ ReadyAt(p, q, m, k, e, n, o) /\ Ready(p, q, m) /\ e.nhdr > 0 /\ e.nhdr <= avail[q][p]
  /\ x \in EntryType /\ x.nbytes = sent[q][p][n].nbytes /\ x.left = sent[q][p][n].nbytes /\ x.got = << >>
  /\ x.peer = q /\ (x.tag < 0 \/ x.tag = sent[q][p][n].tag)
  /\ body = Body(p, q, e.nhdr, x) /\ e2 = Arrival(x, body, n)

\* x holds what is there of the message then.
HeaderCame(p, q, n, o, e, x, body, e2) ==
  /\ e.nhdr + Len(body) \in 1 .. avail[q][p]
  /\ o + (e.nhdr + Len(body)) - 1 <= HdrSize + sent[q][p][n].nbytes
  /\ e2 \in EntryType /\ e2.nhdr = 0 /\ e2.left <= e2.nbytes /\ e2.nbytes = x.nbytes
  /\ e2.flag = x.flag /\ e2.used = x.used /\ e2.peer = q /\ e2.tag = x.tag
  /\ Holds(e2, sent, p) /\ Reaches(e2, sent[q][p], n, o, e.nhdr + Len(body))

\* It does.
LEMMA HeaderArrives ==
  ASSUME TcpMsgAssumption, IInv, NEW p \in Proc, NEW q, NEW m, NEW k, NEW e, NEW n, NEW o, NEW x,
         NEW body, NEW e2, HeaderFor(p, q, m, k, e, n, o, x, body, e2)
  PROVE  HeaderCame(p, q, n, o, e, x, body, e2)
<1>1. /\ ReadyAt(p, q, m, k, e, n, o) /\ Ready(p, q, m) /\ e.nhdr > 0 /\ e.nhdr <= avail[q][p]
      /\ x \in EntryType /\ x.nbytes = sent[q][p][n].nbytes /\ x.left = sent[q][p][n].nbytes /\ x.got = << >>
      /\ x.peer = q /\ (x.tag < 0 \/ x.tag = sent[q][p][n].tag)
      /\ body = Body(p, q, e.nhdr, x) /\ e2 = Arrival(x, body, n)
  BY DEF HeaderFor
<1>2. q \in Proc /\ e \in EntryType /\ e.left = e.nbytes /\ o = Gone(e) + 1
  BY Zenon, <1>1 DEF ReadyAt
<1>3. /\ n \in 1 .. Len(sent[q][p]) /\ sent[q][p][n].nbytes \in Nat /\ n \in Nat
      /\ avail[q][p] \in Nat \ {0}
  BY <1>1, ReadySent
<1>4. e.nhdr \in Nat /\ e.left \in Nat /\ e.nbytes \in Nat /\ HdrSize \in Nat \ {0} /\ e.nhdr \in 0 .. HdrSize
  BY <1>2, EntryFacts
<1>5. o = HdrSize - e.nhdr + 1
  <2>1. Gone(e) = HdrSize + e.nbytes - (e.nhdr + e.left)
    BY DEF Gone, nleft
  <2> QED BY <1>2, <1>4, <2>1
<1>6. PICK av, w, c, s : av = avail[q][p] /\ w = wire[q][p] /\ c = e.nhdr /\ s = sent[q][p][n].nbytes
  OBVIOUS
<1>7. av \in Nat \ {0} /\ c \in Nat /\ c > 0 /\ c <= av /\ s \in Nat /\ o = HdrSize - c + 1
  BY <1>1, <1>3, <1>4, <1>5, <1>6
<1>8. PICK b \in Nat : b = Min({s, av - c}) /\ b <= s /\ b <= av - c
  <2>1. av - c \in Nat
    BY <1>7
  <2>2. Min({s, av - c}) \in Nat /\ Min({s, av - c}) <= s /\ Min({s, av - c}) <= av - c
    BY <1>7, <2>1, MinOfTwo
  <2> QED BY <2>2
<1>9. body = SubSeq(w, c + 1, c + b)
  BY Zenon, <1>1, <1>6, <1>8 DEF Body
<1>10. c + b \in 1 .. av /\ o + (c + b) - 1 = HdrSize + b /\ o + (c + b) - 1 <= HdrSize + s /\ o + c = HdrSize + 0 + 1
  BY SMTT(30), <1>4, <1>7, <1>8
<1>11. Piece(msg_list[q], send_q[q][p], sent[q][p], w, c + b, n, o)
  BY Zenon, <1>1, <1>6, <1>10, ReadyPiece
<1>12. PICK g \in Nat : g = 0
  OBVIOUS
<1>13. BodyAt(msg_list[q], send_q[q][p], sent[q][p], w, c, b, n, o, g, x.got)
  <2>1. o + c = HdrSize + g + 1
    BY <1>4, <1>10, <1>12
  <2>2. x.got = Units(n, g)
    BY <1>1, <1>12 DEF Units
  <2> QED BY <1>7, <1>8, <1>11, <2>1, <2>2 DEF BodyAt
<1>14. /\ Len(body) = b /\ x.got \o body \in Seq(Nat \X Nat) /\ x.got \o body = Units(n, b)
  <2>1. PICK got : got = x.got
    OBVIOUS
  <2>2. BodyAt(msg_list[q], send_q[q][p], sent[q][p], w, c, b, n, o, g, got)
    BY <1>13, <2>1
  <2>3. BodyCame(w, c, b, n, g, got)
    BY Zenon, <2>2, BodyArrives
  <2>4. g + b = b
    BY <1>8, <1>12
  <2> QED BY Zenon, <1>9, <2>1, <2>3, <2>4 DEF BodyCame
<1>15. /\ e2 \in EntryType /\ e2.nhdr = 0 /\ e2.num = n /\ e2.left = x.left - b /\ e2.got = x.got \o body
       /\ e2.used = x.used /\ e2.flag = x.flag /\ e2.peer = x.peer /\ e2.tag = x.tag /\ e2.nbytes = x.nbytes
  <2>1. x \in EntryType /\ n \in Nat /\ b \in Nat
    BY <1>1, <1>3, <1>8
  <2>2. Len(body) = b /\ b <= x.left /\ x.got \o body \in Seq(Nat \X Nat)
    BY <1>1, <1>6, <1>8, <1>14
  <2>3. Arrives(x, body, n, b, e2)
    BY <1>1, <2>1, <2>2 DEF Arrives
  <2> QED BY <2>3, ArrivalIs
<1>16. e2.left = s - b /\ e2.nbytes = s /\ e2.left <= e2.nbytes /\ e2.nbytes - e2.left = b
  <2>1. x.left = s /\ x.nbytes = s
    BY Zenon, <1>1, <1>6, <1>7, <1>8
  <2>2. e2.left = s - b /\ e2.nbytes = s
    BY Zenon, <1>15, <2>1
  <2>3. s \in Nat /\ b \in Nat /\ b <= s
    BY <1>7, <1>8
  <2> QED BY <2>2, <2>3
<1>17. Holds(e2, sent, p)
  <2>1. e2.got = Units(n, b)
    BY <1>8, <1>14, <1>15
  <2>2. e2.got = [u \in 1 .. e2.nbytes - e2.left |-> <<e2.num, HdrSize + u>>]
    BY <1>15, <1>16, <2>1 DEF Units
  <2>3. e2.peer = q /\ e2.num = n /\ (e2.tag < 0 \/ e2.tag = sent[q][p][n].tag) /\ e2.nbytes = sent[q][p][n].nbytes
    BY <1>1, <1>15
  <2> QED BY Zenon, <1>2, <1>3, <2>2, <2>3 DEF Holds
<1>18. Reaches(e2, sent[q][p], n, o, c + b)
  <2>1. Gone(e2) = HdrSize + s - (0 + (s - b))
    BY <1>15, <1>16 DEF Gone, nleft
  <2>2. Gone(e2) = o + (c + b) - 1
    BY <1>4, <1>7, <1>8, <1>10, <2>1
  <2> QED BY <1>6, <1>15, <1>16, <2>2 DEF Reaches
<1> QED BY Zenon, <1>1, <1>6, <1>10, <1>14, <1>15, <1>16, <1>17, <1>18 DEF HeaderCame

\* More of the body of the message that do_recv() is at.
LEMMA ReadBodyStep ==
  ASSUME TcpMsgAssumption, IInv, NEW p \in Proc, NEW q, NEW m, ReadBody(p, q, m)
  PROVE  IInv'
<1>1. /\ Reading(p, q, m) /\ avail[q][p] > 0 /\ msg_list[p][m].nhdr = 0
      /\ msg_list' = [msg_list EXCEPT ![p][m] = Fill(msg_list[p][m], Body(p, q, 0, msg_list[p][m]))]
      /\ Take(p, q, Len(Body(p, q, 0, msg_list[p][m])))
      /\ UNCHANGED <<userVars, mid, send_q, recv_q, msg_q, ractive, wactive, work, derailed>>
  BY DEF ReadBody
<1>2. Ready(p, q, m)
  BY <1>1 DEF Ready
<1>3. PICK k, e, n, o : ReadyAt(p, q, m, k, e, n, o)
  BY <1>2, ReadyFacts
<1>4. /\ q \in Proc /\ e = msg_list[p][m] /\ e \in EntryType /\ ~Complete(e) /\ e.left <= e.nbytes
      /\ e.nhdr = 0 /\ Holds(e, sent, p) /\ n = e.num /\ o = Gone(e) + 1
      /\ e.flag \in {"recv", "drain"} /\ e.peer = q
  <2>1. e.nhdr = 0
    BY Zenon, <1>1, <1>3 DEF ReadyAt
  <2> QED BY Zenon, <1>3, <2>1 DEF ReadyAt
<1>5. /\ n \in 1 .. Len(sent[q][p]) /\ sent[q][p][n].nbytes \in Nat /\ n \in Nat
      /\ avail[q][p] \in Nat \ {0}
  BY <1>2, <1>3, ReadySent
<1>6. e.left \in Nat \ {0} /\ e.nbytes \in Nat /\ HdrSize \in Nat \ {0}
  BY Zenon, <1>4, EntryFacts
<1>7. e.nbytes = sent[q][p][n].nbytes /\ e.got = Units(n, e.nbytes - e.left)
  BY Zenon, <1>4 DEF Holds, Units
<1>8. PICK g \in Nat : g = e.nbytes - e.left
  BY <1>4, <1>6
<1>9. PICK av, w, l : av = avail[q][p] /\ w = wire[q][p] /\ l = e.left
  OBVIOUS
<1>10. PICK b \in Nat : b = Min({l, av - 0}) /\ b <= l /\ b <= av /\ b \in Nat \ {0}
  <2>1. av \in Nat /\ l \in Nat /\ av - 0 = av /\ av # 0 /\ l # 0
    BY <1>5, <1>6, <1>9
  <2>2. Min({l, av}) \in Nat /\ Min({l, av}) <= l /\ Min({l, av}) <= av /\ (Min({l, av}) = l \/ Min({l, av}) = av)
    BY <2>1, MinOfTwo
  <2> QED BY <2>1, <2>2
<1>11. PICK body : body = Body(p, q, 0, e)
  OBVIOUS
<1>12. PICK z : z = 0
  OBVIOUS
<1>13. body = SubSeq(w, z + 1, z + b)
  BY <1>9, <1>10, <1>11, <1>12 DEF Body
<1>14. /\ o = HdrSize + g + 1 /\ z + b = b /\ b \in 1 .. av
       /\ o + b - 1 = HdrSize + g + b /\ o + b - 1 <= HdrSize + sent[q][p][n].nbytes
  <2>1. Gone(e) = HdrSize + e.nbytes - (e.nhdr + e.left)
    BY DEF Gone, nleft
  <2>2. o = HdrSize + g + 1
    BY <1>4, <1>6, <1>8, <2>1
  <2>3. z + b = b /\ b \in 1 .. av
    BY <1>5, <1>9, <1>10, <1>12
  <2>4. b <= e.left
    BY <1>9, <1>10
  <2>5. o + b - 1 = HdrSize + g + b
    BY <1>6, <2>2
  <2>6. HdrSize + g + b <= HdrSize + e.nbytes
    BY SMTT(30), <1>6, <1>8, <2>4
  <2> QED BY <1>7, <2>2, <2>3, <2>5, <2>6
<1>15. Piece(msg_list[q], send_q[q][p], sent[q][p], w, b, n, o)
  BY <1>3, <1>9, <1>14, ReadyPiece
<1>16. BodyAt(msg_list[q], send_q[q][p], sent[q][p], w, z, b, n, o, g, e.got)
  <2>1. o + z = HdrSize + g + 1
    BY <1>6, <1>12, <1>14
  <2> QED BY <1>7, <1>8, <1>12, <1>14, <1>15, <2>1 DEF BodyAt
<1>17. Len(body) = b /\ e.got \o body \in Seq(Nat \X Nat) /\ e.got \o body = Units(n, g + b)
  <2>1. PICK got : got = e.got
    OBVIOUS
  <2>2. BodyAt(msg_list[q], send_q[q][p], sent[q][p], w, z, b, n, o, g, got)
    BY <1>16, <2>1
  <2>3. BodyCame(w, z, b, n, g, got)
    BY Zenon, <2>2, BodyArrives
  <2> QED BY Zenon, <1>13, <2>1, <2>3 DEF BodyCame
<1>18. PICK e2 : e2 = Arrival(e, body, n)
  OBVIOUS
<1>19. /\ e2 \in EntryType /\ e2.nhdr = 0 /\ e2.num = n /\ e2.left = e.left - b /\ e2.got = e.got \o body
       /\ e2.used = e.used /\ e2.flag = e.flag /\ e2.peer = e.peer /\ e2.tag = e.tag /\ e2.nbytes = e.nbytes
  <2>1. b <= e.left
    BY <1>9, <1>10
  <2>2. Arrives(e, body, n, b, e2)
    BY Zenon, <1>4, <1>5, <1>10, <1>17, <1>18, <2>1 DEF Arrives
  <2> QED BY <2>2, ArrivalIs
<1>20. e2 = Fill(e, body)
  BY Zenon, <1>4, <1>18 DEF Arrival, Fill, EntryType
<1>21. e2.left <= e2.nbytes /\ e2.nbytes - e2.left = g + b /\ Gone(e2) = o + b - 1
  <2>1. Gone(e2) = HdrSize + e.nbytes - (0 + (e.left - b))
    BY <1>19 DEF Gone, nleft
  <2>2. b <= e.left /\ e.left <= e.nbytes
    BY <1>4, <1>9, <1>10
  <2>3. e2.left = e.left - b /\ e2.nbytes = e.nbytes
    BY <1>19
  <2>4. e.left - b <= e.nbytes /\ e.nbytes - (e.left - b) = g + b
    <3>1. PICK x, s : x = e.left /\ s = e.nbytes
      OBVIOUS
    <3>2. x \in Nat /\ s \in Nat /\ b \in Nat /\ b <= x /\ x <= s /\ g = s - x
      BY Zenon, <1>6, <1>8, <2>2, <3>1
    <3>3. x - b <= s /\ s - (x - b) = g + b
      BY <3>2
    <3> QED BY Zenon, <3>1, <3>3
  <2>5. Gone(e2) = HdrSize + g + b
    BY SMTT(30), <1>6, <1>8, <2>1
  <2>6. o + b - 1 = HdrSize + g + b
    BY <1>14
  <2> QED BY <2>3, <2>4, <2>5, <2>6
<1>22. Holds(e2, sent, p)
  <2>1. e2.got = [u \in 1 .. e2.nbytes - e2.left |-> <<e2.num, HdrSize + u>>]
    BY <1>17, <1>19, <1>21 DEF Units
  <2> QED BY Zenon, <1>4, <1>19, <2>1 DEF Holds
<1>23. Fills(e, e2, q, sent, p)
  BY <1>4, <1>19, <1>21, <1>22 DEF Fills
<1>24. Reaches(e2, sent[q][p], n, o, b)
  BY <1>7, <1>19, <1>21 DEF Reaches
<1>25. msg_list' = [msg_list EXCEPT ![p][m] = e2] /\ Take(p, q, b)
  BY Zenon, <1>1, <1>4, <1>11, <1>17, <1>20
<1>26. ReadsInto(p, q, m, k, e, n, o, b, e2)
  <2>1. ~(e2.nhdr > 0)
    BY <1>19
  <2>2. b \in 1 .. avail[q][p] /\ o + b - 1 <= HdrSize + sent[q][p][n].nbytes
    BY <1>9, <1>14
  <2> QED BY Zenon, <1>1, <1>3, <1>23, <1>24, <1>25, <2>1, <2>2 DEF ReadsInto
<1> QED BY <1>26, ReadsIntoStep

\* Part of a header.
LEMMA ReadPartOfHeaderStep ==
  ASSUME TcpMsgAssumption, IInv, NEW p \in Proc, NEW q, NEW m, ReadPartOfHeader(p, q, m)
  PROVE  IInv'
<1>1. /\ Reading(p, q, m) /\ avail[q][p] > 0 /\ msg_list[p][m].nhdr > avail[q][p] /\ AtHeader(p, q, m)
      /\ msg_list' = [msg_list EXCEPT ![p][m].nhdr = msg_list[p][m].nhdr - avail[q][p]]
      /\ Take(p, q, avail[q][p])
      /\ UNCHANGED <<userVars, mid, send_q, recv_q, msg_q, ractive, wactive, work, derailed>>
  BY DEF ReadPartOfHeader
<1>2. Ready(p, q, m)
  BY <1>1 DEF Ready
<1>3. PICK k, e, n, o : ReadyAt(p, q, m, k, e, n, o)
  BY <1>2, ReadyFacts
<1>4. /\ q \in Proc /\ m \in Ids /\ e = msg_list[p][m] /\ e \in EntryType /\ ~Complete(e) /\ e.left <= e.nbytes
      /\ o = Gone(e) + 1 /\ e.flag \in {"recv", "drain"} /\ e.peer = q
      /\ e.nhdr > 0 => e.left = e.nbytes /\ e.got = << >>
      /\ e.nhdr > 0 /\ e.flag = "drain" => e.nhdr = HdrSize /\ avail[q][p] >= HdrSize
  BY Zenon, <1>3 DEF ReadyAt
<1>5. /\ sent[q][p][n].nbytes \in Nat /\ avail[q][p] \in Nat \ {0}
  BY <1>2, <1>3, ReadySent
<1>6. e.left \in Nat /\ e.nbytes \in Nat /\ HdrSize \in Nat \ {0} /\ e.nhdr \in Nat /\ e.nhdr \in 0 .. HdrSize
  BY Zenon, <1>4, EntryFacts
<1>7. PICK av, c \in Nat : av = avail[q][p] /\ c = e.nhdr - av /\ c > 0 /\ c < e.nhdr /\ c \in 0 .. HdrSize /\ c # 0
  <2>1. e.nhdr > avail[q][p]
    BY <1>1, <1>4
  <2>2. e.nhdr - avail[q][p] \in Nat
    BY <1>5, <1>6, <2>1
  <2>3. e.nhdr - avail[q][p] > 0 /\ e.nhdr - avail[q][p] < e.nhdr /\ e.nhdr - avail[q][p] \in 0 .. HdrSize
    BY <1>5, <1>6, <2>1
  <2> QED BY <1>5, <2>2, <2>3
<1>8. PICK e2 : e2 = [e EXCEPT !.nhdr = c]
  BY Zenon
<1>9. /\ e2 \in EntryType /\ e2.nhdr = c /\ e2.left = e.left /\ e2.got = e.got /\ e2.tag = e.tag
      /\ e2.used = e.used /\ e2.flag = e.flag /\ e2.peer = e.peer /\ e2.nbytes = e.nbytes
  BY Zenon, <1>4, <1>7, <1>8 DEF EntryType
<1>10. /\ e.nhdr > 0 /\ e.nhdr # 0 /\ e.left = e.nbytes /\ e.got = << >>
  <2>1. e.nhdr > 0 /\ e.nhdr # 0
    BY <1>6, <1>7
  <2> QED BY <1>4, <2>1
<1>11. msg_list' = [msg_list EXCEPT ![p][m] = e2]
  <2>1. msg_list \in [Proc -> [Ids -> EntryType]]
    BY DEF IInv, Types
  <2>2. msg_list' = [msg_list EXCEPT ![p][m] = [msg_list[p][m] EXCEPT !.nhdr = c]]
    BY <1>1, <1>4, <1>7, <2>1
  <2> QED BY <1>4, <1>8, <2>2
<1>12. e.flag = "recv"
  <2>1. SUFFICES ASSUME e.flag = "drain" PROVE FALSE
    BY <1>4
  <2>2. e.nhdr = HdrSize /\ avail[q][p] >= HdrSize
    BY <1>4, <1>10, <2>1
  <2> QED BY <1>5, <1>6, <1>7, <2>2
<1>13. /\ o + av - 1 = HdrSize - c /\ o + av - 1 <= HdrSize + sent[q][p][n].nbytes /\ av \in 1 .. av
       /\ Gone(e2) = o + av - 1
  <2>1. Gone(e) = HdrSize + e.nbytes - (e.nhdr + e.left) /\ Gone(e2) = HdrSize + e.nbytes - (c + e.left)
    BY <1>9 DEF Gone, nleft
  <2>2. o = Gone(e) + 1
    BY <1>4
  <2>3. Gone(e) = HdrSize - e.nhdr /\ Gone(e2) = HdrSize - c
    BY SMTT(30), <1>6, <1>7, <1>10, <2>1
  <2>4. c = e.nhdr - av /\ av \in Nat \ {0}
    BY <1>5, <1>7
  <2>5. o + av - 1 = HdrSize - c /\ av \in 1 .. av
    <3>1. PICK g, d : g = Gone(e) /\ d = e.nhdr
      OBVIOUS
    <3>2. d \in Nat /\ HdrSize \in Nat /\ g = HdrSize - d /\ o = g + 1 /\ c = d - av
      BY Zenon, <1>6, <2>2, <2>3, <2>4, <3>1
    <3> QED BY <2>4, <3>2
  <2>6. HdrSize - c <= HdrSize + sent[q][p][n].nbytes
    <3>1. PICK s : s = sent[q][p][n].nbytes
      OBVIOUS
    <3>2. s \in Nat /\ c \in Nat /\ HdrSize \in Nat
      BY <1>5, <1>6, <1>7, <3>1
    <3>3. \A a, d, f \in Nat : a - d <= a + f
      OBVIOUS
    <3> QED BY Zenon, <3>1, <3>2, <3>3
  <2> QED BY <2>3, <2>5, <2>6
<1>14. Fills(e, e2, q, sent, p)
  BY <1>4, <1>7, <1>9, <1>10 DEF Fills
<1>15. Reaches(e2, sent[q][p], n, o, av)
  BY <1>4, <1>7, <1>9, <1>10, <1>13 DEF Reaches
<1>16. ReadsInto(p, q, m, k, e, n, o, av, e2)
  BY Zenon, <1>1, <1>3, <1>7, <1>9, <1>11, <1>12, <1>13, <1>14, <1>15 DEF ReadsInto
<1> QED BY <1>16, ReadsIntoStep

\* The header is for m itself, which becomes e2.
ReadsOwn(p, q, m, k, e, n, o, x, body, e2) ==
  /\ HeaderFor(p, q, m, k, e, n, o, x, body, e2) /\ x.flag = e.flag /\ x.used = e.used
  /\ msg_list' = [msg_list EXCEPT ![p][m] = e2] /\ Take(p, q, e.nhdr + Len(body))
  /\ UNCHANGED <<userVars, mid, send_q, recv_q, msg_q, ractive, wactive, work, derailed>>

\* check_header() finds that it matches.
LEMMA ReadsOwnStep ==
  ASSUME TcpMsgAssumption, IInv, NEW p \in Proc, NEW q, NEW m, NEW k, NEW e, NEW n, NEW o, NEW x, NEW body, NEW e2,
         ReadsOwn(p, q, m, k, e, n, o, x, body, e2)
  PROVE  IInv'
<1>1. /\ HeaderFor(p, q, m, k, e, n, o, x, body, e2) /\ x.flag = e.flag /\ x.used = e.used
      /\ msg_list' = [msg_list EXCEPT ![p][m] = e2] /\ Take(p, q, e.nhdr + Len(body))
      /\ UNCHANGED <<userVars, mid, send_q, recv_q, msg_q, ractive, wactive, work, derailed>>
  BY DEF ReadsOwn
<1>2. ReadyAt(p, q, m, k, e, n, o)
  BY <1>1 DEF HeaderFor
<1>3. e.flag \in {"recv", "drain"} /\ e.peer = q /\ ~Complete(e)
  BY Zenon, <1>2 DEF ReadyAt
<1>4. /\ e.nhdr + Len(body) \in 1 .. avail[q][p]
      /\ o + (e.nhdr + Len(body)) - 1 <= HdrSize + sent[q][p][n].nbytes
      /\ e2 \in EntryType /\ e2.nhdr = 0 /\ e2.left <= e2.nbytes
      /\ e2.flag = x.flag /\ e2.used = x.used /\ e2.peer = q
      /\ Holds(e2, sent, p) /\ Reaches(e2, sent[q][p], n, o, e.nhdr + Len(body))
  <2>1. HeaderFor(p, q, m, k, e, n, o, x, body, e2)
    BY Zenon, <1>1
  <2>2. HeaderCame(p, q, n, o, e, x, body, e2)
    BY Zenon, <2>1, HeaderArrives
  <2> QED BY Zenon, <2>2 DEF HeaderCame
<1>5. ~(e2.nhdr > 0)
  BY <1>4
<1>6. Fills(e, e2, q, sent, p)
  BY <1>1, <1>3, <1>4, <1>5 DEF Fills
<1>7. PICK r : r = e.nhdr + Len(body)
  OBVIOUS
<1>8. ReadsInto(p, q, m, k, e, n, o, r, e2)
  BY <1>1, <1>2, <1>4, <1>5, <1>6, <1>7 DEF ReadsInto
<1> QED BY <1>8, ReadsIntoStep

\* The message x goes to the front of the queue rq, which becomes rq2; m, the k-th, is
\* to wait for another header.
GoesFirst(L, L2, mq2, rq, rq2, q, k, x, m) ==
  /\ rq \in Seq(Ids) /\ rq2 \in Seq(Ids) /\ L \in [Ids -> EntryType] /\ Once(rq2)
  /\ 1 \in 1 .. Len(rq2) /\ rq2[1] = x
  /\ \A j \in 1 .. Len(rq2) : j = 1 \/ \E i \in 1 .. Len(rq) : rq2[j] = rq[i] /\ rq[i] # x
  /\ k \in 1 .. Len(rq) /\ rq[k] = m /\ k + 1 \in 1 .. Len(rq2) /\ rq2[k + 1] = m
  /\ \A j \in 1 .. k : j = 1 \/ \E i \in 1 .. k - 1 : rq2[j] = rq[i] /\ rq[i] # x
  /\ L2[x].nhdr = 0 /\ L2[x].flag = "recv" /\ L2[x].peer = q /\ L2[x].used
  /\ m # x /\ L2[m] = [L[m] EXCEPT !.nhdr = HdrSize] /\ L[m].flag = "recv" /\ NoMatch(L2, mq2, L2[m])
  /\ \A i \in Ids : i # m /\ i # x => L2[i] = L[i]
  /\ RecvPart(L, rq, q) /\ ~Complete(L[m])
  /\ \A i \in 1 .. Len(rq) : i # k => ~Begun(L[rq[i]]) /\ (L[rq[i]].flag = "drain" => L[rq[i]].nhdr = 0)
  /\ \A j \in 1 .. k - 1 : Complete(L[rq[j]])

\* Then only it may have begun.
LEMMA FirstSettled ==
  ASSUME TcpMsgAssumption, NEW L, NEW L2, NEW mq2, NEW rq, NEW rq2, NEW q, NEW k, NEW x, NEW m,
         GoesFirst(L, L2, mq2, rq, rq2, q, k, x, m)
  PROVE  Settled(L2, mq2, rq2, q, 1, m)
<1>1. /\ rq \in Seq(Ids) /\ rq2 \in Seq(Ids) /\ L \in [Ids -> EntryType] /\ Once(rq2)
      /\ 1 \in 1 .. Len(rq2) /\ rq2[1] = x
      /\ \A j \in 1 .. Len(rq2) : j = 1 \/ \E i \in 1 .. Len(rq) : rq2[j] = rq[i] /\ rq[i] # x
      /\ k \in 1 .. Len(rq) /\ rq[k] = m /\ k + 1 \in 1 .. Len(rq2) /\ rq2[k + 1] = m
      /\ \A j \in 1 .. k : j = 1 \/ \E i \in 1 .. k - 1 : rq2[j] = rq[i] /\ rq[i] # x
  BY DEF GoesFirst
<1>2. /\ L2[x].nhdr = 0 /\ L2[x].flag = "recv" /\ L2[x].peer = q /\ L2[x].used
      /\ m # x /\ L2[m] = [L[m] EXCEPT !.nhdr = HdrSize] /\ L[m].flag = "recv" /\ NoMatch(L2, mq2, L2[m])
      /\ \A i \in Ids : i # m /\ i # x => L2[i] = L[i]
  BY DEF GoesFirst
<1>3. /\ RecvPart(L, rq, q) /\ ~Complete(L[m])
      /\ \A i \in 1 .. Len(rq) : i # k => ~Begun(L[rq[i]]) /\ (L[rq[i]].flag = "drain" => L[rq[i]].nhdr = 0)
      /\ \A j \in 1 .. k - 1 : Complete(L[rq[j]])
  BY DEF GoesFirst
<1>4. HdrSize \in Nat \ {0} /\ \A e \in EntryType : Complete(e) => e.nhdr = 0
  BY EntryFacts DEF TcpMsgAssumption
<1>5. \A i \in 1 .. Len(rq) : rq[i] \in Ids /\ L[rq[i]] \in EntryType
  BY <1>1
<1>6. PICK e : e = L[m]
  OBVIOUS
<1>7. /\ e \in EntryType /\ e.flag = "recv" /\ e.peer = q /\ e.used /\ e.left \in Nat
  <2>1. e \in EntryType /\ e.flag = "recv"
    BY <1>1, <1>2, <1>5, <1>6
  <2>2. e.peer = q /\ e.used
    BY <1>1, <1>3, <1>6 DEF RecvPart
  <2> QED BY <2>1, <2>2, EntryFacts
<1>8. L2[m].flag = "recv" /\ L2[m].peer = q /\ L2[m].used /\ L2[m].nhdr = HdrSize /\ ~Begun(L2[m]) /\ ~Complete(L2[m])
  <2>1. PICK f : f = [e EXCEPT !.nhdr = HdrSize]
    BY Zenon
  <2>2. f.flag = "recv" /\ f.peer = q /\ f.used /\ f.nhdr = HdrSize /\ f.left = e.left
    BY <1>7, <2>1 DEF EntryType
  <2>3. ~Begun(f) /\ ~Complete(f)
    BY <1>4, <1>7, <2>2 DEF Begun, Complete, nleft
  <2> QED BY <1>2, <1>6, <2>1, <2>2, <2>3
<1>9. ~Begun(L2[x]) \/ L2[x].nhdr = 0
  BY <1>2
<1>10. ASSUME NEW j \in 1 .. Len(rq2)
       PROVE  /\ L2[rq2[j]].flag \in {"recv", "drain"} /\ L2[rq2[j]].peer = q
              /\ ~Complete(L2[rq2[j]]) => L2[rq2[j]].used
              /\ L2[rq2[j]].flag = "drain" => L2[rq2[j]].nhdr = 0
              /\ j # 1 => ~Begun(L2[rq2[j]])
  <2>1. CASE j = 1
    BY Zenon, <1>1, <1>2, <2>1
  <2>2. CASE j # 1
    <3>1. PICK i \in 1 .. Len(rq) : rq2[j] = rq[i] /\ rq[i] # x
      BY <1>1, <2>2
    <3>2. CASE rq[i] = m
      BY <1>8, <3>1, <3>2
    <3>3. CASE rq[i] # m
      <4>1. i # k /\ L2[rq[i]] = L[rq[i]]
        BY Zenon, <1>1, <1>2, <1>5, <3>1, <3>3
      <4> QED BY <1>3, <3>1, <4>1 DEF RecvPart
    <3> QED BY <3>2, <3>3
  <2> QED BY <2>1, <2>2
<1>11. ASSUME NEW j \in 1 .. k PROVE L2[rq2[j]].nhdr = 0
  <2>1. CASE j = 1
    BY Zenon, <1>1, <1>2, <2>1
  <2>2. CASE j # 1
    <3>1. PICK i \in 1 .. k - 1 : rq2[j] = rq[i] /\ rq[i] # x
      BY <1>1, <2>2
    <3>2. i \in 1 .. Len(rq)
      BY <1>1, <3>1
    <3>3. Complete(L[rq[i]])
      BY <1>3, <3>1
    <3>4. rq[i] # m
      BY <1>3, <3>3
    <3>5. L2[rq[i]] = L[rq[i]] /\ L[rq[i]].nhdr = 0
      BY <1>2, <1>4, <1>5, <3>1, <3>2, <3>3, <3>4
    <3> QED BY <3>1, <3>5
  <2> QED BY <2>1, <2>2
<1>12. PICK k2 \in 1 .. Len(rq2) : k2 = k + 1
  BY <1>1
<1>13. /\ rq2[k2] = m
       /\ \A j \in 1 .. k2 - 1 : L2[rq2[j]].nhdr = 0 /\ (Complete(L2[rq2[k2]]) => Complete(L2[rq2[j]]))
       /\ L2[rq2[k2]].nhdr > 0 /\ L2[rq2[k2]].flag = "recv" => NoMatch(L2, mq2, L2[rq2[k2]])
  <2>1. k2 - 1 = k
    BY <1>1, <1>12
  <2>2. rq2[k2] = m
    BY <1>1, <1>12
  <2> QED BY <1>2, <1>8, <1>11, <2>1, <2>2
<1>14. \A j \in 1 .. 1 - 1 : Complete(L2[rq2[j]])
  OBVIOUS
<1>15. ~(L2[rq2[1]].nhdr > 0)
  BY <1>1, <1>2
<1> QED BY ZenonT(60), <1>1, <1>10, <1>12, <1>13, <1>14, <1>15 DEF Settled

\* An entry that waits for a whole header again.
Again(e) == [e EXCEPT !.nhdr = HdrSize]

\* m becomes one, and x becomes e2.
TwoChange(p, m, x, e2) ==
  /\ m \in Ids /\ x \in Ids /\ x # m /\ e2 \in EntryType
  /\ msg_list' = [msg_list EXCEPT ![p][m].nhdr = HdrSize, ![p][x] = e2]

\* The entries of p afterwards.
TwoChanged(p, m, x, e2) ==
  /\ msg_list' \in [Proc -> [Ids -> EntryType]]
  /\ \A s \in Proc : s # p => msg_list'[s] = msg_list[s]
  /\ msg_list'[p][x] = e2 /\ msg_list'[p][m] = Again(msg_list[p][m])
  /\ \A n \in Ids : n # m /\ n # x => msg_list'[p][n] = msg_list[p][n]

\* The other entries are as they were.
LEMMA TwoEntries ==
  ASSUME TcpMsgAssumption, Types, NEW p \in Proc, NEW m, NEW x, NEW e2, TwoChange(p, m, x, e2)
  PROVE  TwoChanged(p, m, x, e2)
<1>1. /\ msg_list \in [Proc -> [Ids -> EntryType]] /\ m \in Ids /\ x \in Ids /\ x # m /\ e2 \in EntryType
      /\ msg_list' = [msg_list EXCEPT ![p][m].nhdr = HdrSize, ![p][x] = e2]
  BY DEF Types, TwoChange
<1>2. PICK e : e = msg_list[p][m]
  OBVIOUS
<1>3. e \in EntryType
  BY <1>1, <1>2
<1>4. PICK e3 : e3 = [e EXCEPT !.nhdr = HdrSize]
  BY Zenon
<1>5. e3 \in EntryType
  <2>1. HdrSize \in 0 .. HdrSize
    BY DEF TcpMsgAssumption
  <2> QED BY Zenon, <1>3, <1>4, <2>1 DEF EntryType
<1>6. PICK L : L = [msg_list[p] EXCEPT ![m] = e3]
  BY Zenon
<1>7. L \in [Ids -> EntryType] /\ L[m] = e3 /\ \A n \in Ids : n # m => L[n] = msg_list[p][n]
  BY <1>1, <1>5, <1>6
<1>8. PICK L2 : L2 = [L EXCEPT ![x] = e2]
  BY Zenon
<1>9. L2 \in [Ids -> EntryType] /\ L2[m] = e3 /\ L2[x] = e2 /\ \A n \in Ids : n # m /\ n # x => L2[n] = msg_list[p][n]
  BY <1>1, <1>7, <1>8
<1>10. msg_list' = [msg_list EXCEPT ![p] = L2]
  BY Zenon, <1>1, <1>2, <1>4, <1>6, <1>8
<1>11. msg_list' \in [Proc -> [Ids -> EntryType]] /\ msg_list'[p] = L2 /\ \A s \in Proc : s # p => msg_list'[s] = msg_list[s]
  <2>1. msg_list \in [Proc -> [Ids -> EntryType]] /\ L2 \in [Ids -> EntryType]
    BY Zenon, <1>1, <1>9
  <2>2. msg_list' \in [Proc -> [Ids -> EntryType]]
    BY Zenon, <1>10, <2>1
  <2>3. msg_list'[p] = L2
    BY Zenon, <1>10, <2>1
  <2>4. \A s \in Proc : s # p => msg_list'[s] = msg_list[s]
    BY Zenon, <1>10, <2>1
  <2> QED BY Zenon, <2>2, <2>3, <2>4
<1>12. msg_list'[p][m] = Again(msg_list[p][m])
  BY Zenon, <1>2, <1>4, <1>9, <1>11 DEF Again
<1> QED BY Zenon, <1>9, <1>11, <1>12 DEF TwoChanged

\* The i-th of rq goes to its front, past the k-th.
MovesFirst(rq, rq2, i, k) ==
  /\ rq \in Seq(Ids) /\ Once(rq) /\ i \in 1 .. Len(rq) /\ k \in 1 .. i - 1
  /\ rq2 = <<rq[i]>> \o RemoveAt(rq, i)

\* The others stay in order.
LEMMA MovedFirst ==
  ASSUME NEW rq, NEW rq2, NEW i, NEW k, MovesFirst(rq, rq2, i, k)
  PROVE  /\ rq2 \in Seq(Ids) /\ Once(rq2) /\ rq2 # << >> /\ 1 \in 1 .. Len(rq2) /\ rq2[1] = rq[i]
         /\ \A j \in 1 .. Len(rq2) : j = 1 \/ \E a \in 1 .. Len(rq) : rq2[j] = rq[a] /\ rq[a] # rq[i]
         /\ k \in 1 .. Len(rq) /\ k + 1 \in 1 .. Len(rq2) /\ rq2[k + 1] = rq[k]
         /\ \A j \in 1 .. k : j = 1 \/ \E a \in 1 .. k - 1 : rq2[j] = rq[a] /\ rq[a] # rq[i]
         /\ \A n \in Ids : Contains(rq, n) => Contains(rq2, n)
<1>1. /\ rq \in Seq(Ids) /\ Once(rq) /\ i \in 1 .. Len(rq) /\ k \in 1 .. i - 1 /\ Len(rq) \in Nat
      /\ rq2 = <<rq[i]>> \o RemoveAt(rq, i)
  BY DEF MovesFirst
<1>2. PICK s, x : s = RemoveAt(rq, i) /\ x = rq[i]
  OBVIOUS
<1>3. x \in Ids
  BY <1>1, <1>2
<1>4. /\ s \in Seq(Ids) /\ Len(s) = Len(rq) - 1
      /\ \A j \in 1 .. Len(rq) - 1 : s[j] = IF j < i THEN rq[j] ELSE rq[j + 1]
  BY Zenon, <1>1, <1>2, IdRemoved
<1>5. /\ rq2 \in Seq(Ids) /\ Len(rq2) = Len(rq) /\ rq2[1] = x /\ rq2 # << >>
      /\ \A j \in 1 .. Len(rq) - 1 : rq2[j + 1] = s[j]
  <2>1. /\ <<x>> \o s \in Seq(Ids) /\ Len(<<x>> \o s) = Len(s) + 1 /\ (<<x>> \o s)[1] = x
        /\ <<x>> \o s # << >> /\ \A j \in 1 .. Len(s) : (<<x>> \o s)[j + 1] = s[j]
    BY <1>3, <1>4, IdInFront
  <2> QED BY <1>1, <1>2, <1>4, <2>1
<1>6. \A a \in 1 .. Len(rq) : a # i => rq[a] # x
  BY <1>1, <1>2 DEF Once
<1>7. ASSUME NEW j \in 2 .. Len(rq)
      PROVE  rq2[j] = IF j <= i THEN rq[j - 1] ELSE rq[j]
  <2>1. PICK b \in 1 .. Len(rq) - 1 : j = b + 1
    <3>1. j - 1 \in 1 .. Len(rq) - 1 /\ j = (j - 1) + 1
      BY <1>1
    <3> QED BY <3>1
  <2>2. rq2[j] = IF b < i THEN rq[b] ELSE rq[b + 1]
    BY <1>4, <1>5, <2>1
  <2>3. b = j - 1 /\ (b < i <=> j <= i)
    BY <1>1, <2>1
  <2> QED BY <2>1, <2>2, <2>3
<1>8. ASSUME NEW j \in 1 .. Len(rq), j # 1
      PROVE  \E a \in 1 .. Len(rq) : rq2[j] = rq[a] /\ rq[a] # x /\ a # i /\ a = IF j <= i THEN j - 1 ELSE j
  <2>1. PICK a : a = IF j <= i THEN j - 1 ELSE j
    OBVIOUS
  <2>2. a \in 1 .. Len(rq) /\ a # i
    BY <1>1, <1>8, <2>1
  <2>3. j \in 2 .. Len(rq)
    BY <1>1, <1>8
  <2>4. rq2[j] = rq[a]
    BY <1>7, <2>1, <2>3
  <2> QED BY <1>6, <2>1, <2>2, <2>4
<1>9. Once(rq2)
  <2>1. SUFFICES ASSUME NEW a \in 1 .. Len(rq), NEW b \in 1 .. Len(rq), rq2[a] = rq2[b] PROVE a = b
    BY <1>5 DEF Once
  <2>2. CASE a = 1 /\ b = 1
    BY <2>2
  <2>3. CASE (a = 1 /\ b # 1) \/ (a # 1 /\ b = 1)
    BY <1>5, <1>8, <2>1, <2>3
  <2>4. CASE a # 1 /\ b # 1
    <3>1. PICK c \in 1 .. Len(rq) : rq2[a] = rq[c] /\ c # i /\ c = IF a <= i THEN a - 1 ELSE a
      BY <1>8, <2>4
    <3>2. PICK d \in 1 .. Len(rq) : rq2[b] = rq[d] /\ d # i /\ d = IF b <= i THEN b - 1 ELSE b
      BY <1>8, <2>4
    <3>3. c = d
      BY Zenon, <1>1, <2>1, <3>1, <3>2 DEF Once
    <3>4. c # i /\ d # i /\ c \in Int /\ d \in Int /\ i \in Int /\ a \in Int /\ b \in Int
      BY <1>1, <3>1, <3>2
    <3>5. c = (IF a <= i THEN a - 1 ELSE a) /\ d = (IF b <= i THEN b - 1 ELSE b)
      BY <3>1, <3>2
    <3>6. (a <= i => c = a - 1) /\ (~(a <= i) => c = a) /\ (b <= i => d = b - 1) /\ (~(b <= i) => d = b)
      BY <3>5
    <3> QED BY <3>3, <3>4, <3>6
  <2> QED BY <2>2, <2>3, <2>4
<1>10. k \in 1 .. Len(rq) /\ k + 1 \in 2 .. Len(rq) /\ k + 1 <= i /\ 1 \in 1 .. Len(rq)
  BY <1>1
<1>11. rq2[k + 1] = rq[k]
  <2>1. rq2[k + 1] = rq[(k + 1) - 1]
    BY <1>7, <1>10
  <2>2. (k + 1) - 1 = k
    BY <1>1
  <2> QED BY <2>1, <2>2
<1>12. ASSUME NEW j \in 1 .. k, j # 1
       PROVE  \E a \in 1 .. k - 1 : rq2[j] = rq[a] /\ rq[a] # x
  <2>1. j \in 1 .. Len(rq) /\ j <= i /\ j - 1 \in 1 .. k - 1
    BY <1>1, <1>12
  <2>2. rq2[j] = rq[j - 1] /\ rq[j - 1] # x
    BY <1>8, <1>12, <2>1
  <2> QED BY <2>1, <2>2
<1>13. ASSUME NEW n \in Ids, Contains(rq, n) PROVE Contains(rq2, n)
  <2>1. PICK a \in 1 .. Len(rq) : rq[a] = n
    BY <1>1, <1>13, ContainsIs
  <2>2. \E j \in 1 .. Len(rq2) : rq2[j] = n
    <3>1. CASE a = i
      BY <1>2, <1>5, <1>10, <2>1, <3>1
    <3>2. CASE a < i
      <4>1. a + 1 \in 2 .. Len(rq) /\ a + 1 <= i /\ (a + 1) - 1 = a /\ a + 1 \in 1 .. Len(rq)
        BY <1>1, <3>2
      <4>2. rq2[a + 1] = rq[a]
        BY <1>7, <4>1
      <4> QED BY <1>5, <2>1, <4>1, <4>2
    <3>3. CASE a > i
      <4>1. a \in 2 .. Len(rq) /\ ~(a <= i)
        BY <1>1, <3>3
      <4>2. rq2[a] = rq[a]
        BY <1>7, <4>1
      <4> QED BY <1>5, <2>1, <4>2
    <3> QED BY <1>1, <3>1, <3>2, <3>3
  <2> QED BY <1>5, <2>2, ContainsIs
<1>14. \A j \in 1 .. Len(rq2) : j = 1 \/ \E a \in 1 .. Len(rq) : rq2[j] = rq[a] /\ rq[a] # rq[i]
  BY <1>2, <1>5, <1>8
<1>15. \A j \in 1 .. k : j = 1 \/ \E a \in 1 .. k - 1 : rq2[j] = rq[a] /\ rq[a] # rq[i]
  BY <1>2, <1>12
<1>16. 1 \in 1 .. Len(rq2) /\ k + 1 \in 1 .. Len(rq2)
  BY <1>5, <1>10
<1> QED BY <1>2, <1>5, <1>9, <1>10, <1>11, <1>13, <1>14, <1>15, <1>16

\* The header is not for m but for the i-th receive of the queue, entry y, which becomes
\* e2 and goes to the front.
ReadsOther(p, q, m, k, e, n, o, x, body, e2, i, y) ==
  /\ HeaderFor(p, q, m, k, e, n, o, x, body, e2)
  /\ i \in 1 .. Len(recv_q[p][q]) /\ y = recv_q[p][q][i] /\ x = msg_list[p][y]
  /\ y # m /\ x.nhdr # 0
  /\ msg_list' = [msg_list EXCEPT ![p][m].nhdr = HdrSize, ![p][y] = e2]
  /\ recv_q' = [recv_q EXCEPT ![p][q] = <<y>> \o RemoveAt(@, i)]
  /\ Take(p, q, e.nhdr + Len(body))
  /\ UNCHANGED <<userVars, mid, send_q, msg_q, ractive, wactive, work, derailed>>

\* Both m and y are receives that wait for a header, and y comes behind m.
LEMMA OtherFacts ==
  ASSUME TcpMsgAssumption, IInv, NEW p \in Proc, NEW q, NEW m, NEW k, NEW e, NEW n, NEW o, NEW x, NEW body, NEW e2,
         NEW i, NEW y, ReadsOther(p, q, m, k, e, n, o, x, body, e2, i, y)
  PROVE  /\ y \in Ids /\ i # k /\ k \in 1 .. i - 1 /\ e.flag = "recv" /\ x.flag = "recv" /\ x.used /\ ~Complete(x)
         /\ \A j \in 1 .. Len(msg_q[p][q]) : msg_q[p][q][j] # m /\ msg_q[p][q][j] # y
         /\ NoMatch(msg_list[p], msg_q[p][q], e)
<1>1. /\ HeaderFor(p, q, m, k, e, n, o, x, body, e2)
      /\ i \in 1 .. Len(recv_q[p][q]) /\ y = recv_q[p][q][i] /\ x = msg_list[p][y]
      /\ y # m /\ x.nhdr # 0
  BY Zenon DEF ReadsOther
<1>2. ReadyAt(p, q, m, k, e, n, o) /\ e.nhdr > 0
  BY Zenon, <1>1 DEF HeaderFor
<1>3. /\ q \in Peers(p) /\ q \in Proc /\ q # p /\ ~derailed[p]
      /\ m \in Ids /\ e = msg_list[p][m] /\ e.flag \in {"recv", "drain"}
      /\ k \in 1 .. Len(recv_q[p][q]) /\ recv_q[p][q][k] = m
      /\ e.flag = "recv" => NoMatch(msg_list[p], msg_q[p][q], e)
      /\ e.flag = "drain" => Len(recv_q[p][q]) = 1
      /\ \A j \in 1 .. Len(recv_q[p][q]) : j # k =>
           (msg_list[p][recv_q[p][q][j]].flag = "drain" => msg_list[p][recv_q[p][q][j]].nhdr = 0)
      /\ \A j \in 1 .. k - 1 : Complete(msg_list[p][recv_q[p][q][j]])
  BY Zenon, <1>2 DEF ReadyAt
<1>4. Types /\ In(p, q) /\ OnTrack(p)
  BY <1>3 DEF IInv
<1>5. PICK L, rq, mq : L = msg_list[p] /\ rq = recv_q[p][q] /\ mq = msg_q[p][q]
  OBVIOUS
<1>6. L \in [Ids -> EntryType] /\ rq \in Seq(Ids) /\ mq \in Seq(Ids) /\ Len(rq) \in Nat
  <2>1. /\ msg_list \in [Proc -> [Ids -> EntryType]] /\ recv_q \in [Proc -> [Proc \cup {Wild} -> Seq(Ids)]]
        /\ msg_q \in [Proc -> [Proc -> Seq(Ids)]]
    BY Zenon, <1>4 DEF Types
  <2> QED BY <1>3, <1>5, <2>1
<1>7. RecvPart(L, rq, q) /\ MsgPart(L, handle[p], mq, rq, p, q)
  BY Zenon, <1>3, <1>4, <1>5 DEF In, OnTrack
<1>8. y \in Ids /\ x \in EntryType /\ x = L[y] /\ e = L[m] /\ i \in 1 .. Len(rq) /\ rq[i] = y
  BY SMTT(30), <1>1, <1>3, <1>5, <1>6
<1>9. i # k
  BY Zenon, <1>1, <1>3
<1>10. ~Complete(x)
  BY <1>1, <1>8, EntryFacts
<1>11. e.flag = "recv"
  <2>1. SUFFICES ASSUME e.flag = "drain" PROVE FALSE
    BY <1>3
  <2>2. Len(rq) = 1
    BY <1>3, <1>5, <2>1
  <2> QED BY <1>3, <1>5, <1>8, <1>9, <2>2
<1>12. x.flag = "recv" /\ x.used
  <2>1. x.flag \in {"recv", "drain"} /\ x.used
    BY <1>7, <1>8, <1>10 DEF RecvPart
  <2>2. x.flag # "drain"
    BY Zenon, <1>1, <1>3, <1>9
  <2> QED BY <2>1, <2>2
<1>13. k \in 1 .. i - 1
  <2>1. i \in Nat /\ k \in Nat /\ k >= 1 /\ i >= 1
    BY <1>3, <1>5, <1>6, <1>8
  <2>2. ~(i \in 1 .. k - 1)
    BY Zenon, <1>3, <1>5, <1>8, <1>10
  <2> QED BY <1>9, <2>1, <2>2
<1>14. ASSUME NEW j \in 1 .. Len(mq) PROVE mq[j] # m /\ mq[j] # y
  <2>1. L[mq[j]].flag = "drain" \/ L[mq[j]].nhdr = 0
    BY Zenon, <1>3, <1>7 DEF MsgPart
  <2>2. e.nhdr # 0
    <3>1. e \in EntryType
      BY <1>3, <1>6, <1>8
    <3> QED BY <1>2, <3>1, EntryFacts
  <2>3. mq[j] # m
    BY <1>8, <1>11, <2>1, <2>2
  <2>4. mq[j] # y
    BY Zenon, <1>1, <1>8, <1>12, <2>1
  <2> QED BY <2>3, <2>4
<1> QED BY <1>3, <1>5, <1>8, <1>9, <1>10, <1>11, <1>12, <1>13, <1>14

\* check_header() finds another receive.
LEMMA ReadsOtherStep ==
  ASSUME TcpMsgAssumption, IInv, NEW p \in Proc, NEW q, NEW m, NEW k, NEW e, NEW n, NEW o, NEW x, NEW body, NEW e2,
         NEW i, NEW y, ReadsOther(p, q, m, k, e, n, o, x, body, e2, i, y)
  PROVE  IInv'
<1>1. /\ HeaderFor(p, q, m, k, e, n, o, x, body, e2)
      /\ i \in 1 .. Len(recv_q[p][q]) /\ y = recv_q[p][q][i] /\ x = msg_list[p][y]
      /\ y # m /\ x.nhdr # 0
      /\ msg_list' = [msg_list EXCEPT ![p][m].nhdr = HdrSize, ![p][y] = e2]
      /\ recv_q' = [recv_q EXCEPT ![p][q] = <<y>> \o RemoveAt(@, i)]
      /\ Take(p, q, e.nhdr + Len(body))
      /\ UNCHANGED <<userVars, mid, send_q, msg_q, ractive, wactive, work, derailed>>
  BY Zenon DEF ReadsOther
<1>2. ReadyAt(p, q, m, k, e, n, o) /\ e.nhdr > 0
  BY Zenon, <1>1 DEF HeaderFor
<1>3. /\ q \in Peers(p) /\ q \in Proc /\ q # p /\ ~derailed[p] /\ AtRecv(work[p], q) /\ Head(work[p]).msg = m
      /\ m \in Ids /\ e = msg_list[p][m] /\ e \in EntryType /\ ~Complete(e) /\ e.peer = q /\ e.used
      /\ e.left <= e.nbytes /\ e.left = e.nbytes /\ e.got = << >>
      /\ k \in 1 .. Len(recv_q[p][q]) /\ recv_q[p][q][k] = m
      /\ \A j \in 1 .. Len(recv_q[p][q]) : j # k =>
           /\ ~Begun(msg_list[p][recv_q[p][q][j]])
           /\ msg_list[p][recv_q[p][q][j]].flag = "drain" => msg_list[p][recv_q[p][q][j]].nhdr = 0
      /\ \A j \in 1 .. k - 1 : Complete(msg_list[p][recv_q[p][q][j]])
  BY Zenon, <1>2 DEF ReadyAt
<1>4. /\ y \in Ids /\ i # k /\ k \in 1 .. i - 1 /\ e.flag = "recv" /\ x.flag = "recv" /\ x.used /\ ~Complete(x)
      /\ \A j \in 1 .. Len(msg_q[p][q]) : msg_q[p][q][j] # m /\ msg_q[p][q][j] # y
      /\ NoMatch(msg_list[p], msg_q[p][q], e)
  BY OtherFacts
<1>5. Types /\ In(p, q)
  BY <1>3 DEF IInv
<1>6. PICK r : r = e.nhdr + Len(body)
  OBVIOUS
<1>7. /\ r \in 1 .. avail[q][p] /\ o + r - 1 <= HdrSize + sent[q][p][n].nbytes
      /\ e2 \in EntryType /\ e2.nhdr = 0 /\ e2.left <= e2.nbytes
      /\ e2.flag = x.flag /\ e2.used = x.used /\ e2.peer = q
      /\ Holds(e2, sent, p) /\ Reaches(e2, sent[q][p], n, o, r)
  <2>1. HeaderFor(p, q, m, k, e, n, o, x, body, e2)
    BY Zenon, <1>1
  <2>2. HeaderCame(p, q, n, o, e, x, body, e2)
    BY Zenon, <2>1, HeaderArrives
  <2> QED BY Zenon, <1>6, <2>2 DEF HeaderCame
<1>8. PICK e3 : e3 = [e EXCEPT !.nhdr = HdrSize]
  BY Zenon
<1>9. /\ msg_list' \in [Proc -> [Ids -> EntryType]]
      /\ \A s \in Proc : s # p => msg_list'[s] = msg_list[s]
      /\ msg_list'[p][y] = e2 /\ msg_list'[p][m] = Again(msg_list[p][m])
      /\ \A a \in Ids : a # m /\ a # y => msg_list'[p][a] = msg_list[p][a]
  <2>1. m \in Ids /\ y \in Ids /\ y # m /\ e2 \in EntryType
    BY Zenon, <1>1, <1>3, <1>4, <1>7
  <2>2. TwoChange(p, m, y, e2)
    BY Zenon, <1>1, <2>1 DEF TwoChange
  <2>3. TwoChanged(p, m, y, e2)
    BY Zenon, <1>5, <2>2, TwoEntries
  <2> QED BY Zenon, <2>3 DEF TwoChanged
<1>10. PICK L, L2, rq, mq, rq2 : /\ L = msg_list[p] /\ L2 = msg_list'[p] /\ rq = recv_q[p][q] /\ mq = msg_q[p][q]
                                 /\ rq2 = <<rq[i]>> \o RemoveAt(rq, i)
  BY Zenon
<1>11. /\ L \in [Ids -> EntryType] /\ L2 \in [Ids -> EntryType] /\ rq \in Seq(Ids) /\ mq \in Seq(Ids)
       /\ L[m] = e /\ L2[m] = e3 /\ L[y] = x /\ L2[y] = e2 /\ \A a \in Ids : a # m /\ a # y => L2[a] = L[a]
       /\ i \in 1 .. Len(rq) /\ rq[i] = y /\ k \in 1 .. Len(rq) /\ rq[k] = m
  <2>1. /\ msg_list \in [Proc -> [Ids -> EntryType]] /\ recv_q \in [Proc -> [Proc \cup {Wild} -> Seq(Ids)]]
        /\ msg_q \in [Proc -> [Proc -> Seq(Ids)]]
    BY Zenon, <1>5 DEF Types
  <2>2. L2[m] = e3
    BY Zenon, <1>3, <1>8, <1>9, <1>10 DEF Again
  <2>3. L \in [Ids -> EntryType] /\ L2 \in [Ids -> EntryType] /\ rq \in Seq(Ids) /\ mq \in Seq(Ids)
    BY SMTT(30), <1>3, <1>9, <1>10, <2>1
  <2>4. L[m] = e /\ L[y] = x
    BY Zenon, <1>1, <1>3, <1>10
  <2>5. L2[y] = e2 /\ \A a \in Ids : a # m /\ a # y => L2[a] = L[a]
    BY <1>9, <1>10
  <2>6. i \in 1 .. Len(rq) /\ rq[i] = y /\ k \in 1 .. Len(rq) /\ rq[k] = m
    BY Zenon, <1>1, <1>3, <1>10
  <2> QED BY <2>2, <2>3, <2>4, <2>5, <2>6
<1>12. /\ e3.flag = "recv" /\ e3.peer = q /\ e3.used = e.used /\ e3.nhdr = HdrSize /\ e3.left = e.left
       /\ e3.nbytes = e.nbytes /\ e3.got = << >> /\ e3.tag = e.tag
  <2>1. e \in EntryType /\ e.flag = "recv" /\ e.peer = q /\ e.got = << >>
    BY <1>3, <1>4
  <2> QED BY <1>8, <2>1 DEF EntryType
<1>13. HdrSize \in Nat \ {0} /\ e.nhdr # 0
  BY SMTT(30), <1>2, <1>3, EntryFacts
<1>14. x.peer = q
  BY Zenon, <1>1 DEF HeaderFor
<1>15. Fills(e, e3, q, sent, p) /\ Fills(x, e2, q, sent, p)
  <2>1. e3.nhdr # 0
    BY <1>12, <1>13
  <2>2. Fills(e, e3, q, sent, p)
    BY Zenon, <1>3, <1>4, <1>12, <1>13, <2>1 DEF Fills
  <2>3. ~(e2.nhdr > 0)
    BY <1>7
  <2>4. Fills(x, e2, q, sent, p)
    BY Zenon, <1>1, <1>4, <1>7, <1>14, <2>3 DEF Fills
  <2> QED BY <2>2, <2>4
<1>16. RecvPart(L, rq, q)
  BY <1>5, <1>10 DEF In
<1>17. MovesFirst(rq, rq2, i, k)
  BY Zenon, <1>4, <1>10, <1>11, <1>16 DEF MovesFirst, RecvPart
<1>18. /\ rq2 \in Seq(Ids) /\ Once(rq2) /\ rq2 # << >> /\ 1 \in 1 .. Len(rq2) /\ rq2[1] = rq[i]
       /\ \A j \in 1 .. Len(rq2) : j = 1 \/ \E a \in 1 .. Len(rq) : rq2[j] = rq[a] /\ rq[a] # rq[i]
       /\ k \in 1 .. Len(rq) /\ k + 1 \in 1 .. Len(rq2) /\ rq2[k + 1] = rq[k]
       /\ \A j \in 1 .. k : j = 1 \/ \E a \in 1 .. k - 1 : rq2[j] = rq[a] /\ rq[a] # rq[i]
       /\ \A a \in Ids : Contains(rq, a) => Contains(rq2, a)
  BY <1>17, MovedFirst
<1>19. /\ recv_q' \in [Proc -> [Proc \cup {Wild} -> Seq(Ids)]]
       /\ \A s \in Proc : s # p => recv_q'[s] = recv_q[s]
       /\ \A s \in Proc \cup {Wild} : s # q => recv_q'[p][s] = recv_q[p][s]
       /\ recv_q'[p][q] = rq2
  <2>1. recv_q \in [Proc -> [Proc \cup {Wild} -> Seq(Ids)]]
    BY Zenon, <1>5 DEF Types
  <2>2. recv_q' = [recv_q EXCEPT ![p][q] = rq2]
    BY Zenon, <1>1, <1>3, <1>10, <1>11, <2>1
  <2>3. rq2 \in Seq(Ids) /\ Wild \notin Proc
    BY <1>18 DEF Wild, Proc
  <2> QED BY ZenonT(30), <1>3, <2>1, <2>2, <2>3
<1>20. msg_q' = msg_q /\ msg_q \in [Proc -> [Proc -> Seq(Ids)]]
  BY Zenon, <1>1, <1>5 DEF Types
<1>21. Reads(p, q, r, 0)
  <2>1. recv_q'[p][q] # << >> /\ \A a \in Ids : Contains(recv_q[p][q], a) => Contains(recv_q'[p][q], a)
    BY Zenon, <1>10, <1>18, <1>19
  <2>2. \A a \in Ids : a # 0 => msg_list'[p][a] = msg_list[p][a] \/ Fills(msg_list[p][a], msg_list'[p][a], q, sent, p)
    BY Zenon, <1>10, <1>11, <1>15
  <2>3. Take(p, q, r)
    BY Zenon, <1>1, <1>6
  <2> QED BY ZenonT(30), <1>1, <1>3, <1>7, <1>9, <1>19, <1>20, <2>1, <2>2, <2>3 DEF Reads
<1>22. NoMatch(L2, mq, L2[m])
  <2>1. ASSUME NEW j \in 1 .. Len(mq) PROVE L2[mq[j]] = L[mq[j]]
    BY SMTT(30), <1>4, <1>10, <1>11
  <2>2. NoMatch(L, mq, e)
    BY <1>4, <1>10
  <2> QED BY <1>11, <1>12, <2>1, <2>2 DEF NoMatch, Matches
<1>23. GoesFirst(L, L2, mq, rq, rq2, q, k, y, m)
  <2>1. /\ rq2[1] = y
        /\ \A j \in 1 .. Len(rq2) : j = 1 \/ \E a \in 1 .. Len(rq) : rq2[j] = rq[a] /\ rq[a] # y
        /\ rq2[k + 1] = m
        /\ \A j \in 1 .. k : j = 1 \/ \E a \in 1 .. k - 1 : rq2[j] = rq[a] /\ rq[a] # y
    BY <1>11, <1>18
  <2>2. L2[y].nhdr = 0 /\ L2[y].flag = "recv" /\ L2[y].peer = q /\ L2[y].used
    BY Zenon, <1>4, <1>7, <1>11
  <2>3. m # y /\ L2[m] = [L[m] EXCEPT !.nhdr = HdrSize] /\ L[m].flag = "recv" /\ ~Complete(L[m])
    BY Zenon, <1>1, <1>3, <1>4, <1>8, <1>11
  <2>4. /\ \A j \in 1 .. Len(rq) : j # k => ~Begun(L[rq[j]]) /\ (L[rq[j]].flag = "drain" => L[rq[j]].nhdr = 0)
        /\ \A j \in 1 .. k - 1 : Complete(L[rq[j]])
    BY Zenon, <1>3, <1>10
  <2> QED BY Zenon, <1>11, <1>16, <1>18, <1>22, <2>1, <2>2, <2>3, <2>4 DEF GoesFirst
<1>24. Settled(L2, mq, rq2, q, 1, m)
  BY <1>23, FirstSettled
<1>25. PICK z : z = 1
  OBVIOUS
<1>26. GoesTo(p, q, r, z, n, o)
  <2>1. Piece(msg_list[q], send_q[q][p], sent[q][p], wire[q][p], r, n, o)
    BY <1>2, <1>7, ReadyPiece
  <2>2. Reaches(msg_list'[p][recv_q'[p][q][z]], sent[q][p], n, o, r)
    BY SMTT(30), <1>7, <1>10, <1>11, <1>18, <1>19, <1>25
  <2>3. Settled(msg_list'[p], msg_q'[p][q], recv_q'[p][q], q, z, Head(work[p]).msg)
    BY Zenon, <1>3, <1>10, <1>19, <1>20, <1>24, <1>25
  <2> QED BY Zenon, <1>3, <2>1, <2>2, <2>3 DEF GoesTo
<1>27. In(p, q)'
  BY <1>21, <1>26, GoesToIn
<1> QED BY <1>21, <1>27, ReadsStep

\* y goes to the front of rq, of which the k-th stays in place.
SeenFirst(rq, rq2, y, k) ==
  /\ rq \in Seq(Ids) /\ Once(rq) /\ y \in Ids /\ k \in 1 .. Len(rq)
  /\ rq2 = <<y>> \o rq

\* The others come behind it.
LEMMA PutInFront ==
  ASSUME NEW rq, NEW rq2, NEW y, NEW k, SeenFirst(rq, rq2, y, k)
  PROVE  /\ rq2 \in Seq(Ids) /\ rq2 # << >> /\ 1 \in 1 .. Len(rq2) /\ rq2[1] = y
         /\ k + 1 \in 1 .. Len(rq2) /\ rq2[k + 1] = rq[k]
         /\ Contains(rq2, y) /\ \A n \in Ids : Contains(rq, n) => Contains(rq2, n)
         /\ (\A j \in 1 .. Len(rq) : rq[j] # y) =>
              /\ Once(rq2)
              /\ \A j \in 1 .. Len(rq2) : j = 1 \/ \E a \in 1 .. Len(rq) : rq2[j] = rq[a] /\ rq[a] # y
              /\ \A j \in 1 .. k : j = 1 \/ \E a \in 1 .. k - 1 : rq2[j] = rq[a] /\ rq[a] # y
<1>1. rq \in Seq(Ids) /\ Once(rq) /\ y \in Ids /\ k \in 1 .. Len(rq) /\ Len(rq) \in Nat /\ rq2 = <<y>> \o rq
  BY DEF SeenFirst
<1>2. /\ rq2 \in Seq(Ids) /\ Len(rq2) = Len(rq) + 1 /\ rq2[1] = y
      /\ rq2 # << >> /\ \A j \in 1 .. Len(rq) : rq2[j + 1] = rq[j]
  <2>1. /\ <<y>> \o rq \in Seq(Ids) /\ Len(<<y>> \o rq) = Len(rq) + 1 /\ (<<y>> \o rq)[1] = y
        /\ <<y>> \o rq # << >> /\ \A j \in 1 .. Len(rq) : (<<y>> \o rq)[j + 1] = rq[j]
    BY Zenon, <1>1, IdInFront
  <2> QED BY <1>1, <2>1
<1>3. 1 \in 1 .. Len(rq2) /\ k + 1 \in 1 .. Len(rq2) /\ rq2[k + 1] = rq[k]
  BY <1>1, <1>2
<1>4. Contains(rq2, y)
  BY <1>2, <1>3, ContainsIs
<1>5. ASSUME NEW n \in Ids, Contains(rq, n) PROVE Contains(rq2, n)
  <2>1. PICK a \in 1 .. Len(rq) : rq[a] = n
    BY <1>1, <1>5, ContainsIs
  <2>2. a + 1 \in 1 .. Len(rq2) /\ rq2[a + 1] = n
    BY <1>1, <1>2, <2>1
  <2> QED BY Zenon, <1>2, <2>2, ContainsIs
<1>6. ASSUME NEW j \in 1 .. Len(rq2), j # 1
      PROVE  j - 1 \in 1 .. Len(rq) /\ rq2[j] = rq[j - 1]
  <2>1. j - 1 \in 1 .. Len(rq) /\ (j - 1) + 1 = j
    BY <1>1, <1>2, <1>6
  <2>2. rq2[(j - 1) + 1] = rq[j - 1]
    BY <1>2, <2>1
  <2> QED BY <2>1, <2>2
<1>7. ASSUME \A j \in 1 .. Len(rq) : rq[j] # y
      PROVE  /\ Once(rq2)
             /\ \A j \in 1 .. Len(rq2) : j = 1 \/ \E a \in 1 .. Len(rq) : rq2[j] = rq[a] /\ rq[a] # y
             /\ \A j \in 1 .. k : j = 1 \/ \E a \in 1 .. k - 1 : rq2[j] = rq[a] /\ rq[a] # y
  <2>1. Once(rq2)
    <3>1. SUFFICES ASSUME NEW a \in 1 .. Len(rq2), NEW b \in 1 .. Len(rq2), rq2[a] = rq2[b] PROVE a = b
      BY DEF Once
    <3>2. CASE a = 1 \/ b = 1
      BY Zenon, <1>2, <1>6, <1>7, <3>1, <3>2
    <3>3. CASE a # 1 /\ b # 1
      <4>1. a - 1 \in 1 .. Len(rq) /\ b - 1 \in 1 .. Len(rq) /\ rq[a - 1] = rq[b - 1]
        BY <1>6, <3>1, <3>3
      <4>2. a - 1 = b - 1
        BY Zenon, <1>1, <4>1 DEF Once
      <4> QED BY <4>2
    <3> QED BY <3>2, <3>3
  <2>2. \A j \in 1 .. Len(rq2) : j = 1 \/ \E a \in 1 .. Len(rq) : rq2[j] = rq[a] /\ rq[a] # y
    BY <1>6, <1>7
  <2>3. ASSUME NEW j \in 1 .. k, j # 1 PROVE \E a \in 1 .. k - 1 : rq2[j] = rq[a] /\ rq[a] # y
    <3>1. j \in 1 .. Len(rq2) /\ j - 1 \in 1 .. k - 1
      BY <1>1, <1>2, <2>3
    <3>2. j - 1 \in 1 .. Len(rq) /\ rq2[j] = rq[j - 1]
      BY <1>6, <2>3, <3>1
    <3> QED BY <1>7, <3>1, <3>2
  <2> QED BY <2>1, <2>2, <2>3
<1> QED BY <1>2, <1>3, <1>4, <1>5, <1>7

\* The header h is for nobody: a new entry y becomes e2 and goes to the front, and to
\* the messages nobody asked for.
ReadsNew(p, q, m, k, e, n, o, x, body, e2, h, y) ==
  /\ HeaderFor(p, q, m, k, e, n, o, x, body, e2)
  /\ h = sent[q][p][n] /\ x = Entry("recv", q, h.tag, h.nbytes) /\ ~Matches(h, e)
  /\ EntryLeft(p) /\ y = NextId(p) /\ Create(p, y)
  /\ msg_list' = [msg_list EXCEPT ![p][m].nhdr = HdrSize, ![p][y] = e2]
  /\ recv_q' = [recv_q EXCEPT ![p][q] = <<y>> \o @]
  /\ msg_q' = [msg_q EXCEPT ![p][q] = Post(@, y)]
  /\ Take(p, q, e.nhdr + Len(body))
  /\ UNCHANGED <<userVars, send_q, ractive, wactive, work>>

\* m is a receive; y was given out by create_msg_entry().
LEMMA NewFacts ==
  ASSUME TcpMsgAssumption, IInv, NEW p \in Proc, NEW q, NEW m, NEW k, NEW e, NEW n, NEW o, NEW x, NEW body, NEW e2,
         NEW h, NEW y, ReadsNew(p, q, m, k, e, n, o, x, body, e2, h, y)
  PROVE  /\ Made(p, y) /\ y \in Ids /\ y # m /\ e.flag = "recv" /\ x.flag = "recv" /\ x.used
         /\ x.tag = h.tag /\ x.nbytes = h.nbytes
         /\ \A j \in 1 .. Len(msg_q[p][q]) : msg_q[p][q][j] # m /\ msg_q[p][q][j] # y
         /\ NoMatch(msg_list[p], msg_q[p][q], e)
<1>1. /\ HeaderFor(p, q, m, k, e, n, o, x, body, e2)
      /\ h = sent[q][p][n] /\ x = Entry("recv", q, h.tag, h.nbytes) /\ ~Matches(h, e)
      /\ EntryLeft(p) /\ y = NextId(p) /\ Create(p, y)
  BY DEF ReadsNew
<1>2. ReadyAt(p, q, m, k, e, n, o) /\ Ready(p, q, m) /\ e.nhdr > 0
  BY Zenon, <1>1 DEF HeaderFor
<1>3. /\ q \in Peers(p) /\ q \in Proc /\ q # p /\ ~derailed[p]
      /\ m \in Ids /\ e = msg_list[p][m] /\ e.flag \in {"recv", "drain"} /\ e \in EntryType /\ e.used
      /\ e.flag = "recv" => NoMatch(msg_list[p], msg_q[p][q], e)
      /\ e.flag = "drain" => e.tag = sent[q][p][n].tag /\ e.nbytes = sent[q][p][n].nbytes
  BY Zenon, <1>2 DEF ReadyAt
<1>4. Types /\ OnTrack(p)
  BY <1>3 DEF IInv
<1>5. sent[q][p][n].nbytes \in Nat /\ sent[q][p][n].tag \in Int
  BY <1>2, ReadySent
<1>6. e.flag = "recv"
  <2>1. SUFFICES ASSUME e.flag = "drain" PROVE FALSE
    BY <1>3
  <2>2. e.tag = h.tag /\ e.nbytes = h.nbytes /\ h.nbytes \in Nat
    BY Zenon, <1>1, <1>3, <1>5, <2>1
  <2>3. h.nbytes <= e.nbytes
    BY <2>2
  <2>4. Matches(h, e)
    BY <2>2, <2>3 DEF Matches
  <2> QED BY <1>1, <2>4
<1>7. Made(p, y)
  BY <1>1, <1>3, NewEntry
<1>8. y \in Ids /\ ~msg_list[p][y].used /\ \A j \in 1 .. Len(msg_q[p][q]) : msg_q[p][q][j] # y
  BY <1>3, <1>7 DEF Made
<1>9. y # m
  BY <1>3, <1>8
<1>10. x.flag = "recv" /\ x.used /\ x.tag = h.tag /\ x.nbytes = h.nbytes
  BY <1>1 DEF Entry
<1>11. PICK L, mq : L = msg_list[p] /\ mq = msg_q[p][q]
  OBVIOUS
<1>12. MsgPart(L, handle[p], mq, recv_q[p][q], p, q)
  BY <1>3, <1>4, <1>11 DEF OnTrack
<1>13. ASSUME NEW j \in 1 .. Len(mq) PROVE mq[j] # m
  <2>1. L[mq[j]].flag = "drain" \/ L[mq[j]].nhdr = 0
    BY <1>3, <1>12 DEF MsgPart
  <2>2. e.nhdr # 0
    BY <1>2, <1>3, EntryFacts
  <2> QED BY <1>3, <1>6, <1>11, <2>1, <2>2
<1> QED BY <1>3, <1>6, <1>7, <1>8, <1>9, <1>10, <1>11, <1>13

\* check_header() finds no receive and makes an entry for the message.
LEMMA ReadsNewStep ==
  ASSUME TcpMsgAssumption, IInv, NEW p \in Proc, NEW q, NEW m, NEW k, NEW e, NEW n, NEW o, NEW x, NEW body, NEW e2,
         NEW h, NEW y, ReadsNew(p, q, m, k, e, n, o, x, body, e2, h, y)
  PROVE  IInv'
<1>1. /\ HeaderFor(p, q, m, k, e, n, o, x, body, e2) /\ ~Matches(h, e)
      /\ msg_list' = [msg_list EXCEPT ![p][m].nhdr = HdrSize, ![p][y] = e2]
      /\ recv_q' = [recv_q EXCEPT ![p][q] = <<y>> \o @]
      /\ msg_q' = [msg_q EXCEPT ![p][q] = Append(@, y)]
      /\ Take(p, q, e.nhdr + Len(body))
      /\ UNCHANGED <<userVars, send_q, ractive, wactive, work>>
  BY Zenon DEF ReadsNew, Post
<1>2. ReadyAt(p, q, m, k, e, n, o) /\ e.nhdr > 0
  BY <1>1 DEF HeaderFor
<1>3. /\ q \in Peers(p) /\ q \in Proc /\ q # p /\ ~derailed[p] /\ AtRecv(work[p], q) /\ Head(work[p]).msg = m
      /\ m \in Ids /\ e = msg_list[p][m] /\ e \in EntryType /\ ~Complete(e) /\ e.peer = q /\ e.used
      /\ e.left <= e.nbytes /\ e.left = e.nbytes /\ e.got = << >>
      /\ k \in 1 .. Len(recv_q[p][q]) /\ recv_q[p][q][k] = m
      /\ \A j \in 1 .. Len(recv_q[p][q]) : j # k =>
           /\ ~Begun(msg_list[p][recv_q[p][q][j]])
           /\ msg_list[p][recv_q[p][q][j]].flag = "drain" => msg_list[p][recv_q[p][q][j]].nhdr = 0
      /\ \A j \in 1 .. k - 1 : Complete(msg_list[p][recv_q[p][q][j]])
  BY Zenon, <1>2 DEF ReadyAt
<1>4. /\ Made(p, y) /\ y \in Ids /\ y # m /\ e.flag = "recv" /\ x.flag = "recv" /\ x.used
      /\ x.tag = h.tag /\ x.nbytes = h.nbytes
      /\ \A j \in 1 .. Len(msg_q[p][q]) : msg_q[p][q][j] # m /\ msg_q[p][q][j] # y
      /\ NoMatch(msg_list[p], msg_q[p][q], e)
  BY Zenon, NewFacts
<1>5. Types /\ In(p, q)
  BY <1>3 DEF IInv
<1>6. PICK r : r = e.nhdr + Len(body)
  OBVIOUS
<1>7. /\ r \in 1 .. avail[q][p] /\ o + r - 1 <= HdrSize + sent[q][p][n].nbytes
      /\ e2 \in EntryType /\ e2.nhdr = 0 /\ e2.left <= e2.nbytes /\ e2.nbytes = x.nbytes
      /\ e2.flag = x.flag /\ e2.used = x.used /\ e2.peer = q /\ e2.tag = x.tag
      /\ Holds(e2, sent, p) /\ Reaches(e2, sent[q][p], n, o, r)
  <2>1. HeaderFor(p, q, m, k, e, n, o, x, body, e2)
    BY Zenon, <1>1
  <2>2. HeaderCame(p, q, n, o, e, x, body, e2)
    BY Zenon, <2>1, HeaderArrives
  <2> QED BY Zenon, <1>6, <2>2 DEF HeaderCame
<1>8. PICK e3 : e3 = [e EXCEPT !.nhdr = HdrSize]
  BY Zenon
<1>9. /\ msg_list' \in [Proc -> [Ids -> EntryType]]
      /\ \A s \in Proc : s # p => msg_list'[s] = msg_list[s]
      /\ msg_list'[p][y] = e2 /\ msg_list'[p][m] = Again(msg_list[p][m])
      /\ \A a \in Ids : a # m /\ a # y => msg_list'[p][a] = msg_list[p][a]
  <2>1. m \in Ids /\ y \in Ids /\ y # m /\ e2 \in EntryType
    BY Zenon, <1>3, <1>4, <1>7
  <2>2. TwoChange(p, m, y, e2)
    BY <1>1, <2>1 DEF TwoChange
  <2>3. TwoChanged(p, m, y, e2)
    BY Zenon, <1>5, <2>2, TwoEntries
  <2> QED BY Zenon, <2>3 DEF TwoChanged
<1>10. PICK L, L2, rq, mq, rq2, mq2 : /\ L = msg_list[p] /\ L2 = msg_list'[p] /\ rq = recv_q[p][q]
                                      /\ mq = msg_q[p][q] /\ rq2 = <<y>> \o rq /\ mq2 = Append(mq, y)
  BY Zenon
<1>11. /\ L \in [Ids -> EntryType] /\ L2 \in [Ids -> EntryType] /\ rq \in Seq(Ids) /\ mq \in Seq(Ids)
       /\ L[m] = e /\ L2[m] = e3 /\ L2[y] = e2 /\ \A a \in Ids : a # m /\ a # y => L2[a] = L[a]
       /\ k \in 1 .. Len(rq) /\ rq[k] = m
  <2>1. /\ msg_list \in [Proc -> [Ids -> EntryType]] /\ recv_q \in [Proc -> [Proc \cup {Wild} -> Seq(Ids)]]
        /\ msg_q \in [Proc -> [Proc -> Seq(Ids)]]
    BY Zenon, <1>5 DEF Types
  <2>2. L2[m] = e3
    BY Zenon, <1>3, <1>8, <1>9, <1>10 DEF Again
  <2>3. L \in [Ids -> EntryType] /\ L2 \in [Ids -> EntryType] /\ rq \in Seq(Ids) /\ mq \in Seq(Ids)
    BY SMTT(30), <1>3, <1>9, <1>10, <2>1
  <2>4. L[m] = e /\ k \in 1 .. Len(rq) /\ rq[k] = m
    BY Zenon, <1>3, <1>10
  <2>5. L2[y] = e2 /\ \A a \in Ids : a # m /\ a # y => L2[a] = L[a]
    BY <1>9, <1>10
  <2> QED BY <2>2, <2>3, <2>4, <2>5
<1>12. /\ e3.flag = "recv" /\ e3.peer = q /\ e3.used = e.used /\ e3.nhdr = HdrSize /\ e3.left = e.left
       /\ e3.nbytes = e.nbytes /\ e3.got = << >> /\ e3.tag = e.tag
  <2>1. e \in EntryType /\ e.flag = "recv" /\ e.peer = q /\ e.got = << >>
    BY Zenon, <1>3, <1>4
  <2> QED BY <1>8, <2>1 DEF EntryType
<1>13. HdrSize \in Nat \ {0} /\ e.nhdr # 0
  BY <1>2, <1>3, EntryFacts
<1>14. Fills(e, e3, q, sent, p)
  <2>1. e3.nhdr # 0
    BY <1>12, <1>13
  <2> QED BY Zenon, <1>3, <1>4, <1>12, <1>13, <2>1 DEF Fills
<1>15. RecvPart(L, rq, q) /\ Once(rq)
  BY Zenon, <1>5, <1>10 DEF In, RecvPart
<1>16. SeenFirst(rq, rq2, y, k)
  BY <1>4, <1>10, <1>11, <1>15 DEF SeenFirst
<1>17. /\ rq2 \in Seq(Ids) /\ rq2 # << >> /\ 1 \in 1 .. Len(rq2) /\ rq2[1] = y
       /\ k + 1 \in 1 .. Len(rq2) /\ rq2[k + 1] = rq[k]
       /\ Contains(rq2, y) /\ \A a \in Ids : Contains(rq, a) => Contains(rq2, a)
       /\ (\A j \in 1 .. Len(rq) : rq[j] # y) =>
            /\ Once(rq2)
            /\ \A j \in 1 .. Len(rq2) : j = 1 \/ \E a \in 1 .. Len(rq) : rq2[j] = rq[a] /\ rq[a] # y
            /\ \A j \in 1 .. k : j = 1 \/ \E a \in 1 .. k - 1 : rq2[j] = rq[a] /\ rq[a] # y
  BY <1>16, PutInFront
<1>18. /\ recv_q' \in [Proc -> [Proc \cup {Wild} -> Seq(Ids)]]
       /\ \A s \in Proc : s # p => recv_q'[s] = recv_q[s]
       /\ \A s \in Proc \cup {Wild} : s # q => recv_q'[p][s] = recv_q[p][s]
       /\ recv_q'[p][q] = rq2
  <2>1. recv_q \in [Proc -> [Proc \cup {Wild} -> Seq(Ids)]]
    BY Zenon, <1>5 DEF Types
  <2>2. recv_q' = [recv_q EXCEPT ![p][q] = rq2]
    BY Zenon, <1>1, <1>3, <1>10, <2>1
  <2>3. rq2 \in Seq(Ids) /\ Wild \notin Proc
    BY <1>17 DEF Wild, Proc
  <2> QED BY ZenonT(30), <1>3, <2>1, <2>2, <2>3
<1>19. /\ msg_q' \in [Proc -> [Proc -> Seq(Ids)]]
       /\ \A s \in Proc : s # p => msg_q'[s] = msg_q[s]
       /\ \A s \in Proc : s # q => msg_q'[p][s] = msg_q[p][s]
       /\ msg_q'[p][q] = mq2
  <2>1. msg_q \in [Proc -> [Proc -> Seq(Ids)]]
    BY <1>5 DEF Types
  <2>2. msg_q' = [msg_q EXCEPT ![p][q] = mq2]
    BY Zenon, <1>1, <1>3, <1>10, <2>1
  <2>3. mq2 \in Seq(Ids)
    BY <1>4, <1>10, <1>11
  <2> QED BY <1>3, <2>1, <2>2, <2>3
<1>20. FillsNew(p, q, y)
  <2>1. msg_list'[p][y] = e2 /\ recv_q'[p][q] = rq2 /\ msg_q'[p][q] = Append(msg_q[p][q], y)
    BY <1>9, <1>10, <1>18, <1>19
  <2> QED BY ZenonT(30), <1>4, <1>7, <1>17, <2>1 DEF FillsNew
<1>21. Reads(p, q, r, y)
  <2>1. recv_q'[p][q] # << >> /\ \A a \in Ids : Contains(recv_q[p][q], a) => Contains(recv_q'[p][q], a)
    BY Zenon, <1>10, <1>17, <1>18
  <2>2. \A a \in Ids : a # y => msg_list'[p][a] = msg_list[p][a] \/ Fills(msg_list[p][a], msg_list'[p][a], q, sent, p)
    BY <1>10, <1>11, <1>14
  <2>3. Take(p, q, r)
    BY <1>1, <1>6
  <2> QED BY Zenon, <1>1, <1>3, <1>7, <1>9, <1>18, <1>19, <1>20, <2>1, <2>2, <2>3 DEF Reads
<1>22. NoMatch(L2, mq2, L2[m])
  <2>1. ASSUME NEW j \in 1 .. Len(mq) PROVE L2[mq[j]] = L[mq[j]]
    <3>1. mq[j] # m /\ mq[j] # y
      BY Zenon, <1>4, <1>10
    <3>2. mq \in Seq(Ids) /\ \A a \in Ids : a # m /\ a # y => L2[a] = L[a]
      BY <1>11
    <3>3. mq[j] \in Ids
      BY <3>2
    <3> QED BY Zenon, <3>1, <3>2, <3>3
  <2>2. NoMatch(L, mq, e)
    BY <1>4, <1>10
  <2>3. ~Matches(e2, e3)
    <3>1. e2.tag = h.tag /\ e2.nbytes = h.nbytes /\ e3.tag = e.tag /\ e3.nbytes = e.nbytes
      BY <1>4, <1>7, <1>12
    <3> QED BY <1>1, <3>1 DEF Matches
  <2>4. ASSUME NEW j \in 1 .. Len(mq2), L2[mq2[j]].nhdr = 0 PROVE ~Matches(L2[mq2[j]], e3)
    <3>1. j \in 1 .. Len(mq) \/ mq2[j] = y
      BY <1>4, <1>10, <1>11
    <3>2. CASE mq2[j] = y
      BY <1>11, <2>3, <3>2
    <3>3. CASE j \in 1 .. Len(mq)
      <4>1. mq2[j] = mq[j]
        BY <1>4, <1>10, <1>11, <3>3
      <4>2. ~Matches(L[mq[j]], e)
        BY <2>1, <2>2, <2>4, <3>3, <4>1 DEF NoMatch
      <4>3. L2[mq2[j]] = L[mq[j]]
        BY <2>1, <3>3, <4>1
      <4> QED BY <1>12, <4>2, <4>3 DEF Matches
    <3> QED BY <3>1, <3>2, <3>3
  <2> QED BY <1>11, <2>4 DEF NoMatch
<1>23. ASSUME ~derailed'[p] PROVE GoesFirst(L, L2, mq2, rq, rq2, q, k, y, m)
  <2>1. \A j \in 1 .. Len(rq) : rq[j] # y
    <3>1. q \in Proc \cup {Wild}
      BY <1>3
    <3> QED BY <1>4, <1>10, <1>23, <3>1 DEF Made
  <2>2. rq2[k + 1] = m
    BY <1>11, <1>17
  <2>3. L2[y].nhdr = 0 /\ L2[y].flag = "recv" /\ L2[y].peer = q /\ L2[y].used
    BY Zenon, <1>4, <1>7, <1>11
  <2>4. m # y /\ L2[m] = [L[m] EXCEPT !.nhdr = HdrSize] /\ L[m].flag = "recv" /\ ~Complete(L[m])
    BY Zenon, <1>3, <1>4, <1>8, <1>11
  <2>5. /\ \A j \in 1 .. Len(rq) : j # k => ~Begun(L[rq[j]]) /\ (L[rq[j]].flag = "drain" => L[rq[j]].nhdr = 0)
        /\ \A j \in 1 .. k - 1 : Complete(L[rq[j]])
    BY Zenon, <1>3, <1>10
  <2> QED BY Zenon, <1>11, <1>15, <1>17, <1>22, <2>1, <2>2, <2>3, <2>4, <2>5 DEF GoesFirst
<1>24. PICK z : z = 1
  OBVIOUS
<1>25. ASSUME ~derailed'[p] PROVE In(p, q)'
  <2>1. Settled(L2, mq2, rq2, q, 1, m)
    BY <1>23, <1>25, FirstSettled
  <2>2. Piece(msg_list[q], send_q[q][p], sent[q][p], wire[q][p], r, n, o)
    BY <1>2, <1>7, ReadyPiece
  <2>3. Reaches(msg_list'[p][recv_q'[p][q][z]], sent[q][p], n, o, r)
    BY SMTT(30), <1>7, <1>10, <1>11, <1>17, <1>18, <1>24
  <2>4. Settled(msg_list'[p], msg_q'[p][q], recv_q'[p][q], q, z, Head(work[p]).msg)
    BY Zenon, <1>3, <1>10, <1>18, <1>19, <1>24, <2>1
  <2>5. GoesTo(p, q, r, z, n, o)
    BY Zenon, <1>3, <2>2, <2>3, <2>4 DEF GoesTo
  <2> QED BY <1>21, <2>5, GoesToIn
<1> QED BY <1>21, <1>25, ReadsStep

\* The rest of a header is read.
LEMMA ReadHeaderStep ==
  ASSUME TcpMsgAssumption, IInv, NEW p \in Proc, NEW q, NEW m, ReadHeader(p, q, m)
  PROVE  IInv'
<1> DEFINE e == msg_list[p][m]
           n == wire[q][p][1][1]
           h == sent[q][p][n]
           Arrived(x) == [Fill(x, Body(p, q, e.nhdr, x)) EXCEPT !.nhdr = 0, !.num = n]
           TakeAll(x) == Take(p, q, e.nhdr + Len(Body(p, q, e.nhdr, x)))
           i == Min(Asked(p, q, h))
           x0 == recv_q[p][q][i]
           y == NextId(p)
           new == Entry("recv", q, h.tag, h.nbytes)
           own == [e EXCEPT !.peer = q, !.tag = h.tag, !.nbytes = h.nbytes, !.left = h.nbytes]
<1>1. /\ Reading(p, q, m) /\ e.nhdr > 0 /\ e.nhdr <= avail[q][p] /\ AtHeader(p, q, m)
      /\ UNCHANGED <<userVars, send_q, ractive, wactive, work>>
  BY Zenon DEF ReadHeader
<1>2. \/ /\ Matches(h, e)
         /\ msg_list' = [msg_list EXCEPT ![p][m] = Arrived(own)]
         /\ TakeAll(own)
         /\ UNCHANGED <<mid, recv_q, msg_q, derailed>>
      \/ /\ ~Matches(h, e) /\ Asked(p, q, h) # {} /\ ~Misfit(p, q, m, h)
         /\ msg_list' = [msg_list EXCEPT ![p][m].nhdr = HdrSize, ![p][x0] = Arrived(@)]
         /\ TakeAll(msg_list[p][x0])
         /\ recv_q' = [recv_q EXCEPT ![p][q] = <<x0>> \o RemoveAt(@, i)]
         /\ UNCHANGED <<mid, msg_q, derailed>>
      \/ /\ ~Matches(h, e) /\ EntryLeft(p)
         /\ msg_list' = [msg_list EXCEPT ![p][m].nhdr = HdrSize, ![p][y] = Arrived(new)]
         /\ TakeAll(new)
         /\ Create(p, y)
         /\ recv_q' = [recv_q EXCEPT ![p][q] = <<y>> \o @]
         /\ msg_q' = [msg_q EXCEPT ![p][q] = Post(@, y)]
  BY Zenon DEF ReadHeader
<1>3. \A x : Arrived(x) = Arrival(x, Body(p, q, e.nhdr, x), n) /\ (TakeAll(x) <=> Take(p, q, e.nhdr + Len(Body(p, q, e.nhdr, x))))
  BY DEF Arrival
<1>4. /\ e = msg_list[p][m] /\ n = wire[q][p][1][1] /\ h = sent[q][p][n] /\ y = NextId(p)
      /\ i = Min(Asked(p, q, h)) /\ x0 = recv_q[p][q][i]
  OBVIOUS
<1>5. new = Entry("recv", q, h.tag, h.nbytes)
      /\ own = [e EXCEPT !.peer = q, !.tag = h.tag, !.nbytes = h.nbytes, !.left = h.nbytes]
  OBVIOUS
<1> HIDE DEF e, n, h, Arrived, TakeAll, i, x0, y, new, own
<1>6. Ready(p, q, m)
  <2>1. Working(p, "recv") /\ Head(work[p]).msg = m /\ m # 0 /\ Head(work[p]).node = q
    BY <1>1 DEF Reading
  <2>2. q \in Proc /\ m \in 0 .. MaxMsgs
    BY <2>1, RecvTask
  <2>3. m \in Ids
    BY <2>1, <2>2, IdOrNone
  <2>4. msg_list[p][m] \in EntryType /\ avail[q][p] \in Nat
    <3>1. msg_list \in [Proc -> [Ids -> EntryType]] /\ avail \in [Proc -> [Proc -> Nat]]
      BY Zenon DEF IInv, Types
    <3> QED BY <2>2, <2>3, <3>1
  <2>5. e.nhdr \in Nat
    BY Zenon, <1>4, <2>4, EntryFacts
  <2>6. avail[q][p] > 0
    BY <1>1, <2>4, <2>5
  <2> QED BY <1>1, <2>6 DEF Ready
<1>7. PICK k, o : ReadyAt(p, q, m, k, e, n, o)
  <2>1. PICK k, e0, n0, o : ReadyAt(p, q, m, k, e0, n0, o)
    BY <1>6, ReadyFacts
  <2>2. e0 = e /\ n0 = n
    BY Zenon, <1>4, <2>1 DEF ReadyAt
  <2> QED BY <2>1, <2>2
<1>8. /\ q \in Peers(p) /\ q \in Proc /\ m \in Ids /\ e \in EntryType /\ ~derailed[p] /\ e.peer = q /\ e.got = << >>
      /\ k \in 1 .. Len(recv_q[p][q]) /\ recv_q[p][q][k] = m
  <2>1. e.nhdr > 0 /\ e = msg_list[p][m]
    BY Zenon, <1>1, <1>4
  <2> QED BY Zenon, <1>7, <2>1 DEF ReadyAt
<1>9. /\ sent[q][p][n] \in SentMsg /\ sent[q][p][n].nbytes \in Nat /\ sent[q][p][n].tag \in Int
  BY <1>6, <1>7, ReadySent
<1>10. h = sent[q][p][n] /\ h.nbytes \in Nat /\ h.tag \in Int
  BY Zenon, <1>4, <1>9
<1>11. Types /\ In(p, q) /\ Always(p)
  BY <1>8 DEF IInv
<1>12. CASE /\ Matches(h, e)
            /\ msg_list' = [msg_list EXCEPT ![p][m] = Arrived(own)]
            /\ TakeAll(own)
            /\ UNCHANGED <<mid, recv_q, msg_q, derailed>>
  <2>1. PICK x, body, e2 : x = own /\ body = Body(p, q, e.nhdr, own) /\ e2 = Arrived(own)
    OBVIOUS
  <2>2. /\ x \in EntryType /\ x.peer = q /\ x.tag = h.tag /\ x.nbytes = h.nbytes /\ x.left = h.nbytes
        /\ x.got = << >> /\ x.flag = e.flag /\ x.used = e.used
    <3>1. x = [e EXCEPT !.peer = q, !.tag = h.tag, !.nbytes = h.nbytes, !.left = h.nbytes]
      BY <1>5, <2>1
    <3>2. e \in EntryType /\ e.got = << >> /\ q \in Proc \cup {Wild} /\ h.nbytes \in Nat /\ h.tag \in Int
      BY <1>8, <1>10
    <3> QED BY Zenon, <3>1, <3>2 DEF EntryType
  <2>3. body = Body(p, q, e.nhdr, x) /\ e2 = Arrival(x, body, n)
    BY <1>3, <2>1
  <2>4. x.nbytes = sent[q][p][n].nbytes /\ x.left = sent[q][p][n].nbytes /\ (x.tag < 0 \/ x.tag = sent[q][p][n].tag)
    BY Zenon, <1>4, <2>2
  <2>5. HeaderFor(p, q, m, k, e, n, o, x, body, e2)
    BY <1>1, <1>6, <1>7, <2>2, <2>3, <2>4 DEF HeaderFor
  <2>6. msg_list' = [msg_list EXCEPT ![p][m] = e2] /\ Take(p, q, e.nhdr + Len(body))
    BY <1>3, <1>12, <2>1
  <2>7. ReadsOwn(p, q, m, k, e, n, o, x, body, e2)
    BY Zenon, <1>1, <1>12, <2>2, <2>5, <2>6 DEF ReadsOwn
  <2> QED BY <2>7, ReadsOwnStep
<1>13. CASE /\ ~Matches(h, e) /\ Asked(p, q, h) # {} /\ ~Misfit(p, q, m, h)
            /\ msg_list' = [msg_list EXCEPT ![p][m].nhdr = HdrSize, ![p][x0] = Arrived(@)]
            /\ TakeAll(msg_list[p][x0])
            /\ recv_q' = [recv_q EXCEPT ![p][q] = <<x0>> \o RemoveAt(@, i)]
            /\ UNCHANGED <<mid, msg_q, derailed>>
  <2>1. i \in 1 .. Len(recv_q[p][q]) /\ Matches(h, msg_list[p][recv_q[p][q][i]])
    <3>1. recv_q[p][q] \in Seq(Ids)
      <4>1. recv_q \in [Proc -> [Proc \cup {Wild} -> Seq(Ids)]]
        BY Zenon, <1>11 DEF Types
      <4> QED BY <1>8, <4>1
    <3>2. DOMAIN recv_q[p][q] = 1 .. Len(recv_q[p][q]) /\ Len(recv_q[p][q]) \in Nat
      BY <3>1
    <3>3. Asked(p, q, h) \subseteq Nat
      BY <3>2 DEF Asked
    <3>4. i \in Asked(p, q, h)
      BY Zenon, <1>4, <1>13, <3>3, MinOf
    <3> QED BY <3>2, <3>4 DEF Asked
  <2>2. PICK x, y2, i2 : x = msg_list[p][x0] /\ y2 = x0 /\ i2 = i
    OBVIOUS
  <2>3. i2 \in 1 .. Len(recv_q[p][q]) /\ y2 = recv_q[p][q][i2] /\ x = msg_list[p][y2] /\ Matches(h, x)
    BY Zenon, <1>4, <2>1, <2>2
  <2>4. x.nhdr # 0 /\ x.nbytes = h.nbytes
    <3>1. recv_q[p][q][Min(Asked(p, q, h))] = x0
      BY Zenon, <1>4
    <3>2. ~Matches(h, msg_list[p][m])
      BY Zenon, <1>4, <1>13
    <3>3. ~(msg_list[p][x0].nhdr = 0 \/ msg_list[p][x0].nbytes # h.nbytes)
      BY <1>13, <3>1, <3>2 DEF Misfit
    <3> QED BY <2>2, <3>3
  <2>5. y2 # m
    BY Zenon, <1>4, <1>13, <2>3
  <2>6. y2 \in Ids /\ x \in EntryType
    <3>1. msg_list \in [Proc -> [Ids -> EntryType]] /\ recv_q \in [Proc -> [Proc \cup {Wild} -> Seq(Ids)]]
      BY Zenon, <1>11 DEF Types
    <3>2. recv_q[p][q] \in Seq(Ids)
      BY <1>8, <3>1
    <3>3. y2 \in Ids
      BY <2>3, <3>2
    <3> QED BY <2>3, <3>1, <3>3
  <2>7. x.left = x.nbytes /\ x.got = << >> /\ x.peer = q
    <3>1. x.nhdr > 0
      BY <2>4, <2>6, EntryFacts
    <3>2. x.left = x.nbytes /\ x.got = << >>
      BY Zenon, <1>11, <2>3, <2>6, <3>1 DEF Always, EntryPart
    <3>3. x.peer = q
      BY Zenon, <1>11, <2>3 DEF In, RecvPart
    <3> QED BY <3>2, <3>3
  <2>8. x.tag < 0 \/ x.tag = h.tag
    BY <2>3 DEF Matches
  <2>9. PICK body, e2 : body = Body(p, q, e.nhdr, x) /\ e2 = Arrival(x, body, n)
    OBVIOUS
  <2>10. x.nbytes = sent[q][p][n].nbytes /\ x.left = sent[q][p][n].nbytes /\ (x.tag < 0 \/ x.tag = sent[q][p][n].tag)
    BY Zenon, <1>4, <2>4, <2>7, <2>8
  <2>11. HeaderFor(p, q, m, k, e, n, o, x, body, e2)
    BY <1>1, <1>6, <1>7, <2>6, <2>7, <2>9, <2>10 DEF HeaderFor
  <2>12. Take(p, q, e.nhdr + Len(body))
    BY <1>3, <1>13, <2>2, <2>9
  <2>13. msg_list' = [msg_list EXCEPT ![p][m].nhdr = HdrSize, ![p][y2] = e2]
    <3>1. Arrived(msg_list[p][y2]) = e2
      BY Zenon, <1>3, <2>3, <2>9
    <3>2. msg_list' = [msg_list EXCEPT ![p][m].nhdr = HdrSize, ![p][y2] = Arrived(@)]
      BY <1>13, <2>2
    <3> QED BY <1>8, <1>11, <2>5, <2>6, <3>1, <3>2 DEF Types
  <2>14. recv_q' = [recv_q EXCEPT ![p][q] = <<y2>> \o RemoveAt(@, i2)]
    BY <1>13, <2>2
  <2>15. ReadsOther(p, q, m, k, e, n, o, x, body, e2, i2, y2)
    BY Zenon, <1>1, <1>13, <2>3, <2>4, <2>5, <2>11, <2>12, <2>13, <2>14 DEF ReadsOther
  <2> QED BY <2>15, ReadsOtherStep
<1>14. CASE /\ ~Matches(h, e) /\ EntryLeft(p)
            /\ msg_list' = [msg_list EXCEPT ![p][m].nhdr = HdrSize, ![p][y] = Arrived(new)]
            /\ TakeAll(new)
            /\ Create(p, y)
            /\ recv_q' = [recv_q EXCEPT ![p][q] = <<y>> \o @]
            /\ msg_q' = [msg_q EXCEPT ![p][q] = Post(@, y)]
  <2>1. PICK x, body, e2 : x = new /\ body = Body(p, q, e.nhdr, new) /\ e2 = Arrived(new)
    OBVIOUS
  <2>2. /\ x \in EntryType /\ x.peer = q /\ x.tag = h.tag /\ x.nbytes = h.nbytes /\ x.left = h.nbytes
        /\ x.got = << >>
    <3>1. q \in Proc \cup {Wild} /\ h.tag \in Int /\ h.nbytes \in Nat /\ "recv" \in {"recv", "drain"}
      BY <1>8, <1>10
    <3>2. x = Entry("recv", q, h.tag, h.nbytes)
      BY <1>5, <2>1
    <3>3. RecvArgs("recv", q, h.tag, h.nbytes)
      BY <3>1 DEF RecvArgs
    <3>4. NewRecv(x, "recv", q, h.tag, h.nbytes)
      BY Zenon, <3>2, <3>3, RecvEntryIs
    <3> QED BY Zenon, <3>4 DEF NewRecv
  <2>3. body = Body(p, q, e.nhdr, x) /\ e2 = Arrival(x, body, n)
    BY <1>3, <2>1
  <2>4. x.nbytes = sent[q][p][n].nbytes /\ x.left = sent[q][p][n].nbytes /\ (x.tag < 0 \/ x.tag = sent[q][p][n].tag)
    BY Zenon, <1>4, <2>2
  <2>5. HeaderFor(p, q, m, k, e, n, o, x, body, e2)
    BY <1>1, <1>6, <1>7, <2>2, <2>3, <2>4 DEF HeaderFor
  <2>6. msg_list' = [msg_list EXCEPT ![p][m].nhdr = HdrSize, ![p][y] = e2] /\ Take(p, q, e.nhdr + Len(body))
    BY <1>3, <1>14, <2>1
  <2>7. x = Entry("recv", q, h.tag, h.nbytes) /\ h = sent[q][p][n] /\ y = NextId(p)
    BY Zenon, <1>4, <1>5, <2>1
  <2>8. ReadsNew(p, q, m, k, e, n, o, x, body, e2, h, y)
    BY Zenon, <1>1, <1>14, <2>5, <2>6, <2>7 DEF ReadsNew
  <2> QED BY <2>8, ReadsNewStep
<1> QED BY Zenon, <1>2, <1>12, <1>13, <1>14

-----------------------------------------------------------------------------
(* The invariant holds in every state. *)

\* At the start every entry is free, and every queue and every wire empty.
LEMMA InitInv ==
  ASSUME TcpMsgAssumption, Init
  PROVE  IInv
<1>1. /\ NProcs \in Nat \ {0} /\ HdrSize \in Nat \ {0} /\ SockCap \in Nat \ {0} /\ MaxMsgs \in Nat \ {0}
      /\ todo \in [Proc -> Seq(CallType)] /\ \A p \in Proc : NamesGiven(todo[p], 0)
  BY DEF TcpMsgAssumption, Init
<1>2. /\ Free \in EntryType /\ ~Free.used /\ Free.flag = "recv" /\ Free.nhdr = HdrSize /\ Free.left = 0
      /\ Free.nbytes = 0 /\ Free.got = << >>
  <2>1. PICK e : e = Entry("recv", Wild, Wild, 0)
    OBVIOUS
  <2>2. Wild \in Proc \cup {Wild} /\ Wild \in Int
    BY DEF Wild
  <2>3. e \in EntryType /\ e.flag = "recv" /\ e.nhdr = HdrSize /\ e.left = 0 /\ e.nbytes = 0 /\ e.got = << >>
    <3>1. RecvArgs("recv", Wild, Wild, 0)
      BY <2>2 DEF RecvArgs
    <3>2. NewRecv(e, "recv", Wild, Wild, 0)
      BY Zenon, <2>1, <3>1, RecvEntryIs
    <3> QED BY Zenon, <3>2 DEF NewRecv
  <2>4. Free = [e EXCEPT !.used = FALSE]
    BY <2>1 DEF Free
  <2> QED BY Zenon, <2>3, <2>4 DEF EntryType
<1>3. /\ pc = [p \in Proc |-> "run"] /\ handle = [p \in Proc |-> << >>]
      /\ msg_list = [p \in Proc |-> [m \in Ids |-> Free]] /\ mid = [p \in Proc |-> 0]
      /\ send_q = [p \in Proc |-> [q \in Proc |-> << >>]]
      /\ recv_q = [p \in Proc |-> [q \in Proc \cup {Wild} |-> << >>]]
      /\ msg_q = [p \in Proc |-> [q \in Proc |-> << >>]]
      /\ ractive = [p \in Proc |-> [q \in Proc |-> FALSE]] /\ wactive = [p \in Proc |-> [q \in Proc |-> FALSE]]
      /\ work = [p \in Proc |-> << >>] /\ wire = [p \in Proc |-> [q \in Proc |-> << >>]]
      /\ avail = [p \in Proc |-> [q \in Proc |-> 0]] /\ sigio = [p \in Proc |-> FALSE]
      /\ derailed = [p \in Proc |-> FALSE] /\ sent = [p \in Proc |-> [q \in Proc |-> << >>]]
      /\ waited = [p \in Proc |-> << >>]
  BY DEF Init, Ids
<1>4. Types
  <2>1. << >> \in Seq(0 .. MaxMsgs) /\ << >> \in Seq(Seq(EntryType)) /\ << >> \in Seq(Ids) /\ << >> \in Seq(TaskType)
        /\ << >> \in Seq(Nat \X Nat) /\ << >> \in Seq(SentMsg) /\ 0 \in 0 .. MaxMsgs - 1 /\ 0 \in Nat
    BY <1>1
  <2>2. msg_list \in [Proc -> [Ids -> EntryType]] /\ mid \in [Proc -> 0 .. MaxMsgs - 1]
    BY <1>2, <1>3, <2>1
  <2>3. /\ handle \in [Proc -> Seq(0 .. MaxMsgs)] /\ waited \in [Proc -> Seq(Seq(EntryType))]
        /\ send_q \in [Proc -> [Proc -> Seq(Ids)]] /\ msg_q \in [Proc -> [Proc -> Seq(Ids)]]
        /\ recv_q \in [Proc -> [Proc \cup {Wild} -> Seq(Ids)]] /\ work \in [Proc -> Seq(TaskType)]
    BY <1>3, <2>1
  <2>4. /\ wire \in [Proc -> [Proc -> Seq(Nat \X Nat)]] /\ sent \in [Proc -> [Proc -> Seq(SentMsg)]]
        /\ avail \in [Proc -> [Proc -> Nat]]
    BY <1>3, <2>1
  <2>5. /\ pc \in [Proc -> {"run", "push", "block", "end"}] /\ sigio \in [Proc -> BOOLEAN]
        /\ derailed \in [Proc -> BOOLEAN]
        /\ ractive \in [Proc -> [Proc -> BOOLEAN]] /\ wactive \in [Proc -> [Proc -> BOOLEAN]]
    BY <1>3
  <2> QED BY Zenon, <1>1, <2>2, <2>3, <2>4, <2>5 DEF Types
<1>5. ASSUME NEW p \in Proc PROVE Always(p) /\ History(p) /\ OnTrack(p)
  <2>1. /\ pc[p] = "run" /\ handle[p] = << >> /\ work[p] = << >> /\ waited[p] = << >>
        /\ \A m \in Ids : msg_list[p][m] = Free
        /\ \A q \in Proc : send_q[p][q] = << >> /\ recv_q[p][q] = << >> /\ msg_q[p][q] = << >>
        /\ \A q \in Proc : ~ractive[p][q] /\ ~wactive[p][q]
        /\ wire[p][p] = << >> /\ avail[p][p] = 0 /\ recv_q[p][Wild] = << >>
    BY <1>3, <1>5
  <2>2. OwnPart(send_q[p], recv_q[p], ractive[p], wactive[p], wire[p], avail[p], p)
    BY <1>5, <2>1 DEF OwnPart
  <2>3. HandlePart(todo[p], handle[p], waited[p], pc[p])
    BY <1>1, <2>1 DEF HandlePart
  <2>4. EntryPart(msg_list[p], p)
    BY <1>2, <2>1 DEF EntryPart
  <2>5. QueuedPart(msg_list[p], send_q[p]) /\ KeptPart(msg_list[p], handle[p], send_q[p], msg_q[p])
    BY <1>2, <2>1 DEF QueuedPart, KeptPart
  <2>6. TaskPart(work[p], send_q[p], recv_q[p], p)
    BY <2>1, NoTask
  <2>7. ActivePart(send_q[p], recv_q[p], ractive[p], wactive[p])
    BY <2>1 DEF ActivePart
  <2>8. ContentPart(msg_list[p], sent, p)
    <3>1. Free.nhdr # 0
      BY <1>1, <1>2
    <3> QED BY <2>1, <3>1 DEF ContentPart
  <2>9. WaitedPart(waited[p], sent, p)
    BY <2>1 DEF WaitedPart
  <2>10. PcPart(msg_list[p], todo[p], handle[p], pc[p])
    BY <2>1 DEF PcPart
  <2>11. WildPart(msg_list[p], recv_q[p][Wild])
    BY <2>1 DEF WildPart, Once
  <2>12. \A q \in Proc : MsgPart(msg_list[p], handle[p], msg_q[p][q], recv_q[p][q], p, q)
    BY <2>1 DEF MsgPart, Once
  <2> QED BY <2>2, <2>3, <2>4, <2>5, <2>6, <2>7, <2>8, <2>9, <2>10, <2>11, <2>12 DEF Always, History, OnTrack
<1>6. ASSUME NEW p \in Proc, NEW q \in Peers(p) PROVE Out(p, q) /\ In(p, q)
  <2>1. /\ q \in Proc /\ work[p] = << >> /\ send_q[p][q] = << >> /\ recv_q[p][q] = << >> /\ msg_q[p][q] = << >>
        /\ wire[p][q] = << >> /\ wire[q][p] = << >> /\ avail[p][q] = 0 /\ sent[p][q] = << >> /\ sent[q][p] = << >>
        /\ ~ractive[p][q] /\ ~wactive[p][q] /\ recv_q[p][Wild] = << >> /\ send_q[q][p] = << >>
    BY <1>3, <1>6 DEF Peers
  <2>2. SendPart(msg_list[p], handle[p], send_q[p][q], sent[p][q], q)
    BY <2>1 DEF SendPart
  <2>3. WirePart(msg_list[p], send_q[p][q], sent[p][q], wire[p][q])
    BY <2>1 DEF WirePart
  <2>4. Len(wire[p][q]) <= SockCap /\ avail[p][q] <= Len(wire[p][q])
    BY <1>1, <2>1
  <2>5. RecvPart(msg_list[p], recv_q[p][q], q)
    BY <2>1 DEF RecvPart, Once
  <2>6. HeaderPart(msg_list[p], msg_q[p][q], recv_q[p][q])
    BY <2>1 DEF HeaderPart
  <2>7. DrainPart(msg_list[p], recv_q[p][q], work[p], q, wire[q][p], avail[q][p], sent[q][p])
    BY <2>1 DEF DrainPart
  <2>8. PlacePart(msg_list[p], msg_q[p][q], recv_q[p][q], work[p], q)
    BY <2>1 DEF PlacePart, AtRecv
  <2>9. AwakePart(recv_q[p][q], work[p], ractive[p], q)
    BY <2>1 DEF AwakePart
  <2>10. StreamPart(msg_list[p], recv_q[p][q], NextIn(msg_list[q], send_q[q][p], sent[q][p], wire[q][p]))
    <3>1. NextIn(msg_list[q], send_q[q][p], sent[q][p], wire[q][p]) = <<Len(sent[q][p]) + 1, 1>>
      BY <2>1 DEF NextIn, NextOut
    <3>2. NextIn(msg_list[q], send_q[q][p], sent[q][p], wire[q][p])[2] = 1
      BY <3>1
    <3> QED BY <2>1, <3>2 DEF StreamPart
  <2>11. SignalPart(work[p], ractive[p], wactive[p], recv_q[p][Wild], Len(wire[p][q]) < SockCap,
                    avail[q][p], sigio[p], q)
    BY <2>1 DEF SignalPart
  <2> QED BY <2>2, <2>3, <2>4, <2>5, <2>6, <2>7, <2>8, <2>9, <2>10, <2>11 DEF Out, In
<1> QED BY <1>4, <1>5, <1>6 DEF IInv

\* Every step keeps it.
LEMMA NextInv ==
  ASSUME TcpMsgAssumption, IInv, [Next]_vars
  PROVE  IInv'
<1>1. ASSUME NEW p \in Proc, Program(p) PROVE IInv'
  <2>1. CASE ASend(p)
    BY <2>1, ASendStep
  <2>2. CASE ARecv(p)
    BY <2>2, ARecvStep
  <2>3. CASE Test(p)
    BY <2>3, TestStep
  <2>4. CASE Wait(p)
    BY <2>4, WaitStep
  <2>5. CASE Push(p)
    BY <2>5, PushStep
  <2>6. CASE Block(p)
    BY <2>6, BlockStep
  <2>7. CASE WaitEnds(p)
    BY <2>7, WaitEndsStep
  <2> QED BY <1>1, <2>1, <2>2, <2>3, <2>4, <2>5, <2>6, <2>7 DEF Program
<1>2. ASSUME NEW p \in Proc, NEW q \in Proc, NEW m \in 1 .. MaxMsgs, Read(p, q, m) PROVE IInv'
  <2>1. CASE ReadNothing(p, q, m)
    BY <2>1, ReadNothingStep
  <2>2. CASE ReadBody(p, q, m)
    BY <2>2, ReadBodyStep
  <2>3. CASE ReadPartOfHeader(p, q, m)
    BY <2>3, ReadPartOfHeaderStep
  <2>4. CASE ReadHeader(p, q, m)
    BY <2>4, ReadHeaderStep
  <2>5. CASE Derail(p, q, m)
    BY <2>5, DerailStep
  <2> QED BY <1>2, <2>1, <2>2, <2>3, <2>4, <2>5 DEF Read
<1>3. ASSUME NEW p \in Proc, Engine(p) PROVE IInv'
  <2>1. CASE Write(p)
    BY <2>1, SendStep
  <2>2. CASE RecvStart(p)
    BY <2>2, RecvStartStep
  <2>3. CASE RecvDone(p)
    BY <2>3, RecvDoneStep
  <2>4. CASE Peek(p)
    BY <2>4, PeekStep
  <2>5. CASE \E q \in Proc, m \in 1 .. MaxMsgs : Read(p, q, m)
    BY <1>2, <2>5
  <2> QED BY <1>3, <2>1, <2>2, <2>3, <2>4, <2>5 DEF Engine
<1>4. ASSUME NEW p \in Proc, Handler(p) PROVE IInv'
  BY <1>4, HandlerStep
<1>5. ASSUME NEW q \in Proc, NEW p \in Proc, Deliver(q, p) PROVE IInv'
  BY <1>5, DeliverStep
<1>6. CASE UNCHANGED vars
  <2>1. /\ todo' = todo /\ pc' = pc /\ handle' = handle /\ sent' = sent /\ waited' = waited
        /\ msg_list' = msg_list /\ mid' = mid /\ send_q' = send_q /\ recv_q' = recv_q /\ msg_q' = msg_q
        /\ ractive' = ractive /\ wactive' = wactive /\ work' = work /\ wire' = wire /\ avail' = avail
        /\ sigio' = sigio /\ derailed' = derailed
    BY <1>6 DEF vars, userVars, queueVars, netVars
  <2>2. Types'
    <3>1. Types
      BY DEF IInv
    <3> QED BY Zenon, <2>1, <3>1 DEF Types
  <2>3. ASSUME NEW p \in Proc PROVE Always(p)' /\ History(p)' /\ (~derailed'[p] => OnTrack(p)')
    <3>1. Always(p) /\ History(p) /\ (~derailed[p] => OnTrack(p))
      BY DEF IInv
    <3> QED BY <2>1, <3>1 DEF Always, History, OnTrack
  <2>4. ASSUME NEW p \in Proc, NEW q \in Peers(p) PROVE Out(p, q)' /\ (~derailed'[p] => In(p, q)')
    <3>1. Out(p, q) /\ (~derailed[p] => In(p, q))
      BY DEF IInv
    <3> QED BY <2>1, <3>1 DEF Out, In
  <2> QED BY <2>2, <2>3, <2>4 DEF IInv
<1>7. CASE Next
  BY <1>1, <1>3, <1>4, <1>5, <1>7 DEF Next
<1> QED BY <1>6, <1>7

\* The engine of every process keeps its books straight: the entries, the queues, the
\* stream between every two processes and the tasks agree in every state.
THEOREM TcpMsgInvariance == Spec => []IInv
<1>1. Init => IInv
  BY TcpMsgAssumption, InitInv
<1>2. IInv /\ [Next]_vars => IInv'
  BY TcpMsgAssumption, NextInv
<1> QED BY <1>1, <1>2, PTL DEF Spec

-----------------------------------------------------------------------------
(* What it says of the engine. *)

\* A process has no wire to itself; another one holds what the socket can.
LEMMA WireBounds ==
  ASSUME TcpMsgAssumption, IInv, NEW p \in Proc, NEW q \in Proc
  PROVE  wire[p][q] \in Seq(Nat \X Nat) /\ Len(wire[p][q]) <= SockCap /\ avail[p][q] \in 0 .. Len(wire[p][q])
<1>1. wire[p][q] \in Seq(Nat \X Nat) /\ avail[p][q] \in Nat /\ SockCap \in Nat \ {0}
  BY DEF IInv, Types, TcpMsgAssumption
<1>2. CASE q = p
  <2>1. wire[p][q] = << >> /\ avail[p][q] = 0
    BY Zenon, <1>2 DEF IInv, Always, OwnPart
  <2> QED BY <1>1, <2>1
<1>3. CASE q # p
  <2>1. Len(wire[p][q]) <= SockCap /\ avail[p][q] <= Len(wire[p][q])
    BY <1>3 DEF IInv, Out, Peers
  <2> QED BY <1>1, <2>1
<1> QED BY <1>2, <1>3

\* The type invariant, and a socket is served only while its queue holds something
\* (do_send() and do_recv() start with the head of it, tcp.c:2609-2616).
THEOREM TcpMsgTypeOK == Spec => []TypeOK
<1>1. ASSUME IInv PROVE TypeOK
  <2>1. Types
    BY <1>1 DEF IInv
  <2>2. /\ pc \in [Proc -> {"run", "push", "block", "end"}]
        /\ msg_list \in [Proc -> [Ids -> EntryType]]
        /\ mid \in [Proc -> 0 .. MaxMsgs - 1]
        /\ \A p \in Proc : handle[p] \in Seq(0 .. MaxMsgs)
        /\ ractive \in [Proc -> [Proc -> BOOLEAN]] /\ wactive \in [Proc -> [Proc -> BOOLEAN]]
        /\ sigio \in [Proc -> BOOLEAN] /\ derailed \in [Proc -> BOOLEAN]
    BY <2>1 DEF Types
  <2>3. \A p, q \in Proc : /\ send_q[p][q] \in Seq(Ids) /\ msg_q[p][q] \in Seq(Ids)
                           /\ recv_q[p][q] \in Seq(Ids) /\ recv_q[p][Wild] \in Seq(Ids)
    <3>1. /\ send_q \in [Proc -> [Proc -> Seq(Ids)]] /\ msg_q \in [Proc -> [Proc -> Seq(Ids)]]
          /\ recv_q \in [Proc -> [Proc \cup {Wild} -> Seq(Ids)]]
      BY Zenon, <2>1 DEF Types
    <3> QED BY Zenon, <3>1
  <2>4. \A p, q \in Proc : /\ wire[p][q] \in Seq(Nat \X Nat) /\ Len(wire[p][q]) <= SockCap
                           /\ avail[p][q] \in 0 .. Len(wire[p][q])
    BY <1>1, TcpMsgAssumption, WireBounds
  <2>5. ASSUME NEW p \in Proc, NEW i \in DOMAIN work[p]
        PROVE  /\ work[p][i].call = "send" => send_q[p][work[p][i].node] # << >>
               /\ work[p][i].call = "recv" => recv_q[p][work[p][i].node] # << >>
    <3>1. TaskPart(work[p], send_q[p], recv_q[p], p)
      BY <1>1 DEF IInv, Always
    <3>2. work[p] \in Seq(TaskType)
      BY <2>1 DEF Types
    <3>3. i \in 1 .. Len(work[p])
      BY <3>2
    <3> QED BY <3>1, <3>3 DEF TaskPart
  <2> QED BY Zenon, <2>2, <2>3, <2>4, <2>5 DEF TypeOK
<1> QED BY <1>1, TcpMsgInvariance, PTL

\* A receive that was waited for holds a whole message, and that one alone: of the
\* process, the size and the tag that it reports (tcp.c:951-956), from the first unit to
\* the last, whatever was read before and after it.
THEOREM TcpMsgWhole == Spec => []Whole
<1>1. ASSUME IInv PROVE Whole
  <2>1. SUFFICES ASSUME NEW p \in Proc, NEW i \in Receives(p)
                 PROVE  /\ Result(p, i).num \in DOMAIN sent[Result(p, i).peer][p]
                        /\ Result(p, i).tag < 0 \/ Result(p, i).tag = sent[Result(p, i).peer][p][Result(p, i).num].tag
                        /\ Result(p, i).nbytes = sent[Result(p, i).peer][p][Result(p, i).num].nbytes
                        /\ Result(p, i).got = [u \in 1 .. Result(p, i).nbytes |-> <<Result(p, i).num, HdrSize + u>>]
    BY DEF Whole
  <2>2. WaitedPart(waited[p], sent, p) /\ Types
    BY <1>1 DEF IInv, History
  <2>3. waited[p] \in Seq(Seq(EntryType)) /\ sent \in [Proc -> [Proc -> Seq(SentMsg)]]
    BY <2>2 DEF Types
  <2>4. i \in 1 .. Len(waited[p]) /\ waited[p][i] # << >>
    BY <2>1, <2>3 DEF Receives
  <2>5. PICK r : r = Result(p, i)
    OBVIOUS
  <2>6. Holds(r, sent, p) /\ r.left = 0
    BY <2>2, <2>4, <2>5 DEF WaitedPart, Result
  <2>7. /\ r.peer \in Proc /\ r.num \in 1 .. Len(sent[r.peer][p])
        /\ r.tag < 0 \/ r.tag = sent[r.peer][p][r.num].tag
        /\ r.nbytes = sent[r.peer][p][r.num].nbytes
        /\ r.got = [u \in 1 .. r.nbytes - r.left |-> <<r.num, HdrSize + u>>]
    BY Zenon, <2>6 DEF Holds
  <2>8. sent[r.peer][p] \in Seq(SentMsg)
    BY Zenon, <2>3, <2>7
  <2>9. r.num \in DOMAIN sent[r.peer][p]
    BY <2>7, <2>8
  <2>10. r.nbytes \in Nat
    <3>1. PICK h : h = sent[r.peer][p][r.num]
      OBVIOUS
    <3>2. h \in SentMsg
      BY <2>7, <2>8, <3>1
    <3>3. h.nbytes \in Nat
      BY <3>2 DEF SentMsg
    <3> QED BY Zenon, <2>7, <3>1, <3>3
  <2>11. r.nbytes - r.left = r.nbytes
    BY <2>6, <2>10
  <2>12. r.got = [u \in 1 .. r.nbytes |-> <<r.num, HdrSize + u>>]
    BY Zenon, <2>7, <2>11
  <2> QED BY Zenon, <2>5, <2>7, <2>9, <2>12
<1> QED BY <1>1, TcpMsgInvariance, PTL

\* The library never sends from memory that MP_Wait() has given back to the program
\* (tcp.c:884-887): the entry of a waited send still in a queue is a buffered one.
THEOREM TcpMsgSendBufferGivenBack == Spec => []SendBufferGivenBack
<1>1. ASSUME IInv PROVE SendBufferGivenBack
  <2>1. SUFFICES ASSUME NEW p \in Proc, NEW q \in Proc, NEW i \in DOMAIN send_q[p][q]
                 PROVE  /\ msg_list[p][send_q[p][q][i]].used
                        /\ msg_list[p][send_q[p][q][i]].flag = "send" =>
                             \E j \in DOMAIN handle[p] : handle[p][j] = send_q[p][q][i]
    BY DEF SendBufferGivenBack
  <2>2. send_q[p][q] \in Seq(Ids) /\ handle[p] \in Seq(0 .. MaxMsgs)
    BY <1>1 DEF IInv, Types
  <2>3. i \in 1 .. Len(send_q[p][q]) /\ DOMAIN handle[p] = 1 .. Len(handle[p])
    BY <2>2
  <2>4. q # p
    <3>1. send_q[p][p] = << >>
      BY <1>1 DEF IInv, Always, OwnPart
    <3> QED BY <2>3, <3>1
  <2>5. SendPart(msg_list[p], handle[p], send_q[p][q], sent[p][q], q)
    BY <1>1, <2>4 DEF IInv, Out, Peers
  <2> QED BY ZenonT(30), <2>3, <2>5 DEF SendPart, Named
<1> QED BY <1>1, TcpMsgInvariance, PTL

\* An entry in use is one whose handle is out, or one of a message still to be sent or
\* to be asked for; or of a send that completed between the two tests of MP_Wait()
\* (tcp.c:882-884).
THEOREM TcpMsgNoEntryLost == Spec => []NoEntryLost
<1>1. ASSUME IInv PROVE NoEntryLost
  <2>1. SUFFICES ASSUME NEW p \in Proc, NEW m \in Ids, msg_list[p][m].used
                 PROVE  \/ \E j \in DOMAIN handle[p] : handle[p][j] = m
                        \/ \E q \in Proc : Contains(send_q[p][q], m) \/ Contains(msg_q[p][q], m)
                        \/ msg_list[p][m].flag = "buffered" /\ nleft(msg_list[p][m]) = 0
    BY DEF NoEntryLost
  <2>2. KeptPart(msg_list[p], handle[p], send_q[p], msg_q[p])
    BY <1>1 DEF IInv, Always
  <2>3. DOMAIN handle[p] = 1 .. Len(handle[p])
    <3>1. handle[p] \in Seq(0 .. MaxMsgs)
      BY <1>1 DEF IInv, Types
    <3> QED BY <3>1
  <2> QED BY <2>1, <2>2, <2>3 DEF KeptPart, Named, Complete
<1> QED BY <1>1, TcpMsgInvariance, PTL

\* No signal is missed: if a read or a write of an active socket would get anywhere,
\* there is a signal pending, or the engine is at work.
THEOREM TcpMsgNoSignalMissed == Spec => []NoSignalMissed
<1>1. ASSUME IInv PROVE NoSignalMissed
  <2>1. SUFFICES ASSUME NEW p \in Proc, NEW q \in Proc, work[p] = << >>, ~derailed[p]
                 PROVE  /\ ractive[p][q] /\ avail[q][p] > 0 => sigio[p]
                        /\ wactive[p][q] /\ Len(wire[p][q]) < SockCap => sigio[p]
                        /\ recv_q[p][Wild] # << >> /\ ~ractive[p][q] /\ avail[q][p] >= HdrSize => sigio[p]
    BY DEF NoSignalMissed
  <2>2. CASE q = p
    <3>1. ~ractive[p][q] /\ ~wactive[p][q] /\ avail[q][p] = 0
      BY <1>1, <2>2 DEF IInv, Always, OwnPart
    <3>2. ~(avail[q][p] >= HdrSize)
      BY <3>1, TcpMsgAssumption DEF TcpMsgAssumption
    <3> QED BY <3>1, <3>2
  <2>3. CASE q # p
    <3>1. SignalPart(work[p], ractive[p], wactive[p], recv_q[p][Wild], Len(wire[p][q]) < SockCap,
                     avail[q][p], sigio[p], q)
      BY <1>1, <2>1, <2>3 DEF IInv, In, Peers
    <3>2. \A call : ~HasTask(work[p], call, q)
      BY <2>1 DEF HasTask
    <3> QED BY <3>1, <3>2 DEF SignalPart
  <2> QED BY <2>2, <2>3
<1> QED BY <1>1, TcpMsgInvariance, PTL
=============================================================================
