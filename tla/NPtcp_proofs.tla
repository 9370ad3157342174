---------------------------- MODULE NPtcp_proofs ----------------------------
(***************************************************************************)
(* Over TCP no message is lost, duplicated or corrupted, and no connection *)
(* is reset: for any number of pairs (two or more of them with --bidir),   *)
(* of repeats, trials and tests, any message and socket sizes, with and    *)
(* without --reset.                                                        *)
(*                                                                         *)
(* The argument is in three parts.  The processes of a pair make and close *)
(* their connections in step (Socket, Linked), since a connection is as    *)
(* old as the rounds its process has finished.  The messages that a        *)
(* process has stamped and its pair has not checked are known from where   *)
(* the two are (Sent, Got).  The bytes between them are those messages, in *)
(* order (Pipe).                                                           *)
(***************************************************************************)
EXTENDS NPtcp, NetPIPE_proofs

-----------------------------------------------------------------------------
(***************************************************************************)
(* One direction of a connection.                                          *)
(***************************************************************************)

\* The bytes w are on their way: those of e messages, but for the "owed" bytes
\* that are not written yet and the "part" bytes that are read already.  The last
\* of the messages has the tag "set"; the first is the one after the tag "chk".
Pipe(w, e, owed, part, chk, set) ==
  /\ e \in Nat /\ owed \in 0 .. MsgSize /\ part \in 0 .. MsgSize
  /\ chk \in Tag /\ set = (chk + e) % TagMod
  /\ w \in Seq(Tag) /\ Len(w) + part = MsgSize * e - owed
  /\ \A i \in 1 .. Len(w) : \A m \in Nat :
       m * MsgSize < i + part /\ i + part <= m * MsgSize + MsgSize =>
         w[i] = (chk + m + 1) % TagMod

LEMMA TagFacts ==
  /\ TagMod \in Nat \ {0} /\ MsgSize \in Nat \ {0} /\ Tag = 0 .. TagMod - 1
  /\ \A a \in Int : a % TagMod \in Tag
  /\ \A a \in Int, b \in Int : ((a % TagMod) + b) % TagMod = (a + b) % TagMod
<1>1. TagMod \in Nat \ {0} /\ MsgSize \in Nat \ {0}
  BY NetPIPEAssumption, NPtcpAssumption
<1>2. ASSUME NEW a \in Int PROVE a % TagMod \in Tag
  BY <1>1, ModRange DEF Tag
<1>3. ASSUME NEW a \in Int, NEW b \in Int
      PROVE  ((a % TagMod) + b) % TagMod = (a + b) % TagMod
  BY <1>1, ModAdd
<1> QED BY <1>1, <1>2, <1>3 DEF Tag

\* The place of a byte tells the message it is of.
LEMMA MessageOf ==
  ASSUME NEW a \in Int, NEW b \in Int, NEW s \in Int,
         a * MsgSize < s, s <= a * MsgSize + MsgSize,
         b * MsgSize < s, s <= b * MsgSize + MsgSize
  PROVE  a = b
<1>1. MsgSize \in Nat \ {0}
  BY TagFacts
<1>2. CASE a < b
  <2>1. PICK d \in Nat : b = a + 1 + d
    <3>1. b - a - 1 \in Nat
      BY <1>2
    <3> QED BY <3>1
  <2>2. b * MsgSize = a * MsgSize + MsgSize + d * MsgSize /\ d * MsgSize >= 0
    BY <1>1, <2>1
  <2> QED BY <1>1, <2>2
<1>3. CASE b < a
  <2>1. PICK d \in Nat : a = b + 1 + d
    <3>1. a - b - 1 \in Nat
      BY <1>3
    <3> QED BY <3>1
  <2>2. a * MsgSize = b * MsgSize + MsgSize + d * MsgSize /\ d * MsgSize >= 0
    BY <1>1, <2>1
  <2> QED BY <1>1, <2>2
<1> QED BY <1>2, <1>3

\* What the figures of a direction are.
LEMMA PipeFacts ==
  ASSUME NEW w, NEW e, NEW owed, NEW part, NEW chk, NEW set, Pipe(w, e, owed, part, chk, set)
  PROVE  /\ e \in Nat /\ owed \in Nat /\ part \in Nat /\ chk \in Nat /\ chk \in Tag /\ set \in Tag
         /\ owed <= MsgSize /\ part <= MsgSize /\ MsgSize \in Nat \ {0} /\ MsgSize * e \in Int
         /\ w \in Seq(Tag) /\ Len(w) \in Nat /\ Len(w) + part = MsgSize * e - owed
         /\ set = (chk + e) % TagMod
<1>1. /\ e \in Nat /\ owed \in 0 .. MsgSize /\ part \in 0 .. MsgSize /\ chk \in Tag
      /\ w \in Seq(Tag) /\ Len(w) + part = MsgSize * e - owed /\ set = (chk + e) % TagMod
  BY DEF Pipe
<1>2. MsgSize \in Nat \ {0} /\ Tag = 0 .. TagMod - 1 /\ \A a \in Int : a % TagMod \in Tag
  BY TagFacts
<1>3. chk \in Nat /\ chk + e \in Int
  BY <1>1, <1>2, TagFacts
<1>4. MsgSize * e \in Int
  BY <1>1, <1>2
<1> QED BY <1>1, <1>2, <1>3, <1>4

\* Nothing is on its way when every message stamped has been checked.
LEMMA PipeEmpty ==
  ASSUME NEW w, NEW owed, NEW part, NEW chk, NEW set, Pipe(w, 0, owed, part, chk, set)
  PROVE  w = << >> /\ owed = 0 /\ part = 0 /\ set = chk
<1>1. /\ Len(w) + part = MsgSize * 0 - owed /\ Len(w) \in Nat /\ part \in Nat /\ owed \in Nat
      /\ w \in Seq(Tag) /\ set = (chk + 0) % TagMod /\ chk \in Tag /\ MsgSize \in Nat
  BY PipeFacts
<1>2. Len(w) = 0 /\ part = 0 /\ owed = 0
  BY <1>1
<1>3. set = chk
  <2>1. chk \in 0 .. TagMod - 1 /\ TagMod \in Nat \ {0} /\ chk + 0 = chk
    BY <1>1, TagFacts
  <2>2. chk % TagMod = chk
    BY <2>1
  <2> QED BY <1>1, <2>1, <2>2
<1> QED BY <1>1, <1>2, <1>3

\* SetupBufferData() stamps one more message, of which nothing is written yet.
LEMMA PipeStamp ==
  ASSUME NEW w, NEW e, NEW part, NEW chk, NEW set, Pipe(w, e, 0, part, chk, set)
  PROVE  Pipe(w, e + 1, MsgSize, part, chk, (set + 1) % TagMod)
<1>1. /\ e \in Nat /\ chk \in Nat /\ set = (chk + e) % TagMod /\ MsgSize \in Nat \ {0}
      /\ MsgSize * e \in Int /\ Len(w) \in Nat /\ part \in Nat
      /\ Len(w) + part = MsgSize * e - 0
  BY PipeFacts
<1>2. (set + 1) % TagMod = (chk + (e + 1)) % TagMod
  <2>1. PICK a \in Int : a = chk + e
    BY <1>1
  <2>2. ((a % TagMod) + 1) % TagMod = (a + 1) % TagMod
    <3>1. 1 \in Int
      OBVIOUS
    <3> QED BY <3>1, TagFacts, Zenon
  <2>3. a + 1 = chk + (e + 1)
    BY <1>1, <2>1
  <2> QED BY <1>1, <2>1, <2>2, <2>3
<1>3. Len(w) + part = MsgSize * (e + 1) - MsgSize
  <2>1. MsgSize * (e + 1) = MsgSize * e + MsgSize
    BY <1>1
  <2> QED BY <1>1, <2>1
<1>4. e + 1 \in Nat /\ MsgSize \in 0 .. MsgSize
  BY <1>1
<1> QED BY <1>2, <1>3, <1>4 DEF Pipe

\* write() takes k bytes of the message.
LEMMA PipeWrite ==
  ASSUME NEW w, NEW e, NEW owed, NEW part, NEW chk, NEW set, Pipe(w, e, owed, part, chk, set),
         NEW k \in 1 .. owed
  PROVE  Pipe(w \o [i \in 1 .. k |-> set], e, owed - k, part, chk, set)
<1> DEFINE bytes == [i \in 1 .. k |-> set]
           v == w \o bytes
<1>1. /\ e \in Nat /\ owed \in Nat /\ part \in Nat /\ chk \in Nat /\ owed <= MsgSize
      /\ MsgSize \in Nat \ {0} /\ k \in Nat /\ k >= 1 /\ k <= owed
  BY TagFacts DEF Pipe
<1>2. set \in Tag
  <2>1. chk + e \in Int
    BY <1>1
  <2> QED BY <2>1, TagFacts DEF Pipe
<1>3. bytes \in Seq(Tag) /\ Len(bytes) = k /\ \A i \in 1 .. k : bytes[i] = set
  BY <1>1, <1>2
<1>4. w \in Seq(Tag) /\ Len(w) + part = MsgSize * e - owed
  BY DEF Pipe
<1> HIDE DEF bytes
<1>5. /\ v \in Seq(Tag) /\ Len(v) = Len(w) + k
      /\ \A i \in 1 .. Len(w) : v[i] = w[i]
      /\ \A i \in Len(w) + 1 .. Len(w) + k : v[i] = set
  BY <1>1, <1>3, <1>4
<1> HIDE DEF v
<1>6. ASSUME NEW i \in 1 .. Len(v), NEW m \in Nat,
             m * MsgSize < i + part, i + part <= m * MsgSize + MsgSize
      PROVE  v[i] = (chk + m + 1) % TagMod
  <2>1. CASE i <= Len(w)
    <3>1. i \in 1 .. Len(w)
      BY <1>4, <1>5, <2>1
    <3> QED BY <1>5, <1>6, <3>1 DEF Pipe
  <2>2. CASE ~(i <= Len(w))
    <3>1. v[i] = set
      BY <1>4, <1>5, <2>2
    <3>2. (e - 1) * MsgSize = MsgSize * e - MsgSize /\ MsgSize * e \in Int
      BY <1>1
    <3>3. (e - 1) * MsgSize < i + part /\ i + part <= (e - 1) * MsgSize + MsgSize
      BY <1>1, <1>4, <1>5, <2>2, <3>2
    <3>4. m = e - 1
      <4>1. i + part \in Int /\ e - 1 \in Int /\ m \in Int
        BY <1>1, <1>4, <1>5
      <4> QED BY <1>6, <3>3, <4>1, MessageOf
    <3>5. chk + m + 1 = chk + e
      BY <1>1, <3>4
    <3> QED BY <3>1, <3>5 DEF Pipe
  <2> QED BY <2>1, <2>2
<1>7. Len(v) + part = MsgSize * e - (owed - k) /\ owed - k \in 0 .. MsgSize
  <2>1. MsgSize * e \in Int /\ Len(w) \in Nat
    BY <1>1, <1>4
  <2> QED BY <1>1, <1>4, <1>5, <2>1
<1>8. Pipe(v, e, owed - k, part, chk, set)
  BY <1>5, <1>6, <1>7 DEF Pipe
<1> QED BY <1>8 DEF v, bytes

\* read() gives k bytes: they are of the first message.
LEMMA PipeRead ==
  ASSUME NEW w, NEW e, NEW owed, NEW part, NEW chk, NEW set, Pipe(w, e, owed, part, chk, set),
         NEW k \in 1 .. MsgSize - part, k <= Len(w)
  PROVE  /\ Pipe(SubSeq(w, k + 1, Len(w)), e, owed, part + k, chk, set)
         /\ SubSeq(w, 1, k) \in Seq(Tag) /\ Len(SubSeq(w, 1, k)) = k
         /\ \A i \in 1 .. k : SubSeq(w, 1, k)[i] = (chk + 1) % TagMod
<1> DEFINE v == SubSeq(w, k + 1, Len(w))
<1>1. /\ e \in Nat /\ owed \in Nat /\ part \in Nat /\ chk \in Nat
      /\ MsgSize \in Nat \ {0} /\ k \in Nat /\ k >= 1 /\ part + k <= MsgSize
  BY TagFacts DEF Pipe
<1>2. w \in Seq(Tag) /\ Len(w) + part = MsgSize * e - owed /\ Len(w) \in Nat
  BY DEF Pipe
<1>3. /\ v \in Seq(Tag) /\ Len(v) = Len(w) - k
      /\ \A i \in 1 .. Len(w) - k : v[i] = w[i + k]
  BY <1>1, <1>2
<1>4. /\ SubSeq(w, 1, k) \in Seq(Tag) /\ Len(SubSeq(w, 1, k)) = k
      /\ \A i \in 1 .. k : SubSeq(w, 1, k)[i] = w[i]
  BY <1>1, <1>2
<1> HIDE DEF v
<1>5. ASSUME NEW i \in 1 .. Len(v), NEW m \in Nat,
             m * MsgSize < i + (part + k), i + (part + k) <= m * MsgSize + MsgSize
      PROVE  v[i] = (chk + m + 1) % TagMod
  <2>1. v[i] = w[i + k] /\ i + k \in 1 .. Len(w)
    BY <1>1, <1>2, <1>3
  <2>2. m * MsgSize < (i + k) + part /\ (i + k) + part <= m * MsgSize + MsgSize
    <3>1. i + (part + k) = (i + k) + part
      BY <1>1, <1>2, <1>3
    <3> QED BY <1>5, <3>1
  <2> QED BY <2>1, <2>2 DEF Pipe
<1>6. Len(v) + (part + k) = MsgSize * e - owed /\ part + k \in 0 .. MsgSize
  <2>1. Len(v) = Len(w) - k
    BY <1>3
  <2>2. MsgSize * e \in Int
    BY <1>1
  <2> HIDE <1>3
  <2> QED BY <1>1, <1>2, <2>1, <2>2
<1>7. Pipe(v, e, owed, part + k, chk, set)
  BY <1>3, <1>5, <1>6 DEF Pipe
<1>8. ASSUME NEW i \in 1 .. k PROVE w[i] = (chk + 1) % TagMod
  <2>1. i \in 1 .. Len(w) /\ i \in Int
    BY <1>1, <1>2
  <2>2. 0 * MsgSize < i + part /\ i + part <= 0 * MsgSize + MsgSize /\ 0 \in Nat
    BY <1>1, <2>1
  <2>3. w[i] = (chk + 0 + 1) % TagMod
    BY <2>1, <2>2 DEF Pipe
  <2>4. chk + 0 + 1 = chk + 1
    BY <1>1
  <2> QED BY <2>3, <2>4
<1> QED BY <1>4, <1>7, <1>8 DEF v

\* CheckBufferData() takes a message that has been read.
LEMMA PipeCheck ==
  ASSUME NEW w, NEW e, NEW owed, NEW chk, NEW set, Pipe(w, e, owed, MsgSize, chk, set)
  PROVE  e >= 1 /\ Pipe(w, e - 1, owed, 0, (chk + 1) % TagMod, set)
<1> DEFINE new == (chk + 1) % TagMod
<1>1. /\ e \in Nat /\ owed \in Nat /\ chk \in Nat /\ MsgSize \in Nat \ {0}
      /\ w \in Seq(Tag) /\ Len(w) \in Nat /\ Len(w) + MsgSize = MsgSize * e - owed
  BY PipeFacts
<1>2. e >= 1
  <2>1. CASE e = 0
    BY <1>1, <2>1
  <2> QED BY <1>1, <2>1
<1>3. Len(w) + 0 = MsgSize * (e - 1) - owed
  <2>1. MsgSize * (e - 1) = MsgSize * e - MsgSize /\ MsgSize * e \in Int
    BY <1>1
  <2> QED BY <1>1, <2>1
<1>4. chk + 1 \in Int /\ new \in Tag
  <2>1. chk + 1 \in Int
    BY <1>1
  <2> QED BY <2>1, TagFacts
<1>5. \A a \in Int : (new + a) % TagMod = (chk + 1 + a) % TagMod
  BY <1>4, TagFacts
<1> HIDE DEF new
<1>6. set = (new + (e - 1)) % TagMod
  <2>1. chk + 1 + (e - 1) = chk + e /\ e - 1 \in Int
    BY <1>1
  <2> QED BY <1>5, <2>1 DEF Pipe
<1>7. ASSUME NEW i \in 1 .. Len(w), NEW m \in Nat,
             m * MsgSize < i + 0, i + 0 <= m * MsgSize + MsgSize
      PROVE  w[i] = (new + m + 1) % TagMod
  <2>1. (m + 1) * MsgSize = m * MsgSize + MsgSize /\ m + 1 \in Nat /\ m * MsgSize \in Int
    BY <1>1
  <2>2. (m + 1) * MsgSize < i + MsgSize /\ i + MsgSize <= (m + 1) * MsgSize + MsgSize
    BY <1>1, <1>7, <2>1
  <2>3. w[i] = (chk + (m + 1) + 1) % TagMod
    BY <2>1, <2>2 DEF Pipe
  <2>4. new \in Int /\ m + 1 \in Int /\ new + m + 1 = new + (m + 1)
        /\ chk + 1 + (m + 1) = chk + (m + 1) + 1
    BY <1>1, <1>4, TagFacts
  <2> QED BY <1>5, <2>3, <2>4
<1>8. Pipe(w, e - 1, owed, 0, new, set)
  BY <1>1, <1>2, <1>3, <1>4, <1>6, <1>7 DEF Pipe
<1> QED BY <1>2, <1>8 DEF new
-----------------------------------------------------------------------------
(***************************************************************************)
(* The driver, linked with tcp.c.                                          *)
(***************************************************************************)

\* What a step does to the driver's control.
LEMMA StepOfDriver ==
  ASSUME NEW p \in Proc, Step(p)
  PROVE  \/ UNCHANGED <<pc, inside, colls, loopVars>>
         \/ DriverReset(p) \/ DriverSend(p) \/ DriverSent(p) \/ DriverRecv(p)
         \/ EnterCollective(p) \/ LeaveNrepeat(p) \/ LeaveFinish(p) \/ LeaveSync(p)
         \/ LeaveEndsync(p) \/ LeaveTimes(p) \/ LeaveGather(p)
<1>1. CASE Listen(p) \/ Connect(p) \/ Refused(p) \/ Close(p) \/ Write(p) \/ Read(p)
  BY <1>1 DEF Listen, Connect, Refused, Close, Write, Read, driverVars
<1>2. CASE Accept(p) \/ ReadSync(p)
  BY <1>2 DEF Accept, ReadSync, Established, driverVars
<1>3. CASE NoReset(p) \/ Driver(p)
  BY <1>3 DEF NoReset, Driver
<1>4. CASE SendData(p) \/ Written(p) \/ RecvData(p)
  BY <1>4 DEF SendData, Written, RecvData
<1> QED BY <1>1, <1>2, <1>3, <1>4 DEF Step

\* Every step preserves the two invariants of the driver.
LEMMA StepDriver ==
  ASSUME Aligned, DriverInv, RoundInv, NEW p \in Proc, Step(p)
  PROVE  DriverInv' /\ RoundInv'
<1>1. CASE UNCHANGED <<pc, inside, colls, loopVars>>
  BY <1>1, StutterDriver, StutterRounds
<1>2. CASE DriverReset(p)
  BY <1>2, DriverResetInv, DriverResetRounds
<1>3. CASE DriverSend(p)
  BY <1>3, DriverSendInv, DriverSendRounds
<1>4. CASE DriverSent(p)
  BY <1>4, DriverSentInv, DriverSentRounds
<1>5. CASE DriverRecv(p)
  BY <1>5, DriverRecvInv, DriverRecvRounds
<1>6. CASE EnterCollective(p)
  BY <1>6, EnterInv, EnterRounds
<1>7. CASE LeaveNrepeat(p)
  BY <1>7, LeaveNrepeatInv, LeaveNrepeatRounds
<1>8. CASE LeaveFinish(p)
  BY <1>8, LeaveFinishInv, LeaveFinishRounds
<1>9. CASE LeaveSync(p)
  BY <1>9, LeaveSyncInv, LeaveSyncRounds
<1>10. CASE LeaveEndsync(p)
  BY <1>10, LeaveEndsyncInv, LeaveEndsyncRounds
<1>11. CASE LeaveTimes(p)
  BY <1>11, LeaveTimesInv, LeaveTimesRounds
<1>12. CASE LeaveGather(p)
  BY <1>12, LeaveGatherInv, LeaveGatherRounds
<1> QED BY <1>1, <1>2, <1>3, <1>4, <1>5, <1>6, <1>7, <1>8, <1>9, <1>10, <1>11, <1>12, StepOfDriver

-----------------------------------------------------------------------------
(***************************************************************************)
(* The invariant.                                                          *)
(***************************************************************************)

\* The bytes p has still to write, and has read, of a message.
Owed(p) == IF pc[p] = "sending" THEN MsgSize - Len(done[p]) ELSE 0
Part(p) == IF pc[p] = "recv" THEN Len(done[p]) ELSE 0

\* The connection of p and its pair, the last they both asked for.
Conn(p) == IF age[p] <= age[Pair(p)] THEN age[p] ELSE age[Pair(p)]

\* p is to read the greeting of its pair; the data come behind it.
Greeted(p) == setup[p] = "sync" /\ setup[Pair(p)] = "up"
Data(p)    == IF Greeted(p) THEN << >> ELSE wire[p][Conn(p)]

Setups == {"exchange", "connect", "accept", "sync", "up"}

Shapes ==
  /\ reset_conn \in BOOLEAN
  /\ setup   \in [Proc -> Setups]
  /\ age     \in [Proc -> Ages]
  /\ serv_sd \in [Proc -> BOOLEAN]
  /\ backlog \in [Proc -> Seq(Nat)]
  /\ comm_sd \in [Proc -> Nat]
  /\ done    \in [Proc -> Seq(Tag)]

\* The sockets p has, by where it is in Module_Setup(); with --reset it has been
\* there once for every round it has finished.
Socket(p) ==
  /\ serv_sd[p] = (setup[p] # "exchange")
  /\ comm_sd[p] = IF setup[p] \in {"sync", "up"} THEN age[p] ELSE 0
  /\ backlog[p] = IF setup[p] = "accept" /\ setup[Pair(p)] = "sync" THEN <<age[p]>> ELSE << >>
  /\ setup[p] # "up" => \/ pc[p] = "nrepeat" /\ ~inside[p] /\ colls[p] = << >>
                        \/ reset_conn /\ pc[p] = "reset"
  /\ reset_conn =>
       age[p] + NTrials = Round(p) + (IF setup[p] # "up" /\ pc[p] = "reset" THEN 2 ELSE 1)
  /\ ~reset_conn => age[p] = 1

\* How far p, which connects, and its pair are with their connection.
Linked(p) ==
  LET q == Pair(p)
  IN  \/ age[p] = age[q] /\ setup[p] \in {"exchange", "connect"} /\ setup[q] \in {"exchange", "accept"}
      \/ age[p] = age[q] /\ setup[p] = "sync" /\ setup[q] \in {"accept", "up"}
      \/ age[p] = age[q] /\ setup[p] = "up" /\ setup[q] = "up"
      \/ age[p] = age[q] + 1 /\ setup[p] = "exchange" /\ setup[q] = "up"
      \/ age[q] = age[p] + 1 /\ setup[q] = "exchange" /\ setup[p] = "up"

\* The calls p makes, and the bytes it has handled in the one it is in.
Calls(p) ==
  /\ pc[p] \notin {"burst", "prepostFirst", "prepost", "prepostNext"}
  /\ pc[p] \in {"send", "sending"} => Sends(p)
  /\ pc[p] = "recv" => Receives(p)
  /\ Len(done[p]) <= MsgSize
  /\ pc[p] \notin {"sending", "recv"} => done[p] = << >>

SocketInv ==
  /\ Shapes
  /\ \A p \in Proc : Socket(p) /\ Calls(p) /\ (Connector(p) => Linked(p))

\* What is on its way to p.
Stream(p) ==
  /\ Pipe(Data(p), Unchecked(Pair(p), p), Owed(Pair(p)), Part(p), chkTag[p], setTag[Pair(p)])
  /\ Greeted(p) => wire[p][Conn(p)] = <<Sync>>
  /\ \A c \in Ages : c # Conn(p) => wire[p][c] = << >>

\* What p's buffers hold of the message it sends or receives.
Buffers(p) ==
  /\ pc[p] = "sending" => buf[p][s_ptr[p]] = setTag[p]
  /\ pc[p] = "recv" =>
       \A i \in 1 .. Len(done[p]) : /\ done[p][i] = (chkTag[p] + 1) % TagMod
                                    /\ buf[p][r_ptr[p]] = done[p][i]
  /\ failures[p] = 0

StreamInv ==
  /\ BufferTypeOK
  /\ wire = [p \in Proc |-> [c \in Ages |-> wire[p][c]]]
  /\ broken = {}
  /\ \A p \in Proc : Stream(p) /\ Buffers(p)

\* The inductive invariant.
TcpInv == DriverInv /\ RoundInv /\ SocketInv /\ StreamInv

-----------------------------------------------------------------------------
(***************************************************************************)
(* What it says of a pair.                                                 *)
(***************************************************************************)

LEMMA PairSides ==
  ASSUME NEW p \in Proc
  PROVE  Connector(p) <=> ~Connector(Pair(p))
<1>1. NPairs \in Nat \ {0} /\ p \in 0 .. 2 * NPairs - 1
  BY NetPIPEAssumption DEF Proc, NProcs
<1>2. Pair(p) = 2 * NPairs - 1 - p
  BY DEF Pair, NProcs
<1> QED BY <1>1, <1>2 DEF Connector

\* Whatever the side p is on, it and its pair have asked for the same connection,
\* but one that has closed the last and waits for the other.
LEMMA Sides ==
  ASSUME SocketInv, NEW p \in Proc
  PROVE  LET q == Pair(p) IN
         \/ age[p] = age[q] /\ setup[p] # "up" /\ setup[q] # "up"
         \/ age[p] = age[q] /\ setup[p] = "sync" /\ setup[q] = "up"
         \/ age[p] = age[q] /\ setup[p] = "up" /\ setup[q] = "sync"
         \/ age[p] = age[q] /\ setup[p] = "up" /\ setup[q] = "up"
         \/ age[p] = age[q] + 1 /\ setup[p] = "exchange" /\ setup[q] = "up"
         \/ age[q] = age[p] + 1 /\ setup[q] = "exchange" /\ setup[p] = "up"
<1>1. CASE Connector(p)
  BY <1>1 DEF SocketInv, Linked
<1>2. CASE ~Connector(p)
  BY <1>2, PairFacts, PairSides DEF SocketInv, Linked
<1> QED BY <1>1, <1>2

\* The ages are numbers.
LEMMA AgeFacts ==
  ASSUME SocketInv, NEW p \in Proc
  PROVE  /\ age[p] \in Nat /\ age[p] \in Ages /\ age[Pair(p)] \in Nat
         /\ Conn(p) \in Ages /\ Conn(p) = Conn(Pair(p))
<1>1. Pair(p) \in Proc /\ Pair(Pair(p)) = p
  BY PairFacts
<1>2. age[p] \in Ages /\ age[Pair(p)] \in Ages
  BY <1>1 DEF SocketInv, Shapes
<1>3. Ages \subseteq Nat
  BY DEF Ages
<1>4. age[p] \in Nat /\ age[Pair(p)] \in Nat
  BY <1>2, <1>3
<1>5. Conn(Pair(p)) = IF age[Pair(p)] <= age[p] THEN age[Pair(p)] ELSE age[p]
  BY <1>1 DEF Conn
<1>6. Conn(p) = IF age[p] <= age[Pair(p)] THEN age[p] ELSE age[Pair(p)]
  BY DEF Conn
<1> QED BY <1>2, <1>4, <1>5, <1>6

\* A process whose pair is up and in a trial is up too, or has closed the connection
\* of that trial.
LEMMA TrialLink ==
  ASSUME DriverInv, RoundInv, SocketInv, NEW p \in Proc, InTrial(p), setup[p] = "up"
  PROVE  /\ \/ setup[Pair(p)] = "up" /\ age[Pair(p)] = age[p]
            \/ /\ setup[Pair(p)] = "exchange" /\ age[Pair(p)] = age[p] + 1
               /\ pc[Pair(p)] = "reset" /\ reset_conn
         /\ Conn(p) = age[p] /\ Conn(Pair(p)) = age[p] /\ comm_sd[p] = age[p]
         /\ ~Greeted(p) /\ ~Greeted(Pair(p))
<1> DEFINE q == Pair(p)
<1>1. q \in Proc /\ Pair(q) = p
  BY PairFacts
<1> HIDE DEF q
<1>2. age[p] \in Nat /\ age[q] \in Nat /\ NTrials \in Nat
  BY AgeFacts, NetPIPEAssumption DEF q
<1>3. CASE setup[q] = "up"
  <2>1. age[q] = age[p]
    BY <1>2, <1>3, Sides DEF q
  <2> QED BY <1>1, <1>2, <1>3, <2>1 DEF q, Conn, Greeted, SocketInv, Socket
<1>4. CASE setup[q] # "up"
  <2>1. \/ pc[q] = "nrepeat" /\ ~inside[q] /\ colls[q] = << >>
        \/ reset_conn /\ pc[q] = "reset"
    BY <1>1, <1>4 DEF SocketInv, Socket
  <2>2. colls[q] # << >>
    <3>1. PICK k \in 1 .. Len(colls[q]) : colls[q][k] \in CallRecord
      BY <1>1, CalledSync
    <3> QED BY <3>1
  <2>3. reset_conn /\ pc[q] = "reset" /\ InTrial(q)
    BY <2>1, <2>2 DEF InTrial, TrialLabels
  <2>4. Round(p) = Round(q) /\ Round(p) \in Nat
    <3>1. Round(p) <= Round(q) /\ Round(q) <= Round(p)
      BY <1>1, <2>3, TrialIsLast
    <3>2. Round(p) \in Nat /\ Round(q) \in Nat
      BY <1>1, RoundType DEF DriverInv
    <3> QED BY <3>1, <3>2
  <2>5. age[p] + NTrials = Round(p) + 1 /\ age[q] + NTrials = Round(q) + 2
    BY <1>1, <1>4, <2>3 DEF SocketInv, Socket
  <2>6. age[q] = age[p] + 1
    BY <1>2, <2>4, <2>5
  <2>7. setup[q] = "exchange"
    BY <1>2, <1>4, <2>6, Sides DEF q
  <2>8. comm_sd[p] = age[p]
    BY DEF SocketInv, Socket
  <2>9. Conn(p) = age[p] /\ Conn(q) = age[p]
    <3>1. Conn(p) = IF age[p] <= age[q] THEN age[p] ELSE age[q]
      BY DEF Conn, q
    <3>2. Conn(q) = IF age[q] <= age[p] THEN age[q] ELSE age[p]
      BY <1>1 DEF Conn
    <3> QED BY <1>2, <2>6, <3>1, <3>2
  <2>10. ~Greeted(p) /\ ~Greeted(q)
    BY <2>7 DEF Greeted
  <2> QED BY <2>3, <2>6, <2>7, <2>8, <2>9, <2>10 DEF q
<1> QED BY <1>3, <1>4
-----------------------------------------------------------------------------
(***************************************************************************)
(* Counting messages.                                                      *)
(***************************************************************************)

\* A process outside its trial, or at its end, handles no message.
LEMMA OwnBytes ==
  ASSUME SocketInv
  PROVE  /\ SendersSend
         /\ \A p \in Proc :
              /\ ~InTrial(p) => Owed(p) = 0 /\ Part(p) = 0 /\ done[p] = << >>
              /\ pc[p] = "reset" => Owed(p) = 0 /\ Part(p) = 0
<1>1. SendersSend
  BY DEF SendersSend, SocketInv, Calls
<1>2. ASSUME NEW p \in Proc
      PROVE  /\ ~InTrial(p) => Owed(p) = 0 /\ Part(p) = 0 /\ done[p] = << >>
             /\ pc[p] = "reset" => Owed(p) = 0 /\ Part(p) = 0
  <2>1. pc[p] \notin {"sending", "recv"} => done[p] = << >>
    BY DEF SocketInv, Calls
  <2>2. ~InTrial(p) => pc[p] \notin {"sending", "recv"}
    BY DEF InTrial, TrialLabels, LoopLabels
  <2> QED BY <2>1, <2>2 DEF Owed, Part
<1> QED BY <1>1, <1>2

\* So nothing is on its way to it.
LEMMA Drained ==
  ASSUME DriverInv, RoundInv, SocketInv, StreamInv, NEW p \in Proc, pc[p] = "reset"
  PROVE  Data(p) = << >>
<1> DEFINE q == Pair(p)
           e == Unchecked(q, p)
<1>1. Pipe(Data(p), e, Owed(q), Part(p), chkTag[p], setTag[q])
  BY DEF StreamInv, Stream
<1>2. e <= 0
  BY NoneLeft, OwnBytes
<1> HIDE DEF e
<1>3. e = 0
  BY <1>1, <1>2, PipeFacts
<1> QED BY <1>1, <1>3, PipeEmpty

\* Nor is anything on a connection that is being made.
LEMMA Fresh ==
  ASSUME DriverInv, RoundInv, SocketInv, StreamInv, NEW p \in Proc,
         setup[p] # "up", setup[Pair(p)] # "up"
  PROVE  Data(p) = << >> /\ ~Greeted(p)
<1> DEFINE q == Pair(p)
           e == Unchecked(q, p)
<1>1. q \in Proc /\ Pipe(Data(p), e, Owed(q), Part(p), chkTag[p], setTag[q])
  BY PairFacts DEF StreamInv, Stream
<1>2. CASE pc[p] = "reset"
  BY <1>2, Drained DEF Greeted
<1>3. CASE pc[p] # "reset"
  <2>1. pc[p] = "nrepeat" /\ colls[p] = << >>
    BY <1>3 DEF SocketInv, Socket
  <2>2. ~InTrial(p) /\ ~Committed(p)
    BY <2>1 DEF InTrial, Committed, TrialLabels, LoopLabels
  <2>3. ~InTrial(q)
    <3>1. SUFFICES ASSUME InTrial(q) PROVE FALSE
      OBVIOUS
    <3>2. PICK k \in 1 .. Len(colls[p]) : colls[p][k] \in CallRecord
      BY <1>1, <3>1, CalledSync
    <3> QED BY <2>1, <3>2
  <2>4. pc[q] # "reset"
    BY <2>3 DEF InTrial, TrialLabels
  <2>5. pc[q] = "nrepeat"
    BY <1>1, <2>4 DEF SocketInv, Socket
  <2>6. ~Committed(q)
    BY <2>5 DEF InTrial, Committed, TrialLabels, LoopLabels
  <2>7. ~(Round(p) > Round(q)) /\ ~(Round(q) > Round(p))
    BY <1>1, <2>2, <2>6 DEF RoundInv
  <2>8. OwnSent(q) = 0 /\ OwnGot(p) = 0
    BY <1>1, <2>2, <2>3, OwnFacts, OwnBytes
  <2>9. e = 0
    BY <2>5, <2>7, <2>8 DEF Unchecked, Sent, Got
  <2> HIDE DEF e
  <2>10. Data(p) = << >>
    BY <1>1, <2>9, PipeEmpty
  <2> QED BY <2>10 DEF Greeted
<1> QED BY <1>2, <1>3

-----------------------------------------------------------------------------
(***************************************************************************)
(* What a step of p leaves alone.                                          *)
(***************************************************************************)

\* The pairs other than that of p have the sockets and the buffers they had.
Apart(p) ==
  \A x \in Proc : x # p /\ x # Pair(p) =>
    /\ setup'[x] = setup[x] /\ age'[x] = age[x] /\ serv_sd'[x] = serv_sd[x]
    /\ backlog'[x] = backlog[x] /\ comm_sd'[x] = comm_sd[x]
    /\ wire'[x] = wire[x] /\ done'[x] = done[x]
    /\ buf'[x] = buf[x] /\ s_ptr'[x] = s_ptr[x] /\ r_ptr'[x] = r_ptr[x]
    /\ setTag'[x] = setTag[x] /\ chkTag'[x] = chkTag[x] /\ failures'[x] = failures[x]

LEMMA OtherPairs ==
  ASSUME SocketInv, StreamInv, NEW p \in Proc, OthersStay(p), Apart(p), UNCHANGED reset_conn,
         NEW x \in Proc, x # p, x # Pair(p)
  PROVE  /\ Socket(x)' /\ Calls(x)' /\ (Connector(x) => Linked(x)')
         /\ Stream(x)' /\ Buffers(x)'
<1> DEFINE y == Pair(x)
<1>1. y \in Proc /\ Pair(y) = x /\ y # p /\ y # Pair(p)
  BY PairFacts, PairSides
<1> HIDE DEF y
<1>2. /\ setup'[x] = setup[x] /\ age'[x] = age[x] /\ serv_sd'[x] = serv_sd[x]
      /\ backlog'[x] = backlog[x] /\ comm_sd'[x] = comm_sd[x]
      /\ wire'[x] = wire[x] /\ done'[x] = done[x]
      /\ buf'[x] = buf[x] /\ s_ptr'[x] = s_ptr[x] /\ r_ptr'[x] = r_ptr[x]
      /\ setTag'[x] = setTag[x] /\ chkTag'[x] = chkTag[x] /\ failures'[x] = failures[x]
  BY DEF Apart
<1>3. /\ setup'[y] = setup[y] /\ age'[y] = age[y] /\ done'[y] = done[y]
      /\ setTag'[y] = setTag[y]
  BY <1>1 DEF Apart
<1>4. /\ pc'[x] = pc[x] /\ inside'[x] = inside[x] /\ colls'[x] = colls[x]
      /\ Round(x)' = Round(x) /\ pc'[y] = pc[y]
  BY <1>1, SameDriver
<1>5. Socket(x) /\ Calls(x) /\ (Connector(x) => Linked(x)) /\ Stream(x) /\ Buffers(x)
  BY DEF SocketInv, StreamInv
<1>6. Socket(x)'
  BY <1>2, <1>3, <1>4, <1>5 DEF Socket, y
<1>7. Calls(x)'
  BY <1>2, <1>4, <1>5 DEF Calls, Sends, Receives
<1>8. Connector(x) => Linked(x)'
  BY <1>2, <1>3, <1>5 DEF Linked, y
<1>9. Buffers(x)'
  BY <1>2, <1>4, <1>5 DEF Buffers
<1>10. Conn(x)' = Conn(x) /\ Greeted(x)' = Greeted(x)
  BY <1>2, <1>3 DEF Conn, Greeted, y
<1>11. Data(x)' = Data(x)
  BY <1>2, <1>10 DEF Data
<1>12. Unchecked(y, x)' = Unchecked(y, x) /\ Owed(y)' = Owed(y) /\ Part(x)' = Part(x)
  BY <1>1, <1>2, <1>3, <1>4, OtherCounts DEF Owed, Part
<1>13. Stream(x)'
  BY <1>2, <1>3, <1>5, <1>10, <1>11, <1>12 DEF Stream, y
<1> QED BY <1>6, <1>7, <1>8, <1>9, <1>13

\* So a step of p is a matter of p and its pair.
LEMMA PairStep ==
  ASSUME SocketInv, StreamInv, NEW p \in Proc, OthersStay(p), Apart(p), UNCHANGED reset_conn,
         Shapes', Socket(p)', Calls(p)', Socket(Pair(p))', Calls(Pair(p))',
         Connector(p) => Linked(p)', Connector(Pair(p)) => Linked(Pair(p))',
         BufferTypeOK', wire' = [x \in Proc |-> [c \in Ages |-> wire'[x][c]]], broken' = {},
         Stream(p)', Buffers(p)', Stream(Pair(p))', Buffers(Pair(p))'
  PROVE  SocketInv' /\ StreamInv'
<1>1. \A x \in Proc : x # p /\ x # Pair(p) =>
        /\ Socket(x)' /\ Calls(x)' /\ (Connector(x) => Linked(x)')
        /\ Stream(x)' /\ Buffers(x)'
  BY OtherPairs
<1>2. \A x \in Proc : Socket(x)' /\ Calls(x)' /\ (Connector(x) => Linked(x)')
  BY <1>1
<1>3. \A x \in Proc : Stream(x)' /\ Buffers(x)'
  BY <1>1
<1>4. SocketInv'
  BY <1>2 DEF SocketInv, Connector
<1>5. StreamInv'
  BY <1>3 DEF StreamInv
<1> QED BY <1>4, <1>5

\* A step that touches no socket.
SocketsStay == UNCHANGED <<reset_conn, setup, age, serv_sd, backlog, comm_sd, broken>>

LEMMA SocketsKept ==
  ASSUME SocketInv, NEW p \in Proc, OthersStay(p), SocketsStay, setup[p] = "up",
         Round(p)' = Round(p) \/ ~reset_conn
  PROVE  \A x \in Pairing(p) :
           /\ Socket(x)' /\ (Connector(x) => Linked(x)')
           /\ Conn(x)' = Conn(x) /\ Greeted(x)' = Greeted(x) /\ pc'[Pair(p)] = pc[Pair(p)]
<1>1. /\ reset_conn' = reset_conn /\ setup' = setup /\ age' = age /\ serv_sd' = serv_sd
      /\ backlog' = backlog /\ comm_sd' = comm_sd
  BY DEF SocketsStay
<1>2. Pair(p) \in Proc /\ Pair(p) # p
  BY PairFacts, PairSides
<1>3. /\ pc'[Pair(p)] = pc[Pair(p)] /\ inside'[Pair(p)] = inside[Pair(p)]
      /\ colls'[Pair(p)] = colls[Pair(p)] /\ Round(Pair(p))' = Round(Pair(p))
  BY <1>2, SameDriver
<1>4. \A x \in Proc : Socket(x) /\ (Connector(x) => Linked(x))
  BY DEF SocketInv
<1>5. Socket(p)'
  BY <1>1, <1>4 DEF Socket
<1>6. Socket(Pair(p))'
  BY <1>1, <1>2, <1>3, <1>4 DEF Socket
<1>7. \A x \in Proc : /\ Connector(x) => Linked(x)'
                      /\ Conn(x)' = Conn(x) /\ Greeted(x)' = Greeted(x)
  BY <1>1, <1>4 DEF Linked, Conn, Greeted
<1> QED BY <1>2, <1>3, <1>5, <1>6, <1>7 DEF Pairing

\* p moves in the main loop, or handles a part of a message.
LEMMA MoveStep ==
  ASSUME SocketInv, StreamInv, NEW p \in Proc, NEW q, q = Pair(p),
         OthersStay(p), SocketsStay, setup[p] = "up",
         Round(p)' = Round(p) \/ ~reset_conn, Apart(p),
         wire' = [x \in Proc |-> [c \in Ages |-> wire'[x][c]]], done' \in [Proc -> Seq(Tag)],
         done'[q] = done[q], buf'[q] = buf[q], s_ptr'[q] = s_ptr[q], r_ptr'[q] = r_ptr[q],
         setTag'[q] = setTag[q], chkTag'[q] = chkTag[q], failures'[q] = failures[q],
         Calls(p)', Buffers(p)', BufferTypeOK',
         \A c \in Ages : c # Conn(p) => wire'[p][c] = << >>,
         \A c \in Ages : c # Conn(q) => wire'[q][c] = << >>,
         Greeted(p) => wire'[p][Conn(p)] = <<Sync>>,
         Greeted(q) => wire'[q][Conn(q)] = <<Sync>>,
         Pipe(Data(p)', Unchecked(q, p)', Owed(q), Part(p)', chkTag'[p], setTag[q]),
         Pipe(Data(q)', Unchecked(p, q)', Owed(p)', Part(q), chkTag[q], setTag'[p])
  PROVE  SocketInv' /\ StreamInv'
<1>1. q \in Proc /\ Pair(q) = p /\ q # p
  BY PairFacts
<1>2. \A x \in Pairing(p) :
           /\ Socket(x)' /\ (Connector(x) => Linked(x)')
           /\ Conn(x)' = Conn(x) /\ Greeted(x)' = Greeted(x) /\ pc'[Pair(p)] = pc[Pair(p)]
  BY SocketsKept
<1>3. /\ Socket(p)' /\ (Connector(p) => Linked(p)')
      /\ Conn(p)' = Conn(p) /\ Greeted(p)' = Greeted(p)
      /\ Socket(q)' /\ (Connector(q) => Linked(q)')
      /\ Conn(q)' = Conn(q) /\ Greeted(q)' = Greeted(q) /\ pc'[q] = pc[q]
  BY <1>2 DEF Pairing
<1>4. Owed(q)' = Owed(q) /\ Part(q)' = Part(q)
  BY <1>3 DEF Owed, Part
<1>5. Calls(q)' /\ Buffers(q)'
  BY <1>1, <1>3 DEF SocketInv, StreamInv, Calls, Buffers, Sends, Receives
<1>6. Shapes'
  BY DEF SocketInv, Shapes, SocketsStay
<1>7. Stream(p)'
  BY <1>3, <1>4 DEF Stream
<1>8. Stream(q)'
  BY <1>1, <1>3, <1>4 DEF Stream
<1>9. broken' = {} /\ UNCHANGED reset_conn
  BY DEF SocketsStay, StreamInv
<1> QED BY <1>3, <1>5, <1>6, <1>7, <1>8, <1>9, PairStep

\* p moves, and no message is handled.
LEMMA QuietStep ==
  ASSUME SocketInv, StreamInv, NEW p \in Proc, OthersStay(p), UNCHANGED tcpVars,
         setup[p] = "up", Round(p)' = Round(p) \/ ~reset_conn,
         pc[p] \notin {"sending", "recv"}, pc'[p] # "sending", Calls(p)',
         Unchecked(p, Pair(p))' = Unchecked(p, Pair(p)),
         Unchecked(Pair(p), p)' = Unchecked(Pair(p), p),
         UNCHANGED <<setTag, chkTag>>, failures'[p] = failures[p], BufferTypeOK',
         \A x \in Proc : x # p => /\ buf'[x] = buf[x] /\ s_ptr'[x] = s_ptr[x]
                                  /\ r_ptr'[x] = r_ptr[x] /\ failures'[x] = failures[x]
  PROVE  SocketInv' /\ StreamInv'
<1> DEFINE q == Pair(p)
<1>1. q \in Proc /\ Pair(q) = p /\ q # p
  BY PairFacts
<1>2. /\ SocketsStay /\ wire' = wire /\ done' = done /\ setup' = setup /\ age' = age
  BY DEF SocketsStay, tcpVars
<1>3. Calls(p) /\ Stream(p) /\ Stream(q) /\ Buffers(p)
  BY <1>1 DEF SocketInv, StreamInv
<1>4. done[p] = << >> /\ Len(done[p]) = 0
  BY <1>3 DEF Calls
<1>5. Apart(p)
  BY <1>2 DEF Apart, SocketsStay
<1>6. Part(p)' = Part(p) /\ Owed(p)' = Owed(p)
  BY <1>2, <1>4 DEF Part, Owed
<1>7. Data(p)' = Data(p) /\ Data(q)' = Data(q)
  BY <1>2 DEF Data, Greeted, Conn
<1>8. Buffers(p)'
  BY <1>2, <1>3, <1>4 DEF Buffers
<1>9. wire' = [x \in Proc |-> [c \in Ages |-> wire'[x][c]]] /\ done' \in [Proc -> Seq(Tag)]
  BY <1>2 DEF StreamInv, SocketInv, Shapes
<1>10. /\ \A c \in Ages : c # Conn(p) => wire'[p][c] = << >>
       /\ \A c \in Ages : c # Conn(q) => wire'[q][c] = << >>
       /\ Greeted(p) => wire'[p][Conn(p)] = <<Sync>>
       /\ Greeted(q) => wire'[q][Conn(q)] = <<Sync>>
  BY <1>2, <1>3 DEF Stream
<1>11. /\ Pipe(Data(p)', Unchecked(q, p)', Owed(q), Part(p)', chkTag'[p], setTag[q])
       /\ Pipe(Data(q)', Unchecked(p, q)', Owed(p)', Part(q), chkTag[q], setTag'[p])
  BY <1>1, <1>3, <1>6, <1>7 DEF Stream
<1>12. /\ done'[q] = done[q] /\ buf'[q] = buf[q] /\ s_ptr'[q] = s_ptr[q] /\ r_ptr'[q] = r_ptr[q]
       /\ setTag'[q] = setTag[q] /\ chkTag'[q] = chkTag[q] /\ failures'[q] = failures[q]
  BY <1>1, <1>2
<1> HIDE DEF q
<1> QED BY <1>2, <1>5, <1>8, <1>9, <1>10, <1>11, <1>12, MoveStep DEF q

-----------------------------------------------------------------------------
(***************************************************************************)
(* The collectives, and Reset() without --reset.                           *)
(***************************************************************************)

\* Nothing is preposted with TCP.
LEMMA Starts ==
  ASSUME NEW p \in Proc
  PROVE  /\ TrialStart(p) = "sync"
         /\ \/ IterationStart(p) = "recv" /\ ~Transmitter(p) /\ Receives(p)
            \/ IterationStart(p) = "send" /\ Transmitter(p) /\ Sends(p)
         /\ AfterRecv(p) \in {"iterate", "send"}
<1>1. ~Async /\ ~Burst
  BY NetPIPEAssumption, NPtcpAssumption
<1> QED BY <1>1 DEF TrialStart, IterationStart, AfterRecv, Sends, Receives

\* A process between the message loop and another place outside it.
LEMMA OutsideStep ==
  ASSUME DriverInv, RoundInv, SocketInv, StreamInv, NEW p \in Proc, RoundStep(p),
         UNCHANGED tcpVars, setup[p] = "up", Committed(p) => nrepeat'[p] = nrepeat[p],
         ~InLoop(p), OwnSent(p)' = OwnSent(p), OwnGot(p)' = OwnGot(p), Calls(p)',
         pc'[p] # "sending", UNCHANGED <<setTag, chkTag>>, failures'[p] = 0, BufferTypeOK',
         \A x \in Proc : x # p => /\ buf'[x] = buf[x] /\ s_ptr'[x] = s_ptr[x]
                                  /\ r_ptr'[x] = r_ptr[x] /\ failures'[x] = failures[x]
  PROVE  SocketInv' /\ StreamInv'
<1>1. Pair(p) \in Proc /\ Pair(p) # p
  BY PairFacts
<1>2. OthersStay(p) /\ Round(p)' = Round(p)
  BY DEF RoundStep
<1>3. pc[p] \notin {"sending", "recv"}
  BY DEF InLoop
<1>4. /\ Unchecked(p, Pair(p))' = Unchecked(p, Pair(p))
      /\ Unchecked(Pair(p), p)' = Unchecked(Pair(p), p)
  BY <1>1, <1>2, <1>3, QuietCounts
<1>5. failures'[p] = failures[p]
  BY DEF StreamInv, Buffers
<1> QED BY <1>2, <1>3, <1>4, <1>5, QuietStep

\* The same, when nothing is counted where p comes from or where it goes.
LEMMA UncountedStep ==
  ASSUME DriverInv, DriverInv', RoundInv, SocketInv, StreamInv, NEW p \in Proc, RoundStep(p),
         UNCHANGED tcpVars, setup[p] = "up", UNCHANGED bufVars,
         Committed(p) => nrepeat'[p] = nrepeat[p],
         ~InTrial(p), ~InTrial(p)', pc'[p] \notin {"burst", "prepostFirst"}
  PROVE  SocketInv' /\ StreamInv'
<1>1. /\ ~InLoop(p) /\ pc[p] \notin {"endsync", "reset", "send", "sending", "recv"}
      /\ ~InLoop(p)' /\ pc'[p] \notin {"endsync", "reset", "send", "sending", "recv"}
      /\ pc[p] # "prepostNext" /\ pc'[p] \notin {"prepost", "prepostNext"}
  BY DEF InTrial, InLoop, TrialLabels, LoopLabels
<1>2. OwnSent(p)' = OwnSent(p) /\ OwnGot(p)' = OwnGot(p)
  BY <1>1 DEF OwnSent, OwnGot, Sends, Receives
<1>3. done' = done /\ done[p] = << >> /\ MsgSize \in Nat
  BY <1>1, TagFacts DEF SocketInv, Calls, tcpVars
<1>4. Calls(p)'
  BY <1>1, <1>3 DEF Calls
<1>5. BufferTypeOK' /\ failures'[p] = 0
  BY DEF BufferTypeOK, bufVars, StreamInv, Buffers
<1> QED BY <1>1, <1>2, <1>4, <1>5, OutsideStep DEF bufVars

LEMMA EnterStep ==
  ASSUME TcpInv, DriverInv', NEW p \in Proc, EnterCollective(p), setup[p] = "up",
         UNCHANGED tcpVars
  PROVE  SocketInv' /\ StreamInv'
<1>1. /\ pc[p] \in CollectiveCalls /\ UNCHANGED <<pc, n, trial, j, bufVars>>
      /\ pc[p] # "nrepeat" => nrepeat'[p] = nrepeat[p]
  BY DEF EnterCollective, TcpInv, DriverInv, ControlTypeOK
<1>2. RoundStep(p)
  BY EnterRounds DEF TcpInv
<1>3. Committed(p) => nrepeat'[p] = nrepeat[p]
  BY <1>1 DEF Committed, InTrial, TrialLabels, LoopLabels
<1>4. CASE pc[p] = "endsync"
  <2>1. OwnSent(p)' = OwnSent(p) /\ OwnGot(p)' = OwnGot(p)
    BY <1>1, <1>4 DEF OwnSent, OwnGot, Sends, Receives
  <2>2. ~InLoop(p) /\ pc'[p] # "sending"
    BY <1>1, <1>4 DEF InLoop
  <2>3. Calls(p)'
    BY <1>1, <1>4 DEF TcpInv, SocketInv, Calls, tcpVars, Sends, Receives
  <2>4. BufferTypeOK' /\ failures'[p] = 0
    BY <1>1 DEF BufferTypeOK, bufVars, TcpInv, StreamInv, Buffers
  <2> QED BY <1>1, <1>2, <1>3, <2>1, <2>2, <2>3, <2>4, OutsideStep DEF bufVars, TcpInv
<1>5. CASE pc[p] # "endsync"
  <2>1. ~InTrial(p) /\ ~InTrial(p)' /\ pc'[p] \notin {"burst", "prepostFirst"}
    BY <1>1, <1>5 DEF InTrial, TrialLabels, LoopLabels, CollectiveCalls, Barriers, Bcasts, Gathers
  <2> QED BY <1>1, <1>2, <1>3, <2>1, UncountedStep DEF TcpInv
<1> QED BY <1>4, <1>5

LEMMA LeaveTimesStep ==
  ASSUME TcpInv, DriverInv', NEW p \in Proc, LeaveTimes(p), setup[p] = "up", UNCHANGED tcpVars
  PROVE  SocketInv' /\ StreamInv'
<1>1. PICK step \in {<<"mintime", "maxtime">>, <<"maxtime", "avgtime">>, <<"avgtime", "gather">>} :
        Leave(p, step[1]) /\ Goto(p, step[2]) /\ UNCHANGED <<loopVars, bufVars>>
  BY DEF LeaveTimes
<1>2. pc[p] = step[1] /\ pc'[p] = step[2] /\ nrepeat' = nrepeat /\ UNCHANGED bufVars
  BY <1>1 DEF Leave, Goto, TcpInv, DriverInv, ControlTypeOK, loopVars
<1>3. ~InTrial(p) /\ ~InTrial(p)' /\ pc'[p] \notin {"burst", "prepostFirst"}
  BY <1>2 DEF InTrial, TrialLabels, LoopLabels
<1>4. RoundStep(p)
  BY LeaveTimesRounds DEF TcpInv
<1> QED BY <1>2, <1>3, <1>4, UncountedStep DEF TcpInv

LEMMA LeaveGatherStep ==
  ASSUME TcpInv, DriverInv', NEW p \in Proc, LeaveGather(p), setup[p] = "up", UNCHANGED tcpVars
  PROVE  SocketInv' /\ StreamInv'
<1>1. /\ pc[p] = "gather" /\ pc'[p] \in {"finish", "nrepeat"} /\ nrepeat' = nrepeat
      /\ UNCHANGED bufVars
  BY DEF LeaveGather, Leave, Goto, TcpInv, DriverInv, ControlTypeOK
<1>2. ~InTrial(p) /\ ~InTrial(p)' /\ pc'[p] \notin {"burst", "prepostFirst"}
  BY <1>1 DEF InTrial, TrialLabels, LoopLabels
<1>3. RoundStep(p)
  BY LeaveGatherRounds DEF TcpInv
<1> QED BY <1>1, <1>2, <1>3, UncountedStep DEF TcpInv

LEMMA LeaveFinishStep ==
  ASSUME TcpInv, DriverInv', NEW p \in Proc, LeaveFinish(p), setup[p] = "up", UNCHANGED tcpVars
  PROVE  SocketInv' /\ StreamInv'
<1>1. /\ pc[p] = "finish" /\ pc'[p] \in {"done", "nrepeat"} /\ nrepeat' = nrepeat
      /\ UNCHANGED bufVars
  BY DEF LeaveFinish, Leave, Goto, TcpInv, DriverInv, ControlTypeOK
<1>2. ~InTrial(p) /\ ~InTrial(p)' /\ pc'[p] \notin {"burst", "prepostFirst"}
  BY <1>1 DEF InTrial, TrialLabels, LoopLabels
<1>3. RoundStep(p)
  BY LeaveFinishRounds DEF TcpInv
<1> QED BY <1>1, <1>2, <1>3, UncountedStep DEF TcpInv

LEMMA LeaveNrepeatStep ==
  ASSUME TcpInv, DriverInv', NEW p \in Proc, LeaveNrepeat(p), setup[p] = "up", UNCHANGED tcpVars
  PROVE  SocketInv' /\ StreamInv'
<1>1. /\ pc[p] = "nrepeat" /\ pc'[p] = "sync" /\ MallocBufs(p) /\ UNCHANGED <<setTag, chkTag>>
      /\ failures' = [failures EXCEPT ![p] = 0]
  BY Starts DEF LeaveNrepeat, Leave, Goto, TcpInv, DriverInv, ControlTypeOK
<1>2. /\ ~InLoop(p) /\ ~Committed(p) /\ pc'[p] # "sending"
      /\ OwnSent(p)' = OwnSent(p) /\ OwnGot(p)' = OwnGot(p)
  BY <1>1 DEF Committed, InTrial, InLoop, TrialLabels, LoopLabels, OwnSent, OwnGot, Sends, Receives
<1>3. RoundStep(p)
  BY LeaveNrepeatRounds DEF TcpInv
<1>4. BufferTypeOK
  BY DEF TcpInv, StreamInv
<1>5. 0 \in Half /\ 1 \in Half /\ [h \in Half |-> Blank] \in [Half -> Tag \cup {Blank}]
  BY DEF Half
<1>6. BufferTypeOK' /\ failures'[p] = 0
  BY <1>1, <1>4, <1>5 DEF BufferTypeOK, MallocBufs
<1>7. \A x \in Proc : x # p => /\ buf'[x] = buf[x] /\ s_ptr'[x] = s_ptr[x]
                               /\ r_ptr'[x] = r_ptr[x] /\ failures'[x] = failures[x]
  BY <1>1, <1>4 DEF BufferTypeOK, MallocBufs
<1>8. Calls(p)'
  BY <1>1 DEF TcpInv, SocketInv, Calls, tcpVars
<1> QED BY <1>1, <1>2, <1>3, <1>6, <1>7, <1>8, OutsideStep DEF TcpInv

LEMMA LeaveSyncStep ==
  ASSUME TcpInv, DriverInv', NEW p \in Proc, LeaveSync(p), setup[p] = "up", UNCHANGED tcpVars
  PROVE  SocketInv' /\ StreamInv'
<1>1. /\ pc[p] = "sync" /\ pc'[p] = IterationStart(p) /\ UNCHANGED <<nrepeat, j, bufVars>>
  BY DEF LeaveSync, Leave, Goto, TcpInv, DriverInv, ControlTypeOK, loopVars
<1>2. \/ pc'[p] = "recv" /\ ~Transmitter(p) /\ Receives(p)
      \/ pc'[p] = "send" /\ Transmitter(p) /\ Sends(p)
  BY <1>1, Starts
<1>3. ~InLoop(p) /\ pc'[p] # "sending"
  BY <1>1, <1>2 DEF InLoop
<1>4. j[p] = 0
  BY <1>3 DEF TcpInv, RoundInv, Rounded
<1>5. OwnSent(p)' = OwnSent(p) /\ OwnGot(p)' = OwnGot(p)
  BY <1>1, <1>2, <1>4 DEF OwnSent, OwnGot, InLoop, Sends, Receives, Transmitter
<1>6. RoundStep(p)
  BY LeaveSyncRounds DEF TcpInv
<1>7. BufferTypeOK' /\ failures'[p] = 0
  BY <1>1 DEF BufferTypeOK, bufVars, TcpInv, StreamInv, Buffers
<1>8. Calls(p)'
  BY <1>1, <1>2, TagFacts DEF TcpInv, SocketInv, Calls, tcpVars, Sends, Receives, Transmitter
<1> QED BY <1>1, <1>3, <1>5, <1>6, <1>7, <1>8, OutsideStep DEF TcpInv, bufVars

LEMMA LeaveEndsyncStep ==
  ASSUME TcpInv, DriverInv', NEW p \in Proc, LeaveEndsync(p), setup[p] = "up", UNCHANGED tcpVars
  PROVE  SocketInv' /\ StreamInv'
<1>1. /\ pc[p] = "endsync" /\ pc'[p] = "reset" /\ UNCHANGED <<nrepeat, j, bufVars>>
  BY DEF LeaveEndsync, Leave, Goto, TcpInv, DriverInv, ControlTypeOK, loopVars
<1>2. ~InLoop(p) /\ pc'[p] # "sending"
  BY <1>1 DEF InLoop
<1>3. OwnSent(p)' = OwnSent(p) /\ OwnGot(p)' = OwnGot(p)
  BY <1>1 DEF OwnSent, OwnGot, Sends, Receives
<1>4. RoundStep(p)
  BY LeaveEndsyncRounds DEF TcpInv
<1>5. BufferTypeOK' /\ failures'[p] = 0
  BY <1>1 DEF BufferTypeOK, bufVars, TcpInv, StreamInv, Buffers
<1>6. Calls(p)'
  BY <1>1 DEF TcpInv, SocketInv, Calls, tcpVars, Sends, Receives
<1> QED BY <1>1, <1>2, <1>3, <1>4, <1>5, <1>6, OutsideStep DEF TcpInv, bufVars

LEMMA DriverStep ==
  ASSUME TcpInv, DriverInv', NEW p \in Proc, Driver(p)
  PROVE  SocketInv' /\ StreamInv'
<1>1. setup[p] = "up" /\ UNCHANGED tcpVars
  BY DEF Driver
<1> QED BY <1>1, EnterStep, LeaveNrepeatStep, LeaveFinishStep, LeaveSyncStep, LeaveEndsyncStep,
           LeaveTimesStep, LeaveGatherStep DEF Driver

LEMMA NoResetStep ==
  ASSUME TcpInv, DriverInv', NEW p \in Proc, NoReset(p)
  PROVE  SocketInv' /\ StreamInv'
<1>1. /\ ~reset_conn /\ setup[p] = "up" /\ DriverReset(p) /\ UNCHANGED tcpVars
      /\ pc[p] = "reset" /\ UNCHANGED bufVars
  BY DEF NoReset, DriverReset
<1>2. OthersStay(p) /\ pc'[p] \in {"burst", "prepostFirst", "sync", "mintime", "gather"}
  BY <1>1, ResetRound DEF TcpInv
<1>3. pc'[p] \in {"sync", "mintime", "gather"}
  BY <1>1, Starts DEF DriverReset, Goto, TcpInv, DriverInv, ControlTypeOK
<1>4. /\ Unchecked(p, Pair(p))' = Unchecked(p, Pair(p))
      /\ Unchecked(Pair(p), p)' = Unchecked(Pair(p), p)
  BY <1>1, ResetCounts, OwnBytes DEF TcpInv
<1>5. BufferTypeOK'
  BY <1>1 DEF BufferTypeOK, bufVars, TcpInv, StreamInv
<1>6. Calls(p)'
  BY <1>1, <1>3 DEF TcpInv, SocketInv, Calls, tcpVars
<1> QED BY <1>1, <1>2, <1>3, <1>4, <1>5, <1>6, QuietStep DEF TcpInv, bufVars

-----------------------------------------------------------------------------
(***************************************************************************)
(* The message loop.                                                       *)
(***************************************************************************)

\* A process in the message loop has its connection.
LEMMA AtMessage ==
  ASSUME TcpInv, NEW p \in Proc, InLoop(p), NEW q, q = Pair(p)
  PROVE  /\ setup[p] = "up" /\ InTrial(p) /\ q \in Proc /\ q # p /\ Pair(q) = p
         /\ comm_sd[p] = Conn(p) /\ Conn(q) = Conn(p) /\ Conn(p) \in Ages
         /\ ~Greeted(p) /\ ~Greeted(q)
         /\ Data(p) = wire[p][Conn(p)] /\ Data(q) = wire[q][Conn(p)]
         /\ Pipe(Data(p), Unchecked(q, p), Owed(q), Part(p), chkTag[p], setTag[q])
         /\ Pipe(Data(q), Unchecked(p, q), Owed(p), Part(q), chkTag[q], setTag[p])
<1>1. q \in Proc /\ q # p /\ Pair(q) = p
  BY PairFacts
<1>2. InTrial(p)
  BY InLoopLabel
<1>3. setup[p] = "up"
  <2>1. pc[p] \notin {"nrepeat", "reset"}
    BY DEF InLoop
  <2> QED BY <2>1 DEF TcpInv, SocketInv, Socket
<1>4. /\ Conn(p) = age[p] /\ Conn(q) = age[p] /\ comm_sd[p] = age[p]
      /\ ~Greeted(p) /\ ~Greeted(q)
  BY <1>2, <1>3, TrialLink DEF TcpInv
<1>5. Conn(p) \in Ages
  BY AgeFacts DEF TcpInv
<1>6. Data(p) = wire[p][Conn(p)] /\ Data(q) = wire[q][Conn(p)]
  BY <1>4 DEF Data
<1>7. Stream(p) /\ Stream(q)
  BY <1>1 DEF TcpInv, StreamInv
<1>8. Pipe(Data(p), Unchecked(q, p), Owed(q), Part(p), chkTag[p], setTag[q])
  BY <1>7 DEF Stream
<1>9. Pipe(Data(q), Unchecked(p, q), Owed(p), Part(q), chkTag[q], setTag[p])
  BY <1>1, <1>7 DEF Stream
<1> QED BY <1>1, <1>2, <1>3, <1>4, <1>5, <1>6, <1>8, <1>9

\* A step of p in the message loop.
LEMMA LoopStep ==
  ASSUME TcpInv, NEW p \in Proc, InLoop(p), NEW q, q = Pair(p), RoundStep(p), SocketsStay,
         NEW mine \in [Ages -> Seq(Tag \cup {Sync})], NEW its \in [Ages -> Seq(Tag \cup {Sync})],
         \A c \in Ages : c # Conn(p) => mine[c] = wire[p][c] /\ its[c] = wire[q][c],
         wire' = [wire EXCEPT ![p] = mine, ![q] = its],
         NEW d \in Seq(Tag), done' = [done EXCEPT ![p] = d],
         \A x \in Proc : x # p => /\ buf'[x] = buf[x] /\ s_ptr'[x] = s_ptr[x]
                                  /\ r_ptr'[x] = r_ptr[x] /\ setTag'[x] = setTag[x]
                                  /\ chkTag'[x] = chkTag[x] /\ failures'[x] = failures[x],
         Calls(p)', Buffers(p)', BufferTypeOK',
         Pipe(mine[Conn(p)], Unchecked(q, p)', Owed(q), Part(p)', chkTag'[p], setTag[q]),
         Pipe(its[Conn(p)], Unchecked(p, q)', Owed(p)', Part(q), chkTag[q], setTag'[p])
  PROVE  SocketInv' /\ StreamInv'
<1>1. /\ setup[p] = "up" /\ q \in Proc /\ q # p /\ Conn(q) = Conn(p)
      /\ ~Greeted(p) /\ ~Greeted(q)
  BY AtMessage
<1>2. OthersStay(p) /\ Round(p)' = Round(p)
  BY DEF RoundStep
<1>3. wire = [x \in Proc |-> [c \in Ages |-> wire[x][c]]]
  BY DEF TcpInv, StreamInv
<1>4. /\ wire'[p] = mine /\ wire'[q] = its
      /\ \A x \in Proc : x # p /\ x # q => wire'[x] = wire[x]
      /\ wire' = [x \in Proc |-> wire'[x]]
  BY <1>1, <1>3
<1>5. wire' = [x \in Proc |-> [c \in Ages |-> wire'[x][c]]]
  <2>1. ASSUME NEW x \in Proc PROVE wire'[x] = [c \in Ages |-> wire'[x][c]]
    <3>1. CASE x = p
      BY <1>4, <3>1
    <3>2. CASE x = q
      BY <1>4, <3>2
    <3>3. CASE x # p /\ x # q
      <4>1. wire[x] = [c \in Ages |-> wire[x][c]]
        BY <1>3
      <4>2. wire'[x] = wire[x]
        BY <1>4, <3>3
      <4> QED BY <4>1, <4>2
    <3> QED BY <3>1, <3>2, <3>3
  <2> QED BY <1>4, <2>1
<1>6. done' \in [Proc -> Seq(Tag)] /\ done'[p] = d /\ \A x \in Proc : x # p => done'[x] = done[x]
  BY DEF TcpInv, SocketInv, Shapes
<1>7. Apart(p)
  BY <1>4, <1>6 DEF Apart, SocketsStay
<1>8. \A c \in Ages : c # Conn(p) => wire'[p][c] = << >> /\ wire'[q][c] = << >>
  BY <1>1, <1>4 DEF TcpInv, StreamInv, Stream
<1>9. Data(p)' = mine[Conn(p)] /\ Data(q)' = its[Conn(p)]
  <2>1. /\ Conn(p)' = Conn(p) /\ Conn(q)' = Conn(q)
        /\ Greeted(p)' = Greeted(p) /\ Greeted(q)' = Greeted(q)
    BY DEF SocketsStay, Conn, Greeted
  <2> QED BY <1>1, <1>4, <2>1 DEF Data
<1> QED BY <1>1, <1>2, <1>5, <1>6, <1>7, <1>8, <1>9, MoveStep DEF TcpInv

\* What is on the connections of a pair are tags.
LEMMA WireTypes ==
  ASSUME TcpInv, NEW p \in Proc
  PROVE  wire[p] \in [Ages -> Seq(Tag \cup {Sync})]
<1>1. Stream(p) /\ wire = [x \in Proc |-> [c \in Ages |-> wire[x][c]]]
  BY DEF TcpInv, StreamInv
<1>2. Data(p) \in Seq(Tag)
  BY <1>1 DEF Stream, Pipe
<1>3. ASSUME NEW c \in Ages PROVE wire[p][c] \in Seq(Tag \cup {Sync})
  <2>1. CASE c # Conn(p)
    <3>1. wire[p][c] = << >>
      BY <1>1, <2>1 DEF Stream
    <3> QED BY <3>1
  <2>2. CASE c = Conn(p) /\ Greeted(p)
    <3>1. wire[p][c] = <<Sync>>
      BY <1>1, <2>2 DEF Stream
    <3> QED BY <3>1
  <2>3. CASE c = Conn(p) /\ ~Greeted(p)
    <3>1. wire[p][c] \in Seq(Tag)
      BY <1>2, <2>3 DEF Data
    <3> QED BY <3>1
  <2> QED BY <2>1, <2>2, <2>3
<1> QED BY <1>1, <1>3

\* A call begins or ends: nothing is read or written.
LEMMA CallStep ==
  ASSUME TcpInv, NEW p \in Proc, InLoop(p), NEW q, q = Pair(p), RoundStep(p), SocketsStay,
         wire' = wire, done' = [done EXCEPT ![p] = << >>],
         \A x \in Proc : x # p => /\ buf'[x] = buf[x] /\ s_ptr'[x] = s_ptr[x]
                                  /\ r_ptr'[x] = r_ptr[x] /\ setTag'[x] = setTag[x]
                                  /\ chkTag'[x] = chkTag[x] /\ failures'[x] = failures[x],
         Calls(p)', Buffers(p)', BufferTypeOK',
         Pipe(Data(p), Unchecked(q, p)', Owed(q), Part(p)', chkTag'[p], setTag[q]),
         Pipe(Data(q), Unchecked(p, q)', Owed(p)', Part(q), chkTag[q], setTag'[p])
  PROVE  SocketInv' /\ StreamInv'
<1>1. /\ q \in Proc /\ Data(p) = wire[p][Conn(p)] /\ Data(q) = wire[q][Conn(p)]
  BY AtMessage
<1>2. wire' = [wire EXCEPT ![p] = wire[p], ![q] = wire[q]]
  BY DEF TcpInv, StreamInv
<1>3. PICK mine \in [Ages -> Seq(Tag \cup {Sync})], its \in [Ages -> Seq(Tag \cup {Sync})] :
         mine = wire[p] /\ its = wire[q]
  BY <1>1, WireTypes
<1>4. PICK d \in Seq(Tag) : d = << >>
  <2>1. << >> \in Seq(Tag)
    OBVIOUS
  <2> QED BY <2>1
<1>5. /\ \A c \in Ages : c # Conn(p) => mine[c] = wire[p][c] /\ its[c] = wire[q][c]
      /\ wire' = [wire EXCEPT ![p] = mine, ![q] = its]
      /\ done' = [done EXCEPT ![p] = d]
      /\ Pipe(mine[Conn(p)], Unchecked(q, p)', Owed(q), Part(p)', chkTag'[p], setTag[q])
      /\ Pipe(its[Conn(p)], Unchecked(p, q)', Owed(p)', Part(q), chkTag[q], setTag'[p])
  BY <1>1, <1>2, <1>3, <1>4
<1> QED BY <1>5, LoopStep

LEMMA SendDataStep ==
  ASSUME Aligned, TcpInv, DriverInv', NEW p \in Proc, SendData(p)
  PROVE  SocketInv' /\ StreamInv'
<1> DEFINE q == Pair(p)
           tag == (setTag[p] + 1) % TagMod
<1>1. /\ pc[p] = "send" /\ SetupBufferData(p) /\ pc'[p] = "sending" /\ DriverSend(p)
      /\ UNCHANGED <<inside, colls, loopVars, s_ptr, r_ptr, chkTag, failures>>
  BY DEF SendData, DriverSend, Goto, TcpInv, DriverInv, ControlTypeOK
<1>2. InLoop(p)
  BY <1>1 DEF InLoop
<1>3. RoundStep(p)
  BY <1>1, DriverSendRounds DEF TcpInv
<1>4. BufferTypeOK /\ MsgSize \in Nat \ {0} /\ tag \in Tag
  <2>1. BufferTypeOK
    BY DEF TcpInv, StreamInv
  <2>2. setTag[p] + 1 \in Int
    <3>1. setTag[p] \in Tag /\ Tag = 0 .. TagMod - 1 /\ TagMod \in Nat
      BY <2>1, TagFacts DEF BufferTypeOK
    <3> QED BY <3>1
  <2> QED BY <2>1, <2>2, TagFacts
<1> HIDE DEF tag
<1>5. /\ setTag' = [setTag EXCEPT ![p] = tag]
      /\ buf' = [buf EXCEPT ![p][s_ptr[p]] = tag]
  BY <1>1 DEF SetupBufferData, tag
<1>6. s_ptr[p] \in Half
  BY <1>4 DEF BufferTypeOK
<1>7. BufferTypeOK' /\ buf'[p][s_ptr[p]] = tag /\ setTag'[p] = tag
  BY <1>1, <1>4, <1>5, <1>6 DEF BufferTypeOK
<1>8. \A x \in Proc : x # p => /\ buf'[x] = buf[x] /\ s_ptr'[x] = s_ptr[x]
                               /\ r_ptr'[x] = r_ptr[x] /\ setTag'[x] = setTag[x]
                               /\ chkTag'[x] = chkTag[x] /\ failures'[x] = failures[x]
  BY <1>1, <1>4, <1>5 DEF BufferTypeOK
<1>9. done' = [done EXCEPT ![p] = << >>] /\ wire' = wire /\ SocketsStay /\ << >> \in Seq(Tag)
  BY DEF SendData, SocketsStay
<1>10. done'[p] = << >> /\ Len(done'[p]) = 0
  BY <1>9 DEF TcpInv, SocketInv, Shapes
<1>11. Calls(p) /\ Buffers(p)
  BY DEF TcpInv, SocketInv, StreamInv
<1>12. Calls(p)'
  BY <1>1, <1>4, <1>10, <1>11 DEF Calls, Sends, Receives
<1>13. Buffers(p)'
  BY <1>1, <1>7, <1>10, <1>11 DEF Buffers
<1>14. /\ InTrial(p) /\ q \in Proc /\ q # p
       /\ Data(p) = wire[p][Conn(p)] /\ Data(q) = wire[q][Conn(p)]
       /\ Pipe(Data(p), Unchecked(q, p), Owed(q), Part(p), chkTag[p], setTag[q])
       /\ Pipe(Data(q), Unchecked(p, q), Owed(p), Part(q), chkTag[q], setTag[p])
  BY <1>2, AtMessage
<1>15. OwnSent(p)' = OwnSent(p) /\ OwnGot(p)' = OwnGot(p)
  BY <1>1 DEF OwnSent, OwnGot, InLoop, Sends, Receives, loopVars
<1>16. Unchecked(q, p)' = Unchecked(q, p) /\ Unchecked(p, q)' = Unchecked(p, q) + 1
  <2>1. nrepeat'[p] = nrepeat[p] /\ Round(p)' = Round(p) /\ OthersStay(p)
    BY <1>1, <1>3 DEF RoundStep, loopVars
  <2>2. Got(q, p) \in Int /\ OwnSent(p) \in Int
    BY <1>14, CountTypes, OwnFacts, OwnBytes DEF TcpInv
  <2> HIDE DEF q
  <2>3. /\ Unchecked(q, p)' = Unchecked(q, p)
        /\ Unchecked(p, q) = OwnSent(p) + 0 - Got(q, p)
        /\ Unchecked(p, q)' = OwnSent(p) + 1 - Got(q, p)
    BY <1>1, <1>14, <1>15, <2>1, TrialMove DEF TcpInv
  <2> QED BY <2>2, <2>3
<1>17. Owed(p) = 0 /\ Owed(p)' = MsgSize /\ Part(p)' = Part(p)
  BY <1>1, <1>4, <1>10 DEF Owed, Part
<1> HIDE DEF q
<1>18. Pipe(Data(q), Unchecked(p, q)', Owed(p)', Part(q), chkTag[q], setTag'[p])
  BY <1>7, <1>14, <1>16, <1>17, PipeStamp DEF tag
<1>19. Pipe(Data(p), Unchecked(q, p)', Owed(q), Part(p)', chkTag'[p], setTag[q])
  BY <1>1, <1>14, <1>16, <1>17
<1>20. q = Pair(p) /\ SocketsStay /\ wire' = wire
  BY <1>9 DEF q
<1> QED BY <1>2, <1>3, <1>7, <1>8, <1>9, <1>12, <1>13, <1>18, <1>19, <1>20, CallStep

\* j++ and the test of the loop: the iteration that ends is counted wherever p goes.
LEMMA IterateFacts ==
  ASSUME TcpInv, NEW p \in Proc, InLoop(p), Continue(p, "iterate"), nrepeat' = nrepeat
  PROVE  /\ \/ pc'[p] = "recv" /\ ~Transmitter(p) /\ Receives(p) /\ j'[p] = j[p] + 1
            \/ pc'[p] = "send" /\ Transmitter(p) /\ Sends(p) /\ j'[p] = j[p] + 1
            \/ pc'[p] \in {"endsync", "reset"} /\ nrepeat[p] = j[p] + 1
         /\ OwnSent(p)' = IF Sends(p) THEN j[p] + 1 ELSE 0
         /\ OwnGot(p)' = IF Receives(p) THEN j[p] + 1 ELSE 0
<1>1. j[p] \in Nat /\ nrepeat[p] \in Nat /\ j[p] < nrepeat[p]
  BY DEF TcpInv, DriverInv, ControlTypeOK, RoundInv, Rounded
<1>2. LoopExit(p) \in {"endsync", "reset"}
  BY DEF LoopExit
<1>3. \/ pc'[p] = IterationStart(p) /\ j'[p] = j[p] + 1
      \/ pc'[p] \in {"endsync", "reset"} /\ ~(j[p] + 1 < nrepeat[p])
  <2>1. CASE j[p] + 1 < nrepeat[p]
    BY <2>1 DEF Continue, Goto, TcpInv, DriverInv, ControlTypeOK
  <2>2. CASE ~(j[p] + 1 < nrepeat[p])
    BY <1>2, <2>2 DEF Continue, Goto, TcpInv, DriverInv, ControlTypeOK
  <2> QED BY <2>1, <2>2
<1>4. \/ pc'[p] = "recv" /\ ~Transmitter(p) /\ Receives(p) /\ j'[p] = j[p] + 1
      \/ pc'[p] = "send" /\ Transmitter(p) /\ Sends(p) /\ j'[p] = j[p] + 1
      \/ pc'[p] \in {"endsync", "reset"} /\ nrepeat[p] = j[p] + 1
  BY <1>1, <1>3, Starts
<1>5. /\ OwnSent(p)' = IF Sends(p) THEN j[p] + 1 ELSE 0
      /\ OwnGot(p)' = IF Receives(p) THEN j[p] + 1 ELSE 0
  BY <1>4 DEF OwnSent, OwnGot, InLoop, Sends, Receives, Transmitter
<1> QED BY <1>4, <1>5

LEMMA WrittenStep ==
  ASSUME Aligned, TcpInv, DriverInv', NEW p \in Proc, Written(p)
  PROVE  SocketInv' /\ StreamInv'
<1> DEFINE q == Pair(p)
<1>1. /\ pc[p] = "sending" /\ DriverSent(p) /\ Len(done[p]) = MsgSize
      /\ Continue(p, AfterSend(p)) /\ UNCHANGED <<nrepeat, bufVars>>
  BY DEF Written, DriverSent
<1>2. InLoop(p)
  BY <1>1 DEF InLoop
<1>3. RoundStep(p)
  BY <1>1, DriverSentRounds DEF TcpInv
<1>4. /\ InTrial(p) /\ q \in Proc /\ q # p
      /\ Pipe(Data(p), Unchecked(q, p), Owed(q), Part(p), chkTag[p], setTag[q])
      /\ Pipe(Data(q), Unchecked(p, q), Owed(p), Part(q), chkTag[q], setTag[p])
  BY <1>2, AtMessage
<1>5. Sends(p) /\ Calls(p) /\ Buffers(p) /\ j[p] \in Nat
  BY <1>1 DEF TcpInv, SocketInv, StreamInv, Calls, DriverInv, ControlTypeOK
<1>6. OwnSent(p) = j[p] /\ OwnGot(p) = IF ~Receives(p) THEN 0
                                       ELSE IF Transmitter(p) THEN j[p] ELSE j[p] + 1
  BY <1>1, <1>2, <1>5 DEF OwnSent, OwnGot
<1>7. /\ pc'[p] \in {"recv", "send", "endsync", "reset"}
      /\ pc'[p] = "send" => Sends(p)
      /\ pc'[p] = "recv" => Receives(p)
      /\ OwnSent(p)' = j[p] + 1
      /\ OwnGot(p)' = OwnGot(p)
  <2>1. CASE AfterSend(p) = "iterate"
    <3>1. ~Transmitter(p) \/ ~Receives(p)
      BY <2>1 DEF AfterSend, Receives
    <3> QED BY <1>1, <1>2, <1>5, <1>6, <2>1, <3>1, IterateFacts
  <2>2. CASE AfterSend(p) # "iterate"
    <3>1. AfterSend(p) = "recv" /\ Transmitter(p) /\ Mode # "stream" /\ Receives(p)
      BY <2>2 DEF AfterSend, Receives
    <3>2. pc'[p] = "recv" /\ j' = j
      BY <1>1, <3>1 DEF Continue, Goto, TcpInv, DriverInv, ControlTypeOK
    <3> QED BY <1>5, <1>6, <3>1, <3>2 DEF OwnSent, OwnGot, InLoop, Sends, Receives, Transmitter
  <2> QED BY <2>1, <2>2
<1>8. done' = [done EXCEPT ![p] = << >>] /\ wire' = wire /\ SocketsStay
  BY DEF Written, SocketsStay
<1>9. done'[p] = << >> /\ Len(done'[p]) = 0 /\ MsgSize \in Nat \ {0}
  BY <1>8, TagFacts DEF TcpInv, SocketInv, Shapes
<1>10. Calls(p)'
  BY <1>7, <1>9 DEF Calls, Sends, Receives, Transmitter
<1>11. BufferTypeOK' /\ Buffers(p)'
  BY <1>1, <1>5, <1>7, <1>9 DEF Buffers, BufferTypeOK, bufVars, TcpInv, StreamInv
<1>12. Unchecked(q, p)' = Unchecked(q, p) /\ Unchecked(p, q)' = Unchecked(p, q)
  <2>1. nrepeat'[p] = nrepeat[p] /\ Round(p)' = Round(p) /\ OthersStay(p)
    BY <1>1, <1>3 DEF RoundStep
  <2>2. Got(q, p) \in Int
    BY <1>4, CountTypes, OwnBytes DEF TcpInv
  <2> HIDE DEF q
  <2>3. /\ Unchecked(q, p)' = Unchecked(q, p)
        /\ Unchecked(p, q) = j[p] + 1 - Got(q, p)
        /\ Unchecked(p, q)' = (j[p] + 1) + 0 - Got(q, p)
    BY <1>1, <1>4, <1>6, <1>7, <2>1, TrialMove DEF TcpInv
  <2> QED BY <1>5, <2>2, <2>3
<1>13. Owed(p)' = Owed(p) /\ Part(p)' = Part(p)
  BY <1>1, <1>7, <1>9 DEF Owed, Part
<1> HIDE DEF q
<1>14. /\ Pipe(Data(p), Unchecked(q, p)', Owed(q), Part(p)', chkTag'[p], setTag[q])
       /\ Pipe(Data(q), Unchecked(p, q)', Owed(p)', Part(q), chkTag[q], setTag'[p])
  BY <1>1, <1>4, <1>12, <1>13 DEF bufVars
<1> QED BY <1>1, <1>2, <1>3, <1>8, <1>10, <1>11, <1>14, CallStep DEF q, bufVars

LEMMA RecvDataStep ==
  ASSUME Aligned, TcpInv, DriverInv', NEW p \in Proc, RecvData(p)
  PROVE  SocketInv' /\ StreamInv'
<1> DEFINE q == Pair(p)
           tag == (chkTag[p] + 1) % TagMod
<1>1. /\ pc[p] = "recv" /\ DriverRecv(p) /\ Len(done[p]) = MsgSize
      /\ CheckBufferData(p) /\ AdvancePtrs(p)
      /\ Continue(p, AfterRecv(p)) /\ UNCHANGED <<nrepeat, buf, setTag>>
  BY DEF RecvData, DriverRecv, Complete
<1>2. InLoop(p)
  BY <1>1 DEF InLoop
<1>3. RoundStep(p)
  BY <1>1, DriverRecvRounds DEF TcpInv
<1>4. /\ InTrial(p) /\ q \in Proc /\ q # p
      /\ Pipe(Data(p), Unchecked(q, p), Owed(q), Part(p), chkTag[p], setTag[q])
      /\ Pipe(Data(q), Unchecked(p, q), Owed(p), Part(q), chkTag[q], setTag[p])
  BY <1>2, AtMessage
<1>5. Receives(p) /\ Calls(p) /\ Buffers(p) /\ j[p] \in Nat /\ BufferTypeOK
  BY <1>1 DEF TcpInv, SocketInv, StreamInv, Calls, DriverInv, ControlTypeOK
<1>6. OwnGot(p) = j[p] /\ OwnSent(p) = IF ~Sends(p) THEN 0
                                       ELSE IF Transmitter(p) THEN j[p] + 1 ELSE j[p]
  BY <1>1, <1>2, <1>5 DEF OwnSent, OwnGot
<1>7. /\ pc'[p] \in {"recv", "send", "endsync", "reset"}
      /\ pc'[p] = "send" => Sends(p)
      /\ pc'[p] = "recv" => Receives(p)
      /\ OwnGot(p)' = j[p] + 1
      /\ OwnSent(p)' = OwnSent(p)
  <2>1. CASE AfterRecv(p) = "iterate"
    <3>1. Transmitter(p) \/ ~Sends(p)
      BY <2>1 DEF AfterRecv, Sends
    <3> QED BY <1>1, <1>2, <1>5, <1>6, <2>1, <3>1, IterateFacts
  <2>2. CASE AfterRecv(p) # "iterate"
    <3>1. AfterRecv(p) = "send" /\ ~Transmitter(p) /\ Sends(p)
      BY <2>2, Starts DEF AfterRecv, Sends
    <3>2. pc'[p] = "send" /\ j' = j
      BY <1>1, <3>1 DEF Continue, Goto, TcpInv, DriverInv, ControlTypeOK
    <3> QED BY <1>5, <1>6, <3>1, <3>2 DEF OwnSent, OwnGot, InLoop, Sends, Receives, Transmitter
  <2> QED BY <2>1, <2>2
<1>8. done' = [done EXCEPT ![p] = << >>] /\ wire' = wire /\ SocketsStay
  BY DEF RecvData, SocketsStay
<1>9. done'[p] = << >> /\ Len(done'[p]) = 0 /\ MsgSize \in Nat \ {0}
  BY <1>8, TagFacts DEF TcpInv, SocketInv, Shapes
<1>10. Calls(p)'
  BY <1>7, <1>9 DEF Calls, Sends, Receives, Transmitter
<1>11. buf[p][r_ptr[p]] = tag /\ tag \in Tag
  <2>1. 1 \in 1 .. Len(done[p]) /\ chkTag[p] \in Tag
    BY <1>1, <1>5, <1>9 DEF BufferTypeOK
  <2>2. buf[p][r_ptr[p]] = tag
    BY <1>1, <1>5, <2>1 DEF Buffers
  <2>3. chkTag[p] + 1 \in Int
    <3>1. Tag = 0 .. TagMod - 1 /\ TagMod \in Nat
      BY TagFacts
    <3> QED BY <2>1, <3>1
  <2> QED BY <2>2, <2>3, TagFacts
<1> HIDE DEF tag
<1>12. chkTag' = [chkTag EXCEPT ![p] = tag] /\ failures' = failures
  BY <1>1, <1>5, <1>11 DEF CheckBufferData, BufferTypeOK, tag
<1>13. /\ s_ptr' = [s_ptr EXCEPT ![p] = r_ptr[p]] /\ r_ptr' = [r_ptr EXCEPT ![p] = s_ptr[p]]
       /\ s_ptr[p] \in Half /\ r_ptr[p] \in Half
  BY <1>1, <1>5 DEF AdvancePtrs, BufferTypeOK
<1>14. BufferTypeOK' /\ chkTag'[p] = tag
  BY <1>1, <1>5, <1>11, <1>12, <1>13 DEF BufferTypeOK
<1>15. Buffers(p)'
  BY <1>5, <1>7, <1>9, <1>12 DEF Buffers
<1>16. \A x \in Proc : x # p => /\ buf'[x] = buf[x] /\ s_ptr'[x] = s_ptr[x]
                                /\ r_ptr'[x] = r_ptr[x] /\ setTag'[x] = setTag[x]
                                /\ chkTag'[x] = chkTag[x] /\ failures'[x] = failures[x]
  BY <1>1, <1>5, <1>12, <1>13 DEF BufferTypeOK
<1>17. Unchecked(q, p)' = Unchecked(q, p) - 1 /\ Unchecked(p, q)' = Unchecked(p, q)
  <2>1. nrepeat'[p] = nrepeat[p] /\ Round(p)' = Round(p) /\ OthersStay(p)
    BY <1>1, <1>3 DEF RoundStep
  <2>2. Sent(q, p) \in Int
    BY <1>4, CountTypes, OwnBytes DEF TcpInv
  <2> HIDE DEF q
  <2>3. /\ Unchecked(p, q)' = Unchecked(p, q)
        /\ Unchecked(q, p) = Sent(q, p) + (IF pc[q] = "sending" THEN 1 ELSE 0) - j[p]
        /\ Unchecked(q, p)' = Sent(q, p) + (IF pc[q] = "sending" THEN 1 ELSE 0) - (j[p] + 1)
    BY <1>1, <1>4, <1>6, <1>7, <2>1, TrialMove DEF TcpInv
  <2> QED BY <1>5, <2>2, <2>3
<1>18. Owed(p)' = Owed(p) /\ Part(p)' = 0 /\ Part(p) = MsgSize
  BY <1>1, <1>7, <1>9 DEF Owed, Part
<1> HIDE DEF q
<1>19. Pipe(Data(p), Unchecked(q, p)', Owed(q), Part(p)', chkTag'[p], setTag[q])
  BY <1>4, <1>14, <1>17, <1>18, PipeCheck DEF tag
<1>20. Pipe(Data(q), Unchecked(p, q)', Owed(p)', Part(q), chkTag[q], setTag'[p])
  BY <1>1, <1>4, <1>17, <1>18
<1> QED BY <1>2, <1>3, <1>8, <1>10, <1>14, <1>15, <1>16, <1>19, <1>20, CallStep DEF q

LEMMA WriteStep ==
  ASSUME TcpInv, NEW p \in Proc, Write(p)
  PROVE  SocketInv' /\ StreamInv'
<1> DEFINE q == Pair(p)
<1>1. pc[p] = "sending" /\ UNCHANGED driverVars /\ SocketsStay
  BY DEF Write, SocketsStay
<1>2. InLoop(p)
  BY <1>1 DEF InLoop
<1>3. /\ InTrial(p) /\ q \in Proc /\ q # p /\ comm_sd[p] = Conn(p) /\ Conn(p) \in Ages
      /\ Data(p) = wire[p][Conn(p)] /\ Data(q) = wire[q][Conn(p)]
      /\ Pipe(Data(p), Unchecked(q, p), Owed(q), Part(p), chkTag[p], setTag[q])
      /\ Pipe(Data(q), Unchecked(p, q), Owed(p), Part(q), chkTag[q], setTag[p])
  BY <1>2, AtMessage
<1>4. Calls(p) /\ Buffers(p) /\ broken = {} /\ done \in [Proc -> Seq(Tag)] /\ BufferTypeOK
  BY DEF TcpInv, SocketInv, StreamInv, Shapes
<1>5. PICK set \in Tag : set = buf[p][s_ptr[p]] /\ set = setTag[p]
  <2>1. setTag[p] \in Tag
    BY <1>4 DEF BufferTypeOK
  <2> QED BY <1>1, <1>4, <2>1 DEF Buffers
<1>6. PICK c \in Ages : c = Conn(p)
  BY <1>3
<1>7. PICK k \in 1 .. MsgSize - Len(done[p]) :
        /\ wire' = [wire EXCEPT ![q][c] = @ \o [i \in 1 .. k |-> set]]
        /\ done' = [done EXCEPT ![p] = @ \o [i \in 1 .. k |-> set]]
  BY <1>3, <1>4, <1>5, <1>6 DEF Write
<1>8. k \in 1 .. Owed(p) /\ k \in Nat /\ Len(done[p]) \in Nat /\ MsgSize \in Nat
  BY <1>1, <1>4, <1>7, TagFacts DEF Owed
<1> HIDE DEF q
<1>9. Pipe(Data(q) \o [i \in 1 .. k |-> set], Unchecked(p, q), Owed(p) - k, Part(q), chkTag[q],
           setTag[p])
  BY <1>3, <1>5, <1>8, PipeWrite
<1>10. PICK bytes \in Seq(Tag) : bytes = [i \in 1 .. k |-> set] /\ Len(bytes) = k
  <2>1. [i \in 1 .. k |-> set] \in Seq(Tag) /\ Len([i \in 1 .. k |-> set]) = k
    BY <1>8
  <2> QED BY <2>1
<1>11. PICK d \in Seq(Tag) : d = done[p] \o bytes /\ Len(d) = Len(done[p]) + k
  <2>1. done[p] \in Seq(Tag)
    BY <1>4
  <2>2. done[p] \o bytes \in Seq(Tag) /\ Len(done[p] \o bytes) = Len(done[p]) + k
    BY <1>10, <2>1
  <2> QED BY <2>2
<1>12. done' = [done EXCEPT ![p] = d] /\ done'[p] = d
  BY <1>4, <1>7, <1>10, <1>11
<1>13. PICK mine \in [Ages -> Seq(Tag \cup {Sync})], old \in [Ages -> Seq(Tag \cup {Sync})] :
         mine = wire[p] /\ old = wire[q]
  BY <1>3, WireTypes
<1>14. PICK its \in [Ages -> Seq(Tag \cup {Sync})] :
         its = [old EXCEPT ![c] = @ \o bytes]
  <2>1. old[c] \o bytes \in Seq(Tag \cup {Sync})
    <3>1. bytes \in Seq(Tag \cup {Sync}) /\ old[c] \in Seq(Tag \cup {Sync})
      BY <1>10, <1>13
    <3> QED BY <3>1
  <2>2. [old EXCEPT ![c] = @ \o bytes] \in [Ages -> Seq(Tag \cup {Sync})]
    BY <1>13, <2>1
  <2> QED BY <2>2
<1>15. /\ its[c] = old[c] \o bytes
       /\ \A a \in Ages : a # c => mine[a] = wire[p][a] /\ its[a] = wire[q][a]
  BY <1>13, <1>14
<1>16. wire' = [wire EXCEPT ![p] = mine, ![q] = its]
  <2>1. wire' = [wire EXCEPT ![q] = [wire[q] EXCEPT ![c] = @ \o bytes]]
    BY <1>7, <1>10
  <2>2. [wire[q] EXCEPT ![c] = @ \o bytes] = its
    BY <1>13, <1>14
  <2>3. wire = [wire EXCEPT ![p] = mine]
    BY <1>13 DEF TcpInv, StreamInv
  <2> QED BY <1>3, <1>13, <2>1, <2>2, <2>3
<1>17. RoundStep(p) /\ \A x, y \in Proc : Unchecked(x, y)' = Unchecked(x, y)
  <2>1. UNCHANGED <<pc, inside, colls, loopVars>>
    BY <1>1 DEF driverVars
  <2> QED BY <2>1, StillCounts
<1>18. Owed(p)' = Owed(p) - k /\ Part(p)' = Part(p)
  <2>1. pc'[p] = "sending" /\ Len(done'[p]) = Len(done[p]) + k
    BY <1>1, <1>11, <1>12 DEF driverVars
  <2>2. Owed(p) = MsgSize - Len(done[p]) /\ Owed(p)' = MsgSize - (Len(done[p]) + k)
    BY <1>1, <2>1 DEF Owed
  <2>3. Part(p)' = Part(p)
    BY <1>1, <2>1 DEF Part
  <2> QED BY <1>8, <2>2, <2>3
<1>19. /\ Pipe(mine[c], Unchecked(q, p)', Owed(q), Part(p)', chkTag'[p], setTag[q])
       /\ Pipe(its[c], Unchecked(p, q)', Owed(p)', Part(q), chkTag[q], setTag'[p])
  BY <1>1, <1>3, <1>6, <1>9, <1>10, <1>13, <1>15, <1>17, <1>18 DEF driverVars, bufVars
<1>20. /\ Calls(p)' /\ Buffers(p)' /\ BufferTypeOK'
  BY <1>1, <1>4, <1>8, <1>7, <1>11, <1>12 DEF Calls, Buffers, BufferTypeOK, driverVars, bufVars,
     Sends, Receives
<1>21. \A x \in Proc : x # p => /\ buf'[x] = buf[x] /\ s_ptr'[x] = s_ptr[x]
                                /\ r_ptr'[x] = r_ptr[x] /\ setTag'[x] = setTag[x]
                                /\ chkTag'[x] = chkTag[x] /\ failures'[x] = failures[x]
  BY <1>1 DEF driverVars, bufVars
<1> QED BY <1>1, <1>2, <1>6, <1>12, <1>15, <1>16, <1>17, <1>19, <1>20, <1>21, LoopStep DEF q

LEMMA ReadStep ==
  ASSUME TcpInv, NEW p \in Proc, Read(p)
  PROVE  SocketInv' /\ StreamInv'
<1> DEFINE q == Pair(p)
           tag == (chkTag[p] + 1) % TagMod
<1>1. /\ pc[p] = "recv" /\ UNCHANGED <<pc, inside, colls, loopVars>> /\ SocketsStay
      /\ UNCHANGED <<s_ptr, r_ptr, setTag, chkTag, failures>>
  BY DEF Read, SocketsStay
<1>2. InLoop(p)
  BY <1>1 DEF InLoop
<1>3. /\ InTrial(p) /\ q \in Proc /\ q # p /\ comm_sd[p] = Conn(p) /\ Conn(p) \in Ages
      /\ Data(p) = wire[p][Conn(p)] /\ Data(q) = wire[q][Conn(p)]
      /\ Pipe(Data(p), Unchecked(q, p), Owed(q), Part(p), chkTag[p], setTag[q])
      /\ Pipe(Data(q), Unchecked(p, q), Owed(p), Part(q), chkTag[q], setTag[p])
  BY <1>2, AtMessage
<1>4. Calls(p) /\ Buffers(p) /\ done \in [Proc -> Seq(Tag)] /\ BufferTypeOK
  BY DEF TcpInv, SocketInv, StreamInv, Shapes
<1>5. PICK c \in Ages : c = Conn(p)
  BY <1>3
<1>6. PICK w \in Seq(Tag) : w = wire[p][c]
  <2>1. Data(p) \in Seq(Tag)
    BY <1>3 DEF Pipe
  <2> QED BY <1>3, <1>5, <2>1
<1>7. PICK k \in 1 .. MsgSize - Len(done[p]) :
        /\ k <= Len(w)
        /\ done' = [done EXCEPT ![p] = @ \o SubSeq(w, 1, k)]
        /\ wire' = [wire EXCEPT ![p][c] = SubSeq(@, k + 1, Len(@))]
  BY <1>3, <1>5, <1>6 DEF Read
<1>8. k \in 1 .. MsgSize - Part(p) /\ k \in Nat /\ Len(done[p]) \in Nat /\ MsgSize \in Nat
      /\ Part(p) = Len(done[p])
  <2>1. Len(done[p]) \in Nat /\ MsgSize \in Nat
    BY <1>4, NPtcpAssumption
  <2>2. Part(p) = Len(done[p])
    BY <1>1 DEF Part
  <2> QED BY <1>7, <2>1, <2>2
<1> HIDE DEF q
<1>9. /\ Pipe(SubSeq(w, k + 1, Len(w)), Unchecked(q, p), Owed(q), Part(p) + k, chkTag[p], setTag[q])
      /\ SubSeq(w, 1, k) \in Seq(Tag) /\ Len(SubSeq(w, 1, k)) = k
      /\ \A i \in 1 .. k : SubSeq(w, 1, k)[i] = tag
  <2>1. Pipe(w, Unchecked(q, p), Owed(q), Part(p), chkTag[p], setTag[q])
    BY <1>3, <1>5, <1>6
  <2> QED BY <1>7, <1>8, <2>1, PipeRead
<1>10. tag \in Tag
  <2>1. chkTag[p] \in Tag /\ Tag = 0 .. TagMod - 1 /\ TagMod \in Nat
    BY <1>4, TagFacts DEF BufferTypeOK
  <2>2. chkTag[p] + 1 \in Int
    BY <2>1
  <2> QED BY <2>2, TagFacts
<1> HIDE DEF tag
<1>11. PICK bytes \in Seq(Tag) : /\ bytes = SubSeq(w, 1, k) /\ Len(bytes) = k
                                 /\ \A i \in 1 .. k : bytes[i] = tag
  BY <1>9
<1>12. PICK d \in Seq(Tag) : /\ d = done[p] \o bytes /\ Len(d) = Len(done[p]) + k
                             /\ \A i \in 1 .. Len(d) : d[i] = tag
  <2>1. done[p] \in Seq(Tag) /\ \A i \in 1 .. Len(done[p]) : done[p][i] = tag
    BY <1>1, <1>4 DEF Buffers, tag
  <2>2. done[p] \o bytes \in Seq(Tag) /\ Len(done[p] \o bytes) = Len(done[p]) + k
    BY <1>11, <2>1
  <2>3. \A i \in 1 .. Len(done[p] \o bytes) : (done[p] \o bytes)[i] = tag
    BY <1>8, <1>11, <2>1, <2>2
  <2> QED BY <2>2, <2>3
<1>13. done' = [done EXCEPT ![p] = d] /\ done'[p] = d
  BY <1>4, <1>7, <1>11, <1>12
<1>14. PICK old \in [Ages -> Seq(Tag \cup {Sync})], its \in [Ages -> Seq(Tag \cup {Sync})] :
         old = wire[p] /\ its = wire[q]
  BY <1>3, WireTypes
<1>15. PICK rest \in Seq(Tag \cup {Sync}) : rest = SubSeq(w, k + 1, Len(w))
  <2>1. SubSeq(w, k + 1, Len(w)) \in Seq(Tag)
    BY <1>9 DEF Pipe
  <2>2. SubSeq(w, k + 1, Len(w)) \in Seq(Tag \cup {Sync})
    BY <2>1
  <2> QED BY <2>2
<1>16. PICK mine \in [Ages -> Seq(Tag \cup {Sync})] : mine = [old EXCEPT ![c] = rest]
  <2>1. [old EXCEPT ![c] = rest] \in [Ages -> Seq(Tag \cup {Sync})]
    BY <1>14, <1>15
  <2> QED BY <2>1
<1>17. /\ mine[c] = rest
       /\ \A a \in Ages : a # c => mine[a] = wire[p][a] /\ its[a] = wire[q][a]
  BY <1>14, <1>16
<1>18. wire' = [wire EXCEPT ![p] = mine, ![q] = its]
  <2>1. wire' = [wire EXCEPT ![p] = [wire[p] EXCEPT ![c] = rest]]
    BY <1>6, <1>7, <1>15
  <2>2. [wire[p] EXCEPT ![c] = rest] = mine
    BY <1>14, <1>16
  <2>3. wire = [wire EXCEPT ![q] = its]
    BY <1>14 DEF TcpInv, StreamInv
  <2> QED BY <1>3, <1>14, <2>1, <2>2, <2>3
<1>19. RoundStep(p) /\ \A x, y \in Proc : Unchecked(x, y)' = Unchecked(x, y)
  BY <1>1, StillCounts
<1>20. Owed(p)' = Owed(p) /\ Part(p)' = Part(p) + k
  BY <1>1, <1>8, <1>12, <1>13 DEF Owed, Part
<1>21. /\ Pipe(mine[c], Unchecked(q, p)', Owed(q), Part(p)', chkTag'[p], setTag[q])
       /\ Pipe(its[c], Unchecked(p, q)', Owed(p)', Part(q), chkTag[q], setTag'[p])
  BY <1>1, <1>3, <1>5, <1>9, <1>14, <1>15, <1>17, <1>19, <1>20
<1>22. buf' = [buf EXCEPT ![p][r_ptr[p]] = tag] /\ r_ptr[p] \in Half
  <2>1. Len(d) \in 1 .. Len(d) /\ 1 \in 1 .. Len(d)
    BY <1>8, <1>12
  <2>2. d[1] = tag /\ d[Len(d)] = tag
    BY <1>12, <2>1
  <2> QED BY <1>4, <1>13, <2>2 DEF Read, BufferTypeOK
<1>23. BufferTypeOK' /\ buf'[p][r_ptr[p]] = tag
  BY <1>1, <1>4, <1>10, <1>22 DEF BufferTypeOK
<1>24. Buffers(p)'
  BY <1>1, <1>4, <1>12, <1>13, <1>23 DEF Buffers, tag
<1>25. Calls(p)'
  BY <1>1, <1>4, <1>8, <1>12, <1>13 DEF Calls, Sends, Receives
<1>26. \A x \in Proc : x # p => /\ buf'[x] = buf[x] /\ s_ptr'[x] = s_ptr[x]
                                /\ r_ptr'[x] = r_ptr[x] /\ setTag'[x] = setTag[x]
                                /\ chkTag'[x] = chkTag[x] /\ failures'[x] = failures[x]
  BY <1>1, <1>4, <1>22 DEF BufferTypeOK
<1> QED BY <1>1, <1>2, <1>5, <1>13, <1>17, <1>18, <1>19, <1>21, <1>23, <1>24, <1>25, <1>26,
           LoopStep DEF q

-----------------------------------------------------------------------------
(***************************************************************************)
(* The connections are made and closed.                                    *)
(***************************************************************************)

\* p handles a socket: what is on its way to it and to its pair stays.
LEMMA SocketStep ==
  ASSUME TcpInv, NEW p \in Proc, NEW q, q = Pair(p), OthersStay(p), Apart(p),
         UNCHANGED <<reset_conn, done, bufVars>>, broken' = {}, Shapes',
         wire' = [x \in Proc |-> [c \in Ages |-> wire'[x][c]]],
         Unchecked(p, q)' = Unchecked(p, q), Unchecked(q, p)' = Unchecked(q, p),
         \/ pc'[p] = pc[p]
         \/ pc[p] = "reset" /\ pc'[p] \in {"sync", "mintime", "gather"},
         Socket(p)', Socket(q)', Connector(p) => Linked(p)', Connector(q) => Linked(q)',
         Data(p)' = Data(p), Data(q)' = Data(q),
         Greeted(p)' => wire'[p][Conn(p)'] = <<Sync>>,
         Greeted(q)' => wire'[q][Conn(q)'] = <<Sync>>,
         \A c \in Ages : c # Conn(p)' => wire'[p][c] = << >>,
         \A c \in Ages : c # Conn(q)' => wire'[q][c] = << >>
  PROVE  SocketInv' /\ StreamInv'
<1>1. q \in Proc /\ q # p /\ Pair(q) = p
  BY PairFacts, PairSides
<1>2. /\ Calls(p) /\ Calls(q) /\ Buffers(p) /\ Buffers(q) /\ BufferTypeOK
      /\ Pipe(Data(p), Unchecked(q, p), Owed(q), Part(p), chkTag[p], setTag[q])
      /\ Pipe(Data(q), Unchecked(p, q), Owed(p), Part(q), chkTag[q], setTag[p])
  BY <1>1 DEF TcpInv, SocketInv, StreamInv, Stream
<1>3. pc'[q] = pc[q] /\ done' = done /\ UNCHANGED bufVars
  BY <1>1 DEF OthersStay
<1>4. /\ Owed(p)' = Owed(p) /\ Owed(q)' = Owed(q)
      /\ Part(p)' = Part(p) /\ Part(q)' = Part(q)
  BY <1>3 DEF Owed, Part
<1>5. Calls(p)' /\ Calls(q)'
  BY <1>2, <1>3 DEF Calls, Sends, Receives
<1>6. Buffers(p)' /\ Buffers(q)' /\ BufferTypeOK'
  BY <1>2, <1>3 DEF Buffers, BufferTypeOK, bufVars
<1>7. Stream(p)'
  BY <1>2, <1>3, <1>4 DEF Stream, bufVars
<1>8. Stream(q)'
  BY <1>1, <1>2, <1>3, <1>4 DEF Stream, bufVars
<1> QED BY <1>5, <1>6, <1>7, <1>8, PairStep DEF TcpInv

\* A socket call without the driver.
LEMMA StillStep ==
  ASSUME TcpInv, NEW p \in Proc, NEW q, q = Pair(p), UNCHANGED driverVars,
         UNCHANGED <<reset_conn, done>>, broken' = {}, Shapes',
         wire' = [x \in Proc |-> [c \in Ages |-> wire'[x][c]]],
         \A x \in Proc : x # p /\ x # q =>
           /\ setup'[x] = setup[x] /\ age'[x] = age[x] /\ serv_sd'[x] = serv_sd[x]
           /\ backlog'[x] = backlog[x] /\ comm_sd'[x] = comm_sd[x] /\ wire'[x] = wire[x],
         Socket(p)', Socket(q)', Connector(p) => Linked(p)', Connector(q) => Linked(q)',
         Data(p)' = Data(p), Data(q)' = Data(q),
         Greeted(p)' => wire'[p][Conn(p)'] = <<Sync>>,
         Greeted(q)' => wire'[q][Conn(q)'] = <<Sync>>,
         \A c \in Ages : c # Conn(p)' => wire'[p][c] = << >>,
         \A c \in Ages : c # Conn(q)' => wire'[q][c] = << >>
  PROVE  SocketInv' /\ StreamInv'
<1>1. q \in Proc
  BY PairFacts, PairSides
<1>2. UNCHANGED <<pc, inside, colls, loopVars>> /\ UNCHANGED bufVars
  BY DEF driverVars
<1>3. OthersStay(p) /\ \A x, y \in Proc : Unchecked(x, y)' = Unchecked(x, y)
  BY <1>2, StillCounts DEF RoundStep
<1>4. Apart(p)
  BY <1>2 DEF Apart, bufVars
<1> QED BY <1>1, <1>2, <1>3, <1>4, SocketStep

\* What the sockets of a pair are.
LEMMA PairSockets ==
  ASSUME TcpInv, NEW p \in Proc, NEW q, q = Pair(p)
  PROVE  /\ q \in Proc /\ q # p /\ Pair(q) = p /\ (Connector(p) <=> ~Connector(q))
         /\ Shapes /\ Socket(p) /\ Socket(q)
         /\ (Connector(p) => Linked(p)) /\ (Connector(q) => Linked(q))
         /\ age[p] \in Nat /\ age[q] \in Nat /\ age[p] \in Ages
         /\ Conn(p) = Conn(q) /\ Conn(p) \in Ages
         /\ broken = {} /\ wire = [x \in Proc |-> [c \in Ages |-> wire[x][c]]]
         /\ Greeted(p) => wire[p][Conn(p)] = <<Sync>>
         /\ Greeted(q) => wire[q][Conn(p)] = <<Sync>>
         /\ \A c \in Ages : c # Conn(p) => wire[p][c] = << >> /\ wire[q][c] = << >>
<1>1. q \in Proc /\ q # p /\ Pair(q) = p /\ (Connector(p) <=> ~Connector(q))
  BY PairFacts, PairSides
<1>2. /\ Shapes /\ Socket(p) /\ Socket(q)
      /\ (Connector(p) => Linked(p)) /\ (Connector(q) => Linked(q))
  BY <1>1 DEF TcpInv, SocketInv
<1>3. /\ age[p] \in Nat /\ age[q] \in Nat /\ age[p] \in Ages
      /\ Conn(p) = Conn(q) /\ Conn(p) \in Ages
  BY AgeFacts DEF TcpInv
<1>4. /\ broken = {} /\ wire = [x \in Proc |-> [c \in Ages |-> wire[x][c]]]
      /\ Stream(p) /\ Stream(q)
  BY <1>1 DEF TcpInv, StreamInv
<1> QED BY <1>1, <1>2, <1>3, <1>4 DEF Stream

LEMMA RefusedStep ==
  ASSUME TcpInv, NEW p \in Proc, Refused(p)
  PROVE  SocketInv' /\ StreamInv'
<1>1. PICK q \in Proc : q = Pair(p)
  BY PairFacts
<1>2. /\ UNCHANGED driverVars /\ broken' = broken /\ wire' = wire /\ done' = done
      /\ reset_conn' = reset_conn /\ setup' = setup /\ age' = age /\ serv_sd' = serv_sd
      /\ backlog' = backlog /\ comm_sd' = comm_sd
  BY DEF Refused
<1>3. /\ q # p /\ Pair(q) = p /\ Shapes /\ Socket(p) /\ Socket(q)
      /\ (Connector(p) => Linked(p)) /\ (Connector(q) => Linked(q))
      /\ Conn(p) = Conn(q)
      /\ broken = {} /\ wire = [x \in Proc |-> [c \in Ages |-> wire[x][c]]]
      /\ Greeted(p) => wire[p][Conn(p)] = <<Sync>>
      /\ Greeted(q) => wire[q][Conn(p)] = <<Sync>>
      /\ \A c \in Ages : c # Conn(p) => wire[p][c] = << >> /\ wire[q][c] = << >>
  BY <1>1, PairSockets
<1>4. \A x \in Proc : Conn(x)' = Conn(x) /\ Greeted(x)' = Greeted(x)
  BY <1>2 DEF Conn, Greeted
<1>5. Data(p)' = Data(p) /\ Data(q)' = Data(q)
  BY <1>2, <1>4 DEF Data
<1>6. Shapes'
  BY <1>2, <1>3 DEF Shapes
<1>7. Socket(p)' /\ Socket(q)'
  BY <1>2, <1>3 DEF Socket, Round, driverVars, loopVars
<1>8. (Connector(p) => Linked(p)') /\ (Connector(q) => Linked(q)')
  BY <1>2, <1>3 DEF Linked
<1> QED BY <1>1, <1>2, <1>3, <1>4, <1>5, <1>6, <1>7, <1>8, StillStep

LEMMA ListenStep ==
  ASSUME TcpInv, NEW p \in Proc, Listen(p)
  PROVE  SocketInv' /\ StreamInv'
<1>1. PICK q \in Proc : q = Pair(p)
  BY PairFacts, PairSides
<1>2. /\ UNCHANGED driverVars /\ broken' = broken /\ wire' = wire /\ done' = done
      /\ reset_conn' = reset_conn /\ age' = age /\ backlog' = backlog /\ comm_sd' = comm_sd
      /\ serv_sd' = [serv_sd EXCEPT ![p] = TRUE]
      /\ setup' = [setup EXCEPT ![p] = IF Connector(p) THEN "connect" ELSE "accept"]
      /\ setup[p] = "exchange" /\ age[q] >= age[p]
  BY <1>1 DEF Listen, Exchanged
<1>3. /\ q # p /\ Pair(q) = p /\ (Connector(p) <=> ~Connector(q))
      /\ Shapes /\ Socket(p) /\ Socket(q)
      /\ (Connector(p) => Linked(p)) /\ (Connector(q) => Linked(q))
      /\ age[p] \in Nat /\ age[q] \in Nat
      /\ Conn(p) = Conn(q)
      /\ broken = {} /\ wire = [x \in Proc |-> [c \in Ages |-> wire[x][c]]]
      /\ \A c \in Ages : c # Conn(p) => wire[p][c] = << >> /\ wire[q][c] = << >>
  BY <1>1, PairSockets
<1>4. /\ serv_sd'[p] /\ setup'[p] = IF Connector(p) THEN "connect" ELSE "accept"
      /\ \A x \in Proc : x # p => serv_sd'[x] = serv_sd[x] /\ setup'[x] = setup[x]
      /\ serv_sd' \in [Proc -> BOOLEAN] /\ setup' \in [Proc -> Setups]
  BY <1>2, <1>3 DEF Shapes, Setups
<1>5. /\ age[p] = age[q]
      /\ Connector(p) => setup[q] \in {"exchange", "accept"}
      /\ ~Connector(p) => setup[q] \in {"exchange", "connect"}
  BY <1>1, <1>2, <1>3 DEF Linked
<1>6. (Connector(p) => Linked(p)') /\ (Connector(q) => Linked(q)')
  BY <1>1, <1>2, <1>3, <1>4, <1>5 DEF Linked
<1>7. Shapes'
  BY <1>2, <1>3, <1>4 DEF Shapes
<1>8. /\ pc' = pc /\ inside' = inside /\ colls' = colls /\ \A x \in Proc : Round(x)' = Round(x)
  BY <1>2 DEF Round, driverVars, loopVars
<1>9. Socket(p)'
  BY <1>1, <1>2, <1>3, <1>4, <1>5, <1>8 DEF Socket
<1>10. Socket(q)'
  BY <1>1, <1>2, <1>3, <1>4, <1>5, <1>8 DEF Socket
<1>11. /\ ~Greeted(p) /\ ~Greeted(q) /\ ~Greeted(p)' /\ ~Greeted(q)'
  BY <1>1, <1>2, <1>3, <1>4, <1>5 DEF Greeted
<1>12. \A x \in Proc : Conn(x)' = Conn(x)
  BY <1>2 DEF Conn
<1>13. Data(p)' = Data(p) /\ Data(q)' = Data(q)
  BY <1>2, <1>11, <1>12 DEF Data
<1>14. /\ broken' = {} /\ wire' = [x \in Proc |-> [c \in Ages |-> wire'[x][c]]]
       /\ \A c \in Ages : c # Conn(p)' => wire'[p][c] = << >>
       /\ \A c \in Ages : c # Conn(q)' => wire'[q][c] = << >>
  BY <1>1, <1>2, <1>3, <1>12
<1>15. \A x \in Proc : x # p /\ x # q =>
         /\ setup'[x] = setup[x] /\ age'[x] = age[x] /\ serv_sd'[x] = serv_sd[x]
         /\ backlog'[x] = backlog[x] /\ comm_sd'[x] = comm_sd[x] /\ wire'[x] = wire[x]
  BY <1>2, <1>4
<1> QED BY <1>1, <1>2, <1>6, <1>7, <1>9, <1>10, <1>11, <1>13, <1>14, <1>15, StillStep

LEMMA ConnectStep ==
  ASSUME TcpInv, NEW p \in Proc, Connect(p)
  PROVE  SocketInv' /\ StreamInv'
<1>1. PICK q \in Proc : q = Pair(p)
  BY PairFacts
<1>2. /\ UNCHANGED driverVars /\ broken' = broken /\ wire' = wire /\ done' = done
      /\ reset_conn' = reset_conn /\ age' = age /\ serv_sd' = serv_sd
      /\ comm_sd' = [comm_sd EXCEPT ![p] = age[p]]
      /\ backlog' = [backlog EXCEPT ![q] = Append(@, age[p])]
      /\ setup' = [setup EXCEPT ![p] = "sync"]
      /\ setup[p] = "connect" /\ serv_sd[q]
  BY <1>1 DEF Connect
<1>3. /\ q # p /\ Pair(q) = p /\ (Connector(p) <=> ~Connector(q))
      /\ Shapes /\ Socket(p) /\ Socket(q)
      /\ (Connector(p) => Linked(p)) /\ (Connector(q) => Linked(q))
      /\ age[p] \in Nat /\ age[q] \in Nat
      /\ Conn(p) = Conn(q)
      /\ broken = {} /\ wire = [x \in Proc |-> [c \in Ages |-> wire[x][c]]]
      /\ \A c \in Ages : c # Conn(p) => wire[p][c] = << >> /\ wire[q][c] = << >>
  BY <1>1, PairSockets
<1>4. Connector(p) /\ age[p] = age[q] /\ setup[q] = "accept"
  <2>1. Connector(p)
    BY <1>1, <1>2, <1>3 DEF Linked
  <2>2. age[p] = age[q] /\ setup[q] \in {"exchange", "accept"}
    BY <1>1, <1>2, <1>3, <2>1 DEF Linked
  <2>3. setup[q] # "exchange"
    BY <1>2, <1>3 DEF Socket
  <2> QED BY <2>1, <2>2, <2>3
<1>5. backlog[q] = << >> /\ Append(backlog[q], age[p]) = <<age[q]>>
  <2>1. backlog[q] = << >>
    BY <1>2, <1>3, <1>4 DEF Socket
  <2> QED BY <1>4, <2>1
<1>6. /\ comm_sd'[p] = age[p] /\ setup'[p] = "sync" /\ backlog'[q] = <<age[q]>>
      /\ backlog'[p] = backlog[p] /\ comm_sd'[q] = comm_sd[q]
      /\ \A x \in Proc : x # p => setup'[x] = setup[x] /\ comm_sd'[x] = comm_sd[x]
      /\ \A x \in Proc : x # q => backlog'[x] = backlog[x]
      /\ comm_sd' \in [Proc -> Nat] /\ setup' \in [Proc -> Setups] /\ backlog' \in [Proc -> Seq(Nat)]
  BY <1>2, <1>3, <1>5 DEF Shapes, Setups
<1>7. (Connector(p) => Linked(p)') /\ (Connector(q) => Linked(q)')
  BY <1>1, <1>2, <1>3, <1>4, <1>6 DEF Linked
<1>8. Shapes'
  BY <1>2, <1>3, <1>6 DEF Shapes
<1>9. /\ pc' = pc /\ inside' = inside /\ colls' = colls /\ \A x \in Proc : Round(x)' = Round(x)
  BY <1>2 DEF Round, driverVars, loopVars
<1>10. Socket(p)'
  BY <1>1, <1>2, <1>3, <1>4, <1>6, <1>9 DEF Socket
<1>11. Socket(q)'
  BY <1>1, <1>2, <1>3, <1>4, <1>6, <1>9 DEF Socket
<1>12. /\ ~Greeted(p) /\ ~Greeted(q) /\ ~Greeted(p)' /\ ~Greeted(q)'
  BY <1>1, <1>2, <1>3, <1>4, <1>6 DEF Greeted
<1>13. \A x \in Proc : Conn(x)' = Conn(x)
  BY <1>2 DEF Conn
<1>14. Data(p)' = Data(p) /\ Data(q)' = Data(q)
  BY <1>2, <1>12, <1>13 DEF Data
<1>15. /\ broken' = {} /\ wire' = [x \in Proc |-> [c \in Ages |-> wire'[x][c]]]
       /\ \A c \in Ages : c # Conn(p)' => wire'[p][c] = << >>
       /\ \A c \in Ages : c # Conn(q)' => wire'[q][c] = << >>
  BY <1>1, <1>2, <1>3, <1>13
<1>16. \A x \in Proc : x # p /\ x # q =>
         /\ setup'[x] = setup[x] /\ age'[x] = age[x] /\ serv_sd'[x] = serv_sd[x]
         /\ backlog'[x] = backlog[x] /\ comm_sd'[x] = comm_sd[x] /\ wire'[x] = wire[x]
  BY <1>2, <1>6
<1> QED BY <1>1, <1>2, <1>7, <1>8, <1>10, <1>11, <1>12, <1>14, <1>15, <1>16, StillStep

\* The end of Module_Setup().
LEMMA EstablishedFacts ==
  ASSUME TcpInv, DriverInv', NEW p \in Proc, NEW q, q = Pair(p), setup[p] # "up", Established(p)
  PROVE  /\ OthersStay(p) /\ setup'[p] = "up" /\ setup' \in [Proc -> Setups] /\ UNCHANGED bufVars
         /\ \A x \in Proc : x # p => setup'[x] = setup[x]
         /\ Unchecked(p, q)' = Unchecked(p, q) /\ Unchecked(q, p)' = Unchecked(q, p)
         /\ \/ pc'[p] = pc[p]
            \/ pc[p] = "reset" /\ pc'[p] \in {"sync", "mintime", "gather"}
         /\ reset_conn => age[p] + NTrials = Round(p)' + 1
<1>1. /\ setup' = [setup EXCEPT ![p] = "up"]
      /\ IF pc[p] = "reset" THEN DriverReset(p) ELSE UNCHANGED driverVars
  BY DEF Established
<1>2. /\ q \in Proc /\ q # p /\ Shapes /\ Socket(p) /\ age[p] \in Nat
  BY PairSockets
<1>3. /\ setup'[p] = "up" /\ setup' \in [Proc -> Setups]
      /\ \A x \in Proc : x # p => setup'[x] = setup[x]
  BY <1>1, <1>2 DEF Shapes, Setups
<1>4. Round(p) \in Nat /\ NTrials \in Nat
  BY RoundType, NetPIPEAssumption DEF TcpInv, DriverInv
<1>5. CASE pc[p] = "reset"
  <2>1. DriverReset(p) /\ UNCHANGED bufVars
    BY <1>1, <1>5 DEF DriverReset
  <2>2. OthersStay(p) /\ Round(p)' = Round(p) + 1
    BY <2>1, ResetRound DEF TcpInv
  <2>3. pc'[p] \in {"sync", "mintime", "gather"}
    BY <2>1, Starts DEF DriverReset, Goto, TcpInv, DriverInv, ControlTypeOK
  <2>4. Unchecked(p, q)' = Unchecked(p, q) /\ Unchecked(q, p)' = Unchecked(q, p)
    BY <2>1, ResetCounts, OwnBytes DEF TcpInv
  <2>5. reset_conn => age[p] + NTrials = Round(p) + 2
    BY <1>2, <1>5 DEF Socket
  <2> QED BY <1>3, <1>4, <1>5, <2>1, <2>2, <2>3, <2>4, <2>5
<1>6. CASE pc[p] # "reset"
  <2>1. UNCHANGED <<pc, inside, colls, loopVars>> /\ UNCHANGED bufVars
    BY <1>1, <1>6 DEF driverVars
  <2>2. OthersStay(p) /\ Round(p)' = Round(p) /\ \A x, y \in Proc : Unchecked(x, y)' = Unchecked(x, y)
    BY <2>1, StillCounts DEF RoundStep
  <2>3. reset_conn => age[p] + NTrials = Round(p) + 1
    BY <1>2, <1>6 DEF Socket
  <2> QED BY <1>2, <1>3, <2>1, <2>2, <2>3
<1> QED BY <1>5, <1>6

LEMMA AcceptStep ==
  ASSUME TcpInv, DriverInv', NEW p \in Proc, Accept(p)
  PROVE  SocketInv' /\ StreamInv'
<1>1. PICK q \in Proc : q = Pair(p)
  BY PairFacts
<1>2. /\ setup[p] = "accept" /\ backlog[p] # << >> /\ Established(p)
      /\ comm_sd' = [comm_sd EXCEPT ![p] = Head(backlog[p])]
      /\ backlog' = [backlog EXCEPT ![p] = Tail(@)]
      /\ wire' = [wire EXCEPT ![q][Head(backlog[p])] = Append(@, Sync)]
      /\ broken' = broken /\ done' = done /\ reset_conn' = reset_conn /\ age' = age
      /\ serv_sd' = serv_sd
  BY <1>1 DEF Accept
<1>3. /\ q # p /\ Pair(q) = p /\ (Connector(p) <=> ~Connector(q))
      /\ Shapes /\ Socket(p) /\ Socket(q)
      /\ (Connector(p) => Linked(p)) /\ (Connector(q) => Linked(q))
      /\ age[p] \in Nat /\ age[q] \in Nat
      /\ Conn(p) = Conn(q) /\ Conn(p) \in Ages
      /\ broken = {} /\ wire = [x \in Proc |-> [c \in Ages |-> wire[x][c]]]
      /\ \A c \in Ages : c # Conn(p) => wire[p][c] = << >> /\ wire[q][c] = << >>
  BY <1>1, PairSockets
<1>4. /\ OthersStay(p) /\ setup'[p] = "up" /\ setup' \in [Proc -> Setups] /\ UNCHANGED bufVars
      /\ \A x \in Proc : x # p => setup'[x] = setup[x]
      /\ Unchecked(p, q)' = Unchecked(p, q) /\ Unchecked(q, p)' = Unchecked(q, p)
      /\ \/ pc'[p] = pc[p]
         \/ pc[p] = "reset" /\ pc'[p] \in {"sync", "mintime", "gather"}
      /\ reset_conn => age[p] + NTrials = Round(p)' + 1
  BY <1>1, <1>2, EstablishedFacts
<1>5. setup[q] = "sync" /\ backlog[p] = <<age[p]>>
  BY <1>1, <1>2, <1>3 DEF Socket
<1>6. ~Connector(p) /\ age[p] = age[q] /\ Conn(p) = age[p]
  BY <1>1, <1>2, <1>3, <1>5 DEF Linked, Conn
<1>7. wire[q][Conn(p)] = << >> /\ ~Greeted(q)
  <2>1. Data(q) = << >> /\ ~Greeted(q)
    BY <1>1, <1>2, <1>3, <1>5, Fresh DEF TcpInv
  <2> QED BY <1>3, <2>1 DEF Data
<1>8. Head(backlog[p]) = age[p] /\ Tail(backlog[p]) = << >>
  BY <1>5
<1>9. /\ comm_sd'[p] = age[p] /\ backlog'[p] = << >>
      /\ comm_sd' \in [Proc -> Nat] /\ backlog' \in [Proc -> Seq(Nat)]
      /\ \A x \in Proc : x # p => comm_sd'[x] = comm_sd[x] /\ backlog'[x] = backlog[x]
  BY <1>2, <1>3, <1>8 DEF Shapes
<1>10. PICK c \in Ages : c = Conn(p)
  BY <1>3
<1>11. wire' = [wire EXCEPT ![q] = [wire[q] EXCEPT ![c] = Append(@, Sync)]]
  BY <1>2, <1>6, <1>8, <1>10
<1>12. /\ wire'[q] = [wire[q] EXCEPT ![c] = Append(@, Sync)]
       /\ \A x \in Proc : x # q => wire'[x] = wire[x]
       /\ wire' = [x \in Proc |-> wire'[x]]
  BY <1>3, <1>11
<1>13. wire[q] = [a \in Ages |-> wire[q][a]]
  BY <1>3
<1>14. /\ wire'[q][c] = <<Sync>> /\ wire'[q] = [a \in Ages |-> wire'[q][a]]
       /\ \A a \in Ages : a # c => wire'[q][a] = wire[q][a]
  <2>1. Append(wire[q][c], Sync) = <<Sync>>
    <3>1. wire[q][c] = << >>
      BY <1>7, <1>10
    <3> QED BY <3>1
  <2> QED BY <1>12, <1>13, <2>1
<1>15. wire' = [x \in Proc |-> [a \in Ages |-> wire'[x][a]]]
  <2>1. ASSUME NEW x \in Proc PROVE wire'[x] = [a \in Ages |-> wire'[x][a]]
    <3>1. CASE x = q
      BY <1>14, <3>1
    <3>2. CASE x # q
      <4>1. wire[x] = [a \in Ages |-> wire[x][a]] /\ wire'[x] = wire[x]
        BY <1>3, <1>12, <3>2
      <4> QED BY <4>1
    <3> QED BY <3>1, <3>2
  <2> QED BY <1>12, <2>1
<1>16. /\ Connector(p) => Linked(p)'
       /\ Connector(q) => Linked(q)'
  BY <1>1, <1>2, <1>3, <1>4, <1>5, <1>6 DEF Linked
<1>17. Shapes'
  BY <1>2, <1>3, <1>4, <1>9 DEF Shapes
<1>18. Socket(p)'
  BY <1>1, <1>2, <1>3, <1>4, <1>5, <1>9 DEF Socket
<1>19. Socket(q)'
  <2>1. pc'[q] = pc[q] /\ inside'[q] = inside[q] /\ colls'[q] = colls[q] /\ Round(q)' = Round(q)
    BY <1>3, <1>4, SameDriver
  <2> QED BY <1>1, <1>2, <1>3, <1>4, <1>5, <1>9, <2>1 DEF Socket
<1>20. Conn(p)' = Conn(p) /\ Conn(q)' = Conn(q)
  BY <1>2 DEF Conn
<1>21. ~Greeted(p) /\ ~Greeted(p)' /\ Greeted(q)'
  BY <1>1, <1>2, <1>3, <1>4, <1>5 DEF Greeted
<1>22. Data(p)' = Data(p) /\ Data(q)' = Data(q)
  <2>1. Data(p)' = Data(p)
    BY <1>3, <1>12, <1>20, <1>21 DEF Data
  <2>2. Data(q)' = << >> /\ Data(q) = << >>
    BY <1>3, <1>7, <1>21 DEF Data
  <2> QED BY <2>1, <2>2
<1>23. /\ Greeted(p)' => wire'[p][Conn(p)'] = <<Sync>>
       /\ Greeted(q)' => wire'[q][Conn(q)'] = <<Sync>>
       /\ \A a \in Ages : a # Conn(p)' => wire'[p][a] = << >>
       /\ \A a \in Ages : a # Conn(q)' => wire'[q][a] = << >>
  BY <1>3, <1>10, <1>12, <1>14, <1>20, <1>21
<1>24. Apart(p) /\ broken' = {} /\ done' = done /\ reset_conn' = reset_conn
  BY <1>1, <1>2, <1>3, <1>4, <1>9, <1>12 DEF Apart, bufVars
<1> QED BY <1>1, <1>4, <1>15, <1>16, <1>17, <1>18, <1>19, <1>22, <1>23, <1>24, SocketStep

LEMMA ReadSyncStep ==
  ASSUME TcpInv, DriverInv', NEW p \in Proc, ReadSync(p)
  PROVE  SocketInv' /\ StreamInv' /\ failed' = failed
<1>1. PICK q \in Proc : q = Pair(p)
  BY PairFacts
<1>2. /\ setup[p] = "sync" /\ (wire[p][comm_sd[p]] # << >> \/ <<p, comm_sd[p]>> \in broken)
      /\ broken' = broken /\ done' = done /\ reset_conn' = reset_conn /\ age' = age
      /\ serv_sd' = serv_sd /\ backlog' = backlog /\ comm_sd' = comm_sd
  BY DEF ReadSync
<1>3. /\ q # p /\ Pair(q) = p /\ (Connector(p) <=> ~Connector(q))
      /\ Shapes /\ Socket(p) /\ Socket(q)
      /\ (Connector(p) => Linked(p)) /\ (Connector(q) => Linked(q))
      /\ age[p] \in Nat /\ age[q] \in Nat
      /\ Conn(p) = Conn(q) /\ Conn(p) \in Ages
      /\ broken = {} /\ wire = [x \in Proc |-> [c \in Ages |-> wire[x][c]]]
      /\ Greeted(p) => wire[p][Conn(p)] = <<Sync>>
      /\ \A c \in Ages : c # Conn(p) => wire[p][c] = << >> /\ wire[q][c] = << >>
  BY <1>1, PairSockets
<1>4. Connector(p) /\ age[p] = age[q] /\ setup[q] \in {"accept", "up"} /\ Conn(p) = age[p]
  <2>1. Connector(p)
    BY <1>1, <1>2, <1>3 DEF Linked
  <2> QED BY <1>1, <1>2, <1>3, <2>1 DEF Linked, Conn
<1>5. comm_sd[p] = Conn(p)
  BY <1>2, <1>3, <1>4 DEF Socket
<1>6. setup[q] = "up"
  <2>1. SUFFICES ASSUME setup[q] # "up" PROVE FALSE
    OBVIOUS
  <2>2. Data(p) = << >> /\ ~Greeted(p)
    BY <1>1, <1>2, <2>1, Fresh DEF TcpInv
  <2>3. wire[p][Conn(p)] = << >>
    BY <2>2 DEF Data
  <2> QED BY <1>2, <1>3, <1>5, <2>3
<1>7. Greeted(p) /\ wire[p][comm_sd[p]] = <<Sync>>
  BY <1>1, <1>2, <1>3, <1>5, <1>6 DEF Greeted
<1>8. Head(wire[p][comm_sd[p]]) = Sync /\ Tail(wire[p][comm_sd[p]]) = << >>
  BY <1>7
<1>9. PICK c \in Ages : c = comm_sd[p]
  BY <1>3, <1>5
<1>10. /\ wire' = [wire EXCEPT ![p][c] = Tail(@)] /\ Established(p) /\ failed' = failed
  <2>1. wire[p][comm_sd[p]] # << >> /\ Head(wire[p][comm_sd[p]]) = Sync
    BY <1>7, <1>8
  <2> QED BY <1>9, <2>1 DEF ReadSync
<1>11. /\ OthersStay(p) /\ setup'[p] = "up" /\ setup' \in [Proc -> Setups] /\ UNCHANGED bufVars
       /\ \A x \in Proc : x # p => setup'[x] = setup[x]
       /\ Unchecked(p, q)' = Unchecked(p, q) /\ Unchecked(q, p)' = Unchecked(q, p)
       /\ \/ pc'[p] = pc[p]
          \/ pc[p] = "reset" /\ pc'[p] \in {"sync", "mintime", "gather"}
       /\ reset_conn => age[p] + NTrials = Round(p)' + 1
  BY <1>1, <1>2, <1>10, EstablishedFacts
<1>12. wire' = [wire EXCEPT ![p] = [wire[p] EXCEPT ![c] = Tail(@)]]
  BY <1>10
<1>13. /\ wire'[p] = [wire[p] EXCEPT ![c] = Tail(@)]
       /\ \A x \in Proc : x # p => wire'[x] = wire[x]
       /\ wire' = [x \in Proc |-> wire'[x]]
  BY <1>3, <1>12
<1>14. wire[p] = [a \in Ages |-> wire[p][a]]
  BY <1>3
<1>15. /\ wire'[p][c] = << >> /\ wire'[p] = [a \in Ages |-> wire'[p][a]]
       /\ \A a \in Ages : a # c => wire'[p][a] = wire[p][a]
  BY <1>8, <1>9, <1>13, <1>14
<1>16. wire' = [x \in Proc |-> [a \in Ages |-> wire'[x][a]]]
  <2>1. ASSUME NEW x \in Proc PROVE wire'[x] = [a \in Ages |-> wire'[x][a]]
    <3>1. CASE x = p
      BY <1>15, <3>1
    <3>2. CASE x # p
      <4>1. wire[x] = [a \in Ages |-> wire[x][a]] /\ wire'[x] = wire[x]
        BY <1>3, <1>13, <3>2
      <4> QED BY <4>1
    <3> QED BY <3>1, <3>2
  <2> QED BY <1>13, <2>1
<1>17. /\ Connector(p) => Linked(p)'
       /\ Connector(q) => Linked(q)'
  BY <1>1, <1>2, <1>3, <1>4, <1>6, <1>11 DEF Linked
<1>18. Shapes'
  BY <1>2, <1>3, <1>11 DEF Shapes
<1>19. Socket(p)'
  BY <1>1, <1>2, <1>3, <1>6, <1>11 DEF Socket
<1>20. Socket(q)'
  <2>1. pc'[q] = pc[q] /\ inside'[q] = inside[q] /\ colls'[q] = colls[q] /\ Round(q)' = Round(q)
    BY <1>3, <1>11, SameDriver
  <2> QED BY <1>1, <1>2, <1>3, <1>6, <1>11, <2>1 DEF Socket
<1>21. Conn(p)' = Conn(p) /\ Conn(q)' = Conn(q)
  BY <1>2 DEF Conn
<1>22. ~Greeted(q) /\ ~Greeted(p)' /\ ~Greeted(q)'
  BY <1>1, <1>2, <1>3, <1>6, <1>11 DEF Greeted
<1>23. Data(p)' = Data(p) /\ Data(q)' = Data(q)
  <2>1. Data(q)' = Data(q)
    BY <1>3, <1>13, <1>21, <1>22 DEF Data
  <2>2. Data(p)' = << >> /\ Data(p) = << >>
    BY <1>5, <1>7, <1>9, <1>15, <1>21, <1>22 DEF Data
  <2> QED BY <2>1, <2>2
<1>24. /\ \A a \in Ages : a # Conn(p)' => wire'[p][a] = << >>
       /\ \A a \in Ages : a # Conn(q)' => wire'[q][a] = << >>
  BY <1>3, <1>5, <1>9, <1>13, <1>15, <1>21
<1>25. Apart(p) /\ broken' = {} /\ done' = done /\ reset_conn' = reset_conn
  BY <1>1, <1>2, <1>3, <1>11, <1>13 DEF Apart, bufVars
<1> QED BY <1>1, <1>10, <1>11, <1>16, <1>17, <1>18, <1>19, <1>20, <1>22, <1>23, <1>24, <1>25, SocketStep

\* There is an age for the next connection of a process that finishes a trial.
LEMMA NextAge ==
  ASSUME TcpInv, NEW p \in Proc, pc[p] = "reset", setup[p] = "up", reset_conn
  PROVE  age[p] + 1 \in Ages
<1>1. age[p] + NTrials = Round(p) + 1 /\ age[p] \in Nat
  BY AgeFacts DEF TcpInv, SocketInv, Socket
<1>2. /\ n[p] \in 1 .. Tests /\ trial[p] \in 0 .. NTrials - 1 /\ NTrials \in Nat \ {0}
      /\ NPerts \in Nat /\ MaxTests \in Nat
  BY NetPIPEAssumption DEF TcpInv, RoundInv, Rounded, DriverInv, ControlTypeOK
<1>3. Round(p) = n[p] * NTrials + trial[p]
  BY DEF Round, RoundLabels, TrialLabels
<1>4. n[p] * NTrials <= Tests * NTrials /\ n[p] * NTrials \in Int /\ Tests * NTrials \in Int
  <2>1. Tests \in Int /\ n[p] \in Int
    BY <1>2 DEF Tests
  <2>2. CASE n[p] < Tests
    BY <1>2, <2>1, <2>2, Longer
  <2>3. CASE n[p] = Tests
    BY <1>2, <2>1, <2>3
  <2> QED BY <1>2, <2>1, <2>2, <2>3
<1>5. MaxTests * NPerts * NTrials = Tests * NTrials
  <2>1. MaxTests * NPerts = Tests
    BY <1>2 DEF Tests
  <2> QED BY <2>1
<1>6. age[p] + 1 <= 1 + Tests * NTrials /\ age[p] + 1 \in Nat /\ age[p] + 1 >= 1
  BY <1>1, <1>2, <1>3, <1>4
<1> QED BY <1>4, <1>5, <1>6 DEF Ages

LEMMA CloseStep ==
  ASSUME TcpInv, NEW p \in Proc, Close(p)
  PROVE  SocketInv' /\ StreamInv'
<1>1. PICK q \in Proc : q = Pair(p)
  BY PairFacts
<1>2. /\ pc[p] = "reset" /\ setup[p] = "up" /\ reset_conn
      /\ serv_sd' = [serv_sd EXCEPT ![p] = FALSE]
      /\ backlog' = [backlog EXCEPT ![p] = << >>]
      /\ comm_sd' = [comm_sd EXCEPT ![p] = 0]
      /\ age'     = [age EXCEPT ![p] = @ + 1]
      /\ setup'   = [setup EXCEPT ![p] = "exchange"]
      /\ UNCHANGED driverVars /\ reset_conn' = reset_conn /\ done' = done
  BY DEF Close
<1>3. /\ q # p /\ Pair(q) = p /\ (Connector(p) <=> ~Connector(q))
      /\ Shapes /\ Socket(p) /\ Socket(q)
      /\ age[p] \in Nat /\ age[q] \in Nat /\ age[p] \in Ages
      /\ Conn(p) = Conn(q) /\ Conn(p) \in Ages
      /\ broken = {} /\ wire = [x \in Proc |-> [c \in Ages |-> wire[x][c]]]
      /\ \A c \in Ages : c # Conn(p) => wire[p][c] = << >> /\ wire[q][c] = << >>
  BY <1>1, PairSockets
<1>4. /\ \/ setup[q] = "up" /\ age[q] = age[p]
         \/ setup[q] = "exchange" /\ age[q] = age[p] + 1 /\ pc[q] = "reset"
      /\ Conn(p) = age[p] /\ Conn(q) = age[p] /\ comm_sd[p] = age[p]
      /\ ~Greeted(p) /\ ~Greeted(q)
  <2>1. InTrial(p)
    BY <1>2 DEF InTrial, TrialLabels
  <2> QED BY <1>1, <1>2, <2>1, TrialLink DEF TcpInv
<1>5. wire[p][Conn(p)] = << >> /\ Data(p) = << >>
  <2>1. Data(p) = << >>
    BY <1>2, Drained DEF TcpInv
  <2> QED BY <1>4, <2>1 DEF Data
<1>6. backlog[p] = << >>
  BY <1>2, <1>3 DEF Socket
<1>7. age[p] + 1 \in Ages
  BY <1>2, NextAge
<1>8. broken' = {} /\ wire' = wire
  <2> DEFINE unread == IF wire[p][comm_sd[p]] # << >> THEN {comm_sd[p]} ELSE {}
             lost   == unread \cup {backlog[p][i] : i \in DOMAIN backlog[p]}
  <2>1. wire[p][comm_sd[p]] = << >>
    BY <1>4, <1>5
  <2>2. lost = {}
    BY <1>6, <2>1
  <2>3. /\ broken'  = broken \cup (Pairing(p) \X lost)
        /\ wire'    = [wire EXCEPT ![p][comm_sd[p]] = << >>,
                                   ![q] = [c \in Ages |-> IF c \in lost THEN << >> ELSE @[c]]]
    BY <1>1 DEF Close
  <2> HIDE DEF lost
  <2>4. broken' = {}
    <3>1. Pairing(p) \X lost = {}
      BY <2>2
    <3> QED BY <1>3, <2>3, <3>1
  <2>5. \A x \in Proc : wire[x] = [c \in Ages |-> wire[x][c]]
    BY <1>3
  <2>6. [wire[p] EXCEPT ![comm_sd[p]] = << >>] = wire[p]
    BY <2>1, <2>5
  <2>7. [c \in Ages |-> IF c \in lost THEN << >> ELSE wire[q][c]] = wire[q]
    BY <2>2, <2>5
  <2>8. wire' = [wire EXCEPT ![p] = wire[p], ![q] = wire[q]]
    BY <1>3, <2>3, <2>6, <2>7
  <2>9. wire' = wire
    BY <1>3, <2>8
  <2> QED BY <2>4, <2>9
<1>9. /\ ~serv_sd'[p] /\ backlog'[p] = << >> /\ comm_sd'[p] = 0 /\ age'[p] = age[p] + 1
      /\ setup'[p] = "exchange"
      /\ \A x \in Proc : x # p => /\ serv_sd'[x] = serv_sd[x] /\ backlog'[x] = backlog[x]
                                  /\ comm_sd'[x] = comm_sd[x] /\ age'[x] = age[x]
                                  /\ setup'[x] = setup[x]
      /\ serv_sd' \in [Proc -> BOOLEAN] /\ backlog' \in [Proc -> Seq(Nat)]
      /\ comm_sd' \in [Proc -> Nat] /\ age' \in [Proc -> Ages] /\ setup' \in [Proc -> Setups]
  <2>1. /\ serv_sd \in [Proc -> BOOLEAN] /\ backlog \in [Proc -> Seq(Nat)]
        /\ comm_sd \in [Proc -> Nat] /\ age \in [Proc -> Ages] /\ setup \in [Proc -> Setups]
    BY <1>3 DEF Shapes
  <2>2. << >> \in Seq(Nat) /\ "exchange" \in Setups
    BY DEF Setups
  <2> QED BY <1>2, <1>7, <2>1, <2>2
<1>10. Shapes'
  BY <1>2, <1>3, <1>9 DEF Shapes
<1>11. /\ pc' = pc /\ inside' = inside /\ colls' = colls /\ \A x \in Proc : Round(x)' = Round(x)
  BY <1>2 DEF Round, driverVars, loopVars
<1>12. Round(p) \in Nat /\ NTrials \in Nat
  BY RoundType, NetPIPEAssumption DEF TcpInv, DriverInv
<1>13. Socket(p)'
  <2>1. age[p] + NTrials = Round(p) + 1
    BY <1>2, <1>3 DEF Socket
  <2>2. age'[p] + NTrials = Round(p)' + 2
    <3>1. Round(p)' = Round(p) /\ age'[p] = age[p] + 1
      BY <1>9, <1>11
    <3> QED BY <1>3, <1>12, <2>1, <3>1
  <2>3. pc'[p] = "reset" /\ reset_conn'
    BY <1>2, <1>11
  <2> QED BY <1>9, <2>2, <2>3 DEF Socket
<1>14. Socket(q)'
  BY <1>1, <1>2, <1>3, <1>4, <1>9, <1>11 DEF Socket
<1>15. (Connector(p) => Linked(p)') /\ (Connector(q) => Linked(q)')
  BY <1>1, <1>2, <1>3, <1>4, <1>9 DEF Linked
<1>16. ~Greeted(p)' /\ ~Greeted(q)'
  BY <1>1, <1>3, <1>4, <1>9 DEF Greeted
<1>17. /\ Conn(p)' = Conn(q)'
       /\ \/ Conn(p)' = Conn(p)
          \/ Conn(p)' = age[p] + 1 /\ pc[q] = "reset"
  <2>1. Conn(p)' = IF age[p] + 1 <= age[q] THEN age[p] + 1 ELSE age[q]
    BY <1>1, <1>3, <1>9 DEF Conn
  <2>2. Conn(q)' = IF age[q] <= age[p] + 1 THEN age[q] ELSE age[p] + 1
    BY <1>1, <1>3, <1>9 DEF Conn
  <2> QED BY <1>3, <1>4, <2>1, <2>2
<1>18. /\ Data(p)' = Data(p) /\ Data(q)' = Data(q)
       /\ \A c \in Ages : c # Conn(p)' => wire'[p][c] = << >>
       /\ \A c \in Ages : c # Conn(q)' => wire'[q][c] = << >>
  <2>1. Data(p)' = wire[p][Conn(p)'] /\ Data(q)' = wire[q][Conn(p)'] /\ Data(q) = wire[q][Conn(p)]
    BY <1>3, <1>4, <1>8, <1>16, <1>17 DEF Data
  <2>2. CASE Conn(p)' = Conn(p)
    BY <1>3, <1>4, <1>5, <1>8, <1>17, <2>1, <2>2
  <2>3. CASE Conn(p)' = age[p] + 1 /\ pc[q] = "reset"
    <3>1. Data(q) = << >>
      BY <2>3, Drained DEF TcpInv
    <3>2. age[p] + 1 # Conn(p)
      BY <1>3, <1>4
    <3>3. \A c \in Ages : wire[p][c] = << >> /\ wire[q][c] = << >>
      BY <1>3, <1>5, <2>1, <3>1
    <3>4. Data(p)' = << >> /\ Data(q)' = << >>
      BY <1>7, <2>1, <2>3, <3>3
    <3> QED BY <1>5, <1>8, <3>1, <3>3, <3>4
  <2> QED BY <1>17, <2>2, <2>3
<1>19. wire' = [x \in Proc |-> [c \in Ages |-> wire'[x][c]]]
  BY <1>3, <1>8
<1>20. \A x \in Proc : x # p /\ x # q =>
         /\ setup'[x] = setup[x] /\ age'[x] = age[x] /\ serv_sd'[x] = serv_sd[x]
         /\ backlog'[x] = backlog[x] /\ comm_sd'[x] = comm_sd[x] /\ wire'[x] = wire[x]
  BY <1>8, <1>9
<1> QED BY <1>1, <1>2, <1>8, <1>10, <1>13, <1>14, <1>15, <1>16, <1>18, <1>19, <1>20, StillStep

-----------------------------------------------------------------------------
(***************************************************************************)
(* The theorems.                                                           *)
(***************************************************************************)

\* The job is given up only over a connection that is refused without --reset: what
\* is read first on a connection is always the greeting.
GivenUp == failed \in {"", "cannot connect"} /\ (failed # "" => ~reset_conn)

LEMMA InitTcp == Init => TcpInv /\ GivenUp
<1> SUFFICES ASSUME Init PROVE TcpInv /\ GivenUp
  OBVIOUS
<1>1. DriverInit
  BY DEF Init
<1>2. DriverInv /\ RoundInv
  BY <1>1, InitDriverInv, InitRounds
<1>3. GivenUp
  BY DEF Init, GivenUp
<1>4. 1 \in Ages
  <2>1. MaxTests \in Nat /\ NPerts \in Nat /\ NTrials \in Nat
    BY NetPIPEAssumption
  <2>2. MaxTests * NPerts \in Nat
    BY <2>1
  <2>3. MaxTests * NPerts * NTrials \in Nat
    BY <2>1, <2>2
  <2> QED BY <2>3 DEF Ages
<1>5. ASSUME NEW p \in Proc
      PROVE  /\ pc[p] = "nrepeat" /\ ~inside[p] /\ colls[p] = << >> /\ j[p] = 0 /\ nrepeat[p] = 0
             /\ n[p] = 1 /\ setTag[p] = 0 /\ chkTag[p] = 0 /\ failures[p] = 0
             /\ setup[p] = "exchange" /\ age[p] = 1 /\ serv_sd[p] = FALSE /\ backlog[p] = << >>
             /\ comm_sd[p] = 0 /\ wire[p] = [c \in Ages |-> << >>] /\ done[p] = << >>
  BY <1>1 DEF Init, DriverInit
<1>6. Shapes
  <2>1. "exchange" \in Setups /\ << >> \in Seq(Nat) /\ << >> \in Seq(Tag) /\ 0 \in Nat
    BY DEF Setups
  <2> QED BY <1>4, <2>1 DEF Init, Shapes
<1>7. ASSUME NEW p \in Proc PROVE Socket(p) /\ Calls(p) /\ (Connector(p) => Linked(p))
  <2>1. PICK q \in Proc : q = Pair(p)
    BY PairFacts, PairSides
  <2>2. Round(p) = NTrials /\ NTrials \in Nat
    <3>1. 1 * NTrials + 0 = NTrials /\ NTrials \in Nat
      BY NetPIPEAssumption
    <3> QED BY <1>5, <3>1 DEF Round
  <2>3. Socket(p)
    <3>1. age[p] = 1
      BY <1>5
    <3>2. age[p] + NTrials = Round(p) + 1
      BY <2>2, <3>1
    <3>3. serv_sd[p] = (setup[p] # "exchange")
      BY <1>5
    <3> QED BY <1>5, <3>2, <3>3 DEF Socket
  <2>4. Calls(p)
    <3>1. done[p] = << >>
      BY <1>5
    <3>2. Len(done[p]) <= MsgSize
      BY <3>1, NPtcpAssumption
    <3> QED BY <1>5, <3>2 DEF Calls
  <2>5. Linked(p)
    BY <1>5, <2>1 DEF Linked
  <2> QED BY <2>3, <2>4, <2>5
<1>8. BufferTypeOK
  <2>1. 0 \in Tag /\ 0 \in Half /\ 1 \in Half
    <3>1. Tag = 0 .. TagMod - 1 /\ TagMod \in Nat \ {0}
      BY TagFacts
    <3> QED BY <3>1 DEF Half
  <2> QED BY <1>1, <2>1 DEF BufferTypeOK, DriverInit
<1>9. wire = [p \in Proc |-> [c \in Ages |-> wire[p][c]]] /\ broken = {}
  BY DEF Init
<1>10. ASSUME NEW p \in Proc PROVE Stream(p) /\ Buffers(p)
  <2>1. PICK q \in Proc : q = Pair(p)
    BY PairFacts
  <2>2. Conn(p) = 1 /\ ~Greeted(p)
    BY <1>5, <2>1 DEF Conn, Greeted
  <2>3. Data(p) = << >> /\ \A c \in Ages : c # Conn(p) => wire[p][c] = << >>
    <3>1. wire[p] = [c \in Ages |-> << >>]
      BY <1>5
    <3>2. Data(p) = << >>
      BY <1>4, <2>2, <3>1 DEF Data
    <3>3. \A c \in Ages : wire[p][c] = << >>
      BY <3>1
    <3> QED BY <3>2, <3>3
  <2>4. Unchecked(q, p) = 0 /\ Owed(q) = 0 /\ Part(p) = 0
    <3>1. \A x \in Proc : OwnSent(x) = 0 /\ OwnGot(x) = 0
      BY <1>5 DEF OwnSent, OwnGot, InLoop
    <3>2. \A x, y \in Proc : Sent(x, y) = 0 /\ Got(x, y) = 0
      BY <1>5, <3>1 DEF Sent, Got
    <3>3. q \in Proc
      BY <2>1, PairFacts
    <3>4. pc[p] = "nrepeat" /\ pc[q] = "nrepeat"
      BY <1>5, <3>3
    <3>5. Sent(q, p) = 0 /\ Got(p, q) = 0
      BY <3>2, <3>3
    <3> QED BY <3>4, <3>5 DEF Unchecked, Owed, Part
  <2>5. Pipe(<< >>, 0, 0, 0, 0, 0)
    <3>1. MsgSize \in Nat \ {0} /\ TagMod \in Nat \ {0} /\ 0 \in Tag
      <4>1. Tag = 0 .. TagMod - 1 /\ TagMod \in Nat \ {0} /\ MsgSize \in Nat \ {0}
        BY TagFacts
      <4> QED BY <4>1
    <3>2. 0 = (0 + 0) % TagMod
      BY <3>1
    <3>3. Len(<< >>) + 0 = MsgSize * 0 - 0
      BY <3>1
    <3> QED BY <3>1, <3>2, <3>3 DEF Pipe
  <2>6. Stream(p)
    BY <1>5, <2>1, <2>2, <2>3, <2>4, <2>5 DEF Stream
  <2>7. Buffers(p)
    BY <1>5 DEF Buffers
  <2> QED BY <2>6, <2>7
<1>11. SocketInv /\ StreamInv
  BY <1>6, <1>7, <1>8, <1>9, <1>10 DEF SocketInv, StreamInv
<1> QED BY <1>2, <1>3, <1>11 DEF TcpInv

LEMMA StepTcp ==
  ASSUME Aligned, TcpInv, GivenUp, NEW p \in Proc, Step(p)
  PROVE  TcpInv' /\ GivenUp'
<1>1. DriverInv' /\ RoundInv'
  BY StepDriver DEF TcpInv
<1>2. SocketInv' /\ StreamInv'
  BY <1>1, ListenStep, ConnectStep, RefusedStep, AcceptStep, ReadSyncStep, CloseStep, NoResetStep,
     DriverStep, SendDataStep, WriteStep, WrittenStep, ReadStep, RecvDataStep DEF Step
<1>3. GivenUp'
  <2>1. CASE Refused(p)
    BY <2>1 DEF Refused, Step, GivenUp
  <2>2. CASE ReadSync(p)
    BY <1>1, <2>2, ReadSyncStep DEF ReadSync, GivenUp
  <2>3. CASE UNCHANGED <<reset_conn, failed>>
    BY <2>3 DEF GivenUp
  <2>4. CASE Listen(p) \/ Connect(p) \/ Accept(p) \/ Close(p) \/ Write(p) \/ Read(p)
    BY <2>3, <2>4 DEF Listen, Connect, Accept, Close, Write, Read
  <2>5. CASE NoReset(p) \/ Driver(p) \/ SendData(p) \/ Written(p) \/ RecvData(p)
    BY <2>3, <2>5 DEF NoReset, Driver, SendData, Written, RecvData, tcpVars
  <2> QED BY <2>1, <2>2, <2>4, <2>5 DEF Step
<1> QED BY <1>1, <1>2, <1>3 DEF TcpInv

LEMMA StutterTcp ==
  ASSUME TcpInv, GivenUp, UNCHANGED vars
  PROVE  TcpInv' /\ GivenUp'
<1>1. UNCHANGED driverVars /\ UNCHANGED tcpVars
  BY DEF vars
<1>2. UNCHANGED <<pc, inside, colls, loopVars>> /\ UNCHANGED bufVars
  BY <1>1 DEF driverVars
<1>3. DriverInv' /\ RoundInv'
  BY <1>2, StutterDriver, StutterRounds DEF TcpInv
<1>4. SocketInv'
  BY <1>1, <1>2 DEF TcpInv, SocketInv, Shapes, Socket, Calls, Linked, Round, Sends, Receives,
     tcpVars, loopVars
<1>5. \A x, y \in Proc : Unchecked(x, y)' = Unchecked(x, y)
  BY <1>2, StillCounts
<1>6. BufferTypeOK'
  BY <1>2 DEF TcpInv, StreamInv, BufferTypeOK, bufVars
<1>7. ASSUME NEW p \in Proc PROVE Stream(p)' /\ Buffers(p)'
  <2>1. Stream(p) /\ Buffers(p) /\ Pair(p) \in Proc
    BY PairFacts DEF TcpInv, StreamInv
  <2>2. /\ Data(p)' = Data(p) /\ Owed(Pair(p))' = Owed(Pair(p)) /\ Part(p)' = Part(p)
        /\ Conn(p)' = Conn(p) /\ Greeted(p)' = Greeted(p)
    BY <1>1, <1>2 DEF Data, Conn, Greeted, Owed, Part, tcpVars
  <2>3. Stream(p)'
    BY <1>1, <1>2, <1>5, <2>1, <2>2 DEF Stream, bufVars, tcpVars
  <2>4. Buffers(p)'
    BY <1>1, <1>2, <2>1 DEF Buffers, bufVars, tcpVars
  <2> QED BY <2>3, <2>4
<1>8. StreamInv'
  BY <1>1, <1>6, <1>7 DEF TcpInv, StreamInv, tcpVars
<1>9. GivenUp'
  BY <1>1 DEF GivenUp, tcpVars
<1> QED BY <1>3, <1>4, <1>8, <1>9 DEF TcpInv

\* The invariant of the driver with tcp.c: how far the processes are from each other, what
\* sockets they have, and what bytes are between them (netpipe.c:352-643, tcp.c:128-330).
THEOREM TcpInvariance ==
  ASSUME Aligned
  PROVE  Spec => [](TcpInv /\ GivenUp)
<1>1. TcpInv /\ GivenUp /\ [Next]_vars => TcpInv' /\ GivenUp'
  BY StepTcp, StutterTcp DEF Next
<1> QED BY <1>1, InitTcp, PTL DEF Spec

\* No connection is reset: when a process closes its sockets it has read all that its pair
\* wrote, and nobody connects to a listening socket that is about to be closed
\* (tcp.c:88-90, 400-408).
THEOREM TcpNothingLost ==
  ASSUME Aligned
  PROVE  Spec => []NothingLost
<1>1. TcpInv => NothingLost
  BY DEF TcpInv, StreamInv, NothingLost
<1> QED BY <1>1, TcpInvariance, PTL

\* No process counts a failure: each message read carries the tag of the message the pair
\* sent at that place, whatever the pieces TCP gives it in (netpipe.c:832-883, tcp.c:290-330).
THEOREM TcpIntegrity ==
  ASSUME Aligned
  PROVE  Spec => []Integrity
<1>1. TcpInv => Integrity
  BY DEF TcpInv, StreamInv, Buffers, Integrity
<1> QED BY <1>1, TcpInvariance, PTL
=============================================================================
