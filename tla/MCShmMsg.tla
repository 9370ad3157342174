----------------------------- MODULE MCShmMsg -----------------------------
(* ShmMsg for TLC: what the processes call in each run.                    *)
EXTENDS ShmMsg, TLC

AnyTag == -1
S(d, t, n) == [op |-> "send", peer |-> d, tag |-> t, size |-> n]
R(s, t, n) == [op |-> "recv", peer |-> s, tag |-> t, size |-> n]

Procs == {0, 1, 2}

\* Every receive asks for the message that comes next, by its tag or by none.
\* The third message of process 0 finds room at the end of its pool when it is
\* small; else it goes over the first one, whose receiver has answered, while
\* the message to 2 may still be in use.
InOrderPrograms ==
  { 0 :> <<S(1, 1, n), S(2, 1, 1), R(1, AnyTag, 1), S(1, t, n), R(2, 1, 1), S(1, 2, 1)>>
 @@ 1 :> <<R(0, 1, 3), S(0, 1, 1), R(0, IF wild THEN AnyTag ELSE t, 3), R(0, 2, 3)>>
 @@ 2 :> <<R(0, 1, 3), S(0, 1, 1)>>
  : t \in {1, 2}, n \in {1, 3}, wild \in BOOLEAN }

\* Receives in another order than the sends; more messages out of order than
\* slots in the queue; and messages larger than the pool, as the first of a
\* process or after another.
OrderPrograms ==
  { 0 :> <<S(1, 1, 1), S(1, 2, 1), S(1, 1, 2), R(1, 1, 1)>>
 @@ 1 :> [k \in 1 .. 3 |-> R(0, IF k = second THEN 2 ELSE 1, 2)] \o <<S(0, 1, 1)>>
 @@ 2 :> << >> : second \in 1 .. 3 }
 \cup { 0 :> <<S(1, 1, 1), S(1, 1, 1), S(1, 1, 1), S(1, 1, 1)>> @@ 1 :> <<R(0, 2, 1)>> @@ 2 :> << >> }
 \cup { 0 :> <<S(1, 1, n), S(1, 1, 8)>> @@ 1 :> <<R(0, 1, 8)>> @@ 2 :> << >> : n \in {1, 8} }

AllPrograms == InOrderPrograms \cup OrderPrograms

\* Three messages that do not fit in the pool together.
BulkPrograms ==
  { 0 :> <<S(1, 1, 3), S(1, 1, 3), S(1, 1, 1)>>
 @@ 1 :> <<R(0, 1, 3), R(0, 1, 3), R(0, 1, 3)>> @@ 2 :> << >> }
============================================================================
