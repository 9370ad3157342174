------------------------------ MODULE MCTcpMsg ------------------------------
(* TcpMsg for TLC: what the processes call in each run.                    *)
EXTENDS TcpMsg, TLC

S(d, t, n) == [op |-> "asend", peer |-> d, tag |-> t, nbytes |-> n]
R(s, t, n) == [op |-> "arecv", peer |-> s, tag |-> t, nbytes |-> n]
W(k) == [op |-> "wait", i |-> k]
T(k) == [op |-> "test", i |-> k]

Of(c0, c1, c2) == 0 :> c0 @@ 1 :> c1 @@ 2 :> c2

\* Both send more than a socket holds before they receive.
Exchange == Of(<<S(1, 1, 1), W(1), R(1, 1, 1), W(2)>>,
               <<S(0, 1, 1), W(1), R(0, 1, 1), W(2)>>, << >>)

\* Two messages of one tag, asked for beforehand, tested and waited for twice.
TwoInOrder == Of(<<S(1, 1, 1), S(1, 1, 1), T(2)>>,
                 <<R(0, Wild, 2), R(0, 1, 1), T(1), W(1), W(1), W(2)>>, << >>)

\* The first message is asked for last: before it comes, after, or while it does.
Crossed == Of(<<S(1, 2, 1), S(1, 1, 0)>>,
              <<R(0, 1, 0), R(0, 2, 1), W(2), W(1)>>, << >>)
Late    == Of(<<S(1, 2, 1), S(1, 1, 0), S(1, 2, 1), W(3)>>,
              <<R(0, 1, 0), W(1), R(0, 2, 1), R(0, 2, 1), W(2), W(3)>>, << >>)

\* A shorter message than asked for, behind another.
Shorter == Of(<<S(1, 2, 1), S(1, 1, 0)>>,
              <<R(0, 1, 1), R(0, 2, 2), W(1), W(2)>>, << >>)

\* Receives from anyone, of two senders, and of one whose first message is for
\* another receive.
Anyone  == Of(<<R(Wild, 1, 1), R(Wild, Wild, 1), W(1), W(2)>>,
              <<S(0, 1, 1)>>, <<S(0, 1, 0)>>)
Drain   == Of(<<S(1, 2, 1), S(1, 1, 1), W(1), W(2)>>,
              <<R(Wild, 1, 1), W(1), R(0, 2, 1), W(2)>>, << >>)

\* To oneself, the sends that are waited for before they are received.
Self    == Of(<<S(0, 1, 1), S(0, 1, 1), W(1), R(0, Wild, 2), W(3), R(0, 1, 1), W(4)>>,
              <<R(1, 1, 1), S(1, 2, 1), S(1, 1, 1), W(1)>>, << >>)

\* A send to oneself that is waited for after it was received.
SelfLast == Of(<<S(0, 1, 1), R(0, 1, 1), W(2), W(1)>>, << >>, << >>)

AllPrograms == {Exchange, TwoInOrder, Crossed, Late, Shorter, Anyone, Drain, Self, SelfLast}
=============================================================================
