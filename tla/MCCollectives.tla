--------------------------- MODULE MCCollectives ---------------------------
(* Collectives for TLC: what the processes call in each run.               *)
EXTENDS Collectives

Sum(m)      == [op |-> "sum", mask |-> m]
Gather(m)   == [op |-> "gather", mask |-> m]
Bcast(r, m) == [op |-> "bcast", mask |-> m, root |-> r]

Everybody(calls) == [p \in Proc |-> calls]

\* Every number of participants, 1 to NProcs.
Trees == { Everybody(<<c>>) : c \in
             {Sum(0 .. n) : n \in Proc} \cup {Gather(0 .. n) : n \in Proc}
             \cup {Bcast(n \div 2, 0 .. n) : n \in Proc} }

\* One after the other, with the same and with different participants and roots.
InARow == { Everybody(<<Sum({0, 2, 4}), Sum({0, 2, 4}), Bcast(4, {1, 4, 5})>>),
            Everybody(<<Bcast(1, {1, 2, 3, 5}), Bcast(3, {1, 2, 3, 5}), Gather({1, 3, 5})>>),
            Everybody(<<Gather({0, 3, 5}), Gather({0, 3, 5}), Sum({5})>>) }

\* Rings of two and three, and pairs.
Shift(s, d) == [op |-> "shift", src |-> s, dest |-> d, blocks |-> 2]
Synchronous ==
  { [p \in Proc |-> CASE p \in 0 .. 2 -> <<Shift((p + 2) % 3, (p + 1) % 3)>>
                      [] p \in 3 .. 4 -> <<Shift(7 - p, 7 - p)>>
                      [] OTHER        -> << >>],
    [p \in Proc |-> CASE p = 0 -> <<[op |-> "ssend", dest |-> 1], [op |-> "srecv", src |-> 1],
                                    [op |-> "ssend", dest |-> 1]>>
                      [] p = 1 -> <<[op |-> "srecv", src |-> 0], [op |-> "ssend", dest |-> 0],
                                    [op |-> "srecv", src |-> 0]>>
                      [] OTHER -> << >>] }

AllPrograms == Trees \cup InARow \cup Synchronous
=============================================================================
