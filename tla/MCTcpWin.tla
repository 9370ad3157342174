------------------------------ MODULE MCTcpWin ------------------------------
(* TcpWin for TLC: what the processes call in each run.                    *)
EXTENDS TcpWin, TLC

Lock(t, r)  == [op |-> "lock", rank |-> r, type |-> t]
Unlock(r)   == [op |-> "unlock", rank |-> r]
Put(r)      == [op |-> "aput", rank |-> r]
Get(r)      == [op |-> "aget", rank |-> r]
Inc(r, k)   == [op |-> "add", rank |-> r, i |-> k]
W(k)        == [op |-> "wait", i |-> k]
Fence       == [op |-> "fence"]
Post(g)     == [op |-> "post", group |-> g]
Open(g)     == [op |-> "start", group |-> g]
Complete    == [op |-> "complete"]
WaitWin     == [op |-> "win_wait"]

Of(c0, c1, c2) == 0 :> c0 @@ 1 :> c1 @@ 2 :> c2

\* Everybody adds one to the number on process 1.
Inc1     == <<Lock(2, 1), Get(1), W(1), Inc(1, 1), Unlock(1)>>
Counting == Of(Inc1, Inc1, Inc1)

\* Readers and writers, own windows and others', two locks at a time, a lock again.
Mixed    == Of(<<Lock(1, 0), Lock(2, 1), Get(1), W(1), Inc(1, 1), Unlock(1), Unlock(0)>>,
               <<Lock(1, 0), Get(0), W(1), Unlock(0), Lock(1, 1), Unlock(1)>>,
               <<Lock(2, 0), Unlock(0), Lock(1, 0), Unlock(0)>>)
Readers  == Of(<<Lock(1, 2), Unlock(2), Lock(2, 2), Unlock(2)>>,
               <<Lock(1, 2), Get(2), W(1), Unlock(2), Lock(2, 2), Unlock(2)>>,
               <<Lock(2, 2), Unlock(2), Lock(1, 2), Unlock(2)>>)

\* Puts between fences, more of them than flags.
Fences   == Of(<<Put(1), Put(2), Fence, Put(1), Fence, Fence>>,
               <<Fence, Fence, Put(0), Fence>>,
               <<Put(0), Fence, Fence, Put(1), Fence>>)

\* Two epochs on process 2, and one on both.
Epochs   == Of(<<Open({2}), Put(2), Complete, Open({2}), Put(2), Complete>>,
               <<Open({2}), Put(2), Complete>>,
               <<Post({0, 1}), WaitWin, Post({0}), WaitWin>>)
Targets  == Of(<<Post({0, 1}), Open({0, 2}), Put(2), Put(0), Complete, WaitWin>>,
               <<Open({0}), Put(0), Complete>>,
               <<Post({0}), WaitWin>>)

\* Gets waited for out of order, and from one's own window.
Gets     == Of(<<Get(1), Get(1), Get(2), Get(0), W(2), W(3), W(1), W(4)>>,
               <<Get(0), Get(2), W(1), Get(0)>>,
               <<Put(0), Put(1), W(2), W(1)>>)

\* A put waited for at once while another is not: the next is lost.
Lost     == Of(<<Put(1), Put(1), W(2), Put(1), W(3)>>,
               <<Get(0), Get(0), W(2), Get(0)>>,
               <<Put(2), Lock(1, 1), Unlock(1)>>)
Posting  == Of(<<Put(1), Post({1, 2}), WaitWin>>, << >>, << >>)

\* The third get is on no list, and its answer comes when the fourth is: of the gets
\* to process 1, the last is waited for first.
Astray   == Of(<<Get(1), Get(1), W(2), Get(1), W(1), Get(1), W(4)>>, << >>, << >>)

SyncPrograms == {Counting, Mixed, Readers, Fences, Epochs, Targets, Gets, Lost, Posting, Astray}
=============================================================================
