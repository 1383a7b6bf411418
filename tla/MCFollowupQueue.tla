-------------------------- MODULE MCFollowupQueue --------------------------
(* Instances of FollowupQueue for TLC. *)
EXTENDS FollowupQueue, TLC

CONSTANTS m1, m2, m3, m4, m5, m6

Setting(mode, cap, policy) == [mode |-> mode, cap |-> cap, dropPolicy |-> policy]

\* Queue objects are interchangeable: one that is neither registered nor
\* draining is as good as new, so it does not matter which FreshQueue takes.
SameQueues == Permutations(QueueIds)

\* The settings of one session, which the user may change between messages.
RejectNew == {Setting("collect", 3, "new"), Setting("followup", 2, "new")}
SummarizeCollecting == {Setting("collect", cap, "summarize") : cap \in 1..2}

\* What may be delivered: the first three messages up to five times in all, the
\* first two of them twice; or any three of all but the first.
Total(a) == FoldFunction(LAMBDA x, y : x + y, 0, a)
Redelivered ==
    {a \in [Messages -> 0..2] :
        Total(a) <= 5 /\ a[m3] <= 1 /\ \A m \in Messages \ {m1, m2, m3} : a[m] = 0}
AnyThree == {a \in [Messages -> 0..1] : Total(a) <= 3 /\ a[m1] = 0}
SomeTwice == Redelivered \cup AnyThree
OnceEach == [Messages -> 0..1]

OneRoute == [m \in Messages |-> "room"]
\* The third message has no routing data and may share a turn with any other;
\* the fifth goes to another place; the sixth cannot be routed to.
OddRoutes == [m \in Messages |-> CASE m = m3 -> "noroute"
                                   [] m = m5 -> "lobby"
                                   [] m = m6 -> "unroutable"
                                   [] OTHER -> "room"]
\* The second message comes from somebody else.
TwoSenders == [m \in Messages |-> IF m = m2 THEN "bob" ELSE "alice"]
=============================================================================
