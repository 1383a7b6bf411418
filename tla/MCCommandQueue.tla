--------------------------- MODULE MCCommandQueue ---------------------------
(***************************************************************************)
(* Small instances of CommandQueue for TLC.  View identifies states that   *)
(* differ only in the names of tasks and in what no later step reads: the  *)
(* priority, sequence number and timeout of an entry that has left its     *)
(* queue, and the answer a settled promise was given.                      *)
(***************************************************************************)
EXTENDS CommandQueue

AllPriorities == {-1, 0, 1}
TwoPriorities == {0, 1}
AllCapRequests == {-1, 0, 1, 2}

Awaiting(t) == {w \in Waiters : waiter[w].answer = "pending" /\ t \in waiter[w].ids}

InQueue(t) == <<entry[t].priority, entry[t].timed>>

OutOfQueue(t) ==
    CASE status[t] \in {"new", "queued"} -> <<status[t]>>
      [] status[t] \in {"cleared", "refused"} -> <<"gone">>
      [] status[t] = "started" ->
            <<entry[t].lane, entry[t].timed, outcome[t], body[t],
              taskGeneration[t] = generation[entry[t].lane], t \in active[entry[t].lane],
              Awaiting(t)>>
      [] OTHER -> <<"settled", IF body[t] = "running" THEN entry[t].lane ELSE "ended">>

View ==
    <<[l \in Lanes |-> [i \in 1..Len(queue[l]) |-> InQueue(queue[l][i])]],
      maxConcurrent, generation, gatewayDraining,
      [d \in {OutOfQueue(t) : t \in Tasks} |-> Cardinality({t \in Tasks : OutOfQueue(t) = d})],
      [w \in Waiters |-> <<waiter[w].answer, waiter[w].timed>>]>>
=============================================================================
