--------------------------- MODULE MCHeartbeatWake ---------------------------
(***************************************************************************)
(* Instances of HeartbeatWake for TLC.  Batches are interchangeable.  View *)
(* leaves out what is read no more: whether a stopped runner had agents,   *)
(* and of a batch whose calls all find heartbeats off (they are not        *)
(* switched on again where View is used) the wakes already answered.       *)
(***************************************************************************)
EXTENDS HeartbeatWake, TLC

CONSTANTS session, b1, b2

SameBatches == Permutations(BatchIds)

OnlyGatedCalls(b) ==
    /\ batch[b].gated
    /\ batch[b].todo = {} \/ batch[b].runner \in stopped \/ ~enabled
LeftOf(b) ==
    IF OnlyGatedCalls(b)
    THEN [batch[b] EXCEPT !.serves = NoWake,
                          !.wakes = [t \in Targets |-> IF t \in batch[b].todo
                                                       THEN batch[b].wakes[t] ELSE NoWake]]
    ELSE batch[b]
View == <<enabled, generation, handler, started, stopped, configured \ stopped, tick,
          pending, scheduled, running, timer, [b \in BatchIds |-> LeftOf(b)], owed>>
=============================================================================
