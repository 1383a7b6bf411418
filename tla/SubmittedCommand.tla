-------------------------- MODULE SubmittedCommand --------------------------
(***************************************************************************)
(* What the command queue promises to the callers of enqueueCommandInLane: *)
(* the life of a submitted command, without lanes, caps, order, slots or   *)
(* generations.  One step may move any number of commands (a pump starts   *)
(* several, a clear refuses several), each along an allowed edge.          *)
(***************************************************************************)
CONSTANT Tasks

VARIABLES
    phase,  \* "new", "waiting", "running", "answered" (after a run) or "refused" (without one)
    ran     \* whether the command's code has been called

vars == <<phase, ran>>

Init ==
    /\ phase = [t \in Tasks |-> "new"]
    /\ ran = [t \in Tasks |-> FALSE]

Stays(t)   == phase'[t] = phase[t] /\ ran'[t] = ran[t]
Waits(t)   == phase[t] = "new" /\ phase'[t] = "waiting" /\ ran'[t] = ran[t]
Runs(t)    == phase[t] \in {"new", "waiting"} /\ phase'[t] = "running" /\ ~ran[t] /\ ran'[t]
Refused(t) == phase[t] \in {"new", "waiting"} /\ phase'[t] = "refused" /\ ~ran[t] /\ ~ran'[t]
Answered(t) == phase[t] = "running" /\ phase'[t] = "answered" /\ ran[t] /\ ran'[t]

Next ==
    /\ DOMAIN phase' = Tasks
    /\ DOMAIN ran' = Tasks
    /\ \A t \in Tasks : Stays(t) \/ Waits(t) \/ Runs(t) \/ Refused(t) \/ Answered(t)

Spec == Init /\ [][Next]_vars
=============================================================================
