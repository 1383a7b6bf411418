-------------------------- MODULE SessionSuspension --------------------------
(***************************************************************************)
(* The command queue together with those who set its caps: a failed run    *)
(* suspends its session, which throttles the run's lane to 0 until a timer *)
(* resumes it (src/src/agents/session-suspension.ts), and the gateway      *)
(* applies the configured caps when it starts and when its configuration   *)
(* is reloaded (src/src/gateway/server-lanes.ts).  Nobody else sets a cap, *)
(* so CommandQueue's SetCommandLaneConcurrency is no step of its own here. *)
(***************************************************************************)
EXTENDS CommandQueue

CONSTANTS
    ConfiguredLanes,    \* the lanes whose cap the configuration gives
    ConfigCaps,         \* the caps a configuration may give
    Suspensions         \* the calls of suspendSession, each once

ASSUME SuspensionAssumption ==
    /\ ConfiguredLanes \subseteq Lanes
    /\ ConfigCaps \subseteq Nat \ {0}

VARIABLES
    laneResumeTimers,   \* the cap each lane's timer will set, 0 without a timer
    suspension          \* the calls under way: lane, cap to resume with, state

suspensionVars == <<laneResumeTimers, suspension>>
allVars == <<vars, laneResumeTimers, suspension>>

Suspension == [lane : Lanes, resume : Nat \ {0}, state : {"new", "persisting", "over"}]

SuspensionTypeOK ==
    /\ laneResumeTimers \in [Lanes -> Nat]
    /\ suspension \in [Suspensions -> Suspension]

SuspensionInit ==
    /\ Init
    /\ laneResumeTimers = [l \in Lanes |-> 0]
    /\ suspension = [s \in Suspensions |-> [lane |-> DefaultLane, resume |-> 1, state |-> "new"]]

-----------------------------------------------------------------------------
\* resolveLaneResumeConcurrency, of the configuration the failed run holds,
\* which may be older than the one applied last.
LaneResumeConcurrency(l) == IF l \in ConfiguredLanes THEN ConfigCaps ELSE {1}

\* Mutant: the lane is throttled before the suspension is stored.
SuspendThrottlingFirst(s, l) ==
    /\ suspension[s].state = "new"
    /\ \E cap \in LaneResumeConcurrency(l) :
          suspension' = [suspension EXCEPT ![s] =
                           [lane |-> l, resume |-> cap, state |-> "persisting"]]
    /\ SetCommandLaneConcurrency(l, 0)
    /\ UNCHANGED laneResumeTimers

\* suspendSession up to the await of the session store.
Suspend(s, l) ==
    /\ suspension[s].state = "new"
    /\ \E cap \in LaneResumeConcurrency(l) :
          suspension' = [suspension EXCEPT ![s] =
                           [lane |-> l, resume |-> cap, state |-> "persisting"]]
    /\ UNCHANGED <<vars, laneResumeTimers>>

\* The suspension is stored: throttle the lane and replace its timer.
SuspensionPersisted(s) ==
    LET l == suspension[s].lane
    IN  /\ suspension[s].state = "persisting"
        /\ suspension' = [suspension EXCEPT ![s].state = "over"]
        /\ SetCommandLaneConcurrency(l, 0)
        /\ laneResumeTimers' = [laneResumeTimers EXCEPT ![l] = suspension[s].resume]

\* The store fails, or the call names no lane: the lane is not throttled.
SuspensionNotPersisted(s) ==
    /\ suspension[s].state = "persisting"
    /\ suspension' = [suspension EXCEPT ![s].state = "over"]
    /\ UNCHANGED <<vars, laneResumeTimers>>

\* Mutant: the timer leaves the lane as it is, for the next enqueue to pump.
LaneAutoResumeWithoutPump(l) ==
    /\ laneResumeTimers[l] # 0
    /\ laneResumeTimers' = [laneResumeTimers EXCEPT ![l] = 0]
    /\ maxConcurrent' = [maxConcurrent EXCEPT ![l] = LaneCap(l, laneResumeTimers[l])]
    /\ UNCHANGED <<queue, active, generation, gatewayDraining, nextQueueSequence,
                   taskVars, waiter, suspension>>

LaneAutoResume(l) ==
    /\ laneResumeTimers[l] # 0
    /\ laneResumeTimers' = [laneResumeTimers EXCEPT ![l] = 0]
    /\ SetCommandLaneConcurrency(l, laneResumeTimers[l])
    /\ UNCHANGED suspension

\* The caps of one configuration; a resume timer is left to fire.
ApplyGatewayLaneConcurrency(cap) ==
    LET caps == [l \in Lanes |-> IF l \in ConfiguredLanes THEN LaneCap(l, cap[l])
                                 ELSE maxConcurrent[l]]
    IN  /\ maxConcurrent' = caps
        /\ entry' = entry
        /\ DrainLanes(ConfiguredLanes, queue, active, caps, generation, status)
        /\ UNCHANGED <<generation, gatewayDraining, nextQueueSequence, outcome, waiter,
                       suspensionVars>>

-----------------------------------------------------------------------------
QueueStep ==
    \/ \E t \in Tasks : TaskStep(t)
    \/ \E l \in Lanes : ClearCommandLane(l) \/ ResetCommandLane(l)
    \/ ResetAllLanes
    \/ MarkGatewayDraining
    \/ \E w \in Waiters : WaiterStep(w)

PersistEnds(s) == SuspensionPersisted(s) \/ SuspensionNotPersisted(s)

SuspensionNext ==
    \/ QueueStep /\ UNCHANGED suspensionVars
    \/ \E s \in Suspensions : PersistEnds(s) \/ \E l \in Lanes : Suspend(s, l)
    \/ \E l \in Lanes : LaneAutoResume(l)
    \/ \E cap \in [ConfiguredLanes -> ConfigCaps] : ApplyGatewayLaneConcurrency(cap)

(***************************************************************************)
(* CommandQueue's fairness; store calls end and timers fire.  A lane is    *)
(* suspended again only finitely often, as Suspensions is finite.          *)
(***************************************************************************)
SuspensionFairness ==
    /\ \A t \in Tasks :
          /\ WF_allVars(CompleteTask(t) /\ UNCHANGED suspensionVars)
          /\ WF_allVars(TaskTimeoutFires(t) /\ UNCHANGED suspensionVars)
          /\ WF_allVars(/\ ~entry[t].timed /\ \E how \in {"ok", "err"} : TaskBodyEnds(t, how)
                        /\ UNCHANGED suspensionVars)
    /\ \A w \in Waiters : WF_allVars(WaiterTimesOut(w) /\ UNCHANGED suspensionVars)
    /\ \A s \in Suspensions : WF_allVars(PersistEnds(s))
    /\ \A l \in Lanes : WF_allVars(LaneAutoResume(l))

SuspensionSpec == SuspensionInit /\ [][SuspensionNext]_allVars
FairSuspensionSpec == SuspensionSpec /\ SuspensionFairness

-----------------------------------------------------------------------------
(* Properties.                                                             *)

\* A lane that admits nothing has a timer that will admit work again, whatever
\* the order of overlapping suspensions, failed stores, reloads and resumes.
SuspendedLaneIsResumed ==
    \A l \in Lanes : maxConcurrent[l] = 0 => laneResumeTimers[l] # 0

\* Whatever suspends and reloads do, no entry stays queued for ever: neither
\* behind tasks that hang, if those have a timeout, nor on a throttled lane.
QueuedEntryLeavesQueue ==
    \A t \in Tasks : status[t] = "queued" ~> status[t] # "queued"

=============================================================================
