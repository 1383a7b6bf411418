---------------------------- MODULE HeartbeatWake ----------------------------
(***************************************************************************)
(* The heartbeat wake layer (src/infra/heartbeat-wake.ts) and the part of  *)
(* the heartbeat runner that feeds it (startHeartbeatRunner in             *)
(* src/infra/heartbeat-runner.ts).                                         *)
(*                                                                         *)
(* Anybody asks for a heartbeat of a target; requests of one target are    *)
(* merged in pendingWakes, one coalescing timer takes all pending wakes as *)
(* a batch and calls the registered handler for one after the other.  A    *)
(* busy or failed call is put back and tried again after a cooldown.  The  *)
(* handler of a runner arms the runner's interval timer when it ends, and  *)
(* that timer asks for the next heartbeat.                                 *)
(*                                                                         *)
(* Time is left out: `timer` says which kind of timer is armed, not when   *)
(* it is due.  The order in which a batch visits its targets is left open. *)
(***************************************************************************)
EXTENDS Integers, FiniteSets

CONSTANTS Targets,        \* wake target keys
          Broadcast,      \* the target "::", every agent of the runner
          NoTarget,       \* no call is running
          BatchIds,       \* identities for batches that overlap
          RequestPriorities, \* the priorities requests come with
          Switches,       \* what set-heartbeats is called with
          MaxGeneration   \* bound on handlerGeneration

INTERVAL == 1             \* REASON_PRIORITY.INTERVAL
Priorities == 0..3        \* RETRY, INTERVAL, DEFAULT, ACTION
NoWake == -1
Generations == 1..MaxGeneration

ASSUME BroadcastAssumption == Broadcast \in Targets /\ NoTarget \notin Targets
ASSUME PriorityAssumption == RequestPriorities \subseteq Priorities
ASSUME SwitchAssumption == Switches \subseteq BOOLEAN
ASSUME BoundAssumption == MaxGeneration \in Nat
ASSUME FinitenessAssumption == IsFiniteSet(BatchIds)

VARIABLES
    enabled,     \* heartbeatsEnabled
    generation,  \* handlerGeneration
    handler,     \* the registered runner, 0 for none
    started,     \* runners ever started, named by the generation of their registration
    stopped,     \* runners whose state.stopped is set
    configured,  \* runners with an agent that has heartbeats
    tick,        \* runners whose interval timer is armed
    pending,     \* pendingWakes: the priority of the wake of each target
    scheduled,
    running,
    timer,       \* "none", or timerKind of the armed timer
    batch,       \* the batches being worked off
    owed         \* history: the most urgent request of a target no call has taken on

runnerVars == <<enabled, started, stopped, configured, tick>>
registration == <<generation, handler>>
vars == <<enabled, generation, handler, started, stopped, configured, tick,
          pending, scheduled, running, timer, batch, owed>>

Wakes == [Targets -> Priorities \cup {NoWake}]
Nothing == [t \in Targets |-> NoWake]
WakesOf(wakes) == {t \in Targets : wakes[t] # NoWake}

\* A batch belongs to the handler it was taken with.  `wakes` is pendingBatch,
\* `todo` what the loop has not reached, `current` the awaited call, `gated`
\* that the call found heartbeats off; `serves` is the request it took on.
Batches == [runner : Generations \cup {0}, wakes : Wakes, todo : SUBSET Targets,
            current : Targets \cup {NoTarget}, gated : BOOLEAN,
            serves : Priorities \cup {NoWake}]
NoBatch == [runner |-> 0, wakes |-> Nothing, todo |-> {}, current |-> NoTarget,
            gated |-> FALSE, serves |-> NoWake]
Live == {b \in BatchIds : batch[b].runner # 0}

TypeOK ==
    /\ enabled \in BOOLEAN
    /\ generation \in 0..MaxGeneration
    /\ handler \in 0..MaxGeneration
    /\ started \subseteq 1..generation /\ stopped \subseteq started
    /\ configured \subseteq started /\ tick \subseteq configured \ stopped
    /\ pending \in Wakes /\ owed \in Wakes
    /\ scheduled \in BOOLEAN /\ running \in BOOLEAN
    /\ timer \in {"none", "normal", "retry"}
    /\ batch \in [BatchIds -> Batches]
    /\ \A b \in BatchIds : b \in Live <=> batch[b].current # NoTarget

Init ==
    /\ enabled = TRUE
    /\ generation = 0 /\ handler = 0
    /\ started = {} /\ stopped = {} /\ configured = {} /\ tick = {}
    /\ pending = Nothing /\ owed = Nothing
    /\ scheduled = FALSE /\ running = FALSE /\ timer = "none"
    /\ batch = [b \in BatchIds |-> NoBatch]

-----------------------------------------------------------------------------
(* Helpers of heartbeat-wake.ts *)

Higher(p, q) == IF p > q THEN p ELSE q

\* Mutant of Queue: the later wake always replaces the earlier one.
QueueLatest(wakes, more) == [t \in Targets |-> IF more[t] # NoWake THEN more[t] ELSE wakes[t]]

\* queuePendingWakeReason: the more urgent wake of a target stays.  (Of two
\* equally urgent ones the later payload stays, which has no part here.)
Queue(wakes, more) == [t \in Targets |-> Higher(wakes[t], more[t])]
Wake(t, priority) == [Nothing EXCEPT ![t] = priority]

\* schedule(delay, kind): an armed retry timer is never replaced, an armed
\* normal timer is when the new one is due sooner.
Schedule(armed, kind) ==
    CASE armed = "none"   -> {kind}
      [] armed = "retry"  -> {"retry"}
      [] armed = "normal" -> {"normal", kind}

\* A call that begins in batch `from` for one of the targets it has left.  The
\* handler's gates (stopped, switched off, no agents) are read at once.
Calling(from, t) ==
    [from EXCEPT !.todo = @ \ {t}, !.current = t,
                 !.gated = \/ from.runner \in stopped
                           \/ ~enabled
                           \/ from.runner \notin configured,
                 !.serves = IF from.wakes[t] >= owed[t] THEN owed[t] ELSE NoWake]
\* ... and then the request it serves is no longer owed.
TakenOn(asked, wakes, t) ==
    IF wakes[t] >= asked[t] THEN [asked EXCEPT ![t] = NoWake] ELSE asked

\* Mutant of ScheduleNext: without the check for a stopped runner.
ScheduleNextStopped(r) == IF r \in configured THEN tick \cup {r} ELSE tick \ {r}

\* scheduleNext of a runner.
ScheduleNext(r) ==
    IF r \in stopped THEN tick
    ELSE IF r \in configured THEN tick \cup {r} ELSE tick \ {r}

-----------------------------------------------------------------------------
(* The wake layer *)

\* requestHeartbeat
Request(t, priority) ==
    /\ pending' = Queue(pending, Wake(t, priority))
    /\ owed' = Queue(owed, Wake(t, priority))
    /\ timer' \in Schedule(timer, "normal")

RequestHeartbeat(t, priority) ==
    /\ Request(t, priority)
    /\ UNCHANGED <<runnerVars, registration, scheduled, running, batch>>

\* pendingBatch, taken by the handler of the moment.
PendingBatch ==
    [runner |-> handler, wakes |-> pending, todo |-> WakesOf(pending),
     current |-> NoTarget, gated |-> FALSE, serves |-> NoWake]

\* The timer's callback up to the first call: without a handler the wakes stay
\* where they are; a batch still running makes it come back later.
TimerFires ==
    /\ timer # "none"
    /\ \/ /\ handler = 0
          /\ timer' = "none" /\ scheduled' = FALSE
          /\ UNCHANGED <<pending, running, batch, owed>>
       \/ /\ handler # 0 /\ running
          /\ scheduled' = TRUE                        \* schedule(delay, kind)
          /\ UNCHANGED <<pending, running, timer, batch, owed>>
       \/ /\ handler # 0 /\ ~running
          /\ \E b \in BatchIds \ Live, t \in WakesOf(pending) :
               /\ batch' = [batch EXCEPT ![b] = Calling(PendingBatch, t)]
               /\ owed' = TakenOn(owed, pending, t)
          /\ pending' = Nothing /\ running' = TRUE
          /\ timer' = "none" /\ scheduled' = FALSE
    /\ UNCHANGED <<runnerVars, registration>>

\* The finally block of batch b, with these wakes pending and this timer armed.
EndBatch(b, wakes, armed) ==
    /\ batch' = [batch EXCEPT ![b] = NoBatch]
    /\ running' = FALSE
    /\ timer' \in IF WakesOf(wakes) # {} \/ scheduled THEN Schedule(armed, "normal")
                                                      ELSE {armed}

\* The loop after an awaited call: the next call, or the end of the batch.
GoOn(b, wakes, asked, armed) ==
    \/ /\ batch[b].todo = {}
       /\ EndBatch(b, wakes, armed)
       /\ owed' = asked
    \/ /\ \E t \in batch[b].todo :
            /\ batch' = [batch EXCEPT ![b] = Calling(batch[b], t)]
            /\ owed' = TakenOn(asked, batch[b].wakes, t)
       /\ timer' = armed
       /\ UNCHANGED running

\* The request the call took on was not served after all.
OwedAgain(b) == [owed EXCEPT ![batch[b].current] = Higher(@, batch[b].serves)]

\* The call ran, failed, or was skipped for a reason that is not retried.
CallAnswered(b) ==
    /\ batch[b].current # NoTarget
    /\ tick' = IF batch[b].gated THEN tick ELSE ScheduleNext(batch[b].runner)
    /\ GoOn(b, pending, owed, timer)
    /\ UNCHANGED <<pending, scheduled>>
    /\ UNCHANGED <<enabled, started, stopped, configured, registration>>

\* Mutant of CallBusy: the runner counts on a retry that is not made.
CallBusyDropped(b) ==
    /\ batch[b].current # NoTarget /\ ~batch[b].gated
    /\ GoOn(b, pending, owed, timer)
    /\ UNCHANGED <<pending, scheduled>>
    /\ UNCHANGED <<runnerVars, registration>>

\* The call was skipped because the runtime is busy: the wake goes back, and
\* the runner leaves its interval timer to that retry.
CallBusy(b) ==
    /\ batch[b].current # NoTarget /\ ~batch[b].gated
    /\ pending' = Queue(pending, Wake(batch[b].current, batch[b].wakes[batch[b].current]))
    /\ \E armed \in Schedule(timer, "retry") : GoOn(b, pending', OwedAgain(b), armed)
    /\ UNCHANGED scheduled
    /\ UNCHANGED <<runnerVars, registration>>

\* The call threw: the whole batch goes back, the wakes already served included.
CallThrows(b) ==
    /\ batch[b].current # NoTarget /\ ~batch[b].gated
    /\ pending' = Queue(pending, batch[b].wakes)
    /\ \E armed \in Schedule(timer, "retry") : EndBatch(b, pending', armed)
    /\ owed' = OwedAgain(b)
    /\ tick' = ScheduleNext(batch[b].runner)
    /\ UNCHANGED scheduled
    /\ UNCHANGED <<enabled, started, stopped, configured, registration>>

-----------------------------------------------------------------------------
(* The runner *)

\* Mutant of TimerAtStart: a new registration does not look for pending wakes.
TimerAtStartIdle(wakes) == "none"

\* The timer after a registration: a fresh one for the wakes left pending.
TimerAtStart(wakes) == IF WakesOf(wakes) # {} THEN "normal" ELSE "none"

\* startHeartbeatRunner: setHeartbeatWakeHandler, which forgets the timer and
\* the execution flags of the previous lifecycle, then updateConfig.
StartRunner(withAgents) ==
    /\ generation < MaxGeneration
    /\ generation' = generation + 1
    /\ handler' = generation'
    /\ started' = started \cup {generation'}
    /\ running' = FALSE /\ scheduled' = FALSE
    /\ timer' = TimerAtStart(pending)
    /\ configured' = IF withAgents THEN configured \cup {generation'} ELSE configured
    /\ tick' = IF withAgents THEN tick \cup {generation'} ELSE tick
    /\ UNCHANGED <<enabled, stopped, pending, batch, owed>>

\* cleanup: the disposer clears the registration unless a newer one was made.
StopRunner(r) ==
    /\ r \in started \ stopped
    /\ stopped' = stopped \cup {r}
    /\ tick' = tick \ {r}
    /\ \/ /\ generation = r /\ handler = r
          /\ generation < MaxGeneration
          /\ generation' = generation + 1 /\ handler' = 0
       \/ /\ generation # r \/ handler # r
          /\ UNCHANGED registration
    /\ UNCHANGED <<enabled, started, configured, pending, scheduled, running, timer,
                   batch, owed>>

\* updateConfig of the runner in service, after a config reload.
UpdateConfig(r, withAgents) ==
    /\ r \in started \ stopped
    /\ configured' = IF withAgents THEN configured \cup {r} ELSE configured \ {r}
    /\ tick' = IF withAgents THEN tick \cup {r} ELSE tick \ {r}
    /\ UNCHANGED <<enabled, started, stopped, registration, pending, scheduled, running,
                   timer, batch, owed>>

\* The interval timer asks for a heartbeat of every agent.
IntervalTick(r) ==
    /\ r \in tick
    /\ tick' = tick \ {r}
    /\ Request(Broadcast, INTERVAL)
    /\ UNCHANGED <<enabled, started, stopped, configured, registration, scheduled, running,
                   batch>>

\* The RPC set-heartbeats sets the switch and does nothing else.
SetHeartbeatsEnabled(to) ==
    /\ enabled' = to
    /\ UNCHANGED <<started, stopped, configured, tick, registration, pending, scheduled,
                   running, timer, batch, owed>>

Next ==
    \/ \E t \in Targets, priority \in RequestPriorities : RequestHeartbeat(t, priority)
    \/ TimerFires
    \/ \E b \in BatchIds : CallAnswered(b) \/ CallBusy(b) \/ CallThrows(b)
    \/ \E withAgents \in BOOLEAN : StartRunner(withAgents)
    \/ \E r \in Generations : StopRunner(r) \/ IntervalTick(r)
    \/ \E r \in Generations, withAgents \in BOOLEAN : UpdateConfig(r, withAgents)
    \/ \E to \in Switches : SetHeartbeatsEnabled(to)

Spec == Init /\ [][Next]_vars

-----------------------------------------------------------------------------
(* Properties *)

\* With a handler registered no wake is left pending without a timer, whatever
\* was cleared, replaced or rescheduled on the way.
WakesAreAwaited == handler # 0 /\ WakesOf(pending) # {} => timer # "none"

\* Until a call takes it on, a request is pending, or waits in a batch, with at
\* least its own priority: merging, taking a batch, going back after a busy or a
\* failed call and replacing the handler in between lose and weaken none.
NoRequestLost ==
    \A t \in Targets : owed[t] # NoWake =>
        \/ pending[t] >= owed[t]
        \/ \E b \in Live : t \in batch[b].todo /\ batch[b].wakes[t] >= owed[t]

\* A heartbeat of all agents is outstanding for runner r.
Outstanding(r) ==
    \/ pending[Broadcast] # NoWake
    \/ \E b \in BatchIds : /\ batch[b].runner = r
                           /\ Broadcast \in batch[b].todo \cup {batch[b].current}

\* The chain of heartbeats never ends by itself: between two of them the
\* runner's interval timer is armed, also when the runtime was busy (the handler
\* then leaves the timer off and relies on the wake layer to try again), when a
\* call failed, and across config reloads.  It holds as long as heartbeats are
\* not switched off and on again: one that falls due while they are off leaves
\* the timer off for good.
HeartbeatsGoOn ==
    \A r \in configured : handler = r /\ enabled => r \in tick \/ Outstanding(r)

=============================================================================
