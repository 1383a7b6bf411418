-------------------------- MODULE HeartbeatWakeProofs --------------------------
(***************************************************************************)
(* Proofs about HeartbeatWake, for every set of targets and batches and    *)
(* every number of runners.                                                *)
(***************************************************************************)
EXTENDS HeartbeatWake, TLAPS, FiniteSetTheorems

Kinds == {"none", "normal", "retry"}
Level == Priorities \cup {NoWake}

-----------------------------------------------------------------------------
(* The helpers *)

\* Merging keeps the more urgent wake of every target.
LEMMA QueueKeepsHigher ==
    ASSUME NEW w \in Wakes, NEW m \in Wakes
    PROVE  /\ Queue(w, m) \in Wakes
           /\ \A t \in Targets : Queue(w, m)[t] \in Level
           /\ \A t \in Targets : Queue(w, m)[t] >= w[t] /\ Queue(w, m)[t] >= m[t]
           /\ \A t \in Targets : Queue(w, m)[t] = w[t] \/ Queue(w, m)[t] = m[t]
    BY DEF Queue, Higher, Wakes, Level, Priorities, NoWake

\* The wake of a single target.
LEMMA WakeIsOne ==
    ASSUME NEW t \in Targets, NEW p \in Level
    PROVE  /\ Wake(t, p) \in Wakes
           /\ Wake(t, p)[t] = p
           /\ \A u \in Targets : u # t => Wake(t, p)[u] = NoWake
    BY DEF Wake, Nothing, Wakes, Level

\* A timer armed or kept by schedule is a timer.
LEMMA ScheduleArms ==
    ASSUME NEW armed \in Kinds, NEW kind \in {"normal", "retry"},
           NEW after \in Schedule(armed, kind)
    PROVE  /\ after \in {"normal", "retry"}
           /\ armed = "retry" => after = "retry"
    BY DEF Schedule, Kinds

\* What a call that begins changes in its batch, and in what is owed.
LEMMA CallingBegins ==
    ASSUME TypeOK, NEW from \in Batches, NEW t \in Targets, from.runner # 0
    PROVE  /\ Calling(from, t) \in Batches
           /\ Calling(from, t).runner = from.runner
           /\ Calling(from, t).wakes = from.wakes
           /\ Calling(from, t).todo = from.todo \ {t}
           /\ Calling(from, t).current = t
           /\ Calling(from, t).gated <=> (\/ from.runner \in stopped
                                          \/ ~enabled
                                          \/ from.runner \notin configured)
           /\ Calling(from, t).serves =
                 IF from.wakes[t] >= owed[t] THEN owed[t] ELSE NoWake
    BY DEF Calling, Batches, TypeOK, Wakes, Level

LEMMA TakenOnType ==
    ASSUME NEW asked \in Wakes, NEW w \in Wakes, NEW t \in Targets
    PROVE  /\ TakenOn(asked, w, t) \in Wakes
           /\ \A u \in Targets : u # t => TakenOn(asked, w, t)[u] = asked[u]
           /\ TakenOn(asked, w, t)[t] = IF w[t] >= asked[t] THEN NoWake ELSE asked[t]
    BY DEF TakenOn, Wakes, Level

LEMMA OwedAgainType ==
    ASSUME TypeOK, NEW b \in BatchIds, batch[b].current # NoTarget
    PROVE  /\ batch[b] \in Batches /\ batch[b].current \in Targets
           /\ batch[b].wakes[batch[b].current] \in Level
           /\ OwedAgain(b) \in Wakes
           /\ \A u \in Targets : u # batch[b].current => OwedAgain(b)[u] = owed[u]
           /\ OwedAgain(b)[batch[b].current] =
                 Higher(owed[batch[b].current], batch[b].serves)
  <1>1. batch[b] \in Batches /\ batch[b].current \in Targets
    BY DEF TypeOK, Batches
  <1>2. batch[b].wakes \in Wakes /\ batch[b].serves \in Level /\ owed \in Wakes
    BY <1>1 DEF Batches, TypeOK, Level
  <1>3. Higher(owed[batch[b].current], batch[b].serves) \in Level
    BY <1>1, <1>2 DEF Higher, Wakes, Level
  <1>. QED
    BY <1>1, <1>2, <1>3 DEF OwedAgain, Wakes, Level

\* Requests of either kind keep the types.
LEMMA RequestTypes ==
    ASSUME TypeOK, NEW t \in Targets, NEW p \in Priorities, Request(t, p)
    PROVE  /\ pending' \in Wakes /\ owed' \in Wakes
           /\ timer' \in Kinds /\ timer' # "none"
           /\ WakesOf(pending') # {}
  <1>1. p \in Level /\ pending \in Wakes /\ owed \in Wakes /\ timer \in Kinds
    BY DEF Level, TypeOK, Kinds
  <1>2. /\ Wake(t, p) \in Wakes /\ Wake(t, p)[t] = p
    BY <1>1, WakeIsOne
  <1>3. /\ pending' = Queue(pending, Wake(t, p)) /\ owed' = Queue(owed, Wake(t, p))
        /\ timer' \in Schedule(timer, "normal")
    BY DEF Request
  <1>4. pending' \in Wakes /\ owed' \in Wakes /\ pending'[t] >= p /\ pending'[t] \in Level
    BY <1>1, <1>2, <1>3, QueueKeepsHigher
  <1>5. timer' \in {"normal", "retry"}
    BY <1>1, <1>3, ScheduleArms
  <1>6. t \in WakesOf(pending')
    BY <1>4 DEF WakesOf, Priorities, Level, NoWake
  <1>. QED
    BY <1>4, <1>5, <1>6 DEF Kinds

\* The end of a batch: its slot is free, and a pending wake finds a timer.
LEMMA EndBatchTypes ==
    ASSUME TypeOK, NEW b \in BatchIds,
           NEW ACTION wakes, wakes \in Wakes, NEW ACTION armed, armed \in Kinds,
           EndBatch(b, wakes, armed)
    PROVE  /\ batch' \in [BatchIds -> Batches]
           /\ \A c \in BatchIds : (batch'[c].runner # 0) <=> batch'[c].current # NoTarget
           /\ batch' = [batch EXCEPT ![b] = NoBatch]
           /\ running' = FALSE
           /\ timer' \in Kinds
           /\ armed = "retry" => timer' = "retry"
           /\ WakesOf(wakes) # {} => timer' # "none"
           /\ armed # "none" => timer' # "none"
           /\ (timer' # "none" /\ armed = "none") => WakesOf(wakes) # {} \/ scheduled
  <1>1. NoBatch \in Batches /\ NoBatch.runner = 0 /\ NoBatch.current = NoTarget
    BY DEF NoBatch, Batches, Wakes, Nothing
  <1>2. /\ batch' = [batch EXCEPT ![b] = NoBatch]
        /\ running' = FALSE
        /\ timer' \in IF WakesOf(wakes) # {} \/ scheduled THEN Schedule(armed, "normal")
                                                         ELSE {armed}
    BY DEF EndBatch
  <1>3. /\ batch' \in [BatchIds -> Batches]
        /\ \A c \in BatchIds : (batch'[c].runner # 0) <=> batch'[c].current # NoTarget
    BY <1>1, <1>2 DEF TypeOK, Live
  <1>4. \A after \in Schedule(armed, "normal") :
           after \in {"normal", "retry"} /\ (armed = "retry" => after = "retry")
    BY ScheduleArms
  <1>5. /\ timer' \in Kinds
        /\ armed = "retry" => timer' = "retry"
        /\ WakesOf(wakes) # {} => timer' # "none"
        /\ armed # "none" => timer' # "none"
        /\ (timer' # "none" /\ armed = "none") => WakesOf(wakes) # {} \/ scheduled
    BY <1>2, <1>4 DEF Kinds
  <1>. QED
    BY <1>2, <1>3, <1>5

\* The next call of a batch.
LEMMA NextCallTypes ==
    ASSUME TypeOK, NEW b \in BatchIds, batch[b].current # NoTarget,
           NEW t \in batch[b].todo, NEW ACTION asked, asked \in Wakes,
           batch' = [batch EXCEPT ![b] = Calling(batch[b], t)],
           owed' = TakenOn(asked, batch[b].wakes, t)
    PROVE  /\ t \in Targets
           /\ batch' \in [BatchIds -> Batches] /\ owed' \in Wakes
           /\ \A c \in BatchIds : (batch'[c].runner # 0) <=> batch'[c].current # NoTarget
           /\ \A c \in BatchIds : batch'[c].runner = batch[c].runner
  <1>1. batch[b] \in Batches /\ batch[b].runner # 0
    BY DEF TypeOK, Live
  <1>2. t \in Targets /\ batch[b].wakes \in Wakes
    BY <1>1 DEF Batches
  <1>3. /\ Calling(batch[b], t) \in Batches /\ Calling(batch[b], t).current = t
        /\ Calling(batch[b], t).runner = batch[b].runner
    BY <1>1, <1>2, CallingBegins
  <1>4. owed' \in Wakes
    BY <1>2, TakenOnType
  <1>5. /\ batch' \in [BatchIds -> Batches]
        /\ \A c \in BatchIds : (batch'[c].runner # 0) <=> batch'[c].current # NoTarget
        /\ \A c \in BatchIds : batch'[c].runner = batch[c].runner
    BY <1>1, <1>2, <1>3, BroadcastAssumption DEF TypeOK, Live
  <1>. QED
    BY <1>2, <1>4, <1>5

LEMMA GoOnTypes ==
    ASSUME TypeOK, NEW b \in BatchIds, batch[b].current # NoTarget,
           NEW ACTION wakes, wakes \in Wakes, NEW ACTION asked, asked \in Wakes,
           NEW ACTION armed, armed \in Kinds, GoOn(b, wakes, asked, armed)
    PROVE  /\ batch' \in [BatchIds -> Batches] /\ owed' \in Wakes
           /\ \A c \in BatchIds : (batch'[c].runner # 0) <=> batch'[c].current # NoTarget
           /\ running' \in BOOLEAN
           /\ timer' \in Kinds
           /\ armed = "retry" => timer' = "retry"
           /\ armed # "none" => timer' # "none"
           /\ (timer' # "none" /\ armed = "none") => WakesOf(wakes) # {} \/ scheduled
  <1>1. CASE batch[b].todo = {} /\ EndBatch(b, wakes, armed) /\ owed' = asked
    <2>1. /\ EndBatch(b, wakes, armed) /\ owed' \in Wakes
      BY <1>1
    <2>2. /\ batch' \in [BatchIds -> Batches]
          /\ \A c \in BatchIds : (batch'[c].runner # 0) <=> batch'[c].current # NoTarget
          /\ running' = FALSE
          /\ timer' \in Kinds
          /\ armed = "retry" => timer' = "retry"
          /\ armed # "none" => timer' # "none"
          /\ (timer' # "none" /\ armed = "none") => WakesOf(wakes) # {} \/ scheduled
      BY <2>1, EndBatchTypes
    <2>. QED
      BY <2>1, <2>2
  <1>2. CASE /\ \E t \in batch[b].todo :
                  /\ batch' = [batch EXCEPT ![b] = Calling(batch[b], t)]
                  /\ owed' = TakenOn(asked, batch[b].wakes, t)
             /\ timer' = armed /\ UNCHANGED running
    BY <1>2, NextCallTypes DEF TypeOK
  <1>. QED
    BY <1>1, <1>2 DEF GoOn

\* A batch taken off the pending wakes.
LEMMA PendingBatchType ==
    ASSUME TypeOK, handler # 0
    PROVE  /\ PendingBatch \in Batches /\ PendingBatch.runner = handler
           /\ PendingBatch.wakes = pending /\ PendingBatch.todo = WakesOf(pending)
           /\ WakesOf(pending) \subseteq Targets
  <1>1. handler \in Generations /\ pending \in Wakes
    BY BoundAssumption DEF TypeOK, Generations
  <1>2. WakesOf(pending) \in SUBSET Targets
    BY DEF WakesOf
  <1>. QED
    BY <1>1, <1>2 DEF Batches, PendingBatch

\* Nothing pending, nothing armed.
LEMMA NothingIsEmpty == Nothing \in Wakes /\ WakesOf(Nothing) = {}
  BY DEF Nothing, Wakes, WakesOf

-----------------------------------------------------------------------------
(* Types *)

RunnersTyped ==
    /\ enabled \in BOOLEAN
    /\ generation \in 0..MaxGeneration /\ handler \in 0..MaxGeneration
    /\ started \subseteq 1..generation /\ stopped \subseteq started
    /\ configured \subseteq started /\ tick \subseteq configured \ stopped
WakesTyped ==
    /\ pending \in Wakes /\ owed \in Wakes
    /\ scheduled \in BOOLEAN /\ running \in BOOLEAN /\ timer \in Kinds
    /\ batch \in [BatchIds -> Batches]
    /\ \A b \in BatchIds : b \in Live <=> batch[b].current # NoTarget

LEMMA TypeParts == TypeOK <=> RunnersTyped /\ WakesTyped
  BY DEF TypeOK, RunnersTyped, WakesTyped, Kinds

LEMMA TypeInit == Init => TypeOK
  <1>. SUFFICES ASSUME Init PROVE TypeOK
    OBVIOUS
  <1>1. RunnersTyped
    BY BoundAssumption DEF Init, RunnersTyped
  <1>2. Nothing \in Wakes /\ NoBatch \in Batches
    BY DEF Nothing, Wakes, NoBatch, Batches
  <1>3. pending \in Wakes /\ owed \in Wakes /\ batch \in [BatchIds -> Batches]
    BY <1>2 DEF Init
  <1>4. \A b \in BatchIds : b \in Live <=> batch[b].current # NoTarget
    BY DEF Init, NoBatch, Live
  <1>5. WakesTyped
    BY <1>3, <1>4 DEF Init, WakesTyped, Kinds
  <1>. QED
    BY <1>1, <1>5, TypeParts

LEMMA TypeStep == TypeOK /\ [Next]_vars => TypeOK'
  <1>. SUFFICES ASSUME TypeOK, [Next]_vars PROVE RunnersTyped' /\ WakesTyped'
    BY TypeParts DEF TypeOK, RunnersTyped, WakesTyped, Kinds
  <1>. USE DEF RunnersTyped, WakesTyped
  <1>0. RunnersTyped /\ WakesTyped
    BY TypeParts
  <1>1. ASSUME NEW t \in Targets, NEW p \in RequestPriorities, RequestHeartbeat(t, p)
        PROVE  RunnersTyped' /\ WakesTyped'
    <2>1. p \in Priorities /\ Request(t, p)
      BY <1>1, PriorityAssumption DEF RequestHeartbeat
    <2>. QED
      BY <1>0, <1>1, <2>1, RequestTypes DEF RequestHeartbeat, runnerVars, registration, Live
  <1>2. CASE TimerFires
    <2>1. CASE handler = 0
      BY <1>0, <1>2, <2>1 DEF TimerFires, runnerVars, registration, Live, Kinds
    <2>2. CASE handler # 0 /\ running
      BY <1>0, <1>2, <2>2 DEF TimerFires, runnerVars, registration, Live
    <2>3. CASE handler # 0 /\ ~running
      <3>1. PICK b \in BatchIds \ Live, t \in WakesOf(pending) :
               /\ batch' = [batch EXCEPT ![b] = Calling(PendingBatch, t)]
               /\ owed' = TakenOn(owed, pending, t)
        BY <1>2, <2>3 DEF TimerFires
      <3>2. t \in Targets
        BY <2>3, <3>1, PendingBatchType
      <3>3. /\ Calling(PendingBatch, t) \in Batches
            /\ Calling(PendingBatch, t).runner = handler
            /\ Calling(PendingBatch, t).current = t
        BY <2>3, <3>2, PendingBatchType, CallingBegins
      <3>5. owed' \in Wakes
        BY <1>0, <3>1, <3>2, TakenOnType
      <3>6. /\ batch' \in [BatchIds -> Batches]
            /\ \A c \in BatchIds : c \in Live' <=> batch'[c].current # NoTarget
        BY <1>0, <2>3, <3>1, <3>2, <3>3, BroadcastAssumption DEF Live
      <3>7. /\ pending' = Nothing /\ running' = TRUE /\ timer' = "none" /\ scheduled' = FALSE
            /\ UNCHANGED <<runnerVars, registration>>
        BY <1>2, <2>3 DEF TimerFires
      <3>. QED
        BY <1>0, <3>5, <3>6, <3>7, NothingIsEmpty DEF runnerVars, registration, Kinds
    <2>. QED
      BY <1>0, <2>1, <2>2, <2>3
  <1>3. ASSUME NEW b \in BatchIds, CallAnswered(b)
        PROVE  RunnersTyped' /\ WakesTyped'
    <2>1. /\ batch' \in [BatchIds -> Batches] /\ owed' \in Wakes
          /\ \A c \in BatchIds : (batch'[c].runner # 0) <=> batch'[c].current # NoTarget
          /\ running' \in BOOLEAN /\ timer' \in Kinds
      BY <1>0, <1>3, GoOnTypes DEF CallAnswered
    <2>2. batch[b].runner \in Generations
      BY <1>0, <1>3 DEF CallAnswered, Live, Batches
    <2>3. tick' \subseteq configured \ stopped
      BY <1>0, <1>3, <2>2 DEF CallAnswered, ScheduleNext
    <2>. QED
      BY <1>0, <1>3, <2>1, <2>3 DEF CallAnswered, registration, Live
  <1>4. ASSUME NEW b \in BatchIds, CallBusy(b)
        PROVE  RunnersTyped' /\ WakesTyped'
    <2>. DEFINE c == batch[b].current
    <2>1. /\ c \in Targets /\ batch[b].wakes[c] \in Level /\ OwedAgain(b) \in Wakes
      BY <1>4, OwedAgainType DEF CallBusy
    <2>2. pending' \in Wakes
      BY <1>0, <1>4, <2>1, WakeIsOne, QueueKeepsHigher DEF CallBusy
    <2>3. PICK armed \in Schedule(timer, "retry") : GoOn(b, pending', OwedAgain(b), armed)
      BY <1>4 DEF CallBusy
    <2>4. armed \in Kinds
      BY <1>0, <2>3, ScheduleArms DEF Kinds
    <2>5. /\ batch' \in [BatchIds -> Batches] /\ owed' \in Wakes
          /\ \A d \in BatchIds : (batch'[d].runner # 0) <=> batch'[d].current # NoTarget
          /\ running' \in BOOLEAN /\ timer' \in Kinds
      BY <1>4, <2>1, <2>2, <2>3, <2>4, GoOnTypes DEF CallBusy
    <2>. QED
      BY <1>0, <1>4, <2>2, <2>5 DEF CallBusy, runnerVars, registration, Live
  <1>5. ASSUME NEW b \in BatchIds, CallThrows(b)
        PROVE  RunnersTyped' /\ WakesTyped'
    <2>1. batch[b] \in Batches /\ batch[b].runner \in Generations
      BY <1>0, <1>5 DEF CallThrows, Live, Batches
    <2>2. OwedAgain(b) \in Wakes
      BY <1>5, OwedAgainType DEF CallThrows
    <2>3. pending' \in Wakes
      BY <1>0, <1>5, <2>1, QueueKeepsHigher DEF CallThrows, Batches
    <2>4. PICK armed \in Schedule(timer, "retry") : EndBatch(b, pending', armed)
      BY <1>5 DEF CallThrows
    <2>5. armed \in Kinds
      BY <1>0, <2>4, ScheduleArms DEF Kinds
    <2>6. /\ batch' \in [BatchIds -> Batches]
          /\ \A d \in BatchIds : (batch'[d].runner # 0) <=> batch'[d].current # NoTarget
          /\ running' = FALSE /\ timer' \in Kinds
      BY <2>3, <2>4, <2>5, EndBatchTypes
    <2>7. tick' \subseteq configured \ stopped
      BY <1>0, <1>5, <2>1 DEF CallThrows, ScheduleNext
    <2>. QED
      BY <1>0, <1>5, <2>2, <2>3, <2>6, <2>7 DEF CallThrows, registration, Live
  <1>6. ASSUME NEW withAgents \in BOOLEAN, StartRunner(withAgents)
        PROVE  RunnersTyped' /\ WakesTyped'
    <2>. DEFINE g == generation'
    <2>1. /\ g = generation + 1 /\ handler' = g /\ started' = started \cup {g}
          /\ configured' \in {configured, configured \cup {g}}
          /\ tick' = IF withAgents THEN tick \cup {g} ELSE tick
          /\ withAgents => configured' = configured \cup {g}
          /\ ~withAgents => configured' = configured
          /\ UNCHANGED <<enabled, stopped>>
      BY <1>6 DEF StartRunner
    <2>2. g \in 0..MaxGeneration /\ g \notin started
      BY <1>0, <1>6, <2>1, BoundAssumption DEF StartRunner
    <2>3. started' \subseteq 1..g
      BY <1>0, <2>1, <2>2, BoundAssumption
    <2>4. configured' \subseteq started' /\ tick' \subseteq configured' \ stopped'
      BY <1>0, <2>1, <2>2
    <2>5. RunnersTyped'
      BY <1>0, <2>1, <2>2, <2>3, <2>4
    <2>6. WakesTyped'
      BY <1>0, <1>6 DEF StartRunner, TimerAtStart, Kinds, Live
    <2>. QED
      BY <2>5, <2>6
  <1>7. ASSUME NEW r \in Generations, StopRunner(r)
        PROVE  RunnersTyped' /\ WakesTyped'
    BY <1>0, <1>7, BoundAssumption DEF StopRunner, registration, Live
  <1>8. ASSUME NEW r \in Generations, IntervalTick(r)
        PROVE  RunnersTyped' /\ WakesTyped'
    <2>1. INTERVAL \in Priorities /\ Broadcast \in Targets /\ Request(Broadcast, INTERVAL)
      BY <1>8, BroadcastAssumption DEF IntervalTick, INTERVAL, Priorities
    <2>2. pending' \in Wakes /\ owed' \in Wakes /\ timer' \in Kinds
      BY <2>1, RequestTypes
    <2>. QED
      BY <1>0, <1>8, <2>2 DEF IntervalTick, registration, Live
  <1>9. ASSUME NEW r \in Generations, NEW withAgents \in BOOLEAN, UpdateConfig(r, withAgents)
        PROVE  RunnersTyped' /\ WakesTyped'
    BY <1>0, <1>9 DEF UpdateConfig, registration, Live
  <1>10. ASSUME NEW to \in Switches, SetHeartbeatsEnabled(to)
         PROVE  RunnersTyped' /\ WakesTyped'
    BY <1>0, <1>10, SwitchAssumption DEF SetHeartbeatsEnabled, registration, Live
  <1>11. CASE UNCHANGED vars
    BY <1>0, <1>11 DEF vars, Live
  <1>. QED
    BY <1>1, <1>2, <1>3, <1>4, <1>5, <1>6, <1>7, <1>8, <1>9, <1>10, <1>11 DEF Next

\* The variables keep their types; at most one runner is registered, only live
\* runners with agents have an interval timer armed.
THEOREM TypeCorrect == Spec => []TypeOK
  BY TypeInit, TypeStep, PTL DEF Spec

-----------------------------------------------------------------------------
(* What the batches hold *)

\* A batch calls and will call only targets it has a wake for, and serves no
\* request more urgent than that wake.
Exact(x) ==
    /\ x.current \in WakesOf(x.wakes) /\ x.todo \subseteq WakesOf(x.wakes)
    /\ x.serves <= x.wakes[x.current]
BatchesExact == \A b \in Live : Exact(batch[b])

\* Only a timer that takes the pending wakes and the calls of a batch touch the
\* batches; the rest leaves them, what is running included, or resets `running`.
LEMMA WhoMovesBatches ==
    ASSUME [Next]_vars
    PROVE  \/ UNCHANGED batch
           \/ TimerFires /\ handler # 0 /\ ~running
           \/ \E b \in BatchIds : CallAnswered(b) \/ CallBusy(b) \/ CallThrows(b)
  BY DEF Next, vars, RequestHeartbeat, TimerFires, StartRunner, StopRunner, IntervalTick,
         UpdateConfig, SetHeartbeatsEnabled

\* A timer that finds a handler and no batch running takes what is pending.
LEMMA TimerTakes ==
    ASSUME TypeOK, TimerFires, handler # 0, ~running
    PROVE  \E b \in BatchIds \ Live, t \in WakesOf(pending) :
              /\ batch' = [batch EXCEPT ![b] = Calling(PendingBatch, t)]
              /\ owed' = TakenOn(owed, pending, t)
              /\ t \in Targets
              /\ Calling(PendingBatch, t).runner = handler
              /\ Calling(PendingBatch, t).wakes = pending
              /\ Calling(PendingBatch, t).todo = WakesOf(pending) \ {t}
              /\ Calling(PendingBatch, t).current = t
              /\ Calling(PendingBatch, t).gated <=> (\/ handler \in stopped
                                                     \/ ~enabled
                                                     \/ handler \notin configured)
              /\ Calling(PendingBatch, t).serves =
                    IF pending[t] >= owed[t] THEN owed[t] ELSE NoWake
  <1>1. PICK b \in BatchIds \ Live, t \in WakesOf(pending) :
              /\ batch' = [batch EXCEPT ![b] = Calling(PendingBatch, t)]
              /\ owed' = TakenOn(owed, pending, t)
    BY DEF TimerFires
  <1>2. t \in Targets
    BY PendingBatchType
  <1>3. /\ Calling(PendingBatch, t).runner = handler
        /\ Calling(PendingBatch, t).wakes = pending
        /\ Calling(PendingBatch, t).todo = WakesOf(pending) \ {t}
        /\ Calling(PendingBatch, t).current = t
        /\ Calling(PendingBatch, t).gated <=> (\/ handler \in stopped
                                               \/ ~enabled
                                               \/ handler \notin configured)
        /\ Calling(PendingBatch, t).serves =
              IF pending[t] >= owed[t] THEN owed[t] ELSE NoWake
    BY <1>2, PendingBatchType, CallingBegins
  <1>. QED
    BY <1>1, <1>2, <1>3

\* After a call its batch is done, or the next call has begun.
LEMMA BatchGoesOn ==
    ASSUME TypeOK, NEW b \in BatchIds, batch[b].current # NoTarget,
           NEW ACTION wakes, NEW ACTION asked, NEW ACTION armed,
           GoOn(b, wakes, asked, armed)
    PROVE  /\ \A c \in BatchIds : c # b => batch'[c] = batch[c]
           /\ \/ /\ batch[b].todo = {} /\ batch'[b] = NoBatch
                 /\ running' = FALSE
              \/ /\ UNCHANGED running
                 /\ \E t \in batch[b].todo :
                      /\ t \in Targets
                      /\ batch'[b].runner = batch[b].runner
                      /\ batch'[b].wakes = batch[b].wakes
                      /\ batch'[b].todo = batch[b].todo \ {t}
                      /\ batch'[b].current = t
                      /\ batch'[b].gated <=> (\/ batch[b].runner \in stopped
                                              \/ ~enabled
                                              \/ batch[b].runner \notin configured)
                      /\ batch'[b].serves = IF batch[b].wakes[t] >= owed[t] THEN owed[t] ELSE NoWake
  <1>1. batch \in [BatchIds -> Batches] /\ batch[b].runner # 0 /\ batch[b] \in Batches
    BY DEF TypeOK, Live
  <1>2. CASE batch[b].todo = {} /\ EndBatch(b, wakes, armed) /\ owed' = asked
    BY <1>1, <1>2 DEF EndBatch
  <1>3. ASSUME NEW t \in batch[b].todo, UNCHANGED running,
               batch' = [batch EXCEPT ![b] = Calling(batch[b], t)],
               owed' = TakenOn(asked, batch[b].wakes, t)
        PROVE  /\ \A c \in BatchIds : c # b => batch'[c] = batch[c]
               /\ t \in Targets
               /\ batch'[b].runner = batch[b].runner
               /\ batch'[b].wakes = batch[b].wakes
               /\ batch'[b].todo = batch[b].todo \ {t}
               /\ batch'[b].current = t
               /\ batch'[b].gated <=> (\/ batch[b].runner \in stopped
                                       \/ ~enabled
                                       \/ batch[b].runner \notin configured)
               /\ batch'[b].serves = IF batch[b].wakes[t] >= owed[t] THEN owed[t] ELSE NoWake
    <2>1. t \in Targets
      BY <1>1 DEF Batches
    <2>2. batch'[b] = Calling(batch[b], t) /\ \A c \in BatchIds : c # b => batch'[c] = batch[c]
      BY <1>1, <1>3
    <2>. QED
      BY <1>1, <2>1, <2>2, CallingBegins
  <1>. QED
    BY <1>2, <1>3 DEF GoOn

LEMMA BatchesInit == Init => BatchesExact
  BY DEF Init, BatchesExact, Live, NoBatch

LEMMA BatchesStep == TypeOK /\ BatchesExact /\ [Next]_vars => BatchesExact'
  <1>. SUFFICES ASSUME TypeOK, BatchesExact, [Next]_vars PROVE BatchesExact'
    OBVIOUS
  <1>1. CASE UNCHANGED batch
    BY <1>1 DEF BatchesExact, Live, Exact
  <1>2. CASE TimerFires /\ handler # 0 /\ ~running
    <2>1. PICK b \in BatchIds \ Live, t \in WakesOf(pending) :
              /\ batch' = [batch EXCEPT ![b] = Calling(PendingBatch, t)]
              /\ t \in Targets
              /\ Calling(PendingBatch, t).wakes = pending
              /\ Calling(PendingBatch, t).todo = WakesOf(pending) \ {t}
              /\ Calling(PendingBatch, t).current = t
              /\ Calling(PendingBatch, t).serves =
                    IF pending[t] >= owed[t] THEN owed[t] ELSE NoWake
      BY <1>2, TimerTakes
    <2>2. pending[t] \in Level /\ owed[t] \in Level
      BY <2>1 DEF TypeOK, Wakes, Level
    <2>3. Exact(Calling(PendingBatch, t))
      BY <2>1, <2>2 DEF Exact, Level, Priorities, NoWake
    <2>. QED
      BY <2>1, <2>3 DEF BatchesExact, TypeOK, Live, Exact
  <1>3. ASSUME NEW b \in BatchIds, batch[b].current # NoTarget,
               NEW ACTION wakes, NEW ACTION asked, NEW ACTION armed,
               GoOn(b, wakes, asked, armed)
        PROVE  BatchesExact'
    <2>1. Exact(batch[b]) /\ batch[b] \in Batches
      BY <1>3 DEF BatchesExact, TypeOK, Live
    <2>2. \A c \in BatchIds : c # b => batch'[c] = batch[c]
      BY <1>3, BatchGoesOn
    <2>3. CASE batch'[b] = NoBatch
      BY <2>2, <2>3 DEF BatchesExact, Live, NoBatch, Exact
    <2>4. ASSUME NEW t \in batch[b].todo, t \in Targets,
                 batch'[b].wakes = batch[b].wakes,
                 batch'[b].todo = batch[b].todo \ {t}, batch'[b].current = t,
                 batch'[b].serves = IF batch[b].wakes[t] >= owed[t] THEN owed[t] ELSE NoWake
          PROVE  BatchesExact'
      <3>1. batch[b].wakes[t] \in Level /\ owed[t] \in Level
        BY <2>1, <2>4 DEF TypeOK, Batches, Wakes, Level
      <3>2. batch'[b].serves <= batch'[b].wakes[t]
        BY <2>4, <3>1 DEF Level, Priorities, NoWake
      <3>3. Exact(batch'[b])
        BY <2>1, <2>4, <3>2 DEF Exact
      <3>. QED
        BY <2>2, <3>3 DEF BatchesExact, Live, Exact
    <2>. QED
      BY <1>3, <2>3, <2>4, BatchGoesOn
  <1>4. ASSUME NEW b \in BatchIds, CallThrows(b)
        PROVE  BatchesExact'
    BY <1>4 DEF CallThrows, EndBatch, BatchesExact, Live, NoBatch, Exact, TypeOK
  <1>. QED
    BY <1>1, <1>2, <1>3, <1>4, WhoMovesBatches DEF CallAnswered, CallBusy

-----------------------------------------------------------------------------
(* Who is registered *)

\* The cleanup of an old runner never unregisters the one started after it.
NewestRunnerServes ==
    \A r \in started \ stopped : (\A s \in started : s <= r) => handler = r

\* The registered runner is the newest and not stopped, and the newest runner is
\* registered until it stops.
Registered ==
    /\ handler # 0 => handler = generation /\ handler \in started \ stopped
    /\ NewestRunnerServes

LEMMA RegisteredInit == Init => Registered
  BY DEF Init, Registered, NewestRunnerServes

LEMMA RegisteredStep == TypeOK /\ Registered /\ [Next]_vars => Registered'
  <1>. SUFFICES ASSUME TypeOK, Registered, [Next]_vars PROVE Registered'
    OBVIOUS
  <1>. USE DEF Registered, NewestRunnerServes
  <1>1. /\ started \subseteq 1..generation /\ stopped \subseteq started
        /\ generation \in Nat
    BY BoundAssumption DEF TypeOK
  <1>2. CASE UNCHANGED <<registration, started, stopped>>
    BY <1>2 DEF registration
  <1>3. ASSUME NEW withAgents \in BOOLEAN, StartRunner(withAgents)
        PROVE  Registered'
    <2>1. /\ generation' = generation + 1 /\ handler' = generation'
          /\ started' = started \cup {generation'} /\ stopped' = stopped
      BY <1>3 DEF StartRunner
    <2>2. generation' \in started' \ stopped' /\ handler' = generation'
      BY <1>1, <2>1
    <2>3. ASSUME NEW r \in started', \A s \in started' : s <= r
          PROVE  handler' = r
      <3>1. generation' <= r
        BY <2>1, <2>3
      <3>2. r \notin started
        BY <1>1, <2>1, <3>1
      <3>. QED
        BY <2>1, <3>2
    <2>. QED
      BY <2>2, <2>3
  <1>4. ASSUME NEW r \in Generations, StopRunner(r)
        PROVE  Registered'
    <2>1. CASE generation = r /\ handler = r /\ handler' = 0
      <3>1. started' = started /\ stopped' = stopped \cup {r}
        BY <1>4 DEF StopRunner
      <3>2. ASSUME NEW q \in started \ (stopped \cup {r}), \A s \in started : s <= q
            PROVE  FALSE
        BY <1>1, <2>1, <3>2
      <3>. QED
        BY <2>1, <3>1, <3>2
    <2>2. CASE (generation # r \/ handler # r) /\ UNCHANGED registration
      <3>1. started' = started /\ stopped' = stopped \cup {r} /\ handler' = handler
            /\ generation' = generation
        BY <1>4, <2>2 DEF StopRunner, registration
      <3>. QED
        BY <2>2, <3>1
    <2>. QED
      BY <1>4, <2>1, <2>2 DEF StopRunner
  <1>5. \/ UNCHANGED <<registration, started, stopped>>
        \/ \E withAgents \in BOOLEAN : StartRunner(withAgents)
        \/ \E r \in Generations : StopRunner(r)
    BY DEF Next, vars, registration, runnerVars, RequestHeartbeat, TimerFires, CallAnswered,
           CallBusy, CallThrows, IntervalTick, UpdateConfig, SetHeartbeatsEnabled
  <1>. QED
    BY <1>2, <1>3, <1>4, <1>5

-----------------------------------------------------------------------------
(* Timers *)

\* An armed timer finds a wake when it fires, and the flag `scheduled` never
\* outlives the timer it was set for.
TimersHaveWork ==
    /\ timer # "none" => WakesOf(pending) # {}
    /\ scheduled => timer # "none"

TimersExact == TimersHaveWork /\ WakesAreAwaited

LEMMA TimersInit == Init => TimersExact
  BY NothingIsEmpty DEF Init, TimersExact, TimersHaveWork, WakesAreAwaited

\* Whatever is put back makes the pending wakes only more.
LEMMA QueueAddsWakes ==
    ASSUME NEW w \in Wakes, NEW m \in Wakes
    PROVE  WakesOf(w) \cup WakesOf(m) \subseteq WakesOf(Queue(w, m))
  <1>1. /\ Queue(w, m) \in Wakes
        /\ \A t \in Targets : Queue(w, m)[t] \in Level /\ w[t] \in Level /\ m[t] \in Level
        /\ \A t \in Targets : Queue(w, m)[t] >= w[t] /\ Queue(w, m)[t] >= m[t]
    BY QueueKeepsHigher DEF Wakes, Level
  <1>. QED
    BY <1>1 DEF WakesOf, Level, Priorities, NoWake

LEMMA TimersStep ==
    TypeOK /\ BatchesExact /\ TimersExact /\ [Next]_vars => TimersExact'
  <1>. SUFFICES ASSUME TypeOK, BatchesExact, TimersExact, [Next]_vars PROVE TimersExact'
    OBVIOUS
  <1>. USE DEF TimersExact, TimersHaveWork, WakesAreAwaited
  <1>0. pending \in Wakes /\ timer \in Kinds
    BY DEF TypeOK, Kinds
  <1>1. ASSUME NEW t \in Targets, NEW p \in RequestPriorities, RequestHeartbeat(t, p)
        PROVE  TimersExact'
    BY <1>1, RequestTypes, PriorityAssumption DEF RequestHeartbeat
  <1>2. CASE TimerFires
    BY <1>2, NothingIsEmpty DEF TimerFires, registration
  <1>3. ASSUME NEW b \in BatchIds, CallAnswered(b)
        PROVE  TimersExact'
    <2>1. /\ timer # "none" => timer' # "none"
          /\ (timer' # "none" /\ timer = "none") => WakesOf(pending) # {} \/ scheduled
      BY <1>0, <1>3, GoOnTypes DEF CallAnswered, TypeOK
    <2>. QED
      BY <1>3, <2>1 DEF CallAnswered, registration
  <1>4. ASSUME NEW b \in BatchIds, CallBusy(b)
        PROVE  TimersExact'
    <2>. DEFINE c == batch[b].current
                put == Wake(c, batch[b].wakes[c])
    <2>1. c \in Targets /\ batch[b].wakes[c] \in Level /\ OwedAgain(b) \in Wakes
      BY <1>4, OwedAgainType DEF CallBusy
    <2>2. put \in Wakes /\ put[c] = batch[b].wakes[c]
      BY <2>1, WakeIsOne
    <2>3. c \in WakesOf(put)
      BY <1>4, <2>1, <2>2 DEF CallBusy, BatchesExact, Exact, TypeOK, WakesOf
    <2>4. pending' = Queue(pending, put)
      BY <1>4 DEF CallBusy
    <2>5. pending' \in Wakes /\ WakesOf(pending') # {}
      BY <1>0, <2>2, <2>3, <2>4, QueueKeepsHigher, QueueAddsWakes
    <2>6. PICK armed \in Schedule(timer, "retry") : GoOn(b, pending', OwedAgain(b), armed)
      BY <1>4 DEF CallBusy
    <2>7. armed \in {"normal", "retry"}
      BY <1>0, <2>6, ScheduleArms
    <2>8. timer' # "none"
      BY <1>4, <2>1, <2>5, <2>6, <2>7, GoOnTypes DEF CallBusy, Kinds
    <2>. QED
      BY <1>4, <2>5, <2>8 DEF CallBusy
  <1>5. ASSUME NEW b \in BatchIds, CallThrows(b)
        PROVE  TimersExact'
    <2>1. /\ batch[b].wakes \in Wakes /\ batch[b].current \in WakesOf(batch[b].wakes)
      BY <1>5 DEF CallThrows, BatchesExact, Exact, TypeOK, Batches
    <2>2. pending' \in Wakes /\ WakesOf(pending') # {}
      BY <1>0, <1>5, <2>1, QueueKeepsHigher, QueueAddsWakes DEF CallThrows
    <2>3. PICK armed \in Schedule(timer, "retry") : EndBatch(b, pending', armed)
      BY <1>5 DEF CallThrows
    <2>4. armed \in Kinds
      BY <1>0, <2>3, ScheduleArms DEF Kinds
    <2>5. timer' # "none"
      BY <2>2, <2>3, <2>4, EndBatchTypes
    <2>. QED
      BY <1>5, <2>2, <2>5 DEF CallThrows
  <1>6. ASSUME NEW withAgents \in BOOLEAN, StartRunner(withAgents)
        PROVE  TimersExact'
    BY <1>6 DEF StartRunner, TimerAtStart
  <1>7. ASSUME NEW r \in Generations, StopRunner(r)
        PROVE  TimersExact'
    BY <1>7 DEF StopRunner, registration
  <1>8. ASSUME NEW r \in Generations, IntervalTick(r)
        PROVE  TimersExact'
    <2>1. INTERVAL \in Priorities /\ Broadcast \in Targets /\ Request(Broadcast, INTERVAL)
      BY <1>8, BroadcastAssumption DEF IntervalTick, INTERVAL, Priorities
    <2>. QED
      BY <1>8, <2>1, RequestTypes DEF IntervalTick, registration
  <1>9. ASSUME NEW r \in Generations, NEW withAgents \in BOOLEAN, UpdateConfig(r, withAgents)
        PROVE  TimersExact'
    BY <1>9 DEF UpdateConfig, registration
  <1>10. ASSUME NEW to \in Switches, SetHeartbeatsEnabled(to)
         PROVE  TimersExact'
    BY <1>10 DEF SetHeartbeatsEnabled, registration
  <1>11. CASE UNCHANGED vars
    BY <1>11 DEF vars
  <1>. QED
    BY <1>1, <1>2, <1>3, <1>4, <1>5, <1>6, <1>7, <1>8, <1>9, <1>10, <1>11 DEF Next

-----------------------------------------------------------------------------
(* Overlap *)

\* While no batch holds `running`, there is room for one more.
Room == IF running THEN 0 ELSE 1
Overlap ==
    IF started = {} THEN Live = {} /\ ~running
                    ELSE Cardinality(Live) + Room <= Cardinality(started)

LEMMA FinitelyMany ==
    ASSUME TypeOK
    PROVE  /\ IsFiniteSet(Live) /\ Cardinality(Live) \in Nat
           /\ IsFiniteSet(started) /\ Cardinality(started) \in Nat
  <1>1. IsFiniteSet(Live)
    BY FinitenessAssumption, FS_Subset DEF Live
  <1>2. generation \in Nat /\ started \subseteq 1..generation
    BY BoundAssumption DEF TypeOK
  <1>3. IsFiniteSet(1..generation)
    BY <1>2, FS_Interval
  <1>4. IsFiniteSet(started)
    BY <1>2, <1>3, FS_Subset
  <1>. QED
    BY <1>1, <1>4, FS_CardinalityType

LEMMA OverlapInit == Init => Overlap
  BY DEF Init, Overlap, Live, NoBatch

LEMMA OverlapStep ==
    TypeOK /\ Registered /\ Overlap /\ [Next]_vars => Overlap'
  <1>. SUFFICES ASSUME TypeOK, Registered, Overlap, [Next]_vars PROVE Overlap'
    OBVIOUS
  <1>0. running \in BOOLEAN
    BY DEF TypeOK
  <1>1. CASE UNCHANGED <<batch, started, running>>
    BY <1>1 DEF Overlap, Live, Room
  <1>2. ASSUME TimerFires, handler # 0, ~running
        PROVE  Overlap'
    <2>1. PICK b \in BatchIds \ Live, t \in WakesOf(pending) :
              /\ batch' = [batch EXCEPT ![b] = Calling(PendingBatch, t)]
              /\ Calling(PendingBatch, t).runner = handler
      BY <1>2, TimerTakes
    <2>2. Live' = Live \cup {b}
      BY <1>2, <2>1 DEF Live, TypeOK
    <2>3. Cardinality(Live') = Cardinality(Live) + 1
      BY <2>1, <2>2, FinitelyMany, FS_AddElement
    <2>4. running' = TRUE /\ started' = started /\ started # {}
      BY <1>2 DEF TimerFires, runnerVars, Registered
    <2>. QED
      BY <1>2, <2>3, <2>4, FinitelyMany DEF Overlap, Room
  <1>3. ASSUME NEW b \in BatchIds, batch[b].current # NoTarget,
               batch'[b] = NoBatch, running' = FALSE, started' = started,
               \A c \in BatchIds : c # b => batch'[c] = batch[c]
        PROVE  Overlap'
    <2>1. b \in Live /\ Live' = Live \ {b}
      BY <1>3 DEF Live, TypeOK, NoBatch
    <2>2. Cardinality(Live') = Cardinality(Live) - 1
      BY <2>1, FinitelyMany, FS_RemoveElement
    <2>. QED
      BY <1>0, <1>3, <2>1, <2>2, FinitelyMany DEF Overlap, Room
  <1>4. ASSUME NEW b \in BatchIds, batch[b].current # NoTarget, started' = started,
               NEW ACTION wakes, NEW ACTION asked, NEW ACTION armed,
               GoOn(b, wakes, asked, armed)
        PROVE  Overlap'
    <2>1. CASE batch'[b] = NoBatch /\ running' = FALSE
      BY <1>3, <1>4, <2>1, BatchGoesOn
    <2>2. CASE batch'[b].runner = batch[b].runner /\ UNCHANGED running
      <3>1. \A c \in BatchIds : batch'[c].runner = batch[c].runner
        BY <1>4, <2>2, BatchGoesOn
      <3>2. Live' = Live
        BY <3>1 DEF Live
      <3>. QED
        BY <1>4, <2>2, <3>2 DEF Overlap, Room
    <2>. QED
      BY <1>4, <2>1, <2>2, BatchGoesOn
  <1>5. ASSUME NEW b \in BatchIds, CallAnswered(b) \/ CallBusy(b) \/ CallThrows(b)
        PROVE  Overlap'
    <2>1. CASE CallAnswered(b)
      BY <1>4, <2>1 DEF CallAnswered
    <2>2. CASE CallBusy(b)
      BY <1>4, <2>2 DEF CallBusy, runnerVars
    <2>3. CASE CallThrows(b)
      BY <1>3, <2>3 DEF CallThrows, EndBatch, TypeOK
    <2>. QED
      BY <1>5, <2>1, <2>2, <2>3
  <1>6. ASSUME NEW withAgents \in BOOLEAN, StartRunner(withAgents)
        PROVE  Overlap'
    <2>1. /\ started' = started \cup {generation + 1} /\ generation + 1 \notin started
          /\ running' = FALSE /\ batch' = batch
      BY <1>6, BoundAssumption DEF StartRunner, TypeOK
    <2>2. Cardinality(started') = Cardinality(started) + 1 /\ Live' = Live /\ started' # {}
      BY <2>1, FinitelyMany, FS_AddElement DEF Live
    <2>3. Cardinality({}) = 0
      BY FS_EmptySet
    <2>. QED
      BY <1>0, <2>1, <2>2, <2>3, FinitelyMany DEF Overlap, Room
  <1>7. \/ UNCHANGED <<batch, started, running>>
        \/ TimerFires /\ handler # 0 /\ ~running
        \/ \E b \in BatchIds : CallAnswered(b) \/ CallBusy(b) \/ CallThrows(b)
        \/ \E withAgents \in BOOLEAN : StartRunner(withAgents)
    BY DEF Next, vars, runnerVars, RequestHeartbeat, TimerFires, StopRunner, IntervalTick,
           UpdateConfig, SetHeartbeatsEnabled
  <1>. QED
    BY <1>1, <1>2, <1>5, <1>6, <1>7

-----------------------------------------------------------------------------
(* Requests *)

\* A request for target t of priority p is among these wakes, or waits in one
\* of these batches.
Kept(wakes, batches, t, p) ==
    \/ wakes[t] >= p
    \/ \E b \in BatchIds : /\ batches[b].runner # 0
                           /\ t \in batches[b].todo /\ batches[b].wakes[t] >= p

LEMMA KeptIsNoRequestLost ==
    /\ NoRequestLost <=>
         \A t \in Targets : owed[t] # NoWake => Kept(pending, batch, t, owed[t])
    /\ NoRequestLost' <=>
         \A t \in Targets : owed'[t] # NoWake => Kept(pending', batch', t, owed'[t])
  BY DEF NoRequestLost, Kept, Live

LEMMA RequestsInit == Init => NoRequestLost
  BY DEF Init, NoRequestLost, Nothing

\* A request that is made is pending afterwards; nobody else's is lost.
LEMMA RequestKept ==
    ASSUME TypeOK, NoRequestLost, NEW t \in Targets, NEW p \in Priorities, Request(t, p),
           UNCHANGED batch
    PROVE  NoRequestLost'
  <1>1. pending \in Wakes /\ owed \in Wakes /\ p \in Level
    BY DEF TypeOK, Level
  <1>. DEFINE one == Wake(t, p)
  <1>2. one \in Wakes
    BY <1>1, WakeIsOne
  <1>3. pending' = Queue(pending, one) /\ owed' = Queue(owed, one)
    BY DEF Request
  <1>. HIDE DEF one
  <1>4. ASSUME NEW u \in Targets, owed'[u] # NoWake
        PROVE  Kept(pending', batch', u, owed'[u])
    <2>1. /\ owed'[u] = owed[u] \/ owed'[u] = one[u]
          /\ pending'[u] >= pending[u] /\ pending'[u] >= one[u]
      BY <1>1, <1>2, <1>3, QueueKeepsHigher
    <2>2. /\ pending[u] \in Level /\ pending'[u] \in Level /\ one[u] \in Level
          /\ owed[u] \in Level /\ owed'[u] \in Level
      BY <1>1, <1>2, <1>3, QueueKeepsHigher DEF Wakes, Level
    <2>3. CASE owed'[u] = one[u]
      BY <2>1, <2>3 DEF Kept
    <2>4. CASE owed'[u] = owed[u]
      <3>1. Kept(pending, batch, u, owed[u]) /\ batch' = batch
        BY <1>4, <2>4, KeptIsNoRequestLost
      <3>. QED
        BY <2>1, <2>2, <2>4, <3>1 DEF Kept, Level, Priorities, NoWake
    <2>. QED
      BY <2>1, <2>3, <2>4
  <1>. QED
    BY <1>4, KeptIsNoRequestLost

\* The loop goes on with the wakes pending having grown, and with nothing owed
\* but what was owed or is pending now.
LEMMA GoOnKeeps ==
    ASSUME TypeOK, NoRequestLost, NEW b \in BatchIds, batch[b].current # NoTarget,
           NEW ACTION wakes, wakes \in Wakes, NEW ACTION asked, asked \in Wakes, NEW ACTION armed,
           GoOn(b, wakes, asked, armed), pending' = wakes,
           \A u \in Targets : wakes[u] >= pending[u],
           \A u \in Targets : asked[u] = owed[u] \/ wakes[u] >= asked[u]
    PROVE  NoRequestLost'
  <1>1. /\ batch[b] \in Batches /\ batch[b].runner # 0 /\ b \in Live
        /\ pending \in Wakes /\ owed \in Wakes
    BY DEF TypeOK, Live
  <1>2. \A c \in BatchIds : c # b => batch'[c] = batch[c]
    BY BatchGoesOn
  <1>3. ASSUME NEW u \in Targets
        PROVE  asked[u] = NoWake \/ wakes[u] >= asked[u] \/ (asked[u] = owed[u] /\ Kept(pending, batch, u, asked[u]))
    BY <1>3, KeptIsNoRequestLost
  <1>4. ASSUME NEW u \in Targets, NEW p \in Level, Kept(pending, batch, u, p), wakes[u] >= pending[u]
        PROVE  wakes[u] >= p \/ \E c \in Live : u \in batch[c].todo /\ batch[c].wakes[u] >= p
    <2>1. pending[u] \in Level /\ wakes[u] \in Level
      BY <1>1 DEF Wakes, Level
    <2>. QED
      BY <1>4, <2>1 DEF Kept, Live, Level, Priorities, NoWake
  <1>5. CASE batch[b].todo = {} /\ EndBatch(b, wakes, armed) /\ owed' = asked
    <2>1. ASSUME NEW u \in Targets, owed'[u] # NoWake
          PROVE  Kept(pending', batch', u, owed'[u])
      <3>1. owed'[u] \in Level
        BY <1>5 DEF Wakes, Level
      <3>2. wakes[u] >= owed'[u] \/ \E c \in Live : u \in batch[c].todo /\ batch[c].wakes[u] >= owed'[u]
        BY <1>3, <1>4, <1>5, <2>1, <3>1
      <3>3. CASE wakes[u] >= owed'[u]
        BY <3>3 DEF Kept
      <3>4. ASSUME NEW c \in Live, u \in batch[c].todo, batch[c].wakes[u] >= owed'[u]
            PROVE  Kept(pending', batch', u, owed'[u])
        <4>1. c # b /\ c \in BatchIds
          BY <1>5, <3>4 DEF Live
        <4>2. batch'[c] = batch[c] /\ c \in Live'
          BY <1>2, <3>4, <4>1 DEF Live
        <4>. QED
          BY <3>4, <4>1, <4>2 DEF Kept, Live
      <3>. QED
        BY <3>2, <3>3, <3>4
    <2>. QED
      BY <2>1, KeptIsNoRequestLost
  <1>6. ASSUME NEW t \in batch[b].todo,
               batch' = [batch EXCEPT ![b] = Calling(batch[b], t)],
               owed' = TakenOn(asked, batch[b].wakes, t)
        PROVE  NoRequestLost'
    <2>0. /\ t \in Targets
          /\ batch'[b].runner = batch[b].runner /\ batch'[b].wakes = batch[b].wakes
          /\ batch'[b].todo = batch[b].todo \ {t}
      <3>1. t \in Targets /\ batch'[b] = Calling(batch[b], t)
        BY <1>1, <1>6 DEF Batches, TypeOK
      <3>. QED
        BY <1>1, <3>1, CallingBegins
    <2>1. /\ owed' \in Wakes
          /\ \A u \in Targets : u # t => owed'[u] = asked[u]
          /\ owed'[t] = IF batch[b].wakes[t] >= asked[t] THEN NoWake ELSE asked[t]
      <3>1. batch[b].wakes \in Wakes
        BY <1>1 DEF Batches
      <3>2. batch[b].wakes[t] \in Level /\ NoWake \in Level
        BY <2>0, <3>1 DEF Wakes, Level
      <3>. QED
        BY <1>6, <2>0, <3>2 DEF TakenOn, Wakes, Level
    <2>2. ASSUME NEW u \in Targets, owed'[u] # NoWake
          PROVE  Kept(pending', batch', u, owed'[u])
      <3>1. owed'[u] \in Level /\ owed'[u] = asked[u]
        BY <2>1, <2>2 DEF Wakes, Level
      <3>2. wakes[u] >= owed'[u] \/ \E c \in Live : u \in batch[c].todo /\ batch[c].wakes[u] >= owed'[u]
        BY <1>3, <1>4, <2>2, <3>1
      <3>3. CASE wakes[u] >= owed'[u]
        BY <3>3 DEF Kept
      <3>4. ASSUME NEW c \in Live, u \in batch[c].todo, batch[c].wakes[u] >= owed'[u]
            PROVE  Kept(pending', batch', u, owed'[u])
        <4>1. c \in BatchIds /\ (c = b => u # t)
          BY <2>1, <2>2, <3>1, <3>4 DEF Live
        <4>2. CASE c # b
          BY <1>2, <3>4, <4>1, <4>2 DEF Kept, Live
        <4>3. CASE c = b
          BY <1>1, <2>0, <3>4, <4>1, <4>3 DEF Kept, Live
        <4>. QED
          BY <4>2, <4>3
      <3>. QED
        BY <3>2, <3>3, <3>4
    <2>. QED
      BY <2>2, KeptIsNoRequestLost
  <1>. QED
    BY <1>5, <1>6 DEF GoOn

LEMMA RequestsStep ==
    TypeOK /\ BatchesExact /\ NoRequestLost /\ [Next]_vars => NoRequestLost'
  <1>. SUFFICES ASSUME TypeOK, BatchesExact, NoRequestLost, [Next]_vars
                PROVE  NoRequestLost'
    OBVIOUS
  <1>0. pending \in Wakes /\ owed \in Wakes /\ batch \in [BatchIds -> Batches]
    BY DEF TypeOK
  <1>1. CASE UNCHANGED <<pending, batch, owed>>
    BY <1>1 DEF NoRequestLost, Live
  <1>2. ASSUME NEW t \in Targets, NEW p \in Priorities, Request(t, p), UNCHANGED batch
        PROVE  NoRequestLost'
    BY <1>2, RequestKept
  <1>3. CASE TimerFires /\ handler # 0 /\ ~running
    <2>1. PICK b \in BatchIds \ Live, t \in WakesOf(pending) :
              /\ batch' = [batch EXCEPT ![b] = Calling(PendingBatch, t)]
              /\ owed' = TakenOn(owed, pending, t)
              /\ t \in Targets
              /\ Calling(PendingBatch, t).runner = handler
              /\ Calling(PendingBatch, t).wakes = pending
              /\ Calling(PendingBatch, t).todo = WakesOf(pending) \ {t}
      BY <1>3, TimerTakes
    <2>2. /\ owed' \in Wakes
          /\ \A u \in Targets : u # t => owed'[u] = owed[u]
          /\ owed'[t] = IF pending[t] >= owed[t] THEN NoWake ELSE owed[t]
      <3>1. pending[t] \in Level /\ NoWake \in Level
        BY <1>0, <2>1 DEF Wakes, Level
      <3>. QED
        BY <1>0, <2>1, <3>1 DEF TakenOn, Wakes, Level
    <2>3. /\ batch'[b].runner # 0 /\ batch'[b].wakes = pending
          /\ batch'[b].todo = WakesOf(pending) \ {t}
          /\ \A c \in BatchIds : c # b => batch'[c] = batch[c]
      BY <1>0, <1>3, <2>1
    <2>4. ASSUME NEW u \in Targets, owed'[u] # NoWake
          PROVE  Kept(pending', batch', u, owed'[u])
      <3>1. owed'[u] = owed[u] /\ owed[u] \in Level /\ pending[u] \in Level
        BY <1>0, <2>2, <2>4 DEF Wakes, Level
      <3>2. Kept(pending, batch, u, owed[u])
        BY <2>4, <3>1, KeptIsNoRequestLost
      <3>3. CASE pending[u] >= owed[u]
        <4>1. u # t
          BY <2>2, <2>4, <3>3
        <4>2. u \in WakesOf(pending)
          BY <2>4, <3>1, <3>3 DEF WakesOf, Level, Priorities, NoWake
        <4>. QED
          BY <2>1, <2>3, <3>1, <3>3, <4>1, <4>2 DEF Kept
      <3>4. ASSUME NEW c \in BatchIds, batch[c].runner # 0,
                   u \in batch[c].todo, batch[c].wakes[u] >= owed[u]
            PROVE  Kept(pending', batch', u, owed'[u])
        <4>1. batch'[c] = batch[c]
          BY <2>1, <2>3, <3>4 DEF Live
        <4>. QED
          BY <3>1, <3>4, <4>1 DEF Kept
      <3>. QED
        BY <3>2, <3>3, <3>4 DEF Kept
    <2>. QED
      BY <2>4, KeptIsNoRequestLost
  <1>4. ASSUME NEW b \in BatchIds, CallAnswered(b)
        PROVE  NoRequestLost'
    <2>1. \A u \in Targets : pending[u] >= pending[u]
      BY <1>0 DEF Wakes, Priorities, NoWake
    <2>. QED
      BY <1>0, <1>4, <2>1, GoOnKeeps DEF CallAnswered
  <1>5. ASSUME NEW b \in BatchIds, batch[b].current # NoTarget,
               NEW put \in Wakes, put[batch[b].current] = batch[b].wakes[batch[b].current],
               pending' = Queue(pending, put)
        PROVE  /\ OwedAgain(b) \in Wakes /\ pending' \in Wakes
               /\ \A u \in Targets : pending'[u] >= pending[u]
               /\ \A u \in Targets : OwedAgain(b)[u] = owed[u] \/ pending'[u] >= OwedAgain(b)[u]
    <2>. DEFINE c == batch[b].current
    <2>1. /\ batch[b] \in Batches /\ c \in Targets /\ batch[b].wakes[c] \in Level
          /\ OwedAgain(b) \in Wakes
          /\ \A u \in Targets : u # c => OwedAgain(b)[u] = owed[u]
          /\ OwedAgain(b)[c] = Higher(owed[c], batch[b].serves)
      BY <1>5, OwedAgainType
    <2>2. /\ pending' \in Wakes
          /\ \A u \in Targets : pending'[u] >= pending[u] /\ pending'[u] >= put[u]
      BY <1>0, <1>5, QueueKeepsHigher
    <2>3. batch[b].serves <= batch[b].wakes[c] /\ batch[b].serves \in Level
      BY <1>5, <2>1 DEF BatchesExact, Exact, Live, TypeOK, Batches, Level
    <2>4. pending'[c] >= batch[b].wakes[c] /\ pending'[c] \in Level
      BY <1>5, <2>1, <2>2 DEF Wakes, Level
    <2>5. OwedAgain(b)[c] = owed[c] \/ pending'[c] >= OwedAgain(b)[c]
      BY <2>1, <2>3, <2>4 DEF Higher, Level, Priorities, NoWake
    <2>. QED
      BY <2>1, <2>2, <2>5
  <1>6. ASSUME NEW b \in BatchIds, CallBusy(b)
        PROVE  NoRequestLost'
    <2>. DEFINE c == batch[b].current
                put == Wake(c, batch[b].wakes[c])
    <2>1. c \in Targets /\ batch[b].wakes[c] \in Level /\ c # NoTarget
      BY <1>6, OwedAgainType DEF CallBusy
    <2>2. put \in Wakes /\ put[c] = batch[b].wakes[c] /\ pending' = Queue(pending, put)
      BY <1>6, <2>1, WakeIsOne DEF CallBusy
    <2>. HIDE DEF put
    <2>3. /\ OwedAgain(b) \in Wakes /\ pending' \in Wakes
          /\ \A u \in Targets : pending'[u] >= pending[u]
          /\ \A u \in Targets : OwedAgain(b)[u] = owed[u] \/ pending'[u] >= OwedAgain(b)[u]
      BY <1>5, <2>1, <2>2
    <2>4. PICK armed \in Schedule(timer, "retry") : GoOn(b, pending', OwedAgain(b), armed)
      BY <1>6 DEF CallBusy
    <2>. QED
      BY <2>1, <2>3, <2>4, GoOnKeeps
  <1>7. ASSUME NEW b \in BatchIds, CallThrows(b)
        PROVE  NoRequestLost'
    <2>1. batch[b].current # NoTarget /\ batch[b].wakes \in Wakes
      BY <1>0, <1>7 DEF CallThrows, Batches
    <2>2. /\ pending' = Queue(pending, batch[b].wakes) /\ owed' = OwedAgain(b)
          /\ batch' = [batch EXCEPT ![b] = NoBatch]
      BY <1>7 DEF CallThrows, EndBatch
    <2>3. /\ owed' \in Wakes /\ pending' \in Wakes
          /\ \A u \in Targets : pending'[u] >= pending[u]
          /\ \A u \in Targets : owed'[u] = owed[u] \/ pending'[u] >= owed'[u]
      BY <1>5, <2>1, <2>2
    <2>4. \A u \in Targets : pending'[u] >= batch[b].wakes[u]
      BY <1>0, <2>1, <2>2, QueueKeepsHigher
    <2>5. ASSUME NEW u \in Targets, owed'[u] # NoWake
          PROVE  Kept(pending', batch', u, owed'[u])
      <3>1. /\ owed'[u] \in Level /\ pending'[u] \in Level /\ pending[u] \in Level
            /\ batch[b].wakes[u] \in Level
        BY <1>0, <2>1, <2>3 DEF Wakes, Level
      <3>2. CASE pending'[u] >= owed'[u]
        BY <3>2 DEF Kept
      <3>3. CASE owed'[u] = owed[u]
        <4>1. Kept(pending, batch, u, owed'[u])
          BY <2>5, <3>3, KeptIsNoRequestLost
        <4>2. CASE pending[u] >= owed'[u]
          BY <2>3, <3>1, <4>2 DEF Kept, Level, Priorities, NoWake
        <4>3. ASSUME NEW c \in BatchIds, batch[c].runner # 0,
                     u \in batch[c].todo, batch[c].wakes[u] >= owed'[u]
              PROVE  Kept(pending', batch', u, owed'[u])
          <5>1. CASE c = b
            BY <2>4, <3>1, <4>3, <5>1 DEF Kept, Level, Priorities, NoWake
          <5>2. CASE c # b
            BY <1>0, <2>2, <4>3, <5>2 DEF Kept
          <5>. QED
            BY <5>1, <5>2
        <4>. QED
          BY <4>1, <4>2, <4>3 DEF Kept
      <3>. QED
        BY <2>3, <3>2, <3>3
    <2>. QED
      BY <2>5, KeptIsNoRequestLost
  <1>8. \/ UNCHANGED <<pending, batch, owed>>
        \/ UNCHANGED batch /\ \E t \in Targets, p \in RequestPriorities : Request(t, p)
        \/ UNCHANGED batch /\ Request(Broadcast, INTERVAL)
        \/ TimerFires /\ handler # 0 /\ ~running
        \/ \E b \in BatchIds : CallAnswered(b) \/ CallBusy(b) \/ CallThrows(b)
    BY DEF Next, vars, RequestHeartbeat, TimerFires, StartRunner, StopRunner, IntervalTick,
           UpdateConfig, SetHeartbeatsEnabled
  <1>9. INTERVAL \in Priorities /\ Broadcast \in Targets /\ RequestPriorities \subseteq Priorities
    BY BroadcastAssumption, PriorityAssumption DEF INTERVAL, Priorities
  <1>. QED
    BY <1>1, <1>2, <1>3, <1>4, <1>6, <1>7, <1>8, <1>9

-----------------------------------------------------------------------------
(* The chain of heartbeats *)

\* A heartbeat of all agents is due to reach runner r through this batch, by a
\* call that does not find heartbeats off.
Carries(x, r) ==
    x.runner = r /\ (Broadcast \in x.todo \/ (x.current = Broadcast /\ ~x.gated))
GoesOn(r) ==
    \/ r \in tick
    \/ pending[Broadcast] # NoWake
    \/ \E b \in BatchIds : Carries(batch[b], r)
Chained == \A r \in configured : handler = r /\ enabled => GoesOn(r)

LEMMA ChainedInit == Init => Chained
  BY DEF Init, Chained

\* Merging never removes a pending wake.
LEMMA StaysPending ==
    ASSUME NEW w \in Wakes, NEW m \in Wakes, NEW t \in Targets, w[t] # NoWake \/ m[t] # NoWake
    PROVE  Queue(w, m)[t] # NoWake
  BY QueueAddsWakes DEF WakesOf

\* The batch that goes on carries what it carried, unless the call that ended
\* was the heartbeat of all agents.
LEMMA GoOnCarries ==
    ASSUME TypeOK, NEW b \in BatchIds, batch[b].current # NoTarget,
           NEW ACTION wakes, NEW ACTION asked, NEW ACTION armed,
           GoOn(b, wakes, asked, armed),
           NEW r \in configured \ stopped, enabled,
           NEW c \in BatchIds, Carries(batch[c], r),
           c = b => batch[b].current # Broadcast
    PROVE  Carries(batch'[c], r)
  <1>1. CASE c # b
    BY <1>1, BatchGoesOn
  <1>2. CASE c = b
    <2>1. batch[b].runner = r /\ Broadcast \in batch[b].todo
      BY <1>2 DEF Carries
    <2>2. PICK t \in batch[b].todo :
             /\ batch'[b].runner = batch[b].runner
             /\ batch'[b].todo = batch[b].todo \ {t}
             /\ batch'[b].current = t
             /\ batch'[b].gated <=> (\/ batch[b].runner \in stopped
                                     \/ ~enabled
                                     \/ batch[b].runner \notin configured)
      BY <2>1, BatchGoesOn
    <2>. QED
      BY <1>2, <2>1, <2>2 DEF Carries
  <1>. QED
    BY <1>1, <1>2

LEMMA ChainedStep ==
    ASSUME TRUE \notin Switches
    PROVE  TypeOK /\ Registered /\ BatchesExact /\ Chained /\ [Next]_vars => Chained'
  <1>. SUFFICES ASSUME TypeOK, Registered, BatchesExact, Chained, [Next]_vars
                PROVE  Chained'
    OBVIOUS
  <1>0. /\ pending \in Wakes /\ batch \in [BatchIds -> Batches] /\ timer \in Kinds
        /\ configured \subseteq started /\ started \subseteq 1..generation
        /\ handler # 0 => handler \notin stopped
        /\ generation \in Nat
        /\ Broadcast \in Targets /\ NoTarget \notin Targets
    BY BroadcastAssumption, BoundAssumption DEF TypeOK, Registered, Kinds
  <1>1. CASE UNCHANGED <<configured, handler, enabled, tick, pending, batch>>
    BY <1>1 DEF Chained, GoesOn
  <1>2. ASSUME NEW t \in Targets, NEW p \in RequestPriorities, RequestHeartbeat(t, p)
        PROVE  Chained'
    <2>. DEFINE one == Wake(t, p)
    <2>1. one \in Wakes /\ pending' = Queue(pending, one)
      BY <1>2, WakeIsOne, PriorityAssumption DEF RequestHeartbeat, Request, Level
    <2>. HIDE DEF one
    <2>2. pending[Broadcast] # NoWake => pending'[Broadcast] # NoWake
      BY <1>0, <2>1, StaysPending
    <2>3. UNCHANGED <<configured, handler, enabled, tick, batch>>
      BY <1>2 DEF RequestHeartbeat, runnerVars, registration
    <2>. QED
      BY <2>2, <2>3 DEF Chained, GoesOn
  <1>3. CASE TimerFires /\ handler # 0 /\ ~running
    <2>1. PICK b \in BatchIds \ Live, t \in WakesOf(pending) :
              /\ batch' = [batch EXCEPT ![b] = Calling(PendingBatch, t)]
              /\ Calling(PendingBatch, t).runner = handler
              /\ Calling(PendingBatch, t).todo = WakesOf(pending) \ {t}
              /\ Calling(PendingBatch, t).current = t
              /\ Calling(PendingBatch, t).gated <=> (\/ handler \in stopped
                                                     \/ ~enabled
                                                     \/ handler \notin configured)
      BY <1>3, TimerTakes
    <2>2. UNCHANGED <<configured, handler, enabled, tick>>
      BY <1>3 DEF TimerFires, runnerVars, registration
    <2>3. /\ \A c \in BatchIds : c # b => batch'[c] = batch[c]
          /\ batch'[b] = Calling(PendingBatch, t)
      BY <1>0, <2>1
    <2>4. ASSUME NEW r \in configured, handler = r, enabled
          PROVE  GoesOn(r)'
      <3>1. GoesOn(r) /\ r # 0
        BY <1>3, <2>4 DEF Chained
      <3>2. CASE r \in tick
        BY <2>2, <3>2 DEF GoesOn
      <3>3. CASE pending[Broadcast] # NoWake
        <4>1. Broadcast \in WakesOf(pending)
          BY <1>0, <3>3 DEF WakesOf
        <4>2. Carries(batch'[b], r)
          BY <1>0, <2>1, <2>3, <2>4, <3>1, <4>1 DEF Carries
        <4>. QED
          BY <2>1, <4>2 DEF GoesOn
      <3>4. ASSUME NEW c \in BatchIds, Carries(batch[c], r)
            PROVE  GoesOn(r)'
        <4>1. c # b
          BY <2>1, <3>1, <3>4 DEF Carries, Live
        <4>. QED
          BY <2>3, <3>4, <4>1 DEF GoesOn
      <3>. QED
        BY <3>1, <3>2, <3>3, <3>4 DEF GoesOn
    <2>. QED
      BY <2>2, <2>4 DEF Chained
  <1>4. ASSUME NEW b \in BatchIds, CallAnswered(b)
        PROVE  Chained'
    <2>1. /\ batch[b].current # NoTarget /\ UNCHANGED <<configured, handler, enabled, pending>>
          /\ tick' = IF batch[b].gated THEN tick ELSE ScheduleNext(batch[b].runner)
      BY <1>4 DEF CallAnswered, registration
    <2>2. ASSUME NEW r \in configured, handler = r, enabled
          PROVE  GoesOn(r)'
      <3>1. GoesOn(r) /\ r \notin stopped
        BY <1>0, <2>2 DEF Chained
      <3>2. CASE r \in tick
        BY <2>1, <2>2, <3>1, <3>2 DEF GoesOn, ScheduleNext
      <3>3. CASE pending[Broadcast] # NoWake
        BY <2>1, <3>3 DEF GoesOn
      <3>4. ASSUME NEW c \in BatchIds, Carries(batch[c], r)
            PROVE  GoesOn(r)'
        <4>1. CASE c = b /\ batch[b].current = Broadcast /\ ~batch[b].gated
          BY <2>1, <2>2, <3>1, <3>4, <4>1 DEF GoesOn, ScheduleNext, Carries
        <4>2. CASE c = b /\ Broadcast \in batch[b].todo /\ batch[b].gated
          <5>1. PICK t \in batch[b].todo :
                   /\ batch'[b].runner = batch[b].runner
                   /\ batch'[b].todo = batch[b].todo \ {t}
                   /\ batch'[b].current = t
                   /\ batch'[b].gated <=> (\/ batch[b].runner \in stopped
                                           \/ ~enabled
                                           \/ batch[b].runner \notin configured)
            BY <1>4, <2>1, <4>2, BatchGoesOn DEF CallAnswered
          <5>. QED
            BY <2>2, <3>1, <3>4, <4>2, <5>1 DEF GoesOn, Carries
        <4>3. CASE c = b /\ ~batch[b].gated
          BY <2>1, <2>2, <3>1, <3>4, <4>3 DEF GoesOn, ScheduleNext, Carries
        <4>4. CASE c # b
          BY <1>4, <2>1, <2>2, <3>1, <3>4, <4>4, GoOnCarries DEF GoesOn, CallAnswered
        <4>. QED
          BY <3>4, <4>1, <4>2, <4>3, <4>4 DEF Carries
      <3>. QED
        BY <3>1, <3>2, <3>3, <3>4 DEF GoesOn
    <2>. QED
      BY <2>1, <2>2 DEF Chained
  <1>5. ASSUME NEW b \in BatchIds, CallBusy(b)
        PROVE  Chained'
    <2>. DEFINE d == batch[b].current
                put == Wake(d, batch[b].wakes[d])
    <2>1. d \in Targets /\ batch[b].wakes[d] \in Level /\ d # NoTarget
      BY <1>5, OwedAgainType DEF CallBusy
    <2>2. put \in Wakes /\ put[d] = batch[b].wakes[d] /\ pending' = Queue(pending, put)
      BY <1>5, <2>1, WakeIsOne DEF CallBusy
    <2>3. put[d] # NoWake
      BY <2>1, <2>2 DEF BatchesExact, Exact, Live, TypeOK, WakesOf
    <2>. HIDE DEF put
    <2>4. /\ pending[Broadcast] # NoWake => pending'[Broadcast] # NoWake
          /\ d = Broadcast => pending'[Broadcast] # NoWake
      BY <1>0, <2>2, <2>3, StaysPending
    <2>5. PICK armed \in Schedule(timer, "retry") : GoOn(b, pending', OwedAgain(b), armed)
      BY <1>5 DEF CallBusy
    <2>6. UNCHANGED <<configured, handler, enabled, tick>>
      BY <1>5 DEF CallBusy, runnerVars, registration
    <2>7. ASSUME NEW r \in configured, handler = r, enabled
          PROVE  GoesOn(r)'
      <3>1. GoesOn(r) /\ r \notin stopped
        BY <1>0, <2>7 DEF Chained
      <3>2. CASE d = Broadcast \/ r \in tick \/ pending[Broadcast] # NoWake
        BY <2>4, <2>6, <3>2 DEF GoesOn
      <3>3. ASSUME NEW c \in BatchIds, Carries(batch[c], r), d # Broadcast
            PROVE  GoesOn(r)'
        <4>1. Carries(batch'[c], r)
          BY <2>1, <2>5, <2>7, <3>1, <3>3, GoOnCarries
        <4>. QED
          BY <4>1 DEF GoesOn
      <3>. QED
        BY <3>1, <3>2, <3>3 DEF GoesOn
    <2>. QED
      BY <2>6, <2>7 DEF Chained
  <1>6. ASSUME NEW b \in BatchIds, CallThrows(b)
        PROVE  Chained'
    <2>1. /\ batch[b].wakes \in Wakes /\ batch[b].todo \subseteq WakesOf(batch[b].wakes)
          /\ batch[b].current \in WakesOf(batch[b].wakes)
      BY <1>0, <1>6 DEF CallThrows, Batches, BatchesExact, Exact, Live, TypeOK
    <2>2. /\ pending' = Queue(pending, batch[b].wakes)
          /\ batch' = [batch EXCEPT ![b] = NoBatch]
          /\ tick' = ScheduleNext(batch[b].runner)
          /\ UNCHANGED <<configured, handler, enabled>>
      BY <1>6 DEF CallThrows, EndBatch, registration
    <2>3. ASSUME NEW r \in configured, handler = r, enabled
          PROVE  GoesOn(r)'
      <3>1. GoesOn(r) /\ r \notin stopped
        BY <1>0, <2>3 DEF Chained
      <3>2. CASE r \in tick
        BY <2>2, <2>3, <3>1, <3>2 DEF GoesOn, ScheduleNext
      <3>3. CASE pending[Broadcast] # NoWake
        BY <1>0, <2>1, <2>2, <3>3, StaysPending DEF GoesOn
      <3>4. ASSUME NEW c \in BatchIds, Carries(batch[c], r)
            PROVE  GoesOn(r)'
        <4>1. CASE c = b
          <5>1. Broadcast \in WakesOf(batch[b].wakes)
            BY <2>1, <3>4, <4>1 DEF Carries
          <5>2. pending'[Broadcast] # NoWake
            BY <1>0, <2>1, <2>2, <5>1, StaysPending DEF WakesOf
          <5>. QED
            BY <5>2 DEF GoesOn
        <4>2. CASE c # b
          BY <1>0, <2>2, <3>4, <4>2 DEF GoesOn
        <4>. QED
          BY <4>1, <4>2
      <3>. QED
        BY <3>1, <3>2, <3>3, <3>4 DEF GoesOn
    <2>. QED
      BY <2>2, <2>3 DEF Chained
  <1>7. ASSUME NEW withAgents \in BOOLEAN, StartRunner(withAgents)
        PROVE  Chained'
    <2>1. /\ handler' = generation + 1 /\ enabled' = enabled
          /\ configured' = IF withAgents THEN configured \cup {generation + 1} ELSE configured
          /\ tick' = IF withAgents THEN tick \cup {generation + 1} ELSE tick
      BY <1>7 DEF StartRunner
    <2>2. generation + 1 \notin configured
      BY <1>0
    <2>. QED
      BY <2>1, <2>2 DEF Chained, GoesOn
  <1>8. ASSUME NEW r \in Generations, StopRunner(r)
        PROVE  Chained'
    <2>1. /\ UNCHANGED <<configured, enabled, pending, batch>> /\ tick' = tick \ {r}
          /\ \/ handler' = 0
             \/ handler' = handler /\ handler # r
      <3>1. handler # 0 => handler = generation
        BY DEF Registered
      <3>. QED
        BY <1>8, <3>1 DEF StopRunner, registration, Generations
    <2>2. 0 \notin configured
      BY <1>0
    <2>. QED
      BY <2>1, <2>2 DEF Chained, GoesOn
  <1>9. ASSUME NEW r \in Generations, IntervalTick(r)
        PROVE  Chained'
    <2>. DEFINE one == Wake(Broadcast, INTERVAL)
    <2>1. INTERVAL \in Level /\ INTERVAL # NoWake
      BY DEF INTERVAL, Level, Priorities, NoWake
    <2>2. one \in Wakes /\ one[Broadcast] # NoWake /\ pending' = Queue(pending, one)
      BY <1>0, <1>9, <2>1, WakeIsOne DEF IntervalTick, Request
    <2>. HIDE DEF one
    <2>3. pending'[Broadcast] # NoWake
      BY <1>0, <2>2, StaysPending
    <2>. QED
      BY <2>3 DEF Chained, GoesOn
  <1>10. ASSUME NEW r \in Generations, NEW withAgents \in BOOLEAN, UpdateConfig(r, withAgents)
         PROVE  Chained'
    BY <1>10 DEF UpdateConfig, Chained, GoesOn, registration
  <1>11. ASSUME NEW to \in Switches, SetHeartbeatsEnabled(to)
         PROVE  Chained'
    <2>1. enabled' = FALSE
      BY <1>11, SwitchAssumption DEF SetHeartbeatsEnabled
    <2>. QED
      BY <2>1 DEF Chained
  <1>12. \/ UNCHANGED <<configured, handler, enabled, tick, pending, batch>>
         \/ TimerFires /\ handler # 0 /\ ~running
         \/ \E t \in Targets, p \in RequestPriorities : RequestHeartbeat(t, p)
         \/ \E b \in BatchIds : CallAnswered(b) \/ CallBusy(b) \/ CallThrows(b)
         \/ \E withAgents \in BOOLEAN : StartRunner(withAgents)
         \/ \E r \in Generations : StopRunner(r) \/ IntervalTick(r)
         \/ \E r \in Generations, withAgents \in BOOLEAN : UpdateConfig(r, withAgents)
         \/ \E to \in Switches : SetHeartbeatsEnabled(to)
    BY DEF Next, vars, TimerFires, runnerVars, registration
  <1>. QED
    BY <1>1, <1>2, <1>3, <1>4, <1>5, <1>6, <1>7, <1>8, <1>9, <1>10, <1>11, <1>12

-----------------------------------------------------------------------------
(* The theorems *)

IInv == TypeOK /\ BatchesExact /\ Registered /\ TimersExact /\ Overlap /\ NoRequestLost

\* The inductive invariant: the batches hold wakes for what they call and serve no
\* more than that, the registration is the newest, and the properties themselves.
THEOREM Inductive == Spec => []IInv
  <1>1. Init => IInv
    BY TypeInit, BatchesInit, RegisteredInit, TimersInit, OverlapInit, RequestsInit DEF IInv
  <1>2. IInv /\ [Next]_vars => IInv'
    BY TypeStep, BatchesStep, RegisteredStep, TimersStep, OverlapStep, RequestsStep DEF IInv
  <1>. QED
    BY <1>1, <1>2, PTL DEF Spec

\* Every armed timer has a wake to take, and with a handler registered every
\* pending wake has a timer: the wake layer neither spins nor stalls.
THEOREM AlwaysTimed == Spec => [](TimersHaveWork /\ WakesAreAwaited)
  <1>1. IInv => TimersHaveWork /\ WakesAreAwaited
    BY DEF IInv, TimersExact
  <1>. QED
    BY <1>1, Inductive, PTL

\* A request stays pending or in a batch, with its priority, until a call takes
\* it on, across merges, busy and failed calls and changes of the handler.
THEOREM NeverLosesRequests == Spec => []NoRequestLost
  <1>1. IInv => NoRequestLost
    BY DEF IInv
  <1>. QED
    BY <1>1, Inductive, PTL

\* `running` is reset when a runner starts, and by a batch of an earlier runner
\* when it ends, so batches may overlap: as many as runners were started, and
\* never with a single runner.
OverlapBounded == Cardinality(Live) <= Cardinality(started)

\* There are never more batches under way than runners were started.
THEOREM AlwaysOverlapBounded == Spec => []OverlapBounded
  <1>1. IInv => OverlapBounded
    <2>1. Cardinality({}) = 0
      BY FS_EmptySet
    <2>2. TypeOK /\ Overlap => OverlapBounded
      <3>. SUFFICES ASSUME TypeOK, Overlap PROVE Cardinality(Live) <= Cardinality(started)
        BY DEF OverlapBounded
      <3>1. Cardinality(Live) \in Nat /\ Cardinality(started) \in Nat /\ Room \in 0..1
        BY FinitelyMany DEF Room
      <3>2. CASE started = {}
        BY <2>1, <3>2 DEF Overlap
      <3>3. CASE started # {}
        BY <3>1, <3>3 DEF Overlap
      <3>. QED
        BY <3>2, <3>3
    <2>. QED
      BY <2>2 DEF IInv
  <1>. QED
    BY <1>1, Inductive, PTL

\* As long as heartbeats are never switched on again, the registered runner's
\* interval timer is armed or its next heartbeat is outstanding.
THEOREM HeartbeatsNeverStop ==
    ASSUME TRUE \notin Switches
    PROVE  Spec => []HeartbeatsGoOn
  <1>1. Init => Chained
    BY ChainedInit
  <1>2. IInv /\ Chained /\ [Next]_vars => Chained'
    BY ChainedStep DEF IInv
  <1>3. IInv /\ Chained => HeartbeatsGoOn
    BY DEF Chained, GoesOn, Carries, HeartbeatsGoOn, Outstanding
  <1>. QED
    BY <1>1, <1>2, <1>3, Inductive, PTL DEF Spec

==============================================================================
