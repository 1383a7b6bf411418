---------------------------- MODULE CommandQueue ----------------------------
(***************************************************************************)
(* The in-process, lane-aware command queue of the gateway                 *)
(* (src/src/process/command-queue.ts).  JavaScript runs one function at a  *)
(* time, so every exported function is one action, and so is each         *)
(* continuation the event loop runs later: the end of a task's body, the   *)
(* task-timeout timer, the code after `await runQueueEntryTask`, and a     *)
(* waiter's timer.  The flag LaneState.draining is TRUE only while pump()  *)
(* runs, hence FALSE between any two actions, and has no variable.         *)
(***************************************************************************)
EXTENDS Integers, Sequences, FiniteSets

CONSTANTS
    Tasks,          \* the commands that callers may submit, each once
    Lanes,          \* normalized lane names
    DefaultLane,    \* CommandLane.Main
    ProbeLanes,     \* lanes named "auth-probe:..." or "session:probe-..."
    Waiters,        \* calls of waitForActiveTasks
    CapRequests,    \* the arguments of setCommandLaneConcurrency
    Priorities,     \* background -1, normal 0, foreground 1
    MaxGeneration   \* bound on the number of resets of one lane

ASSUME CommandQueueAssumption ==
    /\ DefaultLane \in Lanes
    /\ ProbeLanes \subseteq Lanes
    /\ CapRequests \subseteq Int
    /\ Priorities \subseteq Int
    /\ 0 \in Priorities
    /\ MaxGeneration \in Nat

VARIABLES
    queue,              \* LaneState.queue: the entries not yet started
    active,             \* LaneState.activeTaskIds: the occupied slots
    maxConcurrent,      \* LaneState.maxConcurrent
    generation,         \* LaneState.generation
    gatewayDraining,    \* the gateway refuses new work
    nextQueueSequence,  \* the sequence number of the next entry
    entry,              \* the QueueEntry of each submitted task
    status,             \* where the task stands, as its caller's promise sees it
    outcome,            \* what won Promise.race in runQueueEntryTask
    body,               \* the task's own code
    taskGeneration,     \* the lane generation captured when the task started
    waiter              \* ActiveTaskWaiter records and their answers

laneVars == <<queue, active, maxConcurrent, generation>>
taskVars == <<entry, status, outcome, body, taskGeneration>>
vars == <<queue, active, maxConcurrent, generation, gatewayDraining,
          nextQueueSequence, entry, status, outcome, body, taskGeneration, waiter>>

QueueEntry == [lane : Lanes, priority : Priorities, timed : BOOLEAN, sequence : Nat]

Status == {"new", "queued", "started",
           "resolved", "rejected", "timedOut",  \* settled after a start
           "cleared", "refused"}                \* CommandLaneClearedError, GatewayDrainingError

ActiveTaskWaiter ==
    [answer : {"none", "pending", "drained", "expired"}, ids : SUBSET Tasks, timed : BOOLEAN]

TypeOK ==
    /\ queue \in [Lanes -> Seq(Tasks)]
    /\ active \in [Lanes -> SUBSET Tasks]
    /\ maxConcurrent \in [Lanes -> Nat]
    /\ generation \in [Lanes -> Nat]
    /\ gatewayDraining \in BOOLEAN
    /\ nextQueueSequence \in Nat \ {0}
    /\ entry \in [Tasks -> QueueEntry]
    /\ status \in [Tasks -> Status]
    /\ outcome \in [Tasks -> {"none", "ok", "err", "timeout"}]
    /\ body \in [Tasks -> {"idle", "running", "ended"}]
    /\ taskGeneration \in [Tasks -> Nat]
    /\ waiter \in [Waiters -> ActiveTaskWaiter]

Init ==
    /\ queue = [l \in Lanes |-> <<>>]
    /\ active = [l \in Lanes |-> {}]
    /\ maxConcurrent = [l \in Lanes |-> 1]
    /\ generation = [l \in Lanes |-> 0]
    /\ gatewayDraining = FALSE
    /\ nextQueueSequence = 1
    /\ entry = [t \in Tasks |->
                  [lane |-> DefaultLane, priority |-> 0, timed |-> FALSE, sequence |-> 0]]
    /\ status = [t \in Tasks |-> "new"]
    /\ outcome = [t \in Tasks |-> "none"]
    /\ body = [t \in Tasks |-> "idle"]
    /\ taskGeneration = [t \in Tasks |-> 0]
    /\ waiter = [w \in Waiters |-> [answer |-> "none", ids |-> {}, timed |-> FALSE]]

-----------------------------------------------------------------------------
(***************************************************************************)
(* The order of a lane: higher priority first, then submission order.      *)
(***************************************************************************)
Precedes(e, f) ==
    \/ e.priority > f.priority
    \/ e.priority = f.priority /\ e.sequence < f.sequence

\* The first index of q whose entry the new entry e overtakes, or the end.
InsertIndex(q, e) ==
    LET overtaken == {i \in 1..Len(q) : Precedes(e, entry[q[i]])}
    IN  IF overtaken = {} THEN Len(q) + 1
        ELSE CHOOSE i \in overtaken : \A j \in overtaken : i <= j

\* Mutant: entries are pushed at the end, whatever their priority.
EnqueueAtEnd(q, t, e) == q \o <<t>>

EnqueueLaneEntry(q, t, e) ==
    SubSeq(q, 1, InsertIndex(q, e) - 1) \o <<t>> \o SubSeq(q, InsertIndex(q, e), Len(q))

\* Mutant: pump() tests activeTaskIds.size <= maxConcurrent.
StartCountOffByOne(q, held, cap) ==
    LET free == IF cap >= Cardinality(held) THEN cap - Cardinality(held) + 1 ELSE 0
    IN  IF free < Len(q) THEN free ELSE Len(q)

(***************************************************************************)
(* pump(): start entries from the head while the lane has a free slot.     *)
(***************************************************************************)
StartCount(q, held, cap) ==
    LET free == IF cap > Cardinality(held) THEN cap - Cardinality(held) ELSE 0
    IN  IF free < Len(q) THEN free ELSE Len(q)

Prefix(q, n) == {q[i] : i \in 1..n}

(***************************************************************************)
(* drainLane on each of the lanes ls, for a call that has just made the    *)
(* queues q, the occupied slots held, the caps cap, the generations gen    *)
(* and the statuses st.                                                    *)
(***************************************************************************)
StartCounts(ls, q, held, cap) ==
    [l \in Lanes |-> IF l \in ls THEN StartCount(q[l], held[l], cap[l]) ELSE 0]

StartedBy(q, n) == UNION {Prefix(q[l], n[l]) : l \in Lanes}

DrainLanes(ls, q, held, cap, gen, st) ==
    LET n == StartCounts(ls, q, held, cap)
        started == StartedBy(q, n)
    IN  /\ queue' = [l \in Lanes |-> SubSeq(q[l], n[l] + 1, Len(q[l]))]
        /\ active' = [l \in Lanes |-> held[l] \cup Prefix(q[l], n[l])]
        /\ status' = [t \in Tasks |-> IF t \in started THEN "started" ELSE st[t]]
        /\ body' = [t \in Tasks |-> IF t \in started THEN "running" ELSE body[t]]
        /\ taskGeneration' =
              [t \in Tasks |-> IF t \in started THEN gen[entry'[t].lane] ELSE taskGeneration[t]]

ActiveIds(held) == UNION {held[l] : l \in Lanes}

\* notifyActiveTaskWaiters(): answer each waiter none of whose tasks is active.
Notified(held) ==
    [w \in Waiters |->
        IF waiter[w].answer = "pending" /\ waiter[w].ids \cap ActiveIds(held) = {}
        THEN [waiter[w] EXCEPT !.answer = "drained"]
        ELSE waiter[w]]

-----------------------------------------------------------------------------
(***************************************************************************)
(* Submitting work.                                                        *)
(***************************************************************************)
EnqueueCommandInLane(t, l, p, timed) ==
    /\ status[t] = "new"
    /\ ~gatewayDraining
    /\ LET e == [lane |-> l, priority |-> p, timed |-> timed, sequence |-> nextQueueSequence]
       IN  /\ entry' = [entry EXCEPT ![t] = e]
           /\ DrainLanes({l}, [queue EXCEPT ![l] = EnqueueLaneEntry(queue[l], t, e)], active,
                         maxConcurrent, generation, [status EXCEPT ![t] = "queued"])
    /\ nextQueueSequence' = nextQueueSequence + 1
    /\ UNCHANGED <<maxConcurrent, generation, gatewayDraining, outcome, waiter>>

RefuseWhileDraining(t) ==
    /\ status[t] = "new"
    /\ gatewayDraining
    /\ status' = [status EXCEPT ![t] = "refused"]
    /\ UNCHANGED <<laneVars, gatewayDraining, nextQueueSequence,
                   entry, outcome, body, taskGeneration, waiter>>

(***************************************************************************)
(* Running it.  A body may end after its timeout has already won the race; *)
(* then only its own code stops.                                           *)
(***************************************************************************)
TaskBodyEnds(t, how) ==
    /\ body[t] = "running"
    /\ body' = [body EXCEPT ![t] = "ended"]
    /\ outcome' = [outcome EXCEPT ![t] = IF @ = "none" THEN how ELSE @]
    /\ UNCHANGED <<laneVars, gatewayDraining, nextQueueSequence,
                   entry, status, taskGeneration, waiter>>

\* The timeout fires, however often the task's progress put it off before.
TaskTimeoutFires(t) ==
    /\ body[t] = "running"
    /\ entry[t].timed
    /\ outcome[t] = "none"
    /\ outcome' = [outcome EXCEPT ![t] = "timeout"]
    /\ UNCHANGED <<laneVars, gatewayDraining, nextQueueSequence,
                   entry, status, body, taskGeneration, waiter>>

Settlement(o) == CASE o = "ok"      -> "resolved"
                   [] o = "err"     -> "rejected"
                   [] o = "timeout" -> "timedOut"

\* Mutant: the continuation of a finished task does not pump.
CompleteWithoutPump(t) ==
    LET l == entry[t].lane
        released == [active EXCEPT ![l] = @ \ {t}]
    IN  /\ taskGeneration[t] = generation[l]
        /\ entry' = entry
        /\ DrainLanes({}, queue, released, maxConcurrent, generation,
                      [status EXCEPT ![t] = Settlement(outcome[t])])
        /\ waiter' = Notified(released)

\* Mutant: a task that timed out keeps its slot until its body ends.
CompleteKeepingHungSlot(t) ==
    LET l == entry[t].lane
        released == IF body[t] = "ended" THEN [active EXCEPT ![l] = @ \ {t}] ELSE active
    IN  /\ taskGeneration[t] = generation[l]
        /\ entry' = entry
        /\ DrainLanes({l}, queue, released, maxConcurrent, generation,
                      [status EXCEPT ![t] = Settlement(outcome[t])])
        /\ waiter' = Notified(released)

\* Mutant: the waiters are notified before the slot is released.
CompleteNotifyingFirst(t) ==
    LET l == entry[t].lane
        released == [active EXCEPT ![l] = @ \ {t}]
    IN  /\ taskGeneration[t] = generation[l]
        /\ entry' = entry
        /\ DrainLanes({l}, queue, released, maxConcurrent, generation,
                      [status EXCEPT ![t] = Settlement(outcome[t])])
        /\ waiter' = Notified(active)

\* The task's generation is still its lane's: release the slot, notify, pump.
CompleteCurrentTask(t) ==
    LET l == entry[t].lane
        released == [active EXCEPT ![l] = @ \ {t}]
    IN  /\ taskGeneration[t] = generation[l]
        /\ entry' = entry
        /\ DrainLanes({l}, queue, released, maxConcurrent, generation,
                      [status EXCEPT ![t] = Settlement(outcome[t])])
        /\ waiter' = Notified(released)

\* The lane was reset since the task started: only the promise settles.
CompleteStaleTask(t) ==
    /\ taskGeneration[t] # generation[entry[t].lane]
    /\ status' = [status EXCEPT ![t] = Settlement(outcome[t])]
    /\ UNCHANGED <<queue, active, entry, body, taskGeneration, waiter>>

CompleteTask(t) ==
    /\ status[t] = "started"
    /\ outcome[t] # "none"
    /\ CompleteCurrentTask(t) \/ CompleteStaleTask(t)
    /\ UNCHANGED <<maxConcurrent, generation, gatewayDraining, nextQueueSequence, outcome>>

-----------------------------------------------------------------------------
(***************************************************************************)
(* Operating the lanes.                                                    *)
(***************************************************************************)
\* Mutant: the requested cap is taken as it is.
LaneCapUnclamped(l, n) == n

LaneCap(l, n) ==
    LET minConcurrent == IF l \in ProbeLanes THEN 1 ELSE 0
    IN  IF n > minConcurrent THEN n ELSE minConcurrent

SetCommandLaneConcurrency(l, n) ==
    /\ maxConcurrent' = [maxConcurrent EXCEPT ![l] = LaneCap(l, n)]
    /\ entry' = entry
    /\ DrainLanes(IF LaneCap(l, n) > 0 THEN {l} ELSE {}, queue, active,
                  maxConcurrent', generation, status)
    /\ UNCHANGED <<generation, gatewayDraining, nextQueueSequence, outcome, waiter>>

\* Mutant: the pending entries are rejected but not removed (slice for splice).
ClearWithoutRemoving(l) ==
    /\ queue[l] # <<>>
    /\ status' = [t \in Tasks |->
                    IF t \in Prefix(queue[l], Len(queue[l])) THEN "cleared" ELSE status[t]]
    /\ UNCHANGED <<queue, active, maxConcurrent, generation, gatewayDraining, nextQueueSequence,
                   entry, outcome, body, taskGeneration, waiter>>

ClearCommandLane(l) ==
    /\ queue[l] # <<>>
    /\ queue' = [queue EXCEPT ![l] = <<>>]
    /\ status' = [t \in Tasks |->
                    IF t \in Prefix(queue[l], Len(queue[l])) THEN "cleared" ELSE status[t]]
    /\ UNCHANGED <<active, maxConcurrent, generation, gatewayDraining, nextQueueSequence,
                   entry, outcome, body, taskGeneration, waiter>>

\* Mutant: the queues are emptied with the slots.
ResetDroppingQueue(ls) ==
    LET idle == [l \in Lanes |-> IF l \in ls THEN {} ELSE active[l]]
        dropped == UNION {Prefix(queue[l], Len(queue[l])) : l \in ls}
    IN  /\ generation' = [l \in Lanes |-> IF l \in ls THEN generation[l] + 1 ELSE generation[l]]
        /\ entry' = entry
        /\ DrainLanes({}, [l \in Lanes |-> IF l \in ls THEN <<>> ELSE queue[l]], idle, maxConcurrent,
                      generation', [t \in Tasks |-> IF t \in dropped THEN "cleared" ELSE status[t]])
        /\ waiter' = Notified(active')
        /\ UNCHANGED <<maxConcurrent, nextQueueSequence, outcome>>

\* What resetCommandLane and resetAllLanes do to the lanes ls.
ResetLanes(ls) ==
    LET idle == [l \in Lanes |-> IF l \in ls THEN {} ELSE active[l]]
    IN  /\ generation' = [l \in Lanes |-> IF l \in ls THEN generation[l] + 1 ELSE generation[l]]
        /\ entry' = entry
        /\ DrainLanes({l \in ls : queue[l] # <<>>}, queue, idle,
                      maxConcurrent, generation', status)
        /\ waiter' = Notified(active')
        /\ UNCHANGED <<maxConcurrent, nextQueueSequence, outcome>>

ResetCommandLane(l) ==
    /\ generation[l] < MaxGeneration
    /\ ResetLanes({l})
    /\ UNCHANGED gatewayDraining

ResetAllLanes ==
    /\ \A l \in Lanes : generation[l] < MaxGeneration
    /\ ResetLanes(Lanes)
    /\ gatewayDraining' = FALSE

MarkGatewayDraining ==
    /\ gatewayDraining' = TRUE
    /\ UNCHANGED <<laneVars, nextQueueSequence, taskVars, waiter>>

(***************************************************************************)
(* Waiting for the active set captured at call time.  The limit is no      *)
(* timeoutMs ("none"), a timeoutMs <= 0 ("zero"), or a positive one.       *)
(***************************************************************************)
WaitForActiveTasks(w, limit) ==
    LET ids == ActiveIds(active)
    IN  /\ waiter[w].answer = "none"
        /\ waiter' = [waiter EXCEPT ![w] =
              [answer |-> IF ids = {} THEN "drained"
                          ELSE IF limit = "zero" THEN "expired" ELSE "pending",
               ids |-> ids,
               timed |-> limit = "positive"]]
        /\ UNCHANGED <<laneVars, gatewayDraining, nextQueueSequence, taskVars>>

WaiterTimesOut(w) ==
    /\ waiter[w].answer = "pending"
    /\ waiter[w].timed
    /\ waiter' = [waiter EXCEPT ![w].answer = "expired"]
    /\ UNCHANGED <<laneVars, gatewayDraining, nextQueueSequence, taskVars>>

-----------------------------------------------------------------------------
TaskStep(t) ==
    \/ \E l \in Lanes, p \in Priorities, timed \in BOOLEAN : EnqueueCommandInLane(t, l, p, timed)
    \/ RefuseWhileDraining(t)
    \/ \E how \in {"ok", "err"} : TaskBodyEnds(t, how)
    \/ TaskTimeoutFires(t)
    \/ CompleteTask(t)

LaneStep(l) ==
    \/ \E n \in CapRequests : SetCommandLaneConcurrency(l, n)
    \/ ClearCommandLane(l)
    \/ ResetCommandLane(l)

WaiterStep(w) ==
    \/ \E limit \in {"none", "zero", "positive"} : WaitForActiveTasks(w, limit)
    \/ WaiterTimesOut(w)

Next ==
    \/ \E t \in Tasks : TaskStep(t)
    \/ \E l \in Lanes : LaneStep(l)
    \/ ResetAllLanes
    \/ MarkGatewayDraining
    \/ \E w \in Waiters : WaiterStep(w)

Spec == Init /\ [][Next]_vars

-----------------------------------------------------------------------------
(***************************************************************************)
(* Properties.                                                             *)
(***************************************************************************)

\* A lane with waiting entries has no free slot: every call that frees a slot,
\* raises the cap or adds an entry (completion, reset, reconfiguration, enqueue)
\* also pumps, so no entry waits for "a future enqueueCommandInLane() call".
WorkConserving ==
    \A l \in Lanes : queue[l] = <<>> \/ Cardinality(active[l]) >= maxConcurrent[l]

\* A slot is held exactly by the lane's started, unsettled tasks of the current
\* generation: neither a completion after a reset nor a body that outlives its
\* timeout can leak a slot or free one that belongs to a later task.
SlotsMatchRuns ==
    \A l \in Lanes :
        active[l] = {t \in Tasks : /\ status[t] = "started"
                                   /\ entry[t].lane = l
                                   /\ taskGeneration[t] = generation[l]}

\* An unanswered waiter still waits for an occupied slot: whichever of
\* completion, timeout and reset empties its captured set also answers it.
PendingWaiterHasActiveTask ==
    \A w \in Waiters : waiter[w].answer = "pending" => waiter[w].ids \cap ActiveIds(active) # {}

\* A call that starts tasks leaves the lane within its cap, whatever the order
\* of completions, reconfigurations and resets before it.
StartsWithinCap ==
    [][\A l \in Lanes : \/ active'[l] \subseteq active[l]
                        \/ Cardinality(active'[l]) <= maxConcurrent'[l]]_vars

\* No entry is started while one that outranks it (higher priority, or equal
\* priority and submitted earlier) stays queued in the same lane.
StartsInOrder ==
    [][\A t, u \in Tasks :
          /\ status[t] # "started" /\ status'[t] = "started"
          /\ status'[u] = "queued"
          /\ entry'[u].lane = entry'[t].lane
          => Precedes(entry'[t], entry'[u])]_vars

\* An in-process restart keeps the queued work: no queued entry is rejected by
\* resetAllLanes or by the reset of one lane; it stays queued or is started.
ResetKeepsQueuedWork ==
    [][generation' # generation =>
          \A t \in Tasks : status[t] = "queued" => status'[t] \in {"queued", "started"}]_vars

\* Every call of waitForActiveTasks is answered.
WaiterAnswered ==
    \A w \in Waiters : waiter[w].answer = "pending" ~> waiter[w].answer # "pending"

(***************************************************************************)
(* What the queue promises each caller (SubmittedCommand).                 *)
(***************************************************************************)
phase == [t \in Tasks |->
            CASE status[t] = "new"                    -> "new"
              [] status[t] = "queued"                 -> "waiting"
              [] status[t] = "started"                -> "running"
              [] status[t] \in {"cleared", "refused"} -> "refused"
              [] OTHER                                -> "answered"]

ran == [t \in Tasks |-> body[t] # "idle"]

Submitted == INSTANCE SubmittedCommand WITH phase <- phase, ran <- ran

\* The queue implements the life of a submitted command: through any sequence
\* of clears, resets and timeouts a command is answered or refused at most once,
\* runs at most once, and never runs after it was refused.
ImplementsSubmittedCommand == Submitted!Spec

=============================================================================
