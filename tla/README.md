# A formal model of the gateway's run-time core

This directory models the part of the repository that decides *when agent turns and
messages happen*: the queues, timers and recovery loops of the OpenClaw gateway.
Models are written in TLA+, checked on small instances with TLC and, where noted,
proved for every instance with TLAPS.

The repository is a fork of OpenClaw, a daemon ("Gateway", `src/src`) that connects
chat channels to AI agents, with a demonstration flow for Generative Engine
Optimization in its control UI (`src/ui/src/ui`). Paths below start at the directory
that holds `src/`.

Contents: [inventory](#inventory), [models](#the-models), [runs](#the-runs),
[fairness](#fairness), [proofs](#the-proofs), [what is not covered](#what-is-not-covered),
[plan](#plan).

## Inventory

The gateway is one Node.js process: nothing is preempted, and everything may happen at
an `await`. So the units of the models are the code between two awaits, the
continuations and the timers. What survives the process is a SQLite database and files.

| component | state | operations | talks to | hard about it |
|---|---|---|---|---|
| command queue `process/command-queue.ts` | per lane: queue, active task ids, cap, generation; a draining flag; waiters | enqueue, complete, task timeout, set cap, clear, reset one or all lanes, drain | called by every agent run; reset by the restart loop and stuck-session recovery | completions of older generations, bodies that outlive their timeout, pumping after every change, waiters |
| followup queue `auto-reply/reply/queue/*` | per session: entries, overflow summary, draining flag; a dedupe cache | enqueue with settings, drain loop, drop policies, `/stop`, aborts | started by the reply code when a turn is under way; its turns take the session's reply operation | a drain suspended over a list that enqueue and `/stop` change, wakeups, deferred and failing turns |
| heartbeat wake layer and runner `infra/heartbeat-wake.ts`, `infra/heartbeat-runner.ts` | pending wakes, one timer, running flag, handler generation; per runner an interval timer | request, timer, batch of calls, register, unregister, config update, on/off switch | the runner's handler runs agent turns on the command queue | handlers replaced under a running batch, retries and cooldown, a timer chain that must never break |
| outbound delivery queue `infra/outbound/deliver.ts`, `delivery-queue-*.ts` | stored entries (status, retries, attempt marker); claims, drain keys in memory | enqueue, send, mark, delete, fail; startup recovery, reconnect drain | channel adapters; the reply code | crashes and failing writes between any two steps, two recoverers and a live call after the same entry |
| GEO flow `ui/src/ui/controllers/geo.ts`, `geo-*.ts` | phase, one status and result per step, active run, stored runs, chat session | start, open a step, back, restore, run a skill | chat sessions of the gateway | late results of an abandoned run, flags tested before an await and set after it |
| session suspension `agents/session-suspension.ts`, `gateway/server-lanes.ts` | resume timer per lane; the stored suspension of a session | suspend, resume, apply the configured caps | sets the command queue's caps | suspensions that overlap, a store that fails before the lane is throttled, reloads under a timer in memory |
| cron service `cron/service/*` | stored jobs (enabled, next slot, running marker, backoff) and the copy in memory; one timer, a running flag | start, tick, run by hand, add, update, remove, read | agent turns, heartbeats | markers after a crash, runs of the tick, the catch-up and a call on one job, results merged into a store that changed, a timer that must stay armed |
| exec approvals `gateway/exec-approval-manager.ts`, `gateway/server-methods/exec-approval.ts`, `approval-shared.ts`, `nodes.ts`, `gateway/node-invoke-system-run-approval.ts`, `agents/bash-tools.exec-*.ts` | per request: decision, expiry, consumed once, grace period | request, wait, resolve, expire, invoke | operators, agents, nodes | a decision racing the expiry, a second operator, invocations repeated while the entry is kept, the fallback when nobody answers |
| agent lanes `agents/lanes.ts`, `agents/embedded-agent-runner/*` | none of its own | a run inside a session lane inside a global lane | command queue, twice | nested queues, stuck-session recovery resetting the outer lane only |
| gateway run loop `cli/gateway-cli/run-loop.ts`, `infra/restart.ts`, `infra/gateway-lock.ts` | restart state, lock | signals, drain, in-process restart | command queue (drain, reset), embedded runs | work accepted while draining starts |
| session delivery queue `infra/session-delivery-queue-*` | as outbound, without markers | as outbound | reply code | repetition after a crash |
| heartbeat cooldown, pairing, subagent registry, session locks, process supervisor | see `PROJECT.json` | | | |

Correctness, in a sentence each. *Command queue*: what is accepted runs once and is
answered once, in order, within the cap, and never waits beside a free slot. *Followup
queue*: a message accepted is answered, summarised or discarded by a rule, once, and
something is always going to work it off. *Heartbeats*: a request is tried, and the
chain of intervals never ends by itself. *Outbound*: nothing accepted is lost, nothing
the live call showed is sent again, every entry gets settled. *Suspension*: a lane
that admits nothing will be resumed. *Cron*: a due slot is run or moved by a rule, a
one-shot once, a job by one run at a time, and a timer is always armed. *Exec
approvals*: what runs was approved, an allow-once counts once, and everybody is told the
same decision. *GEO flow*: a result
belongs to the run it was asked for, and no step stays "loading" with nothing under way.

## The models

### CommandQueue, SubmittedCommand

`CommandQueue` translates `command-queue.ts`. A lane is `queue`, `active`,
`maxConcurrent`, `generation`. A task's life is split where the code's is: `status` (in
the queue or started), `body` (its function runs or has ended), `outcome` (its promise).
`DrainLanes` is `drainLane` with `pump` for several lanes at once, which is how
`resetAllLanes` uses it. `TaskBodyEnds` and `TaskTimeoutFires` are the two ways
`runQueueEntryTask` returns; `CompleteCurrentTask` and `CompleteStaleTask` are the
continuation after it, told apart by the generation test of `completeTask`.

`SubmittedCommand` is the promise to a caller: new, waiting, running, answered, or
refused without having run. `ImplementsSubmittedCommand` maps the queue onto it: `phase`
is read off `status` and `outcome`, `ran` off `body`.

Left out: the migration of state made by an older version of the module, `onWait`, the
counters, the test-only reset. Progress that postpones a task's timeout
(`taskTimeoutProgressAtMs`) is time only: `TaskTimeoutFires` is the moment the timeout
fires, however often it was put off before. A started body is taken to run in the same step as the
pump, a microtask earlier than in the code.

### FollowupQueue

One session. `registered` is the map's entry, `queue` and `drain` the objects: after
`/stop` an old object's drain lives on beside a new object. A drain is a coroutine whose
`pc` says at which await it is: the debounce, an aborted entry's deferred turn, a turn.
`turn.carries` are the entries taken off when the turn ends, `turn.speaks` those whose
prompts it runs. `owner` is the session's reply operation (`reply-turn-admission.ts`):
a turn that cannot get it is deferred (`TurnDeferred`).

Left out: `refreshQueuedFollowupSession` (rewrites session data inside entries) and
which callback a drain uses. The dedupe cache forgets at any moment (`ForgetRecent`);
debounce times and the age of entries are not modelled.

### HeartbeatWake

`pending`, `timer`, `scheduled`, `running`, `handler`, `generation` are the module
variables of `heartbeat-wake.ts`; a wake is its priority. `batch` holds the loops that
are suspended in a handler call, each under the handler it was taken with. `tick` is the
interval timer of each runner. The handler's early return for switched-off heartbeats,
its `finally` that re-arms the timer and its busy exception are `CallAnswered`,
`CallBusy` and `CallThrows`.

Left out: due times (a timer is of the normal or the retry kind), the order within a
batch, reasons and payloads, the cooldown decision, phase arithmetic, the turn itself.
A batch whose calls only find heartbeats off answers one wake per step.

### OutboundDelivery, StoredDelivery

`row` is the stored entry: status, number of retries, and `state` for `recoveryState`.
`claimed` is `entriesInProgress`. `live[d]` walks through `deliverOutboundPayloads`:
enqueue, claim, send each part (marking the attempt before the first), mark the outcome
as unknown, delete. `replay[r]` does the same for the entry the startup recovery or the
drain is at, `todo[r]` is what is left of its snapshot. `byLive`, `byReplay`, `twice`
record what the user can see.

A part handed to the platform may be visible whatever the adapter answers, and also
after a crash. A part counts as seen once the adapter has answered its call, also if the
answer names no message (`adapter_returned_no_identity`). Any error, of the caller's signal,
a hook or the adapter, before or during a send, may be one named `AbortError`
(`LiveThrows`): the code then deletes the entry (`deliver.ts:592`, `:1386`), after any
other error it keeps it. Any write may fail (`Fails`), as a whole, and of the writes of a
round that defers its rest (`Defer`) any. The adapter's
`reconcileUnknownSend` is not in `src/src/infra`; it is taken to be truthful, and a part
whose error was reported is taken not to arrive later. Backoff and time budget are open
choices. Between a row and the claim of its live call only a claim can fall (`Quiet`):
both sides do no I/O in between.

`StoredDelivery` is the promise to the caller and the recipient: a delivery is new, stored
or, without an entry, sent directly; what is stored stays so until all parts are seen, its
call ends with an `AbortError` or it is given up, and the parts are seen one by one, in order and
before the end. Best-effort deliveries may skip parts and may be removed unseen.
`ImplementsStoredDelivery` maps the queue onto it: `phase` reads the status of the entry and
whether the call has begun or ended, `seen` joins what calls and replays showed, `aborted`
are the calls that ended with an `AbortError`. Claims, marks, rounds, retries and writes that fail are stutters, and
so is a part that is shown again.

Left out: rendering, hooks, diagnostics, commit hooks, the import of older file queues,
a second process on the same database.

### SessionSuspension

Extends `CommandQueue` and gives its `SetCommandLaneConcurrency` to those who call it in
the gateway. `suspension[s]` is a call of `suspendSession`, with the lane it will throttle
and the cap the timer will restore, before, during or after the await of its store; `laneResumeTimers[l]` is
the entry of the map of that name, 0 for none. `LaneAutoResume` is the timer,
`ApplyGatewayLaneConcurrency` the load or reload of a configuration. Every other step is
one of the queue's (`QueueStep`).

The cap to restore comes from the configuration the failed run holds, which may be older
than the one in force; a reload neither cancels nor renews a timer. Both are in the
model. Left out: `cancelLaneAutoResume`, which only tests call, and the stored text.

### CronService

`disk` and `mem` are the stored jobs and the copy in memory; they differ after a write
that failed, until a section reads the store again. A job is `enabled`, `next` (no slot,
one to come, one due), `marker` (`runningAtMs`: none, recent, older than two hours) and
`backoff`. The sections under the service's lock (`locked.ts`) are one action each:
`Start...` for `start()`, `TickCollects` and `TickApplies` for `onTimer`,
`ManualAdmitted`, `ManualPrepared`, `ManualApplies` for `run`, and `Add`, `Update`,
`Remove`, `Read`. Runs (`run[o][j]`) are outside the lock, by origin: start, tick
and the manual calls (`Callers`), any number of which may be for one job. The first
section of a manual call reserves nothing, so two calls of a job, or a call and a tick, may
both have found it free; the retest of `ManualPrepared` (`ops.ts:767`) stops the
second. Sections get the lock in any order, where the code's is that of the calls.

Left out: cron expressions (a recurring job's slot elapses at any moment), schedule
errors, jobs with an invalid stored specification and their quarantine,
`skipMissedJobs`, alerts, delivery, the session of a run, a body that goes on after its
timeout, and a second service on the same store, which a reload of the configuration
builds (`gateway/server-reload-handlers.ts:404`). The time of a one-shot does not come
during a run of it that began before.

### ExecApprovals

`entry` is the manager's map, `decision`, `consumed` and `resolvedBy` a record of it,
`promise` what waiters are answered with. `requester`, `answer` and `outcome` are the
agent's call, `reply` is the last answer to an operator, `runs` counts what was forwarded. `Resolve`, `TimerFires` and `GraceEnds` are the manager's
operations with the handler around them; `Forward` is the check of `node.invoke`, with
its consumption of an allow-once, for the agent (`Invoke`) and for another client that
repeats the invocation (`InvokeAgain`). `ClockMoves` separates the expiry time from the
timer that stands for it: a decision may come when the request is over but not expired.

Left out: who may see and resolve a request (all callers here may), callers that make
the request and wait in one call, commands on the gateway's own host, plugin approvals
(the same class), a restart, which forgets every request. Ids are fresh; that one id is
a prefix of another is in the instance. Strict inline evaluation is the fallback `deny`;
the path without a user interface has the effect of a missing decision.

## The runs

Violation runs check one statement of the code's own comments or documentation that the
code does not keep; `findings` in `PROJECT.json` quotes it.

| run | instance | shows |
|---|---|---|
| `command_queue_safety` | one lane, three tasks, three priorities, caps -1 to 2, one reset, one waiter | slots, order, pumping, waiters, the refinement |
| `lane_suspension` | one lane, two tasks, one waiter, two suspensions, reloads | a throttled lane has a timer; entries leave the queue and waiters are answered |
| `followup_safety` | six messages, of which three up to five times in all and two of them twice, or any three without runtime-only metadata; two queue objects, caps 3 (`collect`) and 2, one `/stop`, one abort, drop `new` | nothing lost or run twice; lifecycles completed; turns do not mix |
| `followup_liveness` | four messages, collect mode, caps 1 and 2, drop `summarize`, one failing turn | entries and summaries are worked off, nothing waits without a wakeup |
| `heartbeat_wake` | two targets, two overlapping batches, two changes of the registration, heartbeats switched off at most | no request lost or left without a timer, chain unbroken |
| `heartbeats_switched_back_on` (violation) | off and on again | the interval timer stays off |
| `outbound_delivery` | a required reply of two parts and a best-effort notice of one, both recoverers, two retries, one crash, one failing write | one sender, no repeated live send, settled is final, the refinement: nothing lost, parts in order |
| `outbound_delivery_liveness` | one delivery, otherwise the same | every entry is settled |
| `cron_service` | a one-shot and a recurring agent turn; together with one call and a crash, alone with two calls, a crash and a failing write; two manual callers | markers match runs, one run per job, a timer armed, one-shots once, no slot skipped |
| `cron_service_liveness` | the same jobs, the one-shot deletes itself; together with a crash, alone with two calls and a crash | a due slot does not stay due |
| `exec_approvals` | two requests whose ids share a prefix: one put to operators, one reviewed automatically; all fallbacks, two runs each | approved, counted once, told alike, ended |
| `exec_approval_fallback` (violation) | the same, fallback `full` | the gateway refuses what the fallback allows |

**Why the bounds are enough.** In the command queue the cases differ in how a task
relates to another in its lane: three tasks give one running, one waiting and one being
inserted between them; caps up to 2 give a lane lowered below what runs. One reset gives
every task an older or a current generation. Several lanes matter to `resetAllLanes`
only; for those the theorems stand, which hold for any number of tasks, lanes and
waiters. In the followup queue three messages are what a snapshot, its overwritten tail
and the victim of an index need; the second queue object is what one `/stop` creates. The
six messages differ in what `TurnsDoNotMix` tells apart: one with runtime-only metadata
and an abort signal, one of another sender, one without a route, two for different places
and one that cannot be routed to. So batches of three occur that may share a turn, that
fall into groups by authorization with others to come, and that must be answered one by
one for each of the reasons; leaving any one of these tests out breaks the property. In
the wake layer the registration changes twice: a start and its stop, or a start over a
running one. Batches belong to the current or an earlier runner, and wakes left pending
without a handler exist before the first start as well as after a stop. Retry limit 2 stands for `MAX_RETRIES` 5: below it, at
it and, after a crash, beyond. The instances of different kinds of message (required,
best-effort, reconcilable or not) are told apart by constants; two deliveries share
nothing but rounds and the budget deferral. In the cron service two jobs are what a
batch, a deferred catch-up and another job's maintenance need; three calls on one job
add nothing that two do not, as a call reads only what is stored and under way. The two
calls on a job alone include two manual runs of it, which both pass the preflight. The
bounds are per set of jobs (`Bounds`): a job alone is given more calls and faults. In
the approvals a second request is there for the lookup by prefix; two runs tell an
allow-once that counts once from one that does not. Two suspensions are a timer and its
replacement. Resets of a lane are left to `command_queue_safety` (`MaxGeneration` 0 in
`lane_suspension`): they do not touch caps.

**Reductions.** `MCCommandQueue!View` keeps of a task only what later steps and the
properties read: tasks with equal remaining roles are counted, not named.
`MCHeartbeatWake!View` drops whether a stopped runner had agents and, in batches that
only meet switched-off heartbeats, wakes that were answered. Both drop variables' values
no guard reads again, so equal views have equal futures. The properties of those runs
read nothing that is dropped. Batches are interchangeable, and so are the objects of the
followup queue (one neither registered nor draining is as good as new), hence the
symmetries; no run with a liveness property uses a view or a symmetry.

## Fairness

Bodies, calls and turns end because the code awaits them and nothing else can end them;
this is an assumption about agents and adapters. Task bodies with a timeout are *not*
assumed to end: the timeout is (a body that postpones it by progress for ever is not
assumed to exist). Timers fire. In the followup queue the session's reply
operation is released and a waiting turn is admitted. In the outbound queue adapters
answer, calls and rounds run on, and drains recur: the WhatsApp monitor drains every 30
seconds, other channels upon a reconnect. Strong fairness of `Begin` says that a drain is
some time at an entry whose backoff is over, which the growing but bounded backoff
grants. Nobody is assumed to raise
a cap: the lane in `lane_suspension` is configured with 1, and what raises it from 0
is the resume timer. In the cron service sections get the lock, runs end, by their
timeout at the latest, delays after errors end, and the process is started again after a
crash. In the approvals the expiry timer and the cleanup fire, deliveries and the
agent's calls end; no operator is assumed to decide. Every run but those of the
heartbeats and the outbound queue switches the deadlock check off: with all tasks
answered, all messages gone, no job enabled or all requests ended, and the bounds used
up, the system has nothing left to do.

## The proofs

`CommandQueueProofs` (any sets of tasks, lanes, waiters, any requested caps and
priorities). Assumed: the constants' assumptions, that is the default lane is a lane and
the sets of tasks and caps are what the module says. The inductive invariant adds to the
checked properties

- `QueuesExact`: a queue lists queued tasks of its own lane, none twice;
- `SlotsExact`: slots are the started, unsettled tasks of the current generation;
- `BodiesFollowStatus`, `OutcomesFollowBodies`: which of the three parts of a task's
  life may be combined;
- `GenerationsPast`: no task is of a later generation than its lane.

None of the properties is inductive alone: that a completion frees one slot needs
`SlotsExact`, that a pump starts only fresh tasks needs `QueuesExact`. The work is in the
lemmas about `DrainLanes`, which says of any set of lanes what a pump changes and that
afterwards no lane of the set has both entries and room. From them follow type
correctness, `WorkConserving`, `SlotsMatchRuns`, `PendingWaiterHasActiveTask`, the action
properties `StartsWithinCap` and `ResetKeepsQueuedWork`, and the refinement of
`SubmittedCommand`.

For `StartsInOrder` the module's last part adds `Ordered` to that invariant: every queue is sorted by priority
and submission (`InOrder`), holds every queued task of its lane (`Listed`), and the next
entry is later than all before it (`SequencesPast`). The insertion keeps a queue sorted because
the newest entry follows what it does not overtake (`InsertedInOrder`), and a pump takes
a prefix, so what stays is outranked by what starts (`DrainOrdered`).

`HeartbeatWakeProofs` (any targets, any number of runners, a finite set of batch names).
The invariant adds `BatchesExact` (what a batch has left, and what its current call took on,
is among its wakes), `Registered` (the handler is the newest runner or none), `TimersExact`
(`WakesAreAwaited` and, the other way round, that an armed timer has a wake to take),
`Overlap` (counting the batches, plus one while `running` is not set, against the runners
started, which is what a further batch needs). `NoRequestLost` is inductive with
them. `HeartbeatsGoOn` is proved under `TRUE \notin Switches`: without it the property
is false, see the violation run; its invariant is `Chained`.

`SessionSuspensionProofs` (any tasks, lanes, suspensions, caps and configurations). That a
lane which admits nothing has a timer is inductive with the types of caps and timers:
the store comes before the throttling and the timer in the same section, a timer that is
replaced leaves another, and no step of the queue itself sets a cap
(`QueueStepKeepsCaps`).

`ExecApprovalsProofs` (any set of requests, any fallbacks, any relation of prefixes, any
bound on runs). The invariant says what a request's record, its promise, the answers
given and the runs forwarded have to do with each other: a decision is recorded with
the promise and never changes but for the consumption, a run is counted against an
allow-once exactly when it is consumed, and every answer is that of the promise. From
it follow type correctness, `RunsWereApproved`, `OperatorsAgree` and `AnswersAgree`.

`OutboundDeliveryProofs` (any deliveries with any numbers of parts, any of them best-effort,
required or on a channel that reconciles; any bounds). The inductive invariant adds to the
types

- `Claims`: a live call or a recoverer that works on an entry holds its claim, the entry
  is pending, and nobody else works on it;
- `Marks`: what the live call has shown, or may be showing, left its mark on the entry
  (`Exposed`), and an entry that a recoverer sends shows nothing of the live call;
- `Progress`: a call or a replay has shown the parts it has passed.

`OneSender` follows from `Claims`; without them neither of the others is kept, because a
second sender could delete the entry, or send it, under the first. `LiveSendNeverRepeated`
is part of `Marks`; `Progress` includes `NothingLost`, that an entry is deleted only when its
parts were seen or its call ended with an `AbortError`. The action property `SettledIsFinal` needs
`Claims` and that every write but the first touches pending entries only
(`WritesPendingOnly`).

The refinement of `StoredDelivery` (`RefinesStoredDelivery`) takes all of them. `Claims` gives
that whoever sends is alone, so that a step, a crash too, shows at most one part of a
delivery (`SeesStep`), and that its entry is pending or was never written; `Progress` gives that
this part is the next one, and that a deleted entry is all seen. How an entry's status
moves (`StatusStep`) and how a call does (`CallStep`) then give the edge of each delivery
(`DeliveryStep`).

`CronServiceProofs` (any jobs, limits and bounds). The inductive invariant adds to the
types

- `Markers`: both stores, on disk and in memory, hold the marker of every run that did not
  lose it. Both are needed: a manual call tests the copy in memory, a tick reads the disk,
  and a write that fails leaves the two apart;
- `Sole`: such a run is the only one of its job;
- `Placed`: a batch exists only while its tick or catch-up is under way, none while the
  process is down, and stores and runs know only ids that were given out. The latter is why
  `add` cannot meet a run of a removed job of the same id;
- `Synced`: while no write failed, the stores have the same jobs and no marker outlives its
  run;
- `Aligned`: while no write failed both stores enable the same jobs, and after one failed
  write of the service's own, memory enables none that the disk does not;
- `Armed`: the timer is armed whenever memory enables a job, by every section that enables
  one and by the end of every tick;
- `Retired`: a one-shot in `spent` that is still enabled on disk is one whose result is yet
  to be written or, while the process is down, one the next start finds by its marker.

`Markers` and `Sole` need each other: a run is begun only for a job without a marker,
and the end of a batch takes markers, which is right only if nobody else runs these jobs
(`BatchApplied`). That a section which tidies the store takes only markers it accounts
for is `TidyKeeps`. `MarkersMatchRuns` is `Markers` and `Synced` on disk,
`OnlyFreedJobsOverlap` follows from `Sole`. `Aligned` is there because `Armed` speaks of
the store in memory, from which the timer is computed, and `SchedulerAlive` of both; after a
failed write only the inclusion is left, and it is what bounds the failures `SchedulerAlive`
can bear. `OneShotNotRepeated` follows from `Retired` and `Markers`: a tick or a catch-up
takes only jobs that are enabled and have no marker (`BatchedBy`), and a one-shot whose result
is yet to be written still has one.

`CronServiceSlotProofs` proves `DueSlotIsNotSkipped` from one more invariant, `SameSlots`:
while no write failed, a job that has a slot on disk has the same one in memory. The reverse is
false, because the preflight of a manual run computes a missing slot in memory only. It is
needed because a read, an update or a removal writes the whole store from memory.

`FollowupQueueProofs` (any messages, finite sets of queue objects, any settings and bounds). The
invariant has four parts, each stated for arbitrary values of the variables, so that one
lemma about each piece of the drain loop (`Schedule`, `Leave`, `Iterate`, `Dispatch`) serves
every action that runs through it:

- `Sound`: types; an object drains exactly while its loop is alive, and owns the reply
  operation exactly while its turn runs; the entries of a turn, and what is to come of its
  batch, may go together (`Batchable`, `OneKey`). `TypeCorrect` and `NeverMixed` follow,
  whatever the settings;
- `Alone` and `Attended`: before the first `/stop` only the map's queue is drained, and its
  entries have a drain or an active reply operation. This is `QueuedWorkIsAwaited`, proved
  for `stops = 0`, whatever the settings; after a `/stop` it is false, see the deviations;
- `OnceOnly`: `Tidy`, that the entries of a list are distinct, and so is what a turn and
  the rest of its batch have yet to answer (`Due`), which the turn carries; and `Counted`,
  that a message is answered, queued (`Holding`) and owed (`Owing`) no more often than it was
  accepted. This gives `NeverAnsweredTwice`, whatever the settings;
- `Balanced`: `Exact`, that the drain of the map's queue knows what is in front of its list
  (`Fits`), although it takes entries off by position, that an object out of the map has an
  empty list, and that entries are distinct; and `Booked`, that of the times a message was
  accepted each is answered, dropped or queued, and that what left the queue had its
  lifecycle completed.

`NothingTwice` alone is not inductive. The drop policies `old` and `summarize` take entries
off while their turn runs, and `/stop` empties the list in the section that takes the queue
out of the map, after which the message may be accepted into a new queue while the drain of
the old one still answers it. In both cases what was queued is now owed: `Owes` holds of a
message that is due and whose answer will not take its own entry off. A turn takes as many
entries off the front as it answered (`TurnPaid`), and an enqueue drops from the front
(`EntryPushed`), so an entry that stands no further back than its message is due goes with
the answer (`Covered`). The effect of a step on the one object it touches is summed up as
`Moves` or `Settles`, and the books are proved from these alone.

`NothingLost` and `LifecyclesComplete` are proved under `RejectsWhenFull`: every setting drops
what comes when the queue is full. With `old` and `summarize` both are false, see the
deviations, so the hypothesis is needed.

Only model-checked: all liveness, such as `EventuallyDrained`, `RequestEnds` and `DueJobRuns`.
Temporal properties under fairness are beyond the proof system's reach, as are `ENABLED`,
induction over data and `RECURSIVE` operators, so no module here declares any of the latter.
For the same reason the grouping of a collect batch by authorization is stated as the first
group and what follows it (`FirstGroup`, `GroupTurn`), not as a fold.

## What is not covered

Known deviations. Settings under which a property of these modules is false because of
what the code does; the runs avoid them, and the counterexamples can be had by
changing the configuration:

- `FollowupQueue`, mode `followup`, cap 2, drop `old`: `NothingLost` fails. The drop
  policy takes the entry whose turn is running (`queue-helpers.ts:97`), the end of that
  turn removes another one that never ran (`:158`), and completes no lifecycle for it:
  `LifecyclesComplete` fails too. So do both with drop `summarize`, cap 1 or 2, and in mode
  `collect` with either policy and cap 1.
- `FollowupQueue`, mode `followup`, cap 1, drop `summarize`: `EventuallyDrained` fails. A
  summary with no entry to carry it makes the drain schedule itself for ever
  (`drain.ts:540`, `:566`).
- `FollowupQueue`, one `/stop` during a turn: `QueuedWorkIsAwaited` fails. A message
  queued behind the unwinding turn starts no drain (`agent-runner.ts:1289`), nor does
  the end of that turn.
- `OutboundDelivery`: a replay of a best-effort entry whose parts fail deletes the entry
  (`delivery-queue-recovery.ts:459`); `StoredDelivery` therefore
  excepts them. An `AbortError` the adapter throws in the middle of a send deletes the entry
  as well (`deliver.ts:592`, `:1386`), though parts are unseen and the caller did not
  abort; `StoredDelivery` allows a removal after any `AbortError`. The repository's tests
  cover the caller's signal only (`deliver.test.ts:2984`), and no text of it forbids this.
- `CronService`: a disabled job that is forced, or a job disabled and enabled during its
  run, may be run a second time meanwhile (`freed` in `OnlyFreedJobsOverlap`); `add`
  advances the slots of other jobs that are past due; an `add` or `update` whose write
  failed stays in memory, is written by the next section and has no timer; a `start()`
  whose write fails leaves no scheduler (`rejected` and `fails` in the properties).
- `ExecApprovals`: a decision made while a request is still being delivered is not told to
  the agent when no route is found in the end (`approval-shared.ts:453`); `AnswersAgree`
  allows the answer null for any settled request.

Behaviours the models contain, but which no run asserts because the code makes no
promise: a `/stop` that comes while a collect batch has groups left does not stop them;
messages dropped while a summary turn runs go with the summary, unread; restoring a
deferred summary may repeat lines; outside collect mode a summary turn takes the head
entry off the queue without its prompt; a change of the drop policy while a summary is
pending may leave it undelivered; waiting for active tasks does not wait for bodies that
were abandoned by a timeout or a reset; a thrown heartbeat call runs the whole batch
again; a busy wake that is put back replaces an equally urgent newer one; the rest of a
stopped runner's batch is answered "disabled"; a replay of a delivery may show a part
twice.

Not modelled: the components of the inventory's lower half; native apps, channel and
provider plugins, scripts, skills; operating system behaviour. Time appears only as
"armed", "elapsed" or "not yet".

## Plan

In this order; each step brings its runs, and where it says so its theorems.

1. `GeoFlow`: the phases, skill runs, chat sessions and stored runs of the control UI,
   with two user actions interleaving at every await. Properties: a result is stored in
   the run that asked for it; no step is loading with nothing under way; at most one
   skill runs; a deleted run does not come back.
2. `AgentLanes`, a run nested in two lanes, and what a reset of one of them does.
3. `GatewayRestart`: draining, waiting and the in-process restart over `CommandQueue`.
4. `HeartbeatWake`: "every request is tried" under fairness; `HeartbeatCooldown` as
   operators over bounded times against the documented rule.
5. `SessionDelivery`; a restart of the gateway in `ExecApprovals`.
