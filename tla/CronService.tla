----------------------------- MODULE CronService -----------------------------
(***************************************************************************)
(* The cron service (src/cron/service): jobs in a store on disk, the       *)
(* service's copy of that store in memory, one timer, and the runs of the  *)
(* timer tick, of the catch-up after a start and of manual "run" calls.    *)
(*                                                                         *)
(* Every operation on the store is a section of locked() (locked.ts:15):   *)
(* sections of one store follow one another, so a section is one step,     *)
(* its write included, which may fail as a whole.  Runs execute outside.   *)
(*                                                                         *)
(* Times are kept by what the code asks of them.  `next` is none, later    *)
(* than now, or due; `marker` (runningAtMs) is none, set, or old, that is  *)
(* older than STUCK_RUN_MS; `backoff` says that the delay after an error   *)
(* has not ended; `at` is where a one-shot's own time lies: ahead, past,   *)
(* or done, that is not later than its last run; `delayed` says that its   *)
(* `next` is not `at` but a retry or a deferral after its last run.        *)
(***************************************************************************)
EXTENDS Naturals, FiniteSets

CONSTANTS
  Jobs,           \* ids of jobs
  OneShots,       \* the jobs of schedule kind "at"; the others recur
  SelfDeleting,   \* the one-shots with deleteAfterRun
  AgentJobs,      \* the jobs whose payload is an agent turn
  Callers,        \* manual "run" calls that may be under way side by side
  MaxConcurrent,  \* resolveRunConcurrency
  MaxMissed,      \* maxMissedJobsPerRestart
  Bounds          \* bound: per set of jobs ever stored, the most calls,
                  \* crashes and failing writes

ASSUME JobsAssumption ==
  /\ OneShots \subseteq Jobs /\ SelfDeleting \subseteq OneShots
  /\ AgentJobs \subseteq Jobs
ASSUME CallersAssumption == Callers \cap {"tick", "start"} = {}
ASSUME BoundsAssumption ==
  /\ MaxConcurrent \in Nat \ {0} /\ MaxMissed \in Nat
  /\ Bounds \in [SUBSET Jobs -> [calls : Nat, crashes : Nat, fails : Nat]]

VARIABLES
  disk,     \* the store on disk: a function from its jobs to their state
  mem,      \* state.store, the copy in memory
  timer,    \* state.timer is set
  start,    \* where start() is; "down" when no process runs
  skip,     \* start(): jobs found interrupted
  deferred, \* runMissedJobs: jobs put off by the plan
  tick,     \* where onTimer is; state.running is TRUE unless "idle"
  run,      \* per origin and job, the run under way; two manual calls of one
            \* job are two origins
  used,     \* ids given out so far (ids are never given out twice)
  calls, crashes, fails,   \* how many so far: add, update, remove and run
            \* calls, crashes of the process, writes of the store that failed
  spent,    \* history: one-shots a run ended well or was cut off by a crash
  freed,    \* history: jobs whose marker was taken away during their run
  rejected  \* history: the write of an add, update or remove failed

store == <<disk, mem>>
startVars == <<start, skip, deferred>>
counters == <<used, calls, crashes, fails>>
history == <<spent, freed, rejected>>
vars == <<store, timer, startVars, tick, run, counters, history>>

Origins == {"tick", "start"} \cup Callers
Outcomes == {"ok", "skipped", "error"}
Stages == {"none", "admitted", "queued", "running"} \cup Outcomes

JobState == [enabled : BOOLEAN,
             next    : {"none", "later", "due"},
             marker  : {"none", "set", "old"},
             status  : {"never"} \cup Outcomes,
             backoff : BOOLEAN,
             at      : {"ahead", "past", "done"},
             delayed : BOOLEAN]

NewJob == [enabled |-> TRUE, next |-> "later", marker |-> "none",
           status |-> "never", backoff |-> FALSE, at |-> "ahead",
           delayed |-> FALSE]
NoRuns == [o \in Origins |-> [j \in Jobs |-> "none"]]

IsStore(m) ==
  /\ DOMAIN m \subseteq Jobs /\ m = [j \in DOMAIN m |-> m[j]]
  /\ \A j \in DOMAIN m : m[j] \in JobState

TypeOK ==
  /\ IsStore(disk) /\ IsStore(mem)
  /\ timer \in BOOLEAN
  /\ start \in {"down", "mark", "plan", "catchup", "arm", "done", "failed"}
  /\ skip \subseteq Jobs /\ deferred \subseteq Jobs
  /\ tick \in {"idle", "collect", "run", "end"}
  /\ run \in [Origins -> [Jobs -> Stages]]
  /\ used \subseteq Jobs /\ spent \subseteq OneShots /\ freed \subseteq Jobs
  /\ rejected \in BOOLEAN
  /\ calls \in Nat /\ crashes \in Nat /\ fails \in Nat

-----------------------------------------------------------------------------
(* What the store's helpers compute, for a job j in state s.               *)

Underway(j) == \E o \in Origins : run[o][j] \notin {"none", "admitted"}
Batch(o) == {j \in Jobs : run[o][j] # "none"}
\* Mutant of EndBatch: the results of a batch are left behind.
EndBatchKeepingResults(o) ==
  [run EXCEPT ![o] = [j \in Jobs |-> IF run[o][j] \in Outcomes THEN "done" ELSE "none"]]
EndBatch(o) == [run EXCEPT ![o] = [j \in Jobs |-> "none"]]

\* computeJobNextRunAtMs: a one-shot stays due until it ends well; a
\* recurring job's next slot lies ahead of now.
ComputeNext(j, s) ==
  CASE ~s.enabled -> "none"
    [] s.enabled /\ j \notin OneShots -> "later"
    [] s.enabled /\ j \in OneShots /\ s.at = "done" /\ s.status = "ok" -> "none"
    [] s.enabled /\ j \in OneShots /\ s.at = "ahead" -> "later"
    [] OTHER -> "due"

Recomputed(j, s) == [s EXCEPT !.next = ComputeNext(j, s), !.delayed = FALSE]

\* normalizeJobTickState
Tidied(s) ==
  CASE ~s.enabled -> [s EXCEPT !.next = "none", !.marker = "none"]
    [] s.enabled /\ s.marker = "old" -> [s EXCEPT !.marker = "none"]
    [] OTHER -> s
Skipped(s) == ~s.enabled \/ s.marker = "old"

\* Mutant of Maintained: due slots are computed anew by every maintenance.
MaintainedExpiring(m, recomputeExpired) ==
  [j \in DOMAIN m |->
     IF ~Skipped(m[j]) /\ m[j].next \in {"none", "due"} /\ m[j].marker = "none"
     THEN Recomputed(j, m[j]) ELSE Tidied(m[j])]

\* recomputeNextRunsForMaintenance: a missing slot is computed; a due one is
\* kept, but for one that lies in the delay after an error (recomputeExpired).
Maintained(m, recomputeExpired) ==
  [j \in DOMAIN m |->
     IF /\ ~Skipped(m[j])
        /\ \/ m[j].next = "none"
           \/ recomputeExpired /\ m[j].next = "due" /\ m[j].marker = "none"
              /\ m[j].status = "error" /\ m[j].backoff
     THEN Recomputed(j, m[j])
     ELSE Tidied(m[j])]

\* recomputeNextRuns, which add uses: due slots are computed anew as well.
RecomputedAll(m) ==
  [j \in DOMAIN m |->
     IF ~Skipped(m[j]) /\ m[j].next \in {"none", "due"}
     THEN Recomputed(j, m[j])
     ELSE Tidied(m[j])]

\* isRunnableJob, as the tick uses it
Runnable(m, j) ==
  /\ j \in DOMAIN m /\ m[j].enabled /\ m[j].marker = "none"
  /\ m[j].next = "due"
  /\ ~(j \notin OneShots /\ m[j].status = "error" /\ m[j].backoff)

\* isRunnableJob, as the catch-up uses it: a one-shot that ran is due only for
\* a time later than that run (skipAtIfAlreadyRan); a recurring job also when
\* a slot of its cron expression elapsed since its last run.
Missed(m, j, elapsed) ==
  /\ j \in DOMAIN m \ skip
  /\ \/ /\ Runnable(m, j)
        /\ j \in OneShots => \/ m[j].status = "never"
                             \/ m[j].status = "error" /\ (m[j].delayed \/ m[j].at # "done")
     \/ /\ j \in elapsed /\ m[j].enabled /\ m[j].marker = "none"
        /\ m[j].status # "never" /\ ~m[j].backoff

Marked(m, S) ==
  [j \in DOMAIN m |-> IF j \in S THEN [m[j] EXCEPT !.marker = "set"] ELSE m[j]]

\* applyJobResult.  retry says whether an error counts as transient and is
\* tried again (resolveTransientCronRetryDecision).
AfterRun(j, s, out, retry) ==
  LET again == out = "error" /\ retry
      on == s.enabled /\ (j \in OneShots => again)
  IN [enabled |-> on,
      next    |-> IF on THEN "later" ELSE "none",
      marker  |-> "none",
      status  |-> out,
      backoff |-> out = "error" /\ j \notin OneShots,
      at      |-> IF s.at = "past" THEN "done" ELSE s.at,
      delayed |-> IF j \in OneShots THEN again ELSE s.delayed]

Deleted(j, out) == j \in SelfDeleting /\ out = "ok"

\* applyOutcomeToStoredJob for each result of a batch; a job that was removed
\* meanwhile is not written back.
Applied(m, o, retries) ==
  [j \in {i \in DOMAIN m : ~Deleted(i, run[o][i])} |->
     IF run[o][j] \in Outcomes THEN AfterRun(j, m[j], run[o][j], j \in retries)
                               ELSE m[j]]

Without(m, j) == [i \in DOMAIN m \ {j} |-> m[i]]

\* A section that tidies m takes the marker of jobs whose run still goes on.
FreedBy(m) ==
  freed \cup {j \in DOMAIN m : /\ Underway(j) /\ m[j].marker # "none"
                              /\ Tidied(m[j]).marker = "none"}

\* persist: the whole store in memory is written, or the section throws.
Saved == disk' = mem' /\ UNCHANGED fails
SavedIfChanged == IF mem' = mem THEN UNCHANGED <<disk, fails>> ELSE Saved
SaveFails == fails < Bounds[used].fails /\ fails' = fails + 1 /\ UNCHANGED disk

\* armTimer: for the next slot, or as a recheck while a job is enabled.
ArmTimer == timer' = \E j \in DOMAIN mem' : mem'[j].enabled
\* armRunningRecheckTimer
ArmRecheck == timer' = TRUE

-----------------------------------------------------------------------------
(* start() and the catch-up of missed runs                                 *)

\* Mutant of Interrupted: a one-shot stays enabled, its time still to come.
InterruptedButEnabled(j, s) ==
  [s EXCEPT !.next = "none", !.marker = "none", !.status = "never",
            !.backoff = j \notin OneShots, !.delayed = FALSE]

\* Mutant of Interrupted: the marker of the run that was cut off is kept.
InterruptedKeepingMarker(j, s) ==
  [s EXCEPT !.enabled = s.enabled /\ j \notin OneShots, !.next = "none",
            !.status = "error", !.backoff = j \notin OneShots]

\* markInterruptedStartupRun
Interrupted(j, s) ==
  [s EXCEPT !.enabled = s.enabled /\ j \notin OneShots, !.next = "none",
            !.marker = "none", !.status = "error", !.backoff = j \notin OneShots,
            !.at = IF s.at = "past" THEN "done" ELSE s.at, !.delayed = FALSE]

Start ==
  /\ start = "down" /\ start' = "mark"
  /\ UNCHANGED <<store, timer, skip, deferred, tick, run, counters, history>>

\* The first section of start(): runs cut off by the last stop are failed.
StartMarks ==
  /\ start = "mark"
  /\ LET cut == {j \in DOMAIN disk : disk[j].marker # "none"}
     IN /\ mem' = [j \in DOMAIN disk |-> IF j \in cut THEN Interrupted(j, disk[j]) ELSE disk[j]]
        /\ skip' = cut
  /\ \/ Saved /\ start' = "plan"
     \/ SaveFails /\ DOMAIN disk # {} /\ start' = "failed"
  /\ UNCHANGED <<timer, deferred, tick, run, used, calls, crashes, history>>

\* planStartupCatchup: agent turns are put off, and so are jobs beyond the limit.
StartPlans ==
  /\ start = "plan"
  /\ \E elapsed \in SUBSET (Jobs \ OneShots) :
       LET held == {j \in elapsed \cap DOMAIN mem :
                      mem[j].enabled /\ j \notin skip /\ mem[j].marker = "none"
                      /\ mem[j].status = "error" /\ mem[j].backoff}
           m == [j \in DOMAIN mem |-> IF j \in held THEN [mem[j] EXCEPT !.next = "later"]
                                                    ELSE mem[j]]
           missed == {j \in DOMAIN m : Missed(m, j, elapsed)}
       IN \E now \in SUBSET (missed \ AgentJobs) :
            /\ Cardinality(now) <= MaxMissed
            /\ \/ now = missed \ AgentJobs
               \/ Cardinality(now) = MaxMissed
            /\ mem' = Marked(m, now)
            /\ \/ /\ IF missed = {} THEN SavedIfChanged ELSE Saved
                  /\ run' = [run EXCEPT !["start"] =
                               [j \in Jobs |-> IF j \in now THEN "queued" ELSE "none"]]
                  /\ deferred' = missed \ now
                  /\ start' = IF missed = {} THEN "arm" ELSE "catchup"
               \/ /\ SaveFails /\ (missed # {} \/ m # mem)
                  /\ start' = "failed" /\ UNCHANGED <<run, deferred>>
  /\ UNCHANGED <<timer, skip, tick, used, calls, crashes, history>>

\* applyStartupCatchupOutcomes: on the store in memory, without a reload.
StartApplies ==
  /\ start = "catchup"
  /\ \A j \in Batch("start") : run["start"][j] \in Outcomes
  /\ \E retries \in SUBSET Batch("start") :
       LET m == Applied(mem, "start", retries)
       IN mem' = Maintained([j \in DOMAIN m |->
                              IF j \in deferred /\ m[j].enabled
                              THEN [m[j] EXCEPT !.next = "later", !.delayed = j \in OneShots]
                              ELSE m[j]], FALSE)
  /\ run' = EndBatch("start") /\ deferred' = {}
  /\ \/ Saved /\ start' = "arm"
     \/ SaveFails /\ start' = "failed"
  /\ freed' = {j \in FreedBy(mem) : Underway(j)'} /\ UNCHANGED <<spent, rejected>>
  /\ UNCHANGED <<timer, skip, tick, used, calls, crashes>>

\* The last section of start()
StartArms ==
  /\ start = "arm"
  /\ mem' = Maintained(mem, TRUE)
  /\ skip' = {} /\ freed' = FreedBy(mem)
  /\ \/ /\ SavedIfChanged /\ ArmTimer /\ start' = "done"
     \/ /\ SaveFails /\ mem' # mem /\ start' = "failed" /\ UNCHANGED timer
  /\ UNCHANGED <<deferred, tick, run, used, calls, crashes, spent, rejected>>

-----------------------------------------------------------------------------
(* onTimer                                                                 *)

\* Not while a tick is under way; else the timer is armed again at once.
TimerFires ==
  /\ timer /\ tick = "idle"
  /\ tick' = "collect" /\ ArmRecheck
  /\ UNCHANGED <<store, startVars, run, counters, history>>

\* Mutant of TimerFiresDuringTick: it returns without arming the timer.
TimerLostDuringTick ==
  /\ timer /\ tick # "idle" /\ timer' = FALSE
  /\ UNCHANGED <<store, startVars, tick, run, counters, history>>

TimerFiresDuringTick ==
  /\ timer /\ tick # "idle"
  /\ ArmRecheck
  /\ UNCHANGED <<store, startVars, tick, run, counters, history>>

\* The first section: reload; mark and write the due jobs, or only maintain.
TickCollects ==
  /\ tick = "collect"
  /\ LET due == {j \in Jobs : Runnable(disk, j)}
     IN /\ mem' = IF due = {} THEN Maintained(disk, TRUE) ELSE Marked(disk, due)
        /\ \/ /\ Saved
              /\ run' = [run EXCEPT !["tick"] =
                           [j \in Jobs |-> IF j \in due THEN "queued" ELSE "none"]]
              /\ tick' = IF due = {} THEN "end" ELSE "run"
           \/ SaveFails /\ mem' # disk /\ tick' = "end" /\ UNCHANGED run
        /\ freed' = IF due = {} THEN FreedBy(disk) ELSE freed
  /\ UNCHANGED <<timer, startVars, used, calls, crashes, spent, rejected>>

\* The last section: reload, and the results of the whole batch are applied.
TickApplies ==
  /\ tick = "run"
  /\ \A j \in Batch("tick") : run["tick"][j] \in Outcomes
  /\ \E retries \in SUBSET Batch("tick") :
       mem' = Maintained(Applied(disk, "tick", retries), FALSE)
  /\ Saved \/ SaveFails
  /\ run' = EndBatch("tick") /\ tick' = "end"
  /\ freed' = {j \in FreedBy(disk) : Underway(j)'}
  /\ UNCHANGED <<timer, startVars, used, calls, crashes, spent, rejected>>

\* Mutant of TickEnds: the timer is not armed for the next slot.
TickEndsUnarmed ==
  /\ tick = "end" /\ tick' = "idle" /\ timer' = FALSE
  /\ UNCHANGED <<store, startVars, run, counters, history>>

\* The finally block
TickEnds ==
  /\ tick = "end" /\ tick' = "idle"
  /\ timer' = \E j \in DOMAIN mem : mem[j].enabled
  /\ UNCHANGED <<store, startVars, run, counters, history>>

-----------------------------------------------------------------------------
(* Runs.  The catch-up runs one job at a time, a tick up to MaxConcurrent. *)

Slots(o) == IF o = "start" THEN 1 ELSE MaxConcurrent

RunStarts(o, j) ==
  /\ run[o][j] = "queued"
  /\ Cardinality({i \in Jobs : run[o][i] = "running"}) < Slots(o)
  /\ run' = [run EXCEPT ![o][j] = "running"]
  /\ UNCHANGED <<store, timer, startVars, tick, counters, history>>

\* executeJobCoreWithTimeout returns.
RunEnds(o, j, out) ==
  /\ run[o][j] = "running"
  /\ run' = [run EXCEPT ![o][j] = out]
  /\ spent' = IF out = "ok" /\ j \in OneShots THEN spent \cup {j} ELSE spent
  /\ UNCHANGED <<store, timer, startVars, tick, counters, freed, rejected>>

-----------------------------------------------------------------------------
(* Calls to the service                                                    *)

Serving == start \notin {"down", "mark"}

\* inspectManualRunPreflight: maintains the store in memory, writes nothing.
\* Nothing is reserved: other calls of the job may pass it as well.
ManualAdmitted(c, j, forced) ==
  /\ Serving /\ calls < Bounds[used].calls /\ run[c][j] = "none" /\ j \in used
  /\ mem' = Maintained(mem, FALSE) /\ freed' = FreedBy(mem)
  /\ run' = IF /\ j \in DOMAIN mem' /\ mem'[j].marker = "none"
               /\ forced \/ (mem'[j].enabled /\ mem'[j].next = "due")
            THEN [run EXCEPT ![c][j] = "admitted"] ELSE run
  /\ calls' = calls + 1
  /\ UNCHANGED <<disk, timer, startVars, tick, used, crashes, fails, spent, rejected>>

\* Mutant of ManualPrepared: the marker was tested by the preflight only.
ManualPreparedUntested(c, j) ==
  /\ run[c][j] = "admitted" /\ j \in DOMAIN mem
  /\ mem' = Marked(mem, {j}) /\ Saved
  /\ run' = [run EXCEPT ![c][j] = "running"]
  /\ UNCHANGED <<timer, startVars, tick, used, calls, crashes, history>>

\* prepareManualRun: the marker is tested again and written before the run.
ManualPrepared(c, j) ==
  /\ run[c][j] = "admitted"
  /\ IF j \in DOMAIN mem /\ mem[j].marker = "none"
     THEN /\ mem' = Marked(mem, {j})
          /\ \/ Saved /\ run' = [run EXCEPT ![c][j] = "running"]
             \/ SaveFails /\ run' = [run EXCEPT ![c][j] = "none"]
     ELSE run' = [run EXCEPT ![c][j] = "none"] /\ UNCHANGED <<store, fails>>
  /\ UNCHANGED <<timer, startVars, tick, used, calls, crashes, history>>

\* finishPreparedManualRun: the result goes into the store in memory, the
\* store is read again, and the job's part of the former is merged into it.
ManualApplies(c, j) ==
  /\ run[c][j] \in Outcomes
  /\ run' = [run EXCEPT ![c][j] = "none"]
  /\ freed' = {i \in (IF j \in DOMAIN mem THEN FreedBy(disk) ELSE freed) : Underway(i)'}
  /\ \/ /\ j \in DOMAIN mem
        /\ \E retry \in BOOLEAN :
             LET out == run[c][j]
                 after == AfterRun(j, mem[j], out, retry)
             IN mem' = Maintained(
                  IF Deleted(j, out) THEN Without(disk, j)
                  ELSE [i \in DOMAIN disk |->
                          IF i = j THEN [after EXCEPT !.at = AfterRun(j, disk[j], out, retry).at]
                                   ELSE disk[i]], TRUE)
        /\ \/ Saved /\ ArmTimer
           \/ SaveFails /\ UNCHANGED timer
     \/ j \notin DOMAIN mem /\ UNCHANGED <<store, timer, fails>>
  /\ UNCHANGED <<startVars, tick, used, calls, crashes, spent, rejected>>

\* A call changes the store in memory, writes it and arms the timer.
Writes == \/ Saved /\ ArmTimer /\ UNCHANGED rejected
          \/ SaveFails /\ rejected' = TRUE /\ UNCHANGED timer

\* add: it computes the due slots of the other jobs anew as well.
Add(j) ==
  /\ Serving /\ j \notin used
  /\ calls < Bounds[used \cup {j}].calls
  /\ crashes <= Bounds[used \cup {j}].crashes /\ fails <= Bounds[used \cup {j}].fails
  /\ used' = used \cup {j} /\ calls' = calls + 1
  /\ mem' = RecomputedAll([i \in DOMAIN mem \cup {j} |-> IF i = j THEN NewJob ELSE mem[i]])
  /\ Writes /\ freed' = FreedBy(mem)
  /\ UNCHANGED <<startVars, tick, run, crashes, spent>>

\* update.  A patch switches the job on or off, gives it a new time, or
\* changes what has no part in scheduling.
Patches == {"enable", "disable", "reschedule", "other"}
Patched(j, s, patch) ==
  LET t == CASE patch = "enable" -> [s EXCEPT !.enabled = TRUE]
             [] patch = "disable" -> [s EXCEPT !.enabled = FALSE]
             [] patch = "reschedule" -> [s EXCEPT !.at = "ahead"]
             [] patch = "other" -> s
  IN IF t.enabled
     THEN IF patch = "other" /\ s.next # "none" THEN s ELSE Recomputed(j, t)
     ELSE IF patch = "other" THEN s ELSE [t EXCEPT !.next = "none", !.marker = "none"]

Update(j, patch) ==
  /\ Serving /\ calls < Bounds[used].calls /\ j \in DOMAIN mem
  /\ mem' = [mem EXCEPT ![j] = Patched(j, mem[j], patch)]
  /\ calls' = calls + 1 /\ Writes
  /\ spent' = IF patch = "other" THEN spent ELSE spent \ {j}
  /\ freed' = IF mem'[j].marker = "none" /\ Underway(j) THEN freed \cup {j} ELSE freed
  /\ UNCHANGED <<startVars, tick, run, used, crashes>>

Remove(j) ==
  /\ Serving /\ calls < Bounds[used].calls /\ j \in DOMAIN mem
  /\ mem' = Without(mem, j)
  /\ Writes /\ calls' = calls + 1
  /\ UNCHANGED <<startVars, tick, run, used, crashes, spent, freed>>

\* status, list, readJob (ensureLoadedForRead)
Read ==
  /\ Serving /\ mem' = Maintained(mem, FALSE) /\ mem' # mem
  /\ Saved \/ SaveFails
  /\ freed' = FreedBy(mem)
  /\ UNCHANGED <<timer, startVars, tick, run, used, calls, crashes, spent, rejected>>

-----------------------------------------------------------------------------
(* Time, for a job's state wherever it is kept, and the end of the process *)

Clock(d, m) ==
  /\ <<d, m>> # store /\ disk' = d /\ mem' = m
  /\ UNCHANGED <<timer, startVars, tick, run, counters, history>>

\* A one-shot's own time is taken not to come during a run begun before it.
SlotPassed(m, j) ==
  LET own(s) == j \in OneShots /\ s.at = "ahead" /\ ~s.delayed
  IN [i \in DOMAIN m |->
        IF i = j /\ m[j].next = "later" /\ ~(own(m[j]) /\ Underway(j))
        THEN [m[j] EXCEPT !.next = "due", !.at = IF own(m[j]) THEN "past" ELSE @]
        ELSE m[i]]
SlotComesDue(j) == Clock(SlotPassed(disk, j), SlotPassed(mem, j))

BackoffPassed(m, j) ==
  [i \in DOMAIN m |-> IF i = j THEN [m[j] EXCEPT !.backoff = FALSE] ELSE m[i]]
BackoffEnds(j) == Clock(BackoffPassed(disk, j), BackoffPassed(mem, j))

MarkerAged(m, j) ==
  [i \in DOMAIN m |->
     IF i = j /\ m[j].marker = "set" THEN [m[j] EXCEPT !.marker = "old"] ELSE m[i]]
MarkerGetsOld(j) == Clock(MarkerAged(disk, j), MarkerAged(mem, j))

Crash ==
  /\ start # "down" /\ crashes < Bounds[used].crashes /\ crashes' = crashes + 1
  /\ start' = "down" /\ skip' = {} /\ deferred' = {}
  /\ mem' = [j \in {} |-> NewJob] /\ timer' = FALSE /\ tick' = "idle" /\ run' = NoRuns
  /\ LET cut == {j \in OneShots : Underway(j)}
         known == {j \in cut \cap DOMAIN disk : disk[j].marker # "none"}
     IN spent' = (spent \ cut) \cup known
  /\ freed' = {}
  /\ UNCHANGED <<disk, used, calls, fails, rejected>>

-----------------------------------------------------------------------------
Init ==
  /\ disk \in {[j \in S |-> NewJob] : S \in SUBSET Jobs} /\ mem = [j \in {} |-> NewJob]
  /\ timer = FALSE /\ start = "down" /\ skip = {} /\ deferred = {}
  /\ tick = "idle" /\ run = NoRuns
  /\ used = DOMAIN disk /\ calls = 0 /\ crashes = 0 /\ fails = 0
  /\ spent = {} /\ freed = {} /\ rejected = FALSE

Starting == Start \/ StartMarks \/ StartPlans \/ StartApplies \/ StartArms
Ticking == TimerFires \/ TickCollects \/ TickApplies \/ TickEnds
\* For a recurring job a skipped run counts as one that went well.
Running(o, j) ==
  \/ RunStarts(o, j)
  \/ \E out \in Outcomes \ (IF j \in OneShots THEN {} ELSE {"skipped"}) : RunEnds(o, j, out)
ManualRuns(c, j) == ManualPrepared(c, j) \/ ManualApplies(c, j)
Calls(j) ==
  \/ \E c \in Callers, forced \in BOOLEAN : ManualAdmitted(c, j, forced)
  \/ Add(j) \/ Remove(j) \/ \E patch \in Patches : Update(j, patch)
Time(j) == SlotComesDue(j) \/ BackoffEnds(j) \/ MarkerGetsOld(j)

Next ==
  \/ Starting \/ Ticking \/ TimerFiresDuringTick \/ Read \/ Crash
  \/ \E c \in Callers, j \in Jobs : ManualRuns(c, j)
  \/ \E j \in Jobs : Calls(j) \/ Time(j) \/ \E o \in Origins : Running(o, j)

\* The process is started again after a crash, timers fire, sections get the
\* lock, runs end, by their timeout at the latest, and so do delays.
Fairness ==
  /\ WF_vars(Starting) /\ WF_vars(Ticking) /\ WF_vars(\E c \in Callers, j \in Jobs : ManualRuns(c, j))
  /\ \A j \in Jobs : WF_vars(BackoffEnds(j)) /\ WF_vars(\E o \in Origins : Running(o, j))

Spec == Init /\ [][Next]_vars /\ Fairness

-----------------------------------------------------------------------------
(* Properties                                                              *)

Up == start \notin {"down", "mark"}

\* runningAtMs on disk and the runs under way agree, which is what the next
\* start relies on to find the runs a crash cut off (ops.ts:176) and what keeps
\* a job from being blocked for STUCK_RUN_MS: no marker without a run, while
\* every write succeeded, and no run without its marker, unless an update or
\* the two hours took the marker away during the run, or the job was removed.
MarkersMatchRuns ==
  \A j \in DOMAIN disk :
    /\ disk[j].marker # "none" /\ fails = 0 /\ Up => Underway(j)
    /\ Underway(j) /\ j \notin freed => disk[j].marker # "none"

\* A tick, the catch-up and any number of manual calls never run the same job
\* at once (ops.ts:767, 772: "so timer ticks that force-reload from disk cannot
\* start the same job concurrently"), although several calls, and a tick, may
\* have found it free: unless its marker was taken away during the run.
OnlyFreedJobsOverlap ==
  \A j \in Jobs \ freed :
    Cardinality({o \in Origins : run[o][j] \notin {"none", "admitted"}}) <= 1

\* After a start the scheduler stays alive (timer.ts:779-790): while a job is
\* enabled a timer is armed, also during a tick.  After a failed write, memory
\* and disk may differ; then the timer or the tick that will arm it is there
\* for the jobs enabled in both, unless the write was that of a call, which
\* leaves a job in memory that no timer was armed for.
SchedulerAlive ==
  start = "done"
    /\ (\E j \in DOMAIN disk \cap DOMAIN mem : disk[j].enabled /\ mem[j].enabled)
    => /\ fails = 0 => timer
       /\ fails = 1 /\ ~rejected => timer \/ tick # "idle"

\* A one-shot that ended well, or that a crash cut off with its marker on disk,
\* is not run again by a tick or a catch-up (timer.ts:481, ops.ts:113) until an
\* update asks for it, while every write succeeded.
OneShotNotRepeated ==
  [][\A j \in spent, o \in {"tick", "start"} :
       run[o][j] = "none" /\ run'[o][j] # "none" => fails > 0 \/ j \in freed]_vars

\* A due slot goes away by a run of its job, an update of its job or a start,
\* never by a tick, a read or another job's run (jobs.ts:647-653, timer.ts:882,
\* ops.ts:150); it may be moved past the delay after an error.  Two exceptions:
\* add advances the due slots of the other jobs, and a section whose write failed
\* leaves its change in memory for the next section to write.
DueSlotIsNotSkipped ==
  [][\A j \in DOMAIN disk \cap DOMAIN disk' :
       fails = 0 /\ disk[j].enabled /\ disk[j].next = "due" /\ disk'[j].next # "due"
       => \/ \E o \in Origins : run[o][j] \in Outcomes /\ run'[o][j] = "none"
          \/ \E patch \in Patches : Update(j, patch)
          \/ Starting \/ disk[j].backoff \/ used' # used]_vars

\* A due slot of a stored, enabled job does not stay due: the job is run, or
\* the slot moves on.  Not after a failed write: start() gives up on one, and
\* a tick that could not write a result may find no job to arm the timer for.
DueJobRuns ==
  \A j \in Jobs :
    (j \in DOMAIN disk /\ disk[j].enabled /\ disk[j].next = "due")
    ~> (Underway(j) \/ j \notin DOMAIN disk \/ fails > 0
        \/ (j \in DOMAIN disk /\ disk[j].next # "due"))

=============================================================================
