-------------------------- MODULE CronServiceProofs --------------------------
(***************************************************************************)
(* Proofs about CronService, for any jobs, limits and bounds: the types,    *)
(* that the markers in the store agree with the runs under way, that no two *)
(* origins run the same job unless its marker was taken away, that the      *)
(* timer is armed whenever a job needs it, and that a one-shot which ended  *)
(* well is not run again.                                                   *)
(***************************************************************************)
EXTENDS CronService, FiniteSetTheorems, TLAPS

-----------------------------------------------------------------------------
(* Types of what the store's helpers compute.                              *)

LEMMA StoreTyped ==
    ASSUME NEW m, IsStore(m), NEW j \in DOMAIN m
    PROVE  m[j] \in JobState /\ j \in Jobs
  BY DEF IsStore

LEMMA TidiedTyped ==
    ASSUME NEW s \in JobState
    PROVE  Tidied(s) \in JobState
  BY DEF Tidied, JobState

LEMMA RecomputedTyped ==
    ASSUME NEW j \in Jobs, NEW s \in JobState
    PROVE  Recomputed(j, s) \in JobState /\ Recomputed(j, s).marker = s.marker
  <1>1. ComputeNext(j, s) \in {"none", "later", "due"}
    BY DEF ComputeNext, JobState
  <1>2. Recomputed(j, s) \in JobState
    BY <1>1 DEF Recomputed, JobState
  <1>3. Recomputed(j, s).marker = s.marker
    BY DEF Recomputed, JobState
  <1>. QED
    BY <1>2, <1>3

\* The job j of m as a run with outcome `out` leaves it in n: a one-shot stays
\* enabled only to be tried again.
Ended(m, n, j, out) ==
  /\ n[j].marker = "none"
  /\ n[j].enabled => m[j].enabled /\ (j \in OneShots => out = "error")

LEMMA AfterRunTyped ==
    ASSUME NEW j \in Jobs, NEW s \in JobState, NEW out \in Outcomes, NEW retry \in BOOLEAN
    PROVE  /\ AfterRun(j, s, out, retry) \in JobState /\ AfterRun(j, s, out, retry).marker = "none"
           /\ AfterRun(j, s, out, retry).enabled => s.enabled /\ (j \in OneShots => out = "error")
  BY DEF AfterRun, JobState, Outcomes

\* A maintenance leaves the jobs and takes the markers that tidying takes.
LEMMA MaintainedTyped ==
    ASSUME NEW m, IsStore(m), NEW e
    PROVE  /\ IsStore(Maintained(m, e)) /\ DOMAIN Maintained(m, e) = DOMAIN m
           /\ \A j \in DOMAIN m : Maintained(m, e)[j].marker = Tidied(m[j]).marker
  <1>1. DOMAIN Maintained(m, e) = DOMAIN m
    BY DEF Maintained
  <1>2. ASSUME NEW j \in DOMAIN m
        PROVE  /\ Maintained(m, e)[j] \in JobState
               /\ Maintained(m, e)[j].marker = Tidied(m[j]).marker
    <2>1. m[j] \in JobState /\ j \in Jobs
      BY <1>2, StoreTyped
    <2>2. ~Skipped(m[j]) => Tidied(m[j]) = m[j]
      BY <2>1 DEF Skipped, Tidied, JobState
    <2>3. \/ Maintained(m, e)[j] = Tidied(m[j])
          \/ ~Skipped(m[j]) /\ Maintained(m, e)[j] = Recomputed(j, m[j])
      BY Zenon DEF Maintained
    <2>. QED
      BY <2>1, <2>2, <2>3, RecomputedTyped, TidiedTyped
  <1>3. Maintained(m, e) = [j \in DOMAIN m |-> Maintained(m, e)[j]]
    BY Zenon DEF Maintained
  <1>. QED
    BY <1>1, <1>2, <1>3 DEF IsStore

LEMMA RecomputedAllTyped ==
    ASSUME NEW m, IsStore(m)
    PROVE  /\ IsStore(RecomputedAll(m)) /\ DOMAIN RecomputedAll(m) = DOMAIN m
           /\ \A j \in DOMAIN m : RecomputedAll(m)[j].marker = Tidied(m[j]).marker
  <1>1. DOMAIN RecomputedAll(m) = DOMAIN m
    BY DEF RecomputedAll
  <1>2. ASSUME NEW j \in DOMAIN m
        PROVE  /\ RecomputedAll(m)[j] \in JobState
               /\ RecomputedAll(m)[j].marker = Tidied(m[j]).marker
    <2>1. m[j] \in JobState /\ j \in Jobs
      BY <1>2, StoreTyped
    <2>2. ~Skipped(m[j]) => Tidied(m[j]) = m[j]
      BY <2>1 DEF Skipped, Tidied, JobState
    <2>3. \/ RecomputedAll(m)[j] = Tidied(m[j])
          \/ ~Skipped(m[j]) /\ RecomputedAll(m)[j] = Recomputed(j, m[j])
      BY Zenon DEF RecomputedAll
    <2>. QED
      BY <2>1, <2>2, <2>3, RecomputedTyped, TidiedTyped
  <1>3. RecomputedAll(m) = [j \in DOMAIN m |-> RecomputedAll(m)[j]]
    BY Zenon DEF RecomputedAll
  <1>. QED
    BY <1>1, <1>2, <1>3 DEF IsStore

LEMMA MarkedTyped ==
    ASSUME NEW m, IsStore(m), NEW S
    PROVE  /\ IsStore(Marked(m, S)) /\ DOMAIN Marked(m, S) = DOMAIN m
           /\ \A j \in DOMAIN m : Marked(m, S)[j].marker = IF j \in S THEN "set" ELSE m[j].marker
  BY DEF IsStore, Marked, JobState

LEMMA AppliedTyped ==
    ASSUME NEW m, IsStore(m), NEW o, NEW retries
    PROVE  /\ IsStore(Applied(m, o, retries)) /\ DOMAIN Applied(m, o, retries) \subseteq DOMAIN m
           /\ \A j \in DOMAIN Applied(m, o, retries) :
                IF run[o][j] \in Outcomes
                THEN Ended(m, Applied(m, o, retries), j, run[o][j])
                ELSE Applied(m, o, retries)[j] = m[j]
  <1>. USE DEF Ended
  <1>1. DOMAIN Applied(m, o, retries) \subseteq DOMAIN m
    BY DEF Applied
  <1>2. ASSUME NEW j \in DOMAIN Applied(m, o, retries)
        PROVE  /\ Applied(m, o, retries)[j] \in JobState
               /\ IF run[o][j] \in Outcomes
                  THEN Ended(m, Applied(m, o, retries), j, run[o][j])
                  ELSE Applied(m, o, retries)[j] = m[j]
    <2>1. m[j] \in JobState /\ j \in Jobs
      BY <1>1, StoreTyped
    <2>. DEFINE retry == j \in retries
    <2>2. Applied(m, o, retries)[j] =
            IF run[o][j] \in Outcomes THEN AfterRun(j, m[j], run[o][j], retry) ELSE m[j]
      BY DEF Applied
    <2>3. retry \in BOOLEAN
      OBVIOUS
    <2>. HIDE DEF retry
    <2>4. ASSUME NEW out \in Outcomes
          PROVE  /\ AfterRun(j, m[j], out, retry) \in JobState
                 /\ AfterRun(j, m[j], out, retry).marker = "none"
                 /\ AfterRun(j, m[j], out, retry).enabled =>
                      m[j].enabled /\ (j \in OneShots => out = "error")
      BY <2>1, <2>3, AfterRunTyped
    <2>. QED
      BY <2>1, <2>2, <2>4
  <1>3. Applied(m, o, retries) = [j \in DOMAIN Applied(m, o, retries) |-> Applied(m, o, retries)[j]]
    BY Zenon DEF Applied
  <1>. QED
    BY <1>1, <1>2, <1>3, StoreTyped DEF IsStore

LEMMA WithoutTyped ==
    ASSUME NEW m, IsStore(m), NEW j
    PROVE  /\ IsStore(Without(m, j)) /\ DOMAIN Without(m, j) = DOMAIN m \ {j}
           /\ \A i \in DOMAIN m \ {j} : Without(m, j)[i] = m[i]
  BY DEF IsStore, Without

LEMMA PatchedTyped ==
    ASSUME NEW j \in Jobs, NEW s \in JobState, NEW patch \in Patches
    PROVE  Patched(j, s, patch) \in JobState /\ Patched(j, s, patch).marker \in {s.marker, "none"}
  <1>. DEFINE t == CASE patch = "enable" -> [s EXCEPT !.enabled = TRUE]
                     [] patch = "disable" -> [s EXCEPT !.enabled = FALSE]
                     [] patch = "reschedule" -> [s EXCEPT !.at = "ahead"]
                     [] patch = "other" -> s
  <1>1. t \in JobState /\ t.marker = s.marker
    BY DEF JobState, Patches
  <1>2. Recomputed(j, t) \in JobState /\ Recomputed(j, t).marker = s.marker
    BY <1>1, RecomputedTyped
  <1>. HIDE DEF t
  <1>3. [t EXCEPT !.next = "none", !.marker = "none"] \in JobState
    BY <1>1 DEF JobState
  <1>4. [t EXCEPT !.next = "none", !.marker = "none"].marker = "none"
    BY <1>1 DEF JobState
  <1>5. Patched(j, s, patch) \in {s, Recomputed(j, t), [t EXCEPT !.next = "none", !.marker = "none"]}
    BY Zenon DEF Patched, t
  <1>. QED
    BY <1>2, <1>3, <1>4, <1>5

LEMMA InterruptedTyped ==
    ASSUME NEW j \in Jobs, NEW s \in JobState
    PROVE  Interrupted(j, s) \in JobState /\ Interrupted(j, s).marker = "none"
  <1>1. Interrupted(j, s) \in JobState
    BY DEF Interrupted, JobState, Outcomes
  <1>2. Interrupted(j, s).marker = "none"
    BY DEF Interrupted, JobState
  <1>. QED
    BY <1>1, <1>2

\* Time changes no store's jobs, and takes no marker away.
LEMMA TimeTyped ==
    ASSUME NEW m, IsStore(m), NEW j \in Jobs,
           NEW n \in {SlotPassed(m, j), BackoffPassed(m, j), MarkerAged(m, j)}
    PROVE  /\ IsStore(n) /\ DOMAIN n = DOMAIN m
           /\ \A i \in DOMAIN m : n[i].marker = "none" <=> m[i].marker = "none"
  <1>0. ASSUME NEW i \in DOMAIN m
        PROVE  SlotPassed(m, j)[i] \in JobState /\ SlotPassed(m, j)[i].marker = m[i].marker
    <2>1. m[i] \in JobState
      BY StoreTyped
    <2>2. \A at \in {"past", m[i].at} :
            LET s == [m[i] EXCEPT !.next = "due", !.at = at] IN s \in JobState /\ s.marker = m[i].marker
      BY <2>1 DEF JobState
    <2>3. SlotPassed(m, j)[i] # m[i] =>
            SlotPassed(m, j)[i] =
              [m[i] EXCEPT !.next = "due",
                           !.at = IF j \in OneShots /\ m[j].at = "ahead" /\ ~m[j].delayed
                                  THEN "past" ELSE m[i].at]
      BY Zenon DEF SlotPassed
    <2>. QED
      BY <2>1, <2>2, <2>3
  <1>1. DOMAIN SlotPassed(m, j) = DOMAIN m /\ SlotPassed(m, j) = [i \in DOMAIN m |-> SlotPassed(m, j)[i]]
    BY Zenon DEF SlotPassed
  <1>2. IsStore(SlotPassed(m, j))
    BY <1>0, <1>1 DEF IsStore
  <1>3. ASSUME NEW i \in DOMAIN m
        PROVE  BackoffPassed(m, j)[i] \in JobState /\ BackoffPassed(m, j)[i].marker = m[i].marker
    <2>1. m[i] \in JobState
      BY StoreTyped
    <2>2. LET s == [m[i] EXCEPT !.backoff = FALSE] IN s \in JobState /\ s.marker = m[i].marker
      BY <2>1 DEF JobState
    <2>3. BackoffPassed(m, j)[i] = m[i] \/ BackoffPassed(m, j)[i] = [m[i] EXCEPT !.backoff = FALSE]
      BY Zenon DEF BackoffPassed
    <2>. QED
      BY <2>1, <2>2, <2>3
  <1>4. IsStore(BackoffPassed(m, j)) /\ DOMAIN BackoffPassed(m, j) = DOMAIN m
    <2>1. DOMAIN BackoffPassed(m, j) = DOMAIN m
      BY DEF BackoffPassed
    <2>2. BackoffPassed(m, j) = [i \in DOMAIN m |-> BackoffPassed(m, j)[i]]
      BY Zenon DEF BackoffPassed
    <2>. QED
      BY <1>3, <2>1, <2>2 DEF IsStore
  <1>5. IsStore(MarkerAged(m, j)) /\ DOMAIN MarkerAged(m, j) = DOMAIN m
    BY DEF IsStore, MarkerAged, JobState
  <1>6. \A i \in DOMAIN m : MarkerAged(m, j)[i].marker = "none" <=> m[i].marker = "none"
    BY DEF IsStore, MarkerAged, JobState
  <1>. QED
    BY <1>0, <1>1, <1>2, <1>3, <1>4, <1>5, <1>6

-----------------------------------------------------------------------------
(* Type correctness.                                                       *)

LEMMA TypesInit == Init => TypeOK
  <1>. SUFFICES ASSUME Init PROVE TypeOK
    OBVIOUS
  <1>1. NewJob \in JobState
    BY DEF NewJob, JobState
  <1>2. IsStore(disk) /\ IsStore(mem) /\ used \subseteq Jobs
    BY <1>1 DEF Init, IsStore
  <1>3. run \in [Origins -> [Jobs -> Stages]]
    BY DEF Init, NoRuns, Stages
  <1>. QED
    BY <1>2, <1>3 DEF Init, TypeOK

\* Every write stores the copy in memory.
LEMMA WritesMemory ==
    /\ Saved \/ SaveFails \/ SavedIfChanged => disk' = disk \/ disk' = mem'
    /\ Writes => disk' = disk \/ disk' = mem'
  BY DEF Saved, SaveFails, SavedIfChanged, Writes

\* What the plan of the catch-up does to the store in memory: it postpones some
\* slots and marks jobs that have no marker.
LEMMA PlanEffects ==
    ASSUME TypeOK, StartPlans
    PROVE  \E m, now :
             /\ IsStore(m) /\ DOMAIN m = DOMAIN mem
             /\ \A j \in DOMAIN mem : m[j].marker = mem[j].marker /\ m[j].enabled = mem[j].enabled
             /\ \A j \in now : j \in DOMAIN mem /\ mem[j].marker = "none"
             /\ mem' = Marked(m, now)
             /\ deferred' \subseteq Jobs
             /\ \/ /\ Saved \/ (now = {} /\ SavedIfChanged)
                   /\ run' = [run EXCEPT !["start"] =
                                [j \in Jobs |-> IF j \in now THEN "queued" ELSE "none"]]
                   /\ start' \in {"arm", "catchup"} /\ (start' = "arm" => now = {})
                \/ SaveFails /\ start' = "failed" /\ UNCHANGED run
  <1>. USE DEF TypeOK
  <1>. DEFINE held(elapsed) == {j \in elapsed \cap DOMAIN mem :
                                  mem[j].enabled /\ j \notin skip /\ mem[j].marker = "none"
                                  /\ mem[j].status = "error" /\ mem[j].backoff}
              plan(elapsed) == [j \in DOMAIN mem |-> IF j \in held(elapsed)
                                                     THEN [mem[j] EXCEPT !.next = "later"]
                                                     ELSE mem[j]]
              missed(elapsed) == {j \in DOMAIN plan(elapsed) : Missed(plan(elapsed), j, elapsed)}
  <1>1. PICK elapsed \in SUBSET (Jobs \ OneShots) :
        \E now \in SUBSET (missed(elapsed) \ AgentJobs) :
          /\ mem' = Marked(plan(elapsed), now)
          /\ \/ /\ IF missed(elapsed) = {} THEN SavedIfChanged ELSE Saved
                /\ run' = [run EXCEPT !["start"] =
                             [j \in Jobs |-> IF j \in now THEN "queued" ELSE "none"]]
                /\ deferred' = missed(elapsed) \ now
                /\ start' = IF missed(elapsed) = {} THEN "arm" ELSE "catchup"
             \/ /\ SaveFails /\ (missed(elapsed) # {} \/ plan(elapsed) # mem)
                /\ start' = "failed" /\ UNCHANGED <<run, deferred>>
    BY Zenon DEF StartPlans
  <1>p. PICK now \in SUBSET (missed(elapsed) \ AgentJobs) :
          /\ mem' = Marked(plan(elapsed), now)
          /\ \/ /\ IF missed(elapsed) = {} THEN SavedIfChanged ELSE Saved
                /\ run' = [run EXCEPT !["start"] =
                             [j \in Jobs |-> IF j \in now THEN "queued" ELSE "none"]]
                /\ deferred' = missed(elapsed) \ now
                /\ start' = IF missed(elapsed) = {} THEN "arm" ELSE "catchup"
             \/ /\ SaveFails /\ (missed(elapsed) # {} \/ plan(elapsed) # mem)
                /\ start' = "failed" /\ UNCHANGED <<run, deferred>>
    BY <1>1, Zenon
  <1>. DEFINE m == plan(elapsed)
  <1>2. ASSUME NEW j \in DOMAIN mem
        PROVE  m[j] \in JobState /\ m[j].marker = mem[j].marker /\ m[j].enabled = mem[j].enabled
    <2>1. mem[j] \in JobState
      BY StoreTyped
    <2>2. m[j] = mem[j] \/ m[j] = [mem[j] EXCEPT !.next = "later"]
      OBVIOUS
    <2>. QED
      BY <2>1, <2>2 DEF JobState
  <1>3. DOMAIN m = DOMAIN mem
    OBVIOUS
  <1>4. IsStore(m)
    <2>1. m = [j \in DOMAIN mem |-> m[j]]
      OBVIOUS
    <2>. HIDE DEF m
    <2>. QED
      BY <1>2, <1>3, <2>1 DEF IsStore
  <1>5. \A j \in missed(elapsed) : j \in DOMAIN mem /\ m[j].marker = "none"
    BY DEF Missed, Runnable
  <1>6. missed(elapsed) \subseteq Jobs
    BY DEF IsStore
  <1>. DEFINE found == missed(elapsed)
  <1>7. /\ now \subseteq found /\ found \subseteq Jobs
        /\ \A j \in found : j \in DOMAIN mem /\ m[j].marker = "none"
        /\ mem' = Marked(m, now)
        /\ \/ /\ IF found = {} THEN SavedIfChanged ELSE Saved
              /\ run' = [run EXCEPT !["start"] =
                           [j \in Jobs |-> IF j \in now THEN "queued" ELSE "none"]]
              /\ deferred' = found \ now
              /\ start' = IF found = {} THEN "arm" ELSE "catchup"
           \/ SaveFails /\ start' = "failed" /\ UNCHANGED <<run, deferred>>
    BY <1>p, <1>5, <1>6
  <1>. HIDE DEF m, found
  <1>8. \A j \in now : j \in DOMAIN mem /\ mem[j].marker = "none"
    BY <1>2, <1>7
  <1>9. deferred' \subseteq Jobs
    BY <1>7
  <1>10. \/ /\ Saved \/ (now = {} /\ SavedIfChanged)
            /\ run' = [run EXCEPT !["start"] =
                         [j \in Jobs |-> IF j \in now THEN "queued" ELSE "none"]]
            /\ start' \in {"arm", "catchup"} /\ (start' = "arm" => now = {})
         \/ SaveFails /\ start' = "failed" /\ UNCHANGED run
    BY <1>7
  <1>. QED
    BY <1>2, <1>3, <1>4, <1>7, <1>8, <1>9, <1>10

\* What the outcomes of the catch-up do: the runs' jobs lose their markers, then
\* everything is tidied.
LEMMA CatchupEffects ==
    ASSUME TypeOK, StartApplies
    PROVE  \E n :
             /\ IsStore(n) /\ DOMAIN n \subseteq DOMAIN mem
             /\ \A j \in DOMAIN n :
                  IF run["start"][j] \in Outcomes
                  THEN Ended(mem, n, j, run["start"][j])
                  ELSE n[j].marker = mem[j].marker /\ n[j].enabled = mem[j].enabled
             /\ mem' = Maintained(n, FALSE)
  <1>. USE DEF Ended
  <1>. USE DEF TypeOK
  <1>1. PICK retries :
          LET m == Applied(mem, "start", retries)
          IN mem' = Maintained([j \in DOMAIN m |->
                                  IF j \in deferred /\ m[j].enabled
                                  THEN [m[j] EXCEPT !.next = "later", !.delayed = j \in OneShots]
                                  ELSE m[j]], FALSE)
    BY DEF StartApplies
  <1>. DEFINE m == Applied(mem, "start", retries)
              n == [j \in DOMAIN m |->
                      IF j \in deferred /\ m[j].enabled
                      THEN [m[j] EXCEPT !.next = "later", !.delayed = j \in OneShots]
                      ELSE m[j]]
  <1>2. /\ IsStore(m) /\ DOMAIN m \subseteq DOMAIN mem
        /\ \A j \in DOMAIN m : IF run["start"][j] \in Outcomes
                               THEN Ended(mem, m, j, run["start"][j])
                               ELSE m[j] = mem[j]
    BY AppliedTyped
  <1>. HIDE DEF m
  <1>3. ASSUME NEW j \in DOMAIN m
        PROVE  n[j] \in JobState /\ n[j].marker = m[j].marker /\ n[j].enabled = m[j].enabled
    <2>1. m[j] \in JobState /\ (j \in OneShots) \in BOOLEAN
      BY <1>2, StoreTyped
    <2>2. LET s == [m[j] EXCEPT !.next = "later", !.delayed = j \in OneShots]
          IN s \in JobState /\ s.marker = m[j].marker /\ s.enabled = m[j].enabled
      BY <2>1 DEF JobState
    <2>. QED
      BY <2>1, <2>2
  <1>4. IsStore(n) /\ DOMAIN n = DOMAIN m
    BY <1>2, <1>3 DEF IsStore
  <1>5. mem' = Maintained(n, FALSE)
    BY <1>1 DEF m
  <1>. HIDE DEF n
  <1>. QED
    BY <1>2, <1>3, <1>4, <1>5

\* What the result of a manual run does: its job loses its marker, then
\* everything that is on disk is tidied.
LEMMA ManualEffects ==
    ASSUME TypeOK, NEW c \in Callers, NEW j \in DOMAIN mem, ManualApplies(c, j)
    PROVE  \E n : /\ IsStore(n) /\ DOMAIN n \subseteq DOMAIN disk /\ DOMAIN disk \ {j} \subseteq DOMAIN n
                  /\ \A i \in DOMAIN n : IF i = j THEN Ended(mem, n, j, run[c][j]) ELSE n[i] = disk[i]
                  /\ mem' = Maintained(n, TRUE)
  <1>. USE DEF Ended
  <1>. USE DEF TypeOK
  <1>1. j \in DOMAIN mem /\ j \in Jobs /\ run[c][j] \in Outcomes
    BY DEF ManualApplies, IsStore
  <1>. DEFINE out == run[c][j]
              merged(retry) ==
                IF Deleted(j, out) THEN Without(disk, j)
                ELSE [i \in DOMAIN disk |->
                        IF i = j THEN [AfterRun(j, mem[j], out, retry) EXCEPT
                                         !.at = AfterRun(j, disk[j], out, retry).at]
                                 ELSE disk[i]]
  <1>2. PICK retry \in BOOLEAN : mem' = Maintained(merged(retry), TRUE)
    BY Zenon DEF ManualApplies
  <1>. DEFINE x == [AfterRun(j, mem[j], out, retry) EXCEPT !.at = AfterRun(j, disk[j], out, retry).at]
              n == merged(retry)
  <1>3. ASSUME j \in DOMAIN disk
        PROVE  /\ x \in JobState /\ x.marker = "none"
               /\ x.enabled => mem[j].enabled /\ (j \in OneShots => out = "error")
    <2>1. /\ AfterRun(j, mem[j], out, retry) \in JobState
          /\ AfterRun(j, disk[j], out, retry) \in JobState
          /\ AfterRun(j, mem[j], out, retry).marker = "none"
          /\ AfterRun(j, mem[j], out, retry).enabled =>
               mem[j].enabled /\ (j \in OneShots => out = "error")
      BY <1>1, <1>3, StoreTyped, AfterRunTyped
    <2>. QED
      BY <2>1 DEF JobState
  <1>4. CASE Deleted(j, out)
    <2>1. n = Without(disk, j)
      BY <1>4
    <2>. HIDE DEF n, merged
    <2>2. mem' = Maintained(n, TRUE)
      BY <1>2 DEF n
    <2>. QED
      <3>1. /\ IsStore(n) /\ DOMAIN n = DOMAIN disk \ {j}
            /\ \A i \in DOMAIN n : i # j /\ n[i] = disk[i]
        <4>1. /\ IsStore(Without(disk, j)) /\ DOMAIN Without(disk, j) = DOMAIN disk \ {j}
              /\ \A i \in DOMAIN disk \ {j} : Without(disk, j)[i] = disk[i]
          BY WithoutTyped, Zenon
        <4>. QED
          BY <2>1, <4>1
      <3>2. /\ IsStore(n) /\ DOMAIN n \subseteq DOMAIN disk /\ DOMAIN disk \ {j} \subseteq DOMAIN n
            /\ \A i \in DOMAIN n : IF i = j THEN Ended(mem, n, j, run[c][j]) ELSE n[i] = disk[i]
        BY <3>1
      <3>. QED
        BY <1>1, <2>2, <3>2, Zenon
  <1>5. CASE ~Deleted(j, out)
    <2>1. n = [i \in DOMAIN disk |-> IF i = j THEN x ELSE disk[i]]
      BY <1>5
    <2>. HIDE DEF n, merged, x
    <2>2. IsStore(n)
      BY <1>3, <2>1, StoreTyped DEF IsStore
    <2>3. mem' = Maintained(n, TRUE)
      BY <1>2 DEF n
    <2>. QED
      BY <1>1, <1>3, <2>1, <2>2, <2>3
  <1>. QED
    BY <1>4, <1>5

LEMMA MemoryTyped ==
    ASSUME TypeOK, Next
    PROVE  IsStore(mem') /\ (disk' = disk \/ disk' = mem' \/ IsStore(disk'))
  <1>. USE DEF TypeOK
  <1>1. CASE Start \/ TimerFires \/ TickEnds \/ TimerFiresDuringTick
    BY <1>1 DEF Start, TimerFires, TickEnds, TimerFiresDuringTick, store
  <1>2. CASE StartMarks
    <2>1. IsStore(mem')
      BY <1>2, StoreTyped, InterruptedTyped DEF StartMarks, IsStore
    <2>. QED
      BY <1>2, <2>1, WritesMemory DEF StartMarks
  <1>3. CASE StartPlans
    <2>1. IsStore(mem')
      BY <1>3, PlanEffects, MarkedTyped
    <2>. QED
      BY <1>3, <2>1, WritesMemory DEF StartPlans
  <1>4. CASE StartApplies
    <2>1. IsStore(mem')
      <3>1. PICK n : IsStore(n) /\ mem' = Maintained(n, FALSE)
        BY <1>4, CatchupEffects
      <3>. QED
        BY <3>1, MaintainedTyped
    <2>. QED
      BY <1>4, <2>1, WritesMemory DEF StartApplies
  <1>5. CASE StartArms \/ Read
    <2>1. mem' = Maintained(mem, TRUE) \/ mem' = Maintained(mem, FALSE)
      BY <1>5 DEF StartArms, Read
    <2>2. IsStore(mem')
      BY <2>1, MaintainedTyped
    <2>. QED
      BY <1>5, <2>2, WritesMemory DEF StartArms, Read
  <1>6. CASE TickCollects
    <2>1. IsStore(mem')
      BY <1>6, MaintainedTyped, MarkedTyped DEF TickCollects
    <2>. QED
      BY <1>6, <2>1, WritesMemory DEF TickCollects
  <1>7. CASE TickApplies
    <2>1. PICK retries : mem' = Maintained(Applied(disk, "tick", retries), FALSE)
      BY <1>7 DEF TickApplies
    <2>2. IsStore(Applied(disk, "tick", retries))
      BY AppliedTyped
    <2>3. IsStore(mem')
      BY <2>1, <2>2, MaintainedTyped
    <2>. QED
      BY <1>7, <2>3, WritesMemory DEF TickApplies
  <1>8. ASSUME NEW o \in Origins, NEW j \in Jobs, Running(o, j)
        PROVE  UNCHANGED store
    BY <1>8 DEF Running, RunStarts, RunEnds
  <1>9. ASSUME NEW c \in Callers, NEW j \in Jobs, NEW forced, ManualAdmitted(c, j, forced)
        PROVE  IsStore(mem') /\ disk' = disk
    BY <1>9, MaintainedTyped DEF ManualAdmitted
  <1>10. ASSUME NEW c \in Callers, NEW j \in Jobs, ManualPrepared(c, j)
         PROVE  IsStore(mem') /\ (disk' = disk \/ disk' = mem')
    BY <1>10, MarkedTyped, WritesMemory DEF ManualPrepared, store
  <1>11. ASSUME NEW c \in Callers, NEW j \in Jobs, ManualApplies(c, j)
         PROVE  IsStore(mem') /\ (disk' = disk \/ disk' = mem')
    <2>1. CASE j \notin DOMAIN mem
      BY <1>11, <2>1 DEF ManualApplies, store
    <2>2. CASE j \in DOMAIN mem
      <3>1. IsStore(mem')
        <4>1. PICK n : IsStore(n) /\ mem' = Maintained(n, TRUE)
          BY <1>11, <2>2, ManualEffects
        <4>. QED
          BY <4>1, MaintainedTyped
      <3>. QED
        BY <1>11, <2>2, <3>1, WritesMemory DEF ManualApplies
    <2>. QED
      BY <2>1, <2>2
  <1>12. ASSUME NEW j \in Jobs, Add(j)
         PROVE  IsStore(mem') /\ (disk' = disk \/ disk' = mem')
    <2>. DEFINE m == [i \in DOMAIN mem \cup {j} |-> IF i = j THEN NewJob ELSE mem[i]]
    <2>1. NewJob \in JobState
      BY DEF NewJob, JobState
    <2>2. IsStore(m)
      BY <2>1, StoreTyped DEF IsStore
    <2>3. mem' = RecomputedAll(m)
      BY <1>12 DEF Add
    <2>. HIDE DEF m
    <2>. QED
      BY <1>12, <2>2, <2>3, RecomputedAllTyped, WritesMemory DEF Add
  <1>13. ASSUME NEW j \in Jobs, NEW patch \in Patches, Update(j, patch)
         PROVE  IsStore(mem') /\ (disk' = disk \/ disk' = mem')
    <2>1. j \in DOMAIN mem /\ Patched(j, mem[j], patch) \in JobState
      BY <1>13, StoreTyped, PatchedTyped DEF Update
    <2>2. IsStore(mem')
      BY <1>13, <2>1 DEF Update, IsStore
    <2>. QED
      BY <1>13, <2>2, WritesMemory DEF Update
  <1>14. ASSUME NEW j \in Jobs, Remove(j)
         PROVE  IsStore(mem') /\ (disk' = disk \/ disk' = mem')
    BY <1>14, WithoutTyped, WritesMemory DEF Remove
  <1>15. ASSUME NEW j \in Jobs, Time(j)
         PROVE  IsStore(mem') /\ IsStore(disk')
    BY <1>15, TimeTyped DEF Time, SlotComesDue, BackoffEnds, MarkerGetsOld, Clock
  <1>16. CASE Crash
    BY <1>16 DEF Crash, IsStore
  <1>. QED
    BY <1>1, <1>2, <1>3, <1>4, <1>5, <1>6, <1>7, <1>8, <1>9, <1>10, <1>11, <1>12, <1>13, <1>14,
       <1>15, <1>16
       DEF Next, Starting, Ticking, ManualRuns, Calls, store

LEMMA SetsTyped ==
    ASSUME TypeOK, Next, IsStore(mem')
    PROVE  /\ skip' \subseteq Jobs /\ deferred' \subseteq Jobs
           /\ used' \subseteq Jobs /\ spent' \subseteq OneShots /\ freed' \subseteq Jobs
  <1>. USE DEF TypeOK
  <1>1. DOMAIN mem \subseteq Jobs /\ DOMAIN disk \subseteq Jobs /\ FreedBy(mem) \subseteq Jobs
        /\ FreedBy(disk) \subseteq Jobs
    BY DEF IsStore, FreedBy
  <1>2. skip' \subseteq Jobs /\ used' \subseteq Jobs
    BY <1>1
       DEF Next, Starting, Start, StartMarks, StartPlans, StartApplies, StartArms, Ticking, TimerFires,
           TimerFiresDuringTick, TickCollects, TickApplies, TickEnds, Running, RunStarts, RunEnds,
           ManualRuns, ManualPrepared, ManualApplies, Calls, ManualAdmitted, Add, Update, Remove, Read,
           Time, Clock, SlotComesDue, BackoffEnds, MarkerGetsOld, Crash, counters, startVars
  <1>3. deferred' \subseteq Jobs
    <2>1. CASE StartPlans
      BY <2>1, PlanEffects
    <2>2. CASE ~StartPlans
      BY <2>2
         DEF Next, Starting, Start, StartMarks, StartApplies, StartArms, Ticking, TimerFires,
             TimerFiresDuringTick, TickCollects, TickApplies, TickEnds, Running, RunStarts, RunEnds,
             ManualRuns, ManualPrepared, ManualApplies, Calls, ManualAdmitted, Add, Update, Remove, Read,
             Time, Clock, SlotComesDue, BackoffEnds, MarkerGetsOld, Crash, startVars
    <2>. QED
      BY <2>1, <2>2
  <1>4. spent' \subseteq OneShots
    BY DEF Next, Starting, Start, StartMarks, StartPlans, StartApplies, StartArms, Ticking, TimerFires,
           TimerFiresDuringTick, TickCollects, TickApplies, TickEnds, Running, RunStarts, RunEnds,
           ManualRuns, ManualPrepared, ManualApplies, Calls, ManualAdmitted, Add, Update, Remove, Read,
           Time, Clock, SlotComesDue, BackoffEnds, MarkerGetsOld, Crash, history
  <1>5. freed' \subseteq Jobs
    BY <1>1
       DEF Next, Starting, Start, StartMarks, StartPlans, StartApplies, StartArms, Ticking, TimerFires,
           TimerFiresDuringTick, TickCollects, TickApplies, TickEnds, Running, RunStarts, RunEnds,
           ManualRuns, ManualPrepared, ManualApplies, Calls, ManualAdmitted, Add, Update, Remove, Read,
           Time, Clock, SlotComesDue, BackoffEnds, MarkerGetsOld, Crash, history
  <1>. QED
    BY <1>2, <1>3, <1>4, <1>5

LEMMA RunTyped ==
    ASSUME TypeOK, Next
    PROVE  run' \in [Origins -> [Jobs -> Stages]]
  <1>. USE DEF TypeOK
  <1>1. CASE UNCHANGED run
    BY <1>1
  <1>2. ASSUME NEW o \in Origins, run' = EndBatch(o)
        PROVE  run' \in [Origins -> [Jobs -> Stages]]
    BY <1>2 DEF EndBatch, Stages
  <1>3. ASSUME NEW o \in Origins, NEW S,
               run' = [run EXCEPT ![o] = [j \in Jobs |-> IF j \in S THEN "queued" ELSE "none"]]
        PROVE  run' \in [Origins -> [Jobs -> Stages]]
    BY <1>3 DEF Stages
  <1>4. ASSUME NEW o \in Origins, NEW j \in Jobs, NEW stage \in Stages, run' = [run EXCEPT ![o][j] = stage]
        PROVE  run' \in [Origins -> [Jobs -> Stages]]
    BY <1>4
  <1>5. /\ "start" \in Origins /\ "tick" \in Origins /\ Callers \subseteq Origins
        /\ {"none", "admitted", "running"} \subseteq Stages /\ Outcomes \subseteq Stages
    BY DEF Origins, Stages
  <1>6. CASE StartPlans
    <2>1. UNCHANGED run \/ \E now : run' = [run EXCEPT !["start"] =
                                       [j \in Jobs |-> IF j \in now THEN "queued" ELSE "none"]]
      BY <1>6, PlanEffects
    <2>. QED
      BY <1>1, <1>3, <1>5, <2>1
  <1>7. CASE StartApplies \/ TickApplies
    BY <1>7, <1>2, <1>5 DEF StartApplies, TickApplies
  <1>8. CASE TickCollects
    BY <1>8, <1>1, <1>3, <1>5 DEF TickCollects
  <1>9. ASSUME NEW j \in Jobs, NEW o \in Origins, Running(o, j)
        PROVE  run' \in [Origins -> [Jobs -> Stages]]
    BY <1>9, <1>4, <1>5 DEF Running, RunStarts, RunEnds
  <1>10. ASSUME NEW j \in Jobs, Calls(j) \/ \E c \in Callers : ManualRuns(c, j)
         PROVE  run' \in [Origins -> [Jobs -> Stages]]
    <2>1. UNCHANGED run \/ \E c \in Callers, stage \in {"none", "admitted", "running"} :
                            run' = [run EXCEPT ![c][j] = stage]
      BY <1>10
         DEF ManualRuns, ManualPrepared, ManualApplies, Calls, ManualAdmitted, Add, Update, Remove
    <2>. QED
      BY <1>1, <1>4, <1>5, <2>1
  <1>11. CASE Crash
    BY <1>11 DEF Crash, NoRuns, Stages
  <1>. QED
    BY <1>1, <1>6, <1>7, <1>8, <1>9, <1>10, <1>11
       DEF Next, Starting, Start, StartMarks, StartArms, Ticking, TimerFires, TimerFiresDuringTick,
           TickEnds, Read, Time, Clock, SlotComesDue, BackoffEnds, MarkerGetsOld

LEMMA PlacesTyped ==
    ASSUME TypeOK, Next
    PROVE  /\ timer' \in BOOLEAN /\ rejected' \in BOOLEAN
           /\ start' \in {"down", "mark", "plan", "catchup", "arm", "done", "failed"}
           /\ tick' \in {"idle", "collect", "run", "end"}
           /\ calls' \in Nat /\ crashes' \in Nat /\ fails' \in Nat
  <1>. USE DEF TypeOK
  <1>w. Saved \/ SaveFails \/ SavedIfChanged \/ Writes => fails' \in Nat
    BY DEF Saved, SaveFails, SavedIfChanged, Writes
  <1>1. CASE Starting
    BY <1>1, <1>w, PlanEffects
       DEF Starting, Start, StartMarks, StartPlans, StartApplies, StartArms, ArmTimer, counters, history
  <1>2. CASE Ticking \/ TimerFiresDuringTick \/ Read
    BY <1>2, <1>w
       DEF Ticking, TimerFires, TimerFiresDuringTick, TickCollects, TickApplies, TickEnds, Read,
           ArmRecheck, startVars, counters, history
  <1>3. ASSUME NEW j \in Jobs,
               \/ \E c \in Callers : ManualRuns(c, j)
               \/ Time(j)
               \/ \E o \in Origins : Running(o, j)
        PROVE  /\ timer' \in BOOLEAN /\ rejected' \in BOOLEAN /\ UNCHANGED <<start, tick>>
               /\ calls' \in Nat /\ crashes' \in Nat /\ fails' \in Nat
    BY <1>3, <1>w
       DEF ManualRuns, ManualPrepared, ManualApplies, Time, Clock, SlotComesDue, BackoffEnds, MarkerGetsOld,
           Running, RunStarts, RunEnds, ArmTimer, startVars, counters, history, store
  <1>4. ASSUME NEW j \in Jobs, Calls(j)
        PROVE  /\ timer' \in BOOLEAN /\ rejected' \in BOOLEAN /\ UNCHANGED <<start, tick>>
               /\ calls' \in Nat /\ crashes' \in Nat /\ fails' \in Nat
    <2>1. ASSUME Writes
          PROVE  timer' \in BOOLEAN /\ rejected' \in BOOLEAN
      BY <2>1 DEF Writes, ArmTimer
    <2>2. ASSUME NEW c \in Callers, NEW forced, ManualAdmitted(c, j, forced)
          PROVE  UNCHANGED <<timer, rejected, start, tick, crashes, fails>> /\ calls' = calls + 1
      BY <2>2 DEF ManualAdmitted, startVars
    <2>3. ASSUME NEW patch, Add(j) \/ Update(j, patch) \/ Remove(j)
          PROVE  Writes /\ UNCHANGED <<start, tick, crashes>> /\ calls' = calls + 1
      BY <2>3 DEF Add, Update, Remove, startVars
    <2>4. \/ UNCHANGED <<timer, rejected, fails>> \/ Writes
      BY <1>4, <2>2, <2>3 DEF Calls
    <2>5. UNCHANGED <<start, tick, crashes>> /\ calls' = calls + 1
      BY <1>4, <2>2, <2>3 DEF Calls
    <2>6. timer' \in BOOLEAN /\ rejected' \in BOOLEAN
      BY <2>1, <2>4
    <2>7. fails' \in Nat
      BY <1>w, <2>4
    <2>8. calls' \in Nat /\ crashes' \in Nat
      BY <2>5
    <2>. QED
      BY <2>5, <2>6, <2>7, <2>8, Zenon
  <1>5. CASE Crash
    <2>1. /\ crashes' = crashes + 1 /\ start' = "down" /\ timer' = FALSE /\ tick' = "idle"
          /\ UNCHANGED <<calls, fails, rejected>>
      BY <1>5 DEF Crash
    <2>2. calls' \in Nat /\ crashes' \in Nat /\ fails' \in Nat
      BY <2>1
    <2>3. timer' \in BOOLEAN /\ rejected' \in BOOLEAN
      BY <2>1, Zenon
    <2>. QED
      BY <2>1, <2>2, <2>3
  <1>. QED
    BY <1>1, <1>2, <1>3, <1>4, <1>5 DEF Next

LEMMA TypesStep == TypeOK /\ [Next]_vars => TypeOK'
  <1>1. ASSUME TypeOK, Next
        PROVE  TypeOK'
    <2>1. IsStore(mem') /\ IsStore(disk')
      BY <1>1, MemoryTyped DEF TypeOK
    <2>. QED
      BY <1>1, <2>1, SetsTyped, RunTyped, PlacesTyped DEF TypeOK
  <1>2. TypeOK /\ UNCHANGED vars => TypeOK'
    BY DEF TypeOK, vars, store, startVars, counters, history
  <1>. QED
    BY <1>1, <1>2

-----------------------------------------------------------------------------
(* The invariant.                                                          *)

At(o) == {j \in Jobs : run[o][j] \notin {"none", "admitted"}}
Busy == {j \in Jobs : Underway(j)}
Marks(m, S) == \A j \in DOMAIN m : j \in S => m[j].marker # "none"
OnlyMarks(m, S) == \A j \in DOMAIN m : m[j].marker # "none" => j \in S

\* Both stores hold the marker of every run that did not lose it ...
Markers == Marks(disk, Busy \ freed) /\ Marks(mem, Busy \ freed)
\* ... so that no second run of such a job is begun: each of them tests one.
Sole == \A j \in Jobs \ freed : \A o, p \in Origins : j \in At(o) /\ j \in At(p) => o = p
\* Where batches can be, and that ids are given out before they are used.
Placed ==
  /\ start # "catchup" => Batch("start") = {}
  /\ tick # "run" => Batch("tick") = {}
  /\ ~Up => run = NoRuns /\ tick = "idle" /\ timer = FALSE
  /\ \A o \in Origins : Batch(o) \subseteq used
  /\ DOMAIN disk \subseteq used /\ DOMAIN mem \subseteq used
\* While no write failed, the stores agree and no marker outlives its run.
Synced == fails = 0 /\ Up =>
  DOMAIN mem = DOMAIN disk /\ OnlyMarks(disk, Busy) /\ OnlyMarks(mem, Busy)

IInv == TypeOK /\ Markers /\ Sole /\ Placed /\ Synced

LEMMA BusyIs ==
    /\ \A j \in Jobs : (j \in Busy <=> Underway(j)) /\ (j \in Busy <=> \E o \in Origins : j \in At(o))
    /\ \A j \in Jobs : (j \in Busy' <=> Underway(j)') /\ (j \in Busy' <=> \E o \in Origins : j \in At(o)')
    /\ Busy \subseteq Jobs /\ Busy' \subseteq Jobs
  BY DEF Busy, At, Underway

\* Tidying takes the markers of the runs it adds to `freed`, and gives none.
LEMMA TidyKeeps ==
    ASSUME NEW m, IsStore(m), Marks(m, Busy \ freed), NEW n, DOMAIN n = DOMAIN m,
           \A j \in DOMAIN m : n[j].marker = Tidied(m[j]).marker
    PROVE  /\ Marks(n, Busy \ FreedBy(m))
           /\ \A S : OnlyMarks(m, S) => OnlyMarks(n, S)
           /\ freed \subseteq FreedBy(m)
  <1>1. ASSUME NEW j \in DOMAIN m, Tidied(m[j]).marker # "none"
        PROVE  m[j].marker # "none"
    <2>1. m[j] \in JobState
      BY StoreTyped
    <2>. QED
      BY <1>1, <2>1 DEF Tidied, JobState
  <1>2. ASSUME NEW j \in DOMAIN m, j \in Busy, j \notin FreedBy(m)
        PROVE  n[j].marker # "none"
    BY <1>2, BusyIs DEF FreedBy, Marks, Busy
  <1>3. freed \subseteq FreedBy(m)
    BY DEF FreedBy
  <1>. QED
    BY <1>1, <1>2, <1>3 DEF Marks, OnlyMarks

LEMMA SameRuns ==
    ASSUME run' = run
    PROVE  /\ \A o \in Origins : At(o)' = At(o) /\ Batch(o)' = Batch(o)
           /\ Busy' = Busy
  BY DEF At, Batch, Busy, Underway

\* The end of a batch whose runs have all ended.
LEMMA BatchEnds ==
    ASSUME TypeOK, NEW o \in Origins, run' = EndBatch(o),
           \A j \in Batch(o) : run[o][j] \in Outcomes
    PROVE  /\ At(o)' = {} /\ Batch(o)' = {} /\ At(o) = Batch(o)
           /\ \A p \in Origins \ {o} : At(p)' = At(p) /\ Batch(p)' = Batch(p)
           /\ \A j \in Jobs : j \in At(o) <=> run[o][j] \in Outcomes
  <1>1. /\ run'[o] = [j \in Jobs |-> "none"]
        /\ \A p \in Origins \ {o} : run'[p] = run[p]
    BY DEF TypeOK, EndBatch
  <1>2. At(o)' = {} /\ Batch(o)' = {}
    BY <1>1 DEF At, Batch
  <1>3. \A p \in Origins \ {o} : At(p)' = At(p) /\ Batch(p)' = Batch(p)
    BY <1>1 DEF At, Batch
  <1>. QED
    BY <1>2, <1>3 DEF At, Batch, Outcomes

\* The beginning of the runs of S, none of which was in the batch.
LEMMA BatchBegins ==
    ASSUME TypeOK, NEW o \in Origins, NEW S \in SUBSET Jobs, Batch(o) = {},
           run' = [run EXCEPT ![o] = [j \in Jobs |-> IF j \in S THEN "queued" ELSE "none"]]
    PROVE  /\ At(o)' = S /\ Batch(o)' = S /\ At(o) = {}
           /\ \A p \in Origins \ {o} : At(p)' = At(p) /\ Batch(p)' = Batch(p)
           /\ Busy' = Busy \cup S
  <1>1. /\ run'[o] = [j \in Jobs |-> IF j \in S THEN "queued" ELSE "none"]
        /\ \A p \in Origins \ {o} : run'[p] = run[p]
    BY DEF TypeOK
  <1>2. At(o)' = S /\ Batch(o)' = S /\ At(o) = {}
    BY <1>1 DEF At, Batch
  <1>3. \A p \in Origins \ {o} : At(p)' = At(p) /\ Batch(p)' = Batch(p)
    BY <1>1 DEF At, Batch
  <1>. QED
    BY <1>2, <1>3, BusyIs

\* One run moves on.
LEMMA OneRun ==
    ASSUME TypeOK, NEW o \in Origins, NEW j \in Jobs, NEW stage \in Stages,
           run' = [run EXCEPT ![o][j] = stage]
    PROVE  /\ \A p \in Origins \ {o} : At(p)' = At(p) /\ Batch(p)' = Batch(p)
           /\ \A i \in Jobs \ {j} : (i \in At(o)' <=> i \in At(o)) /\ (i \in Batch(o)' <=> i \in Batch(o))
           /\ j \in At(o)' <=> stage \notin {"none", "admitted"}
           /\ j \in Batch(o)' <=> stage # "none"
           /\ j \in At(o) <=> run[o][j] \notin {"none", "admitted"}
           /\ j \in Batch(o) <=> run[o][j] # "none"
  <1>1. /\ \A p \in Origins \ {o} : run'[p] = run[p]
        /\ \A i \in Jobs \ {j} : run'[o][i] = run[o][i]
        /\ run'[o][j] = stage
    BY DEF TypeOK
  <1>. QED
    BY <1>1 DEF At, Batch

\* No run begins, and markers are taken only from runs that count as freed.
LEMMA SoleKept ==
    ASSUME Sole, \A o \in Origins : At(o)' \subseteq At(o), freed \cap Busy' \subseteq freed'
    PROVE  Sole'
  <1>1. ASSUME NEW j \in Jobs \ freed', NEW o \in Origins, NEW p \in Origins, j \in At(o)', j \in At(p)'
        PROVE  o = p
    <2>1. j \in Busy'
      BY <1>1, BusyIs
    <2>. QED
      BY <1>1, <2>1 DEF Sole
  <1>. QED
    BY <1>1 DEF Sole

\* The runs of S begin, none of which had a marker in m.
LEMMA SoleGrows ==
    ASSUME Sole, NEW m, Marks(m, Busy \ freed), NEW o \in Origins, NEW S \in SUBSET Jobs,
           S \subseteq DOMAIN m, \A j \in S : m[j].marker = "none",
           At(o)' \subseteq At(o) \cup S, \A p \in Origins \ {o} : At(p)' = At(p),
           freed' = freed
    PROVE  Sole'
  <1>1. \A j \in S \ freed : j \notin Busy
    BY DEF Marks
  <1>2. ASSUME NEW j \in Jobs \ freed', NEW p \in Origins, NEW q \in Origins, j \in At(p)', j \in At(q)'
        PROVE  p = q
    <2>1. CASE j \in S
      <3>1. \A r \in Origins : j \notin At(r)
        BY <1>1, <2>1, BusyIs
      <3>. QED
        BY <1>2, <3>1
    <2>2. CASE j \notin S
      <3>1. j \in At(p) /\ j \in At(q)
        BY <1>2, <2>2
      <3>. QED
        BY <3>1 DEF Sole
    <2>. QED
      BY <2>1, <2>2
  <1>. QED
    BY <1>2 DEF Sole

\* What is written to disk is the copy in memory.
LEMMA Written ==
    ASSUME Markers, disk' = disk \/ disk' = mem', Marks(mem', Busy' \ freed'),
           Busy' \ freed' \subseteq Busy \ freed \/ disk' = mem'
    PROVE  Markers'
  BY DEF Markers, Marks

\* A write leaves the stores equal, or it failed and was counted.
LEMMA Equal ==
    ASSUME TypeOK, Saved \/ SaveFails, fails' = 0 /\ Up' => OnlyMarks(mem', Busy')
    PROVE  Synced'
  BY DEF TypeOK, Saved, SaveFails, Synced

-----------------------------------------------------------------------------
(* The steps of the start and of the tick.                                 *)

LEMMA StartSteps ==
    ASSUME IInv, TypeOK', Start \/ StartMarks
    PROVE  Markers' /\ Sole' /\ Synced'
  <1>. USE DEF IInv
  <1>1. ~Up /\ run = NoRuns /\ run' = run /\ freed' = freed
    BY DEF Start, StartMarks, history, Up, Placed
  <1>2. Busy = {} /\ Busy' = {} /\ \A o \in Origins : At(o)' = At(o)
    <2>1. \A o \in Origins : At(o) = {}
      BY <1>1 DEF At, NoRuns
    <2>. QED
      BY <1>1, <2>1, SameRuns, BusyIs
  <1>3. Markers'
    BY <1>2 DEF Markers, Marks
  <1>4. Sole'
    BY <1>1, <1>2, SoleKept
  <1>5. CASE Start
    BY <1>3, <1>4, <1>5 DEF Start, Synced, Up
  <1>6. CASE StartMarks
    <2>1. OnlyMarks(mem', Busy')
      BY <1>6, StoreTyped, InterruptedTyped DEF TypeOK, StartMarks, OnlyMarks
    <2>2. Saved \/ SaveFails
      BY <1>6 DEF StartMarks
    <2>. QED
      BY <1>3, <1>4, <2>1, <2>2, Equal
  <1>. QED
    BY <1>5, <1>6

LEMMA PlanSteps ==
    ASSUME IInv, TypeOK', StartPlans
    PROVE  Markers' /\ Sole' /\ Synced'
  <1>. USE DEF IInv
  <1>1. PICK m, now :
          /\ IsStore(m) /\ DOMAIN m = DOMAIN mem
          /\ \A j \in DOMAIN mem : m[j].marker = mem[j].marker /\ m[j].enabled = mem[j].enabled
          /\ \A j \in now : j \in DOMAIN mem /\ mem[j].marker = "none"
          /\ mem' = Marked(m, now)
          /\ \/ /\ Saved \/ (now = {} /\ SavedIfChanged)
                /\ run' = [run EXCEPT !["start"] =
                             [j \in Jobs |-> IF j \in now THEN "queued" ELSE "none"]]
                /\ start' \in {"arm", "catchup"} /\ (start' = "arm" => now = {})
             \/ SaveFails /\ start' = "failed" /\ UNCHANGED run
    BY PlanEffects
  <1>2. /\ DOMAIN mem' = DOMAIN mem /\ DOMAIN mem \subseteq Jobs
        /\ \A j \in DOMAIN mem : mem'[j].marker = IF j \in now THEN "set" ELSE mem[j].marker
    BY <1>1, MarkedTyped DEF TypeOK, IsStore
  <1>3. freed' = freed /\ start = "plan" /\ "start" \in Origins /\ now \subseteq Jobs
        /\ Batch("start") = {} /\ Up
    BY <1>1, <1>2 DEF StartPlans, history, Origins, Placed, Up
  <1>4. CASE SaveFails /\ UNCHANGED run
    <2>1. Busy' = Busy /\ \A o \in Origins : At(o)' = At(o)
      BY <1>4, SameRuns
    <2>2. Marks(mem', Busy' \ freed')
      BY <1>2, <1>3, <2>1 DEF Markers, Marks
    <2>3. Markers'
      BY <1>3, <1>4, <2>1, <2>2, Written DEF SaveFails
    <2>4. Sole'
      BY <1>3, <2>1, SoleKept
    <2>. QED
      BY <1>4, <2>3, <2>4 DEF SaveFails, Synced, TypeOK
  <1>5. CASE /\ Saved \/ (now = {} /\ SavedIfChanged)
             /\ run' = [run EXCEPT !["start"] =
                          [j \in Jobs |-> IF j \in now THEN "queued" ELSE "none"]]
    <2>1. /\ At("start")' = now /\ Busy' = Busy \cup now /\ At("start") = {}
          /\ \A p \in Origins \ {"start"} : At(p)' = At(p)
      BY <1>3, <1>5, BatchBegins
    <2>2. Marks(mem', Busy' \ freed')
      BY <1>2, <1>3, <2>1 DEF Markers, Marks
    <2>3. disk' = mem' \/ (disk' = disk /\ mem' = mem /\ now = {} /\ UNCHANGED fails)
      BY <1>5 DEF Saved, SavedIfChanged
    <2>4. Markers'
      BY <1>3, <2>1, <2>2, <2>3, Written
    <2>5. Sole'
      <3>1. Marks(mem, Busy \ freed) /\ now \in SUBSET Jobs /\ now \subseteq DOMAIN mem
            /\ \A j \in now : mem[j].marker = "none"
        BY <1>1, <1>3 DEF Markers
      <3>2. At("start")' \subseteq At("start") \cup now
        BY <2>1
      <3>. QED
        BY <1>3, <2>1, <3>1, <3>2, SoleGrows
    <2>6. fails' = fails
      BY <1>5 DEF Saved, SavedIfChanged
    <2>7. Synced'
      BY <1>2, <1>3, <2>1, <2>3, <2>6 DEF Synced, OnlyMarks
    <2>. QED
      BY <2>4, <2>5, <2>7
  <1>. QED
    BY <1>1, <1>4, <1>5

\* A batch ends: its results are in the store n, which is then tidied to mem'.
LEMMA BatchApplied ==
    ASSUME IInv, TypeOK', NEW o \in Origins, run' = EndBatch(o),
           \A j \in Batch(o) : run[o][j] \in Outcomes,
           NEW m \in {disk, mem}, NEW n, IsStore(n), DOMAIN n \subseteq DOMAIN m,
           \A j \in DOMAIN n : IF run[o][j] \in Outcomes
                               THEN n[j].marker = "none"
                               ELSE n[j].marker = m[j].marker /\ n[j].enabled = m[j].enabled,
           mem' = Maintained(n, FALSE), Saved \/ SaveFails, Up,
           freed' = {j \in FreedBy(m) : Underway(j)'}
    PROVE  Markers' /\ Sole' /\ Synced'
  <1>. USE DEF IInv
  <1>1. /\ At(o)' = {} /\ At(o) = Batch(o) /\ \A p \in Origins \ {o} : At(p)' = At(p)
        /\ \A j \in Jobs : j \in At(o) <=> run[o][j] \in Outcomes
    BY BatchEnds
  <1>2. /\ IsStore(m) /\ Marks(m, Busy \ freed) /\ Busy' \subseteq Busy
        /\ freed \subseteq FreedBy(m)
    BY <1>1, BusyIs DEF TypeOK, Markers, FreedBy
  <1>3. \A j \in Busy' : j \in FreedBy(m) => j \in freed'
    BY BusyIs
  <1>4. Sole'
    BY <1>1, <1>2, <1>3, SoleKept
  <1>5. DOMAIN mem' = DOMAIN n /\ \A j \in DOMAIN n : mem'[j].marker = Tidied(n[j]).marker
    BY MaintainedTyped
  <1>6. \A j \in DOMAIN n : n[j] \in JobState /\ m[j] \in JobState /\ j \in Jobs
    BY <1>2, StoreTyped
  <1>7. Marks(mem', Busy' \ freed')
    <2>1. SUFFICES ASSUME NEW j \in DOMAIN n, j \in Busy', j \notin freed'
                   PROVE  mem'[j].marker # "none"
      BY <1>5 DEF Marks
    <2>2. j \in Busy /\ j \notin FreedBy(m) /\ j \notin freed /\ m[j].marker # "none"
      BY <1>2, <1>3, <2>1 DEF Marks
    <2>3. run[o][j] \notin Outcomes
      <3>1. PICK p \in Origins : j \in At(p)'
        BY <1>6, <2>1, BusyIs
      <3>2. p # o /\ j \in At(p)
        BY <1>1, <3>1
      <3>3. j \notin At(o)
        BY <1>6, <2>2, <3>2 DEF Sole
      <3>. QED
        BY <1>1, <1>6, <3>3
    <2>4. Tidied(m[j]).marker # "none"
      BY <1>6, <2>2, BusyIs DEF FreedBy
    <2>5. n[j].marker = m[j].marker /\ n[j].enabled = m[j].enabled
      BY <2>3
    <2>6. Tidied(n[j]).marker # "none"
      BY <1>6, <2>4, <2>5 DEF Tidied, JobState
    <2>. QED
      BY <1>5, <2>6
  <1>8. Markers'
    <2>1. Busy' \ freed' \subseteq Busy \ freed
      BY <1>2, <1>3
    <2>. QED
      BY <1>7, <2>1, Written DEF Saved, SaveFails
  <1>9. Synced'
    <2>1. SUFFICES ASSUME fails' = 0 PROVE OnlyMarks(mem', Busy')
      BY Equal
    <2>2. fails = 0
      <3>1. fails' = fails \/ fails' = fails + 1
        BY DEF Saved, SaveFails
      <3>2. fails \in Nat
        BY DEF TypeOK
      <3>. QED
        BY <2>1, <3>1, <3>2
    <2>3. OnlyMarks(m, Busy)
      BY <2>2 DEF Synced
    <2>4. SUFFICES ASSUME NEW j \in DOMAIN n, Tidied(n[j]).marker # "none"
                   PROVE  j \in Busy'
      BY <1>5 DEF OnlyMarks
    <2>5. n[j].marker # "none"
      BY <1>6, <2>4 DEF Tidied, JobState
    <2>6. run[o][j] \notin Outcomes /\ m[j].marker # "none"
      BY <2>5
    <2>7. j \in Busy /\ j \notin At(o)
      BY <1>1, <1>6, <2>3, <2>6 DEF OnlyMarks
    <2>. QED
      BY <1>1, <1>6, <2>7, BusyIs
  <1>. QED
    BY <1>4, <1>8, <1>9

LEMMA ApplySteps ==
    ASSUME IInv, TypeOK', StartApplies \/ TickApplies
    PROVE  Markers' /\ Sole' /\ Synced'
  <1>. USE DEF Ended
  <1>. USE DEF IInv
  <1>1. CASE StartApplies
    <2>1. PICK n :
             /\ IsStore(n) /\ DOMAIN n \subseteq DOMAIN mem
             /\ \A j \in DOMAIN n :
                  IF run["start"][j] \in Outcomes
                  THEN Ended(mem, n, j, run["start"][j])
                  ELSE n[j].marker = mem[j].marker /\ n[j].enabled = mem[j].enabled
             /\ mem' = Maintained(n, FALSE)
      BY <1>1, CatchupEffects
    <2>2. /\ run' = EndBatch("start") /\ \A j \in Batch("start") : run["start"][j] \in Outcomes
          /\ Saved \/ SaveFails
          /\ freed' = {j \in FreedBy(mem) : Underway(j)'} /\ "start" \in Origins /\ Up
      BY <1>1 DEF StartApplies, Origins, Up
    <2>. QED
      BY <2>1, <2>2, BatchApplied
  <1>2. CASE TickApplies
    <2>1. PICK retries : mem' = Maintained(Applied(disk, "tick", retries), FALSE)
      BY <1>2 DEF TickApplies
    <2>. DEFINE n == Applied(disk, "tick", retries)
    <2>2. /\ run' = EndBatch("tick") /\ \A j \in Batch("tick") : run["tick"][j] \in Outcomes
          /\ Saved \/ SaveFails
          /\ freed' = {j \in FreedBy(disk) : Underway(j)'} /\ "tick" \in Origins /\ Up
      BY <1>2 DEF TickApplies, Origins, Placed, Up
    <2>3. /\ IsStore(n) /\ DOMAIN n \subseteq DOMAIN disk
          /\ \A j \in DOMAIN n :
               IF run["tick"][j] \in Outcomes
               THEN n[j].marker = "none"
               ELSE n[j].marker = disk[j].marker /\ n[j].enabled = disk[j].enabled
      BY AppliedTyped DEF TypeOK
    <2>. HIDE DEF n
    <2>4. mem' = Maintained(n, FALSE)
      BY <2>1 DEF n
    <2>. QED
      BY <2>2, <2>3, <2>4, BatchApplied
  <1>. QED
    BY <1>1, <1>2

\* A write that fails is counted.
LEMMA FailuresCounted ==
    ASSUME TypeOK, Saved \/ SaveFails \/ SavedIfChanged \/ UNCHANGED fails, fails' = 0
    PROVE  fails = 0 /\ ~SaveFails
  <1>1. fails \in Nat
    BY DEF TypeOK
  <1>2. ~SaveFails
    <2>1. SUFFICES ASSUME SaveFails PROVE FALSE
      OBVIOUS
    <2>2. fails' = fails + 1
      BY <2>1 DEF SaveFails
    <2>. QED
      BY <1>1, <2>2
  <1>. QED
    BY <1>2 DEF Saved, SavedIfChanged

\* A section that only tidies a store m, and changes no run.
LEMMA TidySteps ==
    ASSUME IInv, TypeOK', NEW m \in {disk, mem}, NEW e, mem' = Maintained(m, e),
           freed' = FreedBy(m), Busy' = Busy, \A o \in Origins : At(o)' = At(o), Up,
           \/ Saved \/ SaveFails
           \/ m = mem /\ (SavedIfChanged \/ UNCHANGED <<disk, fails>>)
    PROVE  Markers' /\ Sole' /\ Synced'
  <1>. USE DEF IInv
  <1>1. IsStore(m) /\ Marks(m, Busy \ freed)
    BY DEF TypeOK, Markers
  <1>2. DOMAIN mem' = DOMAIN m /\ \A j \in DOMAIN m : mem'[j].marker = Tidied(m[j]).marker
    BY <1>1, MaintainedTyped
  <1>3. /\ Marks(mem', Busy' \ freed') /\ freed \subseteq freed'
        /\ OnlyMarks(m, Busy) => OnlyMarks(mem', Busy')
    BY <1>1, <1>2, TidyKeeps
  <1>4. disk' = disk \/ disk' = mem'
    BY DEF Saved, SaveFails, SavedIfChanged
  <1>5. Markers'
    BY <1>3, <1>4, Written
  <1>6. Sole'
    BY <1>3, SoleKept
  <1>7. Synced'
    <2>1. SUFFICES ASSUME fails' = 0
                   PROVE  /\ DOMAIN mem' = DOMAIN disk'
                          /\ OnlyMarks(disk', Busy') /\ OnlyMarks(mem', Busy')
      BY DEF Synced
    <2>2. fails = 0 /\ ~SaveFails
      BY <2>1, FailuresCounted
    <2>3. /\ DOMAIN mem = DOMAIN disk /\ OnlyMarks(disk, Busy) /\ OnlyMarks(mem, Busy)
      BY <2>2 DEF Synced
    <2>4. OnlyMarks(mem', Busy') /\ OnlyMarks(disk, Busy')
      BY <1>3, <2>3
    <2>5. disk' = mem' \/ (m = mem /\ disk' = disk)
      BY <2>2 DEF Saved, SavedIfChanged
    <2>. QED
      BY <1>2, <2>3, <2>4, <2>5
  <1>. QED
    BY <1>5, <1>6, <1>7

LEMMA MaintainSteps ==
    ASSUME IInv, TypeOK', \/ StartArms \/ Read
                          \/ \E c \in Callers, j \in Jobs, forced \in BOOLEAN :
                               ManualAdmitted(c, j, forced)
    PROVE  Markers' /\ Sole' /\ Synced'
  <1>. USE DEF IInv
  <1>1. CASE StartArms \/ Read
    <2>1. PICK e : mem' = Maintained(mem, e)
      BY <1>1 DEF StartArms, Read
    <2>2. /\ freed' = FreedBy(mem) /\ run' = run /\ Up
          /\ Saved \/ SaveFails \/ SavedIfChanged
      BY <1>1 DEF StartArms, Read, Up, Serving
    <2>. QED
      BY <2>1, <2>2, SameRuns, TidySteps
  <1>2. ASSUME NEW c \in Callers, NEW j \in Jobs, NEW forced \in BOOLEAN, ManualAdmitted(c, j, forced)
        PROVE  Markers' /\ Sole' /\ Synced'
    <2>1. /\ mem' = Maintained(mem, FALSE) /\ freed' = FreedBy(mem) /\ Up
          /\ UNCHANGED <<disk, fails>> /\ run[c][j] = "none"
          /\ run' = run \/ run' = [run EXCEPT ![c][j] = "admitted"]
      BY <1>2 DEF ManualAdmitted, Up, Serving
    <2>2. \A o \in Origins : At(o)' = At(o)
      <3>1. CASE run' = run
        BY <3>1, SameRuns
      <3>2. CASE run' = [run EXCEPT ![c][j] = "admitted"]
        <4>1. c \in Origins /\ "admitted" \in Stages
          BY DEF Origins, Stages
        <4>2. /\ \A p \in Origins \ {c} : At(p)' = At(p)
              /\ \A i \in Jobs \ {j} : i \in At(c)' <=> i \in At(c)
              /\ j \notin At(c)' /\ j \notin At(c)
          BY <2>1, <3>2, <4>1, OneRun
        <4>3. \A o \in Origins : At(o) \subseteq Jobs /\ At(o)' \subseteq Jobs
          BY DEF At
        <4>. QED
          BY <4>2, <4>3
      <3>. QED
        BY <2>1, <3>1, <3>2
    <2>3. Busy' = Busy
      BY <2>2, BusyIs
    <2>. QED
      BY <2>1, <2>2, <2>3, TidySteps
  <1>. QED
    BY <1>1, <1>2

LEMMA CollectSteps ==
    ASSUME IInv, TypeOK', TickCollects
    PROVE  Markers' /\ Sole' /\ Synced'
  <1>. USE DEF IInv
  <1>. DEFINE due == {j \in Jobs : Runnable(disk, j)}
  <1>1. /\ mem' = IF due = {} THEN Maintained(disk, TRUE) ELSE Marked(disk, due)
        /\ freed' = IF due = {} THEN FreedBy(disk) ELSE freed
        /\ \/ Saved /\ run' = [run EXCEPT !["tick"] =
                                 [j \in Jobs |-> IF j \in due THEN "queued" ELSE "none"]]
           \/ SaveFails /\ run' = run
    BY Zenon DEF TickCollects
  <1>2. due \subseteq Jobs /\ \A j \in due : j \in DOMAIN disk /\ disk[j].marker = "none"
    BY DEF Runnable
  <1>3. Up /\ Batch("tick") = {} /\ "tick" \in Origins
    BY DEF TickCollects, Placed, Origins
  <1>. HIDE DEF due
  <1>4. /\ At("tick")' \subseteq At("tick") \cup due
        /\ \A p \in Origins \ {"tick"} : At(p)' = At(p)
        /\ Busy' = Busy \/ Busy' = Busy \cup due
        /\ ~SaveFails => Busy' = Busy \cup due
    <2>1. CASE SaveFails /\ run' = run
      BY <1>3, <2>1, SameRuns
    <2>2. CASE Saved /\ run' = [run EXCEPT !["tick"] =
                                 [j \in Jobs |-> IF j \in due THEN "queued" ELSE "none"]]
      BY <1>2, <1>3, <2>2, BatchBegins
    <2>. QED
      BY <1>1, <2>1, <2>2
  <1>5. CASE due = {}
    <2>1. Busy' = Busy
      BY <1>4, <1>5
    <2>2. \A o \in Origins : At(o)' = At(o)
      <3>1. run' = run \/ (At("tick")' = {} /\ At("tick") = {})
        BY <1>1, <1>3, <1>5, BatchBegins
      <3>. QED
        BY <1>4, <3>1, SameRuns
    <2>3. mem' = Maintained(disk, TRUE) /\ freed' = FreedBy(disk) /\ (Saved \/ SaveFails)
      BY <1>1, <1>5
    <2>. QED
      BY <1>3, <2>1, <2>2, <2>3, TidySteps
  <1>6. CASE due # {}
    <2>1. /\ DOMAIN mem' = DOMAIN disk
          /\ \A j \in DOMAIN disk : mem'[j].marker = IF j \in due THEN "set" ELSE disk[j].marker
      BY <1>1, <1>6, MarkedTyped DEF TypeOK
    <2>2. Marks(mem', Busy' \ freed')
      BY <1>1, <1>4, <1>6, <2>1 DEF Markers, Marks
    <2>3. Markers'
      <3>1. disk' = mem' \/ (disk' = disk /\ run' = run)
        BY <1>1 DEF Saved, SaveFails
      <3>2. disk' = mem' \/ (disk' = disk /\ Busy' = Busy)
        BY <3>1, SameRuns
      <3>. QED
        BY <1>1, <1>6, <2>2, <3>2, Written
    <2>4. Sole'
      BY <1>1, <1>2, <1>3, <1>4, <1>6, SoleGrows DEF Markers
    <2>5. Synced'
      <3>1. SUFFICES ASSUME fails' = 0 PROVE OnlyMarks(mem', Busy')
        BY <1>1, Equal
      <3>2. fails = 0 /\ ~SaveFails
        BY <1>1, <3>1, FailuresCounted
      <3>. QED
        BY <1>3, <1>4, <2>1, <3>2 DEF Synced, OnlyMarks
    <2>. QED
      BY <2>3, <2>4, <2>5
  <1>. QED
    BY <1>5, <1>6

LEMMA QuietSteps ==
    ASSUME IInv, TypeOK',
           \/ TimerFires \/ TimerFiresDuringTick \/ TickEnds
           \/ \E j \in Jobs, o \in Origins : Running(o, j)
    PROVE  Markers' /\ Sole' /\ Synced'
  <1>. USE DEF IInv
  <1>1. UNCHANGED <<disk, mem, start, fails, freed>>
    BY DEF TimerFires, TimerFiresDuringTick, TickEnds, Running, RunStarts, RunEnds, store, startVars,
           counters, history
  <1>2. \A o \in Origins : At(o)' = At(o)
    <2>1. CASE TimerFires \/ TimerFiresDuringTick \/ TickEnds
      BY <2>1, SameRuns DEF TimerFires, TimerFiresDuringTick, TickEnds, history
    <2>2. ASSUME NEW j \in Jobs, NEW o \in Origins, Running(o, j)
          PROVE  \A p \in Origins : At(p)' = At(p)
      <3>1. PICK stage \in {"running"} \cup Outcomes : run' = [run EXCEPT ![o][j] = stage]
        BY <2>2 DEF Running, RunStarts, RunEnds
      <3>2. run[o][j] \in {"queued", "running"}
        BY <2>2 DEF Running, RunStarts, RunEnds
      <3>3. stage \in Stages /\ stage \notin {"none", "admitted"}
        BY DEF Stages, Outcomes
      <3>4. /\ \A p \in Origins \ {o} : At(p)' = At(p)
            /\ \A i \in Jobs \ {j} : i \in At(o)' <=> i \in At(o)
            /\ j \in At(o)' /\ j \in At(o)
        BY <3>1, <3>2, <3>3, OneRun
      <3>5. At(o) \subseteq Jobs /\ At(o)' \subseteq Jobs
        BY DEF At
      <3>. QED
        BY <3>4, <3>5
    <2>. QED
      BY <2>1, <2>2
  <1>3. Busy' = Busy
    BY <1>2, BusyIs
  <1>4. Markers' /\ Synced'
    BY <1>1, <1>3 DEF Markers, Synced, Up
  <1>. QED
    BY <1>1, <1>2, <1>4, SoleKept

-----------------------------------------------------------------------------
(* The steps of calls, of time and of a crash.                             *)

LEMMA PrepareSteps ==
    ASSUME IInv, TypeOK', NEW c \in Callers, NEW j \in Jobs, ManualPrepared(c, j)
    PROVE  Markers' /\ Sole' /\ Synced'
  <1>. USE DEF IInv
  <1>1. /\ run[c][j] = "admitted" /\ freed' = freed /\ start' = start
        /\ c \in Origins /\ {"running", "none"} \subseteq Stages
    BY DEF ManualPrepared, history, startVars, Origins, Stages
  <1>2. Up
    BY <1>1 DEF Placed, NoRuns
  <1>3. ASSUME NEW stage \in {"running", "none"}, run' = [run EXCEPT ![c][j] = stage]
        PROVE  /\ \A p \in Origins \ {c} : At(p)' = At(p)
               /\ j \notin At(c)
               /\ At(c)' = At(c) \cup (IF stage = "running" THEN {j} ELSE {})
               /\ Busy' = Busy \cup (IF stage = "running" THEN {j} ELSE {})
    <2>1. /\ \A p \in Origins \ {c} : At(p)' = At(p)
          /\ \A i \in Jobs \ {j} : i \in At(c)' <=> i \in At(c)
          /\ j \in At(c)' <=> stage \notin {"none", "admitted"}
          /\ j \notin At(c)
      BY <1>1, <1>3, OneRun
    <2>2. At(c) \subseteq Jobs /\ At(c)' \subseteq Jobs
      BY DEF At
    <2>3. At(c)' = At(c) \cup (IF stage = "running" THEN {j} ELSE {})
      BY <2>1, <2>2
    <2>4. Busy' = Busy \cup (IF stage = "running" THEN {j} ELSE {})
      BY <1>1, <2>1, <2>3, BusyIs
    <2>. QED
      BY <2>1, <2>3, <2>4
  <1>4. CASE run' = [run EXCEPT ![c][j] = "none"] /\ UNCHANGED <<store, fails>>
    <2>1. Busy' = Busy /\ \A o \in Origins : At(o)' = At(o)
      BY <1>3, <1>4
    <2>2. Markers' /\ Synced'
      BY <1>1, <1>4, <2>1 DEF Markers, Synced, Up, store
    <2>. QED
      BY <1>1, <2>1, <2>2, SoleKept
  <1>5. CASE /\ j \in DOMAIN mem /\ mem[j].marker = "none" /\ mem' = Marked(mem, {j})
             /\ \/ Saved /\ run' = [run EXCEPT ![c][j] = "running"]
                \/ SaveFails /\ run' = [run EXCEPT ![c][j] = "none"]
    <2>1. /\ DOMAIN mem' = DOMAIN mem
          /\ \A i \in DOMAIN mem : mem'[i].marker = IF i \in {j} THEN "set" ELSE mem[i].marker
      BY <1>5, MarkedTyped DEF TypeOK
    <2>2. /\ At(c)' \subseteq At(c) \cup {j}
          /\ \A p \in Origins \ {c} : At(p)' = At(p)
          /\ (Busy' = Busy \cup {j} /\ Saved) \/ (Busy' = Busy /\ SaveFails)
      <3>1. CASE Saved /\ run' = [run EXCEPT ![c][j] = "running"]
        BY <1>3, <3>1
      <3>2. CASE SaveFails /\ run' = [run EXCEPT ![c][j] = "none"]
        BY <1>3, <3>2
      <3>. QED
        BY <1>5, <3>1, <3>2
    <2>3. Marks(mem', Busy' \ freed')
      BY <1>1, <2>1, <2>2 DEF Markers, Marks
    <2>4. Markers'
      BY <1>1, <2>2, <2>3, Written DEF Saved, SaveFails
    <2>5. Sole'
      BY <1>1, <1>5, <2>2, SoleGrows DEF Markers
    <2>6. Synced'
      <3>1. SUFFICES ASSUME fails' = 0 PROVE OnlyMarks(mem', Busy')
        BY <2>2, Equal
      <3>2. fails = 0 /\ ~SaveFails
        BY <2>2, <3>1, FailuresCounted
      <3>. QED
        BY <1>2, <2>1, <2>2, <3>2 DEF Synced, OnlyMarks
    <2>. QED
      BY <2>4, <2>5, <2>6
  <1>. QED
    BY <1>4, <1>5 DEF ManualPrepared

LEMMA ManualSteps ==
    ASSUME IInv, TypeOK', NEW c \in Callers, NEW j \in Jobs, ManualApplies(c, j)
    PROVE  Markers' /\ Sole' /\ Synced'
  <1>. USE DEF Ended
  <1>. USE DEF IInv
  <1>1. /\ run[c][j] \in Outcomes /\ run' = [run EXCEPT ![c][j] = "none"]
        /\ freed' = {i \in (IF j \in DOMAIN mem THEN FreedBy(disk) ELSE freed) : Underway(i)'}
        /\ start' = start /\ c \in Origins /\ "none" \in Stages
    BY DEF ManualApplies, startVars, Origins, Stages
  <1>2. Up
    BY <1>1 DEF Placed, NoRuns, Outcomes
  <1>3. /\ \A p \in Origins \ {c} : At(p)' = At(p)
        /\ \A i \in Jobs \ {j} : i \in At(c)' <=> i \in At(c)
        /\ j \notin At(c)' /\ j \in At(c)
    BY <1>1, OneRun DEF Outcomes
  <1>4. /\ \A o \in Origins : At(o) \subseteq Jobs /\ At(o)' \subseteq At(o)
        /\ Busy' \subseteq Busy /\ Busy \ {j} \subseteq Busy'
    <2>1. \A o \in Origins : At(o) \subseteq Jobs /\ At(o)' \subseteq Jobs
      BY DEF At
    <2>2. \A o \in Origins : At(o)' \subseteq At(o) /\ At(o) \ {j} \subseteq At(o)'
      BY <1>3, <2>1
    <2>. QED
      BY <2>1, <2>2, BusyIs
  <1>5. freed \subseteq FreedBy(disk)
    BY DEF FreedBy
  <1>6. \A i \in Busy' : i \in freed => i \in freed'
    BY <1>1, <1>5, BusyIs
  <1>7. Sole'
    BY <1>4, <1>6, SoleKept
  <1>8. Busy' \ freed' \subseteq Busy \ freed
    BY <1>4, <1>6
  <1>9. CASE UNCHANGED <<store, fails>> /\ j \notin DOMAIN mem
    <2>1. Markers'
      BY <1>8, <1>9 DEF Markers, Marks, store
    <2>2. Synced'
      BY <1>1, <1>2, <1>4, <1>9 DEF Synced, Up, OnlyMarks, store
    <2>. QED
      BY <1>7, <2>1, <2>2
  <1>10. CASE j \in DOMAIN mem /\ (Saved \/ SaveFails)
    <2>1. PICK n :
            /\ IsStore(n) /\ DOMAIN n \subseteq DOMAIN disk /\ DOMAIN disk \ {j} \subseteq DOMAIN n
            /\ \A i \in DOMAIN n : IF i = j THEN Ended(mem, n, j, run[c][j]) ELSE n[i] = disk[i]
            /\ mem' = Maintained(n, TRUE)
      BY <1>10, ManualEffects
    <2>2. DOMAIN mem' = DOMAIN n /\ \A i \in DOMAIN n : mem'[i].marker = Tidied(n[i]).marker
      BY <2>1, MaintainedTyped
    <2>3. \A i \in DOMAIN n : n[i] \in JobState /\ i \in Jobs
      BY <2>1, StoreTyped
    <2>4. Marks(mem', Busy' \ freed')
      <3>1. SUFFICES ASSUME NEW i \in DOMAIN n, i \in Busy', i \notin freed'
                     PROVE  mem'[i].marker # "none"
        BY <2>2 DEF Marks
      <3>2. i \in Busy /\ i \notin FreedBy(disk) /\ i \notin freed /\ i \in Jobs
        BY <1>1, <1>4, <1>5, <1>10, <2>3, <3>1, BusyIs
      <3>3. i # j
        <4>1. PICK p \in Origins : i \in At(p)'
          BY <3>1, <3>2, BusyIs
        <4>2. i \in At(p) /\ (p = c => i # j)
          BY <1>3, <1>4, <4>1
        <4>. QED
          BY <1>1, <1>3, <3>2, <4>2 DEF Sole
      <3>4. disk[i].marker # "none" /\ n[i] = disk[i] /\ i \in DOMAIN disk
        BY <2>1, <3>2, <3>3 DEF Markers, Marks
      <3>5. Tidied(disk[i]).marker # "none"
        BY <3>2, <3>4, BusyIs DEF FreedBy
      <3>. QED
        BY <2>2, <3>4, <3>5
    <2>5. Markers'
      BY <1>8, <1>10, <2>4, Written DEF Saved, SaveFails
    <2>6. Synced'
      <3>1. SUFFICES ASSUME fails' = 0 PROVE OnlyMarks(mem', Busy')
        BY <1>10, Equal
      <3>2. OnlyMarks(disk, Busy)
        BY <1>2, <1>10, <3>1, FailuresCounted DEF Synced
      <3>3. SUFFICES ASSUME NEW i \in DOMAIN n, Tidied(n[i]).marker # "none"
                     PROVE  i \in Busy'
        BY <2>2 DEF OnlyMarks
      <3>4. n[i].marker # "none"
        BY <2>3, <3>3 DEF Tidied, JobState
      <3>5. i # j /\ n[i] = disk[i] /\ i \in DOMAIN disk
        BY <2>1, <3>4
      <3>. QED
        BY <1>4, <3>2, <3>4, <3>5 DEF OnlyMarks
    <2>. QED
      BY <1>7, <2>5, <2>6
  <1>. QED
    BY <1>9, <1>10 DEF ManualApplies

\* A call writes a memory in which only runs added to `freed` lost a marker.
LEMMA CallWrites ==
    ASSUME IInv, TypeOK', run' = run, Up, Up', Saved \/ SaveFails,
           freed \subseteq freed',
           \A j \in DOMAIN mem' : j \in Busy \ freed' => j \in DOMAIN mem /\ mem'[j].marker # "none",
           \A j \in DOMAIN mem' : mem'[j].marker # "none" => j \in DOMAIN mem /\ mem[j].marker # "none"
    PROVE  Markers' /\ Sole' /\ Synced'
  <1>. USE DEF IInv
  <1>1. Busy' = Busy /\ \A o \in Origins : At(o)' = At(o)
    BY SameRuns
  <1>2. Markers'
    <2>1. Marks(mem', Busy' \ freed')
      BY <1>1 DEF Marks
    <2>. QED
      BY <1>1, <2>1, Written DEF Saved, SaveFails
  <1>3. Sole'
    BY <1>1, SoleKept
  <1>4. Synced'
    <2>1. SUFFICES ASSUME fails' = 0 PROVE OnlyMarks(mem', Busy')
      BY Equal
    <2>2. OnlyMarks(mem, Busy)
      BY <2>1, FailuresCounted DEF Synced
    <2>. QED
      BY <1>1, <2>2 DEF OnlyMarks
  <1>. QED
    BY <1>2, <1>3, <1>4

LEMMA CallSteps ==
    ASSUME IInv, TypeOK', NEW j \in Jobs,
           Add(j) \/ Remove(j) \/ \E patch \in Patches : Update(j, patch)
    PROVE  Markers' /\ Sole' /\ Synced'
  <1>. USE DEF IInv
  <1>1. run' = run /\ Up /\ Up' /\ (Saved \/ SaveFails)
    BY DEF Add, Remove, Update, Writes, Serving, Up, startVars
  <1>2. \A i \in DOMAIN mem : mem[i] \in JobState /\ i \in Jobs
    BY StoreTyped DEF TypeOK
  <1>3. CASE Add(j)
    <2>. DEFINE m == [i \in DOMAIN mem \cup {j} |-> IF i = j THEN NewJob ELSE mem[i]]
    <2>1. NewJob \in JobState /\ NewJob.marker = "none"
      BY DEF NewJob, JobState
    <2>2. j \notin DOMAIN mem /\ j \notin Busy
      <3>1. j \notin used
        BY <1>3 DEF Add
      <3>2. \A o \in Origins : j \notin At(o)
        BY <3>1 DEF Placed, At, Batch
      <3>. QED
        BY <3>1, <3>2, BusyIs DEF Placed
    <2>3. /\ IsStore(m) /\ DOMAIN m = DOMAIN mem \cup {j}
          /\ m[j].marker = "none" /\ \A i \in DOMAIN mem : m[i] = mem[i]
      BY <1>2, <2>1, <2>2 DEF IsStore
    <2>4. mem' = RecomputedAll(m) /\ freed' = FreedBy(mem)
      BY <1>3 DEF Add
    <2>. HIDE DEF m
    <2>5. DOMAIN mem' = DOMAIN m /\ \A i \in DOMAIN m : mem'[i].marker = Tidied(m[i]).marker
      BY <2>3, <2>4, RecomputedAllTyped
    <2>6. freed \subseteq freed'
      BY <2>4 DEF FreedBy
    <2>7. ASSUME NEW i \in DOMAIN mem', i \in Busy \ freed'
          PROVE  i \in DOMAIN mem /\ mem'[i].marker # "none"
      <3>1. i \in DOMAIN mem /\ m[i] = mem[i] /\ mem[i].marker # "none"
        BY <2>2, <2>3, <2>5, <2>6, <2>7 DEF Markers, Marks
      <3>2. Tidied(mem[i]).marker # "none"
        BY <2>4, <2>7, <3>1, BusyIs DEF FreedBy
      <3>. QED
        BY <2>5, <3>1, <3>2
    <2>8. ASSUME NEW i \in DOMAIN mem', mem'[i].marker # "none"
          PROVE  i \in DOMAIN mem /\ mem[i].marker # "none"
      <3>1. m[i] \in JobState /\ i \in DOMAIN m
        BY <2>3, <2>5, <2>8, StoreTyped
      <3>2. m[i].marker # "none"
        BY <2>5, <2>8, <3>1 DEF Tidied, JobState
      <3>. QED
        BY <2>3, <3>1, <3>2
    <2>. QED
      BY <1>1, <2>6, <2>7, <2>8, CallWrites
  <1>4. CASE Remove(j)
    <2>1. mem' = Without(mem, j) /\ freed' = freed
      BY <1>4 DEF Remove
    <2>2. DOMAIN mem' = DOMAIN mem \ {j} /\ \A i \in DOMAIN mem' : mem'[i] = mem[i]
      BY <2>1, WithoutTyped DEF TypeOK
    <2>. QED
      BY <1>1, <2>1, <2>2, CallWrites DEF Markers, Marks
  <1>5. ASSUME NEW patch \in Patches, Update(j, patch)
        PROVE  Markers' /\ Sole' /\ Synced'
    <2>1. /\ j \in DOMAIN mem /\ mem' = [mem EXCEPT ![j] = Patched(j, mem[j], patch)]
          /\ freed' = IF mem'[j].marker = "none" /\ Underway(j) THEN freed \cup {j} ELSE freed
      BY <1>5 DEF Update
    <2>2. DOMAIN mem' = DOMAIN mem /\ \A i \in DOMAIN mem \ {j} : mem'[i] = mem[i]
      BY <2>1
    <2>3. mem'[j].marker \in {mem[j].marker, "none"}
      BY <1>2, <2>1, PatchedTyped
    <2>4. freed \subseteq freed' /\ (j \in Busy \ freed' => mem'[j].marker # "none")
      BY <2>1, BusyIs
    <2>. QED
      BY <1>1, <2>2, <2>3, <2>4, CallWrites DEF Markers, Marks
  <1>. QED
    BY <1>3, <1>4, <1>5

LEMMA TimeSteps ==
    ASSUME IInv, TypeOK', NEW j \in Jobs, Time(j)
    PROVE  Markers' /\ Sole' /\ Synced'
  <1>. USE DEF IInv
  <1>1. run' = run /\ UNCHANGED <<start, fails, freed>>
    BY DEF Time, SlotComesDue, BackoffEnds, MarkerGetsOld, Clock, startVars, counters, history
  <1>2. /\ disk' \in {SlotPassed(disk, j), BackoffPassed(disk, j), MarkerAged(disk, j)}
        /\ mem' \in {SlotPassed(mem, j), BackoffPassed(mem, j), MarkerAged(mem, j)}
    BY DEF Time, SlotComesDue, BackoffEnds, MarkerGetsOld, Clock
  <1>3. /\ DOMAIN disk' = DOMAIN disk /\ DOMAIN mem' = DOMAIN mem
        /\ \A i \in DOMAIN disk : disk'[i].marker = "none" <=> disk[i].marker = "none"
        /\ \A i \in DOMAIN mem : mem'[i].marker = "none" <=> mem[i].marker = "none"
    BY <1>2, TimeTyped DEF TypeOK
  <1>4. Busy' = Busy /\ \A o \in Origins : At(o)' = At(o)
    BY <1>1, SameRuns
  <1>5. Markers' /\ Synced'
    BY <1>1, <1>3, <1>4 DEF Markers, Synced, Marks, OnlyMarks, Up
  <1>. QED
    BY <1>1, <1>4, <1>5, SoleKept

LEMMA CrashSteps ==
    ASSUME IInv, TypeOK', Crash
    PROVE  Markers' /\ Sole' /\ Synced'
  <1>1. run' = NoRuns /\ start' = "down"
    BY DEF Crash
  <1>2. \A o \in Origins : At(o)' = {}
    BY <1>1 DEF At, NoRuns
  <1>3. Busy' = {}
    BY <1>2, BusyIs
  <1>. QED
    BY <1>1, <1>2, <1>3 DEF Markers, Marks, Sole, Synced, Up

-----------------------------------------------------------------------------
(* Where batches are.                                                      *)

\* A batch stays where it is and among the ids given out.
LEMMA BatchesPlaced ==
    ASSUME TypeOK, Placed, Next
    PROVE  /\ start' # "catchup" => Batch("start")' = {}
           /\ tick' # "run" => Batch("tick")' = {}
           /\ ~Up' => run' = NoRuns /\ tick' = "idle" /\ timer' = FALSE
           /\ \A o \in Origins : Batch(o)' \subseteq used'
  <1>0. /\ "start" \in Origins /\ "tick" \in Origins /\ Callers \subseteq Origins
        /\ "start" \notin Callers /\ "tick" \notin Callers
        /\ DOMAIN mem \subseteq used /\ DOMAIN disk \subseteq used
        /\ DOMAIN mem \subseteq Jobs /\ DOMAIN disk \subseteq Jobs
    BY CallersAssumption DEF Origins, Placed, TypeOK, IsStore
  <1>. DEFINE Goal == /\ start' # "catchup" => Batch("start")' = {}
                      /\ tick' # "run" => Batch("tick")' = {}
                      /\ ~Up' => run' = NoRuns /\ tick' = "idle" /\ timer' = FALSE
                      /\ \A o \in Origins : Batch(o)' \subseteq used'
  <1>1. CASE Start \/ StartMarks \/ StartArms
    <2>1. run' = run /\ UNCHANGED <<used, tick>>
      BY <1>1 DEF Start, StartMarks, StartArms, counters
    <2>2. start \notin {"catchup"} /\ start' # "catchup" /\ (~Up' => ~Up /\ timer' = timer)
      BY <1>1 DEF Start, StartMarks, StartArms, Up
    <2>. QED
      BY <1>0, <2>1, <2>2, SameRuns DEF Placed
  <1>2. CASE StartPlans
    <2>1. start = "plan" /\ Batch("start") = {} /\ UNCHANGED <<used, tick>>
      BY <1>2 DEF StartPlans, Placed
    <2>2. PICK now :
            /\ \A j \in now : j \in DOMAIN mem
            /\ \/ /\ run' = [run EXCEPT !["start"] =
                               [j \in Jobs |-> IF j \in now THEN "queued" ELSE "none"]]
                  /\ start' \in {"arm", "catchup"} /\ (start' = "arm" => now = {})
               \/ start' = "failed" /\ UNCHANGED run
      <3>1. PICK m, now :
              /\ IsStore(m) /\ DOMAIN m = DOMAIN mem
              /\ \A j \in DOMAIN mem : m[j].marker = mem[j].marker /\ m[j].enabled = mem[j].enabled
              /\ \A j \in now : j \in DOMAIN mem /\ mem[j].marker = "none"
              /\ mem' = Marked(m, now)
              /\ deferred' \subseteq Jobs
              /\ \/ /\ Saved \/ (now = {} /\ SavedIfChanged)
                    /\ run' = [run EXCEPT !["start"] =
                                 [j \in Jobs |-> IF j \in now THEN "queued" ELSE "none"]]
                    /\ start' \in {"arm", "catchup"} /\ (start' = "arm" => now = {})
                 \/ SaveFails /\ start' = "failed" /\ UNCHANGED run
        BY <1>2, PlanEffects, Zenon
      <3>. QED
        BY <3>1
    <2>3. Up'
      BY <2>2 DEF Up
    <2>4. CASE start' = "failed" /\ UNCHANGED run
      BY <1>0, <2>1, <2>3, <2>4, SameRuns DEF Placed
    <2>5. CASE /\ run' = [run EXCEPT !["start"] =
                            [j \in Jobs |-> IF j \in now THEN "queued" ELSE "none"]]
               /\ start' \in {"arm", "catchup"} /\ (start' = "arm" => now = {})
      <3>1. now \in SUBSET Jobs /\ now \subseteq used
        BY <1>0, <2>2
      <3>2. Batch("start")' = now /\ \A p \in Origins \ {"start"} : Batch(p)' = Batch(p)
        BY <1>0, <2>1, <2>5, <3>1, BatchBegins
      <3>. QED
        BY <1>0, <2>1, <2>3, <2>5, <3>1, <3>2 DEF Placed
    <2>. QED
      BY <2>2, <2>4, <2>5
  <1>3. CASE StartApplies
    <2>1. /\ run' = EndBatch("start") /\ \A j \in Batch("start") : run["start"][j] \in Outcomes
          /\ UNCHANGED <<used, tick>> /\ Up'
      BY <1>3 DEF StartApplies, Up
    <2>2. Batch("start")' = {} /\ \A p \in Origins \ {"start"} : Batch(p)' = Batch(p)
      BY <1>0, <2>1, BatchEnds
    <2>. QED
      BY <1>0, <2>1, <2>2 DEF Placed
  <1>4. CASE TimerFires \/ TickEnds \/ TimerFiresDuringTick
    <2>1. run' = run /\ UNCHANGED <<used, start>>
      BY <1>4 DEF TimerFires, TickEnds, TimerFiresDuringTick, counters, startVars
    <2>2. Up /\ (tick = "run" <=> tick' = "run")
      BY <1>4 DEF TimerFires, TickEnds, TimerFiresDuringTick, Placed
    <2>. QED
      BY <1>0, <2>1, <2>2, SameRuns DEF Placed, Up
  <1>5. CASE TickCollects
    <2>. DEFINE due == {j \in Jobs : Runnable(disk, j)}
    <2>1. /\ tick = "collect" /\ UNCHANGED <<used, start>>
          /\ \/ /\ run' = [run EXCEPT !["tick"] =
                             [j \in Jobs |-> IF j \in due THEN "queued" ELSE "none"]]
                /\ tick' = IF due = {} THEN "end" ELSE "run"
             \/ tick' = "end" /\ run' = run
      BY <1>5, Zenon DEF TickCollects, startVars
    <2>2. due \subseteq used
      BY <1>0 DEF Runnable
    <2>3. Batch("tick") = {} /\ Up /\ Up'
      BY <2>1 DEF Placed, Up
    <2>. HIDE DEF due
    <2>4. CASE run' = run /\ tick' = "end"
      BY <1>0, <2>1, <2>3, <2>4, SameRuns DEF Placed
    <2>5. CASE /\ run' = [run EXCEPT !["tick"] =
                            [j \in Jobs |-> IF j \in due THEN "queued" ELSE "none"]]
               /\ tick' = IF due = {} THEN "end" ELSE "run"
      <3>1. due \in SUBSET Jobs
        BY DEF due
      <3>2. Batch("tick")' = due /\ \A p \in Origins \ {"tick"} : Batch(p)' = Batch(p)
        BY <1>0, <2>3, <2>5, <3>1, BatchBegins
      <3>. QED
        BY <1>0, <2>1, <2>2, <2>3, <2>5, <3>2 DEF Placed
    <2>. QED
      BY <2>1, <2>4, <2>5
  <1>6. CASE TickApplies
    <2>1. /\ run' = EndBatch("tick") /\ \A j \in Batch("tick") : run["tick"][j] \in Outcomes
          /\ UNCHANGED <<used, start>> /\ Up
      BY <1>6 DEF TickApplies, startVars, Placed
    <2>2. Batch("tick")' = {} /\ \A p \in Origins \ {"tick"} : Batch(p)' = Batch(p)
      BY <1>0, <2>1, BatchEnds
    <2>. QED
      BY <1>0, <2>1, <2>2 DEF Placed, Up
  <1>7. ASSUME NEW j \in Jobs, NEW o \in Origins, NEW stage \in Stages,
               run' = [run EXCEPT ![o][j] = stage], UNCHANGED <<used, start, tick>>, Up,
               run[o][j] # "none" \/ (o \in Callers /\ j \in used)
        PROVE  Goal
    <2>1. /\ \A p \in Origins \ {o} : Batch(p)' = Batch(p)
          /\ \A i \in Jobs \ {j} : i \in Batch(o)' <=> i \in Batch(o)
          /\ j \in Batch(o) <=> run[o][j] # "none"
      BY <1>7, OneRun
    <2>2. Batch(o)' \subseteq Jobs /\ Batch(o) \subseteq Jobs
      BY DEF Batch
    <2>3. o \notin Callers => Batch(o)' \subseteq Batch(o)
      BY <1>7, <2>1, <2>2
    <2>4. Batch(o)' \subseteq used'
      BY <1>7, <2>1, <2>2 DEF Placed
    <2>5. Up'
      BY <1>7 DEF Up
    <2>. QED
      BY <1>0, <1>7, <2>1, <2>3, <2>4, <2>5 DEF Placed
  <1>8. ASSUME NEW j \in Jobs, NEW o \in Origins, Running(o, j)
        PROVE  Goal
    <2>1. PICK stage \in Stages : run' = [run EXCEPT ![o][j] = stage]
      BY <1>8 DEF Running, RunStarts, RunEnds, Stages
    <2>2. run[o][j] # "none" /\ UNCHANGED <<used, start, tick>>
      BY <1>8 DEF Running, RunStarts, RunEnds, startVars, counters
    <2>3. Up
      BY <2>2 DEF Placed, NoRuns
    <2>. QED
      BY <1>7, <2>1, <2>2, <2>3
  <1>9. ASSUME NEW c \in Callers, NEW j \in Jobs, ManualRuns(c, j)
        PROVE  Goal
    <2>1. PICK stage \in {"running", "none"} : run' = [run EXCEPT ![c][j] = stage]
      BY <1>9 DEF ManualRuns, ManualPrepared, ManualApplies
    <2>2. run[c][j] # "none" /\ UNCHANGED <<used, start, tick>>
      BY <1>9 DEF ManualRuns, ManualPrepared, ManualApplies, Outcomes, startVars
    <2>3. Up /\ stage \in Stages
      BY <1>0, <2>2 DEF Placed, NoRuns, Stages
    <2>. QED
      BY <1>0, <1>7, <2>1, <2>2, <2>3
  <1>10. ASSUME NEW c \in Callers, NEW j \in Jobs, NEW forced \in BOOLEAN, ManualAdmitted(c, j, forced)
         PROVE  Goal
    <2>1. /\ run' = run \/ run' = [run EXCEPT ![c][j] = "admitted"]
          /\ UNCHANGED <<used, start, tick, timer>> /\ Up /\ j \in used /\ "admitted" \in Stages
      BY <1>10 DEF ManualAdmitted, startVars, Serving, Up, Stages
    <2>2. CASE run' = run
      BY <1>0, <2>1, <2>2, SameRuns DEF Placed, Up
    <2>3. CASE run' = [run EXCEPT ![c][j] = "admitted"]
      BY <1>0, <1>7, <2>1, <2>3
    <2>. QED
      BY <2>1, <2>2, <2>3
  <1>11. ASSUME NEW j \in Jobs, Add(j) \/ Remove(j) \/ \E patch \in Patches : Update(j, patch)
         PROVE  Goal
    <2>1. run' = run /\ UNCHANGED <<start, tick>> /\ Up /\ used \subseteq used'
      BY <1>11 DEF Add, Remove, Update, startVars, Serving, Up
    <2>. QED
      BY <1>0, <2>1, SameRuns DEF Placed, Up
  <1>12. CASE Read
    <2>1. run' = run /\ UNCHANGED <<start, tick, used>> /\ Up
      BY <1>12 DEF Read, startVars, Serving, Up
    <2>. QED
      BY <1>0, <2>1, SameRuns DEF Placed, Up
  <1>13. ASSUME NEW j \in Jobs, Time(j)
         PROVE  Goal
    <2>1. run' = run /\ UNCHANGED <<start, tick, timer, used>>
      BY <1>13 DEF Time, SlotComesDue, BackoffEnds, MarkerGetsOld, Clock, startVars, counters
    <2>. QED
      BY <1>0, <2>1, SameRuns DEF Placed, Up
  <1>14. CASE Crash
    <2>1. run' = NoRuns /\ tick' = "idle" /\ timer' = FALSE
      BY <1>14 DEF Crash
    <2>2. \A o \in Origins : Batch(o)' = {}
      BY <2>1 DEF Batch, NoRuns
    <2>. QED
      BY <1>0, <2>1, <2>2
  <1>. QED
    BY <1>1, <1>2, <1>3, <1>4, <1>5, <1>6, <1>8, <1>9, <1>10, <1>11, <1>12, <1>13, <1>14
       DEF Next, Starting, Ticking, Calls

\* The stores hold only ids given out.
LEMMA StoresPlaced ==
    ASSUME TypeOK, Placed, Next
    PROVE  DOMAIN mem' \subseteq used' /\ DOMAIN disk' \subseteq used'
  <1>. USE DEF TypeOK
  <1>0. DOMAIN mem \subseteq used /\ DOMAIN disk \subseteq used
    BY DEF Placed
  <1>1. CASE Start \/ TimerFires \/ TickEnds \/ TimerFiresDuringTick
    BY <1>0, <1>1 DEF Start, TimerFires, TickEnds, TimerFiresDuringTick, store, counters
  <1>2. CASE StartMarks
    <2>1. DOMAIN mem' = DOMAIN disk /\ used' = used
      BY <1>2 DEF StartMarks
    <2>. QED
      BY <1>0, <1>2, <2>1, WritesMemory DEF StartMarks
  <1>3. CASE StartPlans
    <2>1. \E m, now : IsStore(m) /\ DOMAIN m = DOMAIN mem /\ mem' = Marked(m, now)
      BY <1>3, PlanEffects, Zenon
    <2>2. DOMAIN mem' = DOMAIN mem
      BY <2>1, MarkedTyped
    <2>3. disk' = disk \/ disk' = mem'
      BY <1>3, PlanEffects, WritesMemory
    <2>4. used' = used
      BY <1>3 DEF StartPlans
    <2>. QED
      BY <1>0, <2>2, <2>3, <2>4
  <1>4. CASE StartApplies
    <2>1. PICK n : IsStore(n) /\ DOMAIN n \subseteq DOMAIN mem /\ mem' = Maintained(n, FALSE)
      BY <1>4, CatchupEffects
    <2>2. DOMAIN mem' \subseteq DOMAIN mem
      BY <2>1, MaintainedTyped
    <2>. QED
      BY <1>0, <1>4, <2>2, WritesMemory DEF StartApplies
  <1>5. CASE StartArms \/ Read
    <2>1. mem' = Maintained(mem, TRUE) \/ mem' = Maintained(mem, FALSE)
      BY <1>5 DEF StartArms, Read
    <2>2. DOMAIN mem' = DOMAIN mem
      BY <2>1, MaintainedTyped
    <2>. QED
      BY <1>0, <1>5, <2>2, WritesMemory DEF StartArms, Read
  <1>6. CASE TickCollects
    <2>1. PICK S : mem' = Maintained(disk, TRUE) \/ mem' = Marked(disk, S)
      BY <1>6, Zenon DEF TickCollects
    <2>2. DOMAIN mem' = DOMAIN disk
      BY <2>1 DEF Maintained, Marked
    <2>. QED
      BY <1>0, <1>6, <2>2, WritesMemory DEF TickCollects
  <1>7. CASE TickApplies
    <2>1. PICK retries : mem' = Maintained(Applied(disk, "tick", retries), FALSE)
      BY <1>7 DEF TickApplies
    <2>2. /\ IsStore(Applied(disk, "tick", retries))
          /\ DOMAIN Applied(disk, "tick", retries) \subseteq DOMAIN disk
      BY AppliedTyped
    <2>3. DOMAIN mem' \subseteq DOMAIN disk
      BY <2>1, <2>2, MaintainedTyped
    <2>. QED
      BY <1>0, <1>7, <2>3, WritesMemory DEF TickApplies
  <1>8. ASSUME NEW o \in Origins, NEW j \in Jobs, Running(o, j)
        PROVE  UNCHANGED <<disk, mem, used>>
    BY <1>8 DEF Running, RunStarts, RunEnds, store, counters
  <1>9. ASSUME NEW c \in Callers, NEW j \in Jobs, NEW forced, ManualAdmitted(c, j, forced)
        PROVE  DOMAIN mem' = DOMAIN mem /\ UNCHANGED <<disk, used>>
    BY <1>9, MaintainedTyped DEF ManualAdmitted
  <1>10. ASSUME NEW c \in Callers, NEW j \in Jobs, ManualPrepared(c, j)
         PROVE  DOMAIN mem' = DOMAIN mem /\ (disk' = disk \/ disk' = mem') /\ used' = used
    BY <1>10, MarkedTyped, WritesMemory DEF ManualPrepared, store
  <1>11. ASSUME NEW c \in Callers, NEW j \in Jobs, ManualApplies(c, j)
         PROVE  DOMAIN mem' \subseteq used /\ (disk' = disk \/ disk' = mem') /\ used' = used
    <2>1. CASE j \notin DOMAIN mem
      BY <1>0, <1>11, <2>1 DEF ManualApplies, store
    <2>2. CASE j \in DOMAIN mem
      <3>1. PICK n : IsStore(n) /\ DOMAIN n \subseteq DOMAIN disk /\ mem' = Maintained(n, TRUE)
        BY <1>11, <2>2, ManualEffects
      <3>2. DOMAIN mem' \subseteq DOMAIN disk
        BY <3>1, MaintainedTyped
      <3>. QED
        BY <1>0, <1>11, <2>2, <3>2, WritesMemory DEF ManualApplies
    <2>. QED
      BY <2>1, <2>2
  <1>12. ASSUME NEW j \in Jobs, Add(j)
         PROVE  DOMAIN mem' \subseteq used' /\ DOMAIN disk' \subseteq used'
    <2>. DEFINE m == [i \in DOMAIN mem \cup {j} |-> IF i = j THEN NewJob ELSE mem[i]]
    <2>1. mem' = RecomputedAll(m) /\ DOMAIN m = DOMAIN mem \cup {j} /\ used' = used \cup {j}
      BY <1>12 DEF Add
    <2>. HIDE DEF m
    <2>2. DOMAIN mem' = DOMAIN m
      BY <2>1 DEF RecomputedAll
    <2>. QED
      BY <1>0, <1>12, <2>1, <2>2, WritesMemory DEF Add
  <1>13. ASSUME NEW j \in Jobs, Remove(j) \/ \E patch \in Patches : Update(j, patch)
         PROVE  DOMAIN mem' \subseteq DOMAIN mem /\ (disk' = disk \/ disk' = mem') /\ used' = used
    BY <1>13, WritesMemory DEF Update, Remove, Without
  <1>14. ASSUME NEW j \in Jobs, Time(j)
         PROVE  DOMAIN mem' = DOMAIN mem /\ DOMAIN disk' = DOMAIN disk /\ used' = used
    BY <1>14, TimeTyped DEF Time, SlotComesDue, BackoffEnds, MarkerGetsOld, Clock, counters
  <1>15. CASE Crash
    BY <1>0, <1>15 DEF Crash
  <1>. QED
    BY <1>0, <1>1, <1>2, <1>3, <1>4, <1>5, <1>6, <1>7, <1>8, <1>9, <1>10, <1>11, <1>12, <1>13,
       <1>14, <1>15
       DEF Next, Starting, Ticking, ManualRuns, Calls, counters

-----------------------------------------------------------------------------
(* The timer.                                                              *)

On(m) == {j \in DOMAIN m : m[j].enabled}

\* Both stores enable the same jobs while no write failed; after one failed write
\* of the service's own, memory enables none that the disk does not.
Aligned ==
  /\ fails = 0 => ~rejected
  /\ fails = 0 /\ Up => On(mem) = On(disk)
  /\ fails = 1 /\ ~rejected /\ Up => On(mem) \subseteq On(disk)
\* Every section that enables a job arms the timer, and a tick does at its end.
Armed ==
  start = "done" /\ On(mem) # {} =>
    /\ fails = 0 => timer
    /\ fails = 1 /\ ~rejected => timer \/ tick # "idle"

LEMMA TidiedOn ==
    ASSUME NEW j \in Jobs, NEW s \in JobState
    PROVE  Tidied(s).enabled = s.enabled /\ Recomputed(j, s).enabled = s.enabled
  BY DEF Tidied, Recomputed, JobState

LEMMA MaintainedOn ==
    ASSUME NEW m, IsStore(m), NEW e
    PROVE  On(Maintained(m, e)) = On(m)
  <1>1. ASSUME NEW j \in DOMAIN m
        PROVE  Maintained(m, e)[j].enabled = m[j].enabled
    <2>1. m[j] \in JobState /\ j \in Jobs
      BY StoreTyped
    <2>2. Maintained(m, e)[j] = Tidied(m[j]) \/ Maintained(m, e)[j] = Recomputed(j, m[j])
      BY Zenon DEF Maintained
    <2>. QED
      BY <2>1, <2>2, TidiedOn
  <1>. QED
    BY <1>1, MaintainedTyped DEF On

LEMMA MarkedOn ==
    ASSUME NEW m, IsStore(m), NEW S
    PROVE  On(Marked(m, S)) = On(m)
  <1>1. ASSUME NEW j \in DOMAIN m
        PROVE  Marked(m, S)[j].enabled = m[j].enabled
    <2>1. m[j] \in JobState
      BY StoreTyped
    <2>2. Marked(m, S)[j] = m[j] \/ Marked(m, S)[j] = [m[j] EXCEPT !.marker = "set"]
      BY Zenon DEF Marked
    <2>. QED
      BY <2>1, <2>2 DEF JobState
  <1>. QED
    BY <1>1, MarkedTyped DEF On

LEMMA TimeOn ==
    ASSUME NEW m, IsStore(m), NEW j \in Jobs,
           NEW n \in {SlotPassed(m, j), BackoffPassed(m, j), MarkerAged(m, j)}
    PROVE  On(n) = On(m)
  <1>1. ASSUME NEW i \in DOMAIN m
        PROVE  n[i].enabled = m[i].enabled
    <2>1. m[i] \in JobState
      BY StoreTyped
    <2>2. \/ n[i] = m[i]
          \/ n[i] = [m[i] EXCEPT !.backoff = FALSE]
          \/ n[i] = [m[i] EXCEPT !.marker = "old"]
          \/ n[i] = [m[i] EXCEPT !.next = "due",
                                 !.at = IF j \in OneShots /\ m[j].at = "ahead" /\ ~m[j].delayed
                                        THEN "past" ELSE m[i].at]
      BY Zenon DEF SlotPassed, BackoffPassed, MarkerAged
    <2>. QED
      BY <2>1, <2>2 DEF JobState
  <1>. QED
    BY <1>1, TimeTyped DEF On

\* A section that leaves the timer alone, and enables no job.
LEMMA Unarmed ==
    ASSUME TypeOK, Aligned, Armed, Up, Up', start' = start, timer' = timer, rejected' = rejected,
           \/ Saved \/ SaveFails
           \/ On(mem') = On(mem) /\ UNCHANGED <<disk, fails>>,
           On(mem') \subseteq On(mem) \/ On(mem') \subseteq On(disk),
           tick' # "idle" \/ (tick' = tick /\ (On(mem') \subseteq On(mem) \/ SaveFails))
    PROVE  Aligned' /\ Armed'
  <1>1. fails \in Nat
    BY DEF TypeOK
  <1>2. CASE SaveFails
    <2>1. fails' = fails + 1 /\ disk' = disk
      BY <1>2 DEF SaveFails
    <2>2. fails' # 0 /\ (fails' = 1 => fails = 0)
      BY <1>1, <2>1
    <2>3. fails = 0 => On(mem') \subseteq On(mem) /\ On(mem') \subseteq On(disk)
      BY DEF Aligned
    <2>4. Aligned'
      BY <2>1, <2>2, <2>3 DEF Aligned
    <2>5. Armed'
      BY <2>2, <2>3 DEF Armed
    <2>. QED
      BY <2>4, <2>5
  <1>3. CASE Saved
    <2>1. fails' = fails /\ disk' = mem'
      BY <1>3 DEF Saved
    <2>2. Aligned'
      BY <2>1 DEF Aligned
    <2>3. fails = 0 => On(mem') \subseteq On(mem)
      BY DEF Aligned
    <2>4. ~SaveFails
      <3>1. SUFFICES ASSUME SaveFails PROVE FALSE
        OBVIOUS
      <3>2. fails' = fails + 1
        BY <3>1 DEF SaveFails
      <3>. QED
        BY <1>1, <2>1, <3>2
    <2>5. Armed'
      BY <2>1, <2>3, <2>4 DEF Armed
    <2>. QED
      BY <2>2, <2>5
  <1>4. CASE On(mem') = On(mem) /\ UNCHANGED <<disk, fails>>
    <2>1. Aligned'
      BY <1>4 DEF Aligned
    <2>2. Armed'
      BY <1>4 DEF Armed
    <2>. QED
      BY <2>1, <2>2
  <1>. QED
    BY <1>2, <1>3, <1>4

\* A section that wrote the store and armed the timer.
LEMMA SavedAndArmed ==
    ASSUME Aligned, Saved, ArmTimer, rejected' = rejected
    PROVE  Aligned' /\ Armed'
  <1>1. disk' = mem' /\ fails' = fails
    BY DEF Saved
  <1>2. Aligned'
    BY <1>1 DEF Aligned
  <1>3. On(mem') # {} => timer'
    BY DEF ArmTimer, On
  <1>. QED
    BY <1>2, <1>3 DEF Armed

\* A call whose write failed.
LEMMA CallRejected ==
    ASSUME TypeOK, SaveFails, rejected' = TRUE
    PROVE  Aligned' /\ Armed'
  <1>1. fails \in Nat /\ fails' = fails + 1
    BY DEF TypeOK, SaveFails
  <1>2. fails' # 0
    BY <1>1
  <1>. QED
    BY <1>2 DEF Aligned, Armed

\* Before start() is through, only the stores matter.
LEMMA NotStarted ==
    ASSUME TypeOK, Aligned, start' # "done", rejected' = rejected,
           Saved \/ SaveFails,
           fails = 0 => On(mem') \subseteq On(disk)
    PROVE  Aligned' /\ Armed'
  <1>1. fails \in Nat
    BY DEF TypeOK
  <1>2. CASE SaveFails
    <2>1. fails' = fails + 1 /\ disk' = disk
      BY <1>2 DEF SaveFails
    <2>2. fails' # 0 /\ (fails' = 1 => fails = 0)
      BY <1>1, <2>1
    <2>. QED
      BY <2>1, <2>2 DEF Aligned, Armed
  <1>3. CASE Saved
    <2>1. fails' = fails /\ disk' = mem'
      BY <1>3 DEF Saved
    <2>. QED
      BY <2>1 DEF Aligned, Armed
  <1>. QED
    BY <1>2, <1>3

LEMMA StartKeepsTimer ==
    ASSUME TypeOK, Aligned, Armed, Starting
    PROVE  Aligned' /\ Armed'
  <1>. USE DEF Ended
  <1>1. CASE Start
    BY <1>1 DEF Start, Aligned, Armed, Up, store, counters, history
  <1>2. CASE StartMarks
    <2>1. start' # "done" /\ rejected' = rejected /\ (Saved \/ SaveFails)
      BY <1>2 DEF StartMarks, history
    <2>2. On(mem') \subseteq On(disk)
      <3>1. DOMAIN mem' = DOMAIN disk
        BY <1>2 DEF StartMarks
      <3>2. ASSUME NEW j \in DOMAIN disk, mem'[j].enabled
            PROVE  disk[j].enabled
        <4>1. mem'[j] = disk[j] \/ mem'[j] = Interrupted(j, disk[j])
          BY <1>2 DEF StartMarks
        <4>2. disk[j] \in JobState
          BY StoreTyped DEF TypeOK
        <4>3. Interrupted(j, disk[j]).enabled => disk[j].enabled
          BY <4>2 DEF Interrupted, JobState
        <4>. QED
          BY <3>2, <4>1, <4>3
      <3>. QED
        BY <3>1, <3>2 DEF On
    <2>. QED
      BY <2>1, <2>2, NotStarted
  <1>3. CASE StartPlans
    <2>1. PICK m, now :
            /\ IsStore(m) /\ DOMAIN m = DOMAIN mem
            /\ \A j \in DOMAIN mem : m[j].marker = mem[j].marker /\ m[j].enabled = mem[j].enabled
            /\ \A j \in now : j \in DOMAIN mem /\ mem[j].marker = "none"
            /\ mem' = Marked(m, now)
            /\ deferred' \subseteq Jobs
            /\ \/ /\ Saved \/ (now = {} /\ SavedIfChanged)
                  /\ run' = [run EXCEPT !["start"] =
                               [j \in Jobs |-> IF j \in now THEN "queued" ELSE "none"]]
                  /\ start' \in {"arm", "catchup"} /\ (start' = "arm" => now = {})
               \/ SaveFails /\ start' = "failed" /\ UNCHANGED run
      BY <1>3, PlanEffects
    <2>2. On(mem') = On(m) /\ On(m) = On(mem)
      <3>1. On(m) = On(mem)
        BY <2>1 DEF On
      <3>. QED
        BY <2>1, <3>1, MarkedOn
    <2>3. start' # "done" /\ rejected' = rejected /\ Up /\ start = "plan"
      BY <1>3, <2>1 DEF StartPlans, history, Up
    <2>4. CASE Saved \/ SaveFails
      BY <2>2, <2>3, <2>4, NotStarted DEF Aligned
    <2>5. CASE SavedIfChanged /\ ~Saved
      <3>1. mem' = mem /\ UNCHANGED <<disk, fails>>
        BY <2>5 DEF SavedIfChanged
      <3>. QED
        BY <2>3, <3>1 DEF Aligned, Armed
    <2>. QED
      BY <2>1, <2>4, <2>5
  <1>4. CASE StartApplies
    <2>1. PICK n :
             /\ IsStore(n) /\ DOMAIN n \subseteq DOMAIN mem
             /\ \A j \in DOMAIN n :
                  IF run["start"][j] \in Outcomes
                  THEN Ended(mem, n, j, run["start"][j])
                  ELSE n[j].marker = mem[j].marker /\ n[j].enabled = mem[j].enabled
             /\ mem' = Maintained(n, FALSE)
      BY <1>4, CatchupEffects
    <2>2. On(mem') \subseteq On(mem)
      <3>1. On(n) \subseteq On(mem)
        BY <2>1 DEF On
      <3>. QED
        BY <2>1, <3>1, MaintainedOn
    <2>3. start' # "done" /\ rejected' = rejected /\ Up /\ (Saved \/ SaveFails)
      BY <1>4 DEF StartApplies, Up
    <2>. QED
      BY <2>2, <2>3, NotStarted DEF Aligned
  <1>5. CASE StartArms
    <2>1. On(mem') = On(mem) /\ rejected' = rejected /\ Up /\ start = "arm"
      BY <1>5, MaintainedOn DEF StartArms, TypeOK, Up
    <2>2. CASE SavedIfChanged /\ ArmTimer /\ start' = "done"
      <3>1. CASE Saved
        BY <2>1, <2>2, <3>1, SavedAndArmed
      <3>2. CASE ~Saved
        <4>1. mem' = mem /\ UNCHANGED <<disk, fails>>
          BY <2>2, <3>2 DEF SavedIfChanged
        <4>2. Aligned'
          BY <2>1, <4>1 DEF Aligned, Up
        <4>3. On(mem') # {} => timer'
          BY <2>2 DEF ArmTimer, On
        <4>. QED
          BY <4>2, <4>3 DEF Armed
      <3>. QED
        BY <3>1, <3>2
    <2>3. CASE SaveFails /\ start' = "failed"
      BY <2>1, <2>3, NotStarted DEF Aligned
    <2>. QED
      BY <1>5, <2>2, <2>3 DEF StartArms
  <1>. QED
    BY <1>1, <1>2, <1>3, <1>4, <1>5 DEF Starting

LEMMA TickKeepsTimer ==
    ASSUME TypeOK, Placed, Aligned, Armed, Ticking \/ TimerFiresDuringTick
    PROVE  Aligned' /\ Armed'
  <1>. USE DEF Ended
  <1>1. CASE TimerFires \/ TimerFiresDuringTick
    <2>1. timer' = TRUE /\ UNCHANGED <<disk, mem, start, fails, rejected>>
      BY <1>1 DEF TimerFires, TimerFiresDuringTick, ArmRecheck, store, startVars, counters, history
    <2>. QED
      BY <2>1 DEF Aligned, Armed, Up
  <1>2. CASE TickEnds
    <2>1. UNCHANGED <<disk, mem, start, fails, rejected>>
      BY <1>2 DEF TickEnds, store, startVars, counters, history
    <2>2. On(mem) # {} => timer'
      BY <1>2 DEF TickEnds, On
    <2>. QED
      BY <2>1, <2>2 DEF Aligned, Armed, Up
  <1>3. CASE TickCollects
    <2>1. PICK S : mem' = Maintained(disk, TRUE) \/ mem' = Marked(disk, S)
      BY <1>3, Zenon DEF TickCollects
    <2>2. On(mem') = On(disk)
      BY <2>1, MaintainedOn, MarkedOn DEF TypeOK
    <2>3. /\ start' = start /\ timer' = timer /\ rejected' = rejected /\ tick = "collect"
          /\ tick' \in {"run", "end"} /\ (Saved \/ SaveFails)
      BY <1>3 DEF TickCollects, startVars
    <2>4. Up /\ Up'
      BY <2>3 DEF Placed, Up
    <2>. QED
      BY <2>2, <2>3, <2>4, Unarmed
  <1>4. CASE TickApplies
    <2>1. PICK retries : mem' = Maintained(Applied(disk, "tick", retries), FALSE)
      BY <1>4 DEF TickApplies
    <2>. DEFINE n == Applied(disk, "tick", retries)
    <2>2. /\ IsStore(n) /\ DOMAIN n \subseteq DOMAIN disk
          /\ \A j \in DOMAIN n : n[j].enabled => disk[j].enabled
      BY AppliedTyped DEF TypeOK
    <2>. HIDE DEF n
    <2>3. On(n) \subseteq On(disk)
      BY <2>2 DEF On
    <2>4. On(mem') \subseteq On(disk)
      BY <2>1, <2>2, <2>3, MaintainedOn DEF n
    <2>5. /\ start' = start /\ timer' = timer /\ rejected' = rejected /\ tick = "run"
          /\ tick' = "end" /\ (Saved \/ SaveFails)
      BY <1>4 DEF TickApplies, startVars
    <2>6. Up /\ Up'
      BY <2>5 DEF Placed, Up
    <2>. QED
      BY <2>4, <2>5, <2>6, Unarmed
  <1>. QED
    BY <1>1, <1>2, <1>3, <1>4 DEF Ticking

LEMMA ReadKeepsTimer ==
    ASSUME TypeOK, Aligned, Armed,
           \/ Read
           \/ \E c \in Callers, j \in Jobs, forced \in BOOLEAN : ManualAdmitted(c, j, forced)
    PROVE  Aligned' /\ Armed'
  <1>1. mem' = Maintained(mem, FALSE)
    BY DEF Read, ManualAdmitted
  <1>2. On(mem') = On(mem)
    BY <1>1, MaintainedOn DEF TypeOK
  <1>3. /\ start' = start /\ timer' = timer /\ rejected' = rejected /\ tick' = tick /\ Up /\ Up'
        /\ Saved \/ SaveFails \/ UNCHANGED <<disk, fails>>
    BY DEF Read, ManualAdmitted, startVars, Serving, Up
  <1>. QED
    BY <1>2, <1>3, Unarmed

LEMMA ManualKeepsTimer ==
    ASSUME TypeOK, Placed, Aligned, Armed, NEW c \in Callers, NEW j \in Jobs, ManualRuns(c, j)
    PROVE  Aligned' /\ Armed'
  <1>. USE DEF Ended
  <1>0. /\ start' = start /\ rejected' = rejected /\ tick' = tick /\ run[c][j] # "none"
    BY DEF ManualRuns, ManualPrepared, ManualApplies, startVars, history, Outcomes
  <1>1. Up /\ Up'
    <2>1. run # NoRuns
      BY <1>0 DEF NoRuns, Origins
    <2>. QED
      BY <1>0, <2>1 DEF Placed, Up
  <1>2. CASE UNCHANGED <<store, timer, fails>>
    <2>1. disk' = disk /\ mem' = mem /\ timer' = timer /\ fails' = fails
      BY <1>2 DEF store
    <2>. QED
      BY <1>0, <1>1, <2>1 DEF Aligned, Armed
  <1>3. CASE ManualPrepared(c, j) /\ ~UNCHANGED <<store, timer, fails>>
    <2>1. mem' = Marked(mem, {j}) /\ timer' = timer /\ (Saved \/ SaveFails)
      BY <1>3 DEF ManualPrepared, store
    <2>2. On(mem') = On(mem)
      BY <2>1, MarkedOn DEF TypeOK
    <2>. QED
      BY <1>0, <1>1, <2>1, <2>2, Unarmed
  <1>4. CASE ManualApplies(c, j) /\ ~UNCHANGED <<store, timer, fails>>
    <2>1. /\ j \in DOMAIN mem
          /\ \/ Saved /\ ArmTimer
             \/ SaveFails /\ timer' = timer
      BY <1>4 DEF ManualApplies
    <2>2. PICK n :
            /\ IsStore(n) /\ DOMAIN n \subseteq DOMAIN disk /\ DOMAIN disk \ {j} \subseteq DOMAIN n
            /\ \A i \in DOMAIN n : IF i = j THEN Ended(mem, n, j, run[c][j]) ELSE n[i] = disk[i]
            /\ mem' = Maintained(n, TRUE)
      BY <1>4, <2>1, ManualEffects
    <2>3. On(mem') = On(n)
      BY <2>2, MaintainedOn
    <2>4. On(mem') \subseteq On(disk) \cup On(mem)
      BY <2>1, <2>2, <2>3 DEF On
    <2>5. CASE Saved /\ ArmTimer
      BY <1>0, <2>5, SavedAndArmed
    <2>6. CASE SaveFails /\ timer' = timer
      <3>1. fails \in Nat /\ fails' = fails + 1 /\ disk' = disk
        BY <2>6 DEF TypeOK, SaveFails
      <3>2. fails' # 0 /\ (fails' = 1 => fails = 0)
        BY <3>1
      <3>3. fails = 0 => On(mem') \subseteq On(disk) /\ On(mem') \subseteq On(mem)
        BY <1>1, <2>4 DEF Aligned
      <3>4. Aligned'
        BY <3>1, <3>2, <3>3 DEF Aligned
      <3>5. Armed'
        BY <1>0, <2>6, <3>2, <3>3 DEF Armed
      <3>. QED
        BY <3>4, <3>5
    <2>. QED
      BY <2>1, <2>5, <2>6
  <1>. QED
    BY <1>2, <1>3, <1>4 DEF ManualRuns

LEMMA CallKeepsTimer ==
    ASSUME TypeOK, Aligned, NEW j \in Jobs,
           Add(j) \/ Remove(j) \/ \E patch \in Patches : Update(j, patch)
    PROVE  Aligned' /\ Armed'
  <1>1. Writes
    BY DEF Add, Remove, Update
  <1>. QED
    BY <1>1, SavedAndArmed, CallRejected DEF Writes

LEMMA RestKeepsTimer ==
    ASSUME TypeOK, Aligned, Armed,
           \/ Crash
           \/ \E j \in Jobs : Time(j) \/ \E o \in Origins : Running(o, j)
    PROVE  Aligned' /\ Armed'
  <1>1. CASE Crash
    BY <1>1 DEF Crash, Aligned, Armed, Up
  <1>2. ASSUME NEW j \in Jobs, Time(j)
        PROVE  Aligned' /\ Armed'
    <2>1. UNCHANGED <<start, timer, tick, fails, rejected>>
      BY <1>2 DEF Time, SlotComesDue, BackoffEnds, MarkerGetsOld, Clock, startVars, counters, history
    <2>2. /\ disk' \in {SlotPassed(disk, j), BackoffPassed(disk, j), MarkerAged(disk, j)}
          /\ mem' \in {SlotPassed(mem, j), BackoffPassed(mem, j), MarkerAged(mem, j)}
      BY <1>2 DEF Time, SlotComesDue, BackoffEnds, MarkerGetsOld, Clock
    <2>3. On(disk') = On(disk) /\ On(mem') = On(mem)
      BY <2>2, TimeOn DEF TypeOK
    <2>. QED
      BY <2>1, <2>3 DEF Aligned, Armed, Up
  <1>3. ASSUME NEW j \in Jobs, NEW o \in Origins, Running(o, j)
        PROVE  Aligned' /\ Armed'
    <2>1. UNCHANGED <<disk, mem, start, timer, tick, fails, rejected>>
      BY <1>3 DEF Running, RunStarts, RunEnds, store, startVars, counters, history
    <2>. QED
      BY <2>1 DEF Aligned, Armed, Up
  <1>. QED
    BY <1>1, <1>2, <1>3

-----------------------------------------------------------------------------
(* One-shots that are done.                                                *)

Ok(j) == \E o \in Origins : run[o][j] = "ok"

\* A one-shot in `spent` that is still enabled on disk is one whose result is yet
\* to be written, or one the next start will find by its marker.
Retired ==
  /\ spent \subseteq used
  /\ fails = 0 => \A j \in spent \cap On(disk) : IF Up THEN Ok(j) ELSE disk[j].marker # "none"

\* A step that enables nothing on disk and takes no result away.
LEMMA RetiredKept ==
    ASSUME TypeOK, Retired, spent' \subseteq spent, used \subseteq used', Up' <=> Up,
           \A j \in Jobs : Ok(j) => Ok(j)',
           fails' = 0 => fails = 0 /\ On(disk') \subseteq On(disk),
           ~Up => \A j \in DOMAIN disk : disk[j].marker # "none" => disk'[j].marker # "none"
    PROVE  Retired'
  <1>1. spent \subseteq Jobs /\ On(disk) \subseteq DOMAIN disk
    BY JobsAssumption DEF TypeOK, On
  <1>2. ASSUME fails' = 0, NEW j \in spent' \cap On(disk')
        PROVE  IF Up' THEN Ok(j)' ELSE disk'[j].marker # "none"
    <2>1. j \in spent \cap On(disk) /\ j \in Jobs /\ fails = 0
      BY <1>1, <1>2
    <2>2. IF Up THEN Ok(j) ELSE disk[j].marker # "none"
      BY <2>1 DEF Retired
    <2>. QED
      BY <1>1, <2>1, <2>2
  <1>3. spent' \subseteq used'
    BY DEF Retired
  <1>. QED
    BY <1>2, <1>3 DEF Retired

\* A write of a memory that enables nothing enables nothing on disk.
LEMMA DiskOn ==
    ASSUME TypeOK, Aligned, Up, Saved \/ SaveFails \/ SavedIfChanged, fails' = 0,
           On(mem') \subseteq On(mem) \/ On(mem') \subseteq On(disk)
    PROVE  fails = 0 /\ On(disk') \subseteq On(disk)
  <1>1. fails = 0 /\ ~SaveFails
    BY FailuresCounted
  <1>2. disk' = mem' \/ disk' = disk
    BY <1>1 DEF Saved, SavedIfChanged
  <1>. QED
    BY <1>1, <1>2 DEF Aligned

\* No result is taken away by the beginning of a batch or the change of a run
\* that has no result yet.
LEMMA OkKept ==
    ASSUME TypeOK, NEW o \in Origins,
           \/ run' = run
           \/ /\ Batch(o) = {}
              /\ \E S : run' = [run EXCEPT ![o] = [j \in Jobs |-> IF j \in S THEN "queued" ELSE "none"]]
           \/ \E j \in Jobs : \E stage : run[o][j] # "ok" /\ run' = [run EXCEPT ![o][j] = stage]
    PROVE  \A j \in Jobs : Ok(j) => Ok(j)'
  <1>1. CASE run' = run
    BY <1>1 DEF Ok
  <1>2. CASE /\ Batch(o) = {}
             /\ \E S : run' = [run EXCEPT ![o] = [j \in Jobs |-> IF j \in S THEN "queued" ELSE "none"]]
    <2>1. \A p \in Origins \ {o} : run'[p] = run[p]
      BY <1>2 DEF TypeOK
    <2>2. \A j \in Jobs : run[o][j] = "none"
      BY <1>2 DEF Batch
    <2>. QED
      BY <2>1, <2>2 DEF Ok
  <1>3. ASSUME NEW j \in Jobs, NEW stage, run[o][j] # "ok", run' = [run EXCEPT ![o][j] = stage]
        PROVE  \A i \in Jobs : Ok(i) => Ok(i)'
    <2>1. \A p \in Origins, i \in Jobs : run[p][i] = "ok" => run'[p][i] = "ok"
      BY <1>3 DEF TypeOK
    <2>. QED
      BY <2>1 DEF Ok
  <1>. QED
    BY <1>1, <1>2, <1>3

LEMMA StartRetires ==
    ASSUME TypeOK, Placed, Aligned, Retired, Start \/ StartMarks \/ StartPlans \/ StartArms
    PROVE  Retired'
  <1>0. /\ "start" \in Origins /\ spent' = spent /\ used' = used
    BY DEF Start, StartMarks, StartPlans, StartArms, Origins, history, counters
  <1>1. CASE Start
    <2>1. UNCHANGED <<disk, run, fails>> /\ ~Up /\ ~Up'
      BY <1>1 DEF Start, Up, store, counters
    <2>. QED
      BY <1>0, <2>1, OkKept, RetiredKept
  <1>2. CASE StartMarks
    <2>1. /\ ~Up /\ Up' /\ (Saved \/ SaveFails) /\ DOMAIN mem' = DOMAIN disk
          /\ \A j \in DOMAIN disk :
               mem'[j] = IF disk[j].marker # "none" THEN Interrupted(j, disk[j]) ELSE disk[j]
      BY <1>2 DEF StartMarks, Up
    <2>2. ASSUME fails' = 0, NEW j \in spent, j \in On(disk')
          PROVE  FALSE
      <3>1. fails = 0 /\ disk' = mem'
        BY <2>1, <2>2, FailuresCounted DEF Saved
      <3>2. j \in DOMAIN disk /\ mem'[j].enabled /\ j \in OneShots /\ disk[j] \in JobState
        BY <2>1, <2>2, <3>1, StoreTyped DEF On, TypeOK
      <3>3. ~Interrupted(j, disk[j]).enabled
        BY <3>2 DEF Interrupted, JobState
      <3>4. disk[j].marker = "none" /\ disk[j].enabled
        BY <2>1, <3>2, <3>3
      <3>5. j \in spent \cap On(disk)
        BY <2>2, <3>2, <3>4 DEF On
      <3>. QED
        BY <2>1, <3>1, <3>4, <3>5 DEF Retired
    <2>. QED
      BY <1>0, <2>2 DEF Retired
  <1>3. CASE StartPlans
    <2>1. PICK m, now :
            /\ IsStore(m) /\ DOMAIN m = DOMAIN mem
            /\ \A j \in DOMAIN mem : m[j].marker = mem[j].marker /\ m[j].enabled = mem[j].enabled
            /\ \A j \in now : j \in DOMAIN mem /\ mem[j].marker = "none"
            /\ mem' = Marked(m, now)
            /\ deferred' \subseteq Jobs
            /\ \/ /\ Saved \/ (now = {} /\ SavedIfChanged)
                  /\ run' = [run EXCEPT !["start"] =
                               [j \in Jobs |-> IF j \in now THEN "queued" ELSE "none"]]
                  /\ start' \in {"arm", "catchup"} /\ (start' = "arm" => now = {})
               \/ SaveFails /\ start' = "failed" /\ UNCHANGED run
      BY <1>3, PlanEffects
    <2>2. On(mem') = On(mem)
      <3>1. On(m) = On(mem)
        BY <2>1 DEF On
      <3>. QED
        BY <2>1, <3>1, MarkedOn
    <2>3. Up /\ Up' /\ Batch("start") = {} /\ (Saved \/ SaveFails \/ SavedIfChanged)
      BY <1>3, <2>1 DEF StartPlans, Up, Placed
    <2>4. \A j \in Jobs : Ok(j) => Ok(j)'
      <3>1. \/ run' = run
            \/ \E S : run' = [run EXCEPT !["start"] = [j \in Jobs |-> IF j \in S THEN "queued" ELSE "none"]]
        BY <2>1, Zenon
      <3>. QED
        BY <1>0, <2>3, <3>1, OkKept
    <2>. QED
      BY <1>0, <2>2, <2>3, <2>4, DiskOn, RetiredKept
  <1>4. CASE StartArms
    <2>1. On(mem') = On(mem)
      BY <1>4, MaintainedOn DEF StartArms, TypeOK
    <2>2. run' = run /\ Up /\ Up' /\ (Saved \/ SaveFails \/ SavedIfChanged)
      BY <1>4 DEF StartArms, Up
    <2>. QED
      BY <1>0, <2>1, <2>2, DiskOn, OkKept, RetiredKept
  <1>. QED
    BY <1>1, <1>2, <1>3, <1>4

LEMMA QuietRetires ==
    ASSUME TypeOK, Placed, Aligned, Retired,
           TimerFires \/ TimerFiresDuringTick \/ TickEnds \/ TickCollects \/ Read
    PROVE  Retired'
  <1>0. /\ "tick" \in Origins /\ spent' = spent /\ used' = used /\ (Up' <=> Up)
    BY DEF TimerFires, TimerFiresDuringTick, TickEnds, TickCollects, Read, Origins, history, counters,
           startVars, Up
  <1>1. CASE TimerFires \/ TimerFiresDuringTick \/ TickEnds
    <2>1. UNCHANGED <<disk, run, fails>>
      BY <1>1 DEF TimerFires, TimerFiresDuringTick, TickEnds, store, counters
    <2>. QED
      BY <1>0, <2>1, OkKept, RetiredKept
  <1>2. CASE TickCollects
    <2>1. PICK S : mem' = Maintained(disk, TRUE) \/ mem' = Marked(disk, S)
      BY <1>2, Zenon DEF TickCollects
    <2>2. On(mem') = On(disk)
      BY <2>1, MaintainedOn, MarkedOn DEF TypeOK
    <2>3. /\ Saved \/ SaveFails
          /\ tick = "collect"
          /\ \/ run' = run
             \/ \E T : run' = [run EXCEPT !["tick"] = [j \in Jobs |-> IF j \in T THEN "queued" ELSE "none"]]
      BY <1>2, Zenon DEF TickCollects
    <2>4. Up /\ Batch("tick") = {}
      BY <2>3 DEF Placed
    <2>5. \A j \in Jobs : Ok(j) => Ok(j)'
      BY <1>0, <2>3, <2>4, OkKept
    <2>. QED
      BY <1>0, <2>2, <2>3, <2>4, <2>5, DiskOn, RetiredKept
  <1>3. CASE Read
    <2>1. On(mem') = On(mem)
      BY <1>3, MaintainedOn DEF Read, TypeOK
    <2>2. run' = run /\ Up /\ (Saved \/ SaveFails)
      BY <1>3 DEF Read, Serving, Up
    <2>. QED
      BY <1>0, <2>1, <2>2, DiskOn, OkKept, RetiredKept
  <1>. QED
    BY <1>1, <1>2, <1>3

LEMMA RunRetires ==
    ASSUME TypeOK, Placed, Retired, NEW o \in Origins, NEW j \in Jobs, Running(o, j)
    PROVE  Retired'
  <1>1. UNCHANGED <<disk, used, fails, start>> /\ run[o][j] \in {"queued", "running"}
    BY DEF Running, RunStarts, RunEnds, store, counters, startVars
  <1>2. PICK stage \in Stages : /\ run' = [run EXCEPT ![o][j] = stage]
                                /\ spent' = spent \/ (spent' = spent \cup {j} /\ stage = "ok")
    BY DEF Running, RunStarts, RunEnds, history, Stages
  <1>3. Up /\ Up'
    BY <1>1 DEF Placed, NoRuns, Up
  <1>4. \A i \in Jobs : Ok(i) => Ok(i)'
    BY <1>1, <1>2, OkKept
  <1>5. stage = "ok" => Ok(j)'
    BY <1>2 DEF Ok, TypeOK
  <1>6. j \in used
    BY <1>1 DEF Placed, Batch
  <1>7. spent \subseteq Jobs
    BY JobsAssumption DEF TypeOK
  <1>. QED
    BY <1>1, <1>2, <1>3, <1>4, <1>5, <1>6, <1>7 DEF Retired

\* The results of a batch disable the one-shots that ended well.
LEMMA BatchRetires ==
    ASSUME TypeOK, Aligned, Retired, NEW o \in Origins, run' = EndBatch(o), NEW m \in {disk, mem},
           NEW n, IsStore(n), DOMAIN n \subseteq DOMAIN m,
           \A j \in DOMAIN n : IF run[o][j] \in Outcomes THEN Ended(m, n, j, run[o][j])
                                                         ELSE n[j].enabled = m[j].enabled,
           mem' = Maintained(n, FALSE), Saved \/ SaveFails, Up, Up', spent' = spent, used' = used
    PROVE  Retired'
  <1>1. On(mem') = On(n)
    BY MaintainedOn
  <1>2. ASSUME fails' = 0, NEW j \in spent, j \in On(disk')
        PROVE  Ok(j)'
    <2>1. fails = 0 /\ disk' = mem'
      BY <1>2, FailuresCounted DEF Saved
    <2>2. j \in DOMAIN n /\ n[j].enabled /\ j \in OneShots /\ j \in Jobs
      BY <1>1, <1>2, <2>1, JobsAssumption DEF On, TypeOK
    <2>3. m[j].enabled /\ j \in DOMAIN m /\ run[o][j] # "ok"
      BY <2>2 DEF Ended, Outcomes
    <2>4. j \in On(disk)
      BY <2>1, <2>3 DEF On, Aligned
    <2>5. PICK p \in Origins : run[p][j] = "ok"
      BY <1>2, <2>1, <2>4 DEF Retired, Ok
    <2>6. p # o /\ run'[p] = run[p]
      BY <2>3, <2>5 DEF EndBatch, TypeOK
    <2>. QED
      BY <2>5, <2>6 DEF Ok
  <1>. QED
    BY <1>2 DEF Retired

LEMMA ApplyRetires ==
    ASSUME TypeOK, Placed, Aligned, Retired, StartApplies \/ TickApplies
    PROVE  Retired'
  <1>1. CASE StartApplies
    <2>1. PICK n :
             /\ IsStore(n) /\ DOMAIN n \subseteq DOMAIN mem
             /\ \A j \in DOMAIN n :
                  IF run["start"][j] \in Outcomes
                  THEN Ended(mem, n, j, run["start"][j])
                  ELSE n[j].marker = mem[j].marker /\ n[j].enabled = mem[j].enabled
             /\ mem' = Maintained(n, FALSE)
      BY <1>1, CatchupEffects
    <2>2. /\ run' = EndBatch("start") /\ (Saved \/ SaveFails) /\ "start" \in Origins
          /\ Up /\ Up' /\ spent' = spent /\ used' = used
      BY <1>1 DEF StartApplies, Origins, Up
    <2>. QED
      BY <2>1, <2>2, BatchRetires
  <1>2. CASE TickApplies
    <2>1. PICK retries : mem' = Maintained(Applied(disk, "tick", retries), FALSE)
      BY <1>2 DEF TickApplies
    <2>. DEFINE n == Applied(disk, "tick", retries)
    <2>2. /\ run' = EndBatch("tick") /\ (Saved \/ SaveFails) /\ "tick" \in Origins
          /\ Up /\ Up' /\ spent' = spent /\ used' = used
      BY <1>2 DEF TickApplies, Origins, Placed, startVars, Up
    <2>3. /\ IsStore(n) /\ DOMAIN n \subseteq DOMAIN disk
          /\ \A j \in DOMAIN n : IF run["tick"][j] \in Outcomes THEN Ended(disk, n, j, run["tick"][j])
                                                                ELSE n[j].enabled = disk[j].enabled
      BY AppliedTyped DEF TypeOK
    <2>. HIDE DEF n
    <2>4. mem' = Maintained(n, FALSE)
      BY <2>1 DEF n
    <2>. QED
      BY <2>2, <2>3, <2>4, BatchRetires
  <1>. QED
    BY <1>1, <1>2

LEMMA ManualRetires ==
    ASSUME IInv, Aligned, Retired, NEW c \in Callers, NEW j \in Jobs,
           ManualRuns(c, j) \/ \E forced \in BOOLEAN : ManualAdmitted(c, j, forced)
    PROVE  Retired'
  <1>. USE DEF IInv
  <1>0. /\ c \in Origins /\ spent' = spent /\ used' = used /\ start' = start
    BY DEF ManualRuns, ManualPrepared, ManualApplies, ManualAdmitted, Origins, history, startVars
  <1>1. Up /\ Up'
    <2>1. start' = start /\ (run # NoRuns \/ Up)
      BY <1>0
         DEF ManualRuns, ManualPrepared, ManualApplies, ManualAdmitted, Outcomes, NoRuns, Serving, Up
    <2>. QED
      BY <2>1 DEF Placed, Up
  <1>2. ASSUME NEW forced \in BOOLEAN, ManualAdmitted(c, j, forced)
        PROVE  Retired'
    <2>1. /\ UNCHANGED <<disk, fails>> /\ run[c][j] = "none"
          /\ run' = run \/ run' = [run EXCEPT ![c][j] = "admitted"]
      BY <1>2 DEF ManualAdmitted
    <2>2. \A i \in Jobs : Ok(i) => Ok(i)'
      BY <1>0, <2>1, OkKept
    <2>. QED
      BY <1>0, <1>1, <2>1, <2>2, RetiredKept
  <1>3. CASE ManualPrepared(c, j)
    <2>1. /\ run[c][j] = "admitted"
          /\ \E stage : run' = [run EXCEPT ![c][j] = stage]
          /\ \/ UNCHANGED <<store, fails>>
             \/ mem' = Marked(mem, {j}) /\ (Saved \/ SaveFails)
      BY <1>3 DEF ManualPrepared
    <2>2. \A i \in Jobs : Ok(i) => Ok(i)'
      BY <1>0, <2>1, OkKept
    <2>3. fails' = 0 => fails = 0 /\ On(disk') \subseteq On(disk)
      <3>1. CASE UNCHANGED <<store, fails>>
        BY <3>1 DEF store
      <3>2. CASE mem' = Marked(mem, {j}) /\ (Saved \/ SaveFails)
        BY <1>1, <3>2, MarkedOn, DiskOn DEF TypeOK
      <3>. QED
        BY <2>1, <3>1, <3>2
    <2>. QED
      BY <1>0, <1>1, <2>2, <2>3, RetiredKept
  <1>4. CASE ManualApplies(c, j)
    <2>1. /\ run[c][j] \in Outcomes /\ run' = [run EXCEPT ![c][j] = "none"]
          /\ \/ j \in DOMAIN mem /\ (Saved \/ SaveFails)
             \/ j \notin DOMAIN mem /\ UNCHANGED <<store, fails>>
      BY <1>4 DEF ManualApplies
    <2>2. \A p \in Origins, i \in Jobs : run[p][i] = "ok" /\ (i = j => p # c) => run'[p][i] = "ok"
      BY <2>1 DEF TypeOK
    <2>3. ASSUME fails' = 0, NEW i \in spent, i \in On(disk')
          PROVE  Ok(i)'
      <3>0. i \in OneShots /\ i \in Jobs /\ IsStore(disk) /\ IsStore(mem)
        BY JobsAssumption DEF TypeOK
      <3>1. CASE j \notin DOMAIN mem /\ UNCHANGED <<store, fails>>
        <4>1. fails = 0 /\ i \in On(disk) /\ i \in DOMAIN mem
          BY <1>1, <2>3, <3>1 DEF store, On, Synced
        <4>2. PICK p \in Origins : run[p][i] = "ok"
          BY <1>1, <2>3, <4>1 DEF Retired, Ok
        <4>. QED
          BY <2>2, <3>0, <3>1, <4>1, <4>2 DEF Ok
      <3>2. CASE j \in DOMAIN mem /\ (Saved \/ SaveFails)
        <4>1. PICK n :
                /\ IsStore(n) /\ DOMAIN n \subseteq DOMAIN disk /\ DOMAIN disk \ {j} \subseteq DOMAIN n
                /\ \A h \in DOMAIN n : IF h = j THEN Ended(mem, n, j, run[c][j]) ELSE n[h] = disk[h]
                /\ mem' = Maintained(n, TRUE)
          BY <1>4, <3>2, ManualEffects
        <4>2. fails = 0 /\ disk' = mem'
          BY <2>3, <3>2, FailuresCounted DEF Saved
        <4>3. i \in DOMAIN n /\ n[i].enabled
          <5>1. i \in On(n)
            BY <2>3, <4>1, <4>2, MaintainedOn
          <5>. QED
            BY <5>1 DEF On
        <4>4. i = j => run[c][j] # "ok" /\ mem[j].enabled
          BY <3>0, <4>1, <4>3 DEF Ended
        <4>5. i \in On(disk)
          <5>1. CASE i = j
            BY <1>1, <3>2, <4>2, <4>4, <5>1 DEF On, Aligned
          <5>2. CASE i # j
            BY <4>1, <4>3, <5>2 DEF On
          <5>. QED
            BY <5>1, <5>2
        <4>6. PICK p \in Origins : run[p][i] = "ok"
          BY <1>1, <2>3, <4>2, <4>5 DEF Retired, Ok
        <4>. QED
          BY <2>2, <3>0, <4>4, <4>6 DEF Ok
      <3>. QED
        BY <2>1, <3>1, <3>2
    <2>. QED
      BY <1>0, <1>1, <2>3 DEF Retired
  <1>. QED
    BY <1>2, <1>3, <1>4 DEF ManualRuns

LEMMA CallRetires ==
    ASSUME TypeOK, Placed, Aligned, Retired, NEW j \in Jobs,
           Add(j) \/ Remove(j) \/ \E patch \in Patches : Update(j, patch)
    PROVE  Retired'
  <1>0. Up /\ Up' /\ run' = run /\ (Saved \/ SaveFails) /\ used \subseteq used'
    BY DEF Add, Remove, Update, Writes, Serving, Up, startVars
  <1>1. \A i \in Jobs : Ok(i) => Ok(i)'
    BY <1>0 DEF Ok
  <1>2. spent \subseteq Jobs /\ spent \subseteq used
    BY JobsAssumption DEF TypeOK, Retired
  <1>3. \A i \in DOMAIN mem : mem[i] \in JobState
    BY StoreTyped DEF TypeOK
  \* Of the jobs that stay spent a call enables none.
  <1>4. SUFFICES /\ spent' \subseteq spent
                 /\ spent' \cap On(mem') \subseteq On(mem)
    <2>1. ASSUME fails' = 0, spent' \subseteq spent, NEW i \in spent',
                 spent' \cap On(mem') \subseteq On(mem), i \in On(disk')
          PROVE  Ok(i)'
      <3>1. fails = 0 /\ disk' = mem'
        BY <1>0, <2>1, FailuresCounted DEF Saved
      <3>2. i \in On(disk)
        BY <1>0, <2>1, <3>1 DEF Aligned
      <3>. QED
        BY <1>0, <1>1, <1>2, <2>1, <3>1, <3>2 DEF Retired
    <2>. QED
      BY <1>0, <1>2, <2>1 DEF Retired
  <1>5. CASE Add(j)
    <2>. DEFINE m == [i \in DOMAIN mem \cup {j} |-> IF i = j THEN NewJob ELSE mem[i]]
    <2>1. mem' = RecomputedAll(m) /\ spent' = spent /\ j \notin used
      BY <1>5 DEF Add
    <2>2. DOMAIN m = DOMAIN mem \cup {j} /\ \A i \in DOMAIN mem \ {j} : m[i] = mem[i]
      OBVIOUS
    <2>. HIDE DEF m
    <2>3. DOMAIN mem' = DOMAIN m
      BY <2>1 DEF RecomputedAll
    <2>4. ASSUME NEW i \in DOMAIN mem \ {j}, mem'[i].enabled
          PROVE  mem[i].enabled
      <3>1. m[i] = mem[i] /\ mem[i] \in JobState /\ i \in Jobs /\ i \in DOMAIN m
        BY <1>3, <2>2, StoreTyped DEF TypeOK
      <3>2. mem'[i] = Tidied(m[i]) \/ mem'[i] = Recomputed(i, m[i])
        BY <2>1, <3>1, Zenon DEF RecomputedAll
      <3>. QED
        BY <2>4, <3>1, <3>2, TidiedOn
    <2>. QED
      BY <1>2, <2>1, <2>2, <2>3, <2>4 DEF On
  <1>6. CASE Remove(j)
    BY <1>6 DEF Remove, Without, On
  <1>7. ASSUME NEW patch \in Patches, Update(j, patch)
        PROVE  spent' \subseteq spent /\ spent' \cap On(mem') \subseteq On(mem)
    <2>1. /\ j \in DOMAIN mem /\ mem' = [mem EXCEPT ![j] = Patched(j, mem[j], patch)]
          /\ spent' = IF patch = "other" THEN spent ELSE spent \ {j}
      BY <1>7 DEF Update
    <2>2. Patched(j, mem[j], "other").enabled = mem[j].enabled
      <3>1. \/ Patched(j, mem[j], "other") = mem[j]
            \/ Patched(j, mem[j], "other") = Recomputed(j, mem[j])
        BY DEF Patched
      <3>. QED
        BY <1>3, <2>1, <3>1, TidiedOn
    <2>. QED
      BY <2>1, <2>2 DEF On
  <1>. QED
    BY <1>5, <1>6, <1>7

LEMMA TimeRetires ==
    ASSUME TypeOK, Retired, NEW j \in Jobs, Time(j)
    PROVE  Retired'
  <1>1. run' = run /\ UNCHANGED <<start, fails, spent, used>>
    BY DEF Time, SlotComesDue, BackoffEnds, MarkerGetsOld, Clock, startVars, counters, history
  <1>2. disk' \in {SlotPassed(disk, j), BackoffPassed(disk, j), MarkerAged(disk, j)}
    BY DEF Time, SlotComesDue, BackoffEnds, MarkerGetsOld, Clock
  <1>3. /\ On(disk') = On(disk)
        /\ \A i \in DOMAIN disk : disk'[i].marker = "none" <=> disk[i].marker = "none"
    BY <1>2, TimeTyped, TimeOn DEF TypeOK
  <1>4. \A i \in Jobs : Ok(i) => Ok(i)'
    BY <1>1 DEF Ok
  <1>. QED
    BY <1>1, <1>3, <1>4, RetiredKept DEF Up

\* A crash takes from `spent` the runs whose marker is not on disk.
LEMMA CrashRetires ==
    ASSUME TypeOK, Placed, Retired, Crash
    PROVE  Retired'
  <1>1. /\ UNCHANGED <<disk, fails, used>> /\ ~Up'
        /\ spent' = (spent \ {j \in OneShots : Underway(j)})
                    \cup {j \in {i \in OneShots : Underway(i)} \cap DOMAIN disk : disk[j].marker # "none"}
    BY DEF Crash, Up
  <1>2. \A j \in OneShots : Ok(j) => Underway(j)
    BY DEF Ok, Underway
  <1>3. \A j \in OneShots : Underway(j) => Up
    BY JobsAssumption DEF Placed, Underway, NoRuns
  <1>4. ASSUME fails' = 0, NEW j \in spent', j \in On(disk')
        PROVE  disk'[j].marker # "none"
    <2>1. CASE j \in spent /\ ~Underway(j)
      <3>1. j \in OneShots /\ j \in spent \cap On(disk) /\ fails = 0
        BY <1>1, <1>4, <2>1 DEF TypeOK
      <3>. QED
        BY <1>1, <1>2, <2>1, <3>1 DEF Retired
    <2>2. CASE disk[j].marker # "none"
      BY <1>1, <2>2
    <2>. QED
      BY <1>1, <1>4, <2>1, <2>2 DEF TypeOK
  <1>5. spent' \subseteq used'
    BY <1>1 DEF Retired, Placed
  <1>. QED
    BY <1>1, <1>4, <1>5 DEF Retired

-----------------------------------------------------------------------------
(* The theorems.                                                           *)

LEMMA InvInit == Init => IInv
  <1>. SUFFICES ASSUME Init PROVE IInv
    OBVIOUS
  <1>1. \A o \in Origins : Batch(o) = {} /\ At(o) = {}
    BY DEF Init, Batch, At, NoRuns
  <1>2. Busy = {}
    BY <1>1, BusyIs
  <1>3. "start" \in Origins /\ "tick" \in Origins
    BY DEF Origins
  <1>4. Placed
    BY <1>1, <1>3 DEF Init, Placed, Up
  <1>. QED
    BY <1>1, <1>2, <1>4, TypesInit DEF Init, IInv, Markers, Marks, Sole, Synced, Up

LEMMA InvStep == IInv /\ [Next]_vars => IInv'
  <1>1. ASSUME IInv, Next
        PROVE  IInv'
    <2>1. TypeOK'
      BY <1>1, TypesStep DEF IInv
    <2>2. Placed'
      BY <1>1, BatchesPlaced, StoresPlaced DEF IInv, Placed
    <2>3. Markers' /\ Sole' /\ Synced'
      BY <1>1, <2>1, StartSteps, PlanSteps, ApplySteps, MaintainSteps, CollectSteps, QuietSteps,
         PrepareSteps, ManualSteps, CallSteps, TimeSteps, CrashSteps
         DEF Next, Starting, Ticking, ManualRuns, Calls
    <2>. QED
      BY <2>1, <2>2, <2>3 DEF IInv
  <1>2. IInv /\ UNCHANGED vars => IInv'
    <2>. SUFFICES ASSUME IInv, UNCHANGED vars PROVE IInv'
      OBVIOUS
    <2>1. TypeOK' /\ run' = run
      BY TypesStep DEF IInv, vars
    <2>2. Placed'
      BY <2>1, SameRuns DEF IInv, Placed, Up, Origins, vars, store, startVars, counters
    <2>3. Markers' /\ Sole' /\ Synced'
      BY <2>1, SameRuns
         DEF IInv, Markers, Sole, Synced, Up, vars, store, startVars, counters, history
    <2>. QED
      BY <2>1, <2>2, <2>3 DEF IInv
  <1>. QED
    BY <1>1, <1>2

\* The invariant of the locked sections and of the runs outside them.
THEOREM Invariant == Spec => []IInv
  BY InvInit, InvStep, PTL DEF Spec

\* Every reachable state of the service has the types of TypeOK.
THEOREM TypeCorrect == Spec => []TypeOK
  <1>1. IInv => TypeOK
    BY DEF IInv
  <1>. QED
    BY <1>1, Invariant, PTL

\* The markers on disk and the runs under way agree: no marker outlives its run
\* while every write succeeded, and no run is without its marker unless an
\* update or the two hours took it (locked sections of ops.ts and timer.ts).
THEOREM MarkersAgree == Spec => []MarkersMatchRuns
  <1>1. IInv => MarkersMatchRuns
    <2>. SUFFICES ASSUME IInv, NEW j \in DOMAIN disk
                  PROVE  /\ disk[j].marker # "none" /\ fails = 0 /\ Up => Underway(j)
                         /\ Underway(j) /\ j \notin freed => disk[j].marker # "none"
      BY DEF MarkersMatchRuns
    <2>1. j \in Jobs
      BY StoreTyped DEF IInv, TypeOK
    <2>. QED
      BY <2>1, BusyIs DEF IInv, Markers, Marks, Synced, OnlyMarks
  <1>. QED
    BY <1>1, Invariant, PTL

\* Ticks, catch-up and manual calls never run one job at once, unless the
\* marker of the job was taken away during its run.
THEOREM NoOverlap == Spec => []OnlyFreedJobsOverlap
  <1>1. IInv => OnlyFreedJobsOverlap
    <2>. SUFFICES ASSUME IInv, NEW j \in Jobs \ freed
                  PROVE  Cardinality({o \in Origins : run[o][j] \notin {"none", "admitted"}}) <= 1
      BY DEF OnlyFreedJobsOverlap
    <2>. DEFINE R == {o \in Origins : run[o][j] \notin {"none", "admitted"}}
    <2>1. \A o, p \in R : o = p
      BY DEF IInv, Sole, At
    <2>2. CASE R = {}
      BY <2>2, FS_EmptySet
    <2>3. CASE R # {}
      <3>1. PICK o \in R : TRUE
        BY <2>3
      <3>2. R = {o}
        BY <2>1, <3>1
      <3>. HIDE DEF R
      <3>3. Cardinality(R) = 1
        BY <3>2, FS_Singleton
      <3>. QED
        BY <3>3 DEF R
    <2>. QED
      BY <2>2, <2>3
  <1>. QED
    BY <1>1, Invariant, PTL

LEMMA TimerStep == IInv /\ Aligned /\ Armed /\ [Next]_vars => Aligned' /\ Armed'
  <1>. SUFFICES ASSUME IInv, Aligned, Armed, [Next]_vars PROVE Aligned' /\ Armed'
    OBVIOUS
  <1>1. TypeOK /\ Placed
    BY DEF IInv
  <1>2. CASE Next
    BY <1>1, <1>2, StartKeepsTimer, TickKeepsTimer, ReadKeepsTimer, ManualKeepsTimer, CallKeepsTimer,
       RestKeepsTimer DEF Next, Calls
  <1>3. CASE UNCHANGED vars
    BY <1>3 DEF Aligned, Armed, Up, vars, store, startVars, counters, history
  <1>. QED
    BY <1>2, <1>3

LEMMA RetiredStep == IInv /\ Aligned /\ Retired /\ [Next]_vars => Retired'
  <1>. SUFFICES ASSUME IInv, Aligned, Retired, [Next]_vars PROVE Retired'
    OBVIOUS
  <1>1. TypeOK /\ Placed
    BY DEF IInv
  <1>2. CASE Next
    BY <1>1, <1>2, StartRetires, QuietRetires, RunRetires, ApplyRetires, ManualRetires, CallRetires,
       TimeRetires, CrashRetires DEF Next, Starting, Ticking, Calls
  <1>3. CASE UNCHANGED vars
    BY <1>3 DEF Retired, Ok, Up, vars, store, startVars, counters, history
  <1>. QED
    BY <1>2, <1>3

\* What the timer and the one-shots need, besides the invariant.
THEOREM ServiceInvariant == Spec => [](IInv /\ Aligned /\ Armed /\ Retired)
  <1>1. Init => IInv /\ Aligned /\ Armed /\ Retired
    <2>1. Init => Aligned /\ Armed /\ Retired
      BY DEF Init, Aligned, Armed, Retired, Up
    <2>. QED
      BY <2>1, InvInit
  <1>2. IInv /\ Aligned /\ Armed /\ Retired /\ [Next]_vars => (IInv /\ Aligned /\ Armed /\ Retired)'
    BY InvStep, TimerStep, RetiredStep
  <1>. QED
    BY <1>1, <1>2, PTL DEF Spec

\* While a job is enabled a timer is armed, or the tick runs that will arm one:
\* through every tick, call and run, and still after a write that failed.
THEOREM AlwaysAlive == Spec => []SchedulerAlive
  <1>1. Armed => SchedulerAlive
    <2>. SUFFICES ASSUME Armed, start = "done",
                         NEW j \in DOMAIN disk \cap DOMAIN mem, disk[j].enabled, mem[j].enabled
                  PROVE  /\ fails = 0 => timer
                         /\ fails = 1 /\ ~rejected => timer \/ tick # "idle"
      BY DEF SchedulerAlive
    <2>1. On(mem) # {}
      BY DEF On
    <2>. QED
      BY <2>1 DEF Armed
  <1>. QED
    BY <1>1, ServiceInvariant, PTL

\* A step that puts a job into the batch of a tick or of the catch-up.
LEMMA BatchedBy ==
    ASSUME TypeOK, Placed, Aligned, Next, fails = 0, NEW j \in Jobs, NEW o \in {"tick", "start"},
           run[o][j] = "none", run'[o][j] # "none"
    PROVE  /\ Up /\ j \in On(disk)
           /\ \/ j \in DOMAIN disk /\ disk[j].marker = "none"
              \/ j \in DOMAIN mem /\ mem[j].marker = "none"
  <1>0. o \in Origins
    BY DEF Origins
  <1>1. run' # run
    OBVIOUS
  <1>2. ASSUME NEW p \in Origins, run' = EndBatch(p)
        PROVE  FALSE
    BY <1>0, <1>2 DEF EndBatch, TypeOK
  <1>3. ASSUME NEW p \in Origins, NEW i \in Jobs, NEW stage, run' = [run EXCEPT ![p][i] = stage],
               run[p][i] # "none" \/ p \in Callers
        PROVE  FALSE
    BY <1>0, <1>3, CallersAssumption DEF TypeOK
  <1>4. CASE StartPlans
    <2>. DEFINE held(elapsed) == {i \in elapsed \cap DOMAIN mem :
                                    mem[i].enabled /\ i \notin skip /\ mem[i].marker = "none"
                                    /\ mem[i].status = "error" /\ mem[i].backoff}
                plan(elapsed) == [i \in DOMAIN mem |-> IF i \in held(elapsed)
                                                       THEN [mem[i] EXCEPT !.next = "later"]
                                                       ELSE mem[i]]
                missed(elapsed) == {i \in DOMAIN plan(elapsed) : Missed(plan(elapsed), i, elapsed)}
                batch(now) == [i \in Jobs |-> IF i \in now THEN "queued" ELSE "none"]
    <2>1. PICK elapsed \in SUBSET (Jobs \ OneShots) :
          \E now \in SUBSET (missed(elapsed) \ AgentJobs) :
            /\ mem' = Marked(plan(elapsed), now)
            /\ \/ /\ IF missed(elapsed) = {} THEN SavedIfChanged ELSE Saved
                  /\ run' = [run EXCEPT !["start"] = batch(now)]
                  /\ deferred' = missed(elapsed) \ now
                  /\ start' = IF missed(elapsed) = {} THEN "arm" ELSE "catchup"
               \/ /\ SaveFails /\ (missed(elapsed) # {} \/ plan(elapsed) # mem)
                  /\ start' = "failed" /\ UNCHANGED <<run, deferred>>
      BY <1>4, Zenon DEF StartPlans
    <2>2. PICK now \in SUBSET (missed(elapsed) \ AgentJobs) :
            UNCHANGED run \/ run' = [run EXCEPT !["start"] = batch(now)]
      <3>. HIDE DEF missed, plan, batch
      <3>. QED
        BY <2>1, Zenon
    <2>3. j \in now
      BY <1>0, <1>1, <2>2 DEF TypeOK
    <2>4. j \in DOMAIN mem /\ Missed(plan(elapsed), j, elapsed)
      BY <2>2, <2>3
    <2>5. /\ mem[j] \in JobState
          /\ plan(elapsed)[j] = mem[j] \/ plan(elapsed)[j] = [mem[j] EXCEPT !.next = "later"]
      BY <2>4, StoreTyped DEF TypeOK
    <2>. HIDE DEF plan
    <2>6. mem[j].enabled /\ mem[j].marker = "none"
      BY <2>4, <2>5 DEF JobState, Missed, Runnable
    <2>7. Up
      BY <1>4 DEF StartPlans, Up
    <2>. QED
      BY <2>4, <2>6, <2>7 DEF On, Aligned
  <1>5. CASE TickCollects
    <2>1. /\ tick = "collect"
          /\ run' = [run EXCEPT !["tick"] =
                       [i \in Jobs |-> IF i \in {h \in Jobs : Runnable(disk, h)} THEN "queued" ELSE "none"]]
      BY <1>1, <1>5, Zenon DEF TickCollects
    <2>2. Runnable(disk, j)
      BY <1>0, <2>1 DEF TypeOK
    <2>3. j \in DOMAIN disk /\ disk[j].enabled /\ disk[j].marker = "none"
      BY <2>2 DEF Runnable
    <2>4. Up
      BY <2>1 DEF Placed
    <2>. QED
      BY <2>3, <2>4 DEF On
  <1>6. CASE Starting /\ ~StartPlans
    <2>1. UNCHANGED run \/ run' = EndBatch("start")
      BY <1>6 DEF Starting, Start, StartMarks, StartApplies, StartArms
    <2>. QED
      BY <1>1, <1>2, <2>1 DEF Origins
  <1>7. CASE (Ticking /\ ~TickCollects) \/ TimerFiresDuringTick \/ Read
    <2>1. UNCHANGED run \/ run' = EndBatch("tick")
      BY <1>7 DEF Ticking, TimerFires, TickApplies, TickEnds, TimerFiresDuringTick, Read
    <2>. QED
      BY <1>1, <1>2, <2>1 DEF Origins
  <1>8. ASSUME NEW i \in Jobs, NEW p \in Origins, Running(p, i)
        PROVE  FALSE
    <2>1. run[p][i] # "none" /\ \E stage : run' = [run EXCEPT ![p][i] = stage]
      BY <1>8 DEF Running, RunStarts, RunEnds
    <2>. QED
      BY <1>3, <2>1
  <1>9. ASSUME NEW i \in Jobs, Calls(i) \/ Time(i) \/ \E c \in Callers : ManualRuns(c, i)
        PROVE  FALSE
    <2>1. UNCHANGED run \/ \E c \in Callers, stage \in {"admitted", "running", "none"} : run' = [run EXCEPT ![c][i] = stage]
      BY <1>9
         DEF ManualRuns, ManualPrepared, ManualApplies, Calls, ManualAdmitted, Add, Update, Remove, Time,
             SlotComesDue, BackoffEnds, MarkerGetsOld, Clock
    <2>. QED
      BY <1>1, <1>3, <2>1 DEF Origins
  <1>10. CASE Crash
    BY <1>0, <1>10 DEF Crash, NoRuns
  <1>. QED
    BY <1>4, <1>5, <1>6, <1>7, <1>8, <1>9, <1>10 DEF Next

\* A one-shot that ended well, or that a crash cut off with its marker on disk,
\* is never run again by a tick or a catch-up, until an update asks for it.
THEOREM NeverRepeated == Spec => OneShotNotRepeated
  <1>. DEFINE Once == \A j \in spent, o \in {"tick", "start"} :
                        run[o][j] = "none" /\ run'[o][j] # "none" => fails > 0 \/ j \in freed
  <1>1. IInv /\ Aligned /\ Retired /\ [Next]_vars => [Once]_vars
    <2>. SUFFICES ASSUME IInv, Aligned, Retired, Next, fails = 0, NEW j \in spent \ freed,
                         NEW o \in {"tick", "start"}, run[o][j] = "none", run'[o][j] # "none"
                  PROVE  FALSE
      <3>1. fails \in Nat => fails > 0 \/ fails = 0
        OBVIOUS
      <3>. QED
        BY <3>1 DEF IInv, TypeOK
    <2>1. j \in Jobs /\ TypeOK /\ Placed
      BY JobsAssumption DEF IInv, TypeOK
    <2>2. /\ Up /\ j \in On(disk)
          /\ \/ j \in DOMAIN disk /\ disk[j].marker = "none"
             \/ j \in DOMAIN mem /\ mem[j].marker = "none"
      BY <2>1, BatchedBy
    <2>3. Ok(j)
      BY <2>2 DEF Retired
    <2>4. j \in Busy \ freed
      BY <2>1, <2>3, BusyIs DEF Ok, Underway
    <2>. QED
      BY <2>2, <2>4 DEF IInv, Markers, Marks
  <1>. QED
    BY <1>1, ServiceInvariant, PTL DEF Spec, OneShotNotRepeated

=============================================================================
