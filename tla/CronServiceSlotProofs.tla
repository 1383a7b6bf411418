------------------------ MODULE CronServiceSlotProofs ------------------------
(***************************************************************************)
(* That CronService skips no due slot, for any jobs, limits and bounds: the *)
(* store in memory agrees with the one on disk about the slots it knows, so *)
(* that writing it takes no slot away.                                     *)
(***************************************************************************)
EXTENDS CronServiceProofs

SlotOf(s) == <<s.enabled, s.next, s.at, s.delayed>>

\* A job d on disk has a slot: then m, its state in memory, has the same.
SameSlot(d, m) ==
  d.enabled /\ d.next # "none" =>
    m.enabled /\ m.next = d.next /\ m.at = d.at /\ m.delayed = d.delayed

\* Not so for a job without a slot: a maintenance of the store in memory that is
\* not written (inspectManualRunPreflight) computes one there first.
SameSlots == fails = 0 => \A j \in DOMAIN disk \cap DOMAIN mem : SameSlot(disk[j], mem[j])

\* The step part of DueSlotIsNotSkipped.
SlotsKept ==
  \A j \in DOMAIN disk \cap DOMAIN disk' :
    fails = 0 /\ disk[j].enabled /\ disk[j].next = "due" /\ disk'[j].next # "due"
    => \/ \E o \in Origins : run[o][j] \in Outcomes /\ run'[o][j] = "none"
       \/ \E patch \in Patches : Update(j, patch)
       \/ Starting \/ disk[j].backoff \/ used' # used

-----------------------------------------------------------------------------
(* Maintenance.                                                            *)

LEMMA MaintainedSlot ==
    ASSUME NEW m, IsStore(m), NEW j \in DOMAIN m, m[j].enabled, m[j].next # "none",
           NEW e \in BOOLEAN, ~e \/ ~m[j].backoff
    PROVE  SameSlot(m[j], Maintained(m, e)[j])
  <1>1. m[j] \in JobState
    BY StoreTyped
  <1>2. Maintained(m, e)[j] = Tidied(m[j])
    BY DEF Maintained
  <1>3. /\ Tidied(m[j]).enabled /\ Tidied(m[j]).next = m[j].next
        /\ Tidied(m[j]).at = m[j].at /\ Tidied(m[j]).delayed = m[j].delayed
    BY <1>1 DEF Tidied, JobState
  <1>. QED
    BY <1>2, <1>3 DEF SameSlot

-----------------------------------------------------------------------------
(* The invariant.                                                          *)

\* A section that is written, or not begun, or whose write fails.
LEMMA WrittenSameSlots ==
    ASSUME TypeOK, SameSlots,
           (Saved /\ UNCHANGED fails) \/ SaveFails \/ UNCHANGED <<disk, mem, fails>>
    PROVE  SameSlots'
  <1>1. fails \in Nat
    BY DEF TypeOK
  <1>2. CASE Saved
    BY <1>2 DEF Saved, SameSlots, SameSlot
  <1>3. CASE SaveFails
    <2>1. fails' # 0
      BY <1>1, <1>3 DEF SaveFails
    <2>. QED
      BY <2>1 DEF SameSlots
  <1>4. CASE UNCHANGED <<disk, mem, fails>>
    BY <1>4 DEF SameSlots
  <1>. QED
    BY <1>2, <1>3, <1>4

LEMMA AdmittedSameSlots ==
    ASSUME TypeOK, SameSlots, NEW c \in Callers, NEW i \in Jobs, NEW forced \in BOOLEAN,
           ManualAdmitted(c, i, forced)
    PROVE  SameSlots'
  <1>1. mem' = Maintained(mem, FALSE) /\ UNCHANGED <<disk, fails>> /\ IsStore(mem)
    BY DEF ManualAdmitted, TypeOK
  <1>2. ASSUME fails = 0, NEW j \in DOMAIN disk \cap DOMAIN mem',
               disk[j].enabled, disk[j].next # "none"
        PROVE  SameSlot(disk[j], mem'[j])
    <2>1. j \in DOMAIN mem
      BY <1>1, <1>2, MaintainedTyped
    <2>2. SameSlot(disk[j], mem[j])
      BY <1>2, <2>1 DEF SameSlots
    <2>3. mem[j].enabled /\ mem[j].next # "none"
      BY <1>2, <2>2 DEF SameSlot
    <2>4. SameSlot(mem[j], Maintained(mem, FALSE)[j])
      BY <1>1, <2>1, <2>3, MaintainedSlot
    <2>. QED
      BY <1>1, <1>2, <2>2, <2>3, <2>4, Zenon DEF SameSlot
  <1>. QED
    BY <1>1, <1>2 DEF SameSlots, SameSlot

LEMMA TimeSameSlots ==
    ASSUME TypeOK, SameSlots, NEW i \in Jobs, Time(i)
    PROVE  SameSlots'
  <1>. SUFFICES ASSUME fails' = 0, NEW j \in DOMAIN disk' \cap DOMAIN mem'
                PROVE  SameSlot(disk'[j], mem'[j])
    BY DEF SameSlots
  <1>1. fails' = fails
    BY DEF Time, SlotComesDue, BackoffEnds, MarkerGetsOld, Clock, counters
  <1>2. CASE SlotComesDue(i)
    <2>1. disk' = SlotPassed(disk, i) /\ mem' = SlotPassed(mem, i)
      BY <1>2 DEF SlotComesDue, Clock
    <2>2. j \in DOMAIN disk /\ j \in DOMAIN mem
      BY <2>1 DEF SlotPassed
    <2>3. SameSlot(disk[j], mem[j]) /\ disk[j] \in JobState /\ mem[j] \in JobState
      BY <1>1, <2>2, StoreTyped DEF SameSlots, TypeOK
    <2>4. CASE j # i
      BY <2>1, <2>2, <2>3, <2>4 DEF SlotPassed
    <2>5. CASE j = i
      <3>. DEFINE own(s) == j \in OneShots /\ s.at = "ahead" /\ ~s.delayed
                  passed(s) == IF s.next = "later" /\ ~(own(s) /\ Underway(j))
                               THEN [s EXCEPT !.next = "due", !.at = IF own(s) THEN "past" ELSE @]
                               ELSE s
      <3>1. disk'[j] = passed(disk[j]) /\ mem'[j] = passed(mem[j])
        BY <2>1, <2>2, <2>5 DEF SlotPassed
      <3>2. ASSUME NEW s \in JobState, NEW r \in JobState, SameSlot(s, r)
            PROVE  SameSlot(passed(s), passed(r))
        BY <3>2 DEF SameSlot, JobState
      <3>. HIDE DEF passed
      <3>. QED
        BY <2>3, <3>1, <3>2
    <2>. QED
      BY <2>4, <2>5
  <1>3. CASE BackoffEnds(i) \/ MarkerGetsOld(i)
    <2>1. \/ disk' = BackoffPassed(disk, i) /\ mem' = BackoffPassed(mem, i)
          \/ disk' = MarkerAged(disk, i) /\ mem' = MarkerAged(mem, i)
      BY <1>3 DEF BackoffEnds, MarkerGetsOld, Clock
    <2>2. j \in DOMAIN disk /\ j \in DOMAIN mem
      BY <2>1 DEF BackoffPassed, MarkerAged
    <2>3. SameSlot(disk[j], mem[j]) /\ disk[j] \in JobState /\ mem[j] \in JobState
      BY <1>1, <2>2, StoreTyped DEF SameSlots, TypeOK
    <2>4. SlotOf(disk'[j]) = SlotOf(disk[j]) /\ SlotOf(mem'[j]) = SlotOf(mem[j])
      <3>1. CASE disk' = BackoffPassed(disk, i) /\ mem' = BackoffPassed(mem, i)
        BY <2>2, <2>3, <3>1 DEF BackoffPassed, JobState, SlotOf
      <3>2. CASE disk' = MarkerAged(disk, i) /\ mem' = MarkerAged(mem, i)
        BY <2>2, <2>3, <3>2 DEF MarkerAged, JobState, SlotOf
      <3>. QED
        BY <2>1, <3>1, <3>2
    <2>. QED
      BY <2>3, <2>4 DEF SameSlot, SlotOf
  <1>. QED
    BY <1>2, <1>3 DEF Time

LEMMA NextSameSlots ==
    ASSUME TypeOK, SameSlots, Next
    PROVE  SameSlots'
  <1>1. CASE Starting \/ Ticking \/ TimerFiresDuringTick \/ Read
    <2>1. Saved \/ SavedIfChanged \/ SaveFails \/ UNCHANGED <<disk, mem, fails>>
      BY <1>1 DEF Starting, Start, StartMarks, StartPlans, StartApplies, StartArms, Ticking, TimerFires,
                  TickCollects, TickApplies, TickEnds, TimerFiresDuringTick, Read, store, counters
    <2>. QED
      BY <2>1, WrittenSameSlots DEF Saved, SavedIfChanged
  <1>2. CASE Crash
    <2>1. DOMAIN mem' = {}
      BY <1>2 DEF Crash
    <2>. QED
      BY <2>1 DEF SameSlots
  <1>3. ASSUME NEW j \in Jobs, NEW o \in Origins, Running(o, j)
        PROVE  SameSlots'
    <2>1. UNCHANGED <<disk, mem, fails>>
      BY <1>3 DEF Running, RunStarts, RunEnds, store, counters
    <2>. QED
      BY <2>1, WrittenSameSlots
  <1>4. ASSUME NEW j \in Jobs, \/ \E c \in Callers : ManualRuns(c, j)
                               \/ Add(j) \/ Remove(j)
                               \/ \E patch \in Patches : Update(j, patch)
        PROVE  SameSlots'
    <2>1. Saved \/ SaveFails \/ UNCHANGED <<disk, mem, fails>>
      BY <1>4 DEF ManualRuns, ManualPrepared, ManualApplies, Add, Remove, Update, Writes, store
    <2>. QED
      BY <2>1, WrittenSameSlots DEF Saved
  <1>. QED
    BY <1>1, <1>2, <1>3, <1>4, AdmittedSameSlots, TimeSameSlots DEF Next, Calls

-----------------------------------------------------------------------------
(* The steps.                                                              *)

\* A section that writes what it found in memory keeps the slots that it kept there.
LEMMA WrittenSlotKept ==
    ASSUME SameSlots, Saved \/ UNCHANGED disk,
           DOMAIN mem' \subseteq DOMAIN mem,
           NEW j \in DOMAIN disk \cap DOMAIN disk',
           fails = 0, disk[j].enabled, disk[j].next = "due",
           j \in DOMAIN mem' /\ mem[j].enabled /\ mem[j].next = "due" => mem'[j].next = "due"
    PROVE  disk'[j].next = "due"
  <1>1. CASE UNCHANGED disk
    BY <1>1
  <1>2. CASE Saved
    <2>1. disk' = mem' /\ j \in DOMAIN mem
      BY <1>2 DEF Saved
    <2>2. SameSlot(disk[j], mem[j])
      BY <2>1 DEF SameSlots
    <2>. QED
      BY <2>1, <2>2 DEF SameSlot
  <1>. QED
    BY <1>1, <1>2

LEMMA NextSlotsKept ==
    ASSUME IInv, SameSlots, Next
    PROVE  SlotsKept
  <1>1. TypeOK /\ IsStore(disk) /\ IsStore(mem)
    BY DEF IInv, TypeOK
  <1>2. UNCHANGED disk => SlotsKept
    BY DEF SlotsKept
  <1>3. Starting => SlotsKept
    BY DEF SlotsKept
  <1>4. ASSUME NEW m, NEW j \in DOMAIN m, IsStore(m), m[j].enabled, m[j].next = "due",
               NEW e \in BOOLEAN, ~e \/ ~m[j].backoff
        PROVE  Maintained(m, e)[j].next = "due"
    BY <1>4, MaintainedSlot DEF SameSlot
  <1>5. CASE TickCollects
    <2>1. ASSUME NEW j \in DOMAIN disk, disk[j].enabled, disk[j].next = "due", ~disk[j].backoff
          PROVE  mem'[j].next = "due"
      <3>1. mem' = Maintained(disk, TRUE) \/ \E S : mem' = Marked(disk, S)
        BY <1>5 DEF TickCollects
      <3>2. ASSUME NEW S, mem' = Marked(disk, S)
            PROVE  mem'[j].next = "due"
        <4>1. disk[j] \in JobState
          BY <1>1, StoreTyped
        <4>. QED
          BY <2>1, <3>2, <4>1 DEF Marked, JobState
      <3>. QED
        BY <1>1, <1>4, <2>1, <3>1, <3>2
    <2>2. disk' = mem' \/ disk' = disk
      BY <1>5 DEF TickCollects, Saved, SaveFails
    <2>. QED
      BY <1>2, <2>1, <2>2 DEF SlotsKept
  <1>6. CASE TickApplies
    <2>1. PICK retries : mem' = Maintained(Applied(disk, "tick", retries), FALSE)
      BY <1>6 DEF TickApplies
    <2>. DEFINE m == Applied(disk, "tick", retries)
    <2>2. run' = EndBatch("tick") /\ (disk' = mem' \/ disk' = disk)
      BY <1>6 DEF TickApplies, Saved, SaveFails
    <2>3. ASSUME NEW j \in DOMAIN disk \cap DOMAIN mem', disk[j].enabled, disk[j].next = "due",
                 mem'[j].next # "due"
          PROVE  run["tick"][j] \in Outcomes /\ run'["tick"][j] = "none"
      <3>1. j \in DOMAIN m /\ j \in Jobs
        BY <1>1, <2>1 DEF Maintained, TypeOK, IsStore
      <3>2. CASE run["tick"][j] \in Outcomes
        BY <1>1, <2>2, <3>1, <3>2 DEF EndBatch, TypeOK, Origins
      <3>3. CASE run["tick"][j] \notin Outcomes
        <4>1. m[j] = disk[j] /\ disk[j] \in JobState
          BY <1>1, <3>1, <3>3, StoreTyped DEF Applied
        <4>2. Maintained(m, FALSE)[j] = Tidied(m[j])
          BY <2>3, <3>1, <4>1 DEF Maintained
        <4>3. Tidied(disk[j]).next = "due"
          BY <2>3, <4>1 DEF Tidied, JobState
        <4>. QED
          BY <2>1, <2>3, <4>1, <4>2, <4>3
      <3>. QED
        BY <3>2, <3>3
    <2>. QED
      BY <1>2, <2>2, <2>3 DEF SlotsKept, Origins
  <1>7. CASE Read
    <2>1. /\ mem' = Maintained(mem, FALSE) /\ DOMAIN mem' = DOMAIN mem
          /\ Saved \/ UNCHANGED disk
      BY <1>1, <1>7, MaintainedTyped DEF Read, SaveFails
    <2>2. \A j \in DOMAIN mem : mem[j].enabled /\ mem[j].next = "due" => mem'[j].next = "due"
      BY <1>1, <1>4, <2>1
    <2>3. ASSUME NEW j \in DOMAIN disk \cap DOMAIN disk', fails = 0,
                 disk[j].enabled, disk[j].next = "due"
          PROVE  disk'[j].next = "due"
      BY <1>1, <2>1, <2>2, <2>3, WrittenSlotKept
    <2>. QED
      BY <2>3 DEF SlotsKept
  <1>8. ASSUME NEW c \in Callers, NEW i \in Jobs, ManualPrepared(c, i)
        PROVE  SlotsKept
    <2>1. CASE mem' = Marked(mem, {i}) /\ (Saved \/ UNCHANGED disk)
      <3>1. \A j \in DOMAIN mem : mem[j] \in JobState
        BY <1>1, StoreTyped
      <3>2. /\ DOMAIN mem' = DOMAIN mem
            /\ \A j \in DOMAIN mem : mem[j].next = "due" => mem'[j].next = "due"
        BY <2>1, <3>1 DEF Marked, JobState
      <3>3. ASSUME NEW j \in DOMAIN disk \cap DOMAIN disk', fails = 0,
                   disk[j].enabled, disk[j].next = "due"
            PROVE  disk'[j].next = "due"
        BY <1>1, <2>1, <3>2, <3>3, WrittenSlotKept
      <3>. QED
        BY <3>3 DEF SlotsKept
    <2>. QED
      BY <1>2, <1>8, <2>1 DEF ManualPrepared, SaveFails, store
  <1>9. ASSUME NEW c \in Callers, NEW i \in Jobs, ManualApplies(c, i)
        PROVE  SlotsKept
    <2>1. CASE UNCHANGED store
      BY <1>2, <2>1 DEF store
    <2>2. CASE ~UNCHANGED store
      <3>1. PICK n :
              /\ mem' = Maintained(n, TRUE)
              /\ \A j \in (DOMAIN n \cap DOMAIN disk) \ {i} : n[j] = disk[j]
        <4>1. PICK retry \in BOOLEAN :
                LET out == run[c][i]
                    after == AfterRun(i, mem[i], out, retry)
                IN mem' = Maintained(
                     IF Deleted(i, out) THEN Without(disk, i)
                     ELSE [h \in DOMAIN disk |->
                             IF h = i THEN [after EXCEPT !.at = AfterRun(i, disk[i], out, retry).at]
                                      ELSE disk[h]], TRUE)
          BY <1>9, <2>2 DEF ManualApplies
        <4>. QED
          BY <4>1 DEF Without
      <3>2. /\ run[c][i] \in Outcomes /\ run'[c][i] = "none"
            /\ disk' = mem' \/ disk' = disk
        BY <1>1, <1>9, <2>2 DEF ManualApplies, Saved, SaveFails, TypeOK, Origins
      <3>3. ASSUME NEW j \in DOMAIN disk \cap DOMAIN mem', j # i,
                   disk[j].enabled, disk[j].next = "due", ~disk[j].backoff
            PROVE  mem'[j].next = "due"
        <4>1. j \in DOMAIN n /\ n[j] = disk[j] /\ disk[j] \in JobState
          BY <1>1, <3>1, <3>3, StoreTyped DEF Maintained
        <4>2. Maintained(n, TRUE)[j] = Tidied(disk[j])
          BY <3>3, <4>1 DEF Maintained
        <4>3. Tidied(disk[j]).next = "due"
          BY <3>3, <4>1 DEF Tidied, JobState
        <4>. QED
          BY <3>1, <4>2, <4>3
      <3>. QED
        BY <1>2, <3>2, <3>3 DEF SlotsKept, Origins
    <2>. QED
      BY <2>1, <2>2
  <1>10. ASSUME NEW i \in Jobs, NEW patch \in Patches, Update(i, patch)
         PROVE  SlotsKept
    <2>1. /\ Saved \/ UNCHANGED disk
          /\ DOMAIN mem' = DOMAIN mem /\ \A j \in DOMAIN mem \ {i} : mem'[j] = mem[j]
      BY <1>10 DEF Update, Writes, SaveFails
    <2>2. ASSUME NEW j \in DOMAIN disk \cap DOMAIN disk', fails = 0,
                 disk[j].enabled, disk[j].next = "due", j # i
          PROVE  disk'[j].next = "due"
      BY <1>1, <2>1, <2>2, WrittenSlotKept
    <2>. QED
      BY <1>10, <2>2 DEF SlotsKept
  <1>11. ASSUME NEW i \in Jobs, Remove(i)
         PROVE  SlotsKept
    <2>1. /\ Saved \/ UNCHANGED disk
          /\ DOMAIN mem' \subseteq DOMAIN mem /\ \A j \in DOMAIN mem' : mem'[j] = mem[j]
      BY <1>11 DEF Remove, Writes, SaveFails, Without
    <2>2. ASSUME NEW j \in DOMAIN disk \cap DOMAIN disk', fails = 0,
                 disk[j].enabled, disk[j].next = "due"
          PROVE  disk'[j].next = "due"
      BY <1>1, <2>1, <2>2, WrittenSlotKept
    <2>. QED
      BY <2>2 DEF SlotsKept
  <1>12. ASSUME NEW i \in Jobs, Add(i)
         PROVE  SlotsKept
    <2>1. used' # used
      BY <1>12 DEF Add
    <2>. QED
      BY <2>1 DEF SlotsKept
  <1>13. ASSUME NEW i \in Jobs, Time(i)
         PROVE  SlotsKept
    <2>1. \A j \in DOMAIN disk : disk[j] \in JobState
      BY <1>1, StoreTyped
    <2>2. \/ disk' = SlotPassed(disk, i) \/ disk' = BackoffPassed(disk, i) \/ disk' = MarkerAged(disk, i)
      BY <1>13 DEF Time, SlotComesDue, BackoffEnds, MarkerGetsOld, Clock
    <2>3. \A j \in DOMAIN disk : disk[j].next = "due" => disk'[j].next = "due"
      <3>1. CASE disk' = SlotPassed(disk, i)
        BY <2>1, <3>1 DEF SlotPassed, JobState
      <3>2. CASE disk' = BackoffPassed(disk, i) \/ disk' = MarkerAged(disk, i)
        BY <2>1, <3>2 DEF BackoffPassed, MarkerAged, JobState
      <3>. QED
        BY <2>2, <3>1, <3>2
    <2>. QED
      BY <2>3 DEF SlotsKept
  <1>14. ASSUME NEW c \in Callers, NEW i \in Jobs, NEW forced \in BOOLEAN, ManualAdmitted(c, i, forced)
         PROVE  SlotsKept
    BY <1>2, <1>14 DEF ManualAdmitted
  <1>15. CASE TimerFires \/ TickEnds \/ TimerFiresDuringTick \/ Crash
              \/ \E j \in Jobs, o \in Origins : Running(o, j)
    <2>1. UNCHANGED disk
      BY <1>15 DEF TimerFires, TickEnds, TimerFiresDuringTick, Crash, Running, RunStarts, RunEnds, store
    <2>. QED
      BY <1>2, <2>1
  <1>16. ASSUME NEW j \in Jobs, Calls(j) \/ \E c \in Callers : ManualRuns(c, j)
         PROVE  SlotsKept
    BY <1>8, <1>9, <1>10, <1>11, <1>12, <1>14, <1>16 DEF ManualRuns, Calls
  <1>17. CASE Ticking
    BY <1>5, <1>6, <1>15, <1>17 DEF Ticking
  <1>. QED
    BY <1>3, <1>7, <1>13, <1>15, <1>16, <1>17 DEF Next

-----------------------------------------------------------------------------
\* While no write failed, a due slot of an enabled job goes away by a run of the
\* job, an update of it, a start or its delay after an error; never by a tick, a
\* read, a removal or a run of another job.  (A call of add is excepted.)
THEOREM NeverSkipped == Spec => DueSlotIsNotSkipped
  <1>1. Init => SameSlots
    BY DEF Init, SameSlots
  <1>2. TypeOK /\ SameSlots /\ [Next]_vars => SameSlots'
    <2>1. TypeOK /\ SameSlots /\ UNCHANGED vars => SameSlots'
      BY WrittenSameSlots DEF vars, store, counters
    <2>. QED
      BY <2>1, NextSameSlots
  <1>3. IInv /\ SameSlots /\ [Next]_vars => [SlotsKept]_vars
    BY NextSlotsKept
  <1>4. [SlotsKept]_vars =>
          [\A j \in DOMAIN disk \cap DOMAIN disk' :
             fails = 0 /\ disk[j].enabled /\ disk[j].next = "due" /\ disk'[j].next # "due"
             => \/ \E o \in Origins : run[o][j] \in Outcomes /\ run'[o][j] = "none"
                \/ \E patch \in Patches : Update(j, patch)
                \/ Starting \/ disk[j].backoff \/ used' # used]_vars
    BY DEF SlotsKept
  <1>. QED
    BY <1>1, <1>2, <1>3, <1>4, Invariant, TypeCorrect, PTL DEF Spec, DueSlotIsNotSkipped

=============================================================================
