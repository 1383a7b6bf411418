----------------------- MODULE SessionSuspensionProofs -----------------------
(***************************************************************************)
(* A throttled lane always has a timer that resumes it.  The invariant is  *)
(* inductive with the types of the timers, the suspensions and the caps;   *)
(* of CommandQueue's own steps it needs that none of them sets a cap.      *)
(***************************************************************************)
EXTENDS SessionSuspension, TLAPS

CapsAreNumbers == maxConcurrent \in [Lanes -> Int]

SInv == SuspensionTypeOK /\ CapsAreNumbers /\ SuspendedLaneIsResumed

\* A lane given a positive cap has a positive cap, a probe lane always.
LEMMA LaneCapRange ==
    ASSUME NEW l \in Lanes, NEW n \in Nat
    PROVE  LaneCap(l, n) \in Nat /\ (n # 0 => LaneCap(l, n) # 0)
  BY DEF LaneCap

LEMMA SuspensionInitInv == SuspensionInit => SInv
  BY CommandQueueAssumption
     DEF SuspensionInit, Init, SInv, SuspensionTypeOK, CapsAreNumbers, SuspendedLaneIsResumed,
         Suspension

\* Only those who suspend, resume and configure lanes set caps.
LEMMA QueueStepKeepsCaps == QueueStep => UNCHANGED maxConcurrent
  BY DEF QueueStep, TaskStep, WaiterStep, EnqueueCommandInLane, RefuseWhileDraining, TaskBodyEnds,
         TaskTimeoutFires, CompleteTask, ClearCommandLane, ResetCommandLane, ResetAllLanes, ResetLanes,
         MarkGatewayDraining, WaitForActiveTasks, WaiterTimesOut, laneVars

LEMMA SuspensionStepInv == SInv /\ [SuspensionNext]_allVars => SInv'
  <1>. SUFFICES ASSUME SInv, [SuspensionNext]_allVars PROVE SInv'
    OBVIOUS
  <1>. USE DEF SInv, SuspensionTypeOK, CapsAreNumbers, SuspendedLaneIsResumed
  <1>1. CASE UNCHANGED <<maxConcurrent, suspensionVars>>
    BY <1>1 DEF suspensionVars
  <1>2. ASSUME NEW s \in Suspensions, NEW l \in Lanes, Suspend(s, l)
        PROVE  SInv'
    <2>1. UNCHANGED <<maxConcurrent, laneResumeTimers>>
      BY <1>2 DEF Suspend, vars
    <2>2. PICK cap \in LaneResumeConcurrency(l) :
             suspension' = [suspension EXCEPT ![s] =
                              [lane |-> l, resume |-> cap, state |-> "persisting"]]
      BY <1>2 DEF Suspend
    <2>3. cap \in Nat \ {0}
      BY SuspensionAssumption DEF LaneResumeConcurrency
    <2>. QED
      BY <2>1, <2>2, <2>3 DEF Suspension
  <1>3. ASSUME NEW s \in Suspensions, SuspensionPersisted(s)
        PROVE  SInv'
    <2>. DEFINE l == suspension[s].lane
    <2>1. l \in Lanes /\ suspension[s].resume \in Nat \ {0}
      BY DEF Suspension
    <2>2. maxConcurrent' = [maxConcurrent EXCEPT ![l] = LaneCap(l, 0)]
      BY <1>3 DEF SuspensionPersisted, SetCommandLaneConcurrency
    <2>3. laneResumeTimers' = [laneResumeTimers EXCEPT ![l] = suspension[s].resume]
      BY <1>3 DEF SuspensionPersisted
    <2>4. suspension' \in [Suspensions -> Suspension]
      BY <1>3 DEF SuspensionPersisted, Suspension
    <2>5. LaneCap(l, 0) \in Nat
      BY <2>1, LaneCapRange
    <2>. QED
      BY <2>1, <2>2, <2>3, <2>4, <2>5
  <1>4. ASSUME NEW s \in Suspensions, SuspensionNotPersisted(s)
        PROVE  SInv'
    BY <1>4 DEF SuspensionNotPersisted, Suspension, vars
  <1>5. ASSUME NEW l \in Lanes, LaneAutoResume(l)
        PROVE  SInv'
    <2>1. laneResumeTimers[l] \in Nat /\ laneResumeTimers[l] # 0
      BY <1>5 DEF LaneAutoResume
    <2>2. maxConcurrent' = [maxConcurrent EXCEPT ![l] = LaneCap(l, laneResumeTimers[l])]
      BY <1>5 DEF LaneAutoResume, SetCommandLaneConcurrency
    <2>3. /\ laneResumeTimers' = [laneResumeTimers EXCEPT ![l] = 0]
          /\ suspension' = suspension
      BY <1>5 DEF LaneAutoResume
    <2>4. LaneCap(l, laneResumeTimers[l]) \in Nat /\ LaneCap(l, laneResumeTimers[l]) # 0
      BY <2>1, LaneCapRange
    <2>. QED
      BY <2>2, <2>3, <2>4
  <1>6. ASSUME NEW cap \in [ConfiguredLanes -> ConfigCaps], ApplyGatewayLaneConcurrency(cap)
        PROVE  SInv'
    <2>1. /\ maxConcurrent' = [l \in Lanes |-> IF l \in ConfiguredLanes THEN LaneCap(l, cap[l])
                                               ELSE maxConcurrent[l]]
          /\ UNCHANGED suspensionVars
      BY <1>6 DEF ApplyGatewayLaneConcurrency
    <2>2. ASSUME NEW l \in ConfiguredLanes
          PROVE  LaneCap(l, cap[l]) \in Nat /\ LaneCap(l, cap[l]) # 0
      <3>1. l \in Lanes /\ cap[l] \in Nat /\ cap[l] # 0
        BY SuspensionAssumption
      <3>. QED
        BY <3>1, LaneCapRange
    <2>. QED
      BY <2>1, <2>2 DEF suspensionVars
  <1>7. ASSUME QueueStep, UNCHANGED suspensionVars
        PROVE  SInv'
    BY <1>1, <1>7, QueueStepKeepsCaps
  <1>. QED
    BY <1>1, <1>2, <1>3, <1>4, <1>5, <1>6, <1>7
       DEF SuspensionNext, PersistEnds, allVars, vars, suspensionVars

\* Whatever suspensions, failing stores, resumes, reloads and resets of any
\* number of lanes do, and in any order, a lane that admits nothing has a timer.
THEOREM AlwaysResumed == SuspensionSpec => []SuspendedLaneIsResumed
  <1>1. SInv => SuspendedLaneIsResumed
    BY DEF SInv
  <1>. QED
    BY <1>1, SuspensionInitInv, SuspensionStepInv, PTL DEF SuspensionSpec
==============================================================================
