SPECIFICATION Spec
CONSTANTS
  once = once
  often = often
  first = first
  second = second
  Jobs <- MCJobs
  OneShots <- MCOneShots
  SelfDeleting = {}
  AgentJobs <- MCAgentJobs
  Callers = {first, second}
  MaxConcurrent = 1
  MaxMissed = 1
  Together <- OneCall
  Alone <- TwoCallsOneFailure
  Bounds <- MCBounds
CHECK_DEADLOCK FALSE
INVARIANT TypeOK
INVARIANT MarkersMatchRuns
INVARIANT OnlyFreedJobsOverlap
INVARIANT SchedulerAlive
PROPERTY OneShotNotRepeated
PROPERTY DueSlotIsNotSkipped
