SPECIFICATION Spec
CONSTANTS
  once = once
  often = often
  first = first
  second = second
  Jobs <- MCJobs
  OneShots <- MCOneShots
  SelfDeleting = {once}
  AgentJobs <- MCAgentJobs
  Callers = {first, second}
  MaxConcurrent = 1
  MaxMissed = 1
  Together <- OneCrash
  Alone <- TwoCalls
  Bounds <- MCBounds
CHECK_DEADLOCK FALSE
PROPERTY DueJobRuns
