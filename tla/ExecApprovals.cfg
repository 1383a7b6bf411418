SPECIFICATION Spec
CONSTANTS
  asked = asked
  reviewed = reviewed
  Requests <- MCRequests
  AutoReviewed <- MCAutoReviewed
  Fallback <- MCFallback
  Prefix = prefix
  MaxRuns = 2
CHECK_DEADLOCK FALSE
INVARIANT TypeOK
INVARIANT RunsWereApproved
INVARIANT OperatorsAgree
INVARIANT AnswersAgree
PROPERTY RequestEnds
