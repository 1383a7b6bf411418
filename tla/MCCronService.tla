---------------------------- MODULE MCCronService ----------------------------
(* A one-shot that a start catches up and a recurring agent turn, side by    *)
(* side or alone; alone with more calls, crashes and failing writes.         *)
EXTENDS CronService

CONSTANTS once, often, first, second, Together, Alone

MCJobs == {once, often}
MCOneShots == {once}
MCAgentJobs == {often}
MCBounds == [S \in SUBSET MCJobs |-> IF S = MCJobs THEN Together ELSE Alone]

\* Values of Together and Alone
OneCall == [calls |-> 1, crashes |-> 1, fails |-> 0]
OneCrash == [calls |-> 0, crashes |-> 1, fails |-> 0]
TwoCalls == [calls |-> 2, crashes |-> 1, fails |-> 0]
TwoCallsOneFailure == [calls |-> 2, crashes |-> 1, fails |-> 1]
=============================================================================
