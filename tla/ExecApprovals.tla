---------------------------- MODULE ExecApprovals ----------------------------
(***************************************************************************)
(* Approvals of commands that an agent runs on a node: the gateway's map   *)
(* of approval records (ExecApprovalManager), the handlers of              *)
(* exec.approval.request, waitDecision and resolve, the check node.invoke  *)
(* makes of a run against its record (sanitizeSystemRunParamsForForwarding)*)
(* and the agent that requests, waits and then runs (executeNodeHostCommand).*)
(*                                                                         *)
(* A request has an id of its own, a random UUID; its record outlives the  *)
(* map's entry here, as the promise and the closures over it do.  A        *)
(* handler runs without interruption between two awaits, so each part of   *)
(* it is a step.                                                           *)
(***************************************************************************)
EXTENDS Naturals, FiniteSets

CONSTANTS
  Requests,      \* the requests, by approval id
  AutoReviewed,  \* those an automatic reviewer allows: registered without
                 \* delivery and resolved by the requester itself
  Fallback,      \* what askFallback may be for each request; "deny" where a real
                 \* approval is required (enforceStrictInlineEvalApprovalBoundary)
  Prefix,        \* what an operator may type for the id of any request
  MaxRuns        \* bound: how often a request's run is forwarded

ASSUME RequestsAssumption ==
  /\ AutoReviewed \subseteq Requests /\ Prefix \notin Requests
  /\ Fallback \in [Requests -> SUBSET {"deny", "allowlist", "full"} \ {{}}]
ASSUME BoundAssumption == MaxRuns \in Nat

VARIABLES
  entry,      \* the map: no entry, or one that is pending or resolved
  decision, consumed, resolvedBy,  \* fields of the record
  promise,    \* what the entry's promise settled with, null at an expiry
  clock,      \* where expiresAtMs lies: ahead, this millisecond, past
  delivering, \* the request's handler awaits its delivery
  requester,  \* where the agent is
  answer,     \* the decision it was told
  outcome,    \* what became of its command
  runs,       \* history: how often a run was forwarded as approved
  reply       \* history: the last answer to an operator's resolve

record == <<decision, consumed, resolvedBy>>
agent == <<requester, answer, outcome>>
vars == <<entry, record, promise, clock, delivering, agent, runs, reply>>

Decisions == {"allow-once", "allow-always", "deny"}
Allowing == {"allow-once", "allow-always"}
NoReply == [ok |-> FALSE]

TypeOK ==
  /\ entry \in [Requests -> {"absent", "pending", "resolved"}]
  /\ decision \in [Requests -> {"none"} \cup Decisions]
  /\ consumed \in [Requests -> {"none", "allow-once"}]
  /\ resolvedBy \in [Requests -> {"null", "client", "no-approval-route"}]
  /\ promise \in [Requests -> {"open", "null"} \cup Decisions]
  /\ clock \in [Requests -> {"ahead", "now", "past"}]
  /\ delivering \in [Requests -> BOOLEAN]
  /\ requester \in [Requests -> {"idle", "requesting", "accepted", "waiting",
                                 "invoking", "ended"}]
  /\ answer \in [Requests -> {"none", "null"} \cup Decisions]
  /\ outcome \in [Requests -> {"none", "ran", "unapproved", "denied", "refused", "failed"}]
  /\ runs \in [Requests -> Nat]
  /\ reply \in {NoReply} \cup [id : Requests, decision : Decisions, ok : BOOLEAN]

Init ==
  /\ entry = [q \in Requests |-> "absent"]
  /\ decision = [q \in Requests |-> "none"] /\ consumed = [q \in Requests |-> "none"]
  /\ resolvedBy = [q \in Requests |-> "null"]
  /\ promise = [q \in Requests |-> "open"] /\ clock = [q \in Requests |-> "ahead"]
  /\ delivering = [q \in Requests |-> FALSE]
  /\ requester = [q \in Requests |-> "idle"] /\ answer = [q \in Requests |-> "none"]
  /\ outcome = [q \in Requests |-> "none"] /\ runs = [q \in Requests |-> 0]
  /\ reply = NoReply

-----------------------------------------------------------------------------
(* The manager                                                             *)

\* resolve: the first decision stands.
Resolved(q, d) ==
  /\ entry[q] = "pending"
  /\ entry' = [entry EXCEPT ![q] = "resolved"]
  /\ decision' = [decision EXCEPT ![q] = d]
  /\ resolvedBy' = [resolvedBy EXCEPT ![q] = "client"]
  /\ promise' = [promise EXCEPT ![q] = d]
  /\ UNCHANGED consumed

\* Mutant of Expired: the promise is left open.
ExpiredUnsettled(q, by) ==
  /\ entry[q] = "pending"
  /\ entry' = [entry EXCEPT ![q] = "resolved"]
  /\ resolvedBy' = [resolvedBy EXCEPT ![q] = by]
  /\ UNCHANGED <<decision, consumed, promise>>

\* expire
Expired(q, by) ==
  /\ entry[q] = "pending"
  /\ entry' = [entry EXCEPT ![q] = "resolved"]
  /\ resolvedBy' = [resolvedBy EXCEPT ![q] = by]
  /\ promise' = [promise EXCEPT ![q] = "null"]
  /\ UNCHANGED <<decision, consumed>>

\* The entry's timer
TimerFires(q) ==
  /\ clock[q] # "ahead" /\ Expired(q, "null")
  /\ UNCHANGED <<clock, delivering, agent, runs, reply>>

\* The end of RESOLVED_ENTRY_GRACE_MS
GraceEnds(q) ==
  /\ entry[q] = "resolved"
  /\ entry' = [entry EXCEPT ![q] = "absent"]
  /\ UNCHANGED <<record, promise, clock, delivering, agent, runs, reply>>

ClockMoves(q) ==
  /\ requester[q] # "idle" /\ clock[q] # "past"
  /\ clock' = [clock EXCEPT ![q] = IF @ = "ahead" THEN "now" ELSE "past"]
  /\ UNCHANGED <<entry, record, promise, delivering, agent, runs, reply>>

\* lookupApprovalId: an id that has an entry stands for that entry alone.
Matches(input, includeResolved) ==
  {q \in Requests : /\ input \in {q, Prefix}
                    /\ entry[q] = "pending" \/ (includeResolved /\ entry[q] = "resolved")}

\* Mutant of Recorded: an allow-once that was consumed is forgotten.
RecordedUnconsumed(q) == decision[q]

\* resolveRecordedApprovalDecision
Recorded(q) == IF decision[q] # "none" THEN decision[q] ELSE consumed[q]

-----------------------------------------------------------------------------
(* exec.approval.resolve: an operator decides.                             *)

\* A repeated resolve is answered ok when it is the decision that stands.
Repeated(q, d) ==
  /\ reply' = [id |-> q, decision |-> d, ok |-> Recorded(q) = d]
  /\ UNCHANGED <<entry, record, promise>>

Resolve(input, d) ==
  /\ \/ \E q \in Requests :
          /\ Matches(input, FALSE) = {q} /\ Resolved(q, d)
          /\ reply' = [id |-> q, decision |-> d, ok |-> TRUE]
     \/ \E q \in Requests :
          /\ Matches(input, FALSE) = {} /\ Matches(input, TRUE) = {q} /\ Repeated(q, d)
  /\ UNCHANGED <<clock, delivering, agent, runs>>

-----------------------------------------------------------------------------
(* exec.approval.request and the agent                                     *)

\* What the agent does with the decision d; null counts as a timeout.
Ends(q, how) ==
  /\ requester' = [requester EXCEPT ![q] = "ended"]
  /\ outcome' = [outcome EXCEPT ![q] = how]

Decided(q, d) ==
  /\ answer' = [answer EXCEPT ![q] = d]
  /\ \/ d = "deny" /\ Ends(q, "denied")
     \/ d = "null" /\ "deny" \in Fallback[q] /\ Ends(q, "denied")
     \/ d = "null" /\ "allowlist" \in Fallback[q] /\ Ends(q, "unapproved")
     \/ /\ d \in Allowing \/ (d = "null" /\ "full" \in Fallback[q])
        /\ requester' = [requester EXCEPT ![q] = "invoking"] /\ UNCHANGED outcome

\* The record is registered before anything is delivered or answered.
Request(q) ==
  /\ requester[q] = "idle"
  /\ requester' = [requester EXCEPT ![q] = "requesting"]
  /\ entry' = [entry EXCEPT ![q] = "pending"]
  /\ delivering' = [delivering EXCEPT ![q] = TRUE]
  /\ UNCHANGED <<record, promise, clock, answer, outcome, runs, reply>>

\* The delivery ends and somebody can answer: the request is accepted.
Delivered(q) ==
  /\ delivering[q] /\ delivering' = [delivering EXCEPT ![q] = FALSE]
  /\ requester' = [requester EXCEPT ![q] = IF @ = "requesting" THEN "accepted" ELSE @]
  /\ UNCHANGED <<entry, record, promise, clock, answer, outcome, runs, reply>>

\* Nobody can: the entry expires, if it is still pending, and the answer is
\* null, whatever was decided during the delivery.
NoRoute(q) ==
  /\ delivering[q] /\ q \notin AutoReviewed
  /\ delivering' = [delivering EXCEPT ![q] = FALSE]
  /\ \/ Expired(q, "no-approval-route")
     \/ entry[q] # "pending" /\ UNCHANGED <<entry, record, promise>>
  /\ \/ requester[q] = "requesting" /\ Decided(q, "null")
     \/ requester[q] # "requesting" /\ UNCHANGED agent
  /\ UNCHANGED <<clock, runs, reply>>

\* The agent's call times out ten seconds after the expiry.
RequestTimesOut(q) ==
  /\ requester[q] = "requesting" /\ clock[q] = "past" /\ Ends(q, "failed")
  /\ UNCHANGED answer
  /\ UNCHANGED <<entry, record, promise, clock, delivering, runs, reply>>

\* exec.approval.waitDecision: an entry that is gone counts as no decision.
WaitArrives(q) ==
  /\ requester[q] = "accepted" /\ q \notin AutoReviewed
  /\ \/ entry[q] = "absent" /\ Decided(q, "null")
     \/ /\ entry[q] # "absent" /\ requester' = [requester EXCEPT ![q] = "waiting"]
        /\ UNCHANGED <<answer, outcome>>
  /\ UNCHANGED <<entry, record, promise, clock, delivering, runs, reply>>

\* Mutant of WaitAnswered: the wait ends with the expiry, not with the promise.
WaitAnsweredAtExpiry(q) ==
  /\ requester[q] = "waiting" /\ clock[q] # "ahead" /\ Decided(q, "null")
  /\ UNCHANGED <<entry, record, promise, clock, delivering, runs, reply>>

WaitAnswered(q) ==
  /\ requester[q] = "waiting" /\ promise[q] # "open" /\ Decided(q, promise[q])
  /\ UNCHANGED <<entry, record, promise, clock, delivering, runs, reply>>

\* The reviewer's decision; a resolve that is not answered ok throws.
Review(q) ==
  /\ requester[q] = "accepted" /\ q \in AutoReviewed
  /\ \/ /\ Resolved(q, "allow-once") /\ Decided(q, "allow-once")
        /\ UNCHANGED reply
     \/ /\ entry[q] = "resolved" /\ UNCHANGED <<entry, record, promise, reply>>
        /\ \/ Recorded(q) = "allow-once" /\ Decided(q, "allow-once")
           \/ Recorded(q) # "allow-once" /\ Ends(q, "failed") /\ UNCHANGED answer
     \/ /\ entry[q] = "absent" /\ Ends(q, "failed") /\ UNCHANGED answer
        /\ UNCHANGED <<entry, record, promise, reply>>
  /\ UNCHANGED <<clock, delivering, runs>>

-----------------------------------------------------------------------------
(* node.invoke                                                             *)

\* The decision taken back by no operator: nobody answered in time.
TimedOut(q) ==
  entry[q] = "resolved" /\ decision[q] = "none" /\ resolvedBy[q] = "null"

Forwardable(q) ==
  /\ entry[q] # "absent" /\ clock[q] # "past"
  /\ decision[q] \in Allowing \/ TimedOut(q)

\* Mutant of Forward: an allow-once is not consumed.
ForwardUnconsumed(q) ==
  /\ Forwardable(q)
  /\ runs' = [runs EXCEPT ![q] = @ + 1]
  /\ UNCHANGED <<entry, record, promise, clock, delivering, reply>>

\* Mutant of Forward: every decision is consumed by its first run.
ForwardConsumingAll(q) ==
  /\ Forwardable(q)
  /\ consumed' = [consumed EXCEPT ![q] = decision[q]]
  /\ decision' = [decision EXCEPT ![q] = "none"]
  /\ runs' = [runs EXCEPT ![q] = @ + 1]
  /\ UNCHANGED <<entry, resolvedBy, promise, clock, delivering, reply>>

\* consumeAllowOnce, when that is the decision
Forward(q) ==
  /\ Forwardable(q)
  /\ \/ /\ decision[q] = "allow-once"
        /\ consumed' = [consumed EXCEPT ![q] = "allow-once"]
        /\ decision' = [decision EXCEPT ![q] = "none"]
     \/ decision[q] # "allow-once" /\ UNCHANGED <<consumed, decision>>
  /\ runs' = [runs EXCEPT ![q] = @ + 1]
  /\ UNCHANGED <<entry, resolvedBy, promise, clock, delivering, reply>>

Invoke(q) ==
  /\ requester[q] = "invoking"
  /\ UNCHANGED answer
  /\ \/ Forward(q) /\ Ends(q, "ran")
     \/ /\ ~Forwardable(q) /\ Ends(q, "refused")
        /\ UNCHANGED <<entry, record, promise, clock, delivering, runs, reply>>

\* The node is not connected, also after it was woken.
InvokeFails(q) ==
  /\ requester[q] = "invoking" /\ Ends(q, "failed") /\ UNCHANGED answer
  /\ UNCHANGED <<entry, record, promise, clock, delivering, runs, reply>>

\* The same run is invoked again by a client the record is bound to.
InvokeAgain(q) ==
  /\ outcome[q] \in {"ran", "refused", "failed"} /\ answer[q] # "none"
  /\ runs[q] < MaxRuns /\ Forward(q)
  /\ UNCHANGED agent

-----------------------------------------------------------------------------
Manager(q) == TimerFires(q) \/ GraceEnds(q) \/ ClockMoves(q)
Agent(q) == RequestTimesOut(q) \/ WaitArrives(q) \/ WaitAnswered(q) \/ Review(q) \/ Invoke(q)

Next ==
  \/ \E q \in Requests :
       \/ Manager(q) \/ Agent(q)
       \/ Request(q) \/ Delivered(q) \/ NoRoute(q) \/ InvokeFails(q) \/ InvokeAgain(q)
  \/ \E input \in Requests \cup {Prefix}, d \in Decisions : Resolve(input, d)

\* Timers fire and calls arrive; nothing is asked of deliveries and operators.
Fairness == \A q \in Requests : WF_vars(Manager(q)) /\ WF_vars(Agent(q))

Spec == Init /\ [][Next]_vars /\ Fairness

-----------------------------------------------------------------------------
(* Properties                                                              *)

\* A run is forwarded as approved only under the decision that stands: never
\* after a denial, once for an allow-once however often the run is invoked
\* (exec-approval-manager.ts:196: "must be consumed atomically"), and without
\* a decision only when the request timed out and its fallback is to allow.
RunsWereApproved ==
  \A q \in Requests :
    /\ runs[q] > 0 => \/ promise[q] \in Allowing
                      \/ promise[q] = "null" /\ resolvedBy[q] = "null" /\ "full" \in Fallback[q]
    /\ promise[q] = "allow-once" => runs[q] <= 1

\* All that operators are told agrees with what the promise settled with, also
\* after an allow-once was consumed (approval-shared.ts:547): a resolve is
\* answered ok only for that decision, and that decision is never refused.
OperatorsAgree ==
  reply # NoReply => (reply.ok <=> promise[reply.id] = reply.decision)

\* The agent is told a decision only if it is the one that stands; no decision
\* only once the entry was resolved, expired or gone.
AnswersAgree ==
  \A q \in Requests :
    answer[q] # "none" => \/ answer[q] = promise[q]
                          \/ answer[q] = "null" /\ promise[q] # "open"

\* Whatever operators and deliveries do, every request comes to an end for the
\* agent that made it, and its entry leaves the map.
RequestEnds ==
  \A q \in Requests :
    requester[q] # "idle" ~> (requester[q] = "ended" /\ entry[q] = "absent")

\* docs/tools/exec-approvals.md:155: askFallback is the "resolution when a
\* prompt is required but no UI is reachable", and "full" is to allow: the
\* gateway refuses no run for which nobody answered.
FullFallbackAllows ==
  \A q \in Requests : outcome[q] = "refused" => promise[q] # "null"

=============================================================================
