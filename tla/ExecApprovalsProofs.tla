------------------------- MODULE ExecApprovalsProofs -------------------------
(***************************************************************************)
(* The safety properties of ExecApprovals for any number of requests.      *)
(*                                                                         *)
(* The inductive invariant relates, for every request, the entry of the    *)
(* map to its promise (Registered), the record to what the promise settled *)
(* with (RecordAgrees), the runs to the record (RunsAgree) and the agent   *)
(* to what it was told (AgentAgrees); it is needed because the map forgets *)
(* an entry after its grace and the record forgets an allow-once that was  *)
(* consumed, while the properties speak of all that happened.              *)
(***************************************************************************)
EXTENDS ExecApprovals, TLAPS

\* Nothing exists before the request; a promise is open while its entry is pending.
Registered(q) ==
  /\ requester[q] = "idle" => ~delivering[q] /\ entry[q] = "absent" /\ promise[q] = "open"
  /\ requester[q] # "idle" => (entry[q] = "pending" <=> promise[q] = "open")

\* The record says what the promise settled with; a consumed allow-once is the
\* only decision it gives up.
RecordAgrees(q) ==
  /\ promise[q] \in {"open", "null"} => decision[q] = "none" /\ consumed[q] = "none"
  /\ promise[q] = "open" => resolvedBy[q] = "null"
  /\ promise[q] \in Decisions =>
       /\ resolvedBy[q] = "client"
       /\ \/ decision[q] = promise[q] /\ consumed[q] = "none"
          \/ promise[q] = "allow-once" /\ decision[q] = "none" /\ consumed[q] = "allow-once"

\* Runs were forwarded under that decision, once for an allow-once.
RunsAgree(q) ==
  /\ promise[q] \in {"open", "deny"} => runs[q] = 0
  /\ promise[q] = "allow-once" => runs[q] = IF consumed[q] = "none" THEN 0 ELSE 1
  /\ promise[q] = "null" /\ runs[q] > 0 => resolvedBy[q] = "null" /\ "full" \in Fallback[q]

\* An agent that goes on without a decision does so because of its fallback.
AgentAgrees(q) ==
  /\ requester[q] \in {"idle", "requesting", "accepted", "waiting"} =>
       answer[q] = "none" /\ outcome[q] = "none"
  /\ requester[q] = "invoking" => answer[q] # "none"
  /\ answer[q] = "null" /\ (requester[q] = "invoking" \/ outcome[q] \in {"ran", "refused", "failed"})
       => "full" \in Fallback[q]
  /\ answer[q] # "none" => answer[q] = promise[q] \/ (answer[q] = "null" /\ promise[q] # "open")

ReplyAgrees ==
  reply # NoReply => /\ promise[reply.id] # "open"
                     /\ reply.ok <=> promise[reply.id] = reply.decision

Agrees(q) == Registered(q) /\ RecordAgrees(q) /\ RunsAgree(q) /\ AgentAgrees(q)

IInv == TypeOK /\ (\A q \in Requests : Agrees(q)) /\ ReplyAgrees

-----------------------------------------------------------------------------
LEMMA InitIInv == Init => IInv
  BY DEF Init, IInv, TypeOK, Agrees, Registered, RecordAgrees, RunsAgree, AgentAgrees, ReplyAgrees,
         Decisions, NoReply

\* What a step of q leaves to the other requests.
Others(q) ==
  \A p \in Requests \ {q} :
    /\ entry'[p] = entry[p] /\ decision'[p] = decision[p] /\ consumed'[p] = consumed[p]
    /\ resolvedBy'[p] = resolvedBy[p] /\ promise'[p] = promise[p]
    /\ delivering'[p] = delivering[p] /\ requester'[p] = requester[p]
    /\ answer'[p] = answer[p] /\ outcome'[p] = outcome[p] /\ runs'[p] = runs[p]

LEMMA OthersAgree ==
  ASSUME NEW q \in Requests, Others(q), \A p \in Requests : Agrees(p), Agrees(q)'
  PROVE  \A p \in Requests : Agrees(p)'
  BY DEF Others, Agrees, Registered, RecordAgrees, RunsAgree, AgentAgrees

\* A promise settles once, so what an operator was told stays right.
LEMMA ReplyStays ==
  ASSUME ReplyAgrees, UNCHANGED reply, reply \in {NoReply} \cup [id : Requests, decision : Decisions, ok : BOOLEAN],
         \A p \in Requests : promise[p] # "open" => promise'[p] = promise[p]
  PROVE  ReplyAgrees'
  <1>1. CASE reply = NoReply
    BY <1>1 DEF ReplyAgrees
  <1>2. CASE reply # NoReply
    <2>1. reply.id \in Requests
      BY <1>2
    <2>. QED
      BY <1>2, <2>1 DEF ReplyAgrees
  <1>. QED
    BY <1>1, <1>2

-----------------------------------------------------------------------------
(* Actions *)

LEMMA TimerFiresIInv ==
  ASSUME IInv, NEW q \in Requests, TimerFires(q)
  PROVE  IInv'
  <1>. USE DEF TimerFires, Expired, record, agent
  <1>0. TypeOK /\ Agrees(q) /\ ReplyAgrees /\ \A p \in Requests : Agrees(p)
    BY DEF IInv
  <1>1. TypeOK'
    BY <1>0 DEF TypeOK, Decisions, Allowing
  <1>2. Others(q)
    BY <1>0 DEF Others, TypeOK
  <1>3. Agrees(q)'
    BY <1>0, RequestsAssumption
       DEF TypeOK, Agrees, Registered, RecordAgrees, RunsAgree, AgentAgrees, Decisions, Allowing
  <1>4. ReplyAgrees'
    BY <1>0, ReplyStays DEF TypeOK, Agrees, Registered
  <1>. QED
    BY <1>0, <1>1, <1>2, <1>3, <1>4, OthersAgree DEF IInv

LEMMA GraceEndsIInv ==
  ASSUME IInv, NEW q \in Requests, GraceEnds(q)
  PROVE  IInv'
  <1>. USE DEF GraceEnds, record, agent
  <1>0. TypeOK /\ Agrees(q) /\ ReplyAgrees /\ \A p \in Requests : Agrees(p)
    BY DEF IInv
  <1>1. TypeOK'
    BY <1>0 DEF TypeOK, Decisions, Allowing
  <1>2. Others(q)
    BY <1>0 DEF Others, TypeOK
  <1>3. Agrees(q)'
    BY <1>0, RequestsAssumption
       DEF TypeOK, Agrees, Registered, RecordAgrees, RunsAgree, AgentAgrees, Decisions, Allowing
  <1>4. ReplyAgrees'
    BY <1>0, ReplyStays DEF TypeOK, Agrees, Registered
  <1>. QED
    BY <1>0, <1>1, <1>2, <1>3, <1>4, OthersAgree DEF IInv

LEMMA ClockMovesIInv ==
  ASSUME IInv, NEW q \in Requests, ClockMoves(q)
  PROVE  IInv'
  <1>. USE DEF ClockMoves, record, agent
  <1>0. TypeOK /\ Agrees(q) /\ ReplyAgrees /\ \A p \in Requests : Agrees(p)
    BY DEF IInv
  <1>1. TypeOK'
    BY <1>0 DEF TypeOK, Decisions, Allowing
  <1>2. Others(q)
    BY <1>0 DEF Others, TypeOK
  <1>3. Agrees(q)'
    BY <1>0, RequestsAssumption
       DEF TypeOK, Agrees, Registered, RecordAgrees, RunsAgree, AgentAgrees, Decisions, Allowing
  <1>4. ReplyAgrees'
    BY <1>0, ReplyStays DEF TypeOK, Agrees, Registered
  <1>. QED
    BY <1>0, <1>1, <1>2, <1>3, <1>4, OthersAgree DEF IInv

LEMMA RequestIInv ==
  ASSUME IInv, NEW q \in Requests, Request(q)
  PROVE  IInv'
  <1>. USE DEF Request, record, agent
  <1>0. TypeOK /\ Agrees(q) /\ ReplyAgrees /\ \A p \in Requests : Agrees(p)
    BY DEF IInv
  <1>1. TypeOK'
    BY <1>0 DEF TypeOK, Decisions, Allowing
  <1>2. Others(q)
    BY <1>0 DEF Others, TypeOK
  <1>3. Agrees(q)'
    BY <1>0, RequestsAssumption
       DEF TypeOK, Agrees, Registered, RecordAgrees, RunsAgree, AgentAgrees, Decisions, Allowing
  <1>4. ReplyAgrees'
    BY <1>0, ReplyStays DEF TypeOK, Agrees, Registered
  <1>. QED
    BY <1>0, <1>1, <1>2, <1>3, <1>4, OthersAgree DEF IInv

LEMMA DeliveredIInv ==
  ASSUME IInv, NEW q \in Requests, Delivered(q)
  PROVE  IInv'
  <1>. USE DEF Delivered, record, agent
  <1>0. TypeOK /\ Agrees(q) /\ ReplyAgrees /\ \A p \in Requests : Agrees(p)
    BY DEF IInv
  <1>1. TypeOK'
    BY <1>0 DEF TypeOK, Decisions, Allowing
  <1>2. Others(q)
    BY <1>0 DEF Others, TypeOK
  <1>3. Agrees(q)'
    BY <1>0, RequestsAssumption
       DEF TypeOK, Agrees, Registered, RecordAgrees, RunsAgree, AgentAgrees, Decisions, Allowing
  <1>4. ReplyAgrees'
    BY <1>0, ReplyStays DEF TypeOK, Agrees, Registered
  <1>. QED
    BY <1>0, <1>1, <1>2, <1>3, <1>4, OthersAgree DEF IInv

LEMMA NoRouteIInv ==
  ASSUME IInv, NEW q \in Requests, NoRoute(q)
  PROVE  IInv'
  <1>. USE DEF NoRoute, Expired, Decided, Ends, record, agent
  <1>0. TypeOK /\ Agrees(q) /\ ReplyAgrees /\ \A p \in Requests : Agrees(p)
    BY DEF IInv
  <1>1. TypeOK'
    BY <1>0 DEF TypeOK, Decisions, Allowing
  <1>2. Others(q)
    BY <1>0 DEF Others, TypeOK
  <1>3. Agrees(q)'
    BY <1>0, RequestsAssumption
       DEF TypeOK, Agrees, Registered, RecordAgrees, RunsAgree, AgentAgrees, Decisions, Allowing
  <1>4. ReplyAgrees'
    BY <1>0, ReplyStays DEF TypeOK, Agrees, Registered
  <1>. QED
    BY <1>0, <1>1, <1>2, <1>3, <1>4, OthersAgree DEF IInv

LEMMA RequestTimesOutIInv ==
  ASSUME IInv, NEW q \in Requests, RequestTimesOut(q)
  PROVE  IInv'
  <1>. USE DEF RequestTimesOut, Ends, record, agent
  <1>0. TypeOK /\ Agrees(q) /\ ReplyAgrees /\ \A p \in Requests : Agrees(p)
    BY DEF IInv
  <1>1. TypeOK'
    BY <1>0 DEF TypeOK, Decisions, Allowing
  <1>2. Others(q)
    BY <1>0 DEF Others, TypeOK
  <1>3. Agrees(q)'
    BY <1>0, RequestsAssumption
       DEF TypeOK, Agrees, Registered, RecordAgrees, RunsAgree, AgentAgrees, Decisions, Allowing
  <1>4. ReplyAgrees'
    BY <1>0, ReplyStays DEF TypeOK, Agrees, Registered
  <1>. QED
    BY <1>0, <1>1, <1>2, <1>3, <1>4, OthersAgree DEF IInv

LEMMA WaitArrivesIInv ==
  ASSUME IInv, NEW q \in Requests, WaitArrives(q)
  PROVE  IInv'
  <1>. USE DEF WaitArrives, Decided, Ends, record, agent
  <1>0. TypeOK /\ Agrees(q) /\ ReplyAgrees /\ \A p \in Requests : Agrees(p)
    BY DEF IInv
  <1>1. TypeOK'
    BY <1>0 DEF TypeOK, Decisions, Allowing
  <1>2. Others(q)
    BY <1>0 DEF Others, TypeOK
  <1>3. Agrees(q)'
    BY <1>0, RequestsAssumption
       DEF TypeOK, Agrees, Registered, RecordAgrees, RunsAgree, AgentAgrees, Decisions, Allowing
  <1>4. ReplyAgrees'
    BY <1>0, ReplyStays DEF TypeOK, Agrees, Registered
  <1>. QED
    BY <1>0, <1>1, <1>2, <1>3, <1>4, OthersAgree DEF IInv

LEMMA WaitAnsweredIInv ==
  ASSUME IInv, NEW q \in Requests, WaitAnswered(q)
  PROVE  IInv'
  <1>. USE DEF WaitAnswered, Decided, Ends, record, agent
  <1>0. TypeOK /\ Agrees(q) /\ ReplyAgrees /\ \A p \in Requests : Agrees(p)
    BY DEF IInv
  <1>1. TypeOK'
    BY <1>0 DEF TypeOK, Decisions, Allowing
  <1>2. Others(q)
    BY <1>0 DEF Others, TypeOK
  <1>3. Agrees(q)'
    BY <1>0, RequestsAssumption
       DEF TypeOK, Agrees, Registered, RecordAgrees, RunsAgree, AgentAgrees, Decisions, Allowing
  <1>4. ReplyAgrees'
    BY <1>0, ReplyStays DEF TypeOK, Agrees, Registered
  <1>. QED
    BY <1>0, <1>1, <1>2, <1>3, <1>4, OthersAgree DEF IInv

LEMMA ReviewIInv ==
  ASSUME IInv, NEW q \in Requests, Review(q)
  PROVE  IInv'
  <1>. USE DEF Review, Resolved, Recorded, Decided, Ends, record, agent
  <1>0. TypeOK /\ Agrees(q) /\ ReplyAgrees /\ \A p \in Requests : Agrees(p)
    BY DEF IInv
  <1>1. TypeOK'
    BY <1>0 DEF TypeOK, Decisions, Allowing
  <1>2. Others(q)
    BY <1>0 DEF Others, TypeOK
  <1>3. Agrees(q)'
    BY <1>0, RequestsAssumption
       DEF TypeOK, Agrees, Registered, RecordAgrees, RunsAgree, AgentAgrees, Decisions, Allowing
  <1>4. ReplyAgrees'
    BY <1>0, ReplyStays DEF TypeOK, Agrees, Registered
  <1>. QED
    BY <1>0, <1>1, <1>2, <1>3, <1>4, OthersAgree DEF IInv

LEMMA InvokeIInv ==
  ASSUME IInv, NEW q \in Requests, Invoke(q)
  PROVE  IInv'
  <1>. USE DEF Invoke, Forward, Forwardable, TimedOut, Ends, record, agent
  <1>0. TypeOK /\ Agrees(q) /\ ReplyAgrees /\ \A p \in Requests : Agrees(p)
    BY DEF IInv
  <1>1. TypeOK'
    BY <1>0 DEF TypeOK, Decisions, Allowing
  <1>2. Others(q)
    BY <1>0 DEF Others, TypeOK
  <1>3. Agrees(q)'
    BY <1>0, RequestsAssumption
       DEF TypeOK, Agrees, Registered, RecordAgrees, RunsAgree, AgentAgrees, Decisions, Allowing
  <1>4. ReplyAgrees'
    BY <1>0, ReplyStays DEF TypeOK, Agrees, Registered
  <1>. QED
    BY <1>0, <1>1, <1>2, <1>3, <1>4, OthersAgree DEF IInv

LEMMA InvokeFailsIInv ==
  ASSUME IInv, NEW q \in Requests, InvokeFails(q)
  PROVE  IInv'
  <1>. USE DEF InvokeFails, Ends, record, agent
  <1>0. TypeOK /\ Agrees(q) /\ ReplyAgrees /\ \A p \in Requests : Agrees(p)
    BY DEF IInv
  <1>1. TypeOK'
    BY <1>0 DEF TypeOK, Decisions, Allowing
  <1>2. Others(q)
    BY <1>0 DEF Others, TypeOK
  <1>3. Agrees(q)'
    BY <1>0, RequestsAssumption
       DEF TypeOK, Agrees, Registered, RecordAgrees, RunsAgree, AgentAgrees, Decisions, Allowing
  <1>4. ReplyAgrees'
    BY <1>0, ReplyStays DEF TypeOK, Agrees, Registered
  <1>. QED
    BY <1>0, <1>1, <1>2, <1>3, <1>4, OthersAgree DEF IInv

LEMMA InvokeAgainIInv ==
  ASSUME IInv, NEW q \in Requests, InvokeAgain(q)
  PROVE  IInv'
  <1>. USE DEF InvokeAgain, Forward, Forwardable, TimedOut, record, agent
  <1>0. TypeOK /\ Agrees(q) /\ ReplyAgrees /\ \A p \in Requests : Agrees(p)
    BY DEF IInv
  <1>1. TypeOK'
    BY <1>0 DEF TypeOK, Decisions, Allowing
  <1>2. Others(q)
    BY <1>0 DEF Others, TypeOK
  <1>3. Agrees(q)'
    BY <1>0, RequestsAssumption
       DEF TypeOK, Agrees, Registered, RecordAgrees, RunsAgree, AgentAgrees, Decisions, Allowing
  <1>4. ReplyAgrees'
    BY <1>0, ReplyStays DEF TypeOK, Agrees, Registered
  <1>. QED
    BY <1>0, <1>1, <1>2, <1>3, <1>4, OthersAgree DEF IInv

LEMMA ResolveIInv ==
  ASSUME IInv, NEW input \in Requests \cup {Prefix}, NEW d \in Decisions, Resolve(input, d)
  PROVE  IInv'
  <1>0. TypeOK /\ ReplyAgrees /\ \A p \in Requests : Agrees(p)
    BY DEF IInv
  <1>1. ASSUME NEW q \in Requests, Resolved(q, d),
               reply' = [id |-> q, decision |-> d, ok |-> TRUE],
               UNCHANGED <<clock, delivering, agent, runs>>
        PROVE  IInv'
    <2>. USE <1>0, <1>1 DEF Resolved, agent
    <2>1. TypeOK'
      BY DEF TypeOK, Decisions
    <2>2. Others(q)
      BY DEF Others, TypeOK
    <2>3. Agrees(q)'
      BY DEF TypeOK, Agrees, Registered, RecordAgrees, RunsAgree, AgentAgrees, Decisions
    <2>4. ReplyAgrees'
      BY DEF ReplyAgrees, TypeOK, Decisions
    <2>. QED
      BY <2>1, <2>2, <2>3, <2>4, OthersAgree DEF IInv
  <1>2. ASSUME NEW q \in Requests, entry[q] = "resolved", Repeated(q, d),
               UNCHANGED <<clock, delivering, agent, runs>>
        PROVE  IInv'
    <2>. USE <1>0, <1>2 DEF Repeated, agent, record
    <2>1. TypeOK'
      BY DEF TypeOK, Decisions
    <2>2. Agrees(q) /\ Registered(q)
      BY DEF Agrees
    <2>3. ReplyAgrees'
      \* An entry that is resolved has a promise that is settled, and its record
      \* tells the same.
      <3>1. promise[q] # "open" /\ (Recorded(q) = d <=> promise[q] = d)
        BY <2>2 DEF Recorded, Agrees, Registered, RecordAgrees, TypeOK, Decisions
      <3>. QED
        BY <3>1 DEF ReplyAgrees
    <2>4. \A p \in Requests : Agrees(p)'
      BY DEF Agrees, Registered, RecordAgrees, RunsAgree, AgentAgrees
    <2>. QED
      BY <2>1, <2>3, <2>4 DEF IInv
  <1>3. ASSUME NEW q \in Requests, Matches(input, FALSE) = {}, Matches(input, TRUE) = {q}
        PROVE  entry[q] = "resolved"
    <2>1. q \in Matches(input, TRUE) /\ q \notin Matches(input, FALSE)
      BY <1>3
    <2>. QED
      BY <2>1 DEF Matches
  <1>. QED
    BY <1>1, <1>2, <1>3 DEF Resolve

LEMMA NextIInv == IInv /\ [Next]_vars => IInv'
  <1>. SUFFICES ASSUME IInv, [Next]_vars PROVE IInv'
    OBVIOUS
  <1>1. CASE UNCHANGED vars
    BY <1>1 DEF vars, record, agent, IInv, TypeOK, Agrees, Registered, RecordAgrees, RunsAgree,
                AgentAgrees, ReplyAgrees
  <1>2. CASE Next
    BY <1>2, TimerFiresIInv, GraceEndsIInv, ClockMovesIInv, RequestIInv, DeliveredIInv, NoRouteIInv,
       RequestTimesOutIInv, WaitArrivesIInv, WaitAnsweredIInv, ReviewIInv, InvokeIInv,
       InvokeFailsIInv, InvokeAgainIInv, ResolveIInv
       DEF Next, Manager, Agent
  <1>. QED
    BY <1>1, <1>2

-----------------------------------------------------------------------------
(* The theorems *)

LEMMA AlwaysIInv == Spec => []IInv
  BY InitIInv, NextIInv, PTL DEF Spec

\* Type correctness, for any requests, reviewers, fallbacks and bound of runs.
THEOREM TypeCorrect == Spec => []TypeOK
  <1>1. IInv => TypeOK
    BY DEF IInv
  <1>. QED
    BY <1>1, AlwaysIInv, PTL

\* Whatever operators, timers, the grace period and repeated invocations do, a run
\* is forwarded only as it was approved, and once for an allow-once.
THEOREM AlwaysApproved == Spec => []RunsWereApproved
  <1>1. IInv => RunsWereApproved
    <2>. SUFFICES ASSUME IInv, NEW q \in Requests
                  PROVE  /\ runs[q] > 0 => \/ promise[q] \in Allowing
                                            \/ /\ promise[q] = "null" /\ resolvedBy[q] = "null"
                                               /\ "full" \in Fallback[q]
                         /\ promise[q] = "allow-once" => runs[q] <= 1
      BY DEF RunsWereApproved
    <2>1. RunsAgree(q) /\ runs[q] \in Nat /\ promise[q] \in {"open", "null"} \cup Decisions
      BY DEF IInv, Agrees, TypeOK
    <2>. QED
      BY <2>1 DEF RunsAgree, Decisions, Allowing
  <1>. QED
    BY <1>1, AlwaysIInv, PTL

\* No two operators are told of different decisions for one request.
THEOREM OperatorsAlwaysAgree == Spec => []OperatorsAgree
  <1>1. IInv => OperatorsAgree
    BY DEF IInv, ReplyAgrees, OperatorsAgree
  <1>. QED
    BY <1>1, AlwaysIInv, PTL

\* The agent is told the decision that stands, or none, and none only once the
\* request is settled.
THEOREM AnswersAlwaysAgree == Spec => []AnswersAgree
  <1>1. IInv => AnswersAgree
    BY DEF IInv, Agrees, AgentAgrees, AnswersAgree
  <1>. QED
    BY <1>1, AlwaysIInv, PTL
==============================================================================
