--------------------------- MODULE FollowupQueue ---------------------------
(***************************************************************************)
(* The followup queue of one session: src/src/auto-reply/reply/queue.      *)
(*                                                                         *)
(* Messages that arrive while an agent turn of the session is running wait *)
(* here (enqueueFollowupRun) and are turned into later turns by a drain    *)
(* loop (scheduleFollowupDrain).  A queue is an object of the map          *)
(* FOLLOWUP_QUEUES; /stop replaces the map's entry while a drain may still *)
(* be running on the old object, so several objects may be alive at once.  *)
(* The drain is a coroutine: a step of it here is the code between two     *)
(* awaits, and everything else may happen at an await.                     *)
(*                                                                         *)
(* A session runs one reply operation at a time (reply-turn-admission.ts): *)
(* the turn of a directly answered message, or a followup turn.            *)
(***************************************************************************)
EXTENDS Naturals, FiniteSets, SequencesExt

CONSTANTS
    Messages,       \* provider messages, by their id and route
    QueueIds,       \* names for the queue objects alive at one time
    NoQueue,        \* FOLLOWUP_QUEUES has no entry for the session
    NoOwner,        \* no reply operation is active
    MainTurn,       \* the reply operation of a directly answered message
    Settings,       \* the [mode, cap, dropPolicy] an enqueue may bring along
    RouteOf,        \* [Messages -> routes]: the reply route of each message
    NoRoute,        \* the route of a message without routing data
    Unroutable,     \* the route of a message whose channel cannot be routed to
    AuthOf,         \* [Messages -> keys]: its sender's authorization key
    RuntimeOnly,    \* messages with runtime-only metadata, e.g. a lifecycle
    Abortable,      \* those among them with an abort signal
    Deliveries,     \* bound: how often each of the messages may be accepted
    MaxMainTurns,   \* bound: directly answered messages
    MaxFailures,    \* bound: turns that throw
    MaxStops        \* bound: calls of clearSessionQueues

Modes == {"collect", "followup"}
DropPolicies == {"old", "new", "summarize"}

ASSUME SettingsAssumption ==
    Settings \subseteq [mode : Modes, cap : Nat \ {0}, dropPolicy : DropPolicies]
ASSUME MessagesAssumption == Abortable \subseteq RuntimeOnly /\ RuntimeOnly \subseteq Messages
ASSUME DeliveriesAssumption == Deliveries \subseteq [Messages -> Nat]
ASSUME NamesAssumption ==
    /\ IsFiniteSet(QueueIds)
    /\ NoQueue \notin QueueIds
    /\ {NoOwner, MainTurn} \cap QueueIds = {} /\ NoOwner # MainTurn
    /\ NoRoute # Unroutable

VARIABLES
    registered,     \* FOLLOWUP_QUEUES.get(key)
    queue,          \* the queue objects
    drain,          \* the drain loop of each queue object
    owner,          \* who holds the session's reply operation
    recent,         \* RECENT_QUEUE_MESSAGE_IDS
    aborted,        \* messages whose abort signal has fired
    \* History, read by the properties only.
    accepted,       \* times a message was pushed
    answered,       \* times a turn with its prompt succeeded
    discarded,      \* times it was dropped by policy, by /stop or by its abort
    completed,      \* messages whose queued lifecycle was completed
    mainTurns, failures, stops

history == <<accepted, answered, discarded, completed>>
bounds == <<mainTurns, failures, stops>>
vars == <<registered, queue, drain, owner, recent, aborted, history, bounds>>

-----------------------------------------------------------------------------
(* Records.                                                                *)

NoQueueState ==
    [items |-> <<>>, draining |-> FALSE, mode |-> "followup", cap |-> 1,
     dropPolicy |-> "new", droppedCount |-> 0, summaryLines |-> <<>>,
     summarySources |-> <<>>, lastRun |-> FALSE]

\* A turn the drain hands to runFollowup: the entries it will take off the
\* queue, those whose prompts it carries, the overflow summary it carries, and
\* what is still to come of the collected batch.
NoTurn == [carries |-> <<>>, speaks |-> <<>>, overflow |-> FALSE,
           lines |-> <<>>, count |-> 0, rest |-> <<>>]

NoDrain == [pc |-> "idle", at |-> 0, force |-> FALSE, turn |-> NoTurn]

HasWork(rec) == rec.items # <<>> \/ rec.droppedCount > 0
SummaryPrompt(rec) == rec.dropPolicy = "summarize" /\ rec.droppedCount > 0
WithoutSummary(rec) ==
    [rec EXCEPT !.droppedCount = 0, !.summaryLines = <<>>, !.summarySources = <<>>]

InTurn(q) == drain[q].pc \in {"waiting", "running"}
Owns(q) == drain[q].pc = "running"

Occurrences(m) ==
    IF registered = NoQueue THEN 0
    ELSE Cardinality({i \in DOMAIN queue[registered].items : queue[registered].items[i] = m})

Bump(counts, S) == [m \in Messages |-> counts[m] + (IF m \in S THEN 1 ELSE 0)]
Lifecycles(S) == S \cap RuntimeOnly

-----------------------------------------------------------------------------
(* The drain loop's control flow.                                          *)

\* A queue object that is neither in the map nor draining is garbage.
Live(qs, reg) ==
    [q \in QueueIds |-> IF q = reg \/ qs[q].draining THEN qs[q] ELSE NoQueueState]

Become(reg, qs, ds) ==
    /\ registered' = reg
    /\ queue' = Live(qs, reg)
    /\ drain' = ds

AbortedAt(items, last) == {i \in 1..last : items[i] \in aborted}

\* dropAbortedFollowups before the debounce, up to its first await.
LoopTop(items, force) ==
    LET bad == AbortedAt(items, Len(items)) IN
    IF bad = {} THEN [NoDrain EXCEPT !.pc = "debounce", !.force = force]
    ELSE [NoDrain EXCEPT !.pc = "abortBefore", !.at = Max(bad), !.force = force,
                         !.turn.carries = <<items[Max(bad)]>>]

\* scheduleFollowupDrain: acts on the map's entry, whichever object that is.
\* An entry without work is entered and left at once, and so removed.
Schedule(reg, qs, ds) ==
    IF reg = NoQueue THEN Become(reg, qs, ds)
    ELSE IF qs[reg].draining THEN Become(reg, qs, ds)
    ELSE IF HasWork(qs[reg])
         THEN Become(reg, [qs EXCEPT ![reg].draining = TRUE],
                     [ds EXCEPT ![reg] = LoopTop(qs[reg].items, FALSE)])
         ELSE Become(NoQueue, qs, ds)

\* Mutant: the identity guard of the finally block is dropped.
LeaveUnguarded(q, rec) ==
    LET qs == [queue EXCEPT ![q] = [rec EXCEPT !.draining = FALSE]]
        ds == [drain EXCEPT ![q] = NoDrain]
    IN IF HasWork(rec) THEN Schedule(registered, qs, ds) ELSE Become(NoQueue, qs, ds)

\* Mutant: the draining flag stays set when the drain ends.
LeaveDraining(q, rec) ==
    Become(IF registered = q /\ ~HasWork(rec) THEN NoQueue ELSE registered,
           [queue EXCEPT ![q] = rec], [drain EXCEPT ![q] = NoDrain])

\* The finally block: reschedule if work is left, else remove the map's entry
\* provided it is still this queue.
Leave(q, rec) ==
    LET qs == [queue EXCEPT ![q] = [rec EXCEPT !.draining = FALSE]]
        ds == [drain EXCEPT ![q] = NoDrain]
    IN IF HasWork(rec) THEN Schedule(registered, qs, ds)
       ELSE Become(IF registered = q THEN NoQueue ELSE registered, qs, ds)

Iterate(q, rec, force) ==
    IF HasWork(rec)
    THEN Become(registered, [queue EXCEPT ![q] = rec],
                [drain EXCEPT ![q] = LoopTop(rec.items, force)])
    ELSE Leave(q, rec)

StartTurn(q, rec, force, turn) ==
    Become(registered, [queue EXCEPT ![q] = rec],
           [drain EXCEPT ![q] = [pc |-> "waiting", at |-> 0, force |-> force, turn |-> turn]])

-----------------------------------------------------------------------------
(* Choosing the next turn.                                                 *)

\* hasCrossChannelItems with resolveCrossChannelKey.
CrossChannel(items) ==
    LET routes == {RouteOf[m] : m \in ToSet(items)} \ {NoRoute}
    IN Unroutable \in routes \/ Cardinality(routes) > 1

\* Mutant of FirstGroup: the batch is not split.
WholeBatch(batch) == batch

\* splitCollectItemsByAuthorization: the batch falls into maximal stretches of
\* one authorization key.
FirstGroup(batch) ==
    LET others == {i \in DOMAIN batch : AuthOf[batch[i]] # AuthOf[Head(batch)]}
    IN IF others = {} THEN batch ELSE SubSeq(batch, 1, Min(others) - 1)

\* Each stretch is a turn of its own; what follows it in the batch is to come.
GroupTurn(batch) ==
    LET group == FirstGroup(batch)
    IN [NoTurn EXCEPT !.carries = group, !.speaks = group,
                      !.rest = SubSeq(batch, Len(group) + 1, Len(batch))]

\* The overflow summary rides along with what the turn carries.
WithOverflow(rec, turn) ==
    IF SummaryPrompt(rec)
    THEN [turn EXCEPT !.overflow = TRUE, !.lines = rec.summaryLines, !.count = rec.droppedCount]
    ELSE turn

Single(m) == [NoTurn EXCEPT !.carries = <<m>>, !.speaks = <<m>>]

\* Mutant: a summary left without entries ends the drain, as in the other modes.
CollectWithoutSummaryTurn(q, rec, force) ==
    IF rec.items = <<>> THEN Leave(q, rec)
    ELSE StartTurn(q, rec, FALSE, WithOverflow(rec, GroupTurn(rec.items)))

CollectTurn(q, rec, force) ==
    LET cross == CrossChannel(rec.items) \/ \E m \in ToSet(rec.items) : m \in RuntimeOnly
        oneByOne == cross \/ (force /\ Len(rec.items) <= 1)
    IN CASE rec.items = <<>> /\ SummaryPrompt(rec) /\ rec.lastRun ->
                StartTurn(q, rec, oneByOne, WithOverflow(rec, NoTurn))
         [] rec.items = <<>> /\ ~(SummaryPrompt(rec) /\ rec.lastRun) ->
                Leave(q, rec)
         [] rec.items # <<>> /\ oneByOne ->
                StartTurn(q, rec, TRUE, Single(Head(rec.items)))
         [] rec.items # <<>> /\ ~oneByOne ->
                StartTurn(q, rec, FALSE, WithOverflow(rec, GroupTurn(rec.items)))

\* In the other modes a pending summary becomes a turn of its own that takes
\* the head entry's routing, and the head entry with it.
FollowupTurn(q, rec, force) ==
    CASE rec.items = <<>> \/ (SummaryPrompt(rec) /\ ~rec.lastRun) -> Leave(q, rec)
      [] rec.items # <<>> /\ SummaryPrompt(rec) /\ rec.lastRun ->
             StartTurn(q, rec, force,
                       WithOverflow(rec, [NoTurn EXCEPT !.carries = <<Head(rec.items)>>]))
      [] rec.items # <<>> /\ ~SummaryPrompt(rec) ->
             StartTurn(q, rec, force, Single(Head(rec.items)))

Dispatch(q, rec, force) ==
    IF rec.mode = "collect" THEN CollectTurn(q, rec, force) ELSE FollowupTurn(q, rec, force)

-----------------------------------------------------------------------------
(* Enqueueing.                                                             *)

\* getFollowupQueue: the map's entry with the new settings, or a new object.
Configured(rec, s) ==
    [rec EXCEPT !.mode = s.mode, !.cap = s.cap, !.dropPolicy = s.dropPolicy]

\* applyQueueDropPolicy and the trimming of summarySources that follows it,
\* for a queue that is at its cap: drop the oldest entries, in flight or not.
Dropped(rec) ==
    IF Len(rec.items) < rec.cap THEN <<>>
    ELSE SubSeq(rec.items, 1, Len(rec.items) - rec.cap + 1)

LastOf(seq, n) == IF Len(seq) <= n THEN seq ELSE SubSeq(seq, Len(seq) - n + 1, Len(seq))

MakeRoom(rec) ==
    LET gone == Dropped(rec)
        kept == SubSeq(rec.items, Len(gone) + 1, Len(rec.items))
        lines == IF gone = <<>> THEN rec.summaryLines
                 ELSE LastOf(rec.summaryLines \o gone, rec.cap)
    IN IF rec.dropPolicy = "summarize"
       THEN [rec EXCEPT !.items = kept,
                        !.droppedCount = @ + Len(gone),
                        !.summaryLines = lines,
                        !.summarySources = LastOf(@ \o gone, Len(lines))]
       ELSE [rec EXCEPT !.items = kept]

Discard(S) == discarded' = Bump(discarded, S)

\* Refused as a duplicate: remembered, or still queued.
Duplicate(m, rec) == m \in recent \/ m \in ToSet(rec.items)

FreshQueue == CHOOSE q \in QueueIds : q # registered /\ ~queue[q].draining
HaveQueue == registered # NoQueue \/ \E q \in QueueIds : ~queue[q].draining

\* enqueueFollowupRun by the agent runner, whose look at the active run may be
\* stale by now, and the runner's second look that starts the drain
\* (agent-runner.ts).
EnqueueFollowupRun(m, s) ==
    /\ m \notin aborted
    /\ HaveQueue
    /\ LET q == IF registered # NoQueue THEN registered ELSE FreshQueue
           found == Configured(queue[q], s)
           duplicate == Duplicate(m, found)
           used == [found EXCEPT !.lastRun = TRUE]
           full == Len(used.items) >= used.cap /\ used.dropPolicy = "new"
           room == MakeRoom(used)
           gone == ToSet(Dropped(used))
           pushed == [room EXCEPT !.items = Append(@, m)]
           Put(rec) == IF owner = NoOwner
                       THEN Schedule(q, [queue EXCEPT ![q] = rec], drain)
                       ELSE Become(q, [queue EXCEPT ![q] = rec], drain)
       IN \/ /\ duplicate
             /\ Put(found)
             /\ UNCHANGED <<recent, history>>
          \/ /\ ~duplicate /\ full
             /\ Put(used)
             /\ UNCHANGED <<recent, history>>
          \/ /\ ~duplicate /\ ~full
             /\ Bump(accepted, {m}) \in Deliveries
             /\ Put(pushed)
             /\ recent' = recent \cup {m}
             /\ accepted' = Bump(accepted, {m})
             /\ Discard(gone)
             /\ completed' = (completed \ {m}) \cup
                    Lifecycles((ToSet(used.summarySources) \cup gone) \ ToSet(room.summarySources))
             /\ UNCHANGED answered
    /\ UNCHANGED <<owner, aborted, bounds>>

-----------------------------------------------------------------------------
(* The drain's steps.                                                      *)

\* dropAbortedFollowups found nothing more to drop.
AfterSweep(q, phase, rec, force) ==
    IF ~HasWork(rec) THEN Leave(q, rec)
    ELSE IF phase = "abortBefore"
         THEN Become(registered, [queue EXCEPT ![q] = rec],
                     [drain EXCEPT ![q] = [NoDrain EXCEPT !.pc = "debounce", !.force = force]])
         ELSE Dispatch(q, rec, force)

DebounceEnds(q) ==
    /\ drain[q].pc = "debounce"
    /\ LET rec == queue[q]
           bad == AbortedAt(rec.items, Len(rec.items))
       IN IF bad = {} THEN AfterSweep(q, "abortAfter", rec, drain[q].force)
          ELSE Become(registered, queue,
                      [drain EXCEPT ![q].pc = "abortAfter", ![q].at = Max(bad),
                                    ![q].turn.carries = <<rec.items[Max(bad)]>>])
    /\ UNCHANGED <<owner, recent, aborted, history, bounds>>

\* The runner returned at once for an aborted entry: splice its index away and
\* look further down.  An index past the end of a list that shrank meanwhile
\* is a TypeError that ends this drain.
AbortedTurnEnds(q) ==
    /\ drain[q].pc \in {"abortBefore", "abortAfter"}
    /\ LET d == drain[q]
           rec == queue[q]
           m == Head(d.turn.carries)
           hit == d.at <= Len(rec.items)
           rest == IF hit THEN [rec EXCEPT !.items = RemoveAt(@, d.at)] ELSE rec
           bad == AbortedAt(rest.items, d.at - 1)
           swept == IF rest.items = <<>> THEN WithoutSummary(rest) ELSE rest
       IN /\ CASE d.at - 1 > Len(rest.items) -> Leave(q, rest)
               [] d.at - 1 <= Len(rest.items) /\ bad # {} ->
                      Become(registered, [queue EXCEPT ![q] = rest],
                             [drain EXCEPT ![q].at = Max(bad),
                                           ![q].turn.carries = <<rest.items[Max(bad)]>>])
               [] d.at - 1 <= Len(rest.items) /\ bad = {} -> AfterSweep(q, d.pc, swept, d.force)
          /\ Discard(IF hit /\ rec.items[d.at] = m THEN {m} ELSE {})
          /\ completed' = completed \cup
                 Lifecycles({m} \cup (IF d.at - 1 <= Len(rest.items) /\ bad = {}
                                      THEN ToSet(rec.summarySources) \ ToSet(swept.summarySources)
                                      ELSE {}))
    /\ UNCHANGED <<owner, recent, aborted, accepted, answered, bounds>>

CarrierAborted(q) ==
    Len(drain[q].turn.carries) = 1 /\ Head(drain[q].turn.carries) \in aborted

\* admitReplyTurn: the followup turn gets the session's reply operation ...
TurnAdmitted(q) ==
    /\ drain[q].pc = "waiting"
    /\ ~CarrierAborted(q)
    /\ owner = NoOwner
    /\ owner' = q
    /\ drain' = [drain EXCEPT ![q].pc = "running"]
    /\ UNCHANGED <<registered, queue, recent, aborted, history, bounds>>

\* ... or waits 15 seconds for it in vain (FollowupRunDeferredError): the
\* summary it carried is put back and the drain starts over.
TurnDeferred(q) ==
    /\ drain[q].pc = "waiting"
    /\ ~CarrierAborted(q)
    /\ owner # NoOwner
    /\ LET rec == queue[q]
           turn == drain[q].turn
           same == rec.droppedCount >= turn.count /\ IsPrefix(turn.lines, rec.summaryLines)
           restored == IF ~turn.overflow \/ same THEN rec
                       ELSE [rec EXCEPT !.droppedCount = IF @ >= turn.count THEN @ ELSE @ + turn.count,
                                        !.summaryLines = turn.lines \o @]
       IN Leave(q, restored)
    /\ UNCHANGED <<owner, recent, aborted, history, bounds>>

\* The code after runFollowup returned: sources completed, the entries shifted
\* or spliced off the front, the summary state cleared, the next group begun.
\* Mutant: a finished turn leaves its entries in the list.
TakeOffNothing(rec, n) == rec

TakeOff(rec, n) == [rec EXCEPT !.items = SubSeq(@, n + 1, Len(@))]

FinishTurn(q) ==
    LET rec == queue[q]
        turn == drain[q].turn
        taken == TakeOff(rec, Len(turn.carries))
        after == IF turn.overflow THEN WithoutSummary(taken) ELSE taken
    IN /\ IF turn.rest # <<>>
          THEN StartTurn(q, after, drain[q].force, GroupTurn(turn.rest))
          ELSE Iterate(q, after, drain[q].force)
       /\ completed' = completed \cup
              Lifecycles((IF Len(turn.carries) = 1 THEN ToSet(turn.carries) ELSE {})
                         \cup (IF turn.overflow THEN ToSet(rec.summarySources) ELSE {}))

TurnSucceeds(q) ==
    /\ Owns(q)
    /\ owner' = NoOwner
    /\ FinishTurn(q)
    /\ answered' = Bump(answered, ToSet(drain[q].turn.speaks))
    /\ UNCHANGED <<recent, aborted, accepted, discarded, bounds>>

\* The runner gives up, without an error, on an entry whose signal has fired.
TurnSkipped(q) ==
    /\ drain[q].pc = "waiting"
    /\ CarrierAborted(q)
    /\ FinishTurn(q)
    /\ answered' = Bump(answered, ToSet(drain[q].turn.speaks))
    /\ UNCHANGED <<owner, recent, aborted, accepted, discarded, bounds>>

\* Any other exception: the entries stay where they are, the sources of the
\* summary the turn carried are completed, and the drain starts over.
TurnFails(q) ==
    /\ Owns(q)
    /\ failures < MaxFailures
    /\ owner' = NoOwner
    /\ LET turn == drain[q].turn
           rec == queue[q]
       IN /\ Leave(q, IF turn.overflow THEN [rec EXCEPT !.summarySources = <<>>] ELSE rec)
          /\ completed' = completed \cup
                 Lifecycles((IF Len(turn.carries) = 1 THEN ToSet(turn.carries) ELSE {})
                            \cup (IF turn.overflow THEN ToSet(rec.summarySources) ELSE {}))
    /\ failures' = failures + 1
    /\ UNCHANGED <<recent, aborted, accepted, answered, discarded, mainTurns, stops>>

-----------------------------------------------------------------------------
(* The rest of the session.                                                *)

\* A message that found the session idle is answered directly.
MainTurnAdmitted ==
    /\ owner = NoOwner
    /\ mainTurns < MaxMainTurns
    /\ owner' = MainTurn
    /\ mainTurns' = mainTurns + 1
    /\ UNCHANGED <<registered, queue, drain, recent, aborted, history, failures, stops>>

\* Mutant: the end of a directly answered message does not start the drain.
MainTurnEndsQuietly ==
    /\ owner = MainTurn
    /\ owner' = NoOwner
    /\ UNCHANGED <<registered, queue, drain, recent, aborted, history, bounds>>

\* replyOperation.completeThen(drainQueuedFollowupsAfterClear).
MainTurnEnds ==
    /\ owner = MainTurn
    /\ owner' = NoOwner
    /\ Schedule(registered, queue, drain)
    /\ UNCHANGED <<recent, aborted, history, bounds>>

\* Mutant: /stop does not complete the lifecycles of what it removes.
ClearWithoutCompleting ==
    /\ stops < MaxStops
    /\ registered # NoQueue
    /\ LET rec == queue[registered]
           cleared == [WithoutSummary(rec) EXCEPT !.items = <<>>, !.lastRun = FALSE]
       IN /\ Become(NoQueue, [queue EXCEPT ![registered] = cleared], drain)
          /\ Discard(ToSet(rec.items))
    /\ stops' = stops + 1
    /\ UNCHANGED <<owner, recent, aborted, accepted, answered, completed, mainTurns, failures>>

\* clearSessionQueues: /stop and session resets empty the queue and take it out
\* of the map, also while its drain is waiting for a turn.
ClearSessionQueues ==
    /\ stops < MaxStops
    /\ registered # NoQueue
    /\ LET rec == queue[registered]
           cleared == [WithoutSummary(rec) EXCEPT !.items = <<>>, !.lastRun = FALSE]
       IN /\ Become(NoQueue, [queue EXCEPT ![registered] = cleared], drain)
          /\ Discard(ToSet(rec.items))
          /\ completed' = completed \cup Lifecycles(ToSet(rec.items \o rec.summarySources))
    /\ stops' = stops + 1
    /\ UNCHANGED <<owner, recent, aborted, accepted, answered, mainTurns, failures>>

\* The source channel cancels a message.
AbortMessage(m) ==
    /\ m \in Abortable \ aborted
    /\ accepted[m] > 0
    /\ aborted' = aborted \cup {m}
    /\ UNCHANGED <<registered, queue, drain, owner, recent, history, bounds>>

\* The dedupe cache forgets a message id after five minutes.
ForgetRecent(m) ==
    /\ m \in recent
    /\ Bump(accepted, {m}) \in Deliveries
    /\ recent' = recent \ {m}
    /\ UNCHANGED <<registered, queue, drain, owner, aborted, history, bounds>>

Init ==
    /\ registered = NoQueue
    /\ queue = [q \in QueueIds |-> NoQueueState]
    /\ drain = [q \in QueueIds |-> NoDrain]
    /\ owner = NoOwner
    /\ recent = {} /\ aborted = {}
    /\ accepted = [m \in Messages |-> 0]
    /\ answered = [m \in Messages |-> 0]
    /\ discarded = [m \in Messages |-> 0]
    /\ completed = {}
    /\ mainTurns = 0 /\ failures = 0 /\ stops = 0

Next ==
    \/ \E m \in Messages, s \in Settings : EnqueueFollowupRun(m, s)
    \/ \E q \in QueueIds :
          \/ DebounceEnds(q) \/ AbortedTurnEnds(q)
          \/ TurnAdmitted(q) \/ TurnDeferred(q)
          \/ TurnSucceeds(q) \/ TurnSkipped(q) \/ TurnFails(q)
    \/ MainTurnAdmitted \/ MainTurnEnds
    \/ ClearSessionQueues
    \/ \E m \in Messages : AbortMessage(m) \/ ForgetRecent(m)

Spec == Init /\ [][Next]_vars

\* Turns and the reply operation end; timers fire.
FairSpec ==
    /\ Spec
    /\ WF_vars(MainTurnEnds)
    /\ \A q \in QueueIds :
          /\ WF_vars(DebounceEnds(q)) /\ WF_vars(AbortedTurnEnds(q))
          /\ WF_vars(TurnAdmitted(q)) /\ WF_vars(TurnSkipped(q))
          /\ WF_vars(TurnSucceeds(q) \/ TurnFails(q))

-----------------------------------------------------------------------------
(* Properties.                                                             *)

Entries == Seq(Messages)

QueueStates ==
    [items : Entries, draining : BOOLEAN, mode : Modes, cap : Nat \ {0},
     dropPolicy : DropPolicies, droppedCount : Nat, summaryLines : Entries,
     summarySources : Entries, lastRun : BOOLEAN]

Turns == [carries : Entries, speaks : Entries, overflow : BOOLEAN,
          lines : Entries, count : Nat, rest : Entries]

Drains == [pc : {"idle", "abortBefore", "debounce", "abortAfter", "waiting", "running"},
           at : Nat, force : BOOLEAN, turn : Turns]

\* Type invariant: every variable ranges over its values, a queue object drains
\* exactly while its drain loop is alive, and the reply operation's owner is
\* the drain whose turn runs.
TypeOK ==
    /\ registered \in QueueIds \cup {NoQueue}
    /\ queue \in [QueueIds -> QueueStates]
    /\ drain \in [QueueIds -> Drains]
    /\ owner \in QueueIds \cup {NoOwner, MainTurn}
    /\ recent \subseteq Messages /\ aborted \subseteq Abortable
    /\ accepted \in [Messages -> Nat] /\ answered \in [Messages -> Nat]
    /\ discarded \in [Messages -> Nat]
    /\ completed \subseteq RuntimeOnly
    /\ mainTurns \in Nat /\ failures \in Nat /\ stops \in Nat
    /\ \A q \in QueueIds : queue[q].draining <=> drain[q].pc # "idle"
    /\ \A q \in QueueIds : (owner = q) <=> Owns(q)

\* Whatever fails, defers, is stopped or arrives late: an accepted message is
\* still queued, or a turn with its prompt succeeded, or it was dropped by
\* policy, by its abort signal or by /stop.  (The in-flight entries stay in
\* the list until their turn is over, and are then taken off by position.)
NothingLost ==
    \A m \in Messages : accepted[m] <= answered[m] + discarded[m] + Occurrences(m)

\* No accepted message is answered twice, although the provider may deliver it
\* again, turns are retried, and the dedupe cache forgets it after a while.
NothingTwice == \A m \in Messages : answered[m] + Occurrences(m) <= accepted[m]

\* The lifecycle a channel attached to a queued message (a typing indicator, an
\* admission fence) is completed once the message is neither queued, nor in
\* flight, nor waiting to be summarised.
LifecyclesComplete ==
    \A m \in RuntimeOnly :
        accepted[m] > 0 =>
            \/ m \in completed
            \/ Occurrences(m) > 0
            \/ registered # NoQueue /\ m \in ToSet(queue[registered].summarySources)
            \/ \E q \in QueueIds : drain[q].pc # "idle" /\ m \in ToSet(drain[q].turn.carries)

\* A queue with entries is being drained, or a reply operation is active whose
\* end will start its drain: no entry waits for a wakeup that never comes.
QueuedWorkIsAwaited ==
    registered # NoQueue =>
        \/ queue[registered].items = <<>> \/ queue[registered].draining
        \/ owner # NoOwner

\* Messages share a turn only if their replies go to one place, their senders
\* have the same authorization, and none has runtime-only metadata.
TurnsDoNotMix ==
    \A q \in QueueIds : \A m, n \in ToSet(drain[q].turn.speaks) :
        m # n => /\ AuthOf[m] = AuthOf[n]
                 /\ {m, n} \cap RuntimeOnly = {}
                 /\ Unroutable \notin {RouteOf[m], RouteOf[n]}
                 /\ RouteOf[m] = RouteOf[n] \/ NoRoute \in {RouteOf[m], RouteOf[n]}

\* Every queued entry and every pending summary is worked off.
EventuallyDrained ==
    (registered # NoQueue /\ HasWork(queue[registered])) ~>
        (registered = NoQueue \/ ~HasWork(queue[registered]))

=============================================================================
