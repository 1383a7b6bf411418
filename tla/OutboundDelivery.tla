-------------------------- MODULE OutboundDelivery --------------------------
(***************************************************************************)
(* The write-ahead queue of outbound messages: the live path                *)
(* (src/src/infra/outbound/deliver.ts), the startup recovery and the        *)
(* reconnect or periodic drain (delivery-queue-recovery.ts) over the stored *)
(* rows (delivery-queue-storage.ts, delivery-queue-sqlite.ts).              *)
(*                                                                          *)
(* A delivery is one call of deliverOutboundPayloadsInternal.  Its parts    *)
(* are the payloads the hooks let through.  Rows survive a crash; claims,   *)
(* calls and rounds do not.  A part that was handed to the platform may     *)
(* have become visible whatever the call answers; one the adapter answers   *)
(* for is taken to be visible.  The adapter's reconcileUnknownSend is       *)
(* external and taken to be truthful.                                       *)
(* Time is left out: a backoff has elapsed or not, a budget is used up or   *)
(* not.  All drains are one account's, so they share one drainKey.          *)
(***************************************************************************)
EXTENDS Naturals, FiniteSets

CONSTANTS
    Deliveries,    \* calls made during a run
    Parts,         \* how many parts each delivery has
    BestEffort,    \* deliveries whose part errors are collected, not thrown
    Required,      \* deliveries with queuePolicy "required"
    Reconciles,    \* deliveries on a channel that can reconcile unknown sends
    NoDelivery,
    MaxRetries,    \* MAX_RETRIES
    MaxCrashes,    \* bound: crashes of the process
    MaxFaults      \* bound: storage writes that fail

ASSUME DeliveryAssumption ==
    /\ Parts \in [Deliveries -> Nat]
    /\ BestEffort \subseteq Deliveries /\ Required \subseteq Deliveries
    /\ Reconciles \subseteq Deliveries /\ NoDelivery \notin Deliveries
ASSUME BoundAssumption == MaxRetries \in Nat \ {0} /\ MaxCrashes \in Nat /\ MaxFaults \in Nat

VARIABLES
    row,        \* the stored entries; "acked" is a deleted one
    claimed,    \* entriesInProgress
    live,       \* the live call of each delivery
    replay,     \* the entry each recoverer works on
    todo,       \* what is left of each recoverer's snapshot of pending entries
    recovered,  \* the startup recovery of this boot was started
    byLive,     \* parts the live call made visible
    byReplay,   \* parts a replay made visible
    twice,      \* parts that several replays made visible
    unmarked,   \* live calls that sent although the attempt could not be marked
    crashes, faults

stored == <<row, faults>>
shownVars == <<byLive, byReplay, twice>>
vars == <<stored, claimed, live, replay, todo, recovered, shownVars, unmarked, crashes>>

Recoverers == {"startup", "drain"}
Statuses == {"absent", "pending", "acked", "failed"}
Cells == {cell \in Deliveries \X Nat : cell[2] \in 1..Parts[cell[1]]}
Shown == byLive \cup byReplay

TypeOK ==
    /\ row \in [Deliveries -> [status : Statuses, retries : Nat,
                               state : {"fresh", "started", "unknown"}]]
    /\ claimed \subseteq Deliveries
    /\ live \in [Deliveries -> [pc : {"idle", "queued", "ready", "sending", "acking", "failing",
                                      "aborting", "ended", "aborted"},
                                at : Nat, failed : BOOLEAN, marked : BOOLEAN]]
    /\ \A d \in Deliveries : live[d].at \in 1..(Parts[d] + 1)
    /\ replay \in [Recoverers -> [pc : {"idle", "reconciling", "ready", "sending", "failing",
                                        "rejected"},
                                  delivery : Deliveries \cup {NoDelivery}, at : Nat]]
    /\ \A r \in Recoverers :
         /\ replay[r].pc = "idle" <=> replay[r].delivery = NoDelivery
         /\ replay[r].pc # "idle" => replay[r].at \in 1..(Parts[replay[r].delivery] + 1)
    /\ todo \in [Recoverers -> SUBSET Deliveries]
    /\ recovered \in BOOLEAN
    /\ byLive \subseteq Cells /\ byReplay \subseteq Cells /\ twice \subseteq byReplay
    /\ unmarked \subseteq Deliveries
    /\ crashes \in 0..MaxCrashes /\ faults \in 0..MaxFaults

NoRow == [status |-> "absent", retries |-> 0, state |-> "fresh"]
NotCalled == [pc |-> "idle", at |-> 1, failed |-> FALSE, marked |-> FALSE]
NoReplay == [pc |-> "idle", delivery |-> NoDelivery, at |-> 1]

Init ==
    /\ row = [d \in Deliveries |-> NoRow]
    /\ claimed = {} /\ unmarked = {}
    /\ live = [d \in Deliveries |-> NotCalled]
    /\ replay = [r \in Recoverers |-> NoReplay]
    /\ todo = [r \in Recoverers |-> {}] /\ recovered = FALSE
    /\ byLive = {} /\ byReplay = {} /\ twice = {}
    /\ crashes = 0 /\ faults = 0

-----------------------------------------------------------------------------
(* Storage.  A write succeeds or fails as a whole; updates and moves apply  *)
(* to a pending entry only, a deletion of anything else does nothing.       *)

Pending(d) == row[d].status = "pending"
Stores == faults' = faults
Fails == faults < MaxFaults /\ faults' = faults + 1 /\ UNCHANGED row

\* failDelivery for each of D.
Bumped(D) == [d \in Deliveries |-> IF d \in D /\ Pending(d)
                                   THEN [row[d] EXCEPT !.retries = @ + 1] ELSE row[d]]
Deleted(d) == IF Pending(d) THEN [row EXCEPT ![d] = [NoRow EXCEPT !.status = "acked"]] ELSE row
GivenUp(d) == IF Pending(d) THEN [row EXCEPT ![d].status = "failed"] ELSE row
Marked(d, state) == IF Pending(d) THEN [row EXCEPT ![d].state = state] ELSE row

\* The callers of failDelivery and moveToFailed go on when the write fails.
FailDelivery(d) == (Stores /\ row' = Bumped({d})) \/ Fails
MoveToFailed(d) == (Stores /\ row' = GivenUp(d)) \/ Fails

-----------------------------------------------------------------------------
(* The live call. *)

EndLive(d, how) ==
    /\ live' = [live EXCEPT ![d] = [NotCalled EXCEPT !.pc = how]]
    /\ claimed' = claimed \ {d}

NextPart(call, failed) ==
    [pc |-> "ready", at |-> call.at + 1, failed |-> call.failed \/ failed, marked |-> call.marked]

\* enqueueDelivery.  Without a row a best-effort call sends directly.
Enqueue(d) ==
    /\ live[d].pc = "idle"
    /\ \/ /\ Stores
          /\ row' = [row EXCEPT ![d].status = "pending"]
          /\ live' = [live EXCEPT ![d].pc = "queued"]
       \/ /\ Fails
          /\ live' = [live EXCEPT ![d].pc = IF d \in Required THEN "ended" ELSE "ready"]
    /\ UNCHANGED <<claimed, replay, todo, recovered, shownVars, unmarked, crashes>>

\* Mutant of LiveClaims: a claim of somebody else is not looked at.
LiveClaimsAnyway(d) ==
    /\ live[d].pc = "queued"
    /\ live' = [live EXCEPT ![d].pc = "ready"] /\ claimed' = claimed \cup {d}
    /\ UNCHANGED <<stored, replay, todo, recovered, shownVars, unmarked, crashes>>

\* withActiveDeliveryClaim: a drain that was faster sends the message.
LiveClaims(d) ==
    /\ live[d].pc = "queued"
    /\ IF d \in claimed
       THEN live' = [live EXCEPT ![d].pc = "ended"] /\ UNCHANGED claimed
       ELSE live' = [live EXCEPT ![d].pc = "ready"] /\ claimed' = claimed \cup {d}
    /\ UNCHANGED <<stored, replay, todo, recovered, shownVars, unmarked, crashes>>

\* A part threw: a best-effort call notes it and goes on, any other ends with pc.
LiveFails(d, pc) == live' = [live EXCEPT ![d] = IF d \in BestEffort THEN NextPart(@, TRUE)
                                                ELSE [@ EXCEPT !.pc = pc]]

\* An AbortError, whoever threw it (throwIfAborted, a hook or the adapter in
\* the middle of a send), drops the entry; any other error keeps it.
LiveThrows(d) == \E pc \in {"failing", "aborting"} : LiveFails(d, pc)

\* Mutant of LiveSends: one part too many.
LiveSendsPast(d) ==
    /\ live[d].pc = "ready" /\ live[d].at <= Parts[d] + 1
    /\ live' = [live EXCEPT ![d].pc = "sending", ![d].marked = Pending(d)]
    /\ Stores /\ row' = Marked(d, "started")
    /\ UNCHANGED <<claimed, replay, todo, recovered, shownVars, unmarked, crashes>>

\* Mutant of LiveSends: the attempt is marked before the last part only.
LiveSendsMarkingLate(d) ==
    /\ live[d].pc = "ready" /\ live[d].at <= Parts[d]
    /\ live' = [live EXCEPT ![d].pc = "sending",
                            ![d].marked = Pending(d) /\ live[d].at = Parts[d]]
    /\ Stores
    /\ row' = IF live[d].at = Parts[d] THEN Marked(d, "started") ELSE row
    /\ UNCHANGED <<claimed, replay, todo, recovered, shownVars, unmarked, crashes>>

\* onPlatformSendStart marks the attempt once, then the part is handed over.
LiveSends(d) ==
    /\ live[d].pc = "ready" /\ live[d].at <= Parts[d]
    /\ \/ /\ live[d].marked \/ row[d].status = "absent"
          /\ live' = [live EXCEPT ![d].pc = "sending"]
          /\ UNCHANGED <<stored, unmarked>>
       \/ /\ ~live[d].marked /\ Pending(d)
          /\ Stores /\ row' = Marked(d, "started")
          /\ live' = [live EXCEPT ![d].pc = "sending", ![d].marked = TRUE]
          /\ UNCHANGED unmarked
       \/ /\ ~live[d].marked /\ row[d].status # "absent" /\ d \notin Required
          /\ Fails
          /\ live' = [live EXCEPT ![d].pc = "sending"]
          /\ unmarked' = unmarked \cup {d}
       \/ /\ ~live[d].marked /\ row[d].status # "absent" /\ d \in Required
          /\ Fails
          /\ LiveFails(d, "failing") /\ UNCHANGED unmarked
    /\ UNCHANGED <<claimed, replay, todo, recovered, shownVars, crashes>>

\* The adapter answers: the part is visible, or it threw and may be.
LiveAnswered(d) ==
    /\ live[d].pc = "sending"
    /\ \/ /\ live' = [live EXCEPT ![d] = NextPart(@, FALSE)]
          /\ byLive' = byLive \cup {<<d, live[d].at>>}
       \/ /\ LiveThrows(d)
          /\ \E arrived \in SUBSET {<<d, live[d].at>>} : byLive' = byLive \cup arrived
    /\ UNCHANGED <<stored, claimed, replay, todo, recovered, byReplay, twice, unmarked,
                   crashes>>

\* No handler for the channel: the core throws before the first part.
LiveUnavailable(d) ==
    /\ live[d].pc = "ready" /\ live[d].at = 1
    /\ live' = [live EXCEPT ![d].pc = "failing"]
    /\ UNCHANGED <<stored, claimed, replay, todo, recovered, shownVars, unmarked, crashes>>

\* Nothing of the part is handed over: the caller has aborted, or a hook, the
\* rendering or the adapter threw before that.
LiveRefuses(d) ==
    /\ live[d].pc = "ready" /\ live[d].at <= Parts[d]
    /\ LiveThrows(d)
    /\ UNCHANGED <<stored, claimed, replay, todo, recovered, shownVars, unmarked, crashes>>

\* The core returned, or the transcript mirror made it throw.
LiveReturns(d) ==
    /\ live[d].pc = "ready" /\ live[d].at > Parts[d]
    /\ \/ /\ live[d].failed
          /\ live' = [live EXCEPT ![d].pc = "failing"] /\ UNCHANGED <<stored, claimed>>
       \/ /\ ~live[d].failed /\ live[d].marked
          /\ Stores /\ row' = Marked(d, "unknown")
          /\ live' = [live EXCEPT ![d].pc = "acking"] /\ UNCHANGED claimed
       \/ /\ ~live[d].failed /\ live[d].marked
          /\ Fails
          /\ IF d \in Required THEN EndLive(d, "ended")
             ELSE live' = [live EXCEPT ![d].pc = "acking"] /\ UNCHANGED claimed
       \/ /\ ~live[d].failed /\ ~live[d].marked
          /\ live' = [live EXCEPT ![d].pc = "acking"] /\ UNCHANGED <<stored, claimed>>
       \/ /\ Parts[d] > 0
          /\ live' = [live EXCEPT ![d].pc = "failing"] /\ UNCHANGED <<stored, claimed>>
    /\ UNCHANGED <<replay, todo, recovered, shownVars, unmarked, crashes>>

\* ackDelivery, or failDelivery, at the end of the call.
LiveSettles(d) ==
    /\ \/ /\ live[d].pc \in {"acking", "aborting"}
          /\ (Stores /\ row' = Deleted(d)) \/ Fails
       \/ /\ live[d].pc = "failing"
          /\ FailDelivery(d)
    /\ EndLive(d, IF live[d].pc = "aborting" THEN "aborted" ELSE "ended")
    /\ UNCHANGED <<replay, todo, recovered, shownVars, unmarked, crashes>>

-----------------------------------------------------------------------------
(* Rounds of the startup recovery and of the drains. *)

\* The deadline check, claims and re-reads run without I/O between them, so
\* nothing but a claim falls between the row and the claim of a live call.
Quiet == \A d \in Deliveries : live[d].pc # "queued"

\* recoverPendingDeliveries once per boot, drainPendingDeliveries unless one
\* of the same key is under way.
StartRound(r) ==
    /\ todo[r] = {} /\ replay[r].pc = "idle"
    /\ r = "startup" => ~recovered
    /\ todo' = [todo EXCEPT ![r] = {d \in Deliveries : Pending(d)}]
    /\ recovered' = (recovered \/ r = "startup")
    /\ UNCHANGED <<stored, claimed, live, replay, shownVars, unmarked, crashes>>

AtEntry(r, d) == d \in todo[r] /\ replay[r].pc = "idle"
TakeOff(r, d) == todo' = [todo EXCEPT ![r] = @ \ {d}]

\* Claimed by somebody else, gone since the snapshot, or still backing off
\* (an entry that was never tried has no backoff).
PassOver(r, d) ==
    /\ AtEntry(r, d)
    /\ d \in claimed \/ ~Pending(d) \/ row[d].retries \in 1..(MaxRetries - 1)
    /\ TakeOff(r, d)
    /\ UNCHANGED <<stored, claimed, live, replay, recovered, shownVars, unmarked, crashes>>

\* MAX_RETRIES reached.  A write that fails ends the whole drain, not the
\* startup recovery.
GiveUp(r, d) ==
    /\ AtEntry(r, d)
    /\ d \notin claimed /\ Pending(d) /\ row[d].retries >= MaxRetries
    /\ \/ /\ Stores /\ row' = GivenUp(d) /\ TakeOff(r, d)
       \/ /\ Fails
          /\ IF r = "drain" THEN todo' = [todo EXCEPT ![r] = {}] ELSE TakeOff(r, d)
    /\ UNCHANGED <<claimed, live, replay, recovered, shownVars, unmarked, crashes>>

\* Mutant of Begin: the snapshot is trusted, the entry not read again.
BeginFromSnapshot(r, d) ==
    /\ AtEntry(r, d)
    /\ d \notin claimed /\ row[d].retries < MaxRetries
    /\ claimed' = claimed \cup {d} /\ TakeOff(r, d)
    /\ replay' = [replay EXCEPT ![r] =
         [pc |-> IF row[d].state = "fresh" THEN "ready" ELSE "reconciling", delivery |-> d, at |-> 1]]
    /\ UNCHANGED <<stored, live, recovered, shownVars, unmarked, crashes>>

\* The entry is claimed and read again; one that may have been sent is
\* reconciled first.
Begin(r, d) ==
    /\ AtEntry(r, d)
    /\ d \notin claimed /\ Pending(d) /\ row[d].retries < MaxRetries
    /\ claimed' = claimed \cup {d} /\ TakeOff(r, d)
    /\ replay' = [replay EXCEPT ![r] =
         [pc |-> IF row[d].state = "fresh" THEN "ready" ELSE "reconciling", delivery |-> d, at |-> 1]]
    /\ UNCHANGED <<stored, live, recovered, shownVars, unmarked, crashes>>

\* deferRemainingEntriesForBudget, whoever has claimed them; of its writes any
\* number may fail, one fault for all of them.
Defer ==
    /\ todo["startup"] # {} /\ replay["startup"].pc = "idle"
    /\ \/ Stores /\ row' = Bumped(todo["startup"])
       \/ /\ faults < MaxFaults /\ faults' = faults + 1
          /\ \E written \in SUBSET todo["startup"] : row' = Bumped(written)
    /\ todo' = [todo EXCEPT !["startup"] = {}]
    /\ UNCHANGED <<claimed, live, replay, recovered, shownVars, unmarked, crashes>>

\* Mutant of Release: the claim is not given back.
ReleaseKeepingClaim(r) ==
    /\ UNCHANGED claimed
    /\ replay' = [replay EXCEPT ![r] = NoReplay]

Release(r) ==
    /\ claimed' = claimed \ {replay[r].delivery}
    /\ replay' = [replay EXCEPT ![r] = NoReplay]
Goes(r, pc) == replay' = [replay EXCEPT ![r].pc = pc] /\ UNCHANGED claimed

\* Mutant of Reconciled: a channel that cannot tell gets the message again.
ReconciledBlindly(r) ==
    /\ replay[r].pc = "reconciling"
    /\ Goes(r, "ready") /\ UNCHANGED stored
    /\ UNCHANGED <<live, todo, recovered, shownVars, unmarked, crashes>>

\* The adapter's answer about an attempt that was marked.
Reconciled(r) ==
    LET d == replay[r].delivery
        parts == {<<d, p>> : p \in 1..Parts[d]} IN
    /\ replay[r].pc = "reconciling"
    /\ \/ /\ d \in Reconciles /\ parts \subseteq Shown             \* sent
          /\ \/ Stores /\ row' = Deleted(d) /\ Release(r)
             \/ Fails /\ Goes(r, "failing")
       \/ /\ d \in Reconciles /\ parts \cap Shown = {}              \* not_sent
          /\ Goes(r, "ready") /\ UNCHANGED stored
       \/ /\ d \in Reconciles                                       \* unresolved, retryable
          /\ Goes(r, "failing") /\ UNCHANGED stored
       \/ /\ Goes(r, "rejected") /\ UNCHANGED stored                \* unresolved, or cannot tell
    /\ UNCHANGED <<live, todo, recovered, shownVars, unmarked, crashes>>

\* A replay skips the queue: nothing marks the attempt.
ReplaySends(r) ==
    /\ replay[r].pc = "ready" /\ replay[r].at <= Parts[replay[r].delivery]
    /\ Goes(r, "sending")
    /\ UNCHANGED <<stored, live, todo, recovered, shownVars, unmarked, crashes>>

ShownByReplay(cells) ==
    /\ byReplay' = byReplay \cup cells
    /\ twice' = twice \cup (byReplay \cap cells)

NextReplayPart(r) == replay' = [replay EXCEPT ![r].pc = "ready", ![r].at = @ + 1]

\* A permanent error gives the entry up, any other is counted.
ReplayThrows(r) == \E pc \in {"failing", "rejected"} : replay' = [replay EXCEPT ![r].pc = pc]

\* An error of a best-effort part goes to onError, which a replay has none of.
ReplayAnswered(r) ==
    LET cell == <<replay[r].delivery, replay[r].at>> IN
    /\ replay[r].pc = "sending"
    /\ \/ NextReplayPart(r) /\ ShownByReplay({cell})
       \/ /\ IF replay[r].delivery \in BestEffort THEN NextReplayPart(r) ELSE ReplayThrows(r)
          /\ \E arrived \in SUBSET {cell} : ShownByReplay(arrived)
    /\ UNCHANGED <<stored, claimed, live, todo, recovered, byLive, unmarked, crashes>>

ReplayUnavailable(r) ==
    /\ replay[r].pc = "ready" /\ replay[r].at = 1
    /\ ReplayThrows(r)
    /\ UNCHANGED <<stored, claimed, live, todo, recovered, shownVars, unmarked, crashes>>

\* Mutant of ReplayReturns: the entry is deleted before the parts are sent.
ReplayReturnsEarly(r) ==
    LET d == replay[r].delivery IN
    /\ replay[r].pc = "ready"
    /\ Stores /\ row' = Deleted(d) /\ Release(r)
    /\ UNCHANGED <<live, todo, recovered, shownVars, unmarked, crashes>>

\* deliver returned and the entry is deleted.  When that fails, or the
\* transcript mirror throws, the replay counts as failed.
ReplayReturns(r) ==
    LET d == replay[r].delivery IN
    /\ replay[r].pc = "ready" /\ replay[r].at > Parts[d]
    /\ \/ Stores /\ row' = Deleted(d) /\ Release(r)
       \/ Fails /\ Goes(r, "failing")
       \/ Parts[d] > 0 /\ Goes(r, "failing") /\ UNCHANGED stored
    /\ UNCHANGED <<live, todo, recovered, shownVars, unmarked, crashes>>

ReplaySettles(r) ==
    LET d == replay[r].delivery IN
    /\ \/ replay[r].pc = "failing" /\ FailDelivery(d)
       \/ replay[r].pc = "rejected" /\ MoveToFailed(d)
    /\ Release(r)
    /\ UNCHANGED <<live, todo, recovered, shownVars, unmarked, crashes>>

\* The process dies; of what was in flight any part may have arrived.
Crash ==
    /\ crashes < MaxCrashes /\ crashes' = crashes + 1
    /\ \E arrived \in SUBSET {d \in Deliveries : live[d].pc = "sending"} :
         byLive' = byLive \cup {<<d, live[d].at>> : d \in arrived}
    /\ \E arrived \in SUBSET {r \in Recoverers : replay[r].pc = "sending"} :
         ShownByReplay({<<replay[r].delivery, replay[r].at>> : r \in arrived})
    /\ claimed' = {} /\ recovered' = FALSE
    /\ live' = [d \in Deliveries |-> IF live[d].pc \in {"idle", "aborted"} THEN live[d]
                                     ELSE [NotCalled EXCEPT !.pc = "ended"]]
    /\ replay' = [r \in Recoverers |-> NoReplay]
    /\ todo' = [r \in Recoverers |-> {}]
    /\ UNCHANGED <<stored, unmarked>>

-----------------------------------------------------------------------------
LiveStep(d) ==
    \/ LiveClaims(d) \/ LiveSends(d) \/ LiveAnswered(d) \/ LiveUnavailable(d)
    \/ LiveReturns(d) \/ LiveSettles(d)
EntryStep(r, d) == PassOver(r, d) \/ GiveUp(r, d)
ReplayStep(r) ==
    \/ Reconciled(r) \/ ReplaySends(r) \/ ReplayAnswered(r) \/ ReplayUnavailable(r)
    \/ ReplayReturns(r) \/ ReplaySettles(r)

Next ==
    \/ \E d \in Deliveries : Enqueue(d) \/ LiveStep(d) \/ LiveRefuses(d)
    \/ \E r \in Recoverers : StartRound(r)
    \/ \E r \in Recoverers, d \in Deliveries : Begin(r, d)
    \/ Quiet /\ \E r \in Recoverers, d \in Deliveries : EntryStep(r, d)
    \/ Quiet /\ \E r \in Recoverers : ReplayStep(r)
    \/ Quiet /\ Defer
    \/ Crash

Spec == Init /\ [][Next]_vars

\* Calls and rounds run on, adapters answer, a drain is started again and
\* again, and the backoff of an entry is over some time when a drain is at it.
Fairness ==
    /\ \A d \in Deliveries : WF_vars(LiveStep(d))
    /\ \A r \in Recoverers :
         /\ WF_vars(Quiet /\ ReplayStep(r))
         /\ WF_vars(\E d \in Deliveries : Begin(r, d) \/ (Quiet /\ EntryStep(r, d)))
    /\ WF_vars(StartRound("drain"))
    /\ \A d \in Deliveries : SF_vars(Begin("drain", d))

FairSpec == Spec /\ Fairness

-----------------------------------------------------------------------------
(* Properties. *)

Handles(r, d) == replay[r].delivery = d
LiveHolds(d) == live[d].pc \in {"ready", "sending", "acking", "failing", "aborting"}
               /\ row[d].status # "absent"

\* Nobody works on an entry somebody else works on: live call, startup
\* recovery and drain exclude each other through entriesInProgress.
OneSender ==
    \A d \in Deliveries :
      /\ ~(LiveHolds(d) /\ \E r \in Recoverers : Handles(r, d))
      /\ ~(Handles("startup", d) /\ Handles("drain", d))

\* What the live call made visible is never sent again, through crashes,
\* retries and concurrent rounds: the attempt is marked before the first
\* part, and a marked entry is replayed only after the adapter said not_sent.
\* (A best-effort call goes on when marking fails: those are excepted.)
LiveSendNeverRepeated == \A cell \in byLive \cap byReplay : cell[1] \in unmarked

\* Once an entry is deleted or given up, nothing of it is stored or sent any
\* more: no late failure revives it, no stale snapshot sends it again.
SettledIsFinal ==
    [][\A d \in Deliveries :
         row[d].status \in {"acked", "failed"} =>
            /\ row'[d] = row[d]
            /\ \A p \in 1..Parts[d] : <<d, p>> \in Shown' \/ <<d, p>> \in twice' =>
                 <<d, p>> \in Shown \/ <<d, p>> \in twice]_vars

\* Every entry is eventually delivered, aborted or given up.
EventuallySettled == \A d \in Deliveries : Pending(d) ~> ~Pending(d)

-----------------------------------------------------------------------------
(* What the queue promises (StoredDelivery).                               *)

PhaseOf(status, pc) ==
    CASE status = "pending" -> "stored"
      [] status = "acked" -> "removed"
      [] status = "failed" -> "givenUp"
      [] status = "absent" /\ pc = "idle" -> "new"
      [] status = "absent" /\ pc \in {"ended", "aborted"} -> "over"
      [] OTHER -> "direct"

phase == [d \in Deliveries |-> PhaseOf(row[d].status, live[d].pc)]
seen == [d \in Deliveries |-> {p \in 1..Parts[d] : <<d, p>> \in Shown}]
aborted == {d \in Deliveries : live[d].pc = "aborted"}

Promised == INSTANCE StoredDelivery WITH phase <- phase, seen <- seen, aborted <- aborted

\* Every step is one of StoredDelivery: through crashes, failing writes, retries
\* and rounds side by side a stored delivery is removed only when all its parts
\* are visible or its call was ended by an AbortError, its parts become visible
\* one by one and in order, and none once it is settled.  (Best-effort deliveries may lose
\* parts: a replay of one deletes the entry although all of its parts failed.)
ImplementsStoredDelivery == Promised!Spec
=============================================================================
