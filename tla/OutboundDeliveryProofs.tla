----------------------- MODULE OutboundDeliveryProofs -----------------------
(***************************************************************************)
(* Proofs about OutboundDelivery, for any deliveries, parts, channels and   *)
(* bounds.  The inductive invariant has four parts.  TInv is the type       *)
(* invariant, with a call or replay that sends within its parts.  Claims    *)
(* says who holds an entry.  Marks says that what the live call has shown   *)
(* is marked in the entry, and that an entry replayed without an answer of  *)
(* the adapter shows nothing of the live call.  Progress says that a call   *)
(* has shown the parts it has passed.                                       *)
(***************************************************************************)
EXTENDS OutboundDelivery, TLAPS

Row == [status : Statuses, retries : Nat, state : {"fresh", "started", "unknown"}]
Call == [pc : {"idle", "queued", "ready", "sending", "acking", "failing", "aborting", "ended",
              "aborted"},
         at : Nat, failed : BOOLEAN, marked : BOOLEAN]
Replay == [pc : {"idle", "reconciling", "ready", "sending", "failing", "rejected"},
           delivery : Deliveries \cup {NoDelivery}, at : Nat]

RowsTyped == row \in [Deliveries -> Row]
CallsTyped ==
    /\ live \in [Deliveries -> Call]
    /\ \A d \in Deliveries :
         /\ live[d].at \in 1..(Parts[d] + 1)
         /\ live[d].pc = "sending" => live[d].at <= Parts[d]
ReplaysTyped ==
    /\ replay \in [Recoverers -> Replay]
    /\ \A r \in Recoverers :
         /\ replay[r].pc = "idle" <=> replay[r].delivery = NoDelivery
         /\ replay[r].pc # "idle" => replay[r].at \in 1..(Parts[replay[r].delivery] + 1)
         /\ replay[r].pc = "sending" => replay[r].at <= Parts[replay[r].delivery]
ShownTyped == byLive \subseteq Cells /\ byReplay \subseteq Cells /\ twice \subseteq byReplay
RestTyped ==
    /\ claimed \subseteq Deliveries /\ unmarked \subseteq Deliveries
    /\ todo \in [Recoverers -> SUBSET Deliveries] /\ recovered \in BOOLEAN
    /\ crashes \in 0..MaxCrashes /\ faults \in 0..MaxFaults

TInv == RowsTyped /\ CallsTyped /\ ReplaysTyped /\ ShownTyped /\ RestTyped

LEMMA TypesTyped == TInv => TypeOK
  BY DEF TInv, TypeOK, RowsTyped, CallsTyped, ReplaysTyped, ShownTyped, RestTyped, Row, Call, Replay

LEMMA InitTyped == Init => TInv
  <1>. SUFFICES ASSUME Init PROVE TInv
    OBVIOUS
  <1>1. RowsTyped
    BY DEF Init, RowsTyped, NoRow, Row, Statuses
  <1>2. CallsTyped
    BY DeliveryAssumption DEF Init, CallsTyped, Call, NotCalled
  <1>3. ReplaysTyped
    BY DeliveryAssumption DEF Init, ReplaysTyped, Replay, NoReplay
  <1>4. ShownTyped
    BY DEF Init, ShownTyped
  <1>5. RestTyped
    <2>1. claimed = {} /\ unmarked = {} /\ recovered = FALSE
      BY DEF Init
    <2>2. todo \in [Recoverers -> SUBSET Deliveries]
      BY DEF Init
    <2>3. crashes \in 0..MaxCrashes /\ faults \in 0..MaxFaults
      BY BoundAssumption DEF Init
    <2>. QED
      BY <2>1, <2>2, <2>3 DEF RestTyped
  <1>. QED
    BY <1>1, <1>2, <1>3, <1>4, <1>5 DEF TInv

LEMMA WritesTyped ==
    ASSUME RowsTyped, NEW d \in Deliveries, NEW D \in SUBSET Deliveries,
           NEW state \in {"started", "unknown"}
    PROVE  /\ Bumped(D) \in [Deliveries -> Row]
           /\ Deleted(d) \in [Deliveries -> Row]
           /\ GivenUp(d) \in [Deliveries -> Row]
           /\ Marked(d, state) \in [Deliveries -> Row]
           /\ [row EXCEPT ![d].status = "pending"] \in [Deliveries -> Row]
  <1>. USE DEF RowsTyped, Row, Statuses
  <1>1. Bumped(D) \in [Deliveries -> Row]
    BY DEF Bumped
  <1>2. Deleted(d) \in [Deliveries -> Row]
    BY DEF Deleted, NoRow
  <1>3. GivenUp(d) \in [Deliveries -> Row]
    BY DEF GivenUp
  <1>4. Marked(d, state) \in [Deliveries -> Row]
    BY DEF Marked
  <1>. QED
    BY <1>1, <1>2, <1>3, <1>4

\* A write fails as a whole, and only finitely often.
LEMMA FaultsTyped == RestTyped /\ (Stores \/ Fails \/ UNCHANGED faults) => faults' \in 0..MaxFaults
  BY BoundAssumption DEF RestTyped, Stores, Fails

\* A call is changed to one of its type.
LEMMA CallTyped ==
    ASSUME CallsTyped, NEW d \in Deliveries, NEW c \in Call,
           c.at \in 1..(Parts[d] + 1), c.pc = "sending" => c.at <= Parts[d],
           live' = [live EXCEPT ![d] = c]
    PROVE  CallsTyped'
  BY DEF CallsTyped

LEMMA CallGoesOn ==
    ASSUME CallsTyped, NEW d \in Deliveries, 
           NEW pc \in {"queued", "ready", "failing", "aborting", "acking", "ended"},
           live' = [live EXCEPT ![d].pc = pc]
    PROVE  CallsTyped'
  BY DEF CallsTyped, Call

LEMMA EndedTyped ==
    ASSUME NEW how \in {"ended", "aborted"}
    PROVE  LET c == [NotCalled EXCEPT !.pc = how] IN c \in Call /\ c.pc = how /\ c.at = 1
  BY DEF NotCalled, Call

LEMMA CallEnds ==
    ASSUME CallsTyped, NEW d \in Deliveries, NEW how \in {"ended", "aborted"}, EndLive(d, how)
    PROVE  CallsTyped'
  <1>. DEFINE c == [NotCalled EXCEPT !.pc = how]
  <1>1. c \in Call /\ c.pc = how /\ c.at = 1
    BY EndedTyped
  <1>2. c.at \in 1..(Parts[d] + 1) /\ c.pc # "sending"
    BY <1>1, DeliveryAssumption
  <1>3. live' = [live EXCEPT ![d] = c]
    BY DEF EndLive
  <1>. HIDE DEF c
  <1>. QED
    BY <1>1, <1>2, <1>3, CallTyped

LEMMA NextPartTyped ==
    ASSUME NEW c \in Call, NEW failed \in BOOLEAN
    PROVE  NextPart(c, failed) \in Call
  <1>1. (c.failed \/ failed) \in BOOLEAN
    OBVIOUS
  <1>2. c.at + 1 \in Nat /\ c.marked \in BOOLEAN
    BY DEF Call
  <1>. QED
    BY <1>1, <1>2 DEF Call, NextPart

LEMMA CallMovesOn ==
    ASSUME CallsTyped, NEW d \in Deliveries, live[d].at <= Parts[d], NEW failed \in BOOLEAN,
           live' = [live EXCEPT ![d] = NextPart(@, failed)]
    PROVE  CallsTyped'
  <1>. DEFINE c == NextPart(live[d], failed)
  <1>1. live[d] \in Call /\ live[d].at \in 1..(Parts[d] + 1) /\ Parts[d] \in Nat
    BY DeliveryAssumption DEF CallsTyped
  <1>2. c \in Call
    BY <1>1, NextPartTyped
  <1>3. c.pc = "ready" /\ c.at = live[d].at + 1
    BY DEF NextPart
  <1>. HIDE DEF c
  <1>4. c.at \in 1..(Parts[d] + 1)
    BY <1>1, <1>3
  <1>5. live' = [live EXCEPT ![d] = c]
    BY DEF c
  <1>. QED
    BY <1>2, <1>3, <1>4, <1>5, CallTyped

LEMMA CallRefused ==
    ASSUME CallsTyped, NEW d \in Deliveries, live[d].at <= Parts[d],
           LiveFails(d, "failing") \/ LiveThrows(d)
    PROVE  CallsTyped'
  BY CallMovesOn, CallGoesOn DEF LiveFails, LiveThrows

LEMMA CallSends ==
    ASSUME CallsTyped, NEW d \in Deliveries, live[d].at <= Parts[d],
           \/ live' = [live EXCEPT ![d].pc = "sending"]
           \/ live' = [live EXCEPT ![d].pc = "sending", ![d].marked = TRUE]
    PROVE  CallsTyped'
  BY DEF CallsTyped, Call

LEMMA ReplayTyped ==
    ASSUME ReplaysTyped, NEW r \in Recoverers, NEW p \in Replay,
           p.pc = "idle" <=> p.delivery = NoDelivery,
           p.pc # "idle" => p.at \in 1..(Parts[p.delivery] + 1),
           p.pc = "sending" => p.at <= Parts[p.delivery],
           replay' = [replay EXCEPT ![r] = p]
    PROVE  ReplaysTyped'
  BY DEF ReplaysTyped

LEMMA ReplayGoesOn ==
    ASSUME ReplaysTyped, NEW r \in Recoverers, replay[r].pc # "idle",
           NEW pc \in {"ready", "sending", "failing", "rejected"},
           pc = "sending" => replay[r].at <= Parts[replay[r].delivery],
           replay' = [replay EXCEPT ![r].pc = pc]
    PROVE  ReplaysTyped'
  BY DEF ReplaysTyped, Replay

LEMMA ReplayReleased ==
    ASSUME ReplaysTyped, NEW r \in Recoverers, replay' = [replay EXCEPT ![r] = NoReplay]
    PROVE  ReplaysTyped'
  BY DEF ReplaysTyped, Replay, NoReplay

LEMMA ReplayMovesOn ==
    ASSUME ReplaysTyped, NEW r \in Recoverers, replay[r].pc = "sending", NextReplayPart(r)
    PROVE  ReplaysTyped'
  BY DeliveryAssumption DEF ReplaysTyped, Replay, NextReplayPart

LEMMA LiveCells ==
    ASSUME CallsTyped, NEW d \in Deliveries, live[d].pc = "sending"
    PROVE  <<d, live[d].at>> \in Cells
  BY DeliveryAssumption DEF CallsTyped, Call, Cells

LEMMA ReplayCells ==
    ASSUME ReplaysTyped, NEW r \in Recoverers, replay[r].pc = "sending"
    PROVE  <<replay[r].delivery, replay[r].at>> \in Cells
  BY DeliveryAssumption DEF ReplaysTyped, Replay, Cells

LEMMA TypeStep == TInv /\ [Next]_vars => TInv'
  <1>. SUFFICES ASSUME TInv, [Next]_vars PROVE TInv'
    OBVIOUS
  <1>. USE DEF TInv
  <1>r. /\ UNCHANGED row => RowsTyped'
        /\ \A d \in Deliveries, D \in SUBSET Deliveries, state \in {"started", "unknown"} :
             row' \in {row, Bumped(D), Deleted(d), GivenUp(d), Marked(d, state)} => RowsTyped'
    <2>1. UNCHANGED row => RowsTyped'
      BY DEF RowsTyped
    <2>2. ASSUME NEW d \in Deliveries, NEW D \in SUBSET Deliveries,
                 NEW state \in {"started", "unknown"},
                 row' \in {row, Bumped(D), Deleted(d), GivenUp(d), Marked(d, state)}
          PROVE  RowsTyped'
      <3>1. /\ row \in [Deliveries -> Row] /\ Bumped(D) \in [Deliveries -> Row]
            /\ Deleted(d) \in [Deliveries -> Row] /\ GivenUp(d) \in [Deliveries -> Row]
            /\ Marked(d, state) \in [Deliveries -> Row]
        BY WritesTyped, Zenon DEF RowsTyped
      <3>. QED
        BY <2>2, <3>1 DEF RowsTyped
    <2>. QED
      BY <2>1, <2>2
  <1>u. /\ UNCHANGED live => CallsTyped'
        /\ UNCHANGED replay => ReplaysTyped'
        /\ UNCHANGED shownVars => ShownTyped'
    BY DEF CallsTyped, ReplaysTyped, ShownTyped, Cells, shownVars
  <1>f. Stores \/ Fails \/ UNCHANGED stored => faults' \in 0..MaxFaults
    BY FaultsTyped DEF stored
  <1>1. ASSUME NEW d \in Deliveries, Enqueue(d)
        PROVE  TInv'
    <2>1. RowsTyped'
      BY <1>1, WritesTyped DEF Enqueue, RowsTyped, Fails
    <2>2. CallsTyped'
      BY <1>1, CallGoesOn DEF Enqueue
    <2>. QED
      BY <1>1, <2>1, <2>2, <1>u, <1>f DEF Enqueue, RestTyped
  <1>2. ASSUME NEW d \in Deliveries, LiveClaims(d)
        PROVE  TInv'
    <2>2. CallsTyped'
      BY <1>2, CallGoesOn DEF LiveClaims
    <2>. QED
      BY <1>2, <2>2, <1>u, <1>r, <1>f DEF LiveClaims, RestTyped, stored
  <1>3. ASSUME NEW d \in Deliveries, LiveSends(d)
        PROVE  TInv'
    <2>1. RowsTyped'
      BY <1>3, <1>r DEF LiveSends, stored, Fails
    <2>2. CallsTyped'
      BY <1>3, CallSends, CallRefused DEF LiveSends
    <2>. QED
      BY <1>3, <2>1, <2>2, <1>u, <1>f DEF LiveSends, RestTyped
  <1>4. ASSUME NEW d \in Deliveries, LiveAnswered(d)
        PROVE  TInv'
    <2>1. live[d].at <= Parts[d]
      BY <1>4 DEF LiveAnswered, CallsTyped
    <2>2. CallsTyped'
      BY <1>4, <2>1, CallMovesOn, CallRefused DEF LiveAnswered
    <2>3. ShownTyped'
      BY <1>4, LiveCells DEF LiveAnswered, ShownTyped, Cells
    <2>. QED
      BY <1>4, <2>2, <2>3, <1>u, <1>r, <1>f DEF LiveAnswered, RestTyped, stored
  <1>5. ASSUME NEW d \in Deliveries, LiveUnavailable(d)
        PROVE  TInv'
    <2>2. CallsTyped'
      BY <1>5, CallGoesOn DEF LiveUnavailable
    <2>. QED
      BY <1>5, <2>2, <1>u, <1>r, <1>f DEF LiveUnavailable, RestTyped, stored
  <1>6. ASSUME NEW d \in Deliveries, LiveReturns(d)
        PROVE  TInv'
    <2>1. RowsTyped'
      BY <1>6, <1>r DEF LiveReturns, stored, Fails
    <2>2. CallsTyped' /\ claimed' \subseteq Deliveries
      BY <1>6, CallGoesOn, CallEnds DEF LiveReturns, RestTyped, EndLive
    <2>. QED
      BY <1>6, <2>1, <2>2, <1>u, <1>f DEF LiveReturns, RestTyped
  <1>7. ASSUME NEW d \in Deliveries, LiveSettles(d)
        PROVE  TInv'
    <2>1. RowsTyped'
      BY <1>7, <1>r DEF LiveSettles, FailDelivery, Fails
    <2>2. CallsTyped' /\ claimed' \subseteq Deliveries
      <3>1. (IF live[d].pc = "aborting" THEN "aborted" ELSE "ended") \in {"ended", "aborted"}
        OBVIOUS
      <3>. QED
        BY <1>7, <3>1, CallEnds DEF LiveSettles, RestTyped, EndLive
    <2>. QED
      BY <1>7, <2>1, <2>2, <1>u, <1>f DEF LiveSettles, FailDelivery, RestTyped
  <1>8. ASSUME NEW d \in Deliveries, LiveRefuses(d)
        PROVE  TInv'
    <2>1. CallsTyped'
      BY <1>8, CallRefused DEF LiveRefuses
    <2>. QED
      BY <1>8, <2>1, <1>u, <1>r, <1>f DEF LiveRefuses, RestTyped, stored
  <1>9. ASSUME NEW r \in Recoverers, StartRound(r)
        PROVE  TInv'
    BY <1>9, <1>u, <1>r, <1>f DEF StartRound, RestTyped, stored
  <1>10. ASSUME NEW r \in Recoverers, NEW d \in Deliveries, PassOver(r, d)
         PROVE  TInv'
    BY <1>10, <1>u, <1>r, <1>f DEF PassOver, TakeOff, RestTyped, stored
  <1>11. ASSUME NEW r \in Recoverers, NEW d \in Deliveries, GiveUp(r, d)
         PROVE  TInv'
    <2>1. RowsTyped'
      BY <1>11, <1>r DEF GiveUp, Fails
    <2>2. todo' \in [Recoverers -> SUBSET Deliveries]
      BY <1>11 DEF GiveUp, TakeOff, RestTyped
    <2>. QED
      BY <1>11, <2>1, <2>2, <1>u, <1>f DEF GiveUp, RestTyped
  <1>12. ASSUME NEW r \in Recoverers, NEW d \in Deliveries, Begin(r, d)
         PROVE  TInv'
    <2>1. ReplaysTyped'
      BY <1>12, DeliveryAssumption DEF Begin, ReplaysTyped, Replay
    <2>2. todo' \in [Recoverers -> SUBSET Deliveries]
      BY <1>12 DEF Begin, TakeOff, RestTyped
    <2>. QED
      BY <1>12, <2>1, <2>2, <1>u, <1>r, <1>f DEF Begin, RestTyped, stored
  <1>13. ASSUME Defer
         PROVE  TInv'
    <2>1. RowsTyped'
      BY <1>13, <1>r, WritesTyped DEF Defer, RestTyped, Recoverers, RowsTyped
    <2>f. faults' \in 0..MaxFaults
      BY <1>13, <1>f, BoundAssumption DEF Defer, RestTyped
    <2>2. todo' \in [Recoverers -> SUBSET Deliveries]
      BY <1>13 DEF Defer, RestTyped
    <2>. QED
      BY <1>13, <2>1, <2>2, <2>f, <1>u DEF Defer, RestTyped
  <1>14. ASSUME NEW r \in Recoverers, ReplayStep(r)
         PROVE  TInv'
    <2>0. replay[r].pc # "idle" => replay[r].delivery \in Deliveries
      BY DEF ReplaysTyped, Replay
    <2>1. RowsTyped'
      BY <1>14, <2>0, <1>r
         DEF ReplayStep, Reconciled, ReplaySends, ReplayAnswered, ReplayUnavailable, ReplayReturns,
             ReplaySettles, FailDelivery, MoveToFailed, stored, Fails
    <2>2. ReplaysTyped'
      BY <1>14, ReplayGoesOn, ReplayReleased, ReplayMovesOn
         DEF ReplayStep, Reconciled, ReplaySends, ReplayAnswered, ReplayUnavailable, ReplayReturns,
             ReplaySettles, ReplayThrows, Goes, Release
    <2>3. ShownTyped'
      BY <1>14, <1>u, ReplayCells
         DEF ReplayStep, Reconciled, ReplaySends, ReplayAnswered, ReplayUnavailable, ReplayReturns,
             ReplaySettles, ShownByReplay, ShownTyped, Cells
    <2>4. claimed' \subseteq Deliveries /\ faults' \in 0..MaxFaults
      BY <1>14, <1>f
         DEF ReplayStep, Reconciled, ReplaySends, ReplayAnswered, ReplayUnavailable, ReplayReturns,
             ReplaySettles, Goes, Release, FailDelivery, MoveToFailed, RestTyped
    <2>. QED
      BY <1>14, <2>1, <2>2, <2>3, <2>4, <1>u
         DEF ReplayStep, Reconciled, ReplaySends, ReplayAnswered, ReplayUnavailable, ReplayReturns,
             ReplaySettles, RestTyped
  <1>15. ASSUME Crash
         PROVE  TInv'
    <2>1. CallsTyped'
      <3>. DEFINE c == [NotCalled EXCEPT !.pc = "ended"]
      <3>1. c \in Call /\ c.pc = "ended" /\ c.at = 1
        BY EndedTyped
      <3>2. live' = [d \in Deliveries |-> IF live[d].pc \in {"idle", "aborted"} THEN live[d] ELSE c]
        BY <1>15 DEF Crash
      <3>. HIDE DEF c
      <3>. QED
        BY <3>1, <3>2, DeliveryAssumption DEF CallsTyped
    <2>2. ReplaysTyped'
      BY <1>15 DEF Crash, ReplaysTyped, Replay, NoReplay
    <2>3. ShownTyped'
      BY <1>15, LiveCells, ReplayCells DEF Crash, ShownByReplay, ShownTyped
    <2>4. RowsTyped' /\ faults' \in 0..MaxFaults
      BY <1>15, <1>r, <1>f DEF Crash, stored
    <2>5. claimed' = {} /\ UNCHANGED unmarked /\ recovered' = FALSE
      BY <1>15 DEF Crash
    <2>6. todo' \in [Recoverers -> SUBSET Deliveries]
      BY <1>15 DEF Crash
    <2>7. crashes' \in 0..MaxCrashes
      BY <1>15, BoundAssumption DEF Crash, RestTyped
    <2>. QED
      BY <2>1, <2>2, <2>3, <2>4, <2>5, <2>6, <2>7 DEF RestTyped
  <1>16. CASE UNCHANGED vars
    BY <1>16, <1>u, <1>r, <1>f DEF vars, RestTyped, stored
  <1>. QED
    BY <1>1, <1>2, <1>3, <1>4, <1>5, <1>6, <1>7, <1>8, <1>9, <1>10, <1>11, <1>12, <1>13, <1>14,
       <1>15, <1>16 DEF Next, LiveStep, EntryStep

-----------------------------------------------------------------------------
(* Who holds an entry.                                                     *)

Calling == {"ready", "sending", "acking", "failing", "aborting"}

\* A live call that has an entry holds its claim, and so does a recoverer; the
\* entry of either is pending, no call of a recoverer's entry is under way, and
\* the recoverers hold different ones.  A call that has not begun has no entry.
Claims ==
    /\ \A d \in Deliveries :
         /\ live[d].pc = "idle" => row[d].status = "absent"
         /\ live[d].pc = "queued" => Pending(d)
         /\ live[d].pc \in Calling => row[d].status = "absent" \/ (Pending(d) /\ d \in claimed)
    /\ \A r \in Recoverers : replay[r].pc # "idle" =>
         /\ replay[r].delivery \in claimed /\ Pending(replay[r].delivery)
         /\ live[replay[r].delivery].pc \notin Calling
    /\ \A r, s \in Recoverers :
         replay[r].pc # "idle" /\ replay[r].delivery = replay[s].delivery => r = s

\* What the live call has shown, or may be showing, left its mark on the
\* entry: a later replay will ask the adapter first.
Exposed(d) == row[d].status \in {"absent", "acked"} \/ row[d].state # "fresh" \/ d \in unmarked
Silent(d, cells) == \A cell \in cells : cell[1] # d

Marks ==
    /\ \A d \in Deliveries :
         /\ live[d].pc = "idle" => Silent(d, byLive)
         /\ live[d].pc \in {"idle", "queued"} => ~live[d].marked
         /\ live[d].pc = "sending" \/ (live[d].pc \in Calling /\ live[d].marked) => Exposed(d)
         /\ live[d].pc \notin {"ended", "aborted"} => Silent(d, byReplay)
         /\ Silent(d, byLive) \/ Exposed(d)
    /\ \A r \in Recoverers : replay[r].pc \in {"ready", "sending"} =>
         replay[r].delivery \in unmarked \/ Silent(replay[r].delivery, byLive)
    /\ LiveSendNeverRepeated

\* An entry is deleted only when all its parts are visible or its call was
\* aborted.  A replay of a best-effort entry deletes it although all of its
\* parts failed.
AckedMeansShown(d) ==
    row[d].status = "acked" =>
        live[d].pc = "aborted" \/ \A p \in 1..Parts[d] : <<d, p>> \in Shown
NothingLost == \A d \in Deliveries \ BestEffort : AckedMeansShown(d)

\* A call, or a replay, has shown the parts it has passed, unless it is of a
\* best-effort delivery, whose call no error aborts.
CallShows(d) ==
    /\ live[d].pc \in {"idle", "queued"} => live[d].at = 1
    /\ d \in BestEffort => live[d].pc # "aborting"
    /\ d \notin BestEffort =>
         /\ live[d].pc \in {"ready", "sending", "acking"} =>
              \A p \in 1..Parts[d] : p < live[d].at => <<d, p>> \in byLive
         /\ live[d].pc = "acking" => live[d].at > Parts[d]
ReplayShows(r) ==
    /\ replay[r].pc = "reconciling" => replay[r].at = 1
    /\ replay[r].pc \in {"ready", "sending"} /\ replay[r].delivery \notin BestEffort =>
         \A p \in 1..Parts[replay[r].delivery] :
            p < replay[r].at => <<replay[r].delivery, p>> \in byReplay
Progress ==
    /\ \A d \in Deliveries : CallShows(d)
    /\ \A r \in Recoverers : ReplayShows(r)
    /\ NothingLost

IInv == TInv /\ Claims /\ Marks /\ Progress

LEMMA InitInv == Init => IInv
  <1>. SUFFICES ASSUME Init PROVE IInv
    OBVIOUS
  <1>1. Claims
    BY DEF Init, Claims, NoRow, NotCalled, NoReplay
  <1>2. Marks
    BY DEF Init, Marks, NoRow, NotCalled, NoReplay, Silent, LiveSendNeverRepeated
  <1>3. Progress
    BY DEF Init, Progress, CallShows, ReplayShows, NoRow, NotCalled, NoReplay, NothingLost, AckedMeansShown
  <1>. QED
    BY <1>1, <1>2, <1>3, InitTyped DEF IInv

\* What a write does to each entry.
LEMMA WriteEffects ==
    ASSUME RowsTyped, NEW d \in Deliveries, NEW D \in SUBSET Deliveries, NEW e \in Deliveries,
           NEW state \in {"started", "unknown"}
    PROVE  /\ Bumped(D)[e].status = row[e].status /\ Bumped(D)[e].state = row[e].state
           /\ Marked(d, state)[e].status = row[e].status
           /\ Marked(d, state)[e].state = IF e = d /\ Pending(d) THEN state ELSE row[e].state
           /\ GivenUp(d)[e].status = IF e = d /\ Pending(d) THEN "failed" ELSE row[e].status
           /\ GivenUp(d)[e].state = row[e].state
           /\ Deleted(d)[e].status = IF e = d /\ Pending(d) THEN "acked" ELSE row[e].status
           /\ e # d \/ ~Pending(d) => Deleted(d)[e] = row[e]
  <1>. USE DEF RowsTyped, Row
  <1>1. Bumped(D)[e].status = row[e].status /\ Bumped(D)[e].state = row[e].state
    BY DEF Bumped
  <1>2. Marked(d, state)[e].status = row[e].status
    BY DEF Marked
  <1>3. Marked(d, state)[e].state = IF e = d /\ Pending(d) THEN state ELSE row[e].state
    BY DEF Marked
  <1>4. /\ GivenUp(d)[e].status = IF e = d /\ Pending(d) THEN "failed" ELSE row[e].status
        /\ GivenUp(d)[e].state = row[e].state
    BY DEF GivenUp
  <1>5. /\ Deleted(d)[e].status = IF e = d /\ Pending(d) THEN "acked" ELSE row[e].status
        /\ e # d \/ ~Pending(d) => Deleted(d)[e] = row[e]
    BY DEF Deleted, NoRow
  <1>. QED
    BY <1>1, <1>2, <1>3, <1>4, <1>5

StatusesKept(D) == \A e \in D : row'[e].status = row[e].status

\* A write leaves the statuses alone, but for the entry it deletes or gives up.
LEMMA WritesKeepStatuses ==
    ASSUME RowsTyped, NEW d \in Deliveries
    PROVE  /\ UNCHANGED row \/ Fails => StatusesKept(Deliveries)
           /\ \A D \in SUBSET Deliveries : row' = Bumped(D) => StatusesKept(Deliveries)
           /\ \A state \in {"started", "unknown"} :
                row' = Marked(d, state) => StatusesKept(Deliveries)
           /\ row' = Deleted(d) \/ row' = GivenUp(d) => StatusesKept(Deliveries \ {d})
  <1>1. UNCHANGED row \/ Fails => StatusesKept(Deliveries)
    BY DEF Fails, StatusesKept
  <1>2. \A D \in SUBSET Deliveries : row' = Bumped(D) => StatusesKept(Deliveries)
    BY WriteEffects DEF StatusesKept
  <1>3. \A state \in {"started", "unknown"} : row' = Marked(d, state) => StatusesKept(Deliveries)
    BY WriteEffects DEF StatusesKept
  <1>4. row' = Deleted(d) \/ row' = GivenUp(d) => StatusesKept(Deliveries \ {d})
    <2>1. "started" \in {"started", "unknown"} /\ {} \in SUBSET Deliveries
      OBVIOUS
    <2>. QED
      BY <2>1, WriteEffects DEF StatusesKept
  <1>. QED
    BY <1>1, <1>2, <1>3, <1>4

LEMMA KeptStatuses ==
    ASSUME TInv
    PROVE  /\ \A d \in Deliveries, D \in SUBSET Deliveries, state \in {"started", "unknown"} :
                row' \in {row, Bumped(D), Marked(d, state)} \/ Fails => StatusesKept(Deliveries)
           /\ \A d \in Deliveries :
                row' \in {row, Bumped({d}), Deleted(d), GivenUp(d)} \/ Fails =>
                  StatusesKept(Deliveries \ {d})
  <1>1. \A d \in Deliveries : {d} \in SUBSET Deliveries
    OBVIOUS
  <1>2. StatusesKept(Deliveries) => \A d \in Deliveries : StatusesKept(Deliveries \ {d})
    BY DEF StatusesKept
  <1>. QED
    BY <1>1, <1>2, WritesKeepStatuses DEF TInv

\* A call under way goes on.
LEMMA ClaimsOfCall ==
    ASSUME TInv, Claims, NEW d \in Deliveries, live[d].pc \in Calling,
           live' \in [Deliveries -> Call], live'[d].pc \in Calling,
           \A e \in Deliveries \ {d} : live'[e] = live[e],
           StatusesKept(Deliveries), UNCHANGED <<claimed, replay>>
    PROVE  Claims'
  BY DEF Claims, Calling, Pending, StatusesKept, TInv, ReplaysTyped, Replay

\* A call under way ends and gives its claim back.
LEMMA ClaimsOfEndedCall ==
    ASSUME TInv, Claims, NEW d \in Deliveries, live[d].pc \in Calling,
           NEW how \in {"ended", "aborted"}, EndLive(d, how),
           StatusesKept(Deliveries \ {d}), UNCHANGED replay
    PROVE  Claims'
  <1>1. live'[d].pc = how /\ \A e \in Deliveries \ {d} : live'[e] = live[e]
    BY EndedTyped DEF EndLive, TInv, CallsTyped
  <1>2. claimed' = claimed \ {d}
    BY DEF EndLive
  <1>. QED
    BY <1>1, <1>2 DEF Claims, Calling, Pending, StatusesKept, TInv, ReplaysTyped, Replay

\* A replay goes on with its entry.
LEMMA ClaimsOfReplay ==
    ASSUME TInv, Claims, NEW r \in Recoverers, replay[r].pc # "idle",
           replay'[r].delivery = replay[r].delivery,
           \A s \in Recoverers \ {r} : replay'[s] = replay[s],
           UNCHANGED <<row, claimed, live>>
    PROVE  Claims'
  BY DEF Claims, Calling, Pending, TInv, ReplaysTyped, Replay

\* A replay ends and gives its claim back, whatever becomes of its entry.
LEMMA ClaimsOfEndedReplay ==
    ASSUME TInv, Claims, Quiet, NEW r \in Recoverers, replay[r].pc # "idle", Release(r),
           StatusesKept(Deliveries \ {replay[r].delivery}), UNCHANGED live
    PROVE  Claims'
  <1>1. replay'[r].pc = "idle" /\ \A s \in Recoverers \ {r} : replay'[s] = replay[s]
    BY DEF Release, NoReplay, TInv, ReplaysTyped
  <1>2. claimed' = claimed \ {replay[r].delivery}
    BY DEF Release
  <1>3. replay[r].delivery \in Deliveries
    BY DEF TInv, ReplaysTyped, Replay
  <1>4. live[replay[r].delivery].pc \notin Calling \cup {"queued", "idle"}
    BY <1>3 DEF Quiet, Claims, Pending
  <1>5. \A d \in Deliveries :
          /\ live'[d].pc = "idle" => row'[d].status = "absent"
          /\ live'[d].pc = "queued" => Pending(d)'
          /\ live'[d].pc \in Calling => row'[d].status = "absent" \/ (Pending(d)' /\ d \in claimed')
    BY <1>2, <1>4 DEF Claims, Pending, StatusesKept, Calling
  <1>6. ASSUME NEW s \in Recoverers, replay'[s].pc # "idle"
        PROVE  /\ s # r /\ replay'[s] = replay[s] /\ replay[s].delivery \in Deliveries
               /\ replay[s].delivery # replay[r].delivery
    <2>1. s # r /\ replay'[s] = replay[s]
      BY <1>1, <1>6
    <2>2. replay[s].delivery \in Deliveries
      BY <2>1, <1>6 DEF TInv, ReplaysTyped, Replay
    <2>3. \A t \in Recoverers : replay[t].pc # "idle" /\ replay[t].delivery = replay[r].delivery => t = r
      BY DEF Claims
    <2>. QED
      BY <2>1, <2>2, <2>3, <1>6
  <1>7. \A s \in Recoverers : replay'[s].pc # "idle" =>
          /\ replay'[s].delivery \in claimed' /\ row'[replay'[s].delivery].status = "pending"
          /\ live'[replay'[s].delivery].pc \notin Calling
    BY <1>2, <1>6 DEF Claims, Pending, StatusesKept
  <1>8. \A s, t \in Recoverers :
          replay'[s].pc # "idle" /\ replay'[s].delivery = replay'[t].delivery => s = t
    <2>. SUFFICES ASSUME NEW s \in Recoverers, NEW t \in Recoverers,
                         replay'[s].pc # "idle", replay'[s].delivery = replay'[t].delivery
                  PROVE  s = t
      OBVIOUS
    <2>1. replay'[t].pc # "idle"
      <3>1. ReplaysTyped'
        BY ReplayReleased DEF Release, TInv
      <3>2. replay'[t].delivery \in Deliveries
        BY <1>6
      <3>. QED
        BY <3>1, <3>2, DeliveryAssumption DEF ReplaysTyped
    <2>. QED
      BY <2>1, <1>6 DEF Claims
  <1>. QED
    BY <1>5, <1>7, <1>8 DEF Claims, Pending

LEMMA ClaimsStep == IInv /\ [Next]_vars => Claims'
  <1>. SUFFICES ASSUME IInv, [Next]_vars PROVE Claims'
    OBVIOUS
  <1>. USE DEF IInv
  <1>t. CallsTyped' /\ ReplaysTyped'
    BY TypeStep DEF TInv
  <1>k. /\ \A d \in Deliveries, D \in SUBSET Deliveries, state \in {"started", "unknown"} :
             row' \in {row, Bumped(D), Marked(d, state)} \/ Fails => StatusesKept(Deliveries)
        /\ \A d \in Deliveries :
             row' \in {row, Bumped({d}), Deleted(d), GivenUp(d)} \/ Fails => StatusesKept(Deliveries \ {d})
    BY KeptStatuses
  <1>1. ASSUME NEW d \in Deliveries, Enqueue(d)
        PROVE  Claims'
    <2>1. /\ row[d].status = "absent" /\ UNCHANGED <<claimed, replay>>
          /\ StatusesKept(Deliveries \ {d})
          /\ \A e \in Deliveries \ {d} : live'[e] = live[e]
      BY <1>1 DEF Enqueue, Fails, Claims, StatusesKept, TInv, RowsTyped, CallsTyped
    <2>2. \/ live'[d].pc = "queued" /\ row'[d].status = "pending"
          \/ live'[d].pc \in {"ready", "ended"} /\ row'[d].status = "absent"
      BY <1>1, <2>1 DEF Enqueue, Fails, TInv, RowsTyped, CallsTyped, Row, Call
    <2>3. \A r \in Recoverers : replay[r].pc # "idle" => replay[r].delivery \in Deliveries \ {d}
      BY <2>1 DEF Claims, Pending, TInv, ReplaysTyped, Replay
    <2>. QED
      BY <2>1, <2>2, <2>3 DEF Claims, Calling, Pending, StatusesKept
  <1>2. ASSUME NEW d \in Deliveries, LiveClaims(d)
        PROVE  Claims'
    <2>. USE DEF Claims, Calling, Pending, TInv, CallsTyped, ReplaysTyped, Call, Replay, stored
    <2>1. CASE d \in claimed
      <3>1. live' = [live EXCEPT ![d].pc = "ended"] /\ UNCHANGED <<row, claimed, replay>>
        BY <1>2, <2>1 DEF LiveClaims
      <3>. QED
        BY <3>1
    <2>2. CASE d \notin claimed
      <3>1. /\ live' = [live EXCEPT ![d].pc = "ready"] /\ UNCHANGED <<row, replay>>
            /\ claimed' = claimed \cup {d} /\ live[d].pc = "queued"
        BY <1>2, <2>2 DEF LiveClaims
      <3>. QED
        BY <3>1, <2>2
    <2>. QED
      BY <2>1, <2>2
  <1>3. ASSUME NEW d \in Deliveries, LiveSends(d)
        PROVE  Claims'
    <2>1. StatusesKept(Deliveries)
      BY <1>3, <1>k DEF LiveSends, stored
    <2>2. live[d].pc \in Calling /\ UNCHANGED <<claimed, replay>>
      BY <1>3 DEF LiveSends, Calling
    <2>3. live'[d].pc \in Calling /\ \A e \in Deliveries \ {d} : live'[e] = live[e]
      BY <1>3 DEF LiveSends, LiveFails, NextPart, Calling, TInv, CallsTyped, Call
    <2>. QED
      BY <2>1, <2>2, <2>3, <1>t, ClaimsOfCall DEF CallsTyped
  <1>4. ASSUME NEW d \in Deliveries, LiveAnswered(d)
        PROVE  Claims'
    <2>1. StatusesKept(Deliveries)
      BY <1>4, <1>k DEF LiveAnswered, stored
    <2>2. live[d].pc \in Calling /\ UNCHANGED <<claimed, replay>>
      BY <1>4 DEF LiveAnswered, Calling
    <2>3. live'[d].pc \in Calling /\ \A e \in Deliveries \ {d} : live'[e] = live[e]
      BY <1>4 DEF LiveAnswered, LiveThrows, LiveFails, NextPart, Calling, TInv, CallsTyped, Call
    <2>. QED
      BY <2>1, <2>2, <2>3, <1>t, ClaimsOfCall DEF CallsTyped
  <1>5. ASSUME NEW d \in Deliveries, LiveUnavailable(d)
        PROVE  Claims'
    <2>1. StatusesKept(Deliveries)
      BY <1>5, <1>k DEF LiveUnavailable, stored
    <2>2. live[d].pc \in Calling /\ UNCHANGED <<claimed, replay>>
      BY <1>5 DEF LiveUnavailable, Calling
    <2>3. live'[d].pc \in Calling /\ \A e \in Deliveries \ {d} : live'[e] = live[e]
      BY <1>5 DEF LiveUnavailable, Calling, TInv, CallsTyped, Call
    <2>. QED
      BY <2>1, <2>2, <2>3, <1>t, ClaimsOfCall DEF CallsTyped
  <1>6. ASSUME NEW d \in Deliveries, LiveReturns(d)
        PROVE  Claims'
    <2>1. StatusesKept(Deliveries) /\ StatusesKept(Deliveries \ {d})
      BY <1>6, <1>k DEF LiveReturns, stored, StatusesKept
    <2>2. live[d].pc \in Calling /\ UNCHANGED replay
      BY <1>6 DEF LiveReturns, Calling
    <2>3. CASE EndLive(d, "ended")
      BY <2>1, <2>2, <2>3, ClaimsOfEndedCall
    <2>4. CASE ~EndLive(d, "ended")
      <3>1. UNCHANGED claimed
        BY <1>6, <2>4 DEF LiveReturns
      <3>2. live'[d].pc \in Calling /\ \A e \in Deliveries \ {d} : live'[e] = live[e]
        BY <1>6, <2>4 DEF LiveReturns, Calling, TInv, CallsTyped, Call
      <3>. QED
        BY <2>1, <2>2, <3>1, <3>2, <1>t, ClaimsOfCall DEF CallsTyped
    <2>. QED
      BY <2>3, <2>4
  <1>7. ASSUME NEW d \in Deliveries, LiveSettles(d)
        PROVE  Claims'
    <2>1. StatusesKept(Deliveries \ {d})
      BY <1>7, <1>k DEF LiveSettles, FailDelivery
    <2>2. /\ live[d].pc \in Calling /\ UNCHANGED replay
          /\ EndLive(d, "ended") \/ EndLive(d, "aborted")
      BY <1>7 DEF LiveSettles, Calling
    <2>. QED
      BY <2>1, <2>2, ClaimsOfEndedCall
  <1>8. ASSUME NEW d \in Deliveries, LiveRefuses(d)
        PROVE  Claims'
    <2>1. StatusesKept(Deliveries)
      BY <1>8, <1>k DEF LiveRefuses, stored
    <2>2. live[d].pc \in Calling /\ UNCHANGED <<claimed, replay>>
      BY <1>8 DEF LiveRefuses, Calling
    <2>3. live'[d].pc \in Calling /\ \A e \in Deliveries \ {d} : live'[e] = live[e]
      BY <1>8 DEF LiveRefuses, LiveThrows, LiveFails, NextPart, Calling, TInv, CallsTyped, Call
    <2>. QED
      BY <2>1, <2>2, <2>3, <1>t, ClaimsOfCall DEF CallsTyped
  <1>9. ASSUME NEW r \in Recoverers, StartRound(r)
        PROVE  Claims'
    BY <1>9 DEF StartRound, stored, Claims, Pending
  <1>10. ASSUME NEW r \in Recoverers, NEW d \in Deliveries, PassOver(r, d)
         PROVE  Claims'
    BY <1>10 DEF PassOver, stored, Claims, Pending
  <1>11. ASSUME NEW r \in Recoverers, NEW d \in Deliveries, Quiet, GiveUp(r, d)
         PROVE  Claims'
    <2>1. StatusesKept(Deliveries \ {d})
      BY <1>11, <1>k DEF GiveUp
    <2>2. d \notin claimed /\ Pending(d) /\ UNCHANGED <<claimed, live, replay>>
      BY <1>11 DEF GiveUp
    <2>3. live[d].pc \notin Calling \cup {"queued", "idle"}
      BY <1>11, <2>2 DEF Quiet, Claims, Pending
    <2>. QED
      BY <2>1, <2>2, <2>3 DEF Claims, Pending, StatusesKept, TInv, ReplaysTyped, Replay
  <1>12. ASSUME NEW r \in Recoverers, NEW d \in Deliveries, Begin(r, d)
         PROVE  Claims'
    BY <1>12, DeliveryAssumption
       DEF Begin, AtEntry, stored, Claims, Calling, Pending, TInv, ReplaysTyped, Replay
  <1>13. ASSUME Defer
         PROVE  Claims'
    <2>1. StatusesKept(Deliveries)
      BY <1>13, <1>k DEF Defer, TInv, RestTyped, Recoverers
    <2>. QED
      BY <1>13, <2>1 DEF Defer, Claims, Pending, StatusesKept, TInv, ReplaysTyped, Replay
  <1>14. ASSUME NEW r \in Recoverers, Quiet, ReplayStep(r)
         PROVE  Claims'
    <2>1. replay[r].pc # "idle" /\ UNCHANGED live
      BY <1>14 DEF ReplayStep, Reconciled, ReplaySends, ReplayAnswered, ReplayUnavailable, ReplayReturns,
                   ReplaySettles
    <2>2. CASE Release(r)
      <3>1. replay[r].delivery \in Deliveries
        BY <2>1 DEF TInv, ReplaysTyped, Replay
      <3>2. StatusesKept(Deliveries \ {replay[r].delivery})
        BY <1>14, <3>1, <1>k
           DEF ReplayStep, Reconciled, ReplaySends, ReplayAnswered, ReplayUnavailable, ReplayReturns,
               ReplaySettles, FailDelivery, MoveToFailed, stored
      <3>. QED
        BY <1>14, <2>1, <2>2, <3>2, ClaimsOfEndedReplay
    <2>3. CASE ~Release(r)
      <3>1. UNCHANGED <<row, claimed>>
        BY <1>14, <2>3
           DEF ReplayStep, Reconciled, ReplaySends, ReplayAnswered, ReplayUnavailable, ReplayReturns,
               ReplaySettles, Goes, Fails, stored
      <3>2. /\ replay'[r].delivery = replay[r].delivery
            /\ \A s \in Recoverers \ {r} : replay'[s] = replay[s]
        BY <1>14, <2>3
           DEF ReplayStep, Reconciled, ReplaySends, ReplayAnswered, ReplayUnavailable, ReplayReturns,
               ReplaySettles, Goes, ReplayThrows, NextReplayPart, TInv, ReplaysTyped, Replay
      <3>. QED
        BY <2>1, <3>1, <3>2, ClaimsOfReplay
    <2>. QED
      BY <2>2, <2>3
  <1>15. ASSUME Crash
         PROVE  Claims'
    BY <1>15, EndedTyped DEF Crash, Claims, Calling, Pending, NoReplay, stored
  <1>16. CASE UNCHANGED vars
    BY <1>16 DEF vars, stored, Claims, Pending
  <1>. QED
    BY <1>1, <1>2, <1>3, <1>4, <1>5, <1>6, <1>7, <1>8, <1>9, <1>10, <1>11, <1>12, <1>13, <1>14,
       <1>15, <1>16 DEF Next, LiveStep, EntryStep

-----------------------------------------------------------------------------
\* A step writes one of these, or enters a new delivery.
Written ==
    \/ UNCHANGED row
    \/ \E d \in Deliveries, D \in SUBSET Deliveries, state \in {"started", "unknown"} :
         row' \in {Bumped(D), Deleted(d), GivenUp(d), Marked(d, state)}

\* All steps but that.
Working ==
    \/ \E d \in Deliveries : LiveStep(d) \/ LiveRefuses(d)
    \/ \E r \in Recoverers : StartRound(r) \/ ReplayStep(r)
    \/ \E r \in Recoverers, d \in Deliveries : Begin(r, d) \/ EntryStep(r, d)
    \/ Defer \/ Crash \/ UNCHANGED vars

LEMMA StepWrites ==
    ASSUME TInv, Working
    PROVE  Written
  <1>w. /\ UNCHANGED row \/ Fails => Written
        /\ \A d \in Deliveries, state \in {"started", "unknown"} :
             row' \in {Bumped({d}), Deleted(d), GivenUp(d), Marked(d, state)} => Written
    <2>1. \A d \in Deliveries : {d} \in SUBSET Deliveries
      OBVIOUS
    <2>. QED
      BY <2>1 DEF Written, Fails
  <1>1. ASSUME NEW d \in Deliveries, LiveStep(d) \/ LiveRefuses(d)
        PROVE  Written
    BY <1>1, <1>w
       DEF LiveStep, LiveClaims, LiveSends, LiveAnswered, LiveUnavailable, LiveReturns, LiveSettles,
           LiveRefuses, FailDelivery, stored
  <1>2. ASSUME NEW r \in Recoverers, StartRound(r) \/ ReplayStep(r)
        PROVE  Written
    <2>1. replay[r].pc # "idle" => replay[r].delivery \in Deliveries
      BY DEF TInv, ReplaysTyped, Replay
    <2>. QED
      BY <1>2, <1>w, <2>1
         DEF StartRound, ReplayStep, Reconciled, ReplaySends, ReplayAnswered, ReplayUnavailable,
             ReplayReturns, ReplaySettles, FailDelivery, MoveToFailed, stored
  <1>3. ASSUME NEW r \in Recoverers, NEW d \in Deliveries, Begin(r, d) \/ EntryStep(r, d)
        PROVE  Written
    BY <1>3, <1>w DEF Begin, EntryStep, PassOver, GiveUp, stored
  <1>4. ASSUME Defer
        PROVE  Written
    <2>1. todo["startup"] \in SUBSET Deliveries /\ todo["startup"] # {}
      BY <1>4 DEF Defer, TInv, RestTyped, Recoverers
    <2>2. PICK d \in Deliveries : TRUE
      BY <2>1
    <2>3. PICK D \in SUBSET Deliveries : row' = Bumped(D)
      BY <1>4, <2>1 DEF Defer
    <2>. QED
      BY <2>2, <2>3 DEF Written
  <1>5. CASE Crash \/ UNCHANGED vars
    BY <1>5, <1>w DEF Crash, vars, stored
  <1>. QED
    BY <1>1, <1>2, <1>3, <1>4, <1>5 DEF Working

LEMMA WritesExpose ==
    ASSUME TInv, Working, unmarked \subseteq unmarked', NEW e \in Deliveries, Exposed(e)
    PROVE  Exposed(e)'
  <1>1. CASE UNCHANGED row
    BY <1>1 DEF Exposed
  <1>2. ASSUME NEW d \in Deliveries, NEW D \in SUBSET Deliveries, NEW state \in {"started", "unknown"},
               row' \in {Bumped(D), Deleted(d), GivenUp(d), Marked(d, state)}
        PROVE  Exposed(e)'
    <2>1. row'[e].state = row[e].state \/ row'[e].state = state \/ row'[e].status = "acked"
      BY <1>2, WriteEffects DEF TInv
    <2>2. row[e].status \in {"absent", "acked"} => row'[e].status = row[e].status
      BY <1>2, WriteEffects DEF TInv, Pending
    <2>. QED
      BY <2>1, <2>2 DEF Exposed
  <1>. QED
    BY <1>1, <1>2, StepWrites DEF Written

\* A call under way that shows nothing new goes on or ends.
LEMMA MarksOfCall ==
    ASSUME IInv, Working, NEW d \in Deliveries, live[d].pc \in Calling,
           \A e \in Deliveries \ {d} : live'[e] = live[e],
           UNCHANGED <<replay, shownVars>>, unmarked \subseteq unmarked',
           live'[d].pc \in Calling \cup {"ended", "aborted"},
           live'[d].pc = "sending" \/ (live'[d].pc \in Calling /\ live'[d].marked) =>
             \/ live[d].pc = "sending" \/ live[d].marked \/ Exposed(d)'
    PROVE  Marks'
  <1>. USE DEF IInv
  <1>1. \A e \in Deliveries : Exposed(e) => Exposed(e)'
    BY WritesExpose
  <1>2. live[d].pc = "sending" \/ live[d].marked => Exposed(d)
    BY DEF Marks
  <1>. QED
    BY <1>1, <1>2 DEF Marks, Silent, Calling, shownVars, LiveSendNeverRepeated

LEMMA MarksStep == IInv /\ [Next]_vars => Marks'
  <1>. SUFFICES ASSUME IInv, [Next]_vars PROVE Marks'
    OBVIOUS
  <1>. USE DEF IInv
  <1>e. Working /\ unmarked \subseteq unmarked' => \A d \in Deliveries : Exposed(d) => Exposed(d)'
    BY WritesExpose
  <1>1. ASSUME NEW d \in Deliveries, Enqueue(d)
        PROVE  Marks'
    <2>1. /\ live[d].pc = "idle" /\ row[d].status = "absent"
          /\ UNCHANGED <<replay, shownVars, unmarked>>
          /\ \A e \in Deliveries \ {d} : live'[e] = live[e] /\ row'[e] = row[e]
      BY <1>1 DEF Enqueue, Fails, Claims, TInv, RowsTyped, CallsTyped
    <2>2. /\ ~live'[d].marked
          /\ \/ live'[d].pc = "queued"
             \/ live'[d].pc \in {"ready", "ended"} /\ row'[d].status = "absent"
      BY <1>1, <2>1 DEF Enqueue, Fails, TInv, CallsTyped, Call, Marks
    <2>. QED
      BY <2>1, <2>2 DEF Marks, Exposed, Silent, Calling, shownVars, LiveSendNeverRepeated, TInv, CallsTyped
  <1>2. ASSUME NEW d \in Deliveries, LiveClaims(d)
        PROVE  Marks'
    <2>1. /\ live[d].pc = "queued" /\ UNCHANGED <<row, replay, shownVars, unmarked>>
          /\ \A e \in Deliveries \ {d} : live'[e] = live[e]
          /\ live'[d].marked = live[d].marked /\ live'[d].pc \in {"ended", "ready"}
      BY <1>2 DEF LiveClaims, stored, TInv, CallsTyped, Call
    <2>. QED
      BY <2>1 DEF Marks, Exposed, Silent, Calling, shownVars, LiveSendNeverRepeated
  <1>3. ASSUME NEW d \in Deliveries, LiveSends(d)
        PROVE  Marks'
    <2>1. live[d].pc \in Calling /\ UNCHANGED <<replay, shownVars>> /\ unmarked \subseteq unmarked'
      BY <1>3 DEF LiveSends, Calling
    <2>2. Working
      BY <1>3 DEF Working, LiveStep
    <2>3. live'[d].pc \in Calling /\ \A e \in Deliveries \ {d} : live'[e] = live[e]
      BY <1>3 DEF LiveSends, LiveFails, NextPart, Calling, TInv, CallsTyped, Call
    <2>4. \/ live[d].marked
          \/ row[d].status = "absent" /\ row' = row
          \/ Pending(d) /\ row' = Marked(d, "started")
          \/ d \in unmarked'
          \/ live'[d].pc # "sending" /\ live'[d].marked = live[d].marked
      BY <1>3 DEF LiveSends, LiveFails, NextPart, TInv, CallsTyped, Call, stored
    <2>5. Pending(d) /\ row' = Marked(d, "started") => row'[d].state = "started"
      BY WriteEffects DEF TInv
    <2>. QED
      BY <2>1, <2>2, <2>3, <2>4, <2>5, MarksOfCall DEF Exposed
  <1>4. ASSUME NEW d \in Deliveries, LiveAnswered(d)
        PROVE  Marks'
    <2>1. /\ live[d].pc = "sending" /\ UNCHANGED <<row, replay, byReplay, twice, unmarked>>
          /\ byLive \subseteq byLive' /\ byLive' \subseteq byLive \cup {<<d, live[d].at>>}
      BY <1>4 DEF LiveAnswered, stored
    <2>2. /\ live'[d].pc \in {"ready", "failing", "aborting"} /\ live'[d].marked = live[d].marked
          /\ \A e \in Deliveries \ {d} : live'[e] = live[e]
      BY <1>4 DEF LiveAnswered, LiveThrows, LiveFails, NextPart, TInv, CallsTyped, Call
    <2>3. /\ \A e \in Deliveries \ {d} : Silent(e, byLive) => Silent(e, byLive')
          /\ Exposed(d) /\ Silent(d, byReplay)
      BY <2>1 DEF Silent, Marks
    <2>4. \A e \in Deliveries : Exposed(e) => Exposed(e)'
      BY <2>1 DEF Exposed
    <2>5. \A r \in Recoverers : replay[r].pc # "idle" => replay[r].delivery \in Deliveries \ {d}
      BY <2>1 DEF Claims, Calling, TInv, ReplaysTyped, Replay
    <2>6. LiveSendNeverRepeated'
      BY <2>1, <2>3 DEF Marks, LiveSendNeverRepeated, Silent
    <2>. QED
      BY <2>1, <2>2, <2>3, <2>4, <2>5, <2>6 DEF Marks, Calling
  <1>5. ASSUME NEW d \in Deliveries, LiveUnavailable(d) \/ LiveReturns(d) \/ LiveSettles(d) \/ LiveRefuses(d)
        PROVE  Marks'
    <2>1. Working /\ UNCHANGED <<replay, shownVars, unmarked>> /\ live[d].pc \in Calling
      BY <1>5 DEF Working, LiveStep, LiveUnavailable, LiveReturns, LiveSettles, LiveRefuses, Calling
    <2>2. \/ EndLive(d, "ended") \/ EndLive(d, "aborted")
          \/ live' = [live EXCEPT ![d].pc = "failing"] \/ live' = [live EXCEPT ![d].pc = "acking"]
          \/ live' = [live EXCEPT ![d].pc = "aborting"]
          \/ live' = [live EXCEPT ![d] = NextPart(@, TRUE)]
      BY <1>5 DEF LiveUnavailable, LiveReturns, LiveSettles, LiveRefuses, LiveThrows, LiveFails
    <2>3. /\ \A e \in Deliveries \ {d} : live'[e] = live[e]
          /\ \/ live'[d].pc \in {"ended", "aborted"}
             \/ live'[d].pc \in Calling \ {"sending"} /\ live'[d].marked = live[d].marked
      BY <2>2, EndedTyped DEF EndLive, NextPart, Calling, TInv, CallsTyped, Call
    <2>. QED
      BY <2>1, <2>3, MarksOfCall DEF Calling
  <1>6. CASE \/ \E r \in Recoverers : StartRound(r)
             \/ \E r \in Recoverers, d \in Deliveries : EntryStep(r, d)
             \/ Defer
    <2>1. Working /\ UNCHANGED <<live, replay, shownVars, unmarked>>
      BY <1>6 DEF Working, EntryStep, StartRound, PassOver, GiveUp, Defer
    <2>. QED
      BY <2>1, <1>e DEF Marks, Calling, Silent, shownVars, LiveSendNeverRepeated
  <1>7. ASSUME NEW r \in Recoverers, NEW d \in Deliveries, Begin(r, d)
        PROVE  Marks'
    <2>1. UNCHANGED <<row, live, shownVars, unmarked>> /\ Pending(d)
      BY <1>7 DEF Begin, stored
    <2>2. /\ \A s \in Recoverers \ {r} : replay'[s] = replay[s]
          /\ replay'[r].delivery = d /\ (replay'[r].pc # "reconciling" => row[d].state = "fresh")
      BY <1>7 DEF Begin, TInv, ReplaysTyped
    <2>3. row[d].state = "fresh" => d \in unmarked \/ Silent(d, byLive)
      BY <2>1 DEF Marks, Exposed, Pending
    <2>. QED
      BY <2>1, <2>2, <2>3 DEF Marks, Exposed, Silent, shownVars, LiveSendNeverRepeated
  <1>8. ASSUME NEW r \in Recoverers, Quiet, ReplayStep(r)
        PROVE  Marks'
    <2>. DEFINE d == replay[r].delivery
    <2>1. Working /\ UNCHANGED <<live, byLive, unmarked>> /\ replay[r].pc # "idle"
      BY <1>8 DEF Working, ReplayStep, Reconciled, ReplaySends, ReplayAnswered, ReplayUnavailable,
                  ReplayReturns, ReplaySettles, shownVars
    <2>2. d \in Deliveries /\ Pending(d) /\ live[d].pc \notin Calling \cup {"idle", "queued"}
      BY <1>8, <2>1 DEF Claims, Pending, Quiet, TInv, ReplaysTyped, Replay
    <2>3. live[d].pc \in {"ended", "aborted"}
      BY <2>2 DEF Calling, TInv, CallsTyped, Call
    <2>4. byReplay' = byReplay \/ (replay[r].pc = "sending" /\ byReplay' \subseteq byReplay \cup {<<d, replay[r].at>>})
      BY <1>8 DEF ReplayStep, Reconciled, ReplaySends, ReplayAnswered, ReplayUnavailable,
                  ReplayReturns, ReplaySettles, ShownByReplay, shownVars
    <2>5. \A e \in Deliveries \ {d} : Silent(e, byReplay) => Silent(e, byReplay')
      BY <2>4 DEF Silent
    <2>6. LiveSendNeverRepeated'
      BY <2>1, <2>4 DEF Marks, LiveSendNeverRepeated, Silent
    <2>7. replay'[r].pc \in {"ready", "sending"} =>
            replay'[r].delivery = d /\ (d \in unmarked \/ Silent(d, byLive))
      <3>1. CASE Reconciled(r)
        <4>1. replay'[r].pc \in {"ready", "sending"} =>
                replay'[r].delivery = d /\ {<<d, p>> : p \in 1..Parts[d]} \cap Shown = {}
          BY <3>1 DEF Reconciled, Goes, Release, NoReplay, TInv, ReplaysTyped, Replay
        <4>2. {<<d, p>> : p \in 1..Parts[d]} \cap Shown = {} => Silent(d, byLive)
          BY DEF Silent, Shown, Cells, TInv, ShownTyped
        <4>. QED
          BY <4>1, <4>2
      <3>2. CASE ~Reconciled(r)
        <4>1. replay'[r].pc \in {"ready", "sending"} =>
                replay[r].pc \in {"ready", "sending"} /\ replay'[r].delivery = d
          BY <1>8, <3>2
             DEF ReplayStep, ReplaySends, ReplayAnswered, ReplayUnavailable, ReplayReturns, ReplaySettles,
                 Goes, Release, ReplayThrows, NextReplayPart, NoReplay, TInv, ReplaysTyped, Replay
        <4>. QED
          BY <4>1 DEF Marks
      <3>. QED
        BY <3>1, <3>2
    <2>8. \A s \in Recoverers \ {r} : replay'[s] = replay[s]
      BY <1>8
         DEF ReplayStep, Reconciled, ReplaySends, ReplayAnswered, ReplayUnavailable, ReplayReturns,
             ReplaySettles, Goes, Release, ReplayThrows, NextReplayPart, TInv, ReplaysTyped
    <2>. HIDE DEF d
    <2>. QED
      BY <2>1, <2>2, <2>3, <2>5, <2>6, <2>7, <2>8, <1>e DEF Marks, Calling
  <1>9. ASSUME Crash
        PROVE  Marks'
    <2>1. Working /\ UNCHANGED unmarked
      BY <1>9 DEF Working, Crash
    <2>2. \A r \in Recoverers : replay'[r].pc = "idle"
      BY <1>9 DEF Crash, NoReplay
    <2>3. \A d \in Deliveries :
            (live'[d] = live[d] /\ live[d].pc \in {"idle", "aborted"}) \/ live'[d].pc = "ended"
      BY <1>9, EndedTyped DEF Crash
    <2>4. \A cell \in byLive' : cell \in byLive \/ (cell[1] \in Deliveries /\ live[cell[1]].pc = "sending")
      BY <1>9 DEF Crash
    <2>5. \A cell \in byReplay' : cell \in byReplay \/
            \E r \in Recoverers : replay[r].pc = "sending" /\ cell[1] = replay[r].delivery
      BY <1>9 DEF Crash, ShownByReplay
    <2>6. \A r \in Recoverers : replay[r].pc = "sending" =>
            /\ replay[r].delivery \in Deliveries /\ live[replay[r].delivery].pc \notin {"idle", "sending"}
            /\ replay[r].delivery \in unmarked \/ Silent(replay[r].delivery, byLive)
      BY DEF Claims, Marks, Calling, Pending, TInv, ReplaysTyped, Replay
    <2>7. LiveSendNeverRepeated'
      <3>. SUFFICES ASSUME NEW cell \in byLive' \cap byReplay' PROVE cell[1] \in unmarked
        BY <2>1 DEF LiveSendNeverRepeated
      <3>1. CASE cell \in byLive
        BY <3>1, <2>5, <2>6 DEF Marks, LiveSendNeverRepeated, Silent
      <3>2. CASE cell \notin byLive
        <4>1. cell[1] \in Deliveries /\ live[cell[1]].pc = "sending"
          BY <3>2, <2>4
        <4>2. Silent(cell[1], byReplay)
          BY <4>1 DEF Marks
        <4>. QED
          BY <4>1, <4>2, <2>5, <2>6 DEF Silent
      <3>. QED
        BY <3>1, <3>2
    <2>8. \A d \in Deliveries : live'[d].pc \notin {"ended", "aborted"} =>
            /\ live'[d] = live[d] /\ live[d].pc = "idle"
            /\ Silent(d, byLive) /\ Silent(d, byReplay)
      BY <2>3 DEF Marks
    <2>9. \A d \in Deliveries : live[d].pc = "idle" /\ Silent(d, byLive) => Silent(d, byLive')
      BY <2>4 DEF Silent
    <2>10. \A d \in Deliveries : live[d].pc = "idle" /\ Silent(d, byReplay) => Silent(d, byReplay')
      BY <2>5, <2>6 DEF Silent
    <2>11. \A d \in Deliveries : Silent(d, byLive') \/ Exposed(d)'
      <3>. SUFFICES ASSUME NEW d \in Deliveries, ~Silent(d, byLive') PROVE Exposed(d)
        BY <2>1, <1>e
      <3>1. ~Silent(d, byLive) \/ live[d].pc = "sending"
        BY <2>4 DEF Silent
      <3>. QED
        BY <3>1 DEF Marks
    <2>. QED
      BY <2>2, <2>7, <2>8, <2>9, <2>10, <2>11 DEF Marks, Calling
  <1>10. CASE UNCHANGED vars
    BY <1>10 DEF vars, stored, shownVars, Marks, Exposed, Silent, Calling, LiveSendNeverRepeated
  <1>. QED
    BY <1>1, <1>2, <1>3, <1>4, <1>5, <1>6, <1>7, <1>8, <1>9, <1>10 DEF Next, LiveStep

-----------------------------------------------------------------------------
(* What is deleted has been shown.                                         *)

LEMMA ShownGrows == [Next]_vars => byLive \subseteq byLive' /\ byReplay \subseteq byReplay'
  BY DEF Next, LiveStep, EntryStep, ReplayStep, Enqueue, LiveClaims, LiveSends, LiveAnswered,
         LiveUnavailable, LiveReturns, LiveSettles, LiveRefuses, StartRound, PassOver, GiveUp, Begin, Defer,
         Reconciled, ReplaySends, ReplayAnswered, ReplayUnavailable, ReplayReturns, ReplaySettles,
         ShownByReplay, Crash, shownVars, vars

\* A step of another call, or of no call, leaves this one alone.
OthersCalls(d) == \A e \in Deliveries \ {d} : live'[e] = live[e]

LEMMA CallStepLocal ==
    ASSUME TInv, NEW d \in Deliveries, Enqueue(d) \/ LiveStep(d) \/ LiveRefuses(d)
    PROVE  OthersCalls(d) /\ live[d].pc \notin {"ended", "aborted"} /\ UNCHANGED replay
  BY DEF OthersCalls, Enqueue, LiveStep, LiveClaims, LiveSends, LiveAnswered, LiveUnavailable,
         LiveReturns, LiveSettles, LiveRefuses, LiveThrows, LiveFails, EndLive, TInv,
         CallsTyped

LEMMA RoundStepLocal ==
    ASSUME \/ \E r \in Recoverers : StartRound(r) \/ ReplayStep(r)
           \/ \E r \in Recoverers, d \in Deliveries : Begin(r, d) \/ EntryStep(r, d)
           \/ Defer \/ UNCHANGED vars
    PROVE  UNCHANGED <<live, byLive>>
  BY DEF StartRound, Begin, EntryStep, PassOver, GiveUp, Defer, ReplayStep, Reconciled, ReplaySends,
         ReplayAnswered, ReplayUnavailable, ReplayReturns, ReplaySettles, shownVars, vars

\* A call that was aborted stays so.
LEMMA AbortedStays ==
    ASSUME TInv, [Next]_vars, NEW d \in Deliveries, live[d].pc = "aborted"
    PROVE  live'[d].pc = "aborted"
  <1>1. ASSUME NEW e \in Deliveries, Enqueue(e) \/ LiveStep(e) \/ LiveRefuses(e)
        PROVE  live'[d] = live[d]
    BY <1>1, CallStepLocal DEF OthersCalls
  <1>2. CASE Crash
    BY <1>2 DEF Crash
  <1>. QED
    BY <1>1, <1>2, RoundStepLocal DEF Next

\* An entry is deleted by its call, after an AbortError, or when all its parts
\* are visible.
LEMMA DeletedWhenShown ==
    ASSUME IInv, [Next]_vars, NEW d \in Deliveries \ BestEffort,
           row[d].status # "acked", row'[d].status = "acked"
    PROVE  \/ LiveSettles(d) /\ live[d].pc = "aborting"
           \/ \A p \in 1..Parts[d] : <<d, p>> \in Shown'
  <1>. USE DEF IInv
  <1>g. Shown \subseteq Shown'
    BY ShownGrows DEF Shown
  <1>a. row[d].status # "acked" /\ row'[d].status = "acked"
    OBVIOUS
  <1>k. ~StatusesKept(Deliveries) /\ \A e \in Deliveries \ {d} : ~StatusesKept(Deliveries \ {e})
    BY <1>a DEF StatusesKept
  <1>1. ASSUME NEW e \in Deliveries, Enqueue(e)
        PROVE  FALSE
    BY <1>a, <1>1 DEF Enqueue, Fails, TInv, RowsTyped, Row
  <1>2. ASSUME NEW e \in Deliveries, LiveStep(e)
        PROVE  \/ LiveSettles(d) /\ live[d].pc = "aborting"
               \/ \A p \in 1..Parts[d] : <<d, p>> \in Shown'
    <2>1. LiveSettles(e)
      BY <1>2, <1>k, KeptStatuses
         DEF LiveStep, LiveClaims, LiveSends, LiveAnswered, LiveUnavailable, LiveReturns, stored
    <2>2. e = d
      BY <2>1, <1>k, KeptStatuses DEF LiveSettles, FailDelivery
    <2>3. live[d].pc \in {"acking", "aborting"}
      <3>1. {d} \in SUBSET Deliveries /\ "started" \in {"started", "unknown"}
        OBVIOUS
      <3>2. ~FailDelivery(d)
        BY <3>1, <1>k, KeptStatuses DEF FailDelivery
      <3>. QED
        BY <2>1, <2>2, <3>2 DEF LiveSettles
    <2>4. live[d].pc = "acking" => \A p \in 1..Parts[d] : p < live[d].at /\ <<d, p>> \in byLive
      BY DeliveryAssumption DEF Progress, CallShows, TInv, CallsTyped, Call
    <2>. QED
      BY <2>1, <2>2, <2>3, <2>4, <1>g DEF Shown
  <1>3. ASSUME NEW e \in Deliveries, LiveRefuses(e)
        PROVE  FALSE
    BY <1>3, <1>k, KeptStatuses DEF LiveRefuses, stored
  <1>4. ASSUME NEW r \in Recoverers, ReplayStep(r)
        PROVE  \A p \in 1..Parts[d] : <<d, p>> \in Shown'
    <2>1. /\ replay[r].pc # "idle" /\ replay[r].delivery \in Deliveries
          /\ {replay[r].delivery} \in SUBSET Deliveries
      BY <1>4
         DEF ReplayStep, Reconciled, ReplaySends, ReplayAnswered, ReplayUnavailable, ReplayReturns,
             ReplaySettles, TInv, ReplaysTyped, Replay
    <2>2. \/ Reconciled(r) /\ row' = Deleted(replay[r].delivery)
          \/ ReplayReturns(r) /\ row' = Deleted(replay[r].delivery)
          \/ row' = GivenUp(replay[r].delivery)
      BY <1>4, <2>1, <1>k, KeptStatuses
         DEF ReplayStep, Reconciled, ReplaySends, ReplayAnswered, ReplayUnavailable, ReplayReturns,
             ReplaySettles, FailDelivery, MoveToFailed, stored
    <2>3. replay[r].delivery = d
      BY <2>1, <2>2, <1>k, KeptStatuses
    <2>4. row' # GivenUp(d)
      BY <1>a, WriteEffects DEF TInv
    <2>5. CASE Reconciled(r) /\ row' = Deleted(d)
      <3>1. row' # row
        BY <1>k DEF StatusesKept
      <3>2. {<<d, p>> : p \in 1..Parts[d]} \subseteq Shown
        BY <2>3, <2>5, <3>1 DEF Reconciled, stored, Fails
      <3>. QED
        BY <3>2, <1>g
    <2>6. CASE ReplayReturns(r)
      <3>1. \A p \in 1..Parts[d] : p < replay[r].at /\ <<d, p>> \in byReplay
        BY <2>1, <2>3, <2>6, DeliveryAssumption DEF ReplayReturns, Progress, ReplayShows, TInv, ReplaysTyped, Replay
      <3>. QED
        BY <3>1, <1>g DEF Shown
    <2>. QED
      BY <2>2, <2>3, <2>4, <2>5, <2>6
  <1>5. ASSUME NEW r \in Recoverers, NEW e \in Deliveries, Begin(r, e) \/ EntryStep(r, e)
        PROVE  FALSE
    <2>1. row' = GivenUp(e)
      BY <1>5, <1>k, KeptStatuses DEF Begin, EntryStep, PassOver, GiveUp, stored
    <2>. QED
      BY <1>a, <2>1, WriteEffects DEF TInv
  <1>6. ASSUME Defer
        PROVE  FALSE
    BY <1>6, <1>k, KeptStatuses DEF Defer, TInv, RestTyped, Recoverers
  <1>7. CASE Crash \/ UNCHANGED vars \/ \E r \in Recoverers : StartRound(r)
    BY <1>7, <1>a DEF Crash, vars, StartRound, stored
  <1>. QED
    BY <1>1, <1>2, <1>3, <1>4, <1>5, <1>6, <1>7 DEF Next

LEMMA NothingLostStep == IInv /\ [Next]_vars => NothingLost'
  <1>. SUFFICES ASSUME IInv, [Next]_vars, NEW d \in Deliveries \ BestEffort, row'[d].status = "acked"
                PROVE  live'[d].pc = "aborted" \/ \A p \in 1..Parts[d] : <<d, p>> \in Shown'
    BY DEF NothingLost, AckedMeansShown
  <1>. USE DEF IInv
  <1>g. Shown \subseteq Shown'
    BY ShownGrows DEF Shown
  <1>1. CASE row[d].status = "acked"
    BY <1>1, <1>g, AbortedStays DEF Progress, NothingLost, AckedMeansShown
  <1>2. CASE row[d].status # "acked"
    <2>1. LiveSettles(d) /\ live[d].pc = "aborting" => live'[d].pc = "aborted"
      BY EndedTyped DEF LiveSettles, EndLive, TInv, CallsTyped
    <2>. QED
      BY <1>2, <2>1, DeletedWhenShown
  <1>. QED
    BY <1>1, <1>2

LEMMA CallShowsStep ==
    ASSUME IInv, [Next]_vars, NEW d \in Deliveries
    PROVE  CallShows(d)'
  <1>. USE DEF IInv
  <1>t. /\ live[d] \in Call /\ live[d].at \in Nat /\ Parts[d] \in Nat /\ CallShows(d)
        /\ live \in [Deliveries -> Call]
    BY DeliveryAssumption DEF TInv, CallsTyped, Call, Progress
  <1>g. byLive \subseteq byLive'
    BY ShownGrows
  <1>u. live'[d] = live[d] => CallShows(d)'
    BY <1>t, <1>g DEF CallShows
  <1>p. ASSUME live'[d].at = live[d].at, live'[d].pc \in {"ready", "sending"},
               live[d].pc \in {"idle", "queued", "ready", "sending", "acking"}
        PROVE  CallShows(d)'
    <2>1. \A p \in 1..Parts[d] : p < live[d].at => live[d].pc \in {"ready", "sending", "acking"}
      BY <1>t, <1>p DEF CallShows
    <2>. QED
      BY <1>p, <1>t, <1>g, <2>1 DEF CallShows
  <1>e. live'[d].pc \in {"failing", "ended", "aborted"} => CallShows(d)'
    BY DEF CallShows
  <1>f. ASSUME LiveFails(d, "failing") \/ LiveThrows(d)
        PROVE  CallShows(d)'
    <2>1. CASE d \in BestEffort
      <3>1. live'[d].pc = "ready"
        BY <1>f, <2>1, <1>t DEF LiveThrows, LiveFails, NextPart
      <3>. QED
        BY <2>1, <3>1 DEF CallShows
    <2>2. CASE d \notin BestEffort
      <3>1. live'[d].pc \in {"failing", "aborting"}
        BY <1>f, <2>2, <1>t DEF LiveThrows, LiveFails, Call
      <3>. QED
        BY <2>2, <3>1 DEF CallShows
    <2>. QED
      BY <2>1, <2>2
  <1>1. ASSUME Enqueue(d) \/ LiveClaims(d)
        PROVE  CallShows(d)'
    <2>1. live[d].pc \in {"idle", "queued"} /\ live'[d].at = live[d].at
          /\ live'[d].pc \in {"queued", "ready", "ended"}
      BY <1>1, <1>t DEF Enqueue, LiveClaims, Call
    <2>2. CASE live'[d].pc = "queued"
      BY <1>t, <2>1, <2>2 DEF CallShows
    <2>. QED
      BY <2>1, <2>2, <1>p, <1>e
  <1>2. ASSUME LiveSends(d)
        PROVE  CallShows(d)'
    <2>1. CASE ~LiveFails(d, "failing")
      <3>1. live'[d].pc = "sending" /\ live'[d].at = live[d].at /\ live[d].pc = "ready"
        BY <1>2, <2>1, <1>t DEF LiveSends, Call
      <3>. QED
        BY <3>1, <1>p
    <2>. QED
      BY <2>1, <1>f
  <1>3. ASSUME LiveAnswered(d)
        PROVE  CallShows(d)'
    <2>1. CASE d \in BestEffort
      <3>1. live'[d].pc = "ready"
        BY <1>3, <2>1, <1>t DEF LiveAnswered, LiveThrows, LiveFails, NextPart
      <3>. QED
        BY <2>1, <3>1 DEF CallShows
    <2>2. CASE LiveThrows(d)
      BY <2>2, <1>f
    <2>3. CASE d \notin BestEffort /\ ~LiveThrows(d)
      <3>1. /\ live'[d].pc = "ready" /\ live'[d].at = live[d].at + 1
            /\ live[d].pc = "sending" /\ <<d, live[d].at>> \in byLive'
        BY <1>3, <2>3, <1>t DEF LiveAnswered, NextPart
      <3>2. \A p \in 1..Parts[d] : p < live[d].at + 1 => p < live[d].at \/ p = live[d].at
        BY <1>t
      <3>3. \A p \in 1..Parts[d] : p < live[d].at => <<d, p>> \in byLive'
        BY <1>t, <1>g, <3>1, <2>3 DEF CallShows
      <3>. QED
        BY <3>1, <3>2, <3>3 DEF CallShows
    <2>. QED
      BY <2>1, <2>2, <2>3
  <1>4. ASSUME LiveReturns(d)
        PROVE  CallShows(d)'
    <2>1. live[d].pc = "ready" /\ live[d].at > Parts[d]
      BY <1>4 DEF LiveReturns
    <2>2. \/ live'[d].pc = "acking" /\ live'[d].at = live[d].at
          \/ live'[d].pc \in {"failing", "ended"}
      BY <1>4, <1>t, EndedTyped DEF LiveReturns, EndLive, Call
    <2>. QED
      BY <2>1, <2>2, <1>t, <1>g, <1>e DEF CallShows
  <1>5. ASSUME LiveUnavailable(d) \/ LiveSettles(d)
        PROVE  CallShows(d)'
    BY <1>5, <1>t, <1>e, EndedTyped DEF LiveUnavailable, LiveSettles, EndLive, Call
  <1>6. ASSUME LiveRefuses(d)
        PROVE  CallShows(d)'
    BY <1>6, <1>f DEF LiveRefuses
  <1>7. ASSUME NEW e \in Deliveries \ {d}, Enqueue(e) \/ LiveStep(e) \/ LiveRefuses(e)
        PROVE  CallShows(d)'
    BY <1>7, <1>u, CallStepLocal DEF OthersCalls
  <1>8. CASE Crash
    <2>1. live'[d] = live[d] \/ live'[d].pc = "ended"
      BY <1>8, EndedTyped DEF Crash
    <2>. QED
      BY <2>1, <1>u, <1>e
  <1>. QED
    BY <1>1, <1>2, <1>3, <1>4, <1>5, <1>6, <1>7, <1>8, <1>u, RoundStepLocal DEF Next, LiveStep

LEMMA ReplayShowsStep ==
    ASSUME IInv, [Next]_vars, NEW r \in Recoverers
    PROVE  ReplayShows(r)'
  <1>. USE DEF IInv
  <1>t. /\ replay[r] \in Replay /\ replay[r].at \in Nat /\ ReplayShows(r)
        /\ replay \in [Recoverers -> Replay]
    BY DEF TInv, ReplaysTyped, Replay, Progress
  <1>g. byReplay \subseteq byReplay'
    BY ShownGrows
  <1>u. replay'[r] = replay[r] => ReplayShows(r)'
    BY <1>t, <1>g DEF ReplayShows
  <1>e. replay'[r].pc \in {"idle", "failing", "rejected"} => ReplayShows(r)'
    BY DEF ReplayShows
  <1>0. ASSUME replay'[r].at = 1
        PROVE  ReplayShows(r)'
    BY <1>0 DEF ReplayShows
  <1>1. ASSUME NEW s \in Recoverers, ReplayStep(s), s # r
        PROVE  ReplayShows(r)'
    <2>1. replay'[r] = replay[r]
      BY <1>1
         DEF ReplayStep, Reconciled, ReplaySends, ReplayAnswered, ReplayUnavailable, ReplayReturns,
             ReplaySettles, Goes, Release, ReplayThrows, NextReplayPart, TInv, ReplaysTyped
    <2>. QED
      BY <2>1, <1>u
  <1>2. ASSUME Reconciled(r)
        PROVE  ReplayShows(r)'
    <2>1. replay'[r].pc \in {"idle", "failing", "rejected"} \/ replay'[r].at = 1
      BY <1>2, <1>t DEF Reconciled, Goes, Release, NoReplay, ReplayShows, Replay
    <2>. QED
      BY <2>1, <1>e, <1>0
  <1>3. ASSUME ReplaySends(r)
        PROVE  ReplayShows(r)'
    <2>1. /\ replay'[r].pc = "sending" /\ replay[r].pc = "ready"
          /\ replay'[r].at = replay[r].at /\ replay'[r].delivery = replay[r].delivery
      BY <1>3, <1>t DEF ReplaySends, Goes, Replay
    <2>. QED
      BY <2>1, <1>t, <1>g DEF ReplayShows
  <1>4. ASSUME ReplayAnswered(r)
        PROVE  ReplayShows(r)'
    <2>. DEFINE d == replay[r].delivery
    <2>1. CASE ~NextReplayPart(r)
      <3>1. replay'[r].pc \in {"failing", "rejected"}
        BY <1>4, <2>1, <1>t DEF ReplayAnswered, ReplayThrows, Replay
      <3>. QED
        BY <3>1, <1>e
    <2>2. CASE NextReplayPart(r)
      <3>1. /\ replay'[r].pc = "ready" /\ replay'[r].at = replay[r].at + 1
            /\ replay'[r].delivery = d /\ replay[r].pc = "sending"
        BY <1>4, <2>2, <1>t DEF ReplayAnswered, NextReplayPart, Replay
      <3>2. CASE d \in BestEffort
        BY <3>1, <3>2 DEF ReplayShows
      <3>3. CASE d \notin BestEffort
        <4>1. <<d, replay[r].at>> \in byReplay'
          <5>1. ~ReplayThrows(r)
            BY <3>1, <1>t DEF ReplayThrows, Replay
          <5>. QED
            BY <1>4, <3>3, <5>1 DEF ReplayAnswered, ShownByReplay
        <4>2. Parts[d] \in Nat
          BY <3>1, <1>t, DeliveryAssumption DEF TInv, ReplaysTyped, Replay
        <4>3. \A p \in 1..Parts[d] : p < replay[r].at + 1 => p < replay[r].at \/ p = replay[r].at
          BY <1>t, <4>2
        <4>4. \A p \in 1..Parts[d] : p < replay[r].at => <<d, p>> \in byReplay'
          BY <1>t, <1>g, <3>1, <3>3 DEF ReplayShows
        <4>. QED
          BY <3>1, <4>1, <4>3, <4>4 DEF ReplayShows
      <3>. QED
        BY <3>2, <3>3
    <2>. QED
      BY <2>1, <2>2
  <1>5. ASSUME ReplayUnavailable(r) \/ ReplayReturns(r) \/ ReplaySettles(r)
        PROVE  ReplayShows(r)'
    <2>1. replay'[r].pc \in {"idle", "failing", "rejected"}
      BY <1>5, <1>t
         DEF ReplayUnavailable, ReplayReturns, ReplaySettles, ReplayThrows, Goes, Release, NoReplay, Replay
    <2>. QED
      BY <2>1, <1>e
  <1>6. ASSUME NEW s \in Recoverers, NEW d \in Deliveries, Begin(s, d)
        PROVE  ReplayShows(r)'
    <2>1. replay'[r].at = 1 \/ replay'[r] = replay[r]
      BY <1>6, <1>t DEF Begin
    <2>. QED
      BY <2>1, <1>0, <1>u
  <1>7. CASE Crash
    BY <1>7, <1>e DEF Crash, NoReplay
  <1>8. CASE UNCHANGED replay
    BY <1>8, <1>u
  <1>9. ASSUME NEW d \in Deliveries, Enqueue(d) \/ LiveStep(d) \/ LiveRefuses(d)
        PROVE  UNCHANGED replay
    BY <1>9, CallStepLocal
  <1>. QED
    BY <1>1, <1>2, <1>3, <1>4, <1>5, <1>6, <1>7, <1>8, <1>9
       DEF Next, ReplayStep, EntryStep, PassOver, GiveUp, StartRound, Defer, vars

LEMMA InductiveInv == IInv /\ [Next]_vars => IInv'
  <1>. SUFFICES ASSUME IInv, [Next]_vars PROVE IInv'
    OBVIOUS
  <1>1. TInv'
    BY TypeStep DEF IInv
  <1>2. Claims' /\ Marks'
    BY ClaimsStep, MarksStep
  <1>3. Progress'
    BY CallShowsStep, ReplayShowsStep, NothingLostStep DEF Progress
  <1>. QED
    BY <1>1, <1>2, <1>3 DEF IInv

-----------------------------------------------------------------------------
(* What follows for every run.                                             *)

LEMMA AlwaysIInv == Spec => []IInv
  BY InitInv, InductiveInv, PTL DEF Spec

\* The variables keep their types, a call and a replay stay within their parts
\* and a recoverer has an entry exactly while it works (TypeOK), whatever the
\* deliveries, their parts, crashes and failing writes.
THEOREM TypeCorrect == Spec => []TypeOK
  <1>1. IInv => TypeOK
    BY TypesTyped DEF IInv
  <1>. QED
    BY <1>1, AlwaysIInv, PTL

\* entriesInProgress keeps the live call, the startup recovery and the drain
\* off each other's entries (OneSender): a claim is never lost while its holder
\* works, because only the holder gives it back.
THEOREM AlwaysOneSender == Spec => []OneSender
  <1>1. IInv => OneSender
    <2>. SUFFICES ASSUME IInv, NEW d \in Deliveries
                  PROVE  /\ ~(LiveHolds(d) /\ \E r \in Recoverers : Handles(r, d))
                         /\ ~(Handles("startup", d) /\ Handles("drain", d))
      BY DEF OneSender
    <2>1. \A r \in Recoverers : Handles(r, d) => replay[r].pc # "idle"
      BY DeliveryAssumption DEF Handles, IInv, TInv, ReplaysTyped
    <2>2. LiveHolds(d) => live[d].pc \in Calling
      BY DEF LiveHolds, Calling
    <2>. QED
      BY <2>1, <2>2 DEF IInv, Claims, Handles, Recoverers
  <1>. QED
    BY <1>1, AlwaysIInv, PTL

\* What a live call showed no replay shows again, but for calls whose attempt
\* could not be marked (LiveSendNeverRepeated): markDeliveryPlatformSendAttemptStarted
\* comes before the first part, and no later write takes the mark away.
THEOREM NeverRepeated == Spec => []LiveSendNeverRepeated
  <1>1. IInv => LiveSendNeverRepeated
    BY DEF IInv, Marks
  <1>. QED
    BY <1>1, AlwaysIInv, PTL

\* ackDelivery deletes an entry only when all its parts are visible or its
\* caller aborted it, best-effort deliveries excepted (NothingLost).
THEOREM NeverLost == Spec => []NothingLost
  <1>1. IInv => NothingLost
    BY DEF IInv, Progress
  <1>. QED
    BY <1>1, AlwaysIInv, PTL

\* What a step shows is of a call, or of a replay, that is sending it.
LEMMA NewlyShown ==
    ASSUME [Next]_vars
    PROVE  /\ \A cell \in byLive' \ byLive :
                \E d \in Deliveries : live[d].pc = "sending" /\ cell[1] = d
           /\ \A cell \in (byReplay' \ byReplay) \cup (twice' \ twice) :
                \E r \in Recoverers : replay[r].pc = "sending" /\ cell[1] = replay[r].delivery
  <1>1. ASSUME NEW d \in Deliveries, LiveAnswered(d)
        PROVE  /\ live[d].pc = "sending" /\ byLive' \subseteq byLive \cup {<<d, live[d].at>>}
               /\ UNCHANGED <<byReplay, twice>>
    BY <1>1 DEF LiveAnswered
  <1>2. ASSUME NEW r \in Recoverers, ReplayAnswered(r)
        PROVE  /\ replay[r].pc = "sending" /\ UNCHANGED byLive
               /\ byReplay' \subseteq byReplay \cup {<<replay[r].delivery, replay[r].at>>}
               /\ twice' \subseteq twice \cup {<<replay[r].delivery, replay[r].at>>}
    BY <1>2 DEF ReplayAnswered, ShownByReplay
  <1>3. CASE Crash
    BY <1>3 DEF Crash, ShownByReplay
  <1>4. CASE \/ \E d \in Deliveries : LiveAnswered(d)
             \/ \E r \in Recoverers : ReplayAnswered(r)
    BY <1>4, <1>1, <1>2
  <1>5. CASE UNCHANGED shownVars
    BY <1>5 DEF shownVars
  <1>. QED
    BY <1>3, <1>4, <1>5
       DEF Next, LiveStep, EntryStep, ReplayStep, Enqueue, LiveClaims, LiveSends, LiveUnavailable,
           LiveReturns, LiveSettles, LiveRefuses, StartRound, PassOver, GiveUp, Begin, Defer, Reconciled,
           ReplaySends, ReplayUnavailable, ReplayReturns, ReplaySettles, vars

\* A write leaves every entry alone that is not pending.
LEMMA WritesPendingOnly ==
    ASSUME TInv, Written, NEW e \in Deliveries, ~Pending(e)
    PROVE  row'[e] = row[e]
  <1>1. ASSUME NEW d \in Deliveries, NEW D \in SUBSET Deliveries, NEW state \in {"started", "unknown"}
        PROVE  /\ Bumped(D)[e] = row[e] /\ Deleted(d)[e] = row[e]
               /\ GivenUp(d)[e] = row[e] /\ Marked(d, state)[e] = row[e]
    BY DEF Bumped, Deleted, GivenUp, Marked, TInv, RowsTyped
  <1>. QED
    BY <1>1 DEF Written

\* An entry that was deleted or given up is not written and not sent any more
\* (SettledIsFinal): whoever writes or sends holds a claim, and what is claimed
\* is pending, because a recoverer reads the entry again under its claim.
THEOREM AlwaysFinal == Spec => SettledIsFinal
  <1>1. ASSUME IInv, [Next]_vars, NEW d \in Deliveries, row[d].status \in {"acked", "failed"}
        PROVE  /\ row'[d] = row[d]
               /\ \A p \in 1..Parts[d] : <<d, p>> \in Shown' \/ <<d, p>> \in twice' =>
                    <<d, p>> \in Shown \/ <<d, p>> \in twice
    <2>1. live[d].pc # "sending" /\ live[d].pc # "idle"
      BY <1>1 DEF IInv, Claims, Calling, Pending
    <2>2. \A r \in Recoverers : replay[r].pc = "sending" => replay[r].delivery # d
      BY <1>1 DEF IInv, Claims, Pending
    <2>3. \A p \in 1..Parts[d] : <<d, p>> \in Shown' \/ <<d, p>> \in twice' =>
            <<d, p>> \in Shown \/ <<d, p>> \in twice
      BY <1>1, <2>1, <2>2, NewlyShown DEF Shown
    <2>4. ASSUME Working
          PROVE  row'[d] = row[d]
      BY <1>1, <2>4, StepWrites, WritesPendingOnly DEF IInv, Pending
    <2>5. ASSUME NEW e \in Deliveries, Enqueue(e)
          PROVE  row'[d] = row[d]
      <3>1. e # d
        BY <2>1, <2>5 DEF Enqueue
      <3>. QED
        BY <1>1, <2>5, <3>1 DEF Enqueue, Fails, IInv, TInv, RowsTyped
    <2>. QED
      BY <1>1, <2>3, <2>4, <2>5 DEF Next, Working
  <1>2. IInv /\ [Next]_vars =>
          [\A d \in Deliveries :
             row[d].status \in {"acked", "failed"} =>
                /\ row'[d] = row[d]
                /\ \A p \in 1..Parts[d] : <<d, p>> \in Shown' \/ <<d, p>> \in twice' =>
                     <<d, p>> \in Shown \/ <<d, p>> \in twice]_vars
    BY <1>1
  <1>. QED
    BY <1>2, AlwaysIInv, PTL DEF Spec, SettledIsFinal

-----------------------------------------------------------------------------
(* The queue keeps its promise (StoredDelivery).                           *)

\* Where a delivery stands, by its entry and its call.
PhaseRight(d) ==
    /\ row[d].status = "pending" => phase[d] = "stored"
    /\ row[d].status = "acked" => phase[d] = "removed"
    /\ row[d].status = "failed" => phase[d] = "givenUp"
    /\ row[d].status = "absent" =>
         /\ live[d].pc = "idle" => phase[d] = "new"
         /\ live[d].pc \in {"ended", "aborted"} => phase[d] = "over"
         /\ live[d].pc \in Calling => phase[d] = "direct"
    /\ d \in aborted <=> live[d].pc = "aborted"
    /\ seen[d] = {p \in 1..Parts[d] : <<d, p>> \in Shown}

LEMMA Phases ==
    ASSUME NEW d \in Deliveries
    PROVE  PhaseRight(d) /\ PhaseRight(d)'
  <1>1. phase[d] = PhaseOf(row[d].status, live[d].pc)
    BY DEF phase
  <1>2. phase'[d] = PhaseOf(row'[d].status, live'[d].pc)
    BY DEF phase
  <1>3. ASSUME NEW status, NEW pc
        PROVE  /\ status = "pending" => PhaseOf(status, pc) = "stored"
               /\ status = "acked" => PhaseOf(status, pc) = "removed"
               /\ status = "failed" => PhaseOf(status, pc) = "givenUp"
               /\ status = "absent" =>
                    /\ pc = "idle" => PhaseOf(status, pc) = "new"
                    /\ pc \in {"ended", "aborted"} => PhaseOf(status, pc) = "over"
                    /\ pc \in Calling => PhaseOf(status, pc) = "direct"
    BY DEF PhaseOf, Calling
  <1>4. (d \in aborted <=> live[d].pc = "aborted") /\ (d \in aborted' <=> live'[d].pc = "aborted")
    BY DEF aborted
  <1>5. seen[d] = {p \in 1..Parts[d] : <<d, p>> \in Shown}
    BY DEF seen
  <1>6. seen'[d] = {p \in 1..Parts[d] : <<d, p>> \in Shown'}
    BY DEF seen
  <1>. QED
    BY <1>1, <1>2, <1>3, <1>4, <1>5, <1>6 DEF PhaseRight

\* The steps that may show something.
LEMMA ShowingSteps ==
    ASSUME [Next]_vars
    PROVE  \/ UNCHANGED shownVars
           \/ \E d \in Deliveries : LiveAnswered(d)
           \/ \E r \in Recoverers : ReplayAnswered(r)
           \/ Crash
  BY DEF Next, LiveStep, EntryStep, ReplayStep, Enqueue, LiveClaims, LiveSends, LiveUnavailable,
         LiveReturns, LiveSettles, LiveRefuses, StartRound, PassOver, GiveUp, Begin, Defer, Reconciled,
         ReplaySends, ReplayUnavailable, ReplayReturns, ReplaySettles, vars

\* They write nothing.
LEMMA ShowingWritesNothing ==
    ASSUME [Next]_vars
    PROVE  UNCHANGED shownVars \/ UNCHANGED row
  BY ShowingSteps DEF LiveAnswered, ReplayAnswered, Crash, stored

\* What they show is the part a call or a replay has handed over.
LEMMA NewParts ==
    ASSUME [Next]_vars
    PROVE  /\ \A cell \in byLive' : cell \notin byLive =>
                \E d \in Deliveries : live[d].pc = "sending" /\ cell = <<d, live[d].at>>
           /\ \A cell \in byReplay' : cell \notin byReplay =>
                \E r \in Recoverers : /\ replay[r].pc = "sending"
                                      /\ cell = <<replay[r].delivery, replay[r].at>>
  <1>1. ASSUME NEW d \in Deliveries, LiveAnswered(d)
        PROVE  /\ live[d].pc = "sending" /\ byLive' \subseteq byLive \cup {<<d, live[d].at>>}
               /\ UNCHANGED byReplay
    BY <1>1 DEF LiveAnswered
  <1>2. ASSUME NEW r \in Recoverers, ReplayAnswered(r)
        PROVE  /\ replay[r].pc = "sending" /\ UNCHANGED byLive
               /\ byReplay' \subseteq byReplay \cup {<<replay[r].delivery, replay[r].at>>}
    BY <1>2 DEF ReplayAnswered, ShownByReplay
  <1>3. CASE Crash
    BY <1>3 DEF Crash, ShownByReplay
  <1>4. CASE UNCHANGED shownVars
    BY <1>4 DEF shownVars
  <1>. QED
    BY <1>1, <1>2, <1>3, <1>4, ShowingSteps

LEMMA OneMoreSeen ==
    ASSUME [Next]_vars, NEW d \in Deliveries, NEW p \in 1..Parts[d],
           \A q \in 1..Parts[d] : <<d, q>> \in Shown' => <<d, q>> \in Shown \/ q = p,
           d \in BestEffort \/ \A q \in 1..Parts[d] : q < p => <<d, q>> \in Shown
    PROVE  Promised!Sees(d)
  <1>0. /\ seen[d] = {q \in 1..Parts[d] : <<d, q>> \in Shown}
        /\ seen'[d] = {q \in 1..Parts[d] : <<d, q>> \in Shown'}
    BY Phases DEF PhaseRight
  <1>1. Shown \subseteq Shown'
    BY ShownGrows DEF Shown
  <1>2. CASE <<d, p>> \in Shown' /\ <<d, p>> \notin Shown
    <2>1. p \in (1..Parts[d]) \ seen[d] /\ seen'[d] = seen[d] \cup {p}
      BY <1>0, <1>1, <1>2
    <2>2. d \in BestEffort \/ \A q \in 1..Parts[d] : q < p => q \in seen[d]
      BY <1>0
    <2>. QED
      BY <2>1, <2>2 DEF Promised!Sees
  <1>3. CASE ~(<<d, p>> \in Shown' /\ <<d, p>> \notin Shown)
    <2>1. seen'[d] = seen[d]
      BY <1>0, <1>1, <1>3
    <2>. QED
      BY <2>1 DEF Promised!Sees, Promised!SameSeen
  <1>. QED
    BY <1>2, <1>3

\* Parts are seen one by one, in order and only while the delivery is under
\* way: whoever sends is alone with its entry, which is pending.
LEMMA SeesStep ==
    ASSUME IInv, [Next]_vars, NEW d \in Deliveries
    PROVE  /\ Promised!Sees(d)
           /\ Promised!SameSeen(d) \/ phase[d] \in {"stored", "direct"}
  <1>. USE DEF IInv
  <1>p. PhaseRight(d)
    BY Phases
  <1>1. CASE live[d].pc = "sending"
    <2>1. live[d].at \in 1..Parts[d]
      BY <1>1, DeliveryAssumption DEF TInv, CallsTyped
    <2>2. \A r \in Recoverers : ~(replay[r].pc = "sending" /\ replay[r].delivery = d)
      BY <1>1 DEF Claims, Calling
    <2>3. \A q \in 1..Parts[d] : <<d, q>> \in Shown' => <<d, q>> \in Shown \/ q = live[d].at
      BY <2>2, NewParts DEF Shown
    <2>4. d \in BestEffort \/ \A q \in 1..Parts[d] : q < live[d].at => <<d, q>> \in Shown
      BY <1>1 DEF Progress, CallShows, Shown
    <2>5. phase[d] \in {"stored", "direct"}
      BY <1>1, <1>p DEF Claims, Calling, Pending, PhaseRight
    <2>. QED
      BY <2>1, <2>3, <2>4, <2>5, OneMoreSeen
  <1>2. ASSUME NEW r \in Recoverers, replay[r].pc = "sending", replay[r].delivery = d
        PROVE  Promised!Sees(d) /\ phase[d] \in {"stored", "direct"}
    <2>1. replay[r].at \in 1..Parts[d]
      BY <1>2, DeliveryAssumption DEF TInv, ReplaysTyped
    <2>2. live[d].pc # "sending"
      BY <1>2 DEF Claims, Calling
    <2>3. \A s \in Recoverers : replay[s].pc = "sending" /\ replay[s].delivery = d => s = r
      BY <1>2 DEF Claims
    <2>4. \A q \in 1..Parts[d] : <<d, q>> \in Shown' => <<d, q>> \in Shown \/ q = replay[r].at
      BY <2>2, <2>3, NewParts DEF Shown
    <2>5. d \in BestEffort \/ \A q \in 1..Parts[d] : q < replay[r].at => <<d, q>> \in Shown
      BY <1>2 DEF Progress, ReplayShows, Shown
    <2>6. phase[d] = "stored"
      BY <1>2, <1>p DEF Claims, Pending, PhaseRight
    <2>. QED
      BY <2>1, <2>4, <2>5, <2>6, OneMoreSeen
  <1>3. CASE /\ live[d].pc # "sending"
             /\ \A r \in Recoverers : ~(replay[r].pc = "sending" /\ replay[r].delivery = d)
    <2>1. \A q \in 1..Parts[d] : <<d, q>> \in Shown' <=> <<d, q>> \in Shown
      BY <1>3, NewParts, ShownGrows DEF Shown
    <2>2. seen'[d] = seen[d]
      BY <2>1, Phases DEF PhaseRight
    <2>. QED
      BY <2>2 DEF Promised!Sees, Promised!SameSeen
  <1>. QED
    BY <1>1, <1>2, <1>3

\* An entry is entered once and, while it is pending, deleted or given up.
LEMMA StatusStep ==
    ASSUME IInv, [Next]_vars, NEW d \in Deliveries
    PROVE  \/ row'[d].status = row[d].status
           \/ Enqueue(d) /\ row[d].status = "absent" /\ row'[d].status = "pending"
           \/ Pending(d) /\ row'[d].status \in {"acked", "failed"}
  <1>. USE DEF IInv
  <1>1. CASE Working
    <2>1. CASE UNCHANGED row
      BY <2>1
    <2>2. ASSUME NEW e \in Deliveries, NEW D \in SUBSET Deliveries, NEW state \in {"started", "unknown"},
                 row' \in {Bumped(D), Deleted(e), GivenUp(e), Marked(e, state)}
          PROVE  row'[d].status = row[d].status \/ (Pending(d) /\ row'[d].status \in {"acked", "failed"})
      BY <2>2, WriteEffects DEF TInv
    <2>. QED
      BY <1>1, <2>1, <2>2, StepWrites DEF Written
  <1>2. ASSUME NEW e \in Deliveries, Enqueue(e)
        PROVE  \/ row'[d].status = row[d].status
               \/ Enqueue(d) /\ row[d].status = "absent" /\ row'[d].status = "pending"
    <2>1. CASE e = d
      BY <1>2, <2>1 DEF Enqueue, Fails, Claims, TInv, RowsTyped, Row
    <2>2. CASE e # d
      BY <1>2, <2>2 DEF Enqueue, Fails, TInv, RowsTyped
    <2>. QED
      BY <2>1, <2>2
  <1>. QED
    BY <1>1, <1>2 DEF Next, Working

\* How a call moves: it is aborted when it settles after an AbortError, and an
\* ended one stays so.
LEMMA CallStep ==
    ASSUME IInv, [Next]_vars, NEW d \in Deliveries
    PROVE  /\ live[d].pc = "aborted" => live'[d].pc = "aborted"
           /\ live'[d].pc = "aborted" => \/ live[d].pc = "aborted"
                                         \/ LiveSettles(d) /\ live[d].pc = "aborting"
           /\ live[d].pc = "idle" => live'[d].pc = "idle" \/ Enqueue(d)
           /\ live[d].pc = "ended" => live'[d].pc = "ended"
           /\ live[d].pc \in Calling => live'[d].pc \in Calling \cup {"ended", "aborted"}
  <1>. USE DEF IInv
  <1>0. live[d] \in Call /\ live \in [Deliveries -> Call]
    BY DEF TInv, CallsTyped
  <1>1. ASSUME NEW e \in Deliveries \ {d}, Enqueue(e) \/ LiveStep(e) \/ LiveRefuses(e)
        PROVE  live'[d] = live[d]
    BY <1>1, CallStepLocal DEF OthersCalls
  <1>2. CASE Crash
    BY <1>2 DEF Crash, NotCalled
  <1>3. CASE Enqueue(d)
    <2>1. live[d].pc = "idle"
      BY <1>3 DEF Enqueue
    <2>2. live'[d].pc \in {"queued", "ended", "ready"}
      BY <1>0, <1>3 DEF Enqueue, Call
    <2>. QED
      BY <1>3, <2>1, <2>2 DEF Calling
  <1>4. CASE LiveRefuses(d)
    <2>1. live[d].pc = "ready"
      BY <1>4 DEF LiveRefuses
    <2>2. live'[d].pc \in {"ready", "failing", "aborting"}
      BY <1>0, <1>4 DEF LiveRefuses, LiveThrows, LiveFails, NextPart, Call
    <2>. QED
      BY <1>4, <2>1, <2>2 DEF Calling
  <1>5. CASE LiveStep(d)
    <2>1. live[d].pc \in Calling \cup {"queued"}
      BY <1>5 DEF LiveStep, LiveClaims, LiveSends, LiveAnswered, LiveUnavailable, LiveReturns,
                  LiveSettles, Calling
    <2>2. CASE LiveClaims(d)
      BY <1>0, <2>2 DEF LiveClaims, Call, Calling
    <2>3. CASE LiveSends(d)
      BY <1>0, <2>3 DEF LiveSends, LiveFails, NextPart, Call, Calling
    <2>4. CASE LiveAnswered(d) \/ LiveUnavailable(d)
      BY <1>0, <2>4 DEF LiveAnswered, LiveUnavailable, LiveThrows, LiveFails, NextPart, Call,
                             Calling
    <2>5. CASE LiveReturns(d) \/ LiveSettles(d)
      BY <1>0, <2>5 DEF LiveReturns, LiveSettles, EndLive, NotCalled, Call, Calling
    <2>. QED
      BY <1>5, <2>1, <2>2, <2>3, <2>4, <2>5 DEF LiveStep, Calling
  <1>. QED
    BY <1>1, <1>2, <1>3, <1>4, <1>5, RoundStepLocal DEF Next, Calling

\* A step moves each delivery along an edge of StoredDelivery.
LEMMA DeliveryStep ==
    ASSUME IInv, [Next]_vars, NEW d \in Deliveries
    PROVE  \/ Promised!Stays(d) \/ Promised!Accepted(d) \/ Promised!GoesOn(d) \/ Promised!Ends(d)
           \/ Promised!Aborts(d) \/ Promised!Removed(d) \/ Promised!GivenUp(d)
  <1>. USE DEF IInv
  <1>p. PhaseRight(d) /\ PhaseRight(d)'
    BY Phases
  <1>t. live[d].pc \in {"idle", "queued", "ended", "aborted"} \cup Calling /\ row[d].status \in Statuses
    BY DEF TInv, CallsTyped, RowsTyped, Row, Call, Calling
  <1>c. /\ live[d].pc = "idle" => row[d].status = "absent"
        /\ live[d].pc = "queued" => row[d].status = "pending"
        /\ live[d].pc \in Calling => row[d].status \in {"absent", "pending"}
    BY DEF Claims, Pending
  <1>s. /\ Promised!Sees(d)
        /\ Promised!SameSeen(d) \/ phase[d] \in {"stored", "direct"}
        /\ UNCHANGED shownVars => Promised!SameSeen(d)
    <2>1. UNCHANGED shownVars => seen'[d] = seen[d]
      BY <1>p DEF PhaseRight, shownVars, Shown
    <2>. QED
      BY <2>1, SeesStep DEF Promised!SameSeen
  <1>1. CASE Enqueue(d)
    <2>1. live[d].pc = "idle" /\ row[d].status = "absent" /\ UNCHANGED shownVars
      BY <1>1, <1>c DEF Enqueue
    <2>2. \/ row'[d].status = "pending" /\ live'[d].pc = "queued"
          \/ row'[d].status = "absent" /\ live'[d].pc = IF d \in Required THEN "ended" ELSE "ready"
      BY <1>1, <2>1 DEF Enqueue, Fails, TInv, RowsTyped, Row, CallsTyped, Call
    <2>3. Promised!SameAborted(d)
      BY <1>p, <2>1, <2>2 DEF PhaseRight, Promised!SameAborted
    <2>4. /\ phase[d] = "new"
          /\ phase'[d] = "stored" \/ phase'[d] = (IF d \in Required THEN "over" ELSE "direct")
      BY <1>p, <2>1, <2>2 DEF PhaseRight, Calling
    <2>. QED
      BY <1>s, <2>1, <2>3, <2>4 DEF Promised!Accepted
  <1>2. CASE LiveSettles(d) /\ live[d].pc = "aborting"
    <2>1. live'[d].pc = "aborted" /\ UNCHANGED shownVars
      BY <1>2, EndedTyped DEF LiveSettles, EndLive, TInv, CallsTyped
    <2>2. d \notin BestEffort
      BY <1>2 DEF Progress, CallShows
    <2>3. row'[d].status = row[d].status \/ (Pending(d) /\ row'[d].status = "acked")
      <3>1. {d} \in SUBSET Deliveries /\ "started" \in {"started", "unknown"}
        OBVIOUS
      <3>. QED
        BY <1>2, <3>1, WriteEffects DEF LiveSettles, Fails, TInv
    <2>4. d \notin aborted /\ d \in aborted'
      BY <1>2, <1>p, <2>1 DEF PhaseRight
    <2>5. \/ phase[d] = "stored" /\ phase'[d] \in {"stored", "removed"}
          \/ phase[d] = "direct" /\ phase'[d] = "over"
      BY <1>2, <1>p, <1>c, <2>1, <2>3 DEF PhaseRight, Pending, Calling
    <2>. QED
      BY <1>s, <2>1, <2>2, <2>4, <2>5 DEF Promised!Aborts
  <1>3. CASE ~Enqueue(d) /\ ~(LiveSettles(d) /\ live[d].pc = "aborting")
    <2>1. live'[d].pc = "aborted" <=> live[d].pc = "aborted"
      BY <1>3, CallStep
    <2>w. Promised!SameAborted(d)
      BY <1>p, <2>1 DEF PhaseRight, Promised!SameAborted
    <2>2. CASE row'[d].status = row[d].status /\ row[d].status # "absent"
      <3>1. phase'[d] = phase[d]
        BY <1>p, <1>t, <2>2 DEF PhaseRight, Statuses
      <3>. QED
        BY <1>s, <2>w, <3>1 DEF Promised!Stays, Promised!GoesOn
    <2>3. CASE row'[d].status = "absent" /\ row[d].status = "absent"
      <3>1. CASE live[d].pc \in {"idle", "ended", "aborted"}
        <4>1. live'[d].pc = live[d].pc
          BY <1>3, <3>1, CallStep
        <4>2. phase'[d] = phase[d] /\ phase[d] \notin {"stored", "direct"}
          BY <1>p, <2>3, <3>1, <4>1 DEF PhaseRight
        <4>. QED
          BY <1>s, <2>w, <4>2 DEF Promised!Stays
      <3>2. CASE live[d].pc \in Calling
        <4>1. phase[d] = "direct" /\ phase'[d] \in {"direct", "over"}
          BY <1>p, <2>3, <3>2, CallStep DEF PhaseRight
        <4>. QED
          BY <1>s, <2>w, <4>1 DEF Promised!GoesOn, Promised!Ends
      <3>. QED
        BY <1>t, <1>c, <2>3, <3>1, <3>2
    <2>4. CASE Pending(d) /\ row'[d].status \in {"acked", "failed"}
      <3>1. UNCHANGED shownVars
        BY <2>4, ShowingWritesNothing DEF Pending
      <3>2. CASE row'[d].status = "failed"
        BY <1>p, <1>s, <2>4, <2>w, <3>1, <3>2 DEF PhaseRight, Pending, Promised!GivenUp
      <3>3. CASE row'[d].status = "acked"
        <4>1. d \in BestEffort \/ \A p \in 1..Parts[d] : <<d, p>> \in Shown'
          BY <1>3, <2>4, <3>3, DeletedWhenShown DEF Pending
        <4>3. d \in BestEffort \/ seen[d] = 1..Parts[d]
          BY <1>p, <3>1, <4>1 DEF PhaseRight, shownVars, Shown
        <4>4. phase[d] = "stored" /\ phase'[d] = "removed"
          BY <1>p, <2>4, <3>3 DEF PhaseRight, Pending
        <4>. QED
          BY <1>s, <2>w, <3>1, <4>3, <4>4 DEF Promised!Removed
      <3>. QED
        BY <2>4, <3>2, <3>3
    <2>. QED
      BY <1>3, <2>2, <2>3, <2>4, StatusStep
  <1>. QED
    BY <1>1, <1>2, <1>3

\* The queue implements what it promises (ImplementsStoredDelivery): whatever
\* crashes, fails or runs side by side, a stored delivery is removed only when
\* all its parts were seen or, once, when an AbortError (its caller's or the
\* platform's) ended its call, best-effort deliveries excepted, and its parts
\* are seen one by one, in order, and never after its end.
THEOREM RefinesStoredDelivery == Spec => ImplementsStoredDelivery
  <1>1. Init => Promised!Init
    <2>. SUFFICES ASSUME Init PROVE Promised!Init
      OBVIOUS
    <2>1. \A d \in Deliveries : phase[d] = "new" /\ seen[d] = {} /\ d \notin aborted
      BY Phases DEF PhaseRight, Init, NoRow, NotCalled, Shown
    <2>2. phase = [d \in Deliveries |-> "new"]
      BY <2>1 DEF phase
    <2>3. seen = [d \in Deliveries |-> {}]
      BY <2>1 DEF seen
    <2>4. aborted = {}
      BY <2>1 DEF aborted
    <2>. QED
      BY <2>2, <2>3, <2>4 DEF Promised!Init
  <1>2. IInv /\ [Next]_vars => Promised!Next
    <2>. SUFFICES ASSUME IInv, [Next]_vars PROVE Promised!Next
      OBVIOUS
    <2>1. DOMAIN phase' = Deliveries /\ DOMAIN seen' = Deliveries /\ aborted' \subseteq Deliveries
      BY DEF phase, seen, aborted
    <2>. QED
      BY <2>1, DeliveryStep DEF Promised!Next
  <1>. QED
    BY <1>1, <1>2, AlwaysIInv, PTL DEF Spec, ImplementsStoredDelivery, Promised!Spec

=============================================================================
