------------------------- MODULE FollowupQueueProofs -------------------------
(***************************************************************************)
(* Proofs about FollowupQueue, for any messages, queue objects, settings   *)
(* and bounds.                                                             *)
(*                                                                         *)
(* The parts of the invariant are stated for arbitrary values of the       *)
(* variables, so that one lemma about each piece of the drain loop's       *)
(* control flow (Schedule, Leave, Iterate, Dispatch, ...) serves every     *)
(* action that runs through it.                                            *)
(***************************************************************************)
EXTENDS FollowupQueue, FiniteSetTheorems, SequenceTheorems, TLAPS

-----------------------------------------------------------------------------
(* The invariant, part one: for all settings.                              *)

\* The entries of a batch may be answered in one place by one turn.
Batchable(batch) ==
    \A m, n \in ToSet(batch) :
        m # n => /\ {m, n} \cap RuntimeOnly = {}
                 /\ Unroutable \notin {RouteOf[m], RouteOf[n]}
                 /\ RouteOf[m] = RouteOf[n] \/ NoRoute \in {RouteOf[m], RouteOf[n]}

OneKey(group) == \A m, n \in ToSet(group) : AuthOf[m] = AuthOf[n]

Sweeping(d) == d.pc \in {"abortBefore", "abortAfter"}

\* What a turn carries may go together, and so may what is to come.
TurnSound(turn) ==
    /\ Batchable(turn.speaks) /\ OneKey(turn.speaks)
    /\ Batchable(turn.rest)

DrainSound(d) ==
    /\ Sweeping(d) => d.at # 0 /\ Len(d.turn.carries) = 1
    /\ TurnSound(d.turn)

\* One queue object, its drain, and whether the drain owns the reply operation.
ObjectSound(owns, rec, d) ==
    /\ rec.draining <=> d.pc # "idle"
    /\ owns <=> d.pc = "running"
    /\ DrainSound(d)

Sound(own, reg, qs, ds) ==
    /\ reg \in QueueIds \cup {NoQueue}
    /\ qs \in [QueueIds -> QueueStates]
    /\ ds \in [QueueIds -> Drains]
    /\ \A p \in QueueIds : ObjectSound(own = p, qs[p], ds[p])

-----------------------------------------------------------------------------
(* Part two: before the first /stop only the map's queue is drained.       *)

Alone(reg, ds) == \A p \in QueueIds : ds[p].pc # "idle" => p = reg

Attended(own, reg, qs) ==
    reg # NoQueue => qs[reg].items = <<>> \/ qs[reg].draining \/ own # NoOwner

-----------------------------------------------------------------------------
(* Part three: nothing is answered twice, whatever the settings.           *)

\* What a turn and the rest of its batch have yet to answer, in this order.
Due(turn) == turn.speaks \o turn.rest

\* When m is answered its entry is taken off as well, if not before: the end of
\* a turn takes off as many entries as it answered, from the front of the list.
Covered(m, due, items) ==
    \E x \in 1..Len(due), y \in 1..Len(items) : due[x] = m /\ items[y] = m /\ y <= x

\* m is yet to be answered, and that will not take its entry off.
Owes(m, due, items) == m \in ToSet(due) /\ ~Covered(m, due, items)

TurnTidy(d) ==
    /\ IsInjective(Due(d.turn))
    /\ Due(d.turn) = <<>> \/ d.turn.carries = d.turn.speaks
    /\ d.pc \in {"waiting", "running"} \/ Due(d.turn) = <<>>

ObjectTidy(rec, d) ==
    /\ IsInjective(rec.items)
    /\ TurnTidy(d)
    /\ rec.draining \/ Due(d.turn) = <<>>

Tidy(qs, ds) == \A p \in QueueIds : ObjectTidy(qs[p], ds[p])

Holds(m, rec) == m \in ToSet(rec.items)
Owed(m, rec, d) == Owes(m, Due(d.turn), rec.items)

Holding(m, qs) == {p \in QueueIds : Holds(m, qs[p])}
Owing(m, qs, ds) == {p \in QueueIds : Owed(m, qs[p], ds[p])}

\* Of the times m was accepted each is answered, queued or yet to be answered.
Counted(m, acc, ans, qs, ds) ==
    ans[m] + Cardinality(Holding(m, qs)) + Cardinality(Owing(m, qs, ds)) <= acc[m]

OnceOnly(acc, ans, qs, ds) ==
    /\ Tidy(qs, ds)
    /\ \A m \in Messages : Counted(m, acc, ans, qs, ds)

-----------------------------------------------------------------------------
(* Part four: every setting rejects what comes when the queue is full.     *)

RejectsWhenFull == \A s \in Settings : s.dropPolicy = "new"

\* The entries a turn has yet to answer come first in the list, in order.
Fits(turn, items) ==
    /\ Len(turn.speaks) + Len(turn.rest) <= Len(items)
    /\ \A i \in DOMAIN turn.speaks : items[i] = turn.speaks[i]
    /\ \A i \in DOMAIN turn.rest : items[Len(turn.speaks) + i] = turn.rest[i]

Pending(turn) == ToSet(turn.speaks) \cup ToSet(turn.rest)

Distinct(turn) == IsInjective(turn.speaks) /\ IsInjective(turn.rest)

\* Nothing is ever dropped or summarised.
RecExact(rec) ==
    /\ rec.dropPolicy = "new" /\ rec.droppedCount = 0 /\ rec.summarySources = <<>>
    /\ IsInjective(rec.items)

DrainExact(d) ==
    /\ ~d.turn.overflow
    /\ Distinct(d.turn)
    /\ IF d.pc \in {"waiting", "running"} THEN d.turn.carries = d.turn.speaks
       ELSE Pending(d.turn) = {}

\* The drain of the map's queue knows what is in front of its list.
InStep(rec, d) ==
    /\ Fits(d.turn, rec.items)
    /\ Sweeping(d) => d.at \in DOMAIN rec.items /\ rec.items[d.at] = Head(d.turn.carries)

\* A queue object, whether the map holds it, and its drain.
ObjectExact(held, rec, d) ==
    /\ RecExact(rec) /\ DrainExact(d)
    /\ held => InStep(rec, d)
    /\ ~held => rec.items = <<>>

Exact(reg, qs, ds) == \A p \in QueueIds : ObjectExact(p = reg, qs[p], ds[p])

Queued(reg, qs) == IF reg = NoQueue THEN <<>> ELSE qs[reg].items

Times(m, items) == IF m \in ToSet(items) THEN 1 ELSE 0

\* What became of m.
Booked(m, acc, ans, disc, comp, reg, qs, ds) ==
    /\ acc[m] <= ans[m] + disc[m] + Times(m, Queued(reg, qs))
    /\ m \in RuntimeOnly /\ acc[m] > 0 => m \in comp \/ m \in ToSet(Queued(reg, qs))

Balanced(acc, ans, disc, comp, reg, qs, ds) ==
    /\ Exact(reg, qs, ds)
    /\ \A m \in Messages : Booked(m, acc, ans, disc, comp, reg, qs, ds)

-----------------------------------------------------------------------------
(* Numbers and sequences.                                                  *)

LEMMA LeastElement ==
    ASSUME NEW n \in Nat, NEW T, T \subseteq 1..n, T # {}
    PROVE  \E x \in T : \A y \in T : x <= y
<1>. DEFINE F == {1..x : x \in T}
            R == StrictSubsetOrdering(1..n)
            W == FiniteSubsetsOf(1..n)
<1>1. IsWellFoundedOn(R, W)
  BY FS_StrictSubsetOrderingWellFounded
<1>2. F \subseteq W
  <2>. SUFFICES ASSUME NEW x \in T PROVE 1..x \in W
    OBVIOUS
  <2>1. x \in Int /\ 1..x \subseteq 1..n
    OBVIOUS
  <2>. QED
    BY <2>1, FS_Interval DEF FiniteSubsetsOf
<1>3. F # {}
  OBVIOUS
<1>. HIDE DEF R, W
<1>4. \E A \in F : \A B \in F : ~ (<<B, A>> \in R)
  <2>. HIDE DEF F
  <2>. QED
    BY <1>1, <1>2, <1>3, WFMin
<1>5. PICK x \in T : \A y \in T : ~ (<<1..y, 1..x>> \in R)
  BY <1>4
<1>6. ASSUME NEW y \in T, y < x PROVE FALSE
  <2>1. x \in 1..n /\ y \in 1..n
    OBVIOUS
  <2>2. 1..y \subseteq 1..x /\ 1..y # 1..x
    <3>1. x \in 1..x /\ x \notin 1..y
      BY <1>6, <2>1
    <3>. QED
      BY <1>6, <2>1, <3>1
  <2>3. 1..y \subseteq 1..n /\ 1..x \subseteq 1..n
    BY <2>1
  <2>. QED
    BY <1>5, <2>2, <2>3 DEF R, StrictSubsetOrdering
<1>. QED
  BY <1>6

LEMMA MinIndex ==
    ASSUME NEW n \in Nat, NEW T, T \subseteq 1..n, T # {}
    PROVE  Min(T) \in T /\ \A y \in T : Min(T) <= y
BY LeastElement DEF Min

LEMMA MaxIndex ==
    ASSUME NEW n \in Nat, NEW T, T \subseteq 1..n, T # {}
    PROVE  Max(T) \in T /\ \A y \in T : y <= Max(T)
<1>. DEFINE U == {n + 1 - x : x \in T}
<1>1. U \subseteq 1..n
  <2>. SUFFICES ASSUME NEW x \in T PROVE n + 1 - x \in 1..n
    OBVIOUS
  <2>. QED
    OBVIOUS
<1>0. U # {}
  OBVIOUS
<1>. HIDE DEF U
<1>2. PICK u \in U : \A y \in U : u <= y
  BY <1>0, <1>1, LeastElement
<1>. USE DEF U
<1>3. PICK x \in T : u = n + 1 - x
  BY <1>2
<1>4. \A y \in T : x >= y
  <2>. SUFFICES ASSUME NEW y \in T PROVE x >= y
    OBVIOUS
  <2>1. u <= n + 1 - y
    BY <1>2
  <2>. QED
    BY <2>1, <1>3
<1>5. Max(T) \in T /\ \A y \in T : Max(T) >= y
  BY <1>4 DEF Max
<1>. QED
  BY <1>5

LEMMA Members ==
    ASSUME NEW s \in Seq(Messages)
    PROVE  /\ Len(s) \in Nat /\ DOMAIN s = 1..Len(s)
           /\ \A i \in 1..Len(s) : s[i] \in Messages /\ s[i] \in ToSet(s)
           /\ ToSet(s) \subseteq Messages
           /\ \A m \in ToSet(s) : \E i \in 1..Len(s) : s[i] = m
           /\ s # <<>> <=> Len(s) >= 1
BY DEF ToSet

LEMMA ToSetEmpty == ToSet(<<>>) = {}
BY DEF ToSet

LEMMA PairIsSingle ==
    ASSUME NEW m \in Messages
    PROVE  /\ <<m>> \in Entries /\ Len(<<m>>) = 1 /\ Head(<<m>>) = m /\ ToSet(<<m>>) = {m}
           /\ DOMAIN <<m>> = 1..1 /\ <<m>>[1] = m
BY DEF ToSet, Entries

LEMMA DropFront ==
    ASSUME NEW s \in Seq(Messages), NEW n \in Nat
    PROVE  /\ SubSeq(s, n + 1, Len(s)) \in Seq(Messages)
           /\ n <= Len(s) => /\ Len(SubSeq(s, n + 1, Len(s))) = Len(s) - n
                             /\ \A i \in 1..(Len(s) - n) : SubSeq(s, n + 1, Len(s))[i] = s[n + i]
           /\ ToSet(SubSeq(s, n + 1, Len(s))) \subseteq ToSet(s)
<1>. DEFINE t == SubSeq(s, n + 1, Len(s))
<1>1. Len(s) \in Nat /\ \A i \in 1..Len(s) : s[i] \in Messages /\ s[i] \in ToSet(s)
  BY Members
<1>2. /\ t \in Seq(Messages)
      /\ Len(t) = IF n + 1 <= Len(s) THEN Len(s) - (n + 1) + 1 ELSE 0
      /\ \A i \in 1..(Len(s) - (n + 1) + 1) : t[i] = s[(n + 1) + i - 1]
  BY <1>1, SubSeqProperties
<1>. HIDE DEF t
<1>3. \A i \in 1..Len(t) : t[i] \in ToSet(s)
  <2>. SUFFICES ASSUME NEW i \in 1..Len(t) PROVE t[i] \in ToSet(s)
    OBVIOUS
  <2>1. i \in 1..(Len(s) - (n + 1) + 1) /\ n + i \in 1..Len(s) /\ (n + 1) + i - 1 = n + i
    BY <1>1, <1>2
  <2>. QED
    BY <1>1, <1>2, <2>1
<1>4. ToSet(t) \subseteq ToSet(s)
  BY <1>2, <1>3, Members
<1>5. n <= Len(s) => Len(t) = Len(s) - n
  BY <1>1, <1>2
<1>6. n <= Len(s) => \A i \in 1..(Len(s) - n) : t[i] = s[n + i]
  BY <1>1, <1>2
<1>. QED
  BY <1>2, <1>4, <1>5, <1>6 DEF t

-----------------------------------------------------------------------------
(* Part one: the pieces of the drain loop keep the objects sound.          *)

LEMMA NoTurnSound == NoTurn \in Turns /\ TurnSound(NoTurn)
<1>1. NoTurn \in Turns
  BY DEF NoTurn, Turns, Entries
<1>2. TurnSound(NoTurn)
  BY ToSetEmpty DEF TurnSound, NoTurn, Batchable, OneKey
<1>. QED
  BY <1>1, <1>2

LEMMA NoDrainSound ==
    /\ NoDrain \in Drains /\ NoDrain.pc = "idle" /\ DrainSound(NoDrain)
    /\ NoDrain.turn = NoTurn
BY NoTurnSound DEF NoDrain, Drains, DrainSound, Sweeping

LEMMA NoQueueStateType == NoQueueState \in QueueStates /\ ~NoQueueState.draining
BY DEF NoQueueState, QueueStates, Modes, DropPolicies, Entries

\* A state whose objects are sound, but for the drain of q, which does not own
\* the reply operation.
SoundBut(own, q) ==
    /\ registered \in QueueIds \cup {NoQueue}
    /\ queue \in [QueueIds -> QueueStates]
    /\ drain \in [QueueIds -> Drains]
    /\ own # q
    /\ \A p \in QueueIds \ {q} : ObjectSound(own = p, queue[p], drain[p])

LEMMA BecomeSound ==
    ASSUME NEW own, NEW reg, NEW qs, NEW ds, Sound(own, reg, qs, ds), Become(reg, qs, ds)
    PROVE  Sound(own, registered', queue', drain')
<1>1. /\ registered' = reg /\ drain' = ds
      /\ queue' = [q \in QueueIds |-> IF q = reg \/ qs[q].draining THEN qs[q] ELSE NoQueueState]
  BY DEF Become, Live
<1>2. queue' \in [QueueIds -> QueueStates]
  BY <1>1, NoQueueStateType DEF Sound
<1>3. \A p \in QueueIds : ObjectSound(own = p, queue'[p], drain'[p])
  <2>. SUFFICES ASSUME NEW p \in QueueIds PROVE ObjectSound(own = p, queue'[p], drain'[p])
    OBVIOUS
  <2>1. queue'[p].draining <=> qs[p].draining
    BY <1>1, NoQueueStateType
  <2>2. ObjectSound(own = p, qs[p], ds[p])
    BY DEF Sound
  <2>. QED
    BY <1>1, <2>1, <2>2 DEF ObjectSound
<1>. QED
  BY <1>1, <1>2, <1>3 DEF Sound

LEMMA AbortedIndex ==
    ASSUME NEW items \in Seq(Messages), NEW last \in 0..Len(items),
           AbortedAt(items, last) # {}
    PROVE  LET at == Max(AbortedAt(items, last))
           IN at \in 1..last /\ items[at] \in Messages /\ <<items[at]>> \in Entries
<1>. DEFINE at == Max(AbortedAt(items, last))
<1>1. AbortedAt(items, last) \subseteq 1..last /\ last \in Nat
  BY Members DEF AbortedAt
<1>2. at \in 1..last
  BY <1>1, MaxIndex
<1>3. at \in 1..Len(items)
  BY <1>2, Members
<1>. HIDE DEF at
<1>4. items[at] \in Messages
  BY <1>3, Members
<1>5. <<items[at]>> \in Entries
  BY <1>4, PairIsSingle
<1>. QED
  BY <1>2, <1>4, <1>5 DEF at

\* The drain as it is when an aborted entry m was found at place i.
SweepOf(pc, i, force, m) ==
    [pc |-> pc, at |-> i, force |-> force, turn |-> [NoTurn EXCEPT !.carries = <<m>>]]

LEMMA SweepSound ==
    ASSUME NEW pc \in {"abortBefore", "abortAfter"}, NEW i \in Nat \ {0}, NEW force \in BOOLEAN,
           NEW m \in Messages
    PROVE  /\ SweepOf(pc, i, force, m) \in Drains /\ DrainSound(SweepOf(pc, i, force, m))
           /\ SweepOf(pc, i, force, m).pc = pc
<1>. DEFINE turn == [NoTurn EXCEPT !.carries = <<m>>]
<1>1. <<m>> \in Entries /\ Len(<<m>>) = 1
  BY PairIsSingle
<1>2. turn \in Turns /\ turn.speaks = <<>> /\ turn.rest = <<>> /\ turn.carries = <<m>>
  BY <1>1, NoTurnSound DEF NoTurn, Turns
<1>3. TurnSound(turn)
  BY <1>2, ToSetEmpty DEF TurnSound, Batchable, OneKey
<1>. HIDE DEF turn
<1>4. SweepOf(pc, i, force, m) = [pc |-> pc, at |-> i, force |-> force, turn |-> turn]
  BY DEF SweepOf, turn
<1>5. SweepOf(pc, i, force, m) \in Drains
  BY <1>2, <1>4 DEF Drains
<1>. QED
  BY <1>1, <1>2, <1>3, <1>4, <1>5 DEF DrainSound, Sweeping

LEMMA LoopTopSound ==
    ASSUME NEW items \in Seq(Messages), NEW force \in BOOLEAN
    PROVE  /\ LoopTop(items, force) \in Drains /\ DrainSound(LoopTop(items, force))
           /\ LoopTop(items, force).pc \in {"debounce", "abortBefore"}
<1>. DEFINE bad == AbortedAt(items, Len(items))
<1>1. Len(items) \in 0..Len(items)
  BY Members
<1>2. CASE bad = {}
  <2>1. LoopTop(items, force) = [NoDrain EXCEPT !.pc = "debounce", !.force = force]
    BY <1>2 DEF LoopTop
  <2>2. LoopTop(items, force) = [pc |-> "debounce", at |-> 0, force |-> force, turn |-> NoTurn]
    BY <2>1 DEF NoDrain
  <2>. QED
    BY <2>2, NoTurnSound DEF Drains, DrainSound, Sweeping
<1>3. CASE bad # {}
  <2>1. Max(bad) \in 1..Len(items) /\ items[Max(bad)] \in Messages
    BY <1>1, <1>3, AbortedIndex
  <2>2. LoopTop(items, force) = SweepOf("abortBefore", Max(bad), force, items[Max(bad)])
    BY <1>3 DEF LoopTop, SweepOf, NoDrain
  <2>3. Max(bad) \in Nat \ {0}
    BY <2>1, Members
  <2>. HIDE DEF bad
  <2>. QED
    BY <2>1, <2>2, <2>3, SweepSound
<1>. QED
  BY <1>2, <1>3

\* The map's entry, idle until now, is drained.
LEMMA StartedSound ==
    ASSUME NEW own, NEW reg \in QueueIds, NEW qs, NEW ds, Sound(own, reg, qs, ds),
           ~qs[reg].draining
    PROVE  Sound(own, reg, [qs EXCEPT ![reg].draining = TRUE],
                 [ds EXCEPT ![reg] = LoopTop(qs[reg].items, FALSE)])
<1>. DEFINE d == LoopTop(qs[reg].items, FALSE)
            qs2 == [qs EXCEPT ![reg].draining = TRUE]
            ds2 == [ds EXCEPT ![reg] = d]
<1>1. qs[reg] \in QueueStates /\ qs[reg].items \in Seq(Messages)
  BY DEF Sound, QueueStates, Entries
<1>2. d \in Drains /\ DrainSound(d) /\ d.pc \in {"debounce", "abortBefore"}
  BY <1>1, LoopTopSound
<1>. HIDE DEF d
<1>3. [qs[reg] EXCEPT !.draining = TRUE] \in QueueStates
  BY <1>1 DEF QueueStates
<1>4. qs2 \in [QueueIds -> QueueStates] /\ ds2 \in [QueueIds -> Drains]
  BY <1>2, <1>3 DEF Sound
<1>5. ObjectSound(own = reg, qs[reg], ds[reg])
  BY DEF Sound
<1>6. own # reg
  BY <1>5 DEF ObjectSound
<1>7. qs2[reg].draining = TRUE /\ ds2[reg] = d
  BY <1>1 DEF Sound, QueueStates
<1>8. ObjectSound(own = reg, qs2[reg], ds2[reg])
  BY <1>2, <1>6, <1>7 DEF ObjectSound
<1>9. ASSUME NEW p \in QueueIds, p # reg
      PROVE  ObjectSound(own = p, qs2[p], ds2[p])
  <2>1. qs2[p] = qs[p] /\ ds2[p] = ds[p]
    BY <1>9 DEF Sound
  <2>. QED
    BY <2>1 DEF Sound
<1>. QED
  BY <1>4, <1>8, <1>9 DEF Sound, d

LEMMA ScheduleSound ==
    ASSUME NEW own, NEW reg, NEW qs, NEW ds, Sound(own, reg, qs, ds), Schedule(reg, qs, ds)
    PROVE  Sound(own, registered', queue', drain')
<1>1. CASE reg = NoQueue \/ (reg # NoQueue /\ qs[reg].draining)
  BY <1>1, BecomeSound DEF Schedule
<1>2. CASE reg # NoQueue /\ ~qs[reg].draining /\ HasWork(qs[reg])
  <2>1. reg \in QueueIds
    BY <1>2 DEF Sound
  <2>. DEFINE qs2 == [qs EXCEPT ![reg].draining = TRUE]
              ds2 == [ds EXCEPT ![reg] = LoopTop(qs[reg].items, FALSE)]
  <2>2. Become(reg, qs2, ds2)
    BY <1>2 DEF Schedule
  <2>3. Sound(own, reg, qs2, ds2)
    BY <1>2, <2>1, StartedSound
  <2>. HIDE DEF qs2, ds2
  <2>. QED
    BY <2>2, <2>3, BecomeSound
<1>3. CASE reg # NoQueue /\ ~qs[reg].draining /\ ~HasWork(qs[reg])
  <2>1. Become(NoQueue, qs, ds)
    BY <1>3 DEF Schedule
  <2>2. Sound(own, NoQueue, qs, ds)
    BY DEF Sound
  <2>. QED
    BY <2>1, <2>2, BecomeSound
<1>. QED
  BY <1>1, <1>2, <1>3

\* The objects and the drains once the drain of q is left.
LeftQueue(q, rec) == [queue EXCEPT ![q] = [rec EXCEPT !.draining = FALSE]]
LeftDrain(q) == [drain EXCEPT ![q] = NoDrain]

LEMMA LeaveIs ==
    ASSUME NEW q, NEW rec, Leave(q, rec)
    PROVE  /\ HasWork(rec) => Schedule(registered, LeftQueue(q, rec), LeftDrain(q))
           /\ ~HasWork(rec) => Become(IF registered = q THEN NoQueue ELSE registered,
                                      LeftQueue(q, rec), LeftDrain(q))
BY DEF Leave, LeftQueue, LeftDrain

LEMMA LeftSound ==
    ASSUME NEW own, NEW q \in QueueIds, NEW rec \in QueueStates, SoundBut(own, q),
           NEW reg \in QueueIds \cup {NoQueue}
    PROVE  /\ Sound(own, reg, LeftQueue(q, rec), LeftDrain(q))
           /\ LeftQueue(q, rec)[q] = [rec EXCEPT !.draining = FALSE] /\ LeftDrain(q)[q] = NoDrain
           /\ \A p \in QueueIds \ {q} : LeftQueue(q, rec)[p] = queue[p] /\ LeftDrain(q)[p] = drain[p]
<1>. DEFINE qs == [queue EXCEPT ![q] = [rec EXCEPT !.draining = FALSE]]
            ds == [drain EXCEPT ![q] = NoDrain]
<1>1. [rec EXCEPT !.draining = FALSE] \in QueueStates /\ ~[rec EXCEPT !.draining = FALSE].draining
  BY DEF QueueStates
<1>2. qs \in [QueueIds -> QueueStates] /\ ds \in [QueueIds -> Drains]
  BY <1>1, NoDrainSound DEF SoundBut
<1>3. ObjectSound(own = q, qs[q], ds[q])
  <2>1. ~qs[q].draining /\ ds[q] = NoDrain
    BY <1>1 DEF SoundBut
  <2>. QED
    BY <2>1, NoDrainSound DEF ObjectSound, SoundBut
<1>4. ASSUME NEW p \in QueueIds, p # q
      PROVE  ObjectSound(own = p, qs[p], ds[p]) /\ qs[p] = queue[p] /\ ds[p] = drain[p]
  BY <1>4 DEF SoundBut
<1>5. Sound(own, reg, qs, ds)
  BY <1>2, <1>3, <1>4 DEF Sound
<1>6. qs[q] = [rec EXCEPT !.draining = FALSE] /\ ds[q] = NoDrain
  BY DEF SoundBut
<1>. QED
  BY <1>4, <1>5, <1>6 DEF LeftQueue, LeftDrain

LEMMA LeaveSound ==
    ASSUME NEW own, NEW q \in QueueIds, NEW rec \in QueueStates, SoundBut(own, q), Leave(q, rec)
    PROVE  Sound(own, registered', queue', drain')
<1>1. \A reg \in QueueIds \cup {NoQueue} : Sound(own, reg, LeftQueue(q, rec), LeftDrain(q))
  BY LeftSound
<1>2. registered \in QueueIds \cup {NoQueue}
  BY DEF SoundBut
<1>3. CASE HasWork(rec)
  BY <1>1, <1>2, <1>3, LeaveIs, ScheduleSound
<1>4. CASE ~HasWork(rec)
  BY <1>1, <1>2, <1>4, LeaveIs, BecomeSound
<1>. QED
  BY <1>3, <1>4

\* The drain of q goes on with the object rec, at d.
LEMMA GoesOnSound ==
    ASSUME NEW own, NEW q \in QueueIds, NEW rec \in QueueStates, SoundBut(own, q), rec.draining,
           NEW d \in Drains, DrainSound(d), d.pc \notin {"idle", "running"},
           Become(registered, [queue EXCEPT ![q] = rec], [drain EXCEPT ![q] = d])
    PROVE  Sound(own, registered', queue', drain')
<1>. DEFINE qs == [queue EXCEPT ![q] = rec]
            ds == [drain EXCEPT ![q] = d]
<1>1. qs \in [QueueIds -> QueueStates] /\ ds \in [QueueIds -> Drains]
  BY DEF SoundBut
<1>2. ObjectSound(own = q, qs[q], ds[q])
  BY DEF SoundBut, ObjectSound
<1>3. ASSUME NEW p \in QueueIds, p # q
      PROVE  ObjectSound(own = p, qs[p], ds[p])
  BY <1>3 DEF SoundBut
<1>4. Sound(own, registered, qs, ds)
  BY <1>1, <1>2, <1>3 DEF Sound, SoundBut
<1>. HIDE DEF qs, ds
<1>. QED
  BY <1>4, BecomeSound DEF qs, ds

LEMMA IterateSound ==
    ASSUME NEW own, NEW q \in QueueIds, NEW rec \in QueueStates, SoundBut(own, q), rec.draining,
           NEW force \in BOOLEAN, Iterate(q, rec, force)
    PROVE  Sound(own, registered', queue', drain')
<1>1. CASE HasWork(rec)
  <2>. DEFINE d == LoopTop(rec.items, force)
  <2>1. rec.items \in Seq(Messages)
    BY DEF QueueStates, Entries
  <2>2. d \in Drains /\ DrainSound(d) /\ d.pc \notin {"idle", "running"}
    BY <2>1, LoopTopSound
  <2>3. Become(registered, [queue EXCEPT ![q] = rec], [drain EXCEPT ![q] = d])
    BY <1>1 DEF Iterate
  <2>. HIDE DEF d
  <2>. QED
    BY <2>2, <2>3, GoesOnSound
<1>2. CASE ~HasWork(rec)
  BY <1>2, LeaveSound DEF Iterate
<1>. QED
  BY <1>1, <1>2

LEMMA StartTurnSound ==
    ASSUME NEW own, NEW q \in QueueIds, NEW rec \in QueueStates, SoundBut(own, q), rec.draining,
           NEW force \in BOOLEAN, NEW turn \in Turns, TurnSound(turn),
           StartTurn(q, rec, force, turn)
    PROVE  Sound(own, registered', queue', drain')
<1>. DEFINE d == [pc |-> "waiting", at |-> 0, force |-> force, turn |-> turn]
<1>1. d \in Drains /\ DrainSound(d) /\ d.pc \notin {"idle", "running"}
  BY DEF Drains, DrainSound, Sweeping
<1>2. Become(registered, [queue EXCEPT ![q] = rec], [drain EXCEPT ![q] = d])
  BY DEF StartTurn
<1>. HIDE DEF d
<1>. QED
  BY <1>1, <1>2, GoesOnSound

-----------------------------------------------------------------------------
(* What a turn may be.                                                     *)

LEMMA FirstGroupIs ==
    ASSUME NEW batch \in Seq(Messages), batch # <<>>
    PROVE  /\ FirstGroup(batch) \in Seq(Messages)
           /\ Len(FirstGroup(batch)) \in 1..Len(batch)
           /\ \A i \in 1..Len(FirstGroup(batch)) : FirstGroup(batch)[i] = batch[i]
           /\ OneKey(FirstGroup(batch))
<1>. DEFINE others == {i \in DOMAIN batch : AuthOf[batch[i]] # AuthOf[Head(batch)]}
            g == FirstGroup(batch)
<1>1. Len(batch) \in Nat /\ Len(batch) >= 1 /\ DOMAIN batch = 1..Len(batch) /\ Head(batch) = batch[1]
  BY Members
<1>2. /\ g \in Seq(Messages) /\ Len(g) \in 1..Len(batch)
      /\ \A i \in 1..Len(g) : g[i] = batch[i]
      /\ \A i \in 1..Len(g) : i \notin others
  <2>1. CASE others = {}
    BY <1>1, <2>1 DEF FirstGroup
  <2>2. CASE others # {}
    <3>1. others \subseteq 1..Len(batch)
      BY <1>1
    <3>2. Min(others) \in others /\ \A i \in others : Min(others) <= i
      BY <1>1, <2>2, <3>1, MinIndex
    <3>3. Min(others) \in 2..Len(batch)
      <4>1. 1 \notin others
        BY <1>1
      <4>2. Min(others) \in 1..Len(batch) /\ Min(others) # 1
        BY <3>1, <3>2, <4>1
      <4>. HIDE DEF others
      <4>. QED
        BY <1>1, <4>2
    <3>4. g = SubSeq(batch, 1, Min(others) - 1)
      BY <2>2 DEF FirstGroup
    <3>. HIDE DEF others, g
    <3>. DEFINE n == Min(others) - 1
    <3>5. n \in 1..Len(batch) /\ \A i \in 1..n : batch[i] \in Messages
      BY <1>1, <3>3, Members
    <3>6. g \in Seq(Messages) /\ Len(g) = n /\ \A i \in 1..n : g[i] = batch[i]
      <4>1. /\ SubSeq(batch, 1, n) \in Seq(Messages)
            /\ Len(SubSeq(batch, 1, n)) = IF 1 <= n THEN n - 1 + 1 ELSE 0
            /\ \A i \in 1..(n - 1 + 1) : SubSeq(batch, 1, n)[i] = batch[1 + i - 1]
        BY <1>1, <3>5, SubSeqProperties
      <4>. QED
        BY <1>1, <3>4, <3>5, <4>1
    <3>7. \A i \in 1..n : i \notin others
      BY <1>1, <3>2, <3>3
    <3>. QED
      BY <3>5, <3>6, <3>7
  <2>. QED
    BY <2>1, <2>2
<1>3. \A i \in 1..Len(g) : AuthOf[g[i]] = AuthOf[Head(batch)]
  <2>. SUFFICES ASSUME NEW i \in 1..Len(g) PROVE AuthOf[g[i]] = AuthOf[Head(batch)]
    OBVIOUS
  <2>1. i \in DOMAIN batch /\ g[i] = batch[i] /\ i \notin others
    BY <1>1, <1>2
  <2>. QED
    BY <2>1
<1>. HIDE DEF g
<1>4. OneKey(g)
  <2>. SUFFICES ASSUME NEW m \in ToSet(g), NEW n \in ToSet(g) PROVE AuthOf[m] = AuthOf[n]
    BY DEF OneKey
  <2>1. PICK i \in 1..Len(g) : g[i] = m
    BY <1>2, Members
  <2>2. PICK j \in 1..Len(g) : g[j] = n
    BY <1>2, Members
  <2>. QED
    BY <1>3, <2>1, <2>2
<1>. QED
  BY <1>2, <1>4 DEF g

\* A group and what follows it are the batch, cut in two.
LEMMA GroupTurnIs ==
    ASSUME NEW batch \in Seq(Messages), batch # <<>>
    PROVE  LET t == GroupTurn(batch)
           IN  /\ t \in Turns /\ t.speaks = FirstGroup(batch) /\ t.carries = t.speaks /\ ~t.overflow
               /\ Len(t.speaks) \in 1..Len(batch) /\ Len(t.rest) = Len(batch) - Len(t.speaks)
               /\ \A i \in 1..Len(t.speaks) : t.speaks[i] = batch[i]
               /\ \A i \in 1..Len(t.rest) : t.rest[i] = batch[Len(t.speaks) + i]
               /\ ToSet(t.speaks) \subseteq ToSet(batch) /\ ToSet(t.rest) \subseteq ToSet(batch)
<1>. DEFINE g == FirstGroup(batch)
            r == SubSeq(batch, Len(g) + 1, Len(batch))
<1>1. g \in Seq(Messages) /\ Len(g) \in 1..Len(batch) /\ \A i \in 1..Len(g) : g[i] = batch[i]
  BY FirstGroupIs
<1>2. Len(batch) \in Nat /\ \A i \in 1..Len(batch) : batch[i] \in ToSet(batch)
  BY Members
<1>. HIDE DEF g
<1>3. Len(g) \in Nat /\ Len(g) <= Len(batch)
  BY <1>1, <1>2
<1>4. /\ r \in Seq(Messages) /\ Len(r) = Len(batch) - Len(g)
      /\ \A i \in 1..(Len(batch) - Len(g)) : r[i] = batch[Len(g) + i]
      /\ ToSet(r) \subseteq ToSet(batch)
  BY <1>3, DropFront
<1>5. ToSet(g) \subseteq ToSet(batch)
  <2>1. \A i \in 1..Len(g) : g[i] \in ToSet(batch)
    BY <1>1, <1>2
  <2>. QED
    BY <1>1, <2>1, Members
<1>. HIDE DEF r
<1>6. GroupTurn(batch) = [NoTurn EXCEPT !.carries = g, !.speaks = g, !.rest = r]
  BY DEF GroupTurn, g, r
<1>7. GroupTurn(batch) = [carries |-> g, speaks |-> g, overflow |-> FALSE,
                          lines |-> <<>>, count |-> 0, rest |-> r]
  BY <1>6 DEF NoTurn
<1>8. GroupTurn(batch) \in Turns
  BY <1>1, <1>4, <1>7 DEF Turns, Entries
<1>. QED
  BY <1>1, <1>4, <1>5, <1>7, <1>8 DEF g

LEMMA BatchableSubset ==
    ASSUME NEW s, NEW t, Batchable(t), ToSet(s) \subseteq ToSet(t)
    PROVE  Batchable(s)
BY DEF Batchable

LEMMA GroupTurnSound ==
    ASSUME NEW batch \in Seq(Messages), batch # <<>>, Batchable(batch)
    PROVE  GroupTurn(batch) \in Turns /\ TurnSound(GroupTurn(batch))
<1>1. /\ GroupTurn(batch) \in Turns /\ GroupTurn(batch).speaks = FirstGroup(batch)
      /\ ToSet(GroupTurn(batch).speaks) \subseteq ToSet(batch)
      /\ ToSet(GroupTurn(batch).rest) \subseteq ToSet(batch)
  BY GroupTurnIs
<1>2. OneKey(FirstGroup(batch))
  BY FirstGroupIs
<1>. QED
  BY <1>1, <1>2, BatchableSubset DEF TurnSound

LEMMA SingleSound ==
    ASSUME NEW m \in Messages
    PROVE  /\ Single(m) \in Turns /\ TurnSound(Single(m))
           /\ Single(m).carries = <<m>> /\ Single(m).speaks = <<m>> /\ Single(m).rest = <<>>
           /\ ~Single(m).overflow
<1>1. /\ Single(m) \in Turns /\ Single(m).speaks = <<m>> /\ Single(m).rest = <<>>
      /\ Single(m).carries = <<m>> /\ ~Single(m).overflow
  BY PairIsSingle, NoTurnSound DEF Single, NoTurn, Turns
<1>2. ToSet(<<m>>) = {m}
  BY PairIsSingle
<1>. QED
  BY <1>1, <1>2, ToSetEmpty DEF TurnSound, Batchable, OneKey

\* A summary changes neither the prompts of a turn nor what is to come.
LEMMA WithOverflowSound ==
    ASSUME NEW rec \in QueueStates, NEW turn \in Turns, TurnSound(turn)
    PROVE  WithOverflow(rec, turn) \in Turns /\ TurnSound(WithOverflow(rec, turn))
BY DEF WithOverflow, QueueStates, Turns, TurnSound

\* What is collected has one route and no runtime-only metadata.
LEMMA CollectedIsBatchable ==
    ASSUME NEW items \in Seq(Messages), ~CrossChannel(items), \A m \in ToSet(items) : m \notin RuntimeOnly
    PROVE  Batchable(items)
<1>. DEFINE all == {RouteOf[m] : m \in ToSet(items)}
            routes == all \ {NoRoute}
<1>1. Unroutable \notin routes /\ ~(Cardinality(routes) > 1)
  BY DEF CrossChannel
<1>2. IsFiniteSet(all)
  <2>. DEFINE f == [i \in 1..Len(items) |-> RouteOf[items[i]]]
  <2>1. Len(items) \in Nat /\ DOMAIN items = 1..Len(items)
    BY Members
  <2>2. f \in Surjection(1..Len(items), all)
    BY <2>1 DEF Surjection, ToSet
  <2>3. IsFiniteSet(1..Len(items))
    BY <2>1, FS_Interval
  <2>. HIDE DEF f, all
  <2>. QED
    BY <2>2, <2>3, FS_Surjection
<1>. HIDE DEF all
<1>3. IsFiniteSet(routes) /\ Cardinality(routes) \in Nat
  BY <1>2, FS_Subset, FS_CardinalityType
<1>4. ASSUME NEW x \in routes, NEW y \in routes, x # y
      PROVE  FALSE
  <2>1. IsFiniteSet({x}) /\ Cardinality({x}) = 1
    BY FS_Singleton
  <2>2. Cardinality({x} \cup {y}) = 2
    <3>1. y \notin {x}
      BY <1>4
    <3>2. Cardinality({x} \cup {y}) = Cardinality({x}) + 1
      BY <2>1, <3>1, FS_AddElement
    <3>. QED
      BY <2>1, <3>2
  <2>3. {x} \cup {y} \subseteq routes
    OBVIOUS
  <2>. HIDE DEF routes
  <2>4. Cardinality({x} \cup {y}) <= Cardinality(routes)
    BY <1>3, <2>3, FS_Subset
  <2>5. \A two, c : c \in Nat /\ ~(c > 1) /\ two = 2 => ~(two <= c)
    OBVIOUS
  <2>. QED
    BY <1>1, <1>3, <2>2, <2>4, <2>5
<1>. SUFFICES ASSUME NEW m \in ToSet(items), NEW n \in ToSet(items), m # n
              PROVE  /\ {m, n} \cap RuntimeOnly = {}
                     /\ Unroutable \notin {RouteOf[m], RouteOf[n]}
                     /\ RouteOf[m] = RouteOf[n] \/ NoRoute \in {RouteOf[m], RouteOf[n]}
  BY DEF Batchable
<1>5. RouteOf[m] \in all /\ RouteOf[n] \in all
  BY DEF all
<1>6. Unroutable \notin {RouteOf[m], RouteOf[n]}
  BY <1>1, <1>5, NamesAssumption
<1>7. RouteOf[m] = RouteOf[n] \/ NoRoute \in {RouteOf[m], RouteOf[n]}
  BY <1>4, <1>5
<1>. QED
  BY <1>6, <1>7

-----------------------------------------------------------------------------
(* Choosing a turn keeps the objects sound.                                *)

LEMMA HeadOf ==
    ASSUME NEW items \in Seq(Messages), items # <<>>
    PROVE  Head(items) \in Messages /\ Head(items) = items[1] /\ 1 \in 1..Len(items)
BY Members

LEMMA CollectTurnSound ==
    ASSUME NEW own, NEW q \in QueueIds, NEW rec \in QueueStates, SoundBut(own, q), rec.draining,
           NEW force \in BOOLEAN, CollectTurn(q, rec, force)
    PROVE  Sound(own, registered', queue', drain')
<1>. DEFINE mixed == \E m \in ToSet(rec.items) : m \in RuntimeOnly
            cross == CrossChannel(rec.items) \/ mixed
            oneByOne == cross \/ (force /\ Len(rec.items) <= 1)
<1>1. rec.items \in Seq(Messages)
  BY DEF QueueStates, Entries
<1>2. oneByOne \in BOOLEAN
  OBVIOUS
<1>3. CASE rec.items = <<>> /\ SummaryPrompt(rec) /\ rec.lastRun
  <2>1. StartTurn(q, rec, oneByOne, WithOverflow(rec, NoTurn))
    BY <1>3 DEF CollectTurn
  <2>2. WithOverflow(rec, NoTurn) \in Turns /\ TurnSound(WithOverflow(rec, NoTurn))
    BY NoTurnSound, WithOverflowSound
  <2>. HIDE DEF oneByOne
  <2>. QED
    BY <1>2, <2>1, <2>2, StartTurnSound
<1>4. CASE rec.items = <<>> /\ ~(SummaryPrompt(rec) /\ rec.lastRun)
  BY <1>4, LeaveSound DEF CollectTurn
<1>5. CASE rec.items # <<>> /\ oneByOne
  <2>1. StartTurn(q, rec, TRUE, Single(Head(rec.items)))
    BY <1>5 DEF CollectTurn
  <2>2. Head(rec.items) \in Messages
    BY <1>1, <1>5, HeadOf
  <2>. QED
    BY <2>1, <2>2, SingleSound, StartTurnSound
<1>6. CASE rec.items # <<>> /\ ~oneByOne
  <2>1. StartTurn(q, rec, FALSE, WithOverflow(rec, GroupTurn(rec.items)))
    BY <1>6 DEF CollectTurn
  <2>2. Batchable(rec.items)
    BY <1>1, <1>6, CollectedIsBatchable
  <2>3. GroupTurn(rec.items) \in Turns /\ TurnSound(GroupTurn(rec.items))
    BY <1>1, <1>6, <2>2, GroupTurnSound
  <2>4. /\ WithOverflow(rec, GroupTurn(rec.items)) \in Turns
        /\ TurnSound(WithOverflow(rec, GroupTurn(rec.items)))
    BY <2>3, WithOverflowSound
  <2>. QED
    BY <2>1, <2>4, StartTurnSound
<1>. QED
  BY <1>3, <1>4, <1>5, <1>6

\* The turn of a pending summary in the other modes: it carries the head entry
\* and speaks for none.
LEMMA CarrierSound ==
    ASSUME NEW m \in Messages
    PROVE  LET turn == [NoTurn EXCEPT !.carries = <<m>>] IN turn \in Turns /\ TurnSound(turn)
<1>. DEFINE turn == [NoTurn EXCEPT !.carries = <<m>>]
<1>1. turn \in Turns /\ turn.speaks = <<>> /\ turn.rest = <<>>
  BY PairIsSingle, NoTurnSound DEF NoTurn, Turns
<1>. QED
  BY <1>1, ToSetEmpty DEF TurnSound, Batchable, OneKey

LEMMA FollowupTurnSound ==
    ASSUME NEW own, NEW q \in QueueIds, NEW rec \in QueueStates, SoundBut(own, q), rec.draining,
           NEW force \in BOOLEAN, FollowupTurn(q, rec, force)
    PROVE  Sound(own, registered', queue', drain')
<1>1. rec.items \in Seq(Messages)
  BY DEF QueueStates, Entries
<1>2. CASE rec.items = <<>> \/ (SummaryPrompt(rec) /\ ~rec.lastRun)
  BY <1>2, LeaveSound DEF FollowupTurn
<1>3. CASE rec.items # <<>> /\ SummaryPrompt(rec) /\ rec.lastRun
  <2>. DEFINE turn == [NoTurn EXCEPT !.carries = <<Head(rec.items)>>]
  <2>1. Head(rec.items) \in Messages
    BY <1>1, <1>3, HeadOf
  <2>2. turn \in Turns /\ TurnSound(turn)
    BY <2>1, CarrierSound
  <2>3. StartTurn(q, rec, force, WithOverflow(rec, turn))
    BY <1>3 DEF FollowupTurn
  <2>. HIDE DEF turn
  <2>4. WithOverflow(rec, turn) \in Turns /\ TurnSound(WithOverflow(rec, turn))
    BY <2>2, WithOverflowSound
  <2>. QED
    BY <2>3, <2>4, StartTurnSound
<1>4. CASE rec.items # <<>> /\ ~SummaryPrompt(rec)
  <2>1. Head(rec.items) \in Messages
    BY <1>1, <1>4, HeadOf
  <2>2. StartTurn(q, rec, force, Single(Head(rec.items)))
    BY <1>4 DEF FollowupTurn
  <2>. QED
    BY <2>1, <2>2, SingleSound, StartTurnSound
<1>. QED
  BY <1>2, <1>3, <1>4

LEMMA DebounceSound ==
    ASSUME NEW force \in BOOLEAN
    PROVE  LET d == [NoDrain EXCEPT !.pc = "debounce", !.force = force]
           IN  d \in Drains /\ DrainSound(d) /\ d.pc = "debounce" /\ d.turn = NoTurn
<1>. DEFINE d == [NoDrain EXCEPT !.pc = "debounce", !.force = force]
<1>1. d.pc = "debounce" /\ d.at = 0 /\ d.force = force /\ d.turn = NoTurn
  BY DEF NoDrain
<1>2. d \in Drains
  BY NoDrainSound DEF Drains
<1>. HIDE DEF d
<1>3. DrainSound(d)
  BY <1>1, NoTurnSound DEF DrainSound, Sweeping
<1>. QED
  BY <1>1, <1>2, <1>3 DEF d

LEMMA AfterSweepSound ==
    ASSUME NEW own, NEW q \in QueueIds, NEW rec \in QueueStates, SoundBut(own, q), rec.draining,
           NEW force \in BOOLEAN, NEW phase, AfterSweep(q, phase, rec, force)
    PROVE  Sound(own, registered', queue', drain')
<1>1. CASE ~HasWork(rec)
  BY <1>1, LeaveSound DEF AfterSweep
<1>2. CASE HasWork(rec) /\ phase = "abortBefore"
  <2>. DEFINE d == [NoDrain EXCEPT !.pc = "debounce", !.force = force]
  <2>1. d \in Drains /\ DrainSound(d) /\ d.pc \notin {"idle", "running"}
    BY DebounceSound
  <2>2. Become(registered, [queue EXCEPT ![q] = rec], [drain EXCEPT ![q] = d])
    BY <1>2 DEF AfterSweep
  <2>. HIDE DEF d
  <2>. QED
    BY <2>1, <2>2, GoesOnSound
<1>3. CASE HasWork(rec) /\ phase # "abortBefore"
  BY <1>3, CollectTurnSound, FollowupTurnSound DEF AfterSweep, Dispatch
<1>. QED
  BY <1>1, <1>2, <1>3

-----------------------------------------------------------------------------
(* Enqueueing keeps the objects sound.                                     *)

LEMMA LastOfType ==
    ASSUME NEW s \in Seq(Messages), NEW n \in Nat
    PROVE  LastOf(s, n) \in Seq(Messages)
<1>1. Len(s) \in Nat /\ \A i \in 1..Len(s) : s[i] \in Messages
  BY Members
<1>2. CASE Len(s) <= n
  BY <1>2 DEF LastOf
<1>3. CASE ~(Len(s) <= n)
  <2>1. LastOf(s, n) = SubSeq(s, Len(s) - n + 1, Len(s))
    BY <1>3 DEF LastOf
  <2>2. Len(s) - n + 1 \in Int /\ Len(s) \in Int
    BY <1>1
  <2>3. \A i \in (Len(s) - n + 1)..Len(s) : s[i] \in Messages
    BY <1>1, <1>3
  <2>. QED
    BY <2>1, <2>2, <2>3, SubSeqProperties
<1>. QED
  BY <1>2, <1>3

LEMMA DroppedIs ==
    ASSUME NEW rec \in QueueStates
    PROVE  /\ Dropped(rec) \in Seq(Messages) /\ Len(Dropped(rec)) \in Nat
           /\ Len(rec.items) < rec.cap => Dropped(rec) = <<>>
           /\ ToSet(Dropped(rec)) \subseteq Messages
<1>1. rec.items \in Seq(Messages) /\ rec.cap \in Nat /\ rec.cap # 0
  BY DEF QueueStates, Entries
<1>2. Len(rec.items) \in Nat /\ \A i \in 1..Len(rec.items) : rec.items[i] \in Messages
  BY <1>1, Members
<1>3. Dropped(rec) \in Seq(Messages)
  <2>1. CASE Len(rec.items) < rec.cap
    BY <2>1 DEF Dropped
  <2>2. CASE ~(Len(rec.items) < rec.cap)
    <3>. DEFINE n == Len(rec.items) - rec.cap + 1
    <3>1. n \in Int /\ n <= Len(rec.items)
      BY <1>1, <1>2, <2>2
    <3>2. \A i \in 1..n : rec.items[i] \in Messages
      BY <1>2, <3>1
    <3>. HIDE DEF n
    <3>3. SubSeq(rec.items, 1, n) \in Seq(Messages)
      BY <3>1, <3>2, SubSeqProperties
    <3>. QED
      BY <2>2, <3>3 DEF Dropped, n
  <2>. QED
    BY <2>1, <2>2
<1>4. Len(rec.items) < rec.cap => Dropped(rec) = <<>>
  BY DEF Dropped
<1>. QED
  BY <1>3, <1>4, Members

LEMMA MakeRoomType ==
    ASSUME NEW rec \in QueueStates
    PROVE  /\ MakeRoom(rec) \in QueueStates /\ MakeRoom(rec).draining = rec.draining
           /\ MakeRoom(rec).items = SubSeq(rec.items, Len(Dropped(rec)) + 1, Len(rec.items))
<1>. DEFINE gone == Dropped(rec)
            kept == SubSeq(rec.items, Len(gone) + 1, Len(rec.items))
            lines == IF gone = <<>> THEN rec.summaryLines
                     ELSE LastOf(rec.summaryLines \o gone, rec.cap)
            sources == LastOf(rec.summarySources \o gone, Len(lines))
<1>1. /\ rec.items \in Seq(Messages) /\ rec.cap \in Nat /\ rec.droppedCount \in Nat
      /\ rec.summaryLines \in Seq(Messages) /\ rec.summarySources \in Seq(Messages)
  BY DEF QueueStates, Entries
<1>2. gone \in Seq(Messages) /\ Len(gone) \in Nat
  BY DroppedIs
<1>. HIDE DEF gone
<1>3. kept \in Seq(Messages)
  BY <1>1, <1>2, DropFront
<1>4. lines \in Seq(Messages)
  <2>1. rec.summaryLines \o gone \in Seq(Messages)
    BY <1>1, <1>2, ConcatProperties
  <2>. QED
    BY <1>1, <2>1, LastOfType
<1>. HIDE DEF lines
<1>5. sources \in Seq(Messages)
  <2>1. rec.summarySources \o gone \in Seq(Messages)
    BY <1>1, <1>2, ConcatProperties
  <2>2. Len(lines) \in Nat
    BY <1>4, Members
  <2>. QED
    BY <2>1, <2>2, LastOfType
<1>6. rec.droppedCount + Len(gone) \in Nat
  BY <1>1, <1>2
<1>. HIDE DEF kept, sources
<1>7. CASE rec.dropPolicy = "summarize"
  <2>1. MakeRoom(rec) = [rec EXCEPT !.items = kept, !.droppedCount = rec.droppedCount + Len(gone),
                                    !.summaryLines = lines, !.summarySources = sources]
    BY <1>7 DEF MakeRoom, gone, kept, lines, sources
  <2>. QED
    BY <1>3, <1>4, <1>5, <1>6, <2>1 DEF QueueStates, Entries, kept, gone
<1>8. CASE rec.dropPolicy # "summarize"
  <2>1. MakeRoom(rec) = [rec EXCEPT !.items = kept]
    BY <1>8 DEF MakeRoom, gone, kept
  <2>. QED
    BY <1>3, <2>1 DEF QueueStates, Entries, kept, gone
<1>. QED
  BY <1>7, <1>8

\* The records an enqueue may leave: a duplicate's, a refused entry's, and the
\* one the entry was pushed to.
PutsOf(rec, m, s) ==
    LET used == [Configured(rec, s) EXCEPT !.lastRun = TRUE]
    IN {Configured(rec, s), used, [MakeRoom(used) EXCEPT !.items = Append(@, m)]}

LEMMA PutsType ==
    ASSUME NEW rec \in QueueStates, NEW s \in Settings, NEW m \in Messages
    PROVE  \A r \in PutsOf(rec, m, s) : r \in QueueStates /\ r.draining = rec.draining
<1>. DEFINE found == Configured(rec, s)
            used == [found EXCEPT !.lastRun = TRUE]
            room == MakeRoom(used)
            pushed == [room EXCEPT !.items = Append(@, m)]
<1>1. s \in [mode : Modes, cap : Nat \ {0}, dropPolicy : DropPolicies]
  BY SettingsAssumption
<1>2. found \in QueueStates /\ found.draining = rec.draining
  BY <1>1 DEF Configured, QueueStates
<1>. HIDE DEF found
<1>3. used \in QueueStates /\ used.draining = rec.draining
  BY <1>2 DEF QueueStates
<1>. HIDE DEF used
<1>4. room \in QueueStates /\ room.draining = rec.draining
  BY <1>3, MakeRoomType
<1>. HIDE DEF room
<1>5. pushed \in QueueStates /\ pushed.draining = rec.draining
  <2>1. Append(room.items, m) \in Seq(Messages)
    BY <1>4 DEF QueueStates, Entries
  <2>. QED
    BY <1>4, <2>1 DEF QueueStates, Entries
<1>. QED
  BY <1>2, <1>3, <1>5 DEF PutsOf, found, used, room

LEMMA PutSound ==
    ASSUME NEW own, Sound(own, registered, queue, drain), NEW q \in QueueIds,
           NEW rec \in QueueStates, rec.draining = queue[q].draining
    PROVE  Sound(own, q, [queue EXCEPT ![q] = rec], drain)
<1>. DEFINE qs == [queue EXCEPT ![q] = rec]
<1>1. qs \in [QueueIds -> QueueStates]
  BY DEF Sound
<1>2. ASSUME NEW p \in QueueIds
      PROVE  ObjectSound(own = p, qs[p], drain[p])
  <2>1. qs[p].draining = queue[p].draining
    BY DEF Sound
  <2>2. ObjectSound(own = p, queue[p], drain[p])
    BY DEF Sound
  <2>. QED
    BY <2>1, <2>2 DEF ObjectSound
<1>. QED
  BY <1>1, <1>2 DEF Sound

\* The object an enqueue finds or makes.
EnqueueAt == IF registered # NoQueue THEN registered ELSE FreshQueue

LEMMA EnqueueAtIs ==
    ASSUME registered \in QueueIds \cup {NoQueue}, HaveQueue
    PROVE  /\ EnqueueAt \in QueueIds
           /\ registered # NoQueue => EnqueueAt = registered
           /\ registered = NoQueue => ~queue[EnqueueAt].draining
<1>1. CASE registered # NoQueue
  BY <1>1 DEF EnqueueAt
<1>2. CASE registered = NoQueue
  <2>1. \E q \in QueueIds : q # registered /\ ~queue[q].draining
    BY <1>2, NamesAssumption DEF HaveQueue
  <2>2. FreshQueue \in QueueIds /\ ~queue[FreshQueue].draining
    BY <2>1 DEF FreshQueue
  <2>. QED
    BY <1>2, <2>2 DEF EnqueueAt
<1>. QED
  BY <1>1, <1>2

Puts(q, rec) ==
    IF owner = NoOwner THEN Schedule(q, [queue EXCEPT ![q] = rec], drain)
    ELSE Become(q, [queue EXCEPT ![q] = rec], drain)

LEMMA EnqueuePuts ==
    ASSUME NEW m, NEW s, EnqueueFollowupRun(m, s)
    PROVE  HaveQueue /\ \E rec \in PutsOf(queue[EnqueueAt], m, s) : Puts(EnqueueAt, rec)
BY DEF EnqueueFollowupRun, PutsOf, Puts, EnqueueAt

LEMMA EnqueueSound ==
    ASSUME Sound(owner, registered, queue, drain), NEW m \in Messages, NEW s \in Settings,
           EnqueueFollowupRun(m, s)
    PROVE  Sound(owner, registered', queue', drain')
<1>1. PICK rec \in PutsOf(queue[EnqueueAt], m, s) : Puts(EnqueueAt, rec)
  BY EnqueuePuts
<1>2. EnqueueAt \in QueueIds
  BY EnqueuePuts, EnqueueAtIs DEF Sound
<1>3. queue[EnqueueAt] \in QueueStates
  BY <1>2 DEF Sound
<1>4. rec \in QueueStates /\ rec.draining = queue[EnqueueAt].draining
  BY <1>1, <1>3, PutsType
<1>5. Sound(owner, EnqueueAt, [queue EXCEPT ![EnqueueAt] = rec], drain)
  BY <1>2, <1>4, PutSound
<1>. QED
  BY <1>1, <1>5, ScheduleSound, BecomeSound DEF Puts

-----------------------------------------------------------------------------
(* The drain's steps keep the objects sound.                               *)

LEMMA SoundAt ==
    ASSUME Sound(owner, registered, queue, drain), NEW q \in QueueIds
    PROVE  /\ queue[q] \in QueueStates /\ queue[q].items \in Seq(Messages) /\ drain[q] \in Drains
           /\ drain[q].turn \in Turns /\ drain[q].turn.speaks \in Seq(Messages)
           /\ drain[q].turn.carries \in Seq(Messages) /\ drain[q].turn.rest \in Seq(Messages)
           /\ drain[q].at \in Nat /\ drain[q].force \in BOOLEAN /\ TurnSound(drain[q].turn)
           /\ queue[q].draining <=> drain[q].pc # "idle"
           /\ owner = q <=> drain[q].pc = "running"
           /\ Sweeping(drain[q]) => drain[q].at # 0 /\ Len(drain[q].turn.carries) = 1
<1>1. queue[q] \in QueueStates /\ drain[q] \in Drains /\ ObjectSound(owner = q, queue[q], drain[q])
  BY DEF Sound
<1>2. queue[q].items \in Seq(Messages)
  BY <1>1 DEF QueueStates, Entries
<1>3. drain[q].turn \in Turns /\ drain[q].at \in Nat /\ drain[q].force \in BOOLEAN
  BY <1>1 DEF Drains
<1>4. /\ drain[q].turn.speaks \in Seq(Messages) /\ drain[q].turn.carries \in Seq(Messages)
      /\ drain[q].turn.rest \in Seq(Messages)
  BY <1>3 DEF Turns, Entries
<1>. QED
  BY <1>1, <1>2, <1>3, <1>4 DEF ObjectSound, DrainSound

\* The drain of q keeps waiting, or its turn has ended and freed the operation.
LEMMA ApartFrom ==
    ASSUME Sound(owner, registered, queue, drain), NEW q \in QueueIds, NEW own,
           \/ own = owner /\ drain[q].pc # "running"
           \/ own = NoOwner /\ drain[q].pc = "running"
    PROVE  SoundBut(own, q)
<1>1. /\ registered \in QueueIds \cup {NoQueue} /\ queue \in [QueueIds -> QueueStates]
      /\ drain \in [QueueIds -> Drains]
      /\ \A p \in QueueIds : ObjectSound(owner = p, queue[p], drain[p])
  BY DEF Sound
<1>2. own # q
  <2>1. owner = q <=> drain[q].pc = "running"
    BY <1>1 DEF ObjectSound
  <2>. QED
    BY <2>1, NamesAssumption
<1>3. ASSUME NEW p \in QueueIds \ {q}
      PROVE  ObjectSound(own = p, queue[p], drain[p])
  <2>1. own = p <=> owner = p
    <3>1. drain[q].pc = "running" => owner = q
      BY <1>1 DEF ObjectSound
    <3>. QED
      BY <1>3, <3>1, NamesAssumption
  <2>. QED
    BY <1>1, <2>1
<1>. QED
  BY <1>1, <1>2, <1>3 DEF SoundBut

LEMMA RemovedAt ==
    ASSUME NEW s \in Seq(Messages), NEW at \in 1..Len(s)
    PROVE  /\ RemoveAt(s, at) \in Seq(Messages) /\ Len(RemoveAt(s, at)) = Len(s) - 1
           /\ \A i \in 1..(Len(s) - 1) : RemoveAt(s, at)[i] = IF i < at THEN s[i] ELSE s[i + 1]
<1>. DEFINE a == SubSeq(s, 1, at - 1)
            b == SubSeq(s, at + 1, Len(s))
<1>1. Len(s) \in Nat /\ at \in Int /\ \A i \in 1..Len(s) : s[i] \in Messages
  BY Members
<1>2. /\ a \in Seq(Messages) /\ Len(a) = at - 1
      /\ \A i \in 1..(at - 1) : a[i] = s[i]
  <2>1. \A i \in 1..(at - 1) : s[i] \in Messages
    BY <1>1
  <2>2. /\ a \in Seq(Messages)
        /\ Len(a) = IF 1 <= at - 1 THEN (at - 1) - 1 + 1 ELSE 0
        /\ \A i \in 1..((at - 1) - 1 + 1) : a[i] = s[1 + i - 1]
    BY <1>1, <2>1, SubSeqProperties
  <2>. HIDE DEF a
  <2>. QED
    BY <1>1, <2>2
<1>3. /\ b \in Seq(Messages) /\ Len(b) = Len(s) - at
      /\ \A i \in 1..(Len(s) - at) : b[i] = s[at + i]
  <2>1. at \in Nat /\ at <= Len(s)
    BY <1>1
  <2>. QED
    BY <2>1, DropFront
<1>. HIDE DEF a, b
<1>4. /\ a \o b \in Seq(Messages) /\ Len(a \o b) = Len(a) + Len(b)
      /\ \A i \in 1..(Len(a) + Len(b)) : (a \o b)[i] = IF i <= Len(a) THEN a[i] ELSE b[i - Len(a)]
  BY <1>2, <1>3, ConcatProperties
<1>5. RemoveAt(s, at) = a \o b
  BY DEF RemoveAt, a, b
<1>6. ASSUME NEW i \in 1..(Len(s) - 1)
      PROVE  (a \o b)[i] = IF i < at THEN s[i] ELSE s[i + 1]
  <2>1. CASE i < at
    BY <1>1, <1>2, <1>3, <1>4, <2>1
  <2>2. CASE ~(i < at)
    <3>1. i - (at - 1) \in 1..(Len(s) - at) /\ at + (i - (at - 1)) = i + 1
      BY <1>1, <2>2
    <3>2. (a \o b)[i] = b[i - (at - 1)]
      BY <1>1, <1>2, <1>3, <1>4, <2>2
    <3>. QED
      BY <1>3, <2>2, <3>1, <3>2
  <2>. QED
    BY <2>1, <2>2
<1>. QED
  BY <1>1, <1>2, <1>3, <1>4, <1>5, <1>6

\* The sweep goes on to the aborted entry m at place i.
SweptOn(d, pc, i, m) ==
    [d EXCEPT !.pc = pc, !.at = i, !.turn = [d.turn EXCEPT !.carries = <<m>>]]

LEMMA SweptOnSound ==
    ASSUME NEW d \in Drains, TurnSound(d.turn), NEW pc \in {"abortBefore", "abortAfter"},
           NEW i \in Nat \ {0}, NEW m \in Messages
    PROVE  LET e == SweptOn(d, pc, i, m)
           IN  /\ e \in Drains /\ e.pc = pc /\ e.at = i /\ DrainSound(e)
               /\ e.turn.carries = <<m>> /\ e.turn.speaks = d.turn.speaks
               /\ e.turn.rest = d.turn.rest /\ e.turn.overflow = d.turn.overflow
<1>. DEFINE e == SweptOn(d, pc, i, m)
            t == [d.turn EXCEPT !.carries = <<m>>]
<1>1. <<m>> \in Entries /\ Len(<<m>>) = 1
  BY PairIsSingle
<1>2. d.turn \in Turns
  BY DEF Drains
<1>3. /\ t \in Turns /\ t.carries = <<m>> /\ t.speaks = d.turn.speaks /\ t.rest = d.turn.rest
      /\ t.overflow = d.turn.overflow
  BY <1>1, <1>2 DEF Turns
<1>. HIDE DEF t
<1>4. e = [d EXCEPT !.pc = pc, !.at = i, !.turn = t]
  BY DEF SweptOn, t
<1>. HIDE DEF e
<1>5. e \in Drains /\ e.pc = pc /\ e.turn = t /\ e.at = i
  BY <1>3, <1>4 DEF Drains
<1>6. DrainSound(e)
  BY <1>1, <1>3, <1>5 DEF DrainSound, TurnSound
<1>. QED
  BY <1>3, <1>5, <1>6 DEF e

\* The two ends of a debounce.
LEMMA DebounceEndsIs ==
    ASSUME Sound(owner, registered, queue, drain), NEW q \in QueueIds, DebounceEnds(q)
    PROVE  LET items == queue[q].items
               bad == AbortedAt(items, Len(items))
           IN  /\ bad = {} => AfterSweep(q, "abortAfter", queue[q], drain[q].force)
               /\ bad # {} => Become(registered, [queue EXCEPT ![q] = queue[q]],
                                     [drain EXCEPT ![q] = SweptOn(drain[q], "abortAfter", Max(bad),
                                                                  items[Max(bad)])])
<1>. DEFINE items == queue[q].items
            bad == AbortedAt(items, Len(items))
            ds == [drain EXCEPT ![q].pc = "abortAfter", ![q].at = Max(bad),
                                ![q].turn.carries = <<items[Max(bad)]>>]
<1>1. bad = {} => AfterSweep(q, "abortAfter", queue[q], drain[q].force)
  BY DEF DebounceEnds
<1>2. bad # {} => Become(registered, queue, ds)
  BY DEF DebounceEnds
<1>3. ds = [drain EXCEPT ![q] = SweptOn(drain[q], "abortAfter", Max(bad), items[Max(bad)])]
  <2>. HIDE DEF bad
  <2>1. drain \in [QueueIds -> Drains]
    BY DEF Sound
  <2>. QED
    BY <2>1 DEF SweptOn, Drains, Turns
<1>4. queue = [queue EXCEPT ![q] = queue[q]]
  BY DEF Sound
<1>. QED
  BY <1>1, <1>2, <1>3, <1>4

LEMMA DebounceEndsSound ==
    ASSUME Sound(owner, registered, queue, drain), NEW q \in QueueIds, DebounceEnds(q)
    PROVE  Sound(owner, registered', queue', drain')
<1>. DEFINE rec == queue[q]
            bad == AbortedAt(rec.items, Len(rec.items))
<1>1. drain[q].pc = "debounce"
  BY DEF DebounceEnds
<1>2. /\ rec \in QueueStates /\ rec.items \in Seq(Messages) /\ rec.draining
      /\ drain[q] \in Drains /\ drain[q].force \in BOOLEAN /\ DrainSound(drain[q])
  BY <1>1, SoundAt DEF DrainSound, Sweeping
<1>3. SoundBut(owner, q)
  BY <1>1, ApartFrom
<1>4. CASE bad = {}
  <2>1. AfterSweep(q, "abortAfter", rec, drain[q].force)
    BY <1>4 DEF DebounceEnds
  <2>. QED
    BY <1>2, <1>3, <2>1, AfterSweepSound
<1>5. CASE bad # {}
  <2>. DEFINE e == SweptOn(drain[q], "abortAfter", Max(bad), rec.items[Max(bad)])
  <2>1. Max(bad) \in Nat \ {0} /\ rec.items[Max(bad)] \in Messages
    <3>1. Len(rec.items) \in 0..Len(rec.items)
      BY <1>2, Members
    <3>2. Max(bad) \in 1..Len(rec.items) /\ rec.items[Max(bad)] \in Messages
      BY <1>2, <1>5, <3>1, AbortedIndex
    <3>. QED
      BY <1>2, <3>2, Members
  <2>2. Become(registered, [queue EXCEPT ![q] = rec], [drain EXCEPT ![q] = e])
    BY <1>1, <1>5, DebounceEndsIs
  <2>3. e \in Drains /\ DrainSound(e) /\ e.pc = "abortAfter"
    <3>. DEFINE i == Max(bad)
                m == rec.items[i]
    <3>1. i \in Nat \ {0} /\ m \in Messages /\ TurnSound(drain[q].turn) /\ drain[q] \in Drains
      BY <1>2, <2>1 DEF DrainSound
    <3>. HIDE DEF i, m, bad
    <3>2. e = SweptOn(drain[q], "abortAfter", i, m)
      BY DEF i, m
    <3>. HIDE DEF e
    <3>. QED
      BY <3>1, <3>2, SweptOnSound
  <2>. HIDE DEF e
  <2>. QED
    BY <1>2, <1>3, <2>2, <2>3, GoesOnSound
<1>. QED
  BY <1>4, <1>5

\* The object after the aborted entry was spliced away, and after the sweep.
Spliced(q) ==
    IF drain[q].at <= Len(queue[q].items)
    THEN [queue[q] EXCEPT !.items = RemoveAt(@, drain[q].at)] ELSE queue[q]

Swept(q) == IF Spliced(q).items = <<>> THEN WithoutSummary(Spliced(q)) ELSE Spliced(q)

LEMMA WithoutSummaryType ==
    ASSUME NEW rec \in QueueStates
    PROVE  /\ WithoutSummary(rec) \in QueueStates /\ WithoutSummary(rec).draining = rec.draining
           /\ WithoutSummary(rec).items = rec.items /\ WithoutSummary(rec).dropPolicy = rec.dropPolicy
           /\ WithoutSummary(rec).droppedCount = 0 /\ WithoutSummary(rec).summarySources = <<>>
<1>. DEFINE w == WithoutSummary(rec)
<1>1. w = [rec EXCEPT !.droppedCount = 0, !.summaryLines = <<>>, !.summarySources = <<>>]
  BY DEF WithoutSummary
<1>2. <<>> \in Entries
  BY DEF Entries
<1>. HIDE DEF w
<1>3. w \in QueueStates
  BY <1>1, <1>2 DEF QueueStates
<1>4. /\ w.draining = rec.draining /\ w.items = rec.items /\ w.dropPolicy = rec.dropPolicy
      /\ w.droppedCount = 0 /\ w.summarySources = <<>>
  BY <1>1 DEF QueueStates
<1>. QED
  BY <1>3, <1>4 DEF w

LEMMA SplicedType ==
    ASSUME Sound(owner, registered, queue, drain), NEW q \in QueueIds, drain[q].at # 0
    PROVE  /\ Spliced(q) \in QueueStates /\ Spliced(q).draining = queue[q].draining
           /\ Spliced(q).items \in Seq(Messages)
           /\ Swept(q) \in QueueStates /\ Swept(q).draining = queue[q].draining
<1>1. queue[q] \in QueueStates /\ queue[q].items \in Seq(Messages) /\ drain[q].at \in Nat
  BY SoundAt
<1>2. Spliced(q) \in QueueStates /\ Spliced(q).draining = queue[q].draining
  <2>1. CASE drain[q].at <= Len(queue[q].items)
    <3>1. drain[q].at \in 1..Len(queue[q].items)
      BY <1>1, <2>1, Members
    <3>2. RemoveAt(queue[q].items, drain[q].at) \in Seq(Messages)
      BY <1>1, <3>1, RemovedAt
    <3>3. Spliced(q) = [queue[q] EXCEPT !.items = RemoveAt(queue[q].items, drain[q].at)]
      BY <2>1 DEF Spliced
    <3>. QED
      BY <1>1, <3>2, <3>3 DEF QueueStates, Entries
  <2>2. CASE ~(drain[q].at <= Len(queue[q].items))
    BY <1>1, <2>2 DEF Spliced
  <2>. QED
    BY <2>1, <2>2
<1>3. Spliced(q).items \in Seq(Messages)
  BY <1>2 DEF QueueStates, Entries
<1>4. Swept(q) \in QueueStates /\ Swept(q).draining = queue[q].draining
  BY <1>2, WithoutSummaryType DEF Swept
<1>. QED
  BY <1>2, <1>3, <1>4

\* The three ends of the turn of an aborted entry.
LEMMA AbortedTurnEndsIs ==
    ASSUME Sound(owner, registered, queue, drain), NEW q \in QueueIds, AbortedTurnEnds(q)
    PROVE  LET d == drain[q]
               items == Spliced(q).items
               bad == AbortedAt(items, d.at - 1)
           IN  /\ Sweeping(d) /\ d.at # 0
               /\ d.at - 1 > Len(items) => Leave(q, Spliced(q))
               /\ d.at - 1 <= Len(items) /\ bad # {} =>
                      Become(registered, [queue EXCEPT ![q] = Spliced(q)],
                             [drain EXCEPT ![q] = SweptOn(d, d.pc, Max(bad), items[Max(bad)])])
               /\ d.at - 1 <= Len(items) /\ bad = {} => AfterSweep(q, d.pc, Swept(q), d.force)
<1>. DEFINE d == drain[q]
            items == Spliced(q).items
            bad == AbortedAt(items, d.at - 1)
            ds == [drain EXCEPT ![q].at = Max(bad), ![q].turn.carries = <<items[Max(bad)]>>]
<1>1. Sweeping(d) /\ d.at # 0 /\ d.at \in Nat
  <2>1. Sweeping(d)
    BY DEF AbortedTurnEnds, Sweeping
  <2>. QED
    BY <2>1, SoundAt
<1>2. Len(items) \in Nat
  BY <1>1, SplicedType, Members
<1>. DEFINE past == d.at - 1 > Len(items)
            within == d.at - 1 <= Len(items)
<1>7. (CASE past -> Leave(q, Spliced(q))
         [] within /\ bad # {} -> Become(registered, [queue EXCEPT ![q] = Spliced(q)], ds)
         [] within /\ bad = {} -> AfterSweep(q, d.pc, Swept(q), d.force))
  BY Zenon DEF AbortedTurnEnds, Spliced, Swept
<1>8. past <=> ~within
  BY <1>1, <1>2
<1>. HIDE DEF past, within, bad, ds
<1>3. past => Leave(q, Spliced(q))
  BY <1>7, <1>8
<1>4. within /\ bad # {} => Become(registered, [queue EXCEPT ![q] = Spliced(q)], ds)
  BY <1>7, <1>8
<1>5. within /\ bad = {} => AfterSweep(q, d.pc, Swept(q), d.force)
  BY <1>7, <1>8
<1>. USE DEF past, within, bad, ds
<1>6. ds = [drain EXCEPT ![q] = SweptOn(d, d.pc, Max(bad), items[Max(bad)])]
  <2>1. drain \in [QueueIds -> Drains]
    BY DEF Sound
  <2>. DEFINE i == Max(bad)
              m == items[i]
  <2>. HIDE DEF i, m
  <2>2. [drain EXCEPT ![q].at = i, ![q].turn.carries = <<m>>] = [drain EXCEPT ![q] = SweptOn(d, d.pc, i, m)]
    BY <2>1 DEF SweptOn, Drains, Turns
  <2>. QED
    BY <2>2 DEF i, m
<1>. QED
  BY <1>1, <1>3, <1>4, <1>5, <1>6

LEMMA AbortedTurnEndsSound ==
    ASSUME Sound(owner, registered, queue, drain), NEW q \in QueueIds, AbortedTurnEnds(q)
    PROVE  Sound(owner, registered', queue', drain')
<1>. DEFINE d == drain[q]
            items == Spliced(q).items
            bad == AbortedAt(items, d.at - 1)
<1>1. Sweeping(d) /\ d.at # 0
  BY AbortedTurnEndsIs
<1>2. /\ d.pc # "idle" /\ d.pc # "running" /\ d \in Drains /\ TurnSound(d.turn) /\ d.force \in BOOLEAN
      /\ queue[q].draining /\ d.at \in Nat
  BY <1>1, SoundAt DEF Sweeping
<1>3. /\ Spliced(q) \in QueueStates /\ Spliced(q).draining /\ items \in Seq(Messages)
      /\ Swept(q) \in QueueStates /\ Swept(q).draining
  BY <1>1, <1>2, SplicedType
<1>4. SoundBut(owner, q)
  BY <1>2, ApartFrom
<1>5. Len(items) \in Nat
  BY <1>3, Members
<1>6. CASE d.at - 1 > Len(items)
  BY <1>3, <1>4, <1>6, AbortedTurnEndsIs, LeaveSound
<1>7. CASE d.at - 1 <= Len(items) /\ bad # {}
  <2>. DEFINE i == Max(bad)
              m == items[i]
              e == SweptOn(d, d.pc, i, m)
  <2>1. Become(registered, [queue EXCEPT ![q] = Spliced(q)], [drain EXCEPT ![q] = e])
    BY <1>7, AbortedTurnEndsIs
  <2>2. d.at - 1 \in 0..Len(items)
    BY <1>1, <1>2, <1>5, <1>7
  <2>3. i \in 1..(d.at - 1) /\ m \in Messages
    BY <1>3, <1>7, <2>2, AbortedIndex
  <2>4. i \in Nat \ {0}
    BY <2>3
  <2>5. d.pc \in {"abortBefore", "abortAfter"}
    BY <1>1 DEF Sweeping
  <2>. HIDE DEF i, m
  <2>6. e \in Drains /\ DrainSound(e) /\ e.pc = d.pc
    BY <1>2, <2>3, <2>4, <2>5, SweptOnSound
  <2>. HIDE DEF e
  <2>. QED
    BY <1>2, <1>3, <1>4, <2>1, <2>6, GoesOnSound
<1>8. CASE d.at - 1 <= Len(items) /\ bad = {}
  <2>1. AfterSweep(q, d.pc, Swept(q), d.force)
    BY <1>8, AbortedTurnEndsIs
  <2>. QED
    BY <1>2, <1>3, <1>4, <2>1, AfterSweepSound
<1>. QED
  BY <1>1, <1>2, <1>5, <1>6, <1>7, <1>8

\* The object after the entries of a finished turn were taken off.
TakenOff(q) ==
    LET taken == TakeOff(queue[q], Len(drain[q].turn.carries))
    IN IF drain[q].turn.overflow THEN WithoutSummary(taken) ELSE taken

LEMMA TakenOffType ==
    ASSUME Sound(owner, registered, queue, drain), NEW q \in QueueIds
    PROVE  /\ TakenOff(q) \in QueueStates /\ TakenOff(q).draining = queue[q].draining
           /\ TakenOff(q).items = SubSeq(queue[q].items, Len(drain[q].turn.carries) + 1,
                                         Len(queue[q].items))
<1>. DEFINE n == Len(drain[q].turn.carries)
            left == SubSeq(queue[q].items, n + 1, Len(queue[q].items))
            taken == TakeOff(queue[q], n)
<1>1. /\ queue[q] \in QueueStates /\ queue[q].items \in Seq(Messages)
      /\ drain[q].turn.carries \in Seq(Messages)
  BY SoundAt
<1>2. n \in Nat
  BY <1>1, Members
<1>. HIDE DEF n
<1>3. left \in Seq(Messages)
  BY <1>1, <1>2, DropFront
<1>4. taken = [queue[q] EXCEPT !.items = left]
  BY DEF TakeOff
<1>5. taken \in QueueStates /\ taken.draining = queue[q].draining /\ taken.items = left
  BY <1>1, <1>3, <1>4 DEF QueueStates, Entries
<1>6. TakenOff(q) = IF drain[q].turn.overflow THEN WithoutSummary(taken) ELSE taken
  BY DEF TakenOff, n
<1>. HIDE DEF taken
<1>. QED
  BY <1>5, <1>6, WithoutSummaryType DEF n

LEMMA FinishTurnIs ==
    ASSUME NEW q, FinishTurn(q)
    PROVE  /\ drain[q].turn.rest # <<>> =>
                  StartTurn(q, TakenOff(q), drain[q].force, GroupTurn(drain[q].turn.rest))
           /\ drain[q].turn.rest = <<>> => Iterate(q, TakenOff(q), drain[q].force)
BY DEF FinishTurn, TakenOff

LEMMA FinishTurnSound ==
    ASSUME Sound(owner, registered, queue, drain), NEW q \in QueueIds, FinishTurn(q), NEW own,
           SoundBut(own, q), drain[q].pc # "idle"
    PROVE  Sound(own, registered', queue', drain')
<1>1. /\ drain[q].force \in BOOLEAN /\ drain[q].turn.rest \in Seq(Messages)
      /\ Batchable(drain[q].turn.rest) /\ queue[q].draining
  BY SoundAt DEF TurnSound
<1>2. TakenOff(q) \in QueueStates /\ TakenOff(q).draining
  BY <1>1, TakenOffType
<1>3. CASE drain[q].turn.rest # <<>>
  <2>1. StartTurn(q, TakenOff(q), drain[q].force, GroupTurn(drain[q].turn.rest))
    BY <1>3, FinishTurnIs
  <2>2. GroupTurn(drain[q].turn.rest) \in Turns /\ TurnSound(GroupTurn(drain[q].turn.rest))
    BY <1>1, <1>3, GroupTurnSound
  <2>. QED
    BY <1>1, <1>2, <2>1, <2>2, StartTurnSound
<1>4. CASE drain[q].turn.rest = <<>>
  <2>1. Iterate(q, TakenOff(q), drain[q].force)
    BY <1>4, FinishTurnIs
  <2>. QED
    BY <1>1, <1>2, <2>1, IterateSound
<1>. QED
  BY <1>3, <1>4

\* The object as a deferred turn leaves it, and as a failed one does.
Restored(q) ==
    LET rec == queue[q]
        turn == drain[q].turn
        same == rec.droppedCount >= turn.count /\ IsPrefix(turn.lines, rec.summaryLines)
    IN IF ~turn.overflow \/ same THEN rec
       ELSE [rec EXCEPT !.droppedCount = IF @ >= turn.count THEN @ ELSE @ + turn.count,
                        !.summaryLines = turn.lines \o @]

Failed(q) ==
    IF drain[q].turn.overflow THEN [queue[q] EXCEPT !.summarySources = <<>>] ELSE queue[q]

LEMMA RestoredType ==
    ASSUME Sound(owner, registered, queue, drain), NEW q \in QueueIds
    PROVE  Restored(q) \in QueueStates /\ Failed(q) \in QueueStates
<1>. DEFINE rec == queue[q]
            turn == drain[q].turn
            count == IF rec.droppedCount >= turn.count THEN rec.droppedCount
                     ELSE rec.droppedCount + turn.count
            same == rec.droppedCount >= turn.count /\ IsPrefix(turn.lines, rec.summaryLines)
<1>1. rec \in QueueStates /\ turn \in Turns
  BY SoundAt
<1>2. /\ rec.droppedCount \in Nat /\ turn.count \in Nat
      /\ rec.summaryLines \in Seq(Messages) /\ turn.lines \in Seq(Messages)
  BY <1>1 DEF QueueStates, Turns, Entries
<1>3. turn.lines \o rec.summaryLines \in Seq(Messages)
  BY <1>2, ConcatProperties
<1>4. count \in Nat
  BY <1>2
<1>5. Restored(q) = IF ~turn.overflow \/ same THEN rec
                    ELSE [rec EXCEPT !.droppedCount = count, !.summaryLines = turn.lines \o @]
  BY DEF Restored
<1>6. Failed(q) \in QueueStates
  <2>1. <<>> \in Entries
    BY DEF Entries
  <2>2. [rec EXCEPT !.summarySources = <<>>] \in QueueStates
    BY <1>1, <2>1 DEF QueueStates
  <2>. QED
    BY <1>1, <2>2 DEF Failed
<1>. HIDE DEF count, same, rec, turn
<1>7. [rec EXCEPT !.droppedCount = count, !.summaryLines = turn.lines \o @] \in QueueStates
  BY <1>1, <1>3, <1>4 DEF QueueStates, Entries
<1>. QED
  BY <1>1, <1>5, <1>6, <1>7

LEMMA TurnAdmittedSound ==
    ASSUME Sound(owner, registered, queue, drain), NEW q \in QueueIds, TurnAdmitted(q)
    PROVE  Sound(owner', registered', queue', drain')
<1>. DEFINE d == [drain[q] EXCEPT !.pc = "running"]
<1>1. /\ drain[q].pc = "waiting" /\ owner = NoOwner /\ owner' = q
      /\ drain' = [drain EXCEPT ![q].pc = "running"] /\ registered' = registered /\ queue' = queue
  BY DEF TurnAdmitted
<1>2. drain[q] \in Drains /\ TurnSound(drain[q].turn) /\ queue[q].draining
  BY <1>1, SoundAt
<1>3. d \in Drains /\ d.pc = "running" /\ DrainSound(d)
  BY <1>2 DEF Drains, DrainSound, Sweeping
<1>. HIDE DEF d
<1>4. drain' = [drain EXCEPT ![q] = d]
  BY <1>1 DEF d
<1>5. drain \in [QueueIds -> Drains] /\ q # NoOwner
  BY NamesAssumption DEF Sound
<1>6. drain' \in [QueueIds -> Drains]
  BY <1>3, <1>4, <1>5
<1>7. ASSUME NEW p \in QueueIds
      PROVE  ObjectSound(owner' = p, queue'[p], drain'[p])
  <2>1. CASE p = q
    BY <1>1, <1>2, <1>3, <1>4, <1>5, <2>1 DEF ObjectSound
  <2>2. CASE p # q
    <3>1. drain'[p] = drain[p] /\ ObjectSound(owner = p, queue[p], drain[p])
      BY <1>4, <1>5, <2>2 DEF Sound
    <3>2. owner # p /\ owner' # p
      BY <1>1, <1>7, <2>2, NamesAssumption
    <3>. QED
      BY <1>1, <3>1, <3>2 DEF ObjectSound
  <2>. QED
    BY <2>1, <2>2
<1>. QED
  BY <1>1, <1>6, <1>7 DEF Sound

\* Of the owner it only matters which drain it is.
LEMMA SameOwnerSound ==
    ASSUME NEW own, NEW own2, NEW reg, NEW qs, NEW ds, Sound(own, reg, qs, ds),
           \A p \in QueueIds : own = p <=> own2 = p
    PROVE  Sound(own2, reg, qs, ds)
<1>1. \A p \in QueueIds : ObjectSound(own2 = p, qs[p], ds[p])
  <2>. SUFFICES ASSUME NEW p \in QueueIds PROVE ObjectSound(own2 = p, qs[p], ds[p])
    OBVIOUS
  <2>1. ObjectSound(own = p, qs[p], ds[p])
    BY DEF Sound
  <2>2. own = p <=> own2 = p
    OBVIOUS
  <2>. QED
    BY <2>1, <2>2 DEF ObjectSound
<1>. QED
  BY <1>1 DEF Sound

\* What /stop leaves of the object it takes out of the map.
Cleared(rec) == [WithoutSummary(rec) EXCEPT !.items = <<>>, !.lastRun = FALSE]

LEMMA ClearedType ==
    ASSUME NEW rec \in QueueStates
    PROVE  Cleared(rec) \in QueueStates /\ Cleared(rec).draining = rec.draining
<1>1. WithoutSummary(rec) \in QueueStates /\ WithoutSummary(rec).draining = rec.draining
  BY WithoutSummaryType
<1>. DEFINE w == WithoutSummary(rec)
<1>2. <<>> \in Entries
  BY DEF Entries
<1>. HIDE DEF w
<1>3. /\ [w EXCEPT !.items = <<>>, !.lastRun = FALSE] \in QueueStates
      /\ [w EXCEPT !.items = <<>>, !.lastRun = FALSE].draining = w.draining
  BY <1>1, <1>2 DEF QueueStates, w
<1>. QED
  BY <1>1, <1>3 DEF Cleared, w

LEMMA ClearSound ==
    ASSUME NEW own, Sound(own, registered, queue, drain), registered # NoQueue,
           Become(NoQueue, [queue EXCEPT ![registered] = Cleared(queue[registered])], drain)
    PROVE  Sound(own, registered', queue', drain')
<1>. DEFINE rec == Cleared(queue[registered])
            qs == [queue EXCEPT ![registered] = rec]
<1>1. registered \in QueueIds /\ queue[registered] \in QueueStates
  BY DEF Sound
<1>2. rec \in QueueStates /\ rec.draining = queue[registered].draining
  BY <1>1, ClearedType
<1>. HIDE DEF rec
<1>3. Sound(own, registered, qs, drain)
  BY <1>1, <1>2, PutSound
<1>. HIDE DEF qs
<1>4. Sound(own, NoQueue, qs, drain)
  BY <1>3 DEF Sound
<1>. QED
  BY <1>4, BecomeSound DEF qs, rec

\* Every step keeps the objects sound.
LEMMA NextSound ==
    ASSUME Sound(owner, registered, queue, drain), [Next]_vars
    PROVE  Sound(owner', registered', queue', drain')
<1>1. ASSUME NEW m \in Messages, NEW s \in Settings, EnqueueFollowupRun(m, s)
      PROVE  Sound(owner', registered', queue', drain')
  <2>1. owner' = owner
    BY <1>1 DEF EnqueueFollowupRun
  <2>. QED
    BY <1>1, <2>1, EnqueueSound
<1>2. ASSUME NEW q \in QueueIds, DebounceEnds(q)
      PROVE  Sound(owner', registered', queue', drain')
  <2>1. owner' = owner
    BY <1>2 DEF DebounceEnds
  <2>. QED
    BY <1>2, <2>1, DebounceEndsSound
<1>3. ASSUME NEW q \in QueueIds, AbortedTurnEnds(q)
      PROVE  Sound(owner', registered', queue', drain')
  <2>1. owner' = owner
    BY <1>3 DEF AbortedTurnEnds
  <2>. QED
    BY <1>3, <2>1, AbortedTurnEndsSound
<1>4. ASSUME NEW q \in QueueIds, TurnAdmitted(q)
      PROVE  Sound(owner', registered', queue', drain')
  BY <1>4, TurnAdmittedSound
<1>5. ASSUME NEW q \in QueueIds, TurnDeferred(q)
      PROVE  Sound(owner', registered', queue', drain')
  <2>1. owner' = owner /\ drain[q].pc = "waiting" /\ Leave(q, Restored(q))
    BY <1>5 DEF TurnDeferred, Restored
  <2>2. SoundBut(owner, q) /\ Restored(q) \in QueueStates
    BY <2>1, ApartFrom, RestoredType
  <2>. QED
    BY <2>1, <2>2, LeaveSound
<1>6. ASSUME NEW q \in QueueIds, TurnSucceeds(q)
      PROVE  Sound(owner', registered', queue', drain')
  <2>1. owner' = NoOwner /\ drain[q].pc = "running" /\ FinishTurn(q)
    BY <1>6 DEF TurnSucceeds, Owns
  <2>2. SoundBut(NoOwner, q)
    BY <2>1, ApartFrom
  <2>. QED
    BY <2>1, <2>2, FinishTurnSound
<1>7. ASSUME NEW q \in QueueIds, TurnSkipped(q)
      PROVE  Sound(owner', registered', queue', drain')
  <2>1. owner' = owner /\ drain[q].pc = "waiting" /\ FinishTurn(q)
    BY <1>7 DEF TurnSkipped
  <2>2. SoundBut(owner, q)
    BY <2>1, ApartFrom
  <2>. QED
    BY <2>1, <2>2, FinishTurnSound
<1>8. ASSUME NEW q \in QueueIds, TurnFails(q)
      PROVE  Sound(owner', registered', queue', drain')
  <2>1. owner' = NoOwner /\ drain[q].pc = "running" /\ Leave(q, Failed(q))
    BY <1>8 DEF TurnFails, Owns, Failed
  <2>2. SoundBut(NoOwner, q) /\ Failed(q) \in QueueStates
    BY <2>1, ApartFrom, RestoredType
  <2>. QED
    BY <2>1, <2>2, LeaveSound
<1>9. CASE MainTurnAdmitted
  <2>1. /\ owner = NoOwner /\ owner' = MainTurn
        /\ registered' = registered /\ queue' = queue /\ drain' = drain
    BY <1>9 DEF MainTurnAdmitted
  <2>2. \A p \in QueueIds : NoOwner = p <=> MainTurn = p
    BY NamesAssumption
  <2>. QED
    BY <2>1, <2>2, SameOwnerSound
<1>10. CASE MainTurnEnds
  <2>1. owner = MainTurn /\ owner' = NoOwner /\ Schedule(registered, queue, drain)
    BY <1>10 DEF MainTurnEnds
  <2>2. \A p \in QueueIds : MainTurn = p <=> NoOwner = p
    BY NamesAssumption
  <2>3. Sound(NoOwner, registered, queue, drain)
    BY <2>1, <2>2, SameOwnerSound
  <2>. QED
    BY <2>1, <2>3, ScheduleSound
<1>11. CASE ClearSessionQueues
  <2>1. /\ owner' = owner /\ registered # NoQueue
        /\ Become(NoQueue, [queue EXCEPT ![registered] = Cleared(queue[registered])], drain)
    BY <1>11 DEF ClearSessionQueues, Cleared
  <2>. QED
    BY <2>1, ClearSound
<1>12. ASSUME NEW m \in Messages, AbortMessage(m) \/ ForgetRecent(m)
       PROVE  Sound(owner', registered', queue', drain')
  BY <1>12 DEF AbortMessage, ForgetRecent
<1>13. CASE UNCHANGED vars
  BY <1>13 DEF vars
<1>. QED
  BY <1>1, <1>2, <1>3, <1>4, <1>5, <1>6, <1>7, <1>8, <1>9, <1>10, <1>11, <1>12, <1>13 DEF Next

-----------------------------------------------------------------------------
(* The first two results.                                                  *)

\* The types of what is not an object or a drain.
HistoryTyped ==
    /\ owner \in QueueIds \cup {NoOwner, MainTurn}
    /\ recent \subseteq Messages /\ aborted \subseteq Abortable
    /\ accepted \in [Messages -> Nat] /\ answered \in [Messages -> Nat]
    /\ discarded \in [Messages -> Nat]
    /\ completed \subseteq RuntimeOnly
    /\ mainTurns \in Nat /\ failures \in Nat /\ stops \in Nat

LEMMA BumpType ==
    ASSUME NEW counts \in [Messages -> Nat], NEW S
    PROVE  /\ Bump(counts, S) \in [Messages -> Nat]
           /\ \A m \in Messages : Bump(counts, S)[m] = counts[m] + (IF m \in S THEN 1 ELSE 0)
<1>1. \A m \in Messages : counts[m] + (IF m \in S THEN 1 ELSE 0) \in Nat
  OBVIOUS
<1>. QED
  BY <1>1 DEF Bump

LEMMA NextHistoryTyped ==
    ASSUME HistoryTyped, [Next]_vars
    PROVE  HistoryTyped'
<1>. USE DEF HistoryTyped
<1>. DEFINE Same == UNCHANGED <<recent, aborted, history, bounds>>
            Counts == /\ accepted' \in [Messages -> Nat] /\ answered' \in [Messages -> Nat]
                      /\ discarded' \in [Messages -> Nat]
<1>1. ASSUME NEW m \in Messages, NEW s \in Settings, EnqueueFollowupRun(m, s)
      PROVE  HistoryTyped'
  <2>1. /\ owner' = owner /\ aborted' = aborted /\ UNCHANGED bounds /\ UNCHANGED answered
        /\ recent' \in {recent, recent \cup {m}}
        /\ accepted' = accepted \/ accepted' = Bump(accepted, {m})
        /\ discarded' = discarded \/ \E S : discarded' = Bump(discarded, S)
        /\ completed' = completed \/ \E T : completed' = (completed \ {m}) \cup Lifecycles(T)
    BY <1>1 DEF EnqueueFollowupRun, history, Discard
  <2>2. accepted' \in [Messages -> Nat] /\ discarded' \in [Messages -> Nat]
    BY <2>1, BumpType
  <2>3. completed' \subseteq RuntimeOnly
    BY <2>1 DEF Lifecycles
  <2>. QED
    BY <2>1, <2>2, <2>3 DEF bounds
<1>2. ASSUME NEW q \in QueueIds, DebounceEnds(q)
      PROVE  HistoryTyped'
  BY <1>2 DEF DebounceEnds, history, bounds
<1>3. ASSUME NEW q \in QueueIds, AbortedTurnEnds(q)
      PROVE  HistoryTyped'
  <2>1. /\ UNCHANGED <<owner, recent, aborted, accepted, answered, bounds>>
        /\ \E S : discarded' = Bump(discarded, S)
        /\ \E T : completed' = completed \cup Lifecycles(T)
    BY <1>3, Zenon DEF AbortedTurnEnds, Discard
  <2>2. discarded' \in [Messages -> Nat]
    BY <2>1, BumpType
  <2>3. completed' \subseteq RuntimeOnly
    BY <2>1 DEF Lifecycles
  <2>. QED
    BY <2>1, <2>2, <2>3 DEF bounds
<1>4. ASSUME NEW q \in QueueIds, TurnAdmitted(q)
      PROVE  HistoryTyped'
  BY <1>4 DEF TurnAdmitted, history, bounds
<1>5. ASSUME NEW q \in QueueIds, TurnDeferred(q)
      PROVE  HistoryTyped'
  BY <1>5 DEF TurnDeferred, history, bounds
<1>6. ASSUME NEW q \in QueueIds, TurnSucceeds(q) \/ TurnSkipped(q)
      PROVE  HistoryTyped'
  <2>1. /\ owner' \in {owner, NoOwner}
        /\ UNCHANGED <<recent, aborted, accepted, discarded, bounds>>
        /\ \E S : answered' = Bump(answered, S)
        /\ \E T : completed' = completed \cup Lifecycles(T)
    BY <1>6, Zenon DEF TurnSucceeds, TurnSkipped, FinishTurn
  <2>2. answered' \in [Messages -> Nat]
    BY <2>1, BumpType
  <2>3. completed' \subseteq RuntimeOnly
    BY <2>1 DEF Lifecycles
  <2>. QED
    BY <2>1, <2>2, <2>3 DEF bounds
<1>7. ASSUME NEW q \in QueueIds, TurnFails(q)
      PROVE  HistoryTyped'
  <2>1. /\ owner' = NoOwner /\ failures' = failures + 1
        /\ UNCHANGED <<recent, aborted, accepted, answered, discarded, mainTurns, stops>>
        /\ \E T : completed' = completed \cup Lifecycles(T)
    BY <1>7, Zenon DEF TurnFails
  <2>2. completed' \subseteq RuntimeOnly
    BY <2>1 DEF Lifecycles
  <2>. QED
    BY <2>1, <2>2
<1>8. CASE MainTurnAdmitted
  BY <1>8 DEF MainTurnAdmitted, history
<1>9. CASE MainTurnEnds
  BY <1>9 DEF MainTurnEnds, history, bounds
<1>10. CASE ClearSessionQueues
  <2>1. /\ UNCHANGED <<owner, recent, aborted, accepted, answered, mainTurns, failures>>
        /\ stops' = stops + 1
        /\ \E S : discarded' = Bump(discarded, S)
        /\ \E T : completed' = completed \cup Lifecycles(T)
    BY <1>10, Zenon DEF ClearSessionQueues, Discard
  <2>2. discarded' \in [Messages -> Nat]
    BY <2>1, BumpType
  <2>3. completed' \subseteq RuntimeOnly
    BY <2>1 DEF Lifecycles
  <2>. QED
    BY <2>1, <2>2, <2>3
<1>11. ASSUME NEW m \in Messages, AbortMessage(m)
       PROVE  HistoryTyped'
  BY <1>11 DEF AbortMessage, history, bounds
<1>12. ASSUME NEW m \in Messages, ForgetRecent(m)
       PROVE  HistoryTyped'
  BY <1>12 DEF ForgetRecent, history, bounds
<1>13. CASE UNCHANGED vars
  BY <1>13 DEF vars, history, bounds
<1>. QED
  BY <1>1, <1>2, <1>3, <1>4, <1>5, <1>6, <1>7, <1>8, <1>9, <1>10, <1>11, <1>12, <1>13 DEF Next

LEMMA InitSound ==
    ASSUME Init
    PROVE  Sound(owner, registered, queue, drain) /\ HistoryTyped
<1>1. queue \in [QueueIds -> QueueStates] /\ drain \in [QueueIds -> Drains]
  BY NoQueueStateType, NoDrainSound DEF Init
<1>2. ASSUME NEW p \in QueueIds
      PROVE  ObjectSound(owner = p, queue[p], drain[p])
  <2>1. queue[p] = NoQueueState /\ drain[p] = NoDrain /\ owner # p
    BY NamesAssumption DEF Init
  <2>. QED
    BY <2>1, NoQueueStateType, NoDrainSound DEF ObjectSound
<1>3. HistoryTyped
  BY DEF Init, HistoryTyped
<1>. QED
  BY <1>1, <1>2, <1>3 DEF Init, Sound

LEMMA SpecSound == Spec => [](Sound(owner, registered, queue, drain) /\ HistoryTyped)
<1>. DEFINE I == Sound(owner, registered, queue, drain) /\ HistoryTyped
<1>1. Init => I
  BY InitSound
<1>2. I /\ [Next]_vars => I'
  <2>. SUFFICES ASSUME Sound(owner, registered, queue, drain), HistoryTyped, [Next]_vars
                PROVE  Sound(owner', registered', queue', drain') /\ HistoryTyped'
    BY DEF Sound
  <2>. QED
    BY NextSound, NextHistoryTyped
<1>. QED
  BY <1>1, <1>2, PTL DEF Spec

\* Every variable keeps its type, a queue object drains exactly while its drain
\* loop is alive, and the reply operation's owner is the drain whose turn runs
\* (scheduleFollowupDrain, admitReplyTurn), whatever the settings.
THEOREM TypeCorrect == Spec => []TypeOK
<1>1. Sound(owner, registered, queue, drain) /\ HistoryTyped => TypeOK
  <2>. SUFFICES ASSUME Sound(owner, registered, queue, drain), HistoryTyped PROVE TypeOK
    OBVIOUS
  <2>1. \A p \in QueueIds : /\ queue[p].draining <=> drain[p].pc # "idle"
                            /\ owner = p <=> Owns(p)
    BY SoundAt DEF Owns
  <2>. QED
    BY <2>1 DEF Sound, HistoryTyped, TypeOK
<1>. QED
  BY SpecSound, <1>1, PTL

\* Messages share a turn only if their replies go to one place, their senders
\* have the same authorization, and none has runtime-only metadata
\* (hasCrossChannelItems, splitCollectItemsByAuthorization), whatever was
\* dropped, cleared or enqueued while the groups of a batch were answered.
THEOREM NeverMixed == Spec => []TurnsDoNotMix
<1>1. Sound(owner, registered, queue, drain) => TurnsDoNotMix
  <2>. SUFFICES ASSUME Sound(owner, registered, queue, drain), NEW q \in QueueIds,
                       NEW m \in ToSet(drain[q].turn.speaks), NEW n \in ToSet(drain[q].turn.speaks),
                       m # n
                PROVE  /\ AuthOf[m] = AuthOf[n]
                       /\ {m, n} \cap RuntimeOnly = {}
                       /\ Unroutable \notin {RouteOf[m], RouteOf[n]}
                       /\ RouteOf[m] = RouteOf[n] \/ NoRoute \in {RouteOf[m], RouteOf[n]}
    BY DEF TurnsDoNotMix
  <2>1. TurnSound(drain[q].turn)
    BY SoundAt
  <2>. QED
    BY <2>1 DEF TurnSound, Batchable, OneKey
<1>. QED
  BY SpecSound, <1>1, PTL

-----------------------------------------------------------------------------
(* Part two: no entry waits for a wakeup that never comes.                 *)

\* The map's entry, if there is one, is being drained, and nothing else is.
Drained(reg, qs, ds) == Alone(reg, ds) /\ (reg # NoQueue => qs[reg].draining)

LEMMA BecomeKeeps ==
    ASSUME NEW reg, NEW qs, NEW ds, Become(reg, qs, ds)
    PROVE  registered' = reg /\ drain' = ds /\ (reg \in QueueIds => queue'[reg] = qs[reg])
BY DEF Become, Live

LEMMA ScheduleDrains ==
    ASSUME NEW own, NEW reg, NEW qs, NEW ds, Sound(own, reg, qs, ds), Alone(reg, ds),
           Schedule(reg, qs, ds)
    PROVE  Drained(registered', queue', drain')
<1>0. reg # NoQueue => reg \in QueueIds
  BY DEF Sound
<1>1. CASE reg = NoQueue \/ (reg # NoQueue /\ qs[reg].draining)
  <2>1. Become(reg, qs, ds)
    BY <1>1 DEF Schedule
  <2>. QED
    BY <1>0, <1>1, <2>1, BecomeKeeps DEF Drained, Alone
<1>2. CASE reg # NoQueue /\ ~qs[reg].draining /\ HasWork(qs[reg])
  <2>. DEFINE qs2 == [qs EXCEPT ![reg].draining = TRUE]
              ds2 == [ds EXCEPT ![reg] = LoopTop(qs[reg].items, FALSE)]
  <2>1. Become(reg, qs2, ds2)
    BY <1>2 DEF Schedule
  <2>2. qs2[reg].draining = TRUE
    BY <1>0, <1>2 DEF Sound, QueueStates
  <2>3. \A p \in QueueIds : p # reg => ds2[p] = ds[p]
    BY DEF Sound
  <2>. HIDE DEF qs2, ds2
  <2>. QED
    BY <1>0, <1>2, <2>1, <2>2, <2>3, BecomeKeeps DEF Drained, Alone
<1>3. CASE reg # NoQueue /\ ~qs[reg].draining /\ ~HasWork(qs[reg])
  <2>1. Become(NoQueue, qs, ds)
    BY <1>3 DEF Schedule
  <2>2. ds[reg].pc = "idle"
    BY <1>0, <1>3 DEF Sound, ObjectSound
  <2>. QED
    BY <1>0, <1>3, <2>1, <2>2, BecomeKeeps DEF Drained, Alone
<1>. QED
  BY <1>1, <1>2, <1>3

LEMMA LeaveDrains ==
    ASSUME NEW own, NEW q \in QueueIds, NEW rec \in QueueStates, SoundBut(own, q),
           Alone(registered, drain), registered = q, Leave(q, rec)
    PROVE  Drained(registered', queue', drain')
<1>. DEFINE qs == LeftQueue(q, rec)
            ds == LeftDrain(q)
<1>1. Sound(own, registered, qs, ds) /\ \A p \in QueueIds : ds[p].pc = "idle"
  <2>1. /\ Sound(own, registered, qs, ds) /\ ds[q] = NoDrain
        /\ \A p \in QueueIds \ {q} : ds[p] = drain[p]
    <3>1. registered \in QueueIds \cup {NoQueue}
      BY DEF SoundBut
    <3>2. Sound(own, registered, LeftQueue(q, rec), LeftDrain(q))
      BY <3>1, LeftSound
    <3>3. LeftDrain(q)[q] = NoDrain
      BY DEF SoundBut, LeftDrain
    <3>4. \A p \in QueueIds \ {q} : LeftDrain(q)[p] = drain[p]
      BY DEF SoundBut, LeftDrain
    <3>. QED
      BY <3>2, <3>3, <3>4
  <2>2. \A p \in QueueIds \ {q} : drain[p].pc = "idle"
    BY DEF Alone
  <2>. QED
    BY <2>1, <2>2, NoDrainSound
<1>2. Alone(registered, ds) /\ Alone(NoQueue, ds)
  BY <1>1 DEF Alone
<1>. HIDE DEF qs, ds
<1>3. CASE HasWork(rec)
  <2>1. Schedule(registered, qs, ds)
    BY <1>3, LeaveIs DEF qs, ds
  <2>. QED
    BY <1>1, <1>2, <2>1, ScheduleDrains
<1>4. CASE ~HasWork(rec)
  <2>1. Become(NoQueue, qs, ds)
    BY <1>4, LeaveIs DEF qs, ds
  <2>. QED
    BY <1>2, <2>1, BecomeKeeps DEF Drained
<1>. QED
  BY <1>3, <1>4

LEMMA GoesOnDrains ==
    ASSUME NEW own, NEW q \in QueueIds, NEW rec, SoundBut(own, q), rec.draining,
           Alone(registered, drain), registered = q, NEW d,
           Become(registered, [queue EXCEPT ![q] = rec], [drain EXCEPT ![q] = d])
    PROVE  Drained(registered', queue', drain')
<1>1. [queue EXCEPT ![q] = rec][q] = rec
  BY DEF SoundBut
<1>2. \A p \in QueueIds \ {q} : [drain EXCEPT ![q] = d][p] = drain[p]
  BY DEF SoundBut
<1>. DEFINE qs == [queue EXCEPT ![q] = rec]
            ds == [drain EXCEPT ![q] = d]
<1>. HIDE DEF qs, ds
<1>3. registered' = registered /\ drain' = ds /\ queue'[registered] = qs[registered]
  BY BecomeKeeps DEF qs, ds
<1>4. queue'[registered'].draining
  BY <1>1, <1>3 DEF qs
<1>5. Alone(registered', drain')
  BY <1>2, <1>3 DEF Alone, ds
<1>. QED
  BY <1>4, <1>5 DEF Drained

LEMMA AfterSweepDrains ==
    ASSUME NEW own, NEW q \in QueueIds, NEW rec \in QueueStates, SoundBut(own, q), rec.draining,
           Alone(registered, drain), registered = q,
           NEW force, NEW phase, AfterSweep(q, phase, rec, force)
    PROVE  Drained(registered', queue', drain')
<1>1. CASE Leave(q, rec)
  BY <1>1, LeaveDrains
<1>2. ASSUME NEW f, NEW turn, StartTurn(q, rec, f, turn)
      PROVE  Drained(registered', queue', drain')
  BY <1>2, GoesOnDrains DEF StartTurn
<1>3. CASE HasWork(rec) /\ phase = "abortBefore"
  <2>1. Become(registered, [queue EXCEPT ![q] = rec],
               [drain EXCEPT ![q] = [NoDrain EXCEPT !.pc = "debounce", !.force = force]])
    BY <1>3 DEF AfterSweep
  <2>. QED
    BY <2>1, GoesOnDrains
<1>4. CASE HasWork(rec) /\ phase # "abortBefore" /\ rec.mode = "collect"
  BY <1>1, <1>2, <1>4 DEF AfterSweep, Dispatch, CollectTurn
<1>5. CASE HasWork(rec) /\ phase # "abortBefore" /\ rec.mode # "collect"
  BY <1>1, <1>2, <1>5 DEF AfterSweep, Dispatch, FollowupTurn
<1>6. CASE ~HasWork(rec)
  BY <1>1, <1>6 DEF AfterSweep
<1>. QED
  BY <1>3, <1>4, <1>5, <1>6

LEMMA FinishTurnDrains ==
    ASSUME Sound(owner, registered, queue, drain), NEW q \in QueueIds, FinishTurn(q), NEW own,
           SoundBut(own, q), drain[q].pc # "idle", Alone(registered, drain)
    PROVE  Drained(registered', queue', drain')
<1>1. registered = q
  BY DEF Alone
<1>2. TakenOff(q) \in QueueStates /\ TakenOff(q).draining
  BY SoundAt, TakenOffType
<1>3. CASE drain[q].turn.rest # <<>>
  <2>1. StartTurn(q, TakenOff(q), drain[q].force, GroupTurn(drain[q].turn.rest))
    BY <1>3, FinishTurnIs
  <2>. QED
    BY <1>1, <1>2, <2>1, GoesOnDrains DEF StartTurn
<1>4. CASE drain[q].turn.rest = <<>>
  <2>1. Iterate(q, TakenOff(q), drain[q].force)
    BY <1>4, FinishTurnIs
  <2>. QED
    BY <1>1, <1>2, <2>1, GoesOnDrains, LeaveDrains DEF Iterate
<1>. QED
  BY <1>3, <1>4

Awaited(own, reg, qs, ds) == Alone(reg, ds) /\ Attended(own, reg, qs)

LEMMA DrainedAwaited ==
    ASSUME NEW own, NEW reg, NEW qs, NEW ds, Drained(reg, qs, ds)
    PROVE  Awaited(own, reg, qs, ds)
BY DEF Drained, Awaited, Attended

LEMMA EnqueueAwaited ==
    ASSUME Sound(owner, registered, queue, drain), Awaited(owner, registered, queue, drain),
           NEW m \in Messages, NEW s \in Settings, EnqueueFollowupRun(m, s)
    PROVE  Awaited(owner', registered', queue', drain')
<1>1. PICK rec \in PutsOf(queue[EnqueueAt], m, s) : Puts(EnqueueAt, rec)
  BY EnqueuePuts
<1>2. /\ EnqueueAt \in QueueIds /\ owner' = owner
      /\ registered # NoQueue => EnqueueAt = registered
  BY EnqueuePuts, EnqueueAtIs DEF Sound, EnqueueFollowupRun
<1>3. queue[EnqueueAt] \in QueueStates
  BY <1>2 DEF Sound
<1>4. rec \in QueueStates /\ rec.draining = queue[EnqueueAt].draining
  BY <1>1, <1>3, PutsType
<1>. DEFINE qs == [queue EXCEPT ![EnqueueAt] = rec]
<1>5. Sound(owner, EnqueueAt, qs, drain)
  BY <1>2, <1>4, PutSound
<1>6. Alone(EnqueueAt, drain)
  BY <1>2, NamesAssumption DEF Awaited, Alone
<1>7. CASE owner = NoOwner
  <2>1. Schedule(EnqueueAt, qs, drain)
    BY <1>1, <1>7 DEF Puts
  <2>. QED
    BY <1>5, <1>6, <2>1, ScheduleDrains, DrainedAwaited
<1>8. CASE owner # NoOwner
  <2>1. Become(EnqueueAt, qs, drain)
    BY <1>1, <1>8 DEF Puts
  <2>. QED
    BY <1>2, <1>6, <1>8, <2>1, BecomeKeeps DEF Awaited, Attended
<1>. QED
  BY <1>7, <1>8

\* Every step but a /stop keeps the queue awaited.
LEMMA NextAwaited ==
    ASSUME Sound(owner, registered, queue, drain), HistoryTyped,
           stops = 0 => Awaited(owner, registered, queue, drain), [Next]_vars, stops' = 0
    PROVE  Awaited(owner', registered', queue', drain')
<1>0. stops = 0
  <2>1. stops' = stops \/ stops' = stops + 1
    BY DEF Next, vars, bounds, EnqueueFollowupRun, DebounceEnds, AbortedTurnEnds, TurnAdmitted,
           TurnDeferred, TurnSucceeds, TurnSkipped, TurnFails, MainTurnAdmitted, MainTurnEnds,
           ClearSessionQueues, AbortMessage, ForgetRecent
  <2>. QED
    BY <2>1 DEF HistoryTyped
<1>. USE <1>0 DEF Awaited
<1>a. ASSUME NEW q \in QueueIds, drain[q].pc # "idle"
      PROVE  registered = q /\ queue[q] \in QueueStates /\ queue[q].draining
  BY <1>a, SoundAt DEF Alone
<1>1. ASSUME NEW m \in Messages, NEW s \in Settings, EnqueueFollowupRun(m, s)
      PROVE  Awaited(owner', registered', queue', drain')
  BY <1>1, EnqueueAwaited
<1>2. ASSUME NEW q \in QueueIds, DebounceEnds(q)
      PROVE  Awaited(owner', registered', queue', drain')
  <2>1. drain[q].pc = "debounce"
    BY <1>2 DEF DebounceEnds
  <2>2. SoundBut(owner, q)
    BY <2>1, ApartFrom
  <2>3. Drained(registered', queue', drain')
    BY <1>2, <1>a, <2>1, <2>2, DebounceEndsIs, AfterSweepDrains, GoesOnDrains
  <2>. QED
    BY <2>3, DrainedAwaited
<1>3. ASSUME NEW q \in QueueIds, AbortedTurnEnds(q)
      PROVE  Awaited(owner', registered', queue', drain')
  <2>. DEFINE d == drain[q]
              items == Spliced(q).items
              bad == AbortedAt(items, d.at - 1)
  <2>1. Sweeping(d) /\ d.at # 0
    BY <1>3, AbortedTurnEndsIs
  <2>2. d.pc # "idle" /\ d.pc # "running" /\ d.at \in Nat
    BY <2>1, SoundAt DEF Sweeping
  <2>3. /\ Spliced(q) \in QueueStates /\ Spliced(q).draining /\ items \in Seq(Messages)
        /\ Swept(q) \in QueueStates /\ Swept(q).draining
    BY <1>a, <2>1, <2>2, SplicedType
  <2>4. SoundBut(owner, q) /\ registered = q /\ Len(items) \in Nat
    BY <1>a, <2>2, <2>3, ApartFrom, Members
  <2>5. CASE d.at - 1 > Len(items)
    BY <1>3, <2>3, <2>4, <2>5, AbortedTurnEndsIs, LeaveDrains, DrainedAwaited
  <2>6. CASE d.at - 1 <= Len(items) /\ bad # {}
    <3>. DEFINE e == SweptOn(d, d.pc, Max(bad), items[Max(bad)])
    <3>1. Become(registered, [queue EXCEPT ![q] = Spliced(q)], [drain EXCEPT ![q] = e])
      BY <1>3, <2>6, AbortedTurnEndsIs
    <3>. HIDE DEF e
    <3>. QED
      BY <2>3, <2>4, <3>1, GoesOnDrains, DrainedAwaited
  <2>7. CASE d.at - 1 <= Len(items) /\ bad = {}
    <3>1. AfterSweep(q, d.pc, Swept(q), d.force)
      BY <1>3, <2>7, AbortedTurnEndsIs
    <3>. QED
      BY <2>3, <2>4, <3>1, AfterSweepDrains, DrainedAwaited
  <2>. QED
    BY <2>2, <2>4, <2>5, <2>6, <2>7
<1>4. ASSUME NEW q \in QueueIds, TurnAdmitted(q)
      PROVE  Awaited(owner', registered', queue', drain')
  <2>1. /\ drain[q].pc = "waiting" /\ drain' = [drain EXCEPT ![q].pc = "running"]
        /\ owner' = q /\ registered' = registered
    BY <1>4 DEF TurnAdmitted
  <2>2. \A p \in QueueIds : drain'[p].pc # "idle" => drain[p].pc # "idle"
    BY <2>1 DEF Sound, Drains
  <2>. QED
    BY <2>1, <2>2, NamesAssumption DEF Alone, Attended
<1>5. ASSUME NEW q \in QueueIds, TurnDeferred(q)
      PROVE  Awaited(owner', registered', queue', drain')
  <2>1. drain[q].pc = "waiting" /\ Leave(q, Restored(q))
    BY <1>5 DEF TurnDeferred, Restored
  <2>2. SoundBut(owner, q) /\ Restored(q) \in QueueStates /\ registered = q
    BY <1>a, <2>1, ApartFrom, RestoredType
  <2>. QED
    BY <2>1, <2>2, LeaveDrains, DrainedAwaited
<1>6. ASSUME NEW q \in QueueIds, TurnSucceeds(q) \/ TurnSkipped(q)
      PROVE  Awaited(owner', registered', queue', drain')
  <2>1. drain[q].pc \in {"running", "waiting"} /\ FinishTurn(q)
    BY <1>6 DEF TurnSucceeds, TurnSkipped, Owns
  <2>2. \E own : SoundBut(own, q)
    BY <2>1, ApartFrom
  <2>3. Drained(registered', queue', drain')
    BY <2>1, <2>2, FinishTurnDrains
  <2>. QED
    BY <2>3, DrainedAwaited
<1>7. ASSUME NEW q \in QueueIds, TurnFails(q)
      PROVE  Awaited(owner', registered', queue', drain')
  <2>1. drain[q].pc = "running" /\ Leave(q, Failed(q))
    BY <1>7 DEF TurnFails, Owns, Failed
  <2>2. SoundBut(NoOwner, q) /\ Failed(q) \in QueueStates /\ registered = q
    BY <1>a, <2>1, ApartFrom, RestoredType
  <2>. QED
    BY <2>1, <2>2, LeaveDrains, DrainedAwaited
<1>8. CASE MainTurnAdmitted
  BY <1>8, NamesAssumption DEF MainTurnAdmitted, Alone, Attended
<1>9. CASE MainTurnEnds
  BY <1>9, ScheduleDrains, DrainedAwaited DEF MainTurnEnds
<1>10. CASE ClearSessionQueues
  <2>1. stops' = 1
    BY <1>10 DEF ClearSessionQueues
  <2>. QED
    BY <2>1
<1>11. ASSUME NEW m \in Messages, AbortMessage(m) \/ ForgetRecent(m)
       PROVE  Awaited(owner', registered', queue', drain')
  BY <1>11 DEF AbortMessage, ForgetRecent, Alone, Attended
<1>12. CASE UNCHANGED vars
  BY <1>12 DEF vars, Alone, Attended
<1>. QED
  BY <1>1, <1>2, <1>3, <1>4, <1>5, <1>6, <1>7, <1>8, <1>9, <1>10, <1>11, <1>12 DEF Next

\* Before the first /stop, a queue with entries is being drained, or a reply
\* operation is active whose end starts its drain (the runner's second look,
\* completeThen, and the drain's finally block), whatever the settings and
\* whatever fails, defers or aborts.  After a /stop the code does not keep it.
THEOREM AlwaysAwaited == Spec => [](stops = 0 => QueuedWorkIsAwaited)
<1>. DEFINE S == Sound(owner, registered, queue, drain) /\ HistoryTyped
            A == stops = 0 => Awaited(owner, registered, queue, drain)
<1>1. Init => A
  BY DEF Init, Awaited, Alone, Attended, NoDrain
<1>2. S /\ A /\ [Next]_vars => A'
  <2>. SUFFICES ASSUME Sound(owner, registered, queue, drain), HistoryTyped,
                       stops = 0 => Awaited(owner, registered, queue, drain), [Next]_vars,
                       stops' = 0
                PROVE  Awaited(owner', registered', queue', drain')
    BY DEF Awaited, Alone, Attended
  <2>. QED
    BY NextAwaited
<1>3. A => (stops = 0 => QueuedWorkIsAwaited)
  BY DEF Awaited, Attended, QueuedWorkIsAwaited
<1>. QED
  BY SpecSound, <1>1, <1>2, <1>3, PTL DEF Spec

-----------------------------------------------------------------------------
(* Part three: what is owed.                                               *)

\* One entry is spliced away.
LEMMA EntryTaken ==
    ASSUME NEW items \in Seq(Messages), NEW at \in 1..Len(items), IsInjective(items)
    PROVE  /\ ToSet(RemoveAt(items, at)) = ToSet(items) \ {items[at]}
           /\ IsInjective(RemoveAt(items, at)) /\ items[at] \in ToSet(items)
<1>. DEFINE left == RemoveAt(items, at)
<1>1. /\ Len(items) \in Nat /\ DOMAIN items = 1..Len(items) /\ at \in Nat
      /\ \A i \in 1..Len(items) : items[i] \in ToSet(items)
      /\ \A m \in ToSet(items) : \E i \in 1..Len(items) : items[i] = m
  BY Members
<1>2. /\ left \in Seq(Messages) /\ Len(left) = Len(items) - 1
      /\ \A i \in 1..(Len(items) - 1) : left[i] = IF i < at THEN items[i] ELSE items[i + 1]
  BY RemovedAt
<1>. HIDE DEF left
<1>3. /\ DOMAIN left = 1..Len(left) /\ \A i \in 1..Len(left) : left[i] \in ToSet(left)
      /\ \A m \in ToSet(left) : \E i \in 1..Len(left) : left[i] = m
  BY <1>2, Members
<1>4. \A i, j \in 1..Len(items) : items[i] = items[j] => i = j
  BY <1>1 DEF IsInjective
<1>. DEFINE Was(i) == IF i < at THEN i ELSE i + 1
<1>5. \A i \in 1..Len(left) : Was(i) \in 1..Len(items) /\ left[i] = items[Was(i)] /\ Was(i) # at
  BY <1>1, <1>2
<1>6. \A i, j \in 1..Len(left) : Was(i) = Was(j) => i = j
  BY <1>1, <1>2
<1>7. \A k \in 1..Len(items) : k # at => \E i \in 1..Len(left) : Was(i) = k
  <2>. SUFFICES ASSUME NEW k \in 1..Len(items), k # at
                PROVE  \E i \in 1..Len(left) : Was(i) = k
    OBVIOUS
  <2>1. CASE k < at
    <3>1. k \in 1..Len(left) /\ Was(k) = k
      BY <1>1, <1>2, <2>1
    <3>. QED
      BY <3>1
  <2>2. CASE ~(k < at)
    <3>1. k - 1 \in 1..Len(left) /\ Was(k - 1) = k
      BY <1>1, <1>2, <2>2
    <3>. QED
      BY <3>1
  <2>. QED
    BY <2>1, <2>2
<1>. HIDE DEF Was
<1>8. IsInjective(left)
  <2>. SUFFICES ASSUME NEW i \in 1..Len(left), NEW j \in 1..Len(left), left[i] = left[j]
                PROVE  i = j
    BY <1>3 DEF IsInjective
  <2>1. items[Was(i)] = items[Was(j)] /\ Was(i) \in 1..Len(items) /\ Was(j) \in 1..Len(items)
    BY <1>5
  <2>. QED
    BY <1>4, <1>6, <2>1
<1>9. ASSUME NEW m \in ToSet(left) PROVE m \in ToSet(items) /\ m # items[at]
  <2>1. PICK i \in 1..Len(left) : left[i] = m
    BY <1>3
  <2>2. Was(i) \in 1..Len(items) /\ items[Was(i)] = m /\ Was(i) # at
    BY <1>5, <2>1
  <2>. QED
    BY <1>1, <1>4, <2>2
<1>10. ASSUME NEW m \in ToSet(items), m # items[at] PROVE m \in ToSet(left)
  <2>1. PICK k \in 1..Len(items) : items[k] = m
    BY <1>1
  <2>2. PICK i \in 1..Len(left) : Was(i) = k
    BY <1>7, <1>10, <2>1
  <2>. QED
    BY <1>3, <1>5, <2>1, <2>2
<1>. QED
  BY <1>1, <1>8, <1>9, <1>10 DEF left

LEMMA EntryAdded ==
    ASSUME NEW items \in Seq(Messages), NEW m \in Messages, IsInjective(items), m \notin ToSet(items)
    PROVE  /\ Append(items, m) \in Seq(Messages) /\ IsInjective(Append(items, m))
           /\ ToSet(Append(items, m)) = ToSet(items) \cup {m}
           /\ Len(Append(items, m)) = Len(items) + 1
           /\ \A i \in 1..Len(items) : Append(items, m)[i] = items[i]
<1>. DEFINE more == Append(items, m)
<1>1. /\ Len(items) \in Nat /\ DOMAIN items = 1..Len(items)
      /\ \A i \in 1..Len(items) : items[i] \in ToSet(items)
      /\ \A x \in ToSet(items) : \E i \in 1..Len(items) : items[i] = x
  BY Members
<1>2. /\ more \in Seq(Messages) /\ Len(more) = Len(items) + 1
      /\ \A i \in 1..Len(items) : more[i] = items[i]
      /\ more[Len(items) + 1] = m
  BY AppendProperties
<1>. HIDE DEF more
<1>3. /\ DOMAIN more = 1..Len(more) /\ \A i \in 1..Len(more) : more[i] \in ToSet(more)
      /\ \A x \in ToSet(more) : \E i \in 1..Len(more) : more[i] = x
  BY <1>2, Members
<1>4. \A i, j \in 1..Len(items) : items[i] = items[j] => i = j
  BY <1>1 DEF IsInjective
<1>5. IsInjective(more)
  <2>. SUFFICES ASSUME NEW i \in 1..Len(more), NEW j \in 1..Len(more), more[i] = more[j]
                PROVE  i = j
    BY <1>3 DEF IsInjective
  <2>1. \A k \in 1..Len(more) : k = Len(items) + 1 \/ (k \in 1..Len(items) /\ more[k] # m)
    BY <1>1, <1>2
  <2>. QED
    BY <1>2, <1>4, <2>1
<1>6. ToSet(more) = ToSet(items) \cup {m}
  <2>1. ASSUME NEW x \in ToSet(more) PROVE x \in ToSet(items) \cup {m}
    <3>1. PICK i \in 1..Len(more) : more[i] = x
      BY <1>3
    <3>2. i \in 1..Len(items) \/ i = Len(items) + 1
      BY <1>1, <1>2
    <3>. QED
      BY <1>1, <1>2, <3>1, <3>2
  <2>2. ASSUME NEW x \in ToSet(items) PROVE x \in ToSet(more)
    <3>1. PICK i \in 1..Len(items) : items[i] = x
      BY <1>1
    <3>2. i \in 1..Len(more) /\ more[i] = x
      BY <1>1, <1>2, <3>1
    <3>. QED
      BY <1>3, <3>2
  <2>3. m \in ToSet(more)
    <3>1. Len(items) + 1 \in 1..Len(more)
      BY <1>1, <1>2
    <3>. QED
      BY <1>2, <1>3, <3>1
  <2>. QED
    BY <2>1, <2>2, <2>3
<1>. QED
  BY <1>2, <1>5, <1>6 DEF more

LEMMA NothingOwed ==
    /\ \A m, items : ~Owes(m, <<>>, items)
    /\ \A m : \A items \in Seq(Messages) : ~Owes(m, items, items)
    /\ \A m : \A items \in Seq(Messages) : items # <<>> => ~Owes(m, <<Head(items)>>, items)
<1>1. \A m, items : ~Owes(m, <<>>, items)
  BY ToSetEmpty DEF Owes
<1>2. ASSUME NEW m, NEW items \in Seq(Messages), Owes(m, items, items) PROVE FALSE
  <2>1. PICK i \in 1..Len(items) : items[i] = m
    BY <1>2, Members DEF Owes
  <2>2. i <= i
    BY <2>1, Members
  <2>. QED
    BY <1>2, <2>1, <2>2 DEF Owes, Covered
<1>3. ASSUME NEW m, NEW items \in Seq(Messages), items # <<>>, Owes(m, <<Head(items)>>, items)
      PROVE  FALSE
  <2>1. Head(items) \in Messages /\ Head(items) = items[1] /\ Len(items) \in Nat /\ Len(items) >= 1
    BY <1>3, HeadOf, Members
  <2>. DEFINE h == Head(items)
  <2>2. Len(<<h>>) = 1 /\ <<h>>[1] = h /\ ToSet(<<h>>) = {h}
    BY <2>1, PairIsSingle
  <2>3. m = h /\ 1 \in 1..Len(items) /\ 1 \in 1..Len(<<h>>)
    BY <1>3, <2>1, <2>2 DEF Owes
  <2>. HIDE DEF h
  <2>4. Covered(m, <<h>>, items)
    BY <2>1, <2>2, <2>3 DEF Covered, h
  <2>. QED
    BY <1>3, <2>4 DEF Owes, h
<1>. QED
  BY <1>1, <1>2, <1>3

\* The front of a list is gone.
LEMMA FrontGone ==
    ASSUME NEW s \in Seq(Messages), NEW n \in Nat
    PROVE  LET left == SubSeq(s, n + 1, Len(s))
           IN  /\ left \in Seq(Messages) /\ ToSet(left) \subseteq ToSet(s)
               /\ \A i \in 1..Len(left) : n + i \in 1..Len(s) /\ left[i] = s[n + i]
               /\ \A i \in 1..Len(s) : i > n => i - n \in 1..Len(left) /\ left[i - n] = s[i]
               /\ IsInjective(s) => IsInjective(left)
<1>. DEFINE left == SubSeq(s, n + 1, Len(s))
<1>1. Len(s) \in Nat /\ DOMAIN s = 1..Len(s)
  BY Members
<1>2. /\ left \in Seq(Messages) /\ ToSet(left) \subseteq ToSet(s)
      /\ n <= Len(s) => Len(left) = Len(s) - n /\ \A i \in 1..(Len(s) - n) : left[i] = s[n + i]
  BY DropFront
<1>3. n > Len(s) => Len(left) = 0
  <2>1. n > Len(s) => Len(s) < n + 1 /\ n + 1 \in Int /\ Len(s) \in Int
    BY <1>1
  <2>2. n > Len(s) => left = <<>>
    BY <2>1, SubSeqEmpty
  <2>. HIDE DEF left
  <2>. QED
    BY <2>2
<1>. HIDE DEF left
<1>4. DOMAIN left = 1..Len(left) /\ Len(left) \in Nat
  BY <1>2, Members
<1>5. ASSUME NEW i \in 1..Len(left)
      PROVE  n + i \in 1..Len(s) /\ left[i] = s[n + i]
  <2>1. n <= Len(s)
    BY <1>1, <1>3
  <2>2. i \in 1..(Len(s) - n) /\ Len(left) = Len(s) - n
    BY <1>2, <2>1
  <2>. QED
    BY <1>1, <1>2, <2>1, <2>2
<1>6. ASSUME NEW i \in 1..Len(s), i > n
      PROVE  i - n \in 1..Len(left) /\ left[i - n] = s[i]
  <2>1. n <= Len(s) /\ i - n \in 1..(Len(s) - n) /\ n + (i - n) = i
    BY <1>1, <1>6
  <2>. QED
    BY <1>2, <2>1
<1>7. IsInjective(s) => IsInjective(left)
  <2>. SUFFICES ASSUME IsInjective(s), NEW i \in 1..Len(left), NEW j \in 1..Len(left),
                       left[i] = left[j]
                PROVE  i = j
    BY <1>4 DEF IsInjective
  <2>1. n + i \in 1..Len(s) /\ n + j \in 1..Len(s) /\ s[n + i] = s[n + j]
    BY <1>5
  <2>2. n + i = n + j
    BY <1>1, <2>1 DEF IsInjective
  <2>. QED
    BY <2>2
<1>. QED
  BY <1>2, <1>5, <1>6, <1>7 DEF left

\* A message within the first n entries is gone with them.
LEMMA GoneWithFront ==
    ASSUME NEW s \in Seq(Messages), NEW n \in Nat, IsInjective(s), NEW y \in 1..Len(s), y <= n
    PROVE  s[y] \in ToSet(s) /\ s[y] \notin ToSet(SubSeq(s, n + 1, Len(s)))
<1>. DEFINE left == SubSeq(s, n + 1, Len(s))
<1>1. /\ left \in Seq(Messages)
      /\ \A i \in 1..Len(left) : n + i \in 1..Len(s) /\ left[i] = s[n + i]
  BY FrontGone
<1>. HIDE DEF left
<1>2. DOMAIN s = 1..Len(s) /\ Len(s) \in Nat
  BY Members
<1>3. ASSUME s[y] \in ToSet(left) PROVE FALSE
  <2>1. PICK i \in 1..Len(left) : left[i] = s[y]
    BY <1>1, <1>3, Members
  <2>2. n + i \in 1..Len(s) /\ s[n + i] = s[y]
    BY <1>1, <2>1
  <2>3. n + i = y
    BY <1>2, <2>2 DEF IsInjective
  <2>. QED
    BY <1>1, <2>1, <2>3, Members
<1>. QED
  BY <1>3, Members DEF left

\* A turn ends: k messages are answered, and k entries taken off.
LEMMA TurnPaid ==
    ASSUME NEW due \in Seq(Messages), NEW items \in Seq(Messages), NEW k \in Nat,
           IsInjective(items), IsInjective(due), NEW m
    PROVE  LET left == SubSeq(items, k + 1, Len(items))
               later == SubSeq(due, k + 1, Len(due))
               said == \E i \in 1..Len(due) : i <= k /\ due[i] = m
           IN  /\ m \in ToSet(left) => m \in ToSet(items)
               /\ said => m \notin ToSet(later)
               /\ said /\ ~Owes(m, due, items) => m \in ToSet(items) /\ m \notin ToSet(left)
               /\ Owes(m, later, left) /\ ~Owes(m, due, items) =>
                      m \in ToSet(items) /\ m \notin ToSet(left)
<1>. DEFINE left == SubSeq(items, k + 1, Len(items))
            later == SubSeq(due, k + 1, Len(due))
            said == \E i \in 1..Len(due) : i <= k /\ due[i] = m
<1>1. /\ left \in Seq(Messages) /\ ToSet(left) \subseteq ToSet(items)
      /\ \A i \in 1..Len(items) : i > k => i - k \in 1..Len(left) /\ left[i - k] = items[i]
  BY FrontGone
<1>2. /\ later \in Seq(Messages) /\ ToSet(later) \subseteq ToSet(due)
      /\ \A i \in 1..Len(later) : k + i \in 1..Len(due) /\ later[i] = due[k + i]
      /\ \A i \in 1..Len(due) : i > k => i - k \in 1..Len(later) /\ later[i - k] = due[i]
  BY FrontGone
<1>3. Len(due) \in Nat /\ Len(items) \in Nat /\ DOMAIN due = 1..Len(due)
  BY Members
<1>4. ASSUME said PROVE m \in ToSet(due) /\ m \notin ToSet(later)
  <2>1. PICK i \in 1..Len(due) : i <= k /\ due[i] = m
    BY <1>4
  <2>. QED
    BY <2>1, GoneWithFront
<1>5. \A y \in 1..Len(items) : y <= k => items[y] \in ToSet(items) /\ items[y] \notin ToSet(left)
  BY GoneWithFront
<1>. HIDE DEF left, later
<1>6. ASSUME said, ~Owes(m, due, items) PROVE m \in ToSet(items) /\ m \notin ToSet(left)
  <2>1. PICK x \in 1..Len(due), y \in 1..Len(items) : due[x] = m /\ items[y] = m /\ y <= x
    BY <1>4, <1>6 DEF Owes, Covered
  <2>2. PICK i \in 1..Len(due) : i <= k /\ due[i] = m
    BY <1>6
  <2>3. i = x
    BY <1>3, <2>1, <2>2 DEF IsInjective
  <2>4. y <= k
    BY <1>3, <2>1, <2>2, <2>3
  <2>. QED
    BY <1>5, <2>1, <2>4
<1>7. ASSUME Owes(m, later, left), ~Owes(m, due, items)
      PROVE  m \in ToSet(items) /\ m \notin ToSet(left)
  <2>1. m \in ToSet(due)
    BY <1>2, <1>7 DEF Owes
  <2>2. PICK x \in 1..Len(due), y \in 1..Len(items) : due[x] = m /\ items[y] = m /\ y <= x
    BY <1>7, <2>1 DEF Owes, Covered
  <2>3. x > k
    <3>1. ASSUME x <= k PROVE FALSE
      BY <1>4, <1>7, <2>2, <3>1 DEF Owes
    <3>. QED
      BY <1>3, <3>1
  <2>4. CASE y <= k
    BY <1>5, <2>2, <2>4
  <2>5. CASE ~(y <= k)
    <3>1. y - k \in 1..Len(left) /\ left[y - k] = m
      BY <1>1, <1>3, <2>2, <2>5
    <3>2. x - k \in 1..Len(later) /\ later[x - k] = m /\ y - k <= x - k
      BY <1>2, <1>3, <2>2, <2>3
    <3>3. Covered(m, later, left)
      BY <3>1, <3>2 DEF Covered
    <3>. QED
      BY <1>7, <3>3 DEF Owes
  <2>. QED
    BY <2>4, <2>5
<1>. QED
  BY <1>1, <1>4, <1>6, <1>7 DEF left, later

\* An enqueue drops g entries from the front, in flight or not, and adds n.
LEMMA EntryPushed ==
    ASSUME NEW due \in Seq(Messages), NEW items \in Seq(Messages), NEW g \in Nat,
           IsInjective(items), NEW n \in Messages, n \notin ToSet(items)
    PROVE  LET more == Append(SubSeq(items, g + 1, Len(items)), n)
           IN  /\ more \in Seq(Messages) /\ IsInjective(more)
               /\ \A m : /\ m # n /\ m \in ToSet(more) => m \in ToSet(items)
                         /\ m # n /\ Owes(m, due, more) /\ ~Owes(m, due, items) =>
                                m \in ToSet(items) /\ m \notin ToSet(more)
               /\ Owes(n, due, more) => Owes(n, due, items)
<1>. DEFINE left == SubSeq(items, g + 1, Len(items))
            more == Append(left, n)
<1>1. /\ left \in Seq(Messages) /\ ToSet(left) \subseteq ToSet(items) /\ IsInjective(left)
      /\ \A i \in 1..Len(items) : i > g => i - g \in 1..Len(left) /\ left[i - g] = items[i]
  BY FrontGone
<1>2. \A y \in 1..Len(items) : y <= g => items[y] \in ToSet(items) /\ items[y] \notin ToSet(left)
  BY GoneWithFront
<1>. HIDE DEF left
<1>3. /\ more \in Seq(Messages) /\ IsInjective(more)
      /\ ToSet(more) = ToSet(left) \cup {n} /\ Len(more) = Len(left) + 1
      /\ \A i \in 1..Len(left) : more[i] = left[i]
  BY <1>1, EntryAdded
<1>. HIDE DEF more
<1>4. Len(items) \in Nat /\ Len(due) \in Nat /\ Len(left) \in Nat
  BY <1>1, Members
<1>5. ASSUME NEW m, m # n, Owes(m, due, more), ~Owes(m, due, items)
      PROVE  m \in ToSet(items) /\ m \notin ToSet(more)
  <2>1. PICK x \in 1..Len(due), y \in 1..Len(items) : due[x] = m /\ items[y] = m /\ y <= x
    BY <1>5 DEF Owes, Covered
  <2>2. CASE y <= g
    BY <1>2, <1>3, <1>5, <2>1, <2>2
  <2>3. CASE ~(y <= g)
    <3>1. y - g \in 1..Len(left) /\ left[y - g] = m
      BY <1>1, <1>4, <2>1, <2>3
    <3>2. y - g \in 1..Len(more) /\ more[y - g] = m
      BY <1>3, <1>4, <3>1
    <3>4. y - g <= x
      BY <1>4, <2>1
    <3>3. Covered(m, due, more)
      BY <2>1, <3>2, <3>4 DEF Covered
    <3>. QED
      BY <1>5, <3>3 DEF Owes
  <2>. QED
    BY <2>2, <2>3
<1>6. Owes(n, due, more) => Owes(n, due, items)
  <2>1. ~Covered(n, due, items)
    <3>1. \A y \in 1..Len(items) : items[y] # n
      BY Members
    <3>. QED
      BY <3>1 DEF Covered
  <2>. QED
    BY <2>1 DEF Owes
<1>. QED
  BY <1>1, <1>3, <1>5, <1>6 DEF left, more

-----------------------------------------------------------------------------
(* Part three: the pieces of the drain loop.                               *)

\* An object holds and owes no more than before.
NoWorse(rec, d, rec2, d2) ==
    \A m : /\ Holds(m, rec2) => Holds(m, rec)
           /\ Owed(m, rec2, d2) => Owed(m, rec, d)

\* The step carries on with these values.
Settles(qs, ds) ==
    /\ Tidy(queue', drain')
    /\ \A p \in QueueIds : NoWorse(qs[p], ds[p], queue'[p], drain'[p])

\* The step leaves the other objects as they were, or better, and q with items
\* in its list and due to be answered, or with less.
Moves(q, items, due) ==
    /\ Tidy(queue', drain')
    /\ \A p \in QueueIds \ {q} : NoWorse(queue[p], drain[p], queue'[p], drain'[p])
    /\ \A m : /\ Holds(m, queue'[q]) => m \in ToSet(items)
              /\ Owed(m, queue'[q], drain'[q]) => Owes(m, due, items)

LEMMA DueIs ==
    ASSUME NEW turn \in Turns
    PROVE  /\ Due(turn) \in Seq(Messages)
           /\ Len(Due(turn)) = Len(turn.speaks) + Len(turn.rest)
           /\ \A i \in 1..Len(turn.speaks) : Due(turn)[i] = turn.speaks[i]
           /\ \A i \in 1..Len(turn.rest) : Due(turn)[Len(turn.speaks) + i] = turn.rest[i]
<1>1. turn.speaks \in Seq(Messages) /\ turn.rest \in Seq(Messages)
  BY DEF Turns, Entries
<1>. DEFINE s == turn.speaks
            r == turn.rest
<1>2. Len(s) \in Nat /\ Len(r) \in Nat /\ s \in Seq(Messages) /\ r \in Seq(Messages)
  BY <1>1, Members
<1>. HIDE DEF s, r
<1>3. /\ s \o r \in Seq(Messages) /\ Len(s \o r) = Len(s) + Len(r)
      /\ \A i \in 1..(Len(s) + Len(r)) : (s \o r)[i] = IF i <= Len(s) THEN s[i] ELSE r[i - Len(s)]
  BY <1>2, ConcatProperties
<1>4. \A i \in 1..Len(s) : (s \o r)[i] = s[i]
  BY <1>2, <1>3
<1>5. \A i \in 1..Len(r) : (s \o r)[Len(s) + i] = r[i]
  <2>. SUFFICES ASSUME NEW i \in 1..Len(r) PROVE (s \o r)[Len(s) + i] = r[i]
    OBVIOUS
  <2>1. Len(s) + i \in 1..(Len(s) + Len(r)) /\ ~(Len(s) + i <= Len(s)) /\ Len(s) + i - Len(s) = i
    BY <1>2
  <2>. QED
    BY <1>3, <2>1
<1>. QED
  BY <1>3, <1>4, <1>5 DEF Due, s, r

LEMMA NothingDue ==
    /\ \A turn : turn.speaks = <<>> /\ turn.rest = <<>> => Due(turn) = <<>>
    /\ Due(NoTurn) = <<>> /\ IsInjective(<<>>)
    /\ \A turn \in Turns : Due(turn) = <<>> => turn.speaks = <<>> /\ turn.rest = <<>>
<1>1. <<>> \o <<>> = <<>>
  BY ConcatEmptySeq
<1>2. ASSUME NEW turn \in Turns, Due(turn) = <<>>
      PROVE  turn.speaks = <<>> /\ turn.rest = <<>>
  <2>1. turn.speaks \in Seq(Messages) /\ turn.rest \in Seq(Messages)
    BY DEF Turns, Entries
  <2>2. Len(turn.speaks) \in Nat /\ Len(turn.rest) \in Nat /\ Len(turn.speaks) + Len(turn.rest) = 0
    BY <1>2, <2>1, DueIs, Members
  <2>3. Len(turn.speaks) = 0 /\ Len(turn.rest) = 0
    <3>1. \A a, b \in Nat : a + b = 0 => a = 0 /\ b = 0
      OBVIOUS
    <3>. QED
      BY <2>2, <3>1
  <2>. QED
    BY <2>1, <2>3, EmptySeq
<1>. QED
  BY <1>1, <1>2 DEF Due, NoTurn, IsInjective

LEMMA BecomeTidy ==
    ASSUME NEW reg, NEW qs, NEW ds, Tidy(qs, ds), Become(reg, qs, ds)
    PROVE  Settles(qs, ds)
<1>1. /\ drain' = ds
      /\ queue' = [q \in QueueIds |-> IF q = reg \/ qs[q].draining THEN qs[q] ELSE NoQueueState]
  BY DEF Become, Live
<1>2. NoQueueState.items = <<>>
  BY DEF NoQueueState
<1>3. ASSUME NEW p \in QueueIds
      PROVE  ObjectTidy(queue'[p], ds[p]) /\ NoWorse(qs[p], ds[p], queue'[p], ds[p])
  <2>1. ObjectTidy(qs[p], ds[p])
    BY DEF Tidy
  <2>2. CASE queue'[p] = qs[p]
    BY <2>1, <2>2 DEF NoWorse
  <2>3. CASE queue'[p] = NoQueueState /\ ~qs[p].draining
    <3>1. Due(ds[p].turn) = <<>>
      BY <2>1, <2>3 DEF ObjectTidy
    <3>2. ObjectTidy(queue'[p], ds[p])
      BY <1>2, <2>1, <2>3, <3>1, NothingDue DEF ObjectTidy
    <3>3. NoWorse(qs[p], ds[p], queue'[p], ds[p])
      BY <1>2, <2>3, <3>1, NothingOwed, ToSetEmpty DEF NoWorse, Holds, Owed
    <3>. QED
      BY <3>2, <3>3
  <2>. QED
    BY <1>1, <2>2, <2>3
<1>. QED
  BY <1>1, <1>3 DEF Settles, Tidy

LEMMA LoopTopTidy ==
    ASSUME NEW items, NEW force
    PROVE  TurnTidy(LoopTop(items, force)) /\ Due(LoopTop(items, force).turn) = <<>>
<1>. DEFINE d == LoopTop(items, force)
            bad == AbortedAt(items, Len(items))
<1>1. d.turn.speaks = <<>> /\ d.turn.rest = <<>>
  <2>1. CASE bad = {}
    BY <2>1 DEF LoopTop, NoDrain, NoTurn
  <2>2. CASE bad # {}
    <3>1. d = [NoDrain EXCEPT !.pc = "abortBefore", !.at = Max(bad), !.force = force,
                              !.turn.carries = <<items[Max(bad)]>>]
      BY <2>2 DEF LoopTop
    <3>. HIDE DEF bad
    <3>2. d.turn = [NoTurn EXCEPT !.carries = <<items[Max(bad)]>>]
      BY <3>1 DEF NoDrain
    <3>. HIDE DEF d
    <3>. QED
      BY <3>2 DEF NoTurn
  <2>. QED
    BY <2>1, <2>2
<1>. HIDE DEF d
<1>. QED
  BY <1>1, NothingDue DEF TurnTidy, d

LEMMA ScheduleTidy ==
    ASSUME NEW own, NEW reg, NEW qs, NEW ds, Sound(own, reg, qs, ds), Tidy(qs, ds),
           Schedule(reg, qs, ds)
    PROVE  Settles(qs, ds)
<1>0. reg \in QueueIds \cup {NoQueue} /\ qs \in [QueueIds -> QueueStates] /\ ds \in [QueueIds -> Drains]
  BY DEF Sound
<1>1. CASE reg = NoQueue \/ (reg # NoQueue /\ qs[reg].draining)
  BY <1>1, BecomeTidy DEF Schedule
<1>2. CASE reg # NoQueue /\ ~qs[reg].draining /\ HasWork(qs[reg])
  <2>. DEFINE d == LoopTop(qs[reg].items, FALSE)
              qs2 == [qs EXCEPT ![reg].draining = TRUE]
              ds2 == [ds EXCEPT ![reg] = d]
  <2>1. Become(reg, qs2, ds2)
    BY <1>2 DEF Schedule
  <2>2. reg \in QueueIds /\ qs[reg] \in QueueStates
    BY <1>0, <1>2
  <2>3. qs2[reg].items = qs[reg].items /\ qs2[reg].draining /\ ds2[reg] = d
    BY <1>0, <2>2 DEF QueueStates
  <2>4. \A p \in QueueIds \ {reg} : qs2[p] = qs[p] /\ ds2[p] = ds[p]
    BY <1>0
  <2>5. TurnTidy(d) /\ Due(d.turn) = <<>>
    BY LoopTopTidy
  <2>. HIDE DEF d, qs2, ds2
  <2>6. ASSUME NEW p \in QueueIds
        PROVE  ObjectTidy(qs2[p], ds2[p]) /\ NoWorse(qs[p], ds[p], qs2[p], ds2[p])
    <3>1. ObjectTidy(qs[p], ds[p])
      BY DEF Tidy
    <3>2. CASE p = reg
      BY <2>3, <2>5, <3>1, <3>2, NothingOwed DEF ObjectTidy, NoWorse, Holds, Owed
    <3>3. CASE p # reg
      BY <2>4, <3>1, <3>3 DEF NoWorse
    <3>. QED
      BY <3>2, <3>3
  <2>7. Settles(qs2, ds2)
    BY <2>1, <2>6, BecomeTidy DEF Tidy
  <2>. QED
    BY <2>6, <2>7 DEF Settles, NoWorse
<1>3. CASE reg # NoQueue /\ ~qs[reg].draining /\ ~HasWork(qs[reg])
  BY <1>3, BecomeTidy DEF Schedule
<1>. QED
  BY <1>1, <1>2, <1>3

\* What holds of the values the step carries on with holds of the step.
LEMMA MovesOn ==
    ASSUME NEW q \in QueueIds, NEW qs, NEW ds, Settles(qs, ds),
           \A p \in QueueIds \ {q} : qs[p] = queue[p] /\ ds[p] = drain[p],
           NEW items, items = qs[q].items, NEW due, due = Due(ds[q].turn)
    PROVE  Moves(q, items, due)
<1>1. NoWorse(qs[q], ds[q], queue'[q], drain'[q])
  BY DEF Settles
<1>. QED
  BY <1>1 DEF Settles, Moves, NoWorse, Holds, Owed

\* The drain of q goes on with the object rec, at d.
LEMMA GoesOnTidy ==
    ASSUME NEW own, NEW q \in QueueIds, NEW rec \in QueueStates, SoundBut(own, q),
           Tidy(queue, drain), IsInjective(rec.items), rec.draining, NEW d, TurnTidy(d),
           Become(registered, [queue EXCEPT ![q] = rec], [drain EXCEPT ![q] = d])
    PROVE  Moves(q, rec.items, Due(d.turn))
<1>. DEFINE qs == [queue EXCEPT ![q] = rec]
            ds == [drain EXCEPT ![q] = d]
<1>1. /\ qs[q] = rec /\ ds[q] = d
      /\ \A p \in QueueIds \ {q} : qs[p] = queue[p] /\ ds[p] = drain[p]
  BY DEF SoundBut
<1>. HIDE DEF qs, ds
<1>2. Tidy(qs, ds)
  <2>. SUFFICES ASSUME NEW p \in QueueIds PROVE ObjectTidy(qs[p], ds[p])
    BY DEF Tidy
  <2>1. CASE p = q
    BY <1>1, <2>1 DEF ObjectTidy
  <2>2. CASE p # q
    BY <1>1, <2>2 DEF Tidy
  <2>. QED
    BY <2>1, <2>2
<1>3. Settles(qs, ds)
  BY <1>2, BecomeTidy DEF qs, ds
<1>. QED
  BY <1>1, <1>3, MovesOn

LEMMA LeaveTidy ==
    ASSUME NEW own, NEW q \in QueueIds, NEW rec \in QueueStates, SoundBut(own, q),
           Tidy(queue, drain), IsInjective(rec.items), Leave(q, rec)
    PROVE  Moves(q, rec.items, <<>>)
<1>. DEFINE qs == LeftQueue(q, rec)
            ds == LeftDrain(q)
<1>1. registered \in QueueIds \cup {NoQueue}
  BY DEF SoundBut
<1>2. /\ Sound(own, registered, qs, ds)
      /\ qs[q] = [rec EXCEPT !.draining = FALSE] /\ ds[q] = NoDrain
      /\ \A p \in QueueIds \ {q} : qs[p] = queue[p] /\ ds[p] = drain[p]
  BY <1>1, LeftSound
<1>. HIDE DEF qs, ds
<1>3. qs[q].items = rec.items /\ Due(ds[q].turn) = <<>>
  BY <1>2, NoDrainSound, NothingDue DEF QueueStates
<1>4. Tidy(qs, ds)
  <2>. SUFFICES ASSUME NEW p \in QueueIds PROVE ObjectTidy(qs[p], ds[p])
    BY DEF Tidy
  <2>1. CASE p = q
    BY <1>3, <2>1, NothingDue DEF ObjectTidy, TurnTidy
  <2>2. CASE p # q
    BY <1>2, <2>2 DEF Tidy
  <2>. QED
    BY <2>1, <2>2
<1>5. Settles(qs, ds)
  <2>1. CASE HasWork(rec)
    BY <1>2, <1>4, <2>1, LeaveIs, ScheduleTidy DEF qs, ds
  <2>2. CASE ~HasWork(rec)
    BY <1>4, <2>2, LeaveIs, BecomeTidy DEF qs, ds
  <2>. QED
    BY <2>1, <2>2
<1>. QED
  BY <1>2, <1>3, <1>5, MovesOn

LEMMA IterateTidy ==
    ASSUME NEW own, NEW q \in QueueIds, NEW rec \in QueueStates, SoundBut(own, q),
           Tidy(queue, drain), IsInjective(rec.items), rec.draining, NEW force,
           Iterate(q, rec, force)
    PROVE  Moves(q, rec.items, <<>>)
<1>1. CASE HasWork(rec)
  <2>. DEFINE d == LoopTop(rec.items, force)
  <2>1. TurnTidy(d) /\ Due(d.turn) = <<>>
    BY LoopTopTidy
  <2>2. Become(registered, [queue EXCEPT ![q] = rec], [drain EXCEPT ![q] = d])
    BY <1>1 DEF Iterate
  <2>. HIDE DEF d
  <2>3. Moves(q, rec.items, Due(d.turn))
    BY <2>1, <2>2, GoesOnTidy
  <2>. QED
    BY <2>1, <2>3
<1>2. CASE ~HasWork(rec)
  BY <1>2, LeaveTidy DEF Iterate
<1>. QED
  BY <1>1, <1>2

LEMMA StartTurnTidy ==
    ASSUME NEW own, NEW q \in QueueIds, NEW rec \in QueueStates, SoundBut(own, q),
           Tidy(queue, drain), IsInjective(rec.items), rec.draining, NEW force, NEW turn,
           IsInjective(Due(turn)), Due(turn) = <<>> \/ turn.carries = turn.speaks,
           StartTurn(q, rec, force, turn)
    PROVE  Moves(q, rec.items, Due(turn))
<1>. DEFINE d == [pc |-> "waiting", at |-> 0, force |-> force, turn |-> turn]
<1>1. d.pc = "waiting" /\ d.turn = turn
  OBVIOUS
<1>2. Become(registered, [queue EXCEPT ![q] = rec], [drain EXCEPT ![q] = d])
  BY DEF StartTurn
<1>. HIDE DEF d
<1>3. TurnTidy(d)
  BY <1>1 DEF TurnTidy
<1>4. Moves(q, rec.items, Due(d.turn))
  BY <1>2, <1>3, GoesOnTidy
<1>. QED
  BY <1>1, <1>4

-----------------------------------------------------------------------------
(* Part three: choosing a turn, and ending it.                             *)

LEMMA SingleDue ==
    ASSUME NEW m \in Messages
    PROVE  /\ Due(Single(m)) = <<m>> /\ Single(m).carries = Single(m).speaks
           /\ IsInjective(<<m>>)
<1>1. /\ Single(m).carries = <<m>> /\ Single(m).speaks = <<m>> /\ Single(m).rest = <<>>
  BY SingleSound
<1>2. <<m>> \in Seq(Messages) /\ DOMAIN <<m>> = 1..1
  BY PairIsSingle
<1>3. <<m>> \o <<>> = <<m>>
  BY <1>2, ConcatEmptySeq
<1>. QED
  BY <1>1, <1>2, <1>3 DEF Due, IsInjective

\* A group and what follows it are the batch.
LEMMA GroupDue ==
    ASSUME NEW batch \in Seq(Messages), batch # <<>>
    PROVE  Due(GroupTurn(batch)) = batch /\ GroupTurn(batch).carries = GroupTurn(batch).speaks
<1>. DEFINE t == GroupTurn(batch)
            g == t.speaks
            r == t.rest
            due == Due(t)
<1>1. /\ t \in Turns /\ t.carries = g
      /\ Len(g) \in 1..Len(batch) /\ Len(r) = Len(batch) - Len(g)
      /\ \A i \in 1..Len(g) : g[i] = batch[i]
      /\ \A i \in 1..Len(r) : r[i] = batch[Len(g) + i]
  BY GroupTurnIs
<1>. HIDE DEF t
<1>2. /\ due \in Seq(Messages) /\ Len(due) = Len(g) + Len(r)
      /\ \A i \in 1..Len(g) : due[i] = g[i]
      /\ \A i \in 1..Len(r) : due[Len(g) + i] = r[i]
  BY <1>1, DueIs
<1>. HIDE DEF g, r, due
<1>3. Len(batch) \in Nat
  BY Members
<1>4. Len(due) = Len(batch)
  BY <1>1, <1>2, <1>3
<1>5. ASSUME NEW i \in 1..Len(batch) PROVE due[i] = batch[i]
  <2>1. CASE i <= Len(g)
    <3>1. i \in 1..Len(g)
      BY <1>1, <1>3, <2>1
    <3>. QED
      BY <1>1, <1>2, <3>1
  <2>2. CASE ~(i <= Len(g))
    <3>. DEFINE j == i - Len(g)
    <3>1. j \in 1..Len(r) /\ Len(g) + j = i
      BY <1>1, <1>3, <2>2
    <3>. HIDE DEF j
    <3>2. due[Len(g) + j] = r[j] /\ r[j] = batch[Len(g) + j]
      BY <1>1, <1>2, <3>1
    <3>. QED
      BY <3>1, <3>2
  <2>. QED
    BY <2>1, <2>2
<1>6. due = batch
  BY <1>2, <1>4, <1>5, SeqEqual
<1>. QED
  BY <1>1, <1>6 DEF t, g, due

LEMMA OverflowDue ==
    ASSUME NEW rec \in QueueStates, NEW turn \in Turns
    PROVE  LET t == WithOverflow(rec, turn)
           IN Due(t) = Due(turn) /\ t.carries = turn.carries /\ t.speaks = turn.speaks
<1>. DEFINE t == WithOverflow(rec, turn)
<1>1. t.speaks = turn.speaks /\ t.rest = turn.rest /\ t.carries = turn.carries
  BY DEF WithOverflow, Turns
<1>. QED
  BY <1>1 DEF Due

LEMMA AfterSweepTidy ==
    ASSUME NEW own, NEW q \in QueueIds, NEW rec \in QueueStates, SoundBut(own, q),
           Tidy(queue, drain), IsInjective(rec.items), rec.draining, NEW force, NEW phase,
           AfterSweep(q, phase, rec, force)
    PROVE  Moves(q, rec.items, <<>>)
<1>. DEFINE items == rec.items
            Goal == Moves(q, rec.items, <<>>)
<1>1. items \in Seq(Messages)
  BY DEF QueueStates, Entries
<1>2. ASSUME NEW due, \A m : ~Owes(m, due, items), Moves(q, rec.items, due) PROVE Goal
  BY <1>2 DEF Moves
<1>3. ASSUME NEW f, NEW turn, turn \in Turns, Due(turn) = <<>>,
             StartTurn(q, rec, f, turn) \/ StartTurn(q, rec, f, WithOverflow(rec, turn))
      PROVE  Goal
  <2>1. IsInjective(<<>>)
    BY NothingDue
  <2>2. Due(WithOverflow(rec, turn)) = <<>>
    BY <1>3, OverflowDue
  <2>. QED
    BY <1>3, <2>1, <2>2, StartTurnTidy
<1>4. ASSUME NEW f, items # <<>>, StartTurn(q, rec, f, Single(Head(items))) PROVE Goal
  <2>1. Head(items) \in Messages
    BY <1>1, <1>4, HeadOf
  <2>. DEFINE t == Single(Head(items))
  <2>2. Due(t) = <<Head(items)>> /\ IsInjective(Due(t)) /\ t.carries = t.speaks
    BY <2>1, SingleDue
  <2>3. \A m : ~Owes(m, Due(t), items)
    BY <1>1, <1>4, <2>2, NothingOwed
  <2>. HIDE DEF t
  <2>4. Moves(q, rec.items, Due(t))
    BY <1>4, <2>2, StartTurnTidy DEF t
  <2>. QED
    BY <1>2, <2>3, <2>4
<1>5. ASSUME NEW f, items # <<>>, StartTurn(q, rec, f, WithOverflow(rec, GroupTurn(items)))
      PROVE  Goal
  <2>. DEFINE t == WithOverflow(rec, GroupTurn(items))
  <2>1. Due(t) = items /\ t.carries = t.speaks
    <3>1. GroupTurn(items) \in Turns
      BY <1>1, <1>5, GroupTurnIs
    <3>. QED
      BY <1>1, <1>5, <3>1, GroupDue, OverflowDue
  <2>2. \A m : ~Owes(m, Due(t), items)
    BY <1>1, <2>1, NothingOwed
  <2>. HIDE DEF t
  <2>3. Moves(q, rec.items, Due(t))
    BY <1>5, <2>1, StartTurnTidy DEF t
  <2>. QED
    BY <1>2, <2>2, <2>3
<1>6. ASSUME Leave(q, rec) PROVE Goal
  BY <1>6, LeaveTidy
<1>7. CASE ~HasWork(rec)
  BY <1>6, <1>7 DEF AfterSweep
<1>8. CASE HasWork(rec) /\ phase = "abortBefore"
  <2>. DEFINE d == [NoDrain EXCEPT !.pc = "debounce", !.force = force]
  <2>1. d.turn = NoTurn
    BY DEF NoDrain
  <2>2. Become(registered, [queue EXCEPT ![q] = rec], [drain EXCEPT ![q] = d])
    BY <1>8 DEF AfterSweep
  <2>. HIDE DEF d
  <2>3. TurnTidy(d) /\ Due(d.turn) = <<>>
    BY <2>1, NothingDue DEF TurnTidy
  <2>4. Moves(q, items, Due(d.turn))
    BY <2>2, <2>3, GoesOnTidy
  <2>. QED
    BY <2>3, <2>4
<1>9. CASE HasWork(rec) /\ phase # "abortBefore"
  <2>0. Dispatch(q, rec, force)
    BY <1>9 DEF AfterSweep
  <2>1. CASE rec.mode = "collect"
    <3>1. \/ \E f : StartTurn(q, rec, f, WithOverflow(rec, NoTurn))
          \/ Leave(q, rec)
          \/ items # <<>> /\ StartTurn(q, rec, TRUE, Single(Head(items)))
          \/ items # <<>> /\ StartTurn(q, rec, FALSE, WithOverflow(rec, GroupTurn(items)))
      BY <2>0, <2>1 DEF Dispatch, CollectTurn
    <3>. HIDE DEF items, Goal
    <3>2. Goal
      BY <1>3, <1>4, <1>5, <1>6, <3>1, NothingDue, NoTurnSound
    <3>. QED
      BY <3>2 DEF Goal
  <2>2. CASE rec.mode # "collect"
    <3>. DEFINE t == [NoTurn EXCEPT !.carries = <<Head(items)>>]
    <3>1. \/ Leave(q, rec)
          \/ items # <<>> /\ StartTurn(q, rec, force, WithOverflow(rec, t))
          \/ items # <<>> /\ StartTurn(q, rec, force, Single(Head(items)))
      BY <2>0, <2>2 DEF Dispatch, FollowupTurn
    <3>2. items # <<>> => t \in Turns
      <4>1. items # <<>> => <<Head(items)>> \in Entries
        BY <1>1, HeadOf, PairIsSingle
      <4>. HIDE DEF items
      <4>. QED
        BY <4>1, NoTurnSound DEF Turns
    <3>3. t.speaks = <<>> /\ t.rest = <<>>
      BY DEF NoTurn
    <3>. HIDE DEF items, Goal, t
    <3>4. Due(t) = <<>>
      BY <3>3, NothingDue
    <3>5. Goal
      BY <1>3, <1>4, <1>6, <3>1, <3>2, <3>4
    <3>. QED
      BY <3>5 DEF Goal
  <2>. QED
    BY <2>1, <2>2
<1>. QED
  BY <1>7, <1>8, <1>9

\* The end of a turn: entries are taken off, and the rest of the batch is due.
LEMMA FinishTurnTidy ==
    ASSUME Sound(owner, registered, queue, drain), Tidy(queue, drain),
           NEW q \in QueueIds, FinishTurn(q), NEW own, SoundBut(own, q),
           drain[q].pc \in {"waiting", "running"}
    PROVE  Moves(q, TakenOff(q).items, drain[q].turn.rest)
<1>. DEFINE rec == TakenOff(q)
            r == drain[q].turn.rest
            due == Due(drain[q].turn)
            k == Len(drain[q].turn.speaks)
<1>1. /\ drain[q].turn \in Turns /\ r \in Seq(Messages) /\ queue[q].items \in Seq(Messages)
      /\ drain[q].turn.speaks \in Seq(Messages) /\ drain[q].turn.carries \in Seq(Messages)
      /\ queue[q].draining
  BY SoundAt
<1>2. IsInjective(queue[q].items) /\ IsInjective(due)
  BY DEF Tidy, ObjectTidy, TurnTidy
<1>3. /\ rec \in QueueStates /\ rec.draining
      /\ rec.items = SubSeq(queue[q].items, Len(drain[q].turn.carries) + 1, Len(queue[q].items))
  BY <1>1, TakenOffType
<1>4. IsInjective(rec.items)
  BY <1>1, <1>2, <1>3, Members, FrontGone
<1>5. IsInjective(r)
  <2>1. /\ Len(due) = k + Len(r) /\ Len(r) \in Nat /\ k \in Nat /\ DOMAIN r = 1..Len(r)
        /\ due \in Seq(Messages) /\ \A i \in 1..Len(r) : due[k + i] = r[i]
    BY <1>1, DueIs, Members
  <2>2. DOMAIN due = 1..Len(due)
    BY <2>1, Members
  <2>. HIDE DEF r, due, k
  <2>. SUFFICES ASSUME NEW i \in 1..Len(r), NEW j \in 1..Len(r), r[i] = r[j] PROVE i = j
    BY <2>1 DEF IsInjective
  <2>3. k + i \in 1..Len(due) /\ k + j \in 1..Len(due) /\ due[k + i] = due[k + j]
    BY <2>1
  <2>4. k + i = k + j
    BY <1>2, <2>2, <2>3 DEF IsInjective
  <2>. QED
    BY <2>1, <2>4
<1>. HIDE DEF rec
<1>6. CASE r # <<>>
  <2>1. StartTurn(q, rec, drain[q].force, GroupTurn(r))
    BY <1>6, FinishTurnIs DEF rec
  <2>2. Due(GroupTurn(r)) = r /\ GroupTurn(r).carries = GroupTurn(r).speaks
    BY <1>1, <1>6, GroupDue
  <2>3. Moves(q, rec.items, Due(GroupTurn(r)))
    BY <1>3, <1>4, <1>5, <2>1, <2>2, StartTurnTidy
  <2>. QED
    BY <2>2, <2>3 DEF rec
<1>7. CASE r = <<>>
  <2>1. Iterate(q, rec, drain[q].force)
    BY <1>7, FinishTurnIs DEF rec
  <2>2. Moves(q, rec.items, <<>>)
    BY <1>3, <1>4, <2>1, IterateTidy
  <2>. QED
    BY <1>7, <2>2 DEF rec
<1>. QED
  BY <1>6, <1>7

-----------------------------------------------------------------------------
(* Part three: the actions.                                                *)

\* The other records an enqueue may leave.
Used(rec, s) == [Configured(rec, s) EXCEPT !.lastRun = TRUE]
PushedTo(rec, m) == [MakeRoom(rec) EXCEPT !.items = Append(@, m)]

\* The two outcomes of an enqueue.
LEMMA EnqueueIs ==
    ASSUME NEW m, NEW s, EnqueueFollowupRun(m, s)
    PROVE  LET rec == queue[EnqueueAt]
               used == Used(rec, s)
           IN  /\ HaveQueue
               /\ \/ /\ \E r \in {Configured(rec, s), used} : Puts(EnqueueAt, r)
                     /\ UNCHANGED history
                  \/ /\ ~Duplicate(m, Configured(rec, s))
                     /\ ~(Len(used.items) >= used.cap /\ used.dropPolicy = "new")
                     /\ Puts(EnqueueAt, PushedTo(used, m))
                     /\ accepted' = Bump(accepted, {m}) /\ answered' = answered
                     /\ discarded' = Bump(discarded, ToSet(Dropped(used)))
                     /\ completed \ {m} \subseteq completed'
<1>. DEFINE rec == queue[EnqueueAt]
            found == Configured(rec, s)
            used == Used(rec, s)
            full == Len(used.items) >= used.cap /\ used.dropPolicy = "new"
            room == MakeRoom(used)
            gone == ToSet(Dropped(used))
<1>1. \/ /\ Duplicate(m, found) /\ Puts(EnqueueAt, found) /\ UNCHANGED <<recent, history>>
      \/ /\ ~Duplicate(m, found) /\ full /\ Puts(EnqueueAt, used) /\ UNCHANGED <<recent, history>>
      \/ /\ ~Duplicate(m, found) /\ ~full
         /\ Puts(EnqueueAt, PushedTo(used, m))
         /\ accepted' = Bump(accepted, {m}) /\ Discard(gone)
         /\ completed' = (completed \ {m}) \cup
                Lifecycles((ToSet(used.summarySources) \cup gone) \ ToSet(room.summarySources))
         /\ UNCHANGED answered
  BY Zenon DEF EnqueueFollowupRun, Puts, EnqueueAt, Used, PushedTo
<1>2. HaveQueue
  BY DEF EnqueueFollowupRun
<1>. HIDE DEF found, used, full, room, gone
<1>3. UNCHANGED <<recent, history>> => UNCHANGED history
  OBVIOUS
<1>. QED
  BY <1>1, <1>2, <1>3, Zenon DEF Discard, found, used, full, gone

LEMMA TidyAt ==
    ASSUME Sound(owner, registered, queue, drain), Tidy(queue, drain), NEW q \in QueueIds
    PROVE  /\ IsInjective(queue[q].items) /\ TurnTidy(drain[q])
           /\ drain[q].pc \notin {"waiting", "running"} => Due(drain[q].turn) = <<>>
BY DEF Tidy, ObjectTidy, TurnTidy

\* A sweep, of an object whose drain has no turn, goes on.
LEMMA SweepOnTidy ==
    ASSUME NEW own, NEW q \in QueueIds, NEW rec \in QueueStates, SoundBut(own, q),
           Tidy(queue, drain), IsInjective(rec.items), rec.draining, Due(drain[q].turn) = <<>>,
           NEW pc, NEW i, NEW m,
           Become(registered, [queue EXCEPT ![q] = rec],
                  [drain EXCEPT ![q] = SweptOn(drain[q], pc, i, m)])
    PROVE  Moves(q, rec.items, <<>>)
<1>. DEFINE d == drain[q]
            e == SweptOn(d, pc, i, m)
<1>1. d \in Drains /\ d.turn \in Turns
  BY DEF SoundBut, Drains
<1>2. Due(e.turn) = Due(d.turn)
  <2>. HIDE DEF d
  <2>1. e.turn = [d.turn EXCEPT !.carries = <<m>>]
    BY <1>1 DEF SweptOn, Drains
  <2>. HIDE DEF e
  <2>2. e.turn.speaks = d.turn.speaks /\ e.turn.rest = d.turn.rest
    BY <1>1, <2>1 DEF Turns
  <2>. QED
    BY <2>2 DEF Due
<1>3. TurnTidy(e)
  <2>1. Due(e.turn) = <<>>
    BY <1>2
  <2>. HIDE DEF e
  <2>. QED
    BY <2>1, NothingDue DEF TurnTidy
<1>4. Become(registered, [queue EXCEPT ![q] = rec], [drain EXCEPT ![q] = e])
  OBVIOUS
<1>. HIDE DEF e
<1>5. Moves(q, rec.items, Due(e.turn))
  BY <1>3, <1>4, GoesOnTidy
<1>. QED
  BY <1>2, <1>5

LEMMA DebounceEndsTidy ==
    ASSUME Sound(owner, registered, queue, drain), Tidy(queue, drain),
           NEW q \in QueueIds, DebounceEnds(q)
    PROVE  Moves(q, queue[q].items, <<>>)
<1>. DEFINE rec == queue[q]
            bad == AbortedAt(rec.items, Len(rec.items))
<1>1. drain[q].pc = "debounce"
  BY DEF DebounceEnds
<1>2. /\ rec \in QueueStates /\ rec.draining /\ SoundBut(owner, q)
      /\ IsInjective(rec.items) /\ Due(drain[q].turn) = <<>>
  BY <1>1, SoundAt, ApartFrom, TidyAt
<1>3. CASE bad = {}
  <2>1. AfterSweep(q, "abortAfter", rec, drain[q].force)
    BY <1>3, DebounceEndsIs
  <2>. QED
    BY <1>2, <2>1, AfterSweepTidy
<1>4. CASE bad # {}
  <2>. DEFINE i == Max(bad)
              m == rec.items[i]
  <2>1. Become(registered, [queue EXCEPT ![q] = rec],
               [drain EXCEPT ![q] = SweptOn(drain[q], "abortAfter", i, m)])
    BY <1>4, DebounceEndsIs
  <2>. HIDE DEF i, m
  <2>. QED
    BY <1>2, <2>1, SweepOnTidy
<1>. QED
  BY <1>3, <1>4

LEMMA AbortedTurnEndsTidy ==
    ASSUME Sound(owner, registered, queue, drain), Tidy(queue, drain),
           NEW q \in QueueIds, AbortedTurnEnds(q)
    PROVE  Moves(q, queue[q].items, <<>>)
<1>. DEFINE d == drain[q]
            items == Spliced(q).items
            bad == AbortedAt(items, d.at - 1)
<1>1. Sweeping(d) /\ d.at # 0 /\ d.at \in Nat /\ d.pc # "idle" /\ d.pc \notin {"waiting", "running"}
  BY AbortedTurnEndsIs, SoundAt DEF Sweeping
<1>2. /\ Spliced(q) \in QueueStates /\ Swept(q) \in QueueStates
      /\ Spliced(q).draining /\ Swept(q).draining /\ Swept(q).items = items
      /\ SoundBut(owner, q) /\ Due(d.turn) = <<>>
  <2>1. Swept(q).items = items
    BY <1>1, SplicedType, WithoutSummaryType DEF Swept
  <2>. QED
    BY <1>1, <2>1, SplicedType, SoundAt, ApartFrom, TidyAt
<1>3. IsInjective(items) /\ ToSet(items) \subseteq ToSet(queue[q].items)
  <2>1. queue[q] \in QueueStates /\ queue[q].items \in Seq(Messages) /\ IsInjective(queue[q].items)
    BY SoundAt, TidyAt
  <2>2. CASE d.at <= Len(queue[q].items)
    <3>1. d.at \in 1..Len(queue[q].items)
      BY <1>1, <2>1, <2>2, Members
    <3>2. items = RemoveAt(queue[q].items, d.at)
      BY <2>1, <2>2 DEF Spliced, QueueStates
    <3>. QED
      BY <2>1, <3>1, <3>2, EntryTaken
  <2>3. CASE ~(d.at <= Len(queue[q].items))
    BY <2>1, <2>3 DEF Spliced
  <2>. QED
    BY <2>2, <2>3
<1>4. Moves(q, items, <<>>)
  <2>1. CASE d.at - 1 > Len(items)
    BY <1>2, <1>3, <2>1, AbortedTurnEndsIs, LeaveTidy
  <2>2. CASE d.at - 1 <= Len(items) /\ bad # {}
    <3>. DEFINE i == Max(bad)
                m == items[i]
    <3>1. Become(registered, [queue EXCEPT ![q] = Spliced(q)],
                 [drain EXCEPT ![q] = SweptOn(d, d.pc, i, m)])
      BY <2>2, AbortedTurnEndsIs
    <3>. HIDE DEF i, m
    <3>. QED
      BY <1>2, <1>3, <3>1, SweepOnTidy
  <2>3. CASE d.at - 1 <= Len(items) /\ bad = {}
    <3>1. AfterSweep(q, d.pc, Swept(q), d.force)
      BY <2>3, AbortedTurnEndsIs
    <3>2. Moves(q, Swept(q).items, <<>>)
      BY <1>2, <1>3, <3>1, AfterSweepTidy
    <3>. QED
      BY <1>2, <3>2
  <2>4. Len(items) \in Nat
    <3>1. items \in Seq(Messages)
      BY <1>1, SplicedType
    <3>. QED
      BY <3>1, Members
  <2>. HIDE DEF items
  <2>5. d.at - 1 > Len(items) \/ d.at - 1 <= Len(items)
    BY <1>1, <2>4
  <2>. QED
    BY <2>1, <2>2, <2>3, <2>5
<1>. QED
  BY <1>3, <1>4, NothingOwed DEF Moves

\* An enqueue leaves another record in place of an object of the map.
LEMMA PutTidy ==
    ASSUME Sound(owner, registered, queue, drain), Tidy(queue, drain),
           NEW q \in QueueIds, NEW rec \in QueueStates, rec.draining = queue[q].draining,
           IsInjective(rec.items), Puts(q, rec)
    PROVE  Moves(q, rec.items, Due(drain[q].turn))
<1>. DEFINE qs == [queue EXCEPT ![q] = rec]
<1>1. qs[q] = rec /\ \A p \in QueueIds \ {q} : qs[p] = queue[p]
  BY DEF Sound
<1>2. Sound(owner, q, qs, drain)
  BY PutSound
<1>. HIDE DEF qs
<1>3. Tidy(qs, drain)
  <2>. SUFFICES ASSUME NEW p \in QueueIds PROVE ObjectTidy(qs[p], drain[p])
    BY DEF Tidy
  <2>1. ObjectTidy(queue[p], drain[p])
    BY DEF Tidy
  <2>. QED
    BY <1>1, <2>1 DEF ObjectTidy
<1>4. Settles(qs, drain)
  BY <1>2, <1>3, ScheduleTidy, BecomeTidy DEF Puts, qs
<1>. QED
  BY <1>1, <1>4, MovesOn

LEMMA PushedItems ==
    ASSUME NEW rec \in QueueStates, NEW s \in Settings, NEW m \in Messages
    PROVE  LET used == Used(rec, s)
               gone == Len(Dropped(used))
           IN  /\ Configured(rec, s).items = rec.items /\ used.items = rec.items
               /\ gone \in Nat
               /\ PushedTo(used, m).items = Append(SubSeq(rec.items, gone + 1, Len(rec.items)), m)
<1>. DEFINE found == Configured(rec, s)
            used == Used(rec, s)
            room == MakeRoom(used)
<1>1. found \in QueueStates /\ found.items = rec.items
  BY SettingsAssumption DEF Configured, QueueStates
<1>2. used = [found EXCEPT !.lastRun = TRUE]
  BY DEF Used
<1>. HIDE DEF found
<1>3. used \in QueueStates /\ used.items = rec.items
  BY <1>1, <1>2 DEF QueueStates
<1>. HIDE DEF used
<1>4. /\ room \in QueueStates
      /\ room.items = SubSeq(rec.items, Len(Dropped(used)) + 1, Len(rec.items))
      /\ Len(Dropped(used)) \in Nat
  BY <1>3, MakeRoomType, DroppedIs
<1>5. PushedTo(used, m) = [room EXCEPT !.items = Append(room.items, m)]
  BY DEF PushedTo
<1>. HIDE DEF room
<1>6. PushedTo(used, m).items = Append(room.items, m)
  BY <1>4, <1>5 DEF QueueStates
<1>. QED
  BY <1>1, <1>3, <1>4, <1>6 DEF found, used

\* An enqueue of n: it is pushed, and others are dropped from the front, or it
\* is not, and the list stays.
LEMMA EnqueueTidy ==
    ASSUME Sound(owner, registered, queue, drain), Tidy(queue, drain),
           NEW n \in Messages, NEW s \in Settings, EnqueueFollowupRun(n, s)
    PROVE  LET q == EnqueueAt
               items == queue[q].items
               due == Due(drain[q].turn)
           IN  /\ q \in QueueIds /\ answered' = answered
               /\ \/ accepted' = accepted /\ Moves(q, items, due)
                  \/ /\ accepted' = Bump(accepted, {n}) /\ n \notin ToSet(items)
                     /\ \E g \in Nat :
                            Moves(q, Append(SubSeq(items, g + 1, Len(items)), n), due)
<1>. DEFINE q == EnqueueAt
            rec == queue[q]
            found == Configured(rec, s)
            used == Used(rec, s)
            more == PushedTo(used, n)
            due == Due(drain[q].turn)
<1>1. HaveQueue /\ \/ (\E r \in {found, used} : Puts(q, r)) /\ UNCHANGED history
                   \/ /\ ~Duplicate(n, found) /\ Puts(q, more)
                      /\ accepted' = Bump(accepted, {n}) /\ answered' = answered
  BY EnqueueIs
<1>2. q \in QueueIds
  BY <1>1, EnqueueAtIs DEF Sound
<1>. HIDE DEF q
<1>3. rec \in QueueStates /\ rec.items \in Seq(Messages) /\ IsInjective(rec.items) /\ due \in Seq(Messages)
  <2>1. drain[q].turn \in Turns
    BY <1>2, SoundAt
  <2>. QED
    BY <1>2, <2>1, SoundAt, TidyAt, DueIs
<1>4. \A r \in {found, used, more} : r \in QueueStates /\ r.draining = rec.draining
  <2>1. {found, used, more} = PutsOf(rec, n, s)
    BY DEF PutsOf, Used, PushedTo
  <2>. HIDE DEF found, used, more
  <2>. QED
    BY <1>3, <2>1, PutsType
<1>. DEFINE g == Len(Dropped(used))
<1>5. /\ found.items = rec.items /\ used.items = rec.items /\ g \in Nat
      /\ more.items = Append(SubSeq(rec.items, g + 1, Len(rec.items)), n)
  BY <1>3, PushedItems
<1>. HIDE DEF found, used, more, rec, g, due
<1>6. CASE (\E r \in {found, used} : Puts(q, r)) /\ UNCHANGED history
  <2>1. PICK r \in {found, used} : Puts(q, r)
    BY <1>6
  <2>2. r \in QueueStates /\ r.draining = rec.draining /\ r.items = rec.items
    BY <1>4, <1>5, <2>1
  <2>3. Moves(q, r.items, due)
    BY <1>2, <1>3, <2>1, <2>2, PutTidy DEF rec, due
  <2>. QED
    BY <1>2, <1>6, <2>2, <2>3 DEF history, rec, q, due
<1>7. CASE /\ ~Duplicate(n, found) /\ Puts(q, more)
           /\ accepted' = Bump(accepted, {n}) /\ answered' = answered
  <2>1. n \notin ToSet(rec.items)
    BY <1>5, <1>7 DEF Duplicate
  <2>2. IsInjective(more.items)
    BY <1>3, <1>5, <2>1, EntryPushed
  <2>3. Moves(q, more.items, due)
    BY <1>2, <1>4, <1>7, <2>2, PutTidy DEF rec, due
  <2>. QED
    BY <1>2, <1>5, <1>7, <2>1, <2>3 DEF rec, q, due
<1>. QED
  BY <1>1, <1>6, <1>7

LEMMA ClearTidy ==
    ASSUME Sound(owner, registered, queue, drain), Tidy(queue, drain), registered # NoQueue,
           Become(NoQueue, [queue EXCEPT ![registered] = Cleared(queue[registered])], drain)
    PROVE  Moves(registered, <<>>, Due(drain[registered].turn))
<1>. DEFINE rec == Cleared(queue[registered])
            qs == [queue EXCEPT ![registered] = rec]
<1>1. registered \in QueueIds /\ queue[registered] \in QueueStates
  BY DEF Sound
<1>2. rec.draining = queue[registered].draining /\ rec.items = <<>>
  <2>. DEFINE w == WithoutSummary(queue[registered])
  <2>1. w \in QueueStates
    BY <1>1, WithoutSummaryType
  <2>2. rec = [w EXCEPT !.items = <<>>, !.lastRun = FALSE]
    BY DEF Cleared
  <2>3. rec.draining = queue[registered].draining
    BY <1>1, ClearedType
  <2>. HIDE DEF w, rec
  <2>. QED
    BY <2>1, <2>2, <2>3 DEF QueueStates
<1>. HIDE DEF rec
<1>3. qs[registered] = rec /\ \A p \in QueueIds \ {registered} : qs[p] = queue[p]
  BY <1>1 DEF Sound
<1>. HIDE DEF qs
<1>4. Tidy(qs, drain)
  <2>. SUFFICES ASSUME NEW p \in QueueIds PROVE ObjectTidy(qs[p], drain[p])
    BY DEF Tidy
  <2>1. ObjectTidy(queue[p], drain[p])
    BY DEF Tidy
  <2>. QED
    BY <1>2, <1>3, <2>1, NothingDue DEF ObjectTidy
<1>5. Settles(qs, drain)
  BY <1>4, BecomeTidy DEF qs, rec
<1>. QED
  BY <1>1, <1>2, <1>3, <1>5, MovesOn

-----------------------------------------------------------------------------
(* Part three: the books.                                                  *)

\* What the end of a turn does to the history.
LEMMA TurnAnswers ==
    ASSUME NEW q, TurnSucceeds(q) \/ TurnSkipped(q)
    PROVE  LET turn == drain[q].turn
           IN  /\ FinishTurn(q) /\ drain[q].pc \in {"waiting", "running"}
               /\ drain[q].pc = "running" => owner' = NoOwner
               /\ drain[q].pc = "waiting" => owner' = owner
               /\ accepted' = accepted /\ discarded' = discarded
               /\ answered' = Bump(answered, ToSet(turn.speaks))
               /\ completed \subseteq completed'
               /\ Len(turn.carries) = 1 => Lifecycles(ToSet(turn.carries)) \subseteq completed'
<1>. DEFINE turn == drain[q].turn
            all == ToSet(turn.carries)
<1>1. /\ FinishTurn(q)
      /\ \/ drain[q].pc = "running" /\ owner' = NoOwner
         \/ drain[q].pc = "waiting" /\ owner' = owner
      /\ UNCHANGED <<recent, aborted, accepted, discarded, bounds>>
      /\ answered' = Bump(answered, ToSet(turn.speaks))
  BY Zenon DEF TurnSucceeds, TurnSkipped, Owns
<1>2. \E T : completed' = completed \cup Lifecycles((IF Len(turn.carries) = 1 THEN all ELSE {}) \cup T)
  BY <1>1, Zenon DEF FinishTurn
<1>. HIDE DEF turn, all
<1>3. completed \subseteq completed' /\ (Len(turn.carries) = 1 => Lifecycles(all) \subseteq completed')
  BY <1>2 DEF Lifecycles
<1>. QED
  BY <1>1, <1>3 DEF turn, all

LEMMA CountsOf ==
    ASSUME NEW K, NEW L, L \subseteq QueueIds
    PROVE  /\ Cardinality(L) \in Nat
           /\ K \subseteq L => Cardinality(K) \in Nat /\ Cardinality(K) <= Cardinality(L)
           /\ \A x \in L : K \subseteq L \ {x} =>
                  Cardinality(K) \in Nat /\ Cardinality(K) + 1 <= Cardinality(L)
           /\ \A x \in QueueIds : K \subseteq L \cup {x} =>
                  Cardinality(K) \in Nat /\ Cardinality(K) <= Cardinality(L) + 1
<1>1. IsFiniteSet(L) /\ Cardinality(L) \in Nat
  BY NamesAssumption, FS_Subset, FS_CardinalityType
<1>2. K \subseteq L => Cardinality(K) \in Nat /\ Cardinality(K) <= Cardinality(L)
  BY <1>1, FS_Subset, FS_CardinalityType
<1>3. ASSUME NEW x \in L, K \subseteq L \ {x}
      PROVE  Cardinality(K) \in Nat /\ Cardinality(K) + 1 <= Cardinality(L)
  <2>1. IsFiniteSet(L \ {x}) /\ Cardinality(L \ {x}) = Cardinality(L) - 1
    BY <1>1, FS_RemoveElement
  <2>2. Cardinality(K) \in Nat /\ Cardinality(K) <= Cardinality(L \ {x})
    BY <1>3, <2>1, FS_Subset, FS_CardinalityType
  <2>. QED
    BY <1>1, <2>1, <2>2
<1>4. ASSUME NEW x \in QueueIds, K \subseteq L \cup {x}
      PROVE  Cardinality(K) \in Nat /\ Cardinality(K) <= Cardinality(L) + 1
  <2>1. IsFiniteSet(L \cup {x}) /\ Cardinality(L \cup {x}) \in Nat
    BY <1>1, FS_AddElement, FS_CardinalityType
  <2>2. Cardinality(L \cup {x}) <= Cardinality(L) + 1
    <3>1. Cardinality(L \cup {x}) = IF x \in L THEN Cardinality(L) ELSE Cardinality(L) + 1
      BY <1>1, FS_AddElement
    <3>. QED
      BY <1>1, <3>1
  <2>3. Cardinality(K) \in Nat /\ Cardinality(K) <= Cardinality(L \cup {x})
    BY <1>4, <2>1, FS_Subset, FS_CardinalityType
  <2>. QED
    BY <1>1, <2>1, <2>2, <2>3
<1>. QED
  BY <1>1, <1>2, <1>3, <1>4

One(b) == IF b THEN 1 ELSE 0

\* A set of objects changes: only q may enter it.
LEMMA CountMoved ==
    ASSUME NEW H, NEW K, NEW q \in QueueIds, H \subseteq QueueIds, K \subseteq QueueIds,
           K \ {q} \subseteq H
    PROVE  /\ Cardinality(H) \in Nat /\ Cardinality(K) \in Nat
           /\ Cardinality(K) + One(q \in H) <= Cardinality(H) + One(q \in K)
<1>. DEFINE Without(S) == S \ {q}
<1>1. ASSUME NEW S, S \subseteq QueueIds
      PROVE  /\ IsFiniteSet(Without(S)) /\ Cardinality(Without(S)) \in Nat
             /\ Cardinality(S) = Cardinality(Without(S)) + One(q \in S)
  <2>1. IsFiniteSet(S) /\ IsFiniteSet(Without(S))
    BY <1>1, NamesAssumption, FS_Subset
  <2>2. Cardinality(S) \in Nat /\ Cardinality(Without(S)) \in Nat
    BY <2>1, FS_CardinalityType
  <2>3. Cardinality(Without(S)) = IF q \in S THEN Cardinality(S) - 1 ELSE Cardinality(S)
    BY <2>1, FS_RemoveElement
  <2>. QED
    BY <2>1, <2>2, <2>3 DEF One
<1>2. Cardinality(Without(K)) <= Cardinality(Without(H))
  <2>1. Without(K) \subseteq Without(H) /\ IsFiniteSet(Without(H))
    BY <1>1
  <2>. QED
    BY <2>1, FS_Subset
<1>3. One(q \in H) \in Nat /\ One(q \in K) \in Nat
  BY DEF One
<1>. HIDE DEF Without
<1>. QED
  BY <1>1, <1>2, <1>3

\* What is answered, or queued, or owed of m at q comes from what was accepted,
\* or queued, or owed.
LEMMA CountedMoves ==
    ASSUME HistoryTyped, HistoryTyped', NEW q \in QueueIds, NEW items, NEW due,
           Moves(q, items, due), NEW m \in Messages,
           Counted(m, accepted, answered, queue, drain),
           NEW a \in {0, 1}, answered'[m] = answered[m] + a,
           NEW c \in {0, 1}, accepted'[m] = accepted[m] + c,
           a + One(m \in ToSet(items)) + One(Owes(m, due, items))
               <= c + One(Holds(m, queue[q])) + One(Owed(m, queue[q], drain[q]))
    PROVE  Counted(m, accepted', answered', queue', drain')
<1>. DEFINE H == Holding(m, queue)
            K == Holding(m, queue')
            L == Owing(m, queue, drain)
            M == Owing(m, queue', drain')
<1>1. H \subseteq QueueIds /\ K \subseteq QueueIds /\ L \subseteq QueueIds /\ M \subseteq QueueIds
  BY DEF Holding, Owing
<1>2. K \ {q} \subseteq H /\ M \ {q} \subseteq L
  BY DEF Moves, NoWorse, Holding, Owing
<1>3. /\ q \in H <=> Holds(m, queue[q])
      /\ q \in L <=> Owed(m, queue[q], drain[q])
      /\ q \in K => m \in ToSet(items)
      /\ q \in M => Owes(m, due, items)
  BY DEF Moves, Holding, Owing
<1>4. answered[m] \in Nat /\ accepted[m] \in Nat
  BY DEF HistoryTyped
<1>5. answered[m] + Cardinality(H) + Cardinality(L) <= accepted[m]
  BY DEF Counted
<1>. HIDE DEF H, K, L, M
<1>6. a + One(q \in K) + One(q \in M) <= c + One(q \in H) + One(q \in L)
  BY <1>3 DEF One
<1>7. /\ Cardinality(H) \in Nat /\ Cardinality(K) \in Nat
      /\ Cardinality(K) + One(q \in H) <= Cardinality(H) + One(q \in K)
  BY <1>1, <1>2, CountMoved
<1>8. /\ Cardinality(L) \in Nat /\ Cardinality(M) \in Nat
      /\ Cardinality(M) + One(q \in L) <= Cardinality(L) + One(q \in M)
  BY <1>1, <1>2, CountMoved
<1>9. One(q \in H) \in Nat /\ One(q \in K) \in Nat /\ One(q \in L) \in Nat /\ One(q \in M) \in Nat
  BY DEF One
<1>10. answered'[m] + Cardinality(K) + Cardinality(M) <= accepted'[m]
  BY <1>4, <1>5, <1>6, <1>7, <1>8, <1>9
<1>. QED
  BY <1>10 DEF Counted, K, M

\* Nothing is pushed or answered, and no object holds or owes more.
LEMMA QuietOnce ==
    ASSUME HistoryTyped, HistoryTyped', OnceOnly(accepted, answered, queue, drain),
           accepted' = accepted, answered' = answered,
           Settles(queue, drain)
    PROVE  OnceOnly(accepted', answered', queue', drain')
<1>. SUFFICES ASSUME NEW m \in Messages PROVE Counted(m, accepted', answered', queue', drain')
  BY DEF OnceOnly, Settles
<1>. DEFINE H == Holding(m, queue)
            K == Holding(m, queue')
            L == Owing(m, queue, drain)
            M == Owing(m, queue', drain')
<1>1. K \subseteq H /\ M \subseteq L /\ H \subseteq QueueIds /\ L \subseteq QueueIds
  BY DEF Settles, NoWorse, Holding, Owing
<1>2. answered[m] + Cardinality(H) + Cardinality(L) <= accepted[m]
  BY DEF OnceOnly, Counted
<1>3. answered[m] \in Nat /\ accepted[m] \in Nat
  BY DEF HistoryTyped
<1>. HIDE DEF H, K, L, M
<1>4. /\ Cardinality(H) \in Nat /\ Cardinality(K) \in Nat /\ Cardinality(K) <= Cardinality(H)
      /\ Cardinality(L) \in Nat /\ Cardinality(M) \in Nat /\ Cardinality(M) <= Cardinality(L)
  BY <1>1, CountsOf
<1>5. answered[m] + Cardinality(K) + Cardinality(M) <= accepted[m]
  BY <1>2, <1>3, <1>4
<1>. QED
  BY <1>5 DEF Counted, K, M

\* Nothing is pushed or answered, the list of q stays, and q owes no more.
LEMMA QuietMoves ==
    ASSUME HistoryTyped, HistoryTyped', OnceOnly(accepted, answered, queue, drain),
           accepted' = accepted, answered' = answered, NEW q \in QueueIds,
           NEW due, due \in {<<>>, Due(drain[q].turn)}, Moves(q, queue[q].items, due)
    PROVE  OnceOnly(accepted', answered', queue', drain')
<1>1. \A m : Owes(m, due, queue[q].items) => Owed(m, queue[q], drain[q])
  BY NothingOwed DEF Owed
<1>2. \A p \in QueueIds : NoWorse(queue[p], drain[p], queue'[p], drain'[p])
  BY <1>1 DEF Moves, NoWorse, Holds
<1>3. Settles(queue, drain)
  BY <1>2 DEF Settles, Moves
<1>. QED
  BY <1>3, QuietOnce

LEMMA EnqueueOnce ==
    ASSUME HistoryTyped, HistoryTyped', Sound(owner, registered, queue, drain),
           OnceOnly(accepted, answered, queue, drain),
           NEW n \in Messages, NEW s \in Settings, EnqueueFollowupRun(n, s)
    PROVE  OnceOnly(accepted', answered', queue', drain')
<1>. DEFINE q == EnqueueAt
            items == queue[q].items
            due == Due(drain[q].turn)
            more(g) == Append(SubSeq(items, g + 1, Len(items)), n)
<1>1. /\ q \in QueueIds /\ answered' = answered
      /\ \/ accepted' = accepted /\ Moves(q, items, due)
         \/ /\ accepted' = Bump(accepted, {n}) /\ n \notin ToSet(items)
            /\ \E g \in Nat : Moves(q, more(g), due)
  BY EnqueueTidy DEF OnceOnly
<1>. HIDE DEF q
<1>2. items \in Seq(Messages) /\ IsInjective(items) /\ due \in Seq(Messages)
  <2>1. drain[q].turn \in Turns
    BY <1>1, SoundAt
  <2>. QED
    BY <1>1, <2>1, SoundAt, TidyAt, DueIs DEF OnceOnly
<1>3. CASE accepted' = accepted /\ Moves(q, items, due)
  BY <1>1, <1>3, QuietMoves
<1>4. CASE /\ accepted' = Bump(accepted, {n}) /\ n \notin ToSet(items)
           /\ \E g \in Nat : Moves(q, more(g), due)
  <2>1. PICK g \in Nat : Moves(q, more(g), due)
    BY <1>4
  <2>2. /\ \A m : /\ m # n /\ m \in ToSet(more(g)) => m \in ToSet(items)
                  /\ m # n /\ Owes(m, due, more(g)) /\ ~Owes(m, due, items) =>
                         m \in ToSet(items) /\ m \notin ToSet(more(g))
        /\ Owes(n, due, more(g)) => Owes(n, due, items)
    BY <1>2, <1>4, <2>1, EntryPushed
  <2>3. \A m : (Holds(m, queue[q]) <=> m \in ToSet(items))
               /\ (Owed(m, queue[q], drain[q]) <=> Owes(m, due, items))
    BY DEF Holds, Owed
  <2>4. ASSUME NEW m \in Messages PROVE Counted(m, accepted', answered', queue', drain')
    <3>. DEFINE c == IF m = n THEN 1 ELSE 0
                S == {n}
    <3>1. c \in {0, 1} /\ accepted'[m] = accepted[m] + c
      <4>1. Bump(accepted, S)[m] = accepted[m] + (IF m \in S THEN 1 ELSE 0)
        <5>. HIDE DEF S
        <5>. QED
          BY BumpType DEF HistoryTyped
      <4>. QED
        BY <1>4, <4>1
    <3>2. answered'[m] = answered[m] + 0
      BY <1>1 DEF HistoryTyped
    <3>. HIDE DEF items, due, more
    <3>3. 0 + One(m \in ToSet(more(g))) + One(Owes(m, due, more(g)))
              <= c + One(Holds(m, queue[q])) + One(Owed(m, queue[q], drain[q]))
      BY <1>4, <2>2, <2>3 DEF One
    <3>4. Counted(m, accepted, answered, queue, drain)
      BY DEF OnceOnly
    <3>. HIDE DEF c
    <3>. QED
      BY <1>1, <2>1, <3>1, <3>2, <3>3, <3>4, CountedMoves
  <2>. QED
    BY <2>1, <2>4 DEF OnceOnly, Moves
<1>. QED
  BY <1>1, <1>3, <1>4

\* The rest of a batch is what is due once a turn has spoken.
LEMMA RestDue ==
    ASSUME NEW turn \in Turns
    PROVE  LET k == Len(turn.speaks)
               due == Due(turn)
           IN  /\ k \in Nat /\ turn.rest = SubSeq(due, k + 1, Len(due))
               /\ \A m : m \in ToSet(turn.speaks) <=> \E i \in 1..Len(due) : i <= k /\ due[i] = m
<1>. DEFINE s == turn.speaks
            r == turn.rest
            k == Len(turn.speaks)
            due == Due(turn)
            later == SubSeq(due, k + 1, Len(due))
<1>1. s \in Seq(Messages) /\ r \in Seq(Messages)
  BY DEF Turns, Entries
<1>2. k \in Nat /\ Len(r) \in Nat
  BY <1>1, Members
<1>3. /\ due \in Seq(Messages) /\ Len(due) = k + Len(r)
      /\ \A i \in 1..k : due[i] = s[i]
      /\ \A i \in 1..Len(r) : due[k + i] = r[i]
  BY DueIs
<1>4. \A m : m \in ToSet(s) <=> \E i \in 1..k : s[i] = m
  BY <1>1, Members
<1>. HIDE DEF s, r, k, due
<1>5. /\ later \in Seq(Messages)
      /\ k <= Len(due) => Len(later) = Len(due) - k /\ \A i \in 1..(Len(due) - k) : later[i] = due[k + i]
  BY <1>2, <1>3, DropFront
<1>. HIDE DEF later
<1>6. Len(later) = Len(r) /\ \A i \in 1..Len(r) : later[i] = r[i]
  <2>1. k <= Len(due) /\ Len(due) - k = Len(r)
    BY <1>2, <1>3
  <2>. QED
    BY <1>3, <1>5, <2>1
<1>7. r = later
  BY <1>1, <1>5, <1>6, SeqEqual DEF r
<1>8. \A i : i \in 1..Len(due) /\ i <= k <=> i \in 1..k
  BY <1>2, <1>3
<1>9. \A m : m \in ToSet(s) <=> \E i \in 1..Len(due) : i <= k /\ due[i] = m
  BY <1>3, <1>4, <1>8
<1>. QED
  BY <1>2, <1>7, <1>9 DEF s, r, k, due, later

LEMMA TurnEndsOnce ==
    ASSUME HistoryTyped, HistoryTyped', Sound(owner, registered, queue, drain),
           OnceOnly(accepted, answered, queue, drain),
           NEW q \in QueueIds, TurnSucceeds(q) \/ TurnSkipped(q)
    PROVE  OnceOnly(accepted', answered', queue', drain')
<1>. DEFINE turn == drain[q].turn
            said == turn.speaks
            rest == turn.rest
            due == Due(turn)
            items == queue[q].items
            left == TakenOff(q).items
<1>1. /\ FinishTurn(q) /\ drain[q].pc \in {"waiting", "running"}
      /\ accepted' = accepted /\ answered' = Bump(answered, ToSet(said))
  BY TurnAnswers
<1>2. \E own : SoundBut(own, q)
  BY <1>1, ApartFrom
<1>3. Moves(q, left, rest)
  BY <1>1, <1>2, FinishTurnTidy DEF OnceOnly
<1>4. /\ turn \in Turns /\ items \in Seq(Messages) /\ turn.carries \in Seq(Messages)
      /\ said \in Seq(Messages)
      /\ left = SubSeq(items, Len(turn.carries) + 1, Len(items))
  BY SoundAt, TakenOffType
<1>5. /\ due \in Seq(Messages) /\ IsInjective(items) /\ IsInjective(due)
      /\ due = <<>> \/ turn.carries = said
  BY <1>4, TidyAt, DueIs DEF OnceOnly, TurnTidy
<1>6. \A m : (Holds(m, queue[q]) <=> m \in ToSet(items))
             /\ (Owed(m, queue[q], drain[q]) <=> Owes(m, due, items))
  BY DEF Holds, Owed
<1>7. \A m : m \in ToSet(left) => m \in ToSet(items)
  <2>1. Len(turn.carries) \in Nat
    BY <1>4, Members
  <2>. QED
    BY <1>4, <2>1, FrontGone
<1>8. ASSUME NEW m
      PROVE  One(m \in ToSet(said)) + One(m \in ToSet(left)) + One(Owes(m, rest, left))
                 <= 0 + One(m \in ToSet(items)) + One(Owes(m, due, items))
  <2>1. CASE due = <<>>
    <3>1. said = <<>> /\ rest = <<>>
      BY <1>4, <2>1, NothingDue
    <3>2. m \notin ToSet(said) /\ ~Owes(m, rest, left)
      BY <3>1, ToSetEmpty, NothingOwed
    <3>. HIDE DEF turn, said, rest, due, items, left
    <3>. QED
      BY <1>7, <3>2 DEF One
  <2>2. CASE turn.carries = said
    <3>. DEFINE k == Len(said)
                spoke == \E i \in 1..Len(due) : i <= k /\ due[i] = m
    <3>1. /\ k \in Nat /\ rest = SubSeq(due, k + 1, Len(due))
          /\ m \in ToSet(said) <=> spoke
      BY <1>4, RestDue
    <3>2. left = SubSeq(items, k + 1, Len(items))
      BY <1>4, <2>2
    <3>. HIDE DEF turn, said, rest, due, items, left, k
    <3>3. /\ spoke => m \notin ToSet(rest)
          /\ spoke /\ ~Owes(m, due, items) => m \in ToSet(items) /\ m \notin ToSet(left)
          /\ Owes(m, rest, left) /\ ~Owes(m, due, items) =>
                 m \in ToSet(items) /\ m \notin ToSet(left)
      <4>. DEFINE later == SubSeq(due, k + 1, Len(due))
                  kept == SubSeq(items, k + 1, Len(items))
      <4>1. /\ spoke => m \notin ToSet(later)
            /\ spoke /\ ~Owes(m, due, items) => m \in ToSet(items) /\ m \notin ToSet(kept)
            /\ Owes(m, later, kept) /\ ~Owes(m, due, items) =>
                   m \in ToSet(items) /\ m \notin ToSet(kept)
        BY <1>4, <1>5, <3>1, TurnPaid
      <4>2. later = rest /\ kept = left
        BY <3>1, <3>2
      <4>. HIDE DEF later, kept
      <4>. QED
        BY <4>1, <4>2
    <3>4. Owes(m, rest, left) => m \in ToSet(rest)
      BY DEF Owes
    <3>. HIDE DEF spoke
    <3>. QED
      BY <1>7, <3>1, <3>3, <3>4 DEF One
  <2>. QED
    BY <1>5, <2>1, <2>2
<1>9. ASSUME NEW m \in Messages PROVE Counted(m, accepted', answered', queue', drain')
  <2>. DEFINE a == One(m \in ToSet(said))
  <2>1. a \in {0, 1} /\ answered'[m] = answered[m] + a
    <3>. HIDE DEF said
    <3>. QED
      BY <1>1, BumpType DEF One, HistoryTyped
  <2>2. accepted'[m] = accepted[m] + 0
    BY <1>1 DEF HistoryTyped
  <2>3. Counted(m, accepted, answered, queue, drain)
    BY DEF OnceOnly
  <2>. HIDE DEF said, rest, due, items, left
  <2>4. a + One(m \in ToSet(left)) + One(Owes(m, rest, left))
            <= 0 + One(Holds(m, queue[q])) + One(Owed(m, queue[q], drain[q]))
    BY <1>6, <1>8 DEF One
  <2>. HIDE DEF a
  <2>. QED
    BY <1>3, <2>1, <2>2, <2>3, <2>4, CountedMoves
<1>. QED
  BY <1>3, <1>9 DEF OnceOnly, Moves

LEMMA ClearOnce ==
    ASSUME HistoryTyped, HistoryTyped', Sound(owner, registered, queue, drain),
           OnceOnly(accepted, answered, queue, drain), ClearSessionQueues
    PROVE  OnceOnly(accepted', answered', queue', drain')
<1>. DEFINE q == registered
            items == queue[q].items
            due == Due(drain[q].turn)
<1>1. /\ registered # NoQueue
      /\ Become(NoQueue, [queue EXCEPT ![registered] = Cleared(queue[registered])], drain)
      /\ accepted' = accepted /\ answered' = answered
  BY Zenon DEF ClearSessionQueues, Cleared
<1>2. q \in QueueIds /\ Moves(q, <<>>, due)
  BY <1>1, ClearTidy DEF OnceOnly, Sound
<1>3. items \in Seq(Messages)
  BY <1>2, SoundAt
<1>4. \A m : (Holds(m, queue[q]) <=> m \in ToSet(items))
             /\ (Owed(m, queue[q], drain[q]) <=> Owes(m, due, items))
  BY DEF Holds, Owed
<1>. HIDE DEF items, due, q
<1>5. ASSUME NEW m, Owes(m, due, <<>>), ~Owes(m, due, items) PROVE m \in ToSet(items)
  <2>1. \E y \in 1..Len(items) : items[y] = m
    BY <1>5 DEF Owes, Covered
  <2>. QED
    BY <1>3, <2>1, Members
<1>6. ASSUME NEW m \in Messages PROVE Counted(m, accepted', answered', queue', drain')
  <2>1. 0 + One(m \in ToSet(<<>>)) + One(Owes(m, due, <<>>))
            <= 0 + One(Holds(m, queue[q])) + One(Owed(m, queue[q], drain[q]))
    BY <1>4, <1>5, ToSetEmpty DEF One
  <2>2. accepted'[m] = accepted[m] + 0 /\ answered'[m] = answered[m] + 0
    BY <1>1 DEF HistoryTyped
  <2>3. Counted(m, accepted, answered, queue, drain)
    BY DEF OnceOnly
  <2>. QED
    BY <1>2, <2>1, <2>2, <2>3, CountedMoves
<1>. QED
  BY <1>2, <1>6 DEF OnceOnly, Moves

LEMMA NextOnce ==
    ASSUME HistoryTyped, Sound(owner, registered, queue, drain),
           OnceOnly(accepted, answered, queue, drain), [Next]_vars
    PROVE  OnceOnly(accepted', answered', queue', drain')
<1>. DEFINE Goal == OnceOnly(accepted', answered', queue', drain')
<1>a. HistoryTyped'
  BY NextHistoryTyped
<1>b. Tidy(queue, drain)
  BY DEF OnceOnly
<1>1. ASSUME NEW m \in Messages, NEW s \in Settings, EnqueueFollowupRun(m, s)
      PROVE  Goal
  BY <1>1, <1>a, EnqueueOnce
<1>2. ASSUME NEW q \in QueueIds, DebounceEnds(q)
      PROVE  Goal
  <2>1. Moves(q, queue[q].items, <<>>)
    BY <1>2, <1>b, DebounceEndsTidy
  <2>2. UNCHANGED <<accepted, answered>>
    BY <1>2 DEF DebounceEnds, history
  <2>. QED
    BY <1>a, <2>1, <2>2, QuietMoves
<1>3. ASSUME NEW q \in QueueIds, AbortedTurnEnds(q)
      PROVE  Goal
  <2>1. Moves(q, queue[q].items, <<>>)
    BY <1>3, <1>b, AbortedTurnEndsTidy
  <2>2. UNCHANGED <<accepted, answered>>
    BY <1>3 DEF AbortedTurnEnds
  <2>. QED
    BY <1>a, <2>1, <2>2, QuietMoves
<1>4. ASSUME NEW q \in QueueIds, TurnAdmitted(q)
      PROVE  Goal
  <2>. DEFINE d == [drain[q] EXCEPT !.pc = "running"]
  <2>1. /\ queue' = queue /\ drain' = [drain EXCEPT ![q] = d]
        /\ UNCHANGED <<accepted, answered>> /\ drain[q].pc = "waiting"
    BY <1>4 DEF TurnAdmitted, history
  <2>2. drain[q] \in Drains /\ drain \in [QueueIds -> Drains]
    BY DEF Sound
  <2>3. d.pc = "running" /\ d.turn = drain[q].turn
    BY <2>2 DEF Drains
  <2>. HIDE DEF d
  <2>4. ASSUME NEW p \in QueueIds
        PROVE  /\ ObjectTidy(queue'[p], drain'[p])
               /\ NoWorse(queue[p], drain[p], queue'[p], drain'[p])
    <3>1. ObjectTidy(queue[p], drain[p])
      BY <1>b DEF Tidy
    <3>2. CASE p = q
      BY <2>1, <2>2, <2>3, <3>1, <3>2 DEF ObjectTidy, TurnTidy, NoWorse, Owed
    <3>3. CASE p # q
      BY <2>1, <2>2, <3>1, <3>3 DEF NoWorse
    <3>. QED
      BY <3>2, <3>3
  <2>5. Settles(queue, drain)
    BY <2>4 DEF Settles, Tidy
  <2>. QED
    BY <1>a, <2>1, <2>5, QuietOnce
<1>5. ASSUME NEW q \in QueueIds, TurnDeferred(q) \/ TurnFails(q)
      PROVE  Goal
  <2>1. /\ \/ drain[q].pc = "waiting" /\ Leave(q, Restored(q))
           \/ drain[q].pc = "running" /\ Leave(q, Failed(q))
        /\ UNCHANGED <<accepted, answered>>
    BY <1>5 DEF TurnDeferred, TurnFails, Restored, Failed, Owns, history
  <2>2. PICK rec \in {Restored(q), Failed(q)} : Leave(q, rec)
    BY <2>1
  <2>3. rec \in QueueStates /\ rec.items = queue[q].items
    <3>1. queue[q] \in QueueStates
      BY SoundAt
    <3>2. Restored(q).items = queue[q].items /\ Failed(q).items = queue[q].items
      BY <3>1 DEF Restored, Failed, QueueStates
    <3>. QED
      BY <2>2, <3>2, RestoredType
  <2>4. IsInjective(queue[q].items) /\ \E own : SoundBut(own, q)
    BY <1>b, <2>1, TidyAt, ApartFrom
  <2>5. Moves(q, rec.items, <<>>)
    BY <1>b, <2>2, <2>3, <2>4, LeaveTidy
  <2>. QED
    BY <1>a, <2>1, <2>3, <2>5, QuietMoves
<1>6. ASSUME NEW q \in QueueIds, TurnSucceeds(q) \/ TurnSkipped(q)
      PROVE  Goal
  BY <1>6, <1>a, TurnEndsOnce
<1>7. ASSUME UNCHANGED <<queue, drain, history>> PROVE Goal
  <2>1. Settles(queue, drain)
    BY <1>7, <1>b DEF Settles, NoWorse
  <2>. QED
    BY <1>7, <1>a, <2>1, QuietOnce DEF history
<1>8. CASE MainTurnEnds
  <2>1. Schedule(registered, queue, drain) /\ UNCHANGED <<accepted, answered>>
    BY <1>8 DEF MainTurnEnds, history
  <2>2. Settles(queue, drain)
    BY <1>b, <2>1, ScheduleTidy
  <2>. QED
    BY <1>a, <2>1, <2>2, QuietOnce
<1>9. CASE ClearSessionQueues
  BY <1>9, <1>a, ClearOnce
<1>10. ASSUME NEW m \in Messages, AbortMessage(m) \/ ForgetRecent(m)
       PROVE  Goal
  BY <1>7, <1>10 DEF AbortMessage, ForgetRecent
<1>11. CASE UNCHANGED vars \/ MainTurnAdmitted
  BY <1>7, <1>11 DEF vars, MainTurnAdmitted
<1>. QED
  BY <1>1, <1>2, <1>3, <1>4, <1>5, <1>6, <1>8, <1>9, <1>10, <1>11 DEF Next

LEMMA InitOnce ==
    ASSUME Init
    PROVE  OnceOnly(accepted, answered, queue, drain)
<1>1. ASSUME NEW p \in QueueIds
      PROVE  queue[p].items = <<>> /\ Due(drain[p].turn) = <<>>
  <2>1. queue[p] = NoQueueState /\ drain[p] = NoDrain
    BY DEF Init
  <2>. QED
    BY <2>1, NoDrainSound, NothingDue DEF NoQueueState
<1>2. Tidy(queue, drain)
  BY <1>1, NothingDue DEF Tidy, ObjectTidy, TurnTidy
<1>3. ASSUME NEW m \in Messages PROVE Counted(m, accepted, answered, queue, drain)
  <2>1. Holding(m, queue) = {} /\ Owing(m, queue, drain) = {}
    BY <1>1, ToSetEmpty, NothingOwed DEF Holding, Owing, Holds, Owed
  <2>2. accepted[m] = 0 /\ answered[m] = 0
    BY DEF Init
  <2>. QED
    BY <2>1, <2>2, FS_EmptySet DEF Counted
<1>. QED
  BY <1>2, <1>3 DEF OnceOnly

LEMMA SpecOnce ==
    Spec => [](/\ Sound(owner, registered, queue, drain) /\ HistoryTyped
               /\ OnceOnly(accepted, answered, queue, drain))
<1>. DEFINE S == Sound(owner, registered, queue, drain) /\ HistoryTyped
            B == OnceOnly(accepted, answered, queue, drain)
<1>1. Init => B
  BY InitOnce
<1>2. S /\ B /\ [Next]_vars => B'
  <2>. SUFFICES ASSUME Sound(owner, registered, queue, drain), HistoryTyped,
                       OnceOnly(accepted, answered, queue, drain), [Next]_vars
                PROVE  OnceOnly(accepted', answered', queue', drain')
    BY DEF OnceOnly
  <2>. QED
    BY NextOnce
<1>. QED
  BY SpecSound, <1>1, <1>2, PTL DEF Spec

\* What the books say of one message.
LEMMA AnsweredOnce ==
    ASSUME Sound(owner, registered, queue, drain), HistoryTyped,
           OnceOnly(accepted, answered, queue, drain), NEW m \in Messages
    PROVE  answered[m] + Occurrences(m) <= accepted[m]
<1>. DEFINE H == Holding(m, queue)
            L == Owing(m, queue, drain)
<1>1. answered[m] + Cardinality(H) + Cardinality(L) <= accepted[m]
  BY DEF OnceOnly, Counted
<1>2. answered[m] \in Nat /\ accepted[m] \in Nat
  BY DEF HistoryTyped
<1>3. H \subseteq QueueIds /\ L \subseteq QueueIds
  BY DEF Holding, Owing
<1>4. \A p \in QueueIds : m \in ToSet(queue[p].items) => p \in H
  BY DEF Holding, Holds
<1>. HIDE DEF H, L
<1>5. Cardinality(H) \in Nat /\ Cardinality(L) \in Nat
  BY <1>3, CountsOf
<1>6. Occurrences(m) \in Nat /\ Occurrences(m) <= Cardinality(H)
  <2>1. CASE Occurrences(m) = 0
    BY <1>5, <2>1
  <2>2. CASE Occurrences(m) # 0
    <3>. DEFINE items == queue[registered].items
                at == {i \in DOMAIN items : items[i] = m}
    <3>1. registered \in QueueIds /\ Occurrences(m) = Cardinality(at)
      BY <2>2 DEF Occurrences, Sound
    <3>2. items \in Seq(Messages) /\ IsInjective(items)
      BY <3>1, SoundAt, TidyAt DEF OnceOnly
    <3>. HIDE DEF items
    <3>3. PICK i \in DOMAIN items : items[i] = m
      <4>1. at # {}
        BY <2>2, <3>1, FS_EmptySet
      <4>. QED
        BY <4>1
    <3>4. at = {i}
      BY <3>2, <3>3 DEF IsInjective
    <3>5. m \in ToSet(items)
      BY <3>2, <3>3, Members
    <3>6. {registered} \subseteq H
      BY <1>4, <3>1, <3>5 DEF items
    <3>7. Cardinality(at) = 1 /\ Cardinality({registered}) = 1
      BY <3>4, FS_Singleton
    <3>. QED
      BY <1>3, <3>1, <3>6, <3>7, CountsOf
  <2>. QED
    BY <2>1, <2>2
<1>. QED
  BY <1>1, <1>2, <1>5, <1>6

\* Whatever the settings of the queue, and although it drops entries that are in
\* flight, takes entries off by their position, tries turns again, and still
\* answers what the drain of a stopped queue carries: no accepted message is
\* answered twice, and none that was answered is still queued
\* (scheduleFollowupDrain, applyQueueDropPolicy, clearSessionQueues).
THEOREM NeverAnsweredTwice == Spec => []NothingTwice
<1>1. /\ Sound(owner, registered, queue, drain) /\ HistoryTyped
      /\ OnceOnly(accepted, answered, queue, drain)
      => NothingTwice
  BY AnsweredOnce DEF NothingTwice
<1>. QED
  BY <1>1, SpecOnce, PTL

-----------------------------------------------------------------------------
(* Part four: what is accepted is answered or discarded.                   *)

\* What is taken off the front of a list, and what stays.
LEMMA FrontTaken ==
    ASSUME NEW items \in Seq(Messages), NEW s \in Seq(Messages), IsInjective(items),
           Len(s) <= Len(items), \A i \in 1..Len(s) : items[i] = s[i]
    PROVE  LET left == SubSeq(items, Len(s) + 1, Len(items))
           IN  /\ ToSet(left) = ToSet(items) \ ToSet(s) /\ ToSet(s) \subseteq ToSet(items)
               /\ IsInjective(left) /\ IsInjective(s) /\ Len(left) = Len(items) - Len(s)
               /\ left \in Seq(Messages)
               /\ \A i \in 1..(Len(items) - Len(s)) : left[i] = items[Len(s) + i]
<1>. DEFINE left == SubSeq(items, Len(s) + 1, Len(items))
<1>1. /\ Len(s) \in Nat /\ Len(items) \in Nat
      /\ DOMAIN items = 1..Len(items) /\ DOMAIN s = 1..Len(s)
      /\ \A i \in 1..Len(items) : items[i] \in ToSet(items)
      /\ \A m \in ToSet(items) : \E i \in 1..Len(items) : items[i] = m
      /\ \A i \in 1..Len(s) : s[i] \in ToSet(s)
      /\ \A m \in ToSet(s) : \E i \in 1..Len(s) : s[i] = m
  BY Members
<1>2. /\ left \in Seq(Messages) /\ Len(left) = Len(items) - Len(s)
      /\ \A i \in 1..(Len(items) - Len(s)) : left[i] = items[Len(s) + i]
      /\ ToSet(left) \subseteq ToSet(items)
  BY <1>1, DropFront
<1>. HIDE DEF left
<1>3. /\ DOMAIN left = 1..Len(left) /\ \A i \in 1..Len(left) : left[i] \in ToSet(left)
      /\ \A m \in ToSet(left) : \E i \in 1..Len(left) : left[i] = m
  BY <1>2, Members
<1>4. \A i, j \in 1..Len(items) : items[i] = items[j] => i = j
  BY <1>1 DEF IsInjective
<1>5. ToSet(s) \subseteq ToSet(items)
  <2>. SUFFICES ASSUME NEW m \in ToSet(s) PROVE m \in ToSet(items)
    OBVIOUS
  <2>1. PICK i \in 1..Len(s) : s[i] = m
    BY <1>1
  <2>2. i \in 1..Len(items) /\ items[i] = m
    BY <1>1, <2>1
  <2>. QED
    BY <1>1, <2>2
<1>6. ASSUME NEW m \in ToSet(left) PROVE m \notin ToSet(s)
  <2>1. PICK i \in 1..Len(left) : left[i] = m
    BY <1>3
  <2>2. Len(s) + i \in 1..Len(items) /\ items[Len(s) + i] = m /\ i >= 1
    BY <1>1, <1>2, <2>1
  <2>3. ASSUME NEW j \in 1..Len(s), s[j] = m PROVE FALSE
    <3>1. j \in 1..Len(items) /\ items[j] = m /\ j <= Len(s)
      BY <1>1, <2>3
    <3>2. Len(s) + i = j
      BY <1>4, <2>2, <3>1
    <3>. QED
      BY <1>1, <2>2, <3>1, <3>2
  <2>. QED
    BY <1>1, <2>3
<1>7. ASSUME NEW m \in ToSet(items) \ ToSet(s) PROVE m \in ToSet(left)
  <2>1. PICK i \in 1..Len(items) : items[i] = m
    BY <1>1
  <2>2. ~(i <= Len(s))
    <3>1. ASSUME i <= Len(s) PROVE FALSE
      <4>1. i \in 1..Len(s)
        BY <1>1, <2>1, <3>1
      <4>. QED
        BY <1>1, <2>1, <4>1
    <3>. QED
      BY <3>1
  <2>3. i - Len(s) \in 1..(Len(items) - Len(s)) /\ Len(s) + (i - Len(s)) = i
    BY <1>1, <2>2
  <2>4. left[i - Len(s)] = m /\ i - Len(s) \in 1..Len(left)
    BY <1>2, <2>1, <2>3
  <2>. QED
    BY <1>3, <2>4
<1>8. IsInjective(left)
  <2>. SUFFICES ASSUME NEW i \in 1..Len(left), NEW j \in 1..Len(left), left[i] = left[j]
                PROVE  i = j
    BY <1>3 DEF IsInjective
  <2>1. /\ Len(s) + i \in 1..Len(items) /\ Len(s) + j \in 1..Len(items)
        /\ items[Len(s) + i] = items[Len(s) + j]
    BY <1>1, <1>2
  <2>2. Len(s) + i = Len(s) + j
    BY <1>4, <2>1
  <2>. QED
    BY <1>1, <1>2, <2>2
<1>9. IsInjective(s)
  <2>. SUFFICES ASSUME NEW i \in 1..Len(s), NEW j \in 1..Len(s), s[i] = s[j] PROVE i = j
    BY <1>1 DEF IsInjective
  <2>1. i \in 1..Len(items) /\ j \in 1..Len(items) /\ items[i] = items[j]
    BY <1>1
  <2>. QED
    BY <1>4, <2>1
<1>. QED
  BY <1>2, <1>5, <1>6, <1>7, <1>8, <1>9 DEF left

LEMMA NothingPending ==
    ASSUME NEW turn \in Turns, Pending(turn) = {}
    PROVE  /\ turn.speaks = <<>> /\ turn.rest = <<>> /\ Distinct(turn)
           /\ \A items \in Seq(Messages) : Fits(turn, items)
<1>1. turn.speaks \in Seq(Messages) /\ turn.rest \in Seq(Messages)
  BY DEF Turns, Entries
<1>2. ToSet(turn.speaks) = {} /\ ToSet(turn.rest) = {}
  BY DEF Pending
<1>3. turn.speaks = <<>> /\ turn.rest = <<>>
  <2>1. \A s \in Seq(Messages) : s # <<>> => 1 \in 1..Len(s)
    BY Members
  <2>2. \A s \in Seq(Messages) : s # <<>> => s[1] \in ToSet(s)
    BY <2>1, Members
  <2>. QED
    BY <1>1, <1>2, <2>2
<1>4. Distinct(turn)
  BY <1>3, ToSetEmpty DEF Distinct, IsInjective
<1>5. \A items \in Seq(Messages) : Fits(turn, items)
  BY <1>3 DEF Fits
<1>. QED
  BY <1>3, <1>4, <1>5

LEMMA NoTurnExact == ~NoTurn.overflow /\ Pending(NoTurn) = {} /\ Distinct(NoTurn)
<1>1. NoTurn.speaks = <<>> /\ NoTurn.rest = <<>> /\ ~NoTurn.overflow
  BY DEF NoTurn
<1>2. Pending(NoTurn) = {}
  BY <1>1, ToSetEmpty DEF Pending
<1>. QED
  BY <1>1, <1>2, NothingPending, NoTurnSound

\* A drain that has no turn.
LEMMA WithoutTurnExact ==
    ASSUME NEW d \in Drains, d.pc \notin {"waiting", "running"}, d.turn = NoTurn,
           NEW rec \in QueueStates, ~Sweeping(d)
    PROVE  DrainExact(d) /\ Pending(d.turn) = {} /\ InStep(rec, d)
<1>1. rec.items \in Seq(Messages)
  BY DEF QueueStates, Entries
<1>2. Fits(NoTurn, rec.items)
  BY <1>1, NoTurnExact, NothingPending, NoTurnSound
<1>. QED
  BY <1>2, NoTurnExact DEF DrainExact, InStep

LEMMA NoDrainExact == DrainExact(NoDrain) /\ Pending(NoDrain.turn) = {}
BY NoDrainSound, NoTurnExact DEF DrainExact

LEMMA NoQueueStateExact == RecExact(NoQueueState) /\ NoQueueState.items = <<>>
BY DEF RecExact, NoQueueState, IsInjective

\* The sweep of an aborted entry.
LEMMA SweepingExact ==
    ASSUME NEW rec \in QueueStates, NEW d \in Drains, d.pc \in {"abortBefore", "abortAfter"},
           d.turn.speaks = <<>>, d.turn.rest = <<>>, ~d.turn.overflow,
           d.at \in 1..Len(rec.items), d.turn.carries = <<rec.items[d.at]>>
    PROVE  DrainExact(d) /\ InStep(rec, d) /\ Pending(d.turn) = {}
<1>1. rec.items \in Seq(Messages) /\ d.turn \in Turns
  BY DEF QueueStates, Entries, Drains
<1>2. Pending(d.turn) = {}
  BY ToSetEmpty DEF Pending
<1>3. Distinct(d.turn) /\ Fits(d.turn, rec.items)
  BY <1>1, <1>2, NothingPending
<1>4. d.at \in DOMAIN rec.items /\ rec.items[d.at] \in Messages
  BY <1>1, Members
<1>5. Head(d.turn.carries) = rec.items[d.at]
  BY <1>4, PairIsSingle
<1>. QED
  BY <1>2, <1>3, <1>4, <1>5 DEF DrainExact, InStep

LEMMA LoopTopExact ==
    ASSUME NEW rec \in QueueStates, NEW force \in BOOLEAN
    PROVE  LET d == LoopTop(rec.items, force)
           IN DrainExact(d) /\ InStep(rec, d) /\ Pending(d.turn) = {}
<1>. DEFINE bad == AbortedAt(rec.items, Len(rec.items))
            d == LoopTop(rec.items, force)
<1>1. rec.items \in Seq(Messages) /\ Len(rec.items) \in 0..Len(rec.items)
  BY Members DEF QueueStates, Entries
<1>2. d \in Drains
  BY <1>1, LoopTopSound
<1>3. CASE bad = {}
  <2>1. d = [NoDrain EXCEPT !.pc = "debounce", !.force = force]
    BY <1>3 DEF LoopTop
  <2>2. d.pc = "debounce" /\ d.turn = NoTurn
    BY <2>1, DebounceSound
  <2>. HIDE DEF d
  <2>3. DrainExact(d) /\ InStep(rec, d) /\ Pending(d.turn) = {}
    BY <1>2, <2>2, WithoutTurnExact DEF Sweeping
  <2>. QED
    BY <2>3 DEF d
<1>4. CASE bad # {}
  <2>1. Max(bad) \in 1..Len(rec.items)
    BY <1>1, <1>4, AbortedIndex
  <2>2. d = SweepOf("abortBefore", Max(bad), force, rec.items[Max(bad)])
    BY <1>4 DEF LoopTop, SweepOf, NoDrain
  <2>. HIDE DEF bad
  <2>3. /\ d.pc = "abortBefore" /\ d.at = Max(bad)
        /\ d.turn = [NoTurn EXCEPT !.carries = <<rec.items[Max(bad)]>>]
    BY <2>2 DEF SweepOf
  <2>4. /\ d.turn.speaks = <<>> /\ d.turn.rest = <<>> /\ ~d.turn.overflow
        /\ d.turn.carries = <<rec.items[Max(bad)]>>
    BY <2>3 DEF NoTurn
  <2>. HIDE DEF d
  <2>5. DrainExact(d) /\ InStep(rec, d) /\ Pending(d.turn) = {}
    BY <1>2, <2>1, <2>3, <2>4, SweepingExact
  <2>. QED
    BY <2>5 DEF d
<1>. QED
  BY <1>3, <1>4

\* The step carries on with these values: the same entries are queued.
Carried(reg, qs, ds) ==
    /\ Exact(registered', queue', drain')
    /\ Queued(registered', queue') = Queued(reg, qs)

LEMMA BecomeExact ==
    ASSUME NEW reg \in QueueIds \cup {NoQueue}, NEW qs, NEW ds, Exact(reg, qs, ds),
           Become(reg, qs, ds)
    PROVE  Carried(reg, qs, ds)
<1>1. /\ registered' = reg /\ drain' = ds
      /\ queue' = [q \in QueueIds |-> IF q = reg \/ qs[q].draining THEN qs[q] ELSE NoQueueState]
  BY DEF Become, Live
<1>2. Exact(registered', queue', drain')
  <2>. SUFFICES ASSUME NEW p \in QueueIds PROVE ObjectExact(p = reg, queue'[p], ds[p])
    BY <1>1 DEF Exact
  <2>1. ObjectExact(p = reg, qs[p], ds[p])
    BY DEF Exact
  <2>2. queue'[p] = qs[p] \/ (p # reg /\ queue'[p] = NoQueueState)
    BY <1>1
  <2>. QED
    BY <2>1, <2>2, NoQueueStateExact DEF ObjectExact
<1>3. Queued(registered', queue') = Queued(reg, qs)
  BY <1>1 DEF Queued
<1>. QED
  BY <1>1, <1>2, <1>3 DEF Carried

LEMMA ScheduleExact ==
    ASSUME NEW own, NEW reg, NEW qs, NEW ds, Sound(own, reg, qs, ds), Exact(reg, qs, ds),
           Schedule(reg, qs, ds)
    PROVE  Carried(reg, qs, ds)
<1>0. reg \in QueueIds \cup {NoQueue} /\ qs \in [QueueIds -> QueueStates] /\ ds \in [QueueIds -> Drains]
  BY DEF Sound
<1>1. CASE reg = NoQueue \/ (reg # NoQueue /\ qs[reg].draining)
  BY <1>0, <1>1, BecomeExact DEF Schedule
<1>2. CASE reg # NoQueue /\ ~qs[reg].draining /\ HasWork(qs[reg])
  <2>. DEFINE rec == [qs[reg] EXCEPT !.draining = TRUE]
              d == LoopTop(qs[reg].items, FALSE)
              qs2 == [qs EXCEPT ![reg].draining = TRUE]
              ds2 == [ds EXCEPT ![reg] = d]
  <2>1. Become(reg, qs2, ds2)
    BY <1>2 DEF Schedule
  <2>2. reg \in QueueIds /\ qs[reg] \in QueueStates
    BY <1>0, <1>2
  <2>3. rec \in QueueStates /\ rec.items = qs[reg].items /\ (RecExact(qs[reg]) => RecExact(rec))
    BY <2>2 DEF QueueStates, RecExact
  <2>4. qs2[reg] = rec /\ ds2[reg] = d
    BY <1>0, <2>2
  <2>5. \A p \in QueueIds \ {reg} : qs2[p] = qs[p] /\ ds2[p] = ds[p]
    BY <1>0
  <2>. HIDE DEF rec, qs2, ds2
  <2>6. DrainExact(d) /\ InStep(rec, d)
    BY <2>3, LoopTopExact
  <2>. HIDE DEF d
  <2>7. RecExact(qs[reg])
    BY <2>2 DEF Exact, ObjectExact
  <2>8. Exact(reg, qs2, ds2)
    <3>. SUFFICES ASSUME NEW p \in QueueIds PROVE ObjectExact(p = reg, qs2[p], ds2[p])
      BY DEF Exact
    <3>1. CASE p = reg
      BY <2>3, <2>4, <2>6, <2>7, <3>1 DEF ObjectExact
    <3>2. CASE p # reg
      BY <2>5, <3>2 DEF Exact
    <3>. QED
      BY <3>1, <3>2
  <2>9. Carried(reg, qs2, ds2)
    BY <1>0, <2>1, <2>8, BecomeExact
  <2>10. Queued(reg, qs2) = Queued(reg, qs)
    BY <2>3, <2>4 DEF Queued
  <2>. QED
    BY <2>9, <2>10 DEF Carried
<1>3. CASE reg # NoQueue /\ ~qs[reg].draining /\ ~HasWork(qs[reg])
  <2>1. Become(NoQueue, qs, ds)
    BY <1>3 DEF Schedule
  <2>2. reg \in QueueIds /\ ds[reg].pc = "idle" /\ qs[reg].items = <<>>
    BY <1>0, <1>3 DEF Sound, ObjectSound, HasWork
  <2>4. Exact(NoQueue, qs, ds)
    <3>. SUFFICES ASSUME NEW p \in QueueIds PROVE ObjectExact(p = NoQueue, qs[p], ds[p])
      BY DEF Exact
    <3>1. ObjectExact(p = reg, qs[p], ds[p])
      BY DEF Exact
    <3>2. p # NoQueue
      BY NamesAssumption
    <3>. QED
      BY <2>2, <3>1, <3>2 DEF ObjectExact
  <2>5. Carried(NoQueue, qs, ds)
    BY <2>1, <2>4, BecomeExact
  <2>6. Queued(NoQueue, qs) = Queued(reg, qs)
    BY <2>2 DEF Queued
  <2>. QED
    BY <2>5, <2>6 DEF Carried
<1>. QED
  BY <1>1, <1>2, <1>3

\* Every object is exact, but for q, whose drain is about to go on with rec.
ExactBut(q, rec) ==
    /\ \A p \in QueueIds \ {q} : ObjectExact(p = registered, queue[p], drain[p])
    /\ RecExact(rec)
    /\ q # registered => rec.items = <<>>

\* The step ends with q's list being items.
Outcome(q, items) ==
    /\ Exact(registered', queue', drain')
    /\ Queued(registered', queue') = IF registered = q THEN items ELSE Queued(registered, queue)

LEMMA ExactRest ==
    ASSUME Exact(registered, queue, drain), NEW q \in QueueIds, NEW rec, RecExact(rec),
           q # registered => rec.items = <<>>
    PROVE  ExactBut(q, rec)
BY DEF Exact, ExactBut

LEMMA GoesOnExact ==
    ASSUME NEW own, NEW q \in QueueIds, NEW rec \in QueueStates, SoundBut(own, q),
           ExactBut(q, rec), NEW d, DrainExact(d), q = registered => InStep(rec, d),
           Become(registered, [queue EXCEPT ![q] = rec], [drain EXCEPT ![q] = d])
    PROVE  Outcome(q, rec.items)
<1>. DEFINE qs == [queue EXCEPT ![q] = rec]
            ds == [drain EXCEPT ![q] = d]
<1>1. /\ qs[q] = rec /\ ds[q] = d
      /\ \A p \in QueueIds \ {q} : qs[p] = queue[p] /\ ds[p] = drain[p]
  BY DEF SoundBut
<1>2. registered \in QueueIds \cup {NoQueue}
  BY DEF SoundBut
<1>. HIDE DEF qs, ds
<1>3. Exact(registered, qs, ds)
  <2>. SUFFICES ASSUME NEW p \in QueueIds PROVE ObjectExact(p = registered, qs[p], ds[p])
    BY DEF Exact
  <2>1. CASE p = q
    BY <1>1, <2>1 DEF ExactBut, ObjectExact
  <2>2. CASE p # q
    BY <1>1, <2>2 DEF ExactBut
  <2>. QED
    BY <2>1, <2>2
<1>4. Carried(registered, qs, ds)
  BY <1>2, <1>3, BecomeExact DEF qs, ds
<1>5. Queued(registered, qs) = IF registered = q THEN rec.items ELSE Queued(registered, queue)
  BY <1>1, <1>2, NamesAssumption DEF Queued
<1>. QED
  BY <1>4, <1>5 DEF Carried, Outcome

LEMMA LeaveExact ==
    ASSUME NEW own, NEW q \in QueueIds, NEW rec \in QueueStates, SoundBut(own, q),
           ExactBut(q, rec), Leave(q, rec)
    PROVE  Outcome(q, rec.items)
<1>. DEFINE qs == LeftQueue(q, rec)
            ds == LeftDrain(q)
<1>1. registered \in QueueIds \cup {NoQueue}
  BY DEF SoundBut
<1>2. /\ qs[q] = [rec EXCEPT !.draining = FALSE] /\ ds[q] = NoDrain
      /\ \A p \in QueueIds \ {q} : qs[p] = queue[p] /\ ds[p] = drain[p]
  BY DEF SoundBut, LeftQueue, LeftDrain
<1>3. Sound(own, registered, qs, ds)
  BY <1>1, LeftSound
<1>4. qs[q].items = rec.items /\ RecExact(qs[q])
  <2>1. RecExact(rec)
    BY DEF ExactBut
  <2>. QED
    BY <1>2, <2>1 DEF QueueStates, RecExact
<1>. HIDE DEF qs, ds
<1>5. InStep(qs[q], NoDrain)
  <2>1. qs[q] \in QueueStates
    BY <1>3 DEF Sound
  <2>. QED
    BY <2>1, NoDrainSound, WithoutTurnExact DEF Sweeping
<1>6. Exact(registered, qs, ds)
  <2>. SUFFICES ASSUME NEW p \in QueueIds PROVE ObjectExact(p = registered, qs[p], ds[p])
    BY DEF Exact
  <2>1. CASE p = q
    BY <1>2, <1>4, <1>5, <2>1, NoDrainExact DEF ExactBut, ObjectExact
  <2>2. CASE p # q
    BY <1>2, <2>2 DEF ExactBut
  <2>. QED
    BY <2>1, <2>2
<1>8. CASE HasWork(rec)
  <2>1. Schedule(registered, qs, ds)
    BY <1>8, LeaveIs DEF qs, ds
  <2>2. Carried(registered, qs, ds)
    BY <1>3, <1>6, <2>1, ScheduleExact
  <2>3. Queued(registered, qs) = IF registered = q THEN rec.items ELSE Queued(registered, queue)
    BY <1>1, <1>2, <1>4, NamesAssumption DEF Queued
  <2>. QED
    BY <2>2, <2>3 DEF Carried, Outcome
<1>9. CASE ~HasWork(rec) /\ registered # q
  <2>1. Become(registered, qs, ds)
    BY <1>9, LeaveIs DEF qs, ds
  <2>2. Carried(registered, qs, ds)
    BY <1>1, <1>6, <2>1, BecomeExact
  <2>3. Queued(registered, qs) = Queued(registered, queue)
    BY <1>1, <1>2, <1>9 DEF Queued
  <2>. QED
    BY <1>9, <2>2, <2>3 DEF Carried, Outcome
<1>10. CASE ~HasWork(rec) /\ registered = q
  <2>1. Become(NoQueue, qs, ds)
    BY <1>10, LeaveIs DEF qs, ds
  <2>2. rec.items = <<>>
    BY <1>10 DEF HasWork
  <2>3. Exact(NoQueue, qs, ds)
    <3>. SUFFICES ASSUME NEW p \in QueueIds PROVE ObjectExact(p = NoQueue, qs[p], ds[p])
      BY DEF Exact
    <3>1. ObjectExact(p = registered, qs[p], ds[p])
      BY <1>6 DEF Exact
    <3>2. p # NoQueue
      BY NamesAssumption
    <3>. QED
      BY <1>4, <1>10, <2>2, <3>1, <3>2 DEF ObjectExact
  <2>4. Carried(NoQueue, qs, ds)
    BY <2>1, <2>3, BecomeExact
  <2>5. Queued(NoQueue, qs) = rec.items
    BY <2>2 DEF Queued
  <2>. QED
    BY <1>10, <2>4, <2>5 DEF Carried, Outcome
<1>. QED
  BY <1>8, <1>9, <1>10

LEMMA IterateExact ==
    ASSUME NEW own, NEW q \in QueueIds, NEW rec \in QueueStates, SoundBut(own, q),
           ExactBut(q, rec), NEW force \in BOOLEAN, Iterate(q, rec, force)
    PROVE  Outcome(q, rec.items)
<1>1. CASE HasWork(rec)
  <2>. DEFINE d == LoopTop(rec.items, force)
  <2>1. DrainExact(d) /\ InStep(rec, d) /\ Pending(d.turn) = {}
    BY LoopTopExact
  <2>2. Become(registered, [queue EXCEPT ![q] = rec], [drain EXCEPT ![q] = d])
    BY <1>1 DEF Iterate
  <2>. HIDE DEF d
  <2>. QED
    BY <2>1, <2>2, GoesOnExact
<1>2. CASE ~HasWork(rec)
  BY <1>2, LeaveExact DEF Iterate
<1>. QED
  BY <1>1, <1>2

\* A turn that speaks for what is in front of the list.
LEMMA StartTurnExact ==
    ASSUME NEW own, NEW q \in QueueIds, NEW rec \in QueueStates, SoundBut(own, q),
           ExactBut(q, rec), NEW force \in BOOLEAN,
           NEW turn, ~turn.overflow, Distinct(turn), turn.carries = turn.speaks,
           q = registered => Fits(turn, rec.items), StartTurn(q, rec, force, turn)
    PROVE  Outcome(q, rec.items)
<1>. DEFINE d == [pc |-> "waiting", at |-> 0, force |-> force, turn |-> turn]
<1>1. d.pc = "waiting" /\ d.turn = turn
  OBVIOUS
<1>2. Become(registered, [queue EXCEPT ![q] = rec], [drain EXCEPT ![q] = d])
  BY DEF StartTurn
<1>. HIDE DEF d
<1>3. DrainExact(d) /\ (q = registered => InStep(rec, d))
  BY <1>1 DEF DrainExact, InStep, Sweeping
<1>. QED
  BY <1>2, <1>3, GoesOnExact

LEMMA SingleExact ==
    ASSUME NEW items \in Seq(Messages), items # <<>>
    PROVE  LET t == Single(Head(items))
           IN  /\ ~t.overflow /\ Distinct(t) /\ t.carries = t.speaks /\ Fits(t, items)
<1>. DEFINE m == Head(items)
            t == Single(m)
<1>1. m \in Messages /\ m = items[1] /\ Len(items) \in Nat /\ Len(items) >= 1
  BY HeadOf, Members
<1>2. t.carries = <<m>> /\ t.speaks = <<m>> /\ t.rest = <<>> /\ ~t.overflow
  BY <1>1, SingleSound
<1>3. Len(<<m>>) = 1 /\ DOMAIN <<m>> = 1..1 /\ <<m>>[1] = m
  BY <1>1, PairIsSingle
<1>. HIDE DEF t
<1>4. Distinct(t)
  BY <1>2, <1>3, ToSetEmpty DEF Distinct, IsInjective
<1>5. Fits(t, items)
  BY <1>1, <1>2, <1>3 DEF Fits
<1>. HIDE DEF m
<1>. QED
  BY <1>2, <1>4, <1>5 DEF m, t

\* A group is distinct from what follows it, and both are in front of a list
\* that has the batch in front.
LEMMA GroupExact ==
    ASSUME NEW batch \in Seq(Messages), batch # <<>>, IsInjective(batch),
           NEW items \in Seq(Messages)
    PROVE  LET t == GroupTurn(batch)
           IN  /\ ~t.overflow /\ Distinct(t) /\ t.carries = t.speaks
               /\ Len(batch) <= Len(items) /\ (\A i \in 1..Len(batch) : items[i] = batch[i]) =>
                      Fits(t, items)
<1>. DEFINE t == GroupTurn(batch)
            g == t.speaks
            r == t.rest
<1>1. /\ t \in Turns /\ t.carries = g /\ ~t.overflow
      /\ Len(g) \in 1..Len(batch) /\ Len(r) = Len(batch) - Len(g)
      /\ \A i \in 1..Len(g) : g[i] = batch[i]
      /\ \A i \in 1..Len(r) : r[i] = batch[Len(g) + i]
  BY GroupTurnIs
<1>2. g \in Seq(Messages) /\ r \in Seq(Messages)
  BY <1>1 DEF Turns, Entries
<1>. HIDE DEF t
<1>3. /\ Len(batch) \in Nat /\ Len(g) \in Nat /\ Len(r) \in Nat /\ Len(items) \in Nat
      /\ DOMAIN g = 1..Len(g) /\ DOMAIN r = 1..Len(r)
      /\ DOMAIN batch = 1..Len(batch)
  BY <1>2, Members
<1>5. r = SubSeq(batch, Len(g) + 1, Len(batch))
  BY DEF t, GroupTurn, NoTurn
<1>. HIDE DEF g, r
<1>a. Len(g) <= Len(batch) /\ \A i \in 1..Len(g) : batch[i] = g[i]
  BY <1>1, <1>3
<1>4. /\ ToSet(SubSeq(batch, Len(g) + 1, Len(batch))) = ToSet(batch) \ ToSet(g)
      /\ IsInjective(SubSeq(batch, Len(g) + 1, Len(batch))) /\ IsInjective(g)
  BY <1>2, <1>a, FrontTaken
<1>6. Distinct(t)
  <2>1. ToSet(r) = ToSet(batch) \ ToSet(g) /\ IsInjective(r) /\ IsInjective(g)
    BY <1>4, <1>5
  <2>. QED
    BY <2>1 DEF Distinct, g, r
<1>8. ASSUME Len(batch) <= Len(items), \A i \in 1..Len(batch) : items[i] = batch[i]
      PROVE  Fits(t, items)
  <2>1. Len(g) + Len(r) <= Len(items)
    BY <1>1, <1>3, <1>8
  <2>2. ASSUME NEW i \in DOMAIN g PROVE items[i] = g[i]
    <3>1. i \in 1..Len(batch) /\ i \in 1..Len(g)
      BY <1>1, <1>3
    <3>. QED
      BY <1>8, <1>a, <3>1
  <2>3. ASSUME NEW i \in DOMAIN r PROVE items[Len(g) + i] = r[i]
    <3>1. Len(g) + i \in 1..Len(batch) /\ i \in 1..Len(r)
      BY <1>1, <1>3
    <3>. QED
      BY <1>1, <1>8, <3>1
  <2>. QED
    BY <2>1, <2>2, <2>3 DEF Fits, g, r
<1>. QED
  BY <1>1, <1>6, <1>8 DEF t, g, r

\* Without dropped entries there is no summary.
LEMMA NoSummary ==
    ASSUME NEW rec, RecExact(rec)
    PROVE  /\ ~SummaryPrompt(rec) /\ (HasWork(rec) <=> rec.items # <<>>)
           /\ \A t : WithOverflow(rec, t) = t
BY DEF RecExact, SummaryPrompt, HasWork, WithOverflow

LEMMA AfterSweepExact ==
    ASSUME NEW own, NEW q \in QueueIds, NEW rec \in QueueStates, SoundBut(own, q),
           ExactBut(q, rec), NEW force \in BOOLEAN, NEW phase, AfterSweep(q, phase, rec, force)
    PROVE  Outcome(q, rec.items)
<1>. DEFINE items == rec.items
<1>1. items \in Seq(Messages) /\ RecExact(rec) /\ IsInjective(items)
  BY DEF QueueStates, Entries, ExactBut, RecExact
<1>2. ~SummaryPrompt(rec) /\ (HasWork(rec) <=> items # <<>>) /\ \A t : WithOverflow(rec, t) = t
  BY <1>1, NoSummary
<1>3. items # <<>> => q = registered
  BY DEF ExactBut
<1>4. CASE Leave(q, rec)
  BY <1>4, LeaveExact
<1>5. ASSUME NEW f \in BOOLEAN, items # <<>>, StartTurn(q, rec, f, Single(Head(items)))
      PROVE  Outcome(q, items)
  <2>. DEFINE t == Single(Head(items))
  <2>1. ~t.overflow /\ Distinct(t) /\ t.carries = t.speaks /\ Fits(t, items)
    BY <1>1, <1>5, SingleExact
  <2>. HIDE DEF t
  <2>. QED
    BY <1>5, <2>1, StartTurnExact DEF t
<1>6. ASSUME NEW f \in BOOLEAN, items # <<>>, StartTurn(q, rec, f, GroupTurn(items))
      PROVE  Outcome(q, items)
  <2>. DEFINE t == GroupTurn(items)
  <2>1. Len(items) <= Len(items)
    BY <1>1, Members
  <2>2. ~t.overflow /\ Distinct(t) /\ t.carries = t.speaks /\ Fits(t, items)
    BY <1>1, <1>6, <2>1, GroupExact
  <2>. HIDE DEF t
  <2>. QED
    BY <1>6, <2>2, StartTurnExact DEF t
<1>7. CASE ~HasWork(rec)
  BY <1>4, <1>7 DEF AfterSweep
<1>8. CASE HasWork(rec) /\ phase = "abortBefore"
  <2>. DEFINE d == [NoDrain EXCEPT !.pc = "debounce", !.force = force]
  <2>1. d \in Drains /\ d.pc = "debounce" /\ d.turn = NoTurn
    BY DebounceSound
  <2>2. Become(registered, [queue EXCEPT ![q] = rec], [drain EXCEPT ![q] = d])
    BY <1>8 DEF AfterSweep
  <2>. HIDE DEF d
  <2>3. DrainExact(d) /\ Pending(d.turn) = {} /\ InStep(rec, d)
    BY <2>1, WithoutTurnExact DEF Sweeping
  <2>. QED
    BY <2>2, <2>3, GoesOnExact
<1>9. CASE HasWork(rec) /\ phase # "abortBefore"
  <2>0. items # <<>> /\ Dispatch(q, rec, force)
    BY <1>2, <1>9 DEF AfterSweep
  <2>1. CASE rec.mode = "collect"
    <3>1. \/ StartTurn(q, rec, TRUE, Single(Head(items)))
          \/ StartTurn(q, rec, FALSE, WithOverflow(rec, GroupTurn(items)))
      BY <2>0, <2>1 DEF Dispatch, CollectTurn
    <3>. HIDE DEF items
    <3>2. \/ StartTurn(q, rec, TRUE, Single(Head(items)))
          \/ StartTurn(q, rec, FALSE, GroupTurn(items))
      BY <1>2, <3>1
    <3>. QED
      BY <1>5, <1>6, <2>0, <3>2 DEF items
  <2>2. CASE rec.mode # "collect"
    <3>1. StartTurn(q, rec, force, Single(Head(items)))
      BY <1>2, <2>0, <2>2 DEF Dispatch, FollowupTurn
    <3>. QED
      BY <1>5, <2>0, <3>1
  <2>. QED
    BY <2>1, <2>2
<1>. QED
  BY <1>7, <1>8, <1>9

\* The end of a turn takes off what the turn spoke for.
LEMMA FinishTurnExact ==
    ASSUME Sound(owner, registered, queue, drain), Exact(registered, queue, drain),
           NEW q \in QueueIds, FinishTurn(q), NEW own, SoundBut(own, q),
           drain[q].pc \in {"waiting", "running"}
    PROVE  LET turn == drain[q].turn
               items == queue[q].items
           IN  /\ Outcome(q, TakenOff(q).items)
               /\ turn.carries = turn.speaks /\ ~turn.overflow
               /\ q = registered => /\ ToSet(turn.speaks) \subseteq ToSet(items)
                                    /\ ToSet(TakenOff(q).items) = ToSet(items) \ ToSet(turn.speaks)
<1>. DEFINE turn == drain[q].turn
            items == queue[q].items
            s == turn.speaks
            r == turn.rest
            rec == TakenOff(q)
<1>1. /\ items \in Seq(Messages) /\ s \in Seq(Messages) /\ r \in Seq(Messages)
      /\ drain[q].force \in BOOLEAN /\ queue[q] \in QueueStates
  BY SoundAt
<1>2. ObjectExact(q = registered, queue[q], drain[q])
  BY DEF Exact
<1>3. RecExact(queue[q]) /\ IsInjective(items) /\ (q # registered => items = <<>>)
  BY <1>2 DEF ObjectExact, RecExact
<1>4. /\ turn.carries = s /\ ~turn.overflow
      /\ IsInjective(s) /\ IsInjective(r)
  BY <1>2 DEF ObjectExact, DrainExact, Distinct
<1>5. /\ DOMAIN s = 1..Len(s) /\ DOMAIN r = 1..Len(r) /\ Len(s) \in Nat /\ Len(r) \in Nat
      /\ Len(items) \in Nat
  BY <1>1, Members
<1>6. rec \in QueueStates /\ rec.items = SubSeq(items, Len(s) + 1, Len(items))
  BY <1>4, TakenOffType
<1>7. RecExact(rec) = (RecExact(queue[q]) /\ IsInjective(rec.items))
  <2>1. rec = [queue[q] EXCEPT !.items = SubSeq(@, Len(s) + 1, Len(@))]
    BY <1>4 DEF TakenOff, TakeOff
  <2>. QED
    BY <1>1, <1>3, <2>1 DEF RecExact, QueueStates
<1>. HIDE DEF rec
<1>8. CASE q = registered
  <2>1. /\ Len(s) + Len(r) <= Len(items)
        /\ \A i \in 1..Len(s) : items[i] = s[i]
        /\ \A i \in 1..Len(r) : items[Len(s) + i] = r[i]
    <3>1. Fits(turn, items)
      BY <1>2, <1>8 DEF ObjectExact, InStep
    <3>. QED
      BY <1>5, <3>1, Zenon DEF Fits
  <2>. HIDE DEF s, r, items
  <2>2. Len(s) <= Len(items) /\ \A i \in 1..Len(s) : items[i] = s[i]
    BY <1>5, <2>1
  <2>3. /\ ToSet(rec.items) = ToSet(items) \ ToSet(s) /\ ToSet(s) \subseteq ToSet(items)
        /\ IsInjective(rec.items) /\ Len(rec.items) = Len(items) - Len(s)
        /\ rec.items \in Seq(Messages)
        /\ \A i \in 1..(Len(items) - Len(s)) : rec.items[i] = items[Len(s) + i]
    BY <1>1, <1>3, <1>6, <2>2, FrontTaken
  <2>4. ExactBut(q, rec)
    BY <1>3, <1>7, <1>8, <2>3, ExactRest
  <2>5. Outcome(q, rec.items)
    <3>1. CASE r # <<>>
      <4>. DEFINE t == GroupTurn(r)
      <4>1. Len(r) <= Len(rec.items)
        BY <1>5, <2>1, <2>3
      <4>2. ASSUME NEW i \in 1..Len(r) PROVE rec.items[i] = r[i]
        <5>1. i \in 1..(Len(items) - Len(s))
          BY <1>5, <2>1
        <5>. QED
          BY <2>1, <2>3, <5>1
      <4>3. /\ ~t.overflow /\ Distinct(t) /\ t.carries = t.speaks
            /\ Fits(t, rec.items)
        BY <1>1, <1>4, <2>3, <3>1, <4>1, <4>2, GroupExact
      <4>4. StartTurn(q, rec, drain[q].force, t)
        BY <3>1, FinishTurnIs DEF rec, r
      <4>. HIDE DEF t
      <4>. QED
        BY <1>1, <1>6, <2>4, <4>3, <4>4, StartTurnExact
    <3>2. CASE r = <<>>
      <4>1. Iterate(q, rec, drain[q].force)
        BY <3>2, FinishTurnIs DEF rec, r
      <4>. QED
        BY <1>1, <1>6, <2>4, <4>1, IterateExact
    <3>. QED
      BY <3>1, <3>2
  <2>. QED
    BY <1>4, <2>3, <2>5 DEF rec, s, r, items
<1>9. CASE q # registered
  <2>1. rec.items = <<>>
    <3>1. Len(items) = 0 /\ items = <<>>
      BY <1>3, <1>9
    <3>2. rec.items = SubSeq(<<>>, Len(s) + 1, 0)
      BY <1>6, <3>1
    <3>. HIDE DEF s
    <3>. QED
      BY <1>5, <3>2
  <2>2. ExactBut(q, rec)
    BY <1>3, <1>7, <1>9, <2>1, ExactRest DEF IsInjective
  <2>3. Outcome(q, rec.items)
    <3>1. CASE r # <<>>
      <4>. DEFINE t == GroupTurn(r)
      <4>1. /\ ~t.overflow /\ Distinct(t) /\ t.carries = t.speaks
        BY <1>1, <1>4, <3>1, GroupExact
      <4>2. StartTurn(q, rec, drain[q].force, t)
        BY <3>1, FinishTurnIs DEF rec
      <4>. HIDE DEF t
      <4>. QED
        BY <1>1, <1>6, <1>9, <2>2, <4>1, <4>2, StartTurnExact
    <3>2. CASE r = <<>>
      <4>1. Iterate(q, rec, drain[q].force)
        BY <3>2, FinishTurnIs DEF rec
      <4>. QED
        BY <1>1, <1>6, <2>2, <4>1, IterateExact
    <3>. QED
      BY <3>1, <3>2
  <2>. QED
    BY <1>4, <1>9, <2>3 DEF rec
<1>. QED
  BY <1>8, <1>9

-----------------------------------------------------------------------------
(* Part four: the actions.                                                 *)

LEMMA ExactAt ==
    ASSUME Sound(owner, registered, queue, drain), Exact(registered, queue, drain),
           NEW q \in QueueIds
    PROVE  /\ RecExact(queue[q]) /\ DrainExact(drain[q]) /\ IsInjective(queue[q].items)
           /\ q = registered => InStep(queue[q], drain[q])
           /\ q # registered => queue[q].items = <<>>
           /\ drain[q].pc \notin {"waiting", "running"} =>
                  /\ Pending(drain[q].turn) = {} /\ ~drain[q].turn.overflow
                  /\ drain[q].turn.speaks = <<>> /\ drain[q].turn.rest = <<>>
<1>1. ObjectExact(q = registered, queue[q], drain[q])
  BY DEF Exact
<1>2. IsInjective(queue[q].items)
  BY <1>1 DEF ObjectExact, RecExact
<1>3. drain[q].pc \notin {"waiting", "running"} =>
          /\ Pending(drain[q].turn) = {} /\ ~drain[q].turn.overflow
          /\ drain[q].turn.speaks = <<>> /\ drain[q].turn.rest = <<>>
  <2>1. drain[q].turn \in Turns
    BY SoundAt
  <2>. QED
    BY <1>1, <2>1, NothingPending DEF ObjectExact, DrainExact
<1>. QED
  BY <1>1, <1>2, <1>3 DEF ObjectExact

\* A sweep, of an object whose drain has no turn, reaches the entry at place i.
LEMMA SweepOnExact ==
    ASSUME NEW own, NEW q \in QueueIds, NEW rec \in QueueStates, SoundBut(own, q),
           ExactBut(q, rec), TurnSound(drain[q].turn), drain[q].turn.speaks = <<>>,
           drain[q].turn.rest = <<>>, ~drain[q].turn.overflow,
           NEW pc \in {"abortBefore", "abortAfter"}, NEW i \in 1..Len(rec.items), NEW m,
           m = rec.items[i], NEW e, e = SweptOn(drain[q], pc, i, m),
           Become(registered, [queue EXCEPT ![q] = rec], [drain EXCEPT ![q] = e])
    PROVE  Outcome(q, rec.items)
<1>1. rec.items \in Seq(Messages) /\ drain[q] \in Drains
  BY DEF QueueStates, Entries, SoundBut
<1>2. m \in Messages /\ i \in Nat \ {0}
  BY <1>1, Members
<1>3. /\ e \in Drains /\ e.pc = pc /\ e.at = i
      /\ e.turn.carries = <<m>> /\ e.turn.speaks = drain[q].turn.speaks
      /\ e.turn.rest = drain[q].turn.rest /\ e.turn.overflow = drain[q].turn.overflow
  <2>. DEFINE d == drain[q]
  <2>1. d \in Drains /\ TurnSound(d.turn)
    BY <1>1
  <2>2. e = SweptOn(d, pc, i, m)
    OBVIOUS
  <2>. HIDE DEF d
  <2>3. /\ e \in Drains /\ e.pc = pc /\ e.at = i
        /\ e.turn.carries = <<m>> /\ e.turn.speaks = d.turn.speaks
        /\ e.turn.rest = d.turn.rest /\ e.turn.overflow = d.turn.overflow
    BY <1>2, <2>1, <2>2, SweptOnSound
  <2>. QED
    BY <2>3 DEF d
<1>4. DrainExact(e) /\ InStep(rec, e) /\ Pending(e.turn) = {}
  BY <1>3, SweepingExact
<1>. QED
  BY <1>4, GoesOnExact

LEMMA DebounceEndsExact ==
    ASSUME Sound(owner, registered, queue, drain), Exact(registered, queue, drain),
           NEW q \in QueueIds, DebounceEnds(q)
    PROVE  Outcome(q, queue[q].items)
<1>. DEFINE rec == queue[q]
            bad == AbortedAt(rec.items, Len(rec.items))
<1>1. drain[q].pc = "debounce"
  BY DEF DebounceEnds
<1>2. /\ rec \in QueueStates /\ rec.items \in Seq(Messages) /\ drain[q].force \in BOOLEAN
      /\ TurnSound(drain[q].turn)
  BY SoundAt
<1>3. SoundBut(owner, q)
  BY <1>1, ApartFrom
<1>4. ExactBut(q, rec)
  BY ExactAt, ExactRest
<1>5. CASE bad = {}
  <2>1. AfterSweep(q, "abortAfter", rec, drain[q].force)
    BY <1>5, DebounceEndsIs
  <2>. QED
    BY <1>2, <1>3, <1>4, <2>1, AfterSweepExact
<1>6. CASE bad # {}
  <2>. DEFINE i == Max(bad)
              m == rec.items[i]
              e == SweptOn(drain[q], "abortAfter", i, m)
  <2>1. Become(registered, [queue EXCEPT ![q] = rec], [drain EXCEPT ![q] = e])
    BY <1>6, DebounceEndsIs
  <2>2. i \in 1..Len(rec.items)
    <3>1. Len(rec.items) \in 0..Len(rec.items)
      BY <1>2, Members
    <3>. QED
      BY <1>2, <1>6, <3>1, AbortedIndex
  <2>3. /\ drain[q].turn.speaks = <<>> /\ drain[q].turn.rest = <<>> /\ ~drain[q].turn.overflow
    BY <1>1, ExactAt
  <2>4. m = rec.items[i]
    OBVIOUS
  <2>5. e = SweptOn(drain[q], "abortAfter", i, m)
    OBVIOUS
  <2>. HIDE DEF i, m, e
  <2>. QED
    BY <1>2, <1>3, <1>4, <2>1, <2>2, <2>3, <2>4, <2>5, SweepOnExact
<1>. QED
  BY <1>5, <1>6

\* The entry of the sweep is spliced away, if a /stop did not remove it before.
LEMMA SplicedExact ==
    ASSUME Sound(owner, registered, queue, drain), Exact(registered, queue, drain),
           NEW q \in QueueIds, Sweeping(drain[q])
    PROVE  LET items == queue[q].items
               m == Head(drain[q].turn.carries)
               hit == drain[q].at <= Len(items)
           IN  /\ hit <=> q = registered
               /\ hit => /\ items[drain[q].at] = m /\ m \in ToSet(items)
                         /\ ToSet(Spliced(q).items) = ToSet(items) \ {m}
               /\ ~hit => Spliced(q).items = items
               /\ ExactBut(q, Spliced(q)) /\ ExactBut(q, Swept(q))
               /\ Swept(q).items = Spliced(q).items
<1>. DEFINE rec == queue[q]
            items == rec.items
            at == drain[q].at
            m == Head(drain[q].turn.carries)
            hit == at <= Len(items)
<1>1. /\ rec \in QueueStates /\ items \in Seq(Messages) /\ at \in Nat /\ at # 0
      /\ Spliced(q) \in QueueStates
  BY SoundAt, SplicedType
<1>2. /\ RecExact(rec) /\ IsInjective(items)
      /\ q = registered => InStep(rec, drain[q])
      /\ q # registered => items = <<>>
  BY ExactAt
<1>3. Len(items) \in Nat /\ DOMAIN items = 1..Len(items)
  BY <1>1, Members
<1>4. hit <=> q = registered
  <2>1. q = registered => at \in 1..Len(items)
    BY <1>2, <1>3 DEF InStep
  <2>2. q # registered => Len(items) = 0
    BY <1>2
  <2>. HIDE DEF at, items
  <2>. QED
    BY <1>1, <1>3, <2>1, <2>2
<1>5. hit => items[at] = m
  BY <1>2, <1>4 DEF InStep
<1>6. hit => /\ m \in ToSet(items) /\ ToSet(Spliced(q).items) = ToSet(items) \ {m}
             /\ RecExact(Spliced(q))
  <2>. SUFFICES ASSUME hit
                PROVE  /\ m \in ToSet(items) /\ ToSet(Spliced(q).items) = ToSet(items) \ {m}
                       /\ RecExact(Spliced(q))
    OBVIOUS
  <2>1. at \in 1..Len(items)
    BY <1>1, <1>3
  <2>2. /\ ToSet(RemoveAt(items, at)) = ToSet(items) \ {items[at]}
        /\ IsInjective(RemoveAt(items, at)) /\ items[at] \in ToSet(items)
    BY <1>1, <1>2, <2>1, EntryTaken
  <2>3. Spliced(q) = [rec EXCEPT !.items = RemoveAt(items, at)]
    BY DEF Spliced
  <2>4. Spliced(q).items = RemoveAt(items, at)
    BY <1>1, <2>3 DEF QueueStates
  <2>5. /\ Spliced(q).dropPolicy = rec.dropPolicy /\ Spliced(q).droppedCount = rec.droppedCount
        /\ Spliced(q).summarySources = rec.summarySources
    BY <1>1, <2>3 DEF QueueStates
  <2>. QED
    BY <1>2, <1>5, <2>2, <2>4, <2>5 DEF RecExact
<1>7. ~hit => Spliced(q) = rec
  BY DEF Spliced
<1>. HIDE DEF hit
<1>8. ExactBut(q, Spliced(q))
  <2>1. RecExact(Spliced(q))
    BY <1>2, <1>6, <1>7
  <2>2. q # registered => Spliced(q).items = <<>>
    BY <1>2, <1>4, <1>7
  <2>. QED
    BY <2>1, <2>2, ExactRest
<1>9. Swept(q).items = Spliced(q).items /\ ExactBut(q, Swept(q))
  <2>1. CASE Swept(q) = Spliced(q)
    BY <1>8, <2>1
  <2>2. CASE Swept(q) = WithoutSummary(Spliced(q))
    <3>. DEFINE w == WithoutSummary(Spliced(q))
    <3>1. /\ w.items = Spliced(q).items /\ w.dropPolicy = Spliced(q).dropPolicy
          /\ w.droppedCount = 0 /\ w.summarySources = <<>>
      BY <1>1, WithoutSummaryType
    <3>. HIDE DEF w
    <3>. QED
      BY <1>8, <2>2, <3>1 DEF ExactBut, RecExact, w
  <2>. QED
    BY <2>1, <2>2 DEF Swept
<1>. QED
  BY <1>4, <1>5, <1>6, <1>7, <1>8, <1>9 DEF hit

LEMMA AbortedTurnEndsExact ==
    ASSUME Sound(owner, registered, queue, drain), Exact(registered, queue, drain),
           NEW q \in QueueIds, AbortedTurnEnds(q)
    PROVE  Outcome(q, Spliced(q).items)
<1>. DEFINE d == drain[q]
            items == Spliced(q).items
            bad == AbortedAt(items, d.at - 1)
<1>1. Sweeping(d) /\ d.at # 0
  BY AbortedTurnEndsIs
<1>2. /\ d.pc # "idle" /\ d.pc # "running" /\ TurnSound(d.turn) /\ d.force \in BOOLEAN
      /\ d.at \in Nat /\ d.pc \in {"abortBefore", "abortAfter"}
  BY <1>1, SoundAt DEF Sweeping
<1>3. /\ Spliced(q) \in QueueStates /\ items \in Seq(Messages) /\ Swept(q) \in QueueStates
  BY <1>1, <1>2, SplicedType
<1>4. SoundBut(owner, q)
  BY <1>2, ApartFrom
<1>5. ExactBut(q, Spliced(q)) /\ ExactBut(q, Swept(q)) /\ Swept(q).items = items
  BY <1>1, SplicedExact
<1>6. Len(items) \in Nat
  BY <1>3, Members
<1>7. CASE d.at - 1 > Len(items)
  BY <1>3, <1>4, <1>5, <1>7, AbortedTurnEndsIs, LeaveExact
<1>8. CASE d.at - 1 <= Len(items) /\ bad # {}
  <2>. DEFINE i == Max(bad)
              m == items[i]
              e == SweptOn(d, d.pc, i, m)
  <2>1. Become(registered, [queue EXCEPT ![q] = Spliced(q)], [drain EXCEPT ![q] = e])
    BY <1>8, AbortedTurnEndsIs
  <2>2. d.at - 1 \in 0..Len(items)
    BY <1>1, <1>2, <1>6, <1>8
  <2>3. i \in 1..(d.at - 1)
    BY <1>3, <1>8, <2>2, AbortedIndex
  <2>4. i \in 1..Len(items)
    <3>. HIDE DEF i
    <3>. QED
      BY <1>2, <1>6, <2>2, <2>3
  <2>5. d.turn.speaks = <<>> /\ d.turn.rest = <<>> /\ ~d.turn.overflow
    BY <1>2, ExactAt
  <2>6. m = items[i] /\ e = SweptOn(d, d.pc, i, m)
    OBVIOUS
  <2>. HIDE DEF i, m, e
  <2>. QED
    BY <1>2, <1>3, <1>4, <1>5, <2>1, <2>4, <2>5, <2>6, SweepOnExact
<1>9. CASE d.at - 1 <= Len(items) /\ bad = {}
  <2>1. AfterSweep(q, d.pc, Swept(q), d.force)
    BY <1>9, AbortedTurnEndsIs
  <2>2. Outcome(q, Swept(q).items)
    BY <1>2, <1>3, <1>4, <1>5, <2>1, AfterSweepExact
  <2>. QED
    BY <1>5, <2>2
<1>. QED
  BY <1>2, <1>6, <1>7, <1>8, <1>9

\* With nothing to drop, a record keeps its entries in front.
LEMMA PushedExact ==
    ASSUME RejectsWhenFull, NEW rec \in QueueStates, RecExact(rec), NEW s \in Settings,
           NEW m \in Messages
    PROVE  LET used == Used(rec, s)
               full == Len(used.items) >= used.cap /\ used.dropPolicy = "new"
           IN  /\ RecExact(Configured(rec, s)) /\ Configured(rec, s).items = rec.items
               /\ RecExact(used) /\ used.items = rec.items
               /\ m \notin ToSet(rec.items) /\ ~full =>
                      /\ RecExact(PushedTo(used, m)) /\ Dropped(used) = <<>>
                      /\ PushedTo(used, m).items = Append(rec.items, m)
<1>. DEFINE found == Configured(rec, s)
            used == Used(rec, s)
            full == Len(used.items) >= used.cap /\ used.dropPolicy = "new"
<1>1. s.dropPolicy = "new" /\ s \in [mode : Modes, cap : Nat \ {0}, dropPolicy : DropPolicies]
  BY SettingsAssumption DEF RejectsWhenFull
<1>2. RecExact(found) /\ found.items = rec.items /\ found \in QueueStates
  BY <1>1 DEF Configured, QueueStates, RecExact
<1>3. RecExact(used) /\ used.items = rec.items /\ used \in QueueStates
  <2>1. used = [found EXCEPT !.lastRun = TRUE]
    BY DEF Used
  <2>. HIDE DEF found, used
  <2>. QED
    BY <1>2, <2>1 DEF QueueStates, RecExact
<1>4. rec.items \in Seq(Messages) /\ used.cap \in Nat
  BY <1>3 DEF QueueStates, Entries
<1>5. ASSUME m \notin ToSet(rec.items), ~full
      PROVE  /\ RecExact(PushedTo(used, m)) /\ Dropped(used) = <<>>
             /\ PushedTo(used, m).items = Append(rec.items, m)
  <2>. HIDE DEF used
  <2>1. Len(used.items) < used.cap
    <3>1. Len(rec.items) \in Nat
      BY <1>4, Members
    <3>. QED
      BY <1>3, <1>4, <1>5, <3>1 DEF RecExact
  <2>2. Dropped(used) = <<>>
    BY <1>3, <2>1, DroppedIs
  <2>3. SubSeq(used.items, 1, Len(used.items)) = used.items
    BY <1>3, <1>4, SubSeqFull
  <2>4. MakeRoom(used) = [used EXCEPT !.items = used.items]
    <3>1. used.dropPolicy # "summarize"
      BY <1>3 DEF RecExact
    <3>2. MakeRoom(used) = [used EXCEPT !.items = SubSeq(used.items, Len(<<>>) + 1, Len(used.items))]
      BY <2>2, <3>1, Zenon DEF MakeRoom
    <3>. QED
      BY <2>3, <3>2
  <2>5. PushedTo(used, m) = [used EXCEPT !.items = Append(rec.items, m)]
    BY <1>3, <2>4 DEF PushedTo, QueueStates
  <2>6. IsInjective(Append(rec.items, m))
    BY <1>4, <1>5, EntryAdded DEF RecExact
  <2>. QED
    BY <1>3, <2>2, <2>5, <2>6 DEF RecExact, QueueStates
<1>. QED
  BY <1>2, <1>3, <1>5

\* A list that grows at its end leaves what is in front of it in place.
LEMMA StillInStep ==
    ASSUME NEW rec, NEW more, NEW d, InStep(rec, d), d.turn \in Turns,
           rec.items \in Seq(Messages), more.items \in Seq(Messages),
           Len(rec.items) <= Len(more.items),
           \A i \in 1..Len(rec.items) : more.items[i] = rec.items[i]
    PROVE  InStep(more, d)
<1>. DEFINE s == d.turn.speaks
            r == d.turn.rest
            a == rec.items
            b == more.items
<1>1. s \in Seq(Messages) /\ r \in Seq(Messages)
  BY DEF Turns, Entries
<1>2. /\ DOMAIN s = 1..Len(s) /\ DOMAIN r = 1..Len(r) /\ Len(s) \in Nat /\ Len(r) \in Nat
      /\ Len(a) \in Nat /\ Len(b) \in Nat /\ DOMAIN a = 1..Len(a) /\ DOMAIN b = 1..Len(b)
  BY <1>1, Members
<1>3. /\ Len(s) + Len(r) <= Len(a)
      /\ \A i \in 1..Len(s) : a[i] = s[i]
      /\ \A i \in 1..Len(r) : a[Len(s) + i] = r[i]
  BY <1>2, Zenon DEF InStep, Fits
<1>4. Sweeping(d) => d.at \in 1..Len(a) /\ a[d.at] = Head(d.turn.carries)
  BY <1>2, Zenon DEF InStep
<1>. HIDE DEF s, r, a, b
<1>5. Len(s) + Len(r) <= Len(b)
  BY <1>2, <1>3 DEF a, b
<1>6. ASSUME NEW i \in 1..Len(s) PROVE b[i] = s[i]
  <2>1. i \in 1..Len(a)
    BY <1>2, <1>3
  <2>. QED
    BY <1>3, <2>1 DEF a, b
<1>7. ASSUME NEW i \in 1..Len(r) PROVE b[Len(s) + i] = r[i]
  <2>1. Len(s) + i \in 1..Len(a)
    BY <1>2, <1>3
  <2>. QED
    BY <1>3, <2>1 DEF a, b
<1>8. Fits(d.turn, b)
  BY <1>2, <1>5, <1>6, <1>7, Zenon DEF Fits, s, r
<1>9. Sweeping(d) => d.at \in DOMAIN b /\ b[d.at] = Head(d.turn.carries)
  <2>1. \A i \in 1..Len(a) : i \in 1..Len(b) /\ b[i] = a[i]
    BY <1>2 DEF a, b
  <2>. QED
    BY <1>2, <1>4, <2>1
<1>. QED
  BY <1>8, <1>9 DEF InStep, b

LEMMA PutExact ==
    ASSUME Sound(owner, registered, queue, drain), Exact(registered, queue, drain),
           NEW q \in QueueIds, registered # NoQueue => q = registered,
           registered = NoQueue => ~queue[q].draining,
           NEW rec \in QueueStates, RecExact(rec), rec.draining = queue[q].draining,
           Len(queue[q].items) <= Len(rec.items),
           \A i \in 1..Len(queue[q].items) : rec.items[i] = queue[q].items[i],
           Puts(q, rec)
    PROVE  /\ Exact(registered', queue', drain')
           /\ Queued(registered', queue') = rec.items
           /\ Queued(registered, queue) = queue[q].items
<1>. DEFINE qs == [queue EXCEPT ![q] = rec]
<1>1. qs[q] = rec /\ \A p \in QueueIds \ {q} : qs[p] = queue[p]
  BY DEF Sound
<1>2. Sound(owner, q, qs, drain)
  BY PutSound
<1>. HIDE DEF qs
<1>3. InStep(rec, drain[q])
  <2>0. /\ queue[q].items \in Seq(Messages) /\ rec.items \in Seq(Messages) /\ drain[q].turn \in Turns
        /\ drain[q].pc = "idle" <=> ~queue[q].draining
    BY SoundAt DEF QueueStates, Entries
  <2>1. CASE registered = q
    BY <2>0, <2>1, ExactAt, StillInStep
  <2>2. CASE registered = NoQueue
    <3>1. drain[q].pc = "idle" /\ Pending(drain[q].turn) = {}
      BY <2>0, <2>2, ExactAt
    <3>2. Fits(drain[q].turn, rec.items)
      BY <2>0, <3>1, NothingPending
    <3>. QED
      BY <3>1, <3>2 DEF InStep, Sweeping
  <2>. QED
    BY <2>1, <2>2
<1>4. Exact(q, qs, drain)
  <2>. SUFFICES ASSUME NEW p \in QueueIds PROVE ObjectExact(p = q, qs[p], drain[p])
    BY DEF Exact
  <2>1. CASE p = q
    BY <1>1, <1>3, <2>1, ExactAt DEF ObjectExact
  <2>2. CASE p # q
    <3>1. p # registered
      BY <2>2, NamesAssumption
    <3>. QED
      BY <1>1, <2>2, <3>1, ExactAt DEF ObjectExact
  <2>. QED
    BY <2>1, <2>2
<1>5. Carried(q, qs, drain)
  BY <1>2, <1>4, ScheduleExact, BecomeExact DEF Puts, qs
<1>6. Queued(q, qs) = rec.items
  BY <1>1, NamesAssumption DEF Queued
<1>7. Queued(registered, queue) = queue[q].items
  BY NamesAssumption, ExactAt DEF Queued
<1>. QED
  BY <1>5, <1>6, <1>7 DEF Carried

LEMMA ClearExact ==
    ASSUME Sound(owner, registered, queue, drain), Exact(registered, queue, drain),
           registered # NoQueue,
           Become(NoQueue, [queue EXCEPT ![registered] = Cleared(queue[registered])], drain)
    PROVE  /\ Exact(registered', queue', drain')
           /\ Queued(registered', queue') = <<>>
           /\ Queued(registered, queue) = queue[registered].items
<1>. DEFINE rec == Cleared(queue[registered])
            qs == [queue EXCEPT ![registered] = rec]
            items == queue[registered].items
<1>1. registered \in QueueIds /\ queue \in [QueueIds -> QueueStates]
  BY DEF Sound
<1>2. qs[registered] = rec /\ \A p \in QueueIds \ {registered} : qs[p] = queue[p]
  BY <1>1
<1>3. RecExact(rec) /\ rec.items = <<>>
  <2>. DEFINE w == WithoutSummary(queue[registered])
  <2>1. /\ w \in QueueStates /\ w.dropPolicy = queue[registered].dropPolicy
        /\ w.droppedCount = 0 /\ w.summarySources = <<>>
    BY <1>1, WithoutSummaryType
  <2>2. rec = [w EXCEPT !.items = <<>>, !.lastRun = FALSE]
    BY DEF Cleared
  <2>3. RecExact(queue[registered])
    BY <1>1, ExactAt
  <2>. HIDE DEF w, rec
  <2>. QED
    BY <2>1, <2>2, <2>3 DEF RecExact, QueueStates, IsInjective
<1>. HIDE DEF rec, qs
<1>4. Exact(NoQueue, qs, drain)
  <2>. SUFFICES ASSUME NEW p \in QueueIds PROVE ObjectExact(p = NoQueue, qs[p], drain[p])
    BY DEF Exact
  <2>1. p # NoQueue
    BY NamesAssumption
  <2>. QED
    BY <1>2, <1>3, <2>1, ExactAt DEF ObjectExact
<1>5. Carried(NoQueue, qs, drain)
  BY <1>4, BecomeExact DEF qs, rec
<1>6. Queued(NoQueue, qs) = <<>> /\ Queued(registered, queue) = items
  BY DEF Queued
<1>. QED
  BY <1>5, <1>6 DEF Carried

-----------------------------------------------------------------------------
(* Part four: the books.                                                   *)

\* How the books of m may change with what is queued.
LEMMA BookedOn ==
    ASSUME HistoryTyped, HistoryTyped', NEW m \in Messages,
           Booked(m, accepted, answered, discarded, completed, registered, queue, drain),
           NEW t, t = Times(m, Queued(registered', queue')),
           NEW u, u = Times(m, Queued(registered, queue)),
           \/ accepted'[m] = accepted[m] /\ answered'[m] = answered[m] /\ t = u
           \/ accepted'[m] = accepted[m] + 1 /\ answered'[m] = answered[m] /\ u = 0 /\ t = 1
           \/ /\ accepted'[m] = accepted[m] /\ answered'[m] = answered[m]
              /\ discarded'[m] = discarded[m] + 1
           \/ accepted'[m] = accepted[m] /\ answered'[m] = answered[m] + 1,
           discarded'[m] >= discarded[m],
           m \in RuntimeOnly /\ accepted'[m] > 0 =>
               m \in completed' \/ m \in ToSet(Queued(registered', queue'))
    PROVE  Booked(m, accepted', answered', discarded', completed', registered', queue', drain')
<1>1. /\ accepted[m] \in Nat /\ answered[m] \in Nat /\ discarded[m] \in Nat
      /\ accepted'[m] \in Nat /\ answered'[m] \in Nat /\ discarded'[m] \in Nat
  BY DEF HistoryTyped
<1>2. t \in {0, 1} /\ u \in {0, 1}
  BY DEF Times
<1>3. accepted[m] <= answered[m] + discarded[m] + u
  BY DEF Booked
<1>4. accepted'[m] <= answered'[m] + discarded'[m] + t
  BY <1>1, <1>2, <1>3
<1>. QED
  BY <1>4 DEF Booked

\* Nothing is pushed, answered or discarded.
LEMMA QuietBalanced ==
    ASSUME HistoryTyped, HistoryTyped',
           Balanced(accepted, answered, discarded, completed, registered, queue, drain),
           accepted' = accepted, answered' = answered, completed \subseteq completed',
           \A m \in Messages : discarded'[m] = discarded[m],
           Exact(registered', queue', drain'),
           Queued(registered', queue') = Queued(registered, queue)
    PROVE  Balanced(accepted', answered', discarded', completed', registered', queue', drain')
<1>. SUFFICES ASSUME NEW m \in Messages
              PROVE  Booked(m, accepted', answered', discarded', completed', registered', queue', drain')
  BY DEF Balanced
<1>1. Booked(m, accepted, answered, discarded, completed, registered, queue, drain)
  BY DEF Balanced
<1>2. discarded'[m] >= discarded[m]
  BY DEF HistoryTyped
<1>3. Times(m, Queued(registered', queue')) = Times(m, Queued(registered, queue))
  OBVIOUS
<1>4. m \in RuntimeOnly /\ accepted'[m] > 0 =>
          m \in completed' \/ m \in ToSet(Queued(registered', queue'))
  BY <1>1 DEF Booked
<1>. QED
  BY <1>1, <1>2, <1>3, <1>4, BookedOn

\* The drain's control flow kept the list of q.
LEMMA QuietOutcome ==
    ASSUME HistoryTyped, HistoryTyped', NEW q \in QueueIds, Outcome(q, queue[q].items),
           Balanced(accepted, answered, discarded, completed, registered, queue, drain),
           accepted' = accepted, answered' = answered, completed \subseteq completed',
           \A m \in Messages : discarded'[m] = discarded[m]
    PROVE  Balanced(accepted', answered', discarded', completed', registered', queue', drain')
<1>1. Queued(registered', queue') = Queued(registered, queue)
  BY NamesAssumption DEF Outcome, Queued
<1>. QED
  BY <1>1, QuietBalanced DEF Outcome

LEMMA EnqueueBalanced ==
    ASSUME RejectsWhenFull, HistoryTyped, HistoryTyped',
           Sound(owner, registered, queue, drain),
           Balanced(accepted, answered, discarded, completed, registered, queue, drain),
           NEW n \in Messages, NEW s \in Settings, EnqueueFollowupRun(n, s)
    PROVE  Balanced(accepted', answered', discarded', completed', registered', queue', drain')
<1>. DEFINE q == EnqueueAt
            rec == queue[q]
            found == Configured(rec, s)
            used == Used(rec, s)
            more == PushedTo(used, n)
            full == Len(used.items) >= used.cap /\ used.dropPolicy = "new"
<1>1. HaveQueue /\ \/ (\E r \in {found, used} : Puts(q, r)) /\ UNCHANGED history
                   \/ /\ ~Duplicate(n, found) /\ ~full /\ Puts(q, more)
                      /\ accepted' = Bump(accepted, {n}) /\ answered' = answered
                      /\ discarded' = Bump(discarded, ToSet(Dropped(used)))
                      /\ completed \ {n} \subseteq completed'
  BY EnqueueIs
<1>2. /\ q \in QueueIds /\ (registered # NoQueue => q = registered)
      /\ registered = NoQueue => ~queue[q].draining
  BY <1>1, EnqueueAtIs DEF Sound
<1>3. Exact(registered, queue, drain)
  BY DEF Balanced
<1>. HIDE DEF q
<1>4. /\ rec \in QueueStates /\ RecExact(rec) /\ rec.items \in Seq(Messages)
      /\ IsInjective(rec.items) /\ Len(rec.items) \in Nat
  BY <1>2, <1>3, SoundAt, ExactAt, Members
<1>5. /\ RecExact(found) /\ found.items = rec.items
      /\ RecExact(used) /\ used.items = rec.items
      /\ n \notin ToSet(rec.items) /\ ~full =>
             RecExact(more) /\ Dropped(used) = <<>> /\ more.items = Append(rec.items, n)
  BY <1>4, PushedExact
<1>6. \A r \in {found, used, more} : r \in QueueStates /\ r.draining = rec.draining
  <2>1. {found, used, more} = PutsOf(rec, n, s)
    BY DEF PutsOf, Used, PushedTo
  <2>. HIDE DEF found, used, more
  <2>. QED
    BY <1>4, <2>1, PutsType
<1>. HIDE DEF found, used, more, rec
<1>7. ASSUME NEW r \in {found, used}, Puts(q, r), UNCHANGED history
      PROVE  Balanced(accepted', answered', discarded', completed', registered', queue', drain')
  <2>1. /\ r \in QueueStates /\ RecExact(r) /\ r.draining = queue[q].draining
        /\ r.items = queue[q].items /\ Len(queue[q].items) <= Len(r.items)
        /\ \A i \in 1..Len(queue[q].items) : r.items[i] = queue[q].items[i]
    BY <1>4, <1>5, <1>6, <1>7 DEF rec
  <2>2. /\ Exact(registered', queue', drain')
        /\ Queued(registered', queue') = Queued(registered, queue)
    BY <1>2, <1>3, <1>7, <2>1, PutExact
  <2>. QED
    BY <1>7, <2>2, QuietBalanced DEF history
<1>8. ASSUME ~Duplicate(n, found), ~full, Puts(q, more),
             accepted' = Bump(accepted, {n}), answered' = answered,
             discarded' = Bump(discarded, ToSet(Dropped(used))), completed \ {n} \subseteq completed'
      PROVE  Balanced(accepted', answered', discarded', completed', registered', queue', drain')
  <2>1. n \notin ToSet(rec.items)
    BY <1>5, <1>8 DEF Duplicate
  <2>2. RecExact(more) /\ Dropped(used) = <<>> /\ more.items = Append(rec.items, n)
    BY <1>5, <1>8, <2>1
  <2>3. /\ ToSet(Append(rec.items, n)) = ToSet(rec.items) \cup {n}
        /\ Len(Append(rec.items, n)) = Len(rec.items) + 1
        /\ \A i \in 1..Len(rec.items) : Append(rec.items, n)[i] = rec.items[i]
    BY <1>4, <2>1, EntryAdded
  <2>4. Len(rec.items) <= Len(more.items)
    BY <1>4, <2>2, <2>3
  <2>5. /\ Exact(registered', queue', drain')
        /\ Queued(registered', queue') = more.items
        /\ Queued(registered, queue) = rec.items
    <3>1. /\ more \in QueueStates /\ RecExact(more) /\ more.draining = queue[q].draining
          /\ Len(queue[q].items) <= Len(more.items)
          /\ \A i \in 1..Len(queue[q].items) : more.items[i] = queue[q].items[i]
      BY <1>6, <2>2, <2>3, <2>4 DEF rec
    <3>. QED
      BY <1>2, <1>3, <1>8, <3>1, PutExact DEF rec
  <2>. SUFFICES ASSUME NEW m \in Messages
                PROVE  Booked(m, accepted', answered', discarded', completed',
                              registered', queue', drain')
    BY <2>5 DEF Balanced
  <2>6. Booked(m, accepted, answered, discarded, completed, registered, queue, drain)
    BY DEF Balanced
  <2>7. /\ accepted'[m] = accepted[m] + (IF m = n THEN 1 ELSE 0) /\ answered'[m] = answered[m]
        /\ discarded'[m] = discarded[m] /\ accepted[m] \in Nat /\ discarded[m] \in Nat
    <3>2. m \notin ToSet(Dropped(used))
      BY <2>2, ToSetEmpty
    <3>. DEFINE S == {n}
                T == ToSet(Dropped(used))
    <3>. HIDE DEF S, T
    <3>3. /\ Bump(accepted, S)[m] = accepted[m] + (IF m \in S THEN 1 ELSE 0)
          /\ Bump(discarded, T)[m] = discarded[m] + (IF m \in T THEN 1 ELSE 0)
          /\ accepted[m] \in Nat /\ discarded[m] \in Nat
      BY BumpType DEF HistoryTyped
    <3>4. (m \in S <=> m = n) /\ m \notin T
      BY <3>2 DEF S, T
    <3>5. /\ Bump(accepted, S)[m] = accepted[m] + (IF m = n THEN 1 ELSE 0)
          /\ Bump(discarded, T)[m] = discarded[m]
      BY <3>3, <3>4
    <3>. QED
      BY <1>8, <3>3, <3>5 DEF S, T
  <2>8. discarded'[m] >= discarded[m]
    BY <2>7
  <2>9. m \in RuntimeOnly /\ accepted'[m] > 0 =>
            m \in completed' \/ m \in ToSet(Queued(registered', queue'))
    BY <1>8, <2>2, <2>3, <2>5, <2>6, <2>7 DEF Booked
  <2>10. CASE m = n
    <3>1. Times(m, Queued(registered, queue)) = 0 /\ Times(m, Queued(registered', queue')) = 1
      BY <2>1, <2>2, <2>3, <2>5, <2>10 DEF Times
    <3>2. accepted'[m] = accepted[m] + 1
      BY <2>7, <2>10
    <3>. QED
      BY <2>5, <2>6, <2>7, <2>8, <2>9, <3>1, <3>2, BookedOn
  <2>11. CASE m # n
    <3>1. Times(m, Queued(registered, queue)) = Times(m, Queued(registered', queue'))
      BY <2>2, <2>3, <2>5, <2>11 DEF Times
    <3>2. accepted'[m] = accepted[m]
      BY <2>7, <2>11
    <3>. QED
      BY <2>5, <2>6, <2>7, <2>8, <2>9, <3>1, <3>2, BookedOn
  <2>. QED
    BY <2>10, <2>11
<1>. QED
  BY <1>1, <1>7, <1>8

LEMMA AbortedTurnEndsBalanced ==
    ASSUME HistoryTyped, HistoryTyped',
           Sound(owner, registered, queue, drain),
           Balanced(accepted, answered, discarded, completed, registered, queue, drain),
           NEW q \in QueueIds, AbortedTurnEnds(q)
    PROVE  Balanced(accepted', answered', discarded', completed', registered', queue', drain')
<1>. DEFINE d == drain[q]
            items == queue[q].items
            n == Head(d.turn.carries)
            hit == d.at <= Len(items)
            gone == IF hit /\ items[d.at] = n THEN {n} ELSE {}
<1>1. /\ accepted' = accepted /\ answered' = answered /\ discarded' = Bump(discarded, gone)
      /\ completed \subseteq completed' /\ (n \in RuntimeOnly => n \in completed')
  <2>1. /\ UNCHANGED <<owner, recent, aborted, accepted, answered, bounds>>
        /\ Discard(gone)
        /\ \E T : completed' = completed \cup Lifecycles({n} \cup T)
    BY Zenon DEF AbortedTurnEnds
  <2>. HIDE DEF gone, n
  <2>. QED
    BY <2>1 DEF Discard, Lifecycles
<1>2. Sweeping(d)
  BY AbortedTurnEndsIs
<1>3. Exact(registered, queue, drain)
  BY DEF Balanced
<1>4. /\ hit <=> q = registered
      /\ hit => /\ items[d.at] = n /\ n \in ToSet(items)
                /\ ToSet(Spliced(q).items) = ToSet(items) \ {n}
      /\ ~hit => Spliced(q).items = items
  BY <1>2, <1>3, SplicedExact
<1>5. Outcome(q, Spliced(q).items)
  BY <1>3, AbortedTurnEndsExact
<1>. HIDE DEF hit
<1>6. CASE ~hit
  <2>1. \A m \in Messages : discarded'[m] = discarded[m]
    <3>1. \A m \in Messages : m \notin gone
      BY <1>6
    <3>. HIDE DEF gone
    <3>. QED
      BY <1>1, <3>1, BumpType DEF HistoryTyped
  <2>. QED
    BY <1>1, <1>4, <1>5, <1>6, <2>1, QuietOutcome
<1>7. CASE hit
  <2>1. gone = {n} /\ q = registered
    BY <1>4, <1>7
  <2>. HIDE DEF gone, n, items
  <2>2. /\ Exact(registered', queue', drain')
        /\ Queued(registered', queue') = Spliced(q).items
    BY <1>5, <2>1 DEF Outcome
  <2>3. Queued(registered, queue) = items
    BY <2>1, NamesAssumption DEF Queued, items
  <2>. SUFFICES ASSUME NEW m \in Messages
                PROVE  Booked(m, accepted', answered', discarded', completed',
                              registered', queue', drain')
    BY <2>2 DEF Balanced
  <2>4. Booked(m, accepted, answered, discarded, completed, registered, queue, drain)
    BY DEF Balanced
  <2>5. discarded'[m] = discarded[m] + (IF m = n THEN 1 ELSE 0) /\ discarded[m] \in Nat
    <3>1. m \in gone <=> m = n
      BY <2>1
    <3>. QED
      BY <1>1, <3>1, BumpType DEF HistoryTyped
  <2>6. discarded'[m] >= discarded[m]
    BY <2>5
  <2>7. m \in RuntimeOnly /\ accepted'[m] > 0 =>
            m \in completed' \/ m \in ToSet(Queued(registered', queue'))
    BY <1>1, <1>4, <1>7, <2>2, <2>3, <2>4 DEF Booked
  <2>8. CASE m = n
    <3>1. discarded'[m] = discarded[m] + 1
      BY <2>5, <2>8
    <3>. QED
      BY <1>1, <2>4, <2>6, <2>7, <3>1, BookedOn
  <2>9. CASE m # n
    <3>1. Times(m, Queued(registered, queue)) = Times(m, Queued(registered', queue'))
      BY <1>4, <1>7, <2>2, <2>3, <2>9 DEF Times
    <3>. QED
      BY <1>1, <2>2, <2>4, <2>6, <2>7, <3>1, BookedOn
  <2>. QED
    BY <2>8, <2>9
<1>. QED
  BY <1>6, <1>7

LEMMA OnlyEntry ==
    ASSUME NEW s \in Seq(Messages), IsInjective(s), NEW m \in ToSet(s), \A n \in ToSet(s) : n = m
    PROVE  Len(s) = 1
<1>1. /\ Len(s) \in Nat /\ DOMAIN s = 1..Len(s) /\ \A i \in 1..Len(s) : s[i] \in ToSet(s)
      /\ \E i \in 1..Len(s) : s[i] = m
  BY Members
<1>2. Len(s) >= 1
  BY <1>1
<1>3. ASSUME Len(s) >= 2 PROVE FALSE
  <2>1. 1 \in 1..Len(s) /\ 2 \in 1..Len(s)
    BY <1>1, <1>3
  <2>2. s[1] = s[2]
    BY <1>1, <2>1
  <2>. QED
    BY <1>1, <2>1, <2>2 DEF IsInjective
<1>. QED
  BY <1>1, <1>2, <1>3

LEMMA TurnEndsBalanced ==
    ASSUME HistoryTyped, HistoryTyped',
           Sound(owner, registered, queue, drain),
           Balanced(accepted, answered, discarded, completed, registered, queue, drain),
           NEW q \in QueueIds, TurnSucceeds(q) \/ TurnSkipped(q)
    PROVE  Balanced(accepted', answered', discarded', completed', registered', queue', drain')
<1>. DEFINE turn == drain[q].turn
            s == turn.speaks
            items == queue[q].items
            left == TakenOff(q).items
<1>1. /\ FinishTurn(q) /\ drain[q].pc \in {"waiting", "running"}
      /\ accepted' = accepted /\ discarded' = discarded
      /\ answered' = Bump(answered, ToSet(s)) /\ completed \subseteq completed'
      /\ Len(turn.carries) = 1 => Lifecycles(ToSet(turn.carries)) \subseteq completed'
  BY TurnAnswers
<1>2. Exact(registered, queue, drain)
  BY DEF Balanced
<1>3. \E own : SoundBut(own, q)
  BY <1>1, ApartFrom
<1>4. /\ Outcome(q, left) /\ turn.carries = s
      /\ q = registered => ToSet(s) \subseteq ToSet(items) /\ ToSet(left) = ToSet(items) \ ToSet(s)
  BY <1>1, <1>2, <1>3, FinishTurnExact
<1>5. Batchable(s) /\ s \in Seq(Messages) /\ IsInjective(s)
  <2>1. DrainExact(drain[q])
    BY <1>2, ExactAt
  <2>2. TurnSound(turn) /\ s \in Seq(Messages)
    BY SoundAt
  <2>. QED
    BY <2>1, <2>2 DEF TurnSound, DrainExact, Distinct
<1>6. /\ q = registered => Queued(registered, queue) = items /\ Queued(registered', queue') = left
      /\ q # registered => Queued(registered', queue') = Queued(registered, queue)
  BY <1>4, NamesAssumption DEF Queued, Outcome
<1>. HIDE DEF turn, s, items, left
<1>. SUFFICES ASSUME NEW m \in Messages
              PROVE  Booked(m, accepted', answered', discarded', completed', registered', queue', drain')
  BY <1>4 DEF Balanced, Outcome
<1>7. Booked(m, accepted, answered, discarded, completed, registered, queue, drain)
  BY DEF Balanced
<1>8. answered'[m] = answered[m] + (IF m \in ToSet(s) THEN 1 ELSE 0)
  BY <1>1, BumpType DEF HistoryTyped
<1>9. discarded'[m] >= discarded[m]
  BY <1>1 DEF HistoryTyped
<1>10. m \in ToSet(s) /\ m \in RuntimeOnly => m \in completed'
  <2>. SUFFICES ASSUME m \in ToSet(s), m \in RuntimeOnly PROVE m \in completed'
    OBVIOUS
  <2>1. \A n \in ToSet(s) : n = m
    BY <1>5 DEF Batchable
  <2>2. Len(s) = 1
    BY <1>5, <2>1, OnlyEntry
  <2>. QED
    BY <1>1, <1>4, <2>2 DEF Lifecycles
<1>11. m \in RuntimeOnly /\ accepted'[m] > 0 =>
           m \in completed' \/ m \in ToSet(Queued(registered', queue'))
  BY <1>1, <1>4, <1>6, <1>7, <1>10 DEF Booked
<1>12. answered[m] \in Nat
  BY DEF HistoryTyped
<1>13. CASE m \in ToSet(s)
  <2>1. answered'[m] = answered[m] + 1
    BY <1>8, <1>13
  <2>. QED
    BY <1>1, <1>7, <1>9, <1>11, <2>1, BookedOn
<1>14. CASE m \notin ToSet(s)
  <2>1. Times(m, Queued(registered', queue')) = Times(m, Queued(registered, queue))
    BY <1>4, <1>6, <1>14 DEF Times
  <2>2. answered'[m] = answered[m]
    BY <1>8, <1>12, <1>14
  <2>. QED
    BY <1>1, <1>7, <1>9, <1>11, <1>12, <2>1, <2>2, BookedOn
<1>. QED
  BY <1>13, <1>14

LEMMA ClearBalanced ==
    ASSUME HistoryTyped, HistoryTyped',
           Sound(owner, registered, queue, drain),
           Balanced(accepted, answered, discarded, completed, registered, queue, drain),
           ClearSessionQueues
    PROVE  Balanced(accepted', answered', discarded', completed', registered', queue', drain')
<1>. DEFINE items == queue[registered].items
            all == ToSet(items)
<1>1. /\ registered # NoQueue
      /\ Become(NoQueue, [queue EXCEPT ![registered] = Cleared(queue[registered])], drain)
      /\ accepted' = accepted /\ answered' = answered /\ discarded' = Bump(discarded, all)
      /\ completed' = completed \cup Lifecycles(ToSet(items \o queue[registered].summarySources))
  BY Zenon DEF ClearSessionQueues, Cleared, Discard
<1>2. Exact(registered, queue, drain) /\ registered \in QueueIds
  BY <1>1 DEF Balanced, Sound
<1>3. /\ Exact(registered', queue', drain') /\ Queued(registered', queue') = <<>>
      /\ Queued(registered, queue) = items
  BY <1>1, <1>2, ClearExact
<1>4. completed \subseteq completed' /\ Lifecycles(all) \subseteq completed'
  <2>1. queue[registered].summarySources = <<>> /\ items \in Seq(Messages)
    BY <1>2, ExactAt, SoundAt DEF RecExact
  <2>2. items \o <<>> = items
    BY <2>1, ConcatEmptySeq
  <2>. QED
    BY <1>1, <2>1, <2>2
<1>. HIDE DEF items, all
<1>. SUFFICES ASSUME NEW m \in Messages
              PROVE  Booked(m, accepted', answered', discarded', completed', registered', queue', drain')
  BY <1>3 DEF Balanced
<1>5. Booked(m, accepted, answered, discarded, completed, registered, queue, drain)
  BY DEF Balanced
<1>6. /\ discarded'[m] = discarded[m] + (IF m \in all THEN 1 ELSE 0)
      /\ discarded[m] \in Nat
  BY <1>1, BumpType DEF HistoryTyped
<1>7. discarded'[m] >= discarded[m]
  BY <1>6
<1>8. m \in RuntimeOnly /\ accepted'[m] > 0 =>
          m \in completed' \/ m \in ToSet(Queued(registered', queue'))
  BY <1>1, <1>3, <1>4, <1>5 DEF Booked, Lifecycles, all
<1>9. CASE m \in all
  <2>1. discarded'[m] = discarded[m] + 1
    BY <1>6, <1>9
  <2>. QED
    BY <1>1, <1>5, <1>7, <1>8, <2>1, BookedOn
<1>10. CASE m \notin all
  <2>1. Times(m, Queued(registered, queue)) = Times(m, Queued(registered', queue'))
    BY <1>3, <1>10, ToSetEmpty DEF Times, all
  <2>. QED
    BY <1>1, <1>5, <1>7, <1>8, <2>1, BookedOn
<1>. QED
  BY <1>9, <1>10

LEMMA NextBalanced ==
    ASSUME RejectsWhenFull, HistoryTyped,
           Sound(owner, registered, queue, drain),
           Balanced(accepted, answered, discarded, completed, registered, queue, drain),
           [Next]_vars
    PROVE  Balanced(accepted', answered', discarded', completed', registered', queue', drain')
<1>. DEFINE Goal == Balanced(accepted', answered', discarded', completed', registered', queue', drain')
<1>a. HistoryTyped'
  BY NextHistoryTyped
<1>b. Exact(registered, queue, drain)
  BY DEF Balanced
<1>1. ASSUME NEW m \in Messages, NEW s \in Settings, EnqueueFollowupRun(m, s)
      PROVE  Goal
  BY <1>1, <1>a, EnqueueBalanced
<1>2. ASSUME NEW q \in QueueIds, DebounceEnds(q)
      PROVE  Goal
  <2>1. Outcome(q, queue[q].items)
    BY <1>2, <1>b, DebounceEndsExact
  <2>2. UNCHANGED <<accepted, answered, discarded, completed>>
    BY <1>2 DEF DebounceEnds, history
  <2>. QED
    BY <1>a, <2>1, <2>2, QuietOutcome
<1>3. ASSUME NEW q \in QueueIds, AbortedTurnEnds(q)
      PROVE  Goal
  BY <1>3, <1>a, AbortedTurnEndsBalanced
<1>4. ASSUME NEW q \in QueueIds, TurnAdmitted(q)
      PROVE  Goal
  <2>. DEFINE d == [drain[q] EXCEPT !.pc = "running"]
  <2>1. /\ registered' = registered /\ queue' = queue /\ drain' = [drain EXCEPT ![q] = d]
        /\ UNCHANGED <<accepted, answered, discarded, completed>> /\ drain[q].pc = "waiting"
    BY <1>4 DEF TurnAdmitted, history
  <2>2. drain[q] \in Drains /\ drain \in [QueueIds -> Drains]
    BY DEF Sound
  <2>3. /\ d.pc = "running" /\ d.turn = drain[q].turn /\ d.at = drain[q].at
    BY <2>2 DEF Drains
  <2>. HIDE DEF d
  <2>4. ASSUME NEW p \in QueueIds PROVE ObjectExact(p = registered, queue[p], drain'[p])
    <3>1. ObjectExact(p = registered, queue[p], drain[p])
      BY <1>b DEF Exact
    <3>2. CASE p = q
      BY <2>1, <2>2, <2>3, <3>1, <3>2 DEF ObjectExact, DrainExact, InStep, Sweeping
    <3>3. CASE p # q
      BY <2>1, <2>2, <3>1, <3>3
    <3>. QED
      BY <3>2, <3>3
  <2>5. Exact(registered', queue', drain')
    BY <2>1, <2>4 DEF Exact
  <2>6. Queued(registered', queue') = Queued(registered, queue)
    BY <2>1
  <2>. QED
    BY <1>a, <2>1, <2>5, <2>6, QuietBalanced
<1>5. ASSUME NEW q \in QueueIds, TurnDeferred(q)
      PROVE  Goal
  <2>1. drain[q].pc = "waiting" /\ Leave(q, Restored(q))
    BY <1>5 DEF TurnDeferred, Restored
  <2>2. UNCHANGED <<accepted, answered, discarded, completed>>
    BY <1>5 DEF TurnDeferred, history
  <2>3. ~drain[q].turn.overflow
    BY <1>b, ExactAt DEF DrainExact
  <2>4. Restored(q) = queue[q]
    BY <2>3 DEF Restored
  <2>5. SoundBut(owner, q) /\ ExactBut(q, queue[q]) /\ queue[q] \in QueueStates
    BY <1>b, <2>1, ApartFrom, ExactAt, ExactRest, SoundAt
  <2>6. Outcome(q, queue[q].items)
    BY <2>1, <2>4, <2>5, LeaveExact
  <2>. QED
    BY <1>a, <2>2, <2>6, QuietOutcome
<1>6. ASSUME NEW q \in QueueIds, TurnSucceeds(q) \/ TurnSkipped(q)
      PROVE  Goal
  BY <1>6, <1>a, TurnEndsBalanced
<1>7. ASSUME NEW q \in QueueIds, TurnFails(q)
      PROVE  Goal
  <2>1. drain[q].pc = "running" /\ Leave(q, Failed(q))
    BY <1>7 DEF TurnFails, Owns, Failed
  <2>2. UNCHANGED <<accepted, answered, discarded>> /\ completed \subseteq completed'
    BY <1>7 DEF TurnFails
  <2>3. ~drain[q].turn.overflow
    BY <1>b, ExactAt DEF DrainExact
  <2>4. Failed(q) = queue[q]
    BY <2>3 DEF Failed
  <2>5. SoundBut(NoOwner, q) /\ ExactBut(q, queue[q]) /\ queue[q] \in QueueStates
    BY <1>b, <2>1, ApartFrom, ExactAt, ExactRest, SoundAt
  <2>6. Outcome(q, queue[q].items)
    BY <2>1, <2>4, <2>5, LeaveExact
  <2>. QED
    BY <1>a, <2>2, <2>6, QuietOutcome
<1>8. CASE UNCHANGED <<registered, queue, drain, history>>
  BY <1>8, <1>a, <1>b, QuietBalanced DEF history
<1>9. CASE MainTurnEnds
  <2>1. Schedule(registered, queue, drain) /\ UNCHANGED <<accepted, answered, discarded, completed>>
    BY <1>9 DEF MainTurnEnds, history
  <2>2. Carried(registered, queue, drain)
    BY <1>b, <2>1, ScheduleExact
  <2>. QED
    BY <1>a, <2>1, <2>2, QuietBalanced DEF Carried
<1>10. CASE ClearSessionQueues
  BY <1>10, <1>a, ClearBalanced
<1>11. ASSUME NEW m \in Messages, AbortMessage(m) \/ ForgetRecent(m)
       PROVE  Goal
  <2>1. UNCHANGED <<registered, queue, drain, history>>
    BY <1>11 DEF AbortMessage, ForgetRecent
  <2>. QED
    BY <1>8, <2>1
<1>12. CASE UNCHANGED vars \/ MainTurnAdmitted
  <2>1. UNCHANGED <<registered, queue, drain, history>>
    BY <1>12 DEF vars, MainTurnAdmitted
  <2>. QED
    BY <1>8, <2>1
<1>. QED
  BY <1>1, <1>2, <1>3, <1>4, <1>5, <1>6, <1>7, <1>9, <1>10, <1>11, <1>12 DEF Next

LEMMA InitBalanced ==
    ASSUME Init
    PROVE  Balanced(accepted, answered, discarded, completed, registered, queue, drain)
<1>1. registered = NoQueue
  BY DEF Init
<1>2. ASSUME NEW p \in QueueIds
      PROVE  ObjectExact(p = registered, queue[p], drain[p]) /\ drain[p] = NoDrain
  <2>1. queue[p] = NoQueueState /\ drain[p] = NoDrain /\ p # registered
    BY NamesAssumption DEF Init
  <2>. QED
    BY <2>1, NoQueueStateExact, NoDrainExact DEF ObjectExact
<1>3. Exact(registered, queue, drain)
  BY <1>2 DEF Exact
<1>4. ASSUME NEW m \in Messages
      PROVE  Booked(m, accepted, answered, discarded, completed, registered, queue, drain)
  <2>1. Times(m, Queued(registered, queue)) = 0
    BY <1>1, ToSetEmpty DEF Times, Queued
  <2>2. accepted[m] = 0 /\ answered[m] = 0 /\ discarded[m] = 0
    BY DEF Init
  <2>. QED
    BY <2>1, <2>2 DEF Booked
<1>. QED
  BY <1>3, <1>4 DEF Balanced

LEMMA SpecBalanced ==
    ASSUME RejectsWhenFull
    PROVE  Spec => [](/\ Sound(owner, registered, queue, drain) /\ HistoryTyped
                      /\ Balanced(accepted, answered, discarded, completed, registered, queue, drain))
<1>. DEFINE S == Sound(owner, registered, queue, drain) /\ HistoryTyped
            B == Balanced(accepted, answered, discarded, completed, registered, queue, drain)
<1>1. Init => B
  BY InitBalanced
<1>2. S /\ B /\ [Next]_vars => B'
  <2>. SUFFICES ASSUME Sound(owner, registered, queue, drain), HistoryTyped,
                       Balanced(accepted, answered, discarded, completed, registered, queue, drain),
                       [Next]_vars
                PROVE  Balanced(accepted', answered', discarded', completed',
                                registered', queue', drain')
    BY DEF Balanced
  <2>. QED
    BY NextBalanced
<1>. QED
  BY SpecSound, <1>1, <1>2, PTL DEF Spec

\* A message is queued at most once, so its occurrences are counted by Times.
LEMMA OccurrencesAre ==
    ASSUME Sound(owner, registered, queue, drain), Exact(registered, queue, drain),
           NEW m \in Messages
    PROVE  Occurrences(m) = Times(m, Queued(registered, queue))
<1>1. CASE registered = NoQueue
  BY <1>1, ToSetEmpty DEF Occurrences, Times, Queued
<1>2. CASE registered # NoQueue
  <2>. DEFINE items == queue[registered].items
              at == {i \in DOMAIN items : items[i] = m}
  <2>1. registered \in QueueIds
    BY <1>2 DEF Sound
  <2>2. items \in Seq(Messages) /\ IsInjective(items)
    BY <2>1, SoundAt, ExactAt
  <2>3. Occurrences(m) = Cardinality(at) /\ Queued(registered, queue) = items
    BY <1>2 DEF Occurrences, Queued
  <2>. HIDE DEF items
  <2>4. CASE m \in ToSet(items)
    <3>1. PICK i \in DOMAIN items : items[i] = m
      BY <2>2, <2>4, Members
    <3>2. at = {i}
      BY <2>2, <3>1 DEF IsInjective
    <3>. QED
      BY <2>3, <2>4, <3>2, FS_Singleton DEF Times
  <2>5. CASE m \notin ToSet(items)
    <3>1. at = {}
      BY <2>2, <2>5, Members
    <3>. QED
      BY <2>3, <2>5, <3>1, FS_EmptySet DEF Times
  <2>. QED
    BY <2>4, <2>5
<1>. QED
  BY <1>1, <1>2

\* What the books say of one message, in a balanced state.
LEMMA BooksOf ==
    ASSUME Sound(owner, registered, queue, drain),
           Balanced(accepted, answered, discarded, completed, registered, queue, drain),
           NEW m \in Messages
    PROVE  /\ accepted[m] <= answered[m] + discarded[m] + Occurrences(m)
           /\ m \in RuntimeOnly /\ accepted[m] > 0 => m \in completed \/ Occurrences(m) > 0
<1>1. Occurrences(m) = Times(m, Queued(registered, queue))
  BY OccurrencesAre DEF Balanced
<1>2. m \in ToSet(Queued(registered, queue)) => Occurrences(m) > 0
  BY <1>1 DEF Times
<1>. QED
  BY <1>1, <1>2 DEF Balanced, Booked

\* If every setting rejects what comes when the queue is full, an accepted
\* message is queued, or a turn with its prompt succeeded, or it was dropped by
\* its abort signal or by /stop, whatever fails, defers, is stopped or arrives
\* late, and although in-flight entries are taken off by their position
\* (scheduleFollowupDrain, dropAbortedFollowups, clearSessionQueues).
THEOREM WhenRejectingNothingLost ==
    ASSUME RejectsWhenFull PROVE Spec => []NothingLost
<1>1. /\ Sound(owner, registered, queue, drain) /\ HistoryTyped
      /\ Balanced(accepted, answered, discarded, completed, registered, queue, drain)
      => NothingLost
  BY BooksOf DEF NothingLost
<1>. QED
  BY <1>1, SpecBalanced, PTL

\* Under the same settings the lifecycle of a message is completed as soon as
\* the message is no longer queued (completeFollowupRunLifecycle).
THEOREM WhenRejectingLifecyclesComplete ==
    ASSUME RejectsWhenFull PROVE Spec => []LifecyclesComplete
<1>1. /\ Sound(owner, registered, queue, drain) /\ HistoryTyped
      /\ Balanced(accepted, answered, discarded, completed, registered, queue, drain)
      => LifecyclesComplete
  BY BooksOf, MessagesAssumption DEF LifecyclesComplete
<1>. QED
  BY <1>1, SpecBalanced, PTL

=============================================================================
