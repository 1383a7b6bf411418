------------------------- MODULE CommandQueueProofs -------------------------
(***************************************************************************)
(* Proofs about CommandQueue, for any sets of tasks, lanes and waiters.    *)
(*                                                                         *)
(* The inductive invariant says, beside the properties themselves, that a  *)
(* queue holds each queued task once and in its own lane (QueuesExact),    *)
(* that idle bodies and started statuses agree (BodiesFollowStatus), that  *)
(* no task carries a generation its lane has not reached (GenerationsPast) *)
(* and that slots are finite sets.  All of it is stated for arbitrary      *)
(* values, so that one lemma about DrainLanes serves every action.         *)
(***************************************************************************)
EXTENDS CommandQueue, FiniteSetTheorems, SequenceTheorems, TLAPS

QueuesExact(q, st, e) ==
    \A l \in Lanes :
        /\ \A i \in 1..Len(q[l]) : st[q[l][i]] = "queued" /\ e[q[l][i]].lane = l
        /\ \A i, j \in 1..Len(q[l]) : q[l][i] = q[l][j] => i = j

SlotsExact(held, st, e, tg, gen) ==
    \A l \in Lanes :
        /\ IsFiniteSet(held[l])
        /\ held[l] = {t \in Tasks : st[t] = "started" /\ e[t].lane = l /\ tg[t] = gen[l]}

BodiesFollowStatus(st, b) ==
    \A t \in Tasks : (b[t] = "idle") <=> st[t] \in {"new", "queued", "cleared", "refused"}

OutcomesFollowBodies(st, b, o) ==
    \A t \in Tasks :
        /\ b[t] = "idle" => o[t] = "none"
        /\ b[t] = "running" => o[t] \in {"none", "timeout"}
        /\ st[t] \in {"resolved", "rejected", "timedOut"} => o[t] # "none"

GenerationsPast(b, e, tg, gen) ==
    \A t \in Tasks : b[t] # "idle" => tg[t] <= gen[e[t].lane]

-----------------------------------------------------------------------------
LEMMA StartCountRange ==
    ASSUME NEW q \in Seq(Tasks), NEW held, IsFiniteSet(held), NEW cap \in Nat
    PROVE  /\ StartCount(q, held, cap) \in 0..Len(q)
           /\ \/ StartCount(q, held, cap) = Len(q)
              \/ Cardinality(held) + StartCount(q, held, cap) >= cap
           /\ StartCount(q, held, cap) > 0 => Cardinality(held) + StartCount(q, held, cap) <= cap
<1>1. Cardinality(held) \in Nat
  BY FS_CardinalityType
<1>2. Len(q) \in Nat
  OBVIOUS
<1>. QED
  BY <1>1, <1>2 DEF StartCount

\* The first n elements of a sequence without repetitions are n elements.
LEMMA PrefixCardinality ==
    ASSUME NEW S, NEW q \in Seq(S), NEW n \in 0..Len(q),
           \A i, j \in 1..Len(q) : q[i] = q[j] => i = j
    PROVE  /\ IsFiniteSet(Prefix(q, n))
           /\ Cardinality(Prefix(q, n)) = n
<1>. DEFINE f == [i \in 1..n |-> q[i]]
<1>1. f \in Bijection(1..n, Prefix(q, n))
  BY DEF Bijection, Injection, Surjection, Prefix, IsInjective
<1>2. ExistsBijection(1..n, Prefix(q, n))
  BY <1>1 DEF ExistsBijection
<1>. QED
  BY <1>2, FS_NatBijection, FS_CountingElements

\* What a drain may be called with, and what it then establishes.
DrainArgs(q, held, cap, gen, st, e) ==
    /\ q \in [Lanes -> Seq(Tasks)]
    /\ held \in [Lanes -> SUBSET Tasks]
    /\ cap \in [Lanes -> Nat]
    /\ gen \in [Lanes -> Nat]
    /\ st \in [Tasks -> Status]
    /\ e \in [Tasks -> QueueEntry]
    /\ QueuesExact(q, st, e)
    /\ SlotsExact(held, st, e, taskGeneration, gen)
    /\ BodiesFollowStatus(st, body)
    /\ OutcomesFollowBodies(st, body, outcome)
    /\ GenerationsPast(body, e, taskGeneration, gen)

DrainTypes ==
    /\ queue' \in [Lanes -> Seq(Tasks)]
    /\ active' \in [Lanes -> SUBSET Tasks]
    /\ status' \in [Tasks -> Status]
    /\ body' \in [Tasks -> {"idle", "running", "ended"}]
    /\ taskGeneration' \in [Tasks -> Nat]

LEMMA StartCountsRange ==
    ASSUME NEW ACTION ls, NEW ACTION q, NEW ACTION held, NEW ACTION cap, NEW ACTION gen,
           NEW ACTION st, NEW ACTION e,
           DrainArgs(q, held, cap, gen, st, e),
           NEW l \in Lanes
    PROVE  /\ q[l] \in Seq(Tasks)
           /\ Len(q[l]) \in Nat
           /\ StartCounts(ls, q, held, cap)[l] \in 0..Len(q[l])
           /\ SubSeq(q[l], StartCounts(ls, q, held, cap)[l] + 1, Len(q[l])) \in Seq(Tasks)
           /\ Len(SubSeq(q[l], StartCounts(ls, q, held, cap)[l] + 1, Len(q[l])))
                 = Len(q[l]) - StartCounts(ls, q, held, cap)[l]
           /\ \A i \in 1..(Len(q[l]) - StartCounts(ls, q, held, cap)[l]) :
                 SubSeq(q[l], StartCounts(ls, q, held, cap)[l] + 1, Len(q[l]))[i]
                    = q[l][StartCounts(ls, q, held, cap)[l] + i]
<1>. DEFINE n == StartCounts(ls, q, held, cap)[l]
<1>1. q[l] \in Seq(Tasks) /\ Len(q[l]) \in Nat /\ cap[l] \in Nat /\ IsFiniteSet(held[l])
  BY DEF DrainArgs, SlotsExact
<1>2. n \in 0..Len(q[l])
  BY <1>1, StartCountRange DEF StartCounts
<1>3. \A i \in (n + 1)..Len(q[l]) : q[l][i] \in Tasks
  BY <1>1, <1>2
<1>. HIDE DEF n
<1>4. /\ SubSeq(q[l], n + 1, Len(q[l])) \in Seq(Tasks)
      /\ Len(SubSeq(q[l], n + 1, Len(q[l]))) = Len(q[l]) - n
      /\ \A i \in 1..(Len(q[l]) - n) : SubSeq(q[l], n + 1, Len(q[l]))[i] = q[l][n + i]
  <2>1. n + 1 \in Int /\ Len(q[l]) \in Int
    BY <1>1, <1>2
  <2>2. /\ SubSeq(q[l], n + 1, Len(q[l])) \in Seq(Tasks)
        /\ Len(SubSeq(q[l], n + 1, Len(q[l])))
              = IF n + 1 <= Len(q[l]) THEN Len(q[l]) - (n + 1) + 1 ELSE 0
        /\ \A i \in 1..(Len(q[l]) - (n + 1) + 1) :
              SubSeq(q[l], n + 1, Len(q[l]))[i] = q[l][n + 1 + i - 1]
    BY <2>1, <1>3, SubSeqProperties
  <2>. QED
    BY <1>1, <1>2, <2>2
<1>. QED
  BY <1>1, <1>2, <1>4 DEF n

LEMMA StartedWereQueued ==
    ASSUME NEW ACTION ls, NEW ACTION q, NEW ACTION held, NEW ACTION cap, NEW ACTION gen,
           NEW ACTION st, NEW ACTION e,
           DrainArgs(q, held, cap, gen, st, e),
           NEW t \in StartedBy(q, StartCounts(ls, q, held, cap))
    PROVE  /\ t \in Tasks
           /\ st[t] = "queued"
           /\ e[t].lane \in Lanes
           /\ t \in Prefix(q[e[t].lane], StartCounts(ls, q, held, cap)[e[t].lane])
<1>. DEFINE n == StartCounts(ls, q, held, cap)
<1>1. PICK l \in Lanes : t \in Prefix(q[l], n[l])
  BY DEF StartedBy
<1>2. PICK i \in 1..n[l] : t = q[l][i]
  BY <1>1 DEF Prefix
<1>3. n[l] \in 0..Len(q[l]) /\ q[l] \in Seq(Tasks) /\ Len(q[l]) \in Nat
  BY StartCountsRange
<1>. HIDE DEF n
<1>4. i \in 1..Len(q[l])
  BY <1>2, <1>3
<1>5. st[t] = "queued" /\ e[t].lane = l
  BY <1>2, <1>4 DEF DrainArgs, QueuesExact
<1>. QED
  BY <1>1, <1>2, <1>3, <1>4, <1>5 DEF n

LEMMA DrainTypesOK ==
    ASSUME TypeOK,
           NEW ACTION ls, NEW ACTION q, NEW ACTION held, NEW ACTION cap, NEW ACTION gen,
           NEW ACTION st,
           DrainArgs(q, held, cap, gen, st, entry'),
           DrainLanes(ls, q, held, cap, gen, st)
    PROVE  DrainTypes
<1>. DEFINE n == StartCounts(ls, q, held, cap)
            started == StartedBy(q, n)
<1>1. \A l \in Lanes : /\ SubSeq(q[l], n[l] + 1, Len(q[l])) \in Seq(Tasks)
                       /\ Prefix(q[l], n[l]) \subseteq Tasks
  <2>. SUFFICES ASSUME NEW l \in Lanes
                PROVE  /\ SubSeq(q[l], n[l] + 1, Len(q[l])) \in Seq(Tasks)
                       /\ Prefix(q[l], n[l]) \subseteq Tasks
    OBVIOUS
  <2>1. SubSeq(q[l], n[l] + 1, Len(q[l])) \in Seq(Tasks)
    BY StartCountsRange
  <2>2. q[l] \in Seq(Tasks) /\ n[l] \in 0..Len(q[l]) /\ Len(q[l]) \in Nat
    BY StartCountsRange
  <2>. QED
    BY <2>1, <2>2 DEF Prefix
<1>2. \A t \in started : gen[entry'[t].lane] \in Nat
  BY StartedWereQueued DEF DrainArgs
<1>3. /\ queue' = [l \in Lanes |-> SubSeq(q[l], n[l] + 1, Len(q[l]))]
      /\ active' = [l \in Lanes |-> held[l] \cup Prefix(q[l], n[l])]
      /\ status' = [t \in Tasks |-> IF t \in started THEN "started" ELSE st[t]]
      /\ body' = [t \in Tasks |-> IF t \in started THEN "running" ELSE body[t]]
      /\ taskGeneration' =
            [t \in Tasks |-> IF t \in started THEN gen[entry'[t].lane] ELSE taskGeneration[t]]
  BY DEF DrainLanes
<1>. HIDE DEF n, started
<1>4. queue' \in [Lanes -> Seq(Tasks)] /\ active' \in [Lanes -> SUBSET Tasks]
  BY <1>1, <1>3 DEF DrainArgs
<1>5. status' \in [Tasks -> Status]
  BY <1>3 DEF DrainArgs, Status
<1>6. body' \in [Tasks -> {"idle", "running", "ended"}] /\ taskGeneration' \in [Tasks -> Nat]
  BY <1>2, <1>3 DEF TypeOK
<1>. QED
  BY <1>4, <1>5, <1>6 DEF DrainTypes

LEMMA DrainQueuesExact ==
    ASSUME TypeOK,
           NEW ACTION ls, NEW ACTION q, NEW ACTION held, NEW ACTION cap, NEW ACTION gen,
           NEW ACTION st,
           DrainArgs(q, held, cap, gen, st, entry'),
           DrainLanes(ls, q, held, cap, gen, st)
    PROVE  QueuesExact(queue', status', entry')
<1>. DEFINE n == StartCounts(ls, q, held, cap)
            started == StartedBy(q, n)
<1>. SUFFICES ASSUME NEW l \in Lanes
              PROVE  /\ \A i \in 1..Len(queue'[l]) :
                           status'[queue'[l][i]] = "queued" /\ entry'[queue'[l][i]].lane = l
                     /\ \A i, j \in 1..Len(queue'[l]) : queue'[l][i] = queue'[l][j] => i = j
  BY DEF QueuesExact
<1>1. /\ queue'[l] = SubSeq(q[l], n[l] + 1, Len(q[l]))
      /\ status' = [t \in Tasks |-> IF t \in started THEN "started" ELSE st[t]]
  BY DEF DrainLanes
<1>2. /\ q[l] \in Seq(Tasks) /\ Len(q[l]) \in Nat /\ n[l] \in 0..Len(q[l])
      /\ Len(queue'[l]) = Len(q[l]) - n[l]
      /\ \A i \in 1..(Len(q[l]) - n[l]) : queue'[l][i] = q[l][n[l] + i]
  BY <1>1, StartCountsRange
<1>3. /\ \A i \in 1..Len(q[l]) : st[q[l][i]] = "queued" /\ entry'[q[l][i]].lane = l
      /\ \A i, j \in 1..Len(q[l]) : q[l][i] = q[l][j] => i = j
  BY DEF DrainArgs, QueuesExact
<1>4. ASSUME NEW i \in (n[l] + 1)..Len(q[l])
      PROVE  q[l][i] \notin started
  <2>. SUFFICES ASSUME q[l][i] \in started PROVE FALSE
    OBVIOUS
  <2>1. q[l][i] \in Prefix(q[l], n[l])
    BY <1>2, <1>3, StartedWereQueued
  <2>2. PICK j \in 1..n[l] : q[l][i] = q[l][j]
    BY <2>1 DEF Prefix
  <2>. HIDE DEF n, started
  <2>. QED
    BY <1>2, <1>3, <2>2
<1>. HIDE DEF n, started
<1>5. ASSUME NEW i \in 1..Len(queue'[l])
      PROVE  /\ n[l] + i \in (n[l] + 1)..Len(q[l])
             /\ n[l] + i \in 1..Len(q[l])
             /\ queue'[l][i] = q[l][n[l] + i]
             /\ q[l][n[l] + i] \in Tasks
  BY <1>2
<1>6. \A i \in 1..Len(queue'[l]) :
         status'[queue'[l][i]] = "queued" /\ entry'[queue'[l][i]].lane = l
  <2>. SUFFICES ASSUME NEW i \in 1..Len(queue'[l])
                PROVE  status'[queue'[l][i]] = "queued" /\ entry'[queue'[l][i]].lane = l
    OBVIOUS
  <2>. DEFINE t == q[l][n[l] + i]
  <2>1. t \in Tasks /\ t \notin started /\ st[t] = "queued" /\ entry'[t].lane = l
    BY <1>3, <1>4, <1>5
  <2>2. queue'[l][i] = t
    BY <1>5
  <2>. HIDE DEF t
  <2>. QED
    BY <1>1, <2>1, <2>2
<1>7. \A i, j \in 1..Len(queue'[l]) : queue'[l][i] = queue'[l][j] => i = j
  <2>. SUFFICES ASSUME NEW i \in 1..Len(queue'[l]), NEW j \in 1..Len(queue'[l]),
                       queue'[l][i] = queue'[l][j]
                PROVE  i = j
    OBVIOUS
  <2>1. n[l] + i = n[l] + j
    BY <1>3, <1>5
  <2>2. n[l] \in Int /\ i \in Int /\ j \in Int
    BY <1>2
  <2>. QED
    BY <2>1, <2>2
<1>. QED
  BY <1>6, <1>7

LEMMA DrainSlotsExact ==
    ASSUME TypeOK,
           NEW ACTION ls, NEW ACTION q, NEW ACTION held, NEW ACTION cap, NEW ACTION gen,
           NEW ACTION st,
           DrainArgs(q, held, cap, gen, st, entry'),
           DrainLanes(ls, q, held, cap, gen, st)
    PROVE  SlotsExact(active', status', entry', taskGeneration', gen)
<1>. DEFINE n == StartCounts(ls, q, held, cap)
            started == StartedBy(q, n)
<1>. SUFFICES ASSUME NEW l \in Lanes
              PROVE  /\ IsFiniteSet(active'[l])
                     /\ active'[l] = {t \in Tasks : /\ status'[t] = "started"
                                                   /\ entry'[t].lane = l
                                                   /\ taskGeneration'[t] = gen[l]}
  BY DEF SlotsExact
<1>1. /\ active'[l] = held[l] \cup Prefix(q[l], n[l])
      /\ status' = [t \in Tasks |-> IF t \in started THEN "started" ELSE st[t]]
      /\ taskGeneration' =
            [t \in Tasks |-> IF t \in started THEN gen[entry'[t].lane] ELSE taskGeneration[t]]
  BY DEF DrainLanes
<1>2. q[l] \in Seq(Tasks) /\ n[l] \in 0..Len(q[l])
  BY StartCountsRange
<1>3. IsFiniteSet(held[l])
  BY DEF DrainArgs, SlotsExact
<1>4. IsFiniteSet(Prefix(q[l], n[l]))
  BY <1>2, PrefixCardinality DEF DrainArgs, QueuesExact
<1>5. IsFiniteSet(active'[l])
  BY <1>1, <1>3, <1>4, FS_Union
<1>6. \A t \in started : /\ t \in Tasks /\ st[t] = "queued"
                         /\ t \in Prefix(q[entry'[t].lane], n[entry'[t].lane])
  BY StartedWereQueued
<1>7. \A t \in Prefix(q[l], n[l]) : t \in started /\ t \in Tasks /\ entry'[t].lane = l
  <2>. SUFFICES ASSUME NEW t \in Prefix(q[l], n[l])
                PROVE  t \in started /\ t \in Tasks /\ entry'[t].lane = l
    OBVIOUS
  <2>1. PICK i \in 1..n[l] : t = q[l][i]
    BY DEF Prefix
  <2>2. i \in 1..Len(q[l])
    BY <1>2, <2>1
  <2>3. t \in started
    BY DEF StartedBy
  <2>. QED
    BY <1>2, <2>1, <2>2, <2>3 DEF DrainArgs, QueuesExact
<1>8. held[l] = {t \in Tasks : st[t] = "started" /\ entry'[t].lane = l /\ taskGeneration[t] = gen[l]}
  BY DEF DrainArgs, SlotsExact
<1>. HIDE DEF n, started
<1>9. ASSUME NEW t \in Tasks
      PROVE  t \in active'[l] <=> /\ status'[t] = "started" /\ entry'[t].lane = l
                                  /\ taskGeneration'[t] = gen[l]
  <2>1. CASE t \in started
    <3>1. status'[t] = "started" /\ taskGeneration'[t] = gen[entry'[t].lane]
      BY <1>1, <2>1
    <3>2. entry'[t].lane = l <=> t \in Prefix(q[l], n[l])
      BY <1>6, <1>7, <2>1
    <3>3. t \notin held[l]
      BY <1>6, <1>8, <2>1
    <3>. QED
      BY <1>1, <3>1, <3>2, <3>3
  <2>2. CASE t \notin started
    <3>1. status'[t] = st[t] /\ taskGeneration'[t] = taskGeneration[t]
      BY <1>1, <2>2
    <3>. QED
      BY <1>1, <1>7, <1>8, <2>2, <3>1
  <2>. QED
    BY <2>1, <2>2
<1>10. active'[l] \subseteq Tasks
  BY <1>1, <1>7, <1>8
<1>. QED
  BY <1>5, <1>9, <1>10

LEMMA DrainTaskFacts ==
    ASSUME TypeOK,
           NEW ACTION ls, NEW ACTION q, NEW ACTION held, NEW ACTION cap, NEW ACTION gen,
           NEW ACTION st,
           DrainArgs(q, held, cap, gen, st, entry'),
           DrainLanes(ls, q, held, cap, gen, st)
    PROVE  /\ BodiesFollowStatus(status', body')
           /\ OutcomesFollowBodies(status', body', outcome)
           /\ GenerationsPast(body', entry', taskGeneration', gen)
<1>. DEFINE started == StartedBy(q, StartCounts(ls, q, held, cap))
<1>1. /\ status' = [t \in Tasks |-> IF t \in started THEN "started" ELSE st[t]]
      /\ body' = [t \in Tasks |-> IF t \in started THEN "running" ELSE body[t]]
      /\ taskGeneration' =
            [t \in Tasks |-> IF t \in started THEN gen[entry'[t].lane] ELSE taskGeneration[t]]
  BY DEF DrainLanes
<1>2. \A t \in started : t \in Tasks /\ st[t] = "queued"
  BY StartedWereQueued
<1>3. \A t \in Tasks : entry'[t].lane \in Lanes
  BY DEF DrainArgs, QueueEntry
<1>4. \A l \in Lanes : gen[l] \in Nat
  BY DEF DrainArgs
<1>5. /\ BodiesFollowStatus(st, body)
      /\ OutcomesFollowBodies(st, body, outcome)
      /\ GenerationsPast(body, entry', taskGeneration, gen)
  BY DEF DrainArgs
<1>. HIDE DEF started
<1>6. BodiesFollowStatus(status', body')
  BY <1>1, <1>2, <1>5 DEF BodiesFollowStatus
<1>7. OutcomesFollowBodies(status', body', outcome)
  BY <1>1, <1>2, <1>5 DEF OutcomesFollowBodies, BodiesFollowStatus
<1>8. GenerationsPast(body', entry', taskGeneration', gen)
  BY <1>1, <1>3, <1>4, <1>5 DEF GenerationsPast
<1>. QED
  BY <1>6, <1>7, <1>8

\* A drained lane, and one that needed no drain, has no free slot for its queue.
LEMMA DrainWorkConserving ==
    ASSUME NEW ACTION ls, NEW ACTION q, NEW ACTION held, NEW ACTION cap, NEW ACTION gen,
           NEW ACTION st,
           DrainArgs(q, held, cap, gen, st, entry'),
           DrainLanes(ls, q, held, cap, gen, st),
           NEW l \in Lanes,
           l \in ls \/ q[l] = <<>> \/ Cardinality(held[l]) >= cap[l]
    PROVE  queue'[l] = <<>> \/ Cardinality(active'[l]) >= cap[l]
<1>. DEFINE n == StartCounts(ls, q, held, cap)
<1>1. queue'[l] = SubSeq(q[l], n[l] + 1, Len(q[l])) /\ active'[l] = held[l] \cup Prefix(q[l], n[l])
  BY DEF DrainLanes
<1>2. /\ q[l] \in Seq(Tasks) /\ Len(q[l]) \in Nat /\ n[l] \in 0..Len(q[l])
      /\ queue'[l] \in Seq(Tasks) /\ Len(queue'[l]) = Len(q[l]) - n[l]
  BY <1>1, StartCountsRange
<1>3. /\ IsFiniteSet(held[l])
      /\ cap[l] \in Nat
      /\ held[l] = {t \in Tasks : st[t] = "started" /\ entry'[t].lane = l /\ taskGeneration[t] = gen[l]}
      /\ \A i \in 1..Len(q[l]) : st[q[l][i]] = "queued"
  BY DEF DrainArgs, SlotsExact, QueuesExact
<1>4. IsFiniteSet(Prefix(q[l], n[l])) /\ Cardinality(Prefix(q[l], n[l])) = n[l]
  BY <1>2, PrefixCardinality DEF DrainArgs, QueuesExact
<1>5. l \in ls => n[l] = Len(q[l]) \/ Cardinality(held[l]) + n[l] >= cap[l]
  <2>1. \/ StartCount(q[l], held[l], cap[l]) = Len(q[l])
        \/ Cardinality(held[l]) + StartCount(q[l], held[l], cap[l]) >= cap[l]
    BY <1>2, <1>3, StartCountRange
  <2>2. l \in ls => n[l] = StartCount(q[l], held[l], cap[l])
    BY DEF StartCounts
  <2>. HIDE DEF n
  <2>. QED
    BY <2>1, <2>2
<1>. HIDE DEF n
<1>6. held[l] \cap Prefix(q[l], n[l]) = {}
  <2>. SUFFICES ASSUME NEW t, t \in held[l], t \in Prefix(q[l], n[l]) PROVE FALSE
    OBVIOUS
  <2>1. PICK i \in 1..n[l] : t = q[l][i]
    BY DEF Prefix
  <2>2. i \in 1..Len(q[l])
    BY <1>2
  <2>3. st[t] = "queued" /\ st[t] = "started"
    BY <1>3, <2>1, <2>2
  <2>. QED
    BY <2>3
<1>7. Cardinality(held[l]) \in Nat
  BY <1>3, FS_CardinalityType
<1>8. Cardinality(active'[l]) = Cardinality(held[l]) + n[l]
  <2>1. Cardinality(active'[l]) = Cardinality(held[l]) + n[l] - Cardinality({})
    BY <1>1, <1>3, <1>4, <1>6, FS_Union
  <2>. QED
    BY <1>2, <1>7, <2>1, FS_EmptySet
<1>9. CASE l \in ls
  <2>1. n[l] = Len(q[l]) \/ Cardinality(held[l]) + n[l] >= cap[l]
    BY <1>5, <1>9
  <2>2. n[l] = Len(q[l]) => queue'[l] = <<>>
    BY <1>2
  <2>. QED
    BY <1>8, <2>1, <2>2
<1>10. CASE q[l] = <<>>
  BY <1>2, <1>10
<1>11. CASE Cardinality(held[l]) >= cap[l]
  BY <1>2, <1>3, <1>7, <1>8, <1>11
<1>. QED
  BY <1>9, <1>10, <1>11

\* A drain only adds slots.
LEMMA DrainKeepsSlots ==
    ASSUME NEW ACTION ls, NEW ACTION q, NEW ACTION held, NEW ACTION cap, NEW ACTION gen,
           NEW ACTION st,
           DrainLanes(ls, q, held, cap, gen, st)
    PROVE  ActiveIds(held) \subseteq ActiveIds(active')
BY DEF DrainLanes, ActiveIds

\* The parts of the inductive invariant that a drain re-establishes.
CoreInv ==
    /\ QueuesExact(queue, status, entry)
    /\ SlotsExact(active, status, entry, taskGeneration, generation)
    /\ BodiesFollowStatus(status, body)
    /\ OutcomesFollowBodies(status, body, outcome)
    /\ GenerationsPast(body, entry, taskGeneration, generation)

LEMMA DrainCoreInv ==
    ASSUME TypeOK,
           NEW ACTION ls, NEW ACTION q, NEW ACTION held, NEW ACTION cap, NEW ACTION gen,
           NEW ACTION st,
           DrainArgs(q, held, cap, gen, st, entry'),
           DrainLanes(ls, q, held, cap, gen, st),
           generation' = gen,
           outcome' = outcome
    PROVE  CoreInv' /\ DrainTypes
BY DrainTypesOK, DrainQueuesExact, DrainSlotsExact, DrainTaskFacts DEF CoreInv

-----------------------------------------------------------------------------
\* A non-empty set of indices has a least one: among the intervals 1..x, which
\* strict inclusion orders well, one is minimal.
LEMMA LeastElement ==
    ASSUME NEW n \in Nat, NEW T, T \subseteq 1..n, T # {}
    PROVE  \E x \in T : \A y \in T : x <= y
<1>. DEFINE F == {1..x : x \in T}
            R == StrictSubsetOrdering(1..n)
            W == FiniteSubsetsOf(1..n)
<1>1. IsWellFoundedOn(R, W)
  BY FS_StrictSubsetOrderingWellFounded
<1>2. F \subseteq W
  <2>. SUFFICES ASSUME NEW x \in T PROVE 1..x \in W
    OBVIOUS
  <2>1. x \in Int /\ 1..x \subseteq 1..n
    OBVIOUS
  <2>. QED
    BY <2>1, FS_Interval DEF FiniteSubsetsOf
<1>3. F # {}
  OBVIOUS
<1>. HIDE DEF R, W
<1>4. \E A \in F : \A B \in F : ~ (<<B, A>> \in R)
  <2>. HIDE DEF F
  <2>. QED
    BY <1>1, <1>2, <1>3, WFMin
<1>5. PICK x \in T : \A y \in T : ~ (<<1..y, 1..x>> \in R)
  BY <1>4
<1>6. ASSUME NEW y \in T, y < x PROVE FALSE
  <2>1. x \in 1..n /\ y \in 1..n
    OBVIOUS
  <2>2. 1..y \subseteq 1..x /\ 1..y # 1..x
    <3>1. x \in 1..x /\ x \notin 1..y
      BY <1>6, <2>1
    <3>. QED
      BY <1>6, <2>1, <3>1
  <2>3. 1..y \subseteq 1..n /\ 1..x \subseteq 1..n
    BY <2>1
  <2>. QED
    BY <1>5, <2>2, <2>3 DEF R, StrictSubsetOrdering
<1>. QED
  BY <1>6

LEMMA InsertIndexRange ==
    ASSUME NEW q \in Seq(Tasks), NEW e
    PROVE  InsertIndex(q, e) \in 1..(Len(q) + 1)
<1>. DEFINE overtaken == {i \in 1..Len(q) : Precedes(e, entry[q[i]])}
<1>1. Len(q) \in Nat
  OBVIOUS
<1>2. CASE overtaken = {}
  BY <1>1, <1>2 DEF InsertIndex
<1>3. CASE overtaken # {}
  <2>1. overtaken \subseteq 1..Len(q)
    OBVIOUS
  <2>2. \E i \in overtaken : \A j \in overtaken : i <= j
    BY <1>1, <1>3, <2>1, LeastElement
  <2>3. InsertIndex(q, e) \in overtaken
    BY <1>3, <2>2 DEF InsertIndex
  <2>. QED
    BY <1>1, <2>3
<1>. QED
  BY <1>2, <1>3

LEMMA InsertProperties ==
    ASSUME NEW q \in Seq(Tasks), NEW t \in Tasks, NEW ACTION e
    PROVE  /\ EnqueueLaneEntry(q, t, e) \in Seq(Tasks)
           /\ Len(EnqueueLaneEntry(q, t, e)) = Len(q) + 1
           /\ \A i \in 1..(Len(q) + 1) :
                 EnqueueLaneEntry(q, t, e)[i] = IF i < InsertIndex(q, e) THEN q[i]
                                                ELSE IF i = InsertIndex(q, e) THEN t ELSE q[i - 1]
<1>. DEFINE at == InsertIndex(q, e)
            before == SubSeq(q, 1, at - 1)
            after == SubSeq(q, at, Len(q))
<1>1. at \in 1..(Len(q) + 1) /\ Len(q) \in Nat
  BY InsertIndexRange
<1>. HIDE DEF at
<1>2. /\ before \in Seq(Tasks) /\ Len(before) = at - 1
      /\ \A i \in 1..(at - 1) : before[i] = q[i]
  <2>1. 1 \in Int /\ at - 1 \in Int /\ \A i \in 1..(at - 1) : q[i] \in Tasks
    BY <1>1
  <2>2. /\ before \in Seq(Tasks)
        /\ Len(before) = IF 1 <= at - 1 THEN at - 1 - 1 + 1 ELSE 0
        /\ \A i \in 1..(at - 1 - 1 + 1) : before[i] = q[1 + i - 1]
    BY <2>1, SubSeqProperties
  <2>. QED
    BY <1>1, <2>2
<1>3. /\ after \in Seq(Tasks) /\ Len(after) = Len(q) + 1 - at
      /\ \A i \in 1..(Len(q) + 1 - at) : after[i] = q[at + i - 1]
  <2>1. at \in Int /\ Len(q) \in Int /\ \A i \in at..Len(q) : q[i] \in Tasks
    BY <1>1
  <2>2. /\ after \in Seq(Tasks)
        /\ Len(after) = IF at <= Len(q) THEN Len(q) - at + 1 ELSE 0
        /\ \A i \in 1..(Len(q) - at + 1) : after[i] = q[at + i - 1]
    BY <2>1, SubSeqProperties
  <2>. QED
    BY <1>1, <2>2
<1>. HIDE DEF before, after
<1>4. EnqueueLaneEntry(q, t, e) = before \o <<t>> \o after
  BY DEF EnqueueLaneEntry, at, before, after
<1>5. /\ before \o <<t>> \in Seq(Tasks) /\ Len(before \o <<t>>) = at
      /\ \A i \in 1..at : (before \o <<t>>)[i] = IF i < at THEN q[i] ELSE t
  BY <1>1, <1>2
<1>6. /\ (before \o <<t>>) \o after \in Seq(Tasks)
      /\ Len((before \o <<t>>) \o after) = Len(q) + 1
      /\ \A i \in 1..(Len(q) + 1) :
            ((before \o <<t>>) \o after)[i] = IF i <= at THEN (before \o <<t>>)[i] ELSE after[i - at]
  BY <1>1, <1>3, <1>5
<1>7. \A i \in 1..(Len(q) + 1) :
         ((before \o <<t>>) \o after)[i] = IF i < at THEN q[i] ELSE IF i = at THEN t ELSE q[i - 1]
  <2>. SUFFICES ASSUME NEW i \in 1..(Len(q) + 1)
                PROVE  ((before \o <<t>>) \o after)[i]
                          = IF i < at THEN q[i] ELSE IF i = at THEN t ELSE q[i - 1]
    OBVIOUS
  <2>1. CASE i <= at
    BY <1>1, <1>5, <1>6, <2>1
  <2>2. CASE i > at
    <3>1. i - at \in 1..(Len(q) + 1 - at) /\ at + (i - at) - 1 = i - 1
      BY <1>1, <2>2
    <3>2. after[i - at] = q[i - 1]
      BY <1>3, <3>1
    <3>. QED
      BY <1>1, <1>6, <2>2, <3>2
  <2>3. i <= at \/ i > at
    BY <1>1
  <2>. QED
    BY <2>1, <2>2, <2>3
<1>. QED
  BY <1>4, <1>6, <1>7 DEF at

-----------------------------------------------------------------------------
(***************************************************************************)
(* The inductive invariant, and that every action preserves it.            *)
(***************************************************************************)
IInv ==
    /\ TypeOK
    /\ CoreInv
    /\ WorkConserving
    /\ PendingWaiterHasActiveTask

LEMMA NotifiedProperties ==
    ASSUME TypeOK, NEW ACTION held
    PROVE  /\ Notified(held) \in [Waiters -> ActiveTaskWaiter]
           /\ \A w \in Waiters : Notified(held)[w].answer = "pending" =>
                 Notified(held)[w].ids \cap ActiveIds(held) # {}
<1>. SUFFICES ASSUME NEW w \in Waiters
              PROVE  /\ Notified(held)[w] \in ActiveTaskWaiter
                     /\ Notified(held)[w].answer = "pending" =>
                           Notified(held)[w].ids \cap ActiveIds(held) # {}
  BY DEF Notified
<1>1. waiter[w] \in ActiveTaskWaiter
  BY DEF TypeOK
<1>. QED
  BY <1>1 DEF Notified, ActiveTaskWaiter

\* Waiters left alone stay justified when slots are only added.
LEMMA WaitersKept ==
    ASSUME PendingWaiterHasActiveTask, waiter' = waiter,
           ActiveIds(active) \subseteq ActiveIds(active')
    PROVE  PendingWaiterHasActiveTask'
BY DEF PendingWaiterHasActiveTask

\* Waiters notified about the slots held stay justified when slots are added.
LEMMA WaitersNotified ==
    ASSUME TypeOK, NEW ACTION held, waiter' = Notified(held),
           ActiveIds(held) \subseteq ActiveIds(active')
    PROVE  PendingWaiterHasActiveTask' /\ waiter' \in [Waiters -> ActiveTaskWaiter]
BY NotifiedProperties DEF PendingWaiterHasActiveTask

(***************************************************************************)
(* The steps of SubmittedCommand that a concrete step takes, first for a   *)
(* step without a drain, then for a drain.                                 *)
(***************************************************************************)
StatusMove(old, new) ==
    \/ new = old
    \/ old = "new" /\ new = "queued"
    \/ old \in {"new", "queued"} /\ new \in {"cleared", "refused"}
    \/ old = "started" /\ new \in {"resolved", "rejected", "timedOut"}

LEMMA PlainLife ==
    ASSUME TypeOK, BodiesFollowStatus(status, body),
           \A t \in Tasks : /\ StatusMove(status[t], status'[t])
                            /\ (body'[t] = "idle") <=> (body[t] = "idle")
    PROVE  Submitted!Next
<1>1. ASSUME NEW t \in Tasks
      PROVE  \/ Submitted!Stays(t) \/ Submitted!Waits(t) \/ Submitted!Runs(t)
             \/ Submitted!Refused(t) \/ Submitted!Answered(t)
  <2>1. /\ ran[t] = (body[t] # "idle") /\ ran'[t] = ran[t]
        /\ (body[t] = "idle") <=> status[t] \in {"new", "queued", "cleared", "refused"}
    BY DEF ran, BodiesFollowStatus
  <2>2. CASE status'[t] = status[t]
    BY <2>1, <2>2 DEF phase, Submitted!Stays
  <2>3. CASE status[t] = "new" /\ status'[t] = "queued"
    BY <2>1, <2>3 DEF phase, Submitted!Waits
  <2>4. CASE status[t] \in {"new", "queued"} /\ status'[t] \in {"cleared", "refused"}
    BY <2>1, <2>4 DEF phase, Submitted!Refused
  <2>5. CASE status[t] = "started" /\ status'[t] \in {"resolved", "rejected", "timedOut"}
    BY <2>1, <2>5 DEF phase, Submitted!Answered
  <2>. QED
    BY <2>2, <2>3, <2>4, <2>5 DEF StatusMove
<1>2. DOMAIN phase' = Tasks /\ DOMAIN ran' = Tasks
  BY DEF phase, ran
<1>. QED
  BY <1>1, <1>2 DEF Submitted!Next

LEMMA DrainLife ==
    ASSUME TypeOK, BodiesFollowStatus(status, body),
           NEW ACTION ls, NEW ACTION q, NEW ACTION held, NEW ACTION cap, NEW ACTION gen,
           NEW ACTION st,
           DrainArgs(q, held, cap, gen, st, entry'),
           DrainLanes(ls, q, held, cap, gen, st),
           \A t \in Tasks : StatusMove(status[t], st[t])
    PROVE  Submitted!Next
<1>. DEFINE started == StartedBy(q, StartCounts(ls, q, held, cap))
<1>1. \A t \in started : t \in Tasks /\ st[t] = "queued"
  BY StartedWereQueued
<1>2. /\ status' = [t \in Tasks |-> IF t \in started THEN "started" ELSE st[t]]
      /\ body' = [t \in Tasks |-> IF t \in started THEN "running" ELSE body[t]]
  BY DEF DrainLanes
<1>. HIDE DEF started
<1>3. ASSUME NEW t \in Tasks
      PROVE  \/ Submitted!Stays(t) \/ Submitted!Waits(t) \/ Submitted!Runs(t)
             \/ Submitted!Refused(t) \/ Submitted!Answered(t)
  <2>0. /\ ran[t] = (body[t] # "idle") /\ ran'[t] = (body'[t] # "idle")
        /\ (body[t] = "idle") <=> status[t] \in {"new", "queued", "cleared", "refused"}
    BY DEF ran, BodiesFollowStatus
  <2>1. CASE t \in started
    <3>1. /\ status'[t] = "started" /\ body'[t] = "running" /\ st[t] = "queued"
          /\ status[t] \in {"new", "queued"}
      BY <1>1, <1>2, <2>1 DEF StatusMove
    <3>. QED
      BY <2>0, <3>1 DEF phase, Submitted!Runs
  <2>2. CASE t \notin started
    <3>0. status'[t] = st[t] /\ body'[t] = body[t] /\ StatusMove(status[t], st[t])
      BY <1>2, <2>2
    <3>1. CASE status'[t] = status[t]
      BY <2>0, <3>0, <3>1 DEF phase, Submitted!Stays
    <3>2. CASE status[t] = "new" /\ status'[t] = "queued"
      BY <2>0, <3>0, <3>2 DEF phase, Submitted!Waits
    <3>3. CASE status[t] \in {"new", "queued"} /\ status'[t] \in {"cleared", "refused"}
      BY <2>0, <3>0, <3>3 DEF phase, Submitted!Refused
    <3>4. CASE status[t] = "started" /\ status'[t] \in {"resolved", "rejected", "timedOut"}
      BY <2>0, <3>0, <3>4 DEF phase, Submitted!Answered
    <3>. QED
      BY <3>0, <3>1, <3>2, <3>3, <3>4 DEF StatusMove
  <2>. QED
    BY <2>1, <2>2
<1>4. DOMAIN phase' = Tasks /\ DOMAIN ran' = Tasks
  BY DEF phase, ran
<1>. QED
  BY <1>3, <1>4 DEF Submitted!Next

\* The step part of StartsWithinCap.
WithinCap ==
    \A l \in Lanes : active'[l] \subseteq active[l] \/ Cardinality(active'[l]) <= maxConcurrent'[l]

LEMMA DrainWithinCap ==
    ASSUME NEW ACTION ls, NEW ACTION q, NEW ACTION held, NEW ACTION cap, NEW ACTION gen,
           NEW ACTION st,
           DrainArgs(q, held, cap, gen, st, entry'),
           DrainLanes(ls, q, held, cap, gen, st),
           maxConcurrent' = cap,
           \A l \in Lanes : held[l] \subseteq active[l]
    PROVE  WithinCap
<1>. SUFFICES ASSUME NEW l \in Lanes
              PROVE  active'[l] \subseteq active[l] \/ Cardinality(active'[l]) <= cap[l]
  BY DEF WithinCap
<1>. DEFINE n == StartCounts(ls, q, held, cap)
<1>1. active'[l] = held[l] \cup Prefix(q[l], n[l])
  BY DEF DrainLanes
<1>2. q[l] \in Seq(Tasks) /\ Len(q[l]) \in Nat /\ n[l] \in 0..Len(q[l])
  BY StartCountsRange
<1>3. IsFiniteSet(held[l]) /\ cap[l] \in Nat /\ Cardinality(held[l]) \in Nat
  BY FS_CardinalityType DEF DrainArgs, SlotsExact
<1>4. IsFiniteSet(Prefix(q[l], n[l])) /\ Cardinality(Prefix(q[l], n[l])) = n[l]
  BY <1>2, PrefixCardinality DEF DrainArgs, QueuesExact
<1>5. n[l] > 0 => Cardinality(held[l]) + n[l] <= cap[l]
  <2>1. StartCount(q[l], held[l], cap[l]) > 0 =>
           Cardinality(held[l]) + StartCount(q[l], held[l], cap[l]) <= cap[l]
    BY <1>2, <1>3, StartCountRange
  <2>2. n[l] = StartCount(q[l], held[l], cap[l]) \/ n[l] = 0
    BY DEF StartCounts
  <2>. HIDE DEF n
  <2>. QED
    BY <2>1, <2>2
<1>. HIDE DEF n
<1>6. CASE n[l] = 0
  <2>1. Prefix(q[l], n[l]) = {}
    BY <1>6 DEF Prefix
  <2>. QED
    BY <1>1, <2>1
<1>7. CASE n[l] # 0
  <2>1. /\ IsFiniteSet(held[l] \cap Prefix(q[l], n[l]))
        /\ Cardinality(held[l] \cap Prefix(q[l], n[l])) \in Nat
    BY <1>3, FS_Intersection, FS_CardinalityType
  <2>2. Cardinality(active'[l]) =
           Cardinality(held[l]) + n[l] - Cardinality(held[l] \cap Prefix(q[l], n[l]))
    BY <1>1, <1>3, <1>4, FS_Union
  <2>. QED
    BY <1>2, <1>3, <1>5, <1>7, <2>1, <2>2
<1>. QED
  BY <1>6, <1>7

LEMMA InitIInv == Init => IInv
<1>. SUFFICES ASSUME Init PROVE IInv
  OBVIOUS
<1>. USE CommandQueueAssumption
<1>1. TypeOK
  <2>1. [lane |-> DefaultLane, priority |-> 0, timed |-> FALSE, sequence |-> 0] \in QueueEntry
    BY DEF QueueEntry
  <2>2. [answer |-> "none", ids |-> {}, timed |-> FALSE] \in ActiveTaskWaiter
    BY DEF ActiveTaskWaiter
  <2>3. /\ queue \in [Lanes -> Seq(Tasks)]
        /\ active \in [Lanes -> SUBSET Tasks]
        /\ maxConcurrent \in [Lanes -> Nat]
        /\ generation \in [Lanes -> Nat]
        /\ gatewayDraining \in BOOLEAN
        /\ nextQueueSequence \in Nat \ {0}
    <3>1. <<>> \in Seq(Tasks) /\ {} \in SUBSET Tasks
      OBVIOUS
    <3>2. queue \in [Lanes -> Seq(Tasks)] /\ active \in [Lanes -> SUBSET Tasks]
      BY <3>1 DEF Init
    <3>3. maxConcurrent \in [Lanes -> Nat] /\ generation \in [Lanes -> Nat]
      BY DEF Init
    <3>4. gatewayDraining \in BOOLEAN
      BY DEF Init
    <3>5. nextQueueSequence \in Nat \ {0}
      BY DEF Init
    <3>. QED
      BY <3>2, <3>3, <3>4, <3>5
  <2>4. entry \in [Tasks -> QueueEntry] /\ waiter \in [Waiters -> ActiveTaskWaiter]
    BY <2>1, <2>2 DEF Init
  <2>5. /\ status \in [Tasks -> Status]
        /\ outcome \in [Tasks -> {"none", "ok", "err", "timeout"}]
        /\ body \in [Tasks -> {"idle", "running", "ended"}]
        /\ taskGeneration \in [Tasks -> Nat]
    BY DEF Init, Status
  <2>. QED
    BY <2>3, <2>4, <2>5 DEF TypeOK
<1>2. CoreInv
  BY FS_EmptySet DEF Init, CoreInv, QueuesExact, SlotsExact, BodiesFollowStatus,
                     OutcomesFollowBodies, GenerationsPast
<1>3. WorkConserving
  BY DEF Init, WorkConserving
<1>4. PendingWaiterHasActiveTask
  BY DEF Init, PendingWaiterHasActiveTask
<1>. QED
  BY <1>1, <1>2, <1>3, <1>4 DEF IInv

\* The queue that takes a new entry keeps each queued task once and in its lane.
LEMMA EnqueuedQueuesExact ==
    ASSUME IInv, NEW t \in Tasks, NEW l \in Lanes, NEW p \in Priorities, NEW timed \in BOOLEAN,
           EnqueueCommandInLane(t, l, p, timed)
    PROVE  QueuesExact(
              [queue EXCEPT ![l] = EnqueueLaneEntry(queue[l], t,
                 [lane |-> l, priority |-> p, timed |-> timed, sequence |-> nextQueueSequence])],
              [status EXCEPT ![t] = "queued"], entry')
<1>. DEFINE e == [lane |-> l, priority |-> p, timed |-> timed, sequence |-> nextQueueSequence]
            q == [queue EXCEPT ![l] = EnqueueLaneEntry(queue[l], t, e)]
            st == [status EXCEPT ![t] = "queued"]
<1>1. TypeOK /\ CoreInv
  BY DEF IInv
<1>2. status[t] = "new" /\ entry' = [entry EXCEPT ![t] = e]
  BY DEF EnqueueCommandInLane
<1>3. queue[l] \in Seq(Tasks) /\ Len(queue[l]) \in Nat
  BY <1>1 DEF TypeOK
<1>. DEFINE at == InsertIndex(queue[l], e)
            r == EnqueueLaneEntry(queue[l], t, e)
<1>4. at \in 1..(Len(queue[l]) + 1)
  BY <1>3, InsertIndexRange
<1>5. /\ r \in Seq(Tasks)
      /\ Len(r) = Len(queue[l]) + 1
      /\ \A i \in 1..(Len(queue[l]) + 1) :
            r[i] = IF i < at THEN queue[l][i] ELSE IF i = at THEN t ELSE queue[l][i - 1]
  BY <1>3, InsertProperties
<1>6. /\ e \in QueueEntry
      /\ e.lane = l
  BY <1>1 DEF QueueEntry, TypeOK
<1>. HIDE DEF e, at, r
<1>7. \A m \in Lanes : \A i \in 1..Len(queue[m]) :
         queue[m][i] \in Tasks /\ queue[m][i] # t /\ status[queue[m][i]] = "queued"
  BY <1>1, <1>2 DEF TypeOK, CoreInv, QueuesExact
<1>8. QueuesExact(q, st, entry')
  <2>. SUFFICES ASSUME NEW m \in Lanes
                PROVE  /\ \A i \in 1..Len(q[m]) :
                             st[q[m][i]] = "queued" /\ entry'[q[m][i]].lane = m
                       /\ \A i, j \in 1..Len(q[m]) : q[m][i] = q[m][j] => i = j
    BY DEF QueuesExact
  <2>0. /\ \A i \in 1..Len(queue[m]) :
              status[queue[m][i]] = "queued" /\ entry[queue[m][i]].lane = m
        /\ \A i, j \in 1..Len(queue[m]) : queue[m][i] = queue[m][j] => i = j
    BY <1>1 DEF CoreInv, QueuesExact
  <2>a. \A i \in 1..Len(queue[m]) :
           st[queue[m][i]] = "queued" /\ entry'[queue[m][i]].lane = m
    BY <1>1, <1>2, <1>7, <2>0 DEF TypeOK
  <2>b. st[t] = "queued" /\ entry'[t].lane = l
    BY <1>1, <1>2, <1>6 DEF TypeOK
  <2>1. CASE m # l
    <3>1. q[m] = queue[m]
      BY <1>1, <2>1 DEF TypeOK
    <3>. QED
      BY <2>0, <2>a, <3>1
  <2>2. CASE m = l
    <3>1. q[m] = r
      BY <1>1, <2>2 DEF TypeOK, r
    <3>2. \A i \in 1..Len(r) :
             \/ i < at /\ i \in 1..Len(queue[l]) /\ r[i] = queue[l][i]
             \/ i = at /\ r[i] = t
             \/ i > at /\ i - 1 \in 1..Len(queue[l]) /\ r[i] = queue[l][i - 1]
      BY <1>3, <1>4, <1>5
    <3>3. \A i \in 1..Len(r) : st[r[i]] = "queued" /\ entry'[r[i]].lane = l
      BY <2>2, <2>a, <2>b, <3>2
    <3>4. \A i, j \in 1..Len(r) : r[i] = r[j] => i = j
      <4>. SUFFICES ASSUME NEW i \in 1..Len(r), NEW j \in 1..Len(r), r[i] = r[j]
                    PROVE  i = j
        OBVIOUS
      <4>1. i \in Int /\ j \in Int /\ at \in Int
        BY <1>3, <1>4, <1>5
      <4>2. \A k \in 1..Len(queue[l]) : queue[l][k] # t
        BY <1>7
      <4>. HIDE DEF q, st
      <4>. QED
        BY <2>0, <2>2, <3>2, <4>1, <4>2
    <3>. QED
      BY <2>2, <3>1, <3>3, <3>4
  <2>. QED
    BY <2>1, <2>2
<1>. HIDE DEF q, st
<1>. QED
  BY <1>8 DEF q, st, e

LEMMA EnqueueIInv ==
    ASSUME IInv, NEW t \in Tasks, NEW l \in Lanes, NEW p \in Priorities, NEW timed \in BOOLEAN,
           EnqueueCommandInLane(t, l, p, timed)
    PROVE  IInv' /\ Submitted!Next /\ WithinCap
<1>. DEFINE e == [lane |-> l, priority |-> p, timed |-> timed, sequence |-> nextQueueSequence]
            q == [queue EXCEPT ![l] = EnqueueLaneEntry(queue[l], t, e)]
            st == [status EXCEPT ![t] = "queued"]
<1>1. TypeOK /\ CoreInv /\ WorkConserving /\ PendingWaiterHasActiveTask
  BY DEF IInv
<1>2. /\ status[t] = "new"
      /\ entry' = [entry EXCEPT ![t] = e]
      /\ DrainLanes({l}, q, active, maxConcurrent, generation, st)
      /\ nextQueueSequence' = nextQueueSequence + 1
      /\ UNCHANGED <<maxConcurrent, generation, gatewayDraining, outcome, waiter>>
  BY DEF EnqueueCommandInLane
<1>3. queue[l] \in Seq(Tasks) /\ Len(queue[l]) \in Nat
  BY <1>1 DEF TypeOK
<1>. DEFINE r == EnqueueLaneEntry(queue[l], t, e)
<1>4. r \in Seq(Tasks)
  BY <1>3, InsertProperties
<1>5. /\ e \in QueueEntry
      /\ e.lane = l
  BY <1>1 DEF QueueEntry, TypeOK
<1>. HIDE DEF e, r
<1>6. QueuesExact(q, st, entry')
  BY EnqueuedQueuesExact DEF e
<1>7. DrainArgs(q, active, maxConcurrent, generation, st, entry')
  <2>1. /\ q \in [Lanes -> Seq(Tasks)]
        /\ st \in [Tasks -> Status]
        /\ entry' \in [Tasks -> QueueEntry]
    BY <1>1, <1>2, <1>4, <1>5 DEF TypeOK, Status, r
  <2>2. /\ \A u \in Tasks : u # t => st[u] = status[u] /\ entry'[u] = entry[u]
        /\ st[t] = "queued" /\ status[t] = "new" /\ body[t] = "idle"
    BY <1>1, <1>2 DEF TypeOK, CoreInv, BodiesFollowStatus
  <2>. HIDE DEF st
  <2>3. SlotsExact(active, st, entry', taskGeneration, generation)
    <3>. SUFFICES ASSUME NEW m \in Lanes
                  PROVE  /\ IsFiniteSet(active[m])
                         /\ active[m] = {u \in Tasks : /\ st[u] = "started"
                                                       /\ entry'[u].lane = m
                                                       /\ taskGeneration[u] = generation[m]}
      BY DEF SlotsExact
    <3>1. /\ IsFiniteSet(active[m])
          /\ active[m] = {u \in Tasks : /\ status[u] = "started"
                                        /\ entry[u].lane = m
                                        /\ taskGeneration[u] = generation[m]}
      BY <1>1 DEF CoreInv, SlotsExact
    <3>2. ASSUME NEW u \in Tasks
          PROVE  st[u] = "started" /\ entry'[u].lane = m <=> status[u] = "started" /\ entry[u].lane = m
      BY <2>2
    <3>. QED
      BY <3>1, <3>2
  <2>4. BodiesFollowStatus(st, body) /\ OutcomesFollowBodies(st, body, outcome)
    BY <1>1, <2>2 DEF CoreInv, BodiesFollowStatus, OutcomesFollowBodies
  <2>5. GenerationsPast(body, entry', taskGeneration, generation)
    BY <1>1, <2>2 DEF CoreInv, GenerationsPast
  <2>. QED
    BY <1>1, <1>6, <2>1, <2>3, <2>4, <2>5 DEF DrainArgs, TypeOK
<1>8. CoreInv' /\ DrainTypes
  BY <1>1, <1>2, <1>7, DrainCoreInv
<1>9. TypeOK'
  BY <1>1, <1>2, <1>7, <1>8 DEF TypeOK, DrainTypes, DrainArgs
<1>10. WorkConserving'
  <2>. SUFFICES ASSUME NEW m \in Lanes
                PROVE  queue'[m] = <<>> \/ Cardinality(active'[m]) >= maxConcurrent'[m]
    BY DEF WorkConserving
  <2>1. m \in {l} \/ q[m] = <<>> \/ Cardinality(active[m]) >= maxConcurrent[m]
    BY <1>1 DEF WorkConserving, TypeOK
  <2>. QED
    BY <1>2, <1>7, <2>1, DrainWorkConserving
<1>11. PendingWaiterHasActiveTask'
  BY <1>1, <1>2, DrainKeepsSlots, WaitersKept
<1>life. Submitted!Next
  <2>1. \A u \in Tasks : StatusMove(status[u], st[u])
    BY <1>1, <1>2 DEF StatusMove, TypeOK
  <2>. QED
    BY <1>1, <1>2, <1>7, <2>1, DrainLife DEF CoreInv
<1>cap. WithinCap
  BY <1>2, <1>7, DrainWithinCap
<1>. QED
  BY <1>life, <1>cap, <1>8, <1>9, <1>10, <1>11 DEF IInv

LEMMA RefuseIInv ==
    ASSUME IInv, NEW t \in Tasks, RefuseWhileDraining(t)
    PROVE  IInv' /\ Submitted!Next /\ WithinCap
<1>1. TypeOK /\ CoreInv /\ WorkConserving /\ PendingWaiterHasActiveTask
  BY DEF IInv
<1>2. /\ status[t] = "new" /\ status' = [status EXCEPT ![t] = "refused"]
      /\ UNCHANGED <<queue, active, maxConcurrent, generation, gatewayDraining,
                     nextQueueSequence, entry, outcome, body, taskGeneration, waiter>>
  BY DEF RefuseWhileDraining, laneVars
<1>3. TypeOK'
  BY <1>1, <1>2 DEF TypeOK, Status
<1>4. QueuesExact(queue', status', entry')
  BY <1>1, <1>2 DEF CoreInv, QueuesExact, TypeOK
<1>5. SlotsExact(active', status', entry', taskGeneration', generation')
  BY <1>1, <1>2 DEF CoreInv, SlotsExact, TypeOK
<1>6. /\ BodiesFollowStatus(status', body')
      /\ OutcomesFollowBodies(status', body', outcome')
      /\ GenerationsPast(body', entry', taskGeneration', generation')
  BY <1>1, <1>2 DEF CoreInv, BodiesFollowStatus, OutcomesFollowBodies, GenerationsPast, TypeOK
<1>7. WorkConserving' /\ PendingWaiterHasActiveTask'
  BY <1>1, <1>2 DEF WorkConserving, PendingWaiterHasActiveTask, ActiveIds
<1>life. Submitted!Next
  <2>1. \A u \in Tasks : StatusMove(status[u], status'[u])
    BY <1>1, <1>2 DEF StatusMove, TypeOK
  <2>2. \A u \in Tasks : (body'[u] = "idle") <=> (body[u] = "idle")
    BY <1>1, <1>2 DEF TypeOK
  <2>. QED
    BY <1>1, <2>1, <2>2, PlainLife DEF CoreInv
<1>cap. WithinCap
  BY <1>2 DEF WithinCap
<1>. QED
  BY <1>life, <1>cap, <1>3, <1>4, <1>5, <1>6, <1>7 DEF IInv, CoreInv

LEMMA BodyEndsIInv ==
    ASSUME IInv, NEW t \in Tasks, NEW how \in {"ok", "err"}, TaskBodyEnds(t, how)
    PROVE  IInv' /\ Submitted!Next /\ WithinCap
<1>1. TypeOK /\ CoreInv /\ WorkConserving /\ PendingWaiterHasActiveTask
  BY DEF IInv
<1>2. /\ body[t] = "running" /\ body' = [body EXCEPT ![t] = "ended"]
      /\ outcome' = [outcome EXCEPT ![t] = IF outcome[t] = "none" THEN how ELSE outcome[t]]
      /\ UNCHANGED <<queue, active, maxConcurrent, generation, gatewayDraining,
                     nextQueueSequence, entry, status, taskGeneration, waiter>>
  BY DEF TaskBodyEnds, laneVars
<1>3. TypeOK'
  BY <1>1, <1>2 DEF TypeOK
<1>4. QueuesExact(queue', status', entry')
      /\ SlotsExact(active', status', entry', taskGeneration', generation')
  BY <1>1, <1>2 DEF CoreInv
<1>5. BodiesFollowStatus(status', body')
  BY <1>1, <1>2 DEF CoreInv, BodiesFollowStatus, TypeOK
<1>6. OutcomesFollowBodies(status', body', outcome')
  BY <1>1, <1>2 DEF CoreInv, OutcomesFollowBodies, TypeOK
<1>7. GenerationsPast(body', entry', taskGeneration', generation')
  BY <1>1, <1>2 DEF CoreInv, GenerationsPast, TypeOK
<1>8. WorkConserving' /\ PendingWaiterHasActiveTask'
  BY <1>1, <1>2 DEF WorkConserving, PendingWaiterHasActiveTask, ActiveIds
<1>life. Submitted!Next
  <2>1. \A u \in Tasks : StatusMove(status[u], status'[u])
    BY <1>1, <1>2 DEF StatusMove, TypeOK
  <2>2. \A u \in Tasks : (body'[u] = "idle") <=> (body[u] = "idle")
    BY <1>1, <1>2 DEF TypeOK
  <2>. QED
    BY <1>1, <2>1, <2>2, PlainLife DEF CoreInv
<1>cap. WithinCap
  BY <1>2 DEF WithinCap
<1>. QED
  BY <1>life, <1>cap, <1>3, <1>4, <1>5, <1>6, <1>7, <1>8 DEF IInv, CoreInv

LEMMA TimeoutIInv ==
    ASSUME IInv, NEW t \in Tasks, TaskTimeoutFires(t)
    PROVE  IInv' /\ Submitted!Next /\ WithinCap
<1>1. TypeOK /\ CoreInv /\ WorkConserving /\ PendingWaiterHasActiveTask
  BY DEF IInv
<1>2. /\ body[t] = "running" /\ outcome' = [outcome EXCEPT ![t] = "timeout"]
      /\ UNCHANGED <<queue, active, maxConcurrent, generation, gatewayDraining,
                     nextQueueSequence, entry, status, body, taskGeneration, waiter>>
  BY DEF TaskTimeoutFires, laneVars
<1>3. TypeOK'
  BY <1>1, <1>2 DEF TypeOK
<1>4. /\ QueuesExact(queue', status', entry')
      /\ SlotsExact(active', status', entry', taskGeneration', generation')
      /\ BodiesFollowStatus(status', body')
      /\ GenerationsPast(body', entry', taskGeneration', generation')
  BY <1>1, <1>2 DEF CoreInv
<1>5. OutcomesFollowBodies(status', body', outcome')
  BY <1>1, <1>2 DEF CoreInv, OutcomesFollowBodies, TypeOK
<1>6. WorkConserving' /\ PendingWaiterHasActiveTask'
  BY <1>1, <1>2 DEF WorkConserving, PendingWaiterHasActiveTask, ActiveIds
<1>life. Submitted!Next
  <2>1. \A u \in Tasks : StatusMove(status[u], status'[u])
    BY <1>1, <1>2 DEF StatusMove, TypeOK
  <2>2. \A u \in Tasks : (body'[u] = "idle") <=> (body[u] = "idle")
    BY <1>1, <1>2 DEF TypeOK
  <2>. QED
    BY <1>1, <2>1, <2>2, PlainLife DEF CoreInv
<1>cap. WithinCap
  BY <1>2 DEF WithinCap
<1>. QED
  BY <1>life, <1>cap, <1>3, <1>4, <1>5, <1>6 DEF IInv, CoreInv

\* Once the race is won, what completion answers is a settlement.
LEMMA SettlementOfOutcome ==
    ASSUME TypeOK, NEW t \in Tasks, outcome[t] # "none"
    PROVE  Settlement(outcome[t]) \in {"resolved", "rejected", "timedOut"}
BY DEF TypeOK, Settlement

LEMMA CompleteCurrentIInv ==
    ASSUME IInv, NEW t \in Tasks, CompleteTask(t), CompleteCurrentTask(t)
    PROVE  IInv' /\ Submitted!Next /\ WithinCap
<1>. DEFINE l == entry[t].lane
            released == [active EXCEPT ![l] = active[l] \ {t}]
            st == [status EXCEPT ![t] = Settlement(outcome[t])]
<1>1. TypeOK /\ CoreInv /\ WorkConserving /\ PendingWaiterHasActiveTask
  BY DEF IInv
<1>2. /\ status[t] = "started" /\ outcome[t] # "none"
      /\ taskGeneration[t] = generation[l]
      /\ entry' = entry
      /\ DrainLanes({l}, queue, released, maxConcurrent, generation, st)
      /\ waiter' = Notified(released)
      /\ UNCHANGED <<maxConcurrent, generation, gatewayDraining, nextQueueSequence, outcome>>
  BY DEF CompleteTask, CompleteCurrentTask
<1>3. l \in Lanes
  BY <1>1 DEF TypeOK, QueueEntry
<1>4. st[t] \in {"resolved", "rejected", "timedOut"} /\ st \in [Tasks -> Status]
  BY <1>1, <1>2, SettlementOfOutcome DEF TypeOK, Status
<1>5. \A u \in Tasks : u # t => st[u] = status[u]
  BY <1>1 DEF TypeOK
<1>. HIDE DEF st
<1>6. DrainArgs(queue, released, maxConcurrent, generation, st, entry')
  <2>1. QueuesExact(queue, st, entry')
    <3>. SUFFICES ASSUME NEW m \in Lanes
                  PROVE  /\ \A i \in 1..Len(queue[m]) :
                               st[queue[m][i]] = "queued" /\ entry[queue[m][i]].lane = m
                         /\ \A i, j \in 1..Len(queue[m]) : queue[m][i] = queue[m][j] => i = j
      BY <1>2 DEF QueuesExact
    <3>1. /\ \A i \in 1..Len(queue[m]) :
                status[queue[m][i]] = "queued" /\ entry[queue[m][i]].lane = m
          /\ \A i, j \in 1..Len(queue[m]) : queue[m][i] = queue[m][j] => i = j
      BY <1>1 DEF CoreInv, QueuesExact
    <3>2. \A i \in 1..Len(queue[m]) : queue[m][i] \in Tasks
      BY <1>1 DEF TypeOK
    <3>. QED
      BY <1>2, <1>5, <3>1, <3>2
  <2>2. SlotsExact(released, st, entry', taskGeneration, generation)
    <3>. SUFFICES ASSUME NEW m \in Lanes
                  PROVE  /\ IsFiniteSet(released[m])
                         /\ released[m] = {u \in Tasks : /\ st[u] = "started"
                                                         /\ entry[u].lane = m
                                                         /\ taskGeneration[u] = generation[m]}
      BY <1>2 DEF SlotsExact
    <3>1. /\ IsFiniteSet(active[m])
          /\ active[m] = {u \in Tasks : /\ status[u] = "started"
                                        /\ entry[u].lane = m
                                        /\ taskGeneration[u] = generation[m]}
      BY <1>1 DEF CoreInv, SlotsExact
    <3>2. released[m] = active[m] \ {t}
      <4>1. m # l => t \notin active[m]
        BY <3>1
      <4>. QED
        BY <1>1, <1>3, <4>1 DEF TypeOK
    <3>3. IsFiniteSet(released[m])
      <4>1. IsFiniteSet(active[m] \ {t})
        BY <3>1, FS_RemoveElement
      <4>. QED
        BY <3>2, <4>1
    <3>4. st[t] # "started"
      BY <1>4
    <3>. HIDE DEF released
    <3>. QED
      BY <1>5, <3>1, <3>2, <3>3, <3>4
  <2>3. BodiesFollowStatus(st, body)
    BY <1>1, <1>2, <1>4, <1>5 DEF CoreInv, BodiesFollowStatus
  <2>4. OutcomesFollowBodies(st, body, outcome)
    BY <1>1, <1>2, <1>4, <1>5 DEF CoreInv, OutcomesFollowBodies
  <2>5. GenerationsPast(body, entry', taskGeneration, generation)
    BY <1>1, <1>2 DEF CoreInv
  <2>6. released \in [Lanes -> SUBSET Tasks]
    BY <1>1, <1>3 DEF TypeOK
  <2>. QED
    BY <1>1, <1>2, <1>4, <2>1, <2>2, <2>3, <2>4, <2>5, <2>6 DEF DrainArgs, TypeOK
<1>7. CoreInv' /\ DrainTypes
  BY <1>1, <1>2, <1>6, DrainCoreInv
<1>8. ActiveIds(released) \subseteq ActiveIds(active')
  BY <1>2, DrainKeepsSlots
<1>9. PendingWaiterHasActiveTask' /\ waiter' \in [Waiters -> ActiveTaskWaiter]
  BY <1>1, <1>2, <1>8, WaitersNotified
<1>10. TypeOK'
  BY <1>1, <1>2, <1>7, <1>9 DEF TypeOK, DrainTypes
<1>11. WorkConserving'
  <2>. SUFFICES ASSUME NEW m \in Lanes
                PROVE  queue'[m] = <<>> \/ Cardinality(active'[m]) >= maxConcurrent'[m]
    BY DEF WorkConserving
  <2>1. m \in {l} \/ queue[m] = <<>> \/ Cardinality(released[m]) >= maxConcurrent[m]
    BY <1>1 DEF WorkConserving, TypeOK
  <2>. QED
    BY <1>2, <1>6, <2>1, DrainWorkConserving
<1>life. Submitted!Next
  <2>1. \A u \in Tasks : StatusMove(status[u], st[u])
    BY <1>1, <1>2, <1>4, <1>5 DEF StatusMove, TypeOK
  <2>. QED
    BY <1>1, <1>2, <1>6, <2>1, DrainLife DEF CoreInv
<1>cap. WithinCap
  <2>1. \A m \in Lanes : released[m] \subseteq active[m]
    BY <1>1 DEF TypeOK
  <2>. QED
    BY <1>2, <1>6, <2>1, DrainWithinCap
<1>. QED
  BY <1>life, <1>cap, <1>7, <1>9, <1>10, <1>11 DEF IInv

LEMMA CompleteStaleIInv ==
    ASSUME IInv, NEW t \in Tasks, CompleteTask(t), CompleteStaleTask(t)
    PROVE  IInv' /\ Submitted!Next /\ WithinCap
<1>1. TypeOK /\ CoreInv /\ WorkConserving /\ PendingWaiterHasActiveTask
  BY DEF IInv
<1>2. /\ status[t] = "started" /\ outcome[t] # "none"
      /\ taskGeneration[t] # generation[entry[t].lane]
      /\ status' = [status EXCEPT ![t] = Settlement(outcome[t])]
      /\ UNCHANGED <<queue, active, maxConcurrent, generation, gatewayDraining,
                     nextQueueSequence, entry, outcome, body, taskGeneration, waiter>>
  BY DEF CompleteTask, CompleteStaleTask
<1>3. /\ status'[t] \in {"resolved", "rejected", "timedOut"}
      /\ status' \in [Tasks -> Status]
      /\ \A u \in Tasks : u # t => status'[u] = status[u]
  BY <1>1, <1>2, SettlementOfOutcome DEF TypeOK, Status
<1>4. TypeOK'
  BY <1>1, <1>2, <1>3 DEF TypeOK
<1>5. QueuesExact(queue', status', entry')
  BY <1>1, <1>2, <1>3 DEF CoreInv, QueuesExact, TypeOK
<1>6. SlotsExact(active', status', entry', taskGeneration', generation')
  BY <1>1, <1>2, <1>3 DEF CoreInv, SlotsExact
<1>7. BodiesFollowStatus(status', body')
  BY <1>1, <1>2, <1>3 DEF CoreInv, BodiesFollowStatus
<1>8. OutcomesFollowBodies(status', body', outcome')
  BY <1>1, <1>2, <1>3 DEF CoreInv, OutcomesFollowBodies
<1>9. GenerationsPast(body', entry', taskGeneration', generation')
  BY <1>1, <1>2 DEF CoreInv
<1>10. WorkConserving' /\ PendingWaiterHasActiveTask'
  BY <1>1, <1>2 DEF WorkConserving, PendingWaiterHasActiveTask, ActiveIds
<1>life. Submitted!Next
  <2>1. \A u \in Tasks : StatusMove(status[u], status'[u])
    BY <1>1, <1>2, <1>3 DEF StatusMove, TypeOK
  <2>2. \A u \in Tasks : (body'[u] = "idle") <=> (body[u] = "idle")
    BY <1>1, <1>2 DEF TypeOK
  <2>. QED
    BY <1>1, <2>1, <2>2, PlainLife DEF CoreInv
<1>cap. WithinCap
  BY <1>2 DEF WithinCap
<1>. QED
  BY <1>life, <1>cap, <1>4, <1>5, <1>6, <1>7, <1>8, <1>9, <1>10 DEF IInv, CoreInv

LEMMA SetConcurrencyIInv ==
    ASSUME IInv, NEW l \in Lanes, NEW n \in CapRequests, SetCommandLaneConcurrency(l, n)
    PROVE  IInv' /\ Submitted!Next /\ WithinCap
<1>. DEFINE ls == IF LaneCap(l, n) > 0 THEN {l} ELSE {}
<1>1. TypeOK /\ CoreInv /\ WorkConserving /\ PendingWaiterHasActiveTask
  BY DEF IInv
<1>2. /\ maxConcurrent' = [maxConcurrent EXCEPT ![l] = LaneCap(l, n)]
      /\ entry' = entry
      /\ DrainLanes(ls, queue, active, maxConcurrent', generation, status)
      /\ UNCHANGED <<generation, gatewayDraining, nextQueueSequence, outcome, waiter>>
  BY DEF SetCommandLaneConcurrency
<1>3. LaneCap(l, n) \in Nat
  BY CommandQueueAssumption DEF LaneCap
<1>4. maxConcurrent' \in [Lanes -> Nat]
  BY <1>1, <1>2, <1>3 DEF TypeOK
<1>5. DrainArgs(queue, active, maxConcurrent', generation, status, entry')
  BY <1>1, <1>2, <1>4 DEF DrainArgs, CoreInv, TypeOK
<1>6. CoreInv' /\ DrainTypes
  BY <1>1, <1>2, <1>5, DrainCoreInv
<1>7. TypeOK'
  BY <1>1, <1>2, <1>4, <1>6 DEF TypeOK, DrainTypes
<1>8. WorkConserving'
  <2>. SUFFICES ASSUME NEW m \in Lanes
                PROVE  queue'[m] = <<>> \/ Cardinality(active'[m]) >= maxConcurrent'[m]
    BY DEF WorkConserving
  <2>1. IsFiniteSet(active[m]) /\ Cardinality(active[m]) \in Nat
    BY <1>1, FS_CardinalityType DEF CoreInv, SlotsExact
  <2>2. m \in ls \/ queue[m] = <<>> \/ Cardinality(active[m]) >= maxConcurrent'[m]
    <3>1. CASE m # l
      BY <1>1, <1>2, <3>1 DEF WorkConserving, TypeOK
    <3>2. CASE m = l /\ LaneCap(l, n) > 0
      BY <3>2
    <3>3. CASE m = l /\ ~ (LaneCap(l, n) > 0)
      <4>1. maxConcurrent'[m] = 0
        BY <1>1, <1>2, <1>3, <3>3 DEF TypeOK
      <4>. QED
        BY <2>1, <4>1
    <3>. QED
      BY <3>1, <3>2, <3>3
  <2>. HIDE DEF ls
  <2>3. DrainLanes(ls, queue, active, maxConcurrent', generation, status)
    BY <1>2
  <2>. QED
    BY <1>5, <2>2, <2>3, DrainWorkConserving
<1>9. PendingWaiterHasActiveTask'
  BY <1>1, <1>2, DrainKeepsSlots, WaitersKept
<1>life. Submitted!Next
  <2>1. \A u \in Tasks : StatusMove(status[u], status[u])
    BY <1>1, <1>2 DEF StatusMove, TypeOK
  <2>. QED
    BY <1>1, <1>2, <1>5, <2>1, DrainLife DEF CoreInv
<1>cap. WithinCap
  <2>. HIDE DEF ls
  <2>1. DrainLanes(ls, queue, active, maxConcurrent', generation, status)
    BY <1>2
  <2>. QED
    BY <1>5, <2>1, DrainWithinCap
<1>. QED
  BY <1>life, <1>cap, <1>6, <1>7, <1>8, <1>9 DEF IInv

LEMMA ClearIInv ==
    ASSUME IInv, NEW l \in Lanes, ClearCommandLane(l)
    PROVE  IInv' /\ Submitted!Next /\ WithinCap
<1>. DEFINE pending == Prefix(queue[l], Len(queue[l]))
<1>1. TypeOK /\ CoreInv /\ WorkConserving /\ PendingWaiterHasActiveTask
  BY DEF IInv
<1>2. /\ queue' = [queue EXCEPT ![l] = <<>>]
      /\ status' = [u \in Tasks |-> IF u \in pending THEN "cleared" ELSE status[u]]
      /\ UNCHANGED <<active, maxConcurrent, generation, gatewayDraining, nextQueueSequence,
                     entry, outcome, body, taskGeneration, waiter>>
  BY DEF ClearCommandLane
<1>3. \A u \in pending : status[u] = "queued" /\ entry[u].lane = l
  BY <1>1 DEF CoreInv, QueuesExact, Prefix
<1>. HIDE DEF pending
<1>4. TypeOK'
  <2>1. queue' \in [Lanes -> Seq(Tasks)]
    BY <1>1, <1>2 DEF TypeOK
  <2>2. status' \in [Tasks -> Status]
    BY <1>1, <1>2 DEF TypeOK, Status
  <2>. QED
    BY <1>1, <1>2, <2>1, <2>2 DEF TypeOK
<1>5. QueuesExact(queue', status', entry')
  <2>. SUFFICES ASSUME NEW m \in Lanes
                PROVE  /\ \A i \in 1..Len(queue'[m]) :
                             status'[queue'[m][i]] = "queued" /\ entry'[queue'[m][i]].lane = m
                       /\ \A i, j \in 1..Len(queue'[m]) : queue'[m][i] = queue'[m][j] => i = j
    BY DEF QueuesExact
  <2>1. CASE m = l
    <3>1. queue'[m] = <<>> /\ Len(queue'[m]) = 0
      BY <1>1, <1>2, <2>1 DEF TypeOK
    <3>. QED
      BY <3>1
  <2>2. CASE m # l
    <3>1. queue'[m] = queue[m] /\ entry' = entry
      BY <1>1, <1>2, <2>2 DEF TypeOK
    <3>2. /\ \A i \in 1..Len(queue[m]) : /\ queue[m][i] \in Tasks
                                          /\ status[queue[m][i]] = "queued"
                                          /\ entry[queue[m][i]].lane = m
          /\ \A i, j \in 1..Len(queue[m]) : queue[m][i] = queue[m][j] => i = j
      BY <1>1 DEF CoreInv, QueuesExact, TypeOK
    <3>. QED
      BY <1>2, <1>3, <2>2, <3>1, <3>2
  <2>. QED
    BY <2>1, <2>2
<1>6. SlotsExact(active', status', entry', taskGeneration', generation')
  <2>1. \A u \in Tasks : status'[u] = "started" <=> status[u] = "started"
    BY <1>2, <1>3
  <2>. QED
    BY <1>1, <1>2, <2>1 DEF CoreInv, SlotsExact
<1>7. BodiesFollowStatus(status', body')
  BY <1>1, <1>2, <1>3 DEF CoreInv, BodiesFollowStatus
<1>8. OutcomesFollowBodies(status', body', outcome')
  BY <1>1, <1>2 DEF CoreInv, OutcomesFollowBodies
<1>9. GenerationsPast(body', entry', taskGeneration', generation')
  BY <1>1, <1>2 DEF CoreInv
<1>10. WorkConserving'
  BY <1>1, <1>2 DEF WorkConserving, TypeOK
<1>11. PendingWaiterHasActiveTask'
  BY <1>1, <1>2 DEF PendingWaiterHasActiveTask, ActiveIds
<1>life. Submitted!Next
  <2>1. \A u \in Tasks : StatusMove(status[u], status'[u])
    BY <1>1, <1>2, <1>3 DEF StatusMove, TypeOK
  <2>2. \A u \in Tasks : (body'[u] = "idle") <=> (body[u] = "idle")
    BY <1>1, <1>2 DEF TypeOK
  <2>. QED
    BY <1>1, <2>1, <2>2, PlainLife DEF CoreInv
<1>cap. WithinCap
  BY <1>2 DEF WithinCap
<1>. QED
  BY <1>life, <1>cap, <1>4, <1>5, <1>6, <1>7, <1>8, <1>9, <1>10, <1>11 DEF IInv, CoreInv

LEMMA ResetIInv ==
    ASSUME IInv, NEW ls \in SUBSET Lanes, ResetLanes(ls), gatewayDraining' \in BOOLEAN
    PROVE  IInv' /\ Submitted!Next /\ WithinCap
<1>. DEFINE idle == [l \in Lanes |-> IF l \in ls THEN {} ELSE active[l]]
            drained == {l \in ls : queue[l] # <<>>}
<1>1. TypeOK /\ CoreInv /\ WorkConserving /\ PendingWaiterHasActiveTask
  BY DEF IInv
<1>2. /\ generation' = [l \in Lanes |-> IF l \in ls THEN generation[l] + 1 ELSE generation[l]]
      /\ entry' = entry
      /\ DrainLanes(drained, queue, idle, maxConcurrent, generation', status)
      /\ waiter' = Notified(active')
      /\ UNCHANGED <<maxConcurrent, nextQueueSequence, outcome>>
  BY DEF ResetLanes
<1>3. generation' \in [Lanes -> Nat]
  BY <1>1, <1>2 DEF TypeOK
<1>4. DrainArgs(queue, idle, maxConcurrent, generation', status, entry')
  <2>1. idle \in [Lanes -> SUBSET Tasks]
    BY <1>1 DEF TypeOK
  <2>2. QueuesExact(queue, status, entry')
    BY <1>1, <1>2 DEF CoreInv
  <2>3. GenerationsPast(body, entry', taskGeneration, generation')
    <3>. SUFFICES ASSUME NEW t \in Tasks, body[t] # "idle"
                  PROVE  taskGeneration[t] <= generation'[entry[t].lane]
      BY <1>2 DEF GenerationsPast
    <3>1. entry[t].lane \in Lanes /\ generation[entry[t].lane] \in Nat /\ taskGeneration[t] \in Nat
      BY <1>1 DEF TypeOK, QueueEntry
    <3>2. taskGeneration[t] <= generation[entry[t].lane]
      BY <1>1 DEF CoreInv, GenerationsPast
    <3>. QED
      BY <1>2, <3>1, <3>2
  <2>4. SlotsExact(idle, status, entry', taskGeneration, generation')
    <3>. SUFFICES ASSUME NEW m \in Lanes
                  PROVE  /\ IsFiniteSet(idle[m])
                         /\ idle[m] = {t \in Tasks : /\ status[t] = "started"
                                                     /\ entry[t].lane = m
                                                     /\ taskGeneration[t] = generation'[m]}
      BY <1>2 DEF SlotsExact
    <3>1. /\ IsFiniteSet(active[m])
          /\ active[m] = {t \in Tasks : /\ status[t] = "started"
                                        /\ entry[t].lane = m
                                        /\ taskGeneration[t] = generation[m]}
      BY <1>1 DEF CoreInv, SlotsExact
    <3>2. CASE m \notin ls
      BY <1>2, <3>1, <3>2
    <3>3. CASE m \in ls
      <4>1. idle[m] = {} /\ generation'[m] = generation[m] + 1 /\ generation[m] \in Nat
        BY <1>1, <1>2, <3>3 DEF TypeOK
      <4>2. ASSUME NEW t \in Tasks, status[t] = "started", entry[t].lane = m
            PROVE  taskGeneration[t] # generation'[m]
        <5>1. body[t] # "idle"
          BY <1>1, <4>2 DEF CoreInv, BodiesFollowStatus
        <5>2. taskGeneration[t] <= generation[m] /\ taskGeneration[t] \in Nat
          BY <1>1, <4>2, <5>1 DEF CoreInv, GenerationsPast, TypeOK
        <5>. QED
          BY <4>1, <5>2
      <4>. QED
        BY <4>1, <4>2, FS_EmptySet
    <3>. QED
      BY <3>2, <3>3
  <2>. QED
    BY <1>1, <1>2, <1>3, <2>1, <2>2, <2>3, <2>4 DEF DrainArgs, CoreInv, TypeOK
<1>5. CoreInv' /\ DrainTypes
  BY <1>1, <1>2, <1>4, DrainCoreInv
<1>6. PendingWaiterHasActiveTask' /\ waiter' \in [Waiters -> ActiveTaskWaiter]
  BY <1>1, <1>2, WaitersNotified
<1>7. TypeOK'
  BY <1>1, <1>2, <1>3, <1>5, <1>6 DEF TypeOK, DrainTypes
<1>8. WorkConserving'
  <2>. SUFFICES ASSUME NEW m \in Lanes
                PROVE  queue'[m] = <<>> \/ Cardinality(active'[m]) >= maxConcurrent'[m]
    BY DEF WorkConserving
  <2>1. m \in drained \/ queue[m] = <<>> \/ Cardinality(idle[m]) >= maxConcurrent[m]
    BY <1>1 DEF WorkConserving
  <2>. QED
    BY <1>2, <1>4, <2>1, DrainWorkConserving
<1>life. Submitted!Next
  <2>1. \A u \in Tasks : StatusMove(status[u], status[u])
    BY <1>1, <1>2 DEF StatusMove, TypeOK
  <2>. QED
    BY <1>1, <1>2, <1>4, <2>1, DrainLife DEF CoreInv
<1>cap. WithinCap
  <2>1. \A m \in Lanes : idle[m] \subseteq active[m]
    OBVIOUS
  <2>. QED
    BY <1>2, <1>4, <2>1, DrainWithinCap
<1>. QED
  BY <1>life, <1>cap, <1>5, <1>6, <1>7, <1>8 DEF IInv

\* The steps that touch neither lanes nor tasks.
LEMMA LanesUntouched ==
    ASSUME IInv, UNCHANGED <<queue, active, maxConcurrent, generation, nextQueueSequence,
                             entry, status, outcome, body, taskGeneration>>,
           gatewayDraining' \in BOOLEAN,
           waiter' \in [Waiters -> ActiveTaskWaiter],
           PendingWaiterHasActiveTask'
    PROVE  IInv' /\ Submitted!Next /\ WithinCap
<1>1. TypeOK /\ CoreInv /\ WorkConserving
  BY DEF IInv
<1>2. TypeOK'
  BY <1>1 DEF TypeOK
<1>3. CoreInv'
  BY <1>1 DEF CoreInv
<1>4. WorkConserving'
  BY <1>1 DEF WorkConserving
<1>life. Submitted!Next
  <2>1. \A u \in Tasks : StatusMove(status[u], status'[u]) /\ body'[u] = body[u]
    BY DEF StatusMove
  <2>. QED
    BY <1>1, <2>1, PlainLife DEF CoreInv
<1>cap. WithinCap
  BY DEF WithinCap
<1>. QED
  BY <1>life, <1>cap, <1>2, <1>3, <1>4 DEF IInv

LEMMA WaiterStepIInv ==
    ASSUME IInv, NEW w \in Waiters, WaiterStep(w)
    PROVE  IInv' /\ Submitted!Next /\ WithinCap
<1>1. TypeOK /\ PendingWaiterHasActiveTask
  BY DEF IInv
<1>2. ActiveIds(active) \in SUBSET Tasks
  BY <1>1 DEF TypeOK, ActiveIds
<1>3. ASSUME NEW limit \in {"none", "zero", "positive"}, WaitForActiveTasks(w, limit)
      PROVE  IInv' /\ Submitted!Next /\ WithinCap
  <2>. DEFINE ids == ActiveIds(active)
              a == IF ids = {} THEN "drained" ELSE IF limit = "zero" THEN "expired" ELSE "pending"
  <2>1. /\ waiter' = [waiter EXCEPT ![w] =
                         [answer |-> a, ids |-> ids, timed |-> limit = "positive"]]
        /\ UNCHANGED <<queue, active, maxConcurrent, generation, gatewayDraining,
                       nextQueueSequence, entry, status, outcome, body, taskGeneration>>
    BY <1>3 DEF WaitForActiveTasks, laneVars, taskVars
  <2>2. [answer |-> a, ids |-> ids, timed |-> limit = "positive"] \in ActiveTaskWaiter
    BY <1>2 DEF ActiveTaskWaiter
  <2>3. waiter' \in [Waiters -> ActiveTaskWaiter]
    BY <1>1, <2>1, <2>2 DEF TypeOK
  <2>4. PendingWaiterHasActiveTask'
    <3>. SUFFICES ASSUME NEW v \in Waiters, waiter'[v].answer = "pending"
                  PROVE  waiter'[v].ids \cap ActiveIds(active) # {}
      BY <2>1 DEF PendingWaiterHasActiveTask, ActiveIds
    <3>1. CASE v # w
      BY <1>1, <2>1, <3>1 DEF PendingWaiterHasActiveTask, TypeOK
    <3>2. CASE v = w
      <4>1. waiter'[v].answer = a /\ waiter'[v].ids = ids
        BY <1>1, <2>1, <3>2 DEF TypeOK
      <4>. QED
        BY <4>1
    <3>. QED
      BY <3>1, <3>2
  <2>. QED
    BY <1>1, <2>1, <2>3, <2>4, LanesUntouched DEF TypeOK
<1>4. ASSUME WaiterTimesOut(w)
      PROVE  IInv' /\ Submitted!Next /\ WithinCap
  <2>1. /\ waiter' = [waiter EXCEPT ![w].answer = "expired"]
        /\ UNCHANGED <<queue, active, maxConcurrent, generation, gatewayDraining,
                       nextQueueSequence, entry, status, outcome, body, taskGeneration>>
    BY <1>4 DEF WaiterTimesOut, laneVars, taskVars
  <2>2. waiter' \in [Waiters -> ActiveTaskWaiter]
    BY <1>1, <2>1 DEF TypeOK, ActiveTaskWaiter
  <2>3. PendingWaiterHasActiveTask'
    BY <1>1, <2>1 DEF PendingWaiterHasActiveTask, TypeOK, ActiveTaskWaiter, ActiveIds
  <2>. QED
    BY <1>1, <2>1, <2>2, <2>3, LanesUntouched DEF TypeOK
<1>. QED
  BY <1>3, <1>4 DEF WaiterStep

LEMMA NextIInv == IInv /\ [Next]_vars => IInv' /\ Submitted!Next /\ WithinCap
<1>. SUFFICES ASSUME IInv, [Next]_vars PROVE IInv' /\ Submitted!Next /\ WithinCap
  OBVIOUS
<1>1. TypeOK /\ PendingWaiterHasActiveTask
  BY DEF IInv
<1>2. ASSUME NEW t \in Tasks, TaskStep(t) PROVE IInv' /\ Submitted!Next /\ WithinCap
  <2>1. ASSUME CompleteTask(t) PROVE IInv' /\ Submitted!Next /\ WithinCap
    BY <2>1, CompleteCurrentIInv, CompleteStaleIInv DEF CompleteTask
  <2>. QED
    BY <1>2, <2>1, EnqueueIInv, RefuseIInv, BodyEndsIInv, TimeoutIInv DEF TaskStep
<1>3. ASSUME NEW l \in Lanes, LaneStep(l) PROVE IInv' /\ Submitted!Next /\ WithinCap
  <2>1. ASSUME ResetCommandLane(l) PROVE IInv' /\ Submitted!Next /\ WithinCap
    <3>1. ResetLanes({l}) /\ gatewayDraining' \in BOOLEAN
      BY <1>1, <2>1 DEF ResetCommandLane, TypeOK
    <3>. QED
      BY <3>1, ResetIInv
  <2>. QED
    BY <1>3, <2>1, SetConcurrencyIInv, ClearIInv DEF LaneStep
<1>4. ASSUME ResetAllLanes PROVE IInv' /\ Submitted!Next /\ WithinCap
  BY <1>4, ResetIInv DEF ResetAllLanes
<1>5. ASSUME MarkGatewayDraining PROVE IInv' /\ Submitted!Next /\ WithinCap
  <2>1. PendingWaiterHasActiveTask'
    BY <1>1, <1>5 DEF MarkGatewayDraining, laneVars, taskVars, PendingWaiterHasActiveTask, ActiveIds
  <2>. QED
    BY <1>1, <1>5, <2>1, LanesUntouched DEF MarkGatewayDraining, laneVars, taskVars, TypeOK
<1>6. ASSUME NEW w \in Waiters, WaiterStep(w) PROVE IInv' /\ Submitted!Next /\ WithinCap
  BY <1>6, WaiterStepIInv
<1>7. ASSUME UNCHANGED vars PROVE IInv' /\ Submitted!Next /\ WithinCap
  <2>1. PendingWaiterHasActiveTask'
    BY <1>1, <1>7 DEF vars, PendingWaiterHasActiveTask, ActiveIds
  <2>. QED
    BY <1>1, <1>7, <2>1, LanesUntouched DEF vars, TypeOK
<1>. QED
  BY <1>2, <1>3, <1>4, <1>5, <1>6, <1>7 DEF Next

LEMMA SpecIInv == Spec => []IInv
<1>1. IInv /\ [Next]_vars => IInv'
  BY NextIInv
<1>. QED
  BY InitIInv, <1>1, PTL DEF Spec

-----------------------------------------------------------------------------
(***************************************************************************)
(* The theorems.                                                           *)
(***************************************************************************)

\* Every variable keeps its type, for any lanes, tasks, waiters and caps.
THEOREM TypeCorrect == Spec => []TypeOK
<1>1. IInv => TypeOK
  BY DEF IInv
<1>. QED
  BY SpecIInv, <1>1, PTL

\* No lane ever leaves a queued entry behind a free slot: completion, reset,
\* reconfiguration and enqueue all pump as much as the cap allows.
THEOREM AlwaysWorkConserving == Spec => []WorkConserving
<1>1. IInv => WorkConserving
  BY DEF IInv
<1>. QED
  BY SpecIInv, <1>1, PTL

\* The occupied slots of a lane are its started and unsettled tasks of the
\* current generation, however resets, timeouts and completions interleave.
THEOREM AlwaysSlotsMatchRuns == Spec => []SlotsMatchRuns
<1>1. IInv => SlotsMatchRuns
  BY DEF IInv, CoreInv, SlotsExact, SlotsMatchRuns
<1>. QED
  BY SpecIInv, <1>1, PTL

\* A call of waitForActiveTasks never waits for slots that are all free.
THEOREM AlwaysPendingWaiterHasActiveTask == Spec => []PendingWaiterHasActiveTask
<1>1. IInv => PendingWaiterHasActiveTask
  BY DEF IInv
<1>. QED
  BY SpecIInv, <1>1, PTL

\* Whatever is cleared, reset, timed out, reconfigured or restarted, the queue
\* keeps its promise to each caller: every step is a step of SubmittedCommand.
THEOREM RefinesSubmittedCommand == Spec => ImplementsSubmittedCommand
<1>1. Init => Submitted!Init
  BY DEF Init, Submitted!Init, phase, ran
<1>2. IInv /\ [Next]_vars => [Submitted!Next]_(Submitted!vars)
  BY NextIInv
<1>. QED
  BY SpecIInv, <1>1, <1>2, PTL DEF Spec, ImplementsSubmittedCommand, Submitted!Spec

\* A call that starts tasks leaves the lane within its cap.
THEOREM AlwaysStartsWithinCap == Spec => StartsWithinCap
<1>1. IInv /\ [Next]_vars => [WithinCap]_vars
  BY NextIInv
<1>2. [WithinCap]_vars =>
         [\A l \in Lanes : \/ active'[l] \subseteq active[l]
                           \/ Cardinality(active'[l]) <= maxConcurrent'[l]]_vars
  BY DEF WithinCap
<1>. QED
  BY SpecIInv, <1>1, <1>2, PTL DEF Spec, StartsWithinCap

\* No reset of a lane, and no in-process restart, rejects a queued entry.
THEOREM AlwaysResetKeepsQueuedWork == Spec => ResetKeepsQueuedWork
<1>. DEFINE Kept == generation' # generation =>
                       \A t \in Tasks : status[t] = "queued" => status'[t] \in {"queued", "started"}
<1>1. ASSUME NEW ls \in SUBSET Lanes, ResetLanes(ls) PROVE Kept
  BY <1>1 DEF ResetLanes, DrainLanes
<1>2. [Next]_vars => [Kept]_vars
  <2>. SUFFICES ASSUME Next PROVE Kept
    OBVIOUS
  <2>1. ASSUME NEW t \in Tasks, TaskStep(t) PROVE generation' = generation
    BY <2>1 DEF TaskStep, EnqueueCommandInLane, RefuseWhileDraining, TaskBodyEnds,
                TaskTimeoutFires, CompleteTask, laneVars
  <2>2. ASSUME NEW l \in Lanes, LaneStep(l) PROVE generation' = generation \/ ResetLanes({l})
    BY <2>2 DEF LaneStep, SetCommandLaneConcurrency, ClearCommandLane, ResetCommandLane
  <2>3. ASSUME NEW w \in Waiters, WaiterStep(w) PROVE generation' = generation
    BY <2>3 DEF WaiterStep, WaitForActiveTasks, WaiterTimesOut, laneVars
  <2>4. ASSUME MarkGatewayDraining PROVE generation' = generation
    BY <2>4 DEF MarkGatewayDraining, laneVars
  <2>5. ASSUME ResetAllLanes PROVE ResetLanes(Lanes)
    BY <2>5 DEF ResetAllLanes
  <2>. HIDE DEF Kept
  <2>6. generation' = generation => Kept
    BY DEF Kept
  <2>. QED
    BY <1>1, <2>1, <2>2, <2>3, <2>4, <2>5, <2>6 DEF Next
<1>. QED
  BY <1>2, PTL DEF Spec, ResetKeepsQueuedWork

-----------------------------------------------------------------------------
(* Order: every lane starts its entries by priority and submission.  The     *)
(* queues are sorted and hold every queued task, and a drain takes from      *)
(* their heads.                                                              *)


\* A queue holds its entries by priority, and by submission within a priority.
InOrder(q, e) ==
    \A l \in Lanes : \A i, j \in 1..Len(q[l]) : i < j => Precedes(e[q[l][i]], e[q[l][j]])

\* Every queued task is in the queue of its lane.
Listed(q, st, e) ==
    \A t \in Tasks : st[t] = "queued" => \E i \in 1..Len(q[e[t].lane]) : q[e[t].lane][i] = t

\* The next entry is submitted later than all before it.
SequencesPast(e, next) == \A t \in Tasks : e[t].sequence < next

Ordered ==
    /\ InOrder(queue, entry)
    /\ Listed(queue, status, entry)
    /\ SequencesPast(entry, nextQueueSequence)

\* The step part of StartsInOrder.
StartsOrdered ==
    \A t, u \in Tasks :
        /\ status[t] # "started" /\ status'[t] = "started"
        /\ status'[u] = "queued"
        /\ entry'[u].lane = entry'[t].lane
        => Precedes(entry'[t], entry'[u])

LEMMA IntegerEntry == \A d \in QueueEntry : d.priority \in Int /\ d.sequence \in Int
<1>. SUFFICES ASSUME NEW d \in QueueEntry
              PROVE  d.priority \in Int /\ d.sequence \in Int
  OBVIOUS
<1>1. d.priority \in Priorities /\ d.sequence \in Nat
  BY DEF QueueEntry
<1>2. Priorities \subseteq Int
  BY CommandQueueAssumption
<1>3. d.priority \in Int
  BY <1>1, <1>2, Zenon
<1>4. d.sequence \in Int
  BY <1>1
<1>. QED
  BY <1>3, <1>4

LEMMA PrecedesTransitive ==
    ASSUME NEW e \in QueueEntry, NEW f \in QueueEntry, NEW g \in QueueEntry,
           Precedes(e, f), Precedes(f, g)
    PROVE  Precedes(e, g)
<1>1. \A d \in QueueEntry : d.priority \in Int /\ d.sequence \in Int
  BY IntegerEntry
<1>. QED
  BY <1>1 DEF Precedes

\* The entry that does not overtake an earlier one comes after it.
LEMMA NewestFollows ==
    ASSUME NEW e \in QueueEntry, NEW f \in QueueEntry, f.sequence < e.sequence, ~Precedes(e, f)
    PROVE  Precedes(f, e)
<1>1. \A d \in QueueEntry : d.priority \in Int /\ d.sequence \in Int
  BY IntegerEntry
<1>. QED
  BY <1>1 DEF Precedes

-----------------------------------------------------------------------------
\* What a drain needs to keep the order.
OrderArgs(q, held, cap, st, e) ==
    /\ q \in [Lanes -> Seq(Tasks)]
    /\ \A l \in Lanes : IsFiniteSet(held[l])
    /\ cap \in [Lanes -> Nat]
    /\ st \in [Tasks -> Status]
    /\ e \in [Tasks -> QueueEntry]
    /\ QueuesExact(q, st, e)
    /\ InOrder(q, e)
    /\ Listed(q, st, e)

\* A drain takes a prefix of each queue.
LEMMA DrainTakesPrefix ==
    ASSUME NEW ACTION ls, NEW ACTION q, NEW ACTION held, NEW ACTION cap, NEW ACTION gen,
           NEW ACTION st,
           OrderArgs(q, held, cap, st, entry'),
           DrainLanes(ls, q, held, cap, gen, st),
           NEW l \in Lanes
    PROVE  \E k \in 0..Len(q[l]) :
              /\ k = StartCounts(ls, q, held, cap)[l]
              /\ q[l] \in Seq(Tasks) /\ Len(q[l]) \in Nat
              /\ Len(queue'[l]) = Len(q[l]) - k
              /\ \A i \in 1..(Len(q[l]) - k) : queue'[l][i] = q[l][k + i]
<1>. DEFINE n == StartCounts(ls, q, held, cap)[l]
<1>1. q[l] \in Seq(Tasks) /\ Len(q[l]) \in Nat /\ cap[l] \in Nat /\ IsFiniteSet(held[l])
  BY DEF OrderArgs
<1>2. n \in 0..Len(q[l])
  BY <1>1, StartCountRange DEF StartCounts
<1>3. queue'[l] = SubSeq(q[l], n + 1, Len(q[l]))
  BY DEF DrainLanes
<1>. HIDE DEF n
<1>4. n + 1 \in Int /\ Len(q[l]) \in Int /\ \A i \in (n + 1)..Len(q[l]) : q[l][i] \in Tasks
  BY <1>1, <1>2
<1>5. /\ Len(SubSeq(q[l], n + 1, Len(q[l])))
            = IF n + 1 <= Len(q[l]) THEN Len(q[l]) - (n + 1) + 1 ELSE 0
      /\ \A i \in 1..(Len(q[l]) - (n + 1) + 1) :
            SubSeq(q[l], n + 1, Len(q[l]))[i] = q[l][n + 1 + i - 1]
  BY <1>4, SubSeqProperties
<1>6. Len(queue'[l]) = Len(q[l]) - n /\ \A i \in 1..(Len(q[l]) - n) : queue'[l][i] = q[l][n + i]
  BY <1>1, <1>2, <1>3, <1>5
<1>. QED
  BY <1>1, <1>2, <1>6 DEF n

LEMMA DrainOrdered ==
    ASSUME NEW ACTION ls, NEW ACTION q, NEW ACTION held, NEW ACTION cap, NEW ACTION gen,
           NEW ACTION st,
           OrderArgs(q, held, cap, st, entry'),
           DrainLanes(ls, q, held, cap, gen, st),
           \A t \in Tasks : st[t] = "started" => status[t] = "started"
    PROVE  InOrder(queue', entry') /\ Listed(queue', status', entry') /\ StartsOrdered
<1>. DEFINE started == StartedBy(q, StartCounts(ls, q, held, cap))
<1>1. status' = [t \in Tasks |-> IF t \in started THEN "started" ELSE st[t]]
  BY DEF DrainLanes
<1>2. \A t \in Tasks : entry'[t].lane \in Lanes
  BY DEF OrderArgs, QueueEntry
<1>3. InOrder(queue', entry')
  <2>. SUFFICES ASSUME NEW l \in Lanes, NEW i \in 1..Len(queue'[l]), NEW j \in 1..Len(queue'[l]), i < j
                PROVE  Precedes(entry'[queue'[l][i]], entry'[queue'[l][j]])
    BY DEF InOrder
  <2>1. PICK k \in 0..Len(q[l]) :
              /\ q[l] \in Seq(Tasks) /\ Len(q[l]) \in Nat
              /\ Len(queue'[l]) = Len(q[l]) - k
              /\ \A h \in 1..(Len(q[l]) - k) : queue'[l][h] = q[l][k + h]
    BY DrainTakesPrefix
  <2>2. k + i \in 1..Len(q[l]) /\ k + j \in 1..Len(q[l]) /\ k + i < k + j
    BY <2>1
  <2>3. Precedes(entry'[q[l][k + i]], entry'[q[l][k + j]])
    BY <2>2 DEF OrderArgs, InOrder
  <2>4. queue'[l][i] = q[l][k + i] /\ queue'[l][j] = q[l][k + j]
    BY <2>1
  <2>. QED
    BY <2>3, <2>4
\* A task that is still queued stands behind the prefix that was taken.
<1>4. ASSUME NEW u \in Tasks, status'[u] = "queued"
      PROVE  \E k \in 0..Len(q[entry'[u].lane]), i \in 1..Len(queue'[entry'[u].lane]) :
                /\ k = StartCounts(ls, q, held, cap)[entry'[u].lane]
                /\ k + i \in 1..Len(q[entry'[u].lane])
                /\ q[entry'[u].lane][k + i] = u
                /\ queue'[entry'[u].lane][i] = u
  <2>0. PICK l \in Lanes : l = entry'[u].lane
    BY <1>2
  <2>1. u \notin started /\ st[u] = "queued"
    BY <1>1, <1>2, <1>4
  <2>2. PICK h \in 1..Len(q[l]) : q[l][h] = u
    <3>1. \A t \in Tasks : st[t] = "queued" =>
             \E i \in 1..Len(q[entry'[t].lane]) : q[entry'[t].lane][i] = t
      BY DEF OrderArgs, Listed
    <3>. QED
      BY <2>0, <2>1, <3>1
  <2>3. PICK k \in 0..Len(q[l]) :
              /\ k = StartCounts(ls, q, held, cap)[l]
              /\ q[l] \in Seq(Tasks) /\ Len(q[l]) \in Nat
              /\ Len(queue'[l]) = Len(q[l]) - k
              /\ \A i \in 1..(Len(q[l]) - k) : queue'[l][i] = q[l][k + i]
    BY DrainTakesPrefix
  <2>4. h > k
    <3>. SUFFICES ASSUME h <= k PROVE FALSE
      BY <2>2, <2>3
    <3>1. h \in 1..k
      BY <2>2, <2>3
    <3>2. u \in Prefix(q[l], k)
      BY <2>2, <3>1 DEF Prefix
    <3>. QED
      BY <2>1, <2>3, <3>2 DEF StartedBy
  <2>5. h - k \in 1..(Len(q[l]) - k) /\ k + (h - k) = h
    BY <2>2, <2>3, <2>4
  <2>6. h - k \in 1..Len(queue'[l]) /\ queue'[l][h - k] = q[l][h]
    BY <2>3, <2>5
  <2>7. \E m \in 0..Len(q[l]), i \in 1..Len(queue'[l]) :
           /\ m = StartCounts(ls, q, held, cap)[l]
           /\ m + i \in 1..Len(q[l]) /\ q[l][m + i] = u /\ queue'[l][i] = u
    <3>1. k + (h - k) \in 1..Len(q[l]) /\ q[l][k + (h - k)] = u /\ queue'[l][h - k] = u
      BY <2>2, <2>5, <2>6
    <3>. QED
      BY <2>3, <2>6, <3>1
  <2>. QED
    BY <2>0, <2>7, Zenon
<1>5. Listed(queue', status', entry')
  BY <1>4 DEF Listed
<1>6. StartsOrdered
  <2>. SUFFICES ASSUME NEW t \in Tasks, NEW u \in Tasks,
                       status[t] # "started", status'[t] = "started", status'[u] = "queued",
                       entry'[u].lane = entry'[t].lane
                PROVE  Precedes(entry'[t], entry'[u])
    BY DEF StartsOrdered
  <2>1. t \in started
    BY <1>1
  <2>2. PICK l \in Lanes : t \in Prefix(q[l], StartCounts(ls, q, held, cap)[l])
    BY <2>1 DEF StartedBy
  <2>. HIDE DEF started
  <2>3. PICK k \in 0..Len(q[l]) : /\ k = StartCounts(ls, q, held, cap)[l]
                                  /\ Len(q[l]) \in Nat
    BY DrainTakesPrefix
  <2>4. PICK i \in 1..k : t = q[l][i]
    BY <2>2, <2>3 DEF Prefix
  <2>5. i \in 1..Len(q[l]) /\ entry'[t].lane = l
    <3>1. i \in 1..Len(q[l])
      BY <2>3
    <3>. QED
      BY <2>4, <3>1 DEF OrderArgs, QueuesExact
  <2>6. PICK j \in 1..Len(queue'[l]) : k + j \in 1..Len(q[l]) /\ q[l][k + j] = u
    <3>1. PICK m \in 0..Len(q[l]), j \in 1..Len(queue'[l]) :
             /\ m = StartCounts(ls, q, held, cap)[l]
             /\ m + j \in 1..Len(q[l]) /\ q[l][m + j] = u
      BY <1>4, <2>5
    <3>. QED
      BY <2>3, <3>1
  <2>7. i < k + j
    BY <2>3, <2>6
  <2>. QED
    BY <2>4, <2>5, <2>6, <2>7 DEF OrderArgs, InOrder
<1>. QED
  BY <1>3, <1>5, <1>6

-----------------------------------------------------------------------------
(* The steps.                                                              *)

StepOrdered == Ordered' /\ StartsOrdered

\* A step that submits and starts nothing.
LEMMA NothingStarts ==
    ASSUME UNCHANGED <<queue, entry, nextQueueSequence>>, Ordered,
           \A t \in Tasks : status'[t] \in {"queued", "started"} => status'[t] = status[t]
    PROVE  StepOrdered
<1>1. Listed(queue, status', entry)
  BY DEF Ordered, Listed
<1>2. StartsOrdered
  BY DEF StartsOrdered
<1>. QED
  BY <1>1, <1>2 DEF StepOrdered, Ordered

\* A step that drains the queues as they are.
LEMMA QueuesDrained ==
    ASSUME IInv, Ordered, UNCHANGED <<entry, nextQueueSequence>>,
           NEW ACTION ls, NEW ACTION held, NEW ACTION cap, NEW ACTION gen, NEW ACTION st,
           DrainLanes(ls, queue, held, cap, gen, st),
           \A l \in Lanes : held[l] \subseteq active[l],
           cap \in [Lanes -> Nat], st \in [Tasks -> Status],
           \A t \in Tasks : st[t] \in {"queued", "started"} => st[t] = status[t],
           \A t \in Tasks : status[t] = "queued" => st[t] = "queued"
    PROVE  StepOrdered
<1>1. QueuesExact(queue, st, entry)
  <2>. SUFFICES ASSUME NEW l \in Lanes
                PROVE  /\ \A i \in 1..Len(queue[l]) :
                             st[queue[l][i]] = "queued" /\ entry[queue[l][i]].lane = l
                       /\ \A i, j \in 1..Len(queue[l]) : queue[l][i] = queue[l][j] => i = j
    BY DEF QueuesExact
  <2>1. queue[l] \in Seq(Tasks)
    BY DEF IInv, TypeOK
  <2>. QED
    BY <2>1 DEF IInv, CoreInv, QueuesExact
<1>2. \A l \in Lanes : IsFiniteSet(held[l])
  BY FS_Subset DEF IInv, CoreInv, SlotsExact
<1>3. Listed(queue, st, entry)
  BY DEF Ordered, Listed
<1>4. OrderArgs(queue, held, cap, st, entry')
  BY <1>1, <1>2, <1>3 DEF OrderArgs, Ordered, IInv, TypeOK
<1>5. InOrder(queue', entry') /\ Listed(queue', status', entry') /\ StartsOrdered
  <2>1. \A t \in Tasks : st[t] = "started" => status[t] = "started"
    OBVIOUS
  <2>. QED
    BY <1>4, <2>1, DrainOrdered
<1>. QED
  BY <1>5 DEF StepOrdered, Ordered

\* The place of a new entry: behind all it does not overtake.
LEMMA InsertedInOrder ==
    ASSUME NEW q \in Seq(Tasks), NEW t \in Tasks, NEW e \in QueueEntry,
           entry \in [Tasks -> QueueEntry],
           \A i, j \in 1..Len(q) : i < j => Precedes(entry[q[i]], entry[q[j]]),
           \A u \in Tasks : entry[u].sequence < e.sequence
    PROVE  /\ \A i \in 1..Len(q) : i < InsertIndex(q, e) => Precedes(entry[q[i]], e)
           /\ \A i \in 1..Len(q) : i >= InsertIndex(q, e) => Precedes(e, entry[q[i]])
<1>. DEFINE overtaken == {i \in 1..Len(q) : Precedes(e, entry[q[i]])}
            at == InsertIndex(q, e)
<1>1. Len(q) \in Nat /\ \A i \in 1..Len(q) : q[i] \in Tasks /\ entry[q[i]] \in QueueEntry
  OBVIOUS
<1>2. ASSUME NEW i \in 1..Len(q), i \notin overtaken
      PROVE  Precedes(entry[q[i]], e)
  BY <1>1, <1>2, NewestFollows
<1>3. CASE overtaken = {}
  <2>1. at = Len(q) + 1
    BY <1>3 DEF InsertIndex
  <2>. QED
    BY <1>1, <1>2, <1>3, <2>1
<1>4. CASE overtaken # {}
  <2>1. \E i \in overtaken : \A j \in overtaken : i <= j
    BY <1>1, <1>4, LeastElement
  <2>2. at \in overtaken /\ \A j \in overtaken : at <= j
    BY <1>4, <2>1 DEF InsertIndex
  <2>3. at \in 1..Len(q) /\ Precedes(e, entry[q[at]])
    BY <2>2
  <2>. HIDE DEF at
  <2>4. ASSUME NEW i \in 1..Len(q), i < at
        PROVE  Precedes(entry[q[i]], e)
    <3>1. i \notin overtaken
      BY <1>1, <2>2, <2>3, <2>4
    <3>. QED
      BY <1>2, <3>1
  <2>5. ASSUME NEW i \in 1..Len(q), i > at
        PROVE  Precedes(e, entry[q[i]])
    BY <1>1, <2>3, <2>5, PrecedesTransitive
  <2>6. \A i \in 1..Len(q) : i >= at => i > at \/ i = at
    BY <1>1, <2>3
  <2>. QED
    BY <2>3, <2>4, <2>5, <2>6 DEF at
<1>. QED
  BY <1>3, <1>4

LEMMA EnqueueOrdered ==
    ASSUME IInv, Ordered,
           NEW t \in Tasks, NEW l \in Lanes, NEW p \in Priorities, NEW timed \in BOOLEAN,
           EnqueueCommandInLane(t, l, p, timed)
    PROVE  StepOrdered
<1>. DEFINE e == [lane |-> l, priority |-> p, timed |-> timed, sequence |-> nextQueueSequence]
            q == [queue EXCEPT ![l] = EnqueueLaneEntry(queue[l], t, e)]
            st == [status EXCEPT ![t] = "queued"]
            at == InsertIndex(queue[l], e)
            r == EnqueueLaneEntry(queue[l], t, e)
<1>1. TypeOK /\ CoreInv
  BY DEF IInv
<1>2. /\ status[t] = "new"
      /\ entry' = [entry EXCEPT ![t] = e]
      /\ DrainLanes({l}, q, active, maxConcurrent, generation, st)
      /\ nextQueueSequence' = nextQueueSequence + 1
  BY DEF EnqueueCommandInLane
<1>3. queue[l] \in Seq(Tasks) /\ Len(queue[l]) \in Nat
  BY <1>1 DEF TypeOK
<1>4. at \in 1..(Len(queue[l]) + 1)
  BY <1>3, InsertIndexRange
<1>5. /\ r \in Seq(Tasks)
      /\ Len(r) = Len(queue[l]) + 1
      /\ \A i \in 1..(Len(queue[l]) + 1) :
            r[i] = IF i < at THEN queue[l][i] ELSE IF i = at THEN t ELSE queue[l][i - 1]
  BY <1>3, InsertProperties
<1>6. e \in QueueEntry /\ e.lane = l /\ e.sequence = nextQueueSequence
  BY <1>1 DEF QueueEntry, TypeOK
<1>7. QueuesExact(q, st, entry')
  BY EnqueuedQueuesExact
<1>8. /\ \A i \in 1..Len(queue[l]) : i < at => Precedes(entry[queue[l][i]], e)
      /\ \A i \in 1..Len(queue[l]) : i >= at => Precedes(e, entry[queue[l][i]])
  <2>1. \A i, j \in 1..Len(queue[l]) :
           i < j => Precedes(entry[queue[l][i]], entry[queue[l][j]])
    BY DEF Ordered, InOrder
  <2>2. \A u \in Tasks : entry[u].sequence < e.sequence
    BY <1>6 DEF Ordered, SequencesPast
  <2>3. entry \in [Tasks -> QueueEntry]
    BY <1>1 DEF TypeOK
  <2>. HIDE DEF e
  <2>. QED
    BY <1>3, <1>6, <2>1, <2>2, <2>3, InsertedInOrder
<1>. HIDE DEF e, at, r
<1>9. \A m \in Lanes : \A i \in 1..Len(queue[m]) :
         queue[m][i] \in Tasks /\ queue[m][i] # t /\ entry'[queue[m][i]] = entry[queue[m][i]]
  BY <1>1, <1>2 DEF TypeOK, CoreInv, QueuesExact
<1>10. /\ \A m \in Lanes \ {l} : q[m] = queue[m]
       /\ q[l] = r
       /\ entry'[t] = e
       /\ \A u \in Tasks \ {t} : entry'[u] = entry[u] /\ st[u] = status[u]
  BY <1>1, <1>2 DEF TypeOK, r
<1>11. \A i \in 1..Len(r) :
          \/ i < at /\ i \in 1..Len(queue[l]) /\ r[i] = queue[l][i]
          \/ i = at /\ r[i] = t
          \/ i > at /\ i - 1 \in 1..Len(queue[l]) /\ r[i] = queue[l][i - 1]
  BY <1>3, <1>4, <1>5
<1>12. InOrder(q, entry')
  <2>. SUFFICES ASSUME NEW m \in Lanes, NEW i \in 1..Len(q[m]), NEW j \in 1..Len(q[m]), i < j
                PROVE  Precedes(entry'[q[m][i]], entry'[q[m][j]])
    BY DEF InOrder
  <2>1. \A h, k \in 1..Len(queue[m]) :
           h < k => Precedes(entry[queue[m][h]], entry[queue[m][k]])
    BY DEF Ordered, InOrder
  <2>2. CASE m # l
    BY <1>9, <1>10, <2>1, <2>2
  <2>3. CASE m = l
    <3>0. i \in 1..Len(r) /\ j \in 1..Len(r) /\ at \in Int
      BY <1>4, <1>10, <2>3
    <3>1. CASE i = at
      <4>1. j > at /\ j - 1 \in 1..Len(queue[l]) /\ r[j] = queue[l][j - 1] /\ j - 1 >= at
        BY <1>11, <3>0, <3>1
      <4>2. Precedes(e, entry[r[j]]) /\ r[i] = t
        BY <1>8, <1>11, <3>0, <3>1, <4>1
      <4>. QED
        BY <1>9, <1>10, <2>3, <4>1, <4>2
    <3>2. CASE j = at
      <4>1. i < at /\ i \in 1..Len(queue[l]) /\ r[i] = queue[l][i] /\ r[j] = t
        BY <1>11, <3>0, <3>2
      <4>. QED
        BY <1>8, <1>9, <1>10, <2>3, <4>1
    <3>3. CASE i # at /\ j # at
      <4>1. PICK h, k \in 1..Len(queue[l]) : h < k /\ r[i] = queue[l][h] /\ r[j] = queue[l][k]
        <5>1. CASE i < at /\ j < at
          BY <1>11, <3>0, <5>1
        <5>2. CASE i < at /\ j > at
          <6>1. i < j - 1
            BY <3>0, <5>2
          <6>2. i \in 1..Len(queue[l]) /\ r[i] = queue[l][i]
            BY <1>11, <3>0, <5>2
          <6>3. j - 1 \in 1..Len(queue[l]) /\ r[j] = queue[l][j - 1]
            BY <1>11, <3>0, <5>2
          <6>. QED
            BY <6>1, <6>2, <6>3
        <5>3. CASE i > at /\ j > at
          <6>1. i - 1 < j - 1
            BY <3>0
          <6>2. i - 1 \in 1..Len(queue[l]) /\ r[i] = queue[l][i - 1]
            BY <1>11, <3>0, <5>3
          <6>3. j - 1 \in 1..Len(queue[l]) /\ r[j] = queue[l][j - 1]
            BY <1>11, <3>0, <5>3
          <6>. QED
            BY <6>1, <6>2, <6>3
        <5>. QED
          BY <3>0, <3>3, <5>1, <5>2, <5>3
      <4>2. Precedes(entry[r[i]], entry[r[j]])
        BY <2>1, <2>3, <4>1
      <4>. QED
        BY <1>9, <1>10, <2>3, <4>1, <4>2
    <3>. QED
      BY <3>1, <3>2, <3>3
  <2>. QED
    BY <2>2, <2>3
<1>13. Listed(q, st, entry')
  <2>. SUFFICES ASSUME NEW u \in Tasks, st[u] = "queued"
                PROVE  \E i \in 1..Len(q[entry'[u].lane]) : q[entry'[u].lane][i] = u
    BY DEF Listed
  <2>1. CASE u = t
    <3>1. at \in 1..Len(r) /\ r[at] = t
      BY <1>3, <1>4, <1>5
    <3>. QED
      BY <1>6, <1>10, <2>1, <3>1
  <2>2. CASE u # t
    <3>1. PICK m \in Lanes : m = entry[u].lane
      BY <1>1 DEF TypeOK, QueueEntry
    <3>2. PICK h \in 1..Len(queue[m]) : queue[m][h] = u
      BY <1>10, <2>2, <3>1 DEF Ordered, Listed
    <3>3. CASE m # l
      BY <1>10, <2>2, <3>1, <3>2, <3>3
    <3>4. CASE m = l
      <4>1. \E i \in 1..Len(r) : r[i] = u
        <5>1. CASE h < at
          <6>1. h \in 1..Len(r) /\ r[h] = u
            BY <1>3, <1>5, <3>2, <3>4, <5>1
          <6>. QED
            BY <6>1
        <5>2. CASE h >= at
          <6>1. h + 1 \in 1..(Len(queue[l]) + 1) /\ h + 1 > at /\ h + 1 - 1 = h
            BY <1>3, <1>4, <3>2, <3>4, <5>2
          <6>2. h + 1 \in 1..Len(r) /\ r[h + 1] = queue[l][h + 1 - 1]
            BY <1>4, <1>5, <6>1
          <6>. QED
            BY <3>2, <3>4, <6>1, <6>2
        <5>. QED
          BY <1>4, <5>1, <5>2
      <4>. QED
        BY <1>10, <2>2, <3>1, <3>4, <4>1
    <3>. QED
      BY <3>3, <3>4
  <2>. QED
    BY <2>1, <2>2
<1>14. SequencesPast(entry', nextQueueSequence')
  <2>1. \A u \in Tasks : entry[u].sequence \in Nat
    BY <1>1 DEF TypeOK, QueueEntry
  <2>. QED
    BY <1>1, <1>2, <1>6, <1>10, <2>1 DEF Ordered, SequencesPast, TypeOK
<1>15. OrderArgs(q, active, maxConcurrent, st, entry')
  BY <1>1, <1>2, <1>5, <1>6, <1>7, <1>12, <1>13
     DEF OrderArgs, TypeOK, CoreInv, SlotsExact, Status, r
<1>. HIDE DEF q
<1>16. \A u \in Tasks : st[u] = "started" => status[u] = "started"
  BY <1>1, <1>2 DEF TypeOK
<1>. HIDE DEF st
<1>. QED
  BY <1>2, <1>14, <1>15, <1>16, DrainOrdered DEF StepOrdered, Ordered

LEMMA ResetOrdered ==
    ASSUME IInv, Ordered, NEW ls \in SUBSET Lanes, ResetLanes(ls)
    PROVE  StepOrdered
<1>. DEFINE idle == [l \in Lanes |-> IF l \in ls THEN {} ELSE active[l]]
<1>1. /\ DrainLanes({l \in ls : queue[l] # <<>>}, queue, idle, maxConcurrent, generation', status)
      /\ UNCHANGED <<entry, nextQueueSequence>>
  BY DEF ResetLanes
<1>2. \A l \in Lanes : idle[l] \subseteq active[l]
  OBVIOUS
<1>3. maxConcurrent \in [Lanes -> Nat] /\ status \in [Tasks -> Status]
  BY DEF IInv, TypeOK
<1>. HIDE DEF idle
<1>. QED
  BY <1>1, <1>2, <1>3, QueuesDrained

LEMMA TaskStepOrdered ==
    ASSUME IInv, Ordered, NEW t \in Tasks, TaskStep(t)
    PROVE  StepOrdered
<1>1. TypeOK
  BY DEF IInv
<1>2. CASE RefuseWhileDraining(t) \/ (CompleteStaleTask(t) /\ CompleteTask(t))
  <2>1. UNCHANGED <<queue, entry, nextQueueSequence>>
    BY <1>2 DEF RefuseWhileDraining, CompleteStaleTask, CompleteTask, laneVars
  <2>2. \E s : s \notin {"queued", "started"} /\ status' = [status EXCEPT ![t] = s]
    <3>1. CASE RefuseWhileDraining(t)
      BY <3>1 DEF RefuseWhileDraining
    <3>2. CASE CompleteStaleTask(t) /\ CompleteTask(t)
      <4>1. Settlement(outcome[t]) \in {"resolved", "rejected", "timedOut"}
        BY <1>1, <3>2, SettlementOfOutcome DEF CompleteTask, TypeOK
      <4>. QED
        BY <3>2, <4>1 DEF CompleteStaleTask
    <3>. QED
      BY <1>2, <3>1, <3>2
  <2>3. \A u \in Tasks : status'[u] \in {"queued", "started"} => status'[u] = status[u]
    BY <1>1, <2>2 DEF TypeOK
  <2>. QED
    BY <2>1, <2>3, NothingStarts
<1>3. CASE TaskTimeoutFires(t) \/ \E how \in {"ok", "err"} : TaskBodyEnds(t, how)
  <2>1. UNCHANGED <<queue, entry, nextQueueSequence, status>>
    BY <1>3 DEF TaskTimeoutFires, TaskBodyEnds, laneVars
  <2>. QED
    BY <2>1, NothingStarts
<1>4. CASE CompleteCurrentTask(t) /\ CompleteTask(t)
  <2>. DEFINE l == entry[t].lane
              released == [active EXCEPT ![l] = @ \ {t}]
              st == [status EXCEPT ![t] = Settlement(outcome[t])]
  <2>1. /\ DrainLanes({l}, queue, released, maxConcurrent, generation, st)
        /\ UNCHANGED <<entry, nextQueueSequence>>
    BY <1>4 DEF CompleteCurrentTask, CompleteTask
  <2>2. \A m \in Lanes : released[m] \subseteq active[m]
    BY <1>1 DEF TypeOK
  <2>3. /\ status[t] = "started"
        /\ Settlement(outcome[t]) \in {"resolved", "rejected", "timedOut"}
    BY <1>1, <1>4, SettlementOfOutcome DEF CompleteTask, TypeOK
  <2>4. /\ st \in [Tasks -> Status]
        /\ \A u \in Tasks : st[u] \in {"queued", "started"} => st[u] = status[u]
        /\ \A u \in Tasks : status[u] = "queued" => st[u] = "queued"
    BY <1>1, <2>3 DEF TypeOK, Status
  <2>5. maxConcurrent \in [Lanes -> Nat]
    BY <1>1 DEF TypeOK
  <2>. HIDE DEF l, released, st
  <2>. QED
    BY <2>1, <2>2, <2>4, <2>5, QueuesDrained
<1>5. CASE CompleteTask(t)
  <2>1. CompleteCurrentTask(t) \/ CompleteStaleTask(t)
    BY <1>5 DEF CompleteTask
  <2>. QED
    BY <1>2, <1>4, <1>5, <2>1
<1>6. CASE \E l \in Lanes, p \in Priorities, timed \in BOOLEAN : EnqueueCommandInLane(t, l, p, timed)
  BY <1>6, EnqueueOrdered
<1>. QED
  BY <1>2, <1>3, <1>5, <1>6, Zenon DEF TaskStep

LEMMA LaneStepOrdered ==
    ASSUME IInv, Ordered, NEW l \in Lanes, LaneStep(l)
    PROVE  StepOrdered
<1>1. TypeOK
  BY DEF IInv
<1>2. ASSUME NEW n \in CapRequests, SetCommandLaneConcurrency(l, n)
      PROVE  StepOrdered
  <2>. DEFINE ls == IF LaneCap(l, n) > 0 THEN {l} ELSE {}
  <2>1. /\ DrainLanes(ls, queue, active, maxConcurrent', generation, status)
        /\ maxConcurrent' = [maxConcurrent EXCEPT ![l] = LaneCap(l, n)]
        /\ UNCHANGED <<entry, nextQueueSequence>>
    BY <1>2 DEF SetCommandLaneConcurrency
  <2>2. maxConcurrent' \in [Lanes -> Nat]
    <3>1. n \in Int
      BY CommandQueueAssumption
    <3>2. LaneCap(l, n) \in Nat
      BY <3>1 DEF LaneCap
    <3>. QED
      BY <1>1, <2>1, <3>2 DEF TypeOK
  <2>3. status \in [Tasks -> Status]
    BY <1>1 DEF TypeOK
  <2>. HIDE DEF ls
  <2>. QED
    BY <2>1, <2>2, <2>3, QueuesDrained
<1>3. CASE ClearCommandLane(l)
  <2>1. /\ queue' = [queue EXCEPT ![l] = <<>>]
        /\ status' = [t \in Tasks |->
                        IF t \in Prefix(queue[l], Len(queue[l])) THEN "cleared" ELSE status[t]]
        /\ UNCHANGED <<entry, nextQueueSequence>>
    BY <1>3 DEF ClearCommandLane
  <2>2. InOrder(queue', entry)
    <3>. SUFFICES ASSUME NEW m \in Lanes, NEW i \in 1..Len(queue'[m]), NEW j \in 1..Len(queue'[m]),
                         i < j
                  PROVE  Precedes(entry[queue'[m][i]], entry[queue'[m][j]])
      BY DEF InOrder
    <3>1. m # l
      BY <1>1, <2>1 DEF TypeOK
    <3>. QED
      BY <1>1, <2>1, <3>1 DEF TypeOK, Ordered, InOrder
  <2>3. Listed(queue', status', entry)
    <3>. SUFFICES ASSUME NEW u \in Tasks, status'[u] = "queued"
                  PROVE  \E i \in 1..Len(queue'[entry[u].lane]) : queue'[entry[u].lane][i] = u
      BY DEF Listed
    <3>1. status[u] = "queued" /\ u \notin Prefix(queue[l], Len(queue[l]))
      BY <2>1
    <3>2. PICK m \in Lanes : m = entry[u].lane
      BY <1>1 DEF TypeOK, QueueEntry
    <3>3. PICK i \in 1..Len(queue[m]) : queue[m][i] = u
      BY <3>1, <3>2 DEF Ordered, Listed
    <3>4. m # l
      BY <3>1, <3>3 DEF Prefix
    <3>5. queue'[m] = queue[m]
      BY <1>1, <2>1, <3>4 DEF TypeOK
    <3>. QED
      BY <3>2, <3>3, <3>5
  <2>4. StartsOrdered
    BY <2>1 DEF StartsOrdered
  <2>. QED
    BY <2>1, <2>2, <2>3, <2>4 DEF StepOrdered, Ordered
<1>4. CASE ResetCommandLane(l)
  <2>1. ResetLanes({l}) /\ {l} \in SUBSET Lanes
    BY <1>4 DEF ResetCommandLane
  <2>. QED
    BY <2>1, ResetOrdered
<1>. QED
  BY <1>2, <1>3, <1>4 DEF LaneStep

LEMMA InitOrdered == Init => Ordered
BY DEF Init, Ordered, InOrder, Listed, SequencesPast

LEMMA NextOrdered == IInv /\ Ordered /\ [Next]_vars => StepOrdered
<1>. SUFFICES ASSUME IInv, Ordered, [Next]_vars PROVE StepOrdered
  OBVIOUS
<1>1. CASE ResetAllLanes
  <2>1. ResetLanes(Lanes) /\ Lanes \in SUBSET Lanes
    BY <1>1 DEF ResetAllLanes
  <2>. QED
    BY <2>1, ResetOrdered
<1>2. CASE MarkGatewayDraining \/ UNCHANGED vars \/ \E w \in Waiters : WaiterStep(w)
  <2>1. UNCHANGED <<queue, entry, nextQueueSequence, status>>
    BY <1>2 DEF MarkGatewayDraining, WaiterStep, WaitForActiveTasks, WaiterTimesOut,
                vars, laneVars, taskVars
  <2>. QED
    BY <2>1, NothingStarts
<1>. QED
  BY <1>1, <1>2, TaskStepOrdered, LaneStepOrdered DEF Next

-----------------------------------------------------------------------------
\* No lane starts an entry while one that outranks it stays queued, whatever is
\* cleared, reset, reconfigured or completed in between.
THEOREM AlwaysStartsInOrder == Spec => StartsInOrder
<1>1. IInv /\ Ordered /\ [Next]_vars => Ordered'
  BY NextOrdered DEF StepOrdered
<1>2. Spec => []Ordered
  BY SpecIInv, InitOrdered, <1>1, PTL DEF Spec
<1>3. IInv /\ Ordered /\ [Next]_vars => [StartsOrdered]_vars
  BY NextOrdered DEF StepOrdered
<1>4. [StartsOrdered]_vars =>
         [\A t, u \in Tasks :
             /\ status[t] # "started" /\ status'[t] = "started"
             /\ status'[u] = "queued"
             /\ entry'[u].lane = entry'[t].lane
             => Precedes(entry'[t], entry'[u])]_vars
  BY DEF StartsOrdered
<1>. QED
  BY SpecIInv, <1>2, <1>3, <1>4, PTL DEF Spec, StartsInOrder

=============================================================================
