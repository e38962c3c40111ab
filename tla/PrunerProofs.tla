----------------------------- MODULE PrunerProofs -----------------------------
(***************************************************************************)
(* Proofs about Pruner: beside the pruner's ticks the manager keeps all    *)
(* that ManagerProofs shows (a tick is one more caller), stop() waits for  *)
(* the tick in flight, and beside one agent that never promotes no tick    *)
(* leaves a memory in two tiers.                                           *)
(***************************************************************************)
EXTENDS Pruner, ManagerProofs

-----------------------------------------------------------------------------
(* The steps of the manager, as the pruner sees them *)

\* A step of a thread changes what no other thread is doing, a thread in no
\* operation has none to take, and to begin one stores and removes nothing.
LEMMA ThreadSteps ==
    ASSUME ManagerInv, NEW t \in Threads
    PROVE  /\ Start(t) \/ Step(t) => \A u \in Threads : u # t => thread'[u] = thread[u]
           /\ Step(t) => thread[t].pc # "idle"
           /\ Start(t) => UNCHANGED <<fifo, rows, touched>> /\ thread[t].pc = "idle"
<1>1. thread \in [Threads -> ThreadRecords]
  BY DEF ManagerInv, ThreadsOK
<1>2. ASSUME NEW r, Become(t, r) PROVE \A u \in Threads : u # t => thread'[u] = thread[u]
  BY <1>1, <1>2 DEF Become
<1>3. Start(t) => UNCHANGED <<fifo, rows, touched>> /\ thread[t].pc = "idle"
  BY DEF Start, Insert, Move, Forget, QueryStart
<1>4. Step(t) => thread[t].pc # "idle"
  BY DEF Step, PutL1, Embed, PutRaises, PutRow, Find, Remove1, QueryRead, QueryRank,
         QueryTouch
<1>5. Start(t) => \E r : Become(t, r)
  <2>1. \A id \in Ids, tier \in Tiers : Insert(t, id, tier) => \E r : Become(t, r)
    BY DEF Insert
  <2>2. \A op \in {"promote", "demote"}, id \in Ids : Move(t, op, id) => \E r : Become(t, r)
    BY DEF Move
  <2>3. \A id \in Ids : Forget(t, id) => \E r : Become(t, r)
    BY DEF Forget
  <2>4. \A floor \in Tiers : QueryStart(t, floor) => \E r : Become(t, r)
    BY DEF QueryStart
  <2> QED
    BY <2>1, <2>2, <2>3, <2>4 DEF Start
<1>6. Raised(t) \/ Reroute(t) => \E r : Become(t, r)
  BY DEF Raised, Reroute
<1>7. \A victims, tier : Proceed(t, victims, tier) => \E r : Become(t, r)
  BY DEF Proceed
<1>8. Step(t) => \E r : Become(t, r)
  <2>1. PutL1(t) => \E r : Become(t, r)
    BY <1>6, <1>7 DEF PutL1
  <2>2. Embed(t) => \E r : Become(t, r)
    BY DEF Embed
  <2>3. PutRow(t) => \E r : Become(t, r)
    BY <1>7 DEF PutRow
  <2>4. Find(t) => \E r : Become(t, r)
    BY DEF Find
  <2>5. Remove1(t) => \E r : Become(t, r)
    BY DEF Remove1
  <2>6. QueryRead(t) \/ QueryRank(t) \/ QueryTouch(t) => \E r : Become(t, r)
    BY DEF QueryRead, QueryRank, QueryTouch
  <2>7. PutRaises(t) => \E r : Become(t, r)
    BY <1>6 DEF PutRaises
  <2> QED
    BY <2>1, <2>2, <2>3, <2>4, <2>5, <2>6, <2>7 DEF Step
<1> QED
  BY <1>2, <1>3, <1>4, <1>5, <1>8

-----------------------------------------------------------------------------
(* The pruner's own state *)

\* What a tick has still to demote is as long as the bound allows, a memory
\* that is cold is in L2, and a scheduler that is gone has no tick in flight.
PruningOK ==
    /\ cold \subseteq rows[L2]
    /\ batch \in [Tickers -> Seq(Ids)]
    /\ \A t \in Tickers : Len(batch[t]) <= MaxPerTick
    /\ running \in BOOLEAN /\ stopping \in BOOLEAN
    /\ stopping => running
    /\ StopWaits

PrunerInv == ManagerInv /\ PruningOK

LEMMA PrunerFacts ==
    /\ Agents \subseteq Threads /\ Tickers \subseteq Threads
    /\ Scheduled \in Tickers /\ Scheduled \in Threads
    /\ \A a \in Agents : a \notin Tickers
    /\ MaxPerTick \in Nat /\ MaxPerTick >= 1
BY PrunerAssumption

LEMMA PrunerInitInv == PrunerInit => PrunerInv
<1> SUFFICES ASSUME PrunerInit PROVE PrunerInv
  OBVIOUS
<1>1. ManagerInv
  BY ManagerInitInv DEF PrunerInit
<1>2. /\ cold = {} /\ batch = [t \in Tickers |-> <<>>] /\ running = FALSE
      /\ stopping = FALSE /\ thread = [t \in Threads |-> Asleep]
  BY DEF PrunerInit, Init
<1>3. \A t \in Tickers : batch[t] = <<>> /\ Len(batch[t]) <= MaxPerTick
  BY <1>2, PrunerFacts
<1>4. batch \in [Tickers -> Seq(Ids)]
  BY <1>2
<1>5. StopWaits
  BY <1>2, <1>3, PrunerFacts, AsleepFacts DEF StopWaits, Ticking
<1> QED
  BY <1>1, <1>2, <1>3, <1>4, <1>5 DEF PrunerInv, PruningOK

\* A tick's batch: known memories of L2, no more than the bound.
LEMMA BatchFacts ==
    ASSUME DataOK
    PROVE  /\ FirstOf(Candidates) \in Seq(Ids)
           /\ Members(FirstOf(Candidates)) \subseteq rows[L2]
           /\ Len(FirstOf(Candidates)) <= MaxPerTick
<1> DEFINE s == Candidates
           n == IF Len(s) <= MaxPerTick THEN Len(s) ELSE MaxPerTick
<1>1. s \in Seq(Ids) /\ Members(s) \subseteq rows[L2]
  <2>1. touched[L2] \in Seq(Ids)
    BY DEF DataOK
  <2> QED
    BY <2>1, AmongProperties DEF Candidates, ColdOrder
<1>2. FirstOf(s) = SubSeq(s, 1, n)
  BY DEF FirstOf
<1> HIDE DEF s
<1>3. Len(s) \in Nat /\ n \in Nat /\ n <= Len(s) /\ n <= MaxPerTick
  BY <1>1, PrunerFacts
<1> HIDE DEF n
<1>4. /\ SubSeq(s, 1, n) \in Seq(Ids) /\ Len(SubSeq(s, 1, n)) = n
      /\ \A i \in 1..n : SubSeq(s, 1, n)[i] = s[i]
  BY <1>1, <1>3, SubSeqProperties
<1>5. Members(SubSeq(s, 1, n)) \subseteq Members(s)
  BY <1>3, <1>4 DEF Members
<1> QED
  BY <1>1, <1>2, <1>3, <1>4, <1>5 DEF s

\* The coldest of some rows of L2 is one of them.
LEMMA ColdestFacts ==
    ASSUME DataOK, NEW S \in SUBSET rows[L2], S # {}
    PROVE  Head(ColdOrder(L2, S)) \in S
<1> DEFINE s == ColdOrder(L2, S)
<1>1. s \in Seq(Ids) /\ Members(s) = S
  <2>1. touched[L2] \in Seq(Ids) /\ rows[L2] \subseteq Members(touched[L2])
    BY DEF DataOK
  <2> QED
    BY <2>1, AmongProperties DEF ColdOrder
<1> HIDE DEF s
<1>2. s # <<>>
  BY <1>1 DEF Members
<1>3. 1 \in 1..Len(s) /\ Head(s) = s[1]
  BY <1>1, <1>2
<1> QED
  BY <1>1, <1>3 DEF Members, s

-----------------------------------------------------------------------------
(* Every step of the pruner is a step of the manager, or none *)

LEMMA PrunerStepIsNext ==
    ASSUME PrunerInv, PrunerNext PROVE [Next]_vars
<1>1. CASE StartScheduler \/ StopScheduler \/ AwaitTick \/ GrowCold
  BY <1>1 DEF StartScheduler, StopScheduler, AwaitTick, GrowCold
<1>2. ASSUME NEW a \in Agents, AgentStart(a) PROVE Next
  BY <1>2, PrunerFacts DEF AgentStart, Next
<1>3. ASSUME NEW t \in Tickers, TickStart(t) PROVE UNCHANGED vars
  BY <1>3 DEF TickStart
<1>4. ASSUME NEW t \in Tickers, TickDemote(t) PROVE Next
  <2>1. batch[t] \in Seq(Ids) /\ batch[t] # <<>>
    BY <1>4 DEF TickDemote, PrunerInv, PruningOK
  <2>2. Head(batch[t]) \in Ids
    BY <2>1
  <2>3. Start(t)
    BY <1>4, <2>2 DEF TickDemote, Start
  <2> QED
    BY <2>3, PrunerFacts DEF Next
<1>5. ASSUME NEW t \in Threads, ManagerStep(t) PROVE Next
  BY <1>5 DEF ManagerStep, Next
<1> QED
  BY <1>1, <1>2, <1>3, <1>4, <1>5 DEF PrunerNext

LEMMA PrunerManagerInv ==
    ASSUME PrunerInv, [PrunerNext]_allVars PROVE ManagerInv'
<1>1. CASE PrunerNext
  BY <1>1, PrunerStepIsNext, ManagerNextInv DEF PrunerInv
<1>2. CASE UNCHANGED allVars
  BY <1>2, UnchangedInv DEF PrunerInv, allVars
<1> QED
  BY <1>1, <1>2

\* StopWaits survives the steps of other threads.
LEMMA OthersWait ==
    ASSUME PruningOK, UNCHANGED <<batch, running>>, thread'[Scheduled] = thread[Scheduled]
    PROVE  StopWaits'
BY DEF PruningOK, StopWaits, Ticking

LEMMA PruningNextOK ==
    ASSUME PrunerInv, [PrunerNext]_allVars PROVE PruningOK'
<1>1. DataOK /\ PruningOK /\ ManagerInv
  BY DEF PrunerInv, ManagerInv
<1>2. CASE UNCHANGED allVars
  BY <1>1, <1>2 DEF allVars, prunerVars, vars, PruningOK, StopWaits, Ticking
<1>3. CASE StartScheduler \/ StopScheduler \/ AwaitTick
  BY <1>1, <1>3 DEF StartScheduler, StopScheduler, AwaitTick, vars, PruningOK,
                    StopWaits, Ticking
<1>4. CASE GrowCold
  <2>1. Head(ColdOrder(L2, rows[L2] \ cold)) \in rows[L2] \ cold
    BY <1>1, <1>4, ColdestFacts DEF GrowCold
  <2>2. cold' \subseteq rows'[L2]
    BY <1>1, <1>4, <2>1 DEF GrowCold, vars, PruningOK
  <2> QED
    BY <1>1, <1>4, <2>2 DEF GrowCold, vars, PruningOK, StopWaits, Ticking
<1>5. ASSUME NEW a \in Agents, AgentStart(a) PROVE PruningOK'
  <2>1. Start(a) /\ UNCHANGED <<cold, batch, running, stopping>> /\ a \in Threads
        /\ Scheduled \in Threads /\ Scheduled # a
    BY <1>5, PrunerFacts DEF AgentStart, prunerVars
  <2>2. rows' = rows /\ thread'[Scheduled] = thread[Scheduled]
    BY <1>1, <2>1, ThreadSteps
  <2> QED
    BY <1>1, <2>1, <2>2, OthersWait DEF PruningOK
<1>6. ASSUME NEW t \in Tickers, TickStart(t) PROVE PruningOK'
  <2>1. /\ batch' = [batch EXCEPT ![t] = FirstOf(Candidates)]
        /\ t = Scheduled => running /\ ~stopping
        /\ UNCHANGED <<cold, running, stopping, rows, thread>>
    BY <1>6 DEF TickStart, vars
  <2>2. /\ FirstOf(Candidates) \in Seq(Ids)
        /\ Len(FirstOf(Candidates)) <= MaxPerTick
    BY <1>1, BatchFacts
  <2>3. /\ batch' \in [Tickers -> Seq(Ids)]
        /\ \A u \in Tickers : Len(batch'[u]) <= MaxPerTick
        /\ \A u \in Tickers : u # t => batch'[u] = batch[u]
    BY <1>1, <2>1, <2>2 DEF PruningOK
  <2>4. StopWaits'
    BY <1>1, <2>1, <2>3, PrunerFacts DEF PruningOK, StopWaits, Ticking
  <2> QED
    BY <1>1, <2>1, <2>3, <2>4 DEF PruningOK
<1>7. ASSUME NEW t \in Tickers, TickDemote(t) PROVE PruningOK'
  <2>1. /\ batch' = [batch EXCEPT ![t] = Tail(batch[t])] /\ batch[t] # <<>>
        /\ UNCHANGED <<cold, running, stopping, rows>>
        /\ batch \in [Tickers -> Seq(Ids)]
    BY <1>1, <1>7 DEF TickDemote, Move, PruningOK
  <2>2. Tail(batch[t]) \in Seq(Ids) /\ Len(Tail(batch[t])) = Len(batch[t]) - 1
    BY <2>1
  <2>3. Len(batch[t]) \in Nat /\ Len(batch[t]) <= MaxPerTick /\ MaxPerTick \in Nat
    BY <1>1, <2>1, PrunerFacts DEF PruningOK
  <2>4. /\ batch' \in [Tickers -> Seq(Ids)]
        /\ \A u \in Tickers : Len(batch'[u]) <= MaxPerTick
        /\ \A u \in Tickers : u # t => batch'[u] = batch[u]
    BY <1>1, <2>1, <2>2, <2>3 DEF PruningOK
  <2>5. StopWaits'
    <3>1. CASE t = Scheduled
      BY <1>1, <2>1, <3>1 DEF PruningOK, StopWaits, Ticking
    <3>2. CASE t # Scheduled
      <4>1. thread'[Scheduled] = thread[Scheduled]
        <5>1. thread \in [Threads -> ThreadRecords]
          BY <1>1 DEF ManagerInv, ThreadsOK
        <5> QED
          BY <1>7, <3>2, <5>1, PrunerFacts DEF TickDemote, Move, Become
      <4> QED
        BY <1>1, <2>1, <2>4, <3>2, <4>1, PrunerFacts DEF PruningOK, StopWaits, Ticking
    <3> QED
      BY <3>1, <3>2
  <2> QED
    BY <1>1, <2>1, <2>4, <2>5 DEF PruningOK
<1>8. ASSUME NEW t \in Threads, ManagerStep(t) PROVE PruningOK'
  <2>1. Step(t) /\ cold' \subseteq rows'[L2] /\ UNCHANGED <<batch, running, stopping>>
    BY <1>8 DEF ManagerStep
  <2>2. StopWaits'
    <3>1. CASE t = Scheduled
      BY <1>1, <2>1, <3>1, ThreadSteps DEF PruningOK, StopWaits, Ticking
    <3>2. CASE t # Scheduled
      BY <1>1, <2>1, <3>2, ThreadSteps, PrunerFacts, OthersWait
    <3> QED
      BY <3>1, <3>2
  <2> QED
    BY <1>1, <2>1, <2>2 DEF PruningOK
<1> QED
  BY <1>2, <1>3, <1>4, <1>5, <1>6, <1>7, <1>8 DEF PrunerNext

\* The manager's invariant holds beside the pruner, a batch is never longer than
\* the bound, cold memories are rows of L2, and a stopped pruner has no tick.
THEOREM PrunerInvariant == PrunerSpec => []PrunerInv
<1>1. PrunerInv /\ [PrunerNext]_allVars => PrunerInv'
  BY PrunerManagerInv, PruningNextOK DEF PrunerInv
<1> QED
  BY <1>1, PrunerInitInv, PTL DEF PrunerSpec

\* A tick is one more caller of the manager (pruner.py tick_once calls
\* manager.demote): all that holds of the manager for any callers holds beside
\* the pruner.
THEOREM PrunerIsACaller == PrunerSpec => Spec
<1>1. PrunerInit => Init
  BY DEF PrunerInit
<1>2. PrunerInv /\ [PrunerNext]_allVars => [Next]_vars
  BY PrunerStepIsNext DEF allVars
<1> QED
  BY <1>1, <1>2, PrunerInvariant, PTL DEF PrunerSpec, Spec

\* The type invariant of the pruner (pruner.py).
THEOREM PrunerTyped == PrunerSpec => []PrunerTypeOK
<1>1. PrunerInv => PrunerTypeOK
  BY ManagerInvTypeOK DEF PrunerInv, PruningOK, PrunerTypeOK
<1> QED
  BY <1>1, PrunerInvariant, PTL

\* When stop() has returned, no scheduled tick is moving memories (pruner.py
\* stop waits for the scheduler to shut down).
THEOREM StopWaitsForTick == PrunerSpec => []StopWaits
<1>1. PrunerInv => StopWaits
  BY DEF PrunerInv, PruningOK
<1> QED
  BY <1>1, PrunerInvariant, PTL

-----------------------------------------------------------------------------
(* Beside one agent that never promotes, memories only sink *)

LoneAgent == \A a, b \in Agents : a = b

NeverPromotes == "promote" \notin AgentOps

\* The memories that a todo list will store above L3, and in L3.
Highs(todo) == {p.id : p \in {q \in Members(todo) : q.tier # L3}}
Lows(todo)  == {p.id : p \in {q \in Members(todo) : q.tier = L3}}

\* The memory of an insert() that is at its first put: it is in no tier yet, and
\* L2 may become its place whatever tier was asked for.
Newcomer(r) ==
    {id \in {r.id} : r.op = "insert" /\ r.pc = "put" /\ Head(r.todo) = Put(id, r.at)}

\* The memories that a thread may still store above L3, and only in L3.
Uppers(r) == Highs(r.todo) \cup Newcomer(r)
Lowers(r) == Lows(r.todo) \ Newcomer(r)

\* The memories that have not come down to L2 yet.
Above == Members(fifo) \cup UNION {Uppers(thread[t]) : t \in Threads}

\* promote() or demote() on its way to take its memory out.
Moving(r) == r.pc = "remove" /\ r.op # "forget"

\* The memories that what a thread is doing will only ever store in L3.
Sinking(r) == Lowers(r) \cup {id \in {r.id} : Moving(r) /\ r.at = L3}

\* What a tick has chosen to demote.
Chosen(u) == Members(batch[u]) \cup {id \in {thread[u].id} : thread[u].pc # "idle"}

\* What a thread may do: it does not promote; what it is to store in L3 is
\* neither above L2 nor in it; what it is to store higher it stores once; and it
\* moves a memory to L2 only while the memory is in L1.
Descending(t) ==
    /\ thread[t].op # "promote"
    /\ Sinking(thread[t]) \cap (Above \cup rows[L2]) = {}
    /\ Uppers(thread[t]) \cap Members(fifo) = {}
    /\ DistinctPuts(thread[t].todo)
    /\ Moving(thread[t]) =>
          IF thread[t].target = L3 THEN thread[t].id \notin Above
          ELSE thread[t].at = L1 /\ thread[t].id \in Members(fifo)

\* The tiers, each below the other.
Layered ==
    /\ Above \cap (rows[L2] \cup rows[L3]) = {}
    /\ rows[L2] \cap rows[L3] = {}

\* Ticks only see what has come down to L2.
TicksBelow ==
    \A u \in Tickers : Uppers(thread[u]) = {} /\ Chosen(u) \subseteq used \ Above

SinkInv ==
    PrunerInv /\ Layered /\ (\A t \in Threads : Descending(t)) /\ TicksBelow

-----------------------------------------------------------------------------
(* Todo lists, by level *)

\* The levels of no put, of one, of a list by its head and tail.
LEMMA LevelsOfEmpty == Highs(<<>>) = {} /\ Lows(<<>>) = {}
BY MembersOfEmpty DEF Highs, Lows

LEMMA LevelsOfTail ==
    ASSUME NEW todo \in Seq(Puts), todo # <<>>
    PROVE  /\ Head(todo).tier # L3 =>
                 /\ Highs(todo) = {Head(todo).id} \cup Highs(Tail(todo))
                 /\ Lows(todo) = Lows(Tail(todo))
           /\ Head(todo).tier = L3 =>
                 /\ Highs(todo) = Highs(Tail(todo))
                 /\ Lows(todo) = {Head(todo).id} \cup Lows(Tail(todo))
BY MembersOfParts DEF Highs, Lows

LEMMA LevelsOfOne ==
    ASSUME NEW id \in Ids, NEW tier \in Tiers
    PROVE  /\ tier # L3 => Highs(<<Put(id, tier)>>) = {id} /\ Lows(<<Put(id, tier)>>) = {}
           /\ tier = L3 => Highs(<<Put(id, tier)>>) = {} /\ Lows(<<Put(id, tier)>>) = {id}
           /\ DistinctPuts(<<Put(id, tier)>>)
<1> DEFINE todo == <<Put(id, tier)>>
<1>1. todo \in Seq(Puts) /\ todo # <<>> /\ Head(todo) = Put(id, tier)
  BY SinglePut
<1>2. Tail(todo) = <<>> /\ Len(todo) = 1
  OBVIOUS
<1>3. Put(id, tier).id = id /\ Put(id, tier).tier = tier
  BY DEF Put
<1> HIDE DEF todo
<1>4. DistinctPuts(todo)
  BY <1>2 DEF DistinctPuts
<1> QED
  BY <1>1, <1>2, <1>3, <1>4, LevelsOfTail, LevelsOfEmpty DEF todo

LEMMA LevelsAreHand ==
    ASSUME NEW todo \in Seq(Puts)
    PROVE  Hand(todo) = Highs(todo) \cup Lows(todo)
<1>1. Hand(todo) = {p.id : p \in Members(todo)}
  BY DEF Hand, Members
<1> QED
  BY <1>1 DEF Highs, Lows

\* The victims of L1 go to L2, those of L2 to L3.
LEMMA LevelsOfLeft ==
    ASSUME NEW victims \in Seq(Ids), NEW tier \in Tiers, NEW rest \in Seq(Puts)
    PROVE  /\ Highs(LeftToDo(victims, tier, rest)) =
                 (IF tier = L1 THEN Members(victims) ELSE {}) \cup Highs(rest)
           /\ Lows(LeftToDo(victims, tier, rest)) =
                 (IF tier = L2 THEN Members(victims) ELSE {}) \cup Lows(rest)
<1> DEFINE q == LeftToDo(victims, tier, rest)
           down == {Put(id, OneBelow(tier)) : id \in Members(victims)}
<1>1. Members(q) = (IF tier = L3 THEN {} ELSE down) \cup Members(rest)
  BY LeftToDoMembers
<1>2. \A p \in down : p.tier = OneBelow(tier)
  BY DEF Put
<1>3. {p.id : p \in down} = Members(victims)
  <2>1. \A id : Put(id, OneBelow(tier)).id = id
    BY DEF Put
  <2>2. ASSUME NEW id \in Members(victims) PROVE \E p \in down : p.id = id
    BY <2>1
  <2>3. ASSUME NEW p \in down PROVE p.id \in Members(victims)
    BY <2>1
  <2> HIDE DEF down
  <2> QED
    BY <2>2, <2>3
<1>4. /\ L1 # L2 /\ L1 # L3 /\ L2 # L3 /\ OneBelow(L1) = L2 /\ OneBelow(L2) = L3
      /\ Tiers = {L1, L2, L3}
  BY ConstantFacts DEF OneBelow, Tiers
<1> HIDE DEF q, down
<1>5. CASE tier = L1
  <2>1. /\ {p \in Members(q) : p.tier # L3} = down \cup {p \in Members(rest) : p.tier # L3}
        /\ {p \in Members(q) : p.tier = L3} = {p \in Members(rest) : p.tier = L3}
    BY <1>1, <1>2, <1>4, <1>5
  <2> QED
    BY <1>3, <1>4, <1>5, <2>1 DEF Highs, Lows, q
<1>6. CASE tier = L2
  <2>1. /\ {p \in Members(q) : p.tier = L3} = down \cup {p \in Members(rest) : p.tier = L3}
        /\ {p \in Members(q) : p.tier # L3} = {p \in Members(rest) : p.tier # L3}
    BY <1>1, <1>2, <1>4, <1>6
  <2> QED
    BY <1>3, <1>4, <1>6, <2>1 DEF Highs, Lows, q
<1>7. CASE tier = L3
  BY <1>1, <1>4, <1>7 DEF Highs, Lows, q
<1> QED
  BY <1>4, <1>5, <1>6, <1>7

\* A thread that is not at the first put of an insert: its todo list alone.
LEMMA NoNewcomer ==
    ASSUME NEW r, Newcomer(r) = {}
    PROVE  Uppers(r) = Highs(r.todo) /\ Lowers(r) = Lows(r.todo)
BY DEF Uppers, Lowers

LEMMA NobodyComes ==
    ASSUME NEW r, r.pc # "put" \/ r.op # "insert" \/ Head(r.todo).tier # r.at
    PROVE  Newcomer(r) = {}
BY DEF Newcomer, Put

\* A newcomer is the memory to be put next.
LEMMA NewcomerIsNext ==
    ASSUME NEW r
    PROVE  Newcomer(r) \subseteq {Head(r.todo).id} /\ Newcomer(r) \subseteq {r.id}
BY DEF Newcomer, Put

\* The victims of a put are no newcomers, nor is what was to be put before.
LEMMA ProceedSettles ==
    ASSUME ManagerInv, NEW t \in Threads, thread[t].pc = "put",
           NEW victims \in Seq(Ids), NEW tier \in Tiers, Proceed(t, victims, tier),
           tier = Head(thread[t].todo).tier
    PROVE  Newcomer(thread'[t]) = {}
<1> DEFINE w    == thread[t]
           rest == Tail(w.todo)
           q    == LeftToDo(victims, tier, rest)
           v    == [w EXCEPT !.todo = q, !.stamped = FALSE]
<1>1. /\ w \in ThreadRecords /\ Sensible(w, used, touched) /\ w.at \in Nat
      /\ thread \in [Threads -> ThreadRecords]
  BY ThreadFacts DEF ManagerInv, ThreadsOK
<1>2. w.todo \in Seq(Puts) /\ w.todo # <<>> /\ rest \in Seq(Puts)
  BY PutFacts
<1>3. thread'[t] = IF q = <<>> THEN Asleep ELSE v
  BY <1>1 DEF Proceed, LeftToDo, Become
<1>4. CASE q = <<>>
  BY <1>3, <1>4, AsleepFacts, NobodyComes
<1>5. CASE q # <<>> /\ w.op # "insert"
  <2>1. v.op = w.op
    BY <1>1 DEF ThreadRecords
  <2> HIDE DEF v
  <2> QED
    BY <1>3, <1>5, <2>1, NobodyComes
<1>6. CASE q # <<>> /\ w.op = "insert"
  <2>1. v.todo = q /\ v.at = w.at
    BY <1>1 DEF ThreadRecords
  <2>2. tier >= w.at /\ \A p \in Members(rest) : p.tier > w.at
    BY <1>1, <1>2, <1>6, BelowParts DEF Sensible
  <2>3. Members(q) = (IF tier = L3 THEN {}
                      ELSE {Put(id, OneBelow(tier)) : id \in Members(victims)}) \cup Members(rest)
    <3> HIDE DEF rest
    <3> QED
      BY <1>2, LeftToDoMembers
  <2>4. \A id : Put(id, OneBelow(tier)).tier > w.at
    <3>1. \A id : Put(id, OneBelow(tier)).tier = OneBelow(tier)
      BY DEF Put
    <3>2. OneBelow(tier) > w.at
      BY <1>1, <2>2, ConstantFacts DEF OneBelow
    <3> QED
      BY <3>1, <3>2
  <2>5. \A p \in Members(q) : p.tier > w.at
    BY <2>2, <2>3, <2>4
  <2>6. Head(q) \in Members(q)
    <3>1. q \in Seq(Puts)
      BY <1>1, <1>2, PutFacts, LeftToDoFacts
    <3> HIDE DEF q
    <3>2. 1 \in 1..Len(q) /\ Head(q) = q[1]
      BY <1>6, <3>1
    <3> QED
      BY <3>2 DEF Members
  <2>7. Head(q).tier # w.at
    <3>1. Head(q).tier > w.at
      BY <2>5, <2>6
    <3> HIDE DEF q
    <3> QED
      BY <1>1, <3>1
  <2> HIDE DEF v, q
  <2> QED
    BY <1>3, <1>6, <2>1, <2>7, NobodyComes
<1> QED
  BY <1>4, <1>5, <1>6

-----------------------------------------------------------------------------
(* What one thread's step leaves of the invariant *)

\* Only known memories are in hand or in motion.
LEMMA HandsAreUsed ==
    ASSUME ManagerInv, NEW t \in Threads
    PROVE  /\ Uppers(thread[t]) \subseteq used /\ Sinking(thread[t]) \subseteq used
           /\ Moving(thread[t]) => thread[t].id \in used
<1>1. /\ thread[t].todo \in Seq(Puts) /\ Sensible(thread[t], used, touched)
  BY ThreadFacts
<1>2. Hand(thread[t].todo) \subseteq used
  BY <1>1 DEF Sensible
<1>3. Moving(thread[t]) => thread[t].id \in used
  BY <1>1 DEF Sensible, Moving
<1>4. Newcomer(thread[t]) \subseteq used
  <2>1. thread[t].pc = "put" => Head(thread[t].todo).id \in used
    BY PutFacts
  <2> QED
    BY <2>1, NewcomerIsNext DEF Newcomer
<1> QED
  BY <1>1, <1>2, <1>3, <1>4, LevelsAreHand DEF Sinking, Uppers, Lowers

\* The memories in the hands of the others, to be stored above L3.
Beside(t) == UNION {Uppers(thread[u]) : u \in Threads \ {t}}

LEMMA AboveParts ==
    ASSUME NEW t \in Threads
    PROVE  /\ Above = Members(fifo) \cup Uppers(thread[t]) \cup Beside(t)
           /\ Above' = Members(fifo') \cup Uppers(thread'[t]) \cup Beside(t)'
<1>1. UNION {Uppers(thread[u]) : u \in Threads} = Uppers(thread[t]) \cup Beside(t)
  BY DEF Beside
<1>2. UNION {Uppers(thread'[u]) : u \in Threads} = Uppers(thread'[t]) \cup Beside(t)'
  BY DEF Beside
<1> QED
  BY <1>1, <1>2 DEF Above

\* A tick stores nothing above L3; while it steps, only the agent may.
LEMMA BesideFacts ==
    ASSUME LoneAgent, TicksBelow, NEW t \in Threads
    PROVE  /\ t \in Tickers => Uppers(thread[t]) = {}
           /\ t \notin Tickers => Beside(t) = {}
<1>1. t \in Tickers => Uppers(thread[t]) = {}
  BY DEF TicksBelow
<1>2. ASSUME t \notin Tickers, NEW u \in Threads \ {t} PROVE Uppers(thread[u]) = {}
  <2>1. u \in Tickers
    BY <1>2, PrunerAssumption DEF LoneAgent
  <2> QED
    BY <2>1 DEF TicksBelow
<1> QED
  BY <1>1, <1>2 DEF Beside

LEMMA SinkFrame ==
    ASSUME LoneAgent, SinkInv, PrunerInv', NEW t \in Threads,
           \A u \in Threads : u # t => thread'[u] = thread[u],
           \A u \in Tickers : u # t => batch'[u] = batch[u],
           used \subseteq used', Above' \cap used \subseteq Above,
           rows'[L2] \subseteq rows[L2] \cup Uppers(thread[t]),
           rows'[L3] \subseteq rows[L3] \cup Lowers(thread[t]) \cup Uppers(thread[t]),
           (Members(fifo') \cup Uppers(thread'[t])) \cap (rows'[L2] \cup rows'[L3]) = {},
           rows'[L2] \cap rows'[L3] = {},
           t \in Tickers => /\ Members(fifo') = Members(fifo) /\ Uppers(thread'[t]) = {}
                            /\ Chosen(t)' \subseteq used \ Above,
           Descending(t)'
    PROVE  SinkInv'
<1> DEFINE H == Uppers(thread[t])
           G == Uppers(thread'[t])
           B == Beside(t)
<1>1. ManagerInv /\ Layered /\ TicksBelow /\ \A u \in Threads : Descending(u)
  BY DEF SinkInv, PrunerInv
<1>2. /\ Above = Members(fifo) \cup H \cup B
      /\ Beside(t)' = B /\ Above' = Members(fifo') \cup G \cup B
  <2>1. Beside(t)' = B
    BY DEF Beside
  <2>2. Above' = Members(fifo') \cup G \cup Beside(t)'
    BY AboveParts
  <2> QED
    BY <2>1, <2>2, AboveParts
<1>3. (t \in Tickers => H = {}) /\ (t \notin Tickers => B = {})
  BY <1>1, BesideFacts
<1>4. Lowers(thread[t]) \cap Above = {}
  BY <1>1 DEF Descending, Sinking
<1> HIDE DEF H, G, B
<1>5. Layered'
  <2>1. B \cap rows'[L2] = {}
    BY <1>1, <1>2, <1>3 DEF Layered, H
  <2>2. B \cap rows'[L3] = {}
    BY <1>1, <1>2, <1>3, <1>4 DEF Layered, H
  <2>3. Above' \cap (rows'[L2] \cup rows'[L3]) = {}
    BY <1>2, <2>1, <2>2 DEF G
  <2> QED
    BY <2>3 DEF Layered
<1>6. ASSUME NEW u \in Threads, u # t PROVE Descending(u)'
  <2>1. thread'[u] = thread[u]
    BY <1>6
  <2>2. /\ Uppers(thread[u]) \subseteq used /\ Sinking(thread[u]) \subseteq used
        /\ Moving(thread[u]) => thread[u].id \in used
    BY <1>1, HandsAreUsed
  <2>3. Descending(u)
    BY <1>1
  <2>4. u \in Tickers \/ t \in Tickers
    BY <1>6, PrunerAssumption DEF LoneAgent
  <2>5. Sinking(thread[u]) \cap (Above' \cup rows'[L2]) = {}
    <3>1. Sinking(thread[u]) \cap (Above \cup rows[L2]) = {}
      BY <2>3 DEF Descending
    <3>2. rows'[L2] \subseteq rows[L2] \cup Above
      BY <1>2 DEF H
    <3> QED
      BY <2>2, <3>1, <3>2
  <2>6. Uppers(thread[u]) \cap Members(fifo') = {}
    BY <1>1, <2>3, <2>4 DEF Descending, TicksBelow
  <2>7. Moving(thread[u]) =>
           IF thread[u].target = L3 THEN thread[u].id \notin Above'
           ELSE thread[u].at = L1 /\ thread[u].id \in Members(fifo')
    <3> SUFFICES ASSUME Moving(thread[u])
                 PROVE  IF thread[u].target = L3 THEN thread[u].id \notin Above'
                        ELSE thread[u].at = L1 /\ thread[u].id \in Members(fifo')
      OBVIOUS
    <3>1. IF thread[u].target = L3 THEN thread[u].id \notin Above
          ELSE thread[u].at = L1 /\ thread[u].id \in Members(fifo)
      BY <2>3 DEF Descending
    <3>2. CASE thread[u].target = L3
      BY <2>2, <3>1, <3>2
    <3>3. CASE thread[u].target # L3
      <4>1. thread[u].id \in Above
        BY <1>2, <3>1, <3>3
      <4>2. u \notin Tickers
        BY <1>1, <4>1 DEF TicksBelow, Chosen, Moving
      <4> QED
        BY <2>4, <3>1, <3>3, <4>2
    <3> QED
      BY <3>2, <3>3
  <2> QED
    BY <2>1, <2>3, <2>5, <2>6, <2>7 DEF Descending
<1>7. ASSUME NEW u \in Tickers PROVE Uppers(thread'[u]) = {} /\ Chosen(u)' \subseteq used' \ Above'
  <2>1. CASE u = t
    BY <2>1
  <2>2. CASE u # t
    <3>1. u \in Threads /\ thread'[u] = thread[u] /\ batch'[u] = batch[u]
      BY <2>2, PrunerFacts
    <3>2. Chosen(u)' = Chosen(u)
      BY <3>1 DEF Chosen
    <3> QED
      BY <1>1, <3>1, <3>2 DEF TicksBelow
  <2> QED
    BY <2>1, <2>2
<1> QED
  BY <1>5, <1>6, <1>7 DEF SinkInv, TicksBelow

-----------------------------------------------------------------------------
(* The steps of a thread *)

\* A thread goes on with the operation and the memory it began with.
LEMMA StepKeeps ==
    ASSUME ManagerInv, NEW t \in Threads, Step(t)
    PROVE  \/ thread'[t] = Asleep
           \/ thread'[t].op = thread[t].op /\ thread'[t].id = thread[t].id
<1> DEFINE w == thread[t]
           Same(r) == r = Asleep \/ (r.op = w.op /\ r.id = w.id)
<1>1. w \in ThreadRecords /\ thread \in [Threads -> ThreadRecords]
  BY DEF ManagerInv, ThreadsOK
<1>2. \A r : Become(t, r) => thread'[t] = r
  BY <1>1 DEF Become
<1> HIDE DEF w
<1>3. /\ \A q : Same([w EXCEPT !.todo = q, !.stamped = FALSE])
      /\ \A q : Same([w EXCEPT !.at = NoTier, !.target = L2, !.stamped = FALSE, !.todo = q])
      /\ Same([w EXCEPT !.stamped = TRUE])
      /\ \A q : Same([w EXCEPT !.pc = "put", !.todo = q])
      /\ \A n : Same([w EXCEPT !.at = n])
      /\ \A target : Same([w EXCEPT !.pc = "remove", !.at = L1, !.target = target])
      /\ \A c : Same([w EXCEPT !.pc = "touch", !.cand = c])
      /\ \A c : Same([w EXCEPT !.cand = c])
      /\ Same(Asleep)
  BY <1>1 DEF ThreadRecords
<1> HIDE DEF Same
<1>4. (Raised(t) => Same(thread'[t])) /\ (Reroute(t) => Same(thread'[t]))
  BY <1>2, <1>3 DEF Raised, Reroute, w
<1>5. \A victims, tier : Proceed(t, victims, tier) => Same(thread'[t])
  BY <1>2, <1>3 DEF Proceed, w
<1>6. PutL1(t) => Same(thread'[t])
  BY <1>2, <1>3, <1>4, <1>5 DEF PutL1, w
<1>7. (Embed(t) => Same(thread'[t])) /\ (PutRaises(t) => Same(thread'[t]))
  BY <1>2, <1>3, <1>4 DEF Embed, PutRaises, w
<1>8. PutRow(t) => Same(thread'[t])
  BY <1>5 DEF PutRow
<1>9. Find(t) => Same(thread'[t])
  BY <1>2, <1>3 DEF Find, w
<1>10. Remove1(t) => Same(thread'[t])
  BY <1>2, <1>3 DEF Remove1, AfterRemove, w
<1>11. QueryRead(t) => Same(thread'[t])
  <2> SUFFICES ASSUME QueryRead(t) PROVE Same(thread'[t])
    OBVIOUS
  <2>1. PICK n, seen : Become(t, [w EXCEPT !.at = n, !.cand = w.cand \cup seen])
    BY DEF QueryRead, w
  <2> DEFINE r == [w EXCEPT !.at = n, !.cand = w.cand \cup seen]
  <2>2. Same(r)
    BY <1>1 DEF ThreadRecords, Same
  <2> HIDE DEF r
  <2>3. thread'[t] = r
    BY <1>2, <2>1 DEF r
  <2> QED
    BY <2>2, <2>3
<1>12. QueryRank(t) => Same(thread'[t])
  BY <1>2, <1>3 DEF QueryRank, w
<1>13. QueryTouch(t) => Same(thread'[t])
  <2> SUFFICES ASSUME QueryTouch(t) PROVE Same(thread'[t])
    OBVIOUS
  <2>1. PICK hit : Become(t, IF w.cand = {hit} THEN Asleep
                             ELSE [w EXCEPT !.cand = w.cand \ {hit}])
    BY DEF QueryTouch, w
  <2> QED
    BY <1>2, <1>3, <2>1
<1> QED
  BY <1>6, <1>7, <1>8, <1>9, <1>10, <1>11, <1>12, <1>13 DEF Step, Same, w

\* A step that takes nothing new in hand brings nothing above L3.
LEMMA AboveSinks ==
    ASSUME ManagerInv, NEW t \in Threads, Step(t),
           Members(fifo') \cup Uppers(thread'[t])
              \subseteq Members(fifo) \cup Uppers(thread[t])
    PROVE  Above' \subseteq Above /\ Beside(t)' = Beside(t)
<1>1. Beside(t)' = Beside(t)
  BY ThreadSteps DEF Beside
<1> QED
  BY <1>1, AboveParts

\* What a step must establish.
LEMMA SinkStepDown ==
    ASSUME LoneAgent, SinkInv, PrunerInv', NEW t \in Threads, Step(t),
           UNCHANGED <<batch, used>>,
           Members(fifo') \cup Uppers(thread'[t])
              \subseteq Members(fifo) \cup Uppers(thread[t]),
           rows'[L2] \subseteq rows[L2] \cup Uppers(thread[t]),
           rows'[L3] \subseteq rows[L3] \cup Lowers(thread[t]) \cup Uppers(thread[t]),
           (Members(fifo') \cup Uppers(thread'[t])) \cap (rows'[L2] \cup rows'[L3]) = {},
           rows'[L2] \cap rows'[L3] = {},
           t \in Tickers => Members(fifo') = Members(fifo),
           Sinking(thread'[t]) \cap (Above' \cup rows'[L2]) = {},
           Uppers(thread'[t]) \cap Members(fifo') = {},
           DistinctPuts(thread'[t].todo),
           Moving(thread'[t]) =>
              IF thread'[t].target = L3 THEN thread'[t].id \notin Above
              ELSE thread'[t].at = L1 /\ thread'[t].id \in Members(fifo')
    PROVE  SinkInv'
<1>1. /\ ManagerInv /\ TicksBelow /\ Descending(t)
  BY DEF SinkInv, PrunerInv
<1>2. \A u \in Threads : u # t => thread'[u] = thread[u]
  BY <1>1, ThreadSteps
<1>3. Above' \subseteq Above
  BY <1>1, AboveSinks
<1>4. t \in Tickers => Uppers(thread'[t]) = {} /\ Chosen(t)' \subseteq used \ Above
  <2> SUFFICES ASSUME t \in Tickers
               PROVE  Uppers(thread'[t]) = {} /\ Chosen(t)' \subseteq used \ Above
    OBVIOUS
  <2>1. Uppers(thread[t]) = {} /\ Chosen(t) \subseteq used \ Above
    BY <1>1 DEF TicksBelow
  <2>2. Uppers(thread'[t]) = {}
    BY <2>1
  <2>3. Chosen(t)' \subseteq Chosen(t)
    <3>1. thread[t].pc # "idle"
      BY <1>1, ThreadSteps
    <3>2. thread'[t].pc = "idle" \/ thread'[t].id = thread[t].id
      BY <1>1, StepKeeps, AsleepFacts
    <3> QED
      BY <3>1, <3>2 DEF Chosen
  <2> QED
    BY <2>1, <2>2, <2>3
<1>5. Descending(t)'
  <2>1. thread'[t].op # "promote"
    BY <1>1, StepKeeps, AsleepFacts DEF Descending
  <2> QED
    BY <1>3, <2>1 DEF Descending
<1> QED
  BY <1>2, <1>3, <1>4, <1>5, SinkFrame

LEMMA SinkStep ==
    ASSUME LoneAgent, SinkInv, PrunerInv', NEW t \in Threads, Step(t),
           UNCHANGED <<batch, used>>,
           Members(fifo') \cup Uppers(thread'[t])
              \subseteq Members(fifo) \cup Uppers(thread[t]),
           rows'[L2] \subseteq rows[L2] \cup Uppers(thread[t]),
           rows'[L3] \subseteq rows[L3] \cup Lowers(thread[t]) \cup Uppers(thread[t]),
           (Members(fifo') \cup Uppers(thread'[t])) \cap (rows'[L2] \cup rows'[L3]) = {},
           rows'[L2] \cap rows'[L3] = {},
           t \in Tickers => Members(fifo') = Members(fifo),
           Sinking(thread'[t]) \cap (Above \cup rows'[L2]) = {},
           Uppers(thread'[t]) \cap Members(fifo') = {},
           DistinctPuts(thread'[t].todo),
           Moving(thread'[t]) =>
              IF thread'[t].target = L3 THEN thread'[t].id \notin Above
              ELSE thread'[t].at = L1 /\ thread'[t].id \in Members(fifo')
    PROVE  SinkInv'
<1>1. ManagerInv
  BY DEF SinkInv, PrunerInv
<1>2. Above' \subseteq Above
  BY <1>1, AboveSinks
<1>3. Sinking(thread'[t]) \cap (Above' \cup rows'[L2]) = {}
  BY <1>2
<1> QED
  BY <1>3, SinkStepDown

\* Steps that leave the tiers alone and take no new memory in hand.
LEMMA SinkQuiet ==
    ASSUME LoneAgent, SinkInv, PrunerInv', NEW t \in Threads, Step(t),
           UNCHANGED <<batch, used, rows>>, Members(fifo') = Members(fifo),
           \/ thread'[t].todo = <<>> /\ thread'[t].pc # "put"
           \/ /\ thread'[t].todo = thread[t].todo
              /\ Newcomer(thread'[t]) = Newcomer(thread[t]),
           Moving(thread'[t]) =>
              /\ thread'[t].at = L3 => thread'[t].id \notin Above \cup rows[L2]
              /\ IF thread'[t].target = L3 THEN thread'[t].id \notin Above
                 ELSE thread'[t].at = L1 /\ thread'[t].id \in Members(fifo)
    PROVE  SinkInv'
<1> DEFINE H == Uppers(thread[t])
           G == Uppers(thread'[t])
           L == Lowers(thread[t])
           M == Lowers(thread'[t])
<1>1. Layered /\ Descending(t)
  BY DEF SinkInv
<1>2. G \subseteq H /\ M \subseteq L /\ DistinctPuts(thread'[t].todo)
  BY <1>1, LevelsOfEmpty, NobodyComes DEF Descending, DistinctPuts, Uppers, Lowers
<1>3. L \cap (Above \cup rows[L2]) = {} /\ H \cap Members(fifo) = {}
  BY <1>1 DEF Descending, Sinking
<1>4. (Members(fifo) \cup H) \subseteq Above
  BY AboveParts
<1>5. Sinking(thread'[t]) \cap (Above \cup rows'[L2]) = {}
  BY <1>2, <1>3 DEF Sinking
<1>6. (Members(fifo') \cup G) \cap (rows'[L2] \cup rows'[L3]) = {}
  BY <1>1, <1>2, <1>4 DEF Layered
<1>7. rows'[L2] \cap rows'[L3] = {}
  BY <1>1 DEF Layered
<1> QED
  BY <1>2, <1>3, <1>5, <1>6, <1>7, SinkStep

\* A thread that is neither putting nor removing has nothing in hand.
LEMMA SinkIdle ==
    ASSUME LoneAgent, SinkInv, PrunerInv', NEW t \in Threads, Step(t),
           UNCHANGED <<batch, used, rows>>, Members(fifo') = Members(fifo),
           thread'[t].pc \notin {"put", "remove"}
    PROVE  SinkInv'
<1>1. Sensible(thread'[t], used', touched')
  BY DEF PrunerInv, ManagerInv, ThreadsOK
<1>2. thread'[t].todo = <<>>
  BY <1>1 DEF Sensible
<1> QED
  BY <1>2, SinkQuiet DEF Moving

LEMMA SinkRaised ==
    ASSUME LoneAgent, SinkInv, PrunerInv', NEW t \in Threads, Step(t), Raised(t),
           UNCHANGED <<batch, used, rows, fifo>>
    PROVE  SinkInv'
<1>1. thread \in [Threads -> ThreadRecords]
  BY DEF SinkInv, PrunerInv, ManagerInv, ThreadsOK
<1>2. thread'[t] = Asleep
  BY <1>1 DEF Raised, Become
<1> QED
  BY <1>2, AsleepFacts, SinkIdle

\* A newcomer that insert() could not store where it was asked to, and will
\* store in L2, was above L3 before.
LEMMA SinkReroute ==
    ASSUME LoneAgent, SinkInv, PrunerInv', NEW t \in Threads, Step(t),
           thread[t].pc = "put", InTry(t), Reroute(t), UNCHANGED <<batch, used, touched, rows, fifo>>
    PROVE  SinkInv'
<1> DEFINE id == thread[t].id
           q  == <<Put(id, L2)>>
<1>1. ManagerInv /\ Layered /\ Descending(t) /\ TicksBelow
  BY DEF SinkInv, PrunerInv
<1>2. /\ id \in Ids /\ thread'[t].pc = "put" /\ thread'[t].todo = q
  BY <1>1, RerouteFacts
<1>3. thread'[t].at = NoTier
  <2>1. thread[t] \in ThreadRecords /\ thread \in [Threads -> ThreadRecords]
    BY <1>1 DEF ManagerInv, ThreadsOK
  <2> QED
    BY <2>1 DEF Reroute, Become, ThreadRecords
<1>4. L2 \in Tiers /\ L2 # L3 /\ L2 # NoTier
  BY ConstantFacts DEF NoTier
<1>5. id \in Uppers(thread[t])
  BY DEF InTry, Uppers, Newcomer
<1>6. Newcomer(thread'[t]) = {}
  <2>1. Head(q).tier = L2
    BY DEF Put
  <2> QED
    BY <1>2, <1>3, <1>4, <2>1, NobodyComes
<1>7. Highs(q) = {id} /\ Lows(q) = {} /\ DistinctPuts(q)
  BY <1>2, <1>4, LevelsOfOne
<1> HIDE DEF q
<1>8. Uppers(thread'[t]) = {id} /\ Lowers(thread'[t]) = {}
  BY <1>2, <1>6, <1>7, NoNewcomer
<1>9. ~Moving(thread'[t]) /\ Sinking(thread'[t]) = {}
  BY <1>2, <1>8 DEF Moving, Sinking
<1>10. Uppers(thread[t]) \subseteq Above /\ Members(fifo) \subseteq Above
  BY AboveParts
<1> HIDE DEF id
<1>11. (Members(fifo) \cup {id}) \cap (rows[L2] \cup rows[L3]) = {} /\ rows[L2] \cap rows[L3] = {}
  BY <1>1, <1>5, <1>10 DEF Layered
<1>12. {id} \cap Members(fifo) = {}
  BY <1>1, <1>5 DEF Descending
<1> QED
  BY <1>2, <1>5, <1>7, <1>8, <1>9, <1>11, <1>12, SinkStep

LEMMA SinkPutRaises ==
    ASSUME LoneAgent, SinkInv, PrunerInv', NEW t \in Threads, Step(t), PutRaises(t),
           UNCHANGED batch
    PROVE  SinkInv'
BY SinkRaised, SinkReroute DEF PutRaises

LEMMA SinkEmbed ==
    ASSUME LoneAgent, SinkInv, PrunerInv', NEW t \in Threads, Step(t), Embed(t),
           UNCHANGED batch
    PROVE  SinkInv'
<1> DEFINE w == thread[t]
<1>1. thread \in [Threads -> ThreadRecords]
  BY DEF SinkInv, PrunerInv, ManagerInv, ThreadsOK
<1>2. /\ w.pc = "put" /\ UNCHANGED <<fifo, rows, used>>
      /\ Become(t, [w EXCEPT !.stamped = TRUE])
  BY DEF Embed
<1>3. w \in ThreadRecords /\ thread'[t] = [w EXCEPT !.stamped = TRUE]
  BY <1>1, <1>2 DEF Become
<1> HIDE DEF w
<1>4. /\ thread'[t].todo = w.todo /\ thread'[t].pc = "put" /\ thread'[t].op = w.op
      /\ thread'[t].id = w.id /\ thread'[t].at = w.at
  BY <1>2, <1>3 DEF ThreadRecords
<1>5. Newcomer(thread'[t]) = Newcomer(w)
  BY <1>2, <1>4 DEF Newcomer
<1> QED
  BY <1>2, <1>4, <1>5, SinkQuiet DEF Moving, w

LEMMA SinkFind ==
    ASSUME LoneAgent, SinkInv, PrunerInv', NEW t \in Threads, Step(t), Find(t),
           UNCHANGED batch
    PROVE  SinkInv'
<1> DEFINE w      == thread[t]
           target == Neighbour(w.op, w.at)
           r1     == [w EXCEPT !.pc = "remove", !.at = L1, !.target = target]
           r2     == [w EXCEPT !.at = w.at + 1]
<1>1. /\ ManagerInv /\ Layered /\ Descending(t) /\ thread \in [Threads -> ThreadRecords]
  BY DEF SinkInv, PrunerInv, ManagerInv, ThreadsOK
<1>2. /\ w \in ThreadRecords /\ Sensible(w, used, touched) /\ w.pc = "find"
  BY <1>1, ThreadFacts DEF Find
<1>3. w.op = "demote" /\ w.at \in Tiers
  BY <1>1, <1>2 DEF Sensible, Descending
<1>4. UNCHANGED <<fifo, rows, used>>
  BY DEF Find
<1>9. w.todo = <<>>
  BY <1>2 DEF Sensible
<1>5. \/ thread'[t] = Asleep
      \/ w.id \in InTier(w.at) /\ target # w.at /\ thread'[t] = r1
      \/ w.at # L3 /\ thread'[t] = r2
  BY <1>1 DEF Find, Become
<1>6. CASE thread'[t] = Asleep
  BY <1>4, <1>6, AsleepFacts, SinkIdle
<1>7. CASE w.id \in InTier(w.at) /\ target # w.at /\ thread'[t] = r1
  <2>1. (w.at = L1 /\ target = L2) \/ (w.at = L2 /\ target = L3)
    BY <1>3, <1>7, ConstantFacts DEF Neighbour
  <2>2. target \in Tiers
    BY <2>1, ConstantFacts
  <2> HIDE DEF w, target
  <2>3. /\ thread'[t].todo = w.todo /\ thread'[t].pc = "remove" /\ thread'[t].id = w.id
        /\ thread'[t].at = L1 /\ thread'[t].target = target
    <3>1. /\ r1.todo = w.todo /\ r1.pc = "remove" /\ r1.id = w.id /\ r1.at = L1
          /\ r1.target = target
      BY <1>2, <2>2, WithRemoval
    <3> HIDE DEF r1
    <3> QED
      BY <1>7, <3>1
  <2>4. L1 # L3 /\ L2 # L3
    BY ConstantFacts
  <2>5. CASE w.at = L1 /\ target = L2
    <3>1. w.id \in Members(fifo)
      BY <1>7, <2>5, InTiersFacts
    <3> QED
      BY <1>4, <1>9, <2>3, <2>4, <2>5, <3>1, SinkQuiet DEF w
  <2>6. CASE w.at = L2 /\ target = L3
    <3>1. w.id \in rows[L2]
      BY <1>7, <2>6, InTiersFacts
    <3>2. w.id \notin Above
      BY <1>1, <3>1 DEF Layered
    <3> QED
      BY <1>4, <1>9, <2>3, <2>4, <2>6, <3>2, SinkQuiet DEF w
  <2> QED
    BY <2>1, <2>5, <2>6
<1>8. CASE w.at # L3 /\ thread'[t] = r2
  <2>1. w.at + 1 \in Tiers
    BY <1>3, <1>8, ConstantFacts
  <2> HIDE DEF w
  <2>2. thread'[t].pc = w.pc
    BY <1>2, <1>8, <2>1, WithTier
  <2> QED
    BY <1>2, <1>4, <2>2, SinkIdle
<1> QED
  BY <1>5, <1>6, <1>7, <1>8

LEMMA SinkQuery ==
    ASSUME LoneAgent, SinkInv, PrunerInv', NEW t \in Threads, Step(t),
           QueryRead(t) \/ QueryRank(t) \/ QueryTouch(t), UNCHANGED batch
    PROVE  SinkInv'
<1>1. ManagerInv /\ DataOK /\ thread \in [Threads -> ThreadRecords]
  BY DEF SinkInv, PrunerInv, ManagerInv, ThreadsOK
<1>2. UNCHANGED <<rows, used>>
  BY DEF QueryRead, QueryRank, QueryTouch
<1>3. Members(fifo') = Members(fifo)
  <2>1. CASE fifo' = fifo
    BY <2>1
  <2>2. CASE \E id \in Members(fifo) : fifo' = Append(Without(fifo, id), id)
    <3>1. PICK id \in Members(fifo) : fifo' = Append(Without(fifo, id), id)
      BY <2>2
    <3>2. fifo \in Seq(Ids) /\ NoRepeats(fifo) /\ id \in Ids
      BY <1>1 DEF DataOK, Members
    <3>3. /\ Without(fifo, id) \in Seq(Ids) /\ NoRepeats(Without(fifo, id))
          /\ Members(Without(fifo, id)) = Members(fifo) \ {id}
      BY <3>2, WithoutProperties
    <3>4. Members(fifo') = Members(Without(fifo, id)) \cup {id}
      BY <3>1, <3>2, <3>3, AppendNewKey
    <3> QED
      BY <3>3, <3>4
  <2> QED
    BY <2>1, <2>2 DEF QueryRead, QueryRank, QueryTouch, InTier
<1>4. thread'[t].pc \in {"idle", "read", "touch"}
  BY <1>1, QueryPositions
<1> QED
  BY <1>2, <1>3, <1>4, SinkIdle

\* A memory that leaves its tier: one of L1 on the way to L2, or any on the way
\* to L3, which is not in L2 any more.
LEMMA SinkRemove ==
    ASSUME LoneAgent, SinkInv, PrunerInv', NEW t \in Threads, Step(t), Remove1(t),
           UNCHANGED batch
    PROVE  SinkInv'
<1> DEFINE w  == thread[t]
           q  == <<Put(w.id, w.target)>>
           r1 == [w EXCEPT !.pc = "put", !.todo = q]
           r2 == [w EXCEPT !.at = w.at + 1]
<1>1. /\ ManagerInv /\ Layered /\ Descending(t) /\ TicksBelow
      /\ thread \in [Threads -> ThreadRecords] /\ used \subseteq Ids
  BY DEF SinkInv, PrunerInv, ManagerInv, ThreadsOK, DataOK
<1>2. /\ w \in ThreadRecords /\ Sensible(w, used, touched) /\ w.pc = "remove"
      /\ w.todo = <<>>
  BY <1>1, ThreadFacts DEF Remove1
<1>3. w.id \in Ids /\ w.at \in Tiers /\ (w.op # "forget" => w.target \in Tiers)
  BY <1>1, <1>2 DEF Sensible
<1>4. UNCHANGED used
  BY DEF Remove1
<1>5. /\ w.id \in InTier(w.at) =>
            thread'[t] = IF w.op = "forget" THEN Asleep ELSE r1
      /\ w.id \notin InTier(w.at) =>
            /\ UNCHANGED <<fifo, rows>>
            /\ thread'[t] = IF w.at = L3 THEN IF w.op = "forget" THEN Asleep ELSE r1
                                         ELSE r2
  BY <1>1 DEF Remove1, AfterRemove, Become
<1>6. /\ Moving(w) <=> w.op # "forget"
      /\ Moving(w) => IF w.target = L3 THEN w.id \notin Above
                      ELSE w.at = L1 /\ w.id \in Members(fifo)
      /\ Moving(w) /\ w.at = L3 => w.id \notin Above \cup rows[L2]
  BY <1>1, <1>2 DEF Moving, Descending, Sinking
<1>7. Members(fifo) \subseteq Above
  BY DEF Above
<1>8. InTier(L1) = Members(fifo) /\ InTier(L2) = rows[L2] /\ InTier(L3) = rows[L3]
  BY InTiersFacts
<1>9. L1 # L2 /\ L1 # L3 /\ L2 # L3 /\ Tiers = {L1, L2, L3}
  BY ConstantFacts DEF Tiers
<1>10. /\ Members(fifo') = IF w.id \in InTier(w.at) /\ w.at = L1
                           THEN Members(fifo) \ {w.id} ELSE Members(fifo)
       /\ rows'[L2] = IF w.id \in InTier(w.at) /\ w.at = L2
                      THEN rows[L2] \ {w.id} ELSE rows[L2]
       /\ rows'[L3] = IF w.id \in InTier(w.at) /\ w.at = L3
                      THEN rows[L3] \ {w.id} ELSE rows[L3]
  <2>1. CASE w.id \in InTier(w.at)
    <3>1. \A any \in Tiers : InTier(any)' = IF any = w.at THEN InTier(any) \ {w.id}
                                             ELSE InTier(any)
      BY <1>1, <1>3, <2>1, RemoveEffect
    <3>2. InTier(L1)' = Members(fifo') /\ InTier(L2)' = rows'[L2] /\ InTier(L3)' = rows'[L3]
      BY <1>9 DEF InTier
    <3> QED
      BY <1>8, <1>9, <2>1, <3>1, <3>2
  <2>2. CASE w.id \notin InTier(w.at)
    BY <1>5, <2>2
  <2> QED
    BY <2>1, <2>2
<1>11. t \in Tickers => Members(fifo') = Members(fifo)
  <2> SUFFICES ASSUME t \in Tickers PROVE w.id \notin Members(fifo)
    BY <1>8, <1>10
  <2>1. w.id \in Chosen(t)
    BY <1>2 DEF Chosen
  <2> QED
    BY <1>1, <1>7, <2>1 DEF TicksBelow
<1> HIDE DEF w, q, r1, r2
<1>12. /\ Uppers(w) = {} /\ Lowers(w) = {}
  BY <1>2, LevelsOfEmpty, NobodyComes, NoNewcomer
<1>13. Members(fifo') \cap (rows'[L2] \cup rows'[L3]) = {} /\ rows'[L2] \cap rows'[L3] = {}
  BY <1>1, <1>7, <1>10 DEF Layered
<1>14. CASE thread'[t] = Asleep
  <2>1. /\ Uppers(Asleep) = {} /\ Sinking(Asleep) = {} /\ ~Moving(Asleep)
        /\ DistinctPuts(Asleep.todo)
    BY AsleepFacts, LevelsOfEmpty, NobodyComes, NoNewcomer DEF Sinking, Moving, DistinctPuts
  <2> QED
    BY <1>4, <1>10, <1>11, <1>13, <1>14, <2>1, SinkStep
<1>15. CASE thread'[t] = r2 /\ w.at # L3 /\ UNCHANGED <<fifo, rows>>
            /\ w.id \notin InTier(w.at)
  <2>1. w.at + 1 \in Tiers /\ (w.at + 1 = L3 => w.at = L2) /\ w.at + 1 # L1
    BY <1>3, <1>15, ConstantFacts
  <2>2. /\ thread'[t].todo = <<>> /\ thread'[t].op = w.op /\ thread'[t].id = w.id
        /\ thread'[t].at = w.at + 1 /\ thread'[t].target = w.target
        /\ thread'[t].pc = w.pc
    BY <1>2, <1>15, <2>1, WithTier DEF r2
  <2>3. Moving(thread'[t]) => w.op # "forget"
    BY <2>2 DEF Moving
  <2>4. w.op # "forget" => w.target = L3 /\ w.id \notin Above
    BY <1>6, <1>8, <1>15
  <2>5. thread'[t].at = L3 => w.id \notin rows[L2]
    BY <1>8, <1>15, <2>1, <2>2
  <2> QED
    BY <1>2, <1>4, <1>15, <2>2, <2>3, <2>4, <2>5, SinkQuiet
<1>16. CASE thread'[t] = r1 /\ w.op # "forget"
  <2>1. /\ thread'[t].todo = q /\ thread'[t].pc = "put" /\ thread'[t].op # "insert"
    BY <1>2, <1>16 DEF r1, ThreadRecords, Sensible
  <2>2. /\ Uppers(thread'[t]) = Highs(q) /\ Lowers(thread'[t]) = Lows(q)
        /\ ~Moving(thread'[t]) /\ Sinking(thread'[t]) = Lows(q)
    BY <2>1, NobodyComes, NoNewcomer DEF Moving, Sinking
  <2>3. w.target \in Tiers /\ DistinctPuts(q)
    BY <1>3, <1>16, LevelsOfOne DEF q
  <2>4. CASE w.target = L3
    <3>1. Highs(q) = {} /\ Lows(q) = {w.id}
      BY <1>3, <2>4, LevelsOfOne, <1>9 DEF q
    <3>2. w.id \notin Above
      BY <1>6, <1>16, <2>4
    <3>3. w.id \notin rows'[L2]
      <4>1. w.at # L1
        <5> SUFFICES ASSUME w.at = L1 PROVE FALSE
          OBVIOUS
        <5>1. w.id \notin InTier(w.at)
          BY <1>7, <1>8, <3>2
        <5>2. r1 = r2
          BY <1>5, <1>9, <1>16, <5>1
        <5>3. r1.pc = "put" /\ r2.pc = "remove"
          BY <1>2 DEF r1, r2, ThreadRecords
        <5> QED
          BY <5>2, <5>3
      <4>2. w.at = L2 => w.id \notin rows'[L2]
        BY <1>8, <1>10
      <4>3. w.at = L3 => w.id \notin rows'[L2]
        BY <1>6, <1>10, <1>16
      <4> QED
        BY <1>3, <1>9, <4>1, <4>2, <4>3
    <3> QED
      BY <1>4, <1>10, <1>11, <1>12, <1>13, <2>1, <2>2, <2>3, <3>1, <3>2, <3>3, SinkStep DEF w
  <2>5. CASE w.target # L3
    <3>1. Highs(q) = {w.id} /\ Lows(q) = {}
      BY <1>3, <1>16, <2>3, <2>5, LevelsOfOne DEF q
    <3>2. w.at = L1 /\ w.id \in Members(fifo)
      BY <1>6, <1>16, <2>5
    <3>3. Members(fifo') = Members(fifo) \ {w.id} /\ rows'[L2] = rows[L2] /\ rows'[L3] = rows[L3]
      BY <1>8, <1>9, <1>10, <3>2
    <3>4. w.id \notin rows[L2] \cup rows[L3]
      BY <1>1, <1>7, <3>2 DEF Layered
    <3> QED
      BY <1>4, <1>11, <1>12, <1>13, <2>1, <2>2, <2>3, <3>1, <3>2, <3>3, <3>4, SinkStep DEF w
  <2> QED
    BY <2>4, <2>5
<1> QED
  BY <1>5, <1>14, <1>15, <1>16

\* A memory the agent stores in L1 is in no tier, and sends the oldest to L2.
LEMMA SinkPutL1 ==
    ASSUME LoneAgent, SinkInv, PrunerInv', NEW t \in Threads, Step(t), PutL1(t),
           UNCHANGED batch
    PROVE  SinkInv'
<1> DEFINE w    == thread[t]
           id   == Head(w.todo).id
           rest == Tail(w.todo)
<1>1. /\ ManagerInv /\ Layered /\ Descending(t) /\ TicksBelow
      /\ thread \in [Threads -> ThreadRecords]
  BY DEF SinkInv, PrunerInv, ManagerInv, ThreadsOK
<1>2. /\ w.pc = "put" /\ Head(w.todo).tier = L1 /\ UNCHANGED <<rows, touched, used>>
  BY <1>1, PutL1Effect
<1>3. /\ id \in Ids /\ id \in used /\ w.todo \in Seq(Puts) /\ w.todo # <<>> /\ rest = <<>>
  BY <1>1, <1>2, PutFacts, TodoFacts
<1>4. Uppers(w) = {id} /\ Lowers(w) = {}
  <2>1. Head(w.todo).tier # L3
    BY <1>2, ConstantFacts
  <2> QED
    BY <1>3, <2>1, LevelsOfTail, LevelsOfEmpty, NewcomerIsNext DEF Uppers, Lowers
<1>5. t \notin Tickers
  BY <1>1, <1>4 DEF TicksBelow
<1>6. Members(fifo) \subseteq Above /\ id \in Above /\ id \notin Members(fifo)
  BY <1>1, <1>4, AboveParts DEF Descending
<1>7. Above \cap (rows[L2] \cup rows[L3]) = {} /\ rows[L2] \cap rows[L3] = {}
  BY <1>1 DEF Layered
<1>8. CASE Size[id] <= Cap[L1]
  <2>1. PICK victims \in Seq(Ids) :
           /\ NoRepeats(victims) /\ Members(victims) \subseteq Members(fifo) \ {id}
           /\ Members(fifo') = (Members(fifo) \cup {id}) \ Members(victims)
           /\ Proceed(t, victims, L1)
    BY <1>1, <1>8, PutL1Effect
  <2>2. L1 \in Tiers /\ L1 # L2
    BY ConstantFacts
  <2>3. Members(victims) \subseteq used
    <3>1. InTier(L1) \subseteq used
      BY <1>1, <2>2 DEF ManagerInv, DataOK
    <3> QED
      BY <2>1, <3>1, InTiersFacts
  <2>4. /\ thread'[t].todo = LeftToDo(victims, L1, rest)
        /\ thread'[t].pc \in {"idle", "put"}
    BY <1>1, <1>2, <2>1, <2>2, <2>3, ProceedFacts
  <2>11. Newcomer(thread'[t]) = {}
    BY <1>1, <1>2, <2>1, <2>2, ProceedSettles
  <2> HIDE DEF id, rest
  <2>5. /\ <<>> \in Seq(Puts) /\ DistinctPuts(<<>>)
        /\ Members(victims) \cap Hand(<<>>) = {}
    BY AsleepFacts DEF DistinctPuts
  <2>6. /\ Uppers(thread'[t]) = Members(victims) /\ Lowers(thread'[t]) = {}
    <3>1. rest \in Seq(Puts) /\ Highs(rest) = {} /\ Lows(rest) = {}
      BY <1>3, <2>5, LevelsOfEmpty
    <3>2. /\ Highs(LeftToDo(victims, L1, rest)) = Members(victims) \cup Highs(rest)
          /\ Lows(LeftToDo(victims, L1, rest)) = {} \cup Lows(rest)
      BY <2>2, <3>1, LevelsOfLeft
    <3> QED
      BY <2>4, <2>11, <3>1, <3>2, NoNewcomer
  <2>7. DistinctPuts(thread'[t].todo)
    <3>1. rest \in Seq(Puts) /\ DistinctPuts(rest) /\ Members(victims) \cap Hand(rest) = {}
      BY <1>3, <2>5
    <3>2. DistinctPuts(LeftToDo(victims, L1, rest))
      BY <2>1, <2>2, <3>1, DistinctLeft
    <3> QED
      BY <2>4, <3>2
  <2>8. ~Moving(thread'[t]) /\ Sinking(thread'[t]) = {}
    BY <2>4, <2>6 DEF Moving, Sinking
  <2> DEFINE V == Members(victims)
             F == Members(fifo)
  <2>9. /\ F' \cup V \subseteq F \cup {id} /\ V \cap F' = {}
    BY <2>1
  <2>10. (F' \cup V) \cap (rows'[L2] \cup rows'[L3]) = {}
    BY <1>2, <1>6, <1>7, <2>9
  <2> QED
    BY <1>2, <1>4, <1>5, <1>7, <2>6, <2>7, <2>8, <2>9, <2>10, SinkStep DEF w
<1>9. CASE ~(Size[id] <= Cap[L1])
  <2>1. /\ UNCHANGED fifo
        /\ InTry(t) => Reroute(t)
        /\ ~InTry(t) => Raised(t)
    BY <1>1, <1>9, PutL1Effect
  <2> QED
    BY <1>2, <2>1, SinkRaised, SinkReroute
<1> QED
  BY <1>8, <1>9

\* A memory is stored in L2, or straight in L3, by the agent that alone has it
\* in hand; in L3 else by threads whose memory has left L2 for good.
LEMMA SinkPutRow ==
    ASSUME LoneAgent, SinkInv, PrunerInv', NEW t \in Threads, Step(t), PutRow(t),
           UNCHANGED batch
    PROVE  SinkInv'
<1> DEFINE w    == thread[t]
           id   == Head(w.todo).id
           rest == Tail(w.todo)
<1>1. ManagerInv /\ Layered /\ Descending(t) /\ TicksBelow
  BY DEF SinkInv, PrunerInv
<1>2. PICK tier \in {L2, L3} : tier = Head(w.todo).tier
  BY <1>1, PutRowEffect
<1>3. w.pc = "put" /\ UNCHANGED <<fifo, touched, used>>
  BY <1>1, PutRowEffect
<1>4. PICK victims \in Seq(Ids) :
         /\ NoRepeats(victims) /\ Members(victims) \subseteq rows[tier] \cup {id}
         /\ rows' = [rows EXCEPT ![tier] = (rows[tier] \cup {id}) \ Members(victims)]
         /\ Proceed(t, victims, tier)
  BY <1>1, <1>2, PutRowEffect
<1>5. /\ id \in used /\ id \in Ids /\ w.todo \in Seq(Puts) /\ w.todo # <<>>
      /\ rest \in Seq(Puts) /\ DistinctPuts(rest) /\ id \notin Hand(rest)
  BY <1>1, <1>3, PutFacts, DistinctTail DEF Descending
<1>6. /\ tier # L3 => /\ Uppers(w) = {id} \cup Highs(rest)
                      /\ Lowers(w) = Lows(rest)
      /\ tier = L3 /\ id \in Newcomer(w) => /\ Uppers(w) = {id} \cup Highs(rest)
                                            /\ Lowers(w) = Lows(rest)
      /\ tier = L3 /\ id \notin Newcomer(w) => /\ Uppers(w) = Highs(rest)
                                               /\ Lowers(w) = {id} \cup Lows(rest)
  <2>1. /\ tier # L3 => Highs(w.todo) = {id} \cup Highs(rest) /\ Lows(w.todo) = Lows(rest)
        /\ tier = L3 => Highs(w.todo) = Highs(rest) /\ Lows(w.todo) = {id} \cup Lows(rest)
    BY <1>2, <1>5, LevelsOfTail
  <2>2. Newcomer(w) \subseteq {id}
    BY NewcomerIsNext
  <2>3. id \notin Highs(rest) /\ id \notin Lows(rest)
    BY <1>5, LevelsAreHand
  <2> HIDE DEF id, rest, w
  <2> QED
    BY <2>1, <2>2, <2>3 DEF Uppers, Lowers
<1>7. Hand(rest) = Highs(rest) \cup Lows(rest)
  BY <1>5, LevelsAreHand
<1>8. /\ Uppers(w) \subseteq Above /\ Members(fifo) \subseteq Above
      /\ Lowers(w) \cap (Above \cup rows[L2]) = {}
      /\ Uppers(w) \cap Members(fifo) = {}
  BY <1>1, AboveParts DEF Descending, Sinking
<1>9. Above \cap (rows[L2] \cup rows[L3]) = {} /\ rows[L2] \cap rows[L3] = {}
  BY <1>1 DEF Layered
<1>10. tier \in Tiers /\ L1 # L2 /\ L1 # L3 /\ L2 # L3
  BY ConstantFacts
<1>11. rows \in [{L2, L3} -> SUBSET Ids] /\ rows[tier] \subseteq used
  <2>1. InTier(tier) = rows[tier]
    BY <1>10, InTiersFacts
  <2> QED
    BY <1>1, <1>10, <2>1 DEF ManagerInv, DataOK
<1>12. /\ thread'[t].todo = LeftToDo(victims, tier, rest)
       /\ thread'[t].pc \in {"idle", "put"}
  BY <1>1, <1>2, <1>3, <1>4, <1>5, <1>10, <1>11, ProceedFacts
<1>16. /\ Uppers(thread'[t]) = Highs(LeftToDo(victims, tier, rest))
       /\ Lowers(thread'[t]) = Lows(LeftToDo(victims, tier, rest))
  <2>1. Newcomer(thread'[t]) = {}
    BY <1>1, <1>2, <1>3, <1>4, <1>10, ProceedSettles
  <2> QED
    BY <1>12, <2>1, NoNewcomer
<1> DEFINE V == Members(victims)
<1> HIDE DEF id, rest
<1> HIDE DEF w
<1>13. ~Moving(thread'[t]) /\ Sinking(thread'[t]) = Lowers(thread'[t])
  BY <1>12 DEF Moving, Sinking
<1>14. CASE tier = L2
  <2>1. /\ Uppers(w) = {id} \cup Highs(rest) /\ Lowers(w) = Lows(rest)
    BY <1>6, <1>10, <1>14
  <2>2. /\ rows'[L2] = (rows[L2] \cup {id}) \ V /\ rows'[L3] = rows[L3]
    BY <1>4, <1>10, <1>11, <1>14
  <2>3. V \subseteq rows[L2] \cup {id}
    BY <1>4, <1>14
  <2>4. V \cap Hand(rest) = {}
    BY <1>5, <1>7, <1>8, <1>9, <2>1, <2>3
  <2>5. DistinctPuts(thread'[t].todo)
    BY <1>4, <1>5, <1>10, <1>12, <2>4, DistinctLeft
  <2>6. Uppers(thread'[t]) = Highs(rest) /\ Lowers(thread'[t]) = V \cup Lows(rest)
    <3>1. /\ Highs(LeftToDo(victims, tier, rest)) = {} \cup Highs(rest)
          /\ Lows(LeftToDo(victims, tier, rest)) = V \cup Lows(rest)
      BY <1>5, <1>10, <1>14, LevelsOfLeft
    <3> QED
      BY <1>16, <3>1
  <2>7. t \notin Tickers
    BY <1>1, <2>1 DEF TicksBelow, w
  <2>8. Above' \subseteq Above /\ Above' = Members(fifo) \cup Highs(rest)
    <3>1. Beside(t) = {}
      BY <1>1, <2>7, BesideFacts
    <3>2. Above' \subseteq Above /\ Beside(t)' = Beside(t)
      BY <1>1, <1>3, <2>1, <2>6, AboveSinks DEF w
    <3> QED
      BY <1>3, <2>6, <3>1, <3>2, AboveParts
  <2>9. id \in Above /\ id \notin Above'
    BY <1>5, <1>7, <1>8, <2>1, <2>8
  <2>10. Sinking(thread'[t]) \cap (Above' \cup rows'[L2]) = {}
    BY <1>8, <1>9, <1>13, <2>1, <2>2, <2>3, <2>6, <2>8, <2>9
  <2>11. (Members(fifo) \cup Highs(rest)) \cap (rows'[L2] \cup rows'[L3]) = {}
    BY <1>8, <1>9, <2>1, <2>2, <2>8, <2>9
  <2>12. rows'[L2] \cap rows'[L3] = {}
    BY <1>9, <2>2, <2>9
  <2>13. Highs(rest) \cap Members(fifo) = {}
    BY <1>8, <2>1
  <2> HIDE DEF V
  <2> QED
    BY <1>3, <1>13, <2>1, <2>2, <2>5, <2>6, <2>7, <2>10, <2>11, <2>12, <2>13, SinkStepDown DEF w
<1>15. ASSUME tier = L3 PROVE SinkInv'
  <2>1. /\ rows'[L3] = (rows[L3] \cup {id}) \ V /\ rows'[L2] = rows[L2]
    BY <1>4, <1>10, <1>11, <1>15
  <2>2. /\ thread'[t].todo = rest /\ Uppers(thread'[t]) = Highs(rest)
        /\ Lowers(thread'[t]) = Lows(rest)
    BY <1>5, <1>12, <1>15, <1>16 DEF LeftToDo
  <2> HIDE DEF V
  <2>3. CASE id \in Newcomer(w)
    <3>1. /\ Uppers(w) = {id} \cup Highs(rest) /\ Lowers(w) = Lows(rest)
      BY <1>6, <1>15, <2>3
    <3>2. t \notin Tickers
      BY <1>1, <3>1 DEF TicksBelow, w
    <3>3. Above' \subseteq Above /\ Above' = Members(fifo) \cup Highs(rest)
      <4>1. Beside(t) = {}
        BY <1>1, <3>2, BesideFacts
      <4>2. Above' \subseteq Above /\ Beside(t)' = Beside(t)
        BY <1>1, <1>3, <2>2, <3>1, AboveSinks DEF w
      <4> QED
        BY <1>3, <2>2, <4>1, <4>2, AboveParts
    <3>4. id \in Above /\ id \notin Above'
      BY <1>5, <1>7, <1>8, <3>1, <3>3
    <3>5. Sinking(thread'[t]) \cap (Above' \cup rows'[L2]) = {}
      BY <1>8, <1>13, <2>1, <2>2, <3>1, <3>3
    <3>6. (Members(fifo) \cup Highs(rest)) \cap (rows'[L2] \cup rows'[L3]) = {}
      BY <1>8, <1>9, <2>1, <3>1, <3>3, <3>4
    <3>7. rows'[L2] \cap rows'[L3] = {}
      BY <1>9, <2>1, <3>4
    <3>8. Highs(rest) \cap Members(fifo) = {}
      BY <1>8, <3>1
    <3> QED
      BY <1>3, <1>5, <1>13, <2>1, <2>2, <3>1, <3>2, <3>5, <3>6, <3>7, <3>8, SinkStepDown DEF w
  <2>4. CASE id \notin Newcomer(w)
    <3>1. /\ Uppers(w) = Highs(rest) /\ Lowers(w) = {id} \cup Lows(rest)
      BY <1>6, <1>15, <2>4
    <3>2. Above' \subseteq Above
      BY <1>1, <1>3, <2>2, <3>1, AboveSinks DEF w
    <3>3. Sinking(thread'[t]) \cap (Above' \cup rows'[L2]) = {}
      BY <1>8, <1>13, <2>1, <2>2, <3>1, <3>2
    <3>4. (Members(fifo) \cup Highs(rest)) \cap (rows'[L2] \cup rows'[L3]) = {}
      BY <1>8, <1>9, <2>1, <3>1
    <3>5. rows'[L2] \cap rows'[L3] = {}
      BY <1>8, <1>9, <2>1, <3>1
    <3>6. Highs(rest) \cap Members(fifo) = {}
      BY <1>8, <3>1
    <3> QED
      BY <1>3, <1>5, <1>13, <2>1, <2>2, <3>1, <3>3, <3>4, <3>5, <3>6, SinkStepDown DEF w
  <2> QED
    BY <2>3, <2>4
<1> QED
  BY <1>14, <1>15

LEMMA SinkManagerStep ==
    ASSUME LoneAgent, SinkInv, PrunerInv', NEW t \in Threads, ManagerStep(t)
    PROVE  SinkInv'
<1>1. Step(t) /\ UNCHANGED batch
  BY DEF ManagerStep
<1> QED
  BY <1>1, SinkPutL1, SinkEmbed, SinkPutRaises, SinkPutRow, SinkFind, SinkRemove, SinkQuery
  DEF Step

-----------------------------------------------------------------------------
(* The starts of operations and of ticks *)

LEMMA AboveIsUsed == ASSUME ManagerInv PROVE Above \subseteq used
<1>1. \A t \in Threads : Uppers(thread[t]) \subseteq used
  BY HandsAreUsed
<1>2. Members(fifo) \subseteq used
  <2>1. L1 \in Tiers
    BY ConstantFacts
  <2> QED
    BY <2>1, InTiersFacts DEF ManagerInv, DataOK
<1> QED
  BY <1>1, <1>2 DEF Above

\* A start that takes nothing in hand.
LEMMA SinkStart ==
    ASSUME LoneAgent, SinkInv, PrunerInv', NEW t \in Threads,
           \A u \in Threads : u # t => thread'[u] = thread[u],
           \A u \in Tickers : u # t => batch'[u] = batch[u],
           UNCHANGED <<fifo, rows, used>>,
           thread'[t].todo = <<>>, thread'[t].pc # "put", ~Moving(thread'[t]),
           thread'[t].op # "promote",
           t \in Tickers => Chosen(t)' \subseteq used \ Above
    PROVE  SinkInv'
<1>1. Layered
  BY DEF SinkInv
<1>2. Uppers(thread'[t]) = {} /\ Sinking(thread'[t]) = {} /\ DistinctPuts(thread'[t].todo)
  BY LevelsOfEmpty, NobodyComes, NoNewcomer DEF Sinking, DistinctPuts
<1>3. Above' \subseteq Above /\ Members(fifo) \subseteq Above
  <2>1. Beside(t)' = Beside(t)
    BY DEF Beside
  <2> QED
    BY <1>2, <2>1, AboveParts
<1>4. Descending(t)'
  BY <1>2 DEF Descending
<1> QED
  BY <1>1, <1>2, <1>3, <1>4, SinkFrame DEF Layered

LEMMA SinkInsert ==
    ASSUME LoneAgent, SinkInv, PrunerInv', NEW a \in Agents, NEW id \in Ids,
           NEW tier \in Tiers, Insert(a, id, tier), UNCHANGED batch
    PROVE  SinkInv'
<1> DEFINE q == <<Put(id, tier)>>
           r == Doing("insert", "put", id, tier, tier, q)
<1>1. ManagerInv /\ Layered /\ DataOK
  BY DEF SinkInv, PrunerInv, ManagerInv
<1>2. a \in Threads /\ a \notin Tickers
  BY PrunerFacts
<1>3. /\ \A u \in Threads : u # a => thread'[u] = thread[u]
      /\ thread'[a] = r
  BY <1>1, <1>2 DEF Insert, Become, ManagerInv, ThreadsOK
<1>4. UNCHANGED <<fifo, rows>> /\ id \notin used /\ used' = used \cup {id}
  BY DEF Insert
<1>5. /\ r.todo = q /\ r.pc = "put" /\ r.op = "insert" /\ r.id = id /\ r.at = tier
      /\ Head(q) = Put(id, tier)
  BY DEF Doing
<1> HIDE DEF r, q
<1>6. Uppers(r) = {id} /\ Lowers(r) = {} /\ DistinctPuts(q)
  <2>1. Newcomer(r) = {id}
    BY <1>5 DEF Newcomer
  <2>2. /\ tier # L3 => Highs(q) = {id} /\ Lows(q) = {}
        /\ tier = L3 => Highs(q) = {} /\ Lows(q) = {id}
        /\ DistinctPuts(q)
    BY LevelsOfOne DEF q
  <2> QED
    BY <1>5, <2>1, <2>2 DEF Uppers, Lowers
<1>7. ~Moving(thread'[a]) /\ Sinking(thread'[a]) = {}
  BY <1>3, <1>5, <1>6 DEF Moving, Sinking
<1>8. Above \subseteq used /\ rows[L2] \subseteq used /\ rows[L3] \subseteq used
  <2>1. L2 \in Tiers /\ L3 \in Tiers
    BY ConstantFacts
  <2> QED
    BY <1>1, <2>1, AboveIsUsed, InTiersFacts DEF DataOK
<1>9. Above' \subseteq Above \cup {id} /\ Members(fifo) \subseteq Above
  <2>1. Beside(a)' = Beside(a)
    BY <1>3 DEF Beside
  <2> QED
    BY <1>2, <1>3, <1>4, <1>6, <2>1, AboveParts
<1>10. Above' \cap used \subseteq Above
  BY <1>4, <1>6, <1>9
<1>11. (Members(fifo') \cup {id}) \cap (rows'[L2] \cup rows'[L3]) = {}
  BY <1>1, <1>4, <1>6, <1>8, <1>9 DEF Layered
<1>12. Descending(a)'
  <2>1. {id} \cap Members(fifo') = {}
    BY <1>4, <1>8, <1>9
  <2> QED
    BY <1>3, <1>5, <1>6, <1>7, <2>1 DEF Descending
<1> QED
  BY <1>1, <1>2, <1>3, <1>4, <1>5, <1>6, <1>10, <1>11, <1>12, SinkFrame DEF Layered

LEMMA SinkAgentStart ==
    ASSUME LoneAgent, NeverPromotes, SinkInv, PrunerInv', NEW a \in Agents, AgentStart(a)
    PROVE  SinkInv'
<1>1. ManagerInv /\ a \in Threads /\ a \notin Tickers /\ thread \in [Threads -> ThreadRecords]
  BY PrunerFacts DEF SinkInv, PrunerInv, ManagerInv, ThreadsOK
<1>2. Start(a) /\ UNCHANGED batch /\ thread'[a].op # "promote"
  BY DEF AgentStart, prunerVars, NeverPromotes
<1>3. UNCHANGED <<fifo, rows>> /\ \A u \in Threads : u # a => thread'[u] = thread[u]
  BY <1>1, <1>2, ThreadSteps
<1>4. ASSUME UNCHANGED used, thread'[a].todo = <<>>, thread'[a].pc # "put",
             ~Moving(thread'[a])
      PROVE  SinkInv'
  BY <1>1, <1>2, <1>3, <1>4, SinkStart
<1>5. \A r : Become(a, r) => thread'[a] = r
  BY <1>1 DEF Become
<1>6. \A op, pc, id, at, target, todo :
         LET r == Doing(op, pc, id, at, target, todo) IN r.todo = todo /\ r.pc = pc /\ r.op = op
  BY DEF Doing
<1>7. ASSUME NEW op, NEW id, Move(a, op, id) PROVE SinkInv'
  <2>1. UNCHANGED used /\ thread'[a] = Doing(op, "find", id, L1, NoTier, <<>>)
    BY <1>5, <1>7 DEF Move
  <2> QED
    BY <1>4, <1>6, <2>1 DEF Moving
<1>8. ASSUME NEW id, Forget(a, id) PROVE SinkInv'
  <2>1. UNCHANGED used /\ thread'[a] = Doing("forget", "remove", id, L1, NoTier, <<>>)
    BY <1>5, <1>8 DEF Forget
  <2> QED
    BY <1>4, <1>6, <2>1 DEF Moving
<1>9. ASSUME NEW floor, QueryStart(a, floor) PROVE SinkInv'
  <2>1. UNCHANGED used /\ thread'[a] = Doing("query", "read", NoId, 1, floor, <<>>)
    BY <1>5, <1>9 DEF QueryStart
  <2> QED
    BY <1>4, <1>6, <2>1 DEF Moving
<1> QED
  BY <1>2, <1>7, <1>8, <1>9, SinkInsert DEF Start

\* A tick begins with rows of L2 ...
LEMMA SinkTickStart ==
    ASSUME LoneAgent, SinkInv, PrunerInv', NEW t \in Tickers, TickStart(t)
    PROVE  SinkInv'
<1>1. /\ ManagerInv /\ DataOK /\ Layered /\ PruningOK /\ t \in Threads /\ Descending(t)
  BY PrunerFacts DEF SinkInv, PrunerInv, ManagerInv
<1>2. /\ thread[t].pc = "idle" /\ UNCHANGED <<fifo, rows, used, thread>>
      /\ batch' = [batch EXCEPT ![t] = FirstOf(Candidates)]
  BY DEF TickStart, Ticking, vars
<1>3. thread'[t].todo = <<>>
  <2>1. Sensible(thread[t], used, touched)
    BY <1>1, ThreadFacts
  <2> QED
    BY <1>2, <2>1 DEF Sensible
<1>4. /\ batch'[t] = FirstOf(Candidates)
      /\ \A u \in Tickers : u # t => batch'[u] = batch[u]
  BY <1>1, <1>2 DEF PruningOK
<1>5. Chosen(t)' \subseteq used \ Above
  <2>1. Members(FirstOf(Candidates)) \subseteq rows[L2]
    BY <1>1, BatchFacts
  <2>2. Chosen(t)' = Members(FirstOf(Candidates))
    BY <1>2, <1>4 DEF Chosen
  <2>3. L2 \in Tiers /\ rows[L2] \subseteq used
    BY <1>1, ConstantFacts, InTiersFacts DEF DataOK
  <2> QED
    BY <1>1, <2>1, <2>2, <2>3 DEF Layered
<1>6. ~Moving(thread'[t]) /\ thread'[t].op # "promote"
  BY <1>1, <1>2 DEF Moving, Descending
<1> QED
  BY <1>1, <1>2, <1>3, <1>4, <1>5, <1>6, SinkStart

\* ... and demotes them one by one.
LEMMA SinkTickDemote ==
    ASSUME LoneAgent, SinkInv, PrunerInv', NEW t \in Tickers, TickDemote(t)
    PROVE  SinkInv'
<1> DEFINE s  == batch[t]
           id == Head(s)
<1>1. ManagerInv /\ TicksBelow /\ PruningOK /\ t \in Threads /\ thread \in [Threads -> ThreadRecords]
  BY PrunerFacts DEF SinkInv, PrunerInv, ManagerInv, ThreadsOK
<1>2. /\ s # <<>> /\ UNCHANGED <<fifo, rows, used>>
      /\ Become(t, Doing("demote", "find", id, L1, NoTier, <<>>))
      /\ batch' = [batch EXCEPT ![t] = Tail(s)]
  BY DEF TickDemote, Move
<1>3. s \in Seq(Ids) /\ batch'[t] = Tail(s) /\ \A u \in Tickers : u # t => batch'[u] = batch[u]
  BY <1>1, <1>2 DEF PruningOK
<1>4. /\ thread'[t] = Doing("demote", "find", id, L1, NoTier, <<>>)
      /\ \A u \in Threads : u # t => thread'[u] = thread[u]
  BY <1>1, <1>2 DEF Become
<1>5. /\ thread'[t].todo = <<>> /\ thread'[t].pc = "find" /\ thread'[t].op = "demote"
      /\ thread'[t].id = id
  BY <1>4 DEF Doing
<1> HIDE DEF s, id
<1>6. Members(s) = {id} \cup Members(Tail(s))
  BY <1>2, <1>3, MembersOfParts DEF id
<1>7. Chosen(t)' \subseteq used \ Above
  <2>1. Chosen(t)' \subseteq Members(s)
    BY <1>3, <1>5, <1>6 DEF Chosen
  <2>2. Members(s) \subseteq Chosen(t)
    BY DEF Chosen, s
  <2> QED
    BY <1>1, <2>1, <2>2 DEF TicksBelow
<1>8. ~Moving(thread'[t]) /\ thread'[t].op # "promote"
  BY <1>5 DEF Moving
<1> QED
  BY <1>1, <1>2, <1>3, <1>4, <1>5, <1>7, <1>8, SinkStart

LEMMA SinkStutter ==
    ASSUME SinkInv, PrunerInv', UNCHANGED <<fifo, rows, used, thread, batch>> PROVE SinkInv'
<1>1. Above' = Above
  BY DEF Above
<1>2. Layered' /\ TicksBelow' /\ \A t \in Threads : Descending(t)'
  BY <1>1 DEF SinkInv, Layered, TicksBelow, Chosen, Descending
<1> QED
  BY <1>2 DEF SinkInv

-----------------------------------------------------------------------------
(* The theorem *)

LEMMA SinkInitInv == PrunerInit => SinkInv
<1> SUFFICES ASSUME PrunerInit PROVE SinkInv
  OBVIOUS
<1>1. PrunerInv
  BY PrunerInitInv
<1>2. /\ fifo = <<>> /\ rows = [tier \in {L2, L3} |-> {}] /\ used = {}
      /\ thread = [t \in Threads |-> Asleep] /\ batch = [t \in Tickers |-> <<>>]
  BY DEF PrunerInit, Init
<1>3. /\ rows[L2] = {} /\ rows[L3] = {} /\ Members(fifo) = {}
      /\ \A t \in Threads : thread[t] = Asleep
      /\ \A t \in Tickers : batch[t] = <<>>
  BY <1>2, MembersOfEmpty
<1>4. /\ Uppers(Asleep) = {} /\ Lowers(Asleep) = {} /\ DistinctPuts(Asleep.todo)
      /\ ~Moving(Asleep) /\ Asleep.pc = "idle" /\ Asleep.op # "promote"
  BY AsleepFacts, LevelsOfEmpty, NobodyComes, NoNewcomer DEF Moving, DistinctPuts
<1>5. Above = {}
  BY <1>3, <1>4 DEF Above
<1>6. \A t \in Threads : Descending(t)
  BY <1>3, <1>4, <1>5 DEF Descending, Sinking
<1>7. TicksBelow
  BY <1>3, <1>4, <1>5, MembersOfEmpty, PrunerFacts DEF TicksBelow, Chosen
<1> QED
  BY <1>1, <1>3, <1>5, <1>6, <1>7 DEF SinkInv, Layered

LEMMA SinkNextInv ==
    ASSUME LoneAgent, NeverPromotes, SinkInv, [PrunerNext]_allVars PROVE SinkInv'
<1>1. PrunerInv'
  BY PrunerManagerInv, PruningNextOK DEF SinkInv, PrunerInv
<1>2. CASE UNCHANGED allVars \/ StartScheduler \/ StopScheduler \/ AwaitTick \/ GrowCold
  <2>1. UNCHANGED <<fifo, rows, used, thread, batch>>
    BY <1>2 DEF allVars, prunerVars, vars, StartScheduler, StopScheduler, AwaitTick, GrowCold
  <2> QED
    BY <1>1, <2>1, SinkStutter
<1> QED
  BY <1>1, <1>2, SinkAgentStart, SinkTickStart, SinkTickDemote, SinkManagerStep
  DEF PrunerNext

\* The layers are disjoint.
LEMMA LayeredSingle == Layered => SingleResidence
<1> SUFFICES ASSUME Layered, NEW id \in Ids
             PROVE  Cardinality({tier \in Tiers : id \in InTier(tier)}) <= 1
  BY DEF SingleResidence
<1> DEFINE homes == {tier \in Tiers : id \in InTier(tier)}
<1>1. /\ InTier(L1) = Members(fifo) /\ InTier(L2) = rows[L2] /\ InTier(L3) = rows[L3]
      /\ Members(fifo) \subseteq Above
  BY InTiersFacts DEF Above
<1>2. \A a, b \in homes : a = b
  BY <1>1 DEF Layered, Tiers
<1>3. CASE homes = {}
  BY <1>3, FS_EmptySet
<1>4. CASE homes # {}
  <2>1. PICK tier \in homes : TRUE
    BY <1>4
  <2> HIDE DEF homes
  <2>2. homes = {tier}
    BY <1>2, <2>1
  <2>3. Cardinality(homes) = 1
    BY <2>2, FS_Singleton
  <2> QED
    BY <2>3 DEF homes
<1> QED
  BY <1>3, <1>4

\* Beside one agent that inserts, demotes, forgets and queries, whatever step of
\* its the pruner's ticks (pruner.py tick_once, on as many threads as there are)
\* overtake, no memory is in two tiers: it only moves down, and a tick that has
\* chosen it from L2 finds it there or further down.
THEOREM TicksKeepResidence ==
    ASSUME LoneAgent, NeverPromotes PROVE PrunerSpec => []SingleResidence
<1>1. SinkInv /\ [PrunerNext]_allVars => SinkInv'
  BY SinkNextInv
<1>2. SinkInv => SingleResidence
  BY LayeredSingle DEF SinkInv
<1> QED
  BY <1>1, <1>2, SinkInitInv, PTL DEF PrunerSpec
=============================================================================
