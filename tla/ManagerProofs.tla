---------------------------- MODULE ManagerProofs ----------------------------
(***************************************************************************)
(* Proofs about MemoryManager: for any number of threads whose tier calls  *)
(* interleave, any ids, charges and capacities, and embedders that raise,  *)
(* the tiers keep their byte budgets, no memory vanishes and no query      *)
(* returns a memory twice; and a manager with one caller is the store of   *)
(* MemoryStore, and leaves what it stores in the tier it was meant for.    *)
(***************************************************************************)
EXTENDS MemoryManager, ByteBudgetProofs

-----------------------------------------------------------------------------
(* The inductive invariant *)

Puts == [id : Ids, tier : Tiers]

Pairs == Ids \X (1..Len(Reads))

ThreadRecords ==
    [op : {"none", "insert", "promote", "demote", "forget", "query"},
     pc : {"idle", "put", "find", "remove", "read", "touch"},
     id : Ids \cup {NoId}, at : 0..(Len(Reads) + 1), target : Tiers \cup {NoTier},
     todo : Seq(Puts), stamped : BOOLEAN, cand : SUBSET Pairs]

\* The memories of a todo list.
Hand(todo) == {todo[i].id : i \in 1..Len(todo)}

\* A put into L1 has no other put behind it.
L1Alone(todo) == \A i \in 1..Len(todo) : todo[i].tier = L1 => Len(todo) = 1

\* The puts of an insert() are its own, alone, or below the tier asked for.
Below(at, todo) ==
    \A i \in 1..Len(todo) : todo[i].tier >= at /\ (todo[i].tier = at => Len(todo) = 1)

Once(cand) == \A c, d \in cand : c[1] = d[1] => c = d

\* What a thread is doing makes sense: it puts as long as it has memories in
\* hand, which are known, and one it has stamped has its last_touch.
Sensible(r, known, order) ==
    /\ r.pc = "put" <=> r.todo # <<>>
    /\ Hand(r.todo) \subseteq known /\ L1Alone(r.todo)
    /\ r.stamped => /\ r.pc = "put" /\ Head(r.todo).tier # L1
                    /\ Head(r.todo).id \in Members(order[Head(r.todo).tier])
    /\ r.pc \in {"find", "remove"} => r.id \in known /\ r.at \in Tiers
    /\ r.pc = "find" => r.op \in {"promote", "demote"}
    /\ r.pc = "remove" => r.op # "insert"
    /\ r.pc = "remove" /\ r.op # "forget" => r.target \in Tiers
    /\ r.op = "insert" => Below(r.at, r.todo)
    /\ r.pc = "read" => r.at # 0
    /\ r.pc = "touch" => Once(r.cand)

ThreadsOK ==
    /\ thread \in [Threads -> ThreadRecords]
    /\ \A t \in Threads : Sensible(thread[t], used, touched)

\* The tiers and the history hold known memories, each row has a last_touch.
DataOK ==
    /\ fifo \in Seq(Ids) /\ NoRepeats(fifo)
    /\ rows \in [{L2, L3} -> SUBSET Ids]
    /\ touched \in [{L2, L3} -> Seq(Ids)]
    /\ \A tier \in {L2, L3} : /\ NoRepeats(touched[tier])
                              /\ rows[tier] \subseteq Members(touched[tier])
    /\ used \subseteq Ids
    /\ \A tier \in Tiers : InTier(tier) \subseteq used
    /\ refused \cup dropped \cup forgotten \cup agedOff \subseteq used

ManagerInv == DataOK /\ ThreadsOK /\ TierBudgets /\ NothingVanishes

-----------------------------------------------------------------------------
(* Constants, todo lists and the step of one thread *)

LEMMA ConstantFacts ==
    /\ L1 = 1 /\ L2 = 2 /\ L3 = 3 /\ NoTier = 0
    /\ Tiers = {1, 2, 3}
    /\ Len(Reads) = 4
    /\ \A n \in 1..4 : Reads[n] \in Tiers
    /\ Size \in Charges
    /\ \A id \in Ids : Size[id] \in Nat
    /\ \A tier \in Tiers : Cap[tier] \in Nat
BY ManagerAssumption, BudgetAssumption
   DEF L1, L2, L3, NoTier, Tiers, Reads, Charges, Sizes

LEMMA AsleepFacts ==
    /\ Asleep \in ThreadRecords
    /\ \A known, order : Sensible(Asleep, known, order)
    /\ Asleep.pc = "idle" /\ Asleep.todo = <<>> /\ Asleep.cand = {}
    /\ Asleep.stamped = FALSE /\ Asleep.op = "none"
    /\ Hand(<<>>) = {} /\ \A at : Below(at, <<>>)
<1>1. Hand(<<>>) = {} /\ L1Alone(<<>>) /\ \A at : Below(at, <<>>)
  BY DEF Hand, L1Alone, Below
<1>2. <<>> \in Seq(Puts)
  OBVIOUS
<1>3. Asleep \in ThreadRecords
  BY <1>2, ConstantFacts DEF Asleep, Doing, ThreadRecords
<1> QED
  BY <1>1, <1>3 DEF Asleep, Doing, Sensible

\* The tiers a memory can be in.
LEMMA InTiersFacts ==
    /\ InTier(L1) = Members(fifo) /\ InTier(L2) = rows[L2] /\ InTier(L3) = rows[L3]
    /\ InTiers = Members(fifo) \cup rows[L2] \cup rows[L3]
<1>1. /\ InTier(1) = Members(fifo) /\ InTier(2) = rows[2] /\ InTier(3) = rows[3]
  BY DEF InTier, L1
<1>2. InTiers = InTier(1) \cup InTier(2) \cup InTier(3)
  BY ConstantFacts DEF InTiers
<1> QED
  BY <1>1, <1>2, ConstantFacts

\* A todo list that is not empty: its head, and the memories behind it.
LEMMA TodoFacts ==
    ASSUME NEW todo \in Seq(Puts), todo # <<>>
    PROVE  /\ Head(todo) \in Puts /\ Head(todo).id \in Ids /\ Head(todo).tier \in Tiers
           /\ Tail(todo) \in Seq(Puts)
           /\ Hand(todo) = {Head(todo).id} \cup Hand(Tail(todo))
           /\ L1Alone(todo) => L1Alone(Tail(todo))
           /\ L1Alone(todo) /\ Head(todo).tier = L1 => Tail(todo) = <<>>
           /\ L1Alone(todo) => \A i \in 1..Len(Tail(todo)) : Tail(todo)[i].tier # L1
<1>1. Len(todo) \in Nat /\ Len(todo) >= 1
  OBVIOUS
<1>2. Head(todo) = todo[1] /\ Head(todo) \in Puts
  BY <1>1
<1>3. /\ Tail(todo) \in Seq(Puts) /\ Len(Tail(todo)) = Len(todo) - 1
      /\ \A i \in 1..(Len(todo) - 1) : Tail(todo)[i] = todo[i+1]
  BY <1>1, HeadTailProperties
<1>4. Hand(todo) = {Head(todo).id} \cup Hand(Tail(todo))
  <2>1. ASSUME NEW i \in 1..Len(todo)
        PROVE  todo[i].id \in {Head(todo).id} \cup Hand(Tail(todo))
    <3>1. CASE i = 1
      BY <1>2, <3>1
    <3>2. CASE i # 1
      <4>1. i-1 \in 1..(Len(todo) - 1) /\ (i-1)+1 = i
        BY <1>1, <3>2
      <4>2. Tail(todo)[i-1] = todo[i]
        BY <1>3, <4>1
      <4> QED
        BY <1>3, <4>1, <4>2 DEF Hand
    <3> QED
      BY <3>1, <3>2
  <2>2. ASSUME NEW i \in 1..Len(Tail(todo)) PROVE Tail(todo)[i].id \in Hand(todo)
    <3>1. i+1 \in 1..Len(todo) /\ Tail(todo)[i] = todo[i+1]
      BY <1>1, <1>3
    <3> QED
      BY <3>1 DEF Hand
  <2>3. Head(todo).id \in Hand(todo)
    BY <1>1, <1>2 DEF Hand
  <2> QED
    BY <2>1, <2>2, <2>3 DEF Hand
<1>5. ASSUME L1Alone(todo)
      PROVE  /\ L1Alone(Tail(todo))
             /\ Head(todo).tier = L1 => Tail(todo) = <<>>
             /\ \A i \in 1..Len(Tail(todo)) : Tail(todo)[i].tier # L1
  <2>1. \A i \in 1..Len(Tail(todo)) :
           i+1 \in 1..Len(todo) /\ Tail(todo)[i] = todo[i+1] /\ Len(todo) # 1
    BY <1>1, <1>3
  <2>2. \A i \in 1..Len(Tail(todo)) : Tail(todo)[i].tier # L1
    BY <1>5, <2>1 DEF L1Alone
  <2>3. Head(todo).tier = L1 => Len(todo) = 1
    BY <1>1, <1>2, <1>5 DEF L1Alone
  <2>4. Len(todo) = 1 => Tail(todo) = <<>>
    <3>1. Len(todo) = 1 => Len(Tail(todo)) = 0
      BY <1>3
    <3> QED
      BY <1>3, <3>1, EmptySeq
  <2> QED
    BY <2>2, <2>3, <2>4 DEF L1Alone
<1>6. Head(todo).id \in Ids /\ Head(todo).tier \in Tiers
  BY <1>2 DEF Puts
<1> QED
  BY <1>2, <1>3, <1>4, <1>5, <1>6

\* The head of a list of puts that are below a tier, and the puts behind it.
LEMMA BelowParts ==
    ASSUME NEW todo \in Seq(Puts), todo # <<>>, NEW at \in Nat, Below(at, todo)
    PROVE  /\ Head(todo).tier >= at
           /\ Head(todo).tier = at => Tail(todo) = <<>>
           /\ \A p \in Members(Tail(todo)) : p.tier > at
<1>1. Len(todo) \in Nat /\ Len(todo) >= 1 /\ Head(todo) = todo[1]
  OBVIOUS
<1>2. /\ Tail(todo) \in Seq(Puts) /\ Len(Tail(todo)) = Len(todo) - 1
      /\ \A i \in 1..(Len(todo) - 1) : Tail(todo)[i] = todo[i+1]
  BY <1>1, HeadTailProperties
<1>3. Head(todo).tier >= at /\ (Head(todo).tier = at => Len(todo) = 1)
  BY <1>1 DEF Below
<1>4. Len(todo) = 1 => Tail(todo) = <<>>
  <2>1. Len(todo) = 1 => Len(Tail(todo)) = 0
    BY <1>2
  <2> QED
    BY <1>2, <2>1, EmptySeq
<1>5. ASSUME NEW p \in Members(Tail(todo)) PROVE p.tier > at
  <2>1. PICK i \in 1..Len(Tail(todo)) : p = Tail(todo)[i]
    BY DEF Members
  <2>2. i+1 \in 1..Len(todo) /\ p = todo[i+1] /\ Len(todo) # 1
    BY <1>1, <1>2, <2>1
  <2>3. p \in Puts
    BY <2>2
  <2>4. p.tier \in Nat
    BY <2>3, ConstantFacts DEF Puts
  <2>5. p.tier >= at /\ p.tier # at
    BY <2>2 DEF Below
  <2> QED
    BY <2>4, <2>5
<1> QED
  BY <1>3, <1>4, <1>5

\* A single put.
LEMMA SinglePut ==
    ASSUME NEW id \in Ids, NEW tier \in Tiers
    PROVE  /\ <<Put(id, tier)>> \in Seq(Puts) /\ <<Put(id, tier)>> # <<>>
           /\ Hand(<<Put(id, tier)>>) = {id} /\ L1Alone(<<Put(id, tier)>>)
           /\ Head(<<Put(id, tier)>>) = Put(id, tier)
<1>1. Put(id, tier) \in Puts /\ Put(id, tier).id = id
  BY DEF Put, Puts
<1>2. \A p : Len(<<p>>) = 1 /\ <<p>>[1] = p /\ Head(<<p>>) = p
  OBVIOUS
<1>3. 1..1 = {1}
  OBVIOUS
<1> HIDE DEF Put
<1>4. <<Put(id, tier)>> \in Seq(Puts) /\ <<Put(id, tier)>> # <<>>
  BY <1>1
<1>5. Hand(<<Put(id, tier)>>) = {id}
  BY <1>1, <1>2, <1>3 DEF Hand
<1> QED
  BY <1>2, <1>4, <1>5 DEF L1Alone

LEMMA BelowItself ==
    ASSUME NEW id \in Ids, NEW tier \in Tiers, NEW at \in 0..tier
    PROVE  Below(at, <<Put(id, tier)>>)
<1> DEFINE p == Put(id, tier)
<1>1. p.tier = tier
  BY DEF Put
<1>2. Len(<<p>>) = 1 /\ <<p>>[1] = p /\ 1..1 = {1}
  OBVIOUS
<1>3. tier >= at
  BY ConstantFacts
<1> HIDE DEF p
<1>4. \A i \in 1..Len(<<p>>) : <<p>>[i] = p
  BY <1>2
<1>5. Below(at, <<p>>)
  BY <1>1, <1>2, <1>3, <1>4 DEF Below
<1> QED
  BY <1>5 DEF p

\* What makes sense keeps making sense while more memories become known and
\* get a last_touch.
LEMMA SensibleMonotone ==
    ASSUME NEW r \in ThreadRecords, NEW known, NEW more, NEW order, NEW later,
           Sensible(r, known, order), known \subseteq more,
           \A tier \in {L2, L3} : Members(order[tier]) \subseteq Members(later[tier])
    PROVE  Sensible(r, more, later)
<1>1. r.stamped => Head(r.todo).tier \in {L2, L3}
  <2> SUFFICES ASSUME r.stamped PROVE Head(r.todo).tier \in {L2, L3}
    OBVIOUS
  <2>1. r.todo # <<>> /\ r.todo \in Seq(Puts) /\ Head(r.todo).tier # L1
    BY DEF Sensible, ThreadRecords
  <2> QED
    BY <2>1, TodoFacts, ConstantFacts
<1> QED
  BY <1>1 DEF Sensible

\* A thread takes a step to a record that makes sense.
LEMMA BecomeFacts ==
    ASSUME ThreadsOK, NEW t \in Threads, NEW r \in ThreadRecords, Become(t, r),
           used \subseteq used',
           \A tier \in {L2, L3} : Members(touched[tier]) \subseteq Members(touched'[tier]),
           Sensible(r, used', touched')
    PROVE  /\ ThreadsOK'
           /\ thread'[t] = r
           /\ \A u \in Threads : u # t => thread'[u] = thread[u]
           /\ InHand(t)' = Hand(r.todo) /\ InHand(t) = Hand(thread[t].todo)
           /\ \A u \in Threads : u # t => InHand(u)' = InHand(u)
<1>1. thread' = [thread EXCEPT ![t] = r] /\ thread \in [Threads -> ThreadRecords]
  BY DEF Become, ThreadsOK
<1>2. /\ thread'[t] = r
      /\ \A u \in Threads : u # t => thread'[u] = thread[u]
      /\ thread' \in [Threads -> ThreadRecords]
  BY <1>1
<1>3. \A u \in Threads : thread[u] \in ThreadRecords /\ Sensible(thread[u], used, touched)
  BY DEF ThreadsOK
<1>4. \A u \in Threads : u # t => Sensible(thread[u], used', touched')
  BY <1>3, SensibleMonotone
<1>5. ThreadsOK'
  BY <1>2, <1>4 DEF ThreadsOK
<1>6. /\ InHand(t)' = Hand(r.todo) /\ InHand(t) = Hand(thread[t].todo)
      /\ \A u \in Threads : u # t => InHand(u)' = InHand(u)
  BY <1>2 DEF InHand, Hand
<1> QED
  BY <1>2, <1>5, <1>6

\* Nothing vanishes in a step after which what the thread had in hand and what
\* was in the tiers is in its hand, in the tiers or accounted for.
LEMMA NothingVanishesStep ==
    ASSUME NothingVanishes, NEW t \in Threads,
           \A u \in Threads : u # t => InHand(u)' = InHand(u),
           InTiers \cup InHand(t) \subseteq
              (InTiers \cup InHand(t) \cup refused \cup dropped \cup forgotten
                 \cup agedOff)',
           refused \cup dropped \cup forgotten \cup agedOff \subseteq
              (refused \cup dropped \cup forgotten \cup agedOff)',
           used' \subseteq used \cup InHand(t)'
    PROVE  NothingVanishes'
<1> DEFINE Gone == refused \cup dropped \cup forgotten \cup agedOff
<1>1. \A id \in used : id \in InTiers \/ (\E u \in Threads : id \in InHand(u)) \/ id \in Gone
  BY DEF NothingVanishes, Stored
<1>2. \A id \in used' :
         id \in InTiers' \/ (\E u \in Threads : id \in InHand(u)') \/ id \in Gone'
  BY <1>1
<1> QED
  BY <1>2 DEF NothingVanishes, Stored

-----------------------------------------------------------------------------
(* The records a thread steps to *)

LEMMA WithTodo ==
    ASSUME NEW w \in ThreadRecords, NEW q \in Seq(Puts)
    PROVE  LET r == [w EXCEPT !.todo = q, !.stamped = FALSE] IN
           /\ r \in ThreadRecords /\ r.todo = q /\ r.stamped = FALSE
           /\ r.op = w.op /\ r.pc = w.pc /\ r.id = w.id /\ r.at = w.at
           /\ r.target = w.target /\ r.cand = w.cand
BY ConstantFacts DEF ThreadRecords

LEMMA WithRoute ==
    ASSUME NEW w \in ThreadRecords, NEW q \in Seq(Puts)
    PROVE  LET r == [w EXCEPT !.at = NoTier, !.target = L2, !.stamped = FALSE,
                              !.todo = q] IN
           /\ r \in ThreadRecords /\ r.todo = q /\ r.stamped = FALSE
           /\ r.op = w.op /\ r.pc = w.pc /\ r.id = w.id /\ r.at = NoTier
           /\ r.target = L2 /\ r.cand = w.cand
<1> DEFINE w1 == [w EXCEPT !.at = NoTier]
           w2 == [w1 EXCEPT !.target = L2]
           w3 == [w2 EXCEPT !.stamped = FALSE]
           w4 == [w3 EXCEPT !.todo = q]
<1>1. \A v \in ThreadRecords : [v EXCEPT !.at = NoTier] \in ThreadRecords
  <2>1. NoTier \in 0..(Len(Reads) + 1)
    BY ConstantFacts
  <2> QED
    BY <2>1 DEF ThreadRecords
<1>2. \A v \in ThreadRecords : [v EXCEPT !.target = L2] \in ThreadRecords
  <2>1. L2 \in Tiers \cup {NoTier}
    BY ConstantFacts
  <2> QED
    BY <2>1 DEF ThreadRecords
<1>3. \A v \in ThreadRecords : [v EXCEPT !.stamped = FALSE] \in ThreadRecords
  BY DEF ThreadRecords
<1>4. \A v \in ThreadRecords : [v EXCEPT !.todo = q] \in ThreadRecords
  BY DEF ThreadRecords
<1>5. w4 \in ThreadRecords
  <2>1. w1 \in ThreadRecords
    BY <1>1
  <2> HIDE DEF w1
  <2>2. w2 \in ThreadRecords
    BY <1>2, <2>1
  <2> HIDE DEF w2
  <2>3. w3 \in ThreadRecords
    BY <1>3, <2>2
  <2> HIDE DEF w3
  <2> QED
    BY <1>4, <2>3
<1>6. [w EXCEPT !.at = NoTier, !.target = L2, !.stamped = FALSE, !.todo = q] = w4
  OBVIOUS
<1>7. \A r : r = [w EXCEPT !.at = NoTier, !.target = L2, !.stamped = FALSE, !.todo = q] =>
         /\ r.todo = q /\ r.stamped = FALSE /\ r.op = w.op /\ r.pc = w.pc
         /\ r.id = w.id /\ r.at = NoTier /\ r.target = L2 /\ r.cand = w.cand
  BY DEF ThreadRecords
<1> QED
  BY <1>5, <1>6, <1>7

LEMMA WithStamp ==
    ASSUME NEW w \in ThreadRecords
    PROVE  LET r == [w EXCEPT !.stamped = TRUE] IN
           /\ r \in ThreadRecords /\ r.todo = w.todo /\ r.stamped = TRUE
           /\ r.op = w.op /\ r.pc = w.pc /\ r.id = w.id /\ r.at = w.at
           /\ r.target = w.target /\ r.cand = w.cand
BY ConstantFacts DEF ThreadRecords

LEMMA WithRemoval ==
    ASSUME NEW w \in ThreadRecords, NEW target \in Tiers
    PROVE  LET r == [w EXCEPT !.pc = "remove", !.at = L1, !.target = target] IN
           /\ r \in ThreadRecords /\ r.todo = w.todo /\ r.stamped = w.stamped
           /\ r.op = w.op /\ r.pc = "remove" /\ r.id = w.id /\ r.at = L1
           /\ r.target = target /\ r.cand = w.cand
<1>1. \A v \in ThreadRecords : [v EXCEPT !.pc = "remove"] \in ThreadRecords
  BY ConstantFacts DEF ThreadRecords
<1>2. \A v \in ThreadRecords : [v EXCEPT !.at = L1] \in ThreadRecords
  <2>1. L1 \in 0..(Len(Reads) + 1)
    BY ConstantFacts
  <2> QED
    BY <2>1 DEF ThreadRecords
<1>3. \A v \in ThreadRecords : [v EXCEPT !.target = target] \in ThreadRecords
  BY ConstantFacts DEF ThreadRecords
<1>4. [[[w EXCEPT !.pc = "remove"] EXCEPT !.at = L1] EXCEPT !.target = target] \in ThreadRecords
  BY <1>1, <1>2, <1>3
<1>5. [w EXCEPT !.pc = "remove", !.at = L1, !.target = target] = [[[w EXCEPT !.pc = "remove"] EXCEPT !.at = L1] EXCEPT !.target = target]
  OBVIOUS
<1>6. \A r : r = [w EXCEPT !.pc = "remove", !.at = L1, !.target = target] =>
           /\ r.todo = w.todo /\ r.stamped = w.stamped /\ r.op = w.op /\ r.pc = "remove"
           /\ r.id = w.id /\ r.at = L1 /\ r.target = target /\ r.cand = w.cand
  BY DEF ThreadRecords
<1> QED
  BY <1>4, <1>5, <1>6

LEMMA WithTier ==
    ASSUME NEW w \in ThreadRecords, NEW tier \in Tiers
    PROVE  LET r == [w EXCEPT !.at = tier] IN
           /\ r \in ThreadRecords /\ r.todo = w.todo /\ r.stamped = w.stamped
           /\ r.op = w.op /\ r.pc = w.pc /\ r.id = w.id /\ r.at = tier
           /\ r.target = w.target /\ r.cand = w.cand
BY ConstantFacts DEF ThreadRecords

LEMMA WithPuts ==
    ASSUME NEW w \in ThreadRecords, NEW q \in Seq(Puts)
    PROVE  LET r == [w EXCEPT !.pc = "put", !.todo = q] IN
           /\ r \in ThreadRecords /\ r.todo = q /\ r.stamped = w.stamped
           /\ r.op = w.op /\ r.pc = "put" /\ r.id = w.id /\ r.at = w.at
           /\ r.target = w.target /\ r.cand = w.cand
<1>1. \A v \in ThreadRecords : [v EXCEPT !.pc = "put"] \in ThreadRecords
  BY ConstantFacts DEF ThreadRecords
<1>2. \A v \in ThreadRecords : [v EXCEPT !.todo = q] \in ThreadRecords
  BY ConstantFacts DEF ThreadRecords
<1>3. [[w EXCEPT !.pc = "put"] EXCEPT !.todo = q] \in ThreadRecords
  BY <1>1, <1>2
<1>4. [w EXCEPT !.pc = "put", !.todo = q] = [[w EXCEPT !.pc = "put"] EXCEPT !.todo = q]
  OBVIOUS
<1>5. \A r : r = [w EXCEPT !.pc = "put", !.todo = q] =>
           /\ r.todo = q /\ r.stamped = w.stamped /\ r.op = w.op /\ r.pc = "put"
           /\ r.id = w.id /\ r.at = w.at /\ r.target = w.target /\ r.cand = w.cand
  BY DEF ThreadRecords
<1> QED
  BY <1>3, <1>4, <1>5

LEMMA WithHits ==
    ASSUME NEW w \in ThreadRecords, NEW hits \in SUBSET Pairs
    PROVE  LET r == [w EXCEPT !.pc = "touch", !.cand = hits] IN
           /\ r \in ThreadRecords /\ r.todo = w.todo /\ r.stamped = w.stamped
           /\ r.op = w.op /\ r.pc = "touch" /\ r.id = w.id /\ r.at = w.at
           /\ r.target = w.target /\ r.cand = hits
BY ConstantFacts DEF ThreadRecords

LEMMA WithCand ==
    ASSUME NEW w \in ThreadRecords, NEW c \in SUBSET Pairs
    PROVE  LET r == [w EXCEPT !.cand = c] IN
           /\ r \in ThreadRecords /\ r.todo = w.todo /\ r.stamped = w.stamped
           /\ r.op = w.op /\ r.pc = w.pc /\ r.id = w.id /\ r.at = w.at
           /\ r.target = w.target /\ r.cand = c
BY ConstantFacts DEF ThreadRecords

-----------------------------------------------------------------------------
(* The initial state, and the steps that only change a thread's record *)

LEMMA ManagerInitInv == Init => ManagerInv
<1> SUFFICES ASSUME Init PROVE ManagerInv
  OBVIOUS
<1>1. /\ fifo = <<>> /\ used = {}
      /\ refused = {} /\ dropped = {} /\ forgotten = {} /\ agedOff = {}
      /\ rows = [tier \in {L2, L3} |-> {}]
      /\ touched = [tier \in {L2, L3} |-> <<>>]
      /\ thread = [t \in Threads |-> Asleep]
  BY DEF Init
<1>2. Members(<<>>) = {} /\ NoRepeats(<<>>) /\ <<>> \in Seq(Ids)
  BY DEF Members, NoRepeats
<1>3. \A tier \in Tiers : InTier(tier) = {}
  BY <1>1, <1>2, ConstantFacts DEF InTier
<1>4. DataOK
  BY <1>1, <1>2, <1>3 DEF DataOK
<1>5. ThreadsOK
  BY <1>1, AsleepFacts DEF ThreadsOK
<1>6. TierBudgets
  BY <1>3, BytesEmpty, ConstantFacts DEF TierBudgets
<1>7. NothingVanishes
  BY <1>1 DEF NothingVanishes
<1> QED
  BY <1>4, <1>5, <1>6, <1>7 DEF ManagerInv

\* The facts a step of thread t starts from.
LEMMA ThreadFacts ==
    ASSUME ManagerInv, NEW t \in Threads
    PROVE  /\ thread[t] \in ThreadRecords
           /\ Sensible(thread[t], used, touched)
           /\ thread[t].todo \in Seq(Puts) /\ thread[t].cand \in SUBSET Pairs
           /\ thread[t].at \in 0..5 /\ thread[t].target \in Tiers \cup {NoTier}
           /\ thread[t].id \in Ids \cup {NoId}
           /\ thread[t].stamped \in BOOLEAN
           /\ thread[t].pc # "put" => thread[t].todo = <<>> /\ ~thread[t].stamped
           /\ used \subseteq Ids
<1>1. thread[t] \in ThreadRecords /\ Sensible(thread[t], used, touched) /\ used \subseteq Ids
  BY DEF ManagerInv, ThreadsOK, DataOK
<1> DEFINE w == thread[t]
<1> HIDE DEF w
<1>2. ASSUME w \in ThreadRecords
      PROVE  /\ w.todo \in Seq(Puts) /\ w.cand \in SUBSET Pairs
             /\ w.at \in 0..5 /\ w.target \in Tiers \cup {NoTier}
             /\ w.id \in Ids \cup {NoId} /\ w.stamped \in BOOLEAN
  BY <1>2, ConstantFacts DEF ThreadRecords
<1>3. thread[t].pc # "put" => thread[t].todo = <<>> /\ ~thread[t].stamped
  BY <1>1 DEF Sensible
<1> QED
  BY <1>1, <1>2, <1>3 DEF w

\* Tiers and history as they were.
LEMMA DataKept ==
    ASSUME DataOK, TierBudgets, UNCHANGED <<fifo, rows, touched>>,
           used \subseteq used', used' \subseteq Ids,
           UNCHANGED <<refused, dropped, forgotten, agedOff>>
    PROVE  /\ DataOK' /\ TierBudgets' /\ InTiers' = InTiers
           /\ \A tier \in Tiers : InTier(tier)' = InTier(tier)
<1>1. \A tier \in Tiers : InTier(tier)' = InTier(tier)
  BY DEF InTier
<1>2. InTiers' = InTiers
  BY <1>1 DEF InTiers
<1>3. DataOK'
  <2>1. \A tier \in Tiers : InTier(tier)' \subseteq used'
    BY <1>1 DEF DataOK
  <2>2. (refused \cup dropped \cup forgotten \cup agedOff)' \subseteq used'
    BY DEF DataOK
  <2> QED
    BY <2>1, <2>2 DEF DataOK
<1>4. TierBudgets'
  BY <1>1 DEF TierBudgets
<1> QED
  BY <1>1, <1>2, <1>3, <1>4

LEMMA QuietStep ==
    ASSUME ManagerInv, NEW t \in Threads, NEW r \in ThreadRecords, Become(t, r),
           UNCHANGED <<fifo, rows, touched, used, refused, dropped, forgotten,
                       agedOff>>,
           Sensible(r, used, touched), thread[t].pc # "put"
    PROVE  ManagerInv'
<1>1. /\ DataOK' /\ TierBudgets' /\ InTiers' = InTiers
  BY DataKept DEF ManagerInv, DataOK
<1>2. /\ ThreadsOK'
      /\ InHand(t) = Hand(thread[t].todo)
      /\ \A u \in Threads : u # t => InHand(u)' = InHand(u)
  BY BecomeFacts DEF ManagerInv
<1>3. InHand(t) = {}
  BY <1>2, ThreadFacts, AsleepFacts
<1>4. NothingVanishes'
  BY <1>1, <1>2, <1>3, NothingVanishesStep DEF ManagerInv
<1> QED
  BY <1>1, <1>2, <1>4 DEF ManagerInv

LEMMA InsertInv ==
    ASSUME ManagerInv, NEW t \in Threads, NEW id \in Ids, NEW tier \in Tiers,
           Insert(t, id, tier)
    PROVE  ManagerInv'
<1> DEFINE q == <<Put(id, tier)>>
           r == Doing("insert", "put", id, tier, tier, q)
<1>1. Become(t, r)
  BY DEF Insert
<1>2. /\ q \in Seq(Puts) /\ q # <<>> /\ Hand(q) = {id} /\ L1Alone(q)
  BY SinglePut
<1>3. /\ tier \in 0..(Len(Reads) + 1) /\ tier \in Tiers \cup {NoTier}
      /\ Below(tier, q) /\ id \in Ids \cup {NoId} /\ {} \in SUBSET Pairs
  <2>1. tier \in 0..tier
    BY ConstantFacts
  <2>2. Below(tier, q)
    BY <2>1, BelowItself
  <2> HIDE DEF q
  <2> QED
    BY <2>2, ConstantFacts
<1> HIDE DEF q
<1>4. /\ r \in ThreadRecords /\ r.op = "insert" /\ r.pc = "put" /\ r.todo = q
      /\ r.stamped = FALSE /\ r.at = tier
  BY <1>2, <1>3 DEF Doing, ThreadRecords
<1>5. used' = used \cup {id} /\ UNCHANGED <<fifo, rows, touched, refused, dropped,
                                           forgotten, agedOff>>
  BY DEF Insert
<1> HIDE DEF r
<1>6. Sensible(r, used', touched')
  BY <1>2, <1>3, <1>4, <1>5 DEF Sensible
<1>7. /\ ThreadsOK' /\ InHand(t)' = Hand(r.todo)
      /\ InHand(t) = Hand(thread[t].todo)
      /\ \A u \in Threads : u # t => InHand(u)' = InHand(u)
  BY <1>1, <1>4, <1>5, <1>6, BecomeFacts DEF ManagerInv
<1>8. DataOK' /\ TierBudgets' /\ InTiers' = InTiers
  BY <1>5, DataKept DEF ManagerInv, DataOK
<1>9. InHand(t) = {}
  BY <1>7, ThreadFacts, AsleepFacts DEF Insert
<1>10. NothingVanishes'
  BY <1>2, <1>4, <1>5, <1>7, <1>8, <1>9, NothingVanishesStep DEF ManagerInv
<1> QED
  BY <1>7, <1>8, <1>10 DEF ManagerInv

LEMMA MoveInv ==
    ASSUME ManagerInv, NEW t \in Threads, NEW op \in {"promote", "demote"},
           NEW id \in Ids, Move(t, op, id)
    PROVE  ManagerInv'
<1> DEFINE r == Doing(op, "find", id, L1, NoTier, <<>>)
<1>1. /\ L1 \in 0..(Len(Reads) + 1) /\ L1 \in Tiers /\ id \in Ids \cup {NoId}
      /\ <<>> \in Seq(Puts) /\ {} \in SUBSET Pairs
  BY ConstantFacts
<1>2. /\ r \in ThreadRecords /\ r.op = op /\ r.pc = "find" /\ r.todo = <<>>
      /\ r.stamped = FALSE /\ r.id = id /\ r.at = L1
  BY <1>1 DEF Doing, ThreadRecords
<1>3. Become(t, r)
  BY DEF Move
<1> HIDE DEF r
<1>4. L1Alone(<<>>)
  BY DEF L1Alone
<1>5. Sensible(r, used, touched)
  BY <1>1, <1>2, <1>4, AsleepFacts DEF Sensible, Move
<1> QED
  BY <1>2, <1>3, <1>5, QuietStep DEF Move

LEMMA ForgetInv ==
    ASSUME ManagerInv, NEW t \in Threads, NEW id \in Ids, Forget(t, id)
    PROVE  ManagerInv'
<1> DEFINE r == Doing("forget", "remove", id, L1, NoTier, <<>>)
<1>1. /\ L1 \in 0..(Len(Reads) + 1) /\ L1 \in Tiers /\ id \in Ids \cup {NoId}
      /\ <<>> \in Seq(Puts) /\ {} \in SUBSET Pairs
  BY ConstantFacts
<1>2. /\ r \in ThreadRecords /\ r.op = "forget" /\ r.pc = "remove"
      /\ r.todo = <<>> /\ r.stamped = FALSE /\ r.id = id /\ r.at = L1
  BY <1>1 DEF Doing, ThreadRecords
<1>3. Become(t, r)
  BY DEF Forget
<1> HIDE DEF r
<1>4. L1Alone(<<>>)
  BY DEF L1Alone
<1>5. Sensible(r, used, touched)
  BY <1>1, <1>2, <1>4, AsleepFacts DEF Sensible, Forget
<1> QED
  BY <1>2, <1>3, <1>5, QuietStep DEF Forget

LEMMA QueryStartInv ==
    ASSUME ManagerInv, NEW t \in Threads, NEW floor \in Tiers, QueryStart(t, floor)
    PROVE  ManagerInv'
<1> DEFINE r == Doing("query", "read", NoId, 1, floor, <<>>)
<1>1. /\ 1 \in 0..(Len(Reads) + 1) /\ floor \in Tiers \cup {NoTier}
      /\ NoId \in Ids \cup {NoId} /\ <<>> \in Seq(Puts) /\ {} \in SUBSET Pairs
  BY ConstantFacts
<1>2. /\ r \in ThreadRecords /\ r.op = "query" /\ r.pc = "read"
      /\ r.todo = <<>> /\ r.stamped = FALSE /\ r.at = 1
  BY <1>1 DEF Doing, ThreadRecords
<1>3. Become(t, r)
  BY DEF QueryStart
<1> HIDE DEF r
<1>4. L1Alone(<<>>)
  BY DEF L1Alone
<1>5. Sensible(r, used, touched)
  BY <1>2, <1>4, AsleepFacts DEF Sensible
<1> QED
  BY <1>2, <1>3, <1>5, QuietStep DEF QueryStart

LEMMA FindInv ==
    ASSUME ManagerInv, NEW t \in Threads, Find(t) PROVE ManagerInv'
<1> DEFINE w      == thread[t]
           target == Neighbour(w.op, w.at)
           r1     == [w EXCEPT !.pc = "remove", !.at = L1, !.target = target]
           r2     == [w EXCEPT !.at = w.at + 1]
<1>1. /\ w \in ThreadRecords /\ Sensible(w, used, touched) /\ w.pc = "find"
      /\ w.todo = <<>> /\ ~w.stamped
  BY ThreadFacts DEF Find
<1>2. w.op \in {"promote", "demote"} /\ w.at \in Tiers /\ w.id \in used
  BY <1>1 DEF Sensible
<1>3. target \in Tiers /\ L1 \in Tiers
  BY <1>2, ConstantFacts DEF Neighbour
<1>4. \/ Become(t, Asleep)
      \/ Become(t, r1)
      \/ w.at # L3 /\ Become(t, r2)
  BY DEF Find
<1>5. UNCHANGED <<fifo, rows, touched, used, refused, dropped, forgotten, agedOff>>
  BY DEF Find
<1> HIDE DEF w, target
<1>6. CASE Become(t, Asleep)
  BY <1>1, <1>5, <1>6, AsleepFacts, QuietStep DEF w
<1>7. CASE Become(t, r1)
  <2>1. /\ r1 \in ThreadRecords /\ r1.todo = w.todo /\ r1.stamped = w.stamped
        /\ r1.op = w.op /\ r1.pc = "remove" /\ r1.id = w.id /\ r1.at = L1
        /\ r1.target = target
    BY <1>1, <1>3, WithRemoval
  <2> HIDE DEF r1
  <2>2. Sensible(r1, used, touched)
    BY <1>1, <1>2, <1>3, <2>1 DEF Sensible
  <2> QED
    BY <1>1, <1>5, <1>7, <2>1, <2>2, QuietStep DEF w
<1>8. CASE w.at # L3 /\ Become(t, r2)
  <2>1. w.at + 1 \in Tiers
    BY <1>2, <1>8, ConstantFacts
  <2>2. /\ r2 \in ThreadRecords /\ r2.todo = w.todo /\ r2.stamped = w.stamped
        /\ r2.op = w.op /\ r2.pc = w.pc /\ r2.id = w.id /\ r2.at = w.at + 1
    BY <1>1, <2>1, WithTier
  <2> HIDE DEF r2
  <2>3. Sensible(r2, used, touched)
    BY <1>1, <1>2, <2>1, <2>2 DEF Sensible
  <2> QED
    BY <1>1, <1>5, <1>8, <2>2, <2>3, QuietStep DEF w
<1> QED
  BY <1>4, <1>6, <1>7, <1>8

LEMMA QueryReadInv ==
    ASSUME ManagerInv, NEW t \in Threads, QueryRead(t) PROVE ManagerInv'
<1> DEFINE w   == thread[t]
           n   == w.at
           got == IF Reads[n] <= w.target THEN InTier(Reads[n]) \X {n} ELSE {}
<1>1. /\ w \in ThreadRecords /\ Sensible(w, used, touched) /\ w.pc = "read"
      /\ w.todo = <<>> /\ ~w.stamped /\ w.cand \in SUBSET Pairs /\ w.at \in 0..5
  BY ThreadFacts DEF QueryRead
<1>2. n \in 1..4
  BY <1>1, ConstantFacts DEF Sensible, QueryRead
<1>3. Reads[n] \in Tiers
  BY <1>2, ConstantFacts
<1>4. InTier(Reads[n]) \subseteq Ids
  BY <1>3 DEF ManagerInv, DataOK
<1>5. got \in SUBSET Pairs
  BY <1>2, <1>4, ConstantFacts DEF Pairs
<1>6. PICK seen \in SUBSET Pairs :
         Become(t, [w EXCEPT !.at = n + 1, !.cand = w.cand \cup seen])
  BY <1>5 DEF QueryRead
<1>7. UNCHANGED <<fifo, rows, touched, used, refused, dropped, forgotten, agedOff>>
  BY DEF QueryRead
<1> HIDE DEF w, n, got
<1> DEFINE next == n + 1
           c    == w.cand \cup seen
<1>8. next \in 0..(Len(Reads) + 1) /\ c \in SUBSET Pairs
  BY <1>1, <1>2, ConstantFacts
<1>9. Become(t, [w EXCEPT !.at = next, !.cand = c])
  BY <1>6
<1>10. next # 0
  BY <1>2
<1> HIDE DEF next, c
<1> DEFINE r == [w EXCEPT !.at = next, !.cand = c]
<1>11. /\ r \in ThreadRecords /\ r.todo = w.todo /\ r.stamped = w.stamped
       /\ r.pc = w.pc /\ r.at = next
  BY <1>1, <1>8 DEF ThreadRecords
<1>12. Become(t, r)
  BY <1>9
<1> HIDE DEF r
<1>13. Sensible(r, used, touched)
  BY <1>1, <1>10, <1>11, AsleepFacts DEF Sensible
<1> QED
  BY <1>1, <1>7, <1>11, <1>12, <1>13, QuietStep DEF w

\* The first occurrence of each memory is the only one kept.
LEMMA DeduplicatedOnce ==
    ASSUME NEW cand \in SUBSET Pairs
    PROVE  Deduplicated(cand) \in SUBSET Pairs /\ Once(Deduplicated(cand))
<1>1. Deduplicated(cand) \in SUBSET Pairs
  BY DEF Deduplicated
<1>2. ASSUME NEW c \in Deduplicated(cand), NEW d \in Deduplicated(cand), c[1] = d[1]
      PROVE  c = d
  <2>1. c \in Pairs /\ d \in Pairs /\ c[2] <= d[2] /\ d[2] <= c[2]
    BY <1>2 DEF Deduplicated
  <2>2. c[2] \in 1..4 /\ d[2] \in 1..4 /\ c = <<c[1], c[2]>> /\ d = <<d[1], d[2]>>
    BY <2>1, ConstantFacts DEF Pairs
  <2>3. c[2] = d[2]
    BY <2>1, <2>2
  <2> QED
    BY <1>2, <2>2, <2>3
<1> QED
  BY <1>1, <1>2 DEF Once

LEMMA QueryRankInv ==
    ASSUME ManagerInv, NEW t \in Threads, QueryRank(t) PROVE ManagerInv'
<1> DEFINE w == thread[t]
<1>1. /\ w \in ThreadRecords /\ Sensible(w, used, touched) /\ w.pc = "read"
      /\ w.todo = <<>> /\ ~w.stamped /\ w.cand \in SUBSET Pairs
  BY ThreadFacts DEF QueryRank
<1>2. UNCHANGED <<fifo, rows, touched, used, refused, dropped, forgotten, agedOff>>
  BY DEF QueryRank
<1>3. \/ Become(t, Asleep)
      \/ \E hits \in SUBSET Deduplicated(w.cand) :
            Become(t, [w EXCEPT !.pc = "touch", !.cand = hits])
  BY DEF QueryRank
<1> HIDE DEF w
<1>4. CASE Become(t, Asleep)
  BY <1>1, <1>2, <1>4, AsleepFacts, QuietStep DEF w
<1>5. ASSUME NEW hits \in SUBSET Deduplicated(w.cand),
             Become(t, [w EXCEPT !.pc = "touch", !.cand = hits])
      PROVE  ManagerInv'
  <2> DEFINE r == [w EXCEPT !.pc = "touch", !.cand = hits]
  <2>1. hits \in SUBSET Pairs /\ Once(hits)
    BY <1>1, DeduplicatedOnce DEF Once
  <2>2. /\ r \in ThreadRecords /\ r.todo = w.todo /\ r.stamped = w.stamped
        /\ r.pc = "touch" /\ r.cand = hits
    BY <1>1, <2>1, WithHits
  <2>3. Become(t, r)
    BY <1>5
  <2> HIDE DEF r
  <2>4. Sensible(r, used, touched)
    BY <1>1, <2>1, <2>2, AsleepFacts DEF Sensible
  <2> QED
    BY <1>1, <1>2, <2>2, <2>3, <2>4, QuietStep DEF w
<1> QED
  BY <1>3, <1>4, <1>5

-----------------------------------------------------------------------------
(* Puts: what a tier evicts, and what the thread has left to do *)

\* The todo list that Proceed leaves.
LeftToDo(victims, tier, rest) ==
    (IF tier = L3 THEN <<>>
     ELSE [i \in 1..Len(victims) |-> Put(victims[i], OneBelow(tier))]) \o rest

\* The memories that a tier's victims leave in the thread's hand.
HandedDown(victims, tier) == IF tier = L3 THEN {} ELSE Members(victims)

LEMMA LeftToDoFacts ==
    ASSUME NEW victims \in Seq(Ids), NEW tier \in Tiers, NEW rest \in Seq(Puts),
           \A i \in 1..Len(rest) : rest[i].tier # L1
    PROVE  LET q == LeftToDo(victims, tier, rest) IN
           /\ q \in Seq(Puts) /\ L1Alone(q)
           /\ Hand(q) = HandedDown(victims, tier) \cup Hand(rest)
<1> DEFINE next == IF tier = L3 THEN <<>>
                   ELSE [i \in 1..Len(victims) |-> Put(victims[i], OneBelow(tier))]
           q == next \o rest
<1>1. LeftToDo(victims, tier, rest) = q
  BY DEF LeftToDo
<1>2. /\ next \in Seq(Puts)
      /\ \A i \in 1..Len(next) : next[i].tier # L1
      /\ Hand(next) = HandedDown(victims, tier)
  <2>1. CASE tier = L3
    BY <2>1, AsleepFacts DEF HandedDown
  <2>2. CASE tier # L3
    <3>1. tier + 1 \in Tiers /\ tier + 1 # L1 /\ OneBelow(tier) = tier + 1
      BY <2>2, ConstantFacts DEF OneBelow
    <3>2. Len(victims) \in Nat /\ \A i \in 1..Len(victims) : victims[i] \in Ids
      BY LenProperties
    <3>3. \A i \in 1..Len(victims) : Put(victims[i], OneBelow(tier)) \in Puts
      BY <3>1, <3>2 DEF Put, Puts
    <3>4. next = [i \in 1..Len(victims) |-> Put(victims[i], OneBelow(tier))]
      BY <2>2
    <3>5. /\ next \in Seq(Puts) /\ Len(next) = Len(victims)
          /\ \A i \in 1..Len(victims) : next[i] = Put(victims[i], OneBelow(tier))
      <4> HIDE DEF next
      <4> QED
        BY <3>2, <3>3, <3>4, IsASeq
    <3> HIDE DEF next
    <3>6. \A i \in 1..Len(next) : next[i].tier = tier + 1 /\ next[i].id = victims[i]
      <4>1. \A a, b : Put(a, b).id = a /\ Put(a, b).tier = b
        BY DEF Put
      <4> QED
        BY <3>1, <3>5, <4>1
    <3>7. Hand(next) = Members(victims)
      BY <3>5, <3>6 DEF Hand, Members
    <3> QED
      BY <2>2, <3>1, <3>5, <3>6, <3>7 DEF HandedDown
  <2> QED
    BY <2>1, <2>2
<1> HIDE DEF next
<1>3. /\ q \in Seq(Puts) /\ Len(q) = Len(next) + Len(rest)
      /\ Len(next) \in Nat /\ Len(rest) \in Nat
      /\ \A i \in 1..Len(q) : q[i] = IF i <= Len(next) THEN next[i]
                                     ELSE rest[i - Len(next)]
  BY <1>2, ConcatProperties, LenProperties
<1> HIDE DEF q
<1>4. ASSUME NEW i \in 1..Len(q)
      PROVE  q[i].tier # L1 /\ q[i].id \in Hand(next) \cup Hand(rest)
  <2>1. CASE i <= Len(next)
    <3>1. i \in 1..Len(next) /\ q[i] = next[i]
      BY <1>3, <2>1
    <3> QED
      BY <1>2, <3>1 DEF Hand
  <2>2. CASE ~(i <= Len(next))
    <3>1. i - Len(next) \in 1..Len(rest) /\ q[i] = rest[i - Len(next)]
      BY <1>3, <2>2
    <3> QED
      BY <3>1 DEF Hand
  <2> QED
    BY <2>1, <2>2
<1>5. ASSUME NEW i \in 1..Len(next) PROVE next[i].id \in Hand(q)
  <2>1. i \in 1..Len(q) /\ q[i] = next[i]
    BY <1>3
  <2> QED
    BY <2>1 DEF Hand
<1>6. ASSUME NEW i \in 1..Len(rest) PROVE rest[i].id \in Hand(q)
  <2>1. Len(next) + i \in 1..Len(q) /\ q[Len(next) + i] = rest[i]
    BY <1>3
  <2> QED
    BY <2>1 DEF Hand
<1>7. Hand(q) = Hand(next) \cup Hand(rest)
  BY <1>4, <1>5, <1>6 DEF Hand
<1>8. L1Alone(q)
  BY <1>4 DEF L1Alone
<1> QED
  BY <1>1, <1>2, <1>3, <1>7, <1>8

LEMMA LeftToDoMembers ==
    ASSUME NEW victims \in Seq(Ids), NEW tier \in Tiers, NEW rest \in Seq(Puts)
    PROVE  Members(LeftToDo(victims, tier, rest)) =
              (IF tier = L3 THEN {}
               ELSE {Put(id, OneBelow(tier)) : id \in Members(victims)}) \cup Members(rest)
<1> DEFINE next == [i \in 1..Len(victims) |-> Put(victims[i], OneBelow(tier))]
           q    == next \o rest
<1>1. CASE tier = L3
  <2>1. <<>> \o rest = rest
    OBVIOUS
  <2> QED
    BY <1>1, <2>1 DEF LeftToDo
<1>2. CASE tier # L3
  <2>1. LeftToDo(victims, tier, rest) = q
    BY <1>2 DEF LeftToDo
  <2>2. Len(victims) \in Nat /\ \A i \in 1..Len(victims) : victims[i] \in Ids
    BY LenProperties
  <2>3. /\ next \in Seq(Puts) /\ Len(next) = Len(victims)
        /\ \A i \in 1..Len(victims) : next[i] = Put(victims[i], OneBelow(tier))
    <3>1. \A i \in 1..Len(victims) : Put(victims[i], OneBelow(tier)) \in Puts
      BY <1>2, <2>2, ConstantFacts DEF Put, Puts, OneBelow
    <3>2. \A f : f = [i \in 1..Len(victims) |-> Put(victims[i], OneBelow(tier))] =>
                    f \in Seq(Puts) /\ Len(f) = Len(victims)
      BY <2>2, <3>1, IsASeq
    <3> QED
      BY <3>2
  <2> HIDE DEF next
  <2>4. /\ Len(q) = Len(next) + Len(rest) /\ Len(next) \in Nat /\ Len(rest) \in Nat
        /\ \A i \in 1..Len(q) : q[i] = IF i <= Len(next) THEN next[i]
                                       ELSE rest[i - Len(next)]
    <3>1. next \in Seq(Puts) /\ rest \in Seq(Puts)
      BY <2>3
    <3> QED
      BY <3>1, ConcatProperties, LenProperties
  <2> HIDE DEF q
  <2>5. ASSUME NEW i \in 1..Len(q) PROVE q[i] \in Members(next) \cup Members(rest)
    <3>1. CASE i <= Len(next)
      <4>1. i \in 1..Len(next) /\ q[i] = next[i]
        BY <2>4, <3>1
      <4> QED
        BY <4>1 DEF Members
    <3>2. CASE ~(i <= Len(next))
      <4>1. i - Len(next) \in 1..Len(rest) /\ q[i] = rest[i - Len(next)]
        BY <2>4, <3>2
      <4> QED
        BY <4>1 DEF Members
    <3> QED
      BY <3>1, <3>2
  <2>6. ASSUME NEW i \in 1..Len(next) PROVE next[i] \in Members(q)
    <3>1. i \in 1..Len(q) /\ q[i] = next[i]
      BY <2>4
    <3> QED
      BY <3>1 DEF Members
  <2>7. ASSUME NEW i \in 1..Len(rest) PROVE rest[i] \in Members(q)
    <3>1. Len(next) + i \in 1..Len(q) /\ q[Len(next) + i] = rest[i]
      BY <2>4
    <3> QED
      BY <3>1 DEF Members
  <2>8. Members(q) = Members(next) \cup Members(rest)
    BY <2>5, <2>6, <2>7 DEF Members
  <2>9. Members(next) = {Put(id, OneBelow(tier)) : id \in Members(victims)}
    BY <2>3 DEF Members
  <2> QED
    BY <1>2, <2>1, <2>8, <2>9
<1> QED
  BY <1>1, <1>2

\* What a tier's victims leave to do is below the tier.
LEMMA LeftIsBelow ==
    ASSUME NEW victims \in Seq(Ids), NEW tier \in Tiers, NEW rest \in Seq(Puts),
           NEW at \in Nat, at <= tier, \A p \in Members(rest) : p.tier > at
    PROVE  Below(at, LeftToDo(victims, tier, rest))
<1> DEFINE q == LeftToDo(victims, tier, rest)
<1>1. Members(q) = (IF tier = L3 THEN {}
                    ELSE {Put(id, OneBelow(tier)) : id \in Members(victims)}) \cup Members(rest)
  BY LeftToDoMembers
<1>2. \A id : Put(id, OneBelow(tier)).tier > at
  <2>1. \A id : Put(id, OneBelow(tier)).tier = OneBelow(tier)
    BY DEF Put
  <2>2. OneBelow(tier) > at
    BY ConstantFacts DEF OneBelow
  <2> QED
    BY <2>1, <2>2
<1>3. \A p \in Members(q) : p.tier > at
  BY <1>1, <1>2
<1> HIDE DEF q
<1>4. \A i \in 1..Len(q) : q[i] \in Members(q)
  BY DEF Members
<1>5. Below(at, q)
  <2> SUFFICES ASSUME NEW i \in 1..Len(q) PROVE q[i].tier >= at /\ q[i].tier # at
    BY DEF Below
  <2>1. q[i].tier > at
    BY <1>3, <1>4
  <2>2. q[i].tier \in Nat
    <3>1. q[i] \in Members(q)
      BY <1>4
    <3>2. \A id : Put(id, OneBelow(tier)).tier \in Nat
      <4>1. \A id : Put(id, OneBelow(tier)).tier = OneBelow(tier)
        BY DEF Put
      <4> QED
        BY <4>1, ConstantFacts DEF OneBelow
    <3>3. \A p \in Members(rest) : p.tier \in Nat
      <4> SUFFICES ASSUME NEW p \in Members(rest) PROVE p.tier \in Nat
        OBVIOUS
      <4>1. p \in Puts
        BY DEF Members
      <4> QED
        BY <4>1, ConstantFacts DEF Puts
    <3> QED
      BY <1>1, <3>1, <3>2, <3>3 DEF q
  <2> QED
    BY <2>1, <2>2
<1> QED
  BY <1>5 DEF q

\* The facts a put starts from.
LEMMA PutFacts ==
    ASSUME ManagerInv, NEW t \in Threads, thread[t].pc = "put"
    PROVE  LET todo == thread[t].todo IN
           /\ todo \in Seq(Puts) /\ todo # <<>> /\ L1Alone(todo)
           /\ Head(todo).id \in used /\ Head(todo).id \in Ids
           /\ Head(todo).tier \in Tiers
           /\ Tail(todo) \in Seq(Puts) /\ Hand(Tail(todo)) \subseteq used
           /\ Hand(todo) = {Head(todo).id} \cup Hand(Tail(todo))
           /\ \A i \in 1..Len(Tail(todo)) : Tail(todo)[i].tier # L1
           /\ InHand(t) = Hand(todo) /\ Hand(todo) \subseteq used
<1> DEFINE todo == thread[t].todo
<1>1. /\ todo \in Seq(Puts) /\ todo # <<>> /\ L1Alone(todo) /\ Hand(todo) \subseteq used
  BY ThreadFacts DEF Sensible
<1>2. InHand(t) = Hand(todo)
  BY DEF InHand, Hand
<1> HIDE DEF todo
<1> QED
  BY <1>1, <1>2, TodoFacts DEF todo

\* The thread goes on with what is left to do.
LEMMA ProceedFacts ==
    ASSUME ManagerInv, NEW t \in Threads, thread[t].pc = "put",
           NEW victims \in Seq(Ids), NEW tier \in Tiers, Proceed(t, victims, tier),
           tier = Head(thread[t].todo).tier, Members(victims) \subseteq used,
           used' = used, touched' = touched
    PROVE  /\ ThreadsOK'
           /\ InHand(t)' = HandedDown(victims, tier) \cup Hand(Tail(thread[t].todo))
           /\ \A u \in Threads : u # t => InHand(u)' = InHand(u)
           /\ thread'[t].todo = LeftToDo(victims, tier, Tail(thread[t].todo))
           /\ \/ thread'[t].pc = "idle"
              \/ /\ thread'[t].pc = "put" /\ thread'[t].stamped = FALSE
                 /\ thread'[t].op = thread[t].op /\ thread'[t].id = thread[t].id
                 /\ thread'[t].target = thread[t].target
<1> DEFINE w == thread[t]
           q == LeftToDo(victims, tier, Tail(w.todo))
           r == IF q = <<>> THEN Asleep ELSE [w EXCEPT !.todo = q, !.stamped = FALSE]
<1>1. w \in ThreadRecords /\ Sensible(w, used, touched)
  BY ThreadFacts
<1>2. /\ q \in Seq(Puts) /\ L1Alone(q)
      /\ Hand(q) = HandedDown(victims, tier) \cup Hand(Tail(w.todo))
      /\ Hand(q) \subseteq used
  <2> DEFINE rest == Tail(w.todo)
  <2>1. /\ rest \in Seq(Puts) /\ Hand(rest) \subseteq used
        /\ \A i \in 1..Len(rest) : rest[i].tier # L1
    BY PutFacts
  <2> HIDE DEF rest
  <2>2. LET p == LeftToDo(victims, tier, rest) IN
        /\ p \in Seq(Puts) /\ L1Alone(p)
        /\ Hand(p) = HandedDown(victims, tier) \cup Hand(rest)
    BY <2>1, LeftToDoFacts
  <2>3. HandedDown(victims, tier) \subseteq used
    BY DEF HandedDown
  <2> QED
    BY <2>1, <2>2, <2>3 DEF rest
<1>3. Become(t, r)
  BY DEF Proceed, LeftToDo
<1>4. w.op = "insert" => Below(w.at, q)
  <2> SUFFICES ASSUME w.op = "insert" PROVE Below(w.at, q)
    OBVIOUS
  <2> DEFINE rest == Tail(w.todo)
  <2>1. Below(w.at, w.todo) /\ w.at \in Nat
    BY <1>1, ThreadFacts DEF Sensible
  <2>2. w.todo \in Seq(Puts) /\ w.todo # <<>> /\ rest \in Seq(Puts)
    BY PutFacts
  <2>3. tier >= w.at /\ \A p \in Members(rest) : p.tier > w.at
    BY <2>1, <2>2, BelowParts
  <2>4. w.at <= tier
    BY <2>1, <2>3, ConstantFacts
  <2> HIDE DEF rest
  <2> QED
    BY <2>1, <2>2, <2>3, <2>4, LeftIsBelow DEF rest
<1> HIDE DEF q, w
<1>5. /\ r \in ThreadRecords /\ Sensible(r, used, touched) /\ r.todo = q
      /\ \/ r.pc = "idle"
         \/ /\ r.pc = "put" /\ r.stamped = FALSE /\ r.op = w.op /\ r.id = w.id
            /\ r.target = w.target
  <2>1. CASE q = <<>>
    BY <2>1, AsleepFacts
  <2>2. CASE q # <<>>
    <3> DEFINE v == [w EXCEPT !.todo = q, !.stamped = FALSE]
    <3>1. /\ v \in ThreadRecords /\ v.todo = q /\ v.stamped = FALSE
          /\ v.op = w.op /\ v.pc = w.pc /\ v.id = w.id /\ v.target = w.target
          /\ v.at = w.at
      BY <1>1, <1>2, WithTodo
    <3>2. r = v /\ w.pc = "put"
      BY <2>2 DEF w
    <3> HIDE DEF v, r
    <3>3. v.op = "insert" => Below(v.at, q)
      BY <1>4, <3>1
    <3>4. Sensible(v, used, touched)
      BY <1>2, <2>2, <3>1, <3>2, <3>3 DEF Sensible
    <3> QED
      BY <3>1, <3>2, <3>4
  <2> QED
    BY <2>1, <2>2
<1> HIDE DEF r
<1>6. ThreadsOK
  BY DEF ManagerInv
<1>7. /\ ThreadsOK' /\ InHand(t)' = Hand(q) /\ thread'[t] = r
      /\ \A u \in Threads : u # t => InHand(u)' = InHand(u)
  BY <1>3, <1>5, <1>6, BecomeFacts
<1> QED
  BY <1>2, <1>5, <1>7 DEF w, q

\* What L1 evicts for a memory that fits into it, and what it keeps.
LEMMA L1Evictions ==
    ASSUME NEW s \in Seq(Ids), NoRepeats(s), NEW id \in Ids, id \notin Members(s),
           Size[id] <= Cap[L1]
    PROVE  LET n       == PopCount(Size, s, Size[id], Cap[L1])
               victims == SubSeq(s, 1, n)
               order   == Append(Suffix(s, n), id)
           IN  /\ victims \in Seq(Ids) /\ NoRepeats(victims)
               /\ Members(victims) \subseteq Members(s)
               /\ order \in Seq(Ids) /\ NoRepeats(order)
               /\ Members(order) = (Members(s) \cup {id}) \ Members(victims)
               /\ Bytes(Size, Members(order)) <= Cap[L1]
<1> DEFINE n       == PopCount(Size, s, Size[id], Cap[L1])
           victims == SubSeq(s, 1, n)
           kept    == Suffix(s, n)
           order   == Append(kept, id)
<1>1. n \in 0..Len(s) /\ (n = Len(s) \/ Fits(Size, s, n, Size[id], Cap[L1]))
  BY PopCountProperties
<1> HIDE DEF n
<1>2. /\ victims \in Seq(Ids) /\ NoRepeats(victims)
      /\ kept \in Seq(Ids) /\ NoRepeats(kept)
      /\ Members(victims) \cup Members(kept) = Members(s)
      /\ Members(victims) \cap Members(kept) = {}
      /\ n = Len(s) => Members(kept) = {}
  BY <1>1, CutProperties
<1>3. \/ Members(kept) = {}
      \/ Bytes(Size, Members(kept)) + Size[id] <= Cap[L1]
  BY <1>1, <1>2 DEF Fits
<1> HIDE DEF victims, kept
<1>4. id \notin Members(kept) /\ id \notin Members(victims)
  BY <1>2
<1>5. order \in Seq(Ids) /\ NoRepeats(order) /\ Members(order) = Members(kept) \cup {id}
  BY <1>2, <1>4, AppendNewKey
<1>6. Members(order) = (Members(s) \cup {id}) \ Members(victims)
  BY <1>2, <1>4, <1>5
<1>7. Members(kept) \in SUBSET Ids /\ Size \in Charges /\ Size[id] \in Nat
  BY <1>2, ConstantFacts DEF Members
<1>8. Bytes(Size, Members(order)) = Bytes(Size, Members(kept)) + Size[id]
  BY <1>4, <1>5, <1>7, BytesAdd
<1>9. Bytes(Size, Members(order)) <= Cap[L1]
  <2>1. Bytes(Size, {}) = 0
    BY BytesEmpty
  <2>2. CASE Members(kept) = {}
    BY <1>7, <1>8, <2>1, <2>2
  <2> QED
    BY <1>3, <1>8, <2>2
<1> QED
  BY <1>2, <1>5, <1>6, <1>9 DEF n, victims, kept

\* What L2 and L3 evict, and that the rest fits.
LEMMA VictimsFacts ==
    ASSUME DataOK, TierBudgets, NEW tier \in {L2, L3}, NEW id \in Ids,
           id \in Members(touched[tier])
    PROVE  LET victims == Victims(tier, id) IN
           /\ victims \in Seq(Ids) /\ NoRepeats(victims)
           /\ Members(victims) \subseteq rows[tier] \cup {id}
           /\ Bytes(Size, (rows[tier] \cup {id}) \ Members(victims)) <= Cap[tier]
<1> DEFINE all  == rows[tier] \cup {id}
           cold == ColdOrder(tier, all)
           n    == PopCount(Size, cold, 0, Cap[tier])
           some == SubSeq(cold, 1, n)
<1>1. tier \in Tiers /\ Cap[tier] \in Nat /\ Size \in Charges
  BY ConstantFacts
<1>2. /\ touched[tier] \in Seq(Ids) /\ NoRepeats(touched[tier])
      /\ rows[tier] \subseteq Members(touched[tier]) /\ rows[tier] \in SUBSET Ids
  BY DEF DataOK
<1>3. Bytes(Size, rows[tier]) <= Cap[tier]
  <2>1. InTier(tier) = rows[tier]
    BY ConstantFacts DEF InTier
  <2> QED
    BY <1>1, <2>1 DEF TierBudgets
<1>4. CASE id \in rows[tier] \/ Bytes(Size, all) <= Cap[tier]
  <2>1. Victims(tier, id) = <<>>
    BY <1>4 DEF Victims
  <2>2. <<>> \in Seq(Ids) /\ NoRepeats(<<>>) /\ Members(<<>>) = {}
    BY DEF NoRepeats, Members
  <2>3. id \in rows[tier] => all = rows[tier]
    OBVIOUS
  <2>4. all \ {} = all
    OBVIOUS
  <2> QED
    BY <1>3, <1>4, <2>1, <2>2, <2>3, <2>4
<1>5. CASE ~(id \in rows[tier] \/ Bytes(Size, all) <= Cap[tier])
  <2>1. Victims(tier, id) = some
    BY <1>5 DEF Victims
  <2>2. cold \in Seq(Ids) /\ NoRepeats(cold) /\ Members(cold) = all
    BY <1>2, AmongProperties DEF ColdOrder
  <2> HIDE DEF cold, all
  <2>3. n \in 0..Len(cold) /\ (n = Len(cold) \/ Fits(Size, cold, n, 0, Cap[tier]))
    BY <2>2, PopCountProperties
  <2> HIDE DEF n
  <2>4. /\ some \in Seq(Ids) /\ NoRepeats(some)
        /\ Suffix(cold, n) \in Seq(Ids)
        /\ Members(some) \cup Members(Suffix(cold, n)) = Members(cold)
        /\ Members(some) \cap Members(Suffix(cold, n)) = {}
        /\ n = Len(cold) => Members(Suffix(cold, n)) = {}
    BY <2>2, <2>3, CutProperties
  <2>5. all \ Members(some) = Members(Suffix(cold, n)) /\ Members(some) \subseteq all
    BY <2>2, <2>4
  <2>6. Members(Suffix(cold, n)) \in SUBSET Ids
    BY <2>4 DEF Members
  <2>7. Bytes(Size, Members(Suffix(cold, n))) \in Nat
    BY <1>1, <2>6, BytesType
  <2>8. Bytes(Size, Members(Suffix(cold, n))) <= Cap[tier]
    <3>1. Bytes(Size, {}) = 0
      BY BytesEmpty
    <3>2. CASE n = Len(cold)
      <4>1. Members(Suffix(cold, n)) = {}
        BY <2>4, <3>2
      <4>2. 0 <= Cap[tier]
        BY <1>1
      <4> QED
        BY <3>1, <4>1, <4>2
    <3>3. CASE Fits(Size, cold, n, 0, Cap[tier])
      <4>1. Bytes(Size, Members(Suffix(cold, n))) + 0 <= Cap[tier]
        BY <3>3 DEF Fits
      <4> QED
        BY <1>1, <2>7, <4>1
    <3> QED
      BY <2>3, <3>2, <3>3
  <2> QED
    BY <2>1, <2>4, <2>5, <2>8 DEF all
<1> QED
  BY <1>4, <1>5

\* A memory gets the freshest last_touch of a tier.
LEMMA FreshenedFacts ==
    ASSUME DataOK, NEW tier \in {L2, L3}, NEW id \in Ids
    PROVE  LET order == Freshened(tier, id) IN
           /\ order \in [{L2, L3} -> Seq(Ids)]
           /\ \A other \in {L2, L3} : NoRepeats(order[other])
           /\ Members(order[tier]) = Members(touched[tier]) \cup {id}
           /\ \A other \in {L2, L3} : Members(touched[other]) \subseteq Members(order[other])
<1>1. /\ touched \in [{L2, L3} -> Seq(Ids)]
      /\ \A other \in {L2, L3} : NoRepeats(touched[other])
  BY DEF DataOK
<1> DEFINE rest == Without(touched[tier], id)
           s    == Append(rest, id)
<1>2. /\ rest \in Seq(Ids) /\ NoRepeats(rest)
      /\ Members(rest) = Members(touched[tier]) \ {id}
  BY <1>1, WithoutProperties
<1>3. Freshened(tier, id) = [touched EXCEPT ![tier] = s]
  BY DEF Freshened
<1> HIDE DEF rest
<1>4. s \in Seq(Ids) /\ NoRepeats(s) /\ Members(s) = Members(rest) \cup {id}
  BY <1>2, AppendNewKey
<1> HIDE DEF s
<1> QED
  BY <1>1, <1>2, <1>3, <1>4

\* A put into L1 of a memory that fits.
LEMMA PutL1Effect ==
    ASSUME ManagerInv, NEW t \in Threads, PutL1(t)
    PROVE  LET id == Head(thread[t].todo).id IN
           /\ thread[t].pc = "put" /\ Head(thread[t].todo).tier = L1
           /\ UNCHANGED <<rows, touched, used, forgotten, agedOff>>
           /\ Size[id] <= Cap[L1] =>
                 \E victims \in Seq(Ids) :
                    /\ NoRepeats(victims) /\ Members(victims) \subseteq Members(fifo) \ {id}
                    /\ fifo' \in Seq(Ids) /\ NoRepeats(fifo')
                    /\ Members(fifo') = (Members(fifo) \cup {id}) \ Members(victims)
                    /\ Bytes(Size, Members(fifo')) <= Cap[L1]
                    /\ Proceed(t, victims, L1)
                    /\ UNCHANGED <<refused, dropped>>
           /\ ~(Size[id] <= Cap[L1]) =>
                 /\ UNCHANGED fifo
                 /\ InTry(t) => Reroute(t)
                 /\ ~InTry(t) => Raised(t)
<1> DEFINE id      == Head(thread[t].todo).id
           rest    == Without(fifo, id)
           n       == PopCount(Size, rest, Size[id], Cap[L1])
           victims == SubSeq(rest, 1, n)
           order   == Append(Suffix(rest, n), id)
<1>1. /\ thread[t].pc = "put" /\ Head(thread[t].todo).tier = L1
      /\ UNCHANGED <<rows, touched, used, forgotten, agedOff>>
  BY DEF PutL1
<1>2. id \in Ids
  BY <1>1, PutFacts
<1>3. ASSUME ~(Size[id] <= Cap[L1])
      PROVE  /\ UNCHANGED fifo
             /\ InTry(t) => Reroute(t)
             /\ ~InTry(t) => Raised(t)
  BY <1>3 DEF PutL1
<1>4. ASSUME Size[id] <= Cap[L1]
      PROVE  /\ fifo' = order
             /\ Proceed(t, victims, L1)
             /\ UNCHANGED <<refused, dropped>>
  BY <1>4 DEF PutL1
<1>5. fifo \in Seq(Ids) /\ NoRepeats(fifo)
  BY DEF ManagerInv, DataOK
<1> HIDE DEF id
<1>6. rest \in Seq(Ids) /\ NoRepeats(rest) /\ Members(rest) = Members(fifo) \ {id}
  BY <1>2, <1>5, WithoutProperties
<1>7. id \notin Members(rest)
  BY <1>6
<1> HIDE DEF rest
<1>8. ASSUME Size[id] <= Cap[L1]
      PROVE  /\ victims \in Seq(Ids) /\ NoRepeats(victims)
             /\ Members(victims) \subseteq Members(rest)
             /\ order \in Seq(Ids) /\ NoRepeats(order)
             /\ Members(order) = (Members(rest) \cup {id}) \ Members(victims)
             /\ Bytes(Size, Members(order)) <= Cap[L1]
  BY <1>2, <1>6, <1>7, <1>8, L1Evictions
<1> HIDE DEF victims, order
<1>9. ASSUME Size[id] <= Cap[L1]
      PROVE  /\ Members(victims) \subseteq Members(fifo) \ {id}
             /\ Members(fifo') = (Members(fifo) \cup {id}) \ Members(victims)
             /\ fifo' \in Seq(Ids) /\ NoRepeats(fifo')
             /\ Bytes(Size, Members(fifo')) <= Cap[L1]
  BY <1>4, <1>6, <1>8, <1>9
<1>10. ASSUME Size[id] <= Cap[L1]
       PROVE  \E v \in Seq(Ids) :
                 /\ NoRepeats(v) /\ Members(v) \subseteq Members(fifo) \ {id}
                 /\ fifo' \in Seq(Ids) /\ NoRepeats(fifo')
                 /\ Members(fifo') = (Members(fifo) \cup {id}) \ Members(v)
                 /\ Bytes(Size, Members(fifo')) <= Cap[L1]
                 /\ Proceed(t, v, L1)
                 /\ UNCHANGED <<refused, dropped>>
  BY <1>4, <1>8, <1>9, <1>10
<1> QED
  BY <1>1, <1>3, <1>10 DEF id

\* An exception: what the thread had in hand is accounted for.
LEMMA RaisedFacts ==
    ASSUME ManagerInv, NEW t \in Threads, thread[t].pc = "put", Raised(t),
           used' = used, touched' = touched
    PROVE  /\ ThreadsOK' /\ InHand(t)' = {} /\ InHand(t) \subseteq used
           /\ \A u \in Threads : u # t => InHand(u)' = InHand(u)
           /\ refused \subseteq refused' /\ dropped \subseteq dropped'
           /\ (refused \cup dropped)' = refused \cup dropped \cup InHand(t)
<1>1. /\ ThreadsOK' /\ InHand(t)' = Hand(<<>>)
      /\ \A u \in Threads : u # t => InHand(u)' = InHand(u)
  BY AsleepFacts, BecomeFacts DEF Raised, ManagerInv
<1>2. InHand(t) \subseteq used
  BY PutFacts
<1> DEFINE own == IF thread[t].op = "insert" THEN {thread[t].id} \cap InHand(t) ELSE {}
<1>3. /\ refused' = refused \cup own /\ dropped' = dropped \cup (InHand(t) \ own)
  BY DEF Raised
<1>4. own \subseteq InHand(t)
  OBVIOUS
<1> HIDE DEF own
<1>5. (refused \cup dropped)' = refused \cup dropped \cup InHand(t)
  BY <1>3, <1>4
<1> QED
  BY <1>1, <1>2, <1>3, <1>5, AsleepFacts

LEMMA RaisedInv ==
    ASSUME ManagerInv, NEW t \in Threads, thread[t].pc = "put", Raised(t),
           UNCHANGED <<fifo, rows, touched, used, forgotten, agedOff>>
    PROVE  ManagerInv'
<1>1. DataOK /\ TierBudgets /\ NothingVanishes /\ ThreadsOK
  BY DEF ManagerInv
<1>2. /\ ThreadsOK' /\ InHand(t)' = {} /\ InHand(t) \subseteq used
      /\ \A u \in Threads : u # t => InHand(u)' = InHand(u)
      /\ refused \subseteq refused' /\ dropped \subseteq dropped'
      /\ (refused \cup dropped)' = refused \cup dropped \cup InHand(t)
  BY RaisedFacts
<1>3. \A tier \in Tiers : InTier(tier)' = InTier(tier)
  BY DEF InTier
<1>4. InTiers' = InTiers
  BY <1>3 DEF InTiers
<1>5. DataOK'
  BY <1>1, <1>2, <1>3 DEF DataOK
<1>6. TierBudgets'
  BY <1>1, <1>3 DEF TierBudgets
<1>7. NothingVanishes'
  BY <1>1, <1>2, <1>4, NothingVanishesStep
<1> QED
  BY <1>2, <1>5, <1>6, <1>7 DEF ManagerInv

\* An insert() that catches the exception of its first put has one put to make
\* instead, into L2.
LEMMA RerouteFacts ==
    ASSUME ManagerInv, NEW t \in Threads, thread[t].pc = "put", InTry(t), Reroute(t),
           used' = used, touched' = touched
    PROVE  LET id == thread[t].id
               q  == <<Put(id, L2)>>
           IN  /\ id \in Ids /\ InHand(t) = {id} /\ InHand(t)' = {id} /\ ThreadsOK'
               /\ \A u \in Threads : u # t => InHand(u)' = InHand(u)
               /\ thread'[t].pc = "put" /\ thread'[t].todo = q
               /\ thread'[t].id = id /\ thread'[t].target = L2
               /\ thread'[t].stamped = FALSE /\ UNCHANGED <<refused, dropped>>
<1> DEFINE w  == thread[t]
           id == w.id
           q  == <<Put(id, L2)>>
           r  == [w EXCEPT !.at = NoTier, !.target = L2, !.stamped = FALSE, !.todo = q]
<1>1. /\ w \in ThreadRecords /\ Sensible(w, used, touched) /\ w.at \in Nat
      /\ ThreadsOK
  BY ThreadFacts DEF ManagerInv
<1>2. /\ w.todo \in Seq(Puts) /\ w.todo # <<>> /\ InHand(t) = Hand(w.todo)
      /\ Hand(w.todo) = {Head(w.todo).id} \cup Hand(Tail(w.todo))
      /\ Head(w.todo).id \in used /\ Head(w.todo).id \in Ids
  BY PutFacts
<1>3. w.op = "insert" /\ Head(w.todo).id = id /\ Head(w.todo).tier = w.at
  BY DEF InTry, Put
<1>4. Tail(w.todo) = <<>>
  BY <1>1, <1>2, <1>3, BelowParts DEF Sensible
<1>5. id \in used /\ id \in Ids /\ InHand(t) = {id}
  BY <1>2, <1>3, <1>4, AsleepFacts
<1>6. L2 \in Tiers /\ NoTier \in 0..L2
  BY ConstantFacts
<1>7. q \in Seq(Puts) /\ q # <<>> /\ Hand(q) = {id} /\ L1Alone(q) /\ Below(NoTier, q)
  BY <1>5, <1>6, SinglePut, BelowItself
<1>8. Become(t, r) /\ UNCHANGED <<refused, dropped>>
  BY DEF Reroute
<1>9. w.pc = "put"
  OBVIOUS
<1> HIDE DEF w, q
<1>10. /\ r \in ThreadRecords /\ r.todo = q /\ r.stamped = FALSE
       /\ r.op = w.op /\ r.pc = w.pc /\ r.id = w.id /\ r.at = NoTier /\ r.target = L2
  BY <1>1, <1>7, WithRoute
<1> HIDE DEF r
<1>11. Sensible(r, used, touched)
  BY <1>1, <1>5, <1>7, <1>9, <1>10 DEF Sensible
<1>12. /\ ThreadsOK' /\ thread'[t] = r /\ InHand(t)' = {id}
       /\ \A u \in Threads : u # t => InHand(u)' = InHand(u)
  BY <1>1, <1>7, <1>8, <1>10, <1>11, BecomeFacts
<1> QED
  BY <1>5, <1>8, <1>9, <1>10, <1>12 DEF w, q

LEMMA RerouteInv ==
    ASSUME ManagerInv, NEW t \in Threads, thread[t].pc = "put", InTry(t), Reroute(t),
           UNCHANGED <<fifo, rows, touched, used, forgotten, agedOff>>
    PROVE  ManagerInv'
<1>1. DataOK /\ TierBudgets /\ NothingVanishes
  BY DEF ManagerInv
<1>2. /\ ThreadsOK' /\ InHand(t)' = InHand(t) /\ UNCHANGED <<refused, dropped>>
      /\ \A u \in Threads : u # t => InHand(u)' = InHand(u)
  BY RerouteFacts
<1>3. DataOK' /\ TierBudgets' /\ InTiers' = InTiers
  BY <1>1, <1>2, DataKept DEF DataOK
<1>4. NothingVanishes'
  BY <1>1, <1>2, <1>3, NothingVanishesStep
<1> QED
  BY <1>2, <1>3, <1>4 DEF ManagerInv

LEMMA PutRaisesInv ==
    ASSUME ManagerInv, NEW t \in Threads, PutRaises(t) PROVE ManagerInv'
BY RaisedInv, RerouteInv DEF PutRaises

LEMMA PutL1Inv ==
    ASSUME ManagerInv, NEW t \in Threads, PutL1(t) PROVE ManagerInv'
<1> DEFINE id == Head(thread[t].todo).id
<1>1. /\ thread[t].pc = "put" /\ Head(thread[t].todo).tier = L1
      /\ UNCHANGED <<rows, touched, used, forgotten, agedOff>>
  BY PutL1Effect
<1>2. /\ id \in used /\ id \in Ids /\ InHand(t) = {id} /\ thread[t].todo # <<>>
      /\ Hand(Tail(thread[t].todo)) = {}
  <2>1. Tail(thread[t].todo) = <<>>
    BY <1>1, PutFacts, TodoFacts
  <2> QED
    BY <1>1, <2>1, PutFacts, AsleepFacts
<1>3. DataOK /\ TierBudgets /\ NothingVanishes /\ ThreadsOK
  BY DEF ManagerInv
<1>4. CASE Size[id] <= Cap[L1]
  <2>1. PICK victims \in Seq(Ids) :
           /\ NoRepeats(victims) /\ Members(victims) \subseteq Members(fifo) \ {id}
           /\ fifo' \in Seq(Ids) /\ NoRepeats(fifo')
           /\ Members(fifo') = (Members(fifo) \cup {id}) \ Members(victims)
           /\ Bytes(Size, Members(fifo')) <= Cap[L1]
           /\ Proceed(t, victims, L1)
           /\ UNCHANGED <<refused, dropped>>
    BY <1>4, PutL1Effect
  <2> HIDE DEF id
  <2>2. Members(fifo) \subseteq used
    BY <1>3, InTiersFacts, ConstantFacts DEF DataOK
  <2>3. Members(victims) \subseteq used
    BY <2>1, <2>2
  <2>4. L1 \in Tiers /\ L1 # L3
    BY ConstantFacts
  <2>5. /\ ThreadsOK'
        /\ InHand(t)' = HandedDown(victims, L1) \cup Hand(Tail(thread[t].todo))
        /\ \A u \in Threads : u # t => InHand(u)' = InHand(u)
    BY <1>1, <2>1, <2>3, <2>4, ProceedFacts
  <2>6. InHand(t)' = Members(victims)
    BY <1>2, <2>4, <2>5 DEF HandedDown
  <2>7. /\ InTier(1)' = Members(fifo') /\ InTier(2)' = InTier(2)
        /\ InTier(3)' = InTier(3)
    BY <1>1 DEF InTier, L1
  <2>8. DataOK'
    <3>1. Members(fifo') \subseteq used'
      BY <1>1, <1>2, <2>1, <2>2
    <3>2. \A tier \in Tiers : InTier(tier)' \subseteq used'
      BY <1>1, <1>3, <2>7, <3>1, ConstantFacts DEF DataOK
    <3> QED
      BY <1>1, <1>3, <2>1, <3>2 DEF DataOK
  <2>9. TierBudgets'
    BY <1>3, <2>1, <2>7, ConstantFacts DEF TierBudgets
  <2>10. InTiers = InTier(1) \cup InTier(2) \cup InTier(3)
    BY ConstantFacts DEF InTiers
  <2>11. InTiers' = InTier(1)' \cup InTier(2)' \cup InTier(3)'
    BY ConstantFacts DEF InTiers
  <2>12. InTiers \cup InHand(t) \subseteq InTiers' \cup InHand(t)'
    <3>1. InTier(1) = Members(fifo)
      BY DEF InTier, L1
    <3> QED
      BY <1>2, <2>1, <2>6, <2>7, <2>10, <2>11, <3>1
  <2>13. NothingVanishes'
    BY <1>1, <1>3, <2>1, <2>5, <2>12, NothingVanishesStep
  <2> QED
    BY <2>5, <2>8, <2>9, <2>13 DEF ManagerInv
<1>5. CASE ~(Size[id] <= Cap[L1])
  <2>1. UNCHANGED fifo /\ ((InTry(t) /\ Reroute(t)) \/ Raised(t))
    BY <1>5, PutL1Effect
  <2> QED
    BY <1>1, <2>1, RaisedInv, RerouteInv
<1> QED
  BY <1>4, <1>5

LEMMA EmbedInv ==
    ASSUME ManagerInv, NEW t \in Threads, Embed(t) PROVE ManagerInv'
<1> DEFINE w    == thread[t]
           tier == Head(w.todo).tier
           id   == Head(w.todo).id
           r    == [w EXCEPT !.stamped = TRUE]
<1>1. /\ w.pc = "put" /\ tier # L1
      /\ UNCHANGED <<fifo, rows, used, refused, dropped, forgotten, agedOff>>
      /\ Become(t, r) /\ touched' = Freshened(tier, id)
  BY DEF Embed
<1>2. tier \in Tiers /\ id \in Ids
  BY <1>1, PutFacts
<1>3. tier \in {L2, L3}
  BY <1>1, <1>2, ConstantFacts
<1>4. DataOK /\ TierBudgets /\ ThreadsOK /\ NothingVanishes
  BY DEF ManagerInv
<1>5. w \in ThreadRecords /\ Sensible(w, used, touched)
  BY ThreadFacts
<1>6. /\ r \in ThreadRecords /\ r.todo = w.todo /\ r.stamped = TRUE
      /\ r.op = w.op /\ r.pc = w.pc /\ r.at = w.at
  BY <1>5, WithStamp
<1> HIDE DEF r
<1>7. Head(r.todo).tier = tier /\ Head(r.todo).id = id
  BY <1>6
<1> HIDE DEF w, tier, id
<1>8. /\ touched' \in [{L2, L3} -> Seq(Ids)]
      /\ \A other \in {L2, L3} : NoRepeats(touched'[other])
      /\ Members(touched'[tier]) = Members(touched[tier]) \cup {id}
      /\ \A other \in {L2, L3} : Members(touched[other]) \subseteq Members(touched'[other])
  BY <1>1, <1>2, <1>3, <1>4, FreshenedFacts
<1>9. Sensible(r, used, touched')
  BY <1>1, <1>5, <1>6, <1>7, <1>8 DEF Sensible
<1>10. /\ ThreadsOK' /\ InHand(t)' = Hand(w.todo) /\ InHand(t) = Hand(w.todo)
      /\ \A u \in Threads : u # t => InHand(u)' = InHand(u)
  BY <1>1, <1>4, <1>6, <1>8, <1>9, BecomeFacts DEF w
<1>11. \A any \in Tiers : InTier(any)' = InTier(any)
  BY <1>1 DEF InTier
<1>12. InTiers' = InTiers
  BY <1>11 DEF InTiers
<1>13. DataOK'
  BY <1>1, <1>4, <1>8, <1>11 DEF DataOK
<1>14. TierBudgets'
  BY <1>4, <1>11 DEF TierBudgets
<1>15. NothingVanishes'
  BY <1>1, <1>4, <1>10, <1>12, NothingVanishesStep
<1> QED
  BY <1>10, <1>13, <1>14, <1>15 DEF ManagerInv

\* A put into L2 or L3.
LEMMA PutRowEffect ==
    ASSUME ManagerInv, NEW t \in Threads, PutRow(t)
    PROVE  LET id == Head(thread[t].todo).id
               tier == Head(thread[t].todo).tier
           IN
           /\ thread[t].pc = "put" /\ tier \in {L2, L3}
           /\ UNCHANGED <<fifo, touched, used, refused, dropped, forgotten>>
           /\ id \in Members(touched[tier])
           /\ \E victims \in Seq(Ids) :
                 /\ NoRepeats(victims) /\ Members(victims) \subseteq rows[tier] \cup {id}
                 /\ rows' = [rows EXCEPT ![tier] = (rows[tier] \cup {id}) \ Members(victims)]
                 /\ agedOff' = IF tier = L3 THEN agedOff \cup Members(victims) ELSE agedOff
                 /\ Bytes(Size, rows'[tier]) <= Cap[tier]
                 /\ Proceed(t, victims, tier)
<1> DEFINE id == Head(thread[t].todo).id
           tier == Head(thread[t].todo).tier
           victims == Victims(tier, id)
<1>1. /\ thread[t].pc = "put" /\ thread[t].stamped
      /\ UNCHANGED <<fifo, touched, used, refused, dropped, forgotten>>
      /\ rows' = [rows EXCEPT ![tier] = (rows[tier] \cup {id}) \ Members(victims)]
      /\ agedOff' = IF tier = L3 THEN agedOff \cup Members(victims) ELSE agedOff
      /\ Proceed(t, victims, tier)
  BY DEF PutRow
<1>2. tier \in Tiers /\ id \in Ids
  BY <1>1, PutFacts
<1>3. Sensible(thread[t], used, touched)
  BY ThreadFacts
<1>4. tier # L1 /\ id \in Members(touched[tier])
  BY <1>1, <1>3 DEF Sensible
<1>5. tier \in {L2, L3}
  BY <1>2, <1>4, ConstantFacts
<1>6. DataOK /\ TierBudgets
  BY DEF ManagerInv
<1> HIDE DEF id, tier
<1>7. /\ victims \in Seq(Ids) /\ NoRepeats(victims)
      /\ Members(victims) \subseteq rows[tier] \cup {id}
      /\ Bytes(Size, (rows[tier] \cup {id}) \ Members(victims)) <= Cap[tier]
  BY <1>2, <1>4, <1>5, <1>6, VictimsFacts
<1> HIDE DEF victims
<1>8. rows'[tier] = (rows[tier] \cup {id}) \ Members(victims)
  BY <1>1, <1>5, <1>6 DEF DataOK
<1>9. \E v \in Seq(Ids) :
         /\ NoRepeats(v) /\ Members(v) \subseteq rows[tier] \cup {id}
         /\ rows' = [rows EXCEPT ![tier] = (rows[tier] \cup {id}) \ Members(v)]
         /\ agedOff' = IF tier = L3 THEN agedOff \cup Members(v) ELSE agedOff
         /\ Bytes(Size, rows'[tier]) <= Cap[tier]
         /\ Proceed(t, v, tier)
  BY <1>1, <1>7, <1>8
<1> QED
  BY <1>1, <1>4, <1>5, <1>9 DEF id, tier

LEMMA PutRowInv ==
    ASSUME ManagerInv, NEW t \in Threads, PutRow(t) PROVE ManagerInv'
<1> DEFINE id == Head(thread[t].todo).id
           tier == Head(thread[t].todo).tier
<1>1. /\ thread[t].pc = "put" /\ tier \in {L2, L3}
      /\ UNCHANGED <<fifo, touched, used, refused, dropped, forgotten>>
      /\ id \in Members(touched[tier])
  BY PutRowEffect
<1>2. PICK victims \in Seq(Ids) :
         /\ NoRepeats(victims) /\ Members(victims) \subseteq rows[tier] \cup {id}
         /\ rows' = [rows EXCEPT ![tier] = (rows[tier] \cup {id}) \ Members(victims)]
         /\ agedOff' = IF tier = L3 THEN agedOff \cup Members(victims) ELSE agedOff
         /\ Bytes(Size, rows'[tier]) <= Cap[tier]
         /\ Proceed(t, victims, tier)
  BY PutRowEffect
<1>3. DataOK /\ TierBudgets /\ NothingVanishes /\ ThreadsOK
  BY DEF ManagerInv
<1>4. /\ id \in used /\ id \in Ids /\ thread[t].todo # <<>>
      /\ InHand(t) = {id} \cup Hand(Tail(thread[t].todo))
  BY <1>1, PutFacts
<1> HIDE DEF id, tier
<1>5. tier \in Tiers /\ tier \in {2, 3}
  BY <1>1, ConstantFacts
<1>6. rows \in [{L2, L3} -> SUBSET Ids] /\ \A any \in {L2, L3} : rows[any] \subseteq used
  <2>1. \A any \in {L2, L3} : InTier(any) = rows[any] /\ any \in Tiers
    BY ConstantFacts DEF InTier
  <2> QED
    BY <1>3, <2>1 DEF DataOK
<1>7. Members(victims) \subseteq used
  BY <1>1, <1>2, <1>4, <1>6
<1>8. /\ ThreadsOK'
      /\ InHand(t)' = HandedDown(victims, tier) \cup Hand(Tail(thread[t].todo))
      /\ \A u \in Threads : u # t => InHand(u)' = InHand(u)
  <2>1. tier = Head(thread[t].todo).tier
    BY DEF tier
  <2> QED
    BY <1>1, <1>2, <1>3, <1>5, <1>7, <2>1, ProceedFacts
<1>9. /\ rows' \in [{L2, L3} -> SUBSET Ids]
      /\ rows'[tier] = (rows[tier] \cup {id}) \ Members(victims)
      /\ \A any \in {L2, L3} : any # tier => rows'[any] = rows[any]
  BY <1>1, <1>2, <1>4, <1>6
<1>10. DataOK'
  <2>1. \A any \in {L2, L3} : rows'[any] \subseteq Members(touched'[any])
    BY <1>1, <1>3, <1>9 DEF DataOK
  <2>2. \A any \in {L2, L3} : rows'[any] \subseteq used'
    BY <1>1, <1>4, <1>6, <1>9
  <2>3. \A any \in Tiers : InTier(any)' \subseteq used'
    BY <1>1, <1>3, <2>2, ConstantFacts DEF DataOK, InTier
  <2>4. (refused \cup dropped \cup forgotten \cup agedOff)' \subseteq used'
    BY <1>1, <1>2, <1>3, <1>7 DEF DataOK
  <2> QED
    BY <1>1, <1>3, <1>9, <2>1, <2>3, <2>4 DEF DataOK
<1>11. TierBudgets'
  <2> SUFFICES ASSUME NEW any \in Tiers PROVE Bytes(Size, InTier(any)') <= Cap[any]
    BY DEF TierBudgets
  <2>1. CASE any = tier
    <3>1. InTier(any)' = rows'[tier]
      BY <1>5, <2>1, ConstantFacts DEF InTier
    <3> QED
      BY <1>2, <2>1, <3>1
  <2>2. CASE any # tier
    <3>1. InTier(any)' = InTier(any)
      BY <1>1, <1>9, <2>2, ConstantFacts DEF InTier
    <3> QED
      BY <1>3, <3>1 DEF TierBudgets
  <2> QED
    BY <2>1, <2>2
<1>12. NothingVanishes'
  <2>1. InTiers = Members(fifo) \cup rows[2] \cup rows[3]
    BY InTiersFacts, ConstantFacts
  <2>2. InTiers' = Members(fifo') \cup rows'[2] \cup rows'[3]
    <3>1. InTiers' = InTier(1)' \cup InTier(2)' \cup InTier(3)'
      BY ConstantFacts DEF InTiers
    <3> QED
      BY <3>1, ConstantFacts DEF InTier
  <2>3. agedOff \subseteq agedOff'
    BY <1>2
  <2>4. {id} \cup rows[tier] \subseteq rows'[tier] \cup HandedDown(victims, tier) \cup agedOff'
    BY <1>2, <1>9 DEF HandedDown
  <2>5. rows[2] \subseteq rows'[2] \cup HandedDown(victims, tier) \cup agedOff'
    BY <1>5, <1>9, <2>4, ConstantFacts
  <2>6. rows[3] \subseteq rows'[3] \cup HandedDown(victims, tier) \cup agedOff'
    BY <1>5, <1>9, <2>4, ConstantFacts
  <2>7. rows'[tier] \subseteq InTiers'
    BY <1>5, <2>2
  <2>8. InTiers \cup InHand(t) \subseteq InTiers' \cup InHand(t)' \cup agedOff'
    BY <1>1, <1>4, <1>8, <2>1, <2>2, <2>4, <2>5, <2>6, <2>7
  <2> QED
    BY <1>1, <1>3, <1>8, <2>3, <2>8, NothingVanishesStep
<1> QED
  BY <1>8, <1>10, <1>11, <1>12 DEF ManagerInv

\* The tier that has the memory gives it up.
LEMMA RemoveEffect ==
    ASSUME ManagerInv, NEW t \in Threads, Remove1(t), NEW id \in Ids, NEW tier \in Tiers,
           id = thread[t].id, tier = thread[t].at, id \in InTier(tier)
    PROVE  /\ \A any \in Tiers : InTier(any)' = IF any = tier THEN InTier(any) \ {id}
                                                ELSE InTier(any)
           /\ fifo' \in Seq(Ids) /\ NoRepeats(fifo')
           /\ rows' \in [{L2, L3} -> SUBSET Ids]
<1>1. /\ tier = L1 => fifo' = Without(fifo, id) /\ rows' = rows
      /\ tier # L1 => rows' = [rows EXCEPT ![tier] = rows[tier] \ {id}] /\ fifo' = fifo
  BY DEF Remove1, RowsWithout
<1>2. fifo \in Seq(Ids) /\ NoRepeats(fifo) /\ rows \in [{L2, L3} -> SUBSET Ids]
  BY DEF ManagerInv, DataOK
<1>3. /\ Without(fifo, id) \in Seq(Ids) /\ NoRepeats(Without(fifo, id))
      /\ Members(Without(fifo, id)) = Members(fifo) \ {id}
  BY <1>2, WithoutProperties
<1>4. CASE tier = L1
  BY <1>1, <1>2, <1>3, <1>4 DEF InTier
<1>5. CASE tier # L1
  <2>1. tier \in {L2, L3} /\ \A any \in Tiers : any \in {L1, L2, L3}
    BY <1>5, ConstantFacts
  <2> QED
    BY <1>1, <1>2, <1>5, <2>1 DEF InTier
<1> QED
  BY <1>4, <1>5

LEMMA Remove1Inv ==
    ASSUME ManagerInv, NEW t \in Threads, Remove1(t) PROVE ManagerInv'
<1> DEFINE w    == thread[t]
           tier == w.at
           id   == w.id
           q    == <<Put(id, w.target)>>
           r1   == [w EXCEPT !.pc = "put", !.todo = q]
           r2   == [w EXCEPT !.at = w.at + 1]
<1>1. /\ w \in ThreadRecords /\ Sensible(w, used, touched) /\ w.pc = "remove"
      /\ w.todo = <<>> /\ ~w.stamped
  BY ThreadFacts DEF Remove1
<1>2. id \in used /\ tier \in Tiers /\ (w.op # "forget" => w.target \in Tiers)
  BY <1>1 DEF Sensible
<1>3. DataOK /\ TierBudgets /\ ThreadsOK /\ NothingVanishes
  BY DEF ManagerInv
<1>4. id \in Ids
  BY <1>2, <1>3 DEF DataOK
<1>5. InHand(t) = {}
  <2>1. InHand(t) = Hand(w.todo)
    BY DEF InHand, Hand
  <2> QED
    BY <1>1, <2>1, AsleepFacts
<1>6. UNCHANGED <<touched, used, refused, dropped, agedOff>>
  BY DEF Remove1
<1>7. ASSUME id \in InTier(tier)
      PROVE  /\ tier = L1 => fifo' = Without(fifo, id) /\ UNCHANGED rows
             /\ tier # L1 => rows' = RowsWithout(tier, id) /\ UNCHANGED fifo
             /\ forgotten' = IF w.op = "forget" THEN forgotten \cup {id} ELSE forgotten
             /\ Become(t, IF w.op = "forget" THEN Asleep ELSE r1)
  BY <1>7 DEF Remove1, AfterRemove
<1>8. ASSUME id \notin InTier(tier)
      PROVE  /\ UNCHANGED <<fifo, rows, forgotten>>
             /\ Become(t, IF tier = L3 THEN IF w.op = "forget" THEN Asleep ELSE r1
                          ELSE r2)
  BY <1>8 DEF Remove1, AfterRemove
<1> HIDE DEF w, tier, id
\* The thread has the memory in hand, to put it into its new tier.
<1>9. ASSUME w.op # "forget"
      PROVE  /\ r1 \in ThreadRecords /\ Sensible(r1, used, touched)
             /\ Hand(r1.todo) = {id}
  <2>1. q \in Seq(Puts) /\ q # <<>> /\ Hand(q) = {id} /\ L1Alone(q)
    BY <1>2, <1>4, <1>9, SinglePut
  <2> HIDE DEF q
  <2>2. /\ r1 \in ThreadRecords /\ r1.todo = q /\ r1.stamped = w.stamped
        /\ r1.op = w.op /\ r1.pc = "put"
    BY <1>1, <2>1, WithPuts
  <2> HIDE DEF r1
  <2>3. Sensible(r1, used, touched)
    BY <1>1, <1>2, <2>1, <2>2 DEF Sensible
  <2> QED
    BY <2>1, <2>2, <2>3
<1>10. CASE id \in InTier(tier)
  <2> DEFINE r == IF w.op = "forget" THEN Asleep ELSE r1
  <2>1. /\ r \in ThreadRecords /\ Sensible(r, used, touched)
        /\ Hand(r.todo) = IF w.op = "forget" THEN {} ELSE {id}
    BY <1>9, AsleepFacts
  <2>2. Become(t, r)
    BY <1>7, <1>10
  <2> HIDE DEF r, r1
  <2>3. /\ ThreadsOK' /\ InHand(t)' = Hand(r.todo)
        /\ \A u \in Threads : u # t => InHand(u)' = InHand(u)
    BY <1>3, <1>6, <2>1, <2>2, BecomeFacts
  <2>4. /\ \A any \in Tiers : InTier(any)' = IF any = tier THEN InTier(any) \ {id}
                                             ELSE InTier(any)
        /\ fifo' \in Seq(Ids) /\ NoRepeats(fifo')
        /\ rows' \in [{L2, L3} -> SUBSET Ids]
    BY <1>2, <1>4, <1>10, RemoveEffect DEF w, tier, id
  <2>5. DataOK'
    <3>1. /\ fifo \in Seq(Ids) /\ NoRepeats(fifo) /\ rows \in [{L2, L3} -> SUBSET Ids]
          /\ touched \in [{L2, L3} -> Seq(Ids)] /\ used \subseteq Ids
          /\ refused \cup dropped \cup forgotten \cup agedOff \subseteq used
      BY <1>3 DEF DataOK
    <3>4. \A any \in {L2, L3} : NoRepeats(touched'[any]) /\ rows'[any] \subseteq Members(touched'[any])
      <4> SUFFICES ASSUME NEW any \in {L2, L3}
                   PROVE  rows'[any] \subseteq rows[any]
        BY <1>3, <1>6 DEF DataOK
      <4>1. any \in Tiers /\ InTier(any) = rows[any] /\ InTier(any)' = rows'[any]
        BY ConstantFacts DEF InTier
      <4> QED
        BY <2>4, <4>1
    <3>5. \A any \in Tiers : InTier(any)' \subseteq used'
      BY <1>3, <1>6, <2>4 DEF DataOK
    <3>6. (refused \cup dropped \cup forgotten \cup agedOff)' \subseteq used'
      BY <1>2, <1>6, <1>7, <1>10, <3>1
    <3> QED
      BY <1>6, <2>4, <3>1, <3>4, <3>5, <3>6 DEF DataOK
  <2>6. TierBudgets'
    <3> SUFFICES ASSUME NEW any \in Tiers PROVE Bytes(Size, InTier(any)') <= Cap[any]
      BY DEF TierBudgets
    <3>1. InTier(any) \in SUBSET Ids /\ InTier(any)' \in SUBSET InTier(any)
      BY <1>3, <2>4 DEF DataOK
    <3>2. Size \in Charges /\ Cap[any] \in Nat
      BY ConstantFacts
    <3>3. InTier(any)' \in SUBSET Ids
      BY <3>1
    <3>4. /\ Bytes(Size, InTier(any)') <= Bytes(Size, InTier(any))
          /\ Bytes(Size, InTier(any)) \in Nat /\ Bytes(Size, InTier(any)') \in Nat
      BY <3>1, <3>2, <3>3, BytesMonotone, BytesType
    <3>5. Bytes(Size, InTier(any)) <= Cap[any]
      BY <1>3 DEF TierBudgets
    <3> QED
      BY <3>2, <3>4, <3>5
  <2>7. NothingVanishes'
    <3>1. InTiers \subseteq InTiers' \cup {id}
      BY <2>4 DEF InTiers
    <3>2. id \in InHand(t)' \cup forgotten' /\ forgotten \subseteq forgotten'
      BY <1>7, <1>10, <2>1, <2>3
    <3> QED
      BY <1>3, <1>5, <1>6, <2>3, <3>1, <3>2, NothingVanishesStep
  <2> QED
    BY <2>3, <2>5, <2>6, <2>7 DEF ManagerInv
<1>11. CASE id \notin InTier(tier)
  <2>1. UNCHANGED <<fifo, rows, touched, used, refused, dropped, forgotten, agedOff>>
    BY <1>6, <1>8, <1>11
  <2>2. CASE tier # L3
    <3>1. w.at + 1 \in Tiers
      BY <1>2, <2>2, ConstantFacts DEF tier
    <3>2. /\ r2 \in ThreadRecords /\ r2.todo = w.todo /\ r2.stamped = w.stamped
          /\ r2.op = w.op /\ r2.pc = w.pc /\ r2.id = w.id /\ r2.at = w.at + 1
          /\ r2.target = w.target
      BY <1>1, <3>1, WithTier
    <3>3. Become(t, r2)
      BY <1>8, <1>11, <2>2
    <3> HIDE DEF r2
    <3>4. Sensible(r2, used, touched)
      BY <1>1, <1>2, <3>1, <3>2 DEF Sensible, id
    <3> QED
      BY <1>1, <2>1, <3>2, <3>3, <3>4, QuietStep DEF w
  <2>3. CASE tier = L3
    <3> DEFINE r == IF w.op = "forget" THEN Asleep ELSE r1
    <3>1. r \in ThreadRecords /\ Sensible(r, used, touched)
      BY <1>9, AsleepFacts
    <3>2. Become(t, r)
      BY <1>8, <1>11, <2>3
    <3> HIDE DEF r
    <3> QED
      BY <1>1, <2>1, <3>1, <3>2, QuietStep DEF w
  <2> QED
    BY <2>2, <2>3
<1> QED
  BY <1>10, <1>11

LEMMA QueryTouchInv ==
    ASSUME ManagerInv, NEW t \in Threads, QueryTouch(t) PROVE ManagerInv'
<1> DEFINE w == thread[t]
<1>1. /\ w \in ThreadRecords /\ Sensible(w, used, touched) /\ w.pc = "touch"
      /\ w.todo = <<>> /\ ~w.stamped /\ w.cand \in SUBSET Pairs
  BY ThreadFacts DEF QueryTouch
<1>2. UNCHANGED <<rows, used, refused, dropped, forgotten, agedOff>>
  BY DEF QueryTouch
<1>3. PICK hit \in w.cand :
         LET tier == Reads[hit[2]] IN
         /\ IF hit[1] \notin InTier(tier) THEN UNCHANGED <<fifo, touched>>
            ELSE IF tier = L1
            THEN fifo' = Append(Without(fifo, hit[1]), hit[1]) /\ UNCHANGED touched
            ELSE touched' = Freshened(tier, hit[1]) /\ UNCHANGED fifo
         /\ Become(t, IF w.cand = {hit} THEN Asleep
                      ELSE [w EXCEPT !.cand = w.cand \ {hit}])
  BY DEF QueryTouch
<1> DEFINE id   == hit[1]
           tier == Reads[hit[2]]
           rest == w.cand \ {hit}
           r2   == [w EXCEPT !.cand = rest]
           r    == IF w.cand = {hit} THEN Asleep ELSE r2
<1>4. id \in Ids /\ tier \in Tiers
  BY <1>1, ConstantFacts DEF Pairs
<1>5. DataOK /\ TierBudgets /\ ThreadsOK /\ NothingVanishes
  BY DEF ManagerInv
<1>6. InHand(t) = {}
  <2>1. InHand(t) = Hand(w.todo)
    BY DEF InHand, Hand
  <2> QED
    BY <1>1, <2>1, AsleepFacts
<1>7. Become(t, r)
  BY <1>3
<1>8. r \in ThreadRecords /\ Sensible(r, used, touched)
  <2>1. rest \in SUBSET Pairs /\ Once(rest)
    BY <1>1 DEF Sensible, Once
  <2> HIDE DEF rest, w
  <2>2. /\ r2 \in ThreadRecords /\ r2.todo = w.todo /\ r2.stamped = w.stamped
        /\ r2.op = w.op /\ r2.pc = w.pc /\ r2.cand = rest
    BY <1>1, <2>1, WithCand
  <2> HIDE DEF r2
  <2>3. Sensible(r2, used, touched)
    BY <1>1, <2>1, <2>2, AsleepFacts DEF Sensible
  <2> QED
    BY <2>2, <2>3, AsleepFacts
<1>9. \/ UNCHANGED <<fifo, touched>>
      \/ /\ fifo' = Append(Without(fifo, id), id) /\ id \in Members(fifo)
         /\ UNCHANGED touched
      \/ /\ touched' = Freshened(tier, id) /\ tier \in {L2, L3} /\ UNCHANGED fifo
  BY <1>3, <1>4, ConstantFacts DEF InTier
<1> HIDE DEF id, tier, r, w
<1>10. /\ fifo' \in Seq(Ids) /\ NoRepeats(fifo') /\ Members(fifo') = Members(fifo)
  <2>1. fifo \in Seq(Ids) /\ NoRepeats(fifo)
    BY <1>5 DEF DataOK
  <2>2. CASE fifo' = fifo
    BY <2>1, <2>2
  <2>3. CASE fifo' = Append(Without(fifo, id), id) /\ id \in Members(fifo)
    <3>1. /\ Without(fifo, id) \in Seq(Ids) /\ NoRepeats(Without(fifo, id))
          /\ Members(Without(fifo, id)) = Members(fifo) \ {id}
      BY <1>4, <2>1, WithoutProperties
    <3>2. /\ fifo' \in Seq(Ids) /\ NoRepeats(fifo')
          /\ Members(fifo') = Members(Without(fifo, id)) \cup {id}
      BY <1>4, <2>3, <3>1, AppendNewKey
    <3> QED
      BY <2>3, <3>1, <3>2
  <2> QED
    BY <1>9, <2>2, <2>3
<1>11. /\ touched' \in [{L2, L3} -> Seq(Ids)]
       /\ \A any \in {L2, L3} : NoRepeats(touched'[any])
       /\ \A any \in {L2, L3} : Members(touched[any]) \subseteq Members(touched'[any])
  <2>1. CASE touched' = touched
    BY <1>5, <2>1 DEF DataOK
  <2>2. CASE touched' = Freshened(tier, id) /\ tier \in {L2, L3}
    BY <1>4, <1>5, <2>2, FreshenedFacts
  <2> QED
    BY <1>9, <2>1, <2>2
<1>12. /\ ThreadsOK'
       /\ \A u \in Threads : u # t => InHand(u)' = InHand(u)
  <2>1. Sensible(r, used', touched')
    BY <1>2, <1>8, <1>11, SensibleMonotone
  <2> QED
    BY <1>2, <1>5, <1>7, <1>8, <1>11, <2>1, BecomeFacts
<1>13. \A any \in Tiers : InTier(any)' = InTier(any)
  BY <1>2, <1>10 DEF InTier
<1>14. InTiers' = InTiers
  BY <1>13 DEF InTiers
<1>15. DataOK'
  BY <1>2, <1>5, <1>10, <1>11, <1>13 DEF DataOK
<1>16. TierBudgets'
  BY <1>5, <1>13 DEF TierBudgets
<1>17. NothingVanishes'
  BY <1>2, <1>5, <1>6, <1>12, <1>14, NothingVanishesStep
<1> QED
  BY <1>12, <1>15, <1>16, <1>17 DEF ManagerInv

-----------------------------------------------------------------------------
(* The invariant, and what it says *)

LEMMA UnchangedInv == ManagerInv /\ UNCHANGED vars => ManagerInv'
<1> SUFFICES ASSUME ManagerInv, UNCHANGED vars PROVE ManagerInv'
  OBVIOUS
<1>1. UNCHANGED <<fifo, rows, touched, thread, used, refused, dropped, forgotten, agedOff>>
  BY DEF vars
<1>2. /\ DataOK' /\ TierBudgets' /\ InTiers' = InTiers
  BY <1>1, DataKept DEF ManagerInv, DataOK
<1>3. ThreadsOK'
  BY <1>1 DEF ManagerInv, ThreadsOK
<1>4. \A u \in Threads : InHand(u)' = InHand(u)
  BY <1>1 DEF InHand
<1>5. Stored' = Stored
  BY <1>2, <1>4 DEF Stored
<1>6. NothingVanishes'
  BY <1>1, <1>5 DEF ManagerInv, NothingVanishes
<1> QED
  BY <1>2, <1>3, <1>6 DEF ManagerInv

\* One step of one thread.
LEMMA ThreadStepInv ==
    ASSUME ManagerInv, NEW t \in Threads, Start(t) \/ Step(t) PROVE ManagerInv'
<1>1. ASSUME NEW id \in Ids, NEW tier \in Tiers, Insert(t, id, tier) PROVE ManagerInv'
  BY <1>1, InsertInv
<1>2. ASSUME NEW id \in Ids, Move(t, "promote", id) \/ Move(t, "demote", id)
      PROVE  ManagerInv'
  BY <1>2, MoveInv
<1>3. ASSUME NEW id \in Ids, Forget(t, id) PROVE ManagerInv'
  BY <1>3, ForgetInv
<1>4. ASSUME NEW floor \in Tiers, QueryStart(t, floor) PROVE ManagerInv'
  BY <1>4, QueryStartInv
<1>5. CASE Start(t)
  BY <1>1, <1>2, <1>3, <1>4, <1>5 DEF Start
<1>6. CASE PutL1(t) \/ Embed(t) \/ PutRaises(t) \/ PutRow(t)
  BY <1>6, PutL1Inv, EmbedInv, PutRaisesInv, PutRowInv
<1>7. CASE Find(t) \/ Remove1(t)
  BY <1>7, FindInv, Remove1Inv
<1>8. CASE QueryRead(t) \/ QueryRank(t) \/ QueryTouch(t)
  BY <1>8, QueryReadInv, QueryRankInv, QueryTouchInv
<1> QED
  BY <1>5, <1>6, <1>7, <1>8 DEF Step

LEMMA ManagerNextInv == ManagerInv /\ [Next]_vars => ManagerInv'
<1> SUFFICES ASSUME ManagerInv, [Next]_vars PROVE ManagerInv'
  OBVIOUS
<1>1. CASE UNCHANGED vars
  BY <1>1, UnchangedInv
<1>2. CASE Next
  <2>1. PICK t \in Threads : Start(t) \/ Step(t)
    BY <1>2 DEF Next
  <2> QED
    BY <2>1, ThreadStepInv
<1> QED
  BY <1>1, <1>2

\* Whatever the threads interleave: the tiers hold known memories, each row of
\* L2 and L3 has a last_touch, a thread puts as long as it has memories in hand.
THEOREM ManagerInvariant == Spec => []ManagerInv
BY ManagerInitInv, ManagerNextInv, PTL DEF Spec

LEMMA ManagerInvTypeOK == ManagerInv => TypeOK
<1> SUFFICES ASSUME ManagerInv PROVE TypeOK
  OBVIOUS
<1>1. \A t \in Threads : thread[t].todo \in Seq(Puts)
  BY ThreadFacts
<1>2. ASSUME NEW t \in Threads, NEW i \in 1..Len(thread[t].todo)
      PROVE  thread[t].todo[i] \in [id : Ids, tier : Tiers]
  <2> DEFINE todo == thread[t].todo
  <2>1. todo \in Seq(Puts) /\ i \in 1..Len(todo)
    BY <1>1
  <2> HIDE DEF todo
  <2>2. todo[i] \in Puts
    BY <2>1
  <2> QED
    BY <2>2 DEF todo, Puts
<1> QED
  BY <1>2 DEF ManagerInv, DataOK, TypeOK

\* The type invariant of the manager (manager.py and the tiers' containers).
THEOREM ManagerTyped == Spec => []TypeOK
BY ManagerInvariant, ManagerInvTypeOK, PTL

\* Every tier keeps its byte budget between any two tier calls, whatever the
\* threads interleave (working.py insert, l2_cache.py insert, l3_archive.py
\* insert evict before they return).
THEOREM BudgetsHold == Spec => []TierBudgets
<1>1. ManagerInv => TierBudgets
  BY DEF ManagerInv
<1> QED
  BY <1>1, ManagerInvariant, PTL

\* No interleaving of insert, promote, demote, forget, query and their
\* exceptions makes a memory disappear unaccounted for: each is in a tier, in
\* the hands of a thread, deleted, fallen off L3, refused or dropped.
THEOREM MemoriesAreAccountedFor == Spec => []NothingVanishes
<1>1. ManagerInv => NothingVanishes
  BY DEF ManagerInv
<1> QED
  BY <1>1, ManagerInvariant, PTL

LEMMA ManagerInvNoDuplicates == ManagerInv => NoDuplicateHits
<1> SUFFICES ASSUME ManagerInv, NEW t \in Threads, thread[t].pc = "touch"
             PROVE  Once(thread[t].cand)
  BY DEF NoDuplicateHits, Once
<1> QED
  BY ThreadFacts DEF Sensible

\* A query never returns the same memory twice, even when the memory changes
\* tiers between the reads (manager.py query deduplicates by memory_id).
THEOREM HitsAreDistinct == Spec => []NoDuplicateHits
BY ManagerInvariant, ManagerInvNoDuplicates, PTL

-----------------------------------------------------------------------------
(* One caller: the manager is the store it promises to be *)

\* The agent's own loop: nobody else calls the manager meanwhile.
SoleCaller == \A t, u \in Threads : t = u

Lost == agedOff \cup dropped \cup refused

DistinctPuts(todo) == \A i, j \in 1..Len(todo) : todo[i].id = todo[j].id => i = j

\* A memory that is about to be moved is in a tier still to be searched.
MoveFinds(r) ==
    r.pc = "remove" /\ r.op # "forget" =>
        \E tier \in Tiers : r.at <= tier /\ r.id \in InTier(tier)

\* A memory is in one place: a tier, or once in the hands of the caller.
OneHome ==
    /\ \A a, b \in Tiers : a # b => InTier(a) \cap InTier(b) = {}
    /\ \A t \in Threads : /\ InHand(t) \cap InTiers = {}
                          /\ DistinctPuts(thread[t].todo)
                          /\ MoveFinds(thread[t])

\* What is gone is nowhere.
GoneForGood == (forgotten \cup Lost) \cap Stored = {}

SoleInv == ManagerInv /\ OneHome /\ GoneForGood

\* What a step does to the store.
StoreStep ==
    \/ UNCHANGED <<Stored, Lost, forgotten>>
    \/ \E id \in Ids \ used : Stored' = Stored \cup {id} /\ UNCHANGED <<Lost, forgotten>>
    \/ \E id \in Stored : /\ Stored' = Stored \ {id} /\ UNCHANGED Lost
                          /\ forgotten' = forgotten \cup {id}
    \/ \E ids \in SUBSET Stored : /\ ids # {}
                                  /\ Stored' = Stored \ ids /\ Lost' = Lost \cup ids
                                  /\ UNCHANGED forgotten

\* Everything stored is in a tier or in the caller's hands.
LEMMA SoleStored ==
    ASSUME SoleCaller, NEW t \in Threads
    PROVE  /\ Stored = InTiers \cup InHand(t)
           /\ Stored' = InTiers' \cup InHand(t)'
           /\ InTiers = InTier(1) \cup InTier(2) \cup InTier(3)
           /\ InTiers' = InTier(1)' \cup InTier(2)' \cup InTier(3)'
<1>1. Threads = {t}
  BY DEF SoleCaller
<1>2. UNION {InHand(u) : u \in Threads} = InHand(t)
  BY <1>1
<1>3. UNION {InHand(u)' : u \in Threads} = InHand(t)'
  BY <1>1
<1>4. /\ Stored = InTiers \cup InHand(t)
      /\ Stored' = InTiers' \cup InHand(t)'
  BY <1>2, <1>3 DEF Stored
<1>5. /\ InTiers = InTier(1) \cup InTier(2) \cup InTier(3)
      /\ InTiers' = InTier(1)' \cup InTier(2)' \cup InTier(3)'
  BY ConstantFacts DEF InTiers
<1> QED
  BY <1>4, <1>5

\* The state a step of the caller starts from, and what it must establish.
LEMMA OneHomeFacts ==
    ASSUME OneHome, NEW t \in Threads
    PROVE  /\ InTier(1) \cap InTier(2) = {} /\ InTier(1) \cap InTier(3) = {}
           /\ InTier(2) \cap InTier(3) = {}
           /\ InHand(t) \cap InTiers = {}
           /\ DistinctPuts(thread[t].todo) /\ MoveFinds(thread[t])
BY ConstantFacts DEF OneHome

LEMMA OneHomeStep ==
    ASSUME SoleCaller, NEW t \in Threads,
           InTier(1)' \cap InTier(2)' = {}, InTier(1)' \cap InTier(3)' = {},
           InTier(2)' \cap InTier(3)' = {},
           InHand(t)' \cap InTiers' = {},
           DistinctPuts(thread'[t].todo), MoveFinds(thread[t])'
    PROVE  OneHome'
<1>1. \A a, b \in Tiers : a # b => InTier(a)' \cap InTier(b)' = {}
  BY ConstantFacts
<1>2. \A u \in Threads : u = t
  BY DEF SoleCaller
<1> QED
  BY <1>1, <1>2 DEF OneHome

\* Steps that leave the tiers alone and have nothing in hand.
LEMMA SoleQuiet ==
    ASSUME SoleCaller, OneHome, ManagerInv, ManagerInv', NEW t \in Threads,
           UNCHANGED <<fifo, rows, refused, dropped, forgotten, agedOff>>,
           thread[t].pc # "put", thread'[t].pc # "put", MoveFinds(thread[t])'
    PROVE  OneHome' /\ StoreStep
<1>1. \A tier \in Tiers : InTier(tier)' = InTier(tier)
  BY DEF InTier
<1>2. thread[t].todo = <<>> /\ thread'[t].todo = <<>>
  <2>1. Sensible(thread[t], used, touched)
    BY DEF ManagerInv, ThreadsOK
  <2>2. Sensible(thread'[t], used', touched')
    BY DEF ManagerInv, ThreadsOK
  <2> QED
    BY <2>1, <2>2 DEF Sensible
<1>3. InHand(t) = {} /\ InHand(t)' = {}
  BY <1>2 DEF InHand
<1>4. /\ InTier(1)' = InTier(1) /\ InTier(2)' = InTier(2) /\ InTier(3)' = InTier(3)
  BY <1>1, ConstantFacts
<1>5. OneHome'
  <2>1. DistinctPuts(thread'[t].todo)
    BY <1>2 DEF DistinctPuts
  <2> QED
    BY <1>3, <1>4, <2>1, OneHomeFacts, OneHomeStep
<1>6. UNCHANGED <<Stored, Lost, forgotten>>
  <2>1. Stored' = Stored
    BY <1>3, <1>4, SoleStored
  <2> QED
    BY <2>1 DEF Lost
<1> QED
  BY <1>5, <1>6 DEF StoreStep

\* The thread's record after the steps that leave the tiers alone.
LEMMA SoleStart ==
    ASSUME SoleCaller, SoleInv, ManagerInv', NEW t \in Threads,
           \/ \E op \in {"promote", "demote"}, id \in Ids : Move(t, op, id)
           \/ \E id \in Ids : Forget(t, id)
           \/ \E floor \in Tiers : QueryStart(t, floor)
    PROVE  OneHome' /\ StoreStep
<1>1. /\ UNCHANGED <<fifo, rows, refused, dropped, forgotten, agedOff>>
      /\ thread[t].pc = "idle"
  BY DEF Move, Forget, QueryStart
<1>2. thread \in [Threads -> ThreadRecords]
  BY DEF SoleInv, ManagerInv, ThreadsOK
<1>3. \A op, pc, id, at, target, todo :
         /\ Doing(op, pc, id, at, target, todo).pc = pc
         /\ Doing(op, pc, id, at, target, todo).op = op
  BY DEF Doing
<1> DEFINE started(r) == r.pc = "find" \/ r.pc = "read" \/ (r.pc = "remove" /\ r.op = "forget")
<1>4. \E r : Become(t, r) /\ started(r)
  <2>1. ASSUME NEW op \in {"promote", "demote"}, NEW id \in Ids, Move(t, op, id)
        PROVE  \E r : Become(t, r) /\ started(r)
    BY <1>3, <2>1 DEF Move
  <2>2. ASSUME NEW id \in Ids, Forget(t, id) PROVE \E r : Become(t, r) /\ started(r)
    BY <1>3, <2>2 DEF Forget
  <2>3. ASSUME NEW floor \in Tiers, QueryStart(t, floor)
        PROVE  \E r : Become(t, r) /\ started(r)
    BY <1>3, <2>3 DEF QueryStart
  <2> QED
    BY <2>1, <2>2, <2>3
<1>5. started(thread'[t])
  BY <1>2, <1>4 DEF Become
<1>6. thread'[t].pc # "put" /\ MoveFinds(thread[t])'
  BY <1>5 DEF MoveFinds
<1> QED
  BY <1>1, <1>6, SoleQuiet DEF SoleInv

LEMMA SoleInsert ==
    ASSUME SoleCaller, SoleInv, NEW t \in Threads, NEW id \in Ids, NEW tier \in Tiers,
           Insert(t, id, tier)
    PROVE  OneHome' /\ StoreStep
<1> DEFINE q == <<Put(id, tier)>>
<1>1. /\ id \notin used /\ thread[t].pc = "idle"
      /\ UNCHANGED <<fifo, rows, refused, dropped, forgotten, agedOff>>
      /\ Become(t, Doing("insert", "put", id, tier, tier, q))
  BY DEF Insert
<1>2. Hand(q) = {id}
  BY SinglePut
<1>3. DistinctPuts(q)
  BY DEF DistinctPuts
<1> HIDE DEF q
<1>4. thread \in [Threads -> ThreadRecords]
  BY DEF SoleInv, ManagerInv, ThreadsOK
<1>5. thread'[t].pc = "put" /\ thread'[t].todo = q
  BY <1>1, <1>4 DEF Become, Doing
<1>6. InHand(t)' = {id}
  BY <1>2, <1>5 DEF InHand, Hand
<1>7. InHand(t) = {}
  <2>1. thread[t].todo = <<>>
    BY <1>1, ThreadFacts DEF SoleInv
  <2> QED
    BY <2>1 DEF InHand
<1>8. \A any \in Tiers : InTier(any)' = InTier(any)
  BY <1>1 DEF InTier
<1>9. InTier(1)' = InTier(1) /\ InTier(2)' = InTier(2) /\ InTier(3)' = InTier(3)
  BY <1>8, ConstantFacts
<1>10. id \notin InTier(1) /\ id \notin InTier(2) /\ id \notin InTier(3)
  BY <1>1, ConstantFacts DEF SoleInv, ManagerInv, DataOK
<1>11. OneHome'
  <2>1. MoveFinds(thread[t])'
    BY <1>5 DEF MoveFinds
  <2>2. InHand(t)' \cap InTiers' = {}
    BY <1>6, <1>9, <1>10, SoleStored
  <2> QED
    BY <1>3, <1>5, <1>9, <2>1, <2>2, OneHomeFacts, OneHomeStep DEF SoleInv
<1>12. Stored' = Stored \cup {id} /\ UNCHANGED <<Lost, forgotten>>
  <2>1. Stored' = Stored \cup {id}
    BY <1>6, <1>7, <1>9, SoleStored
  <2> QED
    BY <1>1, <2>1 DEF Lost
<1> QED
  BY <1>1, <1>11, <1>12 DEF StoreStep

LEMMA SoleFind ==
    ASSUME SoleCaller, SoleInv, ManagerInv', NEW t \in Threads, Find(t)
    PROVE  OneHome' /\ StoreStep
<1> DEFINE w      == thread[t]
           target == Neighbour(w.op, w.at)
           r1     == [w EXCEPT !.pc = "remove", !.at = L1, !.target = target]
           r2     == [w EXCEPT !.at = w.at + 1]
<1>1. /\ w.pc = "find"
      /\ UNCHANGED <<fifo, rows, refused, dropped, forgotten, agedOff>>
      /\ \/ Become(t, Asleep)
         \/ w.id \in InTier(w.at) /\ Become(t, r1)
         \/ Become(t, r2)
  BY DEF Find
<1>2. w \in ThreadRecords /\ Sensible(w, used, touched) /\ thread \in [Threads -> ThreadRecords]
  BY DEF SoleInv, ManagerInv, ThreadsOK
<1>3. w.at \in Tiers /\ L1 <= w.at
  BY <1>1, <1>2, ConstantFacts DEF Sensible
<1>4. /\ Become(t, Asleep) => thread'[t] = Asleep
      /\ Become(t, r1) => thread'[t] = r1
      /\ Become(t, r2) => thread'[t] = r2
  BY <1>2 DEF Become
<1>5. \A tier \in Tiers : InTier(tier)' = InTier(tier)
  BY <1>1 DEF InTier
<1> HIDE DEF w, target
<1>6. r1.pc = "remove" /\ r1.at = L1 /\ r1.id = w.id
  BY <1>2 DEF ThreadRecords
<1>7. r2.pc = "find"
  BY <1>1, <1>2 DEF ThreadRecords
<1> HIDE DEF r1, r2
<1>8. thread'[t].pc # "put" /\ MoveFinds(thread[t])'
  <2>1. CASE Become(t, Asleep)
    BY <1>4, <2>1, AsleepFacts DEF MoveFinds
  <2>2. CASE w.id \in InTier(w.at) /\ Become(t, r1)
    <3>1. thread'[t].pc = "remove" /\ thread'[t].at = L1 /\ thread'[t].id = w.id
      BY <1>4, <1>6, <2>2
    <3>2. PICK tier \in Tiers : tier = w.at
      BY <1>3
    <3>3. thread'[t].at <= tier /\ thread'[t].id \in InTier(tier)'
      BY <1>3, <1>5, <2>2, <3>1, <3>2
    <3> QED
      BY <3>1, <3>3 DEF MoveFinds
  <2>3. CASE Become(t, r2)
    BY <1>4, <1>7, <2>3 DEF MoveFinds
  <2> QED
    BY <1>1, <2>1, <2>2, <2>3
<1> QED
  BY <1>1, <1>8, SoleQuiet DEF SoleInv, w

LEMMA SoleQuery ==
    ASSUME SoleCaller, SoleInv, ManagerInv', NEW t \in Threads,
           QueryRead(t) \/ QueryRank(t)
    PROVE  OneHome' /\ StoreStep
<1> DEFINE w == thread[t]
<1>1. /\ w.pc = "read"
      /\ UNCHANGED <<fifo, rows, refused, dropped, forgotten, agedOff>>
  BY DEF QueryRead, QueryRank
<1>2. w \in ThreadRecords /\ thread \in [Threads -> ThreadRecords]
  BY DEF SoleInv, ManagerInv, ThreadsOK
<1>3. thread'[t].pc \in {"idle", "read", "touch"}
  <2>1. CASE QueryRead(t)
    <3>1. PICK seen : Become(t, [w EXCEPT !.at = w.at + 1, !.cand = w.cand \cup seen])
      BY <2>1 DEF QueryRead
    <3> DEFINE n == w.at + 1
               c == w.cand \cup seen
    <3>2. thread'[t] = [w EXCEPT !.at = n, !.cand = c]
      BY <1>2, <3>1 DEF Become
    <3> HIDE DEF w, n, c
    <3>3. thread'[t].pc = w.pc
      BY <1>2, <3>2 DEF ThreadRecords
    <3> QED
      BY <1>1, <3>3
  <2>2. CASE QueryRank(t)
    <3>1. \/ Become(t, Asleep)
          \/ \E hits : Become(t, [w EXCEPT !.pc = "touch", !.cand = hits])
      BY <2>2 DEF QueryRank
    <3>2. CASE Become(t, Asleep)
      BY <1>2, <3>2, AsleepFacts DEF Become
    <3>3. ASSUME NEW hits, Become(t, [w EXCEPT !.pc = "touch", !.cand = hits])
          PROVE  thread'[t].pc = "touch"
      <4>1. thread'[t] = [w EXCEPT !.pc = "touch", !.cand = hits]
        BY <1>2, <3>3 DEF Become
      <4> HIDE DEF w
      <4> QED
        BY <1>2, <4>1 DEF ThreadRecords
    <3> QED
      BY <3>1, <3>2, <3>3
  <2> QED
    BY <2>1, <2>2
<1>4. thread'[t].pc # "put" /\ MoveFinds(thread[t])'
  BY <1>3 DEF MoveFinds
<1> QED
  BY <1>1, <1>4, SoleQuiet DEF SoleInv

\* Todo lists of distinct memories.
LEMMA DistinctTail ==
    ASSUME NEW todo \in Seq(Puts), todo # <<>>, DistinctPuts(todo)
    PROVE  DistinctPuts(Tail(todo)) /\ Head(todo).id \notin Hand(Tail(todo))
<1>1. Len(todo) \in Nat /\ Len(todo) >= 1 /\ Head(todo) = todo[1]
  OBVIOUS
<1>2. /\ Tail(todo) \in Seq(Puts) /\ Len(Tail(todo)) = Len(todo) - 1
      /\ \A i \in 1..(Len(todo) - 1) : Tail(todo)[i] = todo[i+1]
  BY <1>1, HeadTailProperties
<1> DEFINE rest == Tail(todo)
<1>3. \A i \in 1..Len(rest) : /\ i \in Int /\ i+1 \in 1..Len(todo) /\ i+1 # 1
                              /\ rest[i] = todo[i+1]
  BY <1>1, <1>2
<1> HIDE DEF rest
<1>4. ASSUME NEW i \in 1..Len(rest), NEW j \in 1..Len(rest), rest[i].id = rest[j].id
      PROVE  i = j
  <2>1. i+1 = j+1
    BY <1>3, <1>4 DEF DistinctPuts
  <2> QED
    BY <2>1
<1>5. ASSUME NEW i \in 1..Len(rest) PROVE rest[i].id # Head(todo).id
  <2>1. 1 \in 1..Len(todo)
    BY <1>1
  <2> QED
    BY <1>1, <1>3, <2>1 DEF DistinctPuts
<1> QED
  BY <1>4, <1>5 DEF DistinctPuts, Hand, rest

LEMMA DistinctLeft ==
    ASSUME NEW victims \in Seq(Ids), NoRepeats(victims), NEW tier \in Tiers,
           NEW rest \in Seq(Puts), DistinctPuts(rest),
           Members(victims) \cap Hand(rest) = {}
    PROVE  DistinctPuts(LeftToDo(victims, tier, rest))
<1> DEFINE next == [i \in 1..Len(victims) |-> Put(victims[i], OneBelow(tier))]
           q    == next \o rest
<1>1. CASE tier = L3
  <2>1. <<>> \o rest = rest
    OBVIOUS
  <2> QED
    BY <1>1, <2>1 DEF LeftToDo
<1>2. CASE tier # L3
  <2>1. LeftToDo(victims, tier, rest) = q
    BY <1>2 DEF LeftToDo
  <2>2. tier + 1 \in Tiers /\ OneBelow(tier) = tier + 1
    BY <1>2, ConstantFacts DEF OneBelow
  <2>3. Len(victims) \in Nat /\ \A i \in 1..Len(victims) : victims[i] \in Ids
    BY LenProperties
  <2>4. /\ next \in Seq(Puts) /\ Len(next) = Len(victims)
    <3>1. \A i \in 1..Len(victims) : Put(victims[i], OneBelow(tier)) \in Puts
      BY <2>2, <2>3 DEF Put, Puts
    <3>2. \A f : f = [i \in 1..Len(victims) |-> Put(victims[i], OneBelow(tier))] =>
                    f \in Seq(Puts) /\ Len(f) = Len(victims)
      BY <2>3, <3>1, IsASeq
    <3> QED
      BY <3>2
  <2>5. \A i \in 1..Len(next) : next[i].id = victims[i]
    <3>1. \A a, b : Put(a, b).id = a
      BY DEF Put
    <3>2. \A i \in 1..Len(victims) : next[i] = Put(victims[i], OneBelow(tier))
      OBVIOUS
    <3> QED
      BY <2>4, <3>1, <3>2
  <2> HIDE DEF next
  <2>6. /\ Len(q) = Len(next) + Len(rest) /\ Len(next) \in Nat /\ Len(rest) \in Nat
        /\ \A i \in 1..Len(q) : q[i] = IF i <= Len(next) THEN next[i]
                                       ELSE rest[i - Len(next)]
    <3>1. next \in Seq(Puts) /\ rest \in Seq(Puts)
      BY <2>4
    <3> QED
      BY <3>1, ConcatProperties, LenProperties
  <2> HIDE DEF q
  <2> DEFINE m == Len(next)
  <2>7. \A i \in 1..Len(q) :
           \/ i \in 1..m /\ q[i].id = victims[i]
           \/ i > m /\ (i - m) \in 1..Len(rest) /\ q[i].id = rest[i-m].id
    <3> TAKE i \in 1..Len(q)
    <3>1. CASE i <= m
      <4>1. i \in 1..m /\ q[i] = next[i]
        BY <2>6, <3>1
      <4> QED
        BY <2>5, <4>1
    <3>2. CASE ~(i <= m)
      <4>1. i > m /\ (i - m) \in 1..Len(rest) /\ q[i] = rest[i-m]
        BY <2>6, <3>2
      <4> QED
        BY <4>1
    <3> QED
      BY <3>1, <3>2
  <2>8. m = Len(victims) /\ m \in Nat
    BY <2>4, <2>3
  <2> HIDE DEF m
  <2>9. ASSUME NEW i \in 1..Len(q), NEW j \in 1..Len(q), q[i].id = q[j].id
        PROVE  i = j
    <3>1. CASE i \in 1..m /\ j \in 1..m
      <4>1. victims[i] = victims[j]
        BY <2>7, <2>8, <2>9, <3>1
      <4> QED
        BY <2>8, <3>1, <4>1 DEF NoRepeats
    <3>2. CASE i > m /\ j > m
      <4>1. /\ (i-m) \in 1..Len(rest) /\ (j-m) \in 1..Len(rest)
            /\ rest[i-m].id = rest[j-m].id
        BY <2>7, <2>8, <2>9, <3>2
      <4>2. i - m = j - m
        BY <4>1 DEF DistinctPuts
      <4> QED
        BY <2>6, <2>8, <4>2
    <3>3. \A k, l \in 1..Len(q) : k \in 1..m /\ l > m => q[k].id # q[l].id
      <4> SUFFICES ASSUME NEW k \in 1..Len(q), NEW l \in 1..Len(q), k \in 1..m, l > m
                   PROVE  q[k].id # q[l].id
        OBVIOUS
      <4>1. q[k].id \in Members(victims)
        <5>1. k \in 1..Len(victims) /\ q[k].id = victims[k]
          BY <2>7, <2>8
        <5> QED
          BY <5>1 DEF Members
      <4>2. q[l].id \in Hand(rest)
        <5>1. (l-m) \in 1..Len(rest) /\ q[l].id = rest[l-m].id
          BY <2>7, <2>8
        <5> QED
          BY <5>1 DEF Hand
      <4> QED
        BY <4>1, <4>2
    <3>4. (i \in 1..m \/ i > m) /\ (j \in 1..m \/ j > m)
      BY <2>7
    <3> QED
      BY <2>9, <3>1, <3>2, <3>3, <3>4
  <2> QED
    BY <2>1, <2>9 DEF DistinctPuts
<1> QED
  BY <1>1, <1>2

LEMMA SoleRaised ==
    ASSUME SoleCaller, SoleInv, NEW t \in Threads, thread[t].pc = "put", Raised(t),
           UNCHANGED <<fifo, rows, touched, used, forgotten, agedOff>>
    PROVE  OneHome' /\ StoreStep
<1> DEFINE ids == InHand(t)
<1>1. ManagerInv /\ OneHome
  BY DEF SoleInv
<1>2. /\ InHand(t)' = {} /\ (refused \cup dropped)' = refused \cup dropped \cup ids
  BY <1>1, RaisedFacts
<1>3. thread'[t] = Asleep
  BY <1>1 DEF Raised, Become, ManagerInv, ThreadsOK
<1>4. ids # {}
  <2>1. InHand(t) = {Head(thread[t].todo).id} \cup Hand(Tail(thread[t].todo))
    BY <1>1, PutFacts
  <2> QED
    BY <2>1
<1>5. \A tier \in Tiers : InTier(tier)' = InTier(tier)
  BY DEF InTier
<1>6. InTier(1)' = InTier(1) /\ InTier(2)' = InTier(2) /\ InTier(3)' = InTier(3)
  BY <1>5, ConstantFacts
<1>7. OneHome'
  <2>1. DistinctPuts(thread'[t].todo) /\ MoveFinds(thread[t])'
    BY <1>3, AsleepFacts DEF DistinctPuts, MoveFinds
  <2> QED
    BY <1>1, <1>2, <1>6, <2>1, OneHomeFacts, OneHomeStep
<1>8. /\ Stored = InTiers \cup ids /\ Stored' = InTiers' /\ InTiers' = InTiers
      /\ ids \cap InTiers = {}
  BY <1>1, <1>2, <1>6, SoleStored, OneHomeFacts
<1> HIDE DEF ids
<1>9. ids \in SUBSET Stored /\ Stored' = Stored \ ids
  BY <1>8
<1>10. Lost' = Lost \cup ids
  BY <1>2 DEF Lost
<1> QED
  BY <1>4, <1>7, <1>9, <1>10 DEF StoreStep

LEMMA SoleReroute ==
    ASSUME SoleCaller, SoleInv, NEW t \in Threads, thread[t].pc = "put", InTry(t),
           Reroute(t), UNCHANGED <<fifo, rows, touched, used, forgotten, agedOff>>
    PROVE  OneHome' /\ StoreStep
<1> DEFINE q == <<Put(thread[t].id, L2)>>
<1>1. ManagerInv /\ OneHome
  BY DEF SoleInv
<1>2. /\ InHand(t)' = InHand(t) /\ thread'[t].pc = "put" /\ thread'[t].todo = q
      /\ UNCHANGED <<refused, dropped>>
  BY <1>1, RerouteFacts
<1>3. DistinctPuts(q)
  BY DEF DistinctPuts
<1>4. \A tier \in Tiers : InTier(tier)' = InTier(tier)
  BY DEF InTier
<1>5. InTier(1)' = InTier(1) /\ InTier(2)' = InTier(2) /\ InTier(3)' = InTier(3)
  BY <1>4, ConstantFacts
<1>6. InTiers' = InTiers /\ Stored' = Stored
  BY <1>2, <1>5, SoleStored
<1>7. MoveFinds(thread[t])'
  BY <1>2 DEF MoveFinds
<1>8. OneHome'
  BY <1>1, <1>2, <1>3, <1>5, <1>6, <1>7, OneHomeFacts, OneHomeStep
<1> QED
  BY <1>2, <1>6, <1>8 DEF StoreStep, Lost

LEMMA SolePutRaises ==
    ASSUME SoleCaller, SoleInv, NEW t \in Threads, PutRaises(t)
    PROVE  OneHome' /\ StoreStep
BY SoleRaised, SoleReroute DEF PutRaises

LEMMA SolePutL1 ==
    ASSUME SoleCaller, SoleInv, NEW t \in Threads, PutL1(t)
    PROVE  OneHome' /\ StoreStep
<1> DEFINE id   == Head(thread[t].todo).id
           rest == Tail(thread[t].todo)
<1>1. ManagerInv /\ OneHome
  BY DEF SoleInv
<1>2. /\ thread[t].pc = "put" /\ Head(thread[t].todo).tier = L1
      /\ UNCHANGED <<rows, touched, used, forgotten, agedOff>>
  BY <1>1, PutL1Effect
<1>3. /\ id \in used /\ id \in Ids /\ InHand(t) = {id}
      /\ rest \in Seq(Puts) /\ Hand(rest) = {} /\ DistinctPuts(rest)
  <2>1. Tail(thread[t].todo) = <<>>
    BY <1>1, <1>2, PutFacts, TodoFacts
  <2>2. DistinctPuts(<<>>)
    BY DEF DistinctPuts
  <2> QED
    BY <1>1, <1>2, <2>1, <2>2, PutFacts, AsleepFacts
<1>4. thread \in [Threads -> ThreadRecords]
  BY <1>1 DEF ManagerInv, ThreadsOK
<1>5. InTier(1) = Members(fifo) /\ InTier(1)' = Members(fifo')
  BY DEF InTier, L1
<1>6. InTier(2)' = InTier(2) /\ InTier(3)' = InTier(3)
  BY <1>2 DEF InTier, L1
<1>7. CASE Size[id] <= Cap[L1]
  <2>1. PICK victims \in Seq(Ids) :
           /\ NoRepeats(victims) /\ Members(victims) \subseteq Members(fifo) \ {id}
           /\ fifo' \in Seq(Ids) /\ NoRepeats(fifo')
           /\ Members(fifo') = (Members(fifo) \cup {id}) \ Members(victims)
           /\ Bytes(Size, Members(fifo')) <= Cap[L1]
           /\ Proceed(t, victims, L1)
           /\ UNCHANGED <<refused, dropped>>
    BY <1>1, <1>7, PutL1Effect
  <2> HIDE DEF id
  <2>2. L1 \in Tiers /\ L1 # L3
    BY ConstantFacts
  <2>3. Members(victims) \subseteq used
    <3>1. Members(fifo) \subseteq used
      BY <1>1, <1>5, ConstantFacts DEF ManagerInv, DataOK
    <3> QED
      BY <2>1, <3>1
  <2>4. /\ InHand(t)' = Members(victims)
        /\ thread'[t].todo = LeftToDo(victims, L1, rest)
        /\ thread'[t].pc \in {"idle", "put"}
    <3>1. /\ InHand(t)' = HandedDown(victims, L1) \cup Hand(rest)
          /\ thread'[t].todo = LeftToDo(victims, L1, rest)
          /\ thread'[t].pc \in {"idle", "put"}
      BY <1>1, <1>2, <2>1, <2>2, <2>3, ProceedFacts
    <3> QED
      BY <1>3, <2>2, <3>1 DEF HandedDown
  <2> HIDE DEF rest
  <2>5. DistinctPuts(thread'[t].todo)
    BY <1>3, <2>1, <2>2, <2>4, DistinctLeft
  <2>6. MoveFinds(thread[t])'
    BY <2>4 DEF MoveFinds
  <2>7. /\ InTier(1) \cap InTier(2) = {} /\ InTier(1) \cap InTier(3) = {}
        /\ InTier(2) \cap InTier(3) = {} /\ {id} \cap InTiers = {}
    BY <1>1, <1>3, OneHomeFacts
  <2>8. /\ Stored = InTiers \cup {id} /\ Stored' = InTiers' \cup Members(victims)
        /\ InTiers = InTier(1) \cup InTier(2) \cup InTier(3)
        /\ InTiers' = InTier(1)' \cup InTier(2)' \cup InTier(3)'
    BY <1>3, <2>4, SoleStored
  <2>9. /\ InTier(1)' = (InTier(1) \cup {id}) \ Members(victims)
        /\ Members(victims) \subseteq InTier(1) \ {id}
    BY <1>5, <2>1
  <2> DEFINE V == Members(victims)
  <2> HIDE DEF V
  <2>10. OneHome'
    <3>1. InTier(1)' \cap InTier(2)' = {} /\ InTier(1)' \cap InTier(3)' = {}
      BY <1>6, <2>7, <2>8, <2>9
    <3>2. InHand(t)' \cap InTiers' = {}
      BY <1>6, <2>4, <2>7, <2>8, <2>9
    <3> QED
      BY <1>6, <2>5, <2>6, <2>7, <3>1, <3>2, OneHomeStep
  <2>11. Stored' = Stored
    BY <1>6, <2>8, <2>9
  <2> QED
    BY <1>2, <2>1, <2>10, <2>11 DEF StoreStep, Lost
<1>8. CASE ~(Size[id] <= Cap[L1])
  <2>1. UNCHANGED fifo /\ ((InTry(t) /\ Reroute(t)) \/ Raised(t))
    BY <1>1, <1>8, PutL1Effect
  <2> QED
    BY <1>2, <2>1, SoleRaised, SoleReroute
<1> QED
  BY <1>7, <1>8

LEMMA SoleEmbed ==
    ASSUME SoleCaller, SoleInv, NEW t \in Threads, Embed(t)
    PROVE  OneHome' /\ StoreStep
<1> DEFINE w == thread[t]
<1>1. /\ w.pc = "put" /\ Become(t, [w EXCEPT !.stamped = TRUE])
      /\ UNCHANGED <<fifo, rows, used, refused, dropped, forgotten, agedOff>>
  BY DEF Embed
<1>2. ManagerInv /\ OneHome /\ thread \in [Threads -> ThreadRecords]
  BY DEF SoleInv, ManagerInv, ThreadsOK
<1>3. w \in ThreadRecords /\ thread'[t] = [w EXCEPT !.stamped = TRUE]
  BY <1>1, <1>2 DEF Become
<1> HIDE DEF w
<1>4. thread'[t].todo = w.todo /\ thread'[t].pc = "put"
  BY <1>1, <1>3 DEF ThreadRecords
<1>5. InHand(t)' = InHand(t) /\ DistinctPuts(thread'[t].todo)
  BY <1>2, <1>4, OneHomeFacts DEF InHand, w
<1>6. \A tier \in Tiers : InTier(tier)' = InTier(tier)
  BY <1>1 DEF InTier
<1>7. /\ InTier(1)' = InTier(1) /\ InTier(2)' = InTier(2) /\ InTier(3)' = InTier(3)
  BY <1>6, ConstantFacts
<1>8. InTiers' = InTiers /\ Stored' = Stored
  BY <1>5, <1>7, SoleStored
<1>9. MoveFinds(thread[t])'
  BY <1>4 DEF MoveFinds
<1>10. OneHome'
  BY <1>2, <1>5, <1>7, <1>8, <1>9, OneHomeFacts, OneHomeStep
<1> QED
  BY <1>1, <1>8, <1>10 DEF StoreStep, Lost

LEMMA SolePutRow ==
    ASSUME SoleCaller, SoleInv, NEW t \in Threads, PutRow(t)
    PROVE  OneHome' /\ StoreStep
<1> DEFINE id   == Head(thread[t].todo).id
           rest == Tail(thread[t].todo)
<1>1. ManagerInv /\ OneHome
  BY DEF SoleInv
<1>2. PICK tier \in {L2, L3} : tier = Head(thread[t].todo).tier
  BY <1>1, PutRowEffect
<1>3. /\ thread[t].pc = "put"
      /\ UNCHANGED <<fifo, touched, used, refused, dropped, forgotten>>
  BY <1>1, PutRowEffect
<1>4. PICK victims \in Seq(Ids) :
         /\ NoRepeats(victims) /\ Members(victims) \subseteq rows[tier] \cup {id}
         /\ rows' = [rows EXCEPT ![tier] = (rows[tier] \cup {id}) \ Members(victims)]
         /\ agedOff' = IF tier = L3 THEN agedOff \cup Members(victims) ELSE agedOff
         /\ Bytes(Size, rows'[tier]) <= Cap[tier]
         /\ Proceed(t, victims, tier)
  BY <1>1, <1>2, PutRowEffect
<1>5. /\ id \in used /\ id \in Ids /\ rest \in Seq(Puts)
      /\ InHand(t) = {id} \cup Hand(rest)
      /\ DistinctPuts(rest) /\ id \notin Hand(rest)
  BY <1>1, <1>3, PutFacts, OneHomeFacts, DistinctTail
<1> HIDE DEF id
<1>6. tier \in Tiers /\ tier \in {2, 3} /\ L3 = 3
  BY ConstantFacts
<1>7. /\ InTier(1)' = InTier(1)
      /\ InTier(2) = rows[2] /\ InTier(2)' = rows'[2]
      /\ InTier(3) = rows[3] /\ InTier(3)' = rows'[3]
  BY <1>3 DEF InTier, L1
<1>8. /\ InTier(1) \cap InTier(2) = {} /\ InTier(1) \cap InTier(3) = {}
      /\ InTier(2) \cap InTier(3) = {}
      /\ ({id} \cup Hand(rest)) \cap InTiers = {}
  BY <1>1, <1>5, OneHomeFacts
<1>9. InTiers = InTier(1) \cup InTier(2) \cup InTier(3)
  BY SoleStored
<1> DEFINE V == Members(victims)
<1>10. rows \in [{L2, L3} -> SUBSET Ids] /\ rows[tier] \subseteq used
  <2>1. InTier(tier) = rows[tier]
    BY <1>6, <1>7
  <2> QED
    BY <1>1, <1>6, <2>1 DEF ManagerInv, DataOK
<1>11. V \subseteq used
  BY <1>4, <1>5, <1>10
<1>12. /\ InHand(t)' = HandedDown(victims, tier) \cup Hand(rest)
       /\ thread'[t].todo = LeftToDo(victims, tier, rest)
       /\ thread'[t].pc \in {"idle", "put"}
  BY <1>1, <1>2, <1>3, <1>4, <1>6, <1>11, ProceedFacts
<1> HIDE DEF rest
<1>13. rows[tier] \subseteq InTiers
  BY <1>6, <1>7, <1>9
<1>14. V \cap Hand(rest) = {}
  BY <1>4, <1>5, <1>8, <1>13
<1>15. DistinctPuts(thread'[t].todo) /\ MoveFinds(thread[t])'
  <2>1. DistinctPuts(thread'[t].todo)
    BY <1>4, <1>5, <1>6, <1>12, <1>14, DistinctLeft
  <2> QED
    BY <1>12, <2>1 DEF MoveFinds
<1>16. /\ Stored = InTiers \cup {id} \cup Hand(rest)
       /\ Stored' = InTiers' \cup InHand(t)'
       /\ InTiers' = InTier(1)' \cup InTier(2)' \cup InTier(3)'
  BY <1>5, SoleStored
<1>17. CASE tier = 2
  <2>1. /\ InHand(t)' = V \cup Hand(rest) /\ agedOff' = agedOff
        /\ V \subseteq InTier(2) \cup {id}
        /\ InTier(2)' = (InTier(2) \cup {id}) \ V /\ InTier(3)' = InTier(3)
    BY <1>2, <1>4, <1>6, <1>7, <1>10, <1>12, <1>17, ConstantFacts DEF HandedDown
  <2> HIDE DEF V
  <2>2. OneHome'
    <3>1. /\ InTier(1)' \cap InTier(2)' = {} /\ InTier(1)' \cap InTier(3)' = {}
          /\ InTier(2)' \cap InTier(3)' = {}
      BY <1>7, <1>8, <1>9, <2>1
    <3>2. InHand(t)' \cap InTiers' = {}
      BY <1>5, <1>7, <1>8, <1>9, <1>14, <1>16, <2>1
    <3> QED
      BY <1>15, <3>1, <3>2, OneHomeStep
  <2>3. Stored' = Stored
    BY <1>7, <1>9, <1>16, <2>1
  <2> QED
    BY <1>3, <2>1, <2>2, <2>3 DEF StoreStep, Lost
<1>18. CASE tier = 3
  <2>1. /\ InHand(t)' = Hand(rest) /\ agedOff' = agedOff \cup V
        /\ V \subseteq InTier(3) \cup {id}
        /\ InTier(3)' = (InTier(3) \cup {id}) \ V /\ InTier(2)' = InTier(2)
    BY <1>2, <1>4, <1>6, <1>7, <1>10, <1>12, <1>18, ConstantFacts DEF HandedDown
  <2> HIDE DEF V
  <2>2. OneHome'
    <3>1. /\ InTier(1)' \cap InTier(2)' = {} /\ InTier(1)' \cap InTier(3)' = {}
          /\ InTier(2)' \cap InTier(3)' = {}
      BY <1>7, <1>8, <1>9, <2>1
    <3>2. InHand(t)' \cap InTiers' = {}
      BY <1>5, <1>7, <1>8, <1>9, <1>14, <1>16, <2>1
    <3> QED
      BY <1>15, <3>1, <3>2, OneHomeStep
  <2>3. V \in SUBSET Stored /\ Stored' = Stored \ V /\ Lost' = Lost \cup V
    <3>1. V \subseteq Stored
      BY <1>9, <1>16, <2>1
    <3>2. Stored' = Stored \ V
      BY <1>7, <1>8, <1>9, <1>14, <1>16, <2>1
    <3> QED
      BY <1>3, <2>1, <3>1, <3>2 DEF Lost
  <2>4. V = {} => Stored' = Stored /\ Lost' = Lost
    BY <2>3
  <2> QED
    BY <1>3, <2>2, <2>3, <2>4 DEF StoreStep
<1> QED
  BY <1>6, <1>17, <1>18

LEMMA SoleRemove ==
    ASSUME SoleCaller, SoleInv, ManagerInv', NEW t \in Threads, Remove1(t)
    PROVE  OneHome' /\ StoreStep
<1> DEFINE w == thread[t]
<1>1. ManagerInv /\ OneHome /\ thread \in [Threads -> ThreadRecords] /\ used \subseteq Ids
  BY DEF SoleInv, ManagerInv, ThreadsOK, DataOK
<1>2. /\ w \in ThreadRecords /\ Sensible(w, used, touched) /\ w.pc = "remove"
      /\ w.todo = <<>>
  BY <1>1, ThreadFacts DEF Remove1
<1>3. PICK id \in Ids : id = w.id
  BY <1>1, <1>2 DEF Sensible
<1>4. PICK tier \in Tiers : tier = w.at
  BY <1>2 DEF Sensible
<1> DEFINE q  == <<Put(id, w.target)>>
           r1 == [w EXCEPT !.pc = "put", !.todo = q]
           r2 == [w EXCEPT !.at = w.at + 1]
<1>5. UNCHANGED <<touched, used, refused, dropped, agedOff>>
  BY DEF Remove1
<1>6. InHand(t) = {}
  BY <1>2 DEF InHand
<1>7. /\ InTier(1) \cap InTier(2) = {} /\ InTier(1) \cap InTier(3) = {}
      /\ InTier(2) \cap InTier(3) = {} /\ MoveFinds(thread[t])
  BY <1>1, OneHomeFacts
<1>8. /\ Stored = InTiers /\ Stored' = InTiers' \cup InHand(t)'
      /\ InTiers = InTier(1) \cup InTier(2) \cup InTier(3)
      /\ InTiers' = InTier(1)' \cup InTier(2)' \cup InTier(3)'
  BY <1>6, SoleStored
<1>9. CASE id \in InTier(tier)
  <2>1. /\ forgotten' = IF w.op = "forget" THEN forgotten \cup {id} ELSE forgotten
        /\ thread'[t] = IF w.op = "forget" THEN Asleep ELSE r1
    BY <1>1, <1>3, <1>4, <1>9 DEF Remove1, AfterRemove, Become
  <2>2. \A any \in Tiers : InTier(any)' = IF any = tier THEN InTier(any) \ {id}
                                          ELSE InTier(any)
    BY <1>1, <1>3, <1>4, <1>9, RemoveEffect
  <2>3. /\ InTier(1)' = InTier(1) \ {id} /\ InTier(2)' = InTier(2) \ {id}
        /\ InTier(3)' = InTier(3) \ {id} /\ id \in InTiers
    <3>1. tier \in {1, 2, 3}
      BY ConstantFacts
    <3> QED
      BY <1>7, <1>8, <1>9, <2>2, <3>1, ConstantFacts
  <2> HIDE DEF w
  <2>4. CASE w.op = "forget"
    <3>1. thread'[t] = Asleep
      BY <2>1, <2>4
    <3>2. InHand(t)' = {} /\ DistinctPuts(thread'[t].todo) /\ MoveFinds(thread[t])'
      BY <3>1, AsleepFacts DEF InHand, DistinctPuts, MoveFinds
    <3>3. OneHome'
      BY <1>7, <2>3, <3>2, OneHomeStep
    <3>4. /\ id \in Stored /\ Stored' = Stored \ {id} /\ UNCHANGED Lost
          /\ forgotten' = forgotten \cup {id}
      BY <1>5, <1>8, <2>1, <2>3, <2>4, <3>2 DEF Lost
    <3> QED
      BY <3>3, <3>4 DEF StoreStep
  <2>5. CASE w.op # "forget"
    <3> HIDE DEF q
    <3>1. thread'[t].todo = q /\ thread'[t].pc = "put"
      BY <1>2, <2>1, <2>5 DEF ThreadRecords
    <3>2. w.target \in Tiers
      BY <1>2, <2>5 DEF Sensible
    <3>3. Hand(q) = {id} /\ DistinctPuts(q)
      BY <3>2, SinglePut DEF DistinctPuts, q
    <3>4. InHand(t)' = {id}
      BY <3>1, <3>3 DEF InHand, Hand
    <3>5. DistinctPuts(thread'[t].todo) /\ MoveFinds(thread[t])'
      BY <3>1, <3>3 DEF MoveFinds
    <3>6. OneHome'
      BY <1>7, <1>8, <2>3, <3>4, <3>5, OneHomeStep
    <3>7. UNCHANGED <<Stored, Lost, forgotten>>
      BY <1>5, <1>8, <2>1, <2>3, <2>5, <3>4 DEF Lost
    <3> QED
      BY <3>6, <3>7 DEF StoreStep
  <2> QED
    BY <2>4, <2>5
<1>10. CASE id \notin InTier(tier)
  <2>1. /\ UNCHANGED <<fifo, rows, forgotten>>
        /\ thread'[t] = IF tier = L3 THEN IF w.op = "forget" THEN Asleep ELSE r1
                        ELSE r2
    BY <1>1, <1>3, <1>4, <1>10 DEF Remove1, AfterRemove, Become
  <2>2. CASE tier = L3
    <3>1. w.op = "forget"
      <4> SUFFICES ASSUME w.op # "forget" PROVE FALSE
        OBVIOUS
      <4>1. PICK other \in Tiers : w.at <= other /\ w.id \in InTier(other)
        BY <1>2, <1>7 DEF MoveFinds
      <4>2. other = tier
        BY <1>4, <2>2, <4>1, ConstantFacts
      <4> QED
        BY <1>3, <1>10, <4>1, <4>2
    <3>2. thread'[t].pc # "put" /\ MoveFinds(thread[t])'
      BY <2>1, <2>2, <3>1, AsleepFacts DEF MoveFinds
    <3> QED
      BY <1>1, <1>2, <1>5, <2>1, <3>2, SoleQuiet
  <2>3. CASE tier # L3
    <3>1. thread'[t] = r2
      BY <2>1, <2>3
    <3> HIDE DEF w
    <3>2. w.at + 1 \in Tiers
      BY <1>4, <2>3, ConstantFacts
    <3>3. /\ thread'[t].pc = "remove" /\ thread'[t].op = w.op /\ thread'[t].id = id
          /\ thread'[t].at = w.at + 1
      BY <1>2, <1>3, <3>1, <3>2, WithTier
    <3>4. MoveFinds(thread[t])'
      <4> SUFFICES ASSUME w.op # "forget"
                   PROVE  \E any \in Tiers : thread'[t].at <= any /\ thread'[t].id \in InTier(any)'
        BY <3>3 DEF MoveFinds
      <4>1. PICK other \in Tiers : w.at <= other /\ w.id \in InTier(other)
        BY <1>2, <1>7 DEF MoveFinds, w
      <4>2. w.at + 1 <= other
        <5>1. other # tier
          BY <1>3, <1>10, <4>1
        <5> QED
          BY <1>4, <4>1, <5>1, ConstantFacts
      <4>3. InTier(other)' = InTier(other)
        BY <2>1 DEF InTier
      <4>4. thread'[t].id \in InTier(other)'
        BY <1>3, <3>3, <4>1, <4>3
      <4> QED
        BY <3>3, <4>2, <4>4
    <3> QED
      BY <1>1, <1>2, <1>5, <2>1, <3>3, <3>4, SoleQuiet DEF w
  <2> QED
    BY <2>2, <2>3
<1> QED
  BY <1>9, <1>10

LEMMA SoleTouch ==
    ASSUME SoleCaller, SoleInv, ManagerInv', NEW t \in Threads, QueryTouch(t)
    PROVE  OneHome' /\ StoreStep
<1> DEFINE w == thread[t]
<1>1. ManagerInv /\ OneHome /\ thread \in [Threads -> ThreadRecords]
  BY DEF SoleInv, ManagerInv, ThreadsOK
<1>2. /\ w \in ThreadRecords /\ w.pc = "touch" /\ w.todo = <<>>
      /\ w.cand \in SUBSET Pairs
  BY <1>1, ThreadFacts DEF QueryTouch
<1>3. UNCHANGED <<rows, used, refused, dropped, forgotten, agedOff>>
  BY DEF QueryTouch
<1>4. PICK hit \in w.cand :
         /\ \/ fifo' = fifo
            \/ hit[1] \in Members(fifo) /\ fifo' = Append(Without(fifo, hit[1]), hit[1])
         /\ Become(t, IF w.cand = {hit} THEN Asleep
                      ELSE [w EXCEPT !.cand = w.cand \ {hit}])
  BY DEF QueryTouch, InTier
<1> HIDE DEF w
<1>5. PICK id \in Ids : id = hit[1]
  BY <1>2 DEF Pairs
<1>6. Members(fifo') = Members(fifo)
  <2>1. fifo \in Seq(Ids) /\ NoRepeats(fifo)
    BY <1>1 DEF ManagerInv, DataOK
  <2>2. CASE fifo' = fifo
    BY <2>2
  <2>3. CASE id \in Members(fifo) /\ fifo' = Append(Without(fifo, id), id)
    <3>1. /\ Without(fifo, id) \in Seq(Ids) /\ NoRepeats(Without(fifo, id))
          /\ Members(Without(fifo, id)) = Members(fifo) \ {id}
      BY <2>1, WithoutProperties
    <3>2. Members(fifo') = Members(Without(fifo, id)) \cup {id}
      BY <2>3, <3>1, AppendNewKey
    <3> QED
      BY <2>3, <3>1, <3>2
  <2> QED
    BY <1>4, <1>5, <2>2, <2>3
<1>7. thread'[t].pc \in {"idle", "touch"}
  <2> DEFINE r == [w EXCEPT !.cand = w.cand \ {hit}]
  <2>1. r.pc = "touch"
    BY <1>2 DEF ThreadRecords
  <2> HIDE DEF r
  <2>2. thread'[t] = IF w.cand = {hit} THEN Asleep ELSE r
    BY <1>1, <1>4 DEF Become, r
  <2> QED
    BY <2>1, <2>2, AsleepFacts
<1>8. /\ InTier(1)' = InTier(1) /\ InTier(2)' = InTier(2) /\ InTier(3)' = InTier(3)
  BY <1>3, <1>6 DEF InTier, L1
<1>9. thread'[t].todo = <<>>
  <2>1. Sensible(thread'[t], used', touched')
    BY DEF ManagerInv, ThreadsOK
  <2> QED
    BY <1>7, <2>1 DEF Sensible
<1>10. /\ InHand(t) = {} /\ InHand(t)' = {} /\ DistinctPuts(thread'[t].todo)
       /\ MoveFinds(thread[t])'
  BY <1>2, <1>7, <1>9 DEF InHand, DistinctPuts, MoveFinds, w
<1>11. OneHome'
  BY <1>1, <1>8, <1>10, OneHomeFacts, OneHomeStep
<1>12. Stored' = Stored
  BY <1>8, <1>10, SoleStored
<1> QED
  BY <1>3, <1>11, <1>12 DEF StoreStep, Lost

\* What is gone stays gone.
LEMMA GoneStep ==
    ASSUME SoleInv, StoreStep PROVE GoneForGood'
<1>1. (forgotten \cup Lost) \cap Stored = {}
  BY DEF SoleInv, GoneForGood
<1>2. forgotten \cup Lost \subseteq used
  BY DEF SoleInv, ManagerInv, DataOK, Lost
<1> QED
  BY <1>1, <1>2 DEF StoreStep, GoneForGood

\* Nothing is stored that was never inserted.
LEMMA StoredIsUsed == ManagerInv => Stored \subseteq used
<1> SUFFICES ASSUME ManagerInv PROVE Stored \subseteq used
  OBVIOUS
<1>1. InTiers \subseteq used
  BY DEF ManagerInv, DataOK, InTiers
<1>2. \A t \in Threads : InHand(t) \subseteq used
  <2> SUFFICES ASSUME NEW t \in Threads PROVE InHand(t) \subseteq used
    OBVIOUS
  <2>1. InHand(t) = Hand(thread[t].todo)
    BY DEF InHand, Hand
  <2> QED
    BY <2>1, ThreadFacts DEF Sensible
<1> QED
  BY <1>1, <1>2 DEF Stored

LEMMA SoleInit == Init => SoleInv
<1> SUFFICES ASSUME Init PROVE SoleInv
  OBVIOUS
<1>1. ManagerInv
  BY ManagerInitInv
<1>2. /\ used = {} /\ forgotten = {} /\ Lost = {}
      /\ thread = [t \in Threads |-> Asleep]
  BY DEF Init, Lost
<1>3. Stored = {} /\ InTiers = {}
  BY <1>1, <1>2, StoredIsUsed DEF Stored
<1>4. \A tier \in Tiers : InTier(tier) = {}
  BY <1>3 DEF InTiers
<1>5. \A t \in Threads : DistinctPuts(thread[t].todo) /\ MoveFinds(thread[t])
  BY <1>2, AsleepFacts DEF DistinctPuts, MoveFinds
<1>6. OneHome
  BY <1>3, <1>4, <1>5 DEF OneHome
<1> QED
  BY <1>1, <1>2, <1>6 DEF SoleInv, GoneForGood

LEMMA SoleStep ==
    ASSUME SoleCaller, SoleInv, NEW t \in Threads, Start(t) \/ Step(t)
    PROVE  SoleInv' /\ StoreStep
<1>1. ManagerInv /\ ManagerInv'
  BY ThreadStepInv DEF SoleInv
<1>2. OneHome' /\ StoreStep
  <2>1. ASSUME NEW id \in Ids, NEW tier \in Tiers, Insert(t, id, tier)
        PROVE  OneHome' /\ StoreStep
    BY <2>1, SoleInsert
  <2>2. ASSUME \/ \E op \in {"promote", "demote"}, id \in Ids : Move(t, op, id)
               \/ \E id \in Ids : Forget(t, id)
               \/ \E floor \in Tiers : QueryStart(t, floor)
        PROVE  OneHome' /\ StoreStep
    BY <1>1, <2>2, SoleStart
  <2>3. CASE Start(t)
    BY <2>1, <2>2, <2>3 DEF Start
  <2>4. CASE PutL1(t) \/ Embed(t) \/ PutRaises(t) \/ PutRow(t)
    BY <2>4, SolePutL1, SoleEmbed, SolePutRaises, SolePutRow
  <2>5. CASE Find(t) \/ Remove1(t)
    BY <1>1, <2>5, SoleFind, SoleRemove
  <2>6. CASE QueryRead(t) \/ QueryRank(t) \/ QueryTouch(t)
    BY <1>1, <2>6, SoleQuery, SoleTouch
  <2> QED
    BY <2>3, <2>4, <2>5, <2>6 DEF Step
<1> QED
  BY <1>1, <1>2, GoneStep DEF SoleInv

LEMMA SoleUnchanged ==
    ASSUME SoleInv, UNCHANGED vars PROVE SoleInv' /\ UNCHANGED <<Stored, Lost, forgotten>>
<1>1. ManagerInv'
  BY UnchangedInv DEF SoleInv
<1>2. UNCHANGED <<fifo, rows, touched, thread, used, refused, dropped, forgotten, agedOff>>
  BY DEF vars
<1>3. \A tier \in Tiers : InTier(tier)' = InTier(tier)
  BY <1>2 DEF InTier
<1>4. \A t \in Threads : InHand(t)' = InHand(t)
  BY <1>2 DEF InHand
<1>5. InTiers' = InTiers /\ Stored' = Stored /\ Lost' = Lost
  BY <1>2, <1>3, <1>4 DEF InTiers, Stored, Lost
<1>6. OneHome'
  BY <1>2, <1>3, <1>4, <1>5 DEF SoleInv, OneHome, MoveFinds
<1>7. GoneForGood'
  BY <1>2, <1>5 DEF SoleInv, GoneForGood
<1> QED
  BY <1>1, <1>2, <1>5, <1>6, <1>7 DEF SoleInv

\* With one caller a memory is in one place, and what is gone is nowhere.
THEOREM SoleCallerInvariant ==
    ASSUME SoleCaller PROVE Spec => []SoleInv
<1>1. SoleInv /\ [Next]_vars => SoleInv'
  BY SoleStep, SoleUnchanged DEF Next
<1> QED
  BY <1>1, SoleInit, PTL DEF Spec

LEMMA OneHomeSingle ==
    ASSUME OneHome PROVE SingleResidence
<1> SUFFICES ASSUME NEW id \in Ids
             PROVE  Cardinality({tier \in Tiers : id \in InTier(tier)}) <= 1
  BY DEF SingleResidence
<1> DEFINE homes == {tier \in Tiers : id \in InTier(tier)}
<1>1. \A a, b \in homes : a = b
  BY DEF OneHome
<1>2. CASE homes = {}
  BY <1>2, FS_EmptySet
<1>3. CASE homes # {}
  <2>1. PICK tier \in homes : TRUE
    BY <1>3
  <2> HIDE DEF homes
  <2>2. homes = {tier}
    BY <1>1, <2>1
  <2> QED
    BY <2>2, FS_Singleton DEF homes
<1> QED
  BY <1>2, <1>3

\* With one caller a memory is in at most one tier (manager.py promote, demote
\* and the cascades take it out of its tier before they put it into another).
THEOREM MemoriesHaveOneTier ==
    ASSUME SoleCaller PROVE Spec => []SingleResidence
<1>1. SoleInv => SingleResidence
  BY OneHomeSingle DEF SoleInv
<1> QED
  BY <1>1, SoleCallerInvariant, PTL

\* With one caller a forgotten memory never comes back (manager.py forget).
THEOREM ForgottenIsGone ==
    ASSUME SoleCaller PROVE Spec => []ForgetIsFinal
<1>1. SoleInv => ForgetIsFinal
  BY DEF SoleInv, GoneForGood, ForgetIsFinal
<1> QED
  BY <1>1, SoleCallerInvariant, PTL

\* A step on the store is a step of MemoryStore or none.
LEMMA StoreStepIsNext ==
    ASSUME SoleInv, StoreStep PROVE [Store!Next]_<<Stored, Lost>>
<1>1. Stored \subseteq used /\ Lost \subseteq used /\ used \subseteq Ids
  BY StoredIsUsed DEF SoleInv, ManagerInv, DataOK, Lost
<1>2. CASE UNCHANGED <<Stored, Lost, forgotten>>
  BY <1>2
<1>3. ASSUME NEW id \in Ids \ used, Stored' = Stored \cup {id}, UNCHANGED Lost
      PROVE  Store!Next
  BY <1>1, <1>3 DEF Store!Next, Store!Insert, Lost
<1>4. ASSUME NEW id \in Stored, Stored' = Stored \ {id}, UNCHANGED Lost
      PROVE  Store!Next
  BY <1>1, <1>4 DEF Store!Next, Store!Forget, Lost
<1>5. ASSUME NEW ids \in SUBSET Stored, ids # {}, Stored' = Stored \ ids,
             Lost' = Lost \cup ids
      PROVE  Store!Next
  <2>1. ids \in SUBSET Ids
    BY <1>1
  <2> QED
    BY <1>5, <2>1 DEF Store!Next, Store!Lose, Lost
<1> QED
  BY <1>2, <1>3, <1>4, <1>5 DEF StoreStep

\* A manager with one caller implements the store: every step of the tiers, the
\* cascades and the exceptions inserts one memory, forgets one, loses some for
\* good or leaves the store as it was.
THEOREM ManagerImplementsStore ==
    ASSUME SoleCaller PROVE Spec => StoreSpec
<1>1. Init => Store!Init
  <2> SUFFICES ASSUME Init PROVE Store!Init
    OBVIOUS
  <2>1. Stored = {} /\ Lost = {}
    BY ManagerInitInv, StoredIsUsed DEF Init, Lost
  <2> QED
    BY <2>1 DEF Store!Init, Lost
<1>2. SoleInv /\ [Next]_vars => [Store!Next]_<<Stored, Lost>>
  <2> SUFFICES ASSUME SoleInv, [Next]_vars PROVE [Store!Next]_<<Stored, Lost>>
    OBVIOUS
  <2>1. CASE UNCHANGED vars
    BY <2>1, SoleUnchanged
  <2>2. CASE Next
    BY <2>2, SoleStep, StoreStepIsNext DEF Next
  <2> QED
    BY <2>1, <2>2
<1> QED
  BY <1>1, <1>2, SoleCallerInvariant, PTL DEF Spec, StoreSpec, Store!Spec, Lost

-----------------------------------------------------------------------------
(* What is stored is stored where it was meant to be *)

\* No memory is larger than the whole of L2 or of L3.
FitsBelow == \A id \in Ids, tier \in {L2, L3} : Size[id] <= Cap[tier]

\* The memory of a tier that was stamped last.
Newest(tier) == touched[tier][Len(touched[tier])]

\* Before the operation's own put, its memory is all that the caller has in hand;
\* once it is stamped, nothing in its tier is fresher.
AboutToPlace(t) ==
    /\ thread[t].id \in Ids /\ thread[t].target \in Tiers
    /\ thread[t].todo = <<Put(thread[t].id, thread[t].target)>>
    /\ thread[t].stamped => /\ touched[thread[t].target] # <<>>
                            /\ Newest(thread[t].target) = thread[t].id

\* After it, only puts into lower tiers are left, which take nothing out of the
\* memory's own.
HasPlaced(t) ==
    /\ thread[t].target \in Tiers
    /\ thread[t].id \in InTier(thread[t].target)
    /\ \A p \in Members(thread[t].todo) : p.tier > thread[t].target

Placing == \A t \in Threads : thread[t].pc = "put" => AboutToPlace(t) \/ HasPlaced(t)

PlacingInv == SoleInv /\ Placing

\* The newcomer of a tier is not among the victims of its own put.
LEMMA NewcomerStays ==
    ASSUME DataOK, NEW tier \in {L2, L3}, NEW id \in Ids, touched[tier] # <<>>,
           Newest(tier) = id, Size[id] <= Cap[tier]
    PROVE  id \notin Members(Victims(tier, id))
<1> DEFINE all  == rows[tier] \cup {id}
           cold == ColdOrder(tier, all)
           n    == PopCount(Size, cold, 0, Cap[tier])
           s    == touched[tier]
<1>1. /\ s \in Seq(Ids) /\ NoRepeats(s) /\ s # <<>> /\ s[Len(s)] = id
      /\ tier \in Tiers /\ Cap[tier] \in Nat /\ Size \in Charges
  BY ConstantFacts DEF DataOK, Newest
<1>2. id \in all
  OBVIOUS
<1>3. CASE id \in rows[tier] \/ Bytes(Size, all) <= Cap[tier]
  <2>1. Victims(tier, id) = <<>>
    BY <1>3 DEF Victims
  <2> QED
    BY <2>1, MembersOfEmpty
<1>4. CASE ~(id \in rows[tier] \/ Bytes(Size, all) <= Cap[tier])
  <2>1. Victims(tier, id) = SubSeq(cold, 1, n)
    BY <1>4 DEF Victims
  <2>2. /\ cold \in Seq(Ids) /\ NoRepeats(cold) /\ cold # <<>> /\ cold[Len(cold)] = id
    BY <1>1, <1>2, AmongProperties, AmongKeepsLast DEF ColdOrder
  <2> HIDE DEF cold
  <2> DEFINE l == Len(cold)
  <2>3. l \in Nat /\ l >= 1
    BY <2>2
  <2>4. /\ n \in 0..l
        /\ \A m \in 0..(n-1) : ~Fits(Size, cold, m, 0, Cap[tier])
    BY <2>2, PopCountProperties
  <2> HIDE DEF n
  <2>5. Fits(Size, cold, l - 1, 0, Cap[tier])
    <3>1. l - 1 \in 0..l
      BY <2>3
    <3>2. /\ Suffix(cold, l-1) \in Seq(Ids) /\ Len(Suffix(cold, l-1)) = 1
          /\ Suffix(cold, l-1)[1] = id
      <4>1. /\ Suffix(cold, l-1) \in Seq(Ids) /\ Len(Suffix(cold, l-1)) = l - (l-1)
            /\ \A i \in 1..(l - (l-1)) : Suffix(cold, l-1)[i] = cold[(l-1) + i]
        BY <2>2, <3>1, SuffixIs
      <4>2. l - (l-1) = 1 /\ (l-1) + 1 = l
        BY <2>3
      <4> QED
        BY <2>2, <4>1, <4>2
    <3>3. Members(Suffix(cold, l-1)) = {id}
      <4>1. 1..1 = {1}
        OBVIOUS
      <4> QED
        BY <3>2, <4>1 DEF Members
    <3>4. Bytes(Size, {id}) = Size[id]
      <4>1. Bytes(Size, {} \cup {id}) = Bytes(Size, {}) + Size[id]
        BY <1>1, BytesAdd
      <4>2. {} \cup {id} = {id}
        OBVIOUS
      <4>3. Bytes(Size, {}) = 0 /\ Size[id] \in Nat
        BY BytesEmpty, ConstantFacts
      <4> QED
        BY <4>1, <4>2, <4>3
    <3>5. Bytes(Size, {id}) + 0 <= Cap[tier]
      BY <1>1, <3>4, ConstantFacts
    <3> QED
      BY <3>3, <3>5 DEF Fits
  <2>6. n \in Nat /\ n <= l - 1
    <3>1. ~(l - 1 \in 0..(n-1))
      BY <2>4, <2>5
    <3> QED
      BY <2>3, <2>4, <3>1
  <2>7. /\ SubSeq(cold, 1, n) \in Seq(Ids) /\ Len(SubSeq(cold, 1, n)) = n
        /\ \A i \in 1..n : SubSeq(cold, 1, n)[i] = cold[i]
    BY <2>2, <2>3, <2>6, SubSeqProperties
  <2>8. ASSUME NEW i \in 1..n, cold[i] = id PROVE FALSE
    <3>1. i \in 1..l /\ l \in 1..l /\ i # l
      BY <2>3, <2>6
    <3> QED
      BY <2>2, <2>8, <3>1 DEF NoRepeats
  <2> QED
    BY <2>1, <2>7, <2>8 DEF Members
<1> QED
  BY <1>3, <1>4

\* A stamp makes its memory the newest.
LEMMA FreshenedNewest ==
    ASSUME DataOK, NEW tier \in {L2, L3}, NEW id \in Ids, touched' = Freshened(tier, id)
    PROVE  touched'[tier] # <<>> /\ touched'[tier][Len(touched'[tier])] = id
<1> DEFINE rest == Without(touched[tier], id)
<1>1. /\ touched \in [{L2, L3} -> Seq(Ids)] /\ NoRepeats(touched[tier])
      /\ touched[tier] \in Seq(Ids)
  BY DEF DataOK
<1>2. rest \in Seq(Ids)
  BY <1>1, WithoutProperties
<1>3. touched'[tier] = Append(rest, id)
  BY <1>1 DEF Freshened
<1> HIDE DEF rest
<1>4. /\ Append(rest, id) \in Seq(Ids) /\ Len(Append(rest, id)) = Len(rest) + 1
      /\ Append(rest, id)[Len(rest) + 1] = id /\ Len(rest) \in Nat
  BY <1>2, AppendProperties, LenProperties
<1> QED
  BY <1>3, <1>4

\* The next put of a thread is the first on its list.
LEMMA NextPut ==
    ASSUME ManagerInv, NEW t \in Threads, thread[t].pc = "put"
    PROVE  LET w == thread[t] IN
           /\ AboutToPlace(t) => /\ Head(w.todo).id = w.id /\ Head(w.todo).tier = w.target
                                 /\ Tail(w.todo) = <<>>
           /\ HasPlaced(t) =>
                 /\ Head(w.todo).tier > w.target
                 /\ \A p \in Members(Tail(w.todo)) : p.tier > w.target
<1> DEFINE w == thread[t]
<1>1. w.todo \in Seq(Puts) /\ w.todo # <<>>
  BY PutFacts
<1>2. Members(w.todo) = {Head(w.todo)} \cup Members(Tail(w.todo))
  BY <1>1, MembersOfParts
<1>3. ASSUME AboutToPlace(t)
      PROVE  Head(w.todo).id = w.id /\ Head(w.todo).tier = w.target /\ Tail(w.todo) = <<>>
  <2> DEFINE p == Put(w.id, w.target)
  <2>1. p.id = w.id /\ p.tier = w.target
    BY DEF Put
  <2>2. w.todo = <<p>>
    BY <1>3 DEF AboutToPlace
  <2> HIDE DEF p, w
  <2> QED
    BY <2>1, <2>2
<1> QED
  BY <1>2, <1>3 DEF HasPlaced

-----------------------------------------------------------------------------
(* The puts of one operation *)

\* After the step the memory is in the tier.
Arrives(id, tier) == id \in IF tier = L1 THEN Members(fifo') ELSE rows'[tier]

\* A put leaves the operation before its own put, or behind it with the memory
\* in its tier, unless it raises.
Onward(t) ==
    \/ Raised(t)
    \/ thread'[t].pc = "put" /\ AboutToPlace(t)'
    \/ /\ Arrives(thread[t].id, thread[t].target)
       /\ thread'[t].pc \in {"idle", "put"}
       /\ thread'[t].pc = "put" => HasPlaced(t)'

\* What is left to do after a put is as far below as the put was.
LEMMA LeftBelow ==
    ASSUME ManagerInv, NEW t \in Threads, thread[t].pc = "put",
           NEW victims \in Seq(Ids), NEW tier \in Tiers, Proceed(t, victims, tier),
           tier = Head(thread[t].todo).tier, Members(victims) \subseteq used,
           used' = used, touched' = touched,
           thread[t].target \in Tiers, thread[t].target <= tier,
           \A p \in Members(Tail(thread[t].todo)) : p.tier > thread[t].target,
           Arrives(thread[t].id, thread[t].target)
    PROVE  Onward(t)
<1> DEFINE w    == thread[t]
           rest == Tail(w.todo)
           q    == LeftToDo(victims, tier, rest)
<1>1. /\ thread'[t].todo = q
      /\ \/ thread'[t].pc = "idle"
         \/ /\ thread'[t].pc = "put" /\ thread'[t].id = w.id /\ thread'[t].target = w.target
  BY ProceedFacts
<1>2. rest \in Seq(Puts)
  BY PutFacts
<1> HIDE DEF rest
<1>3. Members(q) = (IF tier = L3 THEN {}
                    ELSE {Put(id, OneBelow(tier)) : id \in Members(victims)}) \cup Members(rest)
  BY <1>2, LeftToDoMembers
<1>4. \A id : Put(id, OneBelow(tier)).tier > w.target
  <2>1. \A id : Put(id, OneBelow(tier)).tier = OneBelow(tier)
    BY DEF Put
  <2>2. OneBelow(tier) > w.target
    BY ConstantFacts DEF OneBelow
  <2> QED
    BY <2>1, <2>2
<1>5. \A p \in Members(q) : p.tier > w.target
  BY <1>3, <1>4 DEF rest
<1> HIDE DEF q
<1>6. thread'[t].pc = "put" => HasPlaced(t)'
  BY <1>1, <1>5 DEF HasPlaced, InTier, Arrives
<1> QED
  BY <1>1, <1>6 DEF Onward

\* An insert() that stores its memory in L2 instead is about to place it there.
LEMMA PlaceReroute ==
    ASSUME ManagerInv, NEW t \in Threads, thread[t].pc = "put", InTry(t), Reroute(t),
           used' = used, touched' = touched
    PROVE  Onward(t)
<1>1. /\ thread[t].id \in Ids /\ thread'[t].pc = "put"
      /\ thread'[t].todo = <<Put(thread[t].id, L2)>> /\ thread'[t].id = thread[t].id
      /\ thread'[t].target = L2 /\ thread'[t].stamped = FALSE
  BY RerouteFacts
<1>2. L2 \in Tiers
  BY ConstantFacts
<1>3. AboutToPlace(t)'
  BY <1>1, <1>2 DEF AboutToPlace
<1> QED
  BY <1>1, <1>3 DEF Onward

LEMMA PlacePutRaises ==
    ASSUME SoleCaller, PlacingInv, NEW t \in Threads, PutRaises(t)
    PROVE  Onward(t)
<1>1. ManagerInv
  BY DEF PlacingInv, SoleInv
<1>2. Raised(t) => Onward(t)
  BY DEF Onward
<1> QED
  BY <1>1, <1>2, PlaceReroute DEF PutRaises

LEMMA PlacePutL1 ==
    ASSUME SoleCaller, PlacingInv, NEW t \in Threads, PutL1(t)
    PROVE  Onward(t)
<1> DEFINE w    == thread[t]
           id   == Head(w.todo).id
           rest == Tail(w.todo)
<1>1. ManagerInv /\ thread \in [Threads -> ThreadRecords] /\ w \in ThreadRecords
  BY DEF PlacingInv, SoleInv, ManagerInv, ThreadsOK
<1>2. /\ w.pc = "put" /\ Head(w.todo).tier = L1
      /\ UNCHANGED <<rows, touched, used, forgotten, agedOff>>
  BY <1>1, PutL1Effect
<1>3. AboutToPlace(t)
  <2>1. AboutToPlace(t) \/ HasPlaced(t)
    BY <1>2 DEF PlacingInv, Placing
  <2>2. ASSUME HasPlaced(t) PROVE FALSE
    <3>1. L1 > w.target /\ w.target \in Tiers
      BY <1>1, <1>2, <2>2, NextPut DEF HasPlaced
    <3> QED
      BY <3>1, ConstantFacts
  <2> QED
    BY <2>1, <2>2
<1>4. w.id = id /\ w.target = L1 /\ rest = <<>> /\ id \in Ids
  BY <1>1, <1>2, <1>3, NextPut DEF AboutToPlace
<1>5. CASE Size[id] <= Cap[L1]
  <2>1. PICK victims \in Seq(Ids) :
           /\ Members(victims) \subseteq Members(fifo) \ {id}
           /\ Members(fifo') = (Members(fifo) \cup {id}) \ Members(victims)
           /\ Proceed(t, victims, L1)
    BY <1>1, <1>5, PutL1Effect
  <2>2. Arrives(id, L1)
    BY <2>1 DEF Arrives
  <2>3. L1 \in Tiers /\ L1 <= L1
    BY ConstantFacts
  <2>4. Members(victims) \subseteq used
    <3>1. InTier(L1) \subseteq used
      BY <1>1, <2>3 DEF ManagerInv, DataOK
    <3> QED
      BY <2>1, <3>1, InTiersFacts
  <2>5. \A p \in Members(rest) : p.tier > w.target
    BY <1>4, MembersOfEmpty
  <2> HIDE DEF id, rest
  <2> QED
    BY <1>1, <1>2, <1>4, <2>1, <2>2, <2>3, <2>4, <2>5, LeftBelow DEF rest
<1>6. CASE ~(Size[id] <= Cap[L1])
  <2>1. (InTry(t) /\ Reroute(t)) \/ Raised(t)
    BY <1>1, <1>6, PutL1Effect
  <2>2. Raised(t) => Onward(t)
    BY DEF Onward
  <2> QED
    BY <1>1, <1>2, <2>1, <2>2, PlaceReroute
<1> QED
  BY <1>5, <1>6

LEMMA PlaceEmbed ==
    ASSUME SoleCaller, PlacingInv, NEW t \in Threads, Embed(t)
    PROVE  Onward(t)
<1> DEFINE w    == thread[t]
           tier == Head(w.todo).tier
           id   == Head(w.todo).id
           r    == [w EXCEPT !.stamped = TRUE]
<1>1. ManagerInv /\ DataOK /\ thread \in [Threads -> ThreadRecords] /\ w \in ThreadRecords
  BY DEF PlacingInv, SoleInv, ManagerInv, ThreadsOK
<1>2. /\ w.pc = "put" /\ tier # L1 /\ UNCHANGED <<fifo, rows>>
      /\ Become(t, r) /\ touched' = Freshened(tier, id)
  BY DEF Embed
<1>3. tier \in {L2, L3} /\ id \in Ids
  <2>1. tier \in Tiers /\ id \in Ids
    BY <1>1, <1>2, PutFacts
  <2> QED
    BY <1>2, <2>1 DEF Tiers
<1>4. thread'[t] = r
  BY <1>1, <1>2 DEF Become
<1>5. AboutToPlace(t) => id = w.id /\ tier = w.target
  BY <1>1, <1>2, NextPut
<1>6. AboutToPlace(t) \/ HasPlaced(t)
  BY <1>2 DEF PlacingInv, Placing
<1> HIDE DEF w, tier, id
<1>7. touched'[tier] # <<>> /\ touched'[tier][Len(touched'[tier])] = id
  BY <1>1, <1>2, <1>3, FreshenedNewest
<1>8. /\ r.todo = w.todo /\ r.pc = w.pc /\ r.id = w.id /\ r.target = w.target
  BY <1>1, WithStamp
<1> HIDE DEF r
<1>9. thread'[t].pc = "put"
  BY <1>2, <1>4, <1>8
<1>10. CASE AboutToPlace(t)
  <2>1. AboutToPlace(t)'
    BY <1>4, <1>5, <1>7, <1>8, <1>10 DEF AboutToPlace, Newest, w
  <2> QED
    BY <1>9, <2>1 DEF Onward
<1>11. CASE HasPlaced(t)
  <2>1. w.id \in InTier(w.target) /\ w.target \in Tiers
        /\ \A p \in Members(w.todo) : p.tier > w.target
    BY <1>11 DEF HasPlaced, w
  <2>2. Arrives(w.id, w.target)
    BY <1>2, <2>1 DEF InTier, Arrives
  <2>3. HasPlaced(t)'
    BY <1>4, <1>8, <2>1, <2>2 DEF HasPlaced, InTier, Arrives
  <2> QED
    BY <1>9, <2>2, <2>3 DEF Onward, w
<1> QED
  BY <1>6, <1>10, <1>11

LEMMA PlacePutRow ==
    ASSUME SoleCaller, FitsBelow, PlacingInv, NEW t \in Threads, PutRow(t)
    PROVE  Onward(t)
<1> DEFINE w    == thread[t]
           id   == Head(w.todo).id
           tier == Head(w.todo).tier
           rest == Tail(w.todo)
           victims == Victims(tier, id)
<1>1. ManagerInv /\ DataOK /\ TierBudgets
  BY DEF PlacingInv, SoleInv, ManagerInv
<1>2. /\ w.pc = "put" /\ tier \in {L2, L3} /\ UNCHANGED <<fifo, touched, used>>
      /\ id \in Members(touched[tier])
  BY <1>1, PutRowEffect
<1>3. /\ w.stamped /\ rows' = [rows EXCEPT ![tier] = (rows[tier] \cup {id}) \ Members(victims)]
      /\ Proceed(t, victims, tier)
  BY DEF PutRow
<1>4. id \in Ids /\ id \in used /\ tier \in Tiers /\ L1 # L2 /\ L1 # L3
  BY <1>1, <1>2, PutFacts, ConstantFacts
<1>5. victims \in Seq(Ids) /\ Members(victims) \subseteq rows[tier] \cup {id}
  BY <1>1, <1>2, <1>4, VictimsFacts
<1>6. Members(victims) \subseteq used
  <2>1. InTier(tier) \subseteq used /\ InTier(tier) = rows[tier]
    BY <1>1, <1>2, <1>4, InTiersFacts DEF DataOK
  <2> QED
    BY <1>4, <1>5, <2>1
<1>7. rows \in [{L2, L3} -> SUBSET Ids]
  BY <1>1 DEF DataOK
<1>8. tier = Head(thread[t].todo).tier
  OBVIOUS
<1>9. AboutToPlace(t) \/ HasPlaced(t)
  BY <1>2 DEF PlacingInv, Placing
<1>10. CASE AboutToPlace(t)
  <2>1. id = w.id /\ tier = w.target /\ rest = <<>>
    BY <1>1, <1>2, <1>10, NextPut
  <2>2. touched[tier] # <<>> /\ Newest(tier) = id
    BY <1>3, <1>10, <2>1 DEF AboutToPlace
  <2>3. id \notin Members(victims)
    <3>1. Size[id] <= Cap[tier]
      BY <1>2, <1>4 DEF FitsBelow
    <3> HIDE DEF id, tier
    <3> QED
      BY <1>1, <1>2, <1>4, <2>2, <3>1, NewcomerStays
  <2> HIDE DEF victims
  <2>4. w.id \in rows'[tier]
    BY <1>2, <1>3, <1>7, <2>1, <2>3
  <2>5. Arrives(w.id, w.target)
    <3>1. tier # L1
      BY <1>2, <1>4
    <3> QED
      BY <2>1, <2>4, <3>1 DEF Arrives
  <2>6. \A p \in Members(rest) : p.tier > w.target
    BY <2>1, MembersOfEmpty
  <2>7. w.target \in Tiers /\ w.target <= tier
    BY <1>4, <2>1, ConstantFacts
  <2> HIDE DEF id, tier, rest
  <2> QED
    BY <1>1, <1>2, <1>3, <1>4, <1>5, <1>6, <1>8, <2>5, <2>6, <2>7, LeftBelow DEF rest
<1>11. CASE HasPlaced(t)
  <2>1. tier > w.target /\ \A p \in Members(rest) : p.tier > w.target
    BY <1>1, <1>2, <1>11, NextPut
  <2>2. w.target \in Tiers /\ w.id \in InTier(w.target)
    BY <1>11 DEF HasPlaced
  <2>3. w.target <= tier /\ w.target # tier
    BY <1>4, <2>1, <2>2, ConstantFacts
  <2> HIDE DEF id, tier, victims
  <2>4. Arrives(w.id, w.target)
    <3>1. CASE w.target = L1
      BY <1>2, <2>2, <3>1 DEF InTier, Arrives
    <3>2. CASE w.target # L1
      <4>1. w.target \in {L2, L3}
        BY <2>2, <3>2 DEF Tiers
      <4>2. rows'[w.target] = rows[w.target]
        BY <1>3, <1>7, <2>3, <4>1
      <4> QED
        BY <2>2, <3>2, <4>2 DEF InTier, Arrives
    <3> QED
      BY <3>1, <3>2
  <2> HIDE DEF rest
  <2> QED
    BY <1>1, <1>2, <1>3, <1>4, <1>5, <1>6, <1>8, <2>1, <2>2, <2>3, <2>4, LeftBelow DEF rest
<1> QED
  BY <1>9, <1>10, <1>11

-----------------------------------------------------------------------------
(* Every step keeps what is to be stored on its way *)

\* The steps of a query keep the thread in the query.
LEMMA QueryPositions ==
    ASSUME ManagerInv, NEW t \in Threads, QueryRead(t) \/ QueryRank(t) \/ QueryTouch(t)
    PROVE  thread'[t].pc \in {"idle", "read", "touch"}
<1> DEFINE w == thread[t]
<1>1. thread \in [Threads -> ThreadRecords] /\ w \in ThreadRecords
  BY DEF ManagerInv, ThreadsOK
<1>2. \A r : Become(t, r) => thread'[t] = r
  BY <1>1 DEF Become
<1>3. Asleep.pc = "idle"
  BY AsleepFacts
<1> HIDE DEF w
<1>4. /\ \A c : [w EXCEPT !.pc = "touch", !.cand = c].pc = "touch"
      /\ \A c : [w EXCEPT !.cand = c].pc = w.pc
  BY <1>1 DEF ThreadRecords
<1>5. CASE QueryRead(t)
  <2>1. w.pc = "read" /\ \E n, c : Become(t, [w EXCEPT !.at = n, !.cand = c])
    BY <1>5 DEF QueryRead, w
  <2>2. PICK n, c : Become(t, [w EXCEPT !.at = n, !.cand = c])
    BY <2>1
  <2> DEFINE r == [w EXCEPT !.at = n, !.cand = c]
  <2>3. r.pc = w.pc
    BY <1>1 DEF ThreadRecords
  <2> HIDE DEF r
  <2>4. thread'[t] = r
    BY <1>2, <2>2 DEF r
  <2> QED
    BY <2>1, <2>3, <2>4
<1>6. CASE QueryRank(t)
  <2>1. Become(t, Asleep) \/ \E c : Become(t, [w EXCEPT !.pc = "touch", !.cand = c])
    BY <1>6 DEF QueryRank, w
  <2> QED
    BY <1>2, <1>3, <1>4, <2>1
<1>7. CASE QueryTouch(t)
  <2>1. w.pc = "touch" /\ (Become(t, Asleep) \/ \E c : Become(t, [w EXCEPT !.cand = c]))
    BY <1>7 DEF QueryTouch, w
  <2> QED
    BY <1>2, <1>3, <1>4, <2>1
<1> QED
  BY <1>5, <1>6, <1>7

\* Only the caller's own position matters.
LEMMA PlacingOfSole ==
    ASSUME SoleCaller, NEW t \in Threads,
           thread'[t].pc = "put" => AboutToPlace(t)' \/ HasPlaced(t)'
    PROVE  Placing'
<1>1. \A u \in Threads : u = t
  BY DEF SoleCaller
<1> QED
  BY <1>1 DEF Placing

LEMMA PlaceRemove ==
    ASSUME SoleCaller, PlacingInv, NEW t \in Threads, Remove1(t)
    PROVE  Placing'
<1> DEFINE w  == thread[t]
           q  == <<Put(w.id, w.target)>>
           r1 == [w EXCEPT !.pc = "put", !.todo = q]
           r2 == [w EXCEPT !.at = w.at + 1]
<1>1. ManagerInv /\ thread \in [Threads -> ThreadRecords] /\ used \subseteq Ids
  BY DEF PlacingInv, SoleInv, ManagerInv, ThreadsOK, DataOK
<1>2. w \in ThreadRecords /\ Sensible(w, used, touched) /\ w.pc = "remove"
  BY <1>1, ThreadFacts DEF Remove1
<1>3. w.id \in Ids /\ w.at \in Tiers /\ ~w.stamped /\ (w.op # "forget" => w.target \in Tiers)
  BY <1>1, <1>2 DEF Sensible
<1>4. \/ thread'[t] = Asleep
      \/ thread'[t] = r1 /\ w.op # "forget"
      \/ thread'[t] = r2 /\ w.at # L3
  BY <1>1 DEF Remove1, AfterRemove, Become
<1>5. CASE thread'[t] = Asleep
  BY <1>5, AsleepFacts, PlacingOfSole
<1> HIDE DEF w
<1>6. CASE thread'[t] = r1 /\ w.op # "forget"
  <2>1. w.target \in Tiers /\ q \in Seq(Puts)
    BY <1>3, <1>6, SinglePut
  <2> HIDE DEF q
  <2>2. r1.todo = q /\ r1.id = w.id /\ r1.target = w.target /\ r1.stamped = w.stamped
    BY <1>2, <2>1, WithPuts
  <2> HIDE DEF r1
  <2>3. AboutToPlace(t)'
    BY <1>3, <1>6, <2>1, <2>2 DEF AboutToPlace, q
  <2> QED
    BY <2>3, PlacingOfSole
<1>7. CASE thread'[t] = r2 /\ w.at # L3
  <2>1. w.at + 1 \in Tiers
    BY <1>3, <1>7, ConstantFacts
  <2>2. thread'[t].pc = w.pc
    BY <1>2, <1>7, <2>1, WithTier
  <2> QED
    BY <1>2, <2>2, PlacingOfSole
<1> QED
  BY <1>4, <1>5, <1>6, <1>7

LEMMA PlaceFind ==
    ASSUME SoleCaller, PlacingInv, NEW t \in Threads, Find(t)
    PROVE  Placing'
<1> DEFINE w      == thread[t]
           target == Neighbour(w.op, w.at)
           r1     == [w EXCEPT !.pc = "remove", !.at = L1, !.target = target]
           r2     == [w EXCEPT !.at = w.at + 1]
<1>1. thread \in [Threads -> ThreadRecords] /\ w \in ThreadRecords
  BY DEF PlacingInv, SoleInv, ManagerInv, ThreadsOK
<1>2. /\ w.pc = "find"
      /\ thread'[t] = Asleep \/ thread'[t] = r1 \/ thread'[t] = r2
  BY <1>1 DEF Find, Become
<1> HIDE DEF w, target
<1>3. r1.pc = "remove" /\ r2.pc = w.pc
  BY <1>1 DEF ThreadRecords
<1>4. thread'[t].pc # "put"
  BY <1>2, <1>3, AsleepFacts
<1> QED
  BY <1>4, PlacingOfSole

\* A put leaves the operation or goes on with it.
LEMMA PlacePut ==
    ASSUME SoleCaller, FitsBelow, PlacingInv, NEW t \in Threads, Step(t),
           thread[t].pc = "put"
    PROVE  Onward(t)
<1>1. PutL1(t) \/ Embed(t) \/ PutRaises(t) \/ PutRow(t)
  BY DEF Step, Find, Remove1, QueryRead, QueryRank, QueryTouch
<1> QED
  BY <1>1, PlacePutL1, PlaceEmbed, PlacePutRaises, PlacePutRow

LEMMA PlaceStep ==
    ASSUME SoleCaller, FitsBelow, PlacingInv, NEW t \in Threads, Step(t)
    PROVE  Placing'
<1>1. ManagerInv /\ thread \in [Threads -> ThreadRecords]
  BY DEF PlacingInv, SoleInv, ManagerInv, ThreadsOK
<1>2. CASE thread[t].pc = "put"
  <2>1. Onward(t)
    BY <1>2, PlacePut
  <2>2. Raised(t) => thread'[t].pc = "idle"
    BY <1>1, AsleepFacts DEF Raised, Become
  <2> QED
    BY <2>1, <2>2, PlacingOfSole DEF Onward
<1>3. CASE thread[t].pc # "put"
  <2>1. Find(t) \/ Remove1(t) \/ QueryRead(t) \/ QueryRank(t) \/ QueryTouch(t)
    BY <1>3 DEF Step, PutL1, Embed, PutRaises, PutRow
  <2>2. CASE QueryRead(t) \/ QueryRank(t) \/ QueryTouch(t)
    <3>1. thread'[t].pc # "put"
      BY <1>1, <2>2, QueryPositions
    <3> QED
      BY <3>1, PlacingOfSole
  <2> QED
    BY <2>1, <2>2, PlaceFind, PlaceRemove
<1> QED
  BY <1>2, <1>3

LEMMA PlaceStart ==
    ASSUME SoleCaller, PlacingInv, NEW t \in Threads, Start(t)
    PROVE  Placing'
<1>1. thread \in [Threads -> ThreadRecords]
  BY DEF PlacingInv, SoleInv, ManagerInv, ThreadsOK
<1>2. \A r : Become(t, r) => thread'[t] = r
  BY <1>1 DEF Become
<1>3. \A op, pc, id, at, target, todo :
         LET r == Doing(op, pc, id, at, target, todo) IN
         /\ r.pc = pc /\ r.id = id /\ r.target = target /\ r.todo = todo
         /\ r.stamped = FALSE
  BY DEF Doing
<1>4. ASSUME NEW id \in Ids, NEW tier \in Tiers, Insert(t, id, tier) PROVE Placing'
  <2> DEFINE q == <<Put(id, tier)>>
  <2>1. thread'[t] = Doing("insert", "put", id, tier, tier, q)
    BY <1>2, <1>4 DEF Insert
  <2> HIDE DEF q
  <2>2. AboutToPlace(t)'
    BY <1>3, <2>1 DEF AboutToPlace, q
  <2> QED
    BY <2>2, PlacingOfSole
<1>5. ASSUME NEW op, NEW id, Move(t, op, id) PROVE thread'[t].pc # "put"
  BY <1>2, <1>3, <1>5 DEF Move
<1>6. ASSUME NEW id, Forget(t, id) PROVE thread'[t].pc # "put"
  BY <1>2, <1>3, <1>6 DEF Forget
<1>7. ASSUME NEW floor, QueryStart(t, floor) PROVE thread'[t].pc # "put"
  BY <1>2, <1>3, <1>7 DEF QueryStart
<1> QED
  BY <1>4, <1>5, <1>6, <1>7, PlacingOfSole DEF Start

\* Until an operation returns it is on its way to place its memory, or has.
LEMMA PlacingNext ==
    ASSUME SoleCaller, FitsBelow, PlacingInv, [Next]_vars PROVE PlacingInv'
<1>1. SoleInv'
  <2>1. SoleInv
    BY DEF PlacingInv
  <2> QED
    BY <2>1, SoleStep, SoleUnchanged DEF Next
<1>2. CASE UNCHANGED vars
  <2>1. UNCHANGED <<fifo, rows, touched, thread>>
    BY <1>2 DEF vars
  <2>2. ASSUME NEW t \in Threads
        PROVE  (AboutToPlace(t) => AboutToPlace(t)') /\ (HasPlaced(t) => HasPlaced(t)')
    BY <2>1 DEF AboutToPlace, HasPlaced, Newest, InTier
  <2>3. ASSUME NEW t \in Threads, thread'[t].pc = "put"
        PROVE  AboutToPlace(t)' \/ HasPlaced(t)'
    <3>1. AboutToPlace(t) \/ HasPlaced(t)
      BY <2>1, <2>3 DEF PlacingInv, Placing
    <3> QED
      BY <2>2, <3>1
  <2> QED
    BY <1>1, <2>3 DEF Placing, PlacingInv
<1>3. CASE Next
  <2>1. PICK t \in Threads : Start(t) \/ Step(t)
    BY <1>3 DEF Next
  <2>2. Placing'
    BY <2>1, PlaceStep, PlaceStart
  <2> QED
    BY <1>1, <2>2 DEF PlacingInv
<1> QED
  BY <1>2, <1>3

LEMMA PlacingInit == ASSUME SoleCaller, Init PROVE PlacingInv
<1>1. \A t \in Threads : thread[t].pc = "idle"
  BY AsleepFacts DEF Init
<1> QED
  BY <1>1, SoleInit DEF PlacingInv, Placing

\* An exception is on record: the memories in hand were not lost before.
LEMMA RaisedIsRecorded ==
    ASSUME SoleInv, NEW t \in Threads, thread[t].pc = "put", Raised(t)
    PROVE  ~UNCHANGED <<refused, dropped>>
<1> DEFINE id  == Head(thread[t].todo).id
           own == IF thread[t].op = "insert" THEN {thread[t].id} \cap InHand(t) ELSE {}
<1>1. id \in InHand(t)
  BY PutFacts DEF SoleInv
<1>2. id \in Stored
  BY <1>1 DEF Stored
<1>3. id \notin refused \cup dropped
  BY <1>2 DEF SoleInv, GoneForGood, Lost
<1>4. refused' = refused \cup own /\ dropped' = dropped \cup (InHand(t) \ own)
  BY DEF Raised
<1> HIDE DEF id, own
<1> QED
  BY <1>1, <1>3, <1>4

\* An insert(), promote() or demote() that returns has left its memory in the
\* tier it was meant for, which is L2 instead of the one asked for once insert()
\* has caught a ValueError of its first put (manager.py insert, _put_in_l2,
\* _put_in_l3: the tiers evict by last_touch, and the newcomer was just
\* stamped), with one caller and memories that fit into L2 and L3.
THEOREM NewcomersStay ==
    ASSUME SoleCaller, FitsBelow PROVE Spec => PlacedWhereMeant
<1> DEFINE Placed ==
      \A t \in Threads, id \in Ids, tier \in Tiers :
          /\ thread[t].op \in {"insert", "promote", "demote"}
          /\ thread[t].id = id /\ thread[t].target = tier
          /\ thread[t].pc = "put" /\ thread'[t].pc = "idle"
          /\ UNCHANGED <<refused, dropped>>
          => (id \in InTier(tier))'
<1>1. ASSUME PlacingInv, [Next]_vars PROVE [Placed]_vars
  <2> SUFFICES ASSUME Next, NEW t \in Threads, NEW id \in Ids, NEW tier \in Tiers,
                      thread[t].id = id, thread[t].target = tier,
                      thread[t].pc = "put", thread'[t].pc = "idle",
                      UNCHANGED <<refused, dropped>>
               PROVE  (id \in InTier(tier))'
    BY <1>1
  <2>1. SoleInv
    BY <1>1 DEF PlacingInv
  <2>2. Step(t)
    <3>1. PICK u \in Threads : Start(u) \/ Step(u)
      BY DEF Next
    <3>2. u = t
      BY DEF SoleCaller
    <3>3. ~Start(t)
      BY DEF Start, Insert, Move, Forget, QueryStart
    <3> QED
      BY <3>1, <3>2, <3>3
  <2>3. Onward(t)
    BY <1>1, <2>2, PlacePut
  <2>4. Arrives(id, tier)
    BY <2>1, <2>3, RaisedIsRecorded DEF Onward
  <2> QED
    BY <2>4 DEF Arrives, InTier
<1>2. PlacingInv /\ [Next]_vars => PlacingInv'
  BY PlacingNext
<1>3. Init => PlacingInv
  BY PlacingInit
<1> QED
  BY <1>1, <1>2, <1>3, PTL DEF Spec, PlacedWhereMeant, Placed
=============================================================================
