--------------------------- MODULE L1WorkingProofs ---------------------------
(***************************************************************************)
(* Proofs about L1Working, for every set of ids, every charge and every    *)
(* capacity: the running total _bytes_used is exact and the byte budget is *)
(* strict, in every state of the eviction loop.                            *)
(*                                                                         *)
(* Neither is inductive.  When the loop empties the buffer the new memory  *)
(* fits only because the running total is then 0, that is because the      *)
(* total is exact AND because the keys of the order are exactly the        *)
(* memories charged for; and it fits at all because insert() refused       *)
(* anything larger than the whole budget.  L1Inv says all of it.           *)
(***************************************************************************)
EXTENDS L1Working, ByteBudgetProofs

-----------------------------------------------------------------------------
\* Dropping the held version of a memory refunds its charge.
LEMMA DropCharge ==
    ASSUME TypeOK, NEW id \in Ids
    PROVE  LET new == [size EXCEPT ![id] = 0]
           IN  /\ new \in Charges
               /\ {x \in Ids : new[x] > 0} = Held \ {id}
               /\ Bytes(new, Held \ {id}) = Bytes(size, Held) - size[id]
<1> DEFINE new == [size EXCEPT ![id] = 0]
<1>1. size \in Charges /\ new \in Charges
  BY BudgetAssumption DEF TypeOK, Charges
<1>2. {x \in Ids : new[x] > 0} = Held \ {id}
  BY <1>1 DEF Held, Charges
<1>3. Bytes(new, Held \ {id}) = Bytes(size, Held \ {id})
  BY <1>1, BytesAgree DEF Charges, Held
<1>4. Bytes(size, Held \ {id}) = Bytes(size, Held) - size[id]
  <2>1. CASE id \in Held
    <3>1. Bytes(size, (Held \ {id}) \cup {id}) = Bytes(size, Held \ {id}) + size[id]
      BY <1>1, BytesAdd DEF Held
    <3>2. (Held \ {id}) \cup {id} = Held
      BY <2>1
    <3>3. Bytes(size, Held \ {id}) \in Nat /\ size[id] \in Nat
      BY <1>1, BytesType DEF Held, Charges
    <3>4. Bytes(size, Held) = Bytes(size, Held \ {id}) + size[id]
      BY <3>1, <3>2, Zenon
    <3> QED
      BY <3>3, <3>4
  <2>2. CASE id \notin Held
    <3>1. size[id] = 0 /\ Held \ {id} = Held
      BY <1>1, <2>2 DEF Held, Charges
    <3>2. Bytes(size, Held) \in Nat
      BY <1>1, BytesType DEF Held
    <3> QED
      BY <3>1, <3>2
  <2> QED
    BY <2>1, <2>2
<1> QED
  BY <1>1, <1>2, <1>3, <1>4

\* The quantities of the budget are numbers.
LEMMA BudgetTypes ==
    ASSUME TypeOK
    PROVE  /\ bytesUsed \in Nat /\ Bytes(size, Held) \in Nat
           /\ size \in Charges /\ \A id \in Ids : size[id] \in Nat
<1>1. size \in Charges
  BY DEF TypeOK, Charges
<1>2. \A id \in Ids : size[id] \in Nat
  BY <1>1, BudgetAssumption DEF Charges
<1>3. Held \in SUBSET Ids
  BY DEF Held
<1>4. Bytes(size, Held) \in Nat
  BY <1>1, <1>3, BytesType
<1> QED
  BY <1>1, <1>2, <1>4 DEF TypeOK

-----------------------------------------------------------------------------
\* An empty buffer.
LEMMA InitInv == Init => L1Inv
<1> SUFFICES ASSUME Init PROVE L1Inv
  OBVIOUS
<1>1. TypeOK
  BY BudgetAssumption DEF Init, TypeOK, Idle
<1>2. Held = {} /\ Bytes(size, Held) = 0
  <2>1. Held = {}
    BY DEF Init, Held
  <2> QED
    BY <2>1, BytesEmpty
<1>3. KeysAreHeld
  BY <1>2 DEF Init, KeysAreHeld, NoRepeats, Members
<1>4. IncomingFits
  BY DEF Init, IncomingFits, Locked, Idle
<1> QED
  BY <1>1, <1>2, <1>3, <1>4, L1Assumption DEF Init, L1Inv, BytesExact, WithinBudget

\* insert(), before the loop.
LEMMA InsertStartInv ==
    ASSUME L1Inv, NEW id \in Ids, NEW c \in Sizes, InsertStart(id, c)
    PROVE  L1Inv'
<1> USE DEF L1Inv
<1>1. /\ size' \in Charges /\ Held' = Held \ {id}
      /\ Bytes(size', Held') = Bytes(size, Held) - size[id]
  BY DropCharge DEF InsertStart, Held
<1>2. /\ order' \in Seq(Ids) /\ NoRepeats(order')
      /\ Members(order') = Members(order) \ {id}
  BY WithoutProperties DEF InsertStart, TypeOK, KeysAreHeld
<1>3. size[id] \in Nat /\ bytesUsed \in Int /\ Bytes(size, Held) \in Nat
  BY BudgetTypes
<1>4. BytesExact' /\ WithinBudget'
  BY <1>1, <1>3, L1Assumption
  DEF BytesExact, WithinBudget, InsertStart, Refunded
<1>5. TypeOK'
  <2>1. bytesUsed' \in Nat
    BY <1>1, <1>4, BytesType DEF BytesExact, Held
  <2> QED
    BY <1>1, <1>2, <2>1 DEF TypeOK, InsertStart, Charges
<1>6. KeysAreHeld'
  BY <1>1, <1>2 DEF KeysAreHeld
<1>7. IncomingFits'
  BY <1>2 DEF IncomingFits, InsertStart, Accepts
<1> QED
  BY <1>4, <1>5, <1>6, <1>7

\* One iteration of the eviction loop.
LEMMA EvictOldestInv ==
    ASSUME L1Inv, EvictOldest
    PROVE  L1Inv'
<1> USE DEF L1Inv
<1>1. Oldest \in Ids
  BY HeadTailProperties DEF EvictOldest, TypeOK, Oldest
<1>2. /\ size' \in Charges /\ Held' = Held \ {Oldest}
      /\ Bytes(size', Held') = Bytes(size, Held) - size[Oldest]
  BY <1>1, DropCharge DEF EvictOldest, Held
<1>3. /\ order' \in Seq(Ids) /\ NoRepeats(order')
      /\ Members(order') = Members(order) \ {Oldest}
  BY <1>1, WithoutProperties DEF EvictOldest, TypeOK, KeysAreHeld
<1>4. size[Oldest] \in Nat /\ bytesUsed \in Int /\ Bytes(size, Held) \in Nat
  BY <1>1, BudgetTypes
<1>5. BytesExact' /\ WithinBudget'
  BY <1>2, <1>4, L1Assumption
  DEF BytesExact, WithinBudget, EvictOldest, Refunded
<1>6. TypeOK'
  <2>1. bytesUsed' \in Nat
    BY <1>2, <1>5, BytesType DEF BytesExact, Held
  <2> QED
    BY <1>1, <1>2, <1>3, <2>1, AppendProperties DEF TypeOK, EvictOldest, Charges
<1>7. KeysAreHeld' /\ IncomingFits'
  BY <1>2, <1>3 DEF KeysAreHeld, IncomingFits, EvictOldest, Locked
<1> QED
  BY <1>5, <1>6, <1>7

\* The end of the loop.
LEMMA InsertFinishInv ==
    ASSUME L1Inv, InsertFinish
    PROVE  L1Inv'
<1> USE DEF L1Inv
<1> DEFINE id == incoming.id
<1>1. id \in Ids /\ incoming.size \in Sizes /\ incoming.size \in Nat
  BY L1Assumption, BudgetAssumption
  DEF InsertFinish, Locked, TypeOK, Idle, Sizes
<1>2. id \notin Held /\ incoming.size <= Capacity
  BY DEF InsertFinish, IncomingFits, KeysAreHeld
<1>3. size' \in Charges /\ size \in Charges
  BY <1>1 DEF InsertFinish, TypeOK, Charges, Sizes
<1>4. Held' = Held \cup {id}
  BY <1>1, <1>3, BudgetAssumption
  DEF InsertFinish, Held, Charges, Sizes, TypeOK
<1>5. Bytes(size', Held') = Bytes(size, Held) + incoming.size
  <2>1. Bytes(size', Held \cup {id}) = Bytes(size', Held) + size'[id]
    BY <1>1, <1>2, <1>3, BytesAdd DEF Held
  <2>2. Bytes(size', Held) = Bytes(size, Held)
    BY <1>2, <1>3, BytesAgree DEF InsertFinish, Held, Charges
  <2>3. size'[id] = incoming.size
    BY <1>1, <1>3 DEF InsertFinish, TypeOK
  <2> QED
    BY <1>4, <2>1, <2>2, <2>3
<1>6. bytesUsed + incoming.size <= Capacity
  <2>1. CASE ~OverBudget
    BY <1>1, <2>1, L1Assumption DEF OverBudget, TypeOK
  <2>2. CASE order = <<>>
    <3>1. Held = {}
      BY <2>2 DEF KeysAreHeld, Members
    <3>2. bytesUsed = 0
      BY <3>1, BytesEmpty DEF BytesExact
    <3> QED
      BY <1>1, <1>2, <3>2
  <2> QED
    BY <2>1, <2>2 DEF InsertFinish
<1>7. bytesUsed' = bytesUsed + incoming.size
  BY DEF InsertFinish
<1>8. BytesExact' /\ WithinBudget'
  BY <1>5, <1>6, <1>7 DEF BytesExact, WithinBudget
<1>9. KeysAreHeld'
  BY <1>1, <1>2, <1>4, AppendNewKey DEF KeysAreHeld, InsertFinish, TypeOK
<1>10. TypeOK'
  <2>1. order' \in Seq(Ids)
    BY <1>1, AppendProperties DEF InsertFinish, TypeOK
  <2>2. returned' \subseteq Ids
    BY DEF InsertFinish, TypeOK, Members
  <2>3. size' \in [Ids -> 0..MaxSize] /\ bytesUsed' \in Nat
    BY <1>1, <1>3, <1>7 DEF Charges, TypeOK
  <2> QED
    BY <2>1, <2>2, <2>3 DEF InsertFinish, TypeOK
<1>11. IncomingFits'
  BY DEF InsertFinish, IncomingFits, Locked, Idle
<1> QED
  BY <1>8, <1>9, <1>10, <1>11

\* remove() of a key.
LEMMA RemoveKeyInv ==
    ASSUME L1Inv, NEW id \in Ids, RemoveKey(id)
    PROVE  L1Inv'
<1> USE DEF L1Inv
<1>1. /\ size' \in Charges /\ Held' = Held \ {id}
      /\ Bytes(size', Held') = Bytes(size, Held) - size[id]
  BY DropCharge DEF RemoveKey, Held
<1>2. /\ order' \in Seq(Ids) /\ NoRepeats(order')
      /\ Members(order') = Members(order) \ {id}
  BY WithoutProperties DEF RemoveKey, TypeOK, KeysAreHeld
<1>3. size[id] \in Nat /\ bytesUsed \in Int /\ Bytes(size, Held) \in Nat
  BY BudgetTypes
<1>4. BytesExact' /\ WithinBudget'
  BY <1>1, <1>3, L1Assumption
  DEF BytesExact, WithinBudget, RemoveKey, Refunded
<1>5. TypeOK'
  <2>1. bytesUsed' \in Nat
    BY <1>1, <1>4, BytesType DEF BytesExact, Held
  <2> QED
    BY <1>1, <1>2, <2>1 DEF TypeOK, RemoveKey, Charges
<1>6. KeysAreHeld' /\ IncomingFits'
  BY <1>1, <1>2 DEF KeysAreHeld, IncomingFits, RemoveKey, Locked
<1> QED
  BY <1>4, <1>5, <1>6

\* touch() of a key.
LEMMA TouchInv ==
    ASSUME L1Inv, NEW id \in Ids, Touch(id)
    PROVE  L1Inv'
<1> USE DEF L1Inv
<1> DEFINE rest == Without(order, id)
<1>1. rest \in Seq(Ids) /\ NoRepeats(rest) /\ Members(rest) = Members(order) \ {id}
  BY WithoutProperties DEF TypeOK, KeysAreHeld
<1>2. /\ order' \in Seq(Ids) /\ NoRepeats(order')
      /\ Members(order') = (Members(order) \ {id}) \cup {id}
  <2> HIDE DEF rest
  <2>1. order' = Append(rest, id)
    BY DEF Touch, MovedToBack, rest
  <2> QED
    BY <1>1, <2>1, AppendNewKey
<1>3. KeysAreHeld'
  BY <1>2 DEF KeysAreHeld, Touch, Held
<1>4. IncomingFits'
  BY DEF IncomingFits, Touch, Locked
<1>5. TypeOK' /\ BytesExact' /\ WithinBudget'
  BY <1>2 DEF TypeOK, BytesExact, WithinBudget, Touch, Held
<1> QED
  BY <1>3, <1>4, <1>5

\* clear().
LEMMA ClearInv ==
    ASSUME L1Inv, Clear
    PROVE  L1Inv'
<1> USE DEF L1Inv
<1>1. Held' = {} /\ Bytes(size', Held') = 0
  <2>1. Held' = {}
    BY DEF Clear, Held
  <2>2. Bytes(size', {}) = 0
    BY BytesEmpty
  <2> QED
    BY <2>1, <2>2
<1>2. TypeOK'
  BY BudgetAssumption DEF TypeOK, Clear, Held
<1>3. KeysAreHeld' /\ IncomingFits'
  BY <1>1 DEF KeysAreHeld, IncomingFits, NoRepeats, Members, Clear, Locked
<1>4. BytesExact' /\ WithinBudget'
  BY <1>1, L1Assumption DEF BytesExact, WithinBudget, Clear
<1> QED
  BY <1>2, <1>3, <1>4

-----------------------------------------------------------------------------
\* L1Inv holds in every state of l1_working.py's buffer.
THEOREM L1Invariant == Spec => []L1Inv
<1>1. L1Inv /\ [Next]_vars => L1Inv'
  <2> SUFFICES ASSUME L1Inv, [Next]_vars PROVE L1Inv'
    OBVIOUS
  <2>1. ASSUME NEW id \in Ids, NEW c \in Sizes, InsertStart(id, c) PROVE L1Inv'
    BY <2>1, InsertStartInv
  <2>2. CASE EvictOldest
    BY <2>2, EvictOldestInv
  <2>3. CASE InsertFinish
    BY <2>3, InsertFinishInv
  <2>4. ASSUME NEW id \in Ids, RemoveKey(id) PROVE L1Inv'
    BY <2>4, RemoveKeyInv
  <2>5. ASSUME NEW id \in Ids, Touch(id) PROVE L1Inv'
    BY <2>5, TouchInv
  <2>6. CASE Clear
    BY <2>6, ClearInv
  <2>7. CASE UNCHANGED vars
    BY <2>7 DEF vars, L1Inv, TypeOK, BytesExact, WithinBudget, KeysAreHeld,
                IncomingFits, Held, Locked
  <2> QED
    BY <2>1, <2>2, <2>3, <2>4, <2>5, <2>6, <2>7 DEF Next
<1> QED
  BY InitInv, <1>1, PTL DEF Spec

\* Type correctness of the working set.
THEOREM L1TypeCorrect == Spec => []TypeOK
BY L1Invariant, PTL DEF L1Inv

\* _bytes_used never drifts from what the buffer holds, whatever sequence of
\* inserts, updates, evictions, removals, touches and clears was executed.
THEOREM L1BytesExact == Spec => []BytesExact
BY L1Invariant, PTL DEF L1Inv

\* The byte budget of L1 is strict, for every capacity.
THEOREM L1WithinBudget == Spec => []WithinBudget
BY L1Invariant, PTL DEF L1Inv
-----------------------------------------------------------------------------
(* Every victim is handed back *)

\* NeverSilentlyDrops with what it needs between two inserts: the list of
\* victims starts empty.
DropInv == NeverSilentlyDrops /\ (~Locked => evicted = <<>>)

\* The members of a list, one memory appended.
LEMMA MembersAppend ==
    ASSUME NEW s \in Seq(Ids), NEW id \in Ids
    PROVE  Members(Append(s, id)) = Members(s) \cup {id}
<1> DEFINE t == Append(s, id)
<1>1. /\ Len(s) \in Nat /\ Len(t) = Len(s) + 1 /\ t[Len(s) + 1] = id
      /\ \A i \in 1..Len(s) : t[i] = s[i]
  BY AppendProperties
<1> HIDE DEF t
<1>2. \A i \in 1..Len(t) : t[i] = id \/ \E j \in 1..Len(s) : t[i] = s[j]
  BY <1>1
<1>3. Len(s) + 1 \in 1..Len(t) /\ \A i \in 1..Len(s) : i \in 1..Len(t)
  BY <1>1
<1>4. Members(t) \subseteq Members(s) \cup {id}
  BY <1>2 DEF Members
<1>5. Members(s) \subseteq Members(t) /\ id \in Members(t)
  BY <1>1, <1>3 DEF Members
<1> QED
  BY <1>4, <1>5 DEF t

\* One step of the buffer.
LEMMA DropStep ==
    ASSUME L1Inv, DropInv, [Next]_vars
    PROVE  DropInv'
<1> USE DEF DropInv, NeverSilentlyDrops
<1>1. Members(<<>>) = {}
  BY DEF Members
<1>2. TypeOK /\ Members(order) = Held
  BY DEF L1Inv, KeysAreHeld
<1>3. ASSUME NEW id \in Ids, NEW c \in Sizes, InsertStart(id, c) PROVE DropInv'
  <2>1. Held' = Held \ {id}
    BY <1>2, <1>3, DropCharge DEF InsertStart, Held
  <2>2. id # NoId /\ evicted = <<>> /\ ~Locked
    BY <1>3, L1Assumption DEF InsertStart
  <2> QED
    BY <1>1, <1>3, <2>1, <2>2 DEF InsertStart, Locked
<1>4. ASSUME EvictOldest PROVE DropInv'
  <2>1. Oldest \in Ids /\ Oldest \in Held
    <3>1. order \in Seq(Ids) /\ order # <<>>
      BY <1>2, <1>4 DEF EvictOldest, TypeOK
    <3>2. Len(order) \in Nat /\ Len(order) # 0 /\ Head(order) = order[1]
      BY <3>1, EmptySeq
    <3>3. 1 \in 1..Len(order)
      BY <3>2
    <3> QED
      BY <1>2, <3>1, <3>2, <3>3 DEF Oldest, Members, Held
  <2>2. Held' = Held \ {Oldest}
    BY <1>2, <1>4, <2>1, DropCharge DEF EvictOldest, Held
  <2>3. Members(evicted') = Members(evicted) \cup {Oldest}
    BY <1>2, <1>4, <2>1, MembersAppend DEF EvictOldest, TypeOK
  <2> QED
    BY <1>4, <2>1, <2>2, <2>3 DEF EvictOldest, Locked
<1>5. ASSUME InsertFinish PROVE DropInv'
  <2>1. incoming.id \in Ids /\ incoming.size \in Sizes
    BY <1>2, <1>5, L1Assumption DEF InsertFinish, Locked, TypeOK, Idle
  <2>2. Held' = Held \cup {incoming.id}
    BY <1>2, <1>5, <2>1, BudgetAssumption DEF InsertFinish, Held, TypeOK, Sizes
  <2> QED
    BY <1>1, <1>5, <2>2 DEF InsertFinish, Locked, Idle
<1>6. ASSUME NEW id \in Ids, RemoveKey(id) PROVE DropInv'
  <2>1. Held' = Held \ {id}
    BY <1>2, <1>6, DropCharge DEF RemoveKey, Held
  <2> QED
    BY <1>6, <2>1 DEF RemoveKey, Locked
<1>7. ASSUME NEW id \in Ids, Touch(id) PROVE DropInv'
  BY <1>7 DEF Touch, Locked, Held
<1>8. ASSUME Clear PROVE DropInv'
  <2>1. Held' = {}
    BY <1>8 DEF Clear, Held
  <2> QED
    BY <1>8, <2>1 DEF Clear, Locked
<1>9. CASE UNCHANGED vars
  BY <1>9 DEF vars, Locked, Held
<1> QED
  BY <1>3, <1>4, <1>5, <1>6, <1>7, <1>8, <1>9 DEF Next

\* "L1 never silently drops": a memory insert() accepted is in the buffer, is
\* being inserted, or was handed to the caller, after any sequence of
\* operations and in every state of the eviction loop.
THEOREM L1NeverDrops == Spec => []NeverSilentlyDrops
<1>1. Init => DropInv
  BY DEF Init, DropInv, NeverSilentlyDrops, Held, Locked, Idle, Members
<1>2. L1Inv /\ DropInv /\ [Next]_vars => DropInv'
  BY DropStep
<1>3. DropInv => NeverSilentlyDrops
  BY DEF DropInv
<1> QED
  BY L1Invariant, <1>1, <1>2, <1>3, PTL DEF Spec
-----------------------------------------------------------------------------
(* FIFO honesty *)

\* Deleting a key leaves the others in their order.
LEMMA WithoutKeepsOrder ==
    ASSUME NEW s \in Seq(Ids), NEW id \in Ids, NoRepeats(s),
           NEW i \in 1..Len(s), NEW j \in 1..Len(s), i < j,
           NEW m \in 1..Len(Without(s, id)), NEW n \in 1..Len(Without(s, id)),
           s[i] = Without(s, id)[m], s[j] = Without(s, id)[n]
    PROVE  m < n
<1>1. CASE ~\E k \in 1..Len(s) : s[k] = id
  <2>1. Without(s, id) = s
    BY <1>1 DEF Without
  <2>2. m = i /\ n = j
    BY <2>1 DEF NoRepeats
  <2> QED
    BY <2>2
<1>2. CASE \E k \in 1..Len(s) : s[k] = id
  <2> DEFINE t == Without(s, id)
             from(k, p) == IF p < k THEN p ELSE p + 1
  <2>1. PICK k \in 1..Len(s) :
            /\ Len(t) = Len(s) - 1
            /\ \A p \in 1..Len(t) : t[p] = s[from(k, p)]
    BY <1>2, WithoutKey
  <2> HIDE DEF t
  <2>2. m \in 1..Len(t) /\ n \in 1..Len(t) /\ s[i] = t[m] /\ s[j] = t[n]
    BY DEF t
  <2>3. Len(s) \in Nat /\ k \in 1..Len(s)
    OBVIOUS
  <2>4. from(k, m) \in 1..Len(s) /\ from(k, n) \in 1..Len(s)
    BY <2>1, <2>2, <2>3
  <2>5. s[i] = s[from(k, m)] /\ s[j] = s[from(k, n)]
    BY <2>1, <2>2
  <2> HIDE DEF from
  <2>6. i = from(k, m) /\ j = from(k, n)
    BY <2>4, <2>5 DEF NoRepeats
  <2> QED
    BY <2>2, <2>3, <2>6 DEF from
<1> QED
  BY <1>1, <1>2

\* So does a key at the back, but for itself.
LEMMA AppendKeepsOrder ==
    ASSUME NEW t \in Seq(Ids), NEW id \in Ids,
           NEW m \in 1..Len(Append(t, id)), NEW n \in 1..Len(Append(t, id)), n < m,
           m # Len(Append(t, id))
    PROVE  /\ m \in 1..Len(t) /\ n \in 1..Len(t)
           /\ Append(t, id)[m] = t[m] /\ Append(t, id)[n] = t[n]
<1>1. Len(t) \in Nat /\ Len(Append(t, id)) = Len(t) + 1
  BY AppendProperties
<1>2. m \in 1..Len(t) /\ n \in 1..Len(t)
  BY <1>1
<1> QED
  BY <1>2, AppendProperties

\* Two memories change places only when the older becomes the newest: FIFO
\* order is disturbed by no eviction and no removal, for any sequence of
\* operations.
THEOREM L1OrderIsHonest == Spec => OrderHonest
<1> DEFINE Honest ==
        \A i, j \in 1..Len(order), m, n \in 1..Len(order') :
            i < j /\ n < m /\ order[i] = order'[m] /\ order[j] = order'[n]
                => m = Len(order')
<1>1. ASSUME L1Inv, [Next]_vars PROVE Honest
  <2> SUFFICES ASSUME NEW i \in 1..Len(order), NEW j \in 1..Len(order),
                      NEW m \in 1..Len(order'), NEW n \in 1..Len(order'),
                      i < j, n < m,
                      order[i] = order'[m], order[j] = order'[n],
                      m # Len(order')
               PROVE  FALSE
    OBVIOUS
  <2>0. order \in Seq(Ids) /\ NoRepeats(order)
    BY <1>1 DEF L1Inv, TypeOK, KeysAreHeld
  <2>1. i \in Int /\ j \in Int /\ m \in Int /\ n \in Int
    OBVIOUS
  <2>2. ASSUME NEW id \in Ids, order' = Without(order, id) PROVE FALSE
    <3>1. m < n
      BY <2>0, <2>2, WithoutKeepsOrder
    <3> QED
      BY <2>1, <3>1
  <2>3. ASSUME NEW id \in Ids, RemoveKey(id) PROVE FALSE
    BY <2>2, <2>3 DEF RemoveKey
  <2>4. ASSUME NEW id \in Ids, NEW c \in Sizes, InsertStart(id, c) PROVE FALSE
    BY <2>2, <2>4 DEF InsertStart
  <2>5. CASE EvictOldest
    <3>1. Oldest \in Ids
      BY <2>0, <2>5, HeadTailProperties DEF EvictOldest, Oldest
    <3> QED
      BY <2>2, <2>5, <3>1 DEF EvictOldest
  <2>6. CASE InsertFinish
    <3>1. incoming.id \in Ids /\ order' = Append(order, incoming.id)
      BY <1>1, <2>6, L1Assumption DEF InsertFinish, Locked, L1Inv, TypeOK, Idle
    <3>2. m \in 1..Len(order) /\ n \in 1..Len(order)
          /\ order'[m] = order[m] /\ order'[n] = order[n]
      BY <2>0, <3>1, AppendKeepsOrder
    <3>3. i = m /\ j = n
      BY <2>0, <3>2 DEF NoRepeats
    <3> QED
      BY <2>1, <3>3
  <2>7. ASSUME NEW id \in Ids, Touch(id) PROVE FALSE
    <3> DEFINE rest == Without(order, id)
    <3>1. rest \in Seq(Ids)
      BY <2>0, WithoutProperties
    <3>2. order' = Append(rest, id)
      BY <2>7 DEF Touch, MovedToBack
    <3>3. m \in 1..Len(rest) /\ n \in 1..Len(rest)
          /\ order'[m] = rest[m] /\ order'[n] = rest[n]
      <4> HIDE DEF rest
      <4> QED
        BY <3>1, <3>2, AppendKeepsOrder
    <3>4. m < n
      BY <2>0, <3>3, WithoutKeepsOrder
    <3> QED
      BY <2>1, <3>4
  <2>8. CASE Clear
    BY <2>8 DEF Clear
  <2>9. CASE UNCHANGED vars
    <3>1. i = m /\ j = n
      BY <2>0, <2>9 DEF vars, NoRepeats
    <3> QED
      BY <2>1, <3>1
  <2> QED
    BY <1>1, <2>3, <2>4, <2>5, <2>6, <2>7, <2>8, <2>9 DEF Next
<1>2. L1Inv /\ [Next]_vars => [Honest]_vars
  BY <1>1
<1> QED
  BY L1Invariant, <1>2, PTL DEF Spec, OrderHonest
-----------------------------------------------------------------------------
(* The eviction loop is one step *)

\* The operators of L1Atomic are those of L1Working.
LEMMA SameOperators ==
    ASSUME NEW s, NEW n, NEW x, NEW z, NEW c, NEW d
    PROVE  /\ Atomic!Without(s, x) = Without(s, x)
           /\ Atomic!Members(s) = Members(s)
           /\ Atomic!Suffix(s, n) = Suffix(s, n)
           /\ Atomic!PopCount(z, s, c, d) = PopCount(z, s, c, d)
<1>1. \A S : Atomic!Bytes(z, S) = Bytes(z, S)
  <2>1. \A T : Atomic!Cardinality(T) = Cardinality(T)
    BY DEF Atomic!Cardinality, Cardinality
  <2> QED
    BY <2>1 DEF Atomic!Bytes, Bytes, Atomic!Cells, Cells, Atomic!Sizes, Sizes
<1>2. /\ \A t : Atomic!Members(t) = Members(t)
      /\ \A t, m : Atomic!Suffix(t, m) = Suffix(t, m)
  BY DEF Atomic!Suffix, Suffix, Atomic!Members, Members
<1>3. \A m : Atomic!Fits(z, s, m, c, d) = Fits(z, s, m, c, d)
  BY <1>1, <1>2 DEF Atomic!Fits, Fits
<1>4. Atomic!PopCount(z, s, c, d) = PopCount(z, s, c, d)
  BY <1>3 DEF Atomic!PopCount, PopCount
<1>5. Atomic!Without(s, x) = Without(s, x)
  BY DEF Atomic!Without, Without, Atomic!RemoveAt, RemoveAt
<1> QED
  BY <1>2, <1>4, <1>5

\* Deleting the oldest leaves what is behind it.
LEMMA WithoutOldest ==
    ASSUME NEW s \in Seq(Ids), NoRepeats(s), s # <<>>
    PROVE  Without(s, Head(s)) = Suffix(s, 1)
<1>1. Len(s) \in Nat /\ Len(s) # 0 /\ Head(s) = s[1]
  BY EmptySeq
<1>2. 1 \in 1..Len(s)
  BY <1>1
<1> DEFINE t == Without(s, Head(s))
           u == Suffix(s, 1)
<1>3. PICK k \in 1..Len(s) :
          /\ s[k] = s[1] /\ t \in Seq(Ids) /\ Len(t) = Len(s) - 1
          /\ \A i \in 1..Len(t) : t[i] = s[IF i < k THEN i ELSE i + 1]
  BY <1>1, <1>2, WithoutKey
<1>4. k = 1
  BY <1>2, <1>3 DEF NoRepeats
<1>5. /\ u \in Seq(Ids) /\ Len(u) = Len(s) - 1
      /\ \A i \in 1..(Len(s) - 1) : u[i] = s[1 + i]
  BY <1>1, <1>2, SuffixIs
<1> HIDE DEF t, u
<1>6. \A i \in 1..Len(t) : t[i] = s[1 + i]
  BY <1>1, <1>3, <1>4
<1>7. \A i \in 1..Len(t) : t[i] = u[i]
  BY <1>3, <1>5, <1>6
<1>8. t = u
  BY <1>3, <1>5, <1>7, SeqEqual
<1> QED
  BY <1>8 DEF t, u

\* Dropping n and then one more.
LEMMA SuffixOfSuffix ==
    ASSUME NEW s \in Seq(Ids), NEW n \in 0..Len(s), Suffix(s, n) # <<>>
    PROVE  n + 1 \in 0..Len(s) /\ Suffix(Suffix(s, n), 1) = Suffix(s, n + 1)
<1> DEFINE u == Suffix(s, n)
           v == Suffix(u, 1)
           w == Suffix(s, n + 1)
<1>1. Len(s) \in Nat /\ n \in Nat
  OBVIOUS
<1>2. /\ u \in Seq(Ids) /\ Len(u) = Len(s) - n
      /\ \A i \in 1..(Len(s) - n) : u[i] = s[n + i]
  BY SuffixIs
<1> HIDE DEF u
<1>3. Len(u) # 0
  BY <1>2, EmptySeq DEF u
<1>4. n + 1 \in 0..Len(s)
  BY <1>1, <1>2, <1>3
<1>5. /\ v \in Seq(Ids) /\ Len(v) = Len(u) - 1
      /\ \A i \in 1..(Len(u) - 1) : v[i] = u[1 + i]
  <2>1. Len(u) \in Nat /\ 1 \in 0..Len(u)
    BY <1>1, <1>2, <1>3
  <2> QED
    BY <1>2, <2>1, SuffixIs
<1>6. /\ w \in Seq(Ids) /\ Len(w) = Len(s) - (n + 1)
      /\ \A i \in 1..(Len(s) - (n + 1)) : w[i] = s[(n + 1) + i]
  BY <1>4, SuffixIs
<1> HIDE DEF v, w
<1>7. \A i \in 1..Len(v) : v[i] = w[i]
  <2> SUFFICES ASSUME NEW i \in 1..Len(v) PROVE v[i] = w[i]
    OBVIOUS
  <2>1. i \in 1..(Len(s) - (n + 1)) /\ i \in 1..(Len(u) - 1)
    BY <1>1, <1>2, <1>5
  <2>2. 1 + i \in 1..(Len(s) - n) /\ n + (1 + i) = (n + 1) + i
    BY <1>1, <2>1
  <2>3. v[i] = s[n + (1 + i)]
    BY <1>2, <1>5, <2>1, <2>2
  <2>4. w[i] = s[(n + 1) + i]
    BY <1>6, <2>1
  <2> QED
    BY <2>2, <2>3, <2>4
<1>8. v = w
  <2>1. Len(v) = Len(w)
    BY <1>1, <1>2, <1>5, <1>6
  <2> QED
    BY <1>5, <1>6, <1>7, <2>1, SeqEqual
<1> QED
  BY <1>4, <1>8 DEF u, v, w

\* The number of victims is the first one that makes room.
LEMMA PopCountIs ==
    ASSUME NEW z, NEW s \in Seq(Ids), NEW c, NEW d, NEW n \in 0..Len(s),
           n = Len(s) \/ Fits(z, s, n, c, d),
           \A m \in 0..(n - 1) : ~Fits(z, s, m, c, d)
    PROVE  PopCount(z, s, c, d) = n
<1> DEFINE Stop(k) == /\ k = Len(s) \/ Fits(z, s, k, c, d)
                      /\ \A m \in 0..(k - 1) : ~Fits(z, s, m, c, d)
           k == CHOOSE i \in 0..Len(s) : Stop(i)
<1>1. Len(s) \in Nat /\ n \in Nat
  OBVIOUS
<1>2. k \in 0..Len(s) /\ Stop(k)
  <2>1. \E i \in 0..Len(s) : Stop(i)
    OBVIOUS
  <2> QED
    BY <2>1
<1>3. PopCount(z, s, c, d) = k
  BY DEF PopCount
<1> HIDE DEF k
<1>4. k = Len(s) \/ Fits(z, s, k, c, d)
  BY <1>2
<1>5. ~(k < n)
  <2> SUFFICES ASSUME k < n PROVE FALSE
    OBVIOUS
  <2>1. k \in 0..(n - 1) /\ k # Len(s)
    BY <1>1, <1>2
  <2> QED
    BY <1>4, <2>1
<1>6. ~(n < k)
  <2> SUFFICES ASSUME n < k PROVE FALSE
    OBVIOUS
  <2>1. n \in 0..(k - 1) /\ n # Len(s)
    BY <1>1, <1>2
  <2> QED
    BY <1>2, <2>1
<1> QED
  BY <1>1, <1>2, <1>3, <1>5, <1>6

\* While the lock is held: the loop has popped the oldest of what it found,
\* never one too many, and nothing else has changed.
Rest == Without(before.order, incoming.id)

Popping ==
    IF Locked
    THEN /\ before \in [order : Seq(Ids), size : [Ids -> 0..MaxSize]]
         /\ NoRepeats(before.order)
         /\ Len(evicted) \in 0..Len(Rest)
         /\ order = Suffix(Rest, Len(evicted))
         /\ \A m \in 0..(Len(evicted) - 1) :
               ~Fits(before.size, Rest, m, incoming.size, Capacity)
         /\ size = [x \in Ids |-> IF x \in Members(order) THEN before.size[x] ELSE 0]
    ELSE evicted = <<>>

LEMMA PoppingStep ==
    ASSUME L1Inv, Popping, [Next]_vars
    PROVE  Popping'
<1>0. /\ order \in Seq(Ids) /\ NoRepeats(order) /\ Members(order) = Held
      /\ size \in [Ids -> 0..MaxSize] /\ evicted \in Seq(Ids) /\ TypeOK
  BY DEF L1Inv, TypeOK, KeysAreHeld
<1>1. ASSUME NEW id \in Ids, NEW c \in Sizes, InsertStart(id, c) PROVE Popping'
  <2>1. /\ ~Locked /\ order' = Without(order, id) /\ size' = [size EXCEPT ![id] = 0]
        /\ incoming' = [id |-> id, size |-> c]
        /\ before' = [order |-> order, size |-> size] /\ evicted' = <<>>
    BY <1>1 DEF InsertStart, Popping
  <2>2. /\ Locked' /\ incoming'.id = id /\ before'.order = order
        /\ before'.size = size /\ Len(evicted') = 0
    BY <2>1, L1Assumption, EmptySeq DEF Locked
  <2> DEFINE rest == Without(order, id)
  <2>3. /\ rest \in Seq(Ids) /\ Len(rest) \in Nat
        /\ Members(rest) = Members(order) \ {id}
    BY <1>0, WithoutProperties
  <2>4. Rest' = rest
    BY <2>2 DEF Rest
  <2> HIDE DEF rest
  <2>5. Suffix(rest, 0) = rest
    <3> DEFINE u == Suffix(rest, 0)
    <3>1. 0 \in 0..Len(rest)
      BY <2>3
    <3>2. /\ u \in Seq(Ids) /\ Len(u) = Len(rest) - 0
          /\ \A i \in 1..(Len(rest) - 0) : u[i] = rest[0 + i]
      BY <2>3, <3>1, SuffixIs
    <3> HIDE DEF u
    <3>3. Len(u) = Len(rest) /\ \A i \in 1..Len(rest) : u[i] = rest[i]
      BY <2>3, <3>2
    <3>4. u = rest
      BY <2>3, <3>2, <3>3, SeqEqual
    <3> QED
      BY <3>4 DEF u
  <2>6. \A x \in Ids : size'[x] = IF x \in Members(rest) THEN size[x] ELSE 0
    <3> SUFFICES ASSUME NEW x \in Ids
                 PROVE  size'[x] = IF x \in Members(rest) THEN size[x] ELSE 0
      OBVIOUS
    <3>1. size'[x] = IF x = id THEN 0 ELSE size[x]
      BY <1>0, <2>1
    <3>2. x \notin Held => size[x] = 0
      BY <1>0, BudgetAssumption DEF Held
    <3> QED
      BY <1>0, <2>3, <3>1, <3>2
  <2>7. size' = [x \in Ids |-> IF x \in Members(order') THEN before'.size[x] ELSE 0]
    <3>1. order' = rest
      BY <2>1 DEF rest
    <3>2. size' = [x \in Ids |-> size'[x]]
      BY <1>0, <2>1
    <3> QED
      BY <2>2, <2>6, <3>1, <3>2
  <2>8. before' \in [order : Seq(Ids), size : [Ids -> 0..MaxSize]]
    BY <1>0, <2>1
  <2>9. Len(evicted') \in 0..Len(Rest') /\ order' = Suffix(Rest', Len(evicted'))
    <3>1. order' = rest
      BY <2>1 DEF rest
    <3>2. Len(evicted') \in 0..Len(Rest')
      BY <2>2, <2>3, <2>4
    <3> QED
      BY <2>2, <2>4, <2>5, <3>1, <3>2
  <2>10. \A m \in 0..(Len(evicted') - 1) : FALSE
    BY <2>2
  <2> QED
    BY <1>0, <2>2, <2>7, <2>8, <2>9, <2>10 DEF Popping
<1>2. CASE EvictOldest
  <2>1. /\ Locked /\ OverBudget /\ order # <<>>
        /\ order' = Without(order, Oldest)
        /\ size' = [size EXCEPT ![Oldest] = 0]
        /\ evicted' = Append(evicted, Oldest)
        /\ incoming' = incoming /\ before' = before /\ Locked' = Locked
        /\ Rest' = Rest
    BY <1>2 DEF EvictOldest, Locked, Rest
  <2>2. Oldest \in Ids /\ order' = Suffix(order, 1)
    BY <1>0, <2>1, WithoutOldest, HeadTailProperties DEF Oldest
  <2> DEFINE n == Len(evicted)
  <2>3. /\ before \in [order : Seq(Ids), size : [Ids -> 0..MaxSize]]
        /\ NoRepeats(before.order)
        /\ n \in 0..Len(Rest) /\ order = Suffix(Rest, n)
        /\ \A m \in 0..(n - 1) : ~Fits(before.size, Rest, m, incoming.size, Capacity)
        /\ size = [x \in Ids |-> IF x \in Members(order) THEN before.size[x] ELSE 0]
    BY <2>1 DEF Popping
  <2>4. n \in Nat /\ Len(evicted') = n + 1
    BY <1>0, <2>1, <2>2
  <2>5. incoming.id \in Ids
    BY <1>0, <2>1, L1Assumption DEF TypeOK, Locked, Idle
  <2>6. Rest \in Seq(Ids)
    BY <2>3, <2>5, WithoutProperties DEF Rest
  <2> HIDE DEF n
  <2>7. n + 1 \in 0..Len(Rest) /\ order' = Suffix(Rest, n + 1)
    BY <2>1, <2>2, <2>3, <2>6, SuffixOfSuffix
  <2>8. ~Fits(before.size, Rest, n, incoming.size, Capacity)
    <3>1. Bytes(before.size, Members(order)) = Bytes(size, Members(order))
      <4>1. \A x \in Members(order) : size[x] = before.size[x]
        <5>1. Members(order) \in SUBSET Ids
          BY <1>0 DEF Held
        <5> QED
          BY <2>3, <5>1
      <4> QED
        BY <4>1, BytesAgree
    <3>2. bytesUsed = Bytes(size, Members(order))
      BY <1>0 DEF L1Inv, BytesExact
    <3>3. bytesUsed + incoming.size > Capacity
      BY <2>1 DEF OverBudget
    <3>4. ~(bytesUsed + incoming.size <= Capacity)
      <4>1. bytesUsed \in Int /\ incoming.size \in Int /\ Capacity \in Int
        BY <1>0, <2>1, L1Assumption, BudgetAssumption
           DEF TypeOK, Locked, Idle, Sizes
      <4> QED
        BY <3>3, <4>1
    <3> QED
      BY <2>3, <3>1, <3>2, <3>4 DEF Fits
  <2>9. \A m \in 0..((n + 1) - 1) :
            ~Fits(before.size, Rest, m, incoming.size, Capacity)
    <3>1. \A m \in 0..((n + 1) - 1) : m \in 0..(n - 1) \/ m = n
      BY <2>4
    <3> QED
      BY <2>3, <2>8, <3>1
  <2>10. size' = [x \in Ids |-> IF x \in Members(order') THEN before.size[x] ELSE 0]
    <3>1. Members(order') = Members(order) \ {Oldest}
      BY <1>0, <2>1, <2>2, WithoutProperties
    <3>2. \A x \in Ids : size'[x] = IF x = Oldest THEN 0 ELSE size[x]
      BY <1>0, <2>1
    <3>3. \A x \in Ids : size[x] = IF x \in Members(order) THEN before.size[x] ELSE 0
      BY <2>3
    <3>4. \A x \in Ids :
              size'[x] = IF x \in Members(order') THEN before.size[x] ELSE 0
      BY <3>1, <3>2, <3>3
    <3>5. size' = [x \in Ids |-> size'[x]]
      BY <1>0, <2>1
    <3> QED
      BY <3>4, <3>5
  <2> QED
    BY <2>1, <2>3, <2>4, <2>7, <2>9, <2>10 DEF Popping
<1>3. CASE InsertFinish
  BY <1>3 DEF InsertFinish, Popping, Locked, Idle
<1>4. ASSUME NEW id \in Ids, RemoveKey(id) \/ Touch(id) PROVE Popping'
  BY <1>4 DEF RemoveKey, Touch, Popping, Locked
<1>5. CASE Clear
  BY <1>5 DEF Clear, Popping, Locked
<1>6. CASE UNCHANGED vars
  BY <1>6 DEF vars, Popping, Locked, Rest
<1> QED
  BY <1>1, <1>2, <1>3, <1>4, <1>5, <1>6 DEF Next

\* The buffer as its callers see it.
SeenOrder == IF Locked THEN before.order ELSE order
SeenSize  == IF Locked THEN before.size ELSE size

\* The step of the atomic buffer that the end of the loop is.
LEMMA FinishIsInsert ==
    ASSUME L1Inv, Popping, InsertFinish
    PROVE  Atomic!Insert(incoming.id, incoming.size)
<1> DEFINE id == incoming.id
           c == incoming.size
           n == Len(evicted)
<1>1. /\ Locked /\ ~Locked' /\ (~OverBudget \/ order = <<>>)
      /\ order' = Append(order, id) /\ size' = [size EXCEPT ![id] = c]
  BY DEF InsertFinish, Locked, Idle
<1>2. /\ id \in Ids /\ c \in Nat /\ c <= Capacity /\ id \notin Members(order)
      /\ bytesUsed \in Nat /\ Members(order) = Held /\ order \in Seq(Ids)
      /\ size \in [Ids -> 0..MaxSize] /\ bytesUsed = Bytes(size, Members(order))
  BY <1>1, L1Assumption, BudgetAssumption
     DEF L1Inv, TypeOK, Locked, Idle, Sizes, IncomingFits, KeysAreHeld, BytesExact
<1>3. /\ before \in [order : Seq(Ids), size : [Ids -> 0..MaxSize]]
      /\ NoRepeats(before.order)
      /\ n \in 0..Len(Rest) /\ order = Suffix(Rest, n)
      /\ \A m \in 0..(n - 1) : ~Fits(before.size, Rest, m, c, Capacity)
      /\ size = [x \in Ids |-> IF x \in Members(order) THEN before.size[x] ELSE 0]
  BY <1>1 DEF Popping
<1>4. Rest \in Seq(Ids)
  BY <1>2, <1>3, WithoutProperties DEF Rest
<1>5. n = Len(Rest) \/ Fits(before.size, Rest, n, c, Capacity)
  <2>1. CASE order = <<>>
    <3>1. Len(order) = Len(Rest) - n /\ Len(order) = 0
      BY <1>3, <1>4, <2>1, SuffixIs
    <3> QED
      BY <1>3, <1>4, <3>1
  <2>2. CASE ~OverBudget
    <3>1. bytesUsed + c <= Capacity
      BY <1>2, <2>2, L1Assumption DEF OverBudget
    <3>2. \A x \in Members(order) : size[x] = before.size[x]
      <4>1. Members(order) \in SUBSET Ids
        BY <1>2 DEF Held
      <4> QED
        BY <1>3, <4>1
    <3>3. Bytes(before.size, Members(order)) = bytesUsed
      BY <1>2, <3>2, BytesAgree
    <3> QED
      BY <1>3, <3>1, <3>3 DEF Fits
  <2> QED
    BY <1>1, <2>1, <2>2
<1>6. PopCount(before.size, Rest, c, Capacity) = n
  BY <1>3, <1>4, <1>5, PopCountIs
<1>7. /\ Atomic!Without(before.order, id) = Rest
      /\ Atomic!PopCount(before.size, Rest, c, Capacity) = n
      /\ Atomic!Suffix(Rest, n) = order
      /\ Atomic!Members(order) = Members(order)
  BY <1>3, <1>6, SameOperators DEF Rest
<1>8. size' = [x \in Ids |-> IF x = id THEN c
                             ELSE IF x \in Members(order) THEN before.size[x] ELSE 0]
  <2>1. \A x \in Ids : size'[x] = IF x = id THEN c ELSE size[x]
    BY <1>1, <1>2
  <2>2. \A x \in Ids : size[x] = IF x \in Members(order) THEN before.size[x] ELSE 0
    BY <1>3
  <2>3. size' = [x \in Ids |-> size'[x]]
    BY <1>1, <1>2
  <2>4. \A x \in Ids : size'[x] = IF x = id THEN c
                             ELSE IF x \in Members(order) THEN before.size[x] ELSE 0
    BY <2>1, <2>2
  <2> QED
    BY <2>3, <2>4
<1>9. /\ Atomic!Without(SeenOrder, id) = Rest
      /\ Atomic!PopCount(SeenSize, Rest, c, Capacity) = n
      /\ SeenOrder' = Append(order, id)
      /\ SeenSize' = [x \in Ids |-> IF x = id THEN c
                                    ELSE IF x \in Atomic!Members(order)
                                         THEN SeenSize[x] ELSE 0]
  <2>1. SeenOrder = before.order /\ SeenSize = before.size
    BY <1>1 DEF SeenOrder, SeenSize
  <2>2. SeenOrder' = order' /\ SeenSize' = size'
    BY <1>1 DEF SeenOrder, SeenSize
  <2> QED
    BY <1>1, <1>7, <1>8, <2>1, <2>2
<1> HIDE DEF id, c, n
<1>10. Atomic!Insert(id, c)
  BY <1>2, <1>7, <1>9 DEF Atomic!Insert, SeenOrder, SeenSize
<1> QED
  BY <1>10 DEF id, c

\* insert(), with its eviction loop, is to its callers a single step that takes
\* away the shortest run of oldest memories that makes room; so are the others.
THEOREM L1ImplementsAtomic == Spec => AtomicInsert
<1>1. Init => Atomic!Init /\ Popping
  BY DEF Init, Atomic!Init, Popping, Locked, Idle
<1>2. L1Inv /\ Popping /\ [Next]_vars => [Atomic!Next]_<<SeenOrder, SeenSize>>
  <2> SUFFICES ASSUME L1Inv, Popping, [Next]_vars
               PROVE  [Atomic!Next]_<<SeenOrder, SeenSize>>
    OBVIOUS
  <2>1. ASSUME NEW id \in Ids, NEW c \in Sizes, InsertStart(id, c)
        PROVE  UNCHANGED <<SeenOrder, SeenSize>>
    BY <2>1, L1Assumption DEF InsertStart, Locked, SeenOrder, SeenSize
  <2>2. CASE EvictOldest
    BY <2>2 DEF EvictOldest, Locked, SeenOrder, SeenSize
  <2>3. CASE InsertFinish
    <3>1. Atomic!Insert(incoming.id, incoming.size)
      BY <2>3, FinishIsInsert
    <3>2. incoming.id \in Ids /\ incoming.size \in Atomic!Sizes
      BY <2>3, L1Assumption
         DEF InsertFinish, L1Inv, TypeOK, Locked, Idle, Sizes, Atomic!Sizes
    <3> QED
      BY <3>1, <3>2 DEF Atomic!Next
  <2>4. ASSUME NEW id \in Ids, RemoveKey(id) PROVE Atomic!Next
    <3>1. Atomic!RemoveKey(id)
      BY <2>4, SameOperators DEF RemoveKey, Atomic!RemoveKey, Locked
    <3> QED
      BY <3>1 DEF Atomic!Next
  <2>5. ASSUME NEW id \in Ids, Touch(id) PROVE Atomic!Next
    <3>1. id \in Members(order)
      BY <2>5 DEF Touch, L1Inv, KeysAreHeld
    <3>2. Atomic!Touch(id)
      BY <2>5, <3>1, SameOperators DEF Touch, MovedToBack, Atomic!Touch, Locked
    <3> QED
      BY <3>2 DEF Atomic!Next
  <2>6. CASE Clear
    BY <2>6 DEF Clear, Locked, Atomic!Next, Atomic!Clear
  <2>7. CASE UNCHANGED vars
    BY <2>7 DEF vars, Locked, SeenOrder, SeenSize
  <2> QED
    BY <2>1, <2>2, <2>3, <2>4, <2>5, <2>6, <2>7 DEF Next
<1> QED
  BY <1>1, <1>2, L1Invariant, PoppingStep, PTL
     DEF Spec, AtomicInsert, Atomic!Spec, SeenOrder, SeenSize
=============================================================================
