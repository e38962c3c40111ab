-------------------------- MODULE ByteBudgetProofs --------------------------
(***************************************************************************)
(* Facts about the byte budget and about the orders the tiers keep, used   *)
(* by the proofs about the tiers.                                          *)
(***************************************************************************)
EXTENDS ByteBudget, FiniteSetTheorems, FunctionTheorems, SequencesExt,
        SequenceTheorems, WellFoundedInduction, TLAPS

Charges == [Ids -> 0..MaxSize]

-----------------------------------------------------------------------------
\* The bytes a set of memories is charged are a natural number.
LEMMA BytesType ==
    ASSUME NEW size \in Charges, NEW S \in SUBSET Ids
    PROVE  IsFiniteSet(Cells(size, S)) /\ Bytes(size, S) \in Nat
<1>1. IsFiniteSet(S) /\ IsFiniteSet(Sizes)
  BY BudgetAssumption, FS_Subset, FS_Interval DEF Sizes
<1>2. IsFiniteSet(S \X Sizes)
  BY <1>1, FS_Product
<1>3. Cells(size, S) \subseteq S \X Sizes
  BY DEF Cells
<1>4. IsFiniteSet(Cells(size, S))
  BY <1>2, <1>3, FS_Subset
<1> QED
  BY <1>4, FS_CardinalityType DEF Bytes

\* An empty tier is charged nothing.
LEMMA BytesEmpty ==
    ASSUME NEW size PROVE Bytes(size, {}) = 0
<1>1. Cells(size, {}) = {}
  BY DEF Cells
<1> QED
  BY <1>1, FS_EmptySet DEF Bytes

\* One memory occupies as many cells as it is charged bytes.
LEMMA CellsOfOne ==
    ASSUME NEW size \in Charges, NEW id \in Ids
    PROVE  /\ IsFiniteSet(Cells(size, {id}))
           /\ Cardinality(Cells(size, {id})) = size[id]
<1> DEFINE f == [n \in 1..size[id] |-> <<id, n>>]
<1>1. size[id] \in Nat /\ size[id] <= MaxSize /\ MaxSize \in Nat
  BY BudgetAssumption DEF Charges
<1>2. Cells(size, {id}) = {<<id, n>> : n \in 1..size[id]}
  BY <1>1 DEF Cells, Sizes
<1>3. f \in Bijection(1..size[id], Cells(size, {id}))
  <2>1. f \in [1..size[id] -> Cells(size, {id})]
    BY <1>2
  <2>2. \A m, n \in 1..size[id] : f[m] = f[n] => m = n
    OBVIOUS
  <2>3. \A c \in Cells(size, {id}) : \E n \in 1..size[id] : f[n] = c
    BY <1>2
  <2> QED
    BY <2>1, <2>2, <2>3 DEF Bijection, Injection, Surjection, IsInjective
<1>4. IsFiniteSet(1..size[id]) /\ Cardinality(1..size[id]) = size[id]
  <2>1. 1 \in Int /\ size[id] \in Int
    BY <1>1
  <2>2. /\ IsFiniteSet(1..size[id])
        /\ Cardinality(1..size[id]) = IF 1 > size[id] THEN 0 ELSE size[id]-1+1
    BY ONLY <2>1, FS_Interval
  <2> QED
    BY <1>1, <2>2
<1>5. ExistsBijection(1..size[id], Cells(size, {id}))
  BY <1>3 DEF ExistsBijection
<1> QED
  BY <1>4, <1>5, FS_Bijection

\* Adding a memory adds its charge.
LEMMA BytesAdd ==
    ASSUME NEW size \in Charges, NEW S \in SUBSET Ids, NEW id \in Ids,
           id \notin S
    PROVE  Bytes(size, S \cup {id}) = Bytes(size, S) + size[id]
<1> DEFINE A == Cells(size, S)
           B == Cells(size, {id})
<1>1. Cells(size, S \cup {id}) = A \cup B
  BY DEF Cells
<1>2. A \cap B = {}
  BY DEF Cells
<1>3. IsFiniteSet(A) /\ IsFiniteSet(B) /\ Cardinality(A) \in Nat
  BY BytesType, CellsOfOne DEF Bytes
<1>4. Cardinality(A \cup B) = Cardinality(A) + Cardinality(B) - Cardinality({})
  BY <1>2, <1>3, FS_Union
<1>5. Cardinality({}) = 0 /\ Cardinality(B) = size[id] /\ size[id] \in Nat
  BY FS_EmptySet, CellsOfOne DEF Charges
<1>6. Cardinality(A \cup B) = Cardinality(A) + size[id]
  <2> HIDE DEF A, B
  <2> QED
    BY <1>3, <1>4, <1>5
<1> QED
  BY <1>1, <1>6 DEF Bytes

\* Fewer memories are charged no more.
LEMMA BytesMonotone ==
    ASSUME NEW size \in Charges, NEW T \in SUBSET Ids, NEW S \in SUBSET T
    PROVE  Bytes(size, S) <= Bytes(size, T)
<1>1. IsFiniteSet(Cells(size, T)) /\ Cells(size, S) \subseteq Cells(size, T)
  BY BytesType DEF Cells
<1> QED
  BY <1>1, FS_Subset DEF Bytes

\* Only the charges of the members count.
LEMMA BytesAgree ==
    ASSUME NEW size, NEW other, NEW S, \A x \in S : size[x] = other[x]
    PROVE  Bytes(size, S) = Bytes(other, S)
<1>1. Cells(size, S) = Cells(other, S)
  BY DEF Cells
<1> QED
  BY <1>1 DEF Bytes

\* Memories that are charged no more occupy no more cells.
LEMMA BytesCheaper ==
    ASSUME NEW size \in Charges, NEW other \in Charges, NEW S \in SUBSET Ids,
           \A x \in S : other[x] <= size[x]
    PROVE  Bytes(other, S) <= Bytes(size, S)
<1>1. Cells(other, S) \subseteq Cells(size, S)
  <2> SUFFICES ASSUME NEW x \in S, NEW n \in Sizes, n <= other[x]
               PROVE  n <= size[x]
    BY DEF Cells
  <2>1. n \in Nat /\ other[x] \in Nat /\ size[x] \in Nat /\ other[x] <= size[x]
    BY BudgetAssumption DEF Charges, Sizes
  <2> QED
    BY <2>1
<1>2. IsFiniteSet(Cells(size, S))
  BY BytesType
<1> QED
  BY <1>1, <1>2, FS_Subset DEF Bytes

-----------------------------------------------------------------------------
\* Deleting a key that is there: what is behind it moves up one place.
LEMMA WithoutKey ==
    ASSUME NEW s \in Seq(Ids), NEW id, \E i \in 1..Len(s) : s[i] = id
    PROVE  \E k \in 1..Len(s) :
               /\ s[k] = id
               /\ Without(s, id) \in Seq(Ids)
               /\ Len(Without(s, id)) = Len(s) - 1
               /\ \A i \in 1..Len(Without(s, id)) :
                     Without(s, id)[i] = s[IF i < k THEN i ELSE i + 1]
<1> DEFINE k == CHOOSE i \in 1..Len(s) : s[i] = id
           t == SubSeq(s, 1, k-1) \o SubSeq(s, k+1, Len(s))
<1>1. k \in 1..Len(s) /\ s[k] = id
  OBVIOUS
<1>2. Without(s, id) = t
  BY DEF Without, RemoveAt
<1> HIDE DEF k
<1> DEFINE u == SubSeq(s, 1, k-1)
           v == SubSeq(s, k+1, Len(s))
<1>3. u \in Seq(Ids) /\ Len(u) = k-1 /\ \A i \in 1..(k-1) : u[i] = s[i]
  BY <1>1
<1>4. /\ v \in Seq(Ids) /\ Len(v) = Len(s)-k
      /\ \A i \in 1..(Len(s)-k) : v[i] = s[i+k]
  BY <1>1
<1> HIDE DEF u, v
<1>5. /\ u \o v \in Seq(Ids) /\ Len(u \o v) = Len(u) + Len(v)
      /\ \A i \in 1..(Len(u) + Len(v)) :
            (u \o v)[i] = IF i <= Len(u) THEN u[i] ELSE v[i - Len(u)]
  BY <1>3, <1>4, ConcatProperties
<1>6. Len(s) \in Nat /\ k \in 1..Len(s)
  BY <1>1
<1>7. \A i \in 1..(Len(s)-1) : (u \o v)[i] = s[IF i < k THEN i ELSE i + 1]
  <2>1. \A i \in 1..(Len(s)-1) :
            (u \o v)[i] = IF i < k THEN s[i] ELSE s[i+1]
    <3> SUFFICES ASSUME NEW i \in 1..(Len(s)-1)
                 PROVE  (u \o v)[i] = IF i < k THEN s[i] ELSE s[i+1]
      OBVIOUS
    <3>1. i \in 1..(Len(u) + Len(v))
      BY <1>3, <1>4, <1>6
    <3>2. CASE i < k
      BY <1>3, <1>5, <1>6, <3>1, <3>2
    <3>3. CASE ~(i < k)
      <4> DEFINE p == i - Len(u)
      <4>1. p \in 1..(Len(s)-k) /\ p + k = i + 1
        BY <1>3, <1>6, <3>3
      <4>2. (u \o v)[i] = v[p]
        BY <1>3, <1>5, <1>6, <3>1, <3>3
      <4> HIDE DEF p
      <4>3. v[p] = s[p + k]
        BY <1>4, <4>1
      <4>4. v[p] = s[i + 1]
        BY <4>1, <4>3
      <4> QED
        BY <3>3, <4>2, <4>4
    <3> QED
      BY <3>2, <3>3
  <2> QED
    BY <2>1
<1>8. Len(u \o v) = Len(s) - 1
  BY <1>3, <1>4, <1>5, <1>6
<1>9. Without(s, id) = u \o v
  BY <1>2 DEF u, v
<1> QED
  BY <1>1, <1>5, <1>7, <1>8, <1>9

\* Deleting a key from an order without repeats deletes exactly that key.
LEMMA WithoutProperties ==
    ASSUME NEW s \in Seq(Ids), NEW id \in Ids, NoRepeats(s)
    PROVE  /\ Without(s, id) \in Seq(Ids)
           /\ NoRepeats(Without(s, id))
           /\ Members(Without(s, id)) = Members(s) \ {id}
<1>1. CASE ~\E i \in 1..Len(s) : s[i] = id
  BY <1>1 DEF Without, Members
<1>2. CASE \E i \in 1..Len(s) : s[i] = id
  <2> DEFINE t == Without(s, id)
  <2>1. PICK k \in 1..Len(s) :
            /\ s[k] = id
            /\ t \in Seq(Ids)
            /\ Len(t) = Len(s) - 1
            /\ \A i \in 1..Len(t) : t[i] = s[IF i < k THEN i ELSE i + 1]
    BY <1>2, WithoutKey
  <2>2. Without(s, id) = t
    OBVIOUS
  <2> HIDE DEF t
  <2>3. /\ t \in Seq(Ids)
        /\ Len(t) = Len(s) - 1
        /\ \A i \in 1..Len(t) : t[i] = s[IF i < k THEN i ELSE i + 1]
    BY <2>1
  <2> DEFINE from(n) == IF n < k THEN n ELSE n + 1
  <2>4. Len(s) \in Nat /\ Len(t) = Len(s) - 1 /\ k \in 1..Len(s)
    BY <2>1, <2>3
  <2>5. \A n \in 1..Len(t) : from(n) \in 1..Len(s) /\ from(n) # k
    BY <2>4
  <2>6. \A n \in 1..Len(t) : t[n] = s[from(n)]
    BY <2>3
  <2>7. NoRepeats(t)
    <3> SUFFICES ASSUME NEW i \in 1..Len(t), NEW j \in 1..Len(t), t[i] = t[j]
                 PROVE  i = j
      BY DEF NoRepeats
    <3>1. s[from(i)] = s[from(j)]
      BY <2>6
    <3> HIDE DEF from
    <3>2. from(i) = from(j)
      BY <2>5, <3>1 DEF NoRepeats
    <3> QED
      BY <2>4, <3>2 DEF from
  <2>8. Members(t) = Members(s) \ {id}
    <3>1. ASSUME NEW x \in Members(t) PROVE x \in Members(s) \ {id}
      <4>1. PICK n \in 1..Len(t) : x = t[n]
        BY DEF Members
      <4>2. x = s[from(n)]
        BY <2>6, <4>1
      <4> HIDE DEF from
      <4>3. from(n) \in 1..Len(s) /\ from(n) # k
        BY <2>5
      <4>4. x # s[k]
        BY <2>1, <4>2, <4>3 DEF NoRepeats
      <4> QED
        BY <2>1, <4>2, <4>3, <4>4 DEF Members
    <3>2. ASSUME NEW x \in Members(s) \ {id} PROVE x \in Members(t)
      <4>1. PICK i \in 1..Len(s) : s[i] = x
        BY DEF Members
      <4>2. i # k
        BY <2>1, <4>1
      <4>3. CASE i < k
        BY <2>1, <2>3, <4>1, <4>3 DEF Members
      <4>4. CASE i > k
        <5>1. i-1 \in 1..Len(t) /\ t[i-1] = s[i]
          BY <2>1, <2>3, <4>1, <4>4
        <5> QED
          BY <4>1, <5>1 DEF Members
      <4> QED
        BY <2>1, <4>1, <4>2, <4>3, <4>4
    <3> QED
      BY <3>1, <3>2
  <2> QED
    BY <2>2, <2>3, <2>7, <2>8
<1> QED
  BY <1>1, <1>2

\* A new key at the back keeps the order free of repeats.
LEMMA AppendNewKey ==
    ASSUME NEW s \in Seq(Ids), NEW id \in Ids, NoRepeats(s), id \notin Members(s)
    PROVE  /\ Append(s, id) \in Seq(Ids)
           /\ NoRepeats(Append(s, id))
           /\ Members(Append(s, id)) = Members(s) \cup {id}
<1> DEFINE t == Append(s, id)
<1>1. /\ t \in Seq(Ids) /\ Len(t) = Len(s)+1
      /\ \A i \in 1..Len(s) : t[i] = s[i]
      /\ t[Len(s)+1] = id
  BY AppendProperties
<1> HIDE DEF t
<1>2. NoRepeats(t)
  BY <1>1 DEF NoRepeats, Members
<1>3. Members(t) = Members(s) \cup {id}
  <2>1. ASSUME NEW x \in Members(t) PROVE x \in Members(s) \cup {id}
    BY <1>1 DEF Members
  <2>2. ASSUME NEW x \in Members(s) PROVE x \in Members(t)
    BY <1>1 DEF Members
  <2>3. id \in Members(t)
    BY <1>1 DEF Members
  <2> QED
    BY <2>1, <2>2, <2>3
<1> QED
  BY <1>1, <1>2, <1>3 DEF t

-----------------------------------------------------------------------------
\* A set of numbers that is not empty has a smallest one: the intervals 1..n
\* are finite sets, which strict inclusion orders well.
LEMMA Smallest ==
    ASSUME NEW T \in SUBSET Nat, T # {}
    PROVE  \E n \in T : \A m \in T : n <= m
<1> DEFINE U == {1..n : n \in T}
           F == FiniteSubsetsOf(Nat)
           R == StrictSubsetOrdering(Nat)
<1>1. U \subseteq F /\ U # {}
  <2>1. \A n \in T : IsFiniteSet(1..n) /\ 1..n \subseteq Nat
    BY FS_Interval
  <2> QED
    BY <2>1 DEF FiniteSubsetsOf
<1>2. IsWellFoundedOn(R, F)
  BY FS_StrictSubsetOrderingWellFounded
<1> HIDE DEF F, R
<1>3. PICK x \in U : \A y \in U : ~(<<y, x>> \in R)
  BY <1>1, <1>2, WFMin
<1>4. PICK n \in T : x = 1..n
  BY <1>3
<1>5. ASSUME NEW m \in T, m < n PROVE FALSE
  <2>1. 1..m \subseteq 1..n /\ n \in 1..n /\ n \notin 1..m
    BY <1>5
  <2>2. 1..m \in SUBSET Nat /\ 1..n \in SUBSET Nat /\ 1..m # 1..n
    BY <2>1
  <2>3. <<1..m, 1..n>> \in R
    BY <2>1, <2>2 DEF R, StrictSubsetOrdering
  <2> QED
    BY <1>3, <1>4, <2>3
<1>6. n \in Nat /\ \A m \in T : m \in Nat
  OBVIOUS
<1> QED
  BY <1>5, <1>6

\* Popping stops at the first number of entries where the rest fits or is empty.
LEMMA PopCountProperties ==
    ASSUME NEW size, NEW s \in Seq(Ids), NEW incoming, NEW capacity
    PROVE  LET n == PopCount(size, s, incoming, capacity) IN
           /\ n \in 0..Len(s)
           /\ n = Len(s) \/ Fits(size, s, n, incoming, capacity)
           /\ \A m \in 0..(n-1) : ~Fits(size, s, m, incoming, capacity)
<1> DEFINE Stop(n) == n = Len(s) \/ Fits(size, s, n, incoming, capacity)
           T == {n \in 0..Len(s) : Stop(n)}
<1>1. Len(s) \in T /\ T \in SUBSET Nat /\ T # {}
  BY LenProperties
<1>2. PICK n \in T : \A m \in T : n <= m
  BY <1>1, Smallest
<1>3. n \in 0..Len(s) /\ Stop(n) /\ n \in Nat /\ Len(s) \in Nat
  BY <1>2
<1>4. \A m \in 0..(n-1) : m \in 0..Len(s) /\ ~(n <= m)
  BY <1>3
<1>5. \A m \in 0..(n-1) : ~Fits(size, s, m, incoming, capacity)
  BY <1>2, <1>4
<1>6. \E k \in 0..Len(s) :
         /\ k = Len(s) \/ Fits(size, s, k, incoming, capacity)
         /\ \A m \in 0..(k-1) : ~Fits(size, s, m, incoming, capacity)
  BY <1>3, <1>5
<1> QED
  BY <1>6 DEF PopCount

\* What is left of a sequence without its first n entries.
LEMMA SuffixIs ==
    ASSUME NEW s \in Seq(Ids), NEW n \in 0..Len(s)
    PROVE  /\ Suffix(s, n) \in Seq(Ids)
           /\ Len(Suffix(s, n)) = Len(s) - n
           /\ \A i \in 1..(Len(s) - n) : Suffix(s, n)[i] = s[n + i]
<1>1. Len(s) \in Nat /\ n \in Nat /\ n <= Len(s)
  OBVIOUS
<1> QED
  BY <1>1, SubSeqProperties DEF Suffix

\* An order without repeats, cut in two: the halves have the same members
\* together and none in common.
LEMMA CutProperties ==
    ASSUME NEW s \in Seq(Ids), NoRepeats(s), NEW n \in 0..Len(s)
    PROVE  /\ SubSeq(s, 1, n) \in Seq(Ids) /\ NoRepeats(SubSeq(s, 1, n))
           /\ Suffix(s, n) \in Seq(Ids) /\ NoRepeats(Suffix(s, n))
           /\ Members(SubSeq(s, 1, n)) \cup Members(Suffix(s, n)) = Members(s)
           /\ Members(SubSeq(s, 1, n)) \cap Members(Suffix(s, n)) = {}
           /\ n = Len(s) => Members(Suffix(s, n)) = {}
<1> DEFINE u == SubSeq(s, 1, n)
           v == Suffix(s, n)
<1>1. Len(s) \in Nat /\ n \in Nat /\ n <= Len(s)
  OBVIOUS
<1>2. u \in Seq(Ids) /\ Len(u) = n /\ \A i \in 1..n : u[i] = s[i]
  BY <1>1, SubSeqProperties
<1>3. v \in Seq(Ids) /\ Len(v) = Len(s) - n /\ \A i \in 1..(Len(s)-n) : v[i] = s[n+i]
  BY <1>1, SubSeqProperties DEF Suffix
<1> HIDE DEF u, v
<1>4. NoRepeats(u)
  BY <1>1, <1>2 DEF NoRepeats
<1>5. NoRepeats(v)
  <2> SUFFICES ASSUME NEW i \in 1..Len(v), NEW j \in 1..Len(v), v[i] = v[j]
               PROVE  i = j
    BY DEF NoRepeats
  <2>1. n+i \in 1..Len(s) /\ n+j \in 1..Len(s) /\ s[n+i] = s[n+j]
    BY <1>1, <1>3
  <2>2. n+i = n+j
    BY <2>1 DEF NoRepeats
  <2> QED
    BY <1>1, <2>2
<1>6. Members(u) = {s[i] : i \in 1..n}
  BY <1>2 DEF Members
<1>7. Members(v) = {s[i] : i \in (n+1)..Len(s)}
  <2>1. ASSUME NEW x \in Members(v) PROVE \E i \in (n+1)..Len(s) : x = s[i]
    <3>1. PICK i \in 1..Len(v) : x = v[i]
      BY DEF Members
    <3>2. n+i \in (n+1)..Len(s) /\ x = s[n+i]
      BY <1>1, <1>3, <3>1
    <3> QED
      BY <3>2
  <2>2. ASSUME NEW i \in (n+1)..Len(s) PROVE s[i] \in Members(v)
    <3>1. i-n \in 1..Len(v) /\ n + (i-n) = i
      BY <1>1, <1>3
    <3>2. v[i-n] = s[i]
      BY <1>3, <3>1
    <3> QED
      BY <3>1, <3>2 DEF Members
  <2> QED
    BY <2>1, <2>2
<1>8. 1..Len(s) = (1..n) \cup ((n+1)..Len(s))
  BY <1>1
<1>9. Members(u) \cup Members(v) = Members(s)
  BY <1>6, <1>7, <1>8 DEF Members
<1>10. Members(u) \cap Members(v) = {}
  <2> SUFFICES ASSUME NEW i \in 1..n, NEW j \in (n+1)..Len(s), s[i] = s[j]
               PROVE  FALSE
    BY <1>6, <1>7
  <2>1. i \in 1..Len(s) /\ j \in 1..Len(s) /\ i # j
    BY <1>1
  <2> QED
    BY <2>1 DEF NoRepeats
<1>11. n = Len(s) => Members(v) = {}
  BY <1>1, <1>7
<1> QED
  BY <1>2, <1>3, <1>4, <1>5, <1>9, <1>10, <1>11 DEF u, v

\* The members of a sequence are its first and those of the rest.
LEMMA MembersOfEmpty == Members(<<>>) = {}
BY DEF Members

LEMMA MembersOfParts ==
    ASSUME NEW S, NEW s \in Seq(S), s # <<>>
    PROVE  Members(s) = {Head(s)} \cup Members(Tail(s))
<1>1. /\ Len(s) \in Nat /\ Len(s) >= 1 /\ Head(s) = s[1]
      /\ Tail(s) \in Seq(S) /\ Len(Tail(s)) = Len(s) - 1
      /\ \A i \in 1..(Len(s) - 1) : Tail(s)[i] = s[i+1]
  BY HeadTailProperties
<1> DEFINE rest == Tail(s)
<1> HIDE DEF rest
<1>2. ASSUME NEW i \in 1..Len(s) PROVE s[i] \in {Head(s)} \cup Members(rest)
  <2>1. CASE i = 1
    BY <1>1, <2>1
  <2>2. CASE i # 1
    <3>1. i-1 \in 1..Len(rest) /\ rest[i-1] = s[i]
      BY <1>1, <2>2 DEF rest
    <3> QED
      BY <3>1 DEF Members
  <2> QED
    BY <2>1, <2>2
<1>3. ASSUME NEW i \in 1..Len(rest) PROVE rest[i] \in Members(s)
  <2>1. i+1 \in 1..Len(s) /\ rest[i] = s[i+1]
    BY <1>1 DEF rest
  <2> QED
    BY <2>1 DEF Members
<1>4. Head(s) \in Members(s)
  BY <1>1 DEF Members
<1> QED
  BY <1>2, <1>3, <1>4 DEF Members, rest

-----------------------------------------------------------------------------
\* The ranks of a finite set of numbers are its numbers counted through, in
\* their order.
LEMMA RankProperties ==
    ASSUME NEW ns \in SUBSET Nat, IsFiniteSet(ns)
    PROVE  /\ Cardinality(ns) \in Nat
           /\ \A n \in ns : Rank(ns, n) \in 1..Cardinality(ns)
           /\ \A m, n \in ns : m < n => Rank(ns, m) < Rank(ns, n)
           /\ \A k \in 1..Cardinality(ns) : \E n \in ns : Rank(ns, n) = k
<1> DEFINE upTo(n) == {m \in ns : m <= n}
           c == Cardinality(ns)
           f == [n \in ns |-> Rank(ns, n)]
<1>1. c \in Nat
  BY FS_CardinalityType
<1>2. \A n \in ns : IsFiniteSet(upTo(n)) /\ Cardinality(upTo(n)) \in Nat
  BY FS_Subset, FS_CardinalityType
<1>3. \A n \in ns : Rank(ns, n) \in 1..c
  <2> SUFFICES ASSUME NEW n \in ns PROVE Rank(ns, n) \in 1..c
    OBVIOUS
  <2>1. n \in upTo(n)
    OBVIOUS
  <2>2. Cardinality(upTo(n)) # 0
    BY <1>2, <2>1, FS_EmptySet
  <2>3. Cardinality(upTo(n)) <= c
    BY FS_Subset
  <2> QED
    BY <1>1, <1>2, <2>2, <2>3 DEF Rank
<1>4. ASSUME NEW m \in ns, NEW n \in ns, m < n
      PROVE  Rank(ns, m) < Rank(ns, n)
  <2>1. upTo(m) \in SUBSET upTo(n) /\ n \in upTo(n) /\ n \notin upTo(m)
    <3>1. m \in Nat /\ n \in Nat /\ \A k \in ns : k \in Nat
      OBVIOUS
    <3>2. \A k \in ns : k <= m => k <= n
      BY <1>4, <3>1
    <3>3. n <= n /\ ~(n <= m)
      BY <1>4, <3>1
    <3> QED
      BY <3>2, <3>3
  <2>2. IsFiniteSet(upTo(n))
    BY <1>2
  <2> HIDE DEF upTo
  <2>3. /\ Cardinality(upTo(m)) <= Cardinality(upTo(n))
        /\ Cardinality(upTo(n)) = Cardinality(upTo(m)) => upTo(n) = upTo(m)
    BY ONLY <2>1, <2>2, FS_Subset
  <2>4. Cardinality(upTo(m)) < Cardinality(upTo(n))
    BY <1>2, <2>1, <2>3
  <2> QED
    BY <2>4 DEF Rank, upTo
<1>5. f \in Injection(ns, 1..c)
  <2>1. f \in [ns -> 1..c]
    BY <1>3
  <2>2. ASSUME NEW m \in ns, NEW n \in ns, f[m] = f[n] PROVE m = n
    <3>1. m \in Nat /\ n \in Nat /\ Rank(ns, m) = Rank(ns, n)
      BY <2>2
    <3>2. Rank(ns, m) \in Nat /\ Rank(ns, n) \in Nat
      BY <1>1, <1>3
    <3>3. ~(m < n) /\ ~(n < m)
      BY <1>4, <3>1, <3>2
    <3> QED
      BY <3>1, <3>3
  <2> QED
    BY <2>1, <2>2 DEF Injection, IsInjective
<1>6. IsFiniteSet(1..c) /\ Cardinality(1..c) = c
  <2>1. 1 \in Int /\ c \in Int
    BY <1>1
  <2>2. /\ IsFiniteSet(1..c)
        /\ Cardinality(1..c) = IF 1 > c THEN 0 ELSE c-1+1
    BY ONLY <2>1, FS_Interval
  <2> QED
    BY <1>1, <2>2
<1>7. f \in Surjection(ns, 1..c)
  BY <1>5, <1>6, FS_Injection
<1>8. \A k \in 1..c : \E n \in ns : Rank(ns, n) = k
  BY <1>7 DEF Surjection
<1> QED
  BY <1>1, <1>3, <1>4, <1>8

\* Filtering an order keeps the members that are in S, and no others.
LEMMA AmongProperties ==
    ASSUME NEW s \in Seq(Ids), NEW S
    PROVE  /\ Among(s, S) \in Seq(Ids)
           /\ Members(Among(s, S)) = Members(s) \cap S
           /\ NoRepeats(s) => NoRepeats(Among(s, S))
<1> DEFINE ns == Places(s, S)
           c  == Cardinality(ns)
           at(k) == CHOOSE n \in ns : Rank(ns, n) = k
           r  == [k \in 1..c |-> s[at(k)]]
<1>1. Len(s) \in Nat /\ ns \in SUBSET Nat /\ ns \in SUBSET (1..Len(s))
  BY LenProperties DEF Places
<1>2. IsFiniteSet(ns)
  <2>1. 1 \in Int /\ Len(s) \in Int
    BY <1>1
  <2>2. IsFiniteSet(1..Len(s))
    BY ONLY <2>1, FS_Interval
  <2> HIDE DEF ns
  <2> QED
    BY <1>1, <2>2, FS_Subset
<1>3. /\ c \in Nat
      /\ \A n \in ns : Rank(ns, n) \in 1..c
      /\ \A k \in 1..c : \E n \in ns : Rank(ns, n) = k
      /\ \A m, n \in ns : m < n => Rank(ns, m) < Rank(ns, n)
  BY <1>1, <1>2, RankProperties
<1>4. \A n \in ns : n \in 1..Len(s) /\ s[n] \in S /\ s[n] \in Ids
  BY DEF Places
<1>5. Among(s, S) = r
  BY DEF Among
<1> HIDE DEF ns, c
<1>6. \A k \in 1..c : at(k) \in ns /\ Rank(ns, at(k)) = k
  BY <1>3
<1>7. \A n \in ns : at(Rank(ns, n)) = n
  <2> SUFFICES ASSUME NEW n \in ns PROVE at(Rank(ns, n)) = n
    OBVIOUS
  <2> DEFINE m == at(Rank(ns, n))
  <2>1. m \in ns /\ Rank(ns, m) = Rank(ns, n) /\ Rank(ns, n) \in Nat
    BY <1>3, <1>6
  <2> HIDE DEF m
  <2>2. ~(m < n) /\ ~(n < m)
    BY <1>3, <2>1
  <2>3. m \in Nat /\ n \in Nat
    BY <1>1, <2>1
  <2>4. m = n
    BY <2>2, <2>3
  <2> QED
    BY <2>4 DEF m
<1> HIDE DEF at
<1>8. r \in Seq(Ids) /\ Len(r) = c /\ DOMAIN r = 1..c
  BY <1>3, <1>4, <1>6, IsASeq
<1>9. \A k \in 1..c : r[k] = s[at(k)]
  OBVIOUS
<1> HIDE DEF r
<1>10. Members(r) = Members(s) \cap S
  <2>1. ASSUME NEW k \in 1..c PROVE r[k] \in Members(s) \cap S
    BY <1>4, <1>6, <1>9 DEF Members
  <2>2. ASSUME NEW i \in 1..Len(s), s[i] \in S PROVE \E k \in 1..c : r[k] = s[i]
    <3>1. i \in ns
      BY <2>2 DEF ns, Places
    <3>2. Rank(ns, i) \in 1..c /\ r[Rank(ns, i)] = s[i]
      BY <1>3, <1>7, <1>9, <3>1
    <3> QED
      BY <3>2
  <2> QED
    BY <1>8, <2>1, <2>2 DEF Members
<1>11. ASSUME NoRepeats(s) PROVE NoRepeats(r)
  <2> SUFFICES ASSUME NEW i \in 1..c, NEW j \in 1..c, r[i] = r[j] PROVE i = j
    BY <1>8 DEF NoRepeats
  <2>1. s[at(i)] = s[at(j)] /\ at(i) \in 1..Len(s) /\ at(j) \in 1..Len(s)
    BY <1>4, <1>6, <1>9
  <2>2. at(i) = at(j)
    BY <1>11, <2>1 DEF NoRepeats
  <2> QED
    BY <1>6, <2>2
<1> QED
  BY <1>5, <1>8, <1>10, <1>11

\* Filtering an order keeps its last member last.
LEMMA AmongKeepsLast ==
    ASSUME NEW s \in Seq(Ids), NEW S, s # <<>>, s[Len(s)] \in S
    PROVE  LET r == Among(s, S) IN r # <<>> /\ r[Len(r)] = s[Len(s)]
<1> DEFINE ns == Places(s, S)
           c  == Cardinality(ns)
           l  == Len(s)
           at == CHOOSE n \in ns : Rank(ns, n) = c
           r  == Among(s, S)
<1>1. l \in Nat /\ l >= 1
  OBVIOUS
<1>2. l \in ns /\ ns \in SUBSET Nat /\ \A n \in ns : n <= l
  BY <1>1 DEF Places
<1>3. IsFiniteSet(ns)
  <2>1. IsFiniteSet(1..l)
    <3>1. 1 \in Int /\ l \in Int
      BY <1>1
    <3> HIDE DEF l
    <3> QED
      BY ONLY <3>1, FS_Interval
  <2>2. ns \in SUBSET (1..l)
    BY DEF Places
  <2> HIDE DEF ns, l
  <2> QED
    BY <2>1, <2>2, FS_Subset
<1>4. /\ c \in Nat /\ Rank(ns, l) \in 1..c
      /\ \A n \in ns : Rank(ns, n) \in 1..c
      /\ \A n \in ns : n < l => Rank(ns, n) < Rank(ns, l)
  <2> HIDE DEF ns, l
  <2> QED
    BY <1>2, <1>3, RankProperties
<1>5. Rank(ns, l) = c
  <2>1. {n \in ns : n <= l} = ns
    BY <1>2
  <2> QED
    BY <2>1 DEF Rank
<1>6. at = l
  <2>1. at \in ns /\ Rank(ns, at) = c
    BY <1>2, <1>5
  <2> HIDE DEF at
  <2>2. ~(at < l)
    BY <1>4, <1>5, <2>1
  <2> HIDE DEF ns, l
  <2> QED
    BY <1>1, <1>2, <2>1, <2>2
<1>7. c >= 1
  BY <1>4
<1>8. r = [k \in 1..c |-> s[CHOOSE n \in ns : Rank(ns, n) = k]]
  BY DEF Among
<1>9. r[c] = s[at] /\ DOMAIN r = 1..c
  <2>1. c \in 1..c
    BY <1>4, <1>7
  <2> HIDE DEF ns, c, r
  <2> QED
    BY <1>8, <2>1 DEF at
<1>10. r \in Seq(Ids)
  BY AmongProperties
<1> HIDE DEF r, c, at
<1>11. Len(r) = c
  BY <1>4, <1>9, <1>10
<1>12. r # <<>>
  BY <1>7, <1>11
<1> QED
  BY <1>6, <1>9, <1>11, <1>12 DEF r
=============================================================================
