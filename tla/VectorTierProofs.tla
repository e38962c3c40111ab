-------------------------- MODULE VectorTierProofs --------------------------
(***************************************************************************)
(* What holds of the hot vector tier and of the archive, whatever their    *)
(* sizes and the lengths of the texts: the two stores of a tier agree      *)
(* between two operations but for the rows a raising metadata call has     *)
(* left without a vector, a query pairs no vector with the wrong row, the  *)
(* budget is met, labels are fresh, and, for a tier that adopts the        *)
(* capacity of a grown index (L2), a fresh insert has a slot and nothing   *)
(* but a metadata call keeps an eviction from its caller.                  *)
(*                                                                         *)
(* The invariant says where the two stores are between the two halves of   *)
(* an operation.  It does not depend on AdoptsCapacity, except where the   *)
(* theorems say so.                                                        *)
(***************************************************************************)
EXTENDS L2Cache, L3Archive, ByteBudgetProofs

Slots(ix) == Hnsw!Slots(ix)
Live(ix) == Hnsw!Live(ix)
Count(ix) == Hnsw!CurrentCount(ix)

\* The tables, the indexes, the operations and the queries there can be.
Tables ==
    {t \in [label : [Ids -> Labels \cup {NoLabel}], size : Charges, cold : Seq(Ids)] :
        /\ NoRepeats(t.cold)
        /\ Members(t.cold) = Rows(t)
        /\ \A id \in Ids : t.size[id] = 0 <=> id \notin Rows(t)
        /\ \A a, b \in Rows(t) : t.label[a] = t.label[b] => a = b}

Indexes == [vec : [Labels -> Ids \cup {NoId, Tombstoned}], max : Nat]

Inserting == {"logical", "logical-drop", "row", "add"}
Updating  == {"upsert", "re-add"}
Dropping  == {"logical-drop", "fit-drop", "remove-drop"}
Phases    == Inserting \cup Updating \cup Dropping \cup {"idle", "fit"}

Writers == [pc : Phases, id : Ids \cup {NoId}, size : 0..MaxSize,
            label : Labels \cup {NoLabel}, victim : Ids \cup {NoId},
            evicted : Seq(Ids), fitted : Nat]

Readers == [pc : {"idle", "knn", "resolve"}, k : Nat,
            found : SUBSET (Labels \X Ids), hits : SUBSET (Ids \X Ids)]

Typed ==
    /\ up \in BOOLEAN
    /\ table \in Tables
    /\ index \in Indexes /\ image \in Indexes
    /\ maxElements \in Nat \ {0} /\ nextLabel \in 0..(MaxLabel + 1)
    /\ writer \in Writers /\ reader \in Readers
    /\ lost \in SUBSET Ids /\ crashes \in 0..MaxCrashes
    /\ faults \in 0..MaxFaults /\ lengthened \in BOOLEAN

\* What an operation knows at each of its steps.
Working ==
    /\ ~up => Idle
    /\ writer.pc \in {"logical", "logical-drop", "row"}
          => writer.id \in Ids \ Rows(table)
    /\ writer.pc \in {"logical", "logical-drop", "row", "upsert"}
          => nextLabel <= MaxLabel /\ writer.size \in Sizes
    /\ writer.pc = "upsert" => writer.id \in Rows(table)
    /\ writer.pc \in {"add", "re-add"}
          => /\ writer.id \in Rows(table)
             /\ writer.label = table.label[writer.id]
    /\ writer.pc \in Dropping => writer.victim \in Rows(table)
    /\ writer.pc \in Updating \cup {"idle", "logical"} => writer.evicted = <<>>
    /\ writer.pc \in Inserting => writer.fitted = 0

\* No row carries a label that is still to be handed out.
LabelsBelow == up => \A id \in Rows(table) : table.label[id] < nextLabel

\* The index has the slots the tier counts on; a fresh insert leaves one free.
Roomy ==
    /\ Count(image) <= image.max
    /\ up => Count(index) <= index.max /\ maxElements <= index.max
    /\ writer.pc \in Inserting
          => /\ Count(index) <= maxElements
             /\ AdoptsCapacity => Count(index) < maxElements

\* The index there is, or the one the next open() will load.
Held == IF up THEN index ELSE image

\* The row between whose two halves the operation is.
Pending ==
    IF writer.pc \in {"upsert", "re-add", "add"} THEN {writer.id}
    ELSE IF writer.pc \in Dropping THEN {writer.victim} ELSE {}

\* The rows without a live vector.
Orphaned == {id \in Rows(table) : table.label[id] \notin Live(Held)}

\* Outside it every live vector has its row at every step, and no more rows lack
\* a vector than metadata calls have raised.
Synced ==
    crashes = 0 =>
        /\ \A l \in Live(Held) : \E id \in Rows(table) \ Pending :
              table.label[id] = l /\ Held.vec[l] = id
        /\ Cardinality(Orphaned \ Pending) <= faults
        /\ ~up => image.max # 0

\* What is over the budget is still to be evicted, and may be.
Paying ==
    crashes = 0 /\ faults = 0 =>
        /\ writer.pc \notin {"add", "fit", "fit-drop"} /\ ~lengthened
              => BytesEstimate <= Capacity
        /\ writer.pc = "row" => LiveCount < maxElements
        /\ writer.pc \in {"logical-drop", "add"} => LiveCount <= maxElements
        /\ writer.pc = "add" /\ ~lengthened
              => Bytes(table.size, Rows(table) \ {writer.id}) <= Capacity
        /\ writer.pc \in {"fit", "fit-drop"}
              => LiveCount + writer.fitted <= maxElements

Returned == crashes = 0 /\ faults = 0 /\ AdoptsCapacity => lost = {}

\* What a query has found stays the vectors of the rows with those labels.
Truthful ==
    /\ IF reader.pc = "idle" THEN reader = NoQuery ELSE up /\ crashes = 0
    /\ \A f \in reader.found :
          f[1] < nextLabel /\ \A id \in ByLabel(table, f[1]) : id = f[2]
    /\ \A h \in reader.hits : h[1] = h[2]

TierInv ==
    Typed /\ Working /\ LabelsBelow /\ Roomy
          /\ Synced /\ Paying /\ Returned /\ Truthful

-----------------------------------------------------------------------------
(* The metadata table *)

\* What a table is, spelled out.
LEMMA TableIs ==
    ASSUME NEW t \in Tables
    PROVE  /\ t.label \in [Ids -> Labels \cup {NoLabel}]
           /\ t.cold \in Seq(Ids)
           /\ NoRepeats(t.cold)
           /\ Members(t.cold) = Rows(t)
           /\ Rows(t) \in SUBSET Ids
           /\ \A a, b \in Rows(t) : t.label[a] = t.label[b] => a = b
           /\ \A id \in Rows(t) : t.label[id] \in Labels
           /\ t.size \in Charges
           /\ \A id \in Ids : t.size[id] = 0 <=> id \notin Rows(t)
BY DEF Tables, Rows

LEMMA ATable ==
    ASSUME NEW f \in [Ids -> Labels \cup {NoLabel}], NEW n \in Charges,
           NEW s \in Seq(Ids),
           NoRepeats(s), Members(s) = {id \in Ids : f[id] # NoLabel},
           \A a, b \in Ids : f[a] # NoLabel /\ f[a] = f[b] => a = b,
           \A id \in Ids : n[id] = 0 <=> f[id] = NoLabel
    PROVE  [label |-> f, size |-> n, cold |-> s] \in Tables
BY DEF Tables, Rows

\* A charge that a text may have is one that a row may have.
LEMMA SizesAreCharges == \A n \in Sizes : n \in 0..MaxSize /\ n # 0
BY BudgetAssumption DEF Sizes

\* Inserting a row with a fresh label.
LEMMA InsertRowProperties ==
    ASSUME NEW t \in Tables, NEW id \in Ids \ Rows(t), NEW l \in Labels,
           ByLabel(t, l) = {}, NEW n \in Sizes
    PROVE  /\ InsertRow(t, id, l, n) \in Tables
           /\ Rows(InsertRow(t, id, l, n)) = Rows(t) \cup {id}
           /\ InsertRow(t, id, l, n).label = [t.label EXCEPT ![id] = l]
           /\ InsertRow(t, id, l, n).size = [t.size EXCEPT ![id] = n]
<1> DEFINE f == [t.label EXCEPT ![id] = l]
           m == [t.size EXCEPT ![id] = n]
           s == Append(t.cold, id)
<1>1. l # NoLabel
  BY TierAssumption
<1>2. /\ s \in Seq(Ids) /\ NoRepeats(s) /\ Members(s) = Members(t.cold) \cup {id}
  BY TableIs, AppendNewKey
<1>3. f \in [Ids -> Labels \cup {NoLabel}]
  BY TableIs
<1>4. \A x \in Ids : f[x] = IF x = id THEN l ELSE t.label[x]
  BY TableIs
<1>5. {x \in Ids : f[x] # NoLabel} = Rows(t) \cup {id}
  BY <1>1, <1>4 DEF Rows
<1>6. \A a, b \in Ids : f[a] # NoLabel /\ f[a] = f[b] => a = b
  BY <1>1, <1>4, TableIs DEF Rows, ByLabel
<1>7. InsertRow(t, id, l, n) = [label |-> f, size |-> m, cold |-> s]
  BY DEF InsertRow
<1>8. Members(s) = {x \in Ids : f[x] # NoLabel}
  BY <1>2, <1>5, TableIs
<1>9. m \in Charges /\ \A x \in Ids : m[x] = IF x = id THEN n ELSE t.size[x]
  BY TableIs, SizesAreCharges DEF Charges
<1>10. \A x \in Ids : m[x] = 0 <=> f[x] = NoLabel
  BY <1>1, <1>4, <1>9, TableIs, SizesAreCharges DEF Rows
<1> HIDE DEF f, m, s
<1>11. InsertRow(t, id, l, n) \in Tables
  BY <1>2, <1>3, <1>6, <1>7, <1>8, <1>9, <1>10, ATable
<1>12. InsertRow(t, id, l, n).label = f /\ InsertRow(t, id, l, n).size = m
  BY <1>7
<1>13. Rows(InsertRow(t, id, l, n)) = Rows(t) \cup {id}
  BY <1>5, <1>12 DEF Rows
<1> QED
  BY <1>11, <1>12, <1>13 DEF f, m

\* Deleting a row.
LEMMA DeleteRowProperties ==
    ASSUME NEW t \in Tables, NEW id \in Ids
    PROVE  /\ DeleteRow(t, id) \in Tables
           /\ Rows(DeleteRow(t, id)) = Rows(t) \ {id}
           /\ DeleteRow(t, id).label = [t.label EXCEPT ![id] = NoLabel]
           /\ DeleteRow(t, id).size = [t.size EXCEPT ![id] = 0]
<1> DEFINE f == [t.label EXCEPT ![id] = NoLabel]
           m == [t.size EXCEPT ![id] = 0]
           s == Without(t.cold, id)
<1>2. /\ s \in Seq(Ids) /\ NoRepeats(s) /\ Members(s) = Members(t.cold) \ {id}
  BY TableIs, WithoutProperties
<1>3. f \in [Ids -> Labels \cup {NoLabel}]
  BY TableIs
<1>4. \A x \in Ids : f[x] = IF x = id THEN NoLabel ELSE t.label[x]
  BY TableIs
<1>5. {x \in Ids : f[x] # NoLabel} = Rows(t) \ {id}
  BY <1>4 DEF Rows
<1>6. \A a, b \in Ids : f[a] # NoLabel /\ f[a] = f[b] => a = b
  BY <1>4, TableIs DEF Rows
<1>7. DeleteRow(t, id) = [label |-> f, size |-> m, cold |-> s]
  BY DEF DeleteRow
<1>8. Members(s) = {x \in Ids : f[x] # NoLabel}
  BY <1>2, <1>5, TableIs
<1>9. m \in Charges /\ \A x \in Ids : m[x] = IF x = id THEN 0 ELSE t.size[x]
  BY TableIs, BudgetAssumption DEF Charges
<1>10. \A x \in Ids : m[x] = 0 <=> f[x] = NoLabel
  BY <1>4, <1>9, TableIs DEF Rows
<1> HIDE DEF f, m, s
<1>11. DeleteRow(t, id) \in Tables
  BY <1>2, <1>3, <1>6, <1>7, <1>8, <1>9, <1>10, ATable
<1>12. DeleteRow(t, id).label = f /\ DeleteRow(t, id).size = m
  BY <1>7
<1>13. Rows(DeleteRow(t, id)) = Rows(t) \ {id}
  BY <1>5, <1>12 DEF Rows
<1> QED
  BY <1>11, <1>12, <1>13 DEF f, m

\* Giving a row a fresh label and another text replaces no other row.
LEMMA ReplaceRowProperties ==
    ASSUME NEW t \in Tables, NEW id \in Rows(t), NEW l \in Labels,
           ByLabel(t, l) = {}, NEW n \in Sizes
    PROVE  /\ ReplaceRow(t, id, l, n) \in Tables
           /\ Rows(ReplaceRow(t, id, l, n)) = Rows(t)
           /\ ReplaceRow(t, id, l, n).label = [t.label EXCEPT ![id] = l]
           /\ ReplaceRow(t, id, l, n).size = [t.size EXCEPT ![id] = n]
<1> DEFINE others == {x \in Ids : x # id}
           f == [t.label EXCEPT ![id] = l]
           m == [t.size EXCEPT ![id] = n]
           kept == Among(t.cold, others)
           s == Append(kept, id)
<1>1. l # NoLabel /\ id \in Ids /\ \A x \in Ids : t.label[x] # l
  BY TierAssumption DEF ByLabel, Rows
<1>2. ReplaceRow(t, id, l, n) = [label |-> f, size |-> m, cold |-> s]
  <2> DEFINE replaced == {x \in Ids : x # id /\ t.label[x] = l}
             g == [x \in Ids |-> IF x = id THEN l
                                 ELSE IF x \in replaced THEN NoLabel ELSE t.label[x]]
             k == [x \in Ids |-> IF x = id THEN n
                                 ELSE IF x \in replaced THEN 0 ELSE t.size[x]]
             rest == {x \in Ids : x # id /\ x \notin replaced}
  <2>1. ReplaceRow(t, id, l, n)
            = [label |-> g, size |-> k, cold |-> Append(Among(t.cold, rest), id)]
    BY DEF ReplaceRow
  <2>2. replaced = {}
    BY <1>1
  <2>3. rest = others
    BY <2>2
  <2> HIDE DEF replaced
  <2>4. g = f /\ k = m
    BY <1>1, <2>2, TableIs DEF Charges
  <2> HIDE DEF g, k, rest, others, f, m
  <2> QED
    BY <2>1, <2>3, <2>4
<1>3. f \in [Ids -> Labels \cup {NoLabel}]
  BY <1>1, TableIs
<1>4. \A x \in Ids : f[x] = IF x = id THEN l ELSE t.label[x]
  BY <1>1, TableIs
<1>5. {x \in Ids : f[x] # NoLabel} = Rows(t)
  BY <1>1, <1>4 DEF Rows
<1>6. \A a, b \in Ids : f[a] # NoLabel /\ f[a] = f[b] => a = b
  BY <1>1, <1>4, TableIs DEF Rows
<1>7. m \in Charges /\ \A x \in Ids : m[x] = IF x = id THEN n ELSE t.size[x]
  BY TableIs, SizesAreCharges DEF Charges
<1>8. \A x \in Ids : m[x] = 0 <=> f[x] = NoLabel
  BY <1>1, <1>4, <1>7, TableIs, SizesAreCharges DEF Rows
<1>9. /\ kept \in Seq(Ids) /\ NoRepeats(kept)
      /\ Members(kept) = Members(t.cold) \cap others
  BY TableIs, AmongProperties
<1> HIDE DEF kept
<1>10. id \notin Members(kept)
  BY <1>9
<1>11. s \in Seq(Ids) /\ NoRepeats(s) /\ Members(s) = Members(kept) \cup {id}
  BY <1>1, <1>9, <1>10, AppendNewKey
<1>12. Members(s) = {x \in Ids : f[x] # NoLabel}
  BY <1>5, <1>9, <1>11, TableIs
<1> HIDE DEF f, m, s
<1> HIDE DEF others
<1>13. ReplaceRow(t, id, l, n) \in Tables
  <2>1. [label |-> f, size |-> m, cold |-> s] \in Tables
    BY ONLY <1>3, <1>6, <1>7, <1>8, <1>11, <1>12, ATable
  <2> QED
    BY <1>2, <2>1
<1>14. ReplaceRow(t, id, l, n).label = f /\ ReplaceRow(t, id, l, n).size = m
  BY <1>2
<1>15. Rows(ReplaceRow(t, id, l, n)) = Rows(t)
  BY <1>5, <1>14 DEF Rows
<1> QED
  BY <1>13, <1>14, <1>15 DEF f, m

\* Touching a row changes nothing but the order of the rows.
LEMMA TouchRowProperties ==
    ASSUME NEW t \in Tables, NEW id \in Rows(t)
    PROVE  /\ TouchRow(t, id) \in Tables
           /\ Rows(TouchRow(t, id)) = Rows(t)
           /\ TouchRow(t, id).label = t.label
           /\ TouchRow(t, id).size = t.size
<1> DEFINE f == t.label
           m == t.size
           kept == Without(t.cold, id)
           s == Append(kept, id)
<1>1. id \in Ids
  BY DEF Rows
<1>2. /\ kept \in Seq(Ids) /\ NoRepeats(kept)
      /\ Members(kept) = Members(t.cold) \ {id}
  BY <1>1, TableIs, WithoutProperties
<1>3. TouchRow(t, id) = [label |-> f, size |-> m, cold |-> s]
  BY DEF TouchRow, Tables
<1> HIDE DEF kept
<1>4. s \in Seq(Ids) /\ NoRepeats(s) /\ Members(s) = Members(kept) \cup {id}
  BY <1>1, <1>2, AppendNewKey
<1>5. Members(s) = Rows(t)
  BY <1>2, <1>4, TableIs
<1>6. /\ f \in [Ids -> Labels \cup {NoLabel}] /\ m \in Charges
      /\ Members(s) = {x \in Ids : f[x] # NoLabel}
      /\ \A a, b \in Ids : f[a] # NoLabel /\ f[a] = f[b] => a = b
      /\ \A x \in Ids : m[x] = 0 <=> f[x] = NoLabel
  BY <1>5, TableIs DEF Rows
<1> HIDE DEF f, m, s
<1>7. TouchRow(t, id) \in Tables
  BY <1>3, <1>4, <1>6, ATable
<1>8. TouchRow(t, id).label = f /\ TouchRow(t, id).size = m
  BY <1>3
<1> QED
  BY <1>7, <1>8 DEF f, m, Rows

\* The coldest row is a row.
LEMMA ColdestIsARow ==
    ASSUME NEW t \in Tables, t.cold # <<>>
    PROVE  Coldest(t) \in Rows(t)
<1>1. t.cold \in Seq(Ids) /\ Len(t.cold) \in Nat /\ Len(t.cold) # 0
  BY TableIs, EmptySeq, LenProperties
<1>2. Coldest(t) = t.cold[1] /\ 1 \in 1..Len(t.cold)
  BY <1>1 DEF Coldest
<1> QED
  BY <1>2, TableIs DEF Members

\* A table without an order has no row.
LEMMA NoColdNoRow ==
    ASSUME NEW t \in Tables, t.cold = <<>>
    PROVE  Rows(t) = {}
BY TableIs DEF Members

-----------------------------------------------------------------------------
(* The index *)

\* HnswIndex counts with the same operator.
LEMMA CountIs ==
    ASSUME NEW ix PROVE Count(ix) = Cardinality(Slots(ix))
<1>1. \A S : Hnsw!Cardinality(S) = Cardinality(S)
  BY DEF Hnsw!Cardinality, Cardinality
<1> QED
  BY <1>1 DEF Count, Slots, Hnsw!CurrentCount

\* The slots of an index are finitely many.
LEMMA IndexIs ==
    ASSUME NEW ix \in Indexes
    PROVE  /\ Slots(ix) \in SUBSET Labels /\ IsFiniteSet(Slots(ix))
           /\ Count(ix) \in Nat
           /\ Live(ix) \in SUBSET Slots(ix)
           /\ \A l \in Labels : l \in Live(ix) <=> ix.vec[l] \in Ids
<1>1. Slots(ix) \in SUBSET Labels
  BY DEF Slots, Hnsw!Slots
<1>2. IsFiniteSet(Labels)
  <2>1. 0 \in Int /\ MaxLabel \in Int
    BY TierAssumption
  <2>2. IsFiniteSet(0..MaxLabel)
    BY ONLY <2>1, FS_Interval
  <2> QED
    BY <2>2 DEF Labels
<1>3. IsFiniteSet(Slots(ix)) /\ Cardinality(Slots(ix)) \in Nat
  BY <1>1, <1>2, FS_Subset, FS_CardinalityType
<1>4. Count(ix) = Cardinality(Slots(ix))
  BY CountIs
<1>5. Live(ix) \in SUBSET Slots(ix)
  BY DEF Live, Slots, Hnsw!Live
<1>6. ix.vec \in [Labels -> Ids \cup {NoId, Tombstoned}]
  BY DEF Indexes
<1>7. \A l \in Labels : l \in Live(ix) <=> ix.vec[l] # NoId /\ ix.vec[l] # Tombstoned
  BY DEF Live, Hnsw!Live, Hnsw!Slots
<1>8. \A l \in Labels : l \in Live(ix) <=> ix.vec[l] \in Ids
  BY <1>6, <1>7, TierAssumption
<1> QED
  BY <1>1, <1>3, <1>4, <1>5, <1>8

\* Tombstoning a live vector frees no slot.
LEMMA MarkDeletedProperties ==
    ASSUME NEW ix \in Indexes, NEW l \in Live(ix)
    PROVE  /\ Hnsw!MarkDeleted(ix, l) \in Indexes
           /\ Hnsw!MarkDeleted(ix, l).vec = [ix.vec EXCEPT ![l] = Tombstoned]
           /\ Hnsw!MarkDeleted(ix, l).max = ix.max
           /\ Live(Hnsw!MarkDeleted(ix, l)) = Live(ix) \ {l}
           /\ Count(Hnsw!MarkDeleted(ix, l)) = Count(ix)
<1> DEFINE jx == Hnsw!MarkDeleted(ix, l)
<1>1. l \in Labels /\ l \in Slots(ix)
  BY IndexIs
<1>2. jx \in Indexes /\ jx.vec = [ix.vec EXCEPT ![l] = Tombstoned] /\ jx.max = ix.max
  BY <1>1 DEF Hnsw!MarkDeleted, Indexes
<1> HIDE DEF jx
<1>3. ix.vec \in [Labels -> Ids \cup {NoId, Tombstoned}]
  BY DEF Indexes
<1>4. \A m \in Labels : jx.vec[m] = IF m = l THEN Tombstoned ELSE ix.vec[m]
  BY <1>1, <1>2, <1>3
<1>5. Slots(jx) = Slots(ix)
  BY <1>1, <1>4, TierAssumption DEF Slots, Hnsw!Slots
<1>6. Live(jx) = Live(ix) \ {l}
  <2>1. Slots(ix) \in SUBSET Labels
    BY DEF Slots, Hnsw!Slots
  <2> QED
    BY <1>4, <1>5, <2>1 DEF Live, Slots, Hnsw!Live
<1>7. Count(jx) = Count(ix)
  BY <1>5, CountIs
<1> QED
  BY <1>2, <1>6, <1>7 DEF jx

\* Adding a vector takes one slot at most.
LEMMA AddItemProperties ==
    ASSUME NEW ix \in Indexes, NEW l \in Labels, NEW id \in Ids,
           Hnsw!CanAdd(ix, l), Count(ix) <= ix.max
    PROVE  /\ Hnsw!AddItem(ix, l, id) \in Indexes
           /\ Hnsw!AddItem(ix, l, id).vec = [ix.vec EXCEPT ![l] = id]
           /\ Hnsw!AddItem(ix, l, id).max = ix.max
           /\ Live(Hnsw!AddItem(ix, l, id)) = Live(ix) \cup {l}
           /\ Count(Hnsw!AddItem(ix, l, id)) <= ix.max
<1> DEFINE jx == Hnsw!AddItem(ix, l, id)
<1>1. id # NoId /\ id # Tombstoned
  BY TierAssumption
<1>2. jx \in Indexes /\ jx.vec = [ix.vec EXCEPT ![l] = id] /\ jx.max = ix.max
  BY DEF Hnsw!AddItem, Indexes
<1> HIDE DEF jx
<1>3. ix.vec \in [Labels -> Ids \cup {NoId, Tombstoned}] /\ ix.max \in Nat
  BY DEF Indexes
<1>4. \A m \in Labels : jx.vec[m] = IF m = l THEN id ELSE ix.vec[m]
  BY <1>2, <1>3
<1>5. Slots(jx) = Slots(ix) \cup {l}
  BY <1>1, <1>4 DEF Slots, Hnsw!Slots
<1>6. Live(jx) = Live(ix) \cup {l}
  BY <1>1, <1>4 DEF Live, Hnsw!Slots, Hnsw!Live
<1>7. IsFiniteSet(Slots(ix)) /\ Count(ix) \in Nat
  BY IndexIs
<1>8. Count(ix) = Cardinality(Slots(ix)) /\ Count(jx) = Cardinality(Slots(jx))
  BY CountIs
<1>9. CASE l \in Slots(ix)
  <2>1. Slots(jx) = Slots(ix)
    BY <1>5, <1>9
  <2> QED
    BY <1>2, <1>6, <1>8, <2>1 DEF jx
<1>10. CASE l \notin Slots(ix)
  <2>1. Count(ix) < ix.max
    BY <1>10 DEF Hnsw!CanAdd, Count, Slots
  <2>2. Cardinality(Slots(ix) \cup {l}) = Cardinality(Slots(ix)) + 1
    BY <1>7, <1>10, FS_AddElement
  <2>3. Count(jx) <= ix.max
    BY <1>3, <1>5, <1>7, <1>8, <2>1, <2>2
  <2> QED
    BY <1>2, <1>6, <2>3 DEF jx
<1> QED
  BY <1>9, <1>10

\* Resizing and loading change nothing but the number of slots allocated.
LEMMA ResizeProperties ==
    ASSUME NEW ix \in Indexes, NEW n \in Nat
    PROVE  /\ Hnsw!Resize(ix, n) \in Indexes
           /\ Hnsw!Resize(ix, n).vec = ix.vec
           /\ Hnsw!Resize(ix, n).max = n
           /\ Live(Hnsw!Resize(ix, n)) = Live(ix)
           /\ Count(Hnsw!Resize(ix, n)) = Count(ix)
<1> DEFINE jx == Hnsw!Resize(ix, n)
<1>1. jx \in Indexes /\ jx.vec = ix.vec /\ jx.max = n
  BY DEF Hnsw!Resize, Indexes
<1> HIDE DEF jx
<1>2. Live(jx) = Live(ix) /\ Count(jx) = Count(ix)
  BY <1>1 DEF Live, Count, Hnsw!Live, Hnsw!Slots, Hnsw!CurrentCount
<1> QED
  BY <1>1, <1>2 DEF jx

LEMMA LoadProperties ==
    ASSUME NEW ix \in Indexes, NEW n \in Nat
    PROVE  /\ Hnsw!Load(ix, n) \in Indexes
           /\ Hnsw!Load(ix, n).vec = ix.vec
           /\ Hnsw!Load(ix, n).max = IF n >= Count(ix) THEN n ELSE ix.max
           /\ Live(Hnsw!Load(ix, n)) = Live(ix)
           /\ Count(Hnsw!Load(ix, n)) = Count(ix)
<1> DEFINE jx == Hnsw!Load(ix, n)
<1>1. jx \in Indexes /\ jx.vec = ix.vec /\ jx.max = IF n >= Count(ix) THEN n ELSE ix.max
  BY DEF Hnsw!Load, Indexes, Count
<1> HIDE DEF jx
<1>2. Live(jx) = Live(ix) /\ Count(jx) = Count(ix)
  BY <1>1 DEF Live, Count, Hnsw!Live, Hnsw!Slots, Hnsw!CurrentCount
<1> QED
  BY <1>1, <1>2 DEF jx

\* A new index is empty.
LEMMA NewIndexProperties ==
    ASSUME NEW n \in Nat
    PROVE  /\ Hnsw!NewIndex(n) \in Indexes
           /\ Hnsw!NewIndex(n).max = n
           /\ Live(Hnsw!NewIndex(n)) = {}
           /\ Count(Hnsw!NewIndex(n)) = 0
<1> DEFINE jx == Hnsw!NewIndex(n)
<1>1. jx \in Indexes /\ jx.max = n /\ jx.vec = [l \in Labels |-> NoId]
  BY DEF Hnsw!NewIndex, Indexes
<1> HIDE DEF jx
<1>2. Slots(jx) = {} /\ Live(jx) = {}
  BY <1>1 DEF Slots, Live, Hnsw!Slots, Hnsw!Live
<1>3. Count(jx) = 0
  BY <1>2, FS_EmptySet, CountIs
<1> QED
  BY <1>1, <1>2, <1>3 DEF jx

-----------------------------------------------------------------------------
(* Counting rows, sizes of an index *)

\* The rows are finitely many; one more or one fewer counts as one.
LEMMA RowsCount ==
    ASSUME NEW S \in SUBSET Ids
    PROVE  /\ IsFiniteSet(S) /\ Cardinality(S) \in Nat
           /\ Cardinality(S) = 0 <=> S = {}
           /\ \A id \in Ids \ S : Cardinality(S \cup {id}) = Cardinality(S) + 1
           /\ \A id \in S : Cardinality(S \ {id}) = Cardinality(S) - 1
<1>1. IsFiniteSet(S)
  BY BudgetAssumption, FS_Subset
<1>2. Cardinality(S) \in Nat /\ (Cardinality(S) = 0 <=> S = {})
  BY <1>1, FS_CardinalityType, FS_EmptySet
<1>3. \A id \in Ids \ S : Cardinality(S \cup {id}) = Cardinality(S) + 1
  BY <1>1, FS_AddElement
<1>4. \A id \in S : Cardinality(S \ {id}) = Cardinality(S) - 1
  BY <1>1, FS_RemoveElement
<1> QED
  BY <1>1, <1>2, <1>3, <1>4

\* Rows that have each a slot of their own are no more than the slots.
LEMMA RowsHaveSlots ==
    ASSUME NEW t \in Tables, NEW ix \in Indexes,
           \A id \in Rows(t) : t.label[id] \in Live(ix)
    PROVE  Cardinality(Rows(t)) <= Count(ix)
<1> DEFINE f == [id \in Rows(t) |-> t.label[id]]
<1>1. f \in [Rows(t) -> Slots(ix)]
  BY IndexIs
<1>2. \A a, b \in Rows(t) : f[a] = f[b] => a = b
  BY TableIs
<1>3. f \in Injection(Rows(t), Slots(ix))
  BY <1>1, <1>2 DEF Injection, IsInjective
<1>4. IsFiniteSet(Slots(ix))
  BY IndexIs
<1>5. Cardinality(Rows(t)) <= Cardinality(Slots(ix))
  BY <1>3, <1>4, FS_Injection
<1> QED
  BY <1>5, CountIs

\* Growing makes the index larger, and a tier that starts from the slots in use
\* gains a free one.
LEMMA GrownSizeGrows ==
    ASSUME maxElements \in Nat \ {0}, index \in Indexes
    PROVE  /\ GrownSize \in Nat \ {0} /\ GrownSize > maxElements
           /\ AdoptsCapacity => GrownSize > Count(index)
<1>1. Count(index) \in Nat /\ Headroom \in Nat \ {0}
  BY IndexIs, TierAssumption
<1>2. GrowBase \in Nat \ {0} /\ GrowBase >= maxElements
      /\ (AdoptsCapacity => GrowBase >= Count(index))
  BY <1>1 DEF GrowBase, MaxOf, Count
<1>3. GrownSize \in Nat \ {0} /\ GrownSize >= GrowBase + Headroom
  BY <1>1, <1>2 DEF GrownSize, MaxOf
<1> QED
  BY <1>1, <1>2, <1>3

\* The label after the last is above every row's.
LEMMA LabelAfterLastIsAbove ==
    ASSUME NEW t \in Tables
    PROVE  /\ LabelAfterLast(t) \in 0..(MaxLabel + 1)
           /\ \A id \in Rows(t) : t.label[id] < LabelAfterLast(t)
<1>0. MaxLabel \in Nat
  BY TierAssumption
<1>1. CASE Rows(t) = {}
  BY <1>0, <1>1 DEF LabelAfterLast
<1>2. CASE Rows(t) # {}
  <2> DEFINE ls == {t.label[id] : id \in Rows(t)}
             ms == {MaxLabel - l : l \in ls}
             Largest(l) == l \in ls /\ \A id \in Rows(t) : t.label[id] <= l
  <2>1. ls \in SUBSET Labels /\ ls # {}
    BY <1>2, TableIs
  <2>2. ms \in SUBSET Nat /\ ms # {}
    <3> HIDE DEF ls
    <3>1. \A l \in ls : MaxLabel - l \in Nat
      BY <1>0, <2>1 DEF Labels
    <3> QED
      BY <2>1, <3>1
  <2>3. PICK n \in ms : \A m \in ms : n <= m
    BY <2>2, Smallest
  <2>4. PICK l \in ls : n = MaxLabel - l
    BY <2>3
  <2>5. \A id \in Rows(t) : t.label[id] \in Labels /\ MaxLabel - t.label[id] \in ms
    BY TableIs
  <2>6. l \in Labels
    BY <2>1
  <2>7. Largest(l)
    <3> SUFFICES ASSUME NEW id \in Rows(t) PROVE t.label[id] <= l
      OBVIOUS
    <3> DEFINE m == t.label[id]
    <3>1. m \in Labels /\ MaxLabel - m \in ms
      BY <2>5
    <3> HIDE DEF m, ms
    <3>2. MaxLabel - l <= MaxLabel - m
      BY <2>3, <2>4, <3>1
    <3> QED
      BY <1>0, <2>6, <3>1, <3>2 DEF Labels, m
  <2>8. LabelAfterLast(t) = 1 + CHOOSE x : Largest(x)
    BY <1>2 DEF LabelAfterLast
  <2>9. Largest(CHOOSE x : Largest(x))
    BY <2>7
  <2> DEFINE c == CHOOSE x : Largest(x)
  <2>10. Largest(c) /\ LabelAfterLast(t) = 1 + c
    BY <2>8, <2>9
  <2> HIDE DEF c
  <2>11. c \in 0..MaxLabel /\ \A id \in Rows(t) : t.label[id] <= c
    BY <2>1, <2>10 DEF Labels
  <2>12. \A id \in Rows(t) : t.label[id] \in 0..MaxLabel
    BY <2>5 DEF Labels
  <2> QED
    BY <1>0, <2>10, <2>11, <2>12
<1> QED
  BY <1>1, <1>2

-----------------------------------------------------------------------------
(* The two halves of an operation *)

\* Free is an operation that does nothing.
LEMMA FreeIs ==
    /\ Free \in Writers /\ Free.pc = "idle" /\ Free.evicted = <<>>
    /\ Free.fitted = 0
BY BudgetAssumption, EmptySeq DEF Free, Writers, Phases

\* Rows without a vector, outside the operation's own row, come only from
\* metadata calls that raise.
LEMMA NoMoreOrphans ==
    ASSUME TierInv, crashes = 0, Orphaned' \ Pending' \subseteq Orphaned \ Pending,
           faults' = faults
    PROVE  Cardinality(Orphaned' \ Pending') <= faults'
<1> DEFINE S == Orphaned \ Pending
           T == Orphaned' \ Pending'
<1>1. S \in SUBSET Ids /\ T \subseteq S /\ faults \in Nat
  <2>1. Rows(table) \in SUBSET Ids /\ faults \in Nat
    BY TableIs, TierAssumption DEF TierInv, Typed
  <2> QED
    BY <2>1 DEF Orphaned
<1>2. Cardinality(S) <= faults
  BY DEF TierInv, Synced
<1> HIDE DEF S, T
<1>3. IsFiniteSet(S) /\ Cardinality(S) \in Nat
  BY <1>1, RowsCount
<1>4. Cardinality(T) \in Nat /\ Cardinality(T) <= Cardinality(S)
  BY <1>1, <1>3, FS_Subset, RowsCount
<1>5. Cardinality(T) <= faults
  BY <1>1, <1>2, <1>3, <1>4
<1> QED
  BY <1>5 DEF T

\* First half: a row's vector is tombstoned.
LEMMA TombstoneHalf ==
    ASSUME TierInv, up, Pending = {}, NEW v \in Rows(table),
           Hnsw!CanMarkDeleted(index, table.label[v]),
           index' = Hnsw!MarkDeleted(index, table.label[v]),
           writer' \in Writers, Pending' = {v},
           UNCHANGED <<up, table, image, maxElements, nextLabel, reader, lost,
                       crashes, faults, lengthened>>
    PROVE  /\ Typed' /\ LabelsBelow' /\ Synced' /\ Returned' /\ Truthful'
           /\ Count(index') = Count(index) /\ index'.max = index.max
<1> DEFINE l == table.label[v]
<1>1. table \in Tables /\ index \in Indexes
  BY DEF TierInv, Typed
<1>2. l \in Live(index)
  BY DEF Hnsw!CanMarkDeleted, Live
<1>3. /\ index' \in Indexes
      /\ index'.vec = [index.vec EXCEPT ![l] = Tombstoned]
      /\ index'.max = index.max
      /\ Live(index') = Live(index) \ {l}
      /\ Count(index') = Count(index)
  BY <1>1, <1>2, MarkDeletedProperties
<1>4. /\ Typed' /\ LabelsBelow' /\ Returned' /\ Truthful'
  BY <1>3 DEF TierInv, Typed, LabelsBelow, Returned, Truthful
<1>5. Synced'
  <2> SUFFICES ASSUME crashes = 0 PROVE Synced'
    BY DEF Synced
  <2>1. \A m \in Live(index) :
            \E id \in Rows(table) : table.label[id] = m /\ index.vec[m] = id
    BY DEF TierInv, Synced, Held
  <2>2. /\ \A id \in Rows(table) : table.label[id] \in Labels
        /\ index.vec \in [Labels -> Ids \cup {NoId, Tombstoned}]
        /\ Live(index) \in SUBSET Labels
    BY <1>1, TableIs, IndexIs DEF Indexes
  <2>3. \A m \in Live(index') : m \in Labels /\ index'.vec[m] = index.vec[m]
    BY <1>3, <2>2
  <2>4. \A m \in Live(index') :
            \E id \in Rows(table) \ {v} : table.label[id] = m /\ index'.vec[m] = id
    BY <1>3, <2>1, <2>3
  <2>5. Orphaned' \ Pending' \subseteq Orphaned \ Pending
    <3>1. \A id \in Rows(table) \ {v} : table.label[id] # l
      BY <1>1, TableIs
    <3>2. /\ Orphaned = {id \in Rows(table) : table.label[id] \notin Live(index)}
          /\ Orphaned' = {id \in Rows(table) : table.label[id] \notin Live(index')}
      BY DEF Orphaned, Held
    <3> QED
      BY <1>3, <3>1, <3>2
  <2>6. Cardinality(Orphaned' \ Pending') <= faults'
    BY <2>5, NoMoreOrphans
  <2> QED
    BY <2>4, <2>6 DEF Synced, Held
<1> QED
  BY <1>3, <1>4, <1>5

\* Second half: the row is deleted.
LEMMA DropHalf ==
    ASSUME TierInv, up, NEW v \in Ids, Pending = {v},
           table' = DeleteRow(table, v),
           writer' \in Writers, Pending' = {},
           lost' \in SUBSET Ids,
           UNCHANGED <<up, index, image, maxElements, nextLabel, reader, crashes, faults,
                       lengthened>>
    PROVE  Typed' /\ LabelsBelow' /\ Synced' /\ Truthful'
<1>1. table \in Tables
  BY DEF TierInv, Typed
<1>2. /\ table' \in Tables
      /\ Rows(table') = Rows(table) \ {v}
      /\ table'.label = [table.label EXCEPT ![v] = NoLabel]
  BY <1>1, DeleteRowProperties
<1>3. \A id \in Rows(table') : table'.label[id] = table.label[id]
  BY <1>1, <1>2, TableIs
<1>4. Typed'
  BY <1>2 DEF TierInv, Typed
<1>5. LabelsBelow'
  BY <1>2, <1>3 DEF TierInv, LabelsBelow
<1>6. Synced'
  <2>1. CASE crashes = 0
    <3>1. \A m \in Live(index) :
              \E id \in Rows(table') : table.label[id] = m /\ index.vec[m] = id
      BY <1>2, <2>1 DEF TierInv, Synced, Held
    <3>2. Orphaned' \ Pending' \subseteq Orphaned \ Pending
      <4>1. /\ Orphaned = {id \in Rows(table) : table.label[id] \notin Live(index)}
            /\ Orphaned' = {id \in Rows(table') : table'.label[id] \notin Live(index)}
        BY DEF Orphaned, Held
      <4> QED
        BY <1>2, <1>3, <4>1
    <3>3. Cardinality(Orphaned' \ Pending') <= faults'
      BY <2>1, <3>2, NoMoreOrphans
    <3> QED
      BY <1>3, <3>1, <3>3 DEF Synced, Held
  <2>2. CASE crashes # 0
    BY <2>2 DEF Synced
  <2> QED
    BY <2>1, <2>2
<1>7. Truthful'
  <2>1. ASSUME NEW f \in reader.found, NEW id \in ByLabel(table', f[1])
        PROVE  id = f[2]
    <3>1. f[1] \in Labels /\ NoLabel \notin Labels
      BY TierAssumption DEF TierInv, Typed, Readers
    <3>2. id \in ByLabel(table, f[1])
      BY <1>1, <1>2, <3>1, TableIs DEF ByLabel
    <3> QED
      BY <3>2 DEF TierInv, Truthful
  <2> QED
    BY <2>1 DEF TierInv, Truthful
<1> QED
  BY <1>4, <1>5, <1>6, <1>7

\* An operation that is refused before it has changed a store changes nothing;
\* what it has evicted is gone only after a crash or a metadata call that raised.
LEMMA RaiseStep ==
    ASSUME TierInv, up, Pending = {}, Idle \/ crashes # 0 \/ faults # 0, Raise,
           UNCHANGED <<up, table, index, image, maxElements, nextLabel, reader,
                       crashes, faults, lengthened>>
    PROVE  TierInv'
<1>1. writer' = Free /\ lost' = lost \cup Members(writer.evicted)
  BY DEF Raise
<1>2. writer' \in Writers /\ writer'.pc = "idle" /\ writer'.evicted = <<>>
  BY <1>1, FreeIs
<1>3. lost' \in SUBSET Ids
  BY <1>1 DEF TierInv, Typed, Writers, Members
<1>4. crashes = 0 /\ faults = 0 => lost' = lost
  BY <1>1 DEF TierInv, Working, Idle, Members
<1>5. Typed' /\ LabelsBelow' /\ Returned' /\ Truthful'
  BY <1>2, <1>3, <1>4 DEF TierInv, Typed, LabelsBelow, Returned, Truthful
<1>6. Working' /\ Roomy'
  BY <1>2 DEF TierInv, Working, Roomy, Idle, Inserting, Updating, Dropping
<1>7. Pending' = {}
  BY <1>2 DEF Pending, Dropping
<1>8. Synced'
  <2>1. Orphaned' = Orphaned
    BY DEF Orphaned, Held
  <2> QED
    BY <1>7, <2>1 DEF TierInv, Synced, Held
<1>9. Paying'
  BY <1>2 DEF TierInv, Paying, Idle, BytesEstimate, LiveCount
<1> QED
  BY <1>5, <1>6, <1>8, <1>9 DEF TierInv

-----------------------------------------------------------------------------
(* The steps of insert() and remove() *)

\* The texts that insert() brings are charged what a text may be.
LEMMA TextIsCharged ==
    ASSUME NEW id \in Ids, NEW n \in Lengths[id]
    PROVE  n \in Sizes /\ n \in 0..MaxSize
<1>1. n \in Sizes
  BY TierAssumption
<1> QED
  BY <1>1, SizesAreCharges

\* An operation on memory id that has just begun.
Begun(p, id, n) == [Free EXCEPT !.pc = p, !.id = id, !.size = n]

LEMMA BegunIs ==
    ASSUME NEW p \in Phases, NEW id \in Ids, NEW n \in 0..MaxSize
    PROVE  /\ Begun(p, id, n) \in Writers
           /\ Begun(p, id, n).pc = p /\ Begun(p, id, n).id = id
           /\ Begun(p, id, n).size = n
           /\ Begun(p, id, n).evicted = <<>> /\ Begun(p, id, n).fitted = 0
<1> DEFINE f == Free
           w == Begun(p, id, n)
<1>1. /\ f \in Writers /\ f.label = NoLabel /\ f.victim = NoId
      /\ f.evicted = <<>> /\ f.fitted = 0
  BY FreeIs DEF Free
<1>2. w = [f EXCEPT !.pc = p, !.id = id, !.size = n]
  BY DEF Begun
<1> HIDE DEF w, f
<1>3. w = [pc |-> p, id |-> id, size |-> n, label |-> f.label,
           victim |-> f.victim, evicted |-> f.evicted, fitted |-> f.fitted]
  BY <1>1, <1>2 DEF Writers
<1>4. w \in Writers
  BY <1>1, <1>3 DEF Writers
<1> QED
  BY <1>1, <1>3, <1>4 DEF w

LEMMA UpdateStartStep ==
    ASSUME TierInv, NEW id \in Ids, NEW n \in Lengths[id],
           UpdateStart(id, n)
    PROVE  TierInv'
<1>1. /\ up /\ Idle /\ id \in Rows(table) /\ nextLabel <= MaxLabel
      /\ UNCHANGED <<up, table, image, maxElements, nextLabel, reader, crashes, faults,
                     lengthened>>
  BY DEF UpdateStart
<1>2. Pending = {}
  BY <1>1 DEF Pending, Idle, Dropping
<1>3. CASE Hnsw!CanMarkDeleted(index, table.label[id])
  <2>1. /\ index' = Hnsw!MarkDeleted(index, table.label[id])
        /\ writer' = [Free EXCEPT !.pc = "upsert", !.id = id, !.size = n]
        /\ lost' = lost
    BY <1>3 DEF UpdateStart
  <2>2. /\ writer' \in Writers /\ writer'.pc = "upsert" /\ writer'.id = id
        /\ writer'.size = n /\ n \in Sizes /\ writer'.evicted = <<>>
    <3>1. "upsert" \in Phases /\ n \in Sizes /\ n \in 0..MaxSize
      BY TextIsCharged DEF Phases, Updating
    <3>2. writer' = Begun("upsert", id, n)
      BY <2>1 DEF Begun
    <3> QED
      BY <3>1, <3>2, BegunIs
  <2>3. Pending' = {id}
    BY <2>2 DEF Pending
  <2>4. /\ Typed' /\ LabelsBelow' /\ Synced' /\ Returned' /\ Truthful'
        /\ Count(index') = Count(index) /\ index'.max = index.max
    BY <1>1, <1>2, <1>3, <2>1, <2>2, <2>3, TombstoneHalf
  <2>5. Working'
    BY <1>1, <2>2 DEF TierInv, Working, Idle, Dropping, Inserting
  <2>6. Roomy'
    BY <1>1, <2>2, <2>4 DEF TierInv, Roomy, Inserting
  <2>7. Paying'
    BY <1>1, <2>2 DEF TierInv, Paying, Idle, BytesEstimate, LiveCount
  <2> QED
    BY <2>4, <2>5, <2>6, <2>7 DEF TierInv
<1>4. CASE ~Hnsw!CanMarkDeleted(index, table.label[id])
  <2>1. Raise /\ index' = index
    BY <1>4 DEF UpdateStart
  <2> QED
    BY <1>1, <1>2, <2>1, RaiseStep
<1> QED
  BY <1>3, <1>4

\* The label about to be handed out is nobody's.
LEMMA NextLabelIsFree ==
    ASSUME Typed, LabelsBelow, up, nextLabel <= MaxLabel
    PROVE  nextLabel \in Labels /\ ByLabel(table, nextLabel) = {}
<1>1. nextLabel \in Labels /\ nextLabel # NoLabel
  BY TierAssumption DEF Typed, Labels
<1>2. \A x \in Rows(table) : table.label[x] < nextLabel
  BY DEF LabelsBelow
<1> QED
  BY <1>1, <1>2 DEF ByLabel, Rows, Labels

\* Handing it out to a row changes nothing for a query that runs.
LEMMA FoundRowsStay ==
    ASSUME TierInv, nextLabel \in Labels, nextLabel' = nextLabel + 1,
           reader' = reader, up' = up, crashes' = crashes, NEW id \in Ids,
           table'.label = [table.label EXCEPT ![id] = nextLabel]
    PROVE  Truthful'
<1>1. ASSUME NEW f \in reader.found
      PROVE  f[1] < nextLabel' /\ \A x \in ByLabel(table', f[1]) : x = f[2]
  <2>1. f[1] \in Labels /\ f[1] < nextLabel
    BY DEF TierInv, Typed, Readers, Truthful
  <2>2. f[1] < nextLabel'
    BY <2>1 DEF Labels
  <2>3. table.label \in [Ids -> Labels \cup {NoLabel}]
    BY TableIs DEF TierInv, Typed
  <2>4. \A x \in ByLabel(table', f[1]) : x \in ByLabel(table, f[1])
    BY <2>1, <2>3 DEF ByLabel, Labels
  <2> QED
    BY <2>2, <2>4 DEF TierInv, Truthful
<1> QED
  BY <1>1 DEF TierInv, Truthful

LEMMA UpdateRowStep ==
    ASSUME TierInv, UpdateRow
    PROVE  TierInv'
<1> DEFINE id == writer.id
<1>1. /\ writer.pc = "upsert"
      /\ table' = ReplaceRow(table, id, nextLabel, writer.size)
      /\ nextLabel' = nextLabel + 1
      /\ writer' = [writer EXCEPT !.pc = "re-add", !.label = nextLabel]
      /\ lengthened' = (lengthened \/ writer.size > table.size[id])
      /\ UNCHANGED <<up, index, image, maxElements, reader, lost, crashes, faults>>
  BY DEF UpdateRow, FreshLabel
<1>2. /\ table \in Tables /\ id \in Rows(table) /\ nextLabel \in Labels /\ up
      /\ writer \in Writers /\ writer.evicted = <<>> /\ Pending = {id}
      /\ writer.size \in Sizes
  BY <1>1, TierAssumption DEF TierInv, Typed, Working, Labels, Idle, Pending, Updating
<1>3. \A x \in Rows(table) : table.label[x] < nextLabel
  BY <1>2 DEF TierInv, LabelsBelow
<1>4. ByLabel(table, nextLabel) = {}
  BY <1>1, <1>2, NextLabelIsFree DEF TierInv, Working
<1>5. /\ table' \in Tables
      /\ Rows(table') = Rows(table)
      /\ table'.label = [table.label EXCEPT ![id] = nextLabel]
      /\ table'.size = [table.size EXCEPT ![id] = writer.size]
  BY <1>1, <1>2, <1>4, ReplaceRowProperties
<1>6. /\ writer' \in Writers /\ writer'.pc = "re-add" /\ writer'.id = id
      /\ writer'.label = nextLabel /\ writer'.evicted = <<>>
  BY <1>1, <1>2 DEF Writers, Phases, Updating
<1>7. id \in Ids
  BY <1>2, TableIs
<1>8. \A x \in Ids : table'.label[x] = IF x = id THEN nextLabel ELSE table.label[x]
  <2>1. table.label \in [Ids -> Labels \cup {NoLabel}]
    BY <1>2, TableIs
  <2> QED
    BY <1>5, <2>1
<1>9. Typed'
  BY <1>1, <1>2, <1>5, <1>6, TierAssumption DEF TierInv, Typed, Labels
<1>10. Working'
  BY <1>1, <1>2, <1>5, <1>6, <1>7, <1>8
     DEF TierInv, Working, Dropping, Idle, Inserting
<1>11. LabelsBelow'
  BY <1>1, <1>2, <1>3, <1>5, <1>8, TableIs DEF LabelsBelow, Labels
<1>12. Roomy'
  BY <1>1, <1>6 DEF TierInv, Roomy, Inserting
<1>13. Pending' = {id}
  BY <1>6 DEF Pending
<1>14. Synced'
  <2>1. CASE crashes = 0
    <3>1. \A m \in Live(index) :
              \E x \in Rows(table) \ {id} : table.label[x] = m /\ index.vec[m] = x
      BY <1>2, <2>1 DEF TierInv, Synced, Held
    <3>2. \A x \in Rows(table) \ {id} : table'.label[x] = table.label[x]
      BY <1>2, <1>8, TableIs
    <3>3. Orphaned' \ Pending' \subseteq Orphaned \ Pending
      <4>1. /\ Orphaned = {x \in Rows(table) : table.label[x] \notin Live(index)}
            /\ Orphaned' = {x \in Rows(table) : table'.label[x] \notin Live(index)}
        BY <1>1, <1>2, <1>5 DEF Orphaned, Held
      <4> QED
        BY <1>2, <1>13, <3>2, <4>1
    <3>4. Cardinality(Orphaned' \ Pending') <= faults'
      BY <1>1, <2>1, <3>3, NoMoreOrphans
    <3> QED
      BY <1>1, <1>2, <1>5, <1>13, <3>1, <3>2, <3>4 DEF Synced, Held
  <2>2. CASE crashes # 0
    BY <1>1, <2>2 DEF Synced
  <2> QED
    BY <2>1, <2>2
<1>15. Paying'
  <2>1. ~lengthened' => BytesEstimate' <= BytesEstimate
    <3> SUFFICES ASSUME ~lengthened' PROVE BytesEstimate' <= BytesEstimate
      OBVIOUS
    <3>1. table.size \in Charges /\ table'.size \in Charges /\ Rows(table) \in SUBSET Ids
      BY <1>2, <1>5, TableIs
    <3>2. writer.size <= table.size[id]
      <4>1. ~(writer.size > table.size[id])
        BY <1>1
      <4>2. writer.size \in Nat /\ table.size[id] \in Nat
        BY <1>2, <1>7, <3>1, SizesAreCharges DEF Charges
      <4> QED
        BY <4>1, <4>2
    <3>3. \A x \in Rows(table) : table'.size[x] <= table.size[x]
      BY <1>5, <3>1, <3>2 DEF Charges
    <3> QED
      BY <1>5, <3>1, <3>3, BytesCheaper DEF BytesEstimate
  <2>2. BytesEstimate \in Nat /\ BytesEstimate' \in Nat /\ Capacity \in Nat
    BY <1>2, <1>5, TableIs, BytesType, TierAssumption DEF BytesEstimate
  <2>3. ~lengthened' => ~lengthened
    BY <1>1
  <2>4. crashes' = 0 /\ faults' = 0 /\ ~lengthened' => BytesEstimate' <= Capacity
    BY <1>1, <2>1, <2>2, <2>3 DEF TierInv, Paying
  <2> QED
    BY <1>6, <2>4 DEF Paying
<1>16. Returned'
  BY <1>1 DEF TierInv, Returned
<1>17. Truthful'
  BY <1>1, <1>2, <1>5, <1>7, FoundRowsStay
<1> QED
  BY <1>9, <1>10, <1>11, <1>12, <1>14, <1>15, <1>16, <1>17 DEF TierInv

LEMMA InsertStartStep ==
    ASSUME TierInv, NEW id \in Ids, NEW n \in Lengths[id],
           InsertStart(id, n)
    PROVE  TierInv'
<1>1. /\ up /\ Idle /\ id \in Ids \ Rows(table) /\ nextLabel <= MaxLabel
      /\ UNCHANGED <<up, table, image, nextLabel, reader, crashes, faults,
                     lengthened>>
  BY DEF InsertStart
<1>2. /\ index \in Indexes /\ Count(index) \in Nat /\ maxElements \in Nat \ {0}
      /\ Pending = {} /\ writer \in Writers /\ table \in Tables
  BY <1>1, IndexIs DEF TierInv, Typed, Pending, Idle, Dropping
<1>3. ASSUME writer' = [Free EXCEPT !.pc = "logical", !.id = id, !.size = n],
             lost' = lost,
             index' \in Indexes, index'.vec = index.vec, Live(index') = Live(index),
             maxElements' \in Nat \ {0},
             Count(index') <= index'.max, maxElements' <= index'.max,
             Count(index') <= maxElements',
             AdoptsCapacity => Count(index') < maxElements'
      PROVE  TierInv'
  <2>1. /\ writer' \in Writers /\ writer'.pc = "logical" /\ writer'.id = id
        /\ writer'.size = n /\ n \in Sizes
        /\ writer'.evicted = <<>> /\ writer'.fitted = 0
    <3>1. "logical" \in Phases /\ n \in Sizes /\ n \in 0..MaxSize
      BY TextIsCharged DEF Phases, Inserting
    <3>2. writer' = Begun("logical", id, n)
      BY <1>3 DEF Begun
    <3> QED
      BY <3>1, <3>2, BegunIs
  <2>2. Pending' = {}
    BY <2>1 DEF Pending, Dropping
  <2>3. Typed' /\ LabelsBelow' /\ Returned' /\ Truthful'
    BY <1>1, <1>3, <2>1 DEF TierInv, Typed, LabelsBelow, Returned, Truthful
  <2>4. Working'
    BY <1>1, <2>1 DEF TierInv, Working, Idle, Dropping, Updating
  <2>5. Roomy'
    BY <1>1, <1>3 DEF TierInv, Roomy
  <2>6. Synced'
    <3>1. Orphaned' = Orphaned
      BY <1>1, <1>3 DEF Orphaned, Held
    <3> QED
      BY <1>1, <1>2, <1>3, <2>2, <3>1 DEF TierInv, Synced, Held
  <2>7. Paying'
    BY <1>1, <2>1 DEF TierInv, Paying, Idle, BytesEstimate, LiveCount
  <2> QED
    BY <2>3, <2>4, <2>5, <2>6, <2>7 DEF TierInv
<1>4. CASE ~PhysicallyFull
  <2>1. /\ writer' = [Free EXCEPT !.pc = "logical", !.id = id, !.size = n]
        /\ index' = index /\ maxElements' = maxElements /\ lost' = lost
    BY <1>4 DEF InsertStart
  <2>2. Count(index) < maxElements
    BY <1>2, <1>4 DEF PhysicallyFull, Count
  <2>3. Count(index) <= index.max /\ maxElements <= index.max
    BY <1>1 DEF TierInv, Roomy
  <2> QED
    BY <1>2, <1>3, <2>1, <2>2, <2>3
<1>5. CASE PhysicallyFull /\ Hnsw!CanResize(index, GrownSize)
  <2>1. /\ writer' = [Free EXCEPT !.pc = "logical", !.id = id, !.size = n]
        /\ index' = Hnsw!Resize(index, GrownSize)
        /\ maxElements' = GrownSize /\ lost' = lost
    BY <1>5 DEF InsertStart
  <2>2. /\ GrownSize \in Nat \ {0}
        /\ AdoptsCapacity => GrownSize > Count(index)
    BY <1>2, GrownSizeGrows
  <2>3. GrownSize >= Count(index)
    BY <1>5 DEF Hnsw!CanResize, Count
  <2>4. /\ index' \in Indexes /\ index'.vec = index.vec /\ index'.max = GrownSize
        /\ Live(index') = Live(index) /\ Count(index') = Count(index)
    BY <1>2, <2>1, <2>2, ResizeProperties
  <2> QED
    BY <1>2, <1>3, <2>1, <2>2, <2>3, <2>4
<1>6. CASE PhysicallyFull /\ ~Hnsw!CanResize(index, GrownSize)
  <2>1. Raise /\ index' = index /\ maxElements' = maxElements
    BY <1>6 DEF InsertStart
  <2> QED
    BY <1>1, <1>2, <2>1, RaiseStep
<1> QED
  BY <1>4, <1>5, <1>6

\* Before a crash, and before a metadata call has raised, an operation that is
\* between its two halves for no row finds the vector of each row alive, and as
\* many slots as rows at least.
LEMMA RowsAreLive ==
    ASSUME TierInv, up, Pending = {}, crashes = 0, faults = 0
    PROVE  /\ \A id \in Rows(table) : Hnsw!CanMarkDeleted(index, table.label[id])
           /\ LiveCount <= Count(index)
<1>1. \A id \in Rows(table) : table.label[id] \in Live(index)
  <2>1. Cardinality(Orphaned) <= 0 /\ Orphaned \in SUBSET Ids
    <3>1. Rows(table) \in SUBSET Ids
      BY TableIs DEF TierInv, Typed
    <3> QED
      BY <3>1 DEF TierInv, Synced, Orphaned
  <2>2. Orphaned = {}
    BY <2>1, RowsCount
  <2> QED
    BY <2>2 DEF Orphaned, Held
<1>2. LiveCount <= Count(index)
  BY <1>1, RowsHaveSlots DEF TierInv, Typed, LiveCount
<1> QED
  BY <1>1, <1>2 DEF Hnsw!CanMarkDeleted, Live

LEMMA PreEvictStep ==
    ASSUME TierInv, PreEvict
    PROVE  TierInv'
<1> DEFINE v == Coldest(table)
           w == [writer EXCEPT !.pc = "logical-drop", !.victim = v]
<1>1. /\ writer.pc = "logical"
      /\ UNCHANGED <<up, table, image, maxElements, nextLabel, reader, crashes, faults,
                     lengthened>>
  BY DEF PreEvict
<1>2. /\ up /\ Pending = {} /\ writer \in Writers /\ table \in Tables
      /\ maxElements \in Nat \ {0} /\ index \in Indexes
  BY <1>1 DEF TierInv, Typed, Working, Idle, Pending, Dropping
<1>3. LiveCount \in Nat /\ (table.cold = <<>> => LiveCount = 0)
  BY <1>2, TableIs, RowsCount, NoColdNoRow DEF LiveCount
<1>4. CASE LiveCount >= maxElements /\ table.cold # <<>>
  <2>1. Tombstone("logical-drop")
    BY <1>4 DEF PreEvict
  <2>2. v \in Rows(table) /\ v \in Ids
    BY <1>2, <1>4, ColdestIsARow, TableIs
  <2>3. CASE Hnsw!CanMarkDeleted(index, table.label[v])
    <3>1. /\ index' = Hnsw!MarkDeleted(index, table.label[v])
          /\ writer' = w /\ lost' = lost
      BY <2>1, <2>3 DEF Tombstone
    <3> HIDE DEF v
    <3>2. /\ writer' \in Writers /\ writer'.pc = "logical-drop"
          /\ writer'.victim = v /\ writer'.id = writer.id
          /\ writer'.size = writer.size /\ writer'.fitted = writer.fitted
      BY <1>2, <2>2, <3>1 DEF Writers, Phases, Dropping
    <3>3. Pending' = {v}
      BY <3>2 DEF Pending, Dropping
    <3>4. /\ Typed' /\ LabelsBelow' /\ Synced' /\ Returned' /\ Truthful'
          /\ Count(index') = Count(index) /\ index'.max = index.max
      BY <1>1, <1>2, <2>2, <2>3, <3>1, <3>2, <3>3, TombstoneHalf
    <3>5. Working'
      BY <1>1, <1>2, <2>2, <3>2 DEF TierInv, Working, Idle, Updating, Inserting
    <3>6. Roomy'
      BY <1>1, <3>2, <3>4 DEF TierInv, Roomy, Inserting
    <3>7. Paying'
      <4>1. crashes = 0 /\ faults = 0 => LiveCount <= maxElements
        <5>1. Count(index) <= maxElements /\ Count(index) \in Nat
          BY <1>1, <1>2, IndexIs DEF TierInv, Roomy, Inserting
        <5> QED
          BY <1>2, <1>3, <5>1, RowsAreLive
      <4> QED
        BY <1>1, <3>2, <4>1 DEF TierInv, Paying, BytesEstimate, LiveCount
    <3> QED
      BY <3>4, <3>5, <3>6, <3>7 DEF TierInv
  <2>4. CASE ~Hnsw!CanMarkDeleted(index, table.label[v])
    <3>1. Raise /\ index' = index
      BY <2>1, <2>4 DEF Tombstone
    <3>2. crashes # 0 \/ faults # 0
      BY <1>2, <2>2, <2>4, RowsAreLive
    <3> QED
      BY <1>1, <1>2, <3>1, <3>2, RaiseStep
  <2> QED
    BY <2>3, <2>4
<1>5. CASE ~(LiveCount >= maxElements /\ table.cold # <<>>)
  <2>1. writer' = [writer EXCEPT !.pc = "row"] /\ index' = index /\ lost' = lost
    BY <1>5 DEF PreEvict
  <2>2. LiveCount < maxElements
    BY <1>2, <1>3, <1>5
  <2>3. /\ writer' \in Writers /\ writer'.pc = "row" /\ writer'.id = writer.id
        /\ writer'.size = writer.size /\ writer'.fitted = writer.fitted
    BY <1>2, <2>1 DEF Writers, Phases, Inserting
  <2>4. Pending' = {}
    BY <2>3 DEF Pending, Dropping
  <2>5. Typed' /\ LabelsBelow' /\ Returned' /\ Truthful'
    BY <1>1, <2>1, <2>3 DEF TierInv, Typed, LabelsBelow, Returned, Truthful
  <2>6. Working' /\ Roomy'
    BY <1>1, <1>2, <2>1, <2>3
       DEF TierInv, Working, Roomy, Idle, Inserting, Updating, Dropping
  <2>7. Synced'
    <3>1. Orphaned' = Orphaned
      BY <1>1, <2>1 DEF Orphaned, Held
    <3> QED
      BY <1>1, <1>2, <2>1, <2>4, <3>1 DEF TierInv, Synced, Held
  <2>8. Paying'
    BY <1>1, <2>2, <2>3 DEF TierInv, Paying, BytesEstimate, LiveCount
  <2> QED
    BY <2>5, <2>6, <2>7, <2>8 DEF TierInv
<1> QED
  BY <1>4, <1>5

\* Deleting the victim's row makes the rows one fewer and no dearer.
LEMMA OneRowFewer ==
    ASSUME table \in Tables, NEW v \in Rows(table), table' = DeleteRow(table, v)
    PROVE  /\ LiveCount \in Nat /\ LiveCount' = LiveCount - 1
           /\ BytesEstimate \in Nat /\ BytesEstimate' \in Nat
           /\ BytesEstimate' <= BytesEstimate
<1>1. v \in Ids /\ Rows(table) \in SUBSET Ids
  BY TableIs
<1>2. Rows(table') = Rows(table) \ {v}
  BY <1>1, DeleteRowProperties
<1>3. LiveCount \in Nat /\ LiveCount' = LiveCount - 1
  BY <1>1, <1>2, RowsCount DEF LiveCount
<1>4. /\ table.size \in Charges /\ table'.size \in Charges
      /\ table'.size = [table.size EXCEPT ![v] = 0]
  BY <1>1, DeleteRowProperties, TableIs
<1> DEFINE rest == Rows(table) \ {v}
<1>5. rest \in SUBSET Ids /\ rest \subseteq Rows(table) /\ v \notin rest
  BY <1>1
<1>6. BytesEstimate = Bytes(table.size, Rows(table)) /\ BytesEstimate' = Bytes(table'.size, rest)
  BY <1>2 DEF BytesEstimate
<1> HIDE DEF rest
<1>7. \A x \in rest : table'.size[x] = table.size[x]
  BY <1>4, <1>5 DEF Charges
<1>8. Bytes(table'.size, rest) = Bytes(table.size, rest)
  BY <1>7, BytesAgree
<1>9. Bytes(table.size, rest) <= Bytes(table.size, Rows(table))
  BY <1>1, <1>4, <1>5, BytesMonotone
<1> QED
  BY <1>1, <1>3, <1>4, <1>5, <1>6, <1>8, <1>9, BytesType

LEMMA PreEvictDropStep ==
    ASSUME TierInv, PreEvictDrop
    PROVE  TierInv'
<1> DEFINE v == writer.victim
<1>1. /\ writer.pc = "logical-drop"
      /\ table' = DeleteRow(table, v)
      /\ writer' = [writer EXCEPT !.pc = "row", !.victim = NoId,
                                  !.evicted = Append(writer.evicted, v)]
      /\ UNCHANGED <<up, index, image, maxElements, nextLabel, reader, lost, crashes, faults,
                     lengthened>>
  BY DEF PreEvictDrop, DropVictim
<1>2. /\ up /\ Pending = {v} /\ writer \in Writers /\ table \in Tables
      /\ v \in Rows(table) /\ writer.id \in Ids \ Rows(table)
      /\ maxElements \in Nat
  BY <1>1 DEF TierInv, Typed, Working, Idle, Pending, Dropping
<1>3. v \in Ids /\ Rows(table') = Rows(table) \ {v}
  BY <1>1, <1>2, TableIs, DeleteRowProperties
<1>4. Append(writer.evicted, v) \in Seq(Ids)
  BY <1>2, <1>3 DEF Writers
<1>5. /\ writer' \in Writers /\ writer'.pc = "row" /\ writer'.id = writer.id
      /\ writer'.size = writer.size /\ writer'.fitted = writer.fitted
  BY <1>1, <1>2, <1>4 DEF Writers, Phases, Inserting
<1>6. Pending' = {}
  BY <1>5 DEF Pending, Dropping
<1>7. Typed' /\ LabelsBelow' /\ Synced' /\ Truthful'
  <2>1. lost' \in SUBSET Ids
    BY <1>1 DEF TierInv, Typed
  <2> QED
    BY <1>1, <1>2, <1>3, <1>5, <1>6, <2>1, DropHalf
<1>8. Working'
  BY <1>1, <1>2, <1>3, <1>5
     DEF TierInv, Working, Idle, Updating, Dropping, Inserting
<1>9. Roomy'
  BY <1>1, <1>5 DEF TierInv, Roomy, Inserting
<1>10. Paying'
  <2>1. /\ LiveCount \in Nat /\ LiveCount' = LiveCount - 1
        /\ BytesEstimate \in Nat /\ BytesEstimate' \in Nat
        /\ BytesEstimate' <= BytesEstimate
    BY <1>1, <1>2, OneRowFewer
  <2>2. crashes = 0 /\ faults = 0
            => /\ LiveCount <= maxElements
               /\ (~lengthened => BytesEstimate <= Capacity)
    BY <1>1 DEF TierInv, Paying
  <2>3. crashes' = 0 /\ faults' = 0
            => /\ LiveCount' < maxElements'
               /\ (~lengthened' => BytesEstimate' <= Capacity)
    BY <1>1, <1>2, <2>1, <2>2, TierAssumption
  <2> QED
    BY <1>5, <2>3 DEF Paying
<1>11. Returned'
  BY <1>1 DEF TierInv, Returned
<1> QED
  BY <1>7, <1>8, <1>9, <1>10, <1>11 DEF TierInv

LEMMA WriteRowStep ==
    ASSUME TierInv, WriteRow
    PROVE  TierInv'
<1> DEFINE id == writer.id
<1>1. writer.pc = "row" /\ nextLabel' = nextLabel + 1
      /\ UNCHANGED <<up, index, image, maxElements, reader, crashes, faults,
                     lengthened>>
  BY DEF WriteRow
<1>2. /\ table \in Tables /\ id \in Ids \ Rows(table) /\ up
      /\ writer \in Writers /\ writer.fitted = 0 /\ Pending = {}
      /\ maxElements \in Nat /\ writer.size \in Sizes
  BY <1>1 DEF TierInv, Typed, Working, Idle, Pending, Inserting, Dropping
<1>3. nextLabel \in Labels /\ ByLabel(table, nextLabel) = {}
  BY <1>1, <1>2, NextLabelIsFree DEF TierInv, Working
<1>4. /\ table' = InsertRow(table, id, nextLabel, writer.size)
      /\ writer' = [writer EXCEPT !.pc = "add", !.label = nextLabel]
      /\ lost' = lost
  BY <1>2, <1>3 DEF WriteRow, CanInsertRow, FreshLabel
<1>5. /\ table' \in Tables
      /\ Rows(table') = Rows(table) \cup {id}
      /\ table'.label = [table.label EXCEPT ![id] = nextLabel]
      /\ table'.size = [table.size EXCEPT ![id] = writer.size]
  BY <1>2, <1>3, <1>4, InsertRowProperties
<1>6. /\ writer' \in Writers /\ writer'.pc = "add" /\ writer'.id = id
      /\ writer'.label = nextLabel /\ writer'.fitted = 0
  BY <1>2, <1>3, <1>4 DEF Writers, Phases, Inserting
<1>7. \A x \in Ids : table'.label[x] = IF x = id THEN nextLabel ELSE table.label[x]
  <2>1. table.label \in [Ids -> Labels \cup {NoLabel}]
    BY <1>2, TableIs
  <2> QED
    BY <1>5, <2>1
<1>8. Typed'
  BY <1>1, <1>3, <1>4, <1>5, <1>6, TierAssumption DEF TierInv, Typed, Labels
<1>9. Working'
  BY <1>1, <1>2, <1>5, <1>6, <1>7 DEF TierInv, Working, Dropping, Idle, Updating
<1>10. LabelsBelow'
  <2>1. \A x \in Rows(table) : table.label[x] < nextLabel /\ table.label[x] \in Labels
    BY <1>2, TableIs DEF TierInv, LabelsBelow
  <2>2. \A x \in Rows(table) : x # id /\ x \in Ids
    BY <1>2, TableIs
  <2> QED
    BY <1>1, <1>2, <1>3, <1>5, <1>7, <2>1, <2>2 DEF LabelsBelow, Labels
<1>11. Roomy'
  BY <1>1, <1>6 DEF TierInv, Roomy, Inserting
<1>12. Pending' = {id}
  BY <1>6 DEF Pending
<1>13. Synced'
  <2>1. CASE crashes = 0
    <3>1. \A m \in Live(index) :
              \E x \in Rows(table) : table.label[x] = m /\ index.vec[m] = x
      BY <1>2, <2>1 DEF TierInv, Synced, Held
    <3>2. /\ Rows(table') \ {id} = Rows(table)
          /\ \A x \in Rows(table) : table'.label[x] = table.label[x]
      BY <1>2, <1>5, <1>7, TableIs
    <3>3. Orphaned' \ Pending' \subseteq Orphaned \ Pending
      <4>1. /\ Orphaned = {x \in Rows(table) : table.label[x] \notin Live(index)}
            /\ Orphaned' = {x \in Rows(table') : table'.label[x] \notin Live(index)}
        BY <1>1, <1>2 DEF Orphaned, Held
      <4> QED
        BY <1>2, <1>12, <3>2, <4>1
    <3>4. Cardinality(Orphaned' \ Pending') <= faults'
      BY <1>1, <2>1, <3>3, NoMoreOrphans
    <3> QED
      BY <1>1, <1>2, <1>12, <3>1, <3>2, <3>4 DEF Synced, Held
  <2>2. CASE crashes # 0
    BY <1>1, <2>2 DEF Synced
  <2> QED
    BY <2>1, <2>2
<1>14. Paying'
  <2>1. LiveCount \in Nat /\ LiveCount' = LiveCount + 1
    BY <1>2, <1>5, TableIs, RowsCount DEF LiveCount
  <2>2. Rows(table') \ {id} = Rows(table)
    BY <1>2, <1>5
  <2>3. Bytes(table'.size, Rows(table)) = BytesEstimate
    <3>1. table.size \in Charges /\ \A x \in Rows(table) : x # id /\ x \in Ids
      BY <1>2, TableIs
    <3>2. \A x \in Rows(table) : table'.size[x] = table.size[x]
      BY <1>5, <3>1 DEF Charges
    <3> QED
      BY <3>2, BytesAgree DEF BytesEstimate
  <2>4. crashes = 0 /\ faults = 0
            => /\ LiveCount < maxElements
               /\ (~lengthened => BytesEstimate <= Capacity)
    BY <1>1 DEF TierInv, Paying
  <2>5. crashes = 0 /\ faults = 0 => LiveCount' <= maxElements
    BY <1>2, <2>1, <2>4
  <2> QED
    BY <1>1, <1>6, <2>2, <2>3, <2>4, <2>5 DEF Paying
<1>15. Returned'
  BY <1>1, <1>4 DEF TierInv, Returned
<1>16. Truthful'
  BY <1>1, <1>2, <1>3, <1>5, FoundRowsStay
<1> QED
  BY <1>8, <1>9, <1>10, <1>11, <1>13, <1>14, <1>15, <1>16 DEF TierInv

LEMMA AddVectorStep ==
    ASSUME TierInv, AddVector
    PROVE  TierInv'
<1> DEFINE id == writer.id
           l == writer.label
<1>1. writer.pc \in {"add", "re-add"}
      /\ UNCHANGED <<up, image, maxElements, nextLabel, reader, crashes, faults,
                     lengthened>>
  BY DEF AddVector
<1>2. /\ table \in Tables /\ id \in Rows(table) /\ l = table.label[id] /\ up
      /\ writer \in Writers /\ Pending = {id} /\ maxElements \in Nat
      /\ index \in Indexes /\ Count(index) <= index.max
  BY <1>1 DEF TierInv, Typed, Working, Roomy, Idle, Pending
<1>3. id \in Ids /\ l \in Labels
  BY <1>2, TableIs
<1>4. CASE Hnsw!CanAdd(index, l)
  <2>1. /\ index' = Hnsw!AddItem(index, l, id)
        /\ writer' = IF writer.pc = "add" THEN [writer EXCEPT !.pc = "fit"] ELSE Free
        /\ table' = table /\ lost' = lost
    BY <1>4 DEF AddVector
  <2>2. /\ index' \in Indexes
        /\ index'.vec = [index.vec EXCEPT ![l] = id]
        /\ index'.max = index.max
        /\ Live(index') = Live(index) \cup {l}
        /\ Count(index') <= index.max
    BY <1>2, <1>3, <1>4, <2>1, AddItemProperties
  <2>3. writer' \in Writers
    BY <1>2, <2>1, FreeIs DEF Writers, Phases
  <2>4. \/ writer.pc = "add" /\ writer'.pc = "fit" /\ writer'.fitted = writer.fitted
        \/ writer.pc = "re-add" /\ writer'.pc = "idle" /\ writer'.evicted = <<>>
    BY <1>1, <1>2, <2>1, FreeIs DEF Writers
  <2>5. Pending' = {}
    BY <2>4 DEF Pending, Dropping
  <2>6. Typed' /\ LabelsBelow' /\ Returned' /\ Truthful'
    BY <1>1, <2>1, <2>2, <2>3 DEF TierInv, Typed, LabelsBelow, Returned, Truthful
  <2>7. Working'
    BY <1>1, <1>2, <2>1, <2>4
       DEF TierInv, Working, Dropping, Inserting, Updating, Idle
  <2>8. Roomy'
    BY <1>1, <1>2, <2>2, <2>4 DEF TierInv, Roomy, Inserting
  <2>9. Synced'
    <3>1. CASE crashes = 0
      <4>1. \A m \in Live(index) :
                \E x \in Rows(table) \ {id} : table.label[x] = m /\ index.vec[m] = x
        BY <1>2, <3>1 DEF TierInv, Synced, Held
      <4>2. /\ index.vec \in [Labels -> Ids \cup {NoId, Tombstoned}]
            /\ Live(index) \in SUBSET Labels
        BY <1>2, IndexIs DEF Indexes
      <4>3. \A x \in Rows(table) \ {id} : table.label[x] # l
        BY <1>2, TableIs
      <4>4. \A m \in Live(index') :
                \E x \in Rows(table) : table.label[x] = m /\ index'.vec[m] = x
        <5> TAKE m \in Live(index')
        <5>2. CASE m = l
          BY <1>2, <1>3, <2>2, <4>2, <5>2
        <5>3. CASE m # l
          <6>1. m \in Live(index) /\ index'.vec[m] = index.vec[m]
            BY <2>2, <4>2, <5>3
          <6> QED
            BY <4>1, <6>1
        <5> QED
          BY <5>2, <5>3
      <4>5. Orphaned' \ Pending' \subseteq Orphaned \ Pending
        <5>1. /\ Orphaned = {x \in Rows(table) : table.label[x] \notin Live(index)}
              /\ Orphaned' = {x \in Rows(table) : table.label[x] \notin Live(index')}
          BY <1>1, <1>2, <2>1 DEF Orphaned, Held
        <5> QED
          BY <1>2, <2>2, <5>1
      <4>6. Cardinality(Orphaned' \ Pending') <= faults'
        BY <1>1, <3>1, <4>5, NoMoreOrphans
      <4> QED
        BY <1>1, <1>2, <2>1, <2>5, <4>4, <4>6 DEF Synced, Held
    <3>2. CASE crashes # 0
      BY <1>1, <3>2 DEF Synced
    <3> QED
      BY <3>1, <3>2
  <2>10. Paying'
    <3>1. LiveCount \in Nat
      BY <1>2, TableIs, RowsCount DEF LiveCount
    <3>2. writer.pc = "add" => writer.fitted = 0
      BY DEF TierInv, Working, Inserting
    <3>3. crashes = 0 /\ faults = 0 /\ writer.pc = "add"
              => LiveCount + writer.fitted <= maxElements
      BY <1>2, <3>1, <3>2 DEF TierInv, Paying
    <3> QED
      BY <1>1, <2>1, <2>4, <3>3 DEF TierInv, Paying, BytesEstimate, LiveCount
  <2> QED
    BY <2>6, <2>7, <2>8, <2>9, <2>10 DEF TierInv
<1>5. CASE ~Hnsw!CanAdd(index, l)
  <2>1. /\ table' = DeleteRow(table, id) /\ index' = index
        /\ writer' = Free /\ lost' = lost \cup Members(writer.evicted)
    BY <1>5 DEF AddVector, Raise
  <2>2. writer' \in Writers /\ writer'.pc = "idle" /\ writer'.evicted = <<>>
    BY <2>1, FreeIs
  <2>3. Pending' = {}
    BY <2>2 DEF Pending, Dropping
  <2>4. lost' \in SUBSET Ids
    BY <1>2, <2>1 DEF TierInv, Typed, Writers, Members
  <2>5. Typed' /\ LabelsBelow' /\ Synced' /\ Truthful'
    BY <1>1, <1>2, <1>3, <2>1, <2>2, <2>3, <2>4, DropHalf
  <2>6. Working' /\ Roomy'
    BY <1>1, <1>2, <2>1, <2>2
       DEF TierInv, Working, Roomy, Dropping, Inserting, Updating, Idle
  <2>7. Paying'
    <3>1. /\ Rows(table') = Rows(table) \ {id}
          /\ \A x \in Rows(table) \ {id} : table'.size[x] = table.size[x]
      <4>1. table.size \in Charges /\ Rows(table) \in SUBSET Ids
        BY <1>2, TableIs
      <4>2. /\ Rows(table') = Rows(table) \ {id}
            /\ table'.size = [table.size EXCEPT ![id] = 0]
        BY <1>2, <1>3, <2>1, DeleteRowProperties
      <4> QED
        BY <4>1, <4>2 DEF Charges
    <3>2. BytesEstimate \in Nat /\ BytesEstimate' \in Nat
          /\ BytesEstimate' <= BytesEstimate
      BY <1>2, <2>1, OneRowFewer
    <3>3. BytesEstimate' = Bytes(table.size, Rows(table) \ {id})
      BY <3>1, BytesAgree DEF BytesEstimate
    <3>4. crashes = 0 /\ faults = 0 /\ ~lengthened => BytesEstimate' <= Capacity
      <4>1. CASE writer.pc = "add"
        BY <3>3, <4>1 DEF TierInv, Paying
      <4>2. CASE writer.pc = "re-add"
        BY <3>2, <4>2, TierAssumption DEF TierInv, Paying
      <4> QED
        BY <1>1, <4>1, <4>2
    <3> QED
      BY <1>1, <2>2, <3>4 DEF Paying
  <2>8. Returned'
    <3>1. AdoptsCapacity => writer.pc = "re-add"
      <4>1. AdoptsCapacity /\ writer.pc = "add" => Count(index) < maxElements
        BY DEF TierInv, Roomy, Inserting
      <4>2. maxElements <= index.max /\ index.max \in Nat /\ Count(index) \in Nat
        BY <1>2, IndexIs DEF TierInv, Roomy, Indexes
      <4>3. ~(Count(index) < index.max)
        BY <1>5 DEF Hnsw!CanAdd, Count
      <4> QED
        BY <1>1, <1>2, <4>1, <4>2, <4>3
    <3>2. writer.pc = "re-add" => lost' = lost
      BY <2>1 DEF TierInv, Working, Updating, Members
    <3> QED
      BY <1>1, <3>1, <3>2 DEF TierInv, Returned
  <2> QED
    BY <2>5, <2>6, <2>7, <2>8 DEF TierInv
<1> QED
  BY <1>4, <1>5

LEMMA EvictToFitStep ==
    ASSUME TierInv, EvictToFit
    PROVE  TierInv'
<1> DEFINE v == Coldest(table)
<1>1. /\ writer.pc = "fit"
      /\ UNCHANGED <<up, table, image, maxElements, nextLabel, reader, crashes, faults>>
  BY DEF EvictToFit
<1>2. /\ up /\ Pending = {} /\ writer \in Writers /\ table \in Tables
      /\ maxElements \in Nat \ {0} /\ index \in Indexes
  BY <1>1 DEF TierInv, Typed, Working, Idle, Pending, Dropping
<1>3. LiveCount \in Nat /\ (LiveCount = 0 => Rows(table) = {})
  BY <1>2, TableIs, RowsCount DEF LiveCount
<1>4. CASE OverBudget /\ table.cold # <<>> /\ ~Braked
  <2>1. Tombstone("fit-drop") /\ lengthened' = lengthened
    BY <1>4 DEF EvictToFit
  <2>2. v \in Rows(table) /\ v \in Ids
    BY <1>2, <1>4, ColdestIsARow, TableIs
  <2>3. CASE Hnsw!CanMarkDeleted(index, table.label[v])
    <3>1. /\ index' = Hnsw!MarkDeleted(index, table.label[v])
          /\ writer' = [writer EXCEPT !.pc = "fit-drop", !.victim = v]
          /\ lost' = lost
      BY <2>1, <2>3 DEF Tombstone
    <3> HIDE DEF v
    <3>2. /\ writer' \in Writers /\ writer'.pc = "fit-drop"
          /\ writer'.victim = v /\ writer'.fitted = writer.fitted
      BY <1>2, <2>2, <3>1 DEF Writers, Phases, Dropping
    <3>3. Pending' = {v}
      BY <3>2 DEF Pending, Dropping
    <3>4. /\ Typed' /\ LabelsBelow' /\ Synced' /\ Returned' /\ Truthful'
          /\ Count(index') = Count(index) /\ index'.max = index.max
      BY <1>1, <1>2, <2>1, <2>2, <2>3, <3>1, <3>2, <3>3, TombstoneHalf
    <3>5. Working'
      BY <1>1, <1>2, <2>2, <3>2 DEF TierInv, Working, Idle, Updating, Inserting
    <3>6. Roomy'
      BY <1>1, <3>2, <3>4 DEF TierInv, Roomy, Inserting
    <3>7. Paying'
      BY <1>1, <3>2 DEF TierInv, Paying, BytesEstimate, LiveCount
    <3> QED
      BY <3>4, <3>5, <3>6, <3>7 DEF TierInv
  <2>4. CASE ~Hnsw!CanMarkDeleted(index, table.label[v])
    <3>1. Raise /\ index' = index
      BY <2>1, <2>4 DEF Tombstone
    <3>2. crashes # 0 \/ faults # 0
      BY <1>2, <2>2, <2>4, RowsAreLive
    <3> QED
      BY <1>1, <1>2, <2>1, <3>1, <3>2, RaiseStep
  <2> QED
    BY <2>3, <2>4
<1>5. CASE ~(OverBudget /\ table.cold # <<>> /\ ~Braked)
  <2>1. writer' = Free /\ index' = index /\ lost' = lost /\ lengthened' = FALSE
    BY <1>5 DEF EvictToFit
  <2>2. writer' \in Writers /\ writer'.pc = "idle" /\ writer'.evicted = <<>>
    BY <2>1, FreeIs
  <2>3. Pending' = {}
    BY <2>2 DEF Pending, Dropping
  <2>4. Typed' /\ LabelsBelow' /\ Returned' /\ Truthful'
    BY <1>1, <2>1, <2>2 DEF TierInv, Typed, LabelsBelow, Returned, Truthful
  <2>5. Working' /\ Roomy'
    BY <1>1, <1>2, <2>1, <2>2
       DEF TierInv, Working, Roomy, Idle, Inserting, Updating, Dropping
  <2>6. Synced'
    <3>1. Orphaned' = Orphaned
      BY <1>1, <2>1 DEF Orphaned, Held
    <3> QED
      BY <1>1, <1>2, <2>1, <2>3, <3>1 DEF TierInv, Synced, Held
  <2>7. crashes = 0 /\ faults = 0 => BytesEstimate <= Capacity
    <3> SUFFICES ASSUME crashes = 0, faults = 0 PROVE BytesEstimate <= Capacity
      OBVIOUS
    <3>1. LiveCount + writer.fitted <= maxElements /\ writer.fitted \in Nat
      BY <1>1, <1>2 DEF TierInv, Paying, Writers
    <3>2. Rows(table) = {} => BytesEstimate <= Capacity
      BY BytesEmpty, TierAssumption DEF BytesEstimate
    <3>3. CASE ~OverBudget
      <4>1. BytesEstimate \in Nat
        BY <1>2, TableIs, BytesType DEF BytesEstimate
      <4> QED
        BY <3>3, <4>1, TierAssumption DEF OverBudget
    <3>4. CASE table.cold = <<>>
      BY <1>2, <3>2, <3>4, NoColdNoRow
    <3>5. CASE Braked
      <4>1. LiveCount = 0
        BY <1>2, <1>3, <3>1, <3>5 DEF Braked
      <4> QED
        BY <1>3, <3>2, <4>1
    <3> QED
      BY <1>5, <3>3, <3>4, <3>5
  <2>8. Paying'
    BY <1>1, <2>2, <2>7 DEF Paying, BytesEstimate
  <2> QED
    BY <2>4, <2>5, <2>6, <2>8 DEF TierInv
<1> QED
  BY <1>4, <1>5

LEMMA EvictToFitDropStep ==
    ASSUME TierInv, EvictToFitDrop
    PROVE  TierInv'
<1> DEFINE v == writer.victim
<1>1. /\ writer.pc = "fit-drop"
      /\ table' = DeleteRow(table, v)
      /\ writer' = [writer EXCEPT !.pc = "fit", !.victim = NoId,
                                  !.evicted = Append(writer.evicted, v),
                                  !.fitted = writer.fitted + 1]
      /\ UNCHANGED <<up, index, image, maxElements, nextLabel, reader, lost, crashes, faults,
                     lengthened>>
  BY DEF EvictToFitDrop
<1>2. /\ up /\ Pending = {v} /\ writer \in Writers /\ table \in Tables
      /\ v \in Rows(table) /\ maxElements \in Nat
  BY <1>1 DEF TierInv, Typed, Working, Idle, Pending, Dropping
<1>3. v \in Ids
  BY <1>2, TableIs
<1>4. Append(writer.evicted, v) \in Seq(Ids) /\ writer.fitted \in Nat
  BY <1>2, <1>3 DEF Writers
<1>5. /\ writer' \in Writers /\ writer'.pc = "fit"
      /\ writer'.fitted = writer.fitted + 1
  <2> DEFINE e == Append(writer.evicted, v)
             n == writer.fitted + 1
  <2>1. e \in Seq(Ids) /\ n \in Nat
    BY <1>4
  <2>2. writer' = [writer EXCEPT !.pc = "fit", !.victim = NoId,
                                 !.evicted = e, !.fitted = n]
    BY <1>1
  <2> HIDE DEF e, n
  <2>3. writer' = [pc |-> "fit", id |-> writer.id, size |-> writer.size,
                   label |-> writer.label, victim |-> NoId, evicted |-> e, fitted |-> n]
    BY <1>2, <2>2 DEF Writers
  <2>4. writer' \in Writers
    BY <1>2, <2>1, <2>3 DEF Writers, Phases
  <2> QED
    BY <2>3, <2>4 DEF n
<1>6. Pending' = {}
  BY <1>5 DEF Pending, Dropping
<1>7. Typed' /\ LabelsBelow' /\ Synced' /\ Truthful'
  <2>1. lost' \in SUBSET Ids
    BY <1>1 DEF TierInv, Typed
  <2> QED
    BY <1>1, <1>2, <1>3, <1>5, <1>6, <2>1, DropHalf
<1>8. Working'
  BY <1>1, <1>2, <1>5 DEF TierInv, Working, Idle, Updating, Dropping, Inserting
<1>9. Roomy'
  BY <1>1, <1>5 DEF TierInv, Roomy, Inserting
<1>10. Paying'
  <2>1. LiveCount \in Nat /\ LiveCount' = LiveCount - 1
    BY <1>1, <1>2, OneRowFewer
  <2>2. crashes = 0 /\ faults = 0 => LiveCount + writer.fitted <= maxElements
    BY <1>1 DEF TierInv, Paying
  <2>3. crashes' = 0 /\ faults' = 0 => LiveCount' + writer'.fitted <= maxElements'
    BY <1>1, <1>2, <1>4, <1>5, <2>1, <2>2
  <2> QED
    BY <1>5, <2>3 DEF Paying
<1>11. Returned'
  BY <1>1 DEF TierInv, Returned
<1> QED
  BY <1>7, <1>8, <1>9, <1>10, <1>11 DEF TierInv

LEMMA RemoveStartStep ==
    ASSUME TierInv, NEW id \in Ids, RemoveStart(id)
    PROVE  TierInv'
<1>1. /\ up /\ Idle /\ id \in Rows(table)
      /\ UNCHANGED <<up, table, image, maxElements, nextLabel, reader, crashes, faults,
                     lengthened>>
  BY DEF RemoveStart
<1>2. Pending = {}
  BY <1>1 DEF Pending, Idle, Dropping
<1>3. CASE Hnsw!CanMarkDeleted(index, table.label[id])
  <2>1. /\ index' = Hnsw!MarkDeleted(index, table.label[id])
        /\ writer' = [Free EXCEPT !.pc = "remove-drop", !.victim = id]
        /\ lost' = lost
    BY <1>3 DEF RemoveStart
  <2>2. writer' \in Writers /\ writer'.pc = "remove-drop" /\ writer'.victim = id
    BY <1>1, <2>1, FreeIs, TableIs DEF TierInv, Typed, Writers, Phases, Dropping
  <2>3. Pending' = {id}
    BY <2>2 DEF Pending, Dropping
  <2>4. /\ Typed' /\ LabelsBelow' /\ Synced' /\ Returned' /\ Truthful'
        /\ Count(index') = Count(index) /\ index'.max = index.max
    BY <1>1, <1>2, <1>3, <2>1, <2>2, <2>3, TombstoneHalf
  <2>5. Working'
    BY <1>1, <2>2 DEF TierInv, Working, Idle, Dropping, Inserting, Updating
  <2>6. Roomy'
    BY <1>1, <2>2, <2>4 DEF TierInv, Roomy, Inserting
  <2>7. Paying'
    BY <1>1, <2>2 DEF TierInv, Paying, Idle, BytesEstimate, LiveCount
  <2> QED
    BY <2>4, <2>5, <2>6, <2>7 DEF TierInv
<1>4. CASE ~Hnsw!CanMarkDeleted(index, table.label[id])
  <2>1. Raise /\ index' = index
    BY <1>4 DEF RemoveStart
  <2> QED
    BY <1>1, <1>2, <2>1, RaiseStep
<1> QED
  BY <1>3, <1>4

LEMMA RemoveDropStep ==
    ASSUME TierInv, RemoveDrop
    PROVE  TierInv'
<1> DEFINE v == writer.victim
<1>1. /\ writer.pc = "remove-drop" /\ table' = DeleteRow(table, v)
      /\ writer' = Free
      /\ UNCHANGED <<up, index, image, maxElements, nextLabel, reader, lost, crashes, faults,
                     lengthened>>
  BY DEF RemoveDrop
<1>2. /\ up /\ Pending = {v} /\ table \in Tables /\ v \in Rows(table)
  BY <1>1 DEF TierInv, Typed, Working, Idle, Pending, Dropping
<1>3. v \in Ids
  BY <1>2, TableIs
<1>4. writer' \in Writers /\ writer'.pc = "idle" /\ writer'.evicted = <<>>
  BY <1>1, FreeIs
<1>5. Pending' = {}
  BY <1>4 DEF Pending, Dropping
<1>6. Typed' /\ LabelsBelow' /\ Synced' /\ Truthful'
  <2>1. lost' \in SUBSET Ids
    BY <1>1 DEF TierInv, Typed
  <2> QED
    BY <1>1, <1>2, <1>3, <1>4, <1>5, <2>1, DropHalf
<1>7. Working' /\ Roomy'
  BY <1>1, <1>2, <1>4
     DEF TierInv, Working, Roomy, Idle, Updating, Dropping, Inserting
<1>8. Paying'
  <2>1. BytesEstimate \in Nat /\ BytesEstimate' \in Nat
        /\ BytesEstimate' <= BytesEstimate
    BY <1>1, <1>2, OneRowFewer
  <2>2. crashes' = 0 /\ faults' = 0 /\ ~lengthened' => BytesEstimate' <= Capacity
    BY <1>1, <2>1, TierAssumption DEF TierInv, Paying
  <2> QED
    BY <1>4, <2>2 DEF Paying
<1>9. Returned'
  BY <1>1 DEF TierInv, Returned
<1> QED
  BY <1>6, <1>7, <1>8, <1>9 DEF TierInv

\* A metadata call raises: the row the operation was at, if any, has lost its
\* vector, and is one row more without one.
LEMMA MetadataFailsStep ==
    ASSUME TierInv, MetadataFails
    PROVE  TierInv'
<1>1. /\ faults < MaxFaults /\ faults' = faults + 1
      /\ nextLabel' = IF ConsumesLabel THEN nextLabel + 1 ELSE nextLabel
      /\ writer' = Free /\ lost' = lost \cup Members(writer.evicted)
      /\ writer.pc # "idle"
      /\ UNCHANGED <<up, table, index, image, maxElements, reader, crashes, lengthened>>
  BY DEF MetadataFails, Raise
<1>2. /\ up /\ table \in Tables /\ writer \in Writers /\ faults \in Nat
      /\ nextLabel \in 0..(MaxLabel + 1)
      /\ ConsumesLabel => nextLabel <= MaxLabel
  BY <1>1, TierAssumption DEF TierInv, Typed, Working, Idle, ConsumesLabel
<1>3. /\ nextLabel' \in 0..(MaxLabel + 1) /\ nextLabel <= nextLabel'
      /\ faults' \in 0..MaxFaults /\ faults' # 0
  BY <1>1, <1>2, TierAssumption
<1>4. lost' \in SUBSET Ids
  BY <1>1, <1>2 DEF TierInv, Typed, Writers, Members
<1>5. writer' \in Writers /\ writer'.pc = "idle" /\ writer'.evicted = <<>>
  BY <1>1, FreeIs
<1>6. Typed'
  BY <1>1, <1>3, <1>4, <1>5 DEF TierInv, Typed
<1>7. Working' /\ Roomy'
  BY <1>1, <1>2, <1>5
     DEF TierInv, Working, Roomy, Idle, Updating, Dropping, Inserting
<1>8. LabelsBelow'
  <2>1. \A id \in Rows(table) : table.label[id] \in Labels /\ table.label[id] < nextLabel
    BY <1>2, TableIs DEF TierInv, LabelsBelow
  <2> QED
    BY <1>1, <1>2, <1>3, <2>1 DEF LabelsBelow, Labels
<1>9. Pending' = {}
  BY <1>5 DEF Pending, Dropping
<1>10. Synced'
  <2> SUFFICES ASSUME crashes = 0 PROVE Synced'
    BY <1>1 DEF Synced
  <2>1. \A m \in Live(index) :
            \E id \in Rows(table) : table.label[id] = m /\ index.vec[m] = id
    BY <1>2 DEF TierInv, Synced, Held
  <2>2. Orphaned' = Orphaned /\ Orphaned \in SUBSET Ids
    <3>1. Rows(table) \in SUBSET Ids
      BY <1>2, TableIs
    <3> QED
      BY <1>1, <3>1 DEF Orphaned, Held
  <2>3. Cardinality(Orphaned \ Pending) <= faults
    BY DEF TierInv, Synced
  <2>4. Pending = {} \/ \E x : Pending = {x}
    BY DEF Pending
  <2>5. Cardinality(Orphaned) <= faults + 1
    <3> DEFINE S == Orphaned \ Pending
    <3>1. S \in SUBSET Ids
      BY <2>2
    <3>2. Cardinality(S) \in Nat /\ \A x \in Ids \ S : Cardinality(S \cup {x}) = Cardinality(S) + 1
      BY <3>1, RowsCount
    <3>3. Orphaned = S \/ \E x \in Ids \ S : Orphaned = S \cup {x}
      BY <2>2, <2>4
    <3> QED
      BY <1>2, <2>3, <3>2, <3>3
  <2> QED
    BY <1>1, <1>2, <1>9, <2>1, <2>2, <2>5 DEF Synced, Held
<1>11. Paying' /\ Returned'
  BY <1>3 DEF Paying, Returned
<1>12. Truthful'
  <2>1. \A f \in reader.found : f[1] \in Labels /\ f[1] < nextLabel
    BY DEF TierInv, Typed, Readers, Truthful
  <2>2. \A f \in reader.found : f[1] < nextLabel'
    BY <1>2, <1>3, <2>1 DEF Labels
  <2> QED
    BY <1>1, <2>2 DEF TierInv, Truthful
<1> QED
  BY <1>6, <1>7, <1>8, <1>10, <1>11, <1>12 DEF TierInv

-----------------------------------------------------------------------------
(* touch() and query() *)

LEMMA TouchStep ==
    ASSUME TierInv, NEW id \in Ids, Touch(id)
    PROVE  TierInv'
<1>1. /\ up /\ id \in Rows(table) /\ table' = TouchRow(table, id)
      /\ UNCHANGED <<up, index, image, maxElements, nextLabel, writer, reader,
                     lost, crashes, faults, lengthened>>
  BY DEF Touch
<1>2. /\ table' \in Tables /\ Rows(table') = Rows(table)
      /\ table'.label = table.label /\ table'.size = table.size
  BY <1>1, TouchRowProperties DEF TierInv, Typed
<1>3. Typed' /\ LabelsBelow' /\ Returned'
  BY <1>1, <1>2 DEF TierInv, Typed, LabelsBelow, Returned
<1>4. Working' /\ Roomy'
  BY <1>1, <1>2 DEF TierInv, Working, Roomy, Idle
<1>5. Pending' = Pending
  BY <1>1 DEF Pending
<1>6. Synced'
  <2>1. Orphaned' = Orphaned
    BY <1>1, <1>2 DEF Orphaned, Held
  <2> QED
    BY <1>1, <1>2, <1>5, <2>1 DEF TierInv, Synced, Held
<1>7. Paying'
  BY <1>1, <1>2 DEF TierInv, Paying, BytesEstimate, LiveCount
<1>8. Truthful'
  BY <1>1, <1>2 DEF TierInv, Truthful, ByLabel
<1> QED
  BY <1>3, <1>4, <1>6, <1>7, <1>8 DEF TierInv

\* A step of a query changes neither store.
LEMMA ReaderStep ==
    ASSUME TierInv, reader' \in Readers, Truthful',
           UNCHANGED <<up, table, index, image, maxElements, nextLabel, writer,
                       lost, crashes, faults, lengthened>>
    PROVE  TierInv'
<1>1. Typed' /\ LabelsBelow' /\ Returned'
  BY DEF TierInv, Typed, LabelsBelow, Returned
<1>2. Working' /\ Roomy'
  BY DEF TierInv, Working, Roomy, Idle
<1>3. Pending' = Pending
  BY DEF Pending
<1>4. Orphaned' = Orphaned
  BY DEF Orphaned, Held
<1>5. Synced' /\ Paying'
  BY <1>3, <1>4 DEF TierInv, Synced, Held, Paying, BytesEstimate, LiveCount
<1> QED
  BY <1>1, <1>2, <1>5 DEF TierInv

LEMMA QueryStep ==
    ASSUME TierInv, QuerySteps
    PROVE  TierInv'
<1>1. NoQuery \in Readers
  BY DEF NoQuery, Readers
<1>2. reader \in Readers /\ table \in Tables /\ index \in Indexes
  BY DEF TierInv, Typed
<1>3. CASE QueryCount
  <2> DEFINE k == IF LiveCount < K * Overfetch THEN LiveCount ELSE K * Overfetch
  <2>1. /\ up /\ crashes = 0
        /\ reader' = [NoQuery EXCEPT !.pc = "knn", !.k = k]
        /\ UNCHANGED <<up, table, index, image, maxElements, nextLabel, writer,
                       lost, crashes, faults, lengthened>>
    BY <1>3 DEF QueryCount
  <2>2. k \in Nat
    <3>1. LiveCount \in Nat
      BY <1>2, TableIs, RowsCount DEF LiveCount
    <3>2. K * Overfetch \in Nat
      BY TierAssumption
    <3> QED
      BY <3>1, <3>2
  <2> HIDE DEF k
  <2>3. /\ reader' \in Readers /\ reader'.pc = "knn"
        /\ reader'.found = {} /\ reader'.hits = {}
    BY <1>1, <2>1, <2>2 DEF NoQuery, Readers
  <2>4. Truthful'
    BY <2>1, <2>3 DEF Truthful
  <2> QED
    BY <2>1, <2>3, <2>4, ReaderStep
<1>4. CASE QueryKnn
  <2>1. /\ reader.pc = "knn" /\ up /\ crashes = 0
        /\ UNCHANGED <<up, table, index, image, maxElements, nextLabel, writer,
                       lost, crashes, faults, lengthened>>
    BY <1>4 DEF QueryKnn, TierInv, Truthful
  <2>2. CASE reader' = NoQuery
    <3>1. Truthful'
      BY <2>2 DEF Truthful, NoQuery
    <3> QED
      BY <1>1, <2>1, <2>2, <3>1, ReaderStep
  <2>3. CASE reader' # NoQuery
    <3>1. PICK ls \in SUBSET Live(index) :
              reader' = [reader EXCEPT !.pc = "resolve",
                                       !.found = {<<l, index.vec[l]>> : l \in ls}]
      BY <1>4, <2>3 DEF QueryKnn, Live
    <3> DEFINE found == {<<l, index.vec[l]>> : l \in ls}
    <3>2. ASSUME NEW l \in ls
          PROVE  /\ l \in Labels /\ index.vec[l] \in Ids /\ l < nextLabel
                 /\ \A id \in ByLabel(table, l) : id = index.vec[l]
      <4>1. PICK x \in Rows(table) : table.label[x] = l /\ index.vec[l] = x
        BY <2>1 DEF TierInv, Synced, Held
      <4>2. x \in Ids /\ l \in Labels /\ l < nextLabel /\ l # NoLabel
        BY <1>2, <2>1, <4>1, TableIs, TierAssumption DEF TierInv, LabelsBelow
      <4>3. \A id \in ByLabel(table, l) : id = x
        BY <1>2, <4>1, <4>2, TableIs DEF ByLabel, Rows
      <4> QED
        BY <4>1, <4>2, <4>3
    <3>3. /\ found \in SUBSET (Labels \X Ids)
          /\ \A f \in found : f[1] < nextLabel /\ \A id \in ByLabel(table, f[1]) : id = f[2]
      BY <3>2
    <3> HIDE DEF found
    <3>4. /\ reader' \in Readers /\ reader'.pc = "resolve"
          /\ reader'.found = found /\ reader'.hits = reader.hits
      <4>1. reader' = [reader EXCEPT !.pc = "resolve", !.found = found]
        BY <3>1 DEF found
      <4> QED
        BY <1>2, <3>3, <4>1 DEF Readers
    <3>5. Truthful'
      BY <2>1, <3>3, <3>4 DEF TierInv, Truthful
    <3> QED
      BY <2>1, <3>4, <3>5, ReaderStep
  <2> QED
    BY <2>2, <2>3
<1>5. CASE QueryResolve
  <2>1. /\ reader.pc = "resolve" /\ up /\ crashes = 0
        /\ UNCHANGED <<up, table, index, image, maxElements, nextLabel, writer,
                       lost, crashes, faults, lengthened>>
    BY <1>5 DEF QueryResolve, TierInv, Truthful
  <2>2. PICK f \in reader.found :
            reader' = [reader EXCEPT
                !.found = reader.found \ {f},
                !.hits = reader.hits \cup {<<f[2], id>> : id \in ByLabel(table, f[1])}]
    BY <1>5 DEF QueryResolve
  <2> DEFINE new == {<<f[2], id>> : id \in ByLabel(table, f[1])}
             left == reader.found \ {f}
             hits == reader.hits \cup new
  <2>3. f[2] \in Ids /\ \A id \in ByLabel(table, f[1]) : id = f[2]
    BY <1>2 DEF TierInv, Truthful, Readers
  <2>4. new \in SUBSET (Ids \X Ids) /\ \A h \in new : h[1] = h[2]
    BY <2>3 DEF ByLabel
  <2> HIDE DEF new
  <2>5. hits \in SUBSET (Ids \X Ids) /\ \A h \in hits : h[1] = h[2]
    BY <1>2, <2>4 DEF TierInv, Truthful, Readers
  <2>6. left \in SUBSET (Labels \X Ids) /\ left \subseteq reader.found
    BY <1>2 DEF Readers
  <2>7. reader' = [reader EXCEPT !.found = left, !.hits = hits]
    BY <2>2 DEF new
  <2> HIDE DEF left, hits
  <2>8. /\ reader' \in Readers /\ reader'.pc = "resolve"
        /\ reader'.found = left /\ reader'.hits = hits
    BY <1>2, <2>1, <2>5, <2>6, <2>7 DEF Readers
  <2>9. Truthful'
    BY <2>1, <2>5, <2>6, <2>8 DEF TierInv, Truthful
  <2> QED
    BY <2>1, <2>8, <2>9, ReaderStep
<1>6. CASE QueryReturn \/ QueryRaises
  <2>1. /\ reader' = NoQuery
        /\ UNCHANGED <<up, table, index, image, maxElements, nextLabel, writer,
                       lost, crashes, faults, lengthened>>
    BY <1>6 DEF QueryReturn, QueryRaises
  <2>2. Truthful'
    BY <2>1 DEF Truthful, NoQuery
  <2> QED
    BY <1>1, <2>1, <2>2, ReaderStep
<1> QED
  BY <1>3, <1>4, <1>5, <1>6 DEF QuerySteps

-----------------------------------------------------------------------------
(* Persistence *)

LEMMA SaveStep ==
    ASSUME TierInv, Save
    PROVE  TierInv'
<1>1. /\ up /\ image' = index
      /\ UNCHANGED <<up, table, index, maxElements, nextLabel, writer, reader,
                     lost, crashes, faults, lengthened>>
  BY DEF Save
<1>2. Typed' /\ LabelsBelow' /\ Returned' /\ Truthful'
  BY <1>1 DEF TierInv, Typed, LabelsBelow, Returned, Truthful
<1>3. Working' /\ Roomy'
  BY <1>1 DEF TierInv, Working, Roomy, Idle
<1>4. Pending' = Pending
  BY <1>1 DEF Pending
<1>5. Synced' /\ Paying'
  BY <1>1, <1>4 DEF Orphaned, TierInv, Synced, Held, Paying, BytesEstimate, LiveCount
<1> QED
  BY <1>2, <1>3, <1>5 DEF TierInv

LEMMA CloseStep ==
    ASSUME TierInv, Close
    PROVE  TierInv'
<1>1. /\ up /\ Idle /\ reader.pc = "idle" /\ image' = index /\ up' = FALSE
      /\ UNCHANGED <<table, index, maxElements, nextLabel, writer, reader,
                     lost, crashes, faults, lengthened>>
  BY DEF Close
<1>2. Typed' /\ LabelsBelow' /\ Returned' /\ Truthful'
  BY <1>1 DEF TierInv, Typed, LabelsBelow, Returned, Truthful
<1>3. Working' /\ Roomy'
  BY <1>1 DEF TierInv, Working, Roomy, Idle
<1>4. Pending' = Pending
  BY <1>1 DEF Pending
<1>5. image'.max # 0
  <2>1. /\ maxElements \in Nat \ {0} /\ index.max \in Nat
        /\ maxElements <= index.max
    BY <1>1 DEF TierInv, Typed, Roomy, Indexes
  <2> QED
    BY <1>1, <2>1
<1>6. Synced'
  <2>1. Orphaned' = Orphaned
    BY <1>1 DEF Orphaned, Held
  <2> QED
    BY <1>1, <1>4, <1>5, <2>1 DEF TierInv, Synced, Held
<1>7. Paying'
  BY <1>1 DEF TierInv, Paying, BytesEstimate, LiveCount
<1> QED
  BY <1>2, <1>3, <1>6, <1>7 DEF TierInv

LEMMA CrashStep ==
    ASSUME TierInv, Crash
    PROVE  TierInv'
<1>1. /\ crashes < MaxCrashes /\ up' = FALSE /\ writer' = Free
      /\ reader' = NoQuery /\ crashes' = crashes + 1
      /\ UNCHANGED <<table, index, image, maxElements, nextLabel, lost, faults,
                     lengthened>>
  BY DEF Crash
<1>2. crashes' \in 0..MaxCrashes /\ crashes' # 0
  BY <1>1, TierAssumption DEF TierInv, Typed
<1>3. /\ writer' \in Writers /\ writer'.pc = "idle" /\ writer'.evicted = <<>>
      /\ reader' \in Readers
  BY <1>1, FreeIs DEF NoQuery, Readers
<1>4. Typed'
  BY <1>1, <1>2, <1>3 DEF TierInv, Typed
<1>5. Working' /\ Roomy'
  BY <1>1, <1>3
     DEF TierInv, Working, Roomy, Idle, Inserting, Updating, Dropping
<1>6. LabelsBelow' /\ Synced' /\ Paying' /\ Returned'
  BY <1>1, <1>2 DEF LabelsBelow, Synced, Paying, Returned
<1>7. Truthful'
  BY <1>1 DEF Truthful, NoQuery
<1> QED
  BY <1>4, <1>5, <1>6, <1>7 DEF TierInv

LEMMA OpenStep ==
    ASSUME TierInv, Open
    PROVE  TierInv'
<1> DEFINE loaded == Hnsw!Load(image, MaxElements)
<1>1. /\ ~up /\ up' = TRUE /\ nextLabel' = LabelAfterLast(table)
      /\ UNCHANGED <<table, image, writer, reader, lost, crashes, faults,
                     lengthened>>
  BY DEF Open, ResumeLabel
<1>2. /\ table \in Tables /\ image \in Indexes /\ MaxElements \in Nat \ {0}
      /\ Idle /\ reader = NoQuery /\ Pending = {}
      /\ Count(image) \in Nat /\ Count(image) <= image.max /\ image.max \in Nat
  BY <1>1, TierAssumption, IndexIs
     DEF TierInv, Typed, Working, Truthful, Idle, Pending, Dropping, Roomy, Indexes
<1>3. /\ nextLabel' \in 0..(MaxLabel + 1)
      /\ \A id \in Rows(table) : table.label[id] < nextLabel'
  BY <1>1, <1>2, LabelAfterLastIsAbove
<1>4. /\ index' \in Indexes /\ maxElements' \in Nat \ {0}
      /\ Count(index') <= index'.max /\ maxElements' <= index'.max
      /\ image.max # 0 => index'.vec = image.vec /\ Live(index') = Live(image)
  <2>1. CASE image.max = 0
    <3>1. index' = Hnsw!NewIndex(MaxElements) /\ maxElements' = MaxElements
      BY <2>1 DEF Open
    <3> QED
      BY <1>2, <2>1, <3>1, NewIndexProperties
  <2>2. CASE image.max # 0
    <3>1. /\ maxElements' = ReopenedSize(loaded)
          /\ index' = IF AdoptsCapacity
                      THEN Hnsw!Resize(loaded, ReopenedSize(loaded))
                      ELSE loaded
      BY <2>2 DEF Open
    <3>2. /\ loaded \in Indexes /\ loaded.vec = image.vec
          /\ loaded.max = IF MaxElements >= Count(image) THEN MaxElements ELSE image.max
          /\ Live(loaded) = Live(image) /\ Count(loaded) = Count(image)
      BY <1>2, LoadProperties
    <3> HIDE DEF loaded
    <3>3. CASE AdoptsCapacity
      <4>1. ReopenedSize(loaded) \in Nat \ {0} /\ ReopenedSize(loaded) >= Count(loaded)
        BY <1>2, <3>2, <3>3 DEF ReopenedSize, MaxOf, Count
      <4>2. /\ index' \in Indexes /\ index'.vec = loaded.vec
            /\ index'.max = ReopenedSize(loaded)
            /\ Live(index') = Live(loaded) /\ Count(index') = Count(loaded)
        BY <3>1, <3>2, <3>3, <4>1, ResizeProperties
      <4> QED
        BY <3>1, <3>2, <4>1, <4>2
    <3>4. CASE ~AdoptsCapacity
      BY <1>2, <3>1, <3>2, <3>4 DEF ReopenedSize
    <3> QED
      BY <3>3, <3>4
  <2> QED
    BY <2>1, <2>2
<1>5. Typed'
  BY <1>1, <1>3, <1>4 DEF TierInv, Typed
<1>6. LabelsBelow' /\ Returned'
  BY <1>1, <1>3 DEF TierInv, LabelsBelow, Returned
<1>7. Working' /\ Roomy'
  BY <1>1, <1>2, <1>4 DEF TierInv, Working, Roomy, Idle, Inserting, Updating, Dropping
<1>8. Pending' = {}
  BY <1>1, <1>2 DEF Pending
<1>9. Synced'
  <2>1. CASE crashes = 0
    <3>1. /\ image.max # 0
          /\ \A l \in Live(image) :
                \E id \in Rows(table) : table.label[id] = l /\ image.vec[l] = id
          /\ Cardinality(Orphaned \ Pending) <= faults
      BY <1>1, <1>2, <2>1 DEF TierInv, Synced, Held
    <3>2. Orphaned' = Orphaned
      BY <1>1, <1>4, <3>1 DEF Orphaned, Held
    <3> QED
      BY <1>1, <1>2, <1>4, <1>8, <3>1, <3>2 DEF Synced, Held
  <2>2. CASE crashes # 0
    BY <1>1, <2>2 DEF Synced
  <2> QED
    BY <2>1, <2>2
<1>10. Paying'
  BY <1>1, <1>2 DEF TierInv, Paying, BytesEstimate, Idle
<1>11. Truthful'
  BY <1>1, <1>2 DEF Truthful, NoQuery
<1> QED
  BY <1>5, <1>6, <1>7, <1>9, <1>10, <1>11 DEF TierInv

-----------------------------------------------------------------------------
(* The theorems *)

LEMMA TierInit ==
    ASSUME Init
    PROVE  TierInv
<1>1. /\ up = TRUE /\ table = NoRows
      /\ index = Hnsw!NewIndex(MaxElements) /\ image = Hnsw!NewIndex(0)
      /\ maxElements = MaxElements /\ nextLabel = 0
      /\ writer = Free /\ reader = NoQuery /\ lost = {} /\ crashes = 0
      /\ faults = 0 /\ lengthened = FALSE
  BY DEF Init
<1>2. /\ MaxElements \in Nat \ {0} /\ MaxLabel \in Nat /\ MaxCrashes \in Nat
      /\ Capacity \in Nat /\ MaxFaults \in Nat
  BY TierAssumption
<1>3. Rows(table) = {}
  BY <1>1 DEF NoRows, Rows
<1>4. table \in Tables
  <2> DEFINE f == [id \in Ids |-> NoLabel]
             n == [id \in Ids |-> 0]
  <2>1. /\ f \in [Ids -> Labels \cup {NoLabel}] /\ <<>> \in Seq(Ids)
        /\ NoRepeats(<<>>) /\ Members(<<>>) = {id \in Ids : f[id] # NoLabel}
        /\ \A a, b \in Ids : f[a] # NoLabel /\ f[a] = f[b] => a = b
        /\ n \in Charges /\ \A id \in Ids : n[id] = 0 <=> f[id] = NoLabel
    BY EmptySeq, BudgetAssumption DEF NoRepeats, Members, Charges
  <2> HIDE DEF f, n
  <2>2. [label |-> f, size |-> n, cold |-> <<>>] \in Tables
    BY <2>1, ATable
  <2> QED
    BY <1>1, <2>2 DEF NoRows, f, n
<1>5. /\ index \in Indexes /\ index.max = MaxElements /\ Live(index) = {}
      /\ Count(index) = 0
      /\ image \in Indexes /\ image.max = 0 /\ Count(image) = 0
  BY <1>1, <1>2, NewIndexProperties
<1>6. /\ writer \in Writers /\ writer.pc = "idle" /\ writer.evicted = <<>>
      /\ reader \in Readers
  <2>1. NoQuery \in Readers
    BY DEF NoQuery, Readers
  <2> QED
    BY <1>1, <2>1, FreeIs
<1>7. Typed
  <2>1. up \in BOOLEAN /\ lengthened \in BOOLEAN
    BY <1>1, Zenon
  <2>2. /\ maxElements \in Nat \ {0} /\ nextLabel \in 0..(MaxLabel + 1)
        /\ lost \in SUBSET Ids /\ crashes \in 0..MaxCrashes
        /\ faults \in 0..MaxFaults
    BY <1>1, <1>2
  <2> QED
    BY <1>4, <1>5, <1>6, <2>1, <2>2, Zenon DEF Typed
<1>8. Working /\ Roomy
  BY <1>1, <1>2, <1>5, <1>6
     DEF Working, Roomy, Idle, Inserting, Updating, Dropping
<1>9. LabelsBelow /\ Returned /\ Truthful
  BY <1>1, <1>3 DEF LabelsBelow, Returned, Truthful, NoQuery
<1>10. Synced
  <2>1. Orphaned \ Pending = {}
    BY <1>3 DEF Orphaned
  <2>2. Cardinality({}) = 0
    BY FS_EmptySet
  <2> QED
    BY <1>1, <1>3, <1>5, <2>1, <2>2 DEF Synced, Held
<1>11. Paying
  BY <1>2, <1>3, <1>6, BytesEmpty DEF Paying, BytesEstimate
<1> QED
  BY <1>7, <1>8, <1>9, <1>10, <1>11 DEF TierInv

LEMMA TierStutter ==
    ASSUME TierInv, UNCHANGED vars
    PROVE  TierInv'
<1>1. reader' \in Readers /\ Truthful'
  BY DEF vars, TierInv, Typed, Truthful
<1> QED
  BY <1>1, ReaderStep DEF vars

LEMMA InsertStepsStep ==
    ASSUME TierInv, InsertSteps
    PROVE  TierInv'
BY PreEvictStep, PreEvictDropStep, WriteRowStep, AddVectorStep, EvictToFitStep,
   EvictToFitDropStep DEF InsertSteps

\* Both tiers keep the invariant: their handlers are the same, and each of them
\* leaves the two stores where the next one expects them.
THEOREM L2Invariant == L2Spec => []TierInv
<1>1. TierInv /\ [L2Next]_vars => TierInv'
  <2> SUFFICES ASSUME TierInv, [L2Next]_vars PROVE TierInv'
    OBVIOUS
  <2>1. ASSUME NEW id \in Ids, RemoveStart(id) \/
               \E n \in Lengths[id] : UpdateStart(id, n) \/ InsertStart(id, n)
        PROVE  TierInv'
    BY <2>1, UpdateStartStep, InsertStartStep, RemoveStartStep
  <2>2. CASE UpdateRow \/ InsertSteps \/ RemoveDrop \/ MetadataFails
    BY <2>2, UpdateRowStep, InsertStepsStep, RemoveDropStep, MetadataFailsStep
  <2>3. ASSUME NEW id \in Ids, Touch(id) PROVE TierInv'
    BY <2>3, TouchStep
  <2>4. CASE QuerySteps
    BY <2>4, QueryStep
  <2>5. CASE Save \/ Close \/ Open \/ Crash
    BY <2>5, SaveStep, CloseStep, OpenStep, CrashStep
  <2>6. CASE UNCHANGED vars
    BY <2>6, TierStutter
  <2> QED
    BY <2>1, <2>2, <2>3, <2>4, <2>5, <2>6 DEF L2Next
<1> QED
  BY <1>1, TierInit, PTL DEF L2Spec

THEOREM L3Invariant == L3Spec => []TierInv
<1>1. TierInv /\ [L3Next]_vars => TierInv'
  <2> SUFFICES ASSUME TierInv, [L3Next]_vars PROVE TierInv'
    OBVIOUS
  <2>1. ASSUME NEW id \in Ids, \/ \E n \in Lengths[id] : L3Insert(id, n)
                               \/ L3Remove(id) \/ L3Touch(id)
        PROVE  TierInv'
    BY <2>1, UpdateStartStep, InsertStartStep, RemoveStartStep, TouchStep
       DEF L3Insert, L3Remove, L3Touch
  <2>2. CASE L3InsertSteps \/ RemoveDrop \/ MetadataFails
    BY <2>2, UpdateRowStep, InsertStepsStep, RemoveDropStep, MetadataFailsStep
       DEF L3InsertSteps
  <2>3. CASE L3Query
    BY <2>3, QueryStep DEF L3Query
  <2>4. CASE L3Save \/ L3Close \/ L3Open \/ Crash
    BY <2>4, SaveStep, CloseStep, OpenStep, CrashStep DEF L3Save, L3Close, L3Open
  <2>5. CASE UNCHANGED vars
    BY <2>5, TierStutter
  <2> QED
    BY <2>1, <2>2, <2>3, <2>4, <2>5 DEF L3Next
<1> QED
  BY <1>1, TierInit, PTL DEF L3Spec

\* Every reachable state of either tier is well typed: the cold order holds the
\* rows, each once, and no counter leaves its range.
THEOREM TierTyped == L2Spec \/ L3Spec => []TypeOK
<1>1. TierInv => TypeOK
  <2> SUFFICES ASSUME TierInv PROVE TypeOK
    OBVIOUS
  <2>1. /\ table.label \in [Ids -> Labels \cup {NoLabel}]
        /\ table.cold \in Seq(Ids) /\ NoRepeats(table.cold)
        /\ Members(table.cold) = Rows(table)
        /\ table.size \in [Ids -> 0..MaxSize]
        /\ \A id \in Ids : table.size[id] = 0 <=> id \notin Rows(table)
    BY TableIs DEF Charges, TierInv, Typed
  <2>2. /\ writer.id \in Ids \cup {NoId} /\ writer.victim \in Ids \cup {NoId}
        /\ reader.found \subseteq Labels \X Ids /\ reader.hits \subseteq Ids \X Ids
        /\ writer.size \in 0..MaxSize
    BY DEF TierInv, Typed, Writers, Readers
  <2> QED
    BY <2>1, <2>2 DEF TierInv, Typed, TypeOK, Indexes
<1> QED
  BY <1>1, L2Invariant, L3Invariant, PTL

\* Between two operations every live vector is its own memory's row's, and no more
\* rows are without a vector than metadata calls have raised: insert, update,
\* eviction, growth, rollback, close and open, in any order, keep the two stores
\* together, and a metadata call that raises costs one row its vector at most.
THEOREM StoresStayInSync == L2Spec \/ L3Spec => []DualStoreInSync
<1>1. TierInv => DualStoreInSync
  <2> SUFFICES ASSUME TierInv, crashes = 0, up, Idle
               PROVE  StrayVectors = {} /\ Cardinality(Orphans) <= faults
    BY DEF DualStoreInSync
  <2>1. Pending = {}
    BY DEF Pending, Idle, Dropping
  <2>2. table \in Tables /\ index \in Indexes
    BY DEF TierInv, Typed
  <2>3. Live(index) \in SUBSET Labels
    BY <2>2, IndexIs
  <2>4. ASSUME NEW l \in Live(index) PROVE ByLabel(table, l) = {index.vec[l]}
    <3>1. PICK id \in Rows(table) : table.label[id] = l /\ index.vec[l] = id
      BY DEF TierInv, Synced, Held
    <3>2. l # NoLabel /\ id \in Ids
      BY <2>2, <2>3, TierAssumption, TableIs
    <3>3. \A x \in ByLabel(table, l) : x \in Rows(table)
      BY <3>2 DEF ByLabel, Rows
    <3> QED
      BY <2>2, <3>1, <3>2, <3>3, TableIs DEF ByLabel
  <2>5. StrayVectors = {}
    BY <2>4 DEF StrayVectors, Live
  <2>6. Orphans = Orphaned \ Pending
    BY <2>1 DEF Orphans, Orphaned, Held, Live
  <2> QED
    BY <2>5, <2>6 DEF TierInv, Synced
<1> QED
  BY <1>1, L2Invariant, L3Invariant, PTL

\* A query never pairs a vector with the row of another memory, whatever is
\* inserted, evicted or removed between its search and its lookups.
THEOREM QueriesAreTruthful == L2Spec \/ L3Spec => []QueryTruthful
<1>1. TierInv => QueryTruthful
  BY DEF TierInv, Truthful, QueryTruthful
<1> QED
  BY <1>1, L2Invariant, L3Invariant, PTL

\* The byte budget holds between two operations, whatever the lengths of the texts
\* that are inserted: the brake of _evict_to_fit never stops it too early, a
\* shorter text on an update frees bytes, and only an update with a longer text
\* leaves the tier over its budget, until the next fresh insert.
THEOREM TierStaysWithinBudget == L2Spec \/ L3Spec => []WithinBudget
<1>1. TierInv => WithinBudget
  BY DEF TierInv, Paying, WithinBudget, Idle
<1> QED
  BY <1>1, L2Invariant, L3Invariant, PTL

\* No label is handed out while a row carries it, whatever a crash has lost.
THEOREM LabelsAreFresh == L2Spec \/ L3Spec => []LabelIsFresh
<1>1. TierInv => LabelIsFresh
  <2> SUFFICES ASSUME TierInv, writer.pc \in {"row", "upsert"}
               PROVE  ByLabel(table, nextLabel) = {}
    BY DEF LabelIsFresh, FreshLabel
  <2>1. up /\ nextLabel <= MaxLabel
    BY DEF TierInv, Working, Idle
  <2> QED
    BY <2>1, NextLabelIsFree DEF TierInv
<1> QED
  BY <1>1, L2Invariant, L3Invariant, PTL

\* In a tier that adopts the size of a grown index, a fresh insert never meets a
\* full index.
THEOREM InsertsHaveSlots ==
    ASSUME AdoptsCapacity PROVE L2Spec => []FreshInsertHasSlot
<1>1. TierInv => FreshInsertHasSlot
  <2> SUFFICES ASSUME TierInv, writer.pc = "add"
               PROVE  Hnsw!CanAdd(index, writer.label)
    BY DEF FreshInsertHasSlot
  <2>1. /\ index \in Indexes /\ maxElements \in Nat /\ up
        /\ Count(index) < maxElements /\ maxElements <= index.max
    BY DEF TierInv, Typed, Working, Roomy, Idle, Inserting
  <2>2. Count(index) \in Nat /\ index.max \in Nat
    BY <2>1, IndexIs DEF Indexes
  <2> QED
    BY <2>1, <2>2 DEF Hnsw!CanAdd, Count
<1> QED
  BY <1>1, L2Invariant, PTL

\* In such a tier an operation that has evicted a row fails to return it only when
\* a metadata call of its own raises, or when the next coldest row has no vector,
\* which needs a crash or an earlier metadata call that raised: no refusal of the
\* index or of the table comes between an eviction and the return.
THEOREM EvictionsAreReturned ==
    ASSUME AdoptsCapacity
    PROVE  L2Spec => EvictedIsReturned /\ [](crashes = 0 /\ faults = 0 => lost = {})
<1> DEFINE Excused == \/ faults' > faults
                      \/ writer.pc = "fit" /\ Coldest(table) \in Orphans
<1>1. TierInv /\ [L2Next]_vars => [lost' # lost => Excused]_vars
  <2> SUFFICES ASSUME TierInv, L2Next, lost' # lost PROVE Excused
    BY DEF vars
  <2>1. ASSUME Raise PROVE writer.evicted # <<>>
    BY <2>1 DEF Raise, Members
  <2>2. ASSUME Raise PROVE writer.pc \notin {"idle", "logical", "re-add"}
    BY <2>1, <2>2 DEF TierInv, Working, Updating
  <2>3. ASSUME NEW id \in Ids, NEW n \in Lengths[id],
               UpdateStart(id, n) \/ InsertStart(id, n)
        PROVE  FALSE
    BY <2>2, <2>3 DEF UpdateStart, InsertStart, Idle
  <2>4. ASSUME NEW id \in Ids, RemoveStart(id) \/ Touch(id) PROVE FALSE
    BY <2>2, <2>4 DEF RemoveStart, Touch, Idle
  <2>5. ASSUME UpdateRow \/ PreEvictDrop \/ EvictToFitDrop \/ RemoveDrop PROVE FALSE
    BY <2>5 DEF UpdateRow, PreEvictDrop, EvictToFitDrop, RemoveDrop
  <2>6. ASSUME PreEvict PROVE FALSE
    BY <2>2, <2>6 DEF PreEvict, Tombstone
  <2>7. ASSUME WriteRow PROVE FALSE
    <3>1. writer.id \notin Rows(table) /\ ByLabel(table, FreshLabel) = {}
      BY <2>7, NextLabelIsFree DEF WriteRow, TierInv, Working, Idle, FreshLabel
    <3> QED
      BY <2>7, <3>1 DEF WriteRow, CanInsertRow
  <2>8. ASSUME AddVector PROVE FALSE
    <3>1. Raise /\ writer.pc = "add" /\ ~Hnsw!CanAdd(index, writer.label)
      BY <2>2, <2>8 DEF AddVector
    <3>2. /\ index \in Indexes /\ maxElements \in Nat /\ up
          /\ Count(index) < maxElements /\ maxElements <= index.max
      BY <3>1 DEF TierInv, Typed, Working, Roomy, Idle, Inserting
    <3>3. Count(index) \in Nat /\ index.max \in Nat
      BY <3>2, IndexIs DEF Indexes
    <3> QED
      BY <3>1, <3>2, <3>3 DEF Hnsw!CanAdd, Count
  <2>9. ASSUME EvictToFit PROVE Excused
    <3>1. /\ writer.pc = "fit" /\ table.cold # <<>>
          /\ ~Hnsw!CanMarkDeleted(index, table.label[Coldest(table)])
      BY <2>9 DEF EvictToFit, Tombstone
    <3>2. Coldest(table) \in Rows(table)
      BY <3>1, ColdestIsARow DEF TierInv, Typed
    <3> QED
      BY <3>1, <3>2 DEF Orphans, Hnsw!CanMarkDeleted
  <2>10. ASSUME MetadataFails PROVE Excused
    <3>1. faults \in Nat /\ faults' = faults + 1
      BY <2>10, TierAssumption DEF MetadataFails, TierInv, Typed
    <3> QED
      BY <3>1
  <2>11. ASSUME QuerySteps PROVE FALSE
    BY <2>11 DEF QuerySteps, QueryCount, QueryKnn, QueryResolve, QueryReturn,
                 QueryRaises
  <2>12. ASSUME Save \/ Close \/ Open \/ Crash PROVE FALSE
    BY <2>12 DEF Save, Close, Open, Crash
  <2> HIDE DEF Excused
  <2> QED
    BY <2>3, <2>4, <2>5, <2>6, <2>7, <2>8, <2>9, <2>10, <2>11, <2>12
       DEF L2Next, InsertSteps
<1>2. [lost' # lost => Excused]_vars
          => [lost' # lost => \/ faults' > faults
                              \/ writer.pc = "fit" /\ Coldest(table) \in Orphans]_vars
  OBVIOUS
<1>3. TierInv => (crashes = 0 /\ faults = 0 => lost = {})
  BY DEF TierInv, Returned
<1> HIDE DEF Excused
<1> QED
  BY <1>1, <1>2, <1>3, L2Invariant, PTL DEF L2Spec, EvictedIsReturned
=============================================================================
