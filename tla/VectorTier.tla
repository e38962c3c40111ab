----------------------------- MODULE VectorTier -----------------------------
(***************************************************************************)
(* A persistent tier: hnswlib index + SQLite metadata sidecar.             *)
(* L2HotVectorCache (memory/l2_cache.py) and L3ArchiveCache                *)
(* (memory/l3_archive.py) share this shape line by line; L2Cache and       *)
(* L3Archive instantiate it, AdoptsCapacity being what tells them apart.   *)
(*                                                                         *)
(* insert() and remove() hold one RLock, but get(), query(), touch() and   *)
(* the pruner's reads do not take it, and the two stores change one call   *)
(* at a time: every call that changes one of them is a step, `writer` is   *)
(* the operation that holds the lock, `reader` a query() beside it.  Rows  *)
(* are committed by each step, the index reaches the disk only by save():  *)
(* a crash keeps the former and the last saved image of the latter.        *)
(* A row keeps what its text is charged; its context and the counters are  *)
(* left out.  A metadata call that raises changes nothing (_txn rolls its  *)
(* transaction back) and its exception leaves the method: MetadataFails.   *)
(* That of an operation that has changed nothing yet is no step here.  An  *)
(* embedding of the wrong dimension is refused before anything changes,    *)
(* and so is k <= 0.                                                       *)
(***************************************************************************)
EXTENDS MetadataTable

CONSTANTS
    NoId,           \* "no memory"
    Tombstoned,     \* what is left of a vector after mark_deleted
    Lengths,        \* [Ids -> SUBSET Sizes], the charges of the texts that
                    \* insert() may bring for a memory
    Capacity,       \* capacity_bytes
    MaxElements,    \* the max_elements the tier is opened with
    Headroom,       \* slots a growth adds at least (16 in the code)
    AdoptsCapacity, \* does open() adopt the size of a grown index? (L2 only)
    K,              \* k of the queries
    Overfetch,      \* hits asked of the index per hit returned (L2: 1, L3: 4)
    MaxCrashes,     \* bound on the number of crashes
    MaxFaults       \* bound on the metadata calls that raise

ASSUME TierAssumption ==
    /\ NoId \notin Ids /\ Tombstoned \notin Ids \cup {NoId}
    /\ NoLabel \notin Labels
    /\ Lengths \in [Ids -> SUBSET Sizes]
    /\ Capacity \in Nat \ {0} /\ MaxElements \in Nat \ {0}
    /\ Headroom \in Nat \ {0} /\ AdoptsCapacity \in BOOLEAN
    /\ K \in Nat /\ Overfetch \in Nat \ {0} /\ MaxLabel \in Nat
    /\ MaxCrashes \in Nat /\ MaxFaults \in Nat

VARIABLES
    up,             \* is the tier open?
    table,          \* the metadata rows (durable)
    index,          \* the index in memory
    image,          \* hnsw.bin; max = 0 while the file does not exist
    maxElements,    \* _max_elements
    nextLabel,      \* _next_label
    writer,         \* the insert() or remove() that holds _lock
    reader,         \* a query(), which takes no lock
    lost,           \* history: rows deleted by an eviction never returned
    crashes,
    faults,         \* history: metadata calls that raised
    lengthened      \* history: an update has lengthened a text, and no insert()
                    \* has evicted to fit since

vars == <<up, table, index, image, maxElements, nextLabel, writer, reader,
          lost, crashes, faults, lengthened>>

Hnsw == INSTANCE HnswIndex

Free == [pc |-> "idle", id |-> NoId, size |-> 0, label |-> NoLabel,
         victim |-> NoId, evicted |-> <<>>, fitted |-> 0]

NoQuery == [pc |-> "idle", k |-> 0, found |-> {}, hits |-> {}]

Idle == writer.pc = "idle"

LiveCount == Cardinality(Rows(table))

\* _current_bytes_estimate
BytesEstimate == Bytes(table.size, Rows(table))

Init ==
    /\ up = TRUE
    /\ table = NoRows
    /\ index = Hnsw!NewIndex(MaxElements)
    /\ image = Hnsw!NewIndex(0)
    /\ maxElements = MaxElements
    /\ nextLabel = 0
    /\ writer = Free
    /\ reader = NoQuery
    /\ lost = {}
    /\ crashes = 0
    /\ faults = 0
    /\ lengthened = FALSE

-----------------------------------------------------------------------------
(* insert() and remove(), which hold the lock *)

\* An exception leaves the method: what it had evicted is not returned.
Raise ==
    /\ writer' = Free
    /\ lost' = lost \cup Members(writer.evicted)

\* _next_label as the label of the row about to be written.
SmallestFreeLabel ==
    CHOOSE l \in Labels : ByLabel(table, l) = {} /\
        \A m \in Labels : ByLabel(table, m) = {} => l <= m
FreshLabel == nextLabel

\* The update path of insert(): tombstone the old vector ...
UpdateStart(id, n) ==
    /\ up /\ Idle /\ id \in Rows(table) /\ nextLabel <= MaxLabel
    /\ LET l == table.label[id] IN
       IF Hnsw!CanMarkDeleted(index, l)
       THEN /\ index' = Hnsw!MarkDeleted(index, l)
            /\ writer' = [Free EXCEPT !.pc = "upsert", !.id = id, !.size = n]
            /\ UNCHANGED lost
       ELSE Raise /\ UNCHANGED index
    /\ UNCHANGED <<up, table, image, maxElements, nextLabel, reader, crashes, faults,
                   lengthened>>

\* ... and give the row a new label and the new text.  Nothing is evicted,
\* however long the text is.
UpdateRow ==
    /\ writer.pc = "upsert"
    /\ table' = ReplaceRow(table, writer.id, FreshLabel, writer.size)
    /\ nextLabel' = nextLabel + 1
    /\ writer' = [writer EXCEPT !.pc = "re-add", !.label = FreshLabel]
    /\ lengthened' = (lengthened \/ writer.size > table.size[writer.id])
    /\ UNCHANGED <<up, index, image, maxElements, reader, lost, crashes, faults>>

\* The size the index grows to when it is full.  L2 starts from the number of
\* slots in use, L3 from _max_elements whatever the index holds.
MaxOf(a, b) == IF a >= b THEN a ELSE b

GrowBase ==
    IF AdoptsCapacity THEN MaxOf(maxElements, Hnsw!CurrentCount(index))
                      ELSE maxElements
GrownSize == MaxOf((GrowBase * 3) \div 2, GrowBase + Headroom)

FullWhenExceeded == Hnsw!CurrentCount(index) > maxElements
PhysicallyFull == Hnsw!CurrentCount(index) >= maxElements

\* The fresh path, concern 1 of _ensure_capacity_for_insert: grow a full index.
InsertStart(id, n) ==
    /\ up /\ Idle /\ id \notin Rows(table) /\ nextLabel <= MaxLabel
    /\ IF ~PhysicallyFull
       THEN /\ writer' = [Free EXCEPT !.pc = "logical", !.id = id, !.size = n]
            /\ UNCHANGED <<index, maxElements, lost>>
       ELSE IF Hnsw!CanResize(index, GrownSize)
       THEN /\ index' = Hnsw!Resize(index, GrownSize)
            /\ maxElements' = GrownSize
            /\ writer' = [Free EXCEPT !.pc = "logical", !.id = id, !.size = n]
            /\ UNCHANGED lost
       ELSE Raise /\ UNCHANGED <<index, maxElements>>
    /\ UNCHANGED <<up, table, image, nextLabel, reader, crashes, faults,
                   lengthened>>

\* First half of an eviction: tombstone the coldest row's vector.
Tombstone(nextPc) ==
    LET victim == Coldest(table) IN
    IF Hnsw!CanMarkDeleted(index, table.label[victim])
    THEN /\ index' = Hnsw!MarkDeleted(index, table.label[victim])
         /\ writer' = [writer EXCEPT !.pc = nextPc, !.victim = victim]
         /\ UNCHANGED lost
    ELSE Raise /\ UNCHANGED index

\* Second half: delete the row and put the memory on the list to return.  (When
\* the delete raises, MetadataFails: the row stays, without a live vector.)
DropVictim(nextPc) ==
    /\ table' = DeleteRow(table, writer.victim)
    /\ writer' = [writer EXCEPT !.pc = nextPc, !.victim = NoId,
                                !.evicted = Append(@, writer.victim)]

\* Concern 2 of _ensure_capacity_for_insert: one row out at the ceiling.
PreEvict ==
    /\ writer.pc = "logical"
    /\ IF LiveCount >= maxElements /\ table.cold # <<>>
       THEN Tombstone("logical-drop")
       ELSE writer' = [writer EXCEPT !.pc = "row"] /\ UNCHANGED <<index, lost>>
    /\ UNCHANGED <<up, table, image, maxElements, nextLabel, reader, crashes, faults,
                   lengthened>>

PreEvictDrop ==
    /\ writer.pc = "logical-drop"
    /\ DropVictim("row")
    /\ UNCHANGED <<up, index, image, maxElements, nextLabel, reader, lost, crashes,
                   faults, lengthened>>

\* Metadata first; the label is consumed even when the INSERT fails.
WriteRow ==
    /\ writer.pc = "row"
    /\ nextLabel' = nextLabel + 1
    /\ IF CanInsertRow(table, writer.id, FreshLabel)
       THEN /\ table' = InsertRow(table, writer.id, FreshLabel, writer.size)
            /\ writer' = [writer EXCEPT !.pc = "add", !.label = FreshLabel]
            /\ UNCHANGED lost
       ELSE Raise /\ UNCHANGED table
    /\ UNCHANGED <<up, index, image, maxElements, reader, crashes, faults,
                   lengthened>>

\* Then the vector; a refusal rolls the row back, by deleting it.
AddVectorKeepingRow ==
    /\ writer.pc \in {"add", "re-add"}
    /\ IF Hnsw!CanAdd(index, writer.label)
       THEN /\ index' = Hnsw!AddItem(index, writer.label, writer.id)
            /\ writer' = IF writer.pc = "add" THEN [writer EXCEPT !.pc = "fit"]
                                              ELSE Free
            /\ UNCHANGED <<table, lost>>
       ELSE Raise /\ UNCHANGED <<index, table>>
    /\ UNCHANGED <<up, image, maxElements, nextLabel, reader, crashes, faults,
                   lengthened>>

AddVector ==
    /\ writer.pc \in {"add", "re-add"}
    /\ IF Hnsw!CanAdd(index, writer.label)
       THEN /\ index' = Hnsw!AddItem(index, writer.label, writer.id)
            /\ writer' = IF writer.pc = "add" THEN [writer EXCEPT !.pc = "fit"]
                                              ELSE Free
            /\ UNCHANGED <<table, lost>>
       ELSE /\ table' = DeleteRow(table, writer.id)
            /\ Raise /\ UNCHANGED index
    /\ UNCHANGED <<up, image, maxElements, nextLabel, reader, crashes, faults,
                   lengthened>>

\* _evict_to_fit: the coldest goes while a budget is exceeded; the brake stops
\* after _max_elements victims.
OverCountOnly == LiveCount > maxElements
OverBudget == BytesEstimate > Capacity \/ LiveCount > maxElements

Braked == writer.fitted >= maxElements

EvictToFit ==
    /\ writer.pc = "fit"
    /\ IF OverBudget /\ table.cold # <<>> /\ ~Braked
       THEN Tombstone("fit-drop") /\ UNCHANGED lengthened
       ELSE /\ writer' = Free /\ lengthened' = FALSE
            /\ UNCHANGED <<index, lost>>
    /\ UNCHANGED <<up, table, image, maxElements, nextLabel, reader, crashes, faults>>

EvictToFitDrop ==
    /\ writer.pc = "fit-drop"
    /\ table' = DeleteRow(table, writer.victim)
    /\ writer' = [writer EXCEPT !.pc = "fit", !.victim = NoId,
                                !.evicted = Append(@, writer.victim),
                                !.fitted = @ + 1]
    /\ UNCHANGED <<up, index, image, maxElements, nextLabel, reader, lost, crashes,
                   faults, lengthened>>

\* remove(id): tombstone, then delete the row; an unknown id changes nothing.
RemoveStart(id) ==
    /\ up /\ Idle /\ id \in Rows(table)
    /\ IF Hnsw!CanMarkDeleted(index, table.label[id])
       THEN /\ index' = Hnsw!MarkDeleted(index, table.label[id])
            /\ writer' = [Free EXCEPT !.pc = "remove-drop", !.victim = id]
            /\ UNCHANGED lost
       ELSE Raise /\ UNCHANGED index
    /\ UNCHANGED <<up, table, image, maxElements, nextLabel, reader, crashes, faults,
                   lengthened>>

RemoveDrop ==
    /\ writer.pc = "remove-drop"
    /\ table' = DeleteRow(table, writer.victim)
    /\ writer' = Free
    /\ UNCHANGED <<up, index, image, maxElements, nextLabel, reader, lost, crashes,
                   faults, lengthened>>

\* The next metadata call of the operation that holds the lock raises: the
\* upsert, a read or a delete of an eviction, the insert, remove()'s delete, or
\* the delete that was to roll the row back.  What the index has done stays
\* done, and the label is consumed.
ConsumesLabel == writer.pc \in {"upsert", "row"}

MetadataFails ==
    /\ faults < MaxFaults
    /\ \/ writer.pc \in {"upsert", "logical", "logical-drop", "row",
                         "fit", "fit-drop", "remove-drop"}
       \/ writer.pc \in {"add", "re-add"} /\ ~Hnsw!CanAdd(index, writer.label)
    /\ faults' = faults + 1
    /\ nextLabel' = IF ConsumesLabel THEN nextLabel + 1 ELSE nextLabel
    /\ Raise
    /\ UNCHANGED <<up, table, index, image, maxElements, reader, crashes, lengthened>>

-----------------------------------------------------------------------------
(* touch() and query(), which do not take the lock *)

Touch(id) ==
    /\ up /\ id \in Rows(table)
    /\ table' = TouchRow(table, id)
    /\ UNCHANGED <<up, index, image, maxElements, nextLabel, writer, reader,
                   lost, crashes, faults, lengthened>>

\* query(): count the rows ...  Bound: only before a crash; a query changes
\* neither store.
QueryCount ==
    /\ up /\ K > 0 /\ crashes = 0 /\ reader.pc = "idle" /\ LiveCount > 0
    /\ reader' = [NoQuery EXCEPT !.pc = "knn",
                                 !.k = IF LiveCount < K * Overfetch THEN LiveCount
                                       ELSE K * Overfetch]
    /\ UNCHANGED <<up, table, index, image, maxElements, nextLabel, writer,
                   lost, crashes, faults, lengthened>>

\* ... ask the index for that many labels, whichever are nearest (the error
\* of an index that has fewer is caught, and the answer is []) ...
QueryKnn ==
    /\ reader.pc = "knn"
    /\ IF Hnsw!CanQuery(index, reader.k)
       THEN \E ls \in SUBSET Hnsw!Live(index) :
               /\ Cardinality(ls) = reader.k
               /\ reader' = [reader EXCEPT
                                 !.pc = "resolve",
                                 !.found = {<<l, index.vec[l]>> : l \in ls}]
       ELSE reader' = NoQuery
    /\ UNCHANGED <<up, table, index, image, maxElements, nextLabel, writer,
                   lost, crashes, faults, lengthened>>

\* ... and look their rows up one by one, until there are K hits; labels
\* without a row are skipped.
\* A hit is the pair of the memory embedded and the memory returned.
QueryResolve ==
    /\ reader.pc = "resolve" /\ Cardinality(reader.hits) < K
    /\ \E f \in reader.found :
          reader' = [reader EXCEPT
                        !.found = @ \ {f},
                        !.hits = @ \cup {<<f[2], id>> : id \in ByLabel(table, f[1])}]
    /\ UNCHANGED <<up, table, index, image, maxElements, nextLabel, writer,
                   lost, crashes, faults, lengthened>>

QueryReturn ==
    /\ reader.pc = "resolve"
    /\ reader.found = {} \/ Cardinality(reader.hits) >= K
    /\ reader' = NoQuery
    /\ UNCHANGED <<up, table, index, image, maxElements, nextLabel, writer,
                   lost, crashes, faults, lengthened>>

\* A row lookup raises.
QueryRaises ==
    /\ reader.pc = "resolve"
    /\ reader' = NoQuery
    /\ UNCHANGED <<up, table, index, image, maxElements, nextLabel, writer,
                   lost, crashes, faults, lengthened>>

-----------------------------------------------------------------------------
(* Persistence *)

\* Bound: a save is explored only while a crash may follow it; otherwise
\* close() overwrites hnsw.bin before anything reads it.
Save ==
    /\ up /\ Idle /\ crashes < MaxCrashes
    /\ image' = index
    /\ UNCHANGED <<up, table, index, maxElements, nextLabel, writer, reader,
                   lost, crashes, faults, lengthened>>

Close ==
    /\ up /\ Idle /\ reader.pc = "idle"
    /\ image' = index
    /\ up' = FALSE
    /\ UNCHANGED <<table, index, maxElements, nextLabel, writer, reader,
                   lost, crashes, faults, lengthened>>

Crash ==
    /\ up /\ crashes < MaxCrashes
    /\ up' = FALSE
    /\ writer' = Free
    /\ reader' = NoQuery
    /\ crashes' = crashes + 1
    /\ UNCHANGED <<table, index, image, maxElements, nextLabel, lost, faults,
                   lengthened>>

\* __init__ on the directory a run left behind.
ReopenedSize(loaded) ==
    IF AdoptsCapacity
    THEN MaxOf(MaxElements, MaxOf(loaded.max, Hnsw!CurrentCount(loaded)))
    ELSE MaxElements

ResumeAtCount == LiveCount
ResumeLabel == LabelAfterLast(table)

Open ==
    /\ ~up
    /\ up' = TRUE
    /\ nextLabel' = ResumeLabel
    /\ IF image.max = 0
       THEN /\ index' = Hnsw!NewIndex(MaxElements)
            /\ maxElements' = MaxElements
       ELSE LET loaded == Hnsw!Load(image, MaxElements) IN
            /\ maxElements' = ReopenedSize(loaded)
            /\ index' = IF AdoptsCapacity
                        THEN Hnsw!Resize(loaded, ReopenedSize(loaded))
                        ELSE loaded
    /\ UNCHANGED <<table, image, writer, reader, lost, crashes,
                   faults, lengthened>>

-----------------------------------------------------------------------------
InsertSteps ==
    \/ PreEvict \/ PreEvictDrop \/ WriteRow \/ AddVector
    \/ EvictToFit \/ EvictToFitDrop

QuerySteps ==
    \/ QueryCount \/ QueryKnn \/ QueryResolve \/ QueryReturn \/ QueryRaises

-----------------------------------------------------------------------------
(* Properties *)

\* Type invariant.
TypeOK ==
    /\ up \in BOOLEAN
    /\ table.label \in [Ids -> Labels \cup {NoLabel}]
    /\ table.cold \in Seq(Ids) /\ NoRepeats(table.cold)
    /\ Members(table.cold) = Rows(table)
    /\ table.size \in [Ids -> 0..MaxSize]
    /\ \A id \in Ids : table.size[id] = 0 <=> id \notin Rows(table)
    /\ \A ix \in {index, image} :
          ix \in [vec : [Labels -> Ids \cup {NoId, Tombstoned}], max : Nat]
    /\ maxElements \in Nat /\ nextLabel \in 0..(MaxLabel + 1)
    /\ writer.id \in Ids \cup {NoId} /\ writer.victim \in Ids \cup {NoId}
    /\ reader.found \subseteq Labels \X Ids /\ reader.hits \subseteq Ids \X Ids
    /\ writer.size \in 0..MaxSize
    /\ lost \subseteq Ids /\ crashes \in 0..MaxCrashes
    /\ faults \in 0..MaxFaults /\ lengthened \in BOOLEAN

\* Rows whose label has no live vector: no query finds them, and eviction,
\* update and removal raise at them.
Orphans == {id \in Rows(table) : table.label[id] \notin Hnsw!Live(index)}

\* Vectors that are no row's, or another memory's row's.
StrayVectors ==
    {l \in Hnsw!Live(index) : ByLabel(table, l) # {index.vec[l]}}

\* Between two operations every live vector has a row, which is that of its own
\* memory, and every row has a live vector, but for one row per metadata call
\* that raised, as long as the process has not crashed.
DualStoreInSync ==
    crashes = 0 /\ up /\ Idle =>
        StrayVectors = {} /\ Cardinality(Orphans) <= faults

\* A query never pairs a vector with the row of another memory, whatever is
\* evicted, removed or inserted between its search and its row lookups, as long
\* as the process has not crashed.
QueryTruthful == \A h \in reader.hits : h[1] = h[2]

\* The byte budget holds between two operations: once an insert() of a new
\* memory has returned, and until an update brings a longer text, as long as the
\* process has not crashed and no metadata call has raised.
WithinBudget ==
    crashes = 0 /\ faults = 0 /\ up /\ Idle /\ ~lengthened =>
        BytesEstimate <= Capacity

\* A memory evicted from the tier is handed to the caller (which stores it in
\* the next tier): an operation deletes a row and then fails to return it only
\* when a metadata call of its own raises, or when it goes on to the coldest row
\* and that has no vector; also after crashes.
EvictedIsReturned ==
    [][lost' # lost =>
          \/ faults' > faults
          \/ writer.pc = "fit" /\ Coldest(table) \in Orphans]_vars

\* _ensure_capacity_for_insert leaves a free slot: a fresh insert never meets
\* a full index, so its vector is never refused.
FreshInsertHasSlot ==
    writer.pc = "add" => Hnsw!CanAdd(index, writer.label)

\* Labels are not handed out twice while a row carries them, whatever was lost:
\* the INSERT never meets the UNIQUE constraint on hnsw_label.
LabelIsFresh ==
    writer.pc \in {"row", "upsert"} => ByLabel(table, FreshLabel) = {}

\* insert() of a memory that is already stored never makes it disappear.
UpdateKeepsMemory ==
    [][writer.pc = "re-add" /\ up' => writer.id \in Rows(table)']_vars
=============================================================================
