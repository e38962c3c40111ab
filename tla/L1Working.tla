------------------------------ MODULE L1Working ------------------------------
(***************************************************************************)
(* L1WorkingContext (memory/l1_working.py): the FIFO buffer with a strict  *)
(* byte budget.                                                            *)
(*                                                                         *)
(* _buf is an OrderedDict: `order` is its key order, oldest first, and     *)
(* size[id] what the version it holds is charged (0: not a key).           *)
(* insert() runs under _lock, but as a loop that pops one entry at a time  *)
(* and keeps the running total _bytes_used; its iterations are steps here, *)
(* with `incoming` the memory of the insert that holds the lock, so that   *)
(* the running total is checked against what is held after each of them.   *)
(* The other operations are single critical sections.  The lifetime        *)
(* counters of stats() are left out: nothing reads them back.              *)
(***************************************************************************)
EXTENDS ByteBudget

CONSTANTS
    Capacity,   \* capacity_bytes, in byte units
    NoId        \* "no memory"

ASSUME L1Assumption ==
    /\ Capacity \in Nat \ {0}       \* __init__ raises ValueError otherwise
    /\ NoId \notin Ids

VARIABLES
    order,      \* keys of _buf, oldest first
    size,       \* [Ids -> 0..MaxSize], the charge of the version held
    bytesUsed,  \* _bytes_used
    incoming,   \* the memory an insert() in progress is making room for
    evicted,    \* what that insert() will return, oldest first
    returned,   \* history: ids handed back to the caller and not re-inserted
    entered,    \* history: ids ever accepted
    before      \* history: order and size as the insert() in progress found them

vars == <<order, size, bytesUsed, incoming, evicted, returned, entered, before>>

Held == {id \in Ids : size[id] > 0}

Idle == [id |-> NoId, size |-> 0]

Locked == incoming.id # NoId

Init ==
    /\ order = <<>>
    /\ size = [id \in Ids |-> 0]
    /\ bytesUsed = 0
    /\ incoming = Idle
    /\ evicted = <<>>
    /\ returned = {}
    /\ entered = {}
    /\ before = [order |-> <<>>, size |-> [id \in Ids |-> 0]]

-----------------------------------------------------------------------------
\* The guard of insert(): a memory that alone exceeds the budget is refused
\* with ValueError and nothing changes.
AcceptsAny(c) == TRUE
Accepts(c) == c <= Capacity

\* Running total after the held version of id is dropped.
NoRefund(id) == bytesUsed
DoubleRefund(id) == bytesUsed - 2 * size[id]
Refunded(id) == bytesUsed - size[id]

\* popitem(last=False): the loop's next victim.
Oldest == Head(order)

\* The loop's condition.
OverEager == bytesUsed + incoming.size >= Capacity
OverBudget == bytesUsed + incoming.size > Capacity

\* insert(memory) takes the lock and pops an older version of the same id.
InsertStart(id, c) ==
    /\ Accepts(c)
    /\ ~Locked
    /\ order' = Without(order, id)
    /\ size' = [size EXCEPT ![id] = 0]
    /\ bytesUsed' = Refunded(id)
    /\ incoming' = [id |-> id, size |-> c]
    /\ returned' = returned \ {id}
    /\ entered' = entered \cup {id}
    /\ before' = [order |-> order, size |-> size]
    /\ UNCHANGED evicted

\* One iteration of the eviction loop.
EvictOldest ==
    /\ Locked /\ OverBudget /\ order # <<>>
    /\ order' = Without(order, Oldest)
    /\ size' = [size EXCEPT ![Oldest] = 0]
    /\ bytesUsed' = Refunded(Oldest)
    /\ evicted' = Append(evicted, Oldest)
    /\ UNCHANGED <<incoming, returned, entered, before>>

\* The loop is over: the memory becomes the newest, the victims are returned.
InsertFinish ==
    /\ Locked /\ (~OverBudget \/ order = <<>>)
    /\ order' = Append(order, incoming.id)
    /\ size' = [size EXCEPT ![incoming.id] = incoming.size]
    /\ bytesUsed' = bytesUsed + incoming.size
    /\ incoming' = Idle
    /\ evicted' = <<>>
    /\ returned' = returned \cup Members(evicted)
    /\ UNCHANGED <<entered, before>>

\* remove(id) of a key; for any other id it returns None and changes nothing.
RemoveKey(id) ==
    /\ ~Locked /\ id \in Held
    /\ order' = Without(order, id)
    /\ size' = [size EXCEPT ![id] = 0]
    /\ bytesUsed' = Refunded(id)
    /\ returned' = returned \cup {id}
    /\ UNCHANGED <<incoming, evicted, entered, before>>

\* touch(id): the record is replaced and moves to the back of the FIFO.
MovedToFront(id) == <<id>> \o Without(order, id)
MovedToBack(id) == Append(Without(order, id), id)

Touch(id) ==
    /\ ~Locked /\ id \in Held
    /\ order' = MovedToBack(id)
    /\ UNCHANGED <<size, bytesUsed, incoming, evicted, returned, entered, before>>

\* clear(): everything goes back to the caller.
ClearAndForget ==
    /\ ~Locked
    /\ order' = <<>>
    /\ size' = [id \in Ids |-> 0]
    /\ bytesUsed' = 0
    /\ UNCHANGED <<incoming, evicted, returned, entered, before>>

Clear ==
    /\ ~Locked
    /\ order' = <<>>
    /\ size' = [id \in Ids |-> 0]
    /\ bytesUsed' = 0
    /\ returned' = returned \cup Held
    /\ UNCHANGED <<incoming, evicted, entered, before>>

Next ==
    \/ \E id \in Ids, c \in Sizes : InsertStart(id, c)
    \/ EvictOldest
    \/ InsertFinish
    \/ \E id \in Ids : RemoveKey(id) \/ Touch(id)
    \/ Clear

Spec == Init /\ [][Next]_vars

-----------------------------------------------------------------------------
(* Properties *)

\* Type invariant.
TypeOK ==
    /\ order \in Seq(Ids)
    /\ size \in [Ids -> 0..MaxSize]
    /\ bytesUsed \in Nat
    /\ incoming \in [id : Ids, size : Sizes] \cup {Idle}
    /\ evicted \in Seq(Ids)
    /\ returned \subseteq Ids
    /\ entered \subseteq Ids
    /\ before \in [order : Seq(Ids), size : [Ids -> 0..MaxSize]]

\* The running total _bytes_used is, after every iteration, exactly what the
\* held memories are charged: updates, evictions, removals and clear() refund
\* what the version they drop was charged, never what its successor costs.
BytesExact == bytesUsed = Bytes(size, Held)

\* The budget is strict: at no time, not even inside insert(), do the held
\* memories exceed the capacity.
WithinBudget == Bytes(size, Held) <= Capacity

\* The keys of the order are the memories charged for, each once.
KeysAreHeld == NoRepeats(order) /\ Members(order) = Held

\* What insert() makes room for is not held and fits into an empty buffer.
IncomingFits ==
    Locked => incoming.id \notin Members(order) /\ incoming.size <= Capacity

\* The inductive invariant behind BytesExact and WithinBudget.
L1Inv == TypeOK /\ BytesExact /\ WithinBudget /\ KeysAreHeld /\ IncomingFits

\* "L1 never silently drops": a memory ever accepted is held, is being
\* inserted, is a victim about to be returned, or was handed back.
NeverSilentlyDrops ==
    entered = Held \cup returned \cup Members(evicted)
                   \cup (IF Locked THEN {incoming.id} ELSE {})

\* FIFO honesty: two memories change their relative order only when the older
\* of the two becomes the newest of all, by a touch or a re-insert.
OrderHonest ==
    [][\A i, j \in 1..Len(order), m, n \in 1..Len(order') :
            i < j /\ n < m /\ order[i] = order'[m] /\ order[j] = order'[n]
                => m = Len(order')]_vars

(***************************************************************************)
(* The loop seen from outside the lock is one step: an insert takes away   *)
(* the shortest run of oldest memories that makes room, and nothing else.  *)
(***************************************************************************)
Atomic == INSTANCE L1Atomic WITH
    order <- IF Locked THEN before.order ELSE order,
    size  <- IF Locked THEN before.size ELSE size

AtomicInsert == Atomic!Spec
=============================================================================
