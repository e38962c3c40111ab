---------------------------- MODULE MemoryManager ----------------------------
(***************************************************************************)
(* MemoryManager (memory/manager.py) over its three tiers, with the        *)
(* callers (the agent, the pruner thread) as Threads.                      *)
(*                                                                         *)
(* The manager has no lock of its own: every call it makes on a tier is    *)
(* atomic (the tier's lock), and between two calls other threads run.  One *)
(* action is one call on one tier.  L1's insert is L1Atomic's (which       *)
(* L1Working implements); L2's and L3's evict the rows with the oldest     *)
(* last_touch until the byte budget holds.  What is still to be done by a  *)
(* thread is its `todo` list of puts: storing into a tier prepends a put,  *)
(* one tier below, for each memory the tier evicted, which is the order of *)
(* the nested loops of insert(), promote() and _cascade_to_l3().           *)
(*                                                                         *)
(* max_elements is left out: the indexes grow, so it never evicts (see     *)
(* L2Cache).  Access counts, scores and the 24h counters are left out.     *)
(***************************************************************************)
EXTENDS ByteBudget

CONSTANTS
    Threads,
    Size,           \* [Ids -> Sizes]: what a memory is charged
    Cap,            \* <<capacity of L1, of L2, of L3>>
    CallsFail,      \* may the embedder, or a call of L2 or L3, raise?
    TopK,           \* k of query(); 0: no queries
    NoId

L1 == 1  L2 == 2  L3 == 3
Tiers == {L1, L2, L3}
NoTier == 0

ASSUME ManagerAssumption ==
    /\ Size \in [Ids -> Sizes]
    /\ Cap \in [Tiers -> Nat \ {0}]
    /\ CallsFail \in BOOLEAN
    /\ TopK \in Nat
    /\ NoId \notin Ids

VARIABLES
    fifo,       \* L1, oldest first
    rows,       \* [{L2, L3} -> SUBSET Ids]
    touched,    \* [{L2, L3} -> ids by last_touch, oldest first]
    thread,     \* [Threads -> what the thread is doing]
    used,       \* ids handed out by uuid4
    refused,    \* history: insert() raised before it stored these
    dropped,    \* history: an exception left these in no tier
    forgotten,  \* history: forget() returned True for these
    agedOff     \* history: evicted from L3

vars == <<fifo, rows, touched, thread, used, refused, dropped, forgotten, agedOff>>

\* A thread at the beginning of an operation, and one in none.
Doing(op, pc, id, at, target, todo) ==
    [op |-> op, pc |-> pc, id |-> id, at |-> at, target |-> target, todo |-> todo,
     stamped |-> FALSE, cand |-> {}]

Asleep == Doing("none", "idle", NoId, NoTier, NoTier, <<>>)

InTier(tier) == IF tier = L1 THEN Members(fifo) ELSE rows[tier]

Init ==
    /\ fifo = <<>>
    /\ rows = [tier \in {L2, L3} |-> {}]
    /\ touched = [tier \in {L2, L3} |-> <<>>]
    /\ thread = [t \in Threads |-> Asleep]
    /\ used = {}
    /\ refused = {}
    /\ dropped = {}
    /\ forgotten = {}
    /\ agedOff = {}

Become(t, state) == thread' = [thread EXCEPT ![t] = state]

\* last_touch of a memory set to now, in the given tier's order.
Unrefreshed(tier, id) == touched
StampedOldest(tier, id) ==
    [touched EXCEPT ![tier] = <<id>> \o Without(@, id)]
Freshened(tier, id) ==
    [touched EXCEPT ![tier] = Append(Without(@, id), id)]

-----------------------------------------------------------------------------
(* Putting memories into tiers: _put_in_tier and the cascades *)

Put(id, tier) == [id |-> id, tier |-> tier]

\* Where the victims of a tier go.
OneBelow(tier) == tier + 1

\* insert(text, context, tier): `at` is the tier asked for.
Insert(t, id, tier) ==
    /\ thread[t].pc = "idle" /\ id \notin used
    /\ used' = used \cup {id}
    /\ Become(t, Doing("insert", "put", id, tier, tier, <<Put(id, tier)>>))
    /\ UNCHANGED <<fifo, rows, touched, refused, dropped, forgotten, agedOff>>

\* The put is done: on with those of its victims, then with the older ones.
ProceedDroppingVictims(t, victims, tier) ==
    LET todo == Tail(thread[t].todo)
    IN  Become(t, IF todo = <<>> THEN Asleep
                  ELSE [thread[t] EXCEPT !.todo = todo, !.stamped = FALSE])

Proceed(t, victims, tier) ==
    LET next == [i \in 1..Len(victims) |-> Put(victims[i], OneBelow(tier))]
        todo == (IF tier = L3 THEN <<>> ELSE next) \o Tail(thread[t].todo)
    IN  Become(t, IF todo = <<>> THEN Asleep
                  ELSE [thread[t] EXCEPT !.todo = todo, !.stamped = FALSE])

\* The memories a thread has taken out of the tiers and will put back.
InHand(t) ==
    {thread[t].todo[i].id : i \in 1..Len(thread[t].todo)}

\* An exception leaves the operation: the rest of its work is not done.
Raised(t) ==
    LET own == IF thread[t].op = "insert" THEN {thread[t].id} \cap InHand(t)
                                          ELSE {}
    IN  /\ Become(t, Asleep)
        /\ refused' = refused \cup own
        /\ dropped' = dropped \cup (InHand(t) \ own)

\* insert() is at its first put, which it makes in a try whose `except
\* ValueError` stores the memory in L2 instead, whatever the tier asked for.
InTry(t) ==
    thread[t].op = "insert"
        /\ Head(thread[t].todo) = Put(thread[t].id, thread[t].at)

Reroute(t) ==
    /\ Become(t, [thread[t] EXCEPT !.at = NoTier, !.target = L2, !.stamped = FALSE,
                                   !.todo = <<Put(thread[t].id, L2)>>])
    /\ UNCHANGED <<refused, dropped>>

\* L1.insert.  A memory larger than the budget raises ValueError, which
\* promote() does not catch.
PutL1(t) ==
    /\ thread[t].pc = "put" /\ Head(thread[t].todo).tier = L1
    /\ LET id   == Head(thread[t].todo).id
           rest == Without(fifo, id)
           n    == PopCount(Size, rest, Size[id], Cap[L1])
       IN  IF Size[id] <= Cap[L1]
           THEN /\ fifo' = Append(Suffix(rest, n), id)
                /\ Proceed(t, SubSeq(rest, 1, n), L1)
                /\ UNCHANGED <<refused, dropped>>
           ELSE /\ IF InTry(t) THEN Reroute(t) ELSE Raised(t)
                /\ UNCHANGED fifo
    /\ UNCHANGED <<rows, touched, used, forgotten, agedOff>>

\* _put_in_l2 and _put_in_l3, before the insert: stamp the memory (_with_tier)
\* and embed its text.
Embed(t) ==
    /\ thread[t].pc = "put" /\ Head(thread[t].todo).tier # L1
    /\ ~thread[t].stamped
    /\ Become(t, [thread[t] EXCEPT !.stamped = TRUE])
    /\ touched' = Freshened(Head(thread[t].todo).tier, Head(thread[t].todo).id)
    /\ UNCHANGED <<fifo, rows, used, refused, dropped, forgotten, agedOff>>

\* embed() raises, or the tier's insert does before it has stored anything.  A
\* ValueError of insert()'s first put is caught.
PutRaises(t) ==
    /\ CallsFail
    /\ thread[t].pc = "put" /\ Head(thread[t].todo).tier # L1
    /\ \/ Raised(t)
       \/ InTry(t) /\ Reroute(t)
    /\ UNCHANGED <<fifo, rows, touched, used, forgotten, agedOff>>

\* The rows of a tier that a put evicts: none if all fit or if it updates a row
\* that is there already, else the coldest until the rest fits.
ColdOrder(tier, ids) == Among(touched[tier], ids)

NoVictims(tier, id) == <<>>
Victims(tier, id) ==
    LET all  == rows[tier] \cup {id}
        cold == ColdOrder(tier, all)
    IN  IF id \in rows[tier] \/ Bytes(Size, all) <= Cap[tier] THEN <<>>
        ELSE SubSeq(cold, 1, PopCount(Size, cold, 0, Cap[tier]))

\* L2.insert and L3.insert.  L3's victims are gone.
PutRow(t) ==
    /\ thread[t].pc = "put" /\ thread[t].stamped
    /\ LET id      == Head(thread[t].todo).id
           tier    == Head(thread[t].todo).tier
           victims == Victims(tier, id)
       IN  /\ rows' = [rows EXCEPT ![tier] = (@ \cup {id}) \ Members(victims)]
           /\ agedOff' = IF tier = L3 THEN agedOff \cup Members(victims)
                                      ELSE agedOff
           /\ Proceed(t, victims, tier)
    /\ UNCHANGED <<fifo, touched, used, refused, dropped, forgotten>>

-----------------------------------------------------------------------------
(* promote, demote, forget *)

\* promote(id), demote(id): _find looks into the tiers in turn ...
Move(t, op, id) ==
    /\ thread[t].pc = "idle" /\ id \in used
    /\ Become(t, Doing(op, "find", id, L1, NoTier, <<>>))
    /\ UNCHANGED <<fifo, rows, touched, used, refused, dropped, forgotten, agedOff>>

Neighbour(op, tier) ==
    CASE op = "promote" -> IF tier = L1 THEN L1 ELSE tier - 1
      [] op = "demote"  -> IF tier = L3 THEN L3 ELSE tier + 1

\* ... nothing to do if the memory is unknown or at the end of the line ...
FindRetrying(t) ==
    /\ thread[t].pc = "find"
    /\ LET tier   == thread[t].at
           target == Neighbour(thread[t].op, tier)
       IN  IF thread[t].id \in InTier(tier)
           THEN Become(t, IF target = tier THEN Asleep
                          ELSE [thread[t] EXCEPT !.pc = "remove", !.at = L1,
                                                 !.target = target])
           ELSE Become(t, [thread[t] EXCEPT !.at = IF tier = L3 THEN L1
                                                   ELSE tier + 1])
    /\ UNCHANGED <<fifo, rows, touched, used, refused, dropped, forgotten, agedOff>>

Find(t) ==
    /\ thread[t].pc = "find"
    /\ LET tier   == thread[t].at
           target == Neighbour(thread[t].op, tier)
       IN  IF thread[t].id \in InTier(tier)
           THEN Become(t, IF target = tier THEN Asleep
                          ELSE [thread[t] EXCEPT !.pc = "remove", !.at = L1,
                                                 !.target = target])
           ELSE Become(t, IF tier = L3 THEN Asleep
                          ELSE [thread[t] EXCEPT !.at = tier + 1])
    /\ UNCHANGED <<fifo, rows, touched, used, refused, dropped, forgotten, agedOff>>

Forget(t, id) ==
    /\ thread[t].pc = "idle" /\ id \in used
    /\ Become(t, Doing("forget", "remove", id, L1, NoTier, <<>>))
    /\ UNCHANGED <<fifo, rows, touched, used, refused, dropped, forgotten, agedOff>>

\* After _remove_from_any_tier, whose result promote() and demote() ignore.
AfterRemove(t) ==
    IF thread[t].op = "forget" THEN Asleep
    ELSE [thread[t] EXCEPT !.pc = "put",
                           !.todo = <<Put(thread[t].id, thread[t].target)>>]

RowsKept(tier, id) == rows
RowsWithout(tier, id) == [rows EXCEPT ![tier] = @ \ {id}]

\* ... and the first tier that has it gives it up.
Remove1(t) ==
    /\ thread[t].pc = "remove"
    /\ LET tier == thread[t].at
           id   == thread[t].id
       IN  IF id \in InTier(tier)
           THEN /\ IF tier = L1
                   THEN fifo' = Without(fifo, id) /\ UNCHANGED rows
                   ELSE rows' = RowsWithout(tier, id) /\ UNCHANGED fifo
                /\ forgotten' = IF thread[t].op = "forget"
                                THEN forgotten \cup {id} ELSE forgotten
                /\ Become(t, AfterRemove(t))
           ELSE /\ Become(t, IF tier = L3 THEN AfterRemove(t)
                             ELSE [thread[t] EXCEPT !.at = tier + 1])
                /\ UNCHANGED <<fifo, rows, forgotten>>
    /\ UNCHANGED <<touched, used, refused, dropped, agedOff>>

-----------------------------------------------------------------------------
(* query *)

\* query(text, context, k, min_tier); bound: none before the first insert, of
\* which it would return [].  The candidates are pairs <<id, read>>
\* of a memory and the number of the read it came from: L1, L2, L3, and L3
\* once more.
Reads == <<L1, L2, L3, L3>>

QueryStart(t, floor) ==
    /\ TopK > 0 /\ thread[t].pc = "idle" /\ used # {}
    /\ Become(t, Doing("query", "read", NoId, 1, floor, <<>>))
    /\ UNCHANGED <<fifo, rows, touched, used, refused, dropped, forgotten, agedOff>>

\* One read; k*4 neighbours are asked for, which is all of them here.  An
\* embedder that raises only loses the read.
QueryRead(t) ==
    /\ thread[t].pc = "read" /\ thread[t].at <= Len(Reads)
    /\ LET n    == thread[t].at
           tier == Reads[n]
           got  == IF tier <= thread[t].target THEN InTier(tier) \X {n} ELSE {}
       IN  \E seen \in {got} \cup (IF CallsFail /\ tier # L1 THEN {{}} ELSE {}) :
              Become(t, [thread[t] EXCEPT !.at = n + 1, !.cand = @ \cup seen])
    /\ UNCHANGED <<fifo, rows, touched, used, refused, dropped, forgotten, agedOff>>

\* Deduplication keeps the first occurrence; the k best of them, whichever
\* they are, become hits and are touched.  A scorer whose embedder raises
\* ends the query.
OncePerTier(cand) ==
    {c \in cand : \A d \in cand :
        d[1] = c[1] /\ Reads[d[2]] = Reads[c[2]] => c[2] <= d[2]}
Deduplicated(cand) == {c \in cand : \A d \in cand : d[1] = c[1] => c[2] <= d[2]}

QueryRank(t) ==
    /\ thread[t].pc = "read" /\ thread[t].at > Len(Reads)
    /\ LET unique == Deduplicated(thread[t].cand)
           k      == IF Cardinality(unique) <= TopK THEN Cardinality(unique)
                                                    ELSE TopK
       IN  \/ \E hits \in SUBSET unique :
                 /\ Cardinality(hits) = k
                 /\ Become(t, IF hits = {} THEN Asleep
                              ELSE [thread[t] EXCEPT !.pc = "touch", !.cand = hits])
           \/ CallsFail /\ unique # {} /\ Become(t, Asleep)
    /\ UNCHANGED <<fifo, rows, touched, used, refused, dropped, forgotten, agedOff>>

\* touch() of one hit, in the tier it was read from.
QueryTouch(t) ==
    /\ thread[t].pc = "touch"
    /\ \E hit \in thread[t].cand :
          LET tier == Reads[hit[2]] IN
          /\ IF hit[1] \notin InTier(tier) THEN UNCHANGED <<fifo, touched>>
             ELSE IF tier = L1
             THEN fifo' = Append(Without(fifo, hit[1]), hit[1]) /\ UNCHANGED touched
             ELSE touched' = Freshened(tier, hit[1]) /\ UNCHANGED fifo
          /\ Become(t, IF thread[t].cand = {hit} THEN Asleep
                       ELSE [thread[t] EXCEPT !.cand = @ \ {hit}])
    /\ UNCHANGED <<rows, used, refused, dropped, forgotten, agedOff>>

-----------------------------------------------------------------------------
Start(t) ==
    \/ \E id \in Ids, tier \in Tiers : Insert(t, id, tier)
    \/ \E id \in Ids : Move(t, "promote", id) \/ Move(t, "demote", id)
    \/ \E id \in Ids : Forget(t, id)
    \/ \E floor \in Tiers : QueryStart(t, floor)

Step(t) ==
    \/ PutL1(t) \/ Embed(t) \/ PutRaises(t) \/ PutRow(t)
    \/ Find(t) \/ Remove1(t)
    \/ QueryRead(t) \/ QueryRank(t) \/ QueryTouch(t)

Next == \E t \in Threads : Start(t) \/ Step(t)

Spec == Init /\ [][Next]_vars

\* Python's threads are scheduled by the operating system: one that has a step
\* to take eventually takes it.  Nobody has to start an operation.
FairSpec == Spec /\ \A t \in Threads : WF_vars(Step(t))

-----------------------------------------------------------------------------
(* Properties *)

\* Type invariant.
TypeOK ==
    /\ fifo \in Seq(Ids) /\ NoRepeats(fifo)
    /\ rows \in [{L2, L3} -> SUBSET Ids]
    /\ touched \in [{L2, L3} -> Seq(Ids)]
    /\ \A tier \in {L2, L3} : /\ NoRepeats(touched[tier])
                              /\ rows[tier] \subseteq Members(touched[tier])
    /\ used \subseteq Ids
    /\ refused \cup dropped \cup forgotten \cup agedOff \subseteq used
    /\ \A t \in Threads :
          \A i \in 1..Len(thread[t].todo) :
             thread[t].todo[i] \in [id : Ids, tier : Tiers]

InTiers == UNION {InTier(tier) : tier \in Tiers}

Stored == InTiers \cup UNION {InHand(t) : t \in Threads}

\* Every tier keeps its byte budget between any two tier calls, whatever the
\* threads interleave.
TierBudgets == \A tier \in Tiers : Bytes(Size, InTier(tier)) <= Cap[tier]

\* Every memory ever inserted is in a tier or in the hands of a thread that is
\* about to store it, unless forget() deleted it, it fell off L3, its own
\* insert() told the caller that it was not stored, or an exception interrupted
\* the move or the cascade that had it in hand.
NothingVanishes ==
    used \subseteq Stored \cup refused \cup dropped \cup forgotten \cup agedOff

\* "L1 never silently drops", "oversized memories straight to L2/L3": an
\* operation that raises leaves the memories it had in hand in some tier.
ExceptionsLoseNothing == dropped = {}

\* A memory is in at most one tier.  (With one caller, or with callers that only
\* insert and demote: two moves of one memory that interleave can leave it in
\* two tiers.)
SingleResidence ==
    \A id \in Ids : Cardinality({tier \in Tiers : id \in InTier(tier)}) <= 1

\* "Hard delete": once forget() has returned True the memory is nowhere.
ForgetIsFinal == forgotten \cap Stored = {}

\* "A query must never return the same memory twice", even when the memory
\* changes tiers between the reads.
NoDuplicateHits ==
    \A t \in Threads : thread[t].pc = "touch" =>
        \A c, d \in thread[t].cand : c[1] = d[1] => c = d

\* An insert(), promote() or demote() that returns has left its memory in the
\* tier it was meant for (the one asked for, or L2 once insert() has caught a
\* ValueError): the evictions it sets off never take the newcomer.
PlacedWhereMeant ==
    [][\A t \in Threads, id \in Ids, tier \in Tiers :
          /\ thread[t].op \in {"insert", "promote", "demote"}
          /\ thread[t].id = id /\ thread[t].target = tier
          /\ thread[t].pc = "put" /\ thread'[t].pc = "idle"
          /\ UNCHANGED <<refused, dropped>>
          => (id \in InTier(tier))']_vars

\* The manager implements the store it promises to be.
Store == INSTANCE MemoryStore WITH
    stored <- Stored, lost <- agedOff \cup dropped \cup refused

StoreSpec == Store!Spec

\* Every operation returns: cascades end.
OperationsReturn ==
    \A t \in Threads : thread[t].pc # "idle" ~> thread[t].pc = "idle"
=============================================================================
