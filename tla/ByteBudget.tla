----------------------------- MODULE ByteBudget -----------------------------
(***************************************************************************)
(* What a set of memories costs against a tier's byte budget.              *)
(*                                                                         *)
(* A tier charges every memory it holds a positive number of bytes         *)
(* (utf-8 text plus a fixed overhead) and compares the sum with its        *)
(* capacity.  The sum is stated as the number of byte cells the memories   *)
(* occupy, which needs no recursion: cell <<id, n>> is the n-th byte of    *)
(* memory id.                                                              *)
(***************************************************************************)
EXTENDS Integers, Sequences, FiniteSets, SequencesExt

CONSTANTS
    Ids,        \* memory ids (uuids)
    MaxSize     \* the largest charge of one memory, in byte units

ASSUME BudgetAssumption ==
    /\ IsFiniteSet(Ids)
    /\ MaxSize \in Nat \ {0}

\* A charge is positive: the overhead alone is 256 (L1) or 1536 (L2, L3).
Sizes == 1..MaxSize

Cells(size, S) == {c \in S \X Sizes : c[2] <= size[c[1]]}

\* Total charge of the memories in S.
Bytes(size, S) == Cardinality(Cells(size, S))

Members(s) == {s[i] : i \in 1..Len(s)}

\* s without the key id, the others in their order.
Without(s, id) ==
    IF \E i \in 1..Len(s) : s[i] = id
    THEN RemoveAt(s, CHOOSE i \in 1..Len(s) : s[i] = id)
    ELSE s

NoRepeats(s) == \A i, j \in 1..Len(s) : s[i] = s[j] => i = j

\* The members of s that are in S, in their order: SelectSeq without recursion.
\* The k-th of them is at the place that has k such places up to it.
Places(s, S) == {n \in 1..Len(s) : s[n] \in S}
Rank(ns, n) == Cardinality({m \in ns : m <= n})

Among(s, S) ==
    LET ns == Places(s, S) IN
    [k \in 1..Cardinality(ns) |-> s[CHOOSE n \in ns : Rank(ns, n) = k]]

(***************************************************************************)
(* Popping the oldest entries of s until what is left, and `incoming` more *)
(* bytes, fit into `capacity` (or nothing is left): the number popped.     *)
(***************************************************************************)
Suffix(s, n) == SubSeq(s, n + 1, Len(s))

Fits(size, s, n, incoming, capacity) ==
    Bytes(size, Members(Suffix(s, n))) + incoming <= capacity

PopCount(size, s, incoming, capacity) ==
    CHOOSE n \in 0..Len(s) :
        /\ n = Len(s) \/ Fits(size, s, n, incoming, capacity)
        /\ \A m \in 0..(n - 1) : ~Fits(size, s, m, incoming, capacity)
=============================================================================
