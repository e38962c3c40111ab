--------------------------- MODULE KernelPartition ---------------------------
(***************************************************************************)
(* The batched cosine-similarity kernels (npaged-core/kernel.cpp): how the *)
(* candidate rows are divided among threads and how the result is put      *)
(* together.  Every thread writes its slice of the output without a lock,  *)
(* and the caller joins them.  The dot product of a row is left out: what  *)
(* matters is who writes which row, and when the result is handed out.     *)
(* Arrays of the wrong shape are refused before anything happens.          *)
(***************************************************************************)
EXTENDS Integers

CONSTANTS
    Sizes,          \* the numbers of candidate rows tried
    Requests,       \* the n_threads tried
    AutoThreads,    \* T when n_threads <= 0 (5 in the code)
    MaxThreads,     \* bound on T
    Threshold       \* PARALLEL_THRESHOLD (8192 in the code)

ASSUME KernelAssumption ==
    /\ Sizes \subseteq Nat
    /\ MaxThreads \in Nat /\ AutoThreads \in 1..MaxThreads
    /\ Requests \subseteq Int /\ \A r \in Requests : r <= MaxThreads
    /\ Threshold \in Nat

VARIABLES
    pc,         \* of the calling thread
    rows,       \* n
    workers,    \* T
    chunk,      \* rows per thread
    launched,   \* threads 0 .. launched - 1 have been started
    cursor,     \* the row that each thread writes next
    wrote       \* history: <<row, thread>> for each element of out written

vars == <<pc, rows, workers, chunk, launched, cursor, wrote>>

ThreadIds == 0..(MaxThreads - 1)

Init ==
    /\ pc = "idle"
    /\ rows = 0 /\ workers = 1 /\ chunk = 0 /\ launched = 0
    /\ cursor = [t \in ThreadIds |-> 0]
    /\ wrote = {}

\* The slice of thread t is Start(t) .. End(t) - 1.
Start(t) == t * chunk

EndTooFar(t) == IF Start(t) + chunk < rows THEN Start(t) + chunk + 1 ELSE rows
End(t) == IF Start(t) + chunk <= rows THEN Start(t) + chunk ELSE rows

FloorChunk(n, w) == n \div w
CeilChunk(n, w) == (n + w - 1) \div w

-----------------------------------------------------------------------------
(* The calling thread *)

\* The result array is allocated, with nothing in it.
Begin(n) ==
    /\ pc \in {"idle", "done"}
    /\ rows' = n
    /\ cursor' = [t \in ThreadIds |-> 0]
    /\ wrote' = {}

\* One pass over all rows, in the calling thread.
SinglePass(n) ==
    /\ workers' = 1 /\ chunk' = n /\ launched' = 1
    /\ pc' = "join"

\* cosine_similarity_scalar, cosine_similarity_neon_st
CallSingle(n) == Begin(n) /\ SinglePass(n)

\* cosine_similarity_neon
ThreadsFor(request) == IF request <= 0 THEN AutoThreads ELSE request

CallParallel(n, request) ==
    /\ Begin(n)
    /\ LET w == ThreadsFor(request) IN
       IF n < Threshold \/ w <= 1
       THEN SinglePass(n)
       ELSE /\ workers' = w /\ chunk' = CeilChunk(n, w) /\ launched' = 0
            /\ pc' = "launch"

HasSlice(t) == Start(t) < End(t)

Launch ==
    /\ pc = "launch" /\ launched < workers /\ HasSlice(launched)
    /\ cursor' = [cursor EXCEPT ![launched] = Start(launched)]
    /\ launched' = launched + 1
    /\ UNCHANGED <<pc, rows, workers, chunk, wrote>>

\* std::thread's constructor throws system_error.  The vector is destroyed; if
\* it holds a thread that was not joined, that terminates the process.
LaunchFails ==
    /\ pc = "launch" /\ launched < workers /\ HasSlice(launched)
    /\ pc' = IF launched = 0 THEN "idle" ELSE "terminated"
    /\ UNCHANGED <<rows, workers, chunk, launched, cursor, wrote>>

LaunchDone ==
    /\ pc = "launch" /\ (launched = workers \/ ~HasSlice(launched))
    /\ pc' = "join"
    /\ UNCHANGED <<rows, workers, chunk, launched, cursor, wrote>>

\* Joins every thread, and returns the array.
JoinAll ==
    /\ pc = "join"
    /\ \A t \in ThreadIds : t < launched => cursor[t] >= End(t)
    /\ pc' = "done"
    /\ UNCHANGED <<rows, workers, chunk, launched, cursor, wrote>>

\* A new process.
Restart ==
    /\ pc = "terminated"
    /\ pc' = "idle"
    /\ UNCHANGED <<rows, workers, chunk, launched, cursor, wrote>>

-----------------------------------------------------------------------------
(* worker() *)

Write(t) ==
    /\ pc \in {"launch", "join"}
    /\ t < launched /\ cursor[t] < End(t)
    /\ wrote' = wrote \cup {<<cursor[t], t>>}
    /\ cursor' = [cursor EXCEPT ![t] = @ + 1]
    /\ UNCHANGED <<pc, rows, workers, chunk, launched>>

-----------------------------------------------------------------------------
Next ==
    \/ \E n \in Sizes : CallSingle(n)
    \/ \E n \in Sizes, request \in Requests : CallParallel(n, request)
    \/ Launch \/ LaunchFails \/ LaunchDone \/ JoinAll \/ Restart
    \/ \E t \in ThreadIds : Write(t)

Spec == Init /\ [][Next]_vars

-----------------------------------------------------------------------------
(* Properties *)

TypeOK ==
    /\ pc \in {"idle", "launch", "join", "done", "terminated"}
    /\ rows \in Nat /\ chunk \in Nat
    /\ workers \in 1..MaxThreads
    /\ launched \in 0..workers
    /\ cursor \in [ThreadIds -> Nat]
    /\ wrote \subseteq Nat \X ThreadIds

\* "Each thread writes a disjoint output slice, so no locks are needed": no two
\* threads ever write the same row, however the rows divide.
RaceFree == \A p, q \in wrote : p[1] = q[1] => p[2] = q[2]

\* The array is handed out only when exactly its rows have been written: none
\* is missing because of the rounding, none is out of bounds.
ResultComplete == pc = "done" => {p[1] : p \in wrote} = 0..(rows - 1)
=============================================================================
