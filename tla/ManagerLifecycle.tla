-------------------------- MODULE ManagerLifecycle --------------------------
(***************************************************************************)
(* The life of a MemoryManager on a data directory (memory/manager.py):    *)
(* __init__ opens L2, then L3; close() saves and closes L2, then L3; the   *)
(* process may die at any point, and close() may raise.  What the tiers do *)
(* between opening and closing is VectorTier's subject: here a put or a    *)
(* removal changes the row and the vector in one step.  L1 is a new buffer *)
(* every time and is left out.                                             *)
(*                                                                         *)
(* hnswlib writes hnsw.bin in place: a save that is cut short leaves a     *)
(* torn file, which load_index refuses.  Another process may open L2's     *)
(* database with a connection of its own (Observers).                      *)
(***************************************************************************)
EXTENDS SchemaMigration

CONSTANTS
    Ids,
    TierConns,      \* the two connections of the manager: <<of L2, of L3>>
    Observers,      \* connections of other processes
    MaxCrashes      \* bound on crashes and exceptions of close()

ASSUME LifecycleAssumption ==
    /\ TierConns \in Connections \X Connections /\ TierConns[1] # TierConns[2]
    /\ Connections = {TierConns[1], TierConns[2]} \cup Observers
    /\ Observers \cap {TierConns[1], TierConns[2]} = {}
    /\ MaxCrashes \in Nat

VARIABLES
    pc,         \* of the process: down, opening, up, closing
    at,         \* the tier that __init__ or close() has come to (1: L2, 2: L3)
    rows,       \* [tiers -> ids with a row]: durable
    index,      \* [tiers -> ids with a vector]: in memory
    image,      \* [tiers -> what hnsw.bin holds]
    writing,    \* hnsw.bin of tier `at` is being written
    failures,   \* how many of them so far
    intact      \* history: no crash, and no exit without a completed close()

tierVars == <<pc, at, rows, index, image, writing, failures, intact>>

vars == <<schemaVars, tierVars>>

TierNos == {1, 2}

File(ids) == [torn |-> FALSE, ids |-> ids]
Torn == [torn |-> TRUE, ids |-> {}]

Init ==
    /\ SchemaInit
    /\ pc = "down" /\ at = 1
    /\ rows = [i \in TierNos |-> {}]
    /\ index = [i \in TierNos |-> {}]
    /\ image = [i \in TierNos |-> File({})]
    /\ writing = FALSE
    /\ failures = 0
    /\ intact = TRUE

ManagerConns == {TierConns[i] : i \in TierNos}

-----------------------------------------------------------------------------
(* MemoryManager.__init__ *)

Open ==
    /\ pc = "down"
    /\ pc' = "opening" /\ at' = 1
    /\ index' = [i \in TierNos |-> {}]
    /\ UNCHANGED <<schemaVars, rows, image, writing, failures, intact>>

\* The tier's L2Metadata(...).
OpenMetadata ==
    /\ pc = "opening"
    /\ LET c == TierConns[at] IN
          Connect(c) \/ SelectVersion(c) \/ RunStatement(c)
    /\ UNCHANGED tierVars

\* hnsw.bin is loaded if there is one; a torn file makes load_index raise.
LoadIndex ==
    /\ pc = "opening" /\ IsOpen(TierConns[at]) /\ ~image[at].torn
    /\ index' = [index EXCEPT ![at] = image[at].ids]
    /\ pc' = IF at = 2 THEN "up" ELSE pc
    /\ at' = IF at = 2 THEN 1 ELSE at + 1
    /\ UNCHANGED <<schemaVars, rows, image, writing, failures, intact>>

\* __init__ raises, in the metadata or at a torn file; what it had opened goes
\* with the object, unchanged.
OpenFails ==
    /\ pc = "opening"
    /\ \/ conn[TierConns[at]].pc \in {"migrate", "script"}
       \/ IsOpen(TierConns[at]) /\ image[at].torn
    /\ pc' = "down" /\ at' = 1
    /\ Drop(ManagerConns)
    /\ UNCHANGED <<schema, rows, index, image, writing, failures, intact>>

-----------------------------------------------------------------------------
(* Between opening and closing *)

\* A tier whose metadata connection is closed raises at every call.
Put(i, id) ==
    /\ pc = "up" /\ IsOpen(TierConns[i]) /\ id \notin rows[i]
    /\ rows' = [rows EXCEPT ![i] = @ \cup {id}]
    /\ index' = [index EXCEPT ![i] = @ \cup {id}]
    /\ UNCHANGED <<schemaVars, pc, at, image, writing, failures, intact>>

Remove(i, id) ==
    /\ pc = "up" /\ IsOpen(TierConns[i]) /\ id \in rows[i] \cap index[i]
    /\ rows' = [rows EXCEPT ![i] = @ \ {id}]
    /\ index' = [index EXCEPT ![i] = @ \ {id}]
    /\ UNCHANGED <<schemaVars, pc, at, image, writing, failures, intact>>

-----------------------------------------------------------------------------
(* MemoryManager.close() *)

\* The tiers that close() closes, in this order.
OnlyL2 == <<1>>
CloseOrder == <<1, 2>>

Close ==
    /\ pc = "up"
    /\ pc' = "closing" /\ at' = 1
    /\ UNCHANGED <<schemaVars, rows, index, image, writing, failures, intact>>

\* save_index opens the file for writing ...
SaveStart ==
    /\ pc = "closing" /\ ~writing
    /\ image' = [image EXCEPT ![CloseOrder[at]] = Torn]
    /\ writing' = TRUE
    /\ UNCHANGED <<schemaVars, pc, at, rows, index, failures, intact>>

\* ... and completes it; then the tier's metadata is closed.  After the last
\* tier close() has returned, and the manager is dropped.
SaveFinish ==
    /\ pc = "closing" /\ writing
    /\ image' = [image EXCEPT ![CloseOrder[at]] = File(index[CloseOrder[at]])]
    /\ writing' = FALSE
    /\ IF at = Len(CloseOrder)
       THEN Drop(ManagerConns) /\ pc' = "down" /\ at' = 1
       ELSE Drop({TierConns[CloseOrder[at]]}) /\ at' = at + 1 /\ UNCHANGED pc
    /\ UNCHANGED <<schema, rows, index, failures, intact>>

\* An exception leaves close(), from either tier and whether or not the file is
\* complete: the manager is still there and may be closed again.
CloseRaises ==
    /\ pc = "closing" /\ failures < MaxCrashes
    /\ writing' = FALSE
    /\ pc' = "up" /\ at' = 1
    /\ failures' = failures + 1
    /\ UNCHANGED <<schemaVars, rows, index, image, intact>>

\* The process dies, or exits without a close() that returns.
Crash ==
    /\ pc # "down" /\ failures < MaxCrashes
    /\ pc' = "down" /\ at' = 1 /\ writing' = FALSE
    /\ Drop(ManagerConns)
    /\ failures' = failures + 1
    /\ intact' = (intact /\ pc = "opening")
    /\ UNCHANGED <<schema, rows, index, image>>

-----------------------------------------------------------------------------
(* Another process with a connection of its own *)

Observe(c) ==
    /\ \/ Connect(c) \/ SelectVersion(c) \/ RunStatement(c)
       \/ OpenRaises(c) \/ CloseConnection(c)
    /\ UNCHANGED tierVars

-----------------------------------------------------------------------------
Next ==
    \/ Open \/ OpenMetadata \/ LoadIndex \/ OpenFails
    \/ \E i \in TierNos, id \in Ids : Put(i, id) \/ Remove(i, id)
    \/ Close \/ SaveStart \/ SaveFinish \/ CloseRaises \/ Crash
    \/ \E c \in Observers : Observe(c)

Spec == Init /\ [][Next]_vars

-----------------------------------------------------------------------------
(* Properties *)

\* "Persist L2 + L3 to disk": a manager opened after completed closes finds in
\* both tiers a vector for every row and a row for every vector, also when an
\* earlier close() had raised half-way and was called again, or opening the
\* directory had failed in between.
ReopenFindsAll == pc = "up" /\ intact => index = rows
=============================================================================
