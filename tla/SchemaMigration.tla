--------------------------- MODULE SchemaMigration ---------------------------
(***************************************************************************)
(* How a metadata database gets its schema: L2Metadata.__init__ and        *)
(* _migrate() (memory/l2_metadata.py), by any number of connections, of    *)
(* one process or several ("the pruner daemon could open its own").        *)
(*                                                                         *)
(* The connections are in autocommit mode and executescript() opens no     *)
(* transaction: every statement of the script is committed alone, and any  *)
(* of them can raise (SQLite waits five seconds for another writer).  The  *)
(* lock of L2Metadata is one per connection and excludes nobody here.      *)
(***************************************************************************)
EXTENDS Integers, Sequences, FiniteSets

CONSTANTS
    Databases,
    Connections,
    DbOf            \* [Connections -> Databases]

ASSUME SchemaAssumption == DbOf \in [Connections -> Databases]

VARIABLES
    schema,         \* [Databases -> how often each statement has taken effect]
    conn,           \* [Connections -> where __init__ is]
    interrupted     \* history: databases whose script was left half-way

schemaVars == <<schema, conn, interrupted>>

\* The script, and the INSERT INTO schema_version that follows it.
VersionFirst == <<"version", "memories", "idx_tier", "idx_last_touch", "idx_label">>
Script == <<"memories", "idx_tier", "idx_last_touch", "idx_label", "version">>

Statements == {Script[i] : i \in DOMAIN Script}

Closed == [pc |-> "closed", next |-> 1]

SchemaInit ==
    /\ schema = [db \in Databases |-> [s \in Statements |-> 0]]
    /\ conn = [c \in Connections |-> Closed]
    /\ interrupted = {}

IsOpen(c) == conn[c].pc = "open"

\* In the middle of the script: something is committed, but not all of it.
Halfway(c) == conn[c].pc = "script" /\ conn[c].next > 1

\* Connections that cease to exist, by an exception or with their process.
Drop(cs) ==
    /\ conn' = [c \in Connections |-> IF c \in cs THEN Closed ELSE conn[c]]
    /\ interrupted' = interrupted \cup {DbOf[c] : c \in {d \in cs : Halfway(d)}}

-----------------------------------------------------------------------------
\* connect, and the pragmas
Connect(c) ==
    /\ conn[c].pc = "closed"
    /\ conn' = [conn EXCEPT ![c].pc = "migrate"]
    /\ UNCHANGED <<schema, interrupted>>

\* Creates schema_version if there is none, and reads the version: nothing to
\* do, or run the script.
SelectVersion(c) ==
    /\ conn[c].pc = "migrate"
    /\ conn' = [conn EXCEPT ![c].pc = IF schema[DbOf[c]]["version"] > 0
                                      THEN "open" ELSE "script"]
    /\ UNCHANGED <<schema, interrupted>>

\* CREATE without IF NOT EXISTS raises when the object is there.
Tolerated(db, s) == FALSE
Refused(db, s) == s # "version" /\ schema[db][s] > 0

RunStatement(c) ==
    /\ conn[c].pc = "script"
    /\ LET db == DbOf[c]
           s  == Script[conn[c].next]
       IN  /\ ~Refused(db, s)
           /\ schema' = [schema EXCEPT ![db][s] = IF s = "version" THEN @ + 1 ELSE 1]
           /\ IF conn[c].next = Len(Script)
              THEN conn' = [conn EXCEPT ![c] = [Closed EXCEPT !.pc = "open"]]
              ELSE conn' = [conn EXCEPT ![c].next = @ + 1]
    /\ UNCHANGED interrupted

\* An exception in __init__: the object was refused, or the database is locked.
OpenRaises(c) ==
    /\ conn[c].pc \in {"migrate", "script"}
    /\ Drop({c})
    /\ UNCHANGED schema

CloseConnection(c) ==
    /\ IsOpen(c)
    /\ Drop({c})
    /\ UNCHANGED schema

-----------------------------------------------------------------------------
(* Properties *)

\* A database that has a version has the table and all its indexes, wherever a
\* migration was interrupted and whoever else was opening the database: early
\* return on a version is safe.
VersionedIsComplete ==
    \A db \in Databases : schema[db]["version"] > 0 =>
        \A s \in Statements : schema[db][s] > 0

\* A migration that is not interrupted is applied exactly once, however many
\* connections find the database empty at the same time.
MigratedOnce ==
    \A db \in Databases :
        \/ db \in interrupted
        \/ \E c \in Connections : DbOf[c] = db /\ Halfway(c)
        \/ \A s \in Statements : schema[db][s] = 0
        \/ \A s \in Statements : schema[db][s] = 1
=============================================================================
