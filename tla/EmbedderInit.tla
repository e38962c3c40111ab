----------------------------- MODULE EmbedderInit -----------------------------
(***************************************************************************)
(* BGESmallEmbedder (embed/bge_runtime.py): the lazy, double-checked       *)
(* loading of the model by the threads of a process, and the cache         *)
(* directory that is left when the process dies.                           *)
(*                                                                         *)
(* `call` is the embed() or embed_query() a thread is in.  The unlocked    *)
(* test of _session and _tokenizer is one step with the call, since both   *)
(* are only ever set; then the thread waits for the lock.  shutil.copy     *)
(* writes the destination in place: until it ends, and for ever if it does *)
(* not, the file is torn, but exists() is true.  onnxruntime and           *)
(* tokenizers refuse a torn file, and may raise for a whole one: an import *)
(* fails, memory runs out.  What a vector holds is left out.               *)
(***************************************************************************)
EXTENDS Integers, FiniteSets

CONSTANTS Threads, None

ASSUME EmbedderAssumption == None \notin Threads

VARIABLES
    files,          \* the cached model and tokenizer: absent, torn, whole
    session,        \* the thread that created _session, or None
    tokenizer,      \* none, raw (no truncation yet), ready
    lock,           \* the thread that holds _init_lock, or None
    call            \* [Threads -> the embedder call in progress]

embedderVars == <<files, session, tokenizer, lock, call>>

ModelFiles == {"model", "tokenizer"}

Quiet == [pc |-> "idle", result |-> "ok"]

EmbedderInit ==
    /\ files = [f \in ModelFiles |-> "absent"]
    /\ session = None
    /\ tokenizer = "none"
    /\ lock = None
    /\ call = [t \in Threads |-> Quiet]

\* The test of _ensure_loaded, without the lock and again with it.
HasSession == session # None
Loaded == session # None /\ tokenizer # "none"

AlwaysUnloaded == TRUE
StillUnloaded == ~Loaded

Goto(t, where) == call' = [call EXCEPT ![t].pc = where]

\* What `with self._init_lock` does when an exception leaves it.
KeepLock(t) == lock
Unlocked(t) == IF lock = t THEN None ELSE lock

CallRaises(t) ==
    /\ call' = [call EXCEPT ![t] = [pc |-> "idle", result |-> "raised"]]
    /\ lock' = Unlocked(t)

-----------------------------------------------------------------------------
(* _ensure_loaded *)

\* embed(text), embed_query(text): the fast path.
Embed(t) ==
    /\ call[t].pc = "idle"
    /\ Goto(t, IF Loaded THEN "use" ELSE "lock")
    /\ UNCHANGED <<files, session, tokenizer, lock>>

\* The lock, and the second check.
AcquireLock(t) ==
    /\ call[t].pc = "lock" /\ lock = None
    /\ IF StillUnloaded
       THEN Goto(t, "fetch") /\ lock' = t
       ELSE Goto(t, "use") /\ UNCHANGED lock
    /\ UNCHANGED <<files, session, tokenizer>>

\* _fetch_model_files: both files exist, or they are downloaded, which needs a
\* library and the network.
Fetch(t) ==
    /\ call[t].pc = "fetch"
    /\ IF \A f \in ModelFiles : files[f] # "absent"
       THEN Goto(t, "session") /\ UNCHANGED lock
       ELSE (Goto(t, "copy model") /\ UNCHANGED lock) \/ CallRaises(t)
    /\ UNCHANGED <<files, session, tokenizer>>

Copying(f) == IF f = "model" THEN "copying model" ELSE "copying tokenizer"

\* shutil.copy truncates the destination ...
CopyStart(t, f) ==
    /\ call[t].pc = IF f = "model" THEN "copy model" ELSE "copy tokenizer"
    /\ files' = [files EXCEPT ![f] = "torn"]
    /\ Goto(t, Copying(f))
    /\ UNCHANGED <<session, tokenizer, lock>>

\* ... and has filled it.
CopyFinish(t, f) ==
    /\ call[t].pc = Copying(f)
    /\ files' = [files EXCEPT ![f] = "whole"]
    /\ Goto(t, IF f = "model" THEN "copy tokenizer" ELSE "session")
    /\ UNCHANGED <<session, tokenizer, lock>>

CopyRaises(t) ==
    /\ \E f \in ModelFiles : call[t].pc = Copying(f)
    /\ CallRaises(t)
    /\ UNCHANGED <<files, session, tokenizer>>

CreateSession(t) ==
    /\ call[t].pc = "session"
    /\ \/ /\ files["model"] = "whole"
          /\ session' = t
          /\ Goto(t, "tokenizer") /\ UNCHANGED lock
       \/ CallRaises(t) /\ UNCHANGED session
    /\ UNCHANGED <<files, tokenizer>>

\* The tokenizer is visible to other threads from here on.
LoadTokenizer(t) ==
    /\ call[t].pc = "tokenizer"
    /\ \/ /\ files["tokenizer"] = "whole"
          /\ tokenizer' = "raw"
          /\ Goto(t, "configure") /\ UNCHANGED lock
       \/ CallRaises(t) /\ UNCHANGED tokenizer
    /\ UNCHANGED <<files, session>>

\* enable_truncation, enable_padding; the lock is released.  When they raise,
\* the tokenizer stays as it is, and later calls use it.
Configure(t) ==
    /\ call[t].pc = "configure"
    /\ \/ /\ tokenizer' = "ready"
          /\ lock' = None
          /\ Goto(t, "use")
       \/ CallRaises(t) /\ UNCHANGED tokenizer
    /\ UNCHANGED <<files, session>>

\* The assertion, the tokenizer and the session; inference may raise.
Infer(t) ==
    /\ call[t].pc = "use"
    /\ \/ call' = [call EXCEPT ![t] = Quiet] /\ UNCHANGED lock
       \/ CallRaises(t)
    /\ UNCHANGED <<files, session, tokenizer>>

EmbedderStep(t) ==
    \/ AcquireLock(t) \/ Fetch(t)
    \/ \E f \in ModelFiles : CopyStart(t, f) \/ CopyFinish(t, f)
    \/ CopyRaises(t)
    \/ CreateSession(t) \/ LoadTokenizer(t) \/ Configure(t) \/ Infer(t)

\* The process dies: what it has loaded is gone, the files stay as they are.
EmbedderDies ==
    /\ session' = None
    /\ tokenizer' = "none"
    /\ lock' = None
    /\ call' = [t \in Threads |-> Quiet]
    /\ UNCHANGED files

-----------------------------------------------------------------------------
(* Properties *)

\* The assertion of _embed_one never fails: a thread past _ensure_loaded, with
\* or without the lock, has a session and a tokenizer, whatever the loading of
\* other threads has come to or raised.
AssertionHolds ==
    \A t \in Threads : call[t].pc = "use" => session # None /\ tokenizer # "none"

\* "Double-check inside the lock (another thread may have loaded it)": a thread
\* that waited while another one loaded the model does not load it again.
SessionCreatedOnce ==
    [][session # None /\ tokenizer # "none" => session' \in {session, None}]_session
=============================================================================
