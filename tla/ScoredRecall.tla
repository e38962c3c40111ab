----------------------------- MODULE ScoredRecall -----------------------------
(***************************************************************************)
(* MemoryAgent.recall() and respond() (pipeline/agent.py) with the         *)
(* ContextAwareScorer (routing/scorer.py), run by several threads over one *)
(* embedder: the embeddings of MemoryManager.query(), then score() for     *)
(* each candidate.  The scorer's per-query cache is shared by the threads  *)
(* of a process and is guarded by no lock; the test of score() and each    *)
(* assignment of set_query() is a step of its own.  An embedding is the    *)
(* text it is of.  Which memories are found and how the terms are weighed  *)
(* is left out (MemoryManager has the tiers): a recall has any number of   *)
(* candidates up to MaxCandidates.  Contexts are objects, compared with    *)
(* `is`.                                                                   *)
(***************************************************************************)
EXTENDS EmbedderInit

CONSTANTS
    Texts, Contexts, MaxCandidates,
    Queries         \* [Threads -> the queries, text and context, it may ask]

ASSUME RecallAssumption ==
    /\ MaxCandidates \in Nat
    /\ None \notin Texts \cup Contexts
    /\ Queries \in [Threads -> SUBSET (Texts \X Contexts)]

VARIABLES
    cache,      \* _query_text, _query_context, _query_embedding of the scorer
    recall,     \* [Threads -> the recall in progress]
    seen        \* [Threads -> the history of that recall]

recallVars == <<cache, recall, seen>>
vars == <<embedderVars, recallVars>>

NoQuery == [text |-> None, context |-> None, vector |-> None]
NoRecall == [pc |-> "idle", text |-> None, context |-> None,
             read |-> 0, left |-> 0]

\* The history of a recall as long as no other one disturbs it: embed_query
\* calls of set_query(), counted to two; a candidate was ranked by no or by
\* another query's embedding.
NoHistory == [alone |-> TRUE, calls |-> 0, strange |-> FALSE]
Disturbed == [alone |-> FALSE, calls |-> 0, strange |-> FALSE]

Init ==
    /\ EmbedderInit
    /\ cache = NoQuery
    /\ recall = [t \in Threads |-> NoRecall]
    /\ seen = [t \in Threads |-> NoHistory]

\* The embedder call of thread t has ended, well or with an exception.
Ended(t, result) ==
    /\ call[t] = [pc |-> "idle", result |-> result]
    /\ call' = [call EXCEPT ![t] = Quiet]
    /\ UNCHANGED <<files, session, tokenizer, lock>>

At(t, where) == recall[t].pc = where
Becomes(t, r) == recall' = [recall EXCEPT ![t] = r]
Enter(t, where) == recall' = [recall EXCEPT ![t].pc = where]

RecallEnds(t) ==
    /\ Becomes(t, NoRecall)
    /\ seen' = [seen EXCEPT ![t] = NoHistory]

\* The exception leaves recall(); the scorer's cache stays as it is.
RecallRaises(t) == Ended(t, "raised") /\ RecallEnds(t) /\ UNCHANGED cache

-----------------------------------------------------------------------------
(* recall() and the embedding of query() *)

\* The cache holds this very query and another embedding: set_query() raised
\* in an earlier recall of it, or was overtaken by another thread's.
LeftBehind(q, text, context) ==
    q.text = text /\ q.context = context /\ q.vector # text

Undisturbed(t, text, context) ==
    /\ \A u \in Threads \ {t} : At(u, "idle")
    /\ ~LeftBehind(cache, text, context)

Recall(t, text, context) ==
    /\ At(t, "idle") /\ <<text, context>> \in Queries[t]
    /\ Becomes(t, [NoRecall EXCEPT !.pc = "read", !.text = text,
                                   !.context = context, !.read = 1])
    /\ seen' = [u \in Threads |->
          IF \/ u = t /\ ~Undisturbed(t, text, context)
             \/ u # t /\ ~At(u, "idle")
          THEN Disturbed ELSE seen[u]]
    /\ UNCHANGED <<embedderVars, cache>>

\* L2, L3 and L3 again: a tier may be empty or below min_tier.
NextTier(t) ==
    Becomes(t, IF recall[t].read < 3 THEN [recall[t] EXCEPT !.pc = "read", !.read = @ + 1]
               ELSE [recall[t] EXCEPT !.pc = "found", !.read = 0])

SkipTier(t) ==
    /\ At(t, "read")
    /\ NextTier(t)
    /\ UNCHANGED <<embedderVars, cache, seen>>

EmbedForRead(t) ==
    /\ At(t, "read")
    /\ Embed(t)
    /\ Enter(t, "reading")
    /\ UNCHANGED <<cache, seen>>

\* The embedding serves the tiers that are left; an exception is logged, and
\* the next tier embeds again.
ReadEmbedded(t) ==
    /\ At(t, "reading")
    /\ \/ Ended(t, "ok") /\ Becomes(t, [recall[t] EXCEPT !.pc = "found", !.read = 0])
       \/ Ended(t, "raised") /\ NextTier(t)
    /\ UNCHANGED <<cache, seen>>

Candidates(t, n) ==
    /\ At(t, "found")
    /\ Becomes(t, [recall[t] EXCEPT !.pc = "score", !.left = n])
    /\ UNCHANGED <<embedderVars, cache, seen>>

-----------------------------------------------------------------------------
(* score() and set_query() *)

StaleContext(r) == cache.context # r.context
Stale(r) == cache.text # r.text \/ cache.context # r.context

Compare(t) ==
    /\ At(t, "score") /\ recall[t].left > 0
    /\ Enter(t, IF Stale(recall[t]) THEN "text" ELSE "term")
    /\ UNCHANGED <<embedderVars, cache, seen>>

PublishText(t) ==
    /\ At(t, "text")
    /\ cache' = [cache EXCEPT !.text = recall[t].text]
    /\ Enter(t, "context")
    /\ UNCHANGED <<embedderVars, seen>>

NoContext(q, context) == q
WithContext(q, context) == [q EXCEPT !.context = context]

\* The context, and the call of embed_query.
PublishContext(t) ==
    /\ At(t, "context")
    /\ cache' = WithContext(cache, recall[t].context)
    /\ Embed(t)
    /\ Enter(t, "setting")
    /\ seen' = [seen EXCEPT ![t].calls =
          IF seen[t].alone /\ @ < 2 THEN @ + 1 ELSE @]

SetVector(t) ==
    /\ At(t, "setting")
    /\ \/ /\ Ended(t, "ok")
          /\ cache' = [cache EXCEPT !.vector = recall[t].text]
          /\ Enter(t, "term")
          /\ UNCHANGED seen
       \/ RecallRaises(t)

\* The candidate's score is final: it was ranked by the embedding v.
Ranked(t, v) ==
    /\ seen' = [seen EXCEPT ![t].strange =
          @ \/ (seen[t].alone /\ v # recall[t].text)]
    /\ Becomes(t, [recall[t] EXCEPT !.pc = "score", !.left = @ - 1])

\* _semantic_term: 0 without a query embedding, or the memory's text is
\* embedded ...
Term(t) ==
    /\ At(t, "term")
    /\ IF cache.vector = None
       THEN Ranked(t, None) /\ UNCHANGED embedderVars
       ELSE Embed(t) /\ Enter(t, "weigh") /\ UNCHANGED seen
    /\ UNCHANGED cache

\* ... and the query embedding is read again for the product.
Weigh(t) ==
    /\ At(t, "weigh")
    /\ \/ Ended(t, "ok") /\ Ranked(t, cache.vector) /\ UNCHANGED cache
       \/ RecallRaises(t)

\* The block is assembled; respond() calls the generator; the call returns.
Answer(t) ==
    /\ At(t, "score") /\ recall[t].left = 0
    /\ RecallEnds(t)
    /\ UNCHANGED <<embedderVars, cache>>

-----------------------------------------------------------------------------

RecallStep(t) ==
    \/ SkipTier(t) \/ EmbedForRead(t) \/ ReadEmbedded(t)
    \/ \E n \in 0..MaxCandidates : Candidates(t, n)
    \/ Compare(t) \/ PublishText(t) \/ PublishContext(t) \/ SetVector(t)
    \/ Term(t) \/ Weigh(t) \/ Answer(t)

Step(t) == RecallStep(t) \/ (EmbedderStep(t) /\ UNCHANGED recallVars)

ProcessDies ==
    /\ EmbedderDies
    /\ cache' = NoQuery
    /\ recall' = [t \in Threads |-> NoRecall]
    /\ seen' = [t \in Threads |-> NoHistory]

Next ==
    \/ \E t \in Threads :
        \/ \E text \in Texts, context \in Contexts : Recall(t, text, context)
        \/ Step(t)
    \/ ProcessDies

Waiting(t) == AcquireLock(t) /\ UNCHANGED recallVars

\* Every thread is scheduled; the lock is not handed out in order, but a thread
\* that finds it free again and again gets it.
Fairness == \A t \in Threads :
    WF_vars(Step(t)) /\ SF_vars(Waiting(t))

Spec == Init /\ [][Next]_vars /\ Fairness

-----------------------------------------------------------------------------
(* Properties *)

\* A recall that no other recall of the process overlaps ranks every candidate
\* by the embedding of its own query, whatever recalls were run, raised or
\* overlapped before ("the scorer is correct even when used directly", score()),
\* unless it repeats the very query that such a recall left behind.
OwnQueryScored == \A t \in Threads : ~seen[t].strange

\* "Computing the query embedding once (not per-candidate) is the whole point":
\* such a recall calls embed_query at most once for all its candidates.
EmbedsQueryOnce == \A t \in Threads : seen[t].calls <= 1

\* A recall returns or raises, though another thread's loading of the model
\* under the lock may raise at any point and be tried again.
RecallReturns == \A t \in Threads : ~At(t, "idle") ~> At(t, "idle")
=============================================================================
