---------------------------- MODULE RecallProofs ----------------------------
(***************************************************************************)
(* Proofs about recalls over a lazily loaded embedder, for any number of   *)
(* threads, queries and candidates: no thread uses a half-loaded model,    *)
(* the model is not loaded twice, and a recall that runs alone is ranked   *)
(* by its own query, embedded once.                                        *)
(***************************************************************************)
EXTENDS ScoredRecall, TLAPS

-----------------------------------------------------------------------------
(* The embedder: what a thread inside _ensure_loaded() may rely on *)

\* Inside the lock, before and after the tokenizer is there.
Loading == {"fetch", "copy model", "copying model", "copy tokenizer",
            "copying tokenizer", "session", "tokenizer"}
Pcs == Loading \cup {"idle", "lock", "configure", "use"}

CallTypeOK == call \in [Threads -> [pc : Pcs, result : {"ok", "raised"}]]

\* Session first, tokenizer second, both under the lock.
SessionFirst == tokenizer # "none" => session # None
LockHeld == \A t \in Threads :
    call[t].pc \in Loading \cup {"configure"} => lock = t
NotYetLoaded == \A t \in Threads : call[t].pc \in Loading => tokenizer = "none"
SessionThere == \A t \in Threads : call[t].pc = "tokenizer" => session # None
TokenizerThere == \A t \in Threads :
    call[t].pc \in {"configure", "use"} => tokenizer # "none"

EmbedderInv ==
    /\ CallTypeOK /\ SessionFirst /\ LockHeld
    /\ NotYetLoaded /\ SessionThere /\ TokenizerThere

\* All that an action of ScoredRecall does to the embedder.
EmbedderNext ==
    \/ \E t \in Threads :
        Embed(t) \/ Ended(t, "ok") \/ Ended(t, "raised") \/ EmbedderStep(t)
    \/ EmbedderDies
    \/ UNCHANGED embedderVars

USE DEF Loading, Pcs, ModelFiles

LEMMA NextEmbeds == [Next]_vars => EmbedderNext
<1> SUFFICES ASSUME [Next]_vars PROVE EmbedderNext
  OBVIOUS
<1>1. ASSUME NEW t \in Threads, NEW text \in Texts, NEW context \in Contexts,
             Recall(t, text, context)
      PROVE  EmbedderNext
  BY <1>1 DEF Recall, EmbedderNext
<1>2. ASSUME NEW t \in Threads, RecallStep(t) PROVE EmbedderNext
  <2>1. CASE \/ SkipTier(t) \/ \E n \in 0..MaxCandidates : Candidates(t, n)
             \/ Compare(t) \/ PublishText(t) \/ Answer(t)
    BY <2>1 DEF SkipTier, Candidates, Compare, PublishText, Answer, EmbedderNext
  <2>2. CASE EmbedForRead(t) \/ PublishContext(t)
    BY <2>2 DEF EmbedForRead, PublishContext, EmbedderNext
  <2>3. CASE ReadEmbedded(t) \/ SetVector(t) \/ Weigh(t)
    BY <2>3 DEF ReadEmbedded, SetVector, Weigh, RecallRaises, EmbedderNext
  <2>4. CASE Term(t)
    BY <2>4 DEF Term, EmbedderNext
  <2>5. QED
    BY <1>2, <2>1, <2>2, <2>3, <2>4 DEF RecallStep
<1>3. ASSUME NEW t \in Threads, EmbedderStep(t) PROVE EmbedderNext
  BY <1>3 DEF EmbedderNext
<1>4. CASE ProcessDies
  BY <1>4 DEF ProcessDies, EmbedderNext
<1>5. CASE UNCHANGED vars
  BY <1>5 DEF vars, EmbedderNext
<1>6. QED
  BY <1>1, <1>2, <1>3, <1>4, <1>5 DEF Next, Step

LEMMA EmbedderStarts == Init => EmbedderInv
<1> SUFFICES ASSUME Init PROVE EmbedderInv
  OBVIOUS
<1>1. call = [t \in Threads |-> Quiet] /\ tokenizer = "none"
  BY DEF Init, EmbedderInit
<1>2. Quiet.pc = "idle" /\ Quiet \in [pc : Pcs, result : {"ok", "raised"}]
  BY DEF Quiet
<1>3. CallTypeOK /\ \A t \in Threads : call[t].pc = "idle"
  BY <1>1, <1>2 DEF CallTypeOK
<1>4. QED
  BY <1>1, <1>3 DEF EmbedderInv, SessionFirst, LockHeld, NotYetLoaded,
                    SessionThere, TokenizerThere

\* Thread t moves on to p, or its call ends; the others stay where they are.
MovesTo(t, p) ==
    /\ CallTypeOK' /\ call'[t].pc = p
    /\ \A u \in Threads : u # t => call'[u].pc = call[u].pc

LEMMA CallMoves ==
    ASSUME CallTypeOK, NEW t \in Threads, NEW p \in Pcs, Goto(t, p)
    PROVE  MovesTo(t, p)
<1>1. \A u \in Threads : call[u] \in [pc : Pcs, result : {"ok", "raised"}]
  BY DEF CallTypeOK
<1>2. call' = [call EXCEPT ![t] = [call[t] EXCEPT !.pc = p]]
  BY DEF Goto
<1>3. [call[t] EXCEPT !.pc = p] \in [pc : Pcs, result : {"ok", "raised"}]
  BY <1>1
<1>4. call'[t] = [call[t] EXCEPT !.pc = p] /\ call'[t].pc = p
  BY <1>1, <1>2 DEF CallTypeOK
<1>5. CallTypeOK'
  BY <1>2, <1>3 DEF CallTypeOK
<1>6. QED
  BY <1>2, <1>4, <1>5 DEF MovesTo, CallTypeOK

LEMMA CallEnds ==
    ASSUME CallTypeOK, NEW t \in Threads, NEW r \in {"ok", "raised"},
           call' = [call EXCEPT ![t] = [pc |-> "idle", result |-> r]]
    PROVE  MovesTo(t, "idle")
<1>1. [pc |-> "idle", result |-> r] \in [pc : Pcs, result : {"ok", "raised"}]
  OBVIOUS
<1>2. CallTypeOK'
  BY <1>1 DEF CallTypeOK
<1>3. QED
  BY <1>2 DEF MovesTo, CallTypeOK

\* A thread with nothing to do with the lock goes to idle, lock or use, or its
\* call raises and it gives back the lock.
LEMMA EmbedderLeaves ==
    ASSUME EmbedderInv, NEW t \in Threads, NEW p \in {"idle", "lock", "use"},
           MovesTo(t, p), UNCHANGED <<session, tokenizer>>,
           p = "use" => tokenizer # "none",
           lock' = Unlocked(t) \/ (lock' = lock /\ call[t].pc \notin Loading)
    PROVE  EmbedderInv'
<1> USE DEF EmbedderInv
<1>1. SessionFirst' /\ NotYetLoaded' /\ SessionThere' /\ TokenizerThere'
  BY DEF MovesTo, SessionFirst, NotYetLoaded, SessionThere, TokenizerThere
<1>2. ASSUME NEW u \in Threads, call'[u].pc \in Loading \cup {"configure"}
      PROVE  lock' = u
  <2>1. u # t /\ call[u].pc = call'[u].pc
    BY <1>2 DEF MovesTo
  <2>2. lock = u
    BY <1>2, <2>1 DEF LockHeld
  <2>3. QED
    BY <2>1, <2>2 DEF Unlocked
<1>3. QED
  BY <1>1, <1>2 DEF MovesTo, LockHeld

LEMMA EmbedderRaises ==
    ASSUME EmbedderInv, NEW t \in Threads, CallRaises(t),
           UNCHANGED <<session, tokenizer>>
    PROVE  EmbedderInv'
<1>1. MovesTo(t, "idle")
  BY CallEnds DEF CallRaises, EmbedderInv
<1>2. QED
  BY <1>1, EmbedderLeaves DEF CallRaises

\* The holder of the lock goes on loading.
LEMMA EmbedderLoadsOn ==
    ASSUME EmbedderInv, NEW t \in Threads, NEW p \in Loading, MovesTo(t, p),
           lock' = t, UNCHANGED tokenizer, tokenizer = "none",
           p = "tokenizer" => session' # None,
           \A u \in Threads : u # t => call[u].pc \notin Loading \cup {"configure"}
    PROVE  EmbedderInv'
<1> USE DEF EmbedderInv
<1>1. SessionFirst' /\ NotYetLoaded'
  BY DEF SessionFirst, NotYetLoaded
<1>2. LockHeld' /\ SessionThere' /\ TokenizerThere'
  BY DEF MovesTo, LockHeld, SessionThere, TokenizerThere
<1>3. QED
  BY <1>1, <1>2 DEF MovesTo

\* The steps that leave _ensure_loaded(), or only move on inside it.
LEMMA EmbedderMoves ==
    ASSUME EmbedderInv, NEW t \in Threads,
           \/ Embed(t) \/ Ended(t, "ok") \/ Ended(t, "raised")
           \/ AcquireLock(t) \/ Infer(t)
    PROVE  EmbedderInv'
<1>0. CallTypeOK
  BY DEF EmbedderInv
<1>1. CASE Embed(t)
  <2> DEFINE p == IF Loaded THEN "use" ELSE "lock"
  <2>1. MovesTo(t, p)
    BY <1>0, <1>1, CallMoves DEF Embed
  <2>2. QED
    BY <1>1, <2>1, EmbedderLeaves DEF Embed, Loaded
<1>2. CASE Ended(t, "ok") \/ Ended(t, "raised")
  <2>1. MovesTo(t, "idle")
    BY <1>0, <1>2, CallEnds DEF Ended, Quiet
  <2>2. call[t].pc = "idle" /\ UNCHANGED <<session, tokenizer, lock>>
    BY <1>2 DEF Ended
  <2>3. QED
    BY <2>1, <2>2, EmbedderLeaves
<1>3. CASE AcquireLock(t)
  <2>1. CASE Loaded
    <3>1. MovesTo(t, "use")
      BY <1>0, <1>3, <2>1, CallMoves DEF AcquireLock, StillUnloaded
    <3>2. QED
      BY <1>3, <2>1, <3>1, EmbedderLeaves DEF AcquireLock, StillUnloaded, Loaded
  <2>2. CASE ~Loaded
    <3>1. \A u \in Threads : call[u].pc \notin Loading \cup {"configure"}
      BY <1>3, EmbedderAssumption DEF AcquireLock, EmbedderInv, LockHeld
    <3>2. tokenizer = "none"
      BY <2>2 DEF Loaded, EmbedderInv, SessionFirst
    <3>3. MovesTo(t, "fetch") /\ lock' = t /\ UNCHANGED tokenizer
      BY <1>0, <1>3, <2>2, CallMoves DEF AcquireLock, StillUnloaded
    <3>4. QED
      BY <3>1, <3>2, <3>3, EmbedderLoadsOn
  <2>3. QED
    BY <2>1, <2>2
<1>4. CASE Infer(t)
  <2>1. CASE CallRaises(t)
    BY <1>4, <2>1, EmbedderRaises DEF Infer
  <2>2. CASE call' = [call EXCEPT ![t] = Quiet] /\ UNCHANGED lock
    <3>1. MovesTo(t, "idle")
      BY <1>0, <2>2, CallEnds DEF Quiet
    <3>2. QED
      BY <1>4, <2>2, <3>1, EmbedderLeaves DEF Infer
  <2>3. QED
    BY <1>4, <2>1, <2>2 DEF Infer
<1>5. QED
  BY <1>1, <1>2, <1>3, <1>4

\* The steps inside the lock.
LEMMA EmbedderLoads ==
    ASSUME EmbedderInv, NEW t \in Threads, EmbedderStep(t),
           ~AcquireLock(t), ~Infer(t)
    PROVE  EmbedderInv'
<1>0. CallTypeOK
  BY DEF EmbedderInv
<1>1. call[t].pc \in Loading \cup {"configure"}
  BY DEF EmbedderStep, Fetch, CopyStart, CopyFinish, CopyRaises, Copying,
         CreateSession, LoadTokenizer, Configure
<1>2. /\ lock = t
      /\ \A u \in Threads : u # t => call[u].pc \notin Loading \cup {"configure"}
  BY <1>1 DEF EmbedderInv, LockHeld
<1>3. ASSUME call[t].pc \in Loading, NEW p \in Loading, Goto(t, p),
             UNCHANGED <<lock, tokenizer>>, p = "tokenizer" => session' # None
      PROVE  EmbedderInv'
  <2>1. tokenizer = "none"
    BY <1>3 DEF EmbedderInv, NotYetLoaded
  <2>2. MovesTo(t, p)
    BY <1>0, <1>3, CallMoves
  <2>3. QED
    BY <1>2, <1>3, <2>1, <2>2, EmbedderLoadsOn
<1>4. CASE Fetch(t)
  BY <1>3, <1>4, EmbedderRaises DEF Fetch
<1>5. ASSUME NEW f \in ModelFiles, CopyStart(t, f) \/ CopyFinish(t, f)
      PROVE  EmbedderInv'
  BY <1>3, <1>5 DEF CopyStart, CopyFinish, Copying
<1>6. CASE CopyRaises(t)
  BY <1>6, EmbedderRaises DEF CopyRaises
<1>7. CASE CreateSession(t)
  <2>1. t # None
    BY EmbedderAssumption
  <2>2. QED
    BY <1>3, <1>7, <2>1, EmbedderRaises DEF CreateSession
<1>8. CASE LoadTokenizer(t)
  <2>1. CASE CallRaises(t) /\ UNCHANGED tokenizer
    BY <1>8, <2>1, EmbedderRaises DEF LoadTokenizer
  <2>2. CASE tokenizer' = "raw" /\ Goto(t, "configure") /\ UNCHANGED lock
    <3>1. MovesTo(t, "configure")
      BY <1>0, <1>8, <2>2, CallMoves DEF LoadTokenizer
    <3>2. tokenizer' = "raw" /\ session' = session /\ lock' = lock /\ session # None
      BY <1>8, <2>2 DEF LoadTokenizer, EmbedderInv, SessionThere
    <3>3. QED
      BY <1>2, <3>1, <3>2 DEF MovesTo, EmbedderInv, SessionFirst, LockHeld,
                              NotYetLoaded, SessionThere, TokenizerThere
  <2>3. QED
    BY <1>8, <2>1, <2>2 DEF LoadTokenizer
<1>9. CASE Configure(t)
  <2>1. CASE CallRaises(t) /\ UNCHANGED tokenizer
    BY <1>9, <2>1, EmbedderRaises DEF Configure
  <2>2. CASE tokenizer' = "ready" /\ lock' = None /\ Goto(t, "use")
    <3>1. MovesTo(t, "use")
      BY <1>0, <1>9, <2>2, CallMoves DEF Configure
    <3>2. session' = session /\ session # None
      BY <1>9 DEF Configure, EmbedderInv, TokenizerThere, SessionFirst
    <3>3. QED
      BY <1>2, <2>2, <3>1, <3>2 DEF MovesTo, EmbedderInv, SessionFirst, LockHeld,
                                    NotYetLoaded, SessionThere, TokenizerThere
  <2>3. QED
    BY <1>9, <2>1, <2>2 DEF Configure
<1>10. QED
  BY <1>4, <1>5, <1>6, <1>7, <1>8, <1>9 DEF EmbedderStep

LEMMA EmbedderPreserves == EmbedderInv /\ EmbedderNext => EmbedderInv'
<1> SUFFICES ASSUME EmbedderInv, EmbedderNext PROVE EmbedderInv'
  OBVIOUS
<1>1. ASSUME NEW t \in Threads,
             Embed(t) \/ Ended(t, "ok") \/ Ended(t, "raised") \/ EmbedderStep(t)
      PROVE  EmbedderInv'
  BY <1>1, EmbedderMoves, EmbedderLoads
<1>2. CASE EmbedderDies
  BY <1>2 DEF EmbedderDies, EmbedderInv, CallTypeOK, SessionFirst, LockHeld,
              NotYetLoaded, SessionThere, TokenizerThere, Quiet
<1>3. CASE UNCHANGED embedderVars
  BY <1>3 DEF embedderVars, EmbedderInv, CallTypeOK, SessionFirst, LockHeld,
              NotYetLoaded, SessionThere, TokenizerThere
<1>4. QED
  BY <1>1, <1>2, <1>3 DEF EmbedderNext

\* What _ensure_loaded() relies on holds in every state.
THEOREM EmbedderInvariant == Spec => []EmbedderInv
<1>1. EmbedderInv /\ [Next]_vars => EmbedderInv'
  BY NextEmbeds, EmbedderPreserves
<1>2. QED
  BY <1>1, EmbedderStarts, PTL DEF Spec

\* The assertion of _embed_one() never fails, for any number of threads.
THEOREM RecallAssertionHolds == Spec => []AssertionHolds
<1>1. EmbedderInv => AssertionHolds
  BY DEF EmbedderInv, TokenizerThere, SessionFirst, AssertionHolds
<1>2. QED
  BY <1>1, EmbedderInvariant, PTL

\* Once it is loaded, no thread loads the model again.
THEOREM RecallSessionCreatedOnce == Spec => SessionCreatedOnce
<1> DEFINE Once == session # None /\ tokenizer # "none" => session' \in {session, None}
<1>1. EmbedderInv /\ EmbedderNext => [Once]_session
  <2> SUFFICES ASSUME EmbedderInv, EmbedderNext, session # None, tokenizer # "none",
                      session' # session
               PROVE  session' = None
    OBVIOUS
  <2>1. ASSUME NEW t \in Threads PROVE ~CreateSession(t)
    BY DEF CreateSession, EmbedderInv, NotYetLoaded
  <2>2. EmbedderDies
    BY <2>1 DEF EmbedderNext, embedderVars, Embed, Ended, EmbedderStep, AcquireLock,
                Fetch, CopyStart, CopyFinish, CopyRaises, LoadTokenizer, Configure, Infer
  <2>3. QED
    BY <2>2 DEF EmbedderDies
<1>2. EmbedderInv /\ [Next]_vars => [Once]_session
  BY <1>1, NextEmbeds
<1>3. QED
  BY <1>2, EmbedderInvariant, PTL DEF Spec, SessionCreatedOnce

-----------------------------------------------------------------------------
(* The scorer's cache: what an undisturbed recall may rely on *)

RecallPcs == {"idle", "read", "reading", "found", "score", "text", "context",
              "setting", "term", "weigh"}
Recalls == [pc : RecallPcs, text : Texts \cup {None}, context : Contexts \cup {None},
            read : Int, left : Int]
Caches == [text : Texts \cup {None}, context : Contexts \cup {None},
           vector : Texts \cup {None}]
Histories == [alone : BOOLEAN, calls : 0..1, strange : {FALSE}]

RecallTypeOK ==
    /\ cache \in Caches
    /\ recall \in [Threads -> Recalls]
    /\ seen \in [Threads -> Histories]

\* The cache q is that of the query of r, with its own embedding.
Own(r, q) == q.text = r.text /\ q.context = r.context /\ q.vector = r.text

\* Where the recall r is, with the cache q and the history s.
Progress(r, q, s) ==
    /\ r.pc \in {"read", "reading", "found"} =>
          s.calls = 0 /\ ~LeftBehind(q, r.text, r.context)
    /\ r.pc = "score" =>
          Own(r, q) \/ (s.calls = 0 /\ ~LeftBehind(q, r.text, r.context))
    /\ r.pc = "text" => s.calls = 0
    /\ r.pc = "context" => s.calls = 0 /\ q.text = r.text
    /\ r.pc = "setting" => q.text = r.text /\ q.context = r.context
    /\ r.pc \in {"term", "weigh"} => Own(r, q)

Alone(t) == ~At(t, "idle") /\ seen[t].alone

AsksText == \A t \in Threads : ~At(t, "idle") => recall[t].text \in Texts
IdleIsFresh == \A t \in Threads : At(t, "idle") => seen[t] = NoHistory
OthersIdle == \A t, u \in Threads : Alone(t) /\ u # t => At(u, "idle")
OnItsWay == \A t \in Threads : Alone(t) => Progress(recall[t], cache, seen[t])

RecallInv == RecallTypeOK /\ AsksText /\ IdleIsFresh /\ OthersIdle /\ OnItsWay

\* The histories: an undisturbed recall is not ranked by a strange embedding.
LEMMA HistoryValues ==
    /\ NoHistory \in Histories /\ NoHistory.alone /\ NoHistory.calls = 0
    /\ Disturbed \in Histories /\ ~Disturbed.alone
    /\ \A s \in Histories : s.calls \in 0..1 /\ ~s.strange
<1>1. NoHistory \in Histories /\ Disturbed \in Histories
  BY DEF NoHistory, Disturbed, Histories
<1>2. NoHistory.alone /\ NoHistory.calls = 0
  BY DEF NoHistory
<1>3. ~Disturbed.alone
  BY DEF Disturbed
<1>4. ASSUME NEW s \in Histories PROVE s.calls \in 0..1 /\ s.strange = FALSE
  BY <1>4 DEF Histories
<1>5. QED
  BY <1>1, <1>2, <1>3, <1>4

LEMMA NoRecallIdle == NoRecall \in Recalls /\ NoRecall.pc = "idle"
BY DEF NoRecall, Recalls, RecallPcs

\* A recall that moves to another place, for another tier.
Moved(r, where, n) == [r EXCEPT !.pc = where, !.read = n]

LEMMA RecallRead ==
    ASSUME NEW r \in Recalls, NEW where \in RecallPcs, NEW n \in Int
    PROVE  /\ Moved(r, where, n) \in Recalls /\ Moved(r, where, n).pc = where
           /\ Moved(r, where, n).text = r.text
           /\ Moved(r, where, n).context = r.context
BY DEF Recalls, Moved

LEMMA RecallStarts == Init => RecallInv
<1> SUFFICES ASSUME Init PROVE RecallInv
  OBVIOUS
<1>1. NoQuery \in Caches /\ NoRecall \in Recalls /\ NoHistory \in Histories
  BY DEF NoQuery, NoRecall, NoHistory, Caches, Recalls, RecallPcs, Histories
<1>2. RecallTypeOK
  BY <1>1 DEF Init, RecallTypeOK
<1>3. \A t \in Threads : At(t, "idle") /\ seen[t] = NoHistory
  BY DEF Init, At, NoRecall
<1>4. QED
  BY <1>2, <1>3 DEF RecallInv, AsksText, IdleIsFresh, OthersIdle, OnItsWay, Alone

\* An active thread t moves on from recall[t] to r, with the cache q and the
\* history s: no other recall can be undisturbed, and so none is disturbed.
Advances(t, r, q, s) ==
    /\ ~At(t, "idle")
    /\ r \in Recalls /\ recall' = [recall EXCEPT ![t] = r]
    /\ q \in Caches /\ cache' = q
    /\ s \in Histories /\ seen' = [seen EXCEPT ![t] = s]
    /\ IF r.pc = "idle" THEN s = NoHistory ELSE r.text \in Texts
    /\ r.pc # "idle" /\ s.alone => seen[t].alone /\ Progress(r, q, s)

LEMMA AdvancePreserves ==
    ASSUME RecallInv, NEW t \in Threads, NEW r, NEW q, NEW s, Advances(t, r, q, s)
    PROVE  RecallInv'
<1>1. RecallTypeOK'
  BY DEF Advances, RecallInv, RecallTypeOK
<1>2. recall'[t] = r /\ seen'[t] = s /\ cache' = q
  BY DEF Advances, RecallInv, RecallTypeOK
<1>3. \A u \in Threads : u # t => recall'[u] = recall[u] /\ seen'[u] = seen[u]
  BY DEF Advances, RecallInv, RecallTypeOK
<1>4. \A u \in Threads : u # t => ~Alone(u)
  BY DEF Advances, RecallInv, OthersIdle
<1>5. \A u \in Threads : u # t => ~Alone(u)'
  BY <1>3, <1>4 DEF Alone, At
<1>6. Alone(t)' => Alone(t) /\ Progress(r, q, s)
  BY <1>2 DEF Alone, At, Advances
<1>7. AsksText' /\ IdleIsFresh'
  BY <1>2, <1>3 DEF RecallInv, AsksText, IdleIsFresh, At, Advances
<1>8. OthersIdle'
  <2> SUFFICES ASSUME NEW u \in Threads, u # t, Alone(t)' PROVE At(u, "idle")'
    BY <1>5 DEF OthersIdle
  <2>1. At(u, "idle")
    BY <1>6 DEF RecallInv, OthersIdle
  <2>2. QED
    BY <2>1, <1>3 DEF At
<1>9. OnItsWay'
  BY <1>2, <1>5, <1>6 DEF OnItsWay
<1>10. QED
  BY <1>1, <1>7, <1>8, <1>9 DEF RecallInv

\* A recall starts.
LEMMA RecallBegins ==
    ASSUME RecallInv, NEW t \in Threads, NEW text \in Texts, NEW context \in Contexts,
           Recall(t, text, context)
    PROVE  RecallInv'
<1> DEFINE r == [NoRecall EXCEPT !.pc = "read", !.text = text,
                                 !.context = context, !.read = 1]
<1>1. r \in Recalls /\ r.pc = "read" /\ r.text = text /\ r.context = context
  <2> DEFINE asked == [[NoRecall EXCEPT !.text = text] EXCEPT !.context = context]
  <2>1. asked \in Recalls /\ asked.text = text /\ asked.context = context
    BY NoRecallIdle DEF Recalls
  <2>2. r = Moved(asked, "read", 1)
    BY NoRecallIdle DEF Recalls, Moved
  <2>3. "read" \in RecallPcs
    BY DEF RecallPcs
  <2> HIDE DEF asked, r
  <2>4. QED
    BY <2>1, <2>2, <2>3, RecallRead
<1>2. NoHistory \in Histories /\ Disturbed \in Histories /\ ~Disturbed.alone
  BY HistoryValues
<1>3. /\ recall' = [recall EXCEPT ![t] = r] /\ cache' = cache /\ At(t, "idle")
      /\ seen' = [u \in Threads |->
             IF \/ u = t /\ ~Undisturbed(t, text, context)
                \/ u # t /\ ~At(u, "idle")
             THEN Disturbed ELSE seen[u]]
  BY DEF Recall, Becomes
<1> HIDE DEF r
<1>4. \A u \in Threads : seen'[u] \in {Disturbed, seen[u]}
  BY <1>3
<1>5. RecallTypeOK'
  <2>1. recall' \in [Threads -> Recalls] /\ cache' \in Caches
    BY <1>1, <1>3 DEF RecallInv, RecallTypeOK
  <2>2. seen' \in [Threads -> Histories]
    <3>1. \A u \in Threads : seen'[u] \in Histories
      BY <1>2, <1>4 DEF RecallInv, RecallTypeOK
    <3>2. QED
      BY <1>3, <3>1
  <2>3. QED
    BY <2>1, <2>2 DEF RecallTypeOK
<1>6. /\ recall'[t] = r
      /\ \A u \in Threads : u # t => recall'[u] = recall[u]
  BY <1>3 DEF RecallInv, RecallTypeOK
<1>7. \A u \in Threads : u # t /\ ~At(u, "idle") => seen'[u] = Disturbed
  BY <1>3
<1>8. \A u \in Threads : u # t => ~Alone(u)'
  BY <1>2, <1>6, <1>7 DEF Alone, At
<1>9. Alone(t)' => Undisturbed(t, text, context) /\ seen'[t] = NoHistory
  <2>1. seen'[t] = IF Undisturbed(t, text, context) THEN seen[t] ELSE Disturbed
    BY <1>3
  <2>2. QED
    BY <1>2, <1>3, <2>1 DEF Alone, RecallInv, IdleIsFresh
<1>10. AsksText'
  BY <1>1, <1>6 DEF RecallInv, AsksText, At
<1>11. IdleIsFresh'
  <2>1. \A u \in Threads : u # t /\ At(u, "idle") => seen'[u] = seen[u]
    BY <1>3
  <2>2. QED
    BY <1>1, <1>6, <2>1 DEF RecallInv, IdleIsFresh, At
<1>12. OthersIdle'
  BY <1>6, <1>8, <1>9 DEF OthersIdle, Undisturbed, At
<1>13. OnItsWay'
  <2>1. Alone(t)' => Progress(r, cache, NoHistory)
    BY <1>1, <1>9 DEF Progress, Undisturbed, NoHistory
  <2>2. QED
    BY <1>3, <1>6, <1>8, <1>9, <2>1 DEF OnItsWay
<1>14. QED
  BY <1>5, <1>10, <1>11, <1>12, <1>13 DEF RecallInv

\* Every step of a recall after its first.
LEMMA RecallAdvances ==
    ASSUME RecallInv, NEW t \in Threads, RecallStep(t)
    PROVE  \E r, q, s : Advances(t, r, q, s)
<1> DEFINE r0 == recall[t]
           s0 == seen[t]
           To(where) == [r0 EXCEPT !.pc = where]
<1>1. /\ r0 \in Recalls /\ s0 \in Histories /\ cache \in Caches
      /\ ~At(t, "idle") => r0.text \in Texts
      /\ ~At(t, "idle") /\ s0.alone => Progress(r0, cache, s0)
      /\ seen = [seen EXCEPT ![t] = s0]
  <2>1. r0 \in Recalls /\ s0 \in Histories /\ cache \in Caches
    BY DEF RecallInv, RecallTypeOK
  <2>2. seen = [seen EXCEPT ![t] = s0]
    BY DEF RecallInv, RecallTypeOK
  <2>3. QED
    BY <2>1, <2>2 DEF RecallInv, AsksText, OnItsWay, Alone
<1>2. \A where \in RecallPcs :
        /\ To(where) \in Recalls /\ To(where).pc = where
        /\ To(where).text = r0.text /\ To(where).context = r0.context
  BY <1>1 DEF Recalls
<1>3. ASSUME NEW where, Enter(t, where)
      PROVE  recall' = [recall EXCEPT ![t] = To(where)]
  BY <1>3 DEF Enter
<1> HIDE DEF To
<1>4. ASSUME ~At(t, "idle"), RecallEnds(t), UNCHANGED cache
      PROVE  Advances(t, NoRecall, cache, NoHistory)
  BY <1>1, <1>4, NoRecallIdle, HistoryValues DEF RecallEnds, Becomes, Advances
<1>5. ASSUME r0.pc \in {"read", "reading"}, NextTier(t), UNCHANGED <<cache, seen>>
      PROVE  \E r : Advances(t, r, cache, s0)
  <2> DEFINE r == IF r0.read < 3 THEN [r0 EXCEPT !.pc = "read", !.read = @ + 1]
                  ELSE [r0 EXCEPT !.pc = "found", !.read = 0]
  <2>1. /\ r \in Recalls /\ r.pc \in {"read", "found"}
        /\ r.text = r0.text /\ r.context = r0.context
    <3>1. r0.read + 1 \in Int
      BY <1>1 DEF Recalls
    <3>2. "read" \in RecallPcs /\ "found" \in RecallPcs
      BY DEF RecallPcs
    <3>3. CASE r0.read < 3
      <4>1. r = Moved(r0, "read", r0.read + 1)
        BY <3>3 DEF Moved
      <4>2. QED
        BY <1>1, <3>1, <3>2, <4>1, RecallRead
    <3>4. CASE ~(r0.read < 3)
      <4>1. r = Moved(r0, "found", 0)
        BY <3>4 DEF Moved
      <4>2. QED
        BY <1>1, <3>2, <4>1, RecallRead
    <3>5. QED
      BY <3>3, <3>4
  <2>2. recall' = [recall EXCEPT ![t] = r]
    BY <1>5 DEF NextTier, Becomes
  <2> HIDE DEF r
  <2>3. Advances(t, r, cache, s0)
    BY <1>1, <1>5, <2>1, <2>2 DEF Advances, Progress, At
  <2>4. QED
    BY <2>3
<1>6. CASE SkipTier(t)
  BY <1>5, <1>6 DEF SkipTier, At
<1>7. CASE EmbedForRead(t)
  <2>1. recall' = [recall EXCEPT ![t] = To("reading")]
    BY <1>3, <1>7 DEF EmbedForRead
  <2>2. Advances(t, To("reading"), cache, s0)
    BY <1>1, <1>2, <1>7, <2>1 DEF EmbedForRead, Advances, Progress, At, RecallPcs
  <2>3. QED
    BY <2>2
<1>8. CASE ReadEmbedded(t)
  <2> DEFINE r == [r0 EXCEPT !.pc = "found", !.read = 0]
  <2>1. CASE NextTier(t)
    BY <1>5, <1>8, <2>1 DEF ReadEmbedded, At
  <2>2. CASE Becomes(t, r)
    <3>1. /\ r \in Recalls /\ r.pc = "found"
          /\ r.text = r0.text /\ r.context = r0.context
      <4>1. "found" \in RecallPcs /\ r = Moved(r0, "found", 0)
        BY DEF RecallPcs, Moved
      <4>2. QED
        BY <1>1, <4>1, RecallRead
    <3>2. recall' = [recall EXCEPT ![t] = r]
      BY <2>2 DEF Becomes
    <3> HIDE DEF r
    <3>3. Advances(t, r, cache, s0)
      BY <1>1, <1>8, <3>1, <3>2 DEF ReadEmbedded, Advances, Progress, At
    <3>4. QED
      BY <3>3
  <2>3. QED
    BY <1>8, <2>1, <2>2 DEF ReadEmbedded
<1>9. ASSUME NEW n \in 0..MaxCandidates, Candidates(t, n)
      PROVE  \E r : Advances(t, r, cache, s0)
  <2> DEFINE r == [r0 EXCEPT !.pc = "score", !.left = n]
  <2>1. /\ r \in Recalls /\ r.pc = "score"
        /\ r.text = r0.text /\ r.context = r0.context
    <3>1. n \in Int
      BY <1>9, RecallAssumption
    <3>2. QED
      BY <1>1, <3>1 DEF Recalls, RecallPcs
  <2>2. recall' = [recall EXCEPT ![t] = r]
    BY <1>9 DEF Candidates, Becomes
  <2> HIDE DEF r
  <2>3. Advances(t, r, cache, s0)
    BY <1>1, <1>9, <2>1, <2>2 DEF Candidates, Advances, Progress, At
  <2>4. QED
    BY <2>3
<1>10. CASE Compare(t)
  <2> DEFINE where == IF Stale(r0) THEN "text" ELSE "term"
  <2>1. recall' = [recall EXCEPT ![t] = To(where)]
    BY <1>3, <1>10 DEF Compare
  <2>2. Advances(t, To(where), cache, s0)
    BY <1>1, <1>2, <1>10, <2>1
       DEF Compare, Stale, LeftBehind, Own, Advances, Progress, At, RecallPcs
  <2>3. QED
    BY <2>2
<1>11. CASE PublishText(t)
  <2> DEFINE q == [cache EXCEPT !.text = r0.text]
  <2>1. recall' = [recall EXCEPT ![t] = To("context")]
    BY <1>3, <1>11 DEF PublishText
  <2>2. q \in Caches /\ q.text = r0.text /\ cache' = q
    BY <1>1, <1>11 DEF PublishText, Caches, Recalls
  <2> HIDE DEF q
  <2>3. Advances(t, To("context"), q, s0)
    BY <1>1, <1>2, <1>11, <2>1, <2>2 DEF PublishText, Advances, Progress, At, RecallPcs
  <2>4. QED
    BY <2>3
<1>12. CASE PublishContext(t)
  <2> DEFINE q == WithContext(cache, r0.context)
             s == [s0 EXCEPT !.calls = IF s0.alone /\ @ < 2 THEN @ + 1 ELSE @]
  <2>1. recall' = [recall EXCEPT ![t] = To("setting")]
    BY <1>3, <1>12 DEF PublishContext
  <2>2. q \in Caches /\ q.context = r0.context /\ q.text = cache.text /\ cache' = q
    BY <1>1, <1>12 DEF PublishContext, WithContext, Caches, Recalls
  <2>3. s0.alone => s0.calls = 0
    BY <1>1, <1>12 DEF PublishContext, Progress, At
  <2>4. s \in Histories /\ s.alone = s0.alone
    <3>1. (IF s0.alone /\ s0.calls < 2 THEN s0.calls + 1 ELSE s0.calls) \in 0..1
      BY <1>1, <2>3, HistoryValues
    <3>2. QED
      BY <1>1, <3>1 DEF Histories
  <2>5. seen' = [seen EXCEPT ![t] = s]
    BY <1>12 DEF PublishContext
  <2> HIDE DEF q, s
  <2>6. Advances(t, To("setting"), q, s)
    BY <1>1, <1>2, <1>12, <2>1, <2>2, <2>4, <2>5
       DEF PublishContext, Advances, Progress, At, RecallPcs
  <2>7. QED
    BY <2>6
<1>13. CASE SetVector(t)
  <2>1. CASE RecallRaises(t)
    BY <1>4, <1>13, <2>1 DEF SetVector, RecallRaises, At
  <2>2. CASE ~RecallRaises(t)
    <3> DEFINE q == [cache EXCEPT !.vector = r0.text]
    <3>1. recall' = [recall EXCEPT ![t] = To("term")]
      BY <1>3, <1>13, <2>2 DEF SetVector
    <3>2. /\ q \in Caches /\ q.text = cache.text /\ q.context = cache.context
          /\ q.vector = r0.text /\ cache' = q
      BY <1>1, <1>13, <2>2 DEF SetVector, Caches, Recalls
    <3> HIDE DEF q
    <3>3. UNCHANGED seen /\ r0.pc = "setting"
      BY <1>13, <2>2 DEF SetVector, At
    <3>4. Advances(t, To("term"), q, s0)
      BY <1>1, <1>2, <3>1, <3>2, <3>3 DEF Own, Advances, Progress, At, RecallPcs
    <3>5. QED
      BY <3>4
  <2>3. QED
    BY <2>1, <2>2
<1>14. ASSUME NEW v, r0.pc \in {"term", "weigh"}, v = cache.vector, Ranked(t, v),
              UNCHANGED cache
       PROVE  \E r, s : Advances(t, r, cache, s)
  <2> DEFINE r == [r0 EXCEPT !.pc = "score", !.left = @ - 1]
             s == [s0 EXCEPT !.strange = @ \/ (s0.alone /\ v # r0.text)]
  <2>1. s0.alone => Own(r0, cache)
    BY <1>1, <1>14 DEF Progress, At
  <2>2. /\ r \in Recalls /\ r.pc = "score"
        /\ r.text = r0.text /\ r.context = r0.context
    <3>1. r0.left - 1 \in Int
      BY <1>1 DEF Recalls
    <3>2. QED
      BY <1>1, <3>1 DEF Recalls, RecallPcs
  <2>3. ~(s0.alone /\ v # r0.text)
    BY <1>14, <2>1 DEF Own
  <2>4. s \in Histories /\ s.alone = s0.alone
    BY <1>1, <2>3 DEF Histories
  <2>5. recall' = [recall EXCEPT ![t] = r] /\ seen' = [seen EXCEPT ![t] = s]
    BY <1>14 DEF Ranked, Becomes
  <2> HIDE DEF r, s
  <2>6. Advances(t, r, cache, s)
    BY <1>1, <1>14, <2>1, <2>2, <2>4, <2>5 DEF Own, Advances, Progress, At
  <2>7. QED
    BY <2>6
<1>15. CASE Term(t)
  <2>1. CASE cache.vector = None
    BY <1>14, <1>15, <2>1 DEF Term, At
  <2>2. CASE cache.vector # None
    <3>1. recall' = [recall EXCEPT ![t] = To("weigh")]
      BY <1>3, <1>15, <2>2 DEF Term
    <3>2. UNCHANGED <<cache, seen>> /\ r0.pc = "term"
      BY <1>15, <2>2 DEF Term, At
    <3>3. Advances(t, To("weigh"), cache, s0)
      BY <1>1, <1>2, <3>1, <3>2 DEF Own, Advances, Progress, At, RecallPcs
    <3>4. QED
      BY <3>3
  <2>3. QED
    BY <2>1, <2>2
<1>16. CASE Weigh(t)
  <2>1. CASE RecallRaises(t)
    BY <1>4, <1>16, <2>1 DEF Weigh, RecallRaises, At
  <2>2. CASE Ranked(t, cache.vector) /\ UNCHANGED cache
    BY <1>14, <1>16, <2>2 DEF Weigh, At
  <2>3. QED
    BY <1>16, <2>1, <2>2 DEF Weigh
<1>17. CASE Answer(t)
  BY <1>4, <1>17 DEF Answer, At
<1>18. QED
  BY <1>6, <1>7, <1>8, <1>9, <1>10, <1>11, <1>12, <1>13, <1>15, <1>16, <1>17
     DEF RecallStep

LEMMA RecallPreserves == RecallInv /\ [Next]_vars => RecallInv'
<1> SUFFICES ASSUME RecallInv, [Next]_vars PROVE RecallInv'
  OBVIOUS
<1>1. ASSUME NEW t \in Threads, NEW text \in Texts, NEW context \in Contexts,
             Recall(t, text, context)
      PROVE  RecallInv'
  BY <1>1, RecallBegins
<1>2. ASSUME NEW t \in Threads, RecallStep(t) PROVE RecallInv'
  BY <1>2, RecallAdvances, AdvancePreserves
<1>3. CASE UNCHANGED recallVars
  BY <1>3 DEF recallVars, RecallInv, RecallTypeOK, AsksText, IdleIsFresh, OthersIdle,
              OnItsWay, Alone, At
<1>4. CASE ProcessDies
  <2>1. NoQuery \in Caches /\ NoRecall \in Recalls /\ NoHistory \in Histories
    BY DEF NoQuery, NoRecall, NoHistory, Caches, Recalls, RecallPcs, Histories
  <2>2. RecallTypeOK'
    BY <1>4, <2>1 DEF ProcessDies, RecallTypeOK
  <2>3. \A t \in Threads : At(t, "idle")' /\ seen'[t] = NoHistory
    BY <1>4 DEF ProcessDies, At, NoRecall
  <2>4. QED
    BY <2>2, <2>3 DEF RecallInv, AsksText, IdleIsFresh, OthersIdle, OnItsWay, Alone
<1>5. QED
  BY <1>1, <1>2, <1>3, <1>4 DEF Next, Step, vars

\* An undisturbed recall finds the scorer's cache as its own steps left it.
THEOREM RecallInvariant == Spec => []RecallInv
BY RecallStarts, RecallPreserves, PTL DEF Spec

\* Every candidate of an undisturbed recall is ranked by the embedding of its
\* own query, for any number of threads, queries and candidates (score()).
THEOREM RecallScoresOwnQuery == Spec => []OwnQueryScored
<1>1. RecallInv => OwnQueryScored
  BY HistoryValues DEF RecallInv, RecallTypeOK, OwnQueryScored
<1>2. QED
  BY <1>1, RecallInvariant, PTL

\* Such a recall embeds its query once, however many candidates it ranks
\* (set_query()).
THEOREM RecallEmbedsQueryOnce == Spec => []EmbedsQueryOnce
<1>1. RecallInv => EmbedsQueryOnce
  <2> SUFFICES ASSUME RecallInv, NEW t \in Threads PROVE seen[t].calls <= 1
    BY DEF EmbedsQueryOnce
  <2>1. seen[t] \in Histories
    BY DEF RecallInv, RecallTypeOK
  <2>2. QED
    BY <2>1, HistoryValues
<1>2. QED
  BY <1>1, RecallInvariant, PTL
=============================================================================
