------------------------------- MODULE Pruner -------------------------------
(***************************************************************************)
(* The Pruner (daemons/pruner.py): ticks that demote the cold memories of  *)
(* L2, beside agents that call the MemoryManager.                          *)
(*                                                                         *)
(* A tick runs in a thread of its own: the worker of the scheduler that    *)
(* start() creates and stop() shuts down, or whoever calls tick_once()     *)
(* (the dashboard).  It reads the cold rows once and then calls            *)
(* manager.demote() on each: the calls interleave with the agents' at      *)
(* every tier call, and nothing is re-read.  Time is abstracted to which   *)
(* rows of L2 have been untouched for the threshold.  A tick that the      *)
(* power gate skips, or that finds nothing, changes only statistics, which *)
(* are left out; so does the difference between a demote() that returns    *)
(* and one that raises: the loop goes on with the next.                    *)
(***************************************************************************)
EXTENDS MemoryManager

CONSTANTS
    Agents, Tickers,    \* the two kinds of Threads
    Scheduled,          \* the ticker that is the scheduler's worker
    AgentOps,           \* bound: what the agents do
    MaxPerTick          \* max_demotions_per_tick

ASSUME PrunerAssumption ==
    /\ Threads = Agents \cup Tickers /\ Agents \cap Tickers = {}
    /\ Scheduled \in Tickers
    /\ AgentOps \subseteq {"insert", "promote", "demote", "forget", "query"}
    /\ MaxPerTick \in Nat \ {0}

VARIABLES
    cold,       \* rows of L2 whose last_touch is before the cutoff
    batch,      \* [Tickers -> memories the tick has still to demote]
    running,    \* _running: there is a scheduler
    stopping    \* stop() holds _lock and waits for the tick in flight

prunerVars == <<cold, batch, running, stopping>>

allVars == <<vars, prunerVars>>

PrunerInit ==
    /\ Init
    /\ cold = {}
    /\ batch = [t \in Tickers |-> <<>>]
    /\ running = FALSE
    /\ stopping = FALSE

Ticking(t) == batch[t] # <<>> \/ thread[t].pc # "idle"

-----------------------------------------------------------------------------
(* start() and stop() *)

\* start() of a running pruner changes nothing; during stop() it waits for the
\* lock.
StartScheduler ==
    /\ ~running
    /\ running' = TRUE
    /\ UNCHANGED <<vars, cold, batch, stopping>>

\* stop(): scheduler.shutdown(wait=True) fires no tick any more ...
StopScheduler ==
    /\ running /\ ~stopping
    /\ stopping' = TRUE
    /\ UNCHANGED <<vars, cold, batch, running>>

\* ... and returns when the tick in flight has.
AbandonTick ==
    /\ stopping
    /\ stopping' = FALSE /\ running' = FALSE
    /\ UNCHANGED <<vars, cold, batch>>

AwaitTick ==
    /\ stopping /\ ~Ticking(Scheduled)
    /\ stopping' = FALSE /\ running' = FALSE
    /\ UNCHANGED <<vars, cold, batch>>

-----------------------------------------------------------------------------
(* tick_once() *)

\* find_cold: the cold rows of L2, coldest first.
Candidates == ColdOrder(L2, rows[L2] \cap cold)

AllOf(candidates) == candidates
OneTooFew(candidates) == SubSeq(candidates, 1, MaxPerTick - 1)
FirstOf(candidates) ==
    SubSeq(candidates, 1,
           IF Len(candidates) <= MaxPerTick THEN Len(candidates) ELSE MaxPerTick)

\* max_instances = 1: the scheduler starts no tick while one of its own runs.
TickStart(t) ==
    /\ ~Ticking(t)
    /\ t = Scheduled => running /\ ~stopping
    /\ rows[L2] \cap cold # {}
    /\ batch' = [batch EXCEPT ![t] = FirstOf(Candidates)]
    /\ UNCHANGED <<vars, cold, running, stopping>>

TickDemoteAgain(t) ==
    /\ batch[t] # <<>>
    /\ Move(t, "demote", Head(batch[t]))
    /\ UNCHANGED prunerVars

TickDemote(t) ==
    /\ batch[t] # <<>>
    /\ Move(t, "demote", Head(batch[t]))
    /\ batch' = [batch EXCEPT ![t] = Tail(@)]
    /\ UNCHANGED <<cold, running, stopping>>

-----------------------------------------------------------------------------
(* The manager's steps, and time *)

\* The memories whose last_touch in L2 the step of t sets to now: one it is
\* about to store there, or a hit it touches there.
Stamped(t) ==
    CASE thread[t].pc = "put" /\ thread[t].todo[1].tier = L2 /\ ~PutRaises(t) ->
            {thread[t].todo[1].id}
      [] thread[t].pc = "touch" ->
            {c[1] : c \in {d \in thread[t].cand \ thread'[t].cand : Reads[d[2]] = L2}}
      [] OTHER -> {}

ManagerStep(t) ==
    /\ Step(t)
    /\ cold' = (cold \ Stamped(t)) \cap rows'[L2]
    /\ UNCHANGED <<batch, running, stopping>>

AgentStart(a) ==
    /\ Start(a) /\ thread'[a].op \in AgentOps
    /\ UNCHANGED prunerVars

\* The row that has been untouched longest passes the threshold.
GrowCold ==
    /\ rows[L2] \ cold # {}
    /\ cold' = cold \cup {Head(ColdOrder(L2, rows[L2] \ cold))}
    /\ UNCHANGED <<vars, batch, running, stopping>>

-----------------------------------------------------------------------------
PrunerNext ==
    \/ StartScheduler \/ StopScheduler \/ AwaitTick \/ GrowCold
    \/ \E a \in Agents : AgentStart(a)
    \/ \E t \in Tickers : TickStart(t) \/ TickDemote(t)
    \/ \E t \in Threads : ManagerStep(t)

PrunerSpec == PrunerInit /\ [][PrunerNext]_allVars

\* Threads are scheduled; a running scheduler fires, and not for ever into
\* ticks that the power gate skips.
FairPrunerSpec ==
    /\ PrunerSpec
    /\ WF_allVars(AwaitTick)
    /\ SF_allVars(TickStart(Scheduled))
    /\ \A t \in Tickers : WF_allVars(TickDemote(t))
    /\ \A t \in Threads : WF_allVars(ManagerStep(t))

-----------------------------------------------------------------------------
(* Properties *)

\* Type invariant.
PrunerTypeOK ==
    /\ TypeOK
    /\ cold \subseteq rows[L2]
    /\ batch \in [Tickers -> Seq(Ids)]
    /\ \A t \in Tickers : Len(batch[t]) <= MaxPerTick
    /\ running \in BOOLEAN /\ stopping \in BOOLEAN
    /\ stopping => running

\* "Waits for any in-flight tick": when stop() has returned, no scheduled tick
\* is moving memories.
StopWaits == ~running => ~Ticking(Scheduled)

\* "The next tick picks up where we left off": a cold memory of L2 does not
\* stay there while the pruner runs, however small the batches.
ColdLeavesL2 ==
    \A id \in Ids : id \in cold ~> id \notin cold \/ ~running \/ stopping

\* stop() returns.
StopReturns == stopping ~> ~stopping
=============================================================================
