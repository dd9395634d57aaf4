---------------------------- MODULE MinerThreads ----------------------------
(***************************************************************************)
(* miner::start and miner::stop, called by the console, the RPC server,    *)
(* the protocol (on_synchronized) and core::deinit in threads of their     *)
(* own, and the life of the worker threads.  What a worker does is in      *)
(* Miner.                                                                  *)
(***************************************************************************)
EXTENDS Integers, FiniteSets

CONSTANTS
  Callers,      \* threads that call start and stop
  ThreadsCount, \* threads_count of every start
  MaxStarts     \* bound on the number of times that start makes threads

Nobody == "nobody"

MinerThreadsAssumption ==
  /\ Nobody \notin Callers
  /\ ThreadsCount \in Nat \ {0}
  /\ MaxStarts \in Nat \ {0}

VARIABLES
  m_stop,
  m_threads_lock,  \* who holds it
  m_threads,       \* the threads made and not yet joined, <<start, index>>
  alive,           \* the threads that have not ended
  pc,
  starts           \* number of starts that made threads

vars == <<m_stop, m_threads_lock, m_threads, alive, pc, starts>>

IsMining == ~m_stop
Goto(c, place) == pc' = [pc EXCEPT ![c] = place]

Init ==
  /\ m_stop = TRUE
  /\ m_threads_lock = Nobody
  /\ m_threads = {} /\ alive = {}
  /\ pc = [c \in Callers |-> "rest"]
  /\ starts = 0

-----------------------------------------------------------------------------
(* start *)

(***************************************************************************)
(* The lock is taken; a miner that is mining, or has threads left, is not  *)
(* started.                                                                *)
(***************************************************************************)
StartLock(c) ==
  /\ pc[c] = "rest"
  /\ starts < MaxStarts
  /\ m_threads_lock = Nobody
  /\ ~IsMining /\ m_threads = {}
  /\ m_threads_lock' = c
  /\ Goto(c, "request")
  /\ UNCHANGED <<m_stop, m_threads, alive, starts>>

(***************************************************************************)
(* After request_block_template, m_stop is cleared.                        *)
(***************************************************************************)
StartClear(c) ==
  /\ pc[c] = "request"
  /\ m_stop' = FALSE
  /\ Goto(c, "spawn")
  /\ UNCHANGED <<m_threads_lock, m_threads, alive, starts>>

StartSpawn(c) ==
  LET made == {<<starts + 1, i>> : i \in 1..ThreadsCount}
  IN  /\ pc[c] = "spawn"
      /\ starts' = starts + 1
      /\ m_threads' = m_threads \cup made
      /\ alive' = alive \cup made
      /\ m_threads_lock' = Nobody
      /\ Goto(c, "rest")
      /\ UNCHANGED m_stop

-----------------------------------------------------------------------------
(* stop *)

StopSet(c) ==
  /\ pc[c] = "rest"
  /\ m_stop' = TRUE
  /\ Goto(c, "stop")
  /\ UNCHANGED <<m_threads_lock, m_threads, alive, starts>>

StopLock(c) ==
  /\ pc[c] = "stop"
  /\ m_threads_lock = Nobody
  /\ m_threads_lock' = c
  /\ Goto(c, "join")
  /\ UNCHANGED <<m_stop, m_threads, alive, starts>>

StopJoin(c) ==
  /\ pc[c] = "join"
  /\ m_threads \cap alive = {}
  /\ m_threads' = {}
  /\ m_threads_lock' = Nobody
  /\ Goto(c, "rest")
  /\ UNCHANGED <<m_stop, alive, starts>>

\* Mutant of WorkerStops: only the first thread looks at m_stop.
WorkerStops_First(t) ==
  /\ m_stop
  /\ t[2] = 1
  /\ alive' = alive \ {t}
  /\ UNCHANGED <<m_stop, m_threads_lock, m_threads, pc, starts>>

(***************************************************************************)
(* worker_thread ends when it sees m_stop.                                 *)
(***************************************************************************)
WorkerStops(t) ==
  /\ m_stop
  /\ alive' = alive \ {t}
  /\ UNCHANGED <<m_stop, m_threads_lock, m_threads, pc, starts>>

(***************************************************************************)
(* A worker ends by itself: when get_next_block_info fails as it begins,   *)
(* and one with an index above 0 when the DPoS era comes.                  *)
(***************************************************************************)
WorkerLeaves(t) ==
  /\ alive' = alive \ {t}
  /\ UNCHANGED <<m_stop, m_threads_lock, m_threads, pc, starts>>

CallerStep(c) == StartClear(c) \/ StartSpawn(c) \/ StopLock(c) \/ StopJoin(c)

Next ==
  \/ \E c \in Callers : StartLock(c) \/ StopSet(c) \/ CallerStep(c)
  \/ \E t \in alive : WorkerStops(t) \/ WorkerLeaves(t)

Spec == Init /\ [][Next]_vars

(***************************************************************************)
(* Callers and workers go on, a waiting stop gets the lock in the end, and *)
(* a worker that looks at m_stop over and over sees it.                    *)
(***************************************************************************)
Fairness ==
  /\ \A c \in Callers : SF_vars(CallerStep(c))
  /\ \A t \in (1..MaxStarts) \X (1..ThreadsCount) : WF_vars(t \in alive /\ WorkerStops(t))

FairSpec == Spec /\ Fairness

-----------------------------------------------------------------------------
(* Properties. *)

(***************************************************************************)
(* The types, and that m_threads_lock is held by the caller that is inside *)
(* start() or joins the threads in stop(), and by no other.                *)
(***************************************************************************)
MinerThreadsTypeOK ==
  /\ m_stop \in BOOLEAN
  /\ m_threads_lock \in Callers \cup {Nobody}
  /\ \A c \in Callers : pc[c] \in {"request", "spawn", "join"} <=> m_threads_lock = c
  /\ m_threads \subseteq (1..MaxStarts) \X (1..ThreadsCount)
  /\ starts \in 0..MaxStarts

(***************************************************************************)
(* Whatever starts and stops overlap, the living workers come from one     *)
(* start (two threads with one th_local_index would try the same nonces,   *)
(* and both would sign in the DPoS era), and every one is still in         *)
(* m_threads, where a stop will join it.                                   *)
(***************************************************************************)
OneGeneration ==
  /\ alive \subseteq m_threads
  /\ \A t, u \in alive : t[1] = u[1]

(***************************************************************************)
(* A stop ends, unless a start that was under way has cleared m_stop after *)
(* the stop had set it.                                                    *)
(***************************************************************************)
StopReturnsUnlessRestarted ==
  \A c \in Callers : pc[c] \in {"stop", "join"} ~> pc[c] = "rest" \/ ~m_stop

(***************************************************************************)
(* The help of the command stop_mining, "Stop mining": a stop ends, with   *)
(* the threads joined.                                                     *)
(***************************************************************************)
StopReturns == \A c \in Callers : pc[c] = "stop" ~> pc[c] = "rest"

=============================================================================
