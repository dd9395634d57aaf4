----------------------------- MODULE MCThreads ------------------------------
(***************************************************************************)
(* The threads of a node: the locks of the core, the starting and stopping *)
(* of the miner's workers, and the pool between two locks of add_tx.  The  *)
(* three models share no state, so a behaviour is one of any of them: part *)
(* says of which, and the variables of the others stay as they began.      *)
(***************************************************************************)
EXTENDS Locks

CONSTANTS t1, t2, t3

MCThreads == {t1, t2, t3}

VARIABLES
  part,
  m_stop, m_threads_lock, m_threads, alive, pc, starts,   \* MinerThreads
  chain, txd, adding, answer                              \* Readiness

threadsVars == <<m_stop, m_threads_lock, m_threads, alive, pc, starts>>
poolVars == <<chain, txd, adding, answer>>
all == <<part, vars, threadsVars, poolVars>>

\* Three callers, two workers, three starts.
MCCallers == {"console", "rpc", "protocol"}
T == INSTANCE MinerThreads WITH Callers <- MCCallers, ThreadsCount <- 2, MaxStarts <- 3

R == INSTANCE Readiness WITH MaxHeight <- 4

ASSUME InstancesAssumption ==
  T!MinerThreadsAssumption /\ R!ReadinessAssumption

OfLocks(A) == part = "locks" /\ A /\ UNCHANGED <<part, threadsVars, poolVars>>
OfThreads(A) == part = "threads" /\ A /\ UNCHANGED <<part, vars, poolVars>>
OfPool(A) == part = "pool" /\ A /\ UNCHANGED <<part, vars, threadsVars>>

AllInit ==
  /\ part \in {"locks", "threads", "pool"}
  /\ Init /\ T!Init /\ R!Init

AllNext == OfLocks(Next) \/ OfThreads(T!Next) \/ OfPool(R!Next)

(***************************************************************************)
(* The fairness of Locks and of MinerThreads.                              *)
(***************************************************************************)
AllFairness ==
  /\ \A t \in Threads : SF_all(OfLocks(Step(t)))
  /\ \A c \in MCCallers : SF_all(OfThreads(T!CallerStep(c)))
  /\ \A t \in (1..3) \X (1..2) : WF_all(OfThreads(t \in alive /\ T!WorkerStops(t)))

AllSpec == AllInit /\ [][AllNext]_all /\ AllFairness

(***************************************************************************)
(* miner::stop() returns, unless start() sets m_stop back meanwhile: the   *)
(* property of MinerThreads.                                               *)
(***************************************************************************)
StopReturnsUnlessRestarted == part = "threads" => T!StopReturnsUnlessRestarted

(***************************************************************************)
(* What is_transaction_ready_to_go says is right, whatever the chain did   *)
(* since add_tx remembered a block: a transaction that is ready is valid,  *)
(* and a valid one is passed over only after a reorganisation, or when it  *)
(* came with a block (ReadyIsValid and PassedOverOnlyIfMoved of            *)
(* Readiness).                                                             *)
(***************************************************************************)
ReadinessIsRight == R!ReadyIsValid /\ R!PassedOverOnlyIfMoved
=============================================================================
