------------------------------- MODULE Locks --------------------------------
(***************************************************************************)
(* The locks of a node: m_incoming_tx_lock of core, m_transactions_lock of *)
(* the pool and m_blockchain_lock of blockchain_storage, and the calls     *)
(* that hold one while they wait for another.                              *)
(*                                                                         *)
(* epee::critical_section is a recursive mutex: a thread that holds a lock *)
(* takes it again without waiting, so only its outermost region is         *)
(* modelled.  A region inside which no other lock is taken is one step     *)
(* (Visit).  m_hashes_lock of the hash cache and m_template_lock of the    *)
(* miner are only ever taken this way, and are left out.                   *)
(***************************************************************************)
EXTENDS Integers

CONSTANTS
  Threads,
  NoThread,     \* the holder of a free lock
  PoolQueries   \* whether callers ask for transactions that no block holds

ASSUME LocksAssumption == NoThread \notin Threads /\ PoolQueries \in BOOLEAN

VARIABLES
  at,       \* at[t]: where thread t is
  holder    \* holder[l]: the thread that holds the lock l

vars == <<at, holder>>

Locks == {"incoming_tx", "pool", "chain"}

(***************************************************************************)
(* The lock a thread needs for its next step, at the places that need one. *)
(***************************************************************************)
NeedsIncoming == {"handle_incoming_tx"}
NeedsPool ==
  {"add_new_block", "tx_have_tx", "tx_can_add", "tx_insert", "fill_block_template",
   "get_transaction"}
NeedsChain ==
  {"block_chain", "tx_semantic", "tx_chain_have_tx", "tx_validate",
   "create_block_template", "ready_to_go", "template_signer", "get_transactions"}

Places ==
  NeedsIncoming \cup NeedsPool \cup NeedsChain
    \cup {"idle", "block_run", "block_end", "tx_end", "in_get_transactions"}

Needs(t, l) ==
  CASE l = "incoming_tx" -> at[t] \in NeedsIncoming
    [] l = "pool"        -> at[t] \in NeedsPool
    [] l = "chain"       -> at[t] \in NeedsChain

Init ==
  /\ at = [t \in Threads |-> "idle"]
  /\ holder = [l \in Locks |-> NoThread]

-----------------------------------------------------------------------------

Goes(t, from, to) ==
  /\ at[t] = from
  /\ at' = [at EXCEPT ![t] = to]

Lock(t, l, from, to) ==
  /\ Goes(t, from, to)
  /\ holder[l] = NoThread
  /\ holder' = [holder EXCEPT ![l] = t]

Unlock(t, l, from, to) ==
  /\ Goes(t, from, to)
  /\ holder' = [holder EXCEPT ![l] = NoThread]

Visit(t, l, from, to) ==
  /\ Goes(t, from, to)
  /\ holder[l] \in {NoThread, t}
  /\ UNCHANGED holder

(***************************************************************************)
(* A thread begins a call.                                                 *)
(***************************************************************************)
Call(t) ==
  /\ \E c \in {"add_new_block", "handle_incoming_tx", "create_block_template",
               "get_transactions"} : Goes(t, "idle", c)
  /\ UNCHANGED holder

(***************************************************************************)
(* add_new_block: "to avoid deadlock lets lock tx_pool for whole           *)
(* add/reorganize process".  The regions are left in reverse order.        *)
(***************************************************************************)
AddNewBlock(t) ==
  \/ Lock(t, "pool", "add_new_block", "block_chain")
  \/ Lock(t, "chain", "block_chain", "block_run")
  \/ Unlock(t, "chain", "block_run", "block_end")
  \/ Unlock(t, "pool", "block_end", "idle")

(***************************************************************************)
(* handle_incoming_tx with add_new_tx and add_tx: each look at the pool or *)
(* the chain is a region of its own, and each may be the last.             *)
(***************************************************************************)
HandleIncomingTx(t) ==
  \/ Lock(t, "incoming_tx", "handle_incoming_tx", "tx_semantic")
  \/ \E to \in {"tx_have_tx", "tx_end"} : Visit(t, "chain", "tx_semantic", to)
  \/ \E to \in {"tx_chain_have_tx", "tx_end"} : Visit(t, "pool", "tx_have_tx", to)
  \/ \E to \in {"tx_can_add", "tx_validate", "tx_end"} :
       Visit(t, "chain", "tx_chain_have_tx", to)
  \/ \E to \in {"tx_validate", "tx_end"} : Visit(t, "pool", "tx_can_add", to)
  \/ \E to \in {"tx_insert", "tx_end"} : Visit(t, "chain", "tx_validate", to)
  \/ Visit(t, "pool", "tx_insert", "tx_end")
  \/ Unlock(t, "incoming_tx", "tx_end", "idle")

\* Mutants of CreateBlockTemplate: the chain's lock is kept while the pool is asked, and
\* fill_block_template has no end.
CreateBlockTemplate_ChainHeld(t) ==
  \/ Lock(t, "chain", "create_block_template", "fill_block_template")
  \/ Lock(t, "pool", "fill_block_template", "ready_to_go")
  \/ Unlock(t, "pool", "ready_to_go", "template_signer")
  \/ Unlock(t, "chain", "template_signer", "idle")

CreateBlockTemplate_NoEnd(t) ==
  \/ Visit(t, "chain", "create_block_template", "fill_block_template")
  \/ Lock(t, "pool", "fill_block_template", "ready_to_go")
  \/ Visit(t, "chain", "ready_to_go", "ready_to_go")

(***************************************************************************)
(* create_block_template: the tip is read in a region of its own;          *)
(* fill_block_template holds the pool while is_transaction_ready_to_go     *)
(* asks the chain about each transaction; the signer of a DPoS block is    *)
(* looked up after it.                                                     *)
(***************************************************************************)
CreateBlockTemplate(t) ==
  \/ \E to \in {"fill_block_template", "idle"} : Visit(t, "chain", "create_block_template", to)
  \/ Lock(t, "pool", "fill_block_template", "ready_to_go")
  \/ Visit(t, "chain", "ready_to_go", "ready_to_go")
  \/ \E to \in {"template_signer", "idle"} : Unlock(t, "pool", "ready_to_go", to)
  \/ Visit(t, "chain", "template_signer", "idle")

(***************************************************************************)
(* get_transactions, alone or inside handle_get_objects: the chain is held *)
(* and the pool is asked for each transaction that is not on record.       *)
(***************************************************************************)
GetTransactions(t) ==
  \/ Lock(t, "chain", "get_transactions", "in_get_transactions")
  \/ /\ PoolQueries
     /\ Goes(t, "in_get_transactions", "get_transaction")
     /\ UNCHANGED holder
  \/ Visit(t, "pool", "get_transaction", "in_get_transactions")
  \/ Unlock(t, "chain", "in_get_transactions", "idle")

Step(t) ==
  AddNewBlock(t) \/ HandleIncomingTx(t) \/ CreateBlockTemplate(t) \/ GetTransactions(t)

Next == \E t \in Threads : Call(t) \/ Step(t)

Spec == Init /\ [][Next]_vars

(***************************************************************************)
(* A running thread goes on, and one that waits for a lock that becomes    *)
(* free again and again gets it.                                           *)
(***************************************************************************)
Fairness == \A t \in Threads : SF_vars(Step(t))

FairSpec == Spec /\ Fairness

-----------------------------------------------------------------------------

(***************************************************************************)
(* Every thread is at a place of a call, and a lock has one holder or none.*)
(***************************************************************************)
LocksTypeOK ==
  /\ at \in [Threads -> Places]
  /\ holder \in [Locks -> Threads \cup {NoThread}]

(***************************************************************************)
(* Thread t cannot go on before thread u has given a lock back.            *)
(***************************************************************************)
WaitsFor(t, u) == u # t /\ \E l \in Locks : Needs(t, l) /\ holder[l] = u

Deadlocked(D) == D # {} /\ \A t \in D : \E u \in D : WaitsFor(t, u)

(***************************************************************************)
(* "to avoid deadlock lets lock tx_pool for whole add/reorganize process": *)
(* there are never threads of which each waits for another of them.        *)
(***************************************************************************)
NoDeadlock == \A D \in SUBSET Threads : ~Deadlocked(D)

(***************************************************************************)
(* get_transactions, which takes the pool's lock inside the chain's, is    *)
(* the only call that can bring a deadlock about: every deadlock has a     *)
(* thread in it that asks the pool for a transaction while it holds the    *)
(* chain.                                                                  *)
(***************************************************************************)
DeadlockNeedsPoolQuery ==
  \A D \in SUBSET Threads : Deadlocked(D) => \E t \in D : at[t] = "get_transaction"

(***************************************************************************)
(* Every call comes to an end, whatever the other threads do.              *)
(***************************************************************************)
CallsReturn == \A t \in Threads : at[t] # "idle" ~> at[t] = "idle"

=============================================================================
