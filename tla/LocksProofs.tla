---------------------------- MODULE LocksProofs -----------------------------
(***************************************************************************)
(* The deadlocks of the node's locks, for any number of threads: there is  *)
(* none without a thread in get_transactions that asks the pool for a      *)
(* transaction.                                                            *)
(***************************************************************************)
EXTENDS Locks, TLAPS

(***************************************************************************)
(* Where a thread that holds a lock can be.  Of these places only          *)
(* "get_transaction" needs a lock that comes before the held one in the    *)
(* order incoming_tx, pool, chain.                                         *)
(***************************************************************************)
ChainHeld == {"block_run", "in_get_transactions", "get_transaction"}
PoolHeld == {"block_chain", "block_run", "block_end", "ready_to_go"}
IncomingHeld ==
  {"tx_semantic", "tx_have_tx", "tx_chain_have_tx", "tx_can_add", "tx_validate",
   "tx_insert", "tx_end"}

HoldersInPlace ==
  \A t \in Threads :
    /\ holder["chain"] = t => at[t] \in ChainHeld
    /\ holder["pool"] = t => at[t] \in PoolHeld
    /\ holder["incoming_tx"] = t => at[t] \in IncomingHeld

LInv == LocksTypeOK /\ HoldersInPlace

(***************************************************************************)
(* Every lock and unlock of add_new_block, handle_incoming_tx,             *)
(* create_block_template and get_transactions keeps the holders where the  *)
(* order of the locks puts them.                                           *)
(***************************************************************************)
LEMMA HoldersInductive == LInv /\ [Next]_vars => LInv'
<1> SUFFICES ASSUME LInv, [Next]_vars PROVE LInv'
  OBVIOUS
<1> USE LocksAssumption DEF LInv, LocksTypeOK, HoldersInPlace, Locks, Places, NeedsIncoming,
     NeedsPool, NeedsChain, ChainHeld, PoolHeld, IncomingHeld
<1>1. CASE UNCHANGED vars
  BY <1>1 DEF vars
<1>2. ASSUME NEW t \in Threads, Call(t) PROVE LInv'
  BY <1>2 DEF Call, Goes
<1>3. ASSUME NEW t \in Threads, AddNewBlock(t) PROVE LInv'
  BY <1>3 DEF AddNewBlock, Lock, Unlock, Goes
<1>4. ASSUME NEW t \in Threads, HandleIncomingTx(t) PROVE LInv'
  <2>1. CASE Lock(t, "incoming_tx", "handle_incoming_tx", "tx_semantic")
    BY <2>1 DEF Lock, Goes
  <2>2. CASE Unlock(t, "incoming_tx", "tx_end", "idle")
    BY <2>2 DEF Unlock, Goes
  <2>3. CASE \E l \in Locks, from \in IncomingHeld, to \in IncomingHeld : Visit(t, l, from, to)
    BY <2>3 DEF Visit, Goes
  <2> QED
    BY <1>4, <2>1, <2>2, <2>3 DEF HandleIncomingTx
<1>5. ASSUME NEW t \in Threads, CreateBlockTemplate(t) PROVE LInv'
  <2>1. CASE \E from \in {"create_block_template", "template_signer"},
                to \in {"fill_block_template", "idle"} : Visit(t, "chain", from, to)
    BY <2>1 DEF Visit, Goes
  <2>2. CASE Lock(t, "pool", "fill_block_template", "ready_to_go")
    BY <2>2 DEF Lock, Goes
  <2>3. CASE Visit(t, "chain", "ready_to_go", "ready_to_go")
    BY <2>3 DEF Visit, Goes
  <2>4. CASE \E to \in {"template_signer", "idle"} : Unlock(t, "pool", "ready_to_go", to)
    BY <2>4 DEF Unlock, Goes
  <2> QED
    BY <1>5, <2>1, <2>2, <2>3, <2>4 DEF CreateBlockTemplate
<1>6. ASSUME NEW t \in Threads, GetTransactions(t) PROVE LInv'
  BY <1>6 DEF GetTransactions, Lock, Unlock, Visit, Goes
<1> QED
  BY <1>1, <1>2, <1>3, <1>4, <1>5, <1>6 DEF Next, Step

LEMMA HoldersInvariant == Spec => []LInv
<1>1. Init => LInv
  BY LocksAssumption DEF Init, LInv, LocksTypeOK, HoldersInPlace, Locks, Places
<1> QED
  BY <1>1, HoldersInductive, PTL DEF Spec

(***************************************************************************)
(* Threads of which none asks the pool inside get_transactions do not wait *)
(* for each other in a circle: one that holds the chain waits for nothing, *)
(* so none of them holds it; then one that holds the pool has nothing left *)
(* to wait for, so none holds the pool; then the same goes for             *)
(* m_incoming_tx_lock.                                                     *)
(***************************************************************************)
LEMMA OrderedThreads ==
  ASSUME LInv, NEW D \in SUBSET Threads, Deadlocked(D),
         \A t \in D : at[t] # "get_transaction"
  PROVE  FALSE
<1>1. \A t \in D : \E u \in D, l \in Locks : u # t /\ Needs(t, l) /\ holder[l] = u
  BY DEF Deadlocked, WaitsFor
<1>2. \A t \in D : holder["chain"] # t
  <2> SUFFICES ASSUME NEW t \in D, holder["chain"] = t PROVE FALSE
    OBVIOUS
  <2>1. at[t] \in {"block_run", "in_get_transactions"}
    BY DEF LInv, HoldersInPlace, ChainHeld
  <2> QED
    BY <1>1, <2>1 DEF Needs, Locks, NeedsIncoming, NeedsPool, NeedsChain
<1>3. \A t \in D : at[t] \notin NeedsChain
  <2> SUFFICES ASSUME NEW t \in D, at[t] \in NeedsChain PROVE FALSE
    OBVIOUS
  <2>1. PICK u \in D, l \in Locks : Needs(t, l) /\ holder[l] = u
    BY <1>1
  <2>2. l = "chain"
    BY <2>1 DEF Needs, Locks, NeedsIncoming, NeedsPool, NeedsChain
  <2> QED
    BY <1>2, <2>1, <2>2
<1>4. \A t \in D : holder["pool"] # t
  <2> SUFFICES ASSUME NEW t \in D, holder["pool"] = t PROVE FALSE
    OBVIOUS
  <2>1. at[t] \in PoolHeld
    BY DEF LInv, HoldersInPlace
  <2> QED
    BY <1>1, <1>3, <2>1 DEF PoolHeld, Needs, Locks, NeedsIncoming, NeedsPool, NeedsChain
<1>5. PICK t \in D, u \in D : u # t /\ at[t] \in NeedsIncoming /\ holder["incoming_tx"] = u
  BY <1>1, <1>2, <1>4 DEF Deadlocked, Needs, Locks
<1>6. at[u] \in IncomingHeld
  BY <1>5 DEF LInv, HoldersInPlace
<1>7. PICK v \in D, l \in Locks : Needs(u, l) /\ holder[l] = v
  BY <1>1
<1>8. l = "pool"
  BY <1>3, <1>6, <1>7 DEF IncomingHeld, Needs, Locks, NeedsIncoming, NeedsPool, NeedsChain
<1> QED
  BY <1>4, <1>7, <1>8

(***************************************************************************)
(* Every deadlock of add_new_block, handle_incoming_tx,                    *)
(* create_block_template and get_transactions has a thread in it that      *)
(* holds the chain and asks the pool for a transaction.                    *)
(***************************************************************************)
THEOREM DeadlocksNeedPoolQuery == Spec => []DeadlockNeedsPoolQuery
<1>1. LInv => DeadlockNeedsPoolQuery
  BY OrderedThreads DEF DeadlockNeedsPoolQuery
<1> QED
  BY <1>1, HoldersInvariant, PTL

(***************************************************************************)
(* When no caller asks get_transactions for a transaction that is only in  *)
(* the pool, "to avoid deadlock lets lock tx_pool" does what it says, for  *)
(* any number of threads.                                                  *)
(***************************************************************************)
THEOREM DeadlockFree == ASSUME PoolQueries = FALSE PROVE Spec => []NoDeadlock
<1> DEFINE NoQuery == \A t \in Threads : at[t] # "get_transaction"
<1>1. Init => NoQuery
  BY DEF Init
<1>2. LInv /\ NoQuery /\ [Next]_vars => NoQuery'
  <2> SUFFICES ASSUME LInv, NoQuery, [Next]_vars PROVE NoQuery'
    OBVIOUS
  <2> USE DEF LInv, LocksTypeOK
  <2>1. CASE UNCHANGED vars
    BY <2>1 DEF vars
  <2>2. CASE Next
    BY <2>2, PoolQueries = FALSE DEF Next, Step, Call, AddNewBlock, HandleIncomingTx, CreateBlockTemplate,
      GetTransactions, Lock, Unlock, Visit, Goes
  <2> QED
    BY <2>1, <2>2
<1>3. LInv /\ NoQuery => NoDeadlock
  BY OrderedThreads DEF NoDeadlock
<1> QED
  BY <1>1, <1>2, <1>3, HoldersInvariant, PTL DEF Spec

=============================================================================
