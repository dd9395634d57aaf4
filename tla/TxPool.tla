------------------------------- MODULE TxPool -------------------------------
(***************************************************************************)
(* tx_memory_pool (cryptonote_core/tx_pool.cpp): the transactions that are *)
(* waiting for a block, and m_txin_infos, the index from a key image to    *)
(* the pool transactions that spend it.                                    *)
(*                                                                         *)
(* A transaction is an element of Txs; what the pool looks at is the set   *)
(* of key images its txin_to_key inputs spend.  The inputs that            *)
(* get_txin_info classifies as "no conflict" (votes, registrations) leave  *)
(* no trace in the index, so they have no counterpart here.                *)
(***************************************************************************)
EXTENDS Integers, Sequences, FiniteSets, Functions

CONSTANTS
  Txs,        \* transaction ids
  KeyImages,  \* key images
  Images      \* Images[t]: the key images spent by the inputs of t

ASSUME ImagesAssumption == Images \in [Txs -> SUBSET KeyImages]

VARIABLES
  pool,       \* m_transactions of the pool
  txin_infos  \* m_txin_infos: key image -> ids of pool transactions

poolVars == <<pool, txin_infos>>

PoolTypeOK ==
  /\ pool \subseteq Txs
  /\ txin_infos \in [KeyImages -> SUBSET Txs]

PoolInit ==
  /\ pool = {}
  /\ txin_infos = [k \in KeyImages |-> {}]

-----------------------------------------------------------------------------

(***************************************************************************)
(* check_can_add_tx: no input of t is already spent by a pool transaction. *)
(***************************************************************************)
CanAddTx(t) == \A k \in Images[t] : txin_infos[k] = {}

(***************************************************************************)
(* The index after add_inp for the images K of t, and after remove_inp for *)
(* every image of t.                                                       *)
(***************************************************************************)
AddInputs(t, K) ==
  [k \in KeyImages |-> IF k \in K THEN txin_infos[k] \cup {t} ELSE txin_infos[k]]

RemoveInputs(t) == [k \in KeyImages |-> txin_infos[k] \ {t}]

\* Mutants of KeepByBlock: what is purged does not go back to the pool, and
\* the transaction that was being processed is forgotten.
KeepByBlock_Dropped(S, taken) ==
  /\ pool' = pool \cup taken
  /\ UNCHANGED txin_infos

KeepByBlock_TakenLost(S, taken) ==
  /\ pool' = (pool \cup S) \ taken
  /\ txin_infos' = [k \in KeyImages |-> txin_infos[k] \cup {t \in S \ pool : k \in Images[t]}]

(***************************************************************************)
(* add_tx with kept_by_block: every transaction of S that the pool lacks   *)
(* goes in whether or not its inputs are valid, because a block names it;  *)
(* one that is already there makes the insertion fail and changes nothing. *)
(* taken holds transactions that take_tx removed in the same step, and     *)
(* that go back in like the others.                                        *)
(***************************************************************************)
KeepByBlock(S, taken) ==
  /\ pool' = pool \cup S \cup taken
  /\ txin_infos' = [k \in KeyImages |->
        txin_infos[k] \cup {t \in (S \ pool) \cup taken : k \in Images[t]}]

(***************************************************************************)
(* take_tx: the transaction leaves the pool; when its images are not in    *)
(* the index that is logged and the transaction is erased all the same.    *)
(***************************************************************************)
TakeTx(t) ==
  /\ pool' = pool \ {t}
  /\ txin_infos' = RemoveInputs(t)

(***************************************************************************)
(* The last part of add_tx for a transaction that passed its checks.  The  *)
(* insertion comes first and the images are indexed one by one after it: a *)
(* transaction that is not kept by a block stops at the first image that   *)
(* is already indexed, and stays in the pool with the images before it.    *)
(***************************************************************************)
InsertTx(t, kept) ==
  /\ pool' = pool \cup {t}
  /\ LET conflicts == {k \in Images[t] : txin_infos[k] # {}}
     IN  IF t \in pool
         THEN UNCHANGED txin_infos
         ELSE IF kept \/ conflicts = {}
         THEN txin_infos' = AddInputs(t, Images[t])
         ELSE \E K \in SUBSET (Images[t] \ conflicts) : txin_infos' = AddInputs(t, K)

=============================================================================
