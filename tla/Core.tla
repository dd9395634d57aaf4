-------------------------------- MODULE Core --------------------------------
(***************************************************************************)
(* core (cryptonote_core/cryptonote_core.cpp): the chain and the pool,     *)
(* driven by the threads that bring blocks and transactions.               *)
(*                                                                         *)
(* handle_incoming_tx runs under m_incoming_tx_lock, so one transaction is *)
(* in it at a time, but it takes the pool lock and the blockchain lock     *)
(* anew for each of its steps: have_tx of the pool, have_tx of the chain,  *)
(* check_can_add_tx, validate_tx, insertion.  A block can be added, and    *)
(* the chain reorganised, between any two of them.                         *)
(***************************************************************************)
EXTENDS Blockchain

CONSTANTS
  LowFee,   \* transactions with a fee below DEFAULT_FEE
  Bare,     \* blocks that may arrive without their transactions (submitblock)
  Early,    \* blocks whose timestamp is too far in the future at first
  Late      \* PoW blocks whose long hash the node cannot obtain at first

ASSUME EnvironmentAssumption == Early \subseteq Blocks /\ Late \subseteq Blocks

VARIABLES
  tx_at,    \* where handle_incoming_tx is
  tx_cur,   \* its transaction; Genesis when there is none
  tx_kept   \* kept_by_block

txVars == <<tx_at, tx_cur, tx_kept>>
vars == <<chainVars, poolVars, environment, pc, callVars, bvc, panicked, txVars>>

-----------------------------------------------------------------------------
(* handle_incoming_tx. *)

(***************************************************************************)
(* Each step needs the chain or the pool lock, which add_new_block holds   *)
(* while it runs.                                                          *)
(***************************************************************************)
LocksFree == pc = "idle"

\* Mutant of TxReturns: the call is not marked as over.
TxReturns_NotReset ==
  /\ tx_cur' = Genesis
  /\ UNCHANGED <<tx_at, tx_kept>>

TxReturns ==
  /\ tx_at' = "none"
  /\ tx_cur' = Genesis
  /\ tx_kept' = FALSE

(***************************************************************************)
(* add_new_tx: the pool is asked for the transaction.                      *)
(***************************************************************************)
HandleIncomingTx(t, kept) ==
  /\ tx_at = "none"
  /\ LocksFree
  /\ t \notin pool
  /\ tx_at' = "have_tx"
  /\ tx_cur' = t
  /\ tx_kept' = kept
  /\ UNCHANGED <<chainVars, poolVars, environment, pc, callVars, bvc, panicked>>

(***************************************************************************)
(* add_new_tx: the chain is asked; then add_tx of the pool, which does not *)
(* take a transaction with a low fee unless a block brought it.            *)
(***************************************************************************)
TxNotInChain ==
  /\ tx_at = "have_tx"
  /\ LocksFree
  /\ IF tx_cur \in DOMAIN transactions \/ (tx_cur \in LowFee /\ ~tx_kept)
     THEN TxReturns
     ELSE /\ tx_at' = IF tx_kept THEN "validate" ELSE "can_add"
          /\ UNCHANGED <<tx_cur, tx_kept>>
  /\ UNCHANGED <<chainVars, poolVars, environment, pc, callVars, bvc, panicked>>

TxCanAdd ==
  /\ tx_at = "can_add"
  /\ LocksFree
  /\ IF CanAddTx(tx_cur)
     THEN tx_at' = "validate" /\ UNCHANGED <<tx_cur, tx_kept>>
     ELSE TxReturns
  /\ UNCHANGED <<chainVars, poolVars, environment, pc, callVars, bvc, panicked>>

TxValidate ==
  /\ tx_at = "validate"
  /\ LocksFree
  /\ IF ValidateTx(tx_cur) \/ tx_kept
     THEN tx_at' = "insert" /\ UNCHANGED <<tx_cur, tx_kept>>
     ELSE TxReturns
  /\ UNCHANGED <<chainVars, poolVars, environment, pc, callVars, bvc, panicked>>

TxInsert ==
  /\ tx_at = "insert"
  /\ LocksFree
  /\ InsertTx(tx_cur, tx_kept)
  /\ TxReturns
  /\ UNCHANGED <<chainVars, environment, pc, callVars, bvc, panicked>>

-----------------------------------------------------------------------------

(***************************************************************************)
(* handle_incoming_block.  A peer's block comes after its transactions,    *)
(* each of which went through handle_incoming_tx; one submitted over RPC   *)
(* comes alone.                                                            *)
(***************************************************************************)
HandleIncomingBlock(b) ==
  /\ b \in Bare \/ Range(TxHashes[b]) \subseteq pool \cup DOMAIN transactions
  /\ AddNewBlock(b)
  /\ UNCHANGED txVars

Init ==
  /\ ChainInit
  /\ longhashes = Blocks \ Late
  /\ mature = Blocks \ Early
  /\ tx_at = "none"
  /\ tx_cur = Genesis
  /\ tx_kept = FALSE

Next ==
  \/ \E b \in Blocks : HandleIncomingBlock(b)
  \/ ChainStep /\ UNCHANGED txVars
  \/ \E t \in Txs, kept \in BOOLEAN : HandleIncomingTx(t, kept)
  \/ TxNotInChain
  \/ TxCanAdd
  \/ TxValidate
  \/ TxInsert
  \/ \E b \in Late : LonghashArrives(b) /\ UNCHANGED txVars
  \/ \E b \in Early : TimePasses(b) /\ UNCHANGED txVars

Spec == Init /\ [][Next]_vars

(***************************************************************************)
(* Fairness.  A thread that holds the locks goes on; a thread that waits   *)
(* for them gets them at some point although others take them in between;  *)
(* peers keep offering the blocks they have, each after its transactions   *)
(* (the synchronisation asks again for what the node still lacks).         *)
(***************************************************************************)
Fairness ==
  /\ WF_vars(ChainStep /\ UNCHANGED txVars)
  /\ SF_vars(TxNotInChain \/ TxCanAdd \/ TxValidate \/ TxInsert)
  /\ \A t \in Txs : SF_vars(HandleIncomingTx(t, TRUE))
  /\ \A b \in Blocks : SF_vars(HandleIncomingBlock(b))
  /\ \A b \in Late : WF_vars(LonghashArrives(b) /\ UNCHANGED txVars)
  /\ \A b \in Early : WF_vars(TimePasses(b) /\ UNCHANGED txVars)

FairSpec == Spec /\ Fairness

-----------------------------------------------------------------------------
(* Properties. *)

Entry == [hash : AllBlocks, cumulative_difficulty : Nat]
AltEntry == [height : Nat \ {0}, cumulative_difficulty : Nat]

ChainTypeOK ==
  /\ entries \in Seq(Entry) /\ entries # <<>>
  /\ blocks_by_hash \subseteq AllBlocks
  /\ DOMAIN blocks_index \subseteq AllBlocks
  /\ blocks_index \in [DOMAIN blocks_index -> Nat]
  /\ DOMAIN transactions \subseteq TxIds
  /\ transactions \in [DOMAIN transactions -> Nat]
  /\ spent_keys \subseteq KeyImages
  /\ outputs \in Seq(TxIds)
  /\ DOMAIN alternative \subseteq Blocks
  /\ alternative \in [DOMAIN alternative -> AltEntry]
  /\ invalid \subseteq Blocks
  /\ longhashes \subseteq Blocks
  /\ mature \subseteq Blocks

CallTypeOK ==
  /\ pc \in {"idle", "main", "txs", "alternative", "walk", "disconnect", "connect",
             "push", "returned", "rollback", "restore", "abandon", "nested"}
  /\ caller \in {"add_new_block", "connect", "push", "rollback"}
  /\ cur \in AllBlocks /\ (pc \in {"main", "txs", "alternative", "walk"} => cur \in Blocks)
  /\ ntx \in Nat
  /\ path \in Seq(Blocks)
  /\ alt_chain \in Seq(Blocks)
  /\ connected \in Nat
  /\ discard \in BOOLEAN
  /\ disconnected \in Seq(Blocks)
  /\ kth \in Nat
  /\ rollback_for \in {"none", "connect", "push"}
  /\ original \in Seq(Entry)
  /\ bvc \in {"none", "already_exists", "added", "alternative", "orphaned",
              "rejected", "failed", "missing_longhash"}
  /\ panicked \in BOOLEAN

TxTypeOK ==
  /\ tx_at \in {"none", "have_tx", "can_add", "validate", "insert"}
  /\ tx_cur \in Txs \cup {Genesis} /\ (tx_at # "none" => tx_cur \in Txs)
  /\ tx_kept \in BOOLEAN

(***************************************************************************)
(* Every container of blockchain_storage, of the pool and of the running   *)
(* calls holds values of its type.                                         *)
(***************************************************************************)
TypeOK == PoolTypeOK /\ ChainTypeOK /\ CallTypeOK /\ TxTypeOK

(***************************************************************************)
(* The transactions on record in the chain, coinbases aside.               *)
(***************************************************************************)
ChainTxs == DOMAIN transactions \cap Txs

(***************************************************************************)
(* No key image is spent by two transactions of the chain, and m_spent_keys*)
(* is exactly what those transactions spend.  It is so at every step of a  *)
(* block being connected, purged, disconnected by a reorganisation or      *)
(* restored by a rollback.                                                 *)
(***************************************************************************)
NoDoubleSpend ==
  /\ spent_keys = UNION {Images[t] : t \in ChainTxs}
  /\ \A t1, t2 \in ChainTxs : t1 # t2 => Images[t1] \cap Images[t2] = {}

(***************************************************************************)
(* The record of transactions is that of the blocks of the main chain and  *)
(* of what has been processed of the block being connected: nothing of a   *)
(* block that was refused or disconnected stays behind, and nothing of a   *)
(* block that stays is missing.                                            *)
(***************************************************************************)
BlockTxs(b) == IF b = Genesis THEN {} ELSE Range(TxHashes[b])
Recorded(b) == BlockTxs(b) \cup {b}
PartialTxs == IF pc = "txs" THEN ProcessedTxs(cur, ntx) \cup {cur} ELSE {}

ChainRecord == UNION {Recorded(entries[i].hash) : i \in DOMAIN entries}

TransactionsOfChain == DOMAIN transactions = ChainRecord \cup PartialTxs

(***************************************************************************)
(* The main chain is linked by prev_id, carries the sums of the            *)
(* difficulties, and m_blocks_index is the inverse of the list of entries. *)
(***************************************************************************)
MainChainLinked ==
  /\ entries[1].hash = Genesis
  /\ \A i \in 2..Len(entries) :
       /\ entries[i].hash \in Blocks
       /\ Prev[entries[i].hash] = entries[i-1].hash
       /\ Height[entries[i].hash] = i - 1
       /\ entries[i].cumulative_difficulty =
            entries[i-1].cumulative_difficulty + Difficulty[entries[i].hash]
  /\ DOMAIN blocks_index = {entries[i].hash : i \in DOMAIN entries}
  /\ \A i \in DOMAIN entries : blocks_index[entries[i].hash] = i - 1

(***************************************************************************)
(* The global output index lists the outputs of the chain in chain order,  *)
(* which every ring signature relies on.                                   *)
(***************************************************************************)
OutputsOfChain ==
  LET outs[n \in 0..Len(entries)] ==
        IF n = 0 THEN <<>>
        ELSE outs[n - 1] \o <<entries[n].hash>>
             \o (IF n = 1 THEN <<>> ELSE TxHashes[entries[n].hash])
      partial == IF pc = "txs" THEN <<cur>> \o SubSeq(TxHashes[cur], 1, ntx) ELSE <<>>
  IN  outputs = outs[Len(entries)] \o partial

(***************************************************************************)
(* A block is not in the main chain and in the alternative entries at the  *)
(* same time once a call is over, and both are in m_blocks_by_hash.        *)
(***************************************************************************)
MainAlternativeDisjoint ==
  pc = "idle" =>
    /\ DOMAIN alternative \cap DOMAIN blocks_index = {}
    /\ DOMAIN alternative \cup DOMAIN blocks_index \subseteq blocks_by_hash

(***************************************************************************)
(* pop_block_from_blockchain succeeds whenever a reorganisation or a       *)
(* rollback calls it: the transactions of the top block are on record,     *)
(* their images are spent, and their outputs end the global index.         *)
(***************************************************************************)
PopNeverFails ==
  pc \in {"disconnect", "rollback"} /\ Len(entries) > SplitHeight => PopSucceeds

(***************************************************************************)
(* "PANIC!!! failed to add (again) block while chain switching during the  *)
(* rollback!": the blocks that were disconnected can always be put back.   *)
(***************************************************************************)
RollbackNeverFails == ~panicked

(***************************************************************************)
(* Pushing the old blocks as alternatives does not start a reorganisation  *)
(* inside the one that is running.                                         *)
(***************************************************************************)
NoNestedSwitch == pc # "nested"

(***************************************************************************)
(* A call that does not add its block to the main chain leaves the main    *)
(* chain as it found it, however far a reorganisation got.                 *)
(***************************************************************************)
CallEnds == pc # "idle" /\ pc' = "idle"

UnlessAddedChainUnchanged ==
  [][CallEnds /\ bvc' # "added" => entries' = original]_vars

(***************************************************************************)
(* A call that changes the main chain makes it heavier, unless a           *)
(* checkpoint asked for the change.                                        *)
(***************************************************************************)
AddedMeansHeavier ==
  [][CallEnds /\ bvc' = "added" /\ ~discard =>
       Top'.cumulative_difficulty > original[Len(original)].cumulative_difficulty]_vars

(***************************************************************************)
(* Every add_new_block comes to an end, through any reorganisation.        *)
(***************************************************************************)
CallsEnd == pc # "idle" ~> pc = "idle"

(***************************************************************************)
(* The node ends up on a chain through the block b, and stays there.       *)
(***************************************************************************)
Reaches(b) == <>[](pc = "idle" => b \in DOMAIN blocks_index)

(***************************************************************************)
(* Once the main chain has reached a checkpoint, no reorganisation that    *)
(* would disconnect it is begun: not for an alternative chain that started *)
(* before the checkpoint was reached, nor for a heavier one.               *)
(***************************************************************************)
NoReorgPastCheckpoint ==
  alt_chain # <<>> =>
    \A c \in DOMAIN Checkpoints : c < Len(original) => c < SplitHeight

(***************************************************************************)
(* A transaction that the node has accepted into its pool or its chain is  *)
(* never lost from both.                                                   *)
(***************************************************************************)
TxsNeverLost ==
  [][pool \cup ChainTxs \subseteq pool' \cup ChainTxs']_vars

(***************************************************************************)
(* add_tx takes "internal error: keeped_by_block=" for impossible: all key *)
(* images of a pool transaction are in m_txin_infos under its id.          *)
(***************************************************************************)
PoolIndexed == \A t \in pool : \A k \in Images[t] : t \in txin_infos[k]

(***************************************************************************)
(* "mark this and rest of blocks depending on this as invalid": once a     *)
(* call of add_new_block is over, a block the node knows is marked invalid *)
(* if its parent is.                                                       *)
(***************************************************************************)
DependentsInvalid ==
  pc = "idle" => \A b \in blocks_by_hash \ {Genesis} : Prev[b] \in invalid => b \in invalid

(***************************************************************************)
(* "do not add blocks to invalid storage before proof of work check was    *)
(* passed": a PoW block that have_block answers for, and that is not       *)
(* covered by a checkpoint, has passed check_pow_pos.                      *)
(***************************************************************************)
StoredAfterProof ==
  \A b \in blocks_by_hash \ (PosBlocks \cup {Genesis}) :
    CheckProof(b) \/ IsInCheckpointZone(Height[b])

=============================================================================
