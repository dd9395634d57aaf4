----------------------------- MODULE Blockchain -----------------------------
(***************************************************************************)
(* blockchain_storage (cryptonote_core/blockchain_storage.cpp): the main   *)
(* chain with its indexes, the alternative chains, and the calls that move *)
(* blocks between them: add_new_block, handle_block_to_main_chain,         *)
(* handle_alternative_block, switch_to_alternative_blockchain,             *)
(* rollback_blockchain_switching and pop_block_from_blockchain.            *)
(*                                                                         *)
(* add_new_block holds the pool lock and m_blockchain_lock from start to   *)
(* end.  The loops inside it are steps of this module, and pc says where   *)
(* the call is; no other thread can act on the chain until pc is "idle".   *)
(*                                                                         *)
(* A block is an element of Blocks.  Whatever a check reads from a block   *)
(* and its ancestors alone is a constant; whatever depends on the node     *)
(* (spent keys, the output index, the pool, the clock, known long hashes)  *)
(* is state.  A block's coinbase transaction is identified by the block.   *)
(* Every transaction has one output, all of one coin type and amount.      *)
(***************************************************************************)
EXTENDS TxPool

CONSTANTS
  Genesis,       \* the genesis block
  Blocks,        \* the other blocks
  Prev,          \* prev_id
  Height,        \* the height in the coinbase input (get_block_height)
  Difficulty,    \* the difficulty the block is held to
  TxHashes,      \* tx_hashes
  PosBlocks,     \* blocks with is_pos_block
  BadTimestamp,  \* blocks that fail check_block_timestamp after their parent
  BadProof,      \* blocks whose long hash is above the target, or signed by
                 \* the wrong delegate
  BadReward,     \* blocks that fail validate_miner_transaction
  Source,        \* Source[k]: the transaction whose output has key image k
  Offset,        \* Offset[t][k]: the global index t gives for that output
  UnlockWindow,  \* CRYPTONOTE_MINED_MONEY_UNLOCK_WINDOW
  DposSwitch,    \* config::dpos_switch_block
  Checkpoints    \* m_points: height -> block

AllBlocks == Blocks \cup {Genesis}
TxIds == Txs \cup AllBlocks

ASSUME BlocksAssumption ==
  /\ Genesis \notin Blocks
  /\ Txs \cap AllBlocks = {}
  /\ Prev \in [Blocks -> AllBlocks]
  /\ Height \in [Blocks -> Nat]
  /\ Difficulty \in [Blocks -> Nat \ {0}]
  /\ TxHashes \in [Blocks -> Seq(Txs)]

ASSUME InputsAssumption ==
  /\ Source \in [KeyImages -> TxIds]
  /\ Offset \in [Txs -> [KeyImages -> Nat \ {0}]]
  /\ UnlockWindow \in Nat
  /\ DOMAIN Checkpoints \subseteq Nat

VARIABLES
  entries,         \* m_pblockchain_entries; the block of height h is entries[h + 1]
  blocks_by_hash,  \* ids in m_blocks_by_hash
  blocks_index,    \* m_blocks_index: block -> height
  transactions,    \* m_transactions: transaction -> keeper block height
  spent_keys,      \* m_spent_keys
  outputs,         \* m_outputs: global index -> transaction
  alternative,     \* m_alternative_chain_entries: block -> height, difficulty
  invalid,         \* ids in m_invalid_block_entries
  longhashes,      \* PoW blocks whose long hash this node can obtain
  mature           \* blocks whose timestamp is within the future limit by now

chainVars == <<entries, blocks_by_hash, blocks_index, transactions, spent_keys,
               outputs, alternative, invalid>>

VARIABLES
  pc,            \* where the running add_new_block is
  caller,        \* who called the function that pc is in
  cur,           \* its block
  ntx,           \* tx_processed_count
  path,          \* alt_chain as handle_alternative_block builds it
  alt_chain,     \* alt_chain of switch_to_alternative_blockchain
  connected,     \* how many blocks of alt_chain are in the main chain
  discard,       \* discard_disconnected_chain
  disconnected,  \* disconnected_chain
  kth,           \* position in disconnected
  rollback_for,  \* the failure that rollback_blockchain_switching answers
  original,      \* history: the main chain when the running call began
  bvc,           \* outcome of the last call
  panicked       \* a PANIC assertion of rollback_blockchain_switching failed

callVars == <<caller, cur, ntx, path, alt_chain, connected, discard,
              disconnected, kth, rollback_for, original>>
environment == <<longhashes, mature>>

-----------------------------------------------------------------------------

Put(f, x, v) == [y \in DOMAIN f \cup {x} |-> IF y = x THEN v ELSE f[y]]
Erase(f, S) == Restrict(f, DOMAIN f \ S)

ChainHeight == Len(entries)              \* get_current_blockchain_height
Top == entries[Len(entries)]
SplitHeight == alternative[alt_chain[1]].height

\* Mutant: alternative blocks are allowed below a checkpoint that was reached.
IsAlternativeBlockAllowed_Below(h) == h # 0

IsInCheckpointZone(h) == \E c \in DOMAIN Checkpoints : h <= c
IsCheckpoint(h) == h \in DOMAIN Checkpoints
CheckpointAccepts(h, b) == IsCheckpoint(h) => Checkpoints[h] = b
IsAlternativeBlockAllowed(h) ==
  h # 0 /\ \A c \in DOMAIN Checkpoints : c <= ChainHeight - 1 => c < h

CheckBlockType(b) == (b \in PosBlocks) <=> (Height[b] >= DposSwitch)
CheckProof(b) == b \notin BadProof /\ (b \in PosBlocks \/ b \in longhashes)

\* Mutant of ValidateTx: have_tx_keyimg_as_spent is not asked.
ValidateTx_SpentAllowed(t) ==
  \A k \in Images[t] :
    Offset[t][k] <= Len(outputs) /\ outputs[Offset[t][k]] = Source[k]

(***************************************************************************)
(* validate_tx, in the parts that depend on the chain: every key image is  *)
(* unspent, the global index names the output that was signed for (so that *)
(* the ring signature verifies), and that output is unlocked.              *)
(***************************************************************************)
IsUnlocked(s) == s \in AllBlocks => ChainHeight >= transactions[s] + UnlockWindow

ValidateTx(t) ==
  \A k \in Images[t] :
    /\ k \notin spent_keys
    /\ Offset[t][k] <= Len(outputs)
    /\ outputs[Offset[t][k]] = Source[k]
    /\ IsUnlocked(Source[k])

(***************************************************************************)
(* Frames.  A function called by add_new_block itself ends the call; one   *)
(* called from a reorganisation returns to it.                             *)
(***************************************************************************)
Finish(v) ==
  /\ pc' = "idle"
  /\ bvc' = v
  /\ caller' = "add_new_block"
  /\ cur' = Genesis
  /\ ntx' = 0
  /\ path' = <<>>
  /\ alt_chain' = <<>>
  /\ connected' = 0
  /\ discard' = FALSE
  /\ disconnected' = <<>>
  /\ kth' = 0
  /\ rollback_for' = "none"
  /\ original' = <<>>

ReturnWith(v) ==
  IF caller = "add_new_block"
  THEN Finish(v)
  ELSE pc' = "returned" /\ bvc' = v /\ UNCHANGED callVars

Call(function, who, b) ==
  /\ pc' = function
  /\ caller' = who
  /\ cur' = b
  /\ UNCHANGED <<ntx, path, alt_chain, connected, discard, disconnected, kth,
                 rollback_for, original, bvc>>

-----------------------------------------------------------------------------
(* Purging and popping. *)

ProcessedTxs(b, n) == {TxHashes[b][i] : i \in 1..n}

\* Mutants of PurgeBlockData: the coinbase stays on record, and its output
\* stays in the global index.
PurgeBlockData_CoinbaseKept(b, n, taken) ==
  /\ spent_keys' = spent_keys \ UNION {Images[t] : t \in ProcessedTxs(b, n)}
  /\ transactions' = Erase(transactions, ProcessedTxs(b, n))
  /\ outputs' = SubSeq(outputs, 1, Len(outputs) - (n + 1))
  /\ KeepByBlock(ProcessedTxs(b, n), taken)

PurgeBlockData_OutputKept(b, n, taken) ==
  /\ spent_keys' = spent_keys \ UNION {Images[t] : t \in ProcessedTxs(b, n)}
  /\ transactions' = Erase(transactions, ProcessedTxs(b, n) \cup {b})
  /\ outputs' = SubSeq(outputs, 1, Len(outputs) - n)
  /\ KeepByBlock(ProcessedTxs(b, n), taken)

(***************************************************************************)
(* purge_block_data_from_blockchain: the first n transactions of b, last   *)
(* one first, and then its coinbase leave the chain; all but the coinbase  *)
(* go back to the pool.  taken is what take_tx took from the pool in the   *)
(* same step and add_tx puts back with them.  PurgeSucceeds is its result: *)
(* each transaction is on record, its images are spent, and its output is  *)
(* the last of the global index when its turn comes.                       *)
(***************************************************************************)
PurgeBlockData(b, n, taken) ==
  LET txs == ProcessedTxs(b, n)
  IN  /\ spent_keys' = spent_keys \ UNION {Images[t] : t \in txs}
      /\ transactions' = Erase(transactions, txs \cup {b})
      /\ outputs' = SubSeq(outputs, 1, Len(outputs) - (n + 1))
      /\ KeepByBlock(txs, taken)

PurgeSucceeds(b, n) ==
  /\ ProcessedTxs(b, n) \cup {b} \subseteq DOMAIN transactions
  /\ \A t \in ProcessedTxs(b, n) : Images[t] \subseteq spent_keys
  /\ Len(outputs) >= n + 1
  /\ SubSeq(outputs, Len(outputs) - n, Len(outputs)) = <<b>> \o SubSeq(TxHashes[b], 1, n)

(***************************************************************************)
(* pop_block_from_blockchain.  The block stays in m_blocks_by_hash.  How   *)
(* far a purge that fails has got is left out: PopNeverFails says that     *)
(* none does.                                                              *)
(***************************************************************************)
PopSucceeds ==
  /\ Len(entries) > 1
  /\ PurgeSucceeds(Top.hash, Len(TxHashes[Top.hash]))
  /\ Top.hash \in DOMAIN blocks_index

\* Mutant of PopBlock: m_blocks_index keeps the block.
PopBlock_Indexed ==
  /\ PurgeBlockData(Top.hash, Len(TxHashes[Top.hash]), {})
  /\ entries' = SubSeq(entries, 1, Len(entries) - 1)
  /\ UNCHANGED <<blocks_by_hash, blocks_index, alternative, invalid>>

PopBlock ==
  IF PopSucceeds
  THEN /\ PurgeBlockData(Top.hash, Len(TxHashes[Top.hash]), {})
       /\ blocks_index' = Erase(blocks_index, {Top.hash})
       /\ entries' = SubSeq(entries, 1, Len(entries) - 1)
       /\ UNCHANGED <<blocks_by_hash, alternative, invalid>>
  ELSE UNCHANGED <<chainVars, poolVars>>

-----------------------------------------------------------------------------
(* handle_block_to_main_chain. *)

(***************************************************************************)
(* The checks before the block's data is touched, in the order of the      *)
(* code, and the outcome when one of them fails.                           *)
(***************************************************************************)
ProofOrCheckpoint(b) ==
  IF IsInCheckpointZone(ChainHeight) THEN CheckpointAccepts(ChainHeight, b) ELSE CheckProof(b)

HeaderAccepted(b) ==
  /\ Prev[b] = Top.hash
  /\ b \in mature
  /\ b \notin BadTimestamp
  /\ CheckBlockType(b)
  /\ ProofOrCheckpoint(b)
  /\ Height[b] = ChainHeight

MissingLonghash(b) == b \notin PosBlocks /\ b \notin longhashes

HeaderRefusal(b) ==
  CASE Prev[b] # Top.hash -> "rejected"
    [] /\ Prev[b] = Top.hash
       /\ b \in mature /\ b \notin BadTimestamp /\ CheckBlockType(b)
       /\ ~IsInCheckpointZone(ChainHeight) /\ MissingLonghash(b) -> "missing_longhash"
    [] OTHER -> "failed"

(***************************************************************************)
(* The header is checked and the coinbase transaction added.               *)
(***************************************************************************)
BeginMainBlock ==
  /\ pc = "main"
  /\ IF HeaderAccepted(cur)
     THEN /\ transactions' = Put(transactions, cur, ChainHeight)
          /\ outputs' = Append(outputs, cur)
          /\ pc' = "txs"
          /\ ntx' = 0
          /\ UNCHANGED <<caller, cur, path, alt_chain, connected, discard,
                         disconnected, kth, rollback_for, original, bvc>>
     ELSE ReturnWith(HeaderRefusal(cur)) /\ UNCHANGED <<transactions, outputs>>
  /\ UNCHANGED <<entries, blocks_by_hash, blocks_index, spent_keys, alternative,
                 invalid, poolVars, environment, panicked>>

(***************************************************************************)
(* One transaction of the block: taken from the pool, validated, added.    *)
(***************************************************************************)
NextTx == TxHashes[cur][ntx + 1]
TxAcceptable(t) == t \in pool /\ ValidateTx(t) /\ t \notin DOMAIN transactions

AddTransaction ==
  /\ pc = "txs"
  /\ ntx < Len(TxHashes[cur])
  /\ TxAcceptable(NextTx)
  /\ TakeTx(NextTx)
  /\ spent_keys' = spent_keys \cup Images[NextTx]
  /\ outputs' = Append(outputs, NextTx)
  /\ transactions' = Put(transactions, NextTx, ChainHeight)
  /\ ntx' = ntx + 1
  /\ UNCHANGED <<entries, blocks_by_hash, blocks_index, alternative, invalid,
                 environment, pc, caller, cur, path, alt_chain, connected,
                 discard, disconnected, kth, rollback_for, original, bvc, panicked>>

(***************************************************************************)
(* A transaction that the pool does not have, that is invalid, or that is  *)
(* in the chain already: what was processed of the block is purged.  Only  *)
(* an invalid transaction brands the block.                                *)
(***************************************************************************)
RefuseTransaction ==
  /\ pc = "txs"
  /\ ntx < Len(TxHashes[cur])
  /\ ~TxAcceptable(NextTx)
  /\ PurgeBlockData(cur, ntx, pool \cap {NextTx})
  /\ LET branded == IF NextTx \in pool /\ ~ValidateTx(NextTx) THEN {cur} ELSE {}
     IN  /\ invalid' = invalid \cup branded
         /\ blocks_by_hash' = blocks_by_hash \cup branded
  /\ ReturnWith("failed")
  /\ UNCHANGED <<entries, blocks_index, alternative, environment, panicked>>

(***************************************************************************)
(* All transactions are in: the coinbase amount is checked and the block   *)
(* becomes the top of the main chain.                                      *)
(***************************************************************************)
FinishMainBlock ==
  /\ pc = "txs"
  /\ ntx = Len(TxHashes[cur])
  /\ IF cur \in BadReward
     THEN /\ PurgeBlockData(cur, ntx, {})
          /\ ReturnWith("failed")
          /\ UNCHANGED <<entries, blocks_by_hash, blocks_index>>
     ELSE /\ blocks_by_hash' = blocks_by_hash \cup {cur}
          /\ blocks_index' = Put(blocks_index, cur, ChainHeight)
          /\ entries' = Append(entries,
                [hash |-> cur,
                 cumulative_difficulty |-> Top.cumulative_difficulty + Difficulty[cur]])
          /\ ReturnWith("added")
          /\ UNCHANGED <<transactions, spent_keys, outputs, poolVars>>
  /\ UNCHANGED <<alternative, invalid, environment, panicked>>

-----------------------------------------------------------------------------
(* handle_alternative_block. *)

BeginAlternativeBlock ==
  /\ pc = "alternative"
  /\ IF ~IsAlternativeBlockAllowed(Height[cur])
     THEN ReturnWith("failed")
     ELSE IF Prev[cur] \notin DOMAIN alternative \cup DOMAIN blocks_index
     THEN ReturnWith("orphaned")
     ELSE /\ pc' = "walk"
          /\ path' = <<>>
          /\ UNCHANGED <<caller, cur, ntx, alt_chain, connected, discard,
                         disconnected, kth, rollback_for, original, bvc>>
  /\ UNCHANGED <<chainVars, poolVars, environment, panicked>>

(***************************************************************************)
(* The loop that follows prev_id back through the alternative entries.     *)
(***************************************************************************)
PathParent == Prev[IF path = <<>> THEN cur ELSE path[1]]

WalkBack ==
  /\ pc = "walk"
  /\ PathParent \in DOMAIN alternative
  /\ path' = <<PathParent>> \o path
  /\ UNCHANGED <<chainVars, poolVars, environment, pc, caller, cur, ntx, alt_chain,
                 connected, discard, disconnected, kth, rollback_for, original, bvc, panicked>>

(***************************************************************************)
(* The parent's height and cumulative difficulty, and the entry for cur.   *)
(***************************************************************************)
ParentEntry ==
  IF path = <<>>
  THEN [height |-> blocks_index[Prev[cur]],
        cumulative_difficulty |-> entries[blocks_index[Prev[cur]] + 1].cumulative_difficulty]
  ELSE alternative[Prev[cur]]

NewEntry ==
  [height |-> ParentEntry.height + 1,
   cumulative_difficulty |-> ParentEntry.cumulative_difficulty + Difficulty[cur]]

(***************************************************************************)
(* The checks.  The block enters m_blocks_by_hash once the first two have  *)
(* passed, before the others are tried; a PoS block's signer is not        *)
(* checked at all.                                                         *)
(***************************************************************************)
PathMeetsMainChain ==
  path # <<>> =>
    LET front == alternative[path[1]]
    IN  Len(entries) > front.height /\ entries[front.height].hash = PathParent

StoredAsAlternative == PathMeetsMainChain /\ cur \notin BadTimestamp

AlternativeAccepted ==
  /\ StoredAsAlternative
  /\ CheckpointAccepts(NewEntry.height, cur)
  /\ CheckBlockType(cur)
  /\ cur \in PosBlocks \/ CheckProof(cur)
  /\ Height[cur] = NewEntry.height
  /\ cur \notin DOMAIN alternative

AlternativeRefusal ==
  CASE ~PathMeetsMainChain -> "rejected"
    [] /\ StoredAsAlternative /\ CheckpointAccepts(NewEntry.height, cur)
       /\ CheckBlockType(cur) /\ MissingLonghash(cur) -> "missing_longhash"
    [] OTHER -> "failed"

RefuseAlternative ==
  /\ pc = "walk"
  /\ PathParent \notin DOMAIN alternative
  /\ ~AlternativeAccepted
  /\ blocks_by_hash' = IF StoredAsAlternative THEN blocks_by_hash \cup {cur} ELSE blocks_by_hash
  /\ ReturnWith(AlternativeRefusal)
  /\ UNCHANGED <<entries, blocks_index, transactions, spent_keys, outputs,
                 alternative, invalid, poolVars, environment, panicked>>

\* Mutants of StartsSwitch and DiscardsOldChain: the longest chain wins; equal
\* work is enough; more work has to be more by two; the old chain is kept.
StartsSwitch_OnLength ==
  \/ IsCheckpoint(NewEntry.height)
  \/ ChainHeight - 1 < NewEntry.height

StartsSwitch_OnEqualWork ==
  \/ IsCheckpoint(NewEntry.height)
  \/ Top.cumulative_difficulty <= NewEntry.cumulative_difficulty

StartsSwitch_Reluctant ==
  \/ IsCheckpoint(NewEntry.height)
  \/ Top.cumulative_difficulty + 1 < NewEntry.cumulative_difficulty

DiscardsOldChain_Never == FALSE

(***************************************************************************)
(* The block becomes an alternative entry.  A checkpoint, or more work     *)
(* than the main chain has, starts a reorganisation.                       *)
(***************************************************************************)
StartsSwitch ==
  \/ IsCheckpoint(NewEntry.height)
  \/ Top.cumulative_difficulty < NewEntry.cumulative_difficulty

DiscardsOldChain == IsCheckpoint(NewEntry.height)

AcceptAlternative ==
  /\ pc = "walk"
  /\ PathParent \notin DOMAIN alternative
  /\ AlternativeAccepted
  /\ blocks_by_hash' = blocks_by_hash \cup {cur}
  /\ alternative' = Put(alternative, cur, NewEntry)
  /\ IF ~StartsSwitch
     THEN ReturnWith("alternative")
     ELSE /\ pc' = IF caller = "push" THEN "nested" ELSE "disconnect"
          /\ alt_chain' = Append(path, cur)
          /\ discard' = DiscardsOldChain
          /\ UNCHANGED <<caller, cur, ntx, path, connected, disconnected, kth,
                         rollback_for, original, bvc>>
  /\ UNCHANGED <<entries, blocks_index, transactions, spent_keys, outputs, invalid,
                 poolVars, environment, panicked>>

-----------------------------------------------------------------------------
(* switch_to_alternative_blockchain. *)

\* Mutant of DisconnectBlock: the popped blocks are listed top first.
DisconnectBlock_TopFirst ==
  /\ pc = "disconnect"
  /\ Len(entries) > SplitHeight
  /\ PopBlock
  /\ disconnected' = Append(disconnected, Top.hash)
  /\ UNCHANGED <<pc, caller, cur, ntx, path, alt_chain, connected, discard, kth,
                 rollback_for, original, bvc, environment, panicked>>

(***************************************************************************)
(* Pop main-chain blocks down to the split, remembering them.  A failed    *)
(* pop abandons the reorganisation where it is.                            *)
(***************************************************************************)
DisconnectBlock ==
  /\ pc = "disconnect"
  /\ Len(entries) > SplitHeight
  /\ PopBlock
  /\ IF PopSucceeds
     THEN /\ disconnected' = <<Top.hash>> \o disconnected
          /\ UNCHANGED <<pc, caller, cur, ntx, path, alt_chain, connected, discard,
                         kth, rollback_for, original, bvc>>
     ELSE Finish("failed")
  /\ UNCHANGED <<environment, panicked>>

ConnectNextBlock ==
  /\ \/ pc = "disconnect" /\ Len(entries) <= SplitHeight
     \/ pc = "connect"
  /\ Call("main", "connect", alt_chain[connected + 1])
  /\ UNCHANGED <<chainVars, poolVars, environment, panicked>>

\* Mutant of ConnectReturned: a block that fails is tried again.
ConnectReturned_Retried ==
  /\ pc = "returned"
  /\ caller = "connect"
  /\ connected' = IF bvc = "added" THEN connected + 1 ELSE connected
  /\ pc' = IF connected' < Len(alt_chain) THEN "connect" ELSE "push"
  /\ kth' = 1
  /\ UNCHANGED <<chainVars, poolVars, environment, caller, cur, ntx, path, alt_chain,
                 discard, disconnected, rollback_for, original, bvc, panicked>>

ConnectReturned ==
  /\ pc = "returned"
  /\ caller = "connect"
  /\ IF bvc = "added"
     THEN /\ connected' = connected + 1
          /\ pc' = IF connected + 1 < Len(alt_chain) THEN "connect" ELSE "push"
          /\ UNCHANGED rollback_for
     ELSE /\ pc' = "rollback"
          /\ rollback_for' = "connect"
          /\ UNCHANGED connected
  /\ kth' = 1
  /\ UNCHANGED <<chainVars, poolVars, environment, caller, cur, ntx, path, alt_chain,
                 discard, disconnected, original, bvc, panicked>>

(***************************************************************************)
(* The old blocks become alternatives, one call of                         *)
(* handle_alternative_block each, unless they are to be discarded.         *)
(***************************************************************************)
PushOldBlock ==
  /\ pc = "push"
  /\ ~discard
  /\ kth <= Len(disconnected)
  /\ Call("alternative", "push", disconnected[kth])
  /\ UNCHANGED <<chainVars, poolVars, environment, panicked>>

PushReturned ==
  /\ pc = "returned"
  /\ caller = "push"
  /\ IF bvc \in {"alternative", "orphaned"}
     THEN pc' = "push" /\ kth' = kth + 1 /\ UNCHANGED rollback_for
     ELSE pc' = "rollback" /\ rollback_for' = "push" /\ kth' = 1
  /\ UNCHANGED <<chainVars, poolVars, environment, caller, cur, ntx, path, alt_chain,
                 connected, discard, disconnected, original, bvc, panicked>>

\* Mutant of FinishSwitch: the connected blocks stay alternative.
FinishSwitch_EntriesKept ==
  /\ pc = "push"
  /\ discard \/ kth > Len(disconnected)
  /\ Finish("added")
  /\ UNCHANGED <<chainVars, poolVars, environment, panicked>>

FinishSwitch ==
  /\ pc = "push"
  /\ discard \/ kth > Len(disconnected)
  /\ alternative' = Erase(alternative, Range(alt_chain))
  /\ Finish("added")
  /\ UNCHANGED <<entries, blocks_by_hash, blocks_index, transactions, spent_keys,
                 outputs, invalid, poolVars, environment, panicked>>

-----------------------------------------------------------------------------
(* rollback_blockchain_switching, and what its caller does after it. *)

(***************************************************************************)
(* After a failed connection the failing block is branded (the loop that   *)
(* should brand the blocks after it too uses the same block each time) and *)
(* it and all blocks after it leave the alternative entries.  The caller   *)
(* does not look at the result of the rollback.                            *)
(***************************************************************************)
AbandonSwitch ==
  /\ IF rollback_for = "connect"
     THEN /\ invalid' = invalid \cup {alt_chain[connected + 1]}
          /\ alternative' = Erase(alternative,
                {alt_chain[i] : i \in (connected + 1)..Len(alt_chain)})
     ELSE UNCHANGED <<invalid, alternative>>
  /\ Finish("failed")

RollbackPop ==
  /\ pc = "rollback"
  /\ Len(entries) > SplitHeight
  /\ PopBlock
  /\ UNCHANGED <<callVars, bvc, environment>>
  /\ IF PopSucceeds
     THEN UNCHANGED <<pc, panicked>>
     ELSE pc' = "abandon" /\ panicked' = TRUE

RestoreOldBlock ==
  /\ \/ pc = "rollback" /\ Len(entries) <= SplitHeight
     \/ pc = "restore"
  /\ IF kth <= Len(disconnected)
     THEN pc' = "main" /\ caller' = "rollback" /\ cur' = disconnected[kth]
     ELSE pc' = "abandon" /\ UNCHANGED <<caller, cur>>
  /\ UNCHANGED <<chainVars, poolVars, environment, ntx, path, alt_chain, connected,
                 discard, disconnected, kth, rollback_for, original, bvc, panicked>>

RollbackReturned ==
  /\ pc = "returned"
  /\ caller = "rollback"
  /\ IF bvc = "added"
     THEN pc' = "restore" /\ kth' = kth + 1 /\ UNCHANGED panicked
     ELSE pc' = "abandon" /\ panicked' = TRUE /\ UNCHANGED kth
  /\ UNCHANGED <<chainVars, poolVars, environment, caller, cur, ntx, path, alt_chain,
                 connected, discard, disconnected, rollback_for, original, bvc>>

RollbackDone ==
  /\ pc = "abandon"
  /\ AbandonSwitch
  /\ UNCHANGED <<entries, blocks_by_hash, blocks_index, transactions, spent_keys,
                 outputs, poolVars, environment, panicked>>

-----------------------------------------------------------------------------

(***************************************************************************)
(* add_new_block, with both locks taken.                                   *)
(***************************************************************************)
AddNewBlock(b) ==
  /\ pc = "idle"
  /\ IF b \in blocks_by_hash
     THEN bvc' = "already_exists" /\ UNCHANGED <<pc, cur, original>>
     ELSE /\ pc' = IF Prev[b] = Top.hash THEN "main" ELSE "alternative"
          /\ cur' = b
          /\ original' = entries
          /\ bvc' = "none"
  /\ UNCHANGED <<chainVars, poolVars, environment, caller, ntx, path, alt_chain,
                 connected, discard, disconnected, kth, rollback_for, panicked>>

(***************************************************************************)
(* The environment: a long hash arrives in the signed-hash cache, and time *)
(* passes the point where a block's timestamp is no longer in the future.  *)
(***************************************************************************)
LonghashArrives(b) ==
  /\ b \notin longhashes
  /\ longhashes' = longhashes \cup {b}
  /\ UNCHANGED <<mature, chainVars, poolVars, pc, callVars, bvc, panicked>>

TimePasses(b) ==
  /\ b \notin mature
  /\ mature' = mature \cup {b}
  /\ UNCHANGED <<longhashes, chainVars, poolVars, pc, callVars, bvc, panicked>>

(***************************************************************************)
(* The steps of a running add_new_block; at most one is enabled.           *)
(***************************************************************************)
ChainStep ==
  \/ BeginMainBlock \/ AddTransaction \/ RefuseTransaction \/ FinishMainBlock
  \/ BeginAlternativeBlock \/ WalkBack \/ RefuseAlternative \/ AcceptAlternative
  \/ DisconnectBlock \/ ConnectNextBlock \/ ConnectReturned
  \/ PushOldBlock \/ PushReturned \/ FinishSwitch
  \/ RollbackPop \/ RestoreOldBlock \/ RollbackReturned \/ RollbackDone

(***************************************************************************)
(* A node that has only the genesis block.                                 *)
(***************************************************************************)
ChainInit ==
  /\ PoolInit
  /\ entries = <<[hash |-> Genesis, cumulative_difficulty |-> 1]>>
  /\ blocks_by_hash = {Genesis}
  /\ blocks_index = [b \in {Genesis} |-> 0]
  /\ transactions = [b \in {Genesis} |-> 0]
  /\ spent_keys = {}
  /\ outputs = <<Genesis>>
  /\ alternative = [b \in {} |-> 0]
  /\ invalid = {}
  /\ pc = "idle"
  /\ caller = "add_new_block"
  /\ cur = Genesis
  /\ ntx = 0
  /\ path = <<>>
  /\ alt_chain = <<>>
  /\ connected = 0
  /\ discard = FALSE
  /\ disconnected = <<>>
  /\ kth = 0
  /\ rollback_for = "none"
  /\ original = <<>>
  /\ bvc = "none"
  /\ panicked = FALSE

=============================================================================
