----------------------------- MODULE CoreProofs -----------------------------
(***************************************************************************)
(* Type correctness, three safety invariants of Core and one action        *)
(* property, for every block tree, every set of transactions and every     *)
(* choice of the other constants: the main chain is linked and indexed,    *)
(* the record of transactions is that of its blocks, no key image is spent *)
(* twice, and no step loses a transaction.                                 *)
(*                                                                         *)
(* None of the invariants is inductive alone.  Purging a block removes the *)
(* images of its transactions, which keeps spent_keys right only if those  *)
(* transactions are on record and no other one spends the same images;     *)
(* popping keeps the record right only if no two blocks of the chain share *)
(* a transaction, and no block is in the chain twice.  CallOK says how the *)
(* state of a running call relates to the chain it works on.               *)
(***************************************************************************)
EXTENDS CoreChain

(***************************************************************************)
(* A node with the genesis block alone satisfies the invariant.            *)
(***************************************************************************)
LEMMA InitIInv ==
  ASSUME Init
  PROVE  IInv
<1> DEFINE g == [hash |-> Genesis, cumulative_difficulty |-> 1]
<1>1. g \in Entry /\ Genesis \in TxIds /\ Genesis \notin Txs
  BY BlocksAssumption DEF Entry, AllBlocks, TxIds
<1>2. entries = <<g>> /\ Len(entries) = 1 /\ entries[1] = g /\ DOMAIN entries = {1}
  BY DEF Init, ChainInit
<1>3. entries \in Seq(Entry) /\ entries # <<>> /\ outputs \in Seq(TxIds)
  BY <1>1, <1>2 DEF Init, ChainInit
<1>4. <<>> \in Seq(Blocks) /\ <<>> \in Seq(Entry)
  BY EmptySeq
<1>5. TypeOK
  <2>1. PoolTypeOK
    BY DEF Init, ChainInit, PoolInit, PoolTypeOK
  <2>2. ChainTypeOK
    BY <1>1, <1>3 DEF Init, ChainInit, ChainTypeOK, AllBlocks
  <2>3. CallTypeOK
    BY <1>4 DEF Init, ChainInit, CallTypeOK, AllBlocks
  <2>4. TxTypeOK
    BY DEF Init, TxTypeOK
  <2> QED
    BY <2>1, <2>2, <2>3, <2>4 DEF TypeOK
<1>6. CallOK
  BY DEF Init, ChainInit, CallOK, InSwitch, RollingBack, Connecting
<1>7. MainChainLinked
  BY <1>2 DEF Init, ChainInit, MainChainLinked
<1>8. TransactionsOfChain
  <2>1. PartialTxs = {} /\ DOMAIN transactions = {Genesis}
    BY DEF Init, ChainInit, PartialTxs
  <2>2. ChainRecord = {Genesis}
    BY <1>2 DEF ChainRecord, Recorded, BlockTxs
  <2> QED
    BY <2>1, <2>2 DEF TransactionsOfChain
<1>9. NoSharedTxs
  BY <1>2 DEF Init, ChainInit, NoSharedTxs
<1>10. NoDoubleSpend
  <2>1. ChainTxs = {} /\ spent_keys = {}
    BY <1>1 DEF Init, ChainInit, ChainTxs
  <2> QED
    BY <2>1 DEF NoDoubleSpend
<1> QED
  BY <1>5, <1>6, <1>7, <1>8, <1>9, <1>10 DEF IInv

(***************************************************************************)
(* Every step keeps the invariant.                                         *)
(***************************************************************************)
LEMMA NextIInv ==
  ASSUME IInv, [Next]_vars
  PROVE  IInv'
  BY TypeStep, CallStep, ChainStepInv DEF IInv, ChainInv

(***************************************************************************)
(* IInv holds in every state of every behaviour of the node.               *)
(***************************************************************************)
THEOREM Inductive == Spec => []IInv
<1>1. Init => IInv
  BY InitIInv
<1>2. IInv /\ [Next]_vars => IInv'
  BY NextIInv
<1> QED
  BY <1>1, <1>2, PTL DEF Spec

(***************************************************************************)
(* The containers of blockchain_storage and of tx_memory_pool, and the     *)
(* local state of add_new_block and handle_incoming_tx, keep their types.  *)
(***************************************************************************)
THEOREM TypeCorrect == Spec => []TypeOK
<1>1. IInv => TypeOK
  BY DEF IInv
<1> QED
  BY <1>1, Inductive, PTL

(***************************************************************************)
(* Whatever add_new_block connects, pops, reorganises or rolls back, at    *)
(* every step of it no key image is spent by two transactions of the chain *)
(* and m_spent_keys is exactly what they spend.                            *)
(***************************************************************************)
THEOREM NoDoubleSpends == Spec => []NoDoubleSpend
<1>1. IInv => NoDoubleSpend
  BY DEF IInv
<1> QED
  BY <1>1, Inductive, PTL

(***************************************************************************)
(* m_transactions is at every step the transactions of the blocks of the   *)
(* main chain and of what has been processed of the block being connected. *)
(***************************************************************************)
THEOREM RecordIsChain == Spec => []TransactionsOfChain
<1>1. IInv => TransactionsOfChain
  BY DEF IInv
<1> QED
  BY <1>1, Inductive, PTL

(***************************************************************************)
(* The main chain is linked by prev_id from the genesis block on, carries  *)
(* the sums of the difficulties, and m_blocks_index is its inverse.        *)
(***************************************************************************)
THEOREM ChainIsLinked == Spec => []MainChainLinked
<1>1. IInv => MainChainLinked
  BY DEF IInv
<1> QED
  BY <1>1, Inductive, PTL

(***************************************************************************)
(* A purge puts into the pool what it takes off the record.                *)
(***************************************************************************)
LEMMA PurgeKeeps ==
  ASSUME NEW b, b \notin Txs, NEW n, NEW taken, PurgeBlockData(b, n, taken)
  PROVE  pool \cup ChainTxs \subseteq pool' \cup ChainTxs'
  BY DEF PurgeBlockData, KeepByBlock, ChainTxs, Erase, Restrict

(***************************************************************************)
(* So does popping the top block.                                          *)
(***************************************************************************)
LEMMA PopKeeps ==
  ASSUME IInv, PopBlock
  PROVE  pool \cup ChainTxs \subseteq pool' \cup ChainTxs'
<1>1. CASE ~PopSucceeds
  BY <1>1 DEF PopBlock, chainVars, poolVars, ChainTxs
<1>2. CASE PopSucceeds
  <2>1. Top.hash \notin Txs
    BY EntriesFacts, BlocksAssumption DEF IInv, TypeOK, Entry
  <2>2. PurgeBlockData(Top.hash, Len(TxHashes[Top.hash]), {})
    BY <1>2 DEF PopBlock
  <2> QED
    BY <2>1, <2>2, PurgeKeeps
<1> QED
  BY <1>1, <1>2

(***************************************************************************)
(* No step of a block being refused, of a reorganisation or of a rollback  *)
(* loses a transaction that is in the pool or in the chain.                *)
(***************************************************************************)
THEOREM TxsAreKept == Spec => TxsNeverLost
<1>1. ASSUME IInv, [Next]_vars
      PROVE  [pool \cup ChainTxs \subseteq pool' \cup ChainTxs']_vars
  <2>1. cur \in AllBlocks /\ cur \notin Txs
    BY <1>1, BlocksAssumption DEF IInv, TypeOK, CallTypeOK
  <2>2. CASE BeginMainBlock
    BY <2>2 DEF BeginMainBlock, ChainTxs, Put, poolVars
  <2>3. CASE AddTransaction
    <3>1. NextTx \in Txs
      <4>1. cur \in Blocks /\ ntx \in Nat /\ ntx < Len(TxHashes[cur])
        BY <1>1, <2>3 DEF AddTransaction, IInv, TypeOK, CallTypeOK
      <4> QED
        BY <4>1, ProcessedFacts DEF NextTx
    <3> QED
      BY <2>3, <3>1 DEF AddTransaction, TakeTx, ChainTxs, Put
  <2>4. CASE RefuseTransaction
    BY <2>1, <2>4, PurgeKeeps DEF RefuseTransaction
  <2>5. CASE FinishMainBlock
    <3>1. CASE cur \in BadReward
      BY <2>1, <2>5, <3>1, PurgeKeeps DEF FinishMainBlock
    <3>2. CASE cur \notin BadReward
      BY <2>5, <3>2 DEF FinishMainBlock, ChainTxs, poolVars
    <3> QED
      BY <3>1, <3>2
  <2>6. CASE DisconnectBlock \/ RollbackPop
    BY <1>1, <2>6, PopKeeps DEF DisconnectBlock, RollbackPop
  <2>7. CASE TxInsert
    BY <2>7 DEF TxInsert, InsertTx, ChainTxs, chainVars
  <2>8. CASE \/ BeginAlternativeBlock \/ WalkBack \/ RefuseAlternative \/ AcceptAlternative
             \/ ConnectNextBlock \/ ConnectReturned \/ PushOldBlock \/ PushReturned \/ FinishSwitch
             \/ RestoreOldBlock \/ RollbackReturned \/ RollbackDone
             \/ \E b \in Blocks : HandleIncomingBlock(b)
    <3>1. UNCHANGED <<pool, transactions>>
      BY <2>8 DEF BeginAlternativeBlock, WalkBack, RefuseAlternative, AcceptAlternative,
            ConnectNextBlock, ConnectReturned, PushOldBlock, PushReturned, FinishSwitch,
            RestoreOldBlock, RollbackReturned, RollbackDone, HandleIncomingBlock, AddNewBlock,
            chainVars, poolVars
    <3> QED
      BY <3>1 DEF ChainTxs
  <2>9. CASE (IncomingTxStep /\ ~TxInsert) \/ EnvironmentStep \/ UNCHANGED vars
    <3>1. UNCHANGED <<pool, transactions>>
      BY <2>9 DEF IncomingTxStep, HandleIncomingTx, TxNotInChain, TxCanAdd, TxValidate,
            EnvironmentStep, LonghashArrives, TimePasses, vars, chainVars, poolVars
    <3> QED
      BY <3>1 DEF ChainTxs
  <2> QED
    BY <1>1, <2>2, <2>3, <2>4, <2>5, <2>6, <2>7, <2>8, <2>9
       DEF Next, ChainStep, IncomingTxStep, EnvironmentStep
<1>2. IInv /\ [Next]_vars => [pool \cup ChainTxs \subseteq pool' \cup ChainTxs']_vars
  BY <1>1
<1> QED
  BY <1>2, Inductive, PTL DEF Spec, TxsNeverLost

=============================================================================
