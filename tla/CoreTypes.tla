----------------------------- MODULE CoreTypes ------------------------------
(***************************************************************************)
(* The inductive invariant of Core, and the proof that every step of the   *)
(* node keeps the types of its state.                                      *)
(***************************************************************************)
EXTENDS Core, SequenceTheorems, TLAPS

(***************************************************************************)
(* add_new_block has called switch_to_alternative_blockchain.              *)
(***************************************************************************)
InSwitch ==
  \/ pc \in {"disconnect", "connect", "push", "rollback", "restore", "abandon", "nested"}
  \/ pc # "idle" /\ caller # "add_new_block"

RollingBack ==
  \/ pc \in {"rollback", "restore", "abandon"}
  \/ caller = "rollback" /\ pc \in {"main", "txs", "returned"}

Connecting ==
  \/ pc \in {"disconnect", "connect"}
  \/ caller = "connect" /\ pc \in {"main", "txs", "returned"}
  \/ rollback_for = "connect"

CallOK ==
  /\ pc = "idle" => caller = "add_new_block"
  /\ pc = "returned" => caller # "add_new_block"
  /\ pc \in {"alternative", "walk"} => caller \in {"add_new_block", "push"}
  /\ ~InSwitch => connected = 0
  /\ ~RollingBack => rollback_for = "none"
  /\ pc = "disconnect" => connected = 0
  /\ pc = "txs" => /\ ntx <= Len(TxHashes[cur])
                   /\ Prev[cur] = Top.hash
                   /\ Height[cur] = Len(entries)
  /\ pc = "walk" => /\ Prev[cur] \in DOMAIN alternative \cup DOMAIN blocks_index
                    /\ \A i \in 1..Len(path) : path[i] \in DOMAIN alternative
                    /\ path # <<>> => path[Len(path)] = Prev[cur]
  /\ InSwitch => alt_chain # <<>> /\ alt_chain[1] \in DOMAIN alternative
  /\ Connecting => connected < Len(alt_chain)
  /\ pc \in {"push", "rollback", "restore"} \/ caller \in {"push", "rollback"} => kth >= 1

(***************************************************************************)
(* No transaction is in two blocks of the main chain, or in one of them    *)
(* and in the part of the current block that has been processed.           *)
(***************************************************************************)
NoSharedTxs ==
  /\ \A i, j \in 2..Len(entries) :
       i # j => Range(TxHashes[entries[i].hash]) \cap Range(TxHashes[entries[j].hash]) = {}
  /\ pc = "txs" => \A i \in 2..Len(entries) :
       ProcessedTxs(cur, ntx) \cap Range(TxHashes[entries[i].hash]) = {}

IInv == TypeOK /\ CallOK /\ MainChainLinked /\ TransactionsOfChain /\ NoSharedTxs /\ NoDoubleSpend

-----------------------------------------------------------------------------
(* Facts about the operators. *)

(***************************************************************************)
(* The first n transactions of a block are transactions; one more adds     *)
(* that one; all of them are the block's.                                  *)
(***************************************************************************)
LEMMA ProcessedFacts ==
  ASSUME NEW b \in Blocks, NEW n \in Nat, n <= Len(TxHashes[b])
  PROVE  /\ TxHashes[b] \in Seq(Txs)
         /\ Len(TxHashes[b]) \in Nat
         /\ ProcessedTxs(b, n) \subseteq Txs
         /\ ProcessedTxs(b, n) \subseteq Range(TxHashes[b])
         /\ n < Len(TxHashes[b]) =>
              /\ TxHashes[b][n + 1] \in Txs
              /\ ProcessedTxs(b, n + 1) = ProcessedTxs(b, n) \cup {TxHashes[b][n + 1]}
         /\ n = Len(TxHashes[b]) => ProcessedTxs(b, n) = Range(TxHashes[b])
         /\ n = 0 => ProcessedTxs(b, n) = {}
<1>1. TxHashes[b] \in Seq(Txs)
  BY BlocksAssumption
<1>2. /\ Len(TxHashes[b]) \in Nat
      /\ DOMAIN TxHashes[b] = 1..Len(TxHashes[b])
      /\ \A i \in 1..Len(TxHashes[b]) : TxHashes[b][i] \in Txs
  BY <1>1, LenProperties, ElementOfSeq
<1>3. n < Len(TxHashes[b]) => ProcessedTxs(b, n + 1) = ProcessedTxs(b, n) \cup {TxHashes[b][n + 1]}
  <2> SUFFICES ASSUME n < Len(TxHashes[b])
               PROVE  ProcessedTxs(b, n + 1) = ProcessedTxs(b, n) \cup {TxHashes[b][n + 1]}
    OBVIOUS
  <2>1. 1..(n + 1) = 1..n \cup {n + 1}
    OBVIOUS
  <2> QED
    BY <2>1 DEF ProcessedTxs
<1> QED
  BY <1>1, <1>2, <1>3 DEF ProcessedTxs, Range

(***************************************************************************)
(* Dropping the last entry of a sequence.                                  *)
(***************************************************************************)
LEMMA FrontFacts ==
  ASSUME NEW S, NEW s \in Seq(S), Len(s) > 1
  PROVE  /\ SubSeq(s, 1, Len(s) - 1) \in Seq(S)
         /\ Len(SubSeq(s, 1, Len(s) - 1)) = Len(s) - 1
         /\ SubSeq(s, 1, Len(s) - 1) # <<>>
         /\ \A i \in 1..(Len(s) - 1) : SubSeq(s, 1, Len(s) - 1)[i] = s[i]
<1>1. Len(s) \in Nat /\ \A i \in 1..(Len(s) - 1) : s[i] \in S
  BY LenProperties, ElementOfSeq
<1>2. /\ SubSeq(s, 1, Len(s) - 1) \in Seq(S)
      /\ Len(SubSeq(s, 1, Len(s) - 1)) = Len(s) - 1
      /\ \A i \in 1..(Len(s) - 1) : SubSeq(s, 1, Len(s) - 1)[i] = s[i]
  BY <1>1, SubSeqProperties
<1>3. PICK n \in Nat : n = Len(s)
  BY <1>1
<1>4. SubSeq(s, 1, Len(s) - 1) # <<>>
  <2>1. n - 1 # 0 /\ Len(<<>>) = 0
    BY <1>3
  <2> QED
    BY <1>2, <1>3, <2>1, Zenon
<1> QED
  BY <1>2, <1>4

-----------------------------------------------------------------------------
(* Types. *)

Outcomes == {"none", "already_exists", "added", "alternative", "orphaned",
             "rejected", "failed", "missing_longhash"}

(***************************************************************************)
(* A function that returns leaves a well-typed call.                       *)
(***************************************************************************)
LEMMA FinishTypes ==
  ASSUME NEW v \in Outcomes, Finish(v), panicked' \in BOOLEAN
  PROVE  CallTypeOK'
<1>1. <<>> \in Seq(Blocks) /\ <<>> \in Seq(Entry)
  BY EmptySeq
<1> QED
  BY <1>1 DEF Finish, CallTypeOK, Outcomes, AllBlocks

(***************************************************************************)
(* A function that returns to its caller leaves a well-typed call.         *)
(***************************************************************************)
LEMMA ReturnTypes ==
  ASSUME CallTypeOK, NEW v \in Outcomes, ReturnWith(v), panicked' \in BOOLEAN
  PROVE  CallTypeOK'
<1>1. CASE caller = "add_new_block"
  BY <1>1, FinishTypes DEF ReturnWith
<1>2. CASE caller # "add_new_block"
  BY <1>2 DEF ReturnWith, CallTypeOK, callVars, Outcomes
<1> QED
  BY <1>1, <1>2

(***************************************************************************)
(* Purging the data of a block keeps the types of the pool and of what the *)
(* chain records.                                                          *)
(***************************************************************************)
LEMMA PurgeTypes ==
  ASSUME PoolTypeOK, ChainTypeOK, NEW b \in Blocks, NEW n \in Nat, n <= Len(TxHashes[b]),
         NEW taken \in SUBSET Txs, PurgeBlockData(b, n, taken)
  PROVE  /\ PoolTypeOK'
         /\ DOMAIN transactions' \subseteq TxIds
         /\ transactions' \in [DOMAIN transactions' -> Nat]
         /\ spent_keys' \subseteq KeyImages
         /\ outputs' \in Seq(TxIds)
<1>1. ProcessedTxs(b, n) \subseteq Txs
  BY ProcessedFacts
<1>2. PoolTypeOK'
  BY <1>1, ImagesAssumption DEF PurgeBlockData, KeepByBlock, PoolTypeOK
<1>3. DOMAIN transactions' \subseteq TxIds /\ transactions' \in [DOMAIN transactions' -> Nat]
  <2>1. DOMAIN transactions \subseteq TxIds /\ transactions \in [DOMAIN transactions -> Nat]
    BY DEF ChainTypeOK
  <2>2. transactions' = Erase(transactions, ProcessedTxs(b, n) \cup {b})
    BY DEF PurgeBlockData
  <2> QED
    BY <2>1, <2>2 DEF Erase, Restrict
<1>4. spent_keys' \subseteq KeyImages
  BY DEF PurgeBlockData, ChainTypeOK
<1>5. outputs' \in Seq(TxIds)
  <2>1. Len(outputs) \in Nat /\ \A i \in 1..Len(outputs) : outputs[i] \in TxIds
    BY LenProperties, ElementOfSeq DEF ChainTypeOK
  <2>2. \A i \in 1..(Len(outputs) - (n + 1)) : outputs[i] \in TxIds
    BY <2>1
  <2> QED
    BY <2>1, <2>2, SubSeqProperties DEF PurgeBlockData
<1> QED
  BY <1>2, <1>3, <1>4, <1>5

(***************************************************************************)
(* The elements of the sequences a call works through.                     *)
(***************************************************************************)
LEMMA CallSequences ==
  ASSUME CallTypeOK
  PROVE  /\ Len(alt_chain) \in Nat /\ \A i \in 1..Len(alt_chain) : alt_chain[i] \in Blocks
         /\ Len(disconnected) \in Nat /\ \A i \in 1..Len(disconnected) : disconnected[i] \in Blocks
         /\ Len(path) \in Nat /\ \A i \in 1..Len(path) : path[i] \in Blocks
         /\ alt_chain # <<>> => Len(alt_chain) >= 1
         /\ path # <<>> => Len(path) >= 1
<1>1. alt_chain \in Seq(Blocks) /\ disconnected \in Seq(Blocks) /\ path \in Seq(Blocks)
  BY DEF CallTypeOK
<1> QED
  BY <1>1, LenProperties, ElementOfSeq, EmptySeq

(***************************************************************************)
(* The chain is never empty, and each of its positions holds an entry.     *)
(***************************************************************************)
LEMMA EntriesFacts ==
  ASSUME ChainTypeOK
  PROVE  /\ Len(entries) \in Nat /\ Len(entries) >= 1
         /\ DOMAIN entries = 1..Len(entries)
         /\ \A i \in 1..Len(entries) : entries[i] \in Entry
         /\ Top \in Entry
<1>1. entries \in Seq(Entry) /\ entries # <<>>
  BY DEF ChainTypeOK
<1>2. /\ Len(entries) \in Nat /\ Len(entries) >= 1
      /\ DOMAIN entries = 1..Len(entries)
      /\ \A i \in 1..Len(entries) : entries[i] \in Entry
  BY <1>1, LenProperties, ElementOfSeq, EmptySeq
<1> QED
  BY <1>2 DEF Top

(***************************************************************************)
(* A block of the main chain other than the genesis block is not the       *)
(* genesis block, and stands at its height only.                           *)
(***************************************************************************)
LEMMA ChainBlocks ==
  ASSUME ChainTypeOK, MainChainLinked
  PROVE  /\ entries[1].hash = Genesis
         /\ \A i \in 2..Len(entries) : entries[i].hash \in Blocks /\ entries[i].hash # Genesis
         /\ \A i, j \in 1..Len(entries) : entries[i].hash = entries[j].hash => i = j
<1>1. Len(entries) \in Nat /\ DOMAIN entries = 1..Len(entries)
  BY EntriesFacts
<1>2. \A i \in 2..Len(entries) : entries[i].hash \in Blocks /\ entries[i].hash # Genesis
  BY BlocksAssumption DEF MainChainLinked
<1>3. ASSUME NEW i \in 1..Len(entries), NEW j \in 1..Len(entries), entries[i].hash = entries[j].hash
      PROVE  i = j
  <2>1. blocks_index[entries[i].hash] = i - 1 /\ blocks_index[entries[j].hash] = j - 1
    BY <1>1 DEF MainChainLinked
  <2> QED
    BY <1>1, <1>3, <2>1
<1> QED
  BY <1>2, <1>3 DEF MainChainLinked

(***************************************************************************)
(* pop_block_from_blockchain keeps the types of the chain and of the pool. *)
(***************************************************************************)
LEMMA PopTypes ==
  ASSUME PoolTypeOK, ChainTypeOK, MainChainLinked, PopBlock, UNCHANGED environment
  PROVE  PoolTypeOK' /\ ChainTypeOK'
<1>1. CASE ~PopSucceeds
  BY <1>1 DEF PopBlock, PoolTypeOK, ChainTypeOK, chainVars, poolVars, environment
<1>2. CASE PopSucceeds
  <2>1. Len(entries) > 1 /\ Len(entries) \in Nat
    BY <1>2, EntriesFacts DEF PopSucceeds
  <2>2. Top.hash \in Blocks
    BY <2>1, ChainBlocks DEF Top
  <2>3. Len(TxHashes[Top.hash]) \in Nat
    BY <2>2, BlocksAssumption, LenProperties
  <2>4. PurgeBlockData(Top.hash, Len(TxHashes[Top.hash]), {})
    BY <1>2 DEF PopBlock
  <2>5. /\ PoolTypeOK'
        /\ DOMAIN transactions' \subseteq TxIds
        /\ transactions' \in [DOMAIN transactions' -> Nat]
        /\ spent_keys' \subseteq KeyImages
        /\ outputs' \in Seq(TxIds)
    <3>1. {} \in SUBSET Txs /\ Len(TxHashes[Top.hash]) <= Len(TxHashes[Top.hash])
      BY <2>3
    <3> QED
      BY <2>2, <2>3, <2>4, <3>1, PurgeTypes
  <2>6. entries' \in Seq(Entry) /\ entries' # <<>>
    <3>1. entries \in Seq(Entry) /\ entries' = SubSeq(entries, 1, Len(entries) - 1)
      BY <1>2 DEF PopBlock, ChainTypeOK
    <3> QED
      BY <2>1, <3>1, FrontFacts
  <2>7. DOMAIN blocks_index' \subseteq AllBlocks /\ blocks_index' \in [DOMAIN blocks_index' -> Nat]
    BY <1>2 DEF PopBlock, ChainTypeOK, Erase, Restrict
  <2> QED
    BY <1>2, <2>5, <2>6, <2>7 DEF PopBlock, ChainTypeOK, environment
<1> QED
  BY <1>1, <1>2

(***************************************************************************)
(* The chain and the pool keep their types when they are left alone.       *)
(***************************************************************************)
LEMMA UnchangedTypes ==
  ASSUME PoolTypeOK, ChainTypeOK, UNCHANGED <<chainVars, poolVars, environment>>
  PROVE  PoolTypeOK' /\ ChainTypeOK'
  BY DEF PoolTypeOK, ChainTypeOK, chainVars, poolVars, environment

(***************************************************************************)
(* So does a running call that is left alone.                              *)
(***************************************************************************)
LEMMA UnchangedCallTypes ==
  ASSUME CallTypeOK, UNCHANGED <<pc, callVars, bvc, panicked>>
  PROVE  CallTypeOK'
  BY DEF CallTypeOK, callVars

(***************************************************************************)
(* The steps of handle_block_to_main_chain.                                *)
(***************************************************************************)
LEMMA MainBlockTypes ==
  ASSUME IInv, BeginMainBlock \/ AddTransaction \/ RefuseTransaction \/ FinishMainBlock
  PROVE  PoolTypeOK' /\ ChainTypeOK' /\ CallTypeOK'
<1>1. PoolTypeOK /\ ChainTypeOK /\ CallTypeOK /\ CallOK
  BY DEF IInv, TypeOK
<1>2. cur \in Blocks /\ cur \in TxIds /\ panicked' \in BOOLEAN
  BY <1>1 DEF BeginMainBlock, AddTransaction, RefuseTransaction, FinishMainBlock, CallTypeOK, TxIds, AllBlocks
<1>3. Len(entries) \in Nat /\ Top \in Entry
  BY <1>1, EntriesFacts
<1>4. Len(TxHashes[cur]) \in Nat /\ TxHashes[cur] \in Seq(Txs)
  BY <1>2, BlocksAssumption, LenProperties
<1>5. CASE BeginMainBlock
  <2>1. PoolTypeOK'
    BY <1>1, <1>5 DEF BeginMainBlock, PoolTypeOK, poolVars
  <2>2. CASE HeaderAccepted(cur)
    <3>1. outputs' \in Seq(TxIds)
      <4>1. outputs \in Seq(TxIds) /\ outputs' = Append(outputs, cur)
        BY <1>1, <1>5, <2>2 DEF BeginMainBlock, ChainTypeOK
      <4> QED
        BY <1>2, <4>1, AppendProperties
    <3>2. DOMAIN transactions' \subseteq TxIds /\ transactions' \in [DOMAIN transactions' -> Nat]
      BY <1>1, <1>2, <1>3, <1>5, <2>2 DEF BeginMainBlock, ChainTypeOK, Put, ChainHeight
    <3>3. ChainTypeOK'
      BY <1>1, <1>5, <3>1, <3>2 DEF BeginMainBlock, ChainTypeOK, environment
    <3>4. CallTypeOK'
      BY <1>1, <1>2, <1>5, <2>2 DEF BeginMainBlock, CallTypeOK
    <3> QED
      BY <2>1, <3>3, <3>4
  <2>3. CASE ~HeaderAccepted(cur)
    <3>1. ChainTypeOK'
      BY <1>1, <1>5, <2>3 DEF BeginMainBlock, ChainTypeOK, environment
    <3>2. HeaderRefusal(cur) \in Outcomes
      BY DEF HeaderRefusal, Outcomes
    <3>3. CallTypeOK'
      BY <1>1, <1>2, <1>5, <2>3, <3>2, ReturnTypes DEF BeginMainBlock
    <3> QED
      BY <2>1, <3>1, <3>3
  <2> QED
    BY <2>2, <2>3
<1>6. CASE AddTransaction
  <2>1. ntx \in Nat /\ NextTx \in Txs
    <3>1. ntx \in Nat /\ ntx < Len(TxHashes[cur])
      BY <1>1, <1>6 DEF AddTransaction, CallTypeOK
    <3>2. ntx + 1 \in 1..Len(TxHashes[cur])
      BY <1>4, <3>1
    <3>3. TxHashes[cur][ntx + 1] \in Txs
      BY <1>4, <3>2, ElementOfSeq
    <3> QED
      BY <3>1, <3>3 DEF NextTx
  <2>2. PoolTypeOK'
    <3>1. pool' = pool \ {NextTx} /\ txin_infos' = [k \in KeyImages |-> txin_infos[k] \ {NextTx}]
      BY <1>6 DEF AddTransaction, TakeTx, RemoveInputs
    <3> QED
      BY <1>1, <3>1 DEF PoolTypeOK
  <2>3. outputs' \in Seq(TxIds)
    <3>1. outputs \in Seq(TxIds) /\ outputs' = Append(outputs, NextTx) /\ NextTx \in TxIds
      BY <1>1, <1>6, <2>1 DEF AddTransaction, ChainTypeOK, TxIds
    <3> QED
      BY <3>1, AppendProperties
  <2>4. DOMAIN transactions' \subseteq TxIds /\ transactions' \in [DOMAIN transactions' -> Nat]
    BY <1>1, <1>3, <1>6, <2>1 DEF AddTransaction, ChainTypeOK, Put, ChainHeight, TxIds
  <2>5. spent_keys' \subseteq KeyImages
    BY <1>1, <1>6, <2>1, ImagesAssumption DEF AddTransaction, ChainTypeOK
  <2>6. ChainTypeOK'
    BY <1>1, <1>6, <2>3, <2>4, <2>5 DEF AddTransaction, ChainTypeOK, environment
  <2>7. CallTypeOK'
    <3>1. /\ ntx' = ntx + 1
          /\ UNCHANGED <<pc, caller, cur, path, alt_chain, connected, discard, disconnected, kth,
                         rollback_for, original, bvc, panicked>>
      BY <1>6, ZenonT(30) DEF AddTransaction
    <3>2. ntx' \in Nat
      BY <2>1, <3>1
    <3> QED
      BY <1>1, <3>1, <3>2 DEF CallTypeOK
  <2> QED
    BY <2>2, <2>6, <2>7
<1>7. CASE RefuseTransaction
  <2>1. ntx \in Nat /\ ntx <= Len(TxHashes[cur]) /\ pool \cap {NextTx} \in SUBSET Txs
    BY <1>1, <1>7 DEF RefuseTransaction, CallTypeOK, CallOK, PoolTypeOK
  <2>2. PurgeBlockData(cur, ntx, pool \cap {NextTx})
    BY <1>7 DEF RefuseTransaction
  <2>3. /\ PoolTypeOK'
        /\ DOMAIN transactions' \subseteq TxIds
        /\ transactions' \in [DOMAIN transactions' -> Nat]
        /\ spent_keys' \subseteq KeyImages
        /\ outputs' \in Seq(TxIds)
    BY <1>1, <1>2, <2>1, <2>2, PurgeTypes
  <2>4. ChainTypeOK'
    BY <1>1, <1>2, <1>7, <2>3 DEF RefuseTransaction, ChainTypeOK, environment, AllBlocks
  <2>5. CallTypeOK'
    BY <1>1, <1>2, <1>7, ReturnTypes DEF RefuseTransaction, Outcomes
  <2> QED
    BY <2>3, <2>4, <2>5
<1>8. CASE FinishMainBlock
  <2>1. CallTypeOK'
    BY <1>1, <1>2, <1>8, ReturnTypes DEF FinishMainBlock, Outcomes
  <2>2. CASE cur \in BadReward
    <3>1. ntx \in Nat /\ ntx <= Len(TxHashes[cur]) /\ {} \in SUBSET Txs
      BY <1>1, <1>8 DEF FinishMainBlock, CallTypeOK, CallOK
    <3>2. PurgeBlockData(cur, ntx, {})
      BY <1>8, <2>2 DEF FinishMainBlock
    <3>3. /\ PoolTypeOK'
          /\ DOMAIN transactions' \subseteq TxIds
          /\ transactions' \in [DOMAIN transactions' -> Nat]
          /\ spent_keys' \subseteq KeyImages
          /\ outputs' \in Seq(TxIds)
      BY <1>1, <1>2, <3>1, <3>2, PurgeTypes
    <3>4. ChainTypeOK'
      BY <1>1, <1>8, <2>2, <3>3 DEF FinishMainBlock, ChainTypeOK, environment
    <3> QED
      BY <2>1, <3>3, <3>4
  <2>3. CASE cur \notin BadReward
    <3>1. PoolTypeOK'
      BY <1>1, <1>8, <2>3 DEF FinishMainBlock, PoolTypeOK, poolVars
    <3>2. entries' \in Seq(Entry) /\ entries' # <<>>
      <4>1. [hash |-> cur, cumulative_difficulty |-> Top.cumulative_difficulty + Difficulty[cur]] \in Entry
        BY <1>2, <1>3, BlocksAssumption DEF Entry, AllBlocks
      <4>2. entries \in Seq(Entry)
        BY <1>1 DEF ChainTypeOK
      <4>3. entries' = Append(entries, [hash |-> cur,
                                        cumulative_difficulty |-> Top.cumulative_difficulty + Difficulty[cur]])
        BY <1>8, <2>3 DEF FinishMainBlock
      <4> QED
        BY <4>1, <4>2, <4>3, AppendProperties
    <3>3. DOMAIN blocks_index' \subseteq AllBlocks /\ blocks_index' \in [DOMAIN blocks_index' -> Nat]
      BY <1>1, <1>2, <1>3, <1>8, <2>3 DEF FinishMainBlock, ChainTypeOK, Put, ChainHeight, AllBlocks
    <3>4. ChainTypeOK'
      BY <1>1, <1>2, <1>8, <2>3, <3>2, <3>3 DEF FinishMainBlock, ChainTypeOK, environment, AllBlocks
    <3> QED
      BY <2>1, <3>1, <3>4
  <2> QED
    BY <2>2, <2>3
<1> QED
  BY <1>5, <1>6, <1>7, <1>8

(***************************************************************************)
(* The entry an alternative block gets.                                    *)
(***************************************************************************)
LEMMA NewEntryFacts ==
  ASSUME IInv, pc = "walk", PathParent \notin DOMAIN alternative
  PROVE  NewEntry \in AltEntry
<1>1. /\ ChainTypeOK /\ CallTypeOK /\ CallOK /\ MainChainLinked
      /\ cur \in Blocks /\ Difficulty[cur] \in Nat
  BY BlocksAssumption DEF IInv, TypeOK, CallTypeOK
<1>2. CASE path = <<>>
  <2>1. Prev[cur] \in DOMAIN blocks_index
    BY <1>1, <1>2 DEF CallOK, PathParent
  <2>2. PICK i \in DOMAIN entries : entries[i].hash = Prev[cur]
    BY <1>1, <2>1 DEF MainChainLinked
  <2>3. blocks_index[Prev[cur]] = i - 1 /\ entries[i] \in Entry /\ i \in Nat /\ i >= 1
    BY <1>1, <2>2, EntriesFacts DEF MainChainLinked
  <2>4. ParentEntry = [height |-> i - 1, cumulative_difficulty |-> entries[i].cumulative_difficulty]
    BY <1>2, <2>3 DEF ParentEntry
  <2> QED
    <3>1. entries[i].cumulative_difficulty \in Nat
      BY <2>3 DEF Entry
    <3>2. /\ ParentEntry.height = i - 1
          /\ ParentEntry.cumulative_difficulty = entries[i].cumulative_difficulty
      BY <2>4
    <3>3. (i - 1) + 1 \in Nat \ {0}
      BY <2>3
    <3>4. entries[i].cumulative_difficulty + Difficulty[cur] \in Nat
      BY <1>1, <3>1
    <3> QED
      BY <3>2, <3>3, <3>4 DEF NewEntry, AltEntry
<1>3. CASE path # <<>>
  <2>1. Prev[cur] \in DOMAIN alternative
    BY <1>1, <1>3, CallSequences DEF CallOK
  <2>2. ParentEntry \in AltEntry
    BY <1>1, <1>3, <2>1 DEF ParentEntry, ChainTypeOK
  <2> QED
    BY <1>1, <2>2 DEF NewEntry, AltEntry
<1> QED
  BY <1>2, <1>3

(***************************************************************************)
(* The steps of handle_alternative_block.                                  *)
(***************************************************************************)
LEMMA AlternativeTypes ==
  ASSUME IInv, BeginAlternativeBlock \/ WalkBack \/ RefuseAlternative \/ AcceptAlternative
  PROVE  PoolTypeOK' /\ ChainTypeOK' /\ CallTypeOK'
<1>1. PoolTypeOK /\ ChainTypeOK /\ CallTypeOK /\ CallOK
  BY DEF IInv, TypeOK
<1>2. cur \in Blocks /\ panicked' \in BOOLEAN /\ path \in Seq(Blocks)
  BY <1>1 DEF BeginAlternativeBlock, WalkBack, RefuseAlternative, AcceptAlternative, CallTypeOK
<1>3. CASE BeginAlternativeBlock
  <2>1. PoolTypeOK' /\ ChainTypeOK'
    BY <1>1, <1>3, UnchangedTypes DEF BeginAlternativeBlock
  <2>2. CASE ReturnWith("failed") \/ ReturnWith("orphaned")
    BY <1>1, <1>2, <2>1, <2>2, ReturnTypes DEF Outcomes
  <2>3. CASE ~(ReturnWith("failed") \/ ReturnWith("orphaned"))
    BY <1>1, <1>2, <1>3, <2>1, <2>3, EmptySeq DEF BeginAlternativeBlock, CallTypeOK
  <2> QED
    BY <2>2, <2>3
<1>4. CASE WalkBack
  <2>1. PathParent \in Blocks
    BY <1>1, <1>4 DEF WalkBack, ChainTypeOK
  <2>2. <<PathParent>> \in Seq(Blocks)
    BY <2>1
  <2>3. path' \in Seq(Blocks)
    BY <1>2, <1>4, <2>2, ConcatProperties DEF WalkBack
  <2>4. CallTypeOK'
    BY <1>1, <1>4, <2>3 DEF WalkBack, CallTypeOK
  <2> QED
    BY <1>1, <1>4, <2>4, UnchangedTypes DEF WalkBack
<1>5. CASE RefuseAlternative
  <2>1. AlternativeRefusal \in Outcomes
    BY DEF AlternativeRefusal, Outcomes
  <2>2. CallTypeOK'
    BY <1>1, <1>2, <1>5, <2>1, ReturnTypes DEF RefuseAlternative
  <2>3. PoolTypeOK' /\ ChainTypeOK'
    BY <1>1, <1>2, <1>5 DEF RefuseAlternative, PoolTypeOK, ChainTypeOK, poolVars, environment, AllBlocks
  <2> QED
    BY <2>2, <2>3
<1>6. CASE AcceptAlternative
  <2>1. NewEntry \in AltEntry
    BY <1>6, NewEntryFacts DEF AcceptAlternative
  <2>2. DOMAIN alternative' \subseteq Blocks /\ alternative' \in [DOMAIN alternative' -> AltEntry]
    BY <1>1, <1>2, <1>6, <2>1 DEF AcceptAlternative, ChainTypeOK, Put
  <2>3. PoolTypeOK' /\ ChainTypeOK'
    BY <1>1, <1>2, <1>6, <2>2
       DEF AcceptAlternative, PoolTypeOK, ChainTypeOK, poolVars, environment, AllBlocks
  <2>4. CASE ReturnWith("alternative")
    BY <1>1, <1>2, <2>3, <2>4, ReturnTypes DEF Outcomes
  <2>5. CASE StartsSwitch
    <3>1. Append(path, cur) \in Seq(Blocks)
      BY <1>2, AppendProperties
    <3>2. discard' \in BOOLEAN
      <4>1. discard' = DiscardsOldChain
        BY <1>6, <2>5 DEF AcceptAlternative
      <4>2. DiscardsOldChain \in BOOLEAN
        BY DEF DiscardsOldChain, IsCheckpoint
      <4> QED
        BY <4>1, <4>2, Zenon
    <3>3. /\ pc' \in {"nested", "disconnect"} /\ alt_chain' = Append(path, cur)
          /\ UNCHANGED <<caller, cur, ntx, path, connected, disconnected, kth,
                         rollback_for, original, bvc, panicked>>
      BY <1>6, <2>5 DEF AcceptAlternative
    <3>4. CallTypeOK'
      BY <1>1, <3>1, <3>2, <3>3 DEF CallTypeOK
    <3> QED
      BY <2>3, <3>4
  <2> QED
    BY <1>6, <2>4, <2>5 DEF AcceptAlternative
<1> QED
  BY <1>3, <1>4, <1>5, <1>6

(***************************************************************************)
(* The steps of switch_to_alternative_blockchain.                          *)
(***************************************************************************)
LEMMA SwitchTypes ==
  ASSUME IInv, \/ DisconnectBlock \/ ConnectNextBlock \/ ConnectReturned
               \/ PushOldBlock \/ PushReturned \/ FinishSwitch
  PROVE  PoolTypeOK' /\ ChainTypeOK' /\ CallTypeOK'
<1>1. PoolTypeOK /\ ChainTypeOK /\ CallTypeOK /\ CallOK /\ MainChainLinked
  BY DEF IInv, TypeOK
<1>2. panicked' \in BOOLEAN
  <2>1. panicked' = panicked
    BY DEF DisconnectBlock, ConnectNextBlock, ConnectReturned, PushOldBlock, PushReturned, FinishSwitch
  <2> QED
    BY <1>1, <2>1 DEF CallTypeOK
<1>3. CASE DisconnectBlock
  <2>1. PoolTypeOK' /\ ChainTypeOK'
    BY <1>1, <1>3, PopTypes DEF DisconnectBlock
  <2>2. CASE PopSucceeds
    <3>1. Top.hash \in Blocks
      <4>1. Len(entries) \in 2..Len(entries)
        BY <1>1, <2>2, EntriesFacts DEF PopSucceeds
      <4>2. entries[Len(entries)].hash \in Blocks
        BY <1>1, <4>1 DEF MainChainLinked
      <4> QED
        BY <4>2 DEF Top
    <3>2. <<Top.hash>> \in Seq(Blocks) /\ disconnected \in Seq(Blocks)
      BY <1>1, <3>1 DEF CallTypeOK
    <3>3. disconnected' \in Seq(Blocks)
      BY <1>3, <2>2, <3>2, ConcatProperties DEF DisconnectBlock
    <3>4. CallTypeOK'
      BY <1>1, <1>3, <2>2, <3>3 DEF DisconnectBlock, CallTypeOK
    <3> QED
      BY <2>1, <3>4
  <2>3. CASE ~PopSucceeds
    BY <1>2, <1>3, <2>1, <2>3, FinishTypes DEF DisconnectBlock, Outcomes
  <2> QED
    BY <2>2, <2>3
<1>4. CASE ConnectNextBlock
  <2>1. connected \in Nat /\ connected < Len(alt_chain)
    BY <1>1, <1>4 DEF ConnectNextBlock, CallOK, Connecting, CallTypeOK
  <2>2. alt_chain[connected + 1] \in Blocks
    BY <1>1, <2>1, CallSequences
  <2>3. CallTypeOK'
    BY <1>1, <1>4, <2>2 DEF ConnectNextBlock, Call, CallTypeOK, AllBlocks
  <2> QED
    BY <1>1, <1>4, <2>3, UnchangedTypes DEF ConnectNextBlock
<1>5. CASE ConnectReturned
  <2>1. connected' \in Nat /\ kth' \in Nat
    BY <1>1, <1>5 DEF ConnectReturned, CallTypeOK
  <2>2. pc' \in {"connect", "push", "rollback"} /\ rollback_for' \in {"none", "connect", "push"}
    BY <1>1, <1>5 DEF ConnectReturned, CallTypeOK
  <2>3. CallTypeOK'
    BY <1>1, <1>5, <2>1, <2>2 DEF ConnectReturned, CallTypeOK
  <2> QED
    BY <1>1, <1>5, <2>3, UnchangedTypes DEF ConnectReturned
<1>6. CASE PushOldBlock
  <2>1. disconnected[kth] \in Blocks
    <3>1. kth \in Nat /\ kth >= 1 /\ kth <= Len(disconnected)
      BY <1>1, <1>6 DEF PushOldBlock, CallOK, CallTypeOK
    <3> QED
      BY <1>1, <3>1, CallSequences
  <2>2. CallTypeOK'
    BY <1>1, <1>6, <2>1 DEF PushOldBlock, Call, CallTypeOK, AllBlocks
  <2> QED
    BY <1>1, <1>6, <2>2, UnchangedTypes DEF PushOldBlock
<1>7. CASE PushReturned
  <2>1. kth' \in Nat
    <3>1. kth \in Nat
      BY <1>1 DEF CallTypeOK
    <3>2. kth' = kth + 1 \/ kth' = 1
      BY <1>7, ZenonT(30) DEF PushReturned
    <3> QED
      BY <3>1, <3>2
  <2>2. pc' \in {"push", "rollback"} /\ rollback_for' \in {"none", "connect", "push"}
    BY <1>1, <1>7 DEF PushReturned, CallTypeOK
  <2>3. CallTypeOK'
    BY <1>1, <1>7, <2>1, <2>2 DEF PushReturned, CallTypeOK
  <2> QED
    BY <1>1, <1>7, <2>3, UnchangedTypes DEF PushReturned
<1>8. CASE FinishSwitch
  <2>1. DOMAIN alternative' \subseteq Blocks /\ alternative' \in [DOMAIN alternative' -> AltEntry]
    BY <1>1, <1>8 DEF FinishSwitch, ChainTypeOK, Erase, Restrict
  <2>2. PoolTypeOK' /\ ChainTypeOK'
    BY <1>1, <1>8, <2>1 DEF FinishSwitch, PoolTypeOK, ChainTypeOK, poolVars, environment
  <2> QED
    BY <1>2, <1>8, <2>2, FinishTypes DEF FinishSwitch, Outcomes
<1> QED
  BY <1>3, <1>4, <1>5, <1>6, <1>7, <1>8

(***************************************************************************)
(* The steps of rollback_blockchain_switching, and what follows it.        *)
(***************************************************************************)
LEMMA RollbackTypes ==
  ASSUME IInv, RollbackPop \/ RestoreOldBlock \/ RollbackReturned \/ RollbackDone
  PROVE  PoolTypeOK' /\ ChainTypeOK' /\ CallTypeOK'
<1>1. PoolTypeOK /\ ChainTypeOK /\ CallTypeOK /\ CallOK /\ MainChainLinked
  BY DEF IInv, TypeOK
<1>2. CASE RollbackPop
  <2>1. PoolTypeOK' /\ ChainTypeOK'
    BY <1>1, <1>2, PopTypes DEF RollbackPop
  <2>2. CallTypeOK'
    BY <1>1, <1>2 DEF RollbackPop, CallTypeOK, callVars
  <2> QED
    BY <2>1, <2>2
<1>3. CASE RestoreOldBlock
  <2>1. kth <= Len(disconnected) => disconnected[kth] \in Blocks
    <3>1. kth \in Nat /\ kth >= 1
      BY <1>1, <1>3 DEF RestoreOldBlock, CallOK, CallTypeOK
    <3> QED
      BY <1>1, <3>1, CallSequences
  <2>2. CallTypeOK'
    <3>1. /\ UNCHANGED <<ntx, path, alt_chain, connected, discard, disconnected, kth,
                         rollback_for, original, bvc, panicked>>
          /\ \/ kth <= Len(disconnected) /\ pc' = "main" /\ caller' = "rollback" /\ cur' = disconnected[kth]
             \/ pc' = "abandon" /\ caller' = caller /\ cur' = cur
      BY <1>3, ZenonT(30) DEF RestoreOldBlock
    <3>2. cur' \in AllBlocks /\ (pc' = "main" => cur' \in Blocks)
      BY <1>1, <2>1, <3>1, ZenonT(30) DEF CallTypeOK, AllBlocks
    <3> QED
      BY <1>1, <3>1, <3>2 DEF CallTypeOK
  <2> QED
    BY <1>1, <1>3, <2>2, UnchangedTypes DEF RestoreOldBlock
<1>4. CASE RollbackReturned
  <2>1. kth' \in Nat /\ pc' \in {"restore", "abandon"}
    BY <1>1, <1>4 DEF RollbackReturned, CallTypeOK
  <2>2. panicked' \in BOOLEAN
    BY <1>1, <1>4, Zenon DEF RollbackReturned, CallTypeOK
  <2>3. CallTypeOK'
    BY <1>1, <1>4, <2>1, <2>2 DEF RollbackReturned, CallTypeOK
  <2> QED
    BY <1>1, <1>4, <2>3, UnchangedTypes DEF RollbackReturned
<1>5. CASE RollbackDone
  <2>1. CallTypeOK'
    BY <1>1, <1>5, FinishTypes DEF RollbackDone, AbandonSwitch, Outcomes, CallTypeOK
  <2>2. rollback_for = "connect" => alt_chain[connected + 1] \in Blocks
    <3>1. connected \in Nat /\ (rollback_for = "connect" => connected < Len(alt_chain))
      BY <1>1 DEF CallOK, Connecting, CallTypeOK
    <3> QED
      BY <1>1, <3>1, CallSequences
  <2>3. /\ invalid' \subseteq Blocks /\ DOMAIN alternative' \subseteq Blocks
        /\ alternative' \in [DOMAIN alternative' -> AltEntry]
    BY <1>1, <1>5, <2>2 DEF RollbackDone, AbandonSwitch, ChainTypeOK, Erase, Restrict
  <2>4. PoolTypeOK' /\ ChainTypeOK'
    BY <1>1, <1>5, <2>3 DEF RollbackDone, PoolTypeOK, ChainTypeOK, poolVars, environment
  <2> QED
    BY <2>1, <2>4
<1> QED
  BY <1>2, <1>3, <1>4, <1>5

(***************************************************************************)
(* The steps of handle_incoming_tx.                                        *)
(***************************************************************************)
IncomingTxStep ==
  \/ \E t \in Txs, kept \in BOOLEAN : HandleIncomingTx(t, kept)
  \/ TxNotInChain \/ TxCanAdd \/ TxValidate \/ TxInsert

(***************************************************************************)
(* handle_incoming_tx keeps all types.                                     *)
(***************************************************************************)
LEMMA IncomingTxTypes ==
  ASSUME TypeOK, IncomingTxStep
  PROVE  TypeOK'
<1>1. PoolTypeOK /\ ChainTypeOK /\ CallTypeOK /\ TxTypeOK
  BY DEF TypeOK
<1>0. UNCHANGED <<chainVars, environment, pc, callVars, bvc, panicked>>
  BY DEF IncomingTxStep, HandleIncomingTx, TxNotInChain, TxCanAdd, TxValidate, TxInsert
<1>2. CallTypeOK'
  BY <1>0, <1>1, UnchangedCallTypes
<1>3. TxTypeOK'
  <2>1. CASE TxReturns
    BY <2>1 DEF TxReturns, TxTypeOK
  <2>2. CASE ~TxReturns
    <3>1. \/ \E t \in Txs, kept \in BOOLEAN : tx_at' = "have_tx" /\ tx_cur' = t /\ tx_kept' = kept
          \/ /\ tx_at # "none" /\ tx_at' \in {"can_add", "validate", "insert"}
             /\ UNCHANGED <<tx_cur, tx_kept>>
      BY <2>2 DEF IncomingTxStep, HandleIncomingTx, TxNotInChain, TxCanAdd, TxValidate, TxInsert
    <3> QED
      BY <1>1, <3>1 DEF TxTypeOK
  <2> QED
    BY <2>1, <2>2
<1>4. ChainTypeOK'
  BY <1>0, <1>1 DEF ChainTypeOK, chainVars, environment
<1>5. CASE TxInsert
  <2>1. tx_cur \in Txs
    BY <1>1, <1>5 DEF TxInsert, TxTypeOK
  <2>2. PoolTypeOK'
    BY <1>1, <1>5, <2>1, ImagesAssumption DEF TxInsert, InsertTx, AddInputs, PoolTypeOK
  <2> QED
    BY <1>2, <1>3, <1>4, <2>2 DEF TypeOK
<1>6. CASE ~TxInsert
  <2>1. UNCHANGED poolVars
    BY <1>6 DEF IncomingTxStep, HandleIncomingTx, TxNotInChain, TxCanAdd, TxValidate
  <2>2. PoolTypeOK'
    BY <1>1, <2>1 DEF PoolTypeOK, poolVars
  <2> QED
    BY <1>2, <1>3, <1>4, <2>2 DEF TypeOK
<1> QED
  BY <1>5, <1>6

(***************************************************************************)
(* A step of the environment, and the beginning of add_new_block.          *)
(***************************************************************************)
EnvironmentStep ==
  \/ \E b \in Late : LonghashArrives(b) /\ UNCHANGED txVars
  \/ \E b \in Early : TimePasses(b) /\ UNCHANGED txVars

(***************************************************************************)
(* Every step of the node keeps all types.                                 *)
(***************************************************************************)
LEMMA TypeStep ==
  ASSUME IInv, [Next]_vars
  PROVE  TypeOK'
<1>1. PoolTypeOK /\ ChainTypeOK /\ CallTypeOK /\ TxTypeOK /\ TypeOK
  BY DEF IInv, TypeOK
<1>2. ASSUME NEW b \in Blocks, HandleIncomingBlock(b)
      PROVE  TypeOK'
  <2>1. PoolTypeOK' /\ ChainTypeOK'
    BY <1>1, <1>2, UnchangedTypes DEF HandleIncomingBlock, AddNewBlock
  <2>2. CallTypeOK'
    <3>1. /\ UNCHANGED <<caller, ntx, path, alt_chain, connected, discard, disconnected, kth,
                         rollback_for, panicked>>
          /\ \/ bvc' = "already_exists" /\ UNCHANGED <<pc, cur, original>>
             \/ /\ pc' \in {"main", "alternative"} /\ cur' = b /\ original' = entries
                /\ bvc' = "none"
      BY <1>2 DEF HandleIncomingBlock, AddNewBlock
    <3>2. entries \in Seq(Entry) /\ b \in AllBlocks
      BY <1>1, <1>2 DEF ChainTypeOK, AllBlocks
    <3>3. CASE UNCHANGED <<pc, cur, original>> /\ bvc' = "already_exists"
      BY <1>1, <3>1, <3>3 DEF CallTypeOK
    <3>4. CASE pc' \in {"main", "alternative"} /\ cur' = b /\ original' = entries /\ bvc' = "none"
      BY <1>1, <1>2, <3>1, <3>2, <3>4 DEF CallTypeOK
    <3> QED
      BY <3>1, <3>3, <3>4
  <2>3. TxTypeOK'
    BY <1>1, <1>2 DEF HandleIncomingBlock, TxTypeOK, txVars
  <2> QED
    BY <2>1, <2>2, <2>3 DEF TypeOK
<1>3. CASE ChainStep /\ UNCHANGED txVars
  <2>1. TxTypeOK'
    BY <1>1, <1>3 DEF TxTypeOK, txVars
  <2>2. PoolTypeOK' /\ ChainTypeOK' /\ CallTypeOK'
    BY <1>3, MainBlockTypes, AlternativeTypes, SwitchTypes, RollbackTypes DEF ChainStep
  <2> QED
    BY <2>1, <2>2 DEF TypeOK
<1>4. CASE IncomingTxStep
  BY <1>1, <1>4, IncomingTxTypes
<1>5. CASE EnvironmentStep
  <2>1. UNCHANGED <<chainVars, poolVars, pc, callVars, bvc, panicked, txVars>>
    BY <1>5 DEF EnvironmentStep, LonghashArrives, TimePasses
  <2>2. longhashes' \subseteq Blocks /\ mature' \subseteq Blocks
    BY <1>1, <1>5, EnvironmentAssumption DEF EnvironmentStep, LonghashArrives, TimePasses, ChainTypeOK
  <2>3. PoolTypeOK' /\ ChainTypeOK'
    BY <1>1, <2>1, <2>2 DEF PoolTypeOK, ChainTypeOK, chainVars, poolVars
  <2>4. CallTypeOK'
    BY <1>1, <2>1, UnchangedCallTypes
  <2>5. TxTypeOK'
    BY <1>1, <2>1 DEF TxTypeOK, txVars
  <2> QED
    BY <2>3, <2>4, <2>5 DEF TypeOK
<1>6. CASE UNCHANGED vars
  <2>1. UNCHANGED <<chainVars, poolVars, environment, pc, callVars, bvc, panicked, txVars>>
    BY <1>6 DEF vars
  <2>2. TxTypeOK'
    BY <1>1, <2>1 DEF TxTypeOK, txVars
  <2> QED
    BY <1>1, <2>1, <2>2, UnchangedTypes, UnchangedCallTypes DEF TypeOK
<1> QED
  BY <1>2, <1>3, <1>4, <1>5, <1>6 DEF Next, IncomingTxStep, EnvironmentStep

=============================================================================
