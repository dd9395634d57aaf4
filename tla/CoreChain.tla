----------------------------- MODULE CoreChain ------------------------------
(***************************************************************************)
(* Every step of the node keeps the main chain linked and indexed, the     *)
(* record of transactions that of its blocks, and the spent images those   *)
(* of its transactions.                                                    *)
(***************************************************************************)
EXTENDS CoreCalls

ChainInv == MainChainLinked /\ TransactionsOfChain /\ NoSharedTxs /\ NoDoubleSpend

(***************************************************************************)
(* Most steps touch neither the chain nor the block being connected.       *)
(***************************************************************************)
LEMMA QuietStep ==
  ASSUME ChainInv, UNCHANGED <<entries, blocks_index, transactions, spent_keys>>,
         (pc # "txs" /\ pc' # "txs") \/ UNCHANGED <<pc, cur, ntx>>
  PROVE  ChainInv'
<1>1. MainChainLinked'
  BY DEF ChainInv, MainChainLinked
<1>2. PartialTxs' = PartialTxs
  BY DEF PartialTxs
<1>3. TransactionsOfChain'
  BY <1>2 DEF ChainInv, TransactionsOfChain, ChainRecord
<1>4. NoSharedTxs'
  BY DEF ChainInv, NoSharedTxs
<1>5. NoDoubleSpend'
  BY DEF ChainInv, NoDoubleSpend, ChainTxs
<1> QED
  BY <1>1, <1>3, <1>4, <1>5 DEF ChainInv

(***************************************************************************)
(* The record, read element by element.                                    *)
(***************************************************************************)
LEMMA RecordFacts ==
  ASSUME ChainTypeOK
  PROVE  TransactionsOfChain <=>
           \A x : x \in DOMAIN transactions <=>
                    \/ \E i \in 1..Len(entries) : x \in Recorded(entries[i].hash)
                    \/ x \in PartialTxs
<1>1. DOMAIN entries = 1..Len(entries)
  BY EntriesFacts
<1>2. \A x : x \in ChainRecord <=> \E i \in 1..Len(entries) : x \in Recorded(entries[i].hash)
  BY <1>1 DEF ChainRecord
<1> QED
  BY <1>2 DEF TransactionsOfChain

(***************************************************************************)
(* What a block of the chain records, and that two blocks record different *)
(* things.                                                                 *)
(***************************************************************************)
LEMMA RecordedFacts ==
  ASSUME ChainTypeOK, MainChainLinked, NoSharedTxs
  PROVE  /\ \A b \in AllBlocks : BlockTxs(b) \subseteq Txs /\ b \notin Txs
         /\ \A i, j \in 1..Len(entries) :
              i # j => Recorded(entries[i].hash) \cap Recorded(entries[j].hash) = {}
<1>1. \A b \in AllBlocks : BlockTxs(b) \subseteq Txs /\ b \notin Txs
  <2> SUFFICES ASSUME NEW b \in AllBlocks PROVE BlockTxs(b) \subseteq Txs /\ b \notin Txs
    OBVIOUS
  <2>1. b \in Blocks => Range(TxHashes[b]) \subseteq Txs
    BY BlocksAssumption, RangeOfSeq
  <2> QED
    BY <2>1, BlocksAssumption DEF BlockTxs, AllBlocks
<1>2. ASSUME NEW i \in 1..Len(entries), NEW j \in 1..Len(entries), i # j
      PROVE  Recorded(entries[i].hash) \cap Recorded(entries[j].hash) = {}
  <2>1. entries[i].hash # entries[j].hash
    BY <1>2, ChainBlocks
  <2>2. entries[i].hash \in AllBlocks /\ entries[j].hash \in AllBlocks /\ Len(entries) \in Nat
    BY EntriesFacts DEF Entry
  <2>3. BlockTxs(entries[i].hash) \cap BlockTxs(entries[j].hash) = {}
    <3>1. CASE i = 1 \/ j = 1
      BY <3>1, ChainBlocks DEF BlockTxs
    <3>2. CASE i # 1 /\ j # 1
      <4>1. i \in 2..Len(entries) /\ j \in 2..Len(entries)
        BY <2>2, <3>2
      <4>2. Range(TxHashes[entries[i].hash]) \cap Range(TxHashes[entries[j].hash]) = {}
        BY <1>2, <4>1 DEF NoSharedTxs
      <4> QED
        BY <4>1, <4>2, ChainBlocks DEF BlockTxs
    <3> QED
      BY <3>1, <3>2
  <2> QED
    BY <1>1, <2>1, <2>2, <2>3 DEF Recorded
<1> QED
  BY <1>1, <1>2

(***************************************************************************)
(* Taking transactions that are on record off it, with their images.       *)
(***************************************************************************)
LEMMA Unspend ==
  ASSUME NoDoubleSpend, NEW X \in SUBSET Txs, X \subseteq DOMAIN transactions, NEW b, b \notin Txs,
         spent_keys' = spent_keys \ UNION {Images[t] : t \in X},
         DOMAIN transactions' = DOMAIN transactions \ (X \cup {b})
  PROVE  NoDoubleSpend'
<1>1. ChainTxs' = ChainTxs \ X /\ X \subseteq ChainTxs
  BY DEF ChainTxs
<1>2. \A t1, t2 \in ChainTxs' : t1 # t2 => Images[t1] \cap Images[t2] = {}
  BY <1>1 DEF NoDoubleSpend
<1>3. spent_keys' = UNION {Images[t] : t \in ChainTxs'}
  <2>1. spent_keys = UNION {Images[t] : t \in ChainTxs}
    BY DEF NoDoubleSpend
  <2>2. \A t1 \in ChainTxs \ X, t2 \in X : Images[t1] \cap Images[t2] = {}
    BY <1>1 DEF NoDoubleSpend
  <2> QED
    BY <1>1, <2>1, <2>2
<1> QED
  BY <1>2, <1>3 DEF NoDoubleSpend

(***************************************************************************)
(* The block being connected is not in the chain, nor are its processed    *)
(* transactions in a block of the chain.                                   *)
(***************************************************************************)
LEMMA CurrentBlock ==
  ASSUME IInv, pc = "txs"
  PROVE  /\ cur \in Blocks /\ cur \notin Txs
         /\ ntx \in Nat /\ ntx <= Len(TxHashes[cur])
         /\ Prev[cur] = Top.hash /\ Height[cur] = Len(entries)
         /\ ProcessedTxs(cur, ntx) \subseteq Txs
         /\ PartialTxs = ProcessedTxs(cur, ntx) \cup {cur}
         /\ PartialTxs \subseteq DOMAIN transactions
         /\ \A i \in 1..Len(entries) :
              entries[i].hash # cur /\ Recorded(entries[i].hash) \cap PartialTxs = {}
<1>1. TypeOK /\ ChainTypeOK /\ CallTypeOK /\ CallOK /\ ChainInv
  BY DEF IInv, TypeOK, ChainInv
<1>2. /\ cur \in Blocks /\ cur \notin Txs /\ ntx \in Nat /\ ntx <= Len(TxHashes[cur])
      /\ Prev[cur] = Top.hash /\ Height[cur] = Len(entries)
  BY <1>1, BlocksAssumption DEF CallTypeOK, CallOK, AllBlocks
<1>3. ProcessedTxs(cur, ntx) \subseteq Txs
  BY <1>2, ProcessedFacts
<1>4. PartialTxs = ProcessedTxs(cur, ntx) \cup {cur}
  BY DEF PartialTxs
<1>5. PartialTxs \subseteq DOMAIN transactions
  BY <1>1 DEF ChainInv, TransactionsOfChain
<1>6. ASSUME NEW i \in 1..Len(entries)
      PROVE  entries[i].hash # cur /\ Recorded(entries[i].hash) \cap PartialTxs = {}
  <2>1. Len(entries) \in Nat /\ entries[i].hash \in AllBlocks
    BY <1>1, EntriesFacts DEF Entry
  <2>2. entries[i].hash # cur
    <3>1. CASE i = 1
      BY <1>1, <1>2, <3>1, BlocksAssumption DEF ChainInv, MainChainLinked
    <3>2. CASE i # 1
      <4>1. i \in 2..Len(entries)
        BY <2>1, <3>2
      <4>2. Height[entries[i].hash] = i - 1
        BY <1>1, <4>1 DEF ChainInv, MainChainLinked
      <4>3. i - 1 # Len(entries)
        <5>1. PICK n \in Nat : n = Len(entries)
          BY <2>1
        <5>2. i \in Nat /\ i <= n
          BY <5>1
        <5>3. i - 1 # n
          BY <5>2
        <5> QED
          BY <5>1, <5>3, Zenon
      <4> QED
        BY <1>2, <4>2, <4>3, Zenon
    <3> QED
      BY <3>1, <3>2
  <2>3. BlockTxs(entries[i].hash) \cap ProcessedTxs(cur, ntx) = {}
    <3>1. CASE i = 1
      BY <1>1, <3>1, ChainBlocks DEF BlockTxs, ChainInv
    <3>2. CASE i # 1
      <4>1. i \in 2..Len(entries)
        BY <2>1, <3>2
      <4>2. ProcessedTxs(cur, ntx) \cap Range(TxHashes[entries[i].hash]) = {}
        BY <1>1, <4>1 DEF ChainInv, NoSharedTxs
      <4> QED
        BY <4>2 DEF BlockTxs
    <3> QED
      BY <3>1, <3>2
  <2>4. BlockTxs(entries[i].hash) \subseteq Txs /\ entries[i].hash \notin Txs
    BY <1>1, <2>1, RecordedFacts DEF ChainInv
  <2> QED
    BY <1>2, <1>3, <1>4, <2>2, <2>3, <2>4 DEF Recorded
<1> QED
  BY <1>2, <1>3, <1>4, <1>5, <1>6

(***************************************************************************)
(* The coinbase and then, one by one, the transactions of a block are      *)
(* added.                                                                  *)
(***************************************************************************)
LEMMA BeginMainBlockChain ==
  ASSUME IInv, BeginMainBlock
  PROVE  ChainInv'
<1>1. ChainTypeOK /\ CallTypeOK /\ ChainInv /\ pc = "main" /\ cur \in Blocks
  BY DEF IInv, TypeOK, ChainInv, BeginMainBlock, CallTypeOK
<1>2. UNCHANGED <<entries, blocks_index, spent_keys>>
  BY DEF BeginMainBlock
<1>3. CASE ~HeaderAccepted(cur)
  <2>1. UNCHANGED transactions /\ pc' # "txs"
    BY <1>3 DEF BeginMainBlock, ReturnWith, Finish
  <2> QED
    BY <1>1, <1>2, <2>1, QuietStep
<1>4. CASE HeaderAccepted(cur)
  <2>1. pc' = "txs" /\ ntx' = 0 /\ cur' = cur /\ DOMAIN transactions' = DOMAIN transactions \cup {cur}
    BY <1>4 DEF BeginMainBlock, Put
  <2>2. ProcessedTxs(cur', ntx') = {}
    BY <2>1 DEF ProcessedTxs
  <2>3. MainChainLinked'
    BY <1>1, <1>2 DEF ChainInv, MainChainLinked
  <2>4. TransactionsOfChain'
    <3>1. PartialTxs = {} /\ PartialTxs' = {cur} /\ ChainRecord' = ChainRecord
      BY <1>1, <1>2, <2>1, <2>2 DEF PartialTxs, ChainRecord
    <3> QED
      BY <1>1, <2>1, <3>1 DEF ChainInv, TransactionsOfChain
  <2>5. NoSharedTxs'
    BY <1>1, <1>2, <2>2 DEF ChainInv, NoSharedTxs
  <2>6. NoDoubleSpend'
    <3>1. ChainTxs' = ChainTxs
      BY <1>1, <2>1, BlocksAssumption DEF ChainTxs, AllBlocks
    <3> QED
      BY <1>1, <1>2, <3>1 DEF ChainInv, NoDoubleSpend
  <2> QED
    BY <2>3, <2>4, <2>5, <2>6 DEF ChainInv
<1> QED
  BY <1>3, <1>4

(***************************************************************************)
(* A transaction that is added joins the record, and spends what was       *)
(* unspent.                                                                *)
(***************************************************************************)
LEMMA AddTransactionChain ==
  ASSUME IInv, AddTransaction
  PROVE  ChainInv'
<1>1. ChainTypeOK /\ CallTypeOK /\ ChainInv /\ pc = "txs" /\ ntx < Len(TxHashes[cur])
  BY DEF IInv, TypeOK, ChainInv, AddTransaction
<1>2. /\ cur \in Blocks /\ ntx \in Nat /\ ntx <= Len(TxHashes[cur])
      /\ PartialTxs = ProcessedTxs(cur, ntx) \cup {cur}
  BY <1>1, CurrentBlock
<1>3. NextTx \in Txs /\ ProcessedTxs(cur, ntx + 1) = ProcessedTxs(cur, ntx) \cup {NextTx}
  BY <1>1, <1>2, ProcessedFacts DEF NextTx
<1>4. /\ UNCHANGED <<entries, blocks_index, pc, cur>> /\ ntx' = ntx + 1
      /\ NextTx \notin DOMAIN transactions
      /\ DOMAIN transactions' = DOMAIN transactions \cup {NextTx}
      /\ spent_keys' = spent_keys \cup Images[NextTx]
      /\ Images[NextTx] \cap spent_keys = {}
  BY DEF AddTransaction, TxAcceptable, ValidateTx, Put
<1>5. MainChainLinked'
  BY <1>1, <1>4 DEF ChainInv, MainChainLinked
<1>6. TransactionsOfChain'
  <2>1. PartialTxs' = PartialTxs \cup {NextTx} /\ ChainRecord' = ChainRecord
    BY <1>1, <1>2, <1>3, <1>4 DEF PartialTxs, ChainRecord
  <2> QED
    BY <1>1, <1>4, <2>1 DEF ChainInv, TransactionsOfChain
<1>7. NoSharedTxs'
  <2>1. ASSUME NEW i \in 2..Len(entries)
        PROVE  NextTx \notin Range(TxHashes[entries[i].hash])
    <3>1. i \in 1..Len(entries) /\ entries[i].hash # Genesis
      BY <1>1, EntriesFacts, ChainBlocks DEF ChainInv
    <3>2. Recorded(entries[i].hash) \subseteq DOMAIN transactions
      BY <1>1, <3>1, RecordFacts DEF ChainInv
    <3> QED
      BY <1>4, <3>1, <3>2 DEF Recorded, BlockTxs
  <2> QED
    BY <1>1, <1>3, <1>4, <2>1, ZenonT(60) DEF ChainInv, NoSharedTxs
<1>8. NoDoubleSpend'
  <2>1. ChainTxs' = ChainTxs \cup {NextTx} /\ spent_keys = UNION {Images[t] : t \in ChainTxs}
    BY <1>1, <1>3, <1>4 DEF ChainTxs, ChainInv, NoDoubleSpend
  <2>2. spent_keys' = UNION {Images[t] : t \in ChainTxs'}
    BY <1>4, <2>1
  <2>3. \A t \in ChainTxs : Images[t] \cap Images[NextTx] = {}
    BY <1>4, <2>1
  <2>4. \A t1, t2 \in ChainTxs' : t1 # t2 => Images[t1] \cap Images[t2] = {}
    BY <1>1, <2>1, <2>3 DEF ChainInv, NoDoubleSpend
  <2> QED
    BY <2>2, <2>4 DEF NoDoubleSpend
<1> QED
  BY <1>5, <1>6, <1>7, <1>8 DEF ChainInv

(***************************************************************************)
(* A block that is refused half way leaves the record as it was before it. *)
(***************************************************************************)
LEMMA RefusedBlockChain ==
  ASSUME IInv, pc = "txs", pc' # "txs", NEW taken, PurgeBlockData(cur, ntx, taken),
         UNCHANGED <<entries, blocks_index>>
  PROVE  ChainInv'
<1>1. ChainTypeOK /\ ChainInv
  BY DEF IInv, TypeOK, ChainInv
<1>2. /\ cur \notin Txs /\ ProcessedTxs(cur, ntx) \subseteq Txs
      /\ PartialTxs = ProcessedTxs(cur, ntx) \cup {cur}
      /\ PartialTxs \subseteq DOMAIN transactions
      /\ \A i \in 1..Len(entries) : Recorded(entries[i].hash) \cap PartialTxs = {}
  BY CurrentBlock
<1>3. /\ DOMAIN transactions' = DOMAIN transactions \ (ProcessedTxs(cur, ntx) \cup {cur})
      /\ spent_keys' = spent_keys \ UNION {Images[t] : t \in ProcessedTxs(cur, ntx)}
  BY DEF PurgeBlockData, Erase, Restrict
<1>4. MainChainLinked'
  BY <1>1 DEF ChainInv, MainChainLinked
<1>5. TransactionsOfChain'
  <2>1. ChainRecord' = ChainRecord /\ PartialTxs' = {}
    BY DEF ChainRecord, PartialTxs
  <2>2. ChainRecord \cap PartialTxs = {}
    BY <1>1, <1>2, EntriesFacts, ZenonT(60) DEF ChainRecord
  <2> QED
    BY <1>1, <1>2, <1>3, <2>1, <2>2 DEF ChainInv, TransactionsOfChain
<1>6. NoSharedTxs'
  BY <1>1 DEF ChainInv, NoSharedTxs
<1>7. NoDoubleSpend'
  BY <1>1, <1>2, <1>3, Unspend DEF ChainInv
<1> QED
  BY <1>4, <1>5, <1>6, <1>7 DEF ChainInv

(***************************************************************************)
(* A block that is accepted becomes the top of the chain; its transactions *)
(* are on record already.                                                  *)
(***************************************************************************)
LEMMA AcceptedBlockChain ==
  ASSUME IInv, FinishMainBlock, cur \notin BadReward
  PROVE  ChainInv'
<1>1. ChainTypeOK /\ ChainInv /\ pc = "txs"
  BY DEF IInv, TypeOK, ChainInv, FinishMainBlock
<1>2. /\ cur \in Blocks /\ ntx \in Nat /\ ntx <= Len(TxHashes[cur])
      /\ Prev[cur] = Top.hash /\ Height[cur] = Len(entries)
      /\ PartialTxs = ProcessedTxs(cur, ntx) \cup {cur}
      /\ \A i \in 1..Len(entries) : entries[i].hash # cur
  BY <1>1, CurrentBlock
<1> DEFINE e == [hash |-> cur, cumulative_difficulty |-> Top.cumulative_difficulty + Difficulty[cur]]
           n == Len(entries)
<1>3. /\ UNCHANGED <<transactions, spent_keys>> /\ pc' # "txs" /\ ntx = Len(TxHashes[cur])
      /\ blocks_index' = Put(blocks_index, cur, n)
      /\ entries' = Append(entries, e)
  BY DEF FinishMainBlock, ReturnWith, Finish, ChainHeight
<1>4. n \in Nat /\ n >= 1 /\ Top \in Entry /\ DOMAIN entries = 1..n
  BY <1>1, EntriesFacts
<1>5. e \in Entry /\ entries \in Seq(Entry)
  BY <1>1, <1>2, <1>4, BlocksAssumption DEF Entry, AllBlocks, ChainTypeOK
<1>6. /\ Len(entries') = n + 1 /\ DOMAIN entries' = 1..(n + 1)
      /\ \A i \in 1..n : entries'[i] = entries[i]
      /\ entries'[n + 1] = e
  <2> HIDE DEF e
  <2>1. /\ Len(Append(entries, e)) = n + 1
        /\ \A i \in 1..n : Append(entries, e)[i] = entries[i]
        /\ Append(entries, e)[n + 1] = e
    BY <1>5, AppendProperties
  <2>2. Append(entries, e) \in Seq(Entry)
    BY <1>5, AppendProperties
  <2>3. DOMAIN Append(entries, e) = 1..(n + 1)
    BY <2>1, <2>2, LenProperties
  <2> QED
    BY <1>3, <2>1, <2>3, Zenon
<1>7. e.hash = cur /\ e.cumulative_difficulty = entries[n].cumulative_difficulty + Difficulty[cur]
  BY DEF Top
<1> HIDE DEF e, n
<1>8. MainChainLinked'
  <2>1. entries'[1].hash = Genesis
    <3>1. entries[1].hash = Genesis
      BY <1>1 DEF ChainInv, MainChainLinked
    <3>2. entries'[1] = entries[1]
      BY <1>4, <1>6
    <3> QED
      BY <3>1, <3>2
  <2>2. ASSUME NEW i \in 2..Len(entries')
        PROVE  /\ entries'[i].hash \in Blocks
               /\ Prev[entries'[i].hash] = entries'[i-1].hash
               /\ Height[entries'[i].hash] = i - 1
               /\ entries'[i].cumulative_difficulty =
                    entries'[i-1].cumulative_difficulty + Difficulty[entries'[i].hash]
    <3>1. CASE i = n + 1
      <4>1. entries'[i] = e /\ entries'[i-1] = entries[n] /\ i - 1 = n
        <5>1. i - 1 = n /\ n \in 1..n
          BY <1>4, <3>1
        <5> QED
          BY <1>6, <3>1, <5>1
      <4> QED
        BY <1>2, <1>7, <4>1 DEF Top, n
    <3>2. CASE i # n + 1
      <4>1. i \in 2..n /\ i \in 1..n /\ i - 1 \in 1..n
        BY <1>4, <1>6, <3>2
      <4>2. entries'[i] = entries[i] /\ entries'[i-1] = entries[i-1]
        BY <1>6, <4>1
      <4> QED
        BY <1>1, <4>1, <4>2 DEF ChainInv, MainChainLinked, n
    <3> QED
      BY <3>1, <3>2
  <2>3. DOMAIN blocks_index' = {entries'[i].hash : i \in DOMAIN entries'}
    <3>1. DOMAIN blocks_index' = DOMAIN blocks_index \cup {cur}
      BY <1>3 DEF Put
    <3>2. DOMAIN blocks_index = {entries[i].hash : i \in 1..n}
      BY <1>1, <1>4 DEF ChainInv, MainChainLinked
    <3>3. 1..(n + 1) = 1..n \cup {n + 1}
      BY <1>4
    <3> QED
      BY <1>6, <1>7, <3>1, <3>2, <3>3
  <2>4. ASSUME NEW i \in DOMAIN entries'
        PROVE  blocks_index'[entries'[i].hash] = i - 1
    <3>1. CASE i = n + 1
      BY <1>3, <1>4, <1>6, <1>7, <3>1, SMTT(60) DEF Put
    <3>2. CASE i # n + 1
      <4>1. i \in 1..n /\ entries'[i] = entries[i]
        BY <1>4, <1>6, <3>2
      <4>2. entries[i].hash # cur /\ entries[i].hash \in DOMAIN blocks_index
            /\ blocks_index[entries[i].hash] = i - 1
        BY <1>1, <1>2, <1>4, <4>1 DEF ChainInv, MainChainLinked, n
      <4> QED
        BY <1>3, <4>1, <4>2 DEF Put
    <3> QED
      BY <3>1, <3>2
  <2> QED
    BY <2>1, <2>2, <2>3, <2>4 DEF MainChainLinked
<1>9. ProcessedTxs(cur, ntx) = Range(TxHashes[cur]) /\ BlockTxs(cur) = Range(TxHashes[cur])
  BY <1>2, <1>3, ProcessedFacts, BlocksAssumption DEF BlockTxs
<1>10. TransactionsOfChain'
  <2>1. PartialTxs = Recorded(cur) /\ PartialTxs' = {}
    BY <1>2, <1>3, <1>9 DEF Recorded, PartialTxs
  <2>2. \A x : x \in ChainRecord' <=> x \in ChainRecord \/ x \in Recorded(cur)
    <3>1. \A x : x \in ChainRecord' <=> \E i \in 1..(n + 1) : x \in Recorded(entries'[i].hash)
      BY <1>6 DEF ChainRecord
    <3>2. \A x : x \in ChainRecord <=> \E i \in 1..n : x \in Recorded(entries[i].hash)
      BY <1>4 DEF ChainRecord
    <3>3. 1..(n + 1) = 1..n \cup {n + 1}
      BY <1>4
    <3> QED
      BY <1>6, <1>7, <3>1, <3>2, <3>3
  <2> QED
    BY <1>1, <1>3, <2>1, <2>2 DEF ChainInv, TransactionsOfChain
<1>11. NoSharedTxs'
  <2>1. ASSUME NEW i \in 2..(n + 1), NEW j \in 2..(n + 1), i # j
        PROVE  Range(TxHashes[entries'[i].hash]) \cap Range(TxHashes[entries'[j].hash]) = {}
    <3>1. CASE i # n + 1 /\ j # n + 1
      <4>1. i \in 2..n /\ j \in 2..n /\ entries'[i] = entries[i] /\ entries'[j] = entries[j]
        BY <1>4, <1>6, <3>1
      <4> QED
        BY <1>1, <2>1, <4>1 DEF ChainInv, NoSharedTxs, n
    <3>2. CASE i = n + 1
      <4>1. j \in 2..n /\ entries'[i] = e /\ entries'[j] = entries[j]
        BY <1>4, <1>6, <2>1, <3>2
      <4> QED
        BY <1>1, <1>7, <1>9, <4>1 DEF ChainInv, NoSharedTxs, n
    <3>3. CASE j = n + 1
      <4>1. i \in 2..n /\ entries'[j] = e /\ entries'[i] = entries[i]
        BY <1>4, <1>6, <2>1, <3>3
      <4> QED
        BY <1>1, <1>7, <1>9, <4>1 DEF ChainInv, NoSharedTxs, n
    <3> QED
      BY <3>1, <3>2, <3>3
  <2> QED
    BY <1>3, <1>6, <2>1 DEF NoSharedTxs
<1>12. NoDoubleSpend'
  BY <1>1, <1>3 DEF ChainInv, NoDoubleSpend, ChainTxs
<1> QED
  BY <1>8, <1>10, <1>11, <1>12 DEF ChainInv

(***************************************************************************)
(* Popping the top block takes its transactions off the record and leaves  *)
(* those of every other block.                                             *)
(***************************************************************************)
LEMMA PoppedBlockChain ==
  ASSUME IInv, PopBlock, pc # "txs", pc' # "txs"
  PROVE  ChainInv'
<1>1. ChainTypeOK /\ ChainInv
  BY DEF IInv, TypeOK, ChainInv
<1>2. CASE ~PopSucceeds
  BY <1>1, <1>2, QuietStep DEF PopBlock, chainVars
<1>3. CASE PopSucceeds
  <2> DEFINE b == Top.hash
  <2>0. PICK n \in Nat : n = Len(entries)
    BY <1>1, EntriesFacts
  <2>1. n > 1 /\ DOMAIN entries = 1..n /\ entries \in Seq(Entry) /\ n \in 1..n /\ n \in 2..n
    BY <1>1, <1>3, <2>0, EntriesFacts DEF PopSucceeds, ChainTypeOK
  <2>2. /\ Len(entries') = n - 1 /\ DOMAIN entries' = 1..(n - 1)
        /\ \A i \in 1..(n - 1) : entries'[i] = entries[i]
    <3>1. entries' = SubSeq(entries, 1, n - 1)
      BY <1>3, <2>0 DEF PopBlock
    <3> QED
      BY <2>0, <2>1, <3>1, FrontFacts, LenProperties
  <2>3. b = entries[n].hash /\ b \in Blocks /\ b # Genesis /\ b \notin Txs
    BY <1>1, <2>0, <2>1, ChainBlocks, BlocksAssumption DEF Top, ChainInv, AllBlocks
  <2>4. \A i \in 1..(n - 1) : entries[i].hash # b
    <3>1. ASSUME NEW i \in 1..(n - 1) PROVE entries[i].hash # b
      <4>1. i \in 1..n /\ n \in 1..n /\ i # n
        BY <2>1
      <4> QED
        BY <1>1, <2>0, <2>3, <4>1, ChainBlocks DEF ChainInv
    <3> QED
      BY <3>1
  <2>5. /\ Len(TxHashes[b]) \in Nat
        /\ ProcessedTxs(b, Len(TxHashes[b])) = BlockTxs(b)
        /\ BlockTxs(b) \subseteq Txs
    <3>1. Len(TxHashes[b]) \in Nat
      BY <2>3, BlocksAssumption, LenProperties
    <3>2. /\ ProcessedTxs(b, Len(TxHashes[b])) = Range(TxHashes[b])
          /\ ProcessedTxs(b, Len(TxHashes[b])) \subseteq Txs
      <4> DEFINE m == Len(TxHashes[b])
      <4>1. m \in Nat /\ m <= m
        BY <3>1
      <4> HIDE DEF m
      <4> QED
        BY <2>3, <4>1, ProcessedFacts DEF m
    <3> QED
      BY <2>3, <3>1, <3>2 DEF BlockTxs
  <2>6. /\ DOMAIN transactions' = DOMAIN transactions \ Recorded(b)
        /\ spent_keys' = spent_keys \ UNION {Images[t] : t \in BlockTxs(b)}
        /\ blocks_index' = Erase(blocks_index, {b})
    BY <1>3, <2>5 DEF PopBlock, PurgeBlockData, Erase, Restrict, Recorded
  <2>7. \A i \in 1..(n - 1) : Recorded(entries[i].hash) \cap Recorded(b) = {}
    <3>1. ASSUME NEW i \in 1..(n - 1) PROVE Recorded(entries[i].hash) \cap Recorded(b) = {}
      <4>1. i \in 1..n /\ n \in 1..n /\ i # n
        BY <2>1
      <4> QED
        BY <1>1, <2>0, <2>3, <4>1, RecordedFacts DEF ChainInv
    <3> QED
      BY <3>1
  <2>8. Recorded(b) \subseteq DOMAIN transactions
    BY <1>1, <2>0, <2>1, <2>3, RecordFacts DEF ChainInv
  <2> HIDE DEF b
  <2>9. MainChainLinked'
    <3>1. \A i \in DOMAIN entries' : i \in 1..n /\ i \in 1..(n - 1)
      BY <2>1, <2>2
    <3>2. entries'[1].hash = Genesis
      <4>1. entries[1].hash = Genesis
        BY <1>1 DEF ChainInv, MainChainLinked
      <4>2. 1 \in 1..(n - 1)
        BY <2>1
      <4> QED
        BY <2>2, <4>1, <4>2
    <3>3. ASSUME NEW i \in 2..Len(entries')
          PROVE  /\ entries'[i].hash \in Blocks
                 /\ Prev[entries'[i].hash] = entries'[i-1].hash
                 /\ Height[entries'[i].hash] = i - 1
                 /\ entries'[i].cumulative_difficulty =
                      entries'[i-1].cumulative_difficulty + Difficulty[entries'[i].hash]
      <4>1. i \in 2..n /\ i \in 1..(n - 1) /\ i - 1 \in 1..(n - 1)
        <5>1. n > 1 /\ n \in 1..n /\ i \in 2..(n - 1)
          BY <2>1, <2>2
        <5> QED
          BY <5>1
      <4>2. entries'[i] = entries[i] /\ entries'[i-1] = entries[i-1]
        BY <2>2, <4>1
      <4> QED
        BY <1>1, <2>0, <4>1, <4>2 DEF ChainInv, MainChainLinked
    <3>4. DOMAIN blocks_index' = {entries'[i].hash : i \in DOMAIN entries'}
      <4>1. DOMAIN blocks_index' = DOMAIN blocks_index \ {b}
        BY <2>6 DEF Erase, Restrict
      <4>2. DOMAIN blocks_index = {entries[i].hash : i \in 1..n}
        BY <1>1, <2>1 DEF ChainInv, MainChainLinked
      <4>3. 1..n = 1..(n - 1) \cup {n}
        BY <2>1
      <4> QED
        BY <2>2, <2>3, <2>4, <4>1, <4>2, <4>3
    <3>5. ASSUME NEW i \in DOMAIN entries'
          PROVE  blocks_index'[entries'[i].hash] = i - 1
      <4>1. i \in 1..n /\ i \in 1..(n - 1) /\ entries'[i] = entries[i] /\ entries[i].hash # b
        BY <2>2, <2>4, <3>1
      <4>2. entries[i].hash \in DOMAIN blocks_index /\ blocks_index[entries[i].hash] = i - 1
        BY <1>1, <2>1, <4>1 DEF ChainInv, MainChainLinked
      <4> QED
        BY <2>6, <4>1, <4>2 DEF Erase, Restrict
    <3> QED
      BY <3>2, <3>3, <3>4, <3>5 DEF MainChainLinked
  <2>10. TransactionsOfChain'
    <3>1. PartialTxs = {} /\ PartialTxs' = {}
      BY DEF PartialTxs
    <3>2. \A x : x \in ChainRecord' <=> x \in ChainRecord /\ x \notin Recorded(b)
      <4>1. \A x : x \in ChainRecord' <=> \E i \in 1..(n - 1) : x \in Recorded(entries[i].hash)
        BY <2>2 DEF ChainRecord
      <4>2. \A x : x \in ChainRecord <=> \E i \in 1..n : x \in Recorded(entries[i].hash)
        BY <2>1 DEF ChainRecord
      <4>3. 1..n = 1..(n - 1) \cup {n}
        BY <2>1
      <4> QED
        BY <2>3, <2>7, <4>1, <4>2, <4>3
    <3> QED
      BY <1>1, <2>6, <3>1, <3>2 DEF ChainInv, TransactionsOfChain
  <2>11. NoSharedTxs'
    <3>1. ASSUME NEW i \in 2..Len(entries'), NEW j \in 2..Len(entries'), i # j
          PROVE  Range(TxHashes[entries'[i].hash]) \cap Range(TxHashes[entries'[j].hash]) = {}
      <4>1. /\ i \in 2..n /\ j \in 2..n
            /\ entries'[i] = entries[i] /\ entries'[j] = entries[j]
        <5>1. n > 1 /\ n \in 1..n /\ i \in 2..(n - 1) /\ j \in 2..(n - 1)
          BY <2>1, <2>2
        <5>2. i \in 2..n /\ j \in 2..n /\ i \in 1..(n - 1) /\ j \in 1..(n - 1)
          BY <5>1
        <5> QED
          BY <2>2, <5>2
      <4> QED
        BY <1>1, <2>0, <3>1, <4>1 DEF ChainInv, NoSharedTxs
    <3> QED
      BY <3>1 DEF NoSharedTxs
  <2>12. NoDoubleSpend'
    <3>1. BlockTxs(b) \subseteq DOMAIN transactions
      BY <2>8 DEF Recorded
    <3>2. DOMAIN transactions' = DOMAIN transactions \ (BlockTxs(b) \cup {b})
      BY <2>6 DEF Recorded
    <3> QED
      BY <1>1, <2>3, <2>5, <2>6, <3>1, <3>2, Unspend DEF ChainInv
  <2> QED
    BY <2>9, <2>10, <2>11, <2>12 DEF ChainInv
<1> QED
  BY <1>2, <1>3

(***************************************************************************)
(* Every step of the node keeps the chain, its record and its spent images *)
(* in order.                                                               *)
(***************************************************************************)
LEMMA ChainStepInv ==
  ASSUME IInv, [Next]_vars
  PROVE  ChainInv'
<1>1. ChainInv
  BY DEF IInv, ChainInv
<1>2. CASE BeginMainBlock
  BY <1>2, BeginMainBlockChain
<1>3. CASE AddTransaction
  BY <1>3, AddTransactionChain
<1>4. CASE RefuseTransaction
  <2>1. pc' # "txs"
    BY <1>4 DEF RefuseTransaction, ReturnWith, Finish
  <2> QED
    BY <1>4, <2>1, RefusedBlockChain DEF RefuseTransaction
<1>5. CASE FinishMainBlock
  <2>1. pc = "txs" /\ pc' # "txs"
    BY <1>5 DEF FinishMainBlock, ReturnWith, Finish
  <2>2. CASE cur \in BadReward
    BY <1>5, <2>1, <2>2, RefusedBlockChain DEF FinishMainBlock
  <2> QED
    BY <1>5, <2>2, AcceptedBlockChain
<1>6. CASE DisconnectBlock
  <2>1. pc = "disconnect" /\ pc' # "txs" /\ PopBlock
    BY <1>6 DEF DisconnectBlock, Finish
  <2> QED
    BY <2>1, PoppedBlockChain
<1>7. CASE RollbackPop
  <2>1. pc = "rollback" /\ pc' # "txs" /\ PopBlock
    BY <1>7 DEF RollbackPop
  <2> QED
    BY <2>1, PoppedBlockChain
<1>8. CASE \/ BeginAlternativeBlock \/ WalkBack \/ RefuseAlternative \/ AcceptAlternative
           \/ ConnectNextBlock \/ ConnectReturned \/ PushOldBlock \/ PushReturned \/ FinishSwitch
           \/ RestoreOldBlock \/ RollbackReturned \/ RollbackDone
           \/ \E b \in Blocks : HandleIncomingBlock(b)
  <2>1. /\ UNCHANGED <<entries, blocks_index, transactions, spent_keys>>
        /\ pc # "txs" /\ pc' # "txs"
    BY <1>8 DEF BeginAlternativeBlock, WalkBack, RefuseAlternative, AcceptAlternative,
          ConnectNextBlock, ConnectReturned, PushOldBlock, PushReturned, FinishSwitch,
          RestoreOldBlock, RollbackReturned, RollbackDone, AbandonSwitch, HandleIncomingBlock,
          AddNewBlock, Call, ReturnWith, Finish, chainVars
  <2> QED
    BY <1>1, <2>1, QuietStep
<1>9. CASE IncomingTxStep \/ EnvironmentStep \/ UNCHANGED vars
  <2>1. UNCHANGED <<chainVars, pc, callVars>>
    BY <1>9 DEF IncomingTxStep, HandleIncomingTx, TxNotInChain, TxCanAdd, TxValidate, TxInsert,
                EnvironmentStep, LonghashArrives, TimePasses, vars
  <2> QED
    BY <1>1, <2>1, QuietStep DEF chainVars, callVars
<1> QED
  BY <1>2, <1>3, <1>4, <1>5, <1>6, <1>7, <1>8, <1>9 DEF Next, ChainStep, IncomingTxStep, EnvironmentStep

=============================================================================
