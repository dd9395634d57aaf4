------------------------------- MODULE Wallet -------------------------------
(***************************************************************************)
(* wallet2 (wallet/wallet2.cpp) and wallet_tx_builder: a wallet that scans *)
(* the daemon's blocks for its money, spends it, and votes with it.  One   *)
(* call runs at a time.  The daemon changes its chain between any two RPC  *)
(* calls of one refresh(), and each RPC call can fail.                     *)
(*                                                                         *)
(* A transaction pays the wallet at most one output, of one unit, so that  *)
(* the transaction also stands for the output and for its key image.  What *)
(* a vote is for, dust, fees and fake outputs are left out.                *)
(***************************************************************************)
EXTENDS Integers, FiniteSets, Sequences, SequencesExt, FiniteSetsExt, Functions

CONSTANTS
  Genesis, Blocks, Prev,  \* the block tree
  BlockTxs,               \* BlockTxs[b]: its transactions, the coinbase first
  Mine,                   \* transactions that pay this wallet
  Spends,                 \* Spends[t]: the outputs of the wallet that t spends
  Own,                    \* transactions this wallet can make
  SpendableAge,           \* DEFAULT_TX_SPENDABLE_AGE
  MaxCount,               \* COMMAND_RPC_GET_BLOCKS_FAST_MAX_COUNT
  MaxVotes,               \* units in a new voting batch
  Tries,                  \* retries of pull_blocks: 3
  StoreEvery,             \* blocks after which refresh() stores: 1000
  MaxFaults, MaxCrashes   \* bounds on failing RPC calls and on crashes

AllBlocks == Blocks \cup {Genesis}
Txs == UNION {Range(BlockTxs[b]) : b \in AllBlocks}

WalletAssumption ==
  /\ Prev \in [Blocks -> AllBlocks]
  /\ Own \subseteq Txs /\ Mine \subseteq Txs
  /\ Spends \in [Txs -> SUBSET Mine]
  /\ MaxCount > 1 /\ {SpendableAge, MaxVotes, Tries, MaxFaults, MaxCrashes} \subseteq Nat

VARIABLES
  tip, pool,       \* the daemon: its top block, and the Own transactions it has taken
  blockchain,      \* m_blockchain
  transfers,       \* m_transfers
  key_images,      \* m_key_images: output -> place in transfers
  unconfirmed,     \* m_unconfirmed_txs
  batches,         \* m_votes_info.m_batches: the places in transfers of each
  batch_map,       \* m_transfer_batch_map: place in transfers -> batch
  at,              \* where the running call is
  response,        \* the blocks of getblocks.bin that are still to be looked at
  index, first,    \* current_index, res.start_height
  ntx,             \* how many transactions of response[1] have been processed
  added, try_count,
  wallet_file, votes_file,
  faults, crashes,
  torn,            \* history: an exception has left a block half processed
  shaken,          \* history: the daemon has left a chain while it was being processed
  missed,          \* history: detach_blockchain did not find a key image
  cut              \* history: a crash has cut a store() short

daemon == <<tip, pool>>
scanned == <<blockchain, transfers, key_images, unconfirmed>>
votes == <<batches, batch_map>>
call == <<response, index, first, ntx, added, try_count>>
files == <<wallet_file, votes_file>>
bounds == <<faults, crashes>>
history == <<torn, shaken, missed, cut>>
vars == <<daemon, scanned, votes, at, call, files, bounds, history>>

-----------------------------------------------------------------------------
(* The daemon, as the wallet sees it. *)

Chain[b \in AllBlocks] == IF b = Genesis THEN <<b>> ELSE Append(Chain[Prev[b]], b)

Record(c) == FlattenSeq([h \in DOMAIN c |-> BlockTxs[c[h]]])
HasTx(c, t) == \E h \in DOMAIN c : t \in Range(BlockTxs[c[h]])
GlobalIndex(c, t) == CHOOSE n \in DOMAIN Record(c) : Record(c)[n] = t

(***************************************************************************)
(* The daemon takes a longer chain; the wallet's own transactions are in   *)
(* it only if the wallet has sent them.                                    *)
(***************************************************************************)
DaemonMoves(b) ==
  /\ Len(Chain[b]) > Len(Chain[tip])
  /\ \A t \in Own : HasTx(Chain[b], t) => t \in pool
  /\ tip' = b
  /\ shaken' = (shaken \/ (at \in {"block", "txs"} /\ ~IsPrefix(Chain[tip], Chain[b])))
  /\ UNCHANGED <<pool, scanned, votes, at, call, files, bounds, torn, missed, cut>>

(***************************************************************************)
(* find_blockchain_supplement for the ids of get_short_chain_history: the  *)
(* highest of the wallet's blocks that is in the daemon's main chain.      *)
(***************************************************************************)
Supplement ==
  CHOOSE h \in DOMAIN blockchain :
    /\ blockchain[h] \in Range(Chain[tip])
    /\ \A g \in (h + 1)..Len(blockchain) : blockchain[g] \notin Range(Chain[tip])

Accepts(t) ==
  /\ \A o \in Spends[t] : HasTx(Chain[tip], o)
  /\ \A u \in Txs \ {t} : u \in pool \/ HasTx(Chain[tip], u) => Spends[u] \cap Spends[t] = {}
  /\ ~HasTx(Chain[tip], t)

-----------------------------------------------------------------------------
(* refresh: pull_blocks until it adds nothing. *)

Refresh ==
  /\ at = "idle"
  /\ at' = "pull"
  /\ try_count' = 0
  /\ UNCHANGED <<daemon, scanned, votes, response, index, first, ntx, added, files, bounds, history>>

(***************************************************************************)
(* An exception that leaves pull_blocks: another try, or out of refresh()  *)
(* without storing.                                                        *)
(***************************************************************************)
Throw ==
  /\ IF try_count < Tries
     THEN at' = "pull" /\ try_count' = try_count + 1
     ELSE at' = "idle" /\ try_count' = 0
  /\ response' = <<>> /\ index' = 0 /\ first' = 0 /\ ntx' = 0 /\ added' = 0

Fault == faults < MaxFaults /\ faults' = faults + 1 /\ UNCHANGED crashes

PullBlocks ==
  /\ at = "pull"
  /\ at' = "block"
  /\ response' = SubSeq(Chain[tip], Supplement, Min({Len(Chain[tip]), Supplement + MaxCount - 1}))
  /\ index' = Supplement - 1
  /\ first' = Supplement - 1
  /\ ntx' = 0
  /\ added' = 0
  /\ UNCHANGED <<daemon, scanned, votes, try_count, files, bounds, history>>

PullFails ==
  /\ at = "pull"
  /\ Fault
  /\ Throw
  /\ UNCHANGED <<daemon, scanned, votes, files, history>>

(***************************************************************************)
(* The response has been gone through.                                     *)
(***************************************************************************)
PullEnds ==
  /\ at = "block"
  /\ response = <<>>
  /\ at' = IF added = 0 THEN "store" ELSE "pull"
  /\ index' = 0 /\ first' = 0 /\ added' = 0
  /\ UNCHANGED <<daemon, scanned, votes, response, ntx, try_count, files, bounds, history>>

KnownBlock ==
  /\ at = "block"
  /\ response # <<>>
  /\ index < Len(blockchain) /\ response[1] = blockchain[index + 1]
  /\ response' = Tail(response)
  /\ index' = index + 1
  /\ UNCHANGED <<daemon, scanned, votes, at, first, ntx, added, try_count, files, bounds, history>>

NewBlock ==
  /\ at = "block"
  /\ response # <<>>
  /\ index >= Len(blockchain)
  /\ at' = "txs"
  /\ ntx' = 0
  /\ added' = added + 1
  /\ UNCHANGED <<daemon, scanned, votes, response, index, first, try_count, files, bounds, history>>

-----------------------------------------------------------------------------
(* detach_blockchain. *)

\* Mutant of DetachedFrom: the transfers of the first detached block stay.
DetachedFrom_OffByOne(height) == {p \in DOMAIN transfers : transfers[p].height > height}

\* The transfers from the first one that is not below height on.
DetachedFrom(height) ==
  {p \in DOMAIN transfers : \E q \in 1..p : transfers[q].height >= height}

(***************************************************************************)
(* The loop erases the key image of one transfer after the other and stops *)
(* at the first that is not there, be it that an earlier transfer has the  *)
(* same one.                                                               *)
(***************************************************************************)
Missing(places) ==
  {p \in places : \/ transfers[p].tx \notin DOMAIN key_images
                  \/ \E q \in places : q < p /\ transfers[q].tx = transfers[p].tx}

\* Mutant of LeaveBatches: the transfers stay in their batches.
LeaveBatches_MapOnly(places) ==
  /\ batch_map' = Restrict(batch_map, DOMAIN batch_map \ places)
  /\ UNCHANGED batches

LeaveBatches(places) ==
  /\ batches' = [b \in DOMAIN batches |-> SelectSeq(batches[b], LAMBDA p : p \notin places)]
  /\ batch_map' = Restrict(batch_map, DOMAIN batch_map \ places)

Forget(places) ==
  /\ key_images' = Restrict(key_images, DOMAIN key_images \ {transfers[p].tx : p \in places})
  /\ LeaveBatches(places)

Differs ==
  /\ at = "block"
  /\ response # <<>>
  /\ index < Len(blockchain) /\ response[1] # blockchain[index + 1]

(***************************************************************************)
(* "split detected here !!!": the wallet's blocks from this height on go,  *)
(* with their transfers, and the daemon's block is processed; it does not  *)
(* count as added.  That this is not the first block of the response is    *)
(* the invariant SplitAfterFirst.                                          *)
(***************************************************************************)
DetachBlockchain ==
  /\ Differs
  /\ Missing(DetachedFrom(index)) = {}
  /\ Forget(DetachedFrom(index))
  /\ transfers' = SubSeq(transfers, 1, Len(transfers) - Cardinality(DetachedFrom(index)))
  /\ blockchain' = SubSeq(blockchain, 1, index)
  /\ at' = "txs"
  /\ ntx' = 0
  /\ UNCHANGED <<daemon, unconfirmed, response, index, first, added, try_count, files, bounds, history>>

DetachThrows ==
  /\ Differs
  /\ Missing(DetachedFrom(index)) # {}
  /\ Forget({p \in DetachedFrom(index) : p < Min(Missing(DetachedFrom(index)))})
  /\ missed' = TRUE
  /\ Throw
  /\ UNCHANGED <<daemon, blockchain, transfers, unconfirmed, files, bounds, torn, shaken, cut>>

-----------------------------------------------------------------------------
(* process_new_transaction and process_new_blockchain_entry. *)

CurrentTx == BlockTxs[response[1]][ntx + 1]
MoreTxs == at = "txs" /\ ntx < Len(BlockTxs[response[1]])

Received(t) ==
  IF t \in Mine
  THEN Append(transfers, [tx |-> t, height |-> index, spent |-> FALSE,
                          global |-> GlobalIndex(Chain[tip], t)])
  ELSE transfers

Indexed(t) ==
  IF t \in Mine
  THEN [o \in DOMAIN key_images \cup {t} |-> IF o = t THEN Len(transfers) + 1 ELSE key_images[o]]
  ELSE key_images

\* Mutant of MarkSpent: a transaction of this wallet's own is passed over.
MarkSpent_Foreign(ts, images, t) ==
  [p \in DOMAIN ts |->
     [ts[p] EXCEPT !.spent = @ \/ (t \notin Own /\ \E o \in Spends[t] \cap DOMAIN images : images[o] = p)]]

\* The transfers that the inputs of t spend, found by their key images.
MarkSpent(ts, images, t) ==
  [p \in DOMAIN ts |->
     [ts[p] EXCEPT !.spent = @ \/ \E o \in Spends[t] \cap DOMAIN images : images[o] = p]]

ProcessNewTransaction ==
  /\ MoreTxs
  /\ CurrentTx \in Mine => HasTx(Chain[tip], CurrentTx)
  /\ unconfirmed' = unconfirmed \ {CurrentTx}
  /\ key_images' = Indexed(CurrentTx)
  /\ transfers' = MarkSpent(Received(CurrentTx), key_images', CurrentTx)
  /\ ntx' = ntx + 1
  /\ UNCHANGED <<daemon, blockchain, votes, at, response, index, first, added, try_count,
                 files, bounds, history>>

(***************************************************************************)
(* get_o_indexes.bin fails, or the daemon has the transaction no longer.   *)
(***************************************************************************)
ProcessThrows ==
  /\ MoreTxs
  /\ CurrentTx \in Mine
  /\ Fault \/ (~HasTx(Chain[tip], CurrentTx) /\ UNCHANGED bounds)
  /\ unconfirmed' = unconfirmed \ {CurrentTx}
  /\ torn' = (torn \/ \E p \in DOMAIN transfers : transfers[p].height = Len(blockchain))
  /\ Throw
  /\ UNCHANGED <<daemon, blockchain, transfers, key_images, votes, files, shaken, missed, cut>>

BlockProcessed ==
  /\ at = "txs"
  /\ ntx = Len(BlockTxs[response[1]])
  /\ blockchain' = Append(blockchain, response[1])
  /\ at' = IF Len(blockchain') % StoreEvery = 0 THEN "store_on" ELSE "block"
  /\ response' = Tail(response)
  /\ index' = index + 1
  /\ ntx' = 0
  /\ UNCHANGED <<daemon, transfers, key_images, unconfirmed, votes, first, added, try_count,
                 files, bounds, history>>

-----------------------------------------------------------------------------
(* transfer: wallet_tx_builder selects, the daemon is asked, and the wallet *)
(* takes note.                                                              *)

Unspent == {p \in DOMAIN transfers : ~transfers[p].spent}
IsTransferUnlocked(p) == transfers[p].height + SpendableAge <= Len(blockchain)

Eligible == {p \in Unspent : IsTransferUnlocked(p) /\ p \notin DOMAIN batch_map}

BatchUnspent(b) == Range(batches[b]) \cap Unspent

(***************************************************************************)
(* select_batches_for_spend: the batches with the smallest amounts, until  *)
(* the missing money has been found or there are no more.                  *)
(***************************************************************************)
BatchesForSpend(missing) ==
  LET usable == {b \in DOMAIN batches : BatchUnspent(b) # {}}
      amount(b) == Cardinality(BatchUnspent(b))
      before(b) == {a \in usable : amount(a) < amount(b) \/ (amount(a) = amount(b) /\ a < b)}
  IN  {b \in usable : MapThenSumSet(amount, before(b)) < missing}

(***************************************************************************)
(* add_votes makes a new batch of transfers that are neither in one nor    *)
(* being spent, if there are any; the user may have no delegates to vote   *)
(* for.                                                                    *)
(***************************************************************************)
NewBatches(inputs) ==
  LET free == Eligible \ inputs
  IN  {{}} \cup {v \in SUBSET free : Cardinality(v) = Min({MaxVotes, Cardinality(free)})}

PutInBatch(v) ==
  IF v = {} THEN UNCHANGED votes
  ELSE /\ batches' = Append(batches, SetToSortSeq(v, <))
       /\ batch_map' = [p \in DOMAIN batch_map \cup v |-> IF p \in v THEN Len(batches') ELSE batch_map[p]]

ValidBatches == \A b \in DOMAIN batches : Range(batches[b]) \subseteq DOMAIN transfers

(***************************************************************************)
(* transfer() with sendrawtransaction answered "OK": process_transaction_- *)
(* sent, then store().                                                     *)
(***************************************************************************)
ProcessTransactionSent(t, inputs, v) ==
  /\ transfers' = [p \in DOMAIN transfers |-> [transfers[p] EXCEPT !.spent = @ \/ p \in inputs]]
  /\ PutInBatch(v)
  /\ unconfirmed' = unconfirmed \cup {t}
  /\ at' = "store"
  /\ UNCHANGED <<blockchain, key_images, bounds>>

\* The daemon has the transaction and its answer is lost.
AnswerLost ==
  /\ Fault
  /\ UNCHANGED <<scanned, votes, at>>

Transfer(t, needed, picked) ==
  LET from == IF Cardinality(picked) < needed
              THEN BatchesForSpend(needed - Cardinality(picked)) ELSE {}
      inputs == picked \cup UNION {BatchUnspent(b) : b \in from}
  IN  /\ at = "idle"
      /\ Cardinality(picked) = Min({needed, Cardinality(Eligible)})
      /\ Cardinality(inputs) >= needed
      /\ Cardinality(inputs) = Cardinality(Spends[t])
      /\ {transfers[p].tx : p \in inputs} = Spends[t]
      /\ Accepts(t)
      /\ pool' = pool \cup {t}
      /\ \E v \in NewBatches(inputs) :
           /\ Cardinality(picked) < needed \/ v = {} => ValidBatches
           /\ ProcessTransactionSent(t, inputs, v) \/ AnswerLost
      /\ UNCHANGED <<tip, call, files, history>>

-----------------------------------------------------------------------------
(* store and load. *)

NoFile == [state |-> "none"]
Broken == [state |-> "broken"]
WalletFile == [state |-> "whole", blockchain |-> blockchain, transfers |-> transfers,
               key_images |-> key_images, unconfirmed |-> unconfirmed]
VotesFile == [state |-> "whole", batches |-> batches, batch_map |-> batch_map]

Resume == IF at = "store" THEN "idle" ELSE "block"

(***************************************************************************)
(* store(): the wallet file, then the votes file, each overwritten in      *)
(* place.  The second store() of refresh() writes the same again.          *)
(***************************************************************************)
Store ==
  /\ at \in {"store", "store_on"}
  /\ at' = Resume
  /\ wallet_file' = WalletFile
  /\ votes_file' = VotesFile
  /\ try_count' = IF at = "store" THEN 0 ELSE try_count
  /\ UNCHANGED <<daemon, scanned, votes, response, index, first, ntx, added, bounds, history>>

Empty == <<>>

\* clear(), then what the two files hold.
Load(wf, vf) ==
  /\ IF wf.state = "whole"
     THEN /\ blockchain' = wf.blockchain /\ transfers' = wf.transfers
          /\ key_images' = wf.key_images /\ unconfirmed' = wf.unconfirmed
     ELSE /\ blockchain' = <<Genesis>> /\ transfers' = <<>>
          /\ key_images' = Empty /\ unconfirmed' = {}
  /\ IF vf.state = "whole"
     THEN batches' = vf.batches /\ batch_map' = vf.batch_map
     ELSE batches' = <<>> /\ batch_map' = Empty
  /\ at' = IF Broken \in {wf, vf} THEN "unloadable" ELSE "idle"
  /\ response' = <<>> /\ index' = 0 /\ first' = 0 /\ ntx' = 0 /\ added' = 0 /\ try_count' = 0

Restart(wf, vf) ==
  /\ crashes < MaxCrashes
  /\ crashes' = crashes + 1
  /\ wallet_file' = wf /\ votes_file' = vf
  /\ Load(wf, vf)
  /\ UNCHANGED <<daemon, faults, torn, shaken, missed>>

Crash ==
  /\ at # "unloadable"
  /\ UNCHANGED cut
  /\ Restart(wallet_file, votes_file)

CrashInStore ==
  /\ at \in {"store", "store_on"}
  /\ cut' = TRUE
  /\ \/ Restart(Broken, votes_file)
     \/ Restart(WalletFile, votes_file)
     \/ Restart(WalletFile, Broken)

(***************************************************************************)
(* stop(): m_run is looked at after each block and before each pull.       *)
(***************************************************************************)
Stop ==
  /\ at = "pull" \/ (at = "block" /\ index > first)
  /\ Fault
  /\ at' = "store"
  /\ response' = <<>> /\ index' = 0 /\ first' = 0 /\ added' = 0
  /\ UNCHANGED <<daemon, scanned, votes, ntx, try_count, files, history>>

-----------------------------------------------------------------------------

Init ==
  /\ tip = Genesis /\ pool = {}
  /\ blockchain = <<Genesis>> /\ transfers = <<>> /\ key_images = Empty /\ unconfirmed = {}
  /\ batches = <<>> /\ batch_map = Empty
  /\ at = "idle"
  /\ response = <<>> /\ index = 0 /\ first = 0 /\ ntx = 0 /\ added = 0 /\ try_count = 0
  /\ wallet_file = NoFile /\ votes_file = NoFile
  /\ faults = 0 /\ crashes = 0
  /\ torn = FALSE /\ shaken = FALSE /\ missed = FALSE /\ cut = FALSE

RefreshStep ==
  \/ PullBlocks \/ PullFails \/ PullEnds
  \/ KnownBlock \/ NewBlock \/ DetachBlockchain \/ DetachThrows
  \/ ProcessNewTransaction \/ ProcessThrows \/ BlockProcessed
  \/ Store

Next ==
  \/ \E b \in Blocks : DaemonMoves(b)
  \/ Refresh
  \/ RefreshStep
  \/ Stop
  \/ \E t \in Own \ pool, picked \in SUBSET Eligible :
       \E needed \in 1..Cardinality(Spends[t]) : Transfer(t, needed, picked)
  \/ Crash
  \/ CrashInStore

Spec == Init /\ [][Next]_vars

(***************************************************************************)
(* A call that has begun goes on; the wallet's owner, or the refresh       *)
(* thread of the graphical wallet, refreshes again and again.              *)
(***************************************************************************)
FairSpec == Spec /\ WF_vars(Refresh) /\ WF_vars(RefreshStep)

-----------------------------------------------------------------------------
(* Properties. *)

Transfer_ == [tx : Mine, height : Nat, spent : BOOLEAN, global : Nat]

(***************************************************************************)
(* The types of m_transfers, of the maps into it and of the call's state.  *)
(***************************************************************************)
WalletTypeOK ==
  /\ tip \in AllBlocks /\ pool \subseteq Own
  /\ Range(blockchain) \subseteq AllBlocks /\ Range(transfers) \subseteq Transfer_
  /\ DOMAIN key_images \subseteq Mine /\ Range(key_images) \subseteq Nat
  /\ unconfirmed \subseteq Own
  /\ \A b \in DOMAIN batches : Range(batches[b]) \subseteq Nat
  /\ DOMAIN batch_map \subseteq Nat /\ Range(batch_map) \subseteq DOMAIN batches
  /\ at \in {"idle", "pull", "block", "txs", "store", "store_on", "unloadable"}
  /\ index \in Nat /\ first \in Nat /\ ntx \in Nat /\ added \in Nat /\ try_count \in 0..Tries
  /\ wallet_file.state \in {"none", "whole", "broken"}
  /\ votes_file.state \in {"none", "whole", "broken"}

\* What a wallet that reads the blocks of c for the first time finds.
ScanBlock(c, h) ==
  LET mine == SelectSeq(BlockTxs[c[h]], LAMBDA t : t \in Mine)
  IN  [n \in DOMAIN mine |-> [tx |-> mine[n], height |-> h - 1, global |-> GlobalIndex(c, mine[n])]]
Scan(c) == FlattenSeq([h \in DOMAIN c |-> ScanBlock(c, h)])

(***************************************************************************)
(* Between calls the wallet holds what a new wallet would find in the same *)
(* blocks: each output once, at its height, with the key image pointing to *)
(* it, and (unless the daemon left a chain while it was being processed)   *)
(* with the output index of that chain.  It survives reorganisations,      *)
(* retried pulls, stops, lost answers, crashes and interrupted stores; the *)
(* one exception is an exception in the middle of a block (process_new_-   *)
(* transaction, detach_blockchain).                                        *)
(***************************************************************************)
ScanIsExact ==
  at = "idle" /\ ~torn =>
    LET scan == Scan(blockchain)
    IN  /\ Len(transfers) = Len(scan)
        /\ \A p \in DOMAIN scan :
             /\ transfers[p].tx = scan[p].tx /\ transfers[p].height = scan[p].height
             /\ ~shaken => transfers[p].global = scan[p].global
             /\ scan[p].tx \in DOMAIN key_images /\ key_images[scan[p].tx] = p
        /\ DOMAIN key_images \subseteq {scan[p].tx : p \in DOMAIN scan}

(***************************************************************************)
(* Between calls, no output that a transaction of the wallet's blocks      *)
(* spends counts as money, whoever's answer was lost and whatever was      *)
(* detached (balance, process_new_transaction).                            *)
(***************************************************************************)
SpentIsSeen ==
  at = "idle" /\ ~torn =>
    \A p \in Unspent, h \in DOMAIN blockchain :
      \A t \in Range(BlockTxs[blockchain[h]]) : transfers[p].tx \notin Spends[t]

(***************************************************************************)
(* m_batches and m_transfer_batch_map say the same, each transfer is in    *)
(* one batch at most, and every index is one of m_transfers, at every step *)
(* of a detach, a retry and a transfer, as long as no store() was cut      *)
(* short (detach_blockchain, process_transaction_sent).                    *)
(***************************************************************************)
BatchesMatch ==
  ~cut =>
    /\ ValidBatches
    /\ \A b \in DOMAIN batches, p \in DOMAIN transfers :
         p \in Range(batches[b]) <=> p \in DOMAIN batch_map /\ batch_map[p] = b
    /\ DOMAIN batch_map \subseteq DOMAIN transfers

(***************************************************************************)
(* pull_blocks: the block from which the response starts is the wallet's   *)
(* own block of that height, so a split is never found there.              *)
(***************************************************************************)
SplitAfterFirst == Differs => index # first

(***************************************************************************)
(* detach_blockchain: the key image of each transfer is there ("key image  *)
(* not found" is an internal error).                                       *)
(***************************************************************************)
DetachFinds == ~missed

(***************************************************************************)
(* wallet2_voting_batch: between calls the indexes of a batch are indexes  *)
(* of m_transfers (anything else is an internal error, in every transfer). *)
(***************************************************************************)
BatchIndexesValid == at = "idle" => ValidBatches

(***************************************************************************)
(* load: a wallet file that could not be written to the end is not a big   *)
(* problem.                                                                *)
(***************************************************************************)
LoadsAgain == at = "unloadable" => wallet_file # Broken

(***************************************************************************)
(* The wallet ends up with the daemon's chain, once the daemon stays with  *)
(* one and its RPC answers, or has been left with a half-processed block.  *)
(***************************************************************************)
CatchesUp == <>[](torn \/ blockchain = Chain[tip])
=============================================================================
