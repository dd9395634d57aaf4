----------------------------- MODULE MCRecords ------------------------------
(***************************************************************************)
(* What the programs keep record of: the files of the chain and the pool,  *)
(* the currencies and contracts, the difficulties and timestamps of two    *)
(* chains, the peers, the templates of the miner, and the wallet's view of *)
(* the chain.  The models share no state, so a behaviour is one of any of  *)
(* them: part says of which, and the variables of the others stay as they  *)
(* began.                                                                  *)
(***************************************************************************)
EXTENDS Persistence, TLC

VARIABLES
  part,
  contract_chain, db, stuck,                                             \* Contracts
  main, fork, alt,                                                       \* Difficulty
  white, gray, merging, outer_bs,                                        \* PeerList
  chain, fresh, slot, m_template, m_template_no, m_pausers_count, miner_pc, after, bl, b,
    local_template_ver, block_added, relayed,                            \* Miner
  tip, daemon_pool, blockchain, transfers, key_images, unconfirmed, batches, batch_map, at,
    response, index, first, ntx, added, try_count, wallet_file, votes_file, faults, crashes,
    torn, shaken, missed, cut                                            \* Wallet

contractsVars == <<contract_chain, db, stuck>>
difficultyVars == <<main, fork, alt>>
peersVars == <<white, gray, merging, outer_bs>>
minerVars == <<chain, fresh, slot, m_template, m_template_no, m_pausers_count, miner_pc, after, bl,
               b, local_template_ver, block_added, relayed>>
walletVars == <<tip, daemon_pool, blockchain, transfers, key_images, unconfirmed, batches,
                batch_map, at, response, index, first, ntx, added, try_count, wallet_file,
                votes_file, faults, crashes, torn, shaken, missed, cut>>
all == <<part, vars, contractsVars, difficultyVars, peersVars, minerVars, walletVars>>

\* One contract, backed by XPB: grading in thirds that do not divide the coins.
K == INSTANCE Contracts WITH
  Ids <- {"k"}, Keys <- {}, Descriptions <- {}, Scale <- 3, FeeScales <- {0, 1}, Grades <- {1, 3},
  Expiries <- {4}, Amounts <- {2, 5, 7}, Supply <- 7, MaxUint <- 14, MaxHeight <- 5, MaxTxs <- 1,
  chain <- contract_chain

\* Two ids and one description: currencies, a contract backed by one of them, reminting.
U == INSTANCE Contracts WITH
  Ids <- {"k1", "k2"}, Keys <- {"r"}, Descriptions <- {"d"}, Scale <- 2, FeeScales <- {1},
  Grades <- {1}, Expiries <- {3}, Amounts <- {1}, Supply <- 1, MaxUint <- 2, MaxHeight <- 2,
  MaxTxs <- 2, chain <- contract_chain

D == INSTANCE Difficulty WITH
  DIFFICULTY_WINDOW <- 4, DIFFICULTY_CUT <- 1, TIMESTAMP_WINDOW <- 3, Spacing <- 1,
  DPOS_DIFFICULTY <- 50, Target <- 8, SwitchBlock <- 5, EasyWindow <- 1, DposSwitch <- 7,
  Word <- 512, Times <- {0, 2, 5}, MaxMain <- 6, MaxAlt <- 5

\* Five addresses, one of them not allowed, and lists of one entry.
P == INSTANCE PeerList WITH
  Addrs <- {"a", "b", "c", "d", "e"}, Allowed <- {"a", "b", "c", "d"}, Times <- {0, 1},
  WhiteLimit <- 1, GrayLimit <- 1, MaxMerge <- 2

\* One worker and the thread of the network; of the slots after a block every
\* other one is this node's, shifted by one from block to block.
MCOurs == {p \in (1..4) \X (1..2) : (p[1] + p[2]) % 2 = 1}
M == INSTANCE Miner WITH
  Workers <- {0}, Requesters <- {-2}, PosFrom <- 2, Ours <- MCOurs, MaxBlocks <- 4, MaxSlot <- 2,
  MaxNo <- 1, pc <- miner_pc, added <- block_added

\* Two branches, g a1 a2 and g b1 b2 b3.  The outputs m1 and m2 are in both, at
\* other heights and indexes; c1 only in the first.  The wallet's own s spends
\* m1 and is in both, at their ends; v spends m2, pays change to the wallet and
\* is in b3 only.
MCPrev == ("a1" :> "g") @@ ("a2" :> "a1") @@ ("b1" :> "g") @@ ("b2" :> "b1") @@ ("b3" :> "b2")
MCBlocks == DOMAIN MCPrev
MCBlockTxs ==
  ("g" :> <<"cg">>) @@ ("a1" :> <<"c1", "m1", "m2">>) @@ ("a2" :> <<"ca", "s">>)
  @@ ("b1" :> <<"cb", "x", "m1">>) @@ ("b2" :> <<"cc", "m2">>) @@ ("b3" :> <<"cd", "s", "v">>)
MCSpends ==
  [t \in {"cg", "c1", "m1", "m2", "ca", "s", "cb", "x", "cc", "cd", "v"} |->
     IF t = "s" THEN {"m1"} ELSE IF t = "v" THEN {"m2"} ELSE {}]
W == INSTANCE Wallet WITH
  Genesis <- "g", Blocks <- MCBlocks, Prev <- MCPrev, BlockTxs <- MCBlockTxs,
  Mine <- {"c1", "m1", "m2", "v"}, Spends <- MCSpends, Own <- {"s", "v"}, SpendableAge <- 1,
  MaxCount <- 3, MaxVotes <- 1, Tries <- 1, StoreEvery <- 2, MaxFaults <- 1, MaxCrashes <- 1,
  pool <- daemon_pool

ASSUME InstancesAssumption ==
  /\ K!ContractsAssumption /\ U!ContractsAssumption /\ D!DifficultyAssumption
  /\ P!PeerListAssumption /\ M!MinerAssumption /\ W!WalletAssumption

OfFiles(A) ==
  /\ part = "files" /\ A
  /\ UNCHANGED <<part, contractsVars, difficultyVars, peersVars, minerVars, walletVars>>
OfContracts(A, p) ==
  part = p /\ A /\ UNCHANGED <<part, vars, difficultyVars, peersVars, minerVars, walletVars>>
OfDifficulty(A) ==
  /\ part = "difficulty" /\ A
  /\ UNCHANGED <<part, vars, contractsVars, peersVars, minerVars, walletVars>>
OfPeers(A) ==
  /\ part = "peers" /\ A
  /\ UNCHANGED <<part, vars, contractsVars, difficultyVars, minerVars, walletVars>>
OfMiner(A) ==
  /\ part = "miner" /\ A
  /\ UNCHANGED <<part, vars, contractsVars, difficultyVars, peersVars, walletVars>>
OfWallet(A) ==
  /\ part = "wallet" /\ A
  /\ UNCHANGED <<part, vars, contractsVars, difficultyVars, peersVars, minerVars>>

AllInit ==
  /\ part \in {"files", "contract", "currencies", "difficulty", "peers", "miner", "wallet"}
  /\ Init /\ D!Init /\ P!Init /\ M!Init /\ W!Init
  /\ IF part = "currencies" THEN U!Init ELSE K!Init

AllNext ==
  \/ OfFiles(Next)
  \/ OfContracts(K!Next, "contract")
  \/ OfContracts(U!Next, "currencies")
  \/ OfDifficulty(D!Next)
  \/ OfPeers(P!Next)
  \/ OfMiner(M!Next)
  \/ OfWallet(W!Next)

AllSpec == AllInit /\ [][AllNext]_all

-----------------------------------------------------------------------------
(* Properties, besides those of Persistence. *)

(***************************************************************************)
(* Coins are neither created nor lost: resolving, fusing and grading fees  *)
(* never pay out more XPB than was put in, lose at most the two coins of   *)
(* rounding for each portion, and total_amount_minted covers what is still *)
(* to be paid (NoCoinsCreated, RoundingBounded and MintedCoversPairs of    *)
(* Contracts).                                                             *)
(***************************************************************************)
CoinsKept == part = "contract" => K!NoCoinsCreated /\ K!RoundingBounded /\ K!MintedCoversPairs

(***************************************************************************)
(* purge_transaction_visitor undoes add_transaction_input_visitor: after a *)
(* refused or popped block the currencies, contracts and descriptions are  *)
(* those of the remaining blocks, and no purge fails (PurgeUndoesAdd and   *)
(* NeverStuck of Contracts).                                               *)
(***************************************************************************)
PurgeUndoesAdd == part = "currencies" => U!PurgeUndoesAdd /\ U!NeverStuck

(***************************************************************************)
(* A block needs the same difficulty, and within the window a timestamp    *)
(* above the same median, whether it extends the main chain or the same    *)
(* blocks as an alternative chain (DifficultiesAgree and                   *)
(* TimestampsAgreeInWindow of Difficulty).                                 *)
(***************************************************************************)
PathsAgree == D!DifficultiesAgree /\ D!TimestampsAgreeInWindow

(***************************************************************************)
(* No address is in both peer lists, even in the middle of merge_peerlist  *)
(* (see PeerList).                                                         *)
(***************************************************************************)
WhiteGrayDisjoint == P!WhiteGrayDisjoint

(***************************************************************************)
(* A block that was found here and relayed has the parts that              *)
(* create_block_template gathers under different locks from one chain (see *)
(* Miner).                                                                 *)
(***************************************************************************)
FoundIsWhole == M!FoundIsWhole

(***************************************************************************)
(* Between calls the wallet's transfers are those a new wallet would find  *)
(* in the same blocks, through reorganisations, retries, lost answers and  *)
(* crashes (refresh and detach_blockchain; see Wallet).                    *)
(***************************************************************************)
ScanIsExact == W!ScanIsExact

(***************************************************************************)
(* Between calls no output that the wallet's blocks spend counts as money  *)
(* (process_new_transaction; see Wallet).                                  *)
(***************************************************************************)
SpentIsSeen == W!SpentIsSeen

(***************************************************************************)
(* m_batches and m_transfer_batch_map agree at every step of a detach, a   *)
(* retry and a transfer (detach_blockchain, process_transaction_sent; see  *)
(* Wallet).                                                                *)
(***************************************************************************)
BatchesMatch == W!BatchesMatch
=============================================================================
