----------------------------- MODULE Delegates ------------------------------
(***************************************************************************)
(* The delegated-proof-of-stake state of blockchain_storage: m_delegates,  *)
(* m_vote_histories, m_spent_keys and m_top_delegates, as blocks are added *)
(* to the main chain (handle_block_to_main_chain) and popped from it       *)
(* (pop_block_from_blockchain).                                            *)
(*                                                                         *)
(* A block carries the inputs of its transactions in order: registrations, *)
(* votes and spends.  A transaction has one of them.  A timestamp is kept  *)
(* as the number of whole DPOS_DELEGATE_SLOT_TIME slots since the previous *)
(* block, and all blocks are less than a day apart, so that averages of    *)
(* fees reach back to the genesis block.  m_autovote_delegates and the     *)
(* cached ranks, which only the wallet's RPC reads, are left out.          *)
(***************************************************************************)
EXTENDS Integers, Sequences, FiniteSets, SequencesExt

CONSTANTS
  DelegateIds,        \* delegate ids that may be registered
  Address,            \* Address[d]: place of d's address in string order
  Coins,              \* key images
  Amount,             \* Amount[k]: amount of the coin
  NumDelegates,       \* config::dpos_num_delegates
  MaxVote,            \* get_max_vote: the largest uint64_t
  RegistrationStart,  \* config::dpos_registration_start_block
  DposSwitch,         \* config::dpos_switch_block
  Fees,               \* fee totals that a block may have
  MaxHeight,          \* bound: height of the chain
  MaxTxs,             \* bound: inputs in a block
  MaxInputs,          \* bound: inputs in the chain
  MaxSlots            \* bound: slots between two blocks

ASSUME DelegatesAssumption ==
  /\ DelegateIds \subseteq Nat \ {0}
  /\ Address \in [DelegateIds -> Nat]
  /\ Amount \in [Coins -> Nat]
  /\ {NumDelegates, MaxVote, RegistrationStart, MaxHeight, MaxTxs,
      MaxInputs, MaxSlots} \subseteq Nat
  /\ DposSwitch \in Nat \ {0}
  /\ NumDelegates > 0

VARIABLES
  chain,           \* blocks of the main chain; height h is chain[h + 1]
  delegates,       \* m_delegates
  vote_histories,  \* m_vote_histories: per coin, the delegates voted for each time
  spent_keys,      \* m_spent_keys
  top_delegates,   \* m_top_delegates
  inputs,          \* inputs added so far of the block being added
  before           \* history: before[i] is the state that chain[i] was added
                   \* to, and the last one the state the next block starts from

dposVars == <<chain, delegates, vote_histories, spent_keys, top_delegates, inputs, before>>

Input ==
  [type : {"register"}, id : DelegateIds]
    \cup [type : {"vote"}, coin : Coins, seq : 0..MaxHeight, votes : SUBSET DelegateIds]
    \cup [type : {"spend"}, coin : Coins]

Height == Len(chain)                 \* of the next block: m_pblockchain_entries->size()
Pos(h) == h >= DposSwitch
Genesis == [inputs |-> <<>>, signer |-> 0, slots |-> 0, fees |-> 0]

-----------------------------------------------------------------------------
(* Votes.  s is the part of the state that inputs change.                  *)

Current == [delegates |-> delegates, histories |-> vote_histories, spent |-> spent_keys]

AddVotes(ds, votes, n) ==
  [d \in DOMAIN ds |-> IF d \in votes THEN [ds[d] EXCEPT !.total_votes = @ + n] ELSE ds[d]]

LastVotes(s, k) == IF s.histories[k] = <<>> THEN {} ELSE Last(s.histories[k])

(***************************************************************************)
(* check_tx_in_register_delegate, check_tx_in_vote, check_tx_in_to_key.    *)
(* Fees and ring signatures are taken to be right.                         *)
(***************************************************************************)
CheckInput(s, inp) ==
  CASE inp.type = "register" ->
         /\ Height >= RegistrationStart
         /\ inp.id \notin DOMAIN s.delegates
         /\ \A d \in DOMAIN s.delegates : Address[d] # Address[inp.id]
    [] inp.type = "vote" ->
         /\ Height >= RegistrationStart
         /\ Cardinality(inp.votes) <= NumDelegates
         /\ inp.coin \notin s.spent
         /\ inp.seq = Len(s.histories[inp.coin])
         /\ \A d \in inp.votes :
              /\ d \in DOMAIN s.delegates
              /\ s.delegates[d].total_votes + Amount[inp.coin] <= MaxVote
    [] inp.type = "spend" -> inp.coin \notin s.spent

\* Mutant of ApplyInput: a spent coin keeps its votes.
ApplyInput_SpendKeepsVotes(s, inp) ==
  CASE inp.type = "register" ->
         [s EXCEPT !.delegates = (inp.id :> [total_votes |-> 0, processed_blocks |-> 0,
                                             missed_blocks |-> 0, fees_received |-> 0]) @@ @]
    [] inp.type = "vote" ->
         [s EXCEPT !.delegates = AddVotes(AddVotes(@, LastVotes(s, inp.coin), -Amount[inp.coin]),
                                          inp.votes, Amount[inp.coin]),
                   !.histories[inp.coin] = Append(@, inp.votes)]
    [] inp.type = "spend" -> [s EXCEPT !.spent = @ \cup {inp.coin}]

(***************************************************************************)
(* add_transaction_input_visitor: a vote replaces the coin's last one, and *)
(* a spend takes it back.                                                  *)
(***************************************************************************)
ApplyInput(s, inp) ==
  CASE inp.type = "register" ->
         [s EXCEPT !.delegates = (inp.id :> [total_votes |-> 0, processed_blocks |-> 0,
                                             missed_blocks |-> 0, fees_received |-> 0]) @@ @]
    [] inp.type = "vote" ->
         [s EXCEPT !.delegates = AddVotes(AddVotes(@, LastVotes(s, inp.coin), -Amount[inp.coin]),
                                          inp.votes, Amount[inp.coin]),
                   !.histories[inp.coin] = Append(@, inp.votes)]
    [] inp.type = "spend" ->
         [s EXCEPT !.delegates = AddVotes(@, LastVotes(s, inp.coin), -Amount[inp.coin]),
                   !.spent = @ \cup {inp.coin}]

(***************************************************************************)
(* purge_transaction_visitor, and whether its assertions hold.             *)
(***************************************************************************)
PurgeAccepts(s, inp) ==
  CASE inp.type = "register" -> inp.id \in DOMAIN s.delegates
    [] inp.type = "vote" ->
         /\ Len(s.histories[inp.coin]) = inp.seq + 1
         /\ Last(s.histories[inp.coin]) = inp.votes
         /\ \A d \in inp.votes :
              d \in DOMAIN s.delegates /\ s.delegates[d].total_votes >= Amount[inp.coin]
         /\ inp.seq > 0 => s.histories[inp.coin][inp.seq] \subseteq DOMAIN s.delegates
    [] inp.type = "spend" ->
         /\ inp.coin \in s.spent
         /\ \A d \in LastVotes(s, inp.coin) :
              /\ d \in DOMAIN s.delegates
              /\ s.delegates[d].total_votes + Amount[inp.coin] <= MaxVote

\* Mutants of PurgeInput: the vote before the purged one is not applied again,
\* and the purged vote stays in the history.
PurgeInput_NoReapply(s, inp) ==
  CASE inp.type = "register" -> [s EXCEPT !.delegates = Restrict(@, DOMAIN @ \ {inp.id})]
    [] inp.type = "vote" ->
         [s EXCEPT !.delegates = AddVotes(@, inp.votes, -Amount[inp.coin]),
                   !.histories[inp.coin] = Front(@)]
    [] inp.type = "spend" ->
         [s EXCEPT !.delegates = AddVotes(@, LastVotes(s, inp.coin), Amount[inp.coin]),
                   !.spent = @ \ {inp.coin}]

PurgeInput_HistoryKept(s, inp) ==
  CASE inp.type = "register" -> [s EXCEPT !.delegates = Restrict(@, DOMAIN @ \ {inp.id})]
    [] inp.type = "vote" -> [s EXCEPT !.delegates = AddVotes(@, inp.votes, -Amount[inp.coin])]
    [] inp.type = "spend" ->
         [s EXCEPT !.delegates = AddVotes(@, LastVotes(s, inp.coin), Amount[inp.coin]),
                   !.spent = @ \ {inp.coin}]

PurgeInput(s, inp) ==
  CASE inp.type = "register" -> [s EXCEPT !.delegates = Restrict(@, DOMAIN @ \ {inp.id})]
    [] inp.type = "vote" ->
         LET shorter == [s EXCEPT !.histories[inp.coin] = Front(@)]
         IN  [shorter EXCEPT !.delegates = AddVotes(AddVotes(@, inp.votes, -Amount[inp.coin]),
                                                    LastVotes(shorter, inp.coin),
                                                    Amount[inp.coin])]
    [] inp.type = "spend" ->
         [s EXCEPT !.delegates = AddVotes(@, LastVotes(s, inp.coin), Amount[inp.coin]),
                   !.spent = @ \ {inp.coin}]

(***************************************************************************)
(* purge_block_data_from_blockchain: last input first.  ok is FALSE once   *)
(* one was refused.                                                        *)
(***************************************************************************)
PurgeBlockData(ins) ==
  LET purge(s, inp) == IF s.ok /\ PurgeAccepts(s, inp) THEN PurgeInput(s, inp)
                       ELSE [s EXCEPT !.ok = FALSE]
  IN  FoldLeft(purge, [ok |-> TRUE] @@ Current, Reverse(ins))

-----------------------------------------------------------------------------
(* Top delegates and slots. *)

(***************************************************************************)
(* recalculate_top_delegates: the first NumDelegates by votes, ties broken *)
(* by address, in descending order.                                        *)
(***************************************************************************)
Outranks(ds, a, b) ==
  \/ ds[a].total_votes > ds[b].total_votes
  \/ ds[a].total_votes = ds[b].total_votes /\ Address[a] > Address[b]

TopDelegates(ds) ==
  {d \in DOMAIN ds : Cardinality({a \in DOMAIN ds : Outranks(ds, a, d)}) < NumDelegates}

\* Mutant of NthSortedItemAfter: the wrap-around misses the last item.
NthSortedItemAfter_ShortWrap(S, start, n) ==
  LET items == SetToSortSeq(S, <)
      below == Cardinality({x \in S : x < start})
      start_index == IF below = Len(items) THEN 0 ELSE below
      size == IF Len(items) > 1 THEN Len(items) - 1 ELSE 1
  IN  items[((start_index + n) % size) + 1]

(***************************************************************************)
(* nth_sorted_item_after: lower_bound of start among the sorted items, or  *)
(* the first of them if there is none, and n places on from there.         *)
(***************************************************************************)
NthSortedItemAfter(S, start, n) ==
  LET items == SetToSortSeq(S, <)
      below == Cardinality({x \in S : x < start})
      start_index == IF below = Len(items) THEN 0 ELSE below
  IN  items[((start_index + n) % Len(items)) + 1]

(***************************************************************************)
(* get_signing_delegate, for a block of height h that comes n whole slots  *)
(* after its predecessor.                                                  *)
(***************************************************************************)
PrevDelegate(h) == IF h = DposSwitch THEN 0 ELSE chain[h].signer

SigningDelegate(n) == NthSortedItemAfter(top_delegates, PrevDelegate(Height) + 1, n)

(***************************************************************************)
(* average_past_block_fees                                                 *)
(***************************************************************************)
AveragePastBlockFees(h) ==
  IF h = 0 THEN 0 ELSE SumFunction([i \in 1..h |-> chain[i].fees]) \div h

(***************************************************************************)
(* The statistics of a block of height h: its signer and those whose slots *)
(* went by.  They are kept for PoS blocks that follow a PoS block, and not *)
(* for the first two blocks.                                               *)
(***************************************************************************)
Counted(h) == h >= 2 /\ Pos(h) /\ Pos(h - 1)

Missed(top, prev, n, d) ==
  Cardinality({i \in 0..(n - 1) : NthSortedItemAfter(top, prev + 1, i) = d})

CountStats(ds, top, prev, block, sign, reward) ==
  [d \in DOMAIN ds |->
     [ds[d] EXCEPT !.missed_blocks = @ + sign * Missed(top, prev, block.slots, d),
                   !.processed_blocks = IF d = block.signer THEN @ + sign ELSE @,
                   !.fees_received = IF d = block.signer THEN (@ + sign * reward) % (MaxVote + 1)
                                     ELSE @]]

-----------------------------------------------------------------------------
(* Actions. *)

(***************************************************************************)
(* handle_block_to_main_chain adds the transactions of a block one by one, *)
(* each checked against the state the ones before it left.                 *)
(***************************************************************************)
InputsInChain == SumFunction([i \in DOMAIN chain |-> Len(chain[i].inputs)])

AddTransaction(inp) ==
  /\ Height <= MaxHeight
  /\ Len(inputs) < MaxTxs
  /\ Len(inputs) + InputsInChain < MaxInputs
  /\ CheckInput(Current, inp)
  /\ LET s == ApplyInput(Current, inp)
     IN  /\ delegates' = s.delegates
         /\ vote_histories' = s.histories
         /\ spent_keys' = s.spent
  /\ inputs' = Append(inputs, inp)
  /\ UNCHANGED <<chain, top_delegates, before>>

(***************************************************************************)
(* A later transaction, or the coinbase, is not valid: what was added of   *)
(* the block is purged.                                                    *)
(***************************************************************************)
RefuseBlock ==
  LET s == PurgeBlockData(inputs)
  IN  /\ inputs # <<>>
      /\ s.ok
      /\ delegates' = s.delegates
      /\ vote_histories' = s.histories
      /\ spent_keys' = s.spent
      /\ inputs' = <<>>
      /\ UNCHANGED <<chain, top_delegates, before>>

\* Mutant of CountBlock: against the top delegates that the block leads to.
CountBlock_NewTop(block) ==
  IF Counted(Height)
  THEN CountStats(delegates, TopDelegates(delegates), chain[Height].signer, block, 1,
                  AveragePastBlockFees(Height))
  ELSE delegates

(***************************************************************************)
(* The statistics of a block that is being added, against the top          *)
(* delegates that the slots went by for.                                   *)
(***************************************************************************)
CountBlock(block) ==
  IF Counted(Height)
  THEN CountStats(delegates, top_delegates, chain[Height].signer, block, 1,
                  AveragePastBlockFees(Height))
  ELSE delegates

(***************************************************************************)
(* The end of handle_block_to_main_chain, for a block that comes n slots   *)
(* after the one before it.  A PoS block is signed by the delegate whose   *)
(* slot it is, or it would have been refused.                              *)
(***************************************************************************)
FinishBlock(n, fees) ==
  LET block == [inputs |-> inputs, slots |-> n, fees |-> fees,
                signer |-> IF Pos(Height) THEN SigningDelegate(n) ELSE 0]
  IN  /\ Height <= MaxHeight
      /\ IF Pos(Height) THEN top_delegates # {} ELSE n = 0
      /\ chain' = Append(chain, block)
      /\ delegates' = CountBlock(block)
      /\ top_delegates' = TopDelegates(delegates')
      /\ inputs' = <<>>
      /\ UNCHANGED <<vote_histories, spent_keys>>
      /\ before' = Append(before, [delegates |-> delegates', histories |-> vote_histories,
                                   spent |-> spent_keys, top |-> top_delegates'])

\* Mutant of UndoStats: undone for the first PoS block too.
UndoStats_FirstToo(s, top, h) ==
  IF Pos(h) THEN CountStats(s.delegates, top, PrevDelegate(h), chain[h + 1], -1, 0)
  ELSE s.delegates

(***************************************************************************)
(* pop_block_from_blockchain: the transactions are purged, the top         *)
(* delegates recalculated, and the statistics undone against those.  The   *)
(* fees that are taken back are those of the height below.                 *)
(***************************************************************************)
UndoStats(s, top, h) ==
  IF Counted(h)
  THEN CountStats(s.delegates, top, chain[h].signer, chain[h + 1], -1,
                  AveragePastBlockFees(h - 1))
  ELSE s.delegates

PopBlock ==
  LET h == Height - 1
      s == PurgeBlockData(Last(chain).inputs)
      top == TopDelegates(s.delegates)
  IN  /\ inputs = <<>>
      /\ h > 0
      /\ s.ok
      /\ delegates' = UndoStats(s, top, h)
      /\ vote_histories' = s.histories
      /\ spent_keys' = s.spent
      /\ top_delegates' = top
      /\ chain' = Front(chain)
      /\ before' = Front(before)
      /\ UNCHANGED inputs

Init ==
  /\ chain = <<Genesis>>
  /\ delegates = [d \in {} |-> 0]
  /\ vote_histories = [k \in Coins |-> <<>>]
  /\ spent_keys = {}
  /\ top_delegates = {}
  /\ inputs = <<>>
  /\ before = <<[top |-> {}] @@ Current, [top |-> {}] @@ Current>>

Next ==
  \/ \E inp \in Input : AddTransaction(inp)
  \/ RefuseBlock
  \/ \E n \in 0..MaxSlots, fees \in Fees : FinishBlock(n, fees)
  \/ PopBlock

Spec == Init /\ [][Next]_dposVars

-----------------------------------------------------------------------------
(* Properties. *)

Delegate == [total_votes : 0..MaxVote, processed_blocks : Nat, missed_blocks : Nat,
             fees_received : 0..MaxVote]

(***************************************************************************)
(* Every container holds values of its type; in particular no counter of   *)
(* m_delegates is decremented below zero, where uint64_t would wrap.       *)
(***************************************************************************)
DelegatesTypeOK ==
  /\ chain \in Seq([inputs : Seq(Input), signer : DelegateIds \cup {0}, slots : 0..MaxSlots,
                    fees : Nat])
  /\ DOMAIN delegates \subseteq DelegateIds
  /\ delegates \in [DOMAIN delegates -> Delegate]
  /\ vote_histories \in [Coins -> Seq(SUBSET DelegateIds)]
  /\ spent_keys \subseteq Coins
  /\ top_delegates \subseteq DOMAIN delegates
  /\ inputs \in Seq(Input)

(***************************************************************************)
(* A delegate's total_votes is the sum of the unspent coins whose latest   *)
(* vote is for it, through any sequence of votes, repeated votes, spends   *)
(* and popped blocks.                                                      *)
(***************************************************************************)
VotesTally ==
  \A d \in DOMAIN delegates :
    delegates[d].total_votes =
      SumFunctionOnSet(Amount, {k \in Coins \ spent_keys : d \in LastVotes(Current, k)})

(***************************************************************************)
(* Neither pop_block_from_blockchain nor the purge of a refused block ever *)
(* fails: no assertion of purge_transaction_visitor is false.              *)
(***************************************************************************)
PurgeNeverFails ==
  PurgeBlockData(IF inputs = <<>> THEN Last(chain).inputs ELSE inputs).ok

(***************************************************************************)
(* Popping a block, and refusing one halfway, restores the delegates, the  *)
(* votes, the spent coins and the top delegates that were there before the *)
(* block.  (The fees are left aside: see FeesOfChain.)                     *)
(***************************************************************************)
WithoutFees(ds) == [d \in DOMAIN ds |-> [ds[d] EXCEPT !.fees_received = 0]]

UndoExact ==
  inputs = <<>> =>
    /\ WithoutFees(delegates) = WithoutFees(Last(before).delegates)
    /\ vote_histories = Last(before).histories
    /\ spent_keys = Last(before).spent
    /\ top_delegates = Last(before).top

(***************************************************************************)
(* The statistics are those of the blocks of the chain: a delegate has     *)
(* processed the counted blocks it signed and missed the slots that were   *)
(* its by the top delegates of the time.                                   *)
(***************************************************************************)
CountedBlocks == {i \in DOMAIN chain : Counted(i - 1)}

StatsOfChain ==
  \A d \in DOMAIN delegates :
    /\ delegates[d].processed_blocks = Cardinality({i \in CountedBlocks : chain[i].signer = d})
    /\ delegates[d].missed_blocks =
         SumFunctionOnSet([i \in DOMAIN chain |->
                             IF i \in CountedBlocks
                             THEN Missed(before[i].top, chain[i - 1].signer, chain[i].slots, d)
                             ELSE 0], DOMAIN chain)

(***************************************************************************)
(* Any run of as many consecutive slots as there are top delegates gives   *)
(* each of them one slot, whichever of them, or former one of them, signed *)
(* the last block.                                                         *)
(***************************************************************************)
SlotsRotate ==
  Pos(Height) => \A m \in 0..MaxSlots :
    top_delegates = {SigningDelegate(m + i) : i \in 0..(Cardinality(top_delegates) - 1)}

(***************************************************************************)
(* "undo missing delegate block stats": a delegate's fees_received is what *)
(* the blocks of the chain that it signed brought it.                      *)
(***************************************************************************)
FeesOfChain ==
  \A d \in DOMAIN delegates :
    delegates[d].fees_received =
      SumFunctionOnSet([i \in DOMAIN chain |-> AveragePastBlockFees(i - 1)],
                       {i \in CountedBlocks : chain[i].signer = d})

(***************************************************************************)
(* "given [10, 4, 0, 13] ... nth_sorted_item_after(10, 5) -> 10": five     *)
(* places on from one of four items is that item again.                    *)
(***************************************************************************)
FivePlacesOnOfFour ==
  \A d \in top_delegates :
    Cardinality(top_delegates) = 4 => NthSortedItemAfter(top_delegates, d, 5) = d

=============================================================================
