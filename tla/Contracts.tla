----------------------------- MODULE Contracts -----------------------------
(***************************************************************************)
(* Sub-currencies and contracts in blockchain_storage: what the checks of  *)
(* an input admit, what the visitors that add and that purge a             *)
(* transaction do to m_currencies, m_contracts and                         *)
(* m_used_currency_descriptions, which coins process_txin_amounts burns    *)
(* and makes, and how contract_grading.cpp rounds.                         *)
(*                                                                         *)
(* A transaction has one input of these kinds and the coins it needs.      *)
(* Signatures are modelled by the key that signs.  The inputs are not yet  *)
(* engaged (check_inputs_types_supported refuses them before the pool);    *)
(* this is the storage behind that switch.                                 *)
(***************************************************************************)
EXTENDS Integers, FiniteSets, SequencesExt

CONSTANTS Ids,           \* ids of currencies and contracts (one name space)
          Keys,          \* remint keys
          Descriptions,  \* descriptions that are not empty
          Scale,         \* GRADE_SCALE_MAX
          FeeScales, Grades, Expiries, \* what txin_create_contract may say
          Amounts,       \* amounts of an input
          Supply,        \* XPB coins there are, in whole
          MaxUint,       \* the largest amount
          MaxHeight,     \* bound: blocks of the chain
          MaxTxs         \* bound: transactions of a block

ContractsAssumption ==
  /\ Scale \in Nat \ {0} /\ FeeScales \cup Grades \subseteq 0..Scale
  /\ Supply \in 0..MaxUint /\ Amounts \subseteq 1..MaxUint
  /\ MaxHeight \in Nat /\ Expiries \subseteq Nat

XPB == "XPB"
null_pkey == "null"
NoDescription == "none"

VARIABLES chain,  \* the blocks after genesis, each a sequence of inputs
          db,     \* what the storage keeps: currencies, contracts, descriptions, coins
          stuck   \* a purge has failed: "stuck! Must re-index"
vars == <<chain, db, stuck>>

Backings == Ids \cup {XPB}

\* coin_type: (currency, NotContract), (contract, BackingCoin or ContractCoin, currency)
Coin(c) == <<"NotContract", c, XPB>>
BackingCoin(k, c) == <<"BackingCoin", k, c>>
ContractCoin(k, c) == <<"ContractCoin", k, c>>
Pair(i) == {BackingCoin(i.id, i.cur), ContractCoin(i.id, i.cur)}
CoinTypes == {Coin(c) : c \in Backings} \cup
             UNION {{BackingCoin(k, c), ContractCoin(k, c)} : k \in Ids, c \in Backings}

-----------------------------------------------------------------------------
(* contract_grading.cpp                                                    *)

GradedAmount(full, grade) == (full * grade) \div Scale

\* the fee is rounded up until it pays for the whole graded amount
RECURSIVE RoundedUp(_, _, _)
RoundedUp(fee, graded, scale) ==
  IF scale > 0 /\ (fee * Scale) \div scale < graded
  THEN RoundedUp(fee + 1, graded, scale) ELSE fee

\* Mutant of FeeTaken: the fee is left rounded down.
FeeTaken_RoundedDown(graded, scale) == (graded * scale) \div Scale
FeeTaken(graded, scale) == RoundedUp((graded * scale) \div Scale, graded, scale)

grade_amount(full, grade, scale) ==
  LET graded == GradedAmount(full, grade) IN graded - FeeTaken(graded, scale)

grade_contract_amount(amount, grade, scale) == grade_amount(amount, grade, scale)
grade_backing_amount(amount, grade, scale) == grade_amount(amount, Scale - grade, scale)

calculate_total_fee(total, scale) == (total * scale) \div Scale

-----------------------------------------------------------------------------
(* The inputs                                                              *)

Inputs ==
  [type : {"mint"}, id : Ids, key : Keys \cup {null_pkey}, amount : Amounts,
   description : Descriptions \cup {NoDescription}] \cup
  [type : {"remint"}, id : Ids, by : Keys, key : Keys \cup {null_pkey}, amount : Amounts] \cup
  [type : {"create_contract"}, id : Ids, description : Descriptions \cup {NoDescription},
   fee_scale : FeeScales, expiry_block : Expiries, default_grade : Grades] \cup
  [type : {"mint_contract", "fuse_bc_coins"}, id : Ids, cur : Backings, amount : Amounts] \cup
  [type : {"grade_contract"}, id : Ids, grade : Grades, claims : SUBSET Backings] \cup
  [type : {"resolve_bc_coins"}, id : Ids, cur : Backings, backing : BOOLEAN, amount : Amounts] \cup
  [type : {"to_key"}, coin : CoinTypes, lost : {1}]

Exists(f, x) == x \in DOMAIN f
Put(f, x, v) == [y \in DOMAIN f \cup {x} |-> IF y = x THEN v ELSE f[y]]
Erase(f, x) == [y \in DOMAIN f \ {x} |-> f[y]]

\* get_grade_fee: the grade and fee a resolved contract pays by
IsResolved(ci, height) == ci.is_graded \/ height >= ci.expiry_block
GradeOf(ci) == IF ci.is_graded THEN ci.grade ELSE ci.default_grade
FeeScaleOf(ci) == IF ci.is_graded THEN ci.fee_scale ELSE 0

\* what `amount` coins of one side resolve to
Resolved(ci, backing, amount) ==
  IF backing THEN grade_backing_amount(amount, GradeOf(ci), FeeScaleOf(ci))
             ELSE grade_contract_amount(amount, GradeOf(ci), FeeScaleOf(ci))

\* the fees a grading input claims: exactly the allowed fee, and never zero
AllowedFee(d, i, c) == calculate_total_fee(d.contracts[i.id].minted[c], d.contracts[i.id].fee_scale)

\* process_txin_amounts: coins the input burns (negative) and makes, by type
AmountOf(d, i, coin) ==
  CASE i.type \in {"mint", "remint"} -> IF coin = Coin(i.id) THEN i.amount ELSE 0
    [] i.type = "mint_contract" -> CASE coin = Coin(i.cur) -> -i.amount
                                     [] coin \in Pair(i) -> i.amount
                                     [] OTHER -> 0
    [] i.type = "fuse_bc_coins" -> CASE coin = Coin(i.cur) -> i.amount
                                     [] coin \in Pair(i) -> -i.amount
                                     [] OTHER -> 0
    [] i.type = "resolve_bc_coins" ->
         CASE coin = Coin(i.cur) -> Resolved(d.contracts[i.id], i.backing, i.amount)
           [] coin = (IF i.backing THEN BackingCoin(i.id, i.cur) ELSE ContractCoin(i.id, i.cur))
                -> -i.amount
           [] OTHER -> 0
    [] i.type = "grade_contract" ->
         IF \E c \in i.claims : coin = Coin(c) THEN AllowedFee(d, i, coin[2]) ELSE 0
    [] i.type = "to_key" -> IF coin = i.coin THEN -i.lost ELSE 0
    [] OTHER -> 0

-----------------------------------------------------------------------------
(* blockchain_storage: the checks, at the height of the block that is added *)

IdIsFree(d, id) == ~Exists(d.currencies, id) /\ ~Exists(d.contracts, id)
DescriptionIsFree(d, i) == i.description = NoDescription \/ i.description \notin d.descriptions
IsOpen(d, height, id) == Exists(d.contracts, id) /\ ~IsResolved(d.contracts[id], height)

check_tx_in_mint(d, i) == i.type = "mint" /\ IdIsFree(d, i.id) /\ DescriptionIsFree(d, i)

RemintKey(ci) == Last(ci.remint_key_history)

check_tx_in_remint(d, i) ==
  /\ i.type = "remint" /\ Exists(d.currencies, i.id)
  /\ RemintKey(d.currencies[i.id]) # null_pkey
  /\ d.currencies[i.id].minted + i.amount <= MaxUint
  /\ i.by = RemintKey(d.currencies[i.id])

check_tx_in_create_contract(d, height, i) ==
  /\ i.type = "create_contract" /\ i.expiry_block > height
  /\ IdIsFree(d, i.id) /\ DescriptionIsFree(d, i)

check_tx_in_mint_contract(d, height, i) ==
  /\ i.type = "mint_contract" /\ IsOpen(d, height, i.id)
  /\ d.contracts[i.id].minted[i.cur] + i.amount <= MaxUint
  /\ i.cur = XPB \/ (~Exists(d.contracts, i.cur) /\ Exists(d.currencies, i.cur))

check_tx_in_grade_contract(d, height, i) ==
  /\ i.type = "grade_contract" /\ IsOpen(d, height, i.id)
  /\ i.claims \subseteq DOMAIN d.currencies \cup {XPB}
  /\ \A c \in i.claims : AllowedFee(d, i, c) # 0

check_tx_in_resolve_bc_coins(d, height, i) ==
  /\ i.type = "resolve_bc_coins" /\ Exists(d.contracts, i.id)
  /\ IsResolved(d.contracts[i.id], height)
  /\ Resolved(d.contracts[i.id], i.backing, i.amount) > 0

check_tx_in_fuse_bc_coins(d, height, i) ==
  /\ i.type = "fuse_bc_coins" /\ IsOpen(d, height, i.id)
  /\ i.amount <= d.contracts[i.id].minted[i.cur]

\* a transaction is its input and the coins it burns and makes
AmountsOf(d, i) == [coin \in CoinTypes |-> AmountOf(d, i, coin)]
Covered(d, amounts) == \A coin \in CoinTypes : d.coins[coin] + amounts[coin] \in 0..MaxUint

check_tx_input(d, height, i) ==
  /\ \/ check_tx_in_mint(d, i)
     \/ check_tx_in_remint(d, i)
     \/ check_tx_in_create_contract(d, height, i)
     \/ check_tx_in_mint_contract(d, height, i)
     \/ check_tx_in_grade_contract(d, height, i)
     \/ check_tx_in_resolve_bc_coins(d, height, i)
     \/ check_tx_in_fuse_bc_coins(d, height, i)
     \/ i.type = "to_key"
  /\ Covered(d, AmountsOf(d, i))

-----------------------------------------------------------------------------
(* add_transaction_input_visitor and purge_transaction_visitor             *)

Described(d, i) == d.descriptions \cup ({i.description} \ {NoDescription})
Undescribed(d, i) == d.descriptions \ {i.description}

AddMint(d, i) ==
  [d EXCEPT !.currencies = Put(@, i.id, [minted |-> i.amount, remint_key_history |-> <<i.key>>]),
            !.descriptions = Described(d, i)]
AddRemint(d, i) ==
  [d EXCEPT !.currencies[i.id].minted = @ + i.amount,
            !.currencies[i.id].remint_key_history = Append(@, i.key)]
AddCreateContract(d, i) ==
  [d EXCEPT !.contracts = Put(@, i.id, [fee_scale |-> i.fee_scale, expiry_block |-> i.expiry_block,
                                        default_grade |-> i.default_grade, is_graded |-> FALSE,
                                        grade |-> 0, minted |-> [c \in Backings |-> 0]]),
            !.descriptions = Described(d, i)]
AddGrade(d, i) == [d EXCEPT !.contracts[i.id].is_graded = TRUE, !.contracts[i.id].grade = i.grade]

AddMinted(d, i, amount) == [d EXCEPT !.contracts[i.id].minted[i.cur] = @ + amount]

AddInput(d, i) ==
  CASE i.type = "mint" -> AddMint(d, i)
    [] i.type = "remint" -> AddRemint(d, i)
    [] i.type = "create_contract" -> AddCreateContract(d, i)
    [] i.type = "mint_contract" -> AddMinted(d, i, i.amount)
    [] i.type = "fuse_bc_coins" -> AddMinted(d, i, -i.amount)
    [] i.type = "grade_contract" -> AddGrade(d, i)
    [] OTHER -> d

\* the conditions under which the purge visitor returns false, and the block is stuck
CanPurge(d, i) ==
  CASE i.type = "mint" -> /\ Exists(d.currencies, i.id)
                          /\ d.currencies[i.id] = [minted |-> i.amount, remint_key_history |-> <<i.key>>]
                          /\ Described(d, i) = d.descriptions
    [] i.type = "remint" -> /\ Exists(d.currencies, i.id)
                            /\ RemintKey(d.currencies[i.id]) = i.key
                            /\ d.currencies[i.id].minted >= i.amount
    [] i.type = "create_contract" -> /\ Exists(d.contracts, i.id)
                                     /\ \A f \in {"fee_scale", "expiry_block", "default_grade"} :
                                          d.contracts[i.id][f] = i[f]
                                     /\ ~d.contracts[i.id].is_graded /\ d.contracts[i.id].grade = 0
                                     /\ Described(d, i) = d.descriptions
    [] i.type = "mint_contract" -> /\ Exists(d.contracts, i.id)
                                   /\ d.contracts[i.id].minted[i.cur] >= i.amount
    [] i.type = "fuse_bc_coins" -> /\ Exists(d.contracts, i.id)
                                   /\ d.contracts[i.id].minted[i.cur] + i.amount <= MaxUint
    [] i.type = "grade_contract" -> Exists(d.contracts, i.id) /\ d.contracts[i.id].is_graded
    [] OTHER -> TRUE

PurgeRemint(d, i) ==
  [d EXCEPT !.currencies[i.id].minted = @ - i.amount, !.currencies[i.id].remint_key_history = Front(@)]
PurgeGrade(d, i) == [d EXCEPT !.contracts[i.id].is_graded = FALSE, !.contracts[i.id].grade = 0]

PurgeInput(d, i) ==
  CASE i.type = "mint" -> [d EXCEPT !.currencies = Erase(@, i.id), !.descriptions = Undescribed(d, i)]
    [] i.type = "remint" -> PurgeRemint(d, i)
    [] i.type = "create_contract" ->
         [d EXCEPT !.contracts = Erase(@, i.id), !.descriptions = Undescribed(d, i)]
    [] i.type = "mint_contract" -> AddMinted(d, i, -i.amount)
    [] i.type = "fuse_bc_coins" -> AddMinted(d, i, i.amount)
    [] i.type = "grade_contract" -> PurgeGrade(d, i)
    [] OTHER -> d

\* the outputs of a transaction join, or leave, the coins that can be spent
MoveCoins(d, amounts, sign) ==
  [d EXCEPT !.coins = [coin \in CoinTypes |-> d.coins[coin] + sign * amounts[coin]]]

-----------------------------------------------------------------------------
(* tx_input_compat_checker: may an input join those a checker has seen?    *)

Nothing == [minted_currencies |-> {}, used_descriptions |-> {}, reminted_currencies |-> {},
            graded_contracts |-> {}, minted_contracts |-> {}, fused_contracts |-> {}]

check_can_add_inp(icc, i) ==
  CASE i.type \in {"mint", "create_contract"} ->
         /\ i.id \in icc.minted_currencies
         /\ i.description # NoDescription /\ i.description \in icc.used_descriptions
    [] i.type = "remint" -> i.id \notin icc.reminted_currencies
    [] i.type \in {"mint_contract", "fuse_bc_coins"} -> i.id \notin icc.graded_contracts
    [] i.type = "grade_contract" -> /\ i.id \in icc.graded_contracts
                                    /\ i.id \in icc.minted_contracts /\ i.id \in icc.fused_contracts
    [] OTHER -> TRUE

is_tx_valid(i) == check_can_add_inp(Nothing, i)

-----------------------------------------------------------------------------
(* Adding and popping blocks                                               *)

Init ==
  /\ chain = <<>>
  /\ db = [currencies |-> <<>>, contracts |-> <<>>, descriptions |-> {},
           coins |-> [coin \in CoinTypes |-> IF coin = Coin(XPB) THEN Supply ELSE 0]]
  /\ stuck = FALSE

Height == Len(chain) + 1

\* one transaction of a block: [db, the transactions done, all right so far]
AddTransaction(height, acc, i) ==
  IF ~acc.ok \/ ~check_tx_input(acc.db, height, i) THEN [acc EXCEPT !.ok = FALSE]
  ELSE LET amounts == AmountsOf(acc.db, i)
       IN [db |-> MoveCoins(AddInput(acc.db, i), amounts, 1), ok |-> TRUE,
           txs |-> Append(acc.txs, [in |-> i, amounts |-> amounts])]

PurgeTransaction(acc, tx) ==
  IF CanPurge(acc.db, tx.in)
  THEN [acc EXCEPT !.db = MoveCoins(PurgeInput(acc.db, tx.in), tx.amounts, -1)]
  ELSE [acc EXCEPT !.ok = FALSE]

\* Mutant of PurgeBlockData: the first transaction first.
PurgeBlockData_InOrder(d, txs) == FoldLeft(PurgeTransaction, [db |-> d, ok |-> TRUE], txs)

\* purge_block_data_from_blockchain: the last transaction first
PurgeBlockData(d, txs) == FoldLeft(PurgeTransaction, [db |-> d, ok |-> TRUE], Reverse(txs))

\* handle_block_to_main_chain: all of the block, or none of it.  What follows a
\* refused transaction is never looked at, so no block has more after one.
AddBlock(ins) ==
  LET Add(acc, i) == AddTransaction(Height, acc, i)
      added == FoldLeft(Add, [db |-> db, ok |-> TRUE, txs |-> <<>>], ins)
      purged == PurgeBlockData(added.db, added.txs)
  IN /\ Len(added.txs) >= Len(ins) - 1
     /\ \/ added.ok /\ db' = added.db /\ chain' = Append(chain, added.txs) /\ UNCHANGED stuck
        \/ ~added.ok /\ db' = purged.db /\ stuck' = (stuck \/ ~purged.ok) /\ UNCHANGED chain

\* pop_block_from_blockchain
PopBlock ==
  LET purged == PurgeBlockData(db, Last(chain))
  IN /\ chain # <<>>
     /\ db' = purged.db /\ stuck' = (stuck \/ ~purged.ok)
     /\ chain' = IF purged.ok THEN Front(chain) ELSE chain

Next ==
  \/ Len(chain) < MaxHeight /\ \E ins \in BoundedSeq(Inputs, MaxTxs) : AddBlock(ins)
  \/ PopBlock
Spec == Init /\ [][Next]_vars

-----------------------------------------------------------------------------
(* Properties                                                              *)

CurrencyInfo == [minted : 1..MaxUint, remint_key_history : Seq(Keys \cup {null_pkey})]
ContractInfo == [fee_scale : FeeScales, expiry_block : Expiries, default_grade : Grades,
                 is_graded : BOOLEAN, grade : Grades \cup {0}, minted : [Backings -> 0..MaxUint]]

\* Every amount the storage keeps fits its width, whatever was minted,
\* reminted, fused, resolved and purged.
ContractsTypeOK ==
  /\ stuck \in BOOLEAN /\ Len(chain) <= MaxHeight
  /\ db.coins \in [CoinTypes -> 0..MaxUint]
  /\ DOMAIN db.currencies \cup DOMAIN db.contracts \subseteq Ids
  /\ \A c \in DOMAIN db.currencies : db.currencies[c] \in CurrencyInfo
  /\ \A k \in DOMAIN db.contracts : db.contracts[k] \in ContractInfo

\* Minting, fusing, grading, claiming the fee, expiry and resolving the two
\* sides in any portions never make a coin: there are never more XPB than the
\* supply, nor more of a sub-currency than was minted and reminted
\* (tests/unit_tests/contract_grading.cpp: "VERY BAD: Created ... coins!").
NoCoinsCreated ==
  /\ db.coins[Coin(XPB)] <= Supply
  /\ \A c \in DOMAIN db.currencies : db.coins[Coin(c)] <= db.currencies[c].minted

\* total_amount_minted covers the coins of both sides while a contract is
\* open, so that fusing cannot underflow it ("this underflow shouldn't happen",
\* add_transaction_input_visitor) and the grading fee is never short.
MintedCoversPairs ==
  \A k \in DOMAIN db.contracts, c \in Backings :
    /\ db.coins[BackingCoin(k, c)] <= db.contracts[k].minted[c]
    /\ db.coins[ContractCoin(k, c)] <= db.contracts[k].minted[c]

Replay ==
  LET Again(d, tx) == MoveCoins(AddInput(d, tx.in), tx.amounts, 1)
      start == [currencies |-> <<>>, contracts |-> <<>>, descriptions |-> {},
                coins |-> [coin \in CoinTypes |-> IF coin = Coin(XPB) THEN Supply ELSE 0]]
  IN FoldLeft(Again, start, FlattenSeq(chain))
\* What a block that was refused half way, or popped, leaves behind is exactly
\* what the remaining blocks put there: the purge visitor undoes the add visitor.
PurgeUndoesAdd == db = Replay

\* Popping a block never fails on the visitors' consistency checks
\* ("failed to purge transaction data, stuck! Must re-index").
NeverStuck == ~stuck

AllTxs == ToSet(FlattenSeq(chain))

\* A transaction the storage accepts is not refused by the compatibility check
\* as "Already minted currency/contract" or "Already graded contract" when
\* nothing but itself has been seen (is_tx_valid, called by check_tx_semantic).
AlreadyMeansBefore == \A tx \in AllTxs : is_tx_valid(tx.in)

Resolves == Len(SelectSeq(FlattenSeq(chain), LAMBDA tx : tx.in.type = "resolve_bc_coins"))
PaidOut(k) ==
  LET ci == db.contracts[k]
      fee == calculate_total_fee(ci.minted[XPB], ci.fee_scale)
  IN /\ IsResolved(ci, Height)
     /\ \/ ~ci.is_graded \/ fee = 0
        \/ \E tx \in AllTxs : tx.in.type = "grade_contract" /\ tx.in.id = k /\ XPB \in tx.in.claims
     /\ Resolved(ci, TRUE, db.coins[BackingCoin(k, XPB)]) = 0
     /\ Resolved(ci, FALSE, db.coins[ContractCoin(k, XPB)]) = 0
Rests == {coin \in CoinTypes : coin[1] # "NotContract" /\ db.coins[coin] > 0}
\* Rounding costs at most two coins for each portion that is resolved (unit
\* test: "should lose at most 2 coins (1 for grade, 1 for fee) per entry"):
\* once a graded contract has paid its fee and what is left of either side is
\* worth nothing, at most two XPB are missing for each resolving input and for
\* each worthless rest.
RoundingBounded ==
  /\ \A k \in DOMAIN db.contracts : PaidOut(k)
  /\ \A tx \in AllTxs : tx.in.type # "to_key"
  => Supply - db.coins[Coin(XPB)] <= 2 * (Resolves + Cardinality(Rests))
=============================================================================
