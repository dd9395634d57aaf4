------------------------------ MODULE Readiness ------------------------------
(***************************************************************************)
(* What the pool remembers of a transaction so as not to check its inputs  *)
(* again: add_tx and is_transaction_ready_to_go of tx_memory_pool, for one *)
(* transaction T, while the chain grows and is reorganised.                *)
(*                                                                         *)
(* A block is what it holds as far as T is concerned: the parent whose     *)
(* output T spends, a rival that spends that output, T itself, or neither  *)
(* (two such blocks can be told apart).                                    *)
(* The id of a block is the chain up to it.                                *)
(***************************************************************************)
EXTENDS Integers, Sequences, SequencesExt

CONSTANTS MaxHeight   \* bound on the length of the chain

ReadinessAssumption == MaxHeight \in Nat \ {0}

VARIABLES
  chain,   \* what the blocks hold, genesis first
  txd,     \* tx_details of T, NoTx when it is not in the pool
  adding,  \* a call of add_tx under way in another thread, NoCall if none
  answer   \* history: what is_transaction_ready_to_go last said of T, and whether it was valid

vars == <<chain, txd, adding, answer>>

Plain == {"nothing", "other"}
Holds == {"parent", "rival", "T"} \cup Plain
Where(c, what) == {i \in 1..Len(c) : c[i] = what}

(***************************************************************************)
(* The chains the node accepts: each transaction once, and the output      *)
(* spent once, after it was made.                                          *)
(***************************************************************************)
IsChain(c) ==
  /\ \A i, j \in 1..Len(c) : c[i] = c[j] /\ c[i] \notin Plain => i = j
  /\ \A i \in Where(c, "rival") \cup Where(c, "T") : \E j \in Where(c, "parent") : j < i
  /\ Where(c, "rival") = {} \/ Where(c, "T") = {}

null_hash == <<>>
Height == Len(chain)   \* get_current_blockchain_height
GetBlockIdByHeight(h) == IF h >= Height THEN null_hash ELSE SubSeq(chain, 1, h + 1)

(***************************************************************************)
(* validate_tx of T, and the height it leaves in *pmax_used_block_height:  *)
(* that of the parent's block, when the output is found and not spent.     *)
(***************************************************************************)
Valid(c) == Where(c, "parent") # {} /\ Where(c, "rival") = {} /\ Where(c, "T") = {}
MaxUsedHeight(c) == IF Valid(c) THEN (CHOOSE i \in Where(c, "parent") : TRUE) - 1 ELSE 0

NoTx == [in_pool |-> FALSE]
NoCall == [pc |-> "none"]
NoAnswer == [said |-> "nothing", valid |-> FALSE, excused |-> FALSE]

\* moved: history, the chain was reorganised since add_tx looked at it.
Details(kept, max_id, max_height, moved) ==
  [in_pool |-> TRUE, kept_by_block |-> kept, max_used_block_id |-> max_id,
   max_used_block_height |-> max_height, last_failed_id |-> null_hash,
   last_failed_height |-> 0, moved |-> moved]

Init ==
  /\ chain = <<"nothing">>
  /\ txd = NoTx
  /\ adding = NoCall
  /\ answer = NoAnswer

-----------------------------------------------------------------------------
(* add_tx, called for a transaction of a peer or of a peer's block.  The   *)
(* pool's lock is taken only for the insertion.                            *)

AddTxValidate(kept) ==
  /\ adding = NoCall
  /\ txd = NoTx /\ Where(chain, "T") = {}
  /\ adding' = [pc |-> "validated", kept |-> kept, res |-> Valid(chain),
                height |-> MaxUsedHeight(chain), id |-> null_hash, moved |-> FALSE]
  /\ UNCHANGED <<chain, txd, answer>>

AddTxMaxUsedId ==
  /\ adding.pc = "validated"
  /\ adding' = [adding EXCEPT !.pc = "insert", !.id = GetBlockIdByHeight(adding.height)]
  /\ UNCHANGED <<chain, txd, answer>>

(***************************************************************************)
(* A transaction that did not validate is kept for its block's sake; one   *)
(* that is already there is an error.                                      *)
(***************************************************************************)
AddTxInsert ==
  /\ adding.pc = "insert"
  /\ txd' = IF txd # NoTx THEN txd
            ELSE IF adding.res THEN Details(adding.kept, adding.id, adding.height, adding.moved)
            ELSE IF adding.kept THEN Details(TRUE, null_hash, 0, adding.moved)
            ELSE NoTx
  /\ adding' = NoCall
  /\ UNCHANGED <<chain, answer>>

-----------------------------------------------------------------------------
(* The chain. *)

(***************************************************************************)
(* A block is added; take_tx removes T from the pool when the block has it.*)
(***************************************************************************)
AddBlock(what) ==
  /\ Len(chain) < MaxHeight
  /\ IsChain(Append(chain, what))
  /\ what = "T" => txd # NoTx
  /\ chain' = Append(chain, what)
  /\ txd' = IF what = "T" THEN NoTx ELSE txd
  /\ UNCHANGED <<adding, answer>>

(***************************************************************************)
(* The last pop blocks give way to more: T goes back to the pool with its  *)
(* block, when the parent is still there, and a new block may take it.     *)
(***************************************************************************)
Reorganise(pop, new) ==
  LET kept_part == SubSeq(chain, 1, Len(chain) - pop)
      moved(d) == IF d = NoTx THEN NoTx ELSE [d EXCEPT !.moved = TRUE]
      back == \E i \in Where(chain, "T") : i > Len(kept_part)
      parent == CHOOSE i \in 1..Len(chain) : Where(chain, "parent") # {} => chain[i] = "parent"
      pooled == IF back /\ txd = NoTx
                THEN Details(TRUE, SubSeq(chain, 1, parent), parent - 1, TRUE)
                ELSE moved(txd)
  IN  /\ pop < Len(chain) /\ pop < Len(new)
      /\ Len(kept_part) + Len(new) <= MaxHeight
      /\ IsChain(kept_part \o new)
      /\ "T" \in Range(new) => pooled # NoTx
      /\ chain' = kept_part \o new
      /\ txd' = IF "T" \in Range(new) THEN NoTx ELSE pooled
      /\ adding' = IF adding = NoCall THEN NoCall ELSE [adding EXCEPT !.moved = TRUE]
      /\ UNCHANGED answer

-----------------------------------------------------------------------------
(* is_transaction_ready_to_go, under the pool's lock, which add_new_block  *)
(* takes too: the chain stands still.                                      *)

SkipFailed ==
  /\ txd.last_failed_id # null_hash
  /\ Height > txd.last_failed_height
  /\ txd.last_failed_id = GetBlockIdByHeight(txd.last_failed_height)

SkipMoved ==
  \/ txd.max_used_block_height >= Height
  \/ /\ GetBlockIdByHeight(txd.max_used_block_height) # txd.max_used_block_id
     /\ txd.last_failed_id = GetBlockIdByHeight(txd.last_failed_height)

Skips == IF txd.max_used_block_id = null_hash THEN SkipFailed ELSE SkipMoved

Say(said) ==
  answer' = [said |-> said, valid |-> Valid(chain), excused |-> txd.kept_by_block \/ txd.moved]

\* Mutant of IsTransactionReadyToGo: the inputs are not checked again while the
\* block with the newest of them is in place.
IsTransactionReadyToGo_Trusting ==
  /\ txd # NoTx
  /\ IF Skips THEN Say("skipped") /\ UNCHANGED txd
     ELSE IF GetBlockIdByHeight(txd.max_used_block_height) = txd.max_used_block_id
     THEN Say("ready") /\ UNCHANGED txd
     ELSE /\ txd' = [txd EXCEPT !.max_used_block_height = MaxUsedHeight(chain)]
          /\ Say(IF Valid(chain) THEN "ready" ELSE "invalid")
  /\ UNCHANGED <<chain, adding>>

IsTransactionReadyToGo ==
  /\ txd # NoTx
  /\ IF Skips THEN Say("skipped") /\ UNCHANGED txd
     ELSE IF Valid(chain)
     THEN /\ txd' = [txd EXCEPT !.max_used_block_height = MaxUsedHeight(chain)]
          /\ Say("ready")
     ELSE /\ txd' = [txd EXCEPT !.max_used_block_height = MaxUsedHeight(chain),
                                !.last_failed_height = Height - 1,
                                !.last_failed_id = GetBlockIdByHeight(Height - 1)]
          /\ Say("invalid")
  /\ UNCHANGED <<chain, adding>>

(***************************************************************************)
(* The pool as fill_block_template goes through it, which may be empty.    *)
(***************************************************************************)
FillBlockTemplate == IF txd = NoTx THEN UNCHANGED vars ELSE IsTransactionReadyToGo

Next ==
  \/ \E kept \in BOOLEAN : AddTxValidate(kept)
  \/ AddTxMaxUsedId \/ AddTxInsert
  \/ \E what \in Holds : AddBlock(what)
  \/ \E pop \in 1..2 : \E new \in [1..(pop + 1) -> Holds] : Reorganise(pop, new)
  \/ FillBlockTemplate

Spec == Init /\ [][Next]_vars

-----------------------------------------------------------------------------
(* Properties. *)

(***************************************************************************)
(* The chain never holds the transaction twice, and the block that the     *)
(* pool remembers for it is at a height the chain may have.                *)
(***************************************************************************)
ReadinessTypeOK ==
  /\ IsChain(chain)
  /\ txd = NoTx \/ txd.max_used_block_height \in 0..MaxHeight - 1
  /\ adding.pc \in {"none", "validated", "insert"}
  /\ answer.said \in {"nothing", "skipped", "invalid", "ready"}

(***************************************************************************)
(* However old what is remembered, and whatever the chain did between the  *)
(* two locks of add_tx, a transaction that is said to be ready is valid on *)
(* the chain of that moment, so fill_block_template never takes one that   *)
(* is not.                                                                 *)
(***************************************************************************)
ReadyIsValid == answer.said = "ready" => answer.valid

(***************************************************************************)
(* A valid transaction is passed over only if it came with a block or the  *)
(* chain was reorganised after it was checked: as long as the chain grows, *)
(* an ordinary transaction is never held back.                             *)
(***************************************************************************)
PassedOverOnlyIfMoved ==
  answer.said = "skipped" /\ answer.valid => answer.excused

(***************************************************************************)
(* The comment "we already sure that this tx is broken for this height": a *)
(* transaction that is passed over is not valid.                           *)
(***************************************************************************)
BrokenIsBroken == answer.said = "skipped" => ~answer.valid

=============================================================================
