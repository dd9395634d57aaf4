------------------------------- MODULE Ledger -------------------------------
(***************************************************************************)
(* What blockchain_storage promises to whoever looks at it between two     *)
(* calls of add_new_block: one chain of blocks, which is valid as a whole  *)
(* and is only ever replaced, in one step, by a better one.                *)
(*                                                                         *)
(* Nothing here is incremental.  There are no spent keys, indexes,         *)
(* alternative entries, reorganisations or rollbacks: a chain is judged by *)
(* reading it from the genesis block on.                                   *)
(***************************************************************************)
EXTENDS Integers, Sequences, SequencesExt

CONSTANTS
  Txs, Images,                           \* as in TxPool
  Genesis, Prev, Difficulty, TxHashes,   \* as in Blockchain
  Source, Offset, UnlockWindow, Checkpoints,
  Sound                                  \* blocks without a fault of their own

VARIABLE chain  \* the blocks, in the order of their heights

-----------------------------------------------------------------------------

(***************************************************************************)
(* The transactions in chain order, each block's coinbase first, with the  *)
(* height at which they stand.  The n-th has global output index n.        *)
(***************************************************************************)
BlockRecord(b, h) ==
  LET ids == IF b = Genesis THEN <<b>> ELSE <<b>> \o TxHashes[b]
  IN  [i \in DOMAIN ids |-> [id |-> ids[i], height |-> h]]

Record(c) == FlattenSeq([i \in DOMAIN c |-> BlockRecord(c[i], i - 1)])

IsLinked(c) ==
  /\ c[1] = Genesis
  /\ \A i \in 2..Len(c) : c[i] \in Sound /\ Prev[c[i]] = c[i - 1]

PassesCheckpoints(c) == \A h \in DOMAIN Checkpoints : h < Len(c) => c[h + 1] = Checkpoints[h]

(***************************************************************************)
(* The n-th of r spends outputs that come before it and that it names by   *)
(* their place, coinbases only once they are UnlockWindow blocks old.      *)
(***************************************************************************)
SpendsEarlier(r, n) ==
  \A k \in Images[r[n].id] :
    LET source == r[Offset[r[n].id][k]]
    IN  /\ Offset[r[n].id][k] < n
        /\ source.id = Source[k]
        /\ source.id \notin Txs => r[n].height >= source.height + UnlockWindow

SpendsOnce(r) ==
  \A m, n \in {i \in DOMAIN r : r[i].id \in Txs} :
    m # n => r[m].id # r[n].id /\ Images[r[m].id] \cap Images[r[n].id] = {}

IsValid(c) ==
  /\ IsLinked(c)
  /\ PassesCheckpoints(c)
  /\ SpendsOnce(Record(c))
  /\ \A n \in DOMAIN Record(c) : Record(c)[n].id \in Txs => SpendsEarlier(Record(c), n)

(***************************************************************************)
(* A chain is better than another one if it has more work or ends in a     *)
(* checkpoint, and contains all checkpoints that the other one has passed. *)
(***************************************************************************)
Work(c) == FoldSeq(LAMBDA b, w : w + (IF b = Genesis THEN 1 ELSE Difficulty[b]), 0, c)

IsBetter(c, than) ==
  /\ Work(c) > Work(than) \/ Len(c) - 1 \in DOMAIN Checkpoints
  /\ \A h \in DOMAIN Checkpoints : h < Len(than) => h < Len(c)

Init == chain = <<Genesis>>
Adopt == chain' # chain /\ IsValid(chain') /\ IsBetter(chain', chain)

Spec == Init /\ [][Adopt]_chain

=============================================================================
