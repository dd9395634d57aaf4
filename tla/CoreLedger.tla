----------------------------- MODULE CoreLedger -----------------------------
(***************************************************************************)
(* Core implements Ledger: the indexes, reorganisations and rollbacks of   *)
(* blockchain_storage come to the same thing as judging whole chains.      *)
(***************************************************************************)
EXTENDS Core

(***************************************************************************)
(* The locks are held while a call runs, so the chain others see is the    *)
(* one it began with.                                                      *)
(***************************************************************************)
SeenEntries == IF pc = "idle" THEN entries ELSE original

SoundBlocks ==
  {b \in Blocks : /\ b \notin BadTimestamp \cup BadReward
                  /\ CheckBlockType(b)
                  /\ b \in BadProof => IsInCheckpointZone(Height[b])}

TheLedger == INSTANCE Ledger WITH
  chain <- [i \in DOMAIN SeenEntries |-> SeenEntries[i].hash],
  Sound <- SoundBlocks

(***************************************************************************)
(* Whatever sequence of blocks and transactions add_new_block and          *)
(* handle_incoming_tx are given, the main chain between two calls is valid *)
(* when read from the genesis block on, and each change of it is one step  *)
(* to a better chain.                                                      *)
(***************************************************************************)
ImplementsLedger == TheLedger!Spec

=============================================================================
