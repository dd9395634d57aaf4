---------------------------- MODULE MCCheckpoint ----------------------------
(***************************************************************************)
(* A checkpoint on a light branch, and a PoS era that begins at height 3   *)
(* with a block signed by the wrong delegate.                              *)
(*                                                                         *)
(*   G - A1 - A2 - A3          A1: t1    A2: t2    A1 and A3 are heavy     *)
(*    \- B1 - B2* - B3 - B4    B1: t1    B2 is the checkpoint of height 2  *)
(*                \  \- W4     W4 has the wrong signer                     *)
(*                 \- P3       P3 is a PoW block in the PoS era            *)
(***************************************************************************)
EXTENDS CoreLedger, TLC

MCTxs == {"t1", "t2"}
MCKeyImages == {"k1", "k2"}
MCImages == "t1" :> {"k1"} @@ "t2" :> {"k2"}
MCSource == "k1" :> "G" @@ "k2" :> "A1"
MCOffset == [t \in MCTxs |-> "k1" :> 1 @@ "k2" :> 2]

MCBlocks == {"A1", "A2", "A3", "B1", "B2", "B3", "B4", "W4", "P3"}
MCPrev == "A1" :> "G" @@ "A2" :> "A1" @@ "A3" :> "A2"
          @@ "B1" :> "G" @@ "B2" :> "B1" @@ "B3" :> "B2" @@ "B4" :> "B3"
          @@ "W4" :> "B3" @@ "P3" :> "B2"
MCHeight == "A1" :> 1 @@ "A2" :> 2 @@ "A3" :> 3
            @@ "B1" :> 1 @@ "B2" :> 2 @@ "B3" :> 3 @@ "B4" :> 4
            @@ "W4" :> 4 @@ "P3" :> 3
MCDifficulty == [b \in MCBlocks |-> CASE b \in {"A1", "A3"} -> 4 [] b = "W4" -> 3 [] OTHER -> 1]
MCTxHashes == [b \in MCBlocks |->
                 CASE b \in {"A1", "B1"} -> <<"t1">>
                   [] b = "A2" -> <<"t2">>
                   [] OTHER -> <<>>]
MCCheckpoints == 2 :> "B2"

(***************************************************************************)
(* A node that keeps being offered all of the blocks ends up on B4: the    *)
(* checkpoint takes it off the heavier A1, and W4, whose signer is only    *)
(* checked when it is connected, does not keep it from B4.                 *)
(***************************************************************************)
CheckpointWins == Reaches("B4")
=============================================================================
