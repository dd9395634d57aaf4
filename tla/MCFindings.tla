----------------------------- MODULE MCFindings -----------------------------
(***************************************************************************)
(* The smallest block tree in which the three statements below meet the    *)
(* behaviour they speak of.                                                *)
(*                                                                         *)
(*   G - A1                    A1: t1; t2 spends what t1 spends            *)
(*    \- B1 - B2 - B3          B2 has a wrong coinbase amount              *)
(*         \- C2                                                           *)
(***************************************************************************)
EXTENDS Core, TLC

MCTxs == {"t1", "t2"}
MCKeyImages == {"k1"}
MCImages == [t \in MCTxs |-> {"k1"}]
MCSource == "k1" :> "G"
MCOffset == [t \in MCTxs |-> "k1" :> 1]

MCBlocks == {"A1", "B1", "B2", "B3", "C2"}
MCPrev == "A1" :> "G" @@ "B1" :> "G" @@ "B2" :> "B1" @@ "B3" :> "B2" @@ "C2" :> "B1"
MCHeight == "A1" :> 1 @@ "B1" :> 1 @@ "B2" :> 2 @@ "B3" :> 3 @@ "C2" :> 2
MCDifficulty == [b \in MCBlocks |-> CASE b = "A1" -> 2 [] b = "C2" -> 4 [] OTHER -> 1]
MCTxHashes == [b \in MCBlocks |-> IF b = "A1" THEN <<"t1">> ELSE <<>>]
NoCheckpoints == [h \in {} |-> "G"]
=============================================================================
