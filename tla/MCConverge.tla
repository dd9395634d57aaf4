----------------------------- MODULE MCConverge -----------------------------
(***************************************************************************)
(* Two valid branches and an invalid block that looks heavier than both.   *)
(*                                                                         *)
(*   G - A1 - A2               A1: t1                                      *)
(*    \- B1 - B2 - B3          B1: t2  (spends what t1 spends)             *)
(*         \- X2               X2: t1, of difficulty 3                     *)
(***************************************************************************)
EXTENDS Core, TLC

MCTxs == {"t1", "t2"}
MCKeyImages == {"k1"}
MCImages == [t \in MCTxs |-> {"k1"}]
MCSource == "k1" :> "G"
MCOffset == [t \in MCTxs |-> "k1" :> 1]

MCBlocks == {"A1", "A2", "B1", "B2", "B3", "X2"}
MCPrev == "A1" :> "G" @@ "A2" :> "A1"
          @@ "B1" :> "G" @@ "B2" :> "B1" @@ "B3" :> "B2" @@ "X2" :> "B1"
MCHeight == "A1" :> 1 @@ "A2" :> 2 @@ "B1" :> 1 @@ "B2" :> 2 @@ "B3" :> 3 @@ "X2" :> 2
MCDifficulty == [b \in MCBlocks |-> IF b = "X2" THEN 3 ELSE 1]
MCTxHashes == [b \in MCBlocks |->
                 CASE b \in {"A1", "X2"} -> <<"t1">>
                   [] b = "B1" -> <<"t2">>
                   [] OTHER -> <<>>]
NoCheckpoints == [h \in {} |-> "G"]

(***************************************************************************)
(* A node that keeps being offered all of the blocks, in whatever order,   *)
(* ends up on G-B1-B2-B3, the heaviest valid branch:                       *)
(* switch_to_alternative_blockchain gets it off A1, and past X2, whose     *)
(* failed connection is rolled back.                                       *)
(***************************************************************************)
Converges == Reaches("B3")
=============================================================================
