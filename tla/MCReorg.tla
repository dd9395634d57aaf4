------------------------------ MODULE MCReorg -------------------------------
(***************************************************************************)
(* Branches that double spend each other's inputs, with blocks that turn   *)
(* out to be invalid only when they are connected.                         *)
(*                                                                         *)
(*   G - A1 - A2 - A3          A1: t1      A2: t3                          *)
(*    \    \- C2               C2: t2  (spends what t1 spent)              *)
(*     \- B1 - B2 - B3         B1: t2                                      *)
(*         \    \- X3          X3: t3  (t1, whose output t3 spends, is not *)
(*          \                           on this branch)                    *)
(*           |- D2             D2 has a wrong coinbase amount              *)
(*           \- T2             T2 has a timestamp that is too old          *)
(***************************************************************************)
EXTENDS CoreLedger, TLC

MCTxs == {"t1", "t2", "t3"}
MCKeyImages == {"k1", "k2"}
MCImages == "t1" :> {"k1"} @@ "t2" :> {"k1"} @@ "t3" :> {"k2"}
MCSource == "k1" :> "G" @@ "k2" :> "t1"
MCOffset == [t \in MCTxs |-> "k1" :> 1 @@ "k2" :> 3]

MCBlocks == {"A1", "A2", "A3", "B1", "B2", "B3", "X3", "C2", "D2", "T2"}
MCPrev == "A1" :> "G" @@ "A2" :> "A1" @@ "A3" :> "A2" @@ "C2" :> "A1"
          @@ "B1" :> "G" @@ "B2" :> "B1" @@ "B3" :> "B2" @@ "X3" :> "B2"
          @@ "D2" :> "B1" @@ "T2" :> "B1"
MCHeight == "A1" :> 1 @@ "A2" :> 2 @@ "A3" :> 3 @@ "C2" :> 2
            @@ "B1" :> 1 @@ "B2" :> 2 @@ "B3" :> 3 @@ "X3" :> 3
            @@ "D2" :> 2 @@ "T2" :> 2
MCDifficulty == [b \in MCBlocks |-> IF b \in {"A2", "X3", "C2", "D2"} THEN 2 ELSE 1]
MCTxHashes == [b \in MCBlocks |->
                 CASE b = "A1" -> <<"t1">>
                   [] b \in {"A2", "X3"} -> <<"t3">>
                   [] b \in {"B1", "C2"} -> <<"t2">>
                   [] OTHER -> <<>>]
NoCheckpoints == [h \in {} |-> "G"]
=============================================================================
