---------------------------- MODULE MCDelegates -----------------------------
(***************************************************************************)
(* Three delegates for two places, two coins of different amounts, and PoS *)
(* from height 2.  Address order is not id order.                          *)
(***************************************************************************)
EXTENDS Delegates

MCAddress == [d \in DelegateIds |-> IF d = 1 THEN 2 ELSE IF d = 2 THEN 1 ELSE d]
MCAmount == [k \in Coins |-> IF k = "k1" THEN 1 ELSE 2]
=============================================================================
