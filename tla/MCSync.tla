------------------------------- MODULE MCSync -------------------------------
(***************************************************************************)
(* A node and two peers.                                                   *)
(***************************************************************************)
EXTENDS Sync, TLC

\* The blocks at a height differ in nothing but their id.
MCSame == ("a" :> 1) @@ ("b" :> 1)
=============================================================================
