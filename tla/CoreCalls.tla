----------------------------- MODULE CoreCalls ------------------------------
(***************************************************************************)
(* Every step of the node keeps CallOK, which relates the state of a       *)
(* running add_new_block to the chain it works on.                         *)
(***************************************************************************)
EXTENDS CoreTypes

(***************************************************************************)
(* A finished call is in order whatever the chain is.                      *)
(***************************************************************************)
LEMMA FinishCallOK ==
  ASSUME NEW v, Finish(v)
  PROVE  CallOK'
  BY DEF Finish, CallOK, InSwitch, RollingBack, Connecting

(***************************************************************************)
(* A function that returns leaves its call in order.                       *)
(***************************************************************************)
LEMMA ReturnCallOK ==
  ASSUME CallOK, CallTypeOK, NEW v, ReturnWith(v), pc \in {"main", "txs", "alternative", "walk"},
         DOMAIN alternative \subseteq DOMAIN alternative'
  PROVE  CallOK'
<1>1. CASE caller = "add_new_block"
  BY <1>1, FinishCallOK DEF ReturnWith
<1>2. CASE caller # "add_new_block"
  <2>1. pc' = "returned" /\ UNCHANGED callVars
    BY <1>2 DEF ReturnWith
  <2> QED
    BY <1>2, <2>1 DEF CallOK, InSwitch, RollingBack, Connecting, callVars, CallTypeOK
<1> QED
  BY <1>1, <1>2

(***************************************************************************)
(* The steps of handle_block_to_main_chain.                                *)
(***************************************************************************)
LEMMA MainBlockCallOK ==
  ASSUME IInv, BeginMainBlock \/ AddTransaction \/ RefuseTransaction \/ FinishMainBlock
  PROVE  CallOK'
<1>1. CallTypeOK /\ ChainTypeOK /\ CallOK
  BY DEF IInv, TypeOK
<1>2. CASE BeginMainBlock
  <2>1. CASE HeaderAccepted(cur)
    <3>1. /\ pc = "main" /\ pc' = "txs" /\ ntx' = 0
          /\ UNCHANGED <<caller, cur, path, alt_chain, connected, discard, disconnected, kth,
                         rollback_for, original, entries, alternative, blocks_index>>
      BY <1>2, <2>1 DEF BeginMainBlock
    <3>2. Len(TxHashes[cur]) \in Nat
      BY <1>1, <3>1, BlocksAssumption, LenProperties DEF CallTypeOK
    <3>3. Prev[cur] = Top.hash /\ Height[cur] = Len(entries) /\ Top' = Top
      BY <2>1, <3>1 DEF HeaderAccepted, ChainHeight, Top
    <3> QED
      BY <1>1, <3>1, <3>2, <3>3 DEF CallOK, InSwitch, RollingBack, Connecting
  <2>2. CASE ~HeaderAccepted(cur)
    BY <1>1, <1>2, <2>2, ReturnCallOK DEF BeginMainBlock
  <2> QED
    BY <2>1, <2>2
<1>3. CASE AddTransaction
  <2>1. /\ pc = "txs" /\ ntx < Len(TxHashes[cur]) /\ ntx' = ntx + 1
        /\ UNCHANGED <<pc, caller, cur, path, alt_chain, connected, discard, disconnected, kth,
                       rollback_for, original, entries, alternative, blocks_index>>
    BY <1>3 DEF AddTransaction
  <2>2. Len(TxHashes[cur]) \in Nat /\ ntx \in Nat
    BY <1>1, <2>1, BlocksAssumption, LenProperties DEF CallTypeOK
  <2>3. ntx + 1 <= Len(TxHashes[cur])
    BY <2>1, <2>2
  <2>4. Top' = Top
    BY <2>1 DEF Top
  <2> QED
    BY <1>1, <2>1, <2>3, <2>4 DEF CallOK, InSwitch, RollingBack, Connecting
<1>4. CASE RefuseTransaction
  BY <1>1, <1>4, ReturnCallOK DEF RefuseTransaction
<1>5. CASE FinishMainBlock
  BY <1>1, <1>5, ReturnCallOK DEF FinishMainBlock
<1> QED
  BY <1>2, <1>3, <1>4, <1>5

(***************************************************************************)
(* The steps of handle_alternative_block.                                  *)
(***************************************************************************)
LEMMA AlternativeCallOK ==
  ASSUME IInv, BeginAlternativeBlock \/ WalkBack \/ RefuseAlternative \/ AcceptAlternative
  PROVE  CallOK'
<1>1. CallTypeOK /\ ChainTypeOK /\ CallOK
  BY DEF IInv, TypeOK
<1>2. cur \in Blocks /\ path \in Seq(Blocks)
  BY <1>1 DEF BeginAlternativeBlock, WalkBack, RefuseAlternative, AcceptAlternative, CallTypeOK
<1>3. CASE BeginAlternativeBlock
  <2>1. pc = "alternative" /\ UNCHANGED chainVars
    BY <1>3 DEF BeginAlternativeBlock
  <2>2. CASE ReturnWith("failed") \/ ReturnWith("orphaned")
    BY <1>1, <2>1, <2>2, ReturnCallOK DEF chainVars
  <2>3. CASE ~(ReturnWith("failed") \/ ReturnWith("orphaned"))
    <3>1. /\ pc' = "walk" /\ path' = <<>>
          /\ Prev[cur] \in DOMAIN alternative \cup DOMAIN blocks_index
          /\ UNCHANGED <<caller, cur, ntx, alt_chain, connected, discard,
                         disconnected, kth, rollback_for, original>>
      BY <1>3, <2>3 DEF BeginAlternativeBlock
    <3>2. \A i \in 1..Len(path') : FALSE
      BY <3>1
    <3> QED
      BY <1>1, <2>1, <3>1, <3>2 DEF CallOK, InSwitch, RollingBack, Connecting, chainVars
  <2> QED
    BY <2>2, <2>3
<1>4. CASE WalkBack
  <2>1. /\ pc = "walk" /\ PathParent \in DOMAIN alternative /\ PathParent \in Blocks
        /\ path' = <<PathParent>> \o path
        /\ UNCHANGED <<pc, caller, cur, ntx, alt_chain, connected, disconnected, kth,
                       rollback_for, entries, alternative, blocks_index>>
    BY <1>1, <1>4 DEF WalkBack, ChainTypeOK, chainVars
  <2>2. /\ Len(path') = Len(path) + 1 /\ Len(path) \in Nat /\ path'[1] = PathParent
        /\ \A i \in 2..Len(path') : path'[i] = path[i - 1]
    <3>1. <<PathParent>> \in Seq(Blocks) /\ Len(<<PathParent>>) = 1 /\ <<PathParent>>[1] = PathParent
      BY <2>1
    <3>2. Len(path) \in Nat
      BY <1>2, LenProperties
    <3>3. Len(path') = 1 + Len(path)
      BY <1>2, <2>1, <3>1, ConcatProperties
    <3>4. \A i \in 1..(1 + Len(path)) : path'[i] = IF i <= 1 THEN <<PathParent>>[i] ELSE path[i - 1]
      BY <1>2, <2>1, <3>1, ConcatProperties
    <3> QED
      BY <3>1, <3>2, <3>3, <3>4
  <2>3. \A i \in 1..Len(path') : path'[i] \in DOMAIN alternative
    <3>1. \A i \in 1..Len(path) : path[i] \in DOMAIN alternative
      BY <1>1, <2>1 DEF CallOK
    <3> QED
      BY <2>1, <2>2, <3>1
  <2>4. path'[Len(path')] = Prev[cur]
    <3>1. CASE path = <<>>
      <4>1. Len(path') = 1
        BY <2>2, <3>1
      <4> QED
        BY <2>2, <3>1, <4>1 DEF PathParent
    <3>2. CASE path # <<>>
      <4>1. Len(path) >= 1
        BY <1>1, <3>2, CallSequences
      <4> QED
        BY <1>1, <2>1, <2>2, <3>2, <4>1 DEF CallOK
    <3> QED
      BY <3>1, <3>2
  <2> QED
    BY <1>1, <2>1, <2>3, <2>4 DEF CallOK, InSwitch, RollingBack, Connecting
<1>5. CASE RefuseAlternative
  BY <1>1, <1>5, ReturnCallOK DEF RefuseAlternative
<1>6. CASE AcceptAlternative
  <2>1. pc = "walk" /\ DOMAIN alternative' = DOMAIN alternative \cup {cur}
    BY <1>6 DEF AcceptAlternative, Put
  <2>2. CASE ReturnWith("alternative")
    BY <1>1, <2>1, <2>2, ReturnCallOK
  <2>3. CASE StartsSwitch
    <3>1. /\ pc' = IF caller = "push" THEN "nested" ELSE "disconnect"
          /\ alt_chain' = Append(path, cur)
          /\ UNCHANGED <<caller, connected, kth, rollback_for>>
      BY <1>6, <2>3 DEF AcceptAlternative
    <3>2. caller \in {"add_new_block", "push"} /\ connected \in Nat
      BY <1>1, <2>1 DEF CallOK, CallTypeOK
    <3>3. /\ Append(path, cur) # <<>> /\ Len(Append(path, cur)) = Len(path) + 1 /\ Len(path) \in Nat
          /\ Append(path, cur)[1] \in DOMAIN alternative'
      <4>1. /\ Append(path, cur) # <<>> /\ Len(Append(path, cur)) = Len(path) + 1
            /\ \A i \in 1..Len(path) : Append(path, cur)[i] = path[i]
            /\ Append(path, cur)[Len(path) + 1] = cur
        BY <1>2, AppendProperties
      <4>2. Len(path) \in Nat /\ \A i \in 1..Len(path) : path[i] \in DOMAIN alternative
        BY <1>1, <2>1, CallSequences DEF CallOK
      <4>3. Append(path, cur)[1] \in DOMAIN alternative'
        BY <2>1, <4>1, <4>2
      <4> QED
        BY <4>1, <4>2, <4>3
    <3>4. CASE caller = "add_new_block"
      BY <1>1, <2>1, <3>1, <3>3, <3>4 DEF CallOK, InSwitch, RollingBack, Connecting
    <3>5. CASE caller = "push"
      BY <1>1, <2>1, <3>1, <3>2, <3>3, <3>5 DEF CallOK, InSwitch, RollingBack, Connecting
    <3> QED
      BY <3>2, <3>4, <3>5
  <2> QED
    BY <1>6, <2>2, <2>3 DEF AcceptAlternative
<1> QED
  BY <1>3, <1>4, <1>5, <1>6

(***************************************************************************)
(* The steps of switch_to_alternative_blockchain.                          *)
(***************************************************************************)
LEMMA SwitchCallOK ==
  ASSUME IInv, \/ DisconnectBlock \/ ConnectNextBlock \/ ConnectReturned
               \/ PushOldBlock \/ PushReturned \/ FinishSwitch
  PROVE  CallOK'
<1>1. CallTypeOK /\ ChainTypeOK /\ CallOK
  BY DEF IInv, TypeOK
<1>2. CASE DisconnectBlock
  <2>1. CASE PopSucceeds
    <3>1. /\ pc = "disconnect" /\ alternative' = alternative
          /\ UNCHANGED <<pc, caller, alt_chain, connected, kth, rollback_for>>
      BY <1>2, <2>1 DEF DisconnectBlock, PopBlock
    <3> QED
      BY <1>1, <3>1 DEF CallOK, InSwitch, RollingBack, Connecting
  <2>2. CASE ~PopSucceeds
    BY <1>2, <2>2, FinishCallOK DEF DisconnectBlock
  <2> QED
    BY <2>1, <2>2
<1>3. CASE ConnectNextBlock
  <2>1. /\ pc \in {"disconnect", "connect"} /\ pc' = "main" /\ caller' = "connect"
        /\ alternative' = alternative
        /\ UNCHANGED <<alt_chain, connected, kth, rollback_for>>
    BY <1>3 DEF ConnectNextBlock, Call, chainVars
  <2>2. rollback_for' = "none"
    BY <1>1, <2>1 DEF CallOK, RollingBack
  <2> QED
    BY <1>1, <2>1, <2>2 DEF CallOK, InSwitch, RollingBack, Connecting
<1>4. CASE ConnectReturned
  <2>1. /\ pc = "returned" /\ caller = "connect" /\ kth' = 1
        /\ alternative' = alternative /\ UNCHANGED <<caller, alt_chain>>
    BY <1>4 DEF ConnectReturned, chainVars
  <2>2. connected \in Nat /\ connected < Len(alt_chain) /\ Len(alt_chain) \in Nat
    BY <1>1, <2>1, CallSequences DEF CallOK, CallTypeOK, Connecting
  <2>3. CASE bvc = "added"
    <3>1. /\ connected' = connected + 1 /\ rollback_for' = rollback_for
          /\ pc' = IF connected + 1 < Len(alt_chain) THEN "connect" ELSE "push"
      BY <1>4, <2>3 DEF ConnectReturned
    <3> QED
      BY <1>1, <2>1, <2>2, <3>1 DEF CallOK, InSwitch, RollingBack, Connecting
  <2>4. CASE bvc # "added"
    <3>1. pc' = "rollback" /\ rollback_for' = "connect" /\ connected' = connected
      BY <1>4, <2>4 DEF ConnectReturned
    <3> QED
      BY <1>1, <2>1, <2>2, <3>1 DEF CallOK, InSwitch, RollingBack, Connecting
  <2> QED
    BY <2>3, <2>4
<1>5. CASE PushOldBlock
  <2>1. /\ pc = "push" /\ pc' = "alternative" /\ caller' = "push" /\ alternative' = alternative
        /\ UNCHANGED <<alt_chain, connected, kth, rollback_for>>
    BY <1>5 DEF PushOldBlock, Call, chainVars
  <2>2. rollback_for' = "none"
    BY <1>1, <2>1 DEF CallOK, RollingBack
  <2> QED
    BY <1>1, <2>1, <2>2 DEF CallOK, InSwitch, RollingBack, Connecting
<1>6. CASE PushReturned
  <2>1. /\ pc = "returned" /\ caller = "push" /\ alternative' = alternative
        /\ UNCHANGED <<caller, alt_chain, connected>>
        /\ \/ pc' = "push" /\ kth' = kth + 1 /\ rollback_for' = rollback_for
           \/ pc' = "rollback" /\ rollback_for' = "push" /\ kth' = 1
    BY <1>6 DEF PushReturned, chainVars
  <2>2. rollback_for = "none" /\ kth \in Nat
    BY <1>1, <2>1 DEF CallOK, RollingBack, CallTypeOK
  <2>3. kth' >= 1
    <3>1. kth >= 1
      BY <1>1, <2>1 DEF CallOK
    <3> QED
      BY <2>1, <2>2, <3>1
  <2>4. alt_chain' # <<>> /\ alt_chain'[1] \in DOMAIN alternative' /\ ~Connecting'
    BY <1>1, <2>1, <2>2 DEF CallOK, InSwitch, Connecting
  <2> QED
    BY <2>1, <2>2, <2>3, <2>4 DEF CallOK, InSwitch, RollingBack
<1>7. CASE FinishSwitch
  BY <1>7, FinishCallOK DEF FinishSwitch
<1> QED
  BY <1>2, <1>3, <1>4, <1>5, <1>6, <1>7

(***************************************************************************)
(* The steps of rollback_blockchain_switching, and what follows it.        *)
(***************************************************************************)
LEMMA RollbackCallOK ==
  ASSUME IInv, RollbackPop \/ RestoreOldBlock \/ RollbackReturned \/ RollbackDone
  PROVE  CallOK'
<1>1. CallTypeOK /\ ChainTypeOK /\ CallOK
  BY DEF IInv, TypeOK
<1>2. CASE RollbackPop
  <2>1. /\ pc = "rollback" /\ pc' \in {"rollback", "abandon"} /\ alternative' = alternative
        /\ UNCHANGED <<caller, alt_chain, connected, kth, rollback_for>>
    BY <1>2 DEF RollbackPop, PopBlock, callVars, chainVars
  <2> QED
    BY <1>1, <2>1 DEF CallOK, InSwitch, RollingBack, Connecting
<1>3. CASE RestoreOldBlock
  <2>1. /\ pc \in {"rollback", "restore"} /\ alternative' = alternative
        /\ \/ pc' = "main" /\ caller' = "rollback"
           \/ pc' = "abandon" /\ caller' = caller
        /\ UNCHANGED <<alt_chain, connected, kth, rollback_for>>
    BY <1>3 DEF RestoreOldBlock, chainVars
  <2> QED
    BY <1>1, <2>1 DEF CallOK, InSwitch, RollingBack, Connecting
<1>4. CASE RollbackReturned
  <2>1. /\ pc = "returned" /\ caller = "rollback" /\ alternative' = alternative
        /\ \/ pc' = "restore" /\ kth' = kth + 1
           \/ pc' = "abandon" /\ kth' = kth
        /\ UNCHANGED <<caller, alt_chain, connected, rollback_for>>
    BY <1>4 DEF RollbackReturned, chainVars
  <2>2. kth \in Nat
    BY <1>1 DEF CallTypeOK
  <2> QED
    <3>1. kth' >= 1
      <4>1. kth >= 1
        BY <1>1, <2>1 DEF CallOK
      <4> QED
        BY <2>1, <2>2, <4>1
    <3>2. InSwitch /\ alt_chain' # <<>> /\ alt_chain'[1] \in DOMAIN alternative'
      BY <1>1, <2>1 DEF CallOK, InSwitch
    <3>3. Connecting' => connected' < Len(alt_chain')
      BY <1>1, <2>1 DEF CallOK, Connecting
    <3> QED
      BY <2>1, <3>1, <3>2, <3>3 DEF CallOK, InSwitch, RollingBack
<1>5. CASE RollbackDone
  BY <1>5, FinishCallOK DEF RollbackDone, AbandonSwitch
<1> QED
  BY <1>2, <1>3, <1>4, <1>5

(***************************************************************************)
(* Every step of the node keeps CallOK.                                    *)
(***************************************************************************)
LEMMA CallStep ==
  ASSUME IInv, [Next]_vars
  PROVE  CallOK'
<1>1. CallOK /\ CallTypeOK
  BY DEF IInv, TypeOK
<1>2. ASSUME NEW b \in Blocks, HandleIncomingBlock(b)
      PROVE  CallOK'
  <2>1. /\ pc = "idle" /\ pc' \in {"idle", "main", "alternative"}
        /\ UNCHANGED <<caller, connected, kth, rollback_for>>
    BY <1>2 DEF HandleIncomingBlock, AddNewBlock
  <2> QED
    BY <1>1, <2>1 DEF CallOK, InSwitch, RollingBack, Connecting
<1>3. CASE ChainStep /\ UNCHANGED txVars
  BY <1>3, MainBlockCallOK, AlternativeCallOK, SwitchCallOK, RollbackCallOK DEF ChainStep
<1>4. CASE IncomingTxStep \/ EnvironmentStep \/ UNCHANGED vars
  <2>1. UNCHANGED <<pc, callVars, chainVars>>
    BY <1>4 DEF IncomingTxStep, HandleIncomingTx, TxNotInChain, TxCanAdd, TxValidate, TxInsert,
                EnvironmentStep, LonghashArrives, TimePasses, vars
  <2> QED
    BY <1>1, <2>1, ZenonT(60) DEF CallOK, InSwitch, RollingBack, Connecting, callVars, chainVars, Top
<1> QED
  BY <1>2, <1>3, <1>4 DEF Next, IncomingTxStep, EnvironmentStep

=============================================================================
